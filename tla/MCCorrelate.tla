----------------------------- MODULE MCCorrelate -----------------------------
EXTENDS Correlate

\* The default of DefaultOptions, and three quarters of the winner instead of its six
\* tenths, which take more files to be hit exactly: one half is that of two thirds.
Half         == [num |-> 1, den |-> 2]
ThreeQuarter == [num |-> 3, den |-> 4]
=============================================================================
