--------------------------- MODULE MCTaggerVrchat ---------------------------
\* TaggerRun for a tagger like internal/vrchat's: it extracts, and derives from
\* the cached artifact alone, so a file is derived again only when extracted
\* again or when the derive version moved.
EXTENDS TaggerRun, TLC

CONSTANTS t1, t2, t3

\* Without an artifact there is nothing to derive from.
VrchatTagsOf(f, d, c, m) ==
  IF c = 0 THEN Empty ELSE IF c = 2 THEN t3 ELSE IF d = 1 THEN t1 ELSE t2

\* Files are alike, and so are the processes that are no dry runs.
Symmetry == Permutations(File) \cup Permutations(Proc \ DryRun)
=============================================================================
