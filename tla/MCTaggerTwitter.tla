--------------------------- MODULE MCTaggerTwitter ---------------------------
\* TaggerRun for a tagger like internal/twitter's: nothing is extracted, and tags
\* come from live Hydrus metadata, on every run.  The power may fail.
EXTENDS TaggerPower

CONSTANTS f1, t1, t2

\* One file's known URL is replaced by another; the others' is added late.
TwitterTagsOf(f, d, c, m) ==
  IF f = f1 THEN IF m = 0 THEN t1 ELSE t2 ELSE IF m = 0 THEN Empty ELSE t1

=============================================================================
