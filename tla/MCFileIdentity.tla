--------------------------- MODULE MCFileIdentity ----------------------------
\* Two Hydrus databases that share a file: h2 is file 2 of one and 1 of the other.
EXTENDS FileIdentity
CONSTANTS home, away, h1, h2, h3
TwoDatabases ==
  [c \in Client |-> IF c = home THEN [i \in Id |-> IF i = 1 THEN h1 ELSE h2]
                    ELSE [i \in Id |-> IF i = 1 THEN h2 ELSE h3]]
=============================================================================
