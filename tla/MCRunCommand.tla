---------------------------- MODULE MCRunCommand ----------------------------
EXTENDS RunCommand

CONSTANTS vrchat, twitter

\* The order run.go lists them in.
Taggers == <<vrchat, twitter>>
=============================================================================
