--------------------------- MODULE MCDirectiveList ---------------------------
\* DirectiveList for TLC.
EXTENDS DirectiveList

====
