-------------------------- MODULE MCResetOffsets --------------------------
(***************************************************************************)
(* Model values for ResetOffsets: two consumer groups, the three terminal *)
(* directives and one that takes a value, one typed value.                 *)
(***************************************************************************)
EXTENDS ResetOffsets

MCDirectives == {"--to-earliest", "--to-latest", "--to-current", "--to-offset"}

====
