------------------------ MODULE MCConsumerResetPage ------------------------
(***************************************************************************)
(* Model values for ConsumerResetPage: one consumer group on each of two  *)
(* table pages, so the second group's dialog needs a page change; the     *)
(* three terminal directives and one that takes a value.                  *)
(***************************************************************************)
EXTENDS ConsumerResetPage

MCDirectives == {"--to-earliest", "--to-latest", "--to-current", "--to-offset"}

CONSTANTS G1, G2   \* the two consumer groups, model values

MCGroupPages == <<{G1}, {G2}>>

====
