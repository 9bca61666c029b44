------------------------- MODULE ConsumerResetPage -------------------------
(***************************************************************************)
(* The consumer-group table and the reset-offsets dialog together: the     *)
(* reset links that open the dialog are in the table's rows, so a dialog  *)
(* can be opened only for a group of the page on screen.  Each component   *)
(* steps with the other's variables unchanged.                             *)
(***************************************************************************)
EXTENDS Bags

CONSTANTS Groups, Directives, Values, MaxOpens, MaxClicks, NoGroup, NoValue,
          NoResult, GroupPages

VARIABLES handlers, chosen, valueShown, dialogGroup, lastClick, inFlight,
          display, opens, clicks, consumerShown, consumerInFlight

Dialog == INSTANCE ResetOffsets
Table == INSTANCE ConsumerGroupTable

dialogVars == <<handlers, chosen, valueShown, dialogGroup, lastClick, inFlight,
                display, opens, clicks>>

tableVars == <<consumerShown, consumerInFlight>>

vars == <<dialogVars, tableVars>>

\* The click on the reset link of a row the table has drawn.
OpenFromRow(g) ==
    /\ g \in Table!ShownGroups
    /\ Dialog!OpenDialog(g)
    /\ UNCHANGED tableVars

\* The dialog's other callbacks, which the table does not see.
DialogStep ==
    /\ \/ \E d \in Directives : Dialog!SelectDirective(d)
       \/ \E v \in Values : Dialog!ResetClick(v)
       \/ \E c \in BagToSet(inFlight), o \in Dialog!Outcomes :
              Dialog!ExecuteAnswer(c, o)
    /\ UNCHANGED tableVars

TableStep == Table!TableNext /\ UNCHANGED dialogVars

Init == Dialog!Init /\ Table!TableInit

Next == (\E g \in Groups : OpenFromRow(g)) \/ DialogStep \/ TableStep

Spec == Init /\ [][Next]_vars

TypeOK == Dialog!TypeOK /\ Table!TableTypeOK

====
