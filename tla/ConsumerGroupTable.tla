------------------------- MODULE ConsumerGroupTable -------------------------
(***************************************************************************)
(* The consumer-group table of the topic meta page (topic.meta.js): a      *)
(* server-side DataTable whose fnServerData is retrieveData.  Its rows     *)
(* carry the reset links of the consumer groups.  retrieveData has no      *)
(* error callback, answers arrive in any order, and each one that arrives  *)
(* is drawn.  The table has no initComplete.                               *)
(***************************************************************************)
CONSTANTS
    GroupPages    \* GroupPages[i]: the consumer groups listed on page i

VARIABLES
    consumerShown,    \* page of the table on screen, 0 before its first draw
    consumerInFlight  \* pages requested and not yet answered

tableVars == <<consumerShown, consumerInFlight>>

ConsumerPageNums == DOMAIN GroupPages

\* The groups whose reset link is on screen.
ShownGroups == IF consumerShown = 0 THEN {} ELSE GroupPages[consumerShown]

\* The operator opens another page of the drawn table.
ConsumerPageChange(p) ==
    /\ consumerShown # 0
    /\ consumerInFlight' = consumerInFlight \cup {p}
    /\ UNCHANGED consumerShown

\* retrieveData's success: fnCallback(data) draws the page.
ConsumerReply(p) ==
    /\ p \in consumerInFlight
    /\ consumerInFlight' = consumerInFlight \ {p}
    /\ consumerShown' = p

\* A failed request: no error callback, the table keeps what it shows.
ConsumerLost(p) ==
    /\ p \in consumerInFlight
    /\ consumerInFlight' = consumerInFlight \ {p}
    /\ UNCHANGED consumerShown

\* The table is built at page load and requests its first page at once.
TableInit ==
    /\ consumerShown = 0
    /\ consumerInFlight = {1}

TableNext ==
    \E p \in ConsumerPageNums :
        ConsumerPageChange(p) \/ ConsumerReply(p) \/ ConsumerLost(p)

TableTypeOK ==
    /\ consumerShown \in {0} \cup ConsumerPageNums
    /\ consumerInFlight \subseteq ConsumerPageNums

====
