--------------------------- MODULE MessagePreview ---------------------------
(***************************************************************************)
(* The message preview dialog of the topic meta page (topic.meta.js).  A   *)
(* click on a preview link of a meta row opens #ke_topic_preview, a modal  *)
(* with a static backdrop and no keyboard close, and sends one GET for the *)
(* link's partition.  The dialog text is not cleared when it opens; each   *)
(* answer that is not null writes its preview over it, whenever it comes.  *)
(***************************************************************************)
EXTENDS Naturals, Bags, BagsExt

CONSTANTS
    Partitions,   \* partitions of the preview links in the meta rows
    MaxClicks,    \* bound on clicks on preview links
    NoPartition,  \* no link clicked yet
    NoText        \* #ke_tp_preview_message before any answer

ASSUME MaxClicks \in Nat

\* What a preview request can end with: a JSON body, or nothing written
\* (a null body, or a failed request: there is no error callback).
Answers == {"data", "none"}

VARIABLES
    open,       \* the modal is shown
    clicked,    \* the partition of the link last clicked
    text,       \* the partition whose preview the dialog text holds
    inFlight,   \* bag of partitions whose preview request is unanswered
    clicks      \* preview clicks so far

vars == <<open, clicked, text, inFlight, clicks>>

\* The click handler: show the modal (its backdrop covers the page, so no
\* other link can be clicked while it is open) and send the GET.
Click(p) ==
    /\ ~open
    /\ clicks < MaxClicks
    /\ clicks' = clicks + 1
    /\ open' = TRUE
    /\ clicked' = p
    /\ inFlight' = BagAdd(inFlight, p)
    /\ UNCHANGED text

\* The modal's dismiss control: backdrop 'static' and keyboard false leave
\* it as the only way to close the dialog.  Nothing is cancelled.
Close ==
    /\ open
    /\ open' = FALSE
    /\ UNCHANGED <<clicked, text, inFlight, clicks>>

\* What the success callback leaves in the dialog text.
Written(p, a) == IF a = "data" THEN p ELSE text

\* The answer to the preview request for partition p, open dialog or not.
PreviewAnswer(p, a) ==
    /\ BagIn(p, inFlight)
    /\ inFlight' = BagRemove(inFlight, p)
    /\ text' = Written(p, a)
    /\ UNCHANGED <<open, clicked, clicks>>

Init ==
    /\ open = FALSE
    /\ clicked = NoPartition
    /\ text = NoText
    /\ inFlight = EmptyBag
    /\ clicks = 0

Next ==
    \/ \E p \in Partitions : Click(p)
    \/ Close
    \/ \E p \in BagToSet(inFlight), a \in Answers : PreviewAnswer(p, a)

Spec == Init /\ [][Next]_vars

TypeOK ==
    /\ open \in BOOLEAN
    /\ clicked \in Partitions \cup {NoPartition}
    /\ text \in Partitions \cup {NoText}
    /\ IsABag(inFlight) /\ BagToSet(inFlight) \subseteq Partitions
    /\ clicks \in 0..MaxClicks

\* Spec 6: the dialog renders the preview payload of the clicked link's
\* partition.  Once every preview request is answered, an open dialog
\* should show the preview of the partition it was opened for; the code
\* neither clears the text on opening nor discards an answer to an
\* earlier click, so a late answer or a null one leaves another
\* partition's preview under the dialog.
PreviewOfClicked ==
    open /\ inFlight = EmptyBag => text \in {clicked, NoText}

====
