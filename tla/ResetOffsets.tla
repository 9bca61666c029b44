---------------------------- MODULE ResetOffsets ----------------------------
(***************************************************************************)
(* The reset-offsets dialog of the topic meta page (topic.meta.js).  Each  *)
(* click on a consumer group's reset link opens the dialog and binds, with *)
(* .on(), one more select2:select handler and one more click handler on    *)
(* the reset button; each pair shares its own closure variable text and    *)
(* keeps its own group.  Nothing is ever unbound.  Every bound click       *)
(* handler posts a command through execute(); the answers arrive in any   *)
(* order and write into one result area.                                   *)
(***************************************************************************)
EXTENDS Naturals, Sequences, Bags, BagsExt, SequencesExt

CONSTANTS
    Groups,       \* consumer groups whose reset link the operator can click
    Directives,   \* texts of the reset types the directive list offers
    Values,       \* what the operator may type in #ke_reset_offset_val
    MaxOpens,     \* bound on dialog openings
    MaxClicks,    \* bound on clicks on the reset button
    NoGroup,      \* no dialog opened yet
    NoValue,      \* a command without a value field
    NoResult      \* the result area before any answer

\* The directives for which no value is sent and the value field is hidden.
Terminal == {"--to-earliest", "--to-latest", "--to-current"}

ASSUME Terminal \subseteq Directives /\ "" \notin Directives
ASSUME MaxOpens \in Nat /\ MaxClicks \in Nat

\* What a reset answer can hold: success with result, error, both, or
\* neither (success false, a null body, or a failed request).
Outcomes == {"result", "error", "both", "none"}

VARIABLES
    handlers,     \* the bound handler pairs, in binding order: group and text
    chosen,       \* the directive the select2 box shows, "" for the placeholder
    valueShown,   \* #ke_reset_offset_value is visible
    dialogGroup,  \* the group of the dialog last opened
    lastClick,    \* the commands posted by the last click, in order
    inFlight,     \* bag of posted commands not yet answered
    display,      \* what #topicResetOffsets shows
    opens,        \* dialog openings so far
    clicks        \* reset clicks so far

vars == <<handlers, chosen, valueShown, dialogGroup, lastClick, inFlight,
          display, opens, clicks>>

Command == [group : Groups, cmd : Directives \cup {""},
            value : Values \cup {NoValue}]

\* text.indexOf("--to-earliest") > -1 || ... "--to-latest" ... "--to-current"
IsTerminal(text) == text \in Terminal

\* Mutant: the json built without its value field.
ResetCommandNoValueField(h, v) == [group |-> h.group, cmd |-> h.text]

\* The json one click handler builds from its closure: with "value" only
\* when the directive is not terminal.
ResetCommand(h, v) ==
    [group |-> h.group, cmd |-> h.text,
     value |-> IF IsTerminal(h.text) THEN NoValue ELSE v]

OpenDialog(g) ==
    /\ opens < MaxOpens
    /\ opens' = opens + 1
    /\ handlers' = Append(handlers, [group |-> g, text |-> ""])
    /\ chosen' = ""
    /\ valueShown' = FALSE
    /\ dialogGroup' = g
    /\ UNCHANGED <<lastClick, inFlight, display, clicks>>

\* select2:select: every bound select handler stores the text in its own
\* closure and shows or hides the value field.  The box shows the text;
\* .val(text) matches no option, whose values are the ids of
\* processResults, so the select itself is left without a value.
SelectDirective(d) ==
    /\ handlers # <<>>
    /\ handlers' = [i \in DOMAIN handlers |-> [handlers[i] EXCEPT !.text = d]]
    /\ chosen' = d
    /\ valueShown' = ~IsTerminal(d)
    /\ UNCHANGED <<dialogGroup, lastClick, inFlight, display, opens, clicks>>

\* The reset button: every bound click handler builds its command and
\* calls execute(JSON.stringify(json)), in binding order.
ResetClick(v) ==
    /\ handlers # <<>>
    /\ clicks < MaxClicks
    /\ clicks' = clicks + 1
    /\ LET sent == [i \in DOMAIN handlers |-> ResetCommand(handlers[i], v)]
       IN /\ lastClick' = sent
          /\ inFlight' = inFlight (+) ToBag(sent)
    /\ UNCHANGED <<handlers, chosen, valueShown, dialogGroup, display, opens>>

\* execute()'s success callback: the area keeps what it showed when the body
\* is null or holds neither field, and is otherwise written from this answer.
Shown(c, o) == IF o = "none" THEN display ELSE [of |-> c, body |-> o]

\* The fields whose text the area ends up holding for an answer: result is
\* written when success holds, then error, when present, over it.
Rendered(body) == IF body = "result" THEN {"result"} ELSE {"error"}

ExecuteAnswer(c, o) ==
    /\ BagIn(c, inFlight)
    /\ inFlight' = BagRemove(inFlight, c)
    /\ display' = Shown(c, o)
    /\ UNCHANGED <<handlers, chosen, valueShown, dialogGroup, lastClick, opens,
                   clicks>>

Init ==
    /\ handlers = <<>>
    /\ chosen = ""
    /\ valueShown = FALSE
    /\ dialogGroup = NoGroup
    /\ lastClick = <<>>
    /\ inFlight = EmptyBag
    /\ display = NoResult
    /\ opens = 0
    /\ clicks = 0

Next ==
    \/ \E g \in Groups : OpenDialog(g)
    \/ \E d \in Directives : SelectDirective(d)
    \/ \E v \in Values : ResetClick(v)
    \/ \E c \in BagToSet(inFlight), o \in Outcomes : ExecuteAnswer(c, o)

Spec == Init /\ [][Next]_vars

TypeOK ==
    /\ handlers \in Seq([group : Groups, text : Directives \cup {""}])
    /\ chosen \in Directives \cup {""}
    /\ valueShown \in BOOLEAN
    /\ dialogGroup \in Groups \cup {NoGroup}
    /\ lastClick \in Seq(Command)
    /\ IsABag(inFlight) /\ BagToSet(inFlight) \subseteq Command
    /\ display \in [of : Command, body : Outcomes \ {"none"}] \cup {NoResult}
    /\ opens \in 0..MaxOpens
    /\ clicks \in 0..MaxClicks

ClickPostsShownCommand ==
    [][clicks' > clicks =>
         \A i \in DOMAIN lastClick' :
             lastClick'[i].group = dialogGroup /\ lastClick'[i].cmd = chosen]_vars

\* Spec 4.7: the answer's result and error are written into the result
\* area, both when both are present.  Once every posted command is
\* answered, the area should show the full answer to a command of the last
\* click.  The second .text() call replaces the first, and answers carry no
\* token and are written when they arrive, so the area can hold only the
\* error, or the answer to an earlier click for another directive.
ResultAreaCurrent ==
    display # NoResult =>
        /\ display.body = "both" => Rendered(display.body) = {"result", "error"}
        /\ inFlight = EmptyBag => display.of \in ToSet(lastClick)

====
