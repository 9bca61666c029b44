--------------------------- MODULE TopicMetaPage ---------------------------
(***************************************************************************)
(* The tables of the topic meta page (topic.meta.js): the partition meta   *)
(* table, the message table with its partition selector and date-range     *)
(* picker, and the readiness gate between the two tables' initComplete     *)
(* callbacks.  The page is one browser thread; every action below is one   *)
(* callback run to completion: a user event, or the arrival of an AJAX     *)
(* answer.  Requests are answered in any order and may fail.              *)
(***************************************************************************)
EXTENDS Naturals, Sequences, FiniteSets, SequencesExt

CONSTANTS
    Partitions,     \* partition ids of the topic (0 is also the "none" value)
    MetaPages,      \* MetaPages[i]: partition column of page i of the meta table
    Ranges,         \* date ranges the operator can apply in the picker
    DefaultRange,   \* getDefaultStartTime()..getDefaultEndTime()
    MaxPage,        \* pages of the message table the operator can open
    Replies,        \* what the message endpoint may answer, see MsgReply
    MaxFetches,     \* bound on operator-triggered message fetches
    NoSelection,    \* the partition select holds no value
    NoLabel,        \* the date-range label span is still empty
    NoData          \* the message table has drawn nothing yet

ASSUME Partitions \subseteq Nat /\ 0 \in Partitions
ASSUME MetaPages # <<>> /\ \A i \in DOMAIN MetaPages :
          MetaPages[i] # <<>> /\ ToSet(MetaPages[i]) \subseteq Partitions
ASSUME DefaultRange \in Ranges
ASSUME Replies \subseteq {"list", "nolist", "null", "malformed", "double", "transport"}
ASSUME MaxPage \in Nat \ {0} /\ MaxFetches \in Nat

\* "iDisplayLength": 10 and the divisor of line 83.
PageLength == 10

VARIABLES
    metaTableLoaded,     \* line 5
    messageTableLoaded,  \* line 6
    metaShown,           \* page of the meta table on screen, 0 before its first draw
    metaInFlight,        \* pages of the meta table requested and not yet answered
    msgInFlight,         \* message requests sent and not yet answered
    msgShown,            \* the request whose answer the message table shows
    displayStart,        \* the message table's iDisplayStart
    options,             \* the options of #select2-partition, in order
    selected,            \* the value of #select2-partition
    label,               \* the text range of #detail_date_range span
    fetches,             \* operator-triggered message fetches so far
    hungDraws,           \* message draws whose callback was never called
    metaLost,            \* a meta request failed (history)
    partitionInits       \* times initPartition() ran (history)

vars == <<metaTableLoaded, messageTableLoaded, metaShown, metaInFlight,
          msgInFlight, msgShown, displayStart, options, selected, label,
          fetches, hungDraws, metaLost, partitionInits>>

MetaPageNums == 1..Len(MetaPages)

Request == [page : 1..MaxPage, partition : Partitions, range : Ranges]

(***************************************************************************)
(* Reading the filter inputs.                                              *)
(***************************************************************************)

\* Mutant: the null check of getPartitionInfo() dropped.
PartitionInfoNoDefault == selected

\* getPartitionInfo(): the select's value, or 0 when it holds none.
PartitionInfo == IF selected = NoSelection THEN 0 ELSE selected

\* getCalendarDateRange(): the label split at " To ", or the default range
\* when the label has fewer than two parts (it is empty before initCalendar).
CalendarDateRange == IF label = NoLabel THEN DefaultRange ELSE label

\* page = Math.floor(iDisplayStart / 10) + 1
PageOf(offset) == offset \div PageLength + 1

\* fnServerData of the message table followed by fetchTopicMessageData: the
\* request is built from the inputs as they are when the draw starts.
FetchMessages(start) ==
    /\ displayStart' = start
    /\ msgInFlight' = msgInFlight \cup
          {[page |-> PageOf(start), partition |-> PartitionInfo,
            range |-> CalendarDateRange]}

(***************************************************************************)
(* The readiness gate.                                                     *)
(***************************************************************************)

\* initPartition(): the options are the partition column of the meta page on
\* screen (empty before the meta table's first draw); the first is selected.
InitPartition(column) ==
    /\ options' = column
    /\ selected' = IF column # <<>> THEN Head(column) ELSE selected
    /\ partitionInits' = partitionInits + 1

\* Mutant: checkAndInitPartition() without its messageTableLoaded test.
CheckAndInitPartitionUngated(msgLoaded, column) == InitPartition(column)

\* checkAndInitPartition(): tests messageTableLoaded twice, never
\* metaTableLoaded.
CheckAndInitPartition(msgLoaded, column) ==
    IF msgLoaded /\ msgLoaded
    THEN InitPartition(column)
    ELSE UNCHANGED <<options, selected, partitionInits>>

\* Mutant: the message table's initComplete without its initCalendar()
\* call, so cb(start, end) never writes the label.
InitCalendarSkipped == UNCHANGED label

\* initCalendar(): cb(start, end) writes the default range into the label.
InitCalendar == label' = DefaultRange

(***************************************************************************)
(* The meta table.                                                         *)
(***************************************************************************)

\* The operator opens another page of the drawn meta table; retrieveData
\* sends the request.
MetaPageChange(p) ==
    /\ metaShown # 0
    /\ metaInFlight' = metaInFlight \cup {p}
    /\ UNCHANGED <<metaTableLoaded, messageTableLoaded, metaShown, msgInFlight,
                   msgShown, displayStart, options, selected, label, fetches,
                   hungDraws, metaLost, partitionInits>>

\* Mutant: the meta table's initComplete without checkAndInitPartition().
MetaReplySkipCheck(p) ==
    /\ p \in metaInFlight
    /\ metaInFlight' = metaInFlight \ {p}
    /\ metaShown' = p
    /\ metaTableLoaded' = TRUE
    /\ UNCHANGED <<messageTableLoaded, msgInFlight, msgShown, displayStart,
                   label, fetches, hungDraws, metaLost, options, selected,
                   partitionInits>>

\* retrieveData's success: fnCallback(data) draws the page; on the first draw
\* initComplete sets metaTableLoaded and runs checkAndInitPartition().
MetaReply(p) ==
    /\ p \in metaInFlight
    /\ metaInFlight' = metaInFlight \ {p}
    /\ metaShown' = p
    /\ IF metaTableLoaded
       THEN UNCHANGED <<metaTableLoaded, options, selected, partitionInits>>
       ELSE /\ metaTableLoaded' = TRUE
            /\ CheckAndInitPartition(messageTableLoaded, MetaPages[p])
    /\ UNCHANGED <<messageTableLoaded, msgInFlight, msgShown, displayStart,
                   label, fetches, hungDraws, metaLost>>

\* retrieveData has no error callback: a failed request is dropped.
MetaLost(p) ==
    /\ "transport" \in Replies
    /\ p \in metaInFlight
    /\ metaInFlight' = metaInFlight \ {p}
    /\ metaLost' = TRUE
    /\ UNCHANGED <<metaTableLoaded, messageTableLoaded, metaShown, msgInFlight,
                   msgShown, displayStart, options, selected, label, fetches,
                   hungDraws, partitionInits>>

(***************************************************************************)
(* The message table.                                                      *)
(***************************************************************************)

\* The partition column the meta table has on screen.
MetaColumn == IF metaShown = 0 THEN <<>> ELSE MetaPages[metaShown]

\* The answers on which fetchTopicMessageData's success callback reaches
\* callback(result): a body whose message field is a list, or one that
\* parses to an object without it (aaData defaults to []).
Completes == {"list", "nolist"}

\* The operator opens page n of the drawn message table.
MsgPageChange(n) ==
    /\ msgShown # NoData
    /\ fetches < MaxFetches
    /\ fetches' = fetches + 1
    /\ FetchMessages((n - 1) * PageLength)
    /\ UNCHANGED <<metaTableLoaded, messageTableLoaded, metaShown, metaInFlight,
                   msgShown, options, selected, label, hungDraws, metaLost,
                   partitionInits>>

\* The Query button: table.ajax.reload() goes back to the first page.
QueryClick ==
    /\ fetches < MaxFetches
    /\ fetches' = fetches + 1
    /\ FetchMessages(0)
    /\ UNCHANGED <<metaTableLoaded, messageTableLoaded, metaShown, metaInFlight,
                   msgShown, options, selected, label, hungDraws, metaLost,
                   partitionInits>>

\* callback(result) draws the answer; on the first draw initComplete sets
\* messageTableLoaded, runs checkAndInitPartition() and initCalendar().
MessageDrawn(req) ==
    /\ msgShown' = req
    /\ IF messageTableLoaded
       THEN UNCHANGED <<messageTableLoaded, options, selected, partitionInits,
                        label>>
       ELSE /\ messageTableLoaded' = TRUE
            /\ CheckAndInitPartition(TRUE, MetaColumn)
            /\ InitCalendar

\* The answer to a message request.  On "null" the assignment to
\* data.message throws, on "malformed" JSON.parse throws, on "double" (a
\* body encoded twice) data is a string and data.message.forEach throws, on
\* "transport" the error callback throws a ReferenceError on the undefined
\* name error before it reaches callback: in all four the draw never ends.
MsgReply(req, reply) ==
    /\ req \in msgInFlight
    /\ msgInFlight' = msgInFlight \ {req}
    /\ IF reply \in Completes
       THEN MessageDrawn(req) /\ UNCHANGED hungDraws
       ELSE /\ hungDraws' = hungDraws + 1
            /\ UNCHANGED <<msgShown, messageTableLoaded, options, selected,
                           partitionInits, label>>
    /\ UNCHANGED <<metaTableLoaded, metaShown, metaInFlight, displayStart,
                   fetches, metaLost>>

(***************************************************************************)
(* The filter inputs.                                                      *)
(***************************************************************************)

\* The operator picks a partition in the select; no handler refetches.
SelectPartition(p) ==
    /\ p \in ToSet(options)
    /\ selected' = p
    /\ UNCHANGED <<metaTableLoaded, messageTableLoaded, metaShown, metaInFlight,
                   msgInFlight, msgShown, displayStart, options, label, fetches,
                   hungDraws, metaLost, partitionInits>>

\* The operator applies a range in the picker initCalendar created: cb
\* rewrites the label; nothing refetches.
ApplyMessageRange(r) ==
    /\ label # NoLabel
    /\ label' = r
    /\ UNCHANGED <<metaTableLoaded, messageTableLoaded, metaShown, metaInFlight,
                   msgInFlight, msgShown, displayStart, options, selected,
                   fetches, hungDraws, metaLost, partitionInits>>

(***************************************************************************)
(* Specification.  Both tables send their first request while they are    *)
(* built, before any callback runs: the message request with partition 0   *)
(* and the default range.                                                  *)
(***************************************************************************)

Init ==
    /\ metaTableLoaded = FALSE
    /\ messageTableLoaded = FALSE
    /\ metaShown = 0
    /\ metaInFlight = {1}
    /\ displayStart = 0
    /\ msgShown = NoData
    /\ options = <<>>
    /\ selected = NoSelection
    /\ label = NoLabel
    /\ msgInFlight = {[page |-> PageOf(0), partition |-> PartitionInfo,
                       range |-> CalendarDateRange]}
    /\ fetches = 0
    /\ hungDraws = 0
    /\ metaLost = FALSE
    /\ partitionInits = 0

Next ==
    \/ \E p \in MetaPageNums : MetaPageChange(p)
    \/ \E p \in MetaPageNums : MetaReply(p)
    \/ \E p \in MetaPageNums : MetaLost(p)
    \/ \E n \in 1..MaxPage : MsgPageChange(n)
    \/ QueryClick
    \/ \E req \in msgInFlight, reply \in Replies : MsgReply(req, reply)
    \/ \E p \in Partitions : SelectPartition(p)
    \/ \E r \in Ranges : ApplyMessageRange(r)

\* The browser runs every callback of an answered request, and the network
\* answers every request; the operator's actions are not assumed.
Fairness ==
    /\ \A p \in MetaPageNums : WF_vars(MetaReply(p) \/ MetaLost(p))
    /\ WF_vars(\E req \in msgInFlight, reply \in Replies : MsgReply(req, reply))

Spec == Init /\ [][Next]_vars /\ Fairness

(***************************************************************************)
(* Properties.                                                             *)
(***************************************************************************)

TypeOK ==
    /\ metaTableLoaded \in BOOLEAN
    /\ messageTableLoaded \in BOOLEAN
    /\ metaShown \in {0} \cup MetaPageNums
    /\ metaInFlight \subseteq MetaPageNums
    /\ msgInFlight \subseteq Request
    /\ msgShown \in Request \cup {NoData}
    /\ displayStart \in {(n - 1) * PageLength : n \in 1..MaxPage}
    /\ options \in Seq(Partitions)
    /\ selected \in Partitions \cup {NoSelection}
    /\ label \in Ranges \cup {NoLabel}
    /\ fetches \in 0..MaxFetches
    /\ hungDraws \in Nat
    /\ metaLost \in BOOLEAN
    /\ partitionInits \in Nat

\* Once both tables have signalled initComplete, in either order, the
\* partition select offers the partitions of a meta page and one of them is
\* selected.  checkAndInitPartition() never tests metaTableLoaded, so when
\* the message table is first, initPartition() runs on an empty meta column;
\* only the second call, from the meta table's initComplete, fills it.
SelectorReady ==
    metaTableLoaded /\ messageTableLoaded =>
        /\ \E p \in MetaPageNums : options = MetaPages[p]
        /\ selected \in ToSet(options)

\* When the network answers and no answer fails (every meta request is
\* answered and every message answer reaches callback), the page becomes
\* usable: both tables signal initComplete, the partition select is filled
\* and the date-range label is set.  One failed first answer leaves the
\* page unready for good (NoHungDraw), so the failures are excluded.
PageEventuallyReady ==
    [](~metaLost /\ hungDraws = 0) =>
        <>(/\ metaTableLoaded /\ messageTableLoaded
           /\ options # <<>> /\ label # NoLabel)

\* The partition select implements PartitionSelection: whichever table
\* signals initComplete first, and however the operator pages the meta
\* table or picks partitions in between, the select is filled once from a
\* meta page with its first partition selected, and later draws never
\* overwrite it.  An empty fill (message table first) is a stutter step;
\* the meta table's initComplete fills it only because the message table's
\* fired already, and the message table's only while the meta table has
\* not, so the two fills never both write a column.
Selection == INSTANCE PartitionSelection
                 WITH Columns <- {MetaPages[i] : i \in MetaPageNums}
SelectionSpec == Selection!Spec

(***************************************************************************)
(* What the spec says of the page, checked against the code above.        *)
(***************************************************************************)

\* Spec 4.2: the partition selector is initialised once both tables have
\* signalled ready, exactly once whatever order they arrive in.  The code's
\* checkAndInitPartition() runs initPartition() whenever the message table
\* is ready, and again from the meta table's initComplete.
PartitionInitGate ==
    /\ partitionInits <= 1
    /\ partitionInits = 1 => metaTableLoaded /\ messageTableLoaded

\* Spec 4.2 and 7: a transport or parse failure of the message fetch ends
\* the draw with an empty envelope, so no draw is left unfinished.
NoHungDraw == hungDraws = 0

\* Spec 2: partition, range and page changes re-trigger message fetches, so
\* once every request is answered the table shows the rows of the
\* partition, range and page its inputs and pager show.  No handler of the
\* select or of the picker fetches, the page-load request is sent with
\* partition 0, and answers carry sEcho 0: a page change answered after a
\* later Query leaves page 2's rows under the pager of page 1.
TableFollowsInputs ==
    msgInFlight = {} /\ msgShown # NoData =>
        /\ msgShown.partition = PartitionInfo
        /\ msgShown.range = CalendarDateRange
        /\ msgShown.page = PageOf(displayStart)

\* Spec 3 and 4.3: the available partitions are those of the first page of
\* meta rows.  initPartition() reads the meta page on screen when it runs,
\* which the operator may have changed before the message table is ready.
OptionsFromFirstMetaPage == options # <<>> => options = MetaPages[1]

====
