--------------------------- MODULE ProducerChart ---------------------------
(***************************************************************************)
(* The producer chart of the topic meta page (topic.meta.js).  stime and   *)
(* etime hold the last applied range of #reportrange; the apply handler    *)
(* and a five-minute timer both call producerMsg(stime, etime), and every  *)
(* answer that is not null replaces the chart's data.  Requests carry no   *)
(* sequence number: answers arrive in any order and the last one wins.     *)
(***************************************************************************)
EXTENDS Naturals, Bags, BagsExt

CONSTANTS
    Ranges,       \* date ranges the operator can apply
    Today,        \* the range the picker starts with: moment() To moment()
    MaxApplies,   \* bound on ranges the operator applies
    MaxInFlight,  \* bound on chart requests not yet answered
    MaxFailures,  \* bound on answers that leave the chart alone
    NoChart       \* the chart as first rendered, with no data

ASSUME Today \in Ranges
ASSUME MaxApplies \in Nat /\ MaxInFlight \in Nat \ {0} /\ MaxFailures \in Nat

VARIABLES
    applied,    \* the range held in stime, etime
    chart,      \* the range whose points the chart shows
    inFlight,   \* bag of the ranges of unanswered requests
    applies,    \* ranges applied so far
    failures    \* answers so far that were null or failed

vars == <<applied, chart, inFlight, applies, failures>>

\* producerMsg(stime, etime): one more GET for the range, no cancellation of
\* earlier ones.  The code sets no limit; MaxInFlight bounds the model.
ProducerMsg(r) ==
    /\ BagCardinality(inFlight) < MaxInFlight
    /\ inFlight' = BagAdd(inFlight, r)

\* The apply.daterangepicker handler: the picker's callback has rewritten
\* the label, the handler reads it back into stime, etime and fetches.
ApplyRange(r) ==
    /\ applies < MaxApplies
    /\ applies' = applies + 1
    /\ applied' = r
    /\ ProducerMsg(r)
    /\ UNCHANGED <<chart, failures>>

\* Mutant: the timer bound to the range of the set-up code, as with
\* setInterval(producerMsg.bind(null, stime, etime), ...).
TimerTickStaleRange ==
    /\ ProducerMsg(Today)
    /\ UNCHANGED <<applied, chart, applies, failures>>

\* The setInterval callback: fetches with the stime, etime it sees now.
TimerTick ==
    /\ ProducerMsg(applied)
    /\ UNCHANGED <<applied, chart, applies, failures>>

\* success with datas != null: setProducerChartData rebuilds the series from
\* filter(datas) and updates the chart.
ChartAnswer(r) ==
    /\ BagIn(r, inFlight)
    /\ inFlight' = BagRemove(inFlight, r)
    /\ chart' = r
    /\ UNCHANGED <<applied, applies, failures>>

\* success with datas == null, or a failed request (no error callback): the
\* chart keeps what it shows.
ChartNoAnswer(r) ==
    /\ BagIn(r, inFlight)
    /\ failures < MaxFailures
    /\ failures' = failures + 1
    /\ inFlight' = BagRemove(inFlight, r)
    /\ UNCHANGED <<applied, chart, applies>>

\* The set-up code: cb(start, end) writes today's range into the label,
\* stime, etime are read back from it and producerMsg is called once.
Init ==
    /\ applied = Today
    /\ chart = NoChart
    /\ inFlight = SetToBag({Today})
    /\ applies = 0
    /\ failures = 0

Next ==
    \/ \E r \in Ranges : ApplyRange(r)
    \/ TimerTick
    \/ \E r \in Ranges : ChartAnswer(r)
    \/ \E r \in Ranges : ChartNoAnswer(r)

\* setInterval keeps firing, and the network answers every request; the
\* operator is not assumed to apply anything.
Fairness ==
    /\ WF_vars(TimerTick)
    /\ \A r \in Ranges : WF_vars(ChartAnswer(r) \/ ChartNoAnswer(r))

Spec == Init /\ [][Next]_vars /\ Fairness

\* A late answer to an earlier range may overwrite the chart after a newer
\* range was applied, but the timer re-fetches the range held in stime,
\* etime: once the operator stops applying and the failures stop, the chart
\* ends up showing the last applied range and keeps showing it.
ChartConverges == <>[](chart = applied)

====
