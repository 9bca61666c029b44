---------------------------- MODULE TopicSummary ----------------------------
(***************************************************************************)
(* The two one-shot requests of the topic meta page (topic.meta.js): the   *)
(* metrics table, built from the mbean answer with one row per metric by   *)
(* topicMetricData, and the log size and capacity spans, filled from the   *)
(* jmx answer.  Neither request has an error callback; a null body writes  *)
(* nothing.                                                                *)
(***************************************************************************)
CONSTANTS
    Fields,       \* the metrics of the mbean answer (datas.msg, datas.ins, ...)
    ByteFields,   \* those whose label contains "Byte": rates shown unsplit
    NoTable,      \* #topic_metrics_tab as the page template has it
    NoAnswer      \* no metrics answer drawn yet

ASSUME ByteFields \subseteq Fields

\* What datas holds for one metric: nothing, a metric whose rates are
\* strings, or a metric with a rate missing or not a string.
Kinds == {"absent", "ok", "norate"}

VARIABLES
    metricsPending,  \* the mbean request is unanswered
    metricsAnswer,   \* the answer drawn into the table (history)
    metricsTab,      \* #topic_metrics_tab: its rows and whether tbody is there
    jmxPending,      \* the jmx request is unanswered
    logsizeShown     \* the log size and capacity spans were written

vars == <<metricsPending, metricsAnswer, metricsTab, jmxPending, logsizeShown>>

\* topicMetricData(field, data) for a non-"Byte" field calls
\* data.meanRate.split("B") and the like, which throws on a rate that is
\* not a string; a "Byte" field concatenates the rates as they are.
MetricThrows(f, k) == k = "norate" /\ f \notin ByteFields

\* The success callback with datas != null: html("") and the header, then
\* the rows of every metric present, then tbody.  An exception in
\* topicMetricData leaves the cleared table with its header and no body.
MetricsTable(a) ==
    IF \E f \in Fields : MetricThrows(f, a[f])
    THEN [rows |-> {}, body |-> FALSE]
    ELSE [rows |-> {f \in Fields : a[f] # "absent"}, body |-> TRUE]

MetricsAnswer(a) ==
    /\ metricsPending
    /\ metricsPending' = FALSE
    /\ metricsAnswer' = a
    /\ metricsTab' = MetricsTable(a)
    /\ UNCHANGED <<jmxPending, logsizeShown>>

\* A null body or a failed request: the table stays as the template has it.
MetricsNone ==
    /\ metricsPending
    /\ metricsPending' = FALSE
    /\ UNCHANGED <<metricsAnswer, metricsTab, jmxPending, logsizeShown>>

\* The jmx answer: a body that is not null fills both spans; otherwise
\* they keep the template's text.
JmxAnswer(filled) ==
    /\ jmxPending
    /\ jmxPending' = FALSE
    /\ logsizeShown' = filled
    /\ UNCHANGED <<metricsPending, metricsAnswer, metricsTab>>

\* Both requests are sent while the page loads.
Init ==
    /\ metricsPending = TRUE
    /\ metricsAnswer = NoAnswer
    /\ metricsTab = NoTable
    /\ jmxPending = TRUE
    /\ logsizeShown = FALSE

Next ==
    \/ \E a \in [Fields -> Kinds] : MetricsAnswer(a)
    \/ MetricsNone
    \/ \E filled \in BOOLEAN : JmxAnswer(filled)

Spec == Init /\ [][Next]_vars

\* Spec 7: missing optional metric fields are skipped individually, with no
\* row emitted, rather than aborting the whole display.  A metric whose
\* rate is missing makes topicMetricData throw for the non-"Byte" metrics,
\* after the table was cleared: no row at all is shown; for a "Byte"
\* metric the row is emitted with "undefined" in it.
MetricsSkipIndividually ==
    metricsAnswer # NoAnswer =>
        /\ metricsTab.body
        /\ metricsTab.rows = {f \in Fields : metricsAnswer[f] = "ok"}

====
