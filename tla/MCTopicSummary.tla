--------------------------- MODULE MCTopicSummary ---------------------------
\* TopicSummary for TLC: one metric of each kind of label.
EXTENDS TopicSummary

====
