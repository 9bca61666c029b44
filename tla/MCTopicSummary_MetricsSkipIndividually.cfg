\* Checks the spec's statement MetricsSkipIndividually against the mbean
\* callback: one "Messages in" metric and one "Bytes in" metric, every kind
\* of value for each.
CONSTANTS
    Msg = Msg
    BytesIn = BytesIn
    Fields = {Msg, BytesIn}
    ByteFields = {BytesIn}
    NoTable = NoTable
    NoAnswer = NoAnswer
SPECIFICATION Spec
INVARIANT MetricsSkipIndividually
\* The page idles once both answers are in.
CHECK_DEADLOCK FALSE
