\* Checks the spec's statement PreviewOfClicked against the preview handler.
CONSTANTS
    Partitions = {P0, P1}
    MaxClicks = 3
    NoPartition = NoPartition
    NoText = NoText
SPECIFICATION Spec
INVARIANT PreviewOfClicked
\* The page idles once the operator stops and every answer is in.
CHECK_DEADLOCK FALSE
