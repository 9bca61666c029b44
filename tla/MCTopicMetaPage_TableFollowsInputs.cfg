\* Checks the spec's statement TableFollowsInputs against the page's callbacks.
CONSTANTS
    Partitions <- MCPartitions
    MetaPages <- MCMetaPages
    Replies <- MCAllReplies
    R0 = R0
    R1 = R1
    Ranges = {R0, R1}
    DefaultRange = R0
    MaxPage = 2
    MaxFetches = 3
    NoSelection = NoSelection
    NoLabel = NoLabel
    NoData = NoData
SPECIFICATION Spec
INVARIANT TableFollowsInputs
\* The page idles once the operator stops and every answer is in.
CHECK_DEADLOCK FALSE
