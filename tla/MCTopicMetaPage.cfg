\* Every interleaving of the two tables' first answers, meta paging,
\* operator input and every kind of answer, with three operator fetches.
CONSTANTS
    Partitions <- MCPartitions
    MetaPages <- MCMetaPages
    Replies <- MCAllReplies
    R0 = R0
    R1 = R1
    Ranges = {R0, R1}
    DefaultRange = R0
    MaxPage = 2
    MaxFetches = 3
    NoSelection = NoSelection
    NoLabel = NoLabel
    NoData = NoData
SPECIFICATION Spec
INVARIANT SelectorReady
INVARIANT TypeOK
PROPERTY PageEventuallyReady
PROPERTY SelectionSpec
\* The page idles once the operator stops and every answer is in.
CHECK_DEADLOCK FALSE
