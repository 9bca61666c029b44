\* One opening and two clicks with a directive change between them, and
\* every kind of answer, arriving in either order.
CONSTANTS
    G1 = G1
    G2 = G2
    Groups = {G1, G2}
    Directives <- MCDirectives
    V1 = V1
    Values = {V1}
    MaxOpens = 1
    MaxClicks = 2
    NoGroup = NoGroup
    NoValue = NoValue
    NoResult = NoResult
SPECIFICATION Spec
INVARIANT ResultAreaCurrent
\* The dialog idles once the operator stops and every answer is in.
CHECK_DEADLOCK FALSE
