\* Two groups on two pages of the consumer table, two dialog openings and
\* two clicks: enough for a click to fire the handlers of an earlier
\* opening, made from another page, for another group.
CONSTANTS
    G1 = G1
    G2 = G2
    Groups = {G1, G2}
    GroupPages <- MCGroupPages
    Directives <- MCDirectives
    V1 = V1
    Values = {V1}
    MaxOpens = 2
    MaxClicks = 2
    NoGroup = NoGroup
    NoValue = NoValue
    NoResult = NoResult
SPECIFICATION Spec
INVARIANT TypeOK
 
\* The page idles once the operator stops and every answer is in.
CHECK_DEADLOCK FALSE
