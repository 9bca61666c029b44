\* Spec 4.7: one command per click, from the dialog on screen.
CONSTANTS
    G1 = G1
    G2 = G2
    Groups = {G1, G2}
    Directives <- MCDirectives
    V1 = V1
    Values = {V1}
    MaxOpens = 2
    MaxClicks = 2
    NoGroup = NoGroup
    NoValue = NoValue
    NoResult = NoResult
SPECIFICATION Spec
PROPERTY ClickPostsShownCommand
\* The dialog idles once the operator stops and every answer is in.
CHECK_DEADLOCK FALSE
