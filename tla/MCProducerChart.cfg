\* Two applies racing the timer with three requests in flight, so an answer
\* to an earlier range can land after a later one; two answers may fail.
CONSTANTS
    Today = Today
    Yesterday = Yesterday
    Last7Days = Last7Days
    Ranges = {Today, Yesterday, Last7Days}
    MaxApplies = 2
    MaxInFlight = 3
    MaxFailures = 2
    NoChart = NoChart
SPECIFICATION Spec
PROPERTY ChartConverges
\* Deadlock is checked: the timer or an answer can always move.
