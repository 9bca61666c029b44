---------------------------- MODULE DirectiveList ----------------------------
(***************************************************************************)
(* The reset-type list of the reset-offsets dialog (topic.meta.js): a      *)
(* select2 box whose options come from an AJAX source in pages of ten.     *)
(* data() sends the page number, processResults() numbers the items of a   *)
(* page and tells select2 whether to ask for the next page when the        *)
(* operator scrolls to the bottom.  select2 has one page request out at a  *)
(* time and appends each answer to the list.                               *)
(***************************************************************************)
EXTENDS Naturals, Sequences

CONSTANTS
    MaxTotal    \* bound on the number of reset types the server lists

\* params.offset = 10: the page size sent to the server and used for more.
Offset == 10

\* The server, which is not in this repository: page p holds the items
\* (p-1)*Offset+1 .. p*Offset of its list of total types, each item named
\* here by its position in that list.
PageItems(p, total) ==
    SubSeq([i \in 1..total |-> i], (p - 1) * Offset + 1,
           IF p * Offset < total THEN p * Offset ELSE total)

VARIABLES
    total,      \* data.total: the number of types the server lists
    page,       \* params.page of the last request, 0 before the list opens
    pending,    \* that request is not answered yet
    loaded,     \* the options select2 shows, in order: id and text
    more        \* pagination.more of the last answer

vars == <<total, page, pending, loaded, more>>

\* Mutant: ids numbered from the 0-based index of $.each.
ProcessResultsZeroIds(items, p, t) ==
    IF Len(items) > 0
    THEN [results |-> [i \in 1..Len(items) |-> [id |-> i - 1, text |-> items[i]]],
          more |-> p * Offset < t]
    ELSE [results |-> <<>>, more |-> FALSE]

\* Mutant: more while page * offset <= total.
ProcessResultsMoreInclusive(items, p, t) ==
    IF Len(items) > 0
    THEN [results |-> [i \in 1..Len(items) |-> [id |-> i, text |-> items[i]]],
          more |-> p * Offset <= t]
    ELSE [results |-> <<>>, more |-> FALSE]

\* processResults(data, params): ids index + 1 within the page, and more
\* while page * offset < total; an empty page gives no pagination at all.
ProcessResults(items, p, t) ==
    IF Len(items) > 0
    THEN [results |-> [i \in 1..Len(items) |-> [id |-> i, text |-> items[i]]],
          more |-> p * Offset < t]
    ELSE [results |-> <<>>, more |-> FALSE]

\* The operator opens the box: data() sends params.page || 1.
OpenList ==
    /\ page = 0
    /\ page' = 1
    /\ pending' = TRUE
    /\ UNCHANGED <<total, loaded, more>>

\* The operator scrolls to the bottom of a list whose last answer said
\* more: select2 asks for the next page.
ScrollMore ==
    /\ page > 0 /\ ~pending /\ more
    /\ page' = page + 1
    /\ pending' = TRUE
    /\ UNCHANGED <<total, loaded, more>>

\* The answer to the page request, passed through processResults.
PageAnswer ==
    /\ pending
    /\ LET r == ProcessResults(PageItems(page, total), page, total)
       IN /\ loaded' = loaded \o r.results
          /\ more' = r.more
    /\ pending' = FALSE
    /\ UNCHANGED <<total, page>>

Init ==
    /\ total \in 0..MaxTotal
    /\ page = 0
    /\ pending = FALSE
    /\ loaded = <<>>
    /\ more = FALSE

Next == OpenList \/ ScrollMore \/ PageAnswer

Spec == Init /\ [][Next]_vars

TypeOK ==
    /\ total \in 0..MaxTotal
    /\ page \in Nat
    /\ pending \in BOOLEAN
    /\ loaded \in Seq([id : 1..Offset, text : 1..MaxTotal])
    /\ more \in BOOLEAN

\* Scrolling never asks for a page past the end of the server's list, and
\* once an answer says there is no more the list holds every reset type
\* exactly once, in the server's order, whatever the total, including
\* totals that are zero or a multiple of the page size.
PagingExact ==
    /\ page > 1 => (page - 1) * Offset < total
    /\ page > 0 /\ ~pending /\ ~more =>
           [i \in 1..Len(loaded) |-> loaded[i].text] = [i \in 1..total |-> i]

====
