\* Every server total from 0 to 25: empty, less than a page, exactly one and
\* two pages, and a partly filled third page.
CONSTANTS
    MaxTotal = 25
SPECIFICATION Spec
INVARIANT PagingExact
INVARIANT TypeOK
\* The list idles once every page is loaded.
CHECK_DEADLOCK FALSE
