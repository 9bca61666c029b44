------------------------- MODULE MCTopicMetaPage -------------------------
(***************************************************************************)
(* Model values for TopicMetaPage.  The meta table has two pages; its     *)
(* first page lists partition 1 before partition 0, so the selector's      *)
(* default (1) differs from the partition 0 of the page-load request.      *)
(***************************************************************************)
EXTENDS TopicMetaPage

MCPartitions == {0, 1, 2}
MCMetaPages == <<<<1, 0>>, <<2>>>>

\* Every answer the message endpoint can give.
MCAllReplies == {"list", "nolist", "null", "malformed", "double", "transport"}

====
