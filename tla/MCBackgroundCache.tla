------------------------- MODULE MCBackgroundCache -------------------------
(* Small instances of BackgroundCache: the start-up thread and two others,  *)
(* so that a refresh, a cron run or a request can meet each other and it.   *)
EXTENDS BackgroundCache
=============================================================================
