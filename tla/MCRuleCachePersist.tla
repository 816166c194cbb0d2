------------------------- MODULE MCRuleCachePersist -------------------------
(* RuleCachePersist with a sync task, the shutdown hook, the flush task and a *)
(* request thread.                                                           *)
EXTENDS RuleCachePersist

CONSTANTS sync, stop, flush, req, ip

TwoPersisters == {sync, stop}
OneFlusher == {flush}
OneBlocker == {req}
OneBlock == {ip}
=============================================================================
