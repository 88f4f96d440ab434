-------------------------- MODULE MCMediaSessions ---------------------------
(* One session, one media object of a call, two threads.                   *)
EXTENDS MediaSessions

MCAddr == {"s", "m"}
MCSessions == {"s"}
MCMedia == {"m"}
=============================================================================
