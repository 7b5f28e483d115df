----------------------------- MODULE MCHeartbeat -----------------------------
(* A small instance of Heartbeat: two things the getters may answer.       *)
EXTENDS Heartbeat

CONSTANTS one, two

MCViews == {one, two}
=============================================================================
