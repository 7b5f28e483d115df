--------------------------- MODULE ConfigFollower ---------------------------
(***************************************************************************)
(* What a config watcher promises, without polls, timers or errors.        *)
(*                                                                         *)
(* An operator publishes records; a follower that is switched on and off   *)
(* holds the configuration of one of them.  It may skip records, but it    *)
(* only ever moves forward along the publication order, and only to a      *)
(* loadable record whose configuration differs from the one it holds.      *)
(***************************************************************************)
EXTENDS Naturals, Sequences

CONSTANTS Records, Nothing, Load(_), MaxPublished

VARIABLES
  published,   \* the records published so far, oldest first
  on,          \* is the follower switched on?
  seen,        \* position of the record followed last, 0 at the beginning
  config       \* the configuration of that record

vars == <<published, on, seen, config>>

Init ==
  /\ published \in {<<r>> : r \in Records}
  /\ on = FALSE
  /\ seen = 0
  /\ config = Nothing

Publish(r) ==
  /\ Len(published) < MaxPublished
  /\ published' = Append(published, r)
  /\ UNCHANGED <<on, seen, config>>

Switch ==
  /\ on' = ~on
  /\ UNCHANGED <<published, seen, config>>

Follow(v) ==
  /\ seen < v
  /\ Load(published[v]) \notin {Nothing, config}
  /\ seen' = v
  /\ config' = Load(published[v])
  /\ UNCHANGED <<published, on>>

\* While it is on, a follower does not put off the latest record for ever.
FollowLatest == on /\ Follow(Len(published))

Next ==
  \/ \E r \in Records : Publish(r)
  \/ Switch
  \/ \E v \in 1..Len(published) : Follow(v)

SafetySpec == Init /\ [][Next]_vars

Spec == SafetySpec /\ WF_vars(FollowLatest)
=============================================================================
