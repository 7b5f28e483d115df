---------------------------- MODULE FollowingNode ----------------------------
(***************************************************************************)
(* What the managed mode promises its operator, without polls, heartbeats  *)
(* or errors.                                                              *)
(*                                                                         *)
(* The operator publishes records.  A node runs, from one end of its       *)
(* process to the next, with the configurations of records, each published *)
(* no earlier than the one before; and a status document shows the one it  *)
(* was started with, by its name, and a later one, by its backends.        *)
(***************************************************************************)
EXTENDS Naturals, Sequences

CONSTANTS
  Records,
  Nothing,   \* no configuration
  Load(_),   \* the configuration of a record, or Nothing
  Retry(_)   \* the same for a node that has been started already

VARIABLES
  published,  \* the records published so far, oldest first
  running,    \* is there a process?
  seen,       \* position of the record its configuration is of, or 0
  config,     \* that configuration
  shown       \* what the status document shows, Nothing when there is none

vars == <<published, running, seen, config, shown>>

Init ==
  /\ published \in {<<r>> : r \in Records}
  /\ running = FALSE
  /\ seen = 0
  /\ config = Nothing
  /\ shown = Nothing

Publish(r) ==
  /\ published' = Append(published, r)
  /\ UNCHANGED <<running, seen, config, shown>>

Begin ==
  /\ ~running
  /\ running' = TRUE
  /\ UNCHANGED <<published, seen, config, shown>>

Follow(v) ==
  /\ running
  /\ seen <= v
  /\ Load(published[v]) # Nothing
  /\ seen' = v
  /\ config' = Load(published[v])
  /\ UNCHANGED <<published, running, shown>>

ConfigAt(i) == IF i = 0 THEN Nothing ELSE Load(published[i])

\* A document appears, of this process or of an earlier one.
Show(i, j) ==
  /\ i <= j
  /\ shown' = [name |-> ConfigAt(i), backends |-> ConfigAt(j)]
  /\ UNCHANGED <<published, running, seen, config>>

\* The process ends, and the store with it or not.
End ==
  /\ running
  /\ running' = FALSE
  /\ seen' = 0
  /\ config' = Nothing
  /\ \/ UNCHANGED <<published, shown>>
     \/ /\ \E r \in Records : Load(r) = Nothing /\ published' = Append(published, r)
        /\ shown' = Nothing

Next ==
  \/ \E r \in Records : Publish(r)
  \/ Begin
  \/ \E v \in 1 .. Len(published) : Follow(v)
  \/ \E i, j \in 0 .. Len(published) : Show(i, j)
  \/ End

SafetySpec == Init /\ [][Next]_vars

\* A node is started again, and does not put off the latest record for ever.
FollowLatest ==
  /\ Retry(published[Len(published)]) \notin {Nothing, config}
  /\ Follow(Len(published))

Spec == SafetySpec /\ WF_vars(Begin) /\ WF_vars(FollowLatest)
=============================================================================
