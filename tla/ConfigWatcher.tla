---------------------------- MODULE ConfigWatcher ----------------------------
(***************************************************************************)
(* createConfigWatcher (libs/b3nd-managed-node/config-watcher.ts): a       *)
(* polling loop over the operator's config record.                         *)
(*                                                                         *)
(* An invocation of poll() is a small process: it enters through the       *)
(* `polling` guard, awaits the read of the record, compares what was       *)
(* loaded with the last config, and awaits the callback.  The code between *)
(* two awaits is one atomic step (JavaScript's event loop), so the steps   *)
(* of one poll interleave with the operator's publications, with start()   *)
(* and stop(), and with other invocations of poll().  Polls is a set of    *)
(* invocations and not one: that they exclude each other is a property.    *)
(***************************************************************************)
EXTENDS SignedRecords, Sequences, FiniteSets

CONSTANTS
  Records,       \* the records the operator may publish
  Polls,         \* identities for the poll() invocations in flight
  MaxPublished,  \* bound: records published
  MaxFaults      \* bound: failing reads and failing callbacks

ASSUME WatcherAssumption ==
  /\ Records \subseteq Record
  /\ MaxPublished \in Nat \ {0}
  /\ MaxFaults \in Nat

VARIABLES
  published,   \* the records published at the config URI, oldest first
  timer,       \* is the interval set?
  lastConfig,  \* lastConfigJson; Nothing for the initial ""
  polling,     \* the re-entrance guard
  poll,        \* the invocations of poll(): where each one is, and the
               \* position of the record it read
  delivered,   \* history: position of the record delivered last, or 0
  applied,     \* history: position of the record whose callback completed
               \* last, or 0
  failed,      \* history: position of the record whose callback failed
               \* last, or 0
  faults,      \* reads and callbacks that failed so far
  lateCalls    \* history: callbacks begun since the last stop()

closure == <<timer, lastConfig, polling, poll>>
history == <<delivered, applied, failed, faults, lateCalls>>
vars == <<published, closure, history>>

Poll == [pc : {"idle", "reading", "loading", "applying"}, at : Nat]
Idle == [pc |-> "idle", at |-> 0]

Init ==
  /\ published \in {<<r>> : r \in Records}
  /\ timer = FALSE
  /\ lastConfig = Nothing
  /\ polling = FALSE
  /\ poll = [p \in Polls |-> Idle]
  /\ delivered = 0
  /\ applied = 0
  /\ failed = 0
  /\ faults = 0
  /\ lateCalls = 0

-----------------------------------------------------------------------------
\* The operator writes a record at the node's config URI.
Publish(r) ==
  /\ Len(published) < MaxPublished
  /\ published' = Append(published, r)
  /\ UNCHANGED <<closure, history>>

\* Mutant of MayPoll: the guard is dropped.
MayPollAlways == TRUE

\* The guard at the top of poll().
MayPoll == ~polling

\* A call of poll() that gets past the guard: up to the await of the read.
EnterPoll ==
  /\ MayPoll
  /\ polling' = TRUE
  /\ \E p \in Polls :
       /\ poll[p].pc = "idle"
       /\ poll' = [poll EXCEPT ![p] = [pc |-> "reading", at |-> 0]]

\* start(): nothing if the timer is set; otherwise the interval and an
\* immediate poll, which returns at once when an earlier one is in flight.
Start ==
  /\ ~timer
  /\ timer' = TRUE
  /\ \/ EnterPoll
     \/ ~MayPoll /\ UNCHANGED <<polling, poll>>
  /\ UNCHANGED <<published, lastConfig, history>>

\* stop(): the interval is cleared; a poll in flight goes on.
Stop ==
  /\ timer
  /\ timer' = FALSE
  /\ lateCalls' = 0
  /\ UNCHANGED <<published, lastConfig, polling, poll, delivered, applied,
                 failed, faults>>

\* The interval fires.  (While a poll is in flight this changes nothing.)
Tick ==
  /\ timer
  /\ EnterPoll
  /\ UNCHANGED <<published, timer, lastConfig, history>>

\* The client's read takes its snapshot of the record.
ReadRecord(p) ==
  /\ poll[p].pc = "reading"
  /\ poll' = [poll EXCEPT ![p] = [pc |-> "loading", at |-> Len(published)]]
  /\ UNCHANGED <<published, timer, lastConfig, polling, history>>

\* Mutant of ReadFails: no finally, the guard stays set after an error.
ReadFailsStuck(p) ==
  /\ poll[p].pc = "reading"
  /\ faults < MaxFaults
  /\ faults' = faults + 1
  /\ poll' = [poll EXCEPT ![p] = Idle]
  /\ UNCHANGED <<published, timer, lastConfig, polling, delivered, applied,
                 failed, lateCalls>>

\* The read rejects: catch calls onError, finally releases the guard.
ReadFails(p) ==
  /\ poll[p].pc = "reading"
  /\ faults < MaxFaults
  /\ faults' = faults + 1
  /\ poll' = [poll EXCEPT ![p] = Idle]
  /\ polling' = FALSE
  /\ UNCHANGED <<published, timer, lastConfig, delivered, applied, failed,
                 lateCalls>>

\* The watcher calls loadConfig without a decryption key.
Load(rec) == LoadConfig(rec, FALSE)
Loaded(p) == Load(published[poll[p].at])

\* loadConfig throws, or the config is the one already delivered.
Skip(p) ==
  /\ poll[p].pc = "loading"
  /\ Loaded(p) \in {Nothing, lastConfig}
  /\ poll' = [poll EXCEPT ![p] = Idle]
  /\ polling' = FALSE
  /\ UNCHANGED <<published, timer, lastConfig, history>>

\* Mutant of Deliver: onConfigChange is called but not awaited.
DeliverUnawaited(p) ==
  /\ poll[p].pc = "loading"
  /\ Loaded(p) \notin {Nothing, lastConfig}
  /\ lastConfig' = Loaded(p)
  /\ poll' = [poll EXCEPT ![p].pc = "applying"]
  /\ polling' = FALSE
  /\ delivered' = poll[p].at
  /\ lateCalls' = IF timer THEN lateCalls ELSE lateCalls + 1
  /\ UNCHANGED <<published, timer, applied, failed, faults>>

\* Mutant of Deliver: the comparison with the last config is lost.
DeliverEvery(p) ==
  /\ poll[p].pc = "loading"
  /\ Loaded(p) # Nothing
  /\ lastConfig' = Loaded(p)
  /\ poll' = [poll EXCEPT ![p].pc = "applying"]
  /\ delivered' = poll[p].at
  /\ lateCalls' = IF timer THEN lateCalls ELSE lateCalls + 1
  /\ UNCHANGED <<published, timer, polling, applied, failed, faults>>

\* The config changed: it becomes the last config, then onConfigChange is
\* called with it and awaited.
Deliver(p) ==
  /\ poll[p].pc = "loading"
  /\ Loaded(p) \notin {Nothing, lastConfig}
  /\ lastConfig' = Loaded(p)
  /\ poll' = [poll EXCEPT ![p].pc = "applying"]
  /\ delivered' = poll[p].at
  /\ lateCalls' = IF timer THEN lateCalls ELSE lateCalls + 1
  /\ UNCHANGED <<published, timer, polling, applied, failed, faults>>

\* onConfigChange resolves, its effect done.
CallbackResolves(p) ==
  /\ poll[p].pc = "applying"
  /\ applied' = poll[p].at
  /\ poll' = [poll EXCEPT ![p] = Idle]
  /\ polling' = FALSE
  /\ UNCHANGED <<published, timer, lastConfig, delivered, failed, faults,
                 lateCalls>>

\* onConfigChange rejects: onError is told, and lastConfig keeps the config
\* that was not applied.
CallbackRejects(p) ==
  /\ poll[p].pc = "applying"
  /\ faults < MaxFaults
  /\ faults' = faults + 1
  /\ failed' = poll[p].at
  /\ poll' = [poll EXCEPT ![p] = Idle]
  /\ polling' = FALSE
  /\ UNCHANGED <<published, timer, lastConfig, delivered, applied, lateCalls>>

Settle(p) ==
  \/ ReadRecord(p)
  \/ ReadFails(p)
  \/ Skip(p)
  \/ Deliver(p)
  \/ CallbackResolves(p)
  \/ CallbackRejects(p)

Next ==
  \/ \E r \in Records : Publish(r)
  \/ Start
  \/ Stop
  \/ Tick
  \/ \E p \in Polls : Settle(p)

SafetySpec == Init /\ [][Next]_vars

\* setInterval keeps firing while it is set, and every promise a poll awaits
\* settles (the client and the callback are assumed to answer).
Fairness == WF_vars(Tick) /\ \A p \in Polls : WF_vars(Settle(p))

Spec == SafetySpec /\ Fairness

-----------------------------------------------------------------------------
(* Properties *)

TypeOK ==
  /\ published \in Seq(Records)
  /\ timer \in BOOLEAN
  /\ lastConfig \in Bodies \cup {Nothing}
  /\ polling \in BOOLEAN
  /\ poll \in [Polls -> Poll]
  /\ delivered \in Nat
  /\ applied \in Nat
  /\ failed \in Nat
  /\ faults \in Nat
  /\ lateCalls \in Nat

Active(p) == poll[p].pc # "idle"

\* The guard excludes: whatever start(), stop() and the interval do, and
\* whichever way a poll ends, at most one poll() is past the guard, and the
\* guard is never left set by a poll that is over (finally runs on each path).
OneAtATime ==
  /\ polling <=> \E p \in Polls : Active(p)
  /\ \A p, q \in Polls : Active(p) /\ Active(q) => p = q

\* Nothing is delivered that the operator did not sign: the config that the
\* callback was given last is the valid plaintext body of a record published
\* at the URI with the operator's signature.
DeliveredWasSigned ==
  lastConfig # Nothing =>
    \E i \in DOMAIN published :
      /\ published[i].form = "signed"
      /\ published[i].seal = "open"
      /\ Operator \in published[i].signedBy
      /\ published[i].body = lastConfig
      /\ lastConfig \in ValidBodies

\* Slow reads and slow callbacks never reorder: the node's configuration only
\* moves forward along the publication order, and it never holds one that was
\* not delivered.
NeverBackwards ==
  [][/\ delivered' >= delivered
     /\ applied' >= applied
     /\ applied' <= delivered']_vars

\* stop() does not cancel the poll in flight, but at most one more callback
\* begins before the next start(), however often the watcher was restarted.
AtMostOneLateCall == lateCalls <= 1

\* "detected via record timestamp": each poll that loads a record other than
\* the one delivered last calls the callback.
NewRecordIsDelivered ==
  [][\A p \in Polls :
       Skip(p) /\ Loaded(p) # Nothing => poll[p].at = delivered]_vars

\* Whatever reads and callbacks failed before, a watcher that stays on over a
\* record that stays the same and loads ends up with that record's
\* configuration delivered, and applied too unless its own callback failed.
Latest == published[Len(published)]
Converges ==
  <>[](timer /\ Load(Latest) # Nothing) =>
    <>[](/\ lastConfig = Load(Latest)
         /\ delivered \in {applied, failed})

\* The inductive invariant behind the safety properties, in named parts.
\* A poll reads what is latest, and nothing is delivered while it is under
\* way, so what it read is never older than what was delivered last.
ReadsAreCurrent ==
  \A p \in Polls :
    /\ poll[p].pc \in {"loading", "applying"} => poll[p].at \in 1..Len(published)
    /\ poll[p].pc = "loading" => delivered <= poll[p].at
    /\ poll[p].pc = "applying" => delivered = poll[p].at

\* lastConfig is the configuration of the record delivered last.
LastIsDelivered ==
  /\ published # <<>>
  /\ delivered \in 0..Len(published)
  /\ applied <= delivered
  /\ delivered = 0 => lastConfig = Nothing
  /\ delivered # 0 =>
       lastConfig = Load(published[delivered]) /\ lastConfig # Nothing

\* Once a callback began after stop(), no poll is left that could begin one.
LateCallWasTheLast ==
  lateCalls = 1 /\ ~timer =>
    \A p \in Polls : poll[p].pc \notin {"reading", "loading"}

IInv ==
  /\ TypeOK
  /\ OneAtATime
  /\ ReadsAreCurrent
  /\ LastIsDelivered
  /\ AtMostOneLateCall
  /\ LateCallWasTheLast

\* The watcher implements the follower.
Follower == INSTANCE ConfigFollower
              WITH on <- timer, seen <- delivered, config <- lastConfig
FollowsConfig == Follower!Spec
=============================================================================
