------------------------------- MODULE Metrics -------------------------------
(***************************************************************************)
(* createMetricsCollector (libs/b3nd-managed-node/metrics.ts): counts the  *)
(* operations of a wrapped client in a window, reports the window on every *)
(* tick, and resets it when the report is over.                            *)
(*                                                                         *)
(* report() takes its snapshot before its first await and resets the       *)
(* window after its last one, whether the write succeeded or not.  What    *)
(* the operations of the client do meanwhile, and what a second report     *)
(* does that overlaps, is the subject of the properties: which operations  *)
(* are counted once, which twice, and which never.                         *)
(*                                                                         *)
(* An operation is an identity, so the window is a set: the code keeps     *)
(* latencies and two counters of which this set is what they count.        *)
(***************************************************************************)
EXTENDS Naturals, FiniteSets

CONSTANTS
  Ops,        \* the operations of the wrapped client
  Reports,    \* identities for the reports in flight: their number bounds
              \* how many overlap
  MaxFaults   \* bound: failing reports

ASSUME MetricsAssumption == MaxFaults \in Nat

VARIABLES
  op,         \* the operations: not begun, running, or over
  ops,        \* the operations in the window (totalOps and the latencies)
  errors,     \* those of them that were errors (totalErrors)
  timer,      \* is the interval set?
  report,     \* the reports in flight: where each one is and its snapshot
  counted,    \* history: in how many stored reports an operation counts
  exposed,    \* history: the operations recorded while a report was in
              \* flight, or in the snapshot of a report that failed
  shared,     \* history: the operations in the snapshots of reports that
              \* were in flight together
  faults      \* reports that failed so far

vars == <<op, ops, errors, timer, report, counted, exposed, shared, faults>>

Report == [pc : {"idle", "sending", "sent"}, ops : SUBSET Ops, errors : SUBSET Ops]
Idle == [pc |-> "idle", ops |-> {}, errors |-> {}]

Init ==
  /\ op = [o \in Ops |-> "new"]
  /\ ops = {}
  /\ errors = {}
  /\ timer = FALSE
  /\ report = [r \in Reports |-> Idle]
  /\ counted = [o \in Ops |-> 0]
  /\ exposed = {}
  /\ shared = {}
  /\ faults = 0

InFlight == {r \in Reports : report[r].pc # "idle"}

-----------------------------------------------------------------------------
\* receive or read of the wrapped client is called.
Call(o) ==
  /\ op[o] = "new"
  /\ op' = [op EXCEPT ![o] = "running"]
  /\ UNCHANGED <<ops, errors, timer, report, counted, exposed, shared, faults>>

\* The operation is over and enters the window: one that resolved (accepted
\* by the client or not) with its latency, one that threw as an error.
Record(o) ==
  /\ op[o] = "running"
  /\ op' = [op EXCEPT ![o] = "over"]
  /\ ops' = ops \cup {o}
  /\ exposed' = IF InFlight = {} THEN exposed ELSE exposed \cup {o}
  /\ UNCHANGED <<timer, report, counted, shared, faults>>

Resolve(o) == Record(o) /\ UNCHANGED errors

Reject(o) == Record(o) /\ errors' = errors \cup {o}

\* start(): the interval only, no immediate report.
Start ==
  /\ ~timer
  /\ timer' = TRUE
  /\ UNCHANGED <<op, ops, errors, report, counted, exposed, shared, faults>>

\* stop(): reports in flight go on.
Stop ==
  /\ timer
  /\ timer' = FALSE
  /\ UNCHANGED <<op, ops, errors, report, counted, exposed, shared, faults>>

\* Mutant of Tick: the window is reset when the report begins, before its
\* snapshot.
TickResets(r) ==
  /\ timer
  /\ report[r].pc = "idle"
  /\ report' = [report EXCEPT ![r] = [pc |-> "sending", ops |-> {}, errors |-> {}]]
  /\ ops' = {}
  /\ errors' = {}
  /\ UNCHANGED <<op, timer, counted, exposed, shared, faults>>

\* Mutant of Tick: setTimeout in place of setInterval, so that nothing fires
\* any more after a report that counted something.
TickOnce(r) ==
  /\ timer
  /\ report[r].pc = "idle"
  /\ \A o \in Ops : counted[o] = 0
  /\ report' = [report EXCEPT ![r] =
       [pc |-> "sending", ops |-> ops, errors |-> errors]]
  /\ shared' = IF InFlight = {} THEN shared ELSE shared \cup ops
  /\ UNCHANGED <<op, ops, errors, timer, counted, exposed, faults>>

\* The interval fires: a report begins with its snapshot.
Tick(r) ==
  /\ timer
  /\ report[r].pc = "idle"
  /\ report' = [report EXCEPT ![r] =
       [pc |-> "sending", ops |-> ops, errors |-> errors]]
  /\ shared' = IF InFlight = {} THEN shared ELSE shared \cup ops
  /\ UNCHANGED <<op, ops, errors, timer, counted, exposed, faults>>

\* The report reaches the store.
Land(r) ==
  /\ report[r].pc = "sending"
  /\ report' = [report EXCEPT ![r].pc = "sent"]
  /\ counted' = [o \in Ops |->
       IF o \in report[r].ops THEN counted[o] + 1 ELSE counted[o]]
  /\ UNCHANGED <<op, ops, errors, timer, exposed, shared, faults>>

\* Signing or sending fails: caught and logged.
Fail(r) ==
  /\ report[r].pc = "sending"
  /\ faults < MaxFaults
  /\ faults' = faults + 1
  /\ report' = [report EXCEPT ![r].pc = "sent"]
  /\ exposed' = exposed \cup report[r].ops
  /\ UNCHANGED <<op, ops, errors, timer, counted, shared>>

\* Mutant of Reset: the window is not reset.
ResetForgets(r) ==
  /\ report[r].pc = "sent"
  /\ report' = [report EXCEPT ![r] = Idle]
  /\ UNCHANGED <<op, ops, errors, timer, counted, exposed, shared, faults>>

\* The report is over, one way or the other: the window is reset.
Reset(r) ==
  /\ report[r].pc = "sent"
  /\ report' = [report EXCEPT ![r] = Idle]
  /\ ops' = {}
  /\ errors' = {}
  /\ UNCHANGED <<op, timer, counted, exposed, shared, faults>>

Settle(r) == Land(r) \/ Fail(r) \/ Reset(r)

Next ==
  \/ \E o \in Ops : Call(o) \/ Resolve(o) \/ Reject(o)
  \/ Start
  \/ Stop
  \/ \E r \in Reports : Tick(r) \/ Settle(r)

SafetySpec == Init /\ [][Next]_vars

\* The interval keeps firing while it is set, and reports settle.
Fairness == WF_vars(\E r \in Reports : Tick(r)) /\ \A r \in Reports : WF_vars(Settle(r))

Spec == SafetySpec /\ Fairness

-----------------------------------------------------------------------------
(* Properties *)

TypeOK ==
  /\ op \in [Ops -> {"new", "running", "over"}]
  /\ ops \subseteq Ops
  /\ errors \subseteq Ops
  /\ timer \in BOOLEAN
  /\ report \in [Reports -> Report]
  /\ counted \in [Ops -> Nat]
  /\ exposed \subseteq Ops
  /\ shared \subseteq Ops
  /\ faults \in Nat

\* The error rate is one: the errors of the window, and of every snapshot
\* taken of it, are operations of the same window or snapshot.
ErrorsAreOps ==
  /\ errors \subseteq ops
  /\ \A r \in Reports : report[r].errors \subseteq report[r].ops

\* An operation is counted in two stored reports only if these overlapped:
\* reports that follow one another have disjoint windows.
CountedTwiceOnlyInOverlap ==
  \A o \in Ops : counted[o] > 1 => o \in shared

\* No operation is lost without a cause: one that is over and in no stored
\* report is still in the window or in a snapshot on its way, unless it was
\* recorded while a report was in flight or its report failed.
LostOnlyWhenExposed ==
  \A o \in Ops :
    op[o] = "over" /\ counted[o] = 0 =>
      \/ o \in ops \cup exposed
      \/ \E r \in InFlight : o \in report[r].ops

\* The inductive invariant behind the three properties above, in named parts.
\* An operation enters the window once, when it is over, and is nowhere before.
EntersOnce ==
  \A o \in Ops : op[o] # "over" =>
    /\ o \notin ops
    /\ counted[o] = 0
    /\ \A r \in Reports : o \notin report[r].ops

\* An idle report has no snapshot.  What is in the window and was not recorded
\* under way of a report is in the snapshot of each that is under way.
SnapshotsCoverWindow ==
  \A r \in Reports :
    IF r \in InFlight THEN ops \ exposed \subseteq report[r].ops
                     ELSE report[r].ops = {}

\* A report that was stored counts what is in its snapshot; one that failed
\* exposes it.
SentIsSettled ==
  \A r \in Reports, o \in Ops :
    report[r].pc = "sent" /\ o \in report[r].ops => counted[o] > 0 \/ o \in exposed

\* What two reports under way have in common is shared.  What is not shared is
\* counted at most once; once it is, no snapshot has it that is still to be
\* stored, and if the window has it, so has a report under way.
CountedAtMostOnce ==
  \A o \in Ops \ shared :
    /\ \A r, s \in InFlight :
         o \in report[r].ops /\ o \in report[s].ops => r = s
    /\ counted[o] <= 1
    /\ counted[o] = 1 => \A r \in Reports :
                           report[r].pc = "sending" => o \notin report[r].ops
    /\ counted[o] = 1 /\ o \in ops => InFlight # {}

IInv ==
  /\ TypeOK
  /\ ErrorsAreOps
  /\ EntersOnce
  /\ SnapshotsCoverWindow
  /\ SentIsSettled
  /\ CountedAtMostOnce
  /\ LostOnlyWhenExposed

\* While reporting is on, an operation does not stay in the window for ever,
\* though reports fail and overlap.
WindowMovesOn ==
  \A o \in Ops : (o \in ops) ~> (o \notin ops \/ ~timer)
=============================================================================
