---------------------------- MODULE MetricsProofs ----------------------------
(***************************************************************************)
(* Which operations the reports of Metrics count, for every set of         *)
(* operations and any number of reports that overlap.                      *)
(***************************************************************************)
EXTENDS Metrics, TLAPS

LEMMA InitInv == Init => IInv
<1> SUFFICES ASSUME Init PROVE IInv
  OBVIOUS
<1>1. /\ \A r \in Reports : report[r] = Idle
      /\ \A o \in Ops : op[o] = "new" /\ counted[o] = 0
  BY DEF Init
<1>2. TypeOK
  BY MetricsAssumption DEF Init, TypeOK, Report, Idle
<1>3. ErrorsAreOps /\ EntersOnce
  BY <1>1 DEF Init, ErrorsAreOps, EntersOnce, Idle
<1>4. SnapshotsCoverWindow /\ SentIsSettled
  BY <1>1 DEF Init, SnapshotsCoverWindow, SentIsSettled, InFlight, Idle
<1>5. CountedAtMostOnce /\ LostOnlyWhenExposed
  BY <1>1 DEF CountedAtMostOnce, LostOnlyWhenExposed, InFlight, Idle
<1> QED
  BY <1>2, <1>3, <1>4, <1>5 DEF IInv

\* An operation that is recorded enters the window, as an error or not.
LEMMA RecordInv ==
  ASSUME IInv, NEW o \in Ops, Record(o), errors' \in {errors, errors \cup {o}}
  PROVE  IInv'
<1>a. /\ TypeOK /\ ErrorsAreOps /\ EntersOnce /\ SnapshotsCoverWindow
      /\ SentIsSettled /\ CountedAtMostOnce /\ LostOnlyWhenExposed
  BY DEF IInv
<1>b. /\ op[o] # "over" /\ counted[o] = 0
      /\ \A r \in Reports : o \notin report[r].ops
  BY <1>a DEF Record, EntersOnce
<1>c. InFlight' = InFlight
  BY DEF Record, InFlight
<1>1. TypeOK'
  BY <1>a DEF Record, TypeOK
<1>2. ErrorsAreOps' /\ EntersOnce'
  BY <1>a, <1>b DEF Record, TypeOK, ErrorsAreOps, EntersOnce
<1>3. SnapshotsCoverWindow'
  <2> SUFFICES ASSUME NEW r \in Reports
               PROVE  IF r \in InFlight
                        THEN ops' \ exposed' \subseteq report'[r].ops
                        ELSE report'[r].ops = {}
    BY <1>c DEF SnapshotsCoverWindow
  <2>1. CASE r \in InFlight
    BY <1>a, <2>1 DEF Record, SnapshotsCoverWindow
  <2>2. CASE r \notin InFlight
    BY <1>a, <2>2 DEF Record, SnapshotsCoverWindow
  <2> QED
    BY <2>1, <2>2
<1>4. exposed \subseteq exposed'
  BY DEF Record
<1>5. SentIsSettled'
  BY <1>a, <1>4 DEF Record, SentIsSettled
<1>6. CountedAtMostOnce'
  BY <1>a, <1>b, <1>c DEF Record, CountedAtMostOnce
<1>7. LostOnlyWhenExposed'
  BY <1>a, <1>b, <1>c, <1>4 DEF Record, LostOnlyWhenExposed, TypeOK
<1> QED
  BY <1>1, <1>2, <1>3, <1>5, <1>6, <1>7 DEF IInv

\* A report begins: its snapshot is the window.
LEMMA TickInv ==
  ASSUME IInv, NEW r \in Reports, Tick(r)
  PROVE  IInv'
<1>a. /\ TypeOK /\ ErrorsAreOps /\ EntersOnce /\ SnapshotsCoverWindow
      /\ SentIsSettled /\ CountedAtMostOnce /\ LostOnlyWhenExposed
  BY DEF IInv
<1>b. /\ report'[r] = [pc |-> "sending", ops |-> ops, errors |-> errors]
      /\ \A s \in Reports : s # r => report'[s] = report[s]
      /\ r \notin InFlight
      /\ InFlight' = InFlight \cup {r}
  BY <1>a DEF Tick, TypeOK, InFlight
<1>c. shared \subseteq shared' /\ (InFlight # {} => ops \subseteq shared')
  BY DEF Tick
<1>1. TypeOK'
  BY <1>a DEF Tick, TypeOK, Report
<1>2. ErrorsAreOps' /\ EntersOnce'
  BY <1>a, <1>b DEF Tick, ErrorsAreOps, EntersOnce
<1>3. SnapshotsCoverWindow'
  BY <1>a, <1>b DEF Tick, SnapshotsCoverWindow
<1>4. SentIsSettled'
  BY <1>a, <1>b DEF Tick, SentIsSettled
<1>5. CountedAtMostOnce'
  <2> SUFFICES ASSUME NEW o \in Ops \ shared'
               PROVE  /\ \A s, t \in InFlight' :
                           o \in report'[s].ops /\ o \in report'[t].ops => s = t
                      /\ counted'[o] <= 1
                      /\ counted'[o] = 1 => \A s \in Reports :
                           report'[s].pc = "sending" => o \notin report'[s].ops
                      /\ counted'[o] = 1 /\ o \in ops' => InFlight' # {}
    BY DEF CountedAtMostOnce
  <2>1. o \in Ops \ shared /\ counted' = counted /\ ops' = ops
    BY <1>c DEF Tick
  <2>2. o \in ops => InFlight = {}
    BY <1>c
  <2>3. counted[o] = 1 => o \notin ops
    BY <1>a, <2>1, <2>2 DEF CountedAtMostOnce
  <2>4. ASSUME NEW s \in InFlight', NEW t \in InFlight',
               o \in report'[s].ops, o \in report'[t].ops
        PROVE  s = t
    <3>1. CASE InFlight = {}
      BY <1>b, <2>4, <3>1
    <3>2. CASE InFlight # {}
      <4>1. o \notin report'[r].ops
        BY <1>b, <2>2, <3>2
      <4>2. s \in InFlight /\ t \in InFlight /\ s # r /\ t # r
        BY <1>b, <2>4, <4>1
      <4>3. o \in report[s].ops /\ o \in report[t].ops
        BY <1>b, <2>4, <4>2 DEF InFlight
      <4> QED
        BY <1>a, <2>1, <4>2, <4>3 DEF CountedAtMostOnce
    <3> QED
      BY <3>1, <3>2
  <2>5. counted'[o] <= 1
    BY <1>a, <2>1 DEF CountedAtMostOnce
  <2>6. counted'[o] = 1 => \A s \in Reports :
          report'[s].pc = "sending" => o \notin report'[s].ops
    BY <1>a, <1>b, <2>1, <2>3 DEF CountedAtMostOnce
  <2> QED
    BY <1>b, <2>4, <2>5, <2>6
<1>6. LostOnlyWhenExposed'
  BY <1>a, <1>b DEF Tick, LostOnlyWhenExposed
<1> QED
  BY <1>1, <1>2, <1>3, <1>4, <1>5, <1>6 DEF IInv

\* A report is stored: its snapshot is counted.
LEMMA LandInv ==
  ASSUME IInv, NEW r \in Reports, Land(r)
  PROVE  IInv'
<1>a. /\ TypeOK /\ ErrorsAreOps /\ EntersOnce /\ SnapshotsCoverWindow
      /\ SentIsSettled /\ CountedAtMostOnce /\ LostOnlyWhenExposed
  BY DEF IInv
<1>b. /\ \A s \in Reports : report'[s].ops = report[s].ops
                         /\ report'[s].errors = report[s].errors
      /\ report'[r].pc = "sent"
      /\ \A s \in Reports : s # r => report'[s] = report[s]
      /\ r \in InFlight
      /\ InFlight' = InFlight
  BY <1>a DEF Land, TypeOK, InFlight, Report
<1>c. /\ \A o \in Ops : counted[o] \in Nat
      /\ \A o \in report[r].ops : o \in Ops /\ counted'[o] = counted[o] + 1
      /\ \A o \in Ops \ report[r].ops : counted'[o] = counted[o]
  BY <1>a DEF Land, TypeOK, Report
<1>1. TypeOK'
  <2>1. report' \in [Reports -> Report]
    BY <1>a DEF Land, TypeOK, Report
  <2>2. counted' \in [Ops -> Nat]
    BY <1>c DEF Land
  <2> QED
    BY <1>a, <2>1, <2>2 DEF Land, TypeOK
<1>2. ErrorsAreOps' /\ EntersOnce'
  BY <1>a, <1>b, <1>c DEF Land, ErrorsAreOps, EntersOnce
<1>3. SnapshotsCoverWindow'
  BY <1>a, <1>b DEF Land, SnapshotsCoverWindow
<1>4. SentIsSettled'
  BY <1>a, <1>b, <1>c DEF Land, SentIsSettled
<1>5. CountedAtMostOnce'
  <2> SUFFICES ASSUME NEW o \in Ops \ shared
               PROVE  /\ \A s, t \in InFlight :
                           o \in report'[s].ops /\ o \in report'[t].ops => s = t
                      /\ counted'[o] <= 1
                      /\ counted'[o] = 1 => \A s \in Reports :
                           report'[s].pc = "sending" => o \notin report'[s].ops
                      /\ counted'[o] = 1 /\ o \in ops => InFlight # {}
    BY <1>b DEF CountedAtMostOnce, Land
  <2>a. /\ \A s, t \in InFlight :
             o \in report[s].ops /\ o \in report[t].ops => s = t
        /\ counted[o] <= 1
        /\ counted[o] = 1 => \A s \in Reports :
             report[s].pc = "sending" => o \notin report[s].ops
        /\ counted[o] = 1 /\ o \in ops => InFlight # {}
    BY <1>a DEF CountedAtMostOnce
  <2>b. \A s, t \in InFlight :
          o \in report'[s].ops /\ o \in report'[t].ops => s = t
    BY <1>b, <2>a DEF InFlight
  <2>1. CASE o \in report[r].ops
    <3>1. counted[o] = 0
      BY <1>c, <2>a, <2>1 DEF Land
    <3>2. \A s \in Reports :
            report'[s].pc = "sending" => o \notin report'[s].ops
      BY <1>b, <2>a, <2>1 DEF InFlight
    <3>3. counted'[o] = 1 /\ InFlight # {}
      BY <1>b, <1>c, <2>1, <3>1
    <3> QED
      BY <2>b, <3>2, <3>3
  <2>2. CASE o \notin report[r].ops
    <3>1. counted'[o] = counted[o]
      BY <1>c, <2>2
    <3>2. counted[o] = 1 => \A s \in Reports :
            report'[s].pc = "sending" => o \notin report'[s].ops
      BY <1>b, <2>a
    <3> QED
      BY <2>a, <2>b, <3>1, <3>2
  <2> QED
    BY <2>1, <2>2
<1>6. LostOnlyWhenExposed'
  BY <1>a, <1>b, <1>c DEF Land, LostOnlyWhenExposed
<1> QED
  BY <1>1, <1>2, <1>3, <1>4, <1>5, <1>6 DEF IInv

\* A report fails: its snapshot is exposed.
LEMMA FailInv ==
  ASSUME IInv, NEW r \in Reports, Fail(r)
  PROVE  IInv'
<1>a. /\ TypeOK /\ ErrorsAreOps /\ EntersOnce /\ SnapshotsCoverWindow
      /\ SentIsSettled /\ CountedAtMostOnce /\ LostOnlyWhenExposed
  BY DEF IInv
<1>b. /\ \A s \in Reports : report'[s].ops = report[s].ops
                         /\ report'[s].errors = report[s].errors
      /\ report'[r].pc = "sent"
      /\ \A s \in Reports : s # r => report'[s] = report[s]
      /\ InFlight' = InFlight
  BY <1>a DEF Fail, TypeOK, InFlight, Report
<1>1. TypeOK'
  <2>1. report' \in [Reports -> Report] /\ exposed' \subseteq Ops
    BY <1>a DEF Fail, TypeOK, Report
  <2>2. faults' \in Nat
    BY <1>a DEF Fail, TypeOK
  <2> QED
    BY <1>a, <2>1, <2>2 DEF Fail, TypeOK
<1>2. ErrorsAreOps' /\ EntersOnce'
  BY <1>a, <1>b DEF Fail, ErrorsAreOps, EntersOnce
<1>3. SnapshotsCoverWindow' /\ SentIsSettled'
  BY <1>a, <1>b DEF Fail, SnapshotsCoverWindow, SentIsSettled
<1>4. CountedAtMostOnce'
  BY <1>a, <1>b DEF Fail, CountedAtMostOnce
<1>5. LostOnlyWhenExposed'
  BY <1>a, <1>b DEF Fail, LostOnlyWhenExposed
<1> QED
  BY <1>1, <1>2, <1>3, <1>4, <1>5 DEF IInv

\* A report is over: the window is emptied.
LEMMA ResetInv ==
  ASSUME IInv, NEW r \in Reports, Reset(r)
  PROVE  IInv'
<1>a. /\ TypeOK /\ ErrorsAreOps /\ EntersOnce /\ SnapshotsCoverWindow
      /\ SentIsSettled /\ CountedAtMostOnce /\ LostOnlyWhenExposed
  BY DEF IInv
<1>b. /\ report'[r] = Idle
      /\ \A s \in Reports : s # r => report'[s] = report[s]
      /\ r \in InFlight
      /\ InFlight' = InFlight \ {r}
  BY <1>a DEF Reset, TypeOK, InFlight, Idle
<1>1. TypeOK'
  BY <1>a DEF Reset, TypeOK, Report, Idle
<1>2. ErrorsAreOps' /\ EntersOnce'
  BY <1>a, <1>b DEF Reset, ErrorsAreOps, EntersOnce, Idle
<1>3. SnapshotsCoverWindow' /\ SentIsSettled'
  BY <1>a, <1>b DEF Reset, SnapshotsCoverWindow, SentIsSettled, Idle
<1>4. CountedAtMostOnce'
  BY <1>a, <1>b DEF Reset, CountedAtMostOnce, Idle
<1>5. LostOnlyWhenExposed'
  <2> SUFFICES ASSUME NEW o \in Ops, op[o] = "over", counted[o] = 0,
                      o \notin exposed
               PROVE  \E s \in InFlight' : o \in report'[s].ops
    BY DEF Reset, LostOnlyWhenExposed
  <2>1. o \notin report[r].ops
    BY <1>a DEF Reset, SentIsSettled, TypeOK
  <2>2. o \notin ops
    BY <1>a, <1>b, <2>1 DEF SnapshotsCoverWindow
  <2>3. PICK s \in InFlight : o \in report[s].ops
    BY <1>a, <2>2 DEF LostOnlyWhenExposed
  <2>4. s # r /\ s \in Reports
    BY <2>1, <2>3 DEF InFlight
  <2> QED
    BY <1>b, <2>3, <2>4
<1> QED
  BY <1>1, <1>2, <1>3, <1>4, <1>5 DEF IInv

LEMMA NextInv == IInv /\ [Next]_vars => IInv'
<1> SUFFICES ASSUME IInv, [Next]_vars PROVE IInv'
  OBVIOUS
<1>1. ASSUME NEW o \in Ops, Call(o) PROVE IInv'
  <2>1. TypeOK'
    BY <1>1 DEF Call, IInv, TypeOK
  <2>2. InFlight' = InFlight
    BY <1>1 DEF Call, InFlight
  <2>3. \A p \in Ops : op'[p] = "over" <=> op[p] = "over"
    BY <1>1 DEF Call, IInv, TypeOK
  <2> QED
    BY <1>1, <2>1, <2>2, <2>3
       DEF Call, IInv, ErrorsAreOps, EntersOnce, SnapshotsCoverWindow,
           SentIsSettled, CountedAtMostOnce, LostOnlyWhenExposed
<1>2. ASSUME NEW o \in Ops, Resolve(o) \/ Reject(o) PROVE IInv'
  BY <1>2, RecordInv DEF Resolve, Reject
<1>3. CASE Start \/ Stop \/ UNCHANGED vars
  <2>1. UNCHANGED <<op, ops, errors, report, counted, exposed, shared, faults>>
    BY <1>3 DEF Start, Stop, vars
  <2>2. timer' \in BOOLEAN
    BY <1>3 DEF Start, Stop, vars, IInv, TypeOK
  <2> QED
    BY <2>1, <2>2
       DEF IInv, TypeOK, ErrorsAreOps, EntersOnce, InFlight,
           SnapshotsCoverWindow, SentIsSettled, CountedAtMostOnce,
           LostOnlyWhenExposed
<1>4. ASSUME NEW r \in Reports, Tick(r) \/ Settle(r) PROVE IInv'
  BY <1>4, TickInv, LandInv, FailInv, ResetInv DEF Settle
<1> QED
  BY <1>1, <1>2, <1>3, <1>4 DEF Next

\* The inductive invariant holds in every reachable state of the collector.
THEOREM Invariant == SafetySpec => []IInv
  BY InitInv, NextInv, PTL DEF SafetySpec

\* Type correctness of the collector.
THEOREM TypeCorrect == SafetySpec => []TypeOK
<1>1. IInv => TypeOK
  BY DEF IInv
<1> QED
  BY <1>1, Invariant, PTL

\* An operation that is in no stored report has a cause: it is still in the
\* window or under way, was recorded while a report was, or its report failed.
THEOREM LossHasACause == SafetySpec => []LostOnlyWhenExposed
<1>1. IInv => LostOnlyWhenExposed
  BY DEF IInv
<1> QED
  BY <1>1, Invariant, PTL

\* Two stored reports that count the same operation overlapped.
THEOREM DoubleCountHasACause == SafetySpec => []CountedTwiceOnlyInOverlap
<1>1. IInv => CountedTwiceOnlyInOverlap
  BY DEF IInv, TypeOK, CountedAtMostOnce, CountedTwiceOnlyInOverlap
<1> QED
  BY <1>1, Invariant, PTL

\* The error rate of a report never exceeds one.
THEOREM ErrorRateIsARate == SafetySpec => []ErrorsAreOps
<1>1. IInv => ErrorsAreOps
  BY DEF IInv
<1> QED
  BY <1>1, Invariant, PTL
=============================================================================
