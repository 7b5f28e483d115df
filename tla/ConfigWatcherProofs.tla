------------------------- MODULE ConfigWatcherProofs -------------------------
(***************************************************************************)
(* Safety of ConfigWatcher for every set of records, every set of poll()   *)
(* invocations and every bound, and the refinement of ConfigFollower.      *)
(***************************************************************************)
EXTENDS ConfigWatcher, TLAPS

\* A load yields a body or Nothing, and only a signed, plaintext, valid
\* record yields a body (loadConfig called without a decryption key).
LEMMA LoadYields ==
  ASSUME NEW rec \in Record
  PROVE  /\ Load(rec) \in Bodies \cup {Nothing}
         /\ Load(rec) # Nothing =>
              /\ rec.form = "signed"
              /\ rec.seal = "open"
              /\ Operator \in rec.signedBy
              /\ rec.body = Load(rec)
              /\ Load(rec) \in ValidBodies
  BY RecordAssumption
     DEF Load, LoadConfig, Loads, Opens, Verified, Record, Seals

\* Publishing extends the history and leaves what was published in place.
LEMMA PublishKeeps ==
  ASSUME NEW s \in Seq(Records), NEW r \in Records
  PROVE  /\ Append(s, r) \in Seq(Records)
         /\ Len(Append(s, r)) = Len(s) + 1
         /\ \A i \in 1..Len(s) : Append(s, r)[i] = s[i]
  OBVIOUS

LEMMA InitInv == Init => IInv
<1> SUFFICES ASSUME Init PROVE IInv
  OBVIOUS
<1>1. PICK r \in Records : published = <<r>>
  BY DEF Init
<1>2. TypeOK
  <2>1. published \in Seq(Records)
    BY <1>1
  <2>2. poll \in [Polls -> Poll]
    BY DEF Init, Poll, Idle
  <2> QED
    BY <2>1, <2>2 DEF Init, TypeOK
<1>3. OneAtATime /\ ReadsAreCurrent
  BY DEF Init, OneAtATime, ReadsAreCurrent, Active, Idle
<1>4. LastIsDelivered
  BY <1>1 DEF Init, LastIsDelivered
<1>5. AtMostOneLateCall /\ LateCallWasTheLast
  BY DEF Init, AtMostOneLateCall, LateCallWasTheLast
<1> QED
  BY <1>2, <1>3, <1>4, <1>5 DEF IInv

\* Every step preserves the inductive invariant: one step per action.
LEMMA NextInv == IInv /\ [Next]_vars => IInv'
<1> SUFFICES ASSUME IInv, [Next]_vars PROVE IInv'
  OBVIOUS
<1> USE DEF closure, history
<1>a. /\ TypeOK /\ OneAtATime /\ ReadsAreCurrent /\ LastIsDelivered
      /\ AtMostOneLateCall /\ LateCallWasTheLast
  BY DEF IInv
<1>b. /\ Len(published) \in Nat
      /\ \A i \in 1..Len(published) : published[i] \in Record
      /\ \A q \in Polls : poll[q] = [pc |-> poll[q].pc, at |-> poll[q].at]
  BY <1>a, WatcherAssumption DEF TypeOK, Poll
<1>1. ASSUME NEW r \in Records, Publish(r) PROVE IInv'
  <2>1. /\ published' \in Seq(Records)
        /\ Len(published') = Len(published) + 1
        /\ \A i \in 1..Len(published) : published'[i] = published[i]
    BY <1>1, <1>a, PublishKeeps DEF Publish, TypeOK
  <2>2. TypeOK' /\ OneAtATime' /\ AtMostOneLateCall' /\ LateCallWasTheLast'
    BY <1>1, <1>a, <2>1
       DEF Publish, TypeOK, OneAtATime, Active, AtMostOneLateCall,
           LateCallWasTheLast
  <2>3. ReadsAreCurrent'
    BY <1>1, <1>a, <1>b, <2>1 DEF Publish, ReadsAreCurrent
  <2>4. LastIsDelivered'
    BY <1>1, <1>a, <1>b, <2>1 DEF Publish, LastIsDelivered
  <2> QED
    BY <2>2, <2>3, <2>4 DEF IInv
<1>2. ASSUME EnterPoll, UNCHANGED <<published, lastConfig, history>>,
             timer' = TRUE
      PROVE  IInv'
  <2>1. PICK p \in Polls :
          /\ poll[p].pc = "idle"
          /\ poll' = [poll EXCEPT ![p] = [pc |-> "reading", at |-> 0]]
    BY <1>2 DEF EnterPoll
  <2>2. ~polling /\ polling'
    BY <1>2 DEF EnterPoll, MayPoll
  <2>3. TypeOK'
    BY <1>2, <1>a, <2>1, <2>2 DEF TypeOK, Poll
  <2>4. OneAtATime'
    BY <1>a, <2>1, <2>2 DEF OneAtATime, Active, TypeOK
  <2>5. ReadsAreCurrent' /\ LastIsDelivered'
    BY <1>2, <1>a, <2>1 DEF ReadsAreCurrent, LastIsDelivered, TypeOK
  <2>6. AtMostOneLateCall' /\ LateCallWasTheLast'
    BY <1>2, <1>a DEF AtMostOneLateCall, LateCallWasTheLast
  <2> QED
    BY <2>3, <2>4, <2>5, <2>6 DEF IInv
<1>3. CASE Start
  <2>1. CASE EnterPoll
    BY <1>3, <2>1, <1>2 DEF Start
  <2>2. CASE UNCHANGED <<polling, poll>>
    BY <1>3, <1>a, <2>2
       DEF Start, IInv, TypeOK, OneAtATime, Active, ReadsAreCurrent,
           LastIsDelivered, AtMostOneLateCall, LateCallWasTheLast
  <2> QED
    BY <1>3, <2>1, <2>2 DEF Start
<1>4. CASE Stop
  <2>1. TypeOK'
    BY <1>4, <1>a DEF Stop, TypeOK
  <2>2. OneAtATime' /\ ReadsAreCurrent' /\ LastIsDelivered'
    BY <1>4, <1>a
       DEF Stop, OneAtATime, Active, ReadsAreCurrent, LastIsDelivered
  <2>3. AtMostOneLateCall' /\ LateCallWasTheLast'
    BY <1>4 DEF Stop, AtMostOneLateCall, LateCallWasTheLast
  <2> QED
    BY <2>1, <2>2, <2>3 DEF IInv
<1>5. CASE Tick
  BY <1>5, <1>2 DEF Tick, TypeOK
<1>6. ASSUME NEW p \in Polls, ReadRecord(p) PROVE IInv'
  <2>1. Len(published) \in 1..Len(published)
    BY <1>a, <1>b DEF LastIsDelivered, TypeOK
  <2>2. TypeOK'
    BY <1>6, <1>a, <1>b DEF ReadRecord, TypeOK, Poll
  <2>3. OneAtATime'
    BY <1>6, <1>a DEF ReadRecord, OneAtATime, Active, TypeOK
  <2>4. ReadsAreCurrent' /\ LastIsDelivered'
    BY <1>6, <1>a, <2>1 DEF ReadRecord, ReadsAreCurrent, LastIsDelivered, TypeOK
  <2>5. AtMostOneLateCall' /\ LateCallWasTheLast'
    BY <1>6, <1>a DEF ReadRecord, AtMostOneLateCall, LateCallWasTheLast, TypeOK
  <2> QED
    BY <2>2, <2>3, <2>4, <2>5 DEF IInv
\* A poll ends: the guard is released and the slot is idle again.
<1>7. ASSUME NEW p \in Polls, Active(p), poll' = [poll EXCEPT ![p] = Idle],
             polling' = FALSE, UNCHANGED <<timer, lateCalls>>
      PROVE  OneAtATime' /\ AtMostOneLateCall' /\ LateCallWasTheLast'
  <2>1. \A q \in Polls : ~Active(q)'
    BY <1>7, <1>a DEF OneAtATime, Active, TypeOK, Idle
  <2>2. OneAtATime'
    BY <1>7, <2>1 DEF OneAtATime
  <2>3. AtMostOneLateCall' /\ LateCallWasTheLast'
    BY <1>7, <1>a, <2>1 DEF AtMostOneLateCall, LateCallWasTheLast, Active
  <2> QED
    BY <2>2, <2>3
<1>8. ASSUME NEW p \in Polls, ReadFails(p) \/ Skip(p) PROVE IInv'
  <2>1. OneAtATime' /\ AtMostOneLateCall' /\ LateCallWasTheLast'
    BY <1>8, <1>7 DEF ReadFails, Skip, Active
  <2>2. TypeOK'
    <3>0. poll' = [poll EXCEPT ![p] = Idle] /\ polling' = FALSE
      BY <1>8 DEF ReadFails, Skip
    <3>1. poll' \in [Polls -> Poll]
      BY <3>0, <1>a DEF TypeOK, Poll, Idle
    <3>2. faults' \in Nat
      BY <1>8, <1>a DEF ReadFails, Skip, TypeOK
    <3>3. UNCHANGED <<published, timer, lastConfig, delivered, applied,
                      failed, lateCalls>>
      BY <1>8 DEF ReadFails, Skip
    <3> QED
      BY <1>a, <3>0, <3>1, <3>2, <3>3 DEF TypeOK
  <2>3. ReadsAreCurrent' /\ LastIsDelivered'
    BY <1>8, <1>a
       DEF ReadFails, Skip, ReadsAreCurrent, LastIsDelivered, TypeOK, Idle
  <2> QED
    BY <2>1, <2>2, <2>3 DEF IInv
<1>9. ASSUME NEW p \in Polls, Deliver(p) PROVE IInv'
  <2>1. /\ poll[p].at \in 1..Len(published)
        /\ published[poll[p].at] \in Record
        /\ \A q \in Polls : q # p => poll[q].pc = "idle"
    BY <1>9, <1>a, <1>b DEF Deliver, ReadsAreCurrent, OneAtATime, Active
  <2>2. Loaded(p) \in Bodies \cup {Nothing}
    BY <2>1, LoadYields DEF Loaded
  <2>3. /\ poll'[p] = [pc |-> "applying", at |-> poll[p].at]
        /\ \A q \in Polls : q # p => poll'[q] = poll[q]
        /\ poll' \in [Polls -> Poll]
    BY <1>9, <1>a, <1>b DEF Deliver, TypeOK, Poll
  <2>4. lateCalls' \in Nat /\ AtMostOneLateCall'
    BY <1>9, <1>a
       DEF Deliver, TypeOK, AtMostOneLateCall, LateCallWasTheLast
  <2>5. TypeOK'
    BY <1>9, <1>a, <2>1, <2>2, <2>3, <2>4 DEF Deliver, TypeOK
  <2>6. OneAtATime'
    BY <1>9, <1>a, <2>1, <2>3 DEF Deliver, OneAtATime, Active
  <2>7. ReadsAreCurrent' /\ LateCallWasTheLast'
    BY <1>9, <2>1, <2>3
       DEF Deliver, ReadsAreCurrent, LateCallWasTheLast
  <2>8. LastIsDelivered'
    BY <1>9, <1>a, <1>b, <2>1
       DEF Deliver, Loaded, LastIsDelivered, ReadsAreCurrent, TypeOK
  <2> QED
    BY <2>4, <2>5, <2>6, <2>7, <2>8 DEF IInv
<1>10. ASSUME NEW p \in Polls, CallbackResolves(p) \/ CallbackRejects(p)
       PROVE  IInv'
  <2>1. OneAtATime' /\ AtMostOneLateCall' /\ LateCallWasTheLast'
    BY <1>10, <1>7 DEF CallbackResolves, CallbackRejects, Active
  <2>2. poll[p].at \in Nat
    BY <1>a DEF TypeOK, Poll
  <2>3. TypeOK'
    <3>0. poll' = [poll EXCEPT ![p] = Idle] /\ polling' = FALSE
      BY <1>10 DEF CallbackResolves, CallbackRejects
    <3>1. poll' \in [Polls -> Poll]
      BY <3>0, <1>a DEF TypeOK, Poll, Idle
    <3>2. applied' \in Nat /\ failed' \in Nat /\ faults' \in Nat
      BY <1>10, <1>a, <2>2 DEF CallbackResolves, CallbackRejects, TypeOK
    <3>3. UNCHANGED <<published, timer, lastConfig, delivered, lateCalls>>
      BY <1>10 DEF CallbackResolves, CallbackRejects
    <3> QED
      BY <1>a, <3>0, <3>1, <3>2, <3>3 DEF TypeOK
  <2>4. ReadsAreCurrent'
    BY <1>10, <1>a
       DEF CallbackResolves, CallbackRejects, ReadsAreCurrent, TypeOK, Idle
  <2>5. LastIsDelivered'
    BY <1>10, <1>a, <2>2
       DEF CallbackResolves, CallbackRejects, ReadsAreCurrent, LastIsDelivered
  <2> QED
    BY <2>1, <2>3, <2>4, <2>5 DEF IInv
<1>11. CASE UNCHANGED vars
  BY <1>11, <1>a
     DEF vars, IInv, TypeOK, OneAtATime, Active, ReadsAreCurrent,
         LastIsDelivered, AtMostOneLateCall, LateCallWasTheLast
<1> QED
  BY <1>1, <1>3, <1>4, <1>5, <1>6, <1>8, <1>9, <1>10, <1>11 DEF Next, Settle

\* The inductive invariant holds in every reachable state of the watcher.
THEOREM Invariant == SafetySpec => []IInv
  BY InitInv, NextInv, PTL DEF SafetySpec

\* Type correctness of the watcher's state.
THEOREM TypeCorrect == SafetySpec => []TypeOK
<1>1. IInv => TypeOK
  BY DEF IInv
<1> QED
  BY <1>1, Invariant, PTL

\* At most one poll() is past the `polling` guard, and the guard is set
\* exactly while there is one, however start, stop and the interval interleave.
THEOREM PollsExclude == SafetySpec => []OneAtATime
<1>1. IInv => OneAtATime
  BY DEF IInv
<1> QED
  BY <1>1, Invariant, PTL

\* Every configuration handed to onConfigChange was published, in plaintext,
\* under the operator's signature, and is valid.
THEOREM OnlySignedIsDelivered == SafetySpec => []DeliveredWasSigned
<1>1. IInv => DeliveredWasSigned
  <2> SUFFICES ASSUME IInv, lastConfig # Nothing
               PROVE  \E i \in DOMAIN published :
                        /\ published[i].form = "signed"
                        /\ published[i].seal = "open"
                        /\ Operator \in published[i].signedBy
                        /\ published[i].body = lastConfig
                        /\ lastConfig \in ValidBodies
    BY DEF DeliveredWasSigned
  <2>1. delivered \in DOMAIN published /\ lastConfig = Load(published[delivered])
    BY DEF IInv, LastIsDelivered, TypeOK
  <2>2. published[delivered] \in Record
    BY <2>1, WatcherAssumption DEF IInv, TypeOK
  <2> QED
    BY <2>1, <2>2, LoadYields
<1> QED
  BY <1>1, Invariant, PTL

\* A stopped watcher begins at most one more callback.
THEOREM OneLateCall == SafetySpec => []AtMostOneLateCall
<1>1. IInv => AtMostOneLateCall
  BY DEF IInv
<1> QED
  BY <1>1, Invariant, PTL

\* The configuration, delivered or applied, only moves forward along the
\* operator's publications.
THEOREM ForwardOnly == SafetySpec => NeverBackwards
<1>1. IInv /\ [Next]_vars =>
        [/\ delivered' >= delivered
         /\ applied' >= applied
         /\ applied' <= delivered']_vars
  <2> SUFFICES ASSUME IInv, Next
               PROVE  /\ delivered' >= delivered
                      /\ applied' >= applied
                      /\ applied' <= delivered'
    OBVIOUS
  <2>1. delivered \in Nat /\ applied \in Nat /\ applied <= delivered
    BY DEF IInv, TypeOK, LastIsDelivered
  <2>2. ASSUME NEW p \in Polls, Deliver(p) PROVE
          delivered' >= delivered /\ applied' = applied /\ delivered' \in Nat
    BY <2>2 DEF Deliver, IInv, ReadsAreCurrent, TypeOK
  <2>3. ASSUME NEW p \in Polls, CallbackResolves(p) PROVE
          applied' = delivered /\ delivered' = delivered
    BY <2>3 DEF CallbackResolves, IInv, ReadsAreCurrent
  <2>4. CASE UNCHANGED <<delivered, applied>>
    BY <2>1, <2>4
  <2> QED
    BY <2>1, <2>2, <2>3, <2>4
       DEF Next, Publish, Start, Stop, Tick, Settle, ReadRecord, ReadFails,
           Skip, CallbackRejects, history
<1> QED
  BY <1>1, Invariant, PTL DEF SafetySpec, NeverBackwards

\* The polling loop implements the follower: each of its steps is a step of
\* the follower or leaves the follower's state alone.
THEOREM Refines == SafetySpec => Follower!SafetySpec
<1>1. Init => Follower!Init
  BY DEF Init, Follower!Init
<1>2. IInv /\ [Next]_vars => [Follower!Next]_(Follower!vars)
  <2> SUFFICES ASSUME IInv, [Next]_vars
               PROVE  Follower!Next \/ UNCHANGED Follower!vars
    OBVIOUS
  <2> USE DEF closure, history, Follower!vars
  <2>1. ASSUME NEW r \in Records, Publish(r) PROVE Follower!Next
    BY <2>1 DEF Publish, Follower!Next, Follower!Publish
  <2>2. CASE Start \/ Stop
    BY <2>2 DEF Start, Stop, Follower!Next, Follower!Switch
  <2>3. ASSUME NEW p \in Polls, Deliver(p) PROVE Follower!Next
    <3>1. /\ poll[p].at \in 1..Len(published)
          /\ delivered \in Nat
          /\ delivered <= poll[p].at
          /\ delivered # 0 => lastConfig = Load(published[delivered])
      BY <2>3 DEF Deliver, IInv, ReadsAreCurrent, LastIsDelivered, TypeOK
    <3>2. delivered < poll[p].at
      BY <2>3, <3>1 DEF Deliver, Loaded
    <3>3. Follower!Follow(poll[p].at)
      BY <2>3, <3>2 DEF Deliver, Loaded, Follower!Follow
    <3> QED
      BY <3>1, <3>3 DEF Follower!Next
  <2>4. CASE UNCHANGED <<published, timer, delivered, lastConfig>>
    BY <2>4
  <2> QED
    BY <2>1, <2>2, <2>3, <2>4
       DEF Next, Tick, Settle, ReadRecord, ReadFails, Skip, CallbackResolves,
           CallbackRejects, vars
<1> QED
  BY <1>1, <1>2, Invariant, PTL DEF SafetySpec, Follower!SafetySpec
=============================================================================
