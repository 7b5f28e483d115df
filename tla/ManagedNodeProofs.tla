-------------------------- MODULE ManagedNodeProofs --------------------------
(***************************************************************************)
(* Safety of ManagedNode for any records, with a key or without, and for   *)
(* any number of publications, failed reads, heartbeats and crashes.       *)
(***************************************************************************)
EXTENDS ManagedNode, FiniteSetTheorems, TLAPS

\* What is loaded was signed by the operator, and could be opened; without the
\* key only plaintext can.
LEMMA LoadYields ==
  ASSUME NEW rec, NEW hasKey \in BOOLEAN, LoadConfig(rec, hasKey) # Nothing
  PROVE  /\ LoadConfig(rec, hasKey) = rec.body
         /\ rec.body \in Bodies
         /\ Operator \in rec.signedBy
         /\ rec.seal = "open" \/ (rec.seal = "node" /\ hasKey)
  BY RecordAssumption DEF LoadConfig, Loads, Opens, Verified

\* Another record leaves those before it in place.
LEMMA PublishKeeps ==
  ASSUME NEW s \in Seq(Records), NEW r \in Records
  PROVE  /\ Append(s, r) \in Seq(Records)
         /\ Len(Append(s, r)) # 0
         /\ Len(Append(s, r)) = Len(s) + 1
         /\ \A i \in 1..Len(s) : Append(s, r)[i] = s[i]
<1>1. /\ Append(s, r) \in Seq(Records)
      /\ Len(Append(s, r)) = Len(s) + 1
      /\ \A i \in 1..Len(s) : Append(s, r)[i] = s[i]
  OBVIOUS
<1>2. Len(Append(s, r)) # 0
  BY <1>1
<1> QED
  BY <1>1, <1>2

\* The watcher loads as the node does, but without the key.
LEMMA WatcherLoads ==
  ASSUME NEW rec
  PROVE  Watcher!Load(rec) = LoadConfig(rec, FALSE)
  BY DEF Watcher!Load, Watcher!LoadConfig, Watcher!Loads, Watcher!Opens, Watcher!Verified,
         LoadConfig, Loads, Opens, Verified

LEMMA InitInv == Init => IInv
<1> SUFFICES ASSUME Init PROVE IInv
  OBVIOUS
<1> USE DEF Init, Watcher!Init
<1>1. PICK r \in Records : published = <<r>>
  OBVIOUS
<1>2. poll \in [Polls -> Watcher!Poll]
  BY DEF Watcher!Poll, Watcher!Idle
<1>3. published \in Seq(Records) /\ Len(published) # 0
  BY <1>1
<1>4. Watcher!TypeOK
  BY <1>2, <1>3 DEF Watcher!TypeOK
<1>5. TypeOK
  BY <1>4 DEF TypeOK
<1>6. CurrentIsLoaded
  BY DEF CurrentIsLoaded
<1>7. PollsAreCurrent
  BY <1>3 DEF PollsAreCurrent, Watcher!OneAtATime, Watcher!Active, Watcher!Idle
<1> QED
  BY <1>5, <1>6, <1>7 DEF IInv

\* A record is published while the node goes on.
LEMMA PublishInv ==
  ASSUME IInv, NEW r \in Records, Publish(r)
  PROVE  IInv'
<1> USE DEF Publish, Watcher!Publish, Watcher!closure, Watcher!history, node
<1>1. /\ published \in Seq(Records) /\ Len(published) \in Nat
      /\ published' \in Seq(Records) /\ Len(published') # 0
      /\ Len(published') = Len(published) + 1
      /\ \A i \in 1..Len(published) : published'[i] = published[i]
  BY PublishKeeps DEF IInv, TypeOK, Watcher!TypeOK
<1>2. TypeOK'
  BY <1>1 DEF IInv, TypeOK, Watcher!TypeOK, heartbeat
<1>3. CurrentIsLoaded'
  BY <1>1 DEF IInv, TypeOK, CurrentIsLoaded
<1>4. PollsAreCurrent'
  BY <1>1 DEF IInv, PollsAreCurrent, Watcher!OneAtATime, Watcher!Active
<1> QED
  BY <1>2, <1>3, <1>4 DEF IInv

\* A poll begins.
LEMMA EnterInv ==
  ASSUME IInv, Watcher!EnterPoll, life' = "up", timer' \in BOOLEAN,
         life \in {"loaded", "up"}, beating' \in BOOLEAN,
         UNCHANGED <<current, bootConfig, currentAt, crashes, published, lastConfig,
                     delivered, applied, failed, faults, lateCalls>>
  PROVE  IInv'
<1> USE DEF Watcher!EnterPoll, Watcher!MayPoll
<1>1. PICK p \in Polls :
        /\ poll[p].pc = "idle"
        /\ poll' = [poll EXCEPT ![p] = [pc |-> "reading", at |-> 0]]
  OBVIOUS
<1>2. /\ poll' \in [Polls -> Watcher!Poll]
      /\ \A q \in Polls : q # p => poll'[q] = poll[q]
      /\ poll'[p].pc = "reading"
  BY <1>1 DEF IInv, TypeOK, Watcher!TypeOK, Watcher!Poll
<1>3. TypeOK'
  BY <1>2 DEF IInv, TypeOK, Watcher!TypeOK
<1>4. CurrentIsLoaded'
  BY DEF IInv, CurrentIsLoaded, PollsAreCurrent
<1>5. PollsAreCurrent'
  BY <1>1, <1>2 DEF IInv, PollsAreCurrent, Watcher!OneAtATime, Watcher!Active
<1> QED
  BY <1>3, <1>4, <1>5 DEF IInv

\* The poll under way goes on, or is over and releases the guard.
LEMMA PollMoves ==
  ASSUME IInv, NEW p \in Polls, Watcher!Active(p),
         NEW q \in Watcher!Poll, poll' = [poll EXCEPT ![p] = q],
         \/ q.pc # "idle" /\ polling' = polling
         \/ q = Watcher!Idle /\ polling' = FALSE,
         q.pc \in {"loading", "applying"} => q.at \in 1..Len(published) /\ currentAt' <= q.at,
         UNCHANGED <<published, life, timer>>,
         lastConfig' # Nothing => life = "up",
         life \in {"down", "booting"} => current' = Nothing
  PROVE  poll' \in [Polls -> Watcher!Poll] /\ PollsAreCurrent' /\ life = "up"
<1>1. polling /\ life = "up" /\ \A o \in Polls : o # p => ~Watcher!Active(o)
  BY DEF IInv, PollsAreCurrent, Watcher!OneAtATime
<1>2. /\ poll' \in [Polls -> Watcher!Poll]
      /\ \A o \in Polls : poll'[o] = IF o = p THEN q ELSE poll[o]
  BY DEF IInv, TypeOK, Watcher!TypeOK
<1>3. \A o \in Polls : o # p => poll'[o].pc = "idle"
  BY <1>1, <1>2 DEF Watcher!Active
<1>4. Watcher!OneAtATime'
  <2>1. CASE q.pc # "idle" /\ polling' = polling
    BY <1>1, <1>2, <1>3, <2>1 DEF Watcher!OneAtATime, Watcher!Active
  <2>2. CASE q = Watcher!Idle /\ polling' = FALSE
    BY <1>1, <1>2, <1>3, <2>2 DEF Watcher!OneAtATime, Watcher!Active, Watcher!Idle
  <2> QED
    BY <2>1, <2>2
<1> QED
  BY <1>1, <1>2, <1>3, <1>4 DEF IInv, PollsAreCurrent, Watcher!Idle

\* The watcher's steps that give the node nothing.
LEMMA WatchInv == IInv /\ Watch => IInv'
<1> SUFFICES ASSUME IInv, Watch PROVE IInv'
  OBVIOUS
<1> USE DEF Watch, node, heartbeat, Watcher!history
<1>1. CASE Watcher!Tick
  BY <1>1, EnterInv DEF Watcher!Tick, IInv, TypeOK, Watcher!TypeOK, PollsAreCurrent
<1>2. ASSUME NEW p \in Polls,
             \/ Watcher!ReadRecord(p) \/ Watcher!ReadFails(p)
             \/ Watcher!Skip(p) \/ Watcher!CallbackResolves(p)
      PROVE  IInv'
  <2>1. /\ Len(published) \in Nat \ {0}
        /\ published \in Seq(Records)
        /\ poll[p] \in Watcher!Poll /\ poll[p].at \in Nat
        /\ currentAt \in Nat /\ currentAt <= Len(published)
    BY DEF IInv, TypeOK, Watcher!TypeOK, Watcher!Poll, PollsAreCurrent, CurrentIsLoaded
  <2>2. /\ UNCHANGED <<published, timer, lastConfig, delivered, failed, lateCalls>>
        /\ UNCHANGED <<life, current, bootConfig, currentAt, crashes, beating>>
    BY <1>2 DEF Watcher!ReadRecord, Watcher!ReadFails, Watcher!Skip, Watcher!CallbackResolves
  <2>3. faults' \in Nat /\ applied' \in Nat /\ polling' \in BOOLEAN
    <3>1. faults \in Nat /\ applied \in Nat /\ polling \in BOOLEAN
      BY DEF IInv, TypeOK, Watcher!TypeOK
    <3>2. faults' \in {faults, faults + 1} /\ applied' \in {applied, poll[p].at}
          /\ polling' \in {polling, FALSE}
      BY <1>2
      DEF Watcher!ReadRecord, Watcher!ReadFails, Watcher!Skip, Watcher!CallbackResolves
    <3>3. faults' \in Nat /\ applied' \in Nat
      BY <2>1, <3>1, <3>2
    <3>4. polling' \in BOOLEAN
      BY <3>1, <3>2
    <3> QED
      BY <3>3, <3>4
  <2>4. PICK q \in Watcher!Poll :
          /\ poll' = [poll EXCEPT ![p] = q]
          /\ \/ q.pc # "idle" /\ polling' = polling
             \/ q = Watcher!Idle /\ polling' = FALSE
          /\ q.pc \in {"loading", "applying"} => q.at \in 1..Len(published) /\ currentAt' <= q.at
    <3>1. CASE Watcher!ReadRecord(p)
      <4> DEFINE q == [pc |-> "loading", at |-> Len(published)]
      <4>1. q \in Watcher!Poll /\ q.pc = "loading" /\ q.at = Len(published)
        BY <2>1 DEF Watcher!Poll
      <4>2. poll' = [poll EXCEPT ![p] = q] /\ polling' = polling
        BY <3>1 DEF Watcher!ReadRecord
      <4> HIDE DEF q
      <4>3. q.at \in 1..Len(published) /\ currentAt' <= q.at
        BY <2>1, <2>2, <4>1
      <4> QED
        BY <4>1, <4>2, <4>3
    <3>2. CASE ~Watcher!ReadRecord(p)
      <4>1. Watcher!Idle \in Watcher!Poll /\ Watcher!Idle.pc = "idle"
        BY DEF Watcher!Poll, Watcher!Idle
      <4>2. poll' = [poll EXCEPT ![p] = Watcher!Idle] /\ polling' = FALSE
        BY <1>2, <3>2 DEF Watcher!ReadFails, Watcher!Skip, Watcher!CallbackResolves
      <4> QED
        BY <4>1, <4>2
    <3> QED
      BY <3>1, <3>2
  <2>5. Watcher!Active(p)
    BY <1>2 DEF Watcher!ReadRecord, Watcher!ReadFails, Watcher!Skip, Watcher!CallbackResolves,
                Watcher!Active
  <2>6. poll' \in [Polls -> Watcher!Poll] /\ PollsAreCurrent'
    BY <2>2, <2>4, <2>5, PollMoves DEF IInv, PollsAreCurrent
  <2>7. TypeOK'
    BY <2>2, <2>3, <2>6 DEF IInv, TypeOK, Watcher!TypeOK
  <2>8. CurrentIsLoaded'
    BY <2>2 DEF IInv, CurrentIsLoaded
  <2> QED
    BY <2>6, <2>7, <2>8 DEF IInv
<1> QED
  BY <1>1, <1>2

\* The watcher gives the node a configuration: it is of a record the operator
\* signed, in plaintext, and no older than the one before.
LEMMA ApplyInv ==
  ASSUME IInv, NEW p \in Polls, Apply(p)
  PROVE  IInv' /\ currentAt' >= currentAt
<1> USE DEF Apply, Watcher!Deliver
<1> DEFINE at == poll[p].at
<1>1. /\ poll[p].pc = "loading" /\ at \in 1..Len(published) /\ currentAt <= at
      /\ Len(published) \in Nat /\ currentAt \in Nat /\ at \in Nat
      /\ poll[p] \in Watcher!Poll
  BY DEF IInv, TypeOK, Watcher!TypeOK, PollsAreCurrent
<1>2. /\ current' = LoadConfig(published[at], FALSE) /\ current' # Nothing
      /\ lastConfig' = current' /\ currentAt' = at
  BY WatcherLoads DEF Watcher!Loaded
<1>3. /\ current' = published[at].body /\ current' \in Bodies
      /\ Operator \in published[at].signedBy /\ published[at].seal = "open"
  BY <1>2, LoadYields
<1> DEFINE q == [poll[p] EXCEPT !.pc = "applying"]
<1>4. q \in Watcher!Poll /\ q.pc = "applying" /\ q.at = at
  BY <1>1 DEF Watcher!Poll
<1>5. poll' = [poll EXCEPT ![p] = q]
  BY DEF IInv, TypeOK, Watcher!TypeOK
<1> HIDE DEF q
<1>6. life = "up"
  BY <1>1 DEF IInv, PollsAreCurrent, Watcher!OneAtATime, Watcher!Active
<1>7. poll' \in [Polls -> Watcher!Poll] /\ PollsAreCurrent'
  <2>1. Watcher!Active(p)
    BY <1>1 DEF Watcher!Active
  <2>2. /\ q.pc # "idle" /\ polling' = polling
        /\ q.at \in 1..Len(published) /\ currentAt' <= q.at
        /\ UNCHANGED <<published, life, timer>>
    BY <1>1, <1>2, <1>4
  <2> QED
    BY <1>4, <1>5, <1>6, <2>1, <2>2, PollMoves
<1>8. TypeOK'
  <2>1. lateCalls' \in Nat
    BY DEF IInv, TypeOK, Watcher!TypeOK
  <2>2. Watcher!TypeOK'
    BY <1>1, <1>2, <1>3, <1>7, <2>1 DEF IInv, TypeOK, Watcher!TypeOK
  <2> QED
    BY <1>1, <1>2, <1>3, <2>2 DEF IInv, TypeOK, heartbeat
<1>9. CurrentIsLoaded'
  <2>1. at # 0 /\ at <= Len(published) /\ published' = published
    BY <1>1
  <2> HIDE DEF at, Apply, Watcher!Deliver
  <2>2. currentAt' # 0 /\ current' # Nothing /\ currentAt' <= Len(published')
    <3>1. currentAt' = at /\ current' # Nothing
      BY <1>2
    <3> QED
      BY <2>1, <3>1
  <2>3. /\ Operator \in published'[currentAt'].signedBy
        /\ published'[currentAt'].body = current'
        /\ published'[currentAt'].seal = "open"
    BY <1>2, <1>3, <2>1
  <2> QED
    BY <1>2, <2>2, <2>3 DEF CurrentIsLoaded
<1> QED
  BY <1>1, <1>2, <1>7, <1>8, <1>9 DEF IInv

\* The initial load, of the latest record.
LEMMA InitialLoadInv ==
  ASSUME IInv, InitialLoad
  PROVE  IInv' /\ currentAt' >= currentAt
<1> USE DEF InitialLoad, watcher, heartbeat
<1>1. /\ Len(published) \in Nat \ {0} /\ published \in Seq(Records)
      /\ currentAt = 0
  BY DEF IInv, TypeOK, Watcher!TypeOK, PollsAreCurrent, CurrentIsLoaded
<1> DEFINE rec == published[Len(published)]
<1>2. current' = LoadConfig(rec, HasKey)
  OBVIOUS
<1>3. current' # Nothing =>
        /\ current' = rec.body /\ current' \in Bodies
        /\ Operator \in rec.signedBy
        /\ rec.seal = "open" \/ (rec.seal = "node" /\ HasKey)
  BY <1>2, LoadYields, NodeAssumption
<1>4. currentAt' = IF current' = Nothing THEN 0 ELSE Len(published)
  OBVIOUS
<1>5. TypeOK'
  BY <1>1, <1>3, <1>4 DEF IInv, TypeOK, Watcher!TypeOK
<1>6. CurrentIsLoaded'
  BY <1>1, <1>3, <1>4 DEF CurrentIsLoaded
<1>7. PollsAreCurrent'
  <2>1. \A p \in Polls : poll[p].pc = "idle"
    BY DEF IInv, PollsAreCurrent, Watcher!OneAtATime, Watcher!Active
  <2> QED
    BY <2>1 DEF IInv, PollsAreCurrent, Watcher!OneAtATime, Watcher!Active
<1> QED
  BY <1>1, <1>4, <1>5, <1>6, <1>7 DEF IInv

\* The end of the process.
LEMMA CrashInv == IInv /\ Crash => IInv'
<1> SUFFICES ASSUME IInv, Crash PROVE IInv'
  OBVIOUS
<1> USE DEF Crash
<1>1. published' \in Seq(Records) /\ Len(published') # 0
  <2>1. CASE StoreSurvives
    BY <2>1 DEF StoreSurvives, IInv, TypeOK, Watcher!TypeOK, PollsAreCurrent
  <2>2. CASE StoreIsLost
    BY <2>2, PublishKeeps DEF StoreIsLost, IInv, TypeOK, Watcher!TypeOK
  <2> QED
    BY <2>1, <2>2
<1>2. /\ poll' \in [Polls -> Watcher!Poll]
      /\ \A p \in Polls : poll'[p].pc = "idle"
  BY DEF Watcher!Poll, Watcher!Idle
<1>3. TypeOK'
  <2>1. Watcher!TypeOK'
    BY <1>1, <1>2 DEF IInv, TypeOK, Watcher!TypeOK
  <2>2. crashes' \in Nat
    BY DEF IInv, TypeOK
  <2> QED
    BY <2>1, <2>2 DEF TypeOK
<1>4. CurrentIsLoaded'
  BY DEF CurrentIsLoaded
<1>5. PollsAreCurrent'
  BY <1>1, <1>2 DEF PollsAreCurrent, Watcher!OneAtATime, Watcher!Active
<1> QED
  BY <1>3, <1>4, <1>5 DEF IInv

\* Steps that change nothing of the watcher but its faults, nor the
\* configuration: of the process and of the heartbeat.
LEMMA OtherInv ==
  ASSUME IInv, UNCHANGED <<current, bootConfig, currentAt, crashes, published, timer,
                           lastConfig, polling, poll, delivered, applied, failed, lateCalls>>,
         faults' \in Nat, beating' \in BOOLEAN,
         \/ life' = life
         \/ life = "down" /\ life' = "booting"
         \/ life = "booting" /\ life' = "loaded"
  PROVE  IInv'
<1>1. TypeOK'
  BY DEF IInv, TypeOK, Watcher!TypeOK
<1>2. CurrentIsLoaded'
  BY DEF IInv, CurrentIsLoaded
<1>3. PollsAreCurrent'
  BY DEF IInv, PollsAreCurrent, Watcher!OneAtATime, Watcher!Active
<1> QED
  BY <1>1, <1>2, <1>3 DEF IInv

\* Every step keeps the invariant, and takes a node that lives no way back.
LEMMA NextInv ==
  IInv /\ [Next]_vars => IInv' /\ (life' # "down" => currentAt' >= currentAt)
<1> SUFFICES ASSUME IInv, [Next]_vars
             PROVE  IInv' /\ (life' # "down" => currentAt' >= currentAt)
  OBVIOUS
<1>0. currentAt \in Nat /\ faults \in Nat /\ beating \in BOOLEAN
  BY DEF IInv, TypeOK, Watcher!TypeOK
<1> DEFINE Keeps == IInv' /\ currentAt' = currentAt
<1>1. ASSUME NEW r \in Records, Publish(r) PROVE Keeps
  BY <1>1, PublishInv DEF Publish, node
<1>2. CASE Boot
  BY <1>0, <1>2, OtherInv DEF Boot, watcher, heartbeat
<1>3. CASE InitialLoad
  BY <1>3, InitialLoadInv
<1>4. CASE InitialReadFails
  BY <1>0, <1>4, OtherInv DEF InitialReadFails, heartbeat
<1>5. CASE GoUp
  <2>1. beating' \in BOOLEAN
    BY <1>5 DEF GoUp, Beat!Start
  <2>2. Watcher!EnterPoll
    BY <1>5 DEF GoUp, Watcher!Start, IInv, PollsAreCurrent, Watcher!MayPoll
  <2>3. /\ life = "loaded" /\ life' = "up" /\ timer' \in BOOLEAN
        /\ UNCHANGED <<current, bootConfig, currentAt, crashes, published, lastConfig,
                       delivered, applied, failed, faults, lateCalls>>
    BY <1>5 DEF GoUp, Watcher!Start, Watcher!history
  <2>4. IInv'
    BY <2>1, <2>2, <2>3, EnterInv
  <2> QED
    BY <1>0, <2>3, <2>4
<1>6. ASSUME NEW p \in Polls, Apply(p) PROVE IInv' /\ currentAt' >= currentAt
  BY <1>6, ApplyInv
<1>7. CASE Watch
  BY <1>0, <1>7, WatchInv DEF Watch, node
<1>8. ASSUME NEW i \in 1..MaxInFlight, BeatSettle(i) PROVE Keeps
  <2>1. beating' \in BOOLEAN
    BY <1>0, <1>8 DEF BeatSettle, Beat!Settle, Beat!Sign, Beat!Land, Beat!Lose
  <2> QED
    BY <1>0, <1>8, <2>1, OtherInv DEF BeatSettle, node, watcher
<1>9. CASE BeatTick
  <2>1. beating' \in BOOLEAN
    BY <1>0, <1>9 DEF BeatTick, Beat!Tick
  <2> QED
    BY <1>0, <1>9, <2>1, OtherInv DEF BeatTick, node, watcher
<1>10. CASE Crash
  BY <1>10, CrashInv DEF Crash
<1>11. CASE UNCHANGED vars
  BY <1>0, <1>11, OtherInv DEF vars, node, watcher, heartbeat
<1> QED
  BY <1>0, <1>1, <1>2, <1>3, <1>4, <1>5, <1>6, <1>7, <1>8, <1>9, <1>10, <1>11 DEF Next

-----------------------------------------------------------------------------
\* What the node can load without its key it loads to the same with it.
LEMMA KeyAddsOnly ==
  ASSUME NEW rec, LoadConfig(rec, FALSE) # Nothing
  PROVE  LoadConfig(rec, HasKey) = LoadConfig(rec, FALSE)
  BY NodeAssumption DEF LoadConfig, Loads, Opens

\* Records are only ever added to those that were published.
LEMMA PublishedGrows ==
  ASSUME IInv, [Next]_vars
  PROVE  /\ Len(published) \in Nat /\ Len(published') \in Nat
         /\ Len(published) <= Len(published')
         /\ \A i \in 1..Len(published) : published'[i] = published[i]
<1>1. published \in Seq(Records) /\ Len(published) \in Nat
  BY DEF IInv, TypeOK, Watcher!TypeOK
<1>2. CASE \E r \in Records : published' = Append(published, r)
  BY <1>1, <1>2, PublishKeeps
<1>3. CASE published' = published
  BY <1>1, <1>3
<1>4. (\E r \in Records : published' = Append(published, r)) \/ published' = published
  <2>1. ASSUME NEW r \in Records, Publish(r) PROVE published' = Append(published, r)
    BY <2>1 DEF Publish, Watcher!Publish
  <2>2. CASE Crash
    BY <2>2 DEF Crash, StoreSurvives, StoreIsLost
  <2>3. CASE \/ Boot \/ InitialLoad \/ InitialReadFails \/ GoUp
    BY <2>3 DEF Boot, InitialLoad, InitialReadFails, GoUp, Watcher!Start, Watcher!history
  <2>4. ASSUME NEW p \in Polls, Apply(p) PROVE published' = published
    BY <2>4 DEF Apply, Watcher!Deliver
  <2>5. CASE Watch
    BY <2>5 DEF Watch, Watcher!Tick, Watcher!history, Watcher!ReadRecord, Watcher!ReadFails,
                Watcher!Skip, Watcher!CallbackResolves
  <2>6. CASE BeatTick \/ (\E i \in 1..MaxInFlight : BeatSettle(i)) \/ UNCHANGED vars
    BY <2>6 DEF BeatTick, BeatSettle, vars
  <2> QED
    BY <2>1, <2>2, <2>3, <2>4, <2>5, <2>6 DEF Next
<1> QED
  BY <1>2, <1>3, <1>4

\* The documents that may still reach the store: those on their way, and that of a
\* heartbeat that begins now.
Documents ==
  {writes[i].doc : i \in DOMAIN writes} \cup {[shows |-> View, begun |-> View]}

\* Without one of the writes there are no others than before.
LEMMA RemovedKeeps ==
  ASSUME NEW S, NEW s \in Seq(S), NEW i \in 1..Len(s)
  PROVE  /\ Beat!RemoveAt(s, i) \in Seq(S)
         /\ \A j \in DOMAIN Beat!RemoveAt(s, i) :
              \E k \in DOMAIN s : Beat!RemoveAt(s, i)[j] = s[k]
<1> DEFINE a == SubSeq(s, 1, i - 1)
           b == SubSeq(s, i + 1, Len(s))
<1>0. Len(s) \in Nat /\ DOMAIN s = 1..Len(s)
  OBVIOUS
<1>1. a \in Seq(S) /\ Len(a) = i - 1 /\ \A j \in 1..i - 1 : a[j] = s[j]
  OBVIOUS
<1>2. b \in Seq(S) /\ Len(b) = Len(s) - i /\ \A j \in 1..Len(s) - i : b[j] = s[j + i]
  OBVIOUS
<1>3. Beat!RemoveAt(s, i) = a \o b
  BY DEF Beat!RemoveAt
<1> HIDE DEF a, b
<1>4. /\ a \o b \in Seq(S)
      /\ DOMAIN (a \o b) = 1..Len(a) + Len(b)
      /\ \A j \in 1..Len(a) + Len(b) :
           (a \o b)[j] = IF j <= Len(a) THEN a[j] ELSE b[j - Len(a)]
  <2>1. a \in Seq(S) /\ b \in Seq(S)
    BY <1>1, <1>2
  <2>2. a \o b \in Seq(S) /\ Len(a \o b) = Len(a) + Len(b)
    BY <2>1
  <2>3. \A j \in 1..Len(a) + Len(b) :
          (a \o b)[j] = IF j <= Len(a) THEN a[j] ELSE b[j - Len(a)]
    BY <2>1
  <2> QED
    BY <2>2, <2>3
<1>5. ASSUME NEW j \in 1..Len(a) + Len(b) PROVE \E k \in DOMAIN s : (a \o b)[j] = s[k]
  <2>1. CASE j <= Len(a)
    <3>1. j \in 1..i - 1 /\ j \in DOMAIN s
      BY <1>0, <1>1, <1>2, <2>1
    <3> QED
      BY <1>1, <1>4, <2>1, <3>1
  <2>2. CASE ~(j <= Len(a))
    <3>1. j - Len(a) \in 1..Len(s) - i /\ (j - Len(a)) + i \in DOMAIN s
      BY <1>0, <1>1, <1>2, <2>2
    <3>2. b[j - Len(a)] = s[(j - Len(a)) + i]
      BY <1>2, <3>1
    <3> QED
      BY <1>4, <2>2, <3>1, <3>2
  <2> QED
    BY <2>1, <2>2
<1> QED
  BY <1>3, <1>4, <1>5

\* A heartbeat that begins now shows the operator's configurations.
LEMMA ViewOfOperator ==
  ASSUME IInv, ViewIsPublished
  PROVE  OfOperator([shows |-> View, begun |-> View])
<1>1. Len(published) \in Nat /\ currentAt \in Nat /\ currentAt <= Len(published)
  BY DEF IInv, TypeOK, Watcher!TypeOK, PollsAreCurrent, CurrentIsLoaded
<1>2. [shows |-> View, begun |-> View] \in Beat!Document
  BY DEF View, Views, Beat!Document, IInv, TypeOK
<1>3. PICK i \in 0..currentAt : bootConfig = Promise!ConfigAt(i)
  BY DEF ViewIsPublished
<1>4. /\ i \in 0..Len(published) /\ currentAt \in 0..Len(published) /\ i <= currentAt
      /\ View = [name |-> Promise!ConfigAt(i), backends |-> Promise!ConfigAt(currentAt)]
  BY <1>1, <1>3 DEF View, ViewIsPublished
<1> QED
  BY <1>2, <1>4 DEF OfOperator

\* A heartbeat that begins shows the node as it is.
LEMMA BeginDocs ==
  ASSUME IInv, StatusShowsPublished, Beat!Begin
  PROVE  /\ writes' \in Seq(Beat!Write) /\ status' = status
         /\ \A j \in DOMAIN writes' : writes'[j].doc \in Documents
<1> DEFINE w == [pc |-> "signing", doc |-> [shows |-> View, begun |-> View]]
<1>1. w \in Beat!Write /\ w.doc \in Documents
  BY ViewOfOperator DEF StatusShowsPublished, OfOperator, Beat!Write, Documents
<1>2. writes' = Append(writes, w) /\ status' = status
  BY DEF Beat!Begin
<1>3. writes \in Seq(Beat!Write)
  BY DEF StatusShowsPublished
<1> HIDE DEF w
<1>4. /\ writes' \in Seq(Beat!Write)
      /\ \A j \in DOMAIN writes' : writes'[j] = w \/ \E k \in DOMAIN writes : writes'[j] = writes[k]
  BY <1>1, <1>2, <1>3
<1> QED
  BY <1>1, <1>2, <1>4 DEF Documents

\* A write that goes on keeps its document; one that ends leaves the others, and
\* may have put its document into the store.
LEMMA SettleDocs ==
  ASSUME StatusShowsPublished, NEW i \in 1..Len(writes), Beat!Settle(i)
  PROVE  /\ writes' \in Seq(Beat!Write)
         /\ status' \in Documents \cup {status}
         /\ \A j \in DOMAIN writes' : writes'[j].doc \in Documents
<1>1. writes \in Seq(Beat!Write) /\ DOMAIN writes = 1..Len(writes)
  BY DEF StatusShowsPublished
<1>2. \A k \in DOMAIN writes : writes[k].doc \in Documents
  BY DEF Documents
<1>3. CASE Beat!Sign(i)
  <2> DEFINE w == [writes[i] EXCEPT !.pc = "sending"]
  <2>0. writes[i] \in Beat!Write
    BY <1>1
  <2>1. writes[i] \in [pc : {"signing", "sending"}, doc : Beat!Document]
    BY <2>0 DEF Beat!Write
  <2>2. w \in Beat!Write /\ w.doc = writes[i].doc
    BY <2>1 DEF Beat!Write
  <2>3. writes' = [writes EXCEPT ![i] = w] /\ status' = status
    BY <1>1, <1>3 DEF Beat!Sign
  <2> HIDE DEF w
  <2>4. /\ writes' \in Seq(Beat!Write) /\ DOMAIN writes' = DOMAIN writes
        /\ \A j \in DOMAIN writes : writes'[j] = IF j = i THEN w ELSE writes[j]
    BY <1>1, <2>2, <2>3
  <2> QED
    BY <1>1, <1>2, <2>2, <2>3, <2>4
<1>4. CASE Beat!Land(i) \/ Beat!Lose(i)
  <2>1. writes' = Beat!RemoveAt(writes, i) /\ status' \in {status, writes[i].doc}
    BY <1>4 DEF Beat!Land, Beat!Lose
  <2>2. /\ writes' \in Seq(Beat!Write)
        /\ \A j \in DOMAIN writes' : \E k \in DOMAIN writes : writes'[j] = writes[k]
    BY <1>1, <2>1, RemovedKeeps
  <2> QED
    BY <1>1, <1>2, <2>1, <2>2
<1> QED
  BY <1>3, <1>4 DEF Beat!Settle

\* The end of the process leaves writes that were sent, if its store survives.
LEMMA CrashDocs ==
  ASSUME StatusShowsPublished, Crash
  PROVE  /\ writes' \in Seq(Beat!Write)
         /\ status' \in Documents \cup {status, Beat!NoDocument}
         /\ \A j \in DOMAIN writes' : writes'[j].doc \in Documents
<1>1. writes \in Seq(Beat!Write) /\ Len(writes) \in Nat /\ DOMAIN writes = 1..Len(writes)
  BY DEF StatusShowsPublished
<1>2. \A k \in DOMAIN writes : writes[k].doc \in Documents
  BY DEF Documents
<1>3. CASE StoreSurvives
  <2>1. PICK kept \in [1..Cardinality(Sent) -> Sent] :
          writes' = [k \in DOMAIN kept |-> writes[kept[k]]]
    BY <1>3 DEF StoreSurvives
  <2>2. Cardinality(Sent) \in Nat
    <3>1. IsFiniteSet(DOMAIN writes)
      BY <1>1, FS_Interval
    <3>2. Sent \in SUBSET (DOMAIN writes)
      BY DEF Sent
    <3> QED
      BY <3>1, <3>2, FS_Subset, FS_CardinalityType
  <2>3. \A k \in 1..Cardinality(Sent) : kept[k] \in DOMAIN writes /\ writes[kept[k]] \in Beat!Write
    BY <1>1 DEF Sent
  <2>4. DOMAIN kept = 1..Cardinality(Sent)
    OBVIOUS
  <2>5. writes' \in [1..Cardinality(Sent) -> Beat!Write]
    BY <2>1, <2>3, <2>4
  <2>6. writes' \in Seq(Beat!Write)
    BY <2>2, <2>5
  <2>7. status' = status
    BY <1>3 DEF StoreSurvives
  <2> QED
    BY <1>2, <2>1, <2>3, <2>4, <2>6, <2>7
<1>4. CASE StoreIsLost
  BY <1>4 DEF StoreIsLost
<1> QED
  BY <1>3, <1>4 DEF Crash

\* No step makes a document but the one a heartbeat begins with.
LEMMA StepDocs ==
  ASSUME IInv, StatusShowsPublished, [Next]_vars
  PROVE  /\ writes' \in Seq(Beat!Write)
         /\ status' \in Documents \cup {status, Beat!NoDocument}
         /\ \A j \in DOMAIN writes' : writes'[j].doc \in Documents
<1> DEFINE Same == UNCHANGED <<writes, status>>
<1>1. ASSUME Same
      PROVE  /\ writes' \in Seq(Beat!Write)
             /\ status' \in Documents \cup {status, Beat!NoDocument}
             /\ \A j \in DOMAIN writes' : writes'[j].doc \in Documents
  BY <1>1 DEF StatusShowsPublished, Documents
<1>2. ASSUME NEW r \in Records, Publish(r) PROVE Same
  BY <1>2 DEF Publish, heartbeat
<1>3. CASE Boot \/ InitialLoad \/ InitialReadFails \/ UNCHANGED vars
  BY <1>1, <1>3 DEF Boot, InitialLoad, InitialReadFails, vars, heartbeat
<1>4. CASE GoUp
  BY <1>4, BeginDocs DEF GoUp, Beat!Start, Documents
<1>5. ASSUME NEW p \in Polls, Apply(p) PROVE Same
  BY <1>5 DEF Apply, heartbeat
<1>6. CASE Watch
  BY <1>1, <1>6 DEF Watch, heartbeat
<1>7. CASE BeatTick
  BY <1>7, BeginDocs DEF BeatTick, Beat!Tick, Documents
<1>8. ASSUME NEW i \in 1..MaxInFlight, BeatSettle(i)
      PROVE  /\ writes' \in Seq(Beat!Write)
             /\ status' \in Documents \cup {status, Beat!NoDocument}
             /\ \A j \in DOMAIN writes' : writes'[j].doc \in Documents
  <2>1. i \in 1..Len(writes) /\ Beat!Settle(i)
    BY <1>8 DEF BeatSettle, StatusShowsPublished
  <2> QED
    BY <2>1, SettleDocs
<1>9. CASE Crash
  BY <1>9, CrashDocs
<1> QED
  BY <1>1, <1>2, <1>3, <1>4, <1>5, <1>6, <1>7, <1>8, <1>9 DEF Next

\* A record keeps its place, and with it what the node makes of it.
LEMMA ConfigsStay ==
  ASSUME IInv, [Next]_vars, NEW i \in 0..Len(published)
  PROVE  i \in 0..Len(published') /\ Promise!ConfigAt(i)' = Promise!ConfigAt(i)
  BY PublishedGrows DEF Promise!ConfigAt, LoadBoot

\* The getters answer with what was loaded from records, the initial load and the
\* watcher going on from it.
LEMMA ViewNext ==
  ASSUME IInv, ViewIsPublished, [Next]_vars
  PROVE  ViewIsPublished'
<1> DEFINE At(i) == IF i = 0 THEN Nothing ELSE LoadConfig(published[i], HasKey)
           Now(i) == IF i = 0 THEN Nothing ELSE LoadConfig(published'[i], HasKey)
<1>0. /\ Len(published) \in Nat \ {0} /\ currentAt \in Nat /\ currentAt <= Len(published)
  BY DEF IInv, TypeOK, Watcher!TypeOK, PollsAreCurrent, CurrentIsLoaded
<1>1. \A i \in 0..Len(published) : Now(i) = At(i)
  BY PublishedGrows
<1>2. ViewIsPublished' <=> /\ current' = Now(currentAt')
                           /\ \E i \in 0..currentAt' : bootConfig' = Now(i)
  BY DEF ViewIsPublished, Promise!ConfigAt, LoadBoot
<1>3. current = At(currentAt) /\ \E i \in 0..currentAt : bootConfig = At(i)
  BY DEF ViewIsPublished, Promise!ConfigAt, LoadBoot
<1>4. PICK b \in 0..currentAt : bootConfig = At(b)
  BY <1>3
<1>5. b \in 0..Len(published)
  BY <1>0
<1>6. CASE UNCHANGED <<current, bootConfig, currentAt>>
  BY <1>0, <1>1, <1>2, <1>3, <1>4, <1>5, <1>6
<1>7. CASE InitialLoad
  <2>1. /\ current' = At(Len(published)) /\ bootConfig' = current'
        /\ currentAt' = IF current' = Nothing THEN 0 ELSE Len(published)
    BY <1>0, <1>7 DEF InitialLoad
  <2>2. CASE current' = Nothing
    BY <1>2, <2>1, <2>2
  <2>3. CASE current' # Nothing
    BY <1>0, <1>1, <1>2, <2>1, <2>3
  <2> QED
    BY <2>2, <2>3
<1>8. ASSUME NEW p \in Polls, Apply(p) PROVE ViewIsPublished'
  <2> DEFINE at == poll[p].at
  <2>1. at \in 1..Len(published) /\ currentAt <= at
    BY <1>8 DEF Apply, Watcher!Deliver, IInv, PollsAreCurrent
  <2>2. current' = LoadConfig(published[at], FALSE) /\ current' # Nothing
    BY <1>8, WatcherLoads DEF Apply, Watcher!Deliver, Watcher!Loaded
  <2>3. currentAt' = at /\ bootConfig' = bootConfig
    BY <1>8 DEF Apply
  <2>4. current' = At(at)
    <3>1. LoadConfig(published[at], HasKey) = LoadConfig(published[at], FALSE)
      BY <2>2, KeyAddsOnly
    <3>2. at # 0
      BY <2>1
    <3> QED
      BY <2>2, <3>1, <3>2
  <2> HIDE DEF at
  <2> QED
    BY <1>0, <1>1, <1>2, <1>4, <1>5, <2>1, <2>3, <2>4
<1>9. CASE Crash
  BY <1>2, <1>9 DEF Crash
<1>10. (\E r \in Records : Publish(r)) \/ Watch \/ Boot \/ InitialReadFails \/ GoUp \/ UNCHANGED vars
         => UNCHANGED <<current, bootConfig, currentAt>>
  BY DEF Publish, Watch, Boot, InitialReadFails, GoUp, vars, node
<1>11. BeatTick \/ (\E i \in 1..MaxInFlight : BeatSettle(i))
         => UNCHANGED <<current, bootConfig, currentAt>>
  BY DEF BeatTick, BeatSettle, node
<1> QED
  BY <1>6, <1>7, <1>8, <1>9, <1>10, <1>11 DEF Next

LEMMA StatusInit == Init => StatusShowsPublished
<1> SUFFICES ASSUME Init PROVE StatusShowsPublished
  OBVIOUS
<1>1. ViewIsPublished
  BY DEF Init, ViewIsPublished, Promise!ConfigAt
<1>2. writes = <<>> /\ status = Beat!NoDocument
  BY DEF Init
<1>3. writes \in Seq(Beat!Write) /\ DOMAIN writes = {}
  BY <1>2
<1> QED
  BY <1>1, <1>2, <1>3 DEF StatusShowsPublished

\* What a document shows stays published.
LEMMA DocumentsStay ==
  ASSUME IInv, [Next]_vars, NEW doc, OfOperator(doc)
  PROVE  OfOperator(doc)'
<1>1. PICK i, j \in 0..Len(published) :
        /\ i <= j
        /\ doc.shows = [name |-> Promise!ConfigAt(i), backends |-> Promise!ConfigAt(j)]
  BY DEF OfOperator
<1>2. /\ i \in 0..Len(published') /\ Promise!ConfigAt(i)' = Promise!ConfigAt(i)
      /\ j \in 0..Len(published') /\ Promise!ConfigAt(j)' = Promise!ConfigAt(j)
  BY ConfigsStay
<1> QED
  BY <1>1, <1>2 DEF OfOperator

LEMMA StatusNext == IInv /\ StatusShowsPublished /\ [Next]_vars => StatusShowsPublished'
<1> SUFFICES ASSUME IInv, StatusShowsPublished, [Next]_vars PROVE StatusShowsPublished'
  OBVIOUS
<1>1. \A doc \in Documents : OfOperator(doc)
  BY ViewOfOperator DEF Documents, StatusShowsPublished
<1> DEFINE Good(doc) == /\ doc \in Beat!Document
                        /\ doc.shows = doc.begun
                        /\ \E i, j \in 0..Len(published') :
                             /\ i <= j
                             /\ doc.shows = [name |-> Promise!ConfigAt(i)',
                                             backends |-> Promise!ConfigAt(j)']
<1>2. ASSUME NEW doc, OfOperator(doc) PROVE Good(doc)
  BY <1>2, DocumentsStay DEF OfOperator
<1>3. \A doc \in Documents : Good(doc)
  BY <1>1, <1>2
<1>4. status # Beat!NoDocument => Good(status)
  BY <1>2 DEF StatusShowsPublished
<1>5. /\ writes' \in Seq(Beat!Write)
      /\ status' # Beat!NoDocument => Good(status')
      /\ \A i \in DOMAIN writes' : Good(writes'[i].doc)
  <2> HIDE DEF Good
  <2> QED
    BY <1>3, <1>4, StepDocs
<1>6. ViewIsPublished'
  BY ViewNext DEF StatusShowsPublished
<1>7. StatusShowsPublished' <=>
        /\ status' # Beat!NoDocument => Good(status')
        /\ writes' \in Seq(Beat!Write)
        /\ \A i \in DOMAIN writes' : Good(writes'[i].doc)
        /\ ViewIsPublished'
  BY DEF StatusShowsPublished, OfOperator
<1> QED
  BY <1>5, <1>6, <1>7
-----------------------------------------------------------------------------
(* The node as FollowingNode sees it. *)

\* Both ways in which the node gets a configuration follow the operator's
\* publications; an initial load that finds none leaves it without.
LEMMA LoadsFollow ==
  ASSUME IInv, InitialLoad \/ (\E p \in Polls : Apply(p))
  PROVE  Promise!Next \/ UNCHANGED Promise!vars
<1>0. Len(published) \in Nat \ {0} /\ currentAt \in Nat
  BY DEF IInv, TypeOK, Watcher!TypeOK, PollsAreCurrent
<1>1. SUFFICES \/ \E v \in 1..Len(published) : Promise!Follow(v)
               \/ UNCHANGED Promise!vars
  BY DEF Promise!Next
<1>2. CASE InitialLoad
  <2>1. /\ current = Nothing /\ currentAt = 0
        /\ life # "down" /\ life' # "down"
    BY <1>2 DEF InitialLoad, IInv, PollsAreCurrent, CurrentIsLoaded
  <2>2. /\ UNCHANGED <<published, status>>
        /\ current' = LoadBoot(published[Len(published)])
        /\ currentAt' = IF current' = Nothing THEN 0 ELSE Len(published)
    BY <1>2 DEF InitialLoad, heartbeat, LoadBoot
  <2>3. CASE current' = Nothing
    BY <2>1, <2>2, <2>3 DEF Promise!vars
  <2>4. CASE current' # Nothing
    <3>1. Promise!Follow(Len(published))
      BY <1>0, <2>1, <2>2, <2>4 DEF Promise!Follow
    <3> QED
      BY <1>0, <3>1
  <2> QED
    BY <2>3, <2>4
<1>3. ASSUME NEW p \in Polls, Apply(p)
      PROVE  \E v \in 1..Len(published) : Promise!Follow(v)
  <2> DEFINE at == poll[p].at
  <2>1. /\ poll[p].pc = "loading" /\ at \in 1..Len(published) /\ currentAt <= at
        /\ UNCHANGED <<published, status, life>>
    BY <1>3 DEF Apply, Watcher!Deliver, IInv, PollsAreCurrent, heartbeat
  <2>2. life = "up"
    BY <2>1 DEF IInv, PollsAreCurrent, Watcher!OneAtATime, Watcher!Active
  <2>3. /\ current' = LoadConfig(published[at], FALSE) /\ current' # Nothing
        /\ currentAt' = at
    BY <1>3, WatcherLoads DEF Apply, Watcher!Deliver, Watcher!Loaded
  <2>4. current' = LoadBoot(published[at])
    BY <2>3, KeyAddsOnly DEF LoadBoot
  <2> HIDE DEF at
  <2>5. Promise!Follow(at)
    BY <2>1, <2>2, <2>3, <2>4 DEF Promise!Follow
  <2> QED
    BY <2>1, <2>5
<1> QED
  BY <1>2, <1>3

\* A heartbeat that lands shows what the operator published, however late it is.
LEMMA LandingShows ==
  ASSUME StatusShowsPublished, NEW k \in 1..MaxInFlight, BeatSettle(k)
  PROVE  Promise!Next \/ UNCHANGED Promise!vars
<1>1. UNCHANGED <<life, current, currentAt, published>>
  BY DEF BeatSettle, node
<1>2. k \in DOMAIN writes
  BY DEF BeatSettle, StatusShowsPublished
<1>3. CASE Beat!Sign(k) \/ Beat!Lose(k)
  BY <1>1, <1>3 DEF Beat!Sign, Beat!Lose, Promise!vars
<1>4. CASE Beat!Land(k)
  <2>1. status' = writes[k].doc /\ OfOperator(writes[k].doc)
    BY <1>2, <1>4 DEF Beat!Land, StatusShowsPublished
  <2>2. PICK i, j \in 0..Len(published) :
          /\ i <= j
          /\ status'.shows = [name |-> Promise!ConfigAt(i), backends |-> Promise!ConfigAt(j)]
    BY <2>1 DEF OfOperator
  <2>3. Promise!Show(i, j)
    BY <1>1, <2>2 DEF Promise!Show
  <2> QED
    BY <2>3 DEF Promise!Next
<1> QED
  BY <1>3, <1>4 DEF BeatSettle, Beat!Settle

\* The end of the process, and of its store if that is in memory.
LEMMA CrashEnds ==
  ASSUME Crash
  PROVE  Promise!End
<1>1. /\ life # "down" /\ life' = "down" /\ currentAt' = 0 /\ current' = Nothing
  BY DEF Crash
<1>2. CASE StoreSurvives
  BY <1>1, <1>2 DEF StoreSurvives, Promise!End
<1>3. CASE StoreIsLost
  <2>1. PICK r \in Records : r.form = "absent" /\ published' = Append(published, r)
    BY <1>3 DEF StoreIsLost
  <2>2. LoadBoot(r) = Nothing
    BY <2>1 DEF LoadBoot, LoadConfig, Loads
  <2>3. status'.shows = Nothing
    BY <1>3 DEF StoreIsLost, Beat!NoDocument
  <2> QED
    BY <1>1, <2>1, <2>2, <2>3 DEF Promise!End
<1> QED
  BY <1>2, <1>3 DEF Crash

-----------------------------------------------------------------------------
\* Over any number of crashes, restarts and publications the node runs only on
\* what it took from a record its operator signed, and has what its watcher
\* delivered last (loadConfig, onConfigChange).
THEOREM NodeSafety == Spec => []IInv
<1>1. Init => IInv
  BY InitInv
<1>2. IInv /\ [Next]_vars => IInv'
  BY NextInv
<1> QED
  BY <1>1, <1>2, PTL DEF Spec, SafetySpec

\* The watcher, which starts from no configuration, never takes a living node
\* behind the one of its initial load, or behind any it had since
\* (currentConfig is written by both).
THEOREM NodeMovesForward == Spec => ForwardWhileUp
<1>1. IInv /\ [Next]_vars => [life' # "down" => currentAt' >= currentAt]_vars
  BY NextInv
<1> QED
  BY <1>1, NodeSafety, PTL DEF Spec, SafetySpec, ForwardWhileUp

\* What the operator can read of a node, over crashes, restarts and heartbeats
\* that arrive late, are configurations it published to that node (the getters
\* of the heartbeat read currentConfig and the name at the moment it begins).
THEOREM StatusSafety == Spec => []StatusShowsPublished
<1>1. Init => StatusShowsPublished
  BY StatusInit
<1>2. IInv /\ StatusShowsPublished /\ [Next]_vars => StatusShowsPublished'
  BY StatusNext
<1> QED
  BY <1>1, <1>2, NodeSafety, PTL DEF Spec, SafetySpec

\* The managed mode is FollowingNode: over crashes, restarts, failed reads, overlapping
\* polls and late heartbeats, whatever it does looks to its operator like a step of a
\* node that only follows what was published, and shows it, or like no step at all.
THEOREM NodeRefines == Spec => Promise!SafetySpec
<1>1. Init => Promise!Init
  BY DEF Init, Watcher!Init, Beat!NoDocument, Promise!Init
<1>2. IInv /\ StatusShowsPublished /\ [Next]_vars => [Promise!Next]_(Promise!vars)
  <2> SUFFICES ASSUME IInv, StatusShowsPublished, [Next]_vars
               PROVE  Promise!Next \/ UNCHANGED Promise!vars
    OBVIOUS
  <2> DEFINE Same == UNCHANGED <<published, life, currentAt, current, status>>
  <2>1. ASSUME NEW r \in Records, Publish(r) PROVE Promise!Next
    BY <2>1 DEF Publish, Watcher!Publish, node, heartbeat, Promise!Publish, Promise!Next
  <2>2. CASE Boot
    BY <2>2 DEF Boot, heartbeat, Promise!Begin, Promise!Next
  <2>3. CASE InitialLoad \/ (\E p \in Polls : Apply(p))
    BY <2>3, LoadsFollow
  <2>4. CASE InitialReadFails \/ GoUp
    BY <2>4 DEF InitialReadFails, GoUp, heartbeat, Watcher!Start, Watcher!history,
                Beat!Start, Beat!Begin, Promise!vars
  <2>5. Watch => Same
    BY DEF Watch, node, heartbeat, Watcher!Tick, Watcher!history, Watcher!ReadRecord,
           Watcher!ReadFails, Watcher!Skip, Watcher!CallbackResolves
  <2>6. BeatTick \/ UNCHANGED vars => Same
    BY DEF BeatTick, Beat!Tick, Beat!Begin, vars, node, heartbeat
  <2>7. ASSUME NEW k \in 1..MaxInFlight, BeatSettle(k)
        PROVE  Promise!Next \/ UNCHANGED Promise!vars
    BY <2>7, LandingShows
  <2>8. CASE Crash
    BY <2>8, CrashEnds DEF Promise!Next
  <2>9. CASE Same
    BY <2>9 DEF Promise!vars
  <2> QED
    BY <2>1, <2>2, <2>3, <2>4, <2>5, <2>6, <2>7, <2>8, <2>9 DEF Next
<1> QED
  BY <1>1, <1>2, NodeSafety, StatusSafety, PTL DEF Spec, SafetySpec, Promise!SafetySpec
=============================================================================
