--------------------------- MODULE HeartbeatProofs ---------------------------
(***************************************************************************)
(* Safety of Heartbeat for any views, any number of writes in flight and   *)
(* any number of them lost.                                                *)
(***************************************************************************)
EXTENDS Heartbeat, TLAPS

\* What a sequence of writes keeps when one is taken out: its elements are
\* elements of the sequence before.
LEMMA RemoveAtKeeps ==
  ASSUME NEW S, NEW s \in Seq(S), NEW i \in 1 .. Len(s)
  PROVE  /\ RemoveAt(s, i) \in Seq(S)
         /\ Len(RemoveAt(s, i)) = Len(s) - 1
         /\ \A j \in 1 .. Len(s) - 1 :
              RemoveAt(s, i)[j] = IF j < i THEN s[j] ELSE s[j + 1]
<1> DEFINE a == SubSeq(s, 1, i - 1)
           b == SubSeq(s, i + 1, Len(s))
<1>1. a \in Seq(S) /\ Len(a) = i - 1 /\ \A j \in 1 .. i - 1 : a[j] = s[j]
  OBVIOUS
<1>2. /\ b \in Seq(S)
      /\ Len(b) = Len(s) - i
      /\ \A j \in 1 .. Len(s) - i : b[j] = s[j + i]
  OBVIOUS
<1> HIDE DEF a, b
<1>3. /\ a \o b \in Seq(S)
      /\ Len(a \o b) = Len(s) - 1
      /\ \A j \in 1 .. Len(s) - 1 : (a \o b)[j] = IF j < i THEN a[j] ELSE b[j - (i - 1)]
  <2>0. Len(s) \in Nat /\ Len(a) = i - 1 /\ Len(b) = Len(s) - i
    BY <1>1, <1>2
  <2>1. Len(a) \in Nat /\ Len(b) \in Nat /\ Len(a) + Len(b) = Len(s) - 1
    BY <2>0
  <2>4. a \in Seq(S) /\ b \in Seq(S)
    BY <1>1, <1>2
  <2>2. a \o b \in Seq(S) /\ Len(a \o b) = Len(a) + Len(b)
    BY <2>4
  <2>3. \A j \in 1 .. Len(a) + Len(b) :
          (a \o b)[j] = IF j <= Len(a) THEN a[j] ELSE b[j - Len(a)]
    BY <2>4
  <2> QED
    BY <1>1, <2>1, <2>2, <2>3
<1>4. ASSUME NEW j \in 1 .. Len(s) - 1
      PROVE  (a \o b)[j] = IF j < i THEN s[j] ELSE s[j + 1]
  <2>1. CASE j < i
    BY <1>1, <1>3, <2>1
  <2>2. CASE ~(j < i)
    <3>1. j - (i - 1) \in 1 .. Len(s) - i /\ (j - (i - 1)) + i = j + 1
      BY <2>2
    <3>2. b[j - (i - 1)] = s[(j - (i - 1)) + i]
      BY <1>2, <3>1
    <3> QED
      BY <1>3, <2>2, <3>1, <3>2
  <2> QED
    BY <2>1, <2>2
<1>5. RemoveAt(s, i) = a \o b
  BY DEF RemoveAt, a, b
<1> QED
  BY <1>3, <1>4, <1>5

LEMMA InitInv == Init => IInv
<1> SUFFICES ASSUME Init PROVE IInv
  OBVIOUS
<1>1. TypeOK
  <2>1. writes \in Seq(Write) /\ Len(writes) = 0
    BY DEF Init
  <2>2. MaxInFlight \in Nat
    BY HeartbeatAssumption
  <2>3. view \in Views /\ timer \in BOOLEAN /\ status = NoDocument /\ lost \in Nat
    BY DEF Init
  <2> QED
    BY <2>1, <2>2, <2>3 DEF TypeOK
<1>2. StatusIsASnapshot /\ InFlightAreSnapshots
  BY DEF Init, StatusIsASnapshot, InFlightAreSnapshots, NoDocument
<1> QED
  BY <1>1, <1>2 DEF IInv

\* A heartbeat that begins is put together at that moment.
LEMMA BeginInv == IInv /\ Begin /\ timer' \in BOOLEAN => IInv'
<1> SUFFICES ASSUME IInv, Begin, timer' \in BOOLEAN PROVE IInv'
  OBVIOUS
<1> DEFINE w == [pc |-> "signing", doc |-> [shows |-> view, begun |-> view]]
<1>1. w \in Write /\ w.doc.shows = w.doc.begun
  BY DEF IInv, TypeOK, Write, Document
<1>2. writes' = Append(writes, w) /\ Len(writes) < MaxInFlight
  BY DEF Begin
<1>3. writes \in Seq(Write) /\ MaxInFlight \in Nat
  BY HeartbeatAssumption DEF IInv, TypeOK
<1> HIDE DEF w
<1>4. writes' \in Seq(Write) /\ Len(writes') = Len(writes) + 1 /\ Len(writes') <= MaxInFlight
  BY <1>1, <1>2, <1>3
<1>5. TypeOK'
  BY <1>4 DEF Begin, IInv, TypeOK
<1>6. StatusIsASnapshot'
  BY DEF Begin, IInv, StatusIsASnapshot
<1>7. InFlightAreSnapshots'
  <2> SUFFICES ASSUME NEW i \in 1 .. Len(writes')
               PROVE  writes'[i].doc.shows = writes'[i].doc.begun
    BY <1>4 DEF InFlightAreSnapshots
  <2>1. writes'[i] = IF i = Len(writes) + 1 THEN w ELSE writes[i]
    BY <1>1, <1>2, <1>3, <1>4
  <2>2. i # Len(writes) + 1 => i \in DOMAIN writes
    BY <1>3, <1>4
  <2> QED
    BY <1>1, <2>1, <2>2 DEF IInv, InFlightAreSnapshots
<1> QED
  BY <1>5, <1>6, <1>7 DEF IInv

\* Signing keeps the document.
LEMMA SignInv ==
  ASSUME IInv, NEW i \in 1 .. Len(writes), Sign(i)
  PROVE  IInv'
<1>1. writes \in Seq(Write) /\ DOMAIN writes = 1 .. Len(writes)
  BY DEF IInv, TypeOK
<1> DEFINE w == [writes[i] EXCEPT !.pc = "sending"]
<1>2. w \in Write /\ w.doc = writes[i].doc
  <2>0. writes[i] \in Write
    BY <1>1
  <2>1. writes[i] \in [pc : {"signing", "sending"}, doc : Document]
    BY <2>0 DEF Write
  <2> QED
    BY <2>1 DEF Write
<1>3. writes' = [writes EXCEPT ![i] = w]
  BY <1>1 DEF Sign
<1> HIDE DEF w
<1>4. /\ writes' \in Seq(Write) /\ Len(writes') = Len(writes)
      /\ \A j \in 1 .. Len(writes) : writes'[j] = IF j = i THEN w ELSE writes[j]
  BY <1>1, <1>2, <1>3
<1>5. TypeOK'
  BY <1>4 DEF Sign, IInv, TypeOK
<1>6. StatusIsASnapshot'
  BY DEF Sign, IInv, StatusIsASnapshot
<1>7. InFlightAreSnapshots'
  <2> SUFFICES ASSUME NEW j \in 1 .. Len(writes)
               PROVE  writes'[j].doc.shows = writes'[j].doc.begun
    BY <1>4 DEF InFlightAreSnapshots
  <2> QED
    BY <1>1, <1>2, <1>4 DEF IInv, InFlightAreSnapshots
<1> QED
  BY <1>5, <1>6, <1>7 DEF IInv

\* A write that is taken out leaves the other ones as they are.
LEMMA TakenOutInv ==
  ASSUME IInv, NEW i \in 1 .. Len(writes), writes' = RemoveAt(writes, i),
         UNCHANGED <<view, timer>>, lost' \in Nat,
         status' \in {status, writes[i].doc}
  PROVE  IInv'
<1>1. writes \in Seq(Write) /\ DOMAIN writes = 1 .. Len(writes) /\ writes[i] \in Write
  BY DEF IInv, TypeOK
<1>2. /\ writes' \in Seq(Write)
      /\ Len(writes') = Len(writes) - 1
      /\ \A j \in 1 .. Len(writes) - 1 : writes'[j] = IF j < i THEN writes[j] ELSE writes[j + 1]
  BY <1>1, RemoveAtKeeps
<1>3. /\ writes[i].doc \in Document
      /\ writes[i].doc.shows = writes[i].doc.begun
  BY <1>1 DEF IInv, InFlightAreSnapshots, Write
<1>4. TypeOK'
  <2>1. Len(writes') <= MaxInFlight
    BY <1>1, <1>2, HeartbeatAssumption DEF IInv, TypeOK
  <2> QED
    BY <1>2, <1>3, <2>1 DEF IInv, TypeOK
<1>5. StatusIsASnapshot'
  BY <1>3 DEF IInv, StatusIsASnapshot
<1>6. InFlightAreSnapshots'
  <2> SUFFICES ASSUME NEW j \in 1 .. Len(writes) - 1
               PROVE  writes'[j].doc.shows = writes'[j].doc.begun
    BY <1>2 DEF InFlightAreSnapshots
  <2>1. j \in DOMAIN writes /\ j + 1 \in DOMAIN writes
    BY <1>1
  <2> QED
    BY <1>2, <2>1 DEF IInv, InFlightAreSnapshots
<1> QED
  BY <1>4, <1>5, <1>6 DEF IInv

LEMMA NextInv == IInv /\ [Next]_vars => IInv'
<1> SUFFICES ASSUME IInv, [Next]_vars PROVE IInv'
  OBVIOUS
<1>1. CASE \E v \in Views : ChangeView(v)
  BY <1>1 DEF ChangeView, IInv, TypeOK, StatusIsASnapshot, InFlightAreSnapshots
<1>2. CASE Start
  BY <1>2, BeginInv DEF Start
<1>3. CASE Tick
  BY <1>3, BeginInv DEF Tick, IInv, TypeOK
<1>4. CASE Stop
  BY <1>4 DEF Stop, IInv, TypeOK, StatusIsASnapshot, InFlightAreSnapshots
<1>5. ASSUME NEW i \in 1 .. Len(writes), Settle(i) PROVE IInv'
  <2>1. CASE Sign(i)
    BY <2>1, SignInv
  <2>2. CASE Land(i)
    BY <2>2, TakenOutInv DEF Land, IInv, TypeOK
  <2>3. CASE Lose(i)
    BY <2>3, TakenOutInv DEF Lose, IInv, TypeOK
  <2> QED
    BY <1>5, <2>1, <2>2, <2>3 DEF Settle
<1>6. CASE UNCHANGED vars
  BY <1>6 DEF vars, IInv, TypeOK, StatusIsASnapshot, InFlightAreSnapshots
<1> QED
  BY <1>1, <1>2, <1>3, <1>4, <1>5, <1>6 DEF Next, WriterNext

-----------------------------------------------------------------------------
\* A status document tells of one moment only, however slow, late or lost the
\* heartbeats are and however many overlap (writeHeartbeat puts the document
\* together before its first await).
THEOREM StatusSafety == Spec => []IInv
<1>1. Init => IInv
  BY InitInv
<1>2. IInv /\ [Next]_vars => IInv'
  BY NextInv
<1> QED
  BY <1>1, <1>2, PTL DEF Spec, SafetySpec
=============================================================================
