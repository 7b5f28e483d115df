------------------------- MODULE UpdateCheckerProofs -------------------------
(***************************************************************************)
(* Safety of UpdateChecker for every set of manifests, any number of       *)
(* checks that overlap, with and without a decryption key; and, when there *)
(* is one check at a time, the refinement of ConfigFollower.               *)
(***************************************************************************)
EXTENDS UpdateChecker, TLAPS

\* Where the comparison is reached the version is the one the body names, and
\* a signed manifest carries the operator's signature.
LEMMA VersionYields ==
  ASSUME NEW rec \in Record
  PROVE  /\ Version(rec) \in Versions \cup {Nothing}
         /\ Version(rec) # Nothing =>
              /\ Version(rec) = VersionOf[rec.body]
              /\ rec.form = "signed" => Operator \in rec.signedBy
  <1>1. rec.body \in Bodies
    BY DEF Record
  <1>2. VersionOf[rec.body] \in Versions
    BY <1>1, CheckerAssumption
  <1> QED
    BY <1>2 DEF Version, Trusts, Verified

LEMMA InitInv == Init => IInv
<1> SUFFICES ASSUME Init PROVE IInv
  OBVIOUS
<1>1. PICK r \in Records : published = <<r>>
  BY DEF Init
<1>2. published \in Seq(Records) /\ Len(published) = 1 /\ published # <<>>
  BY <1>1
<1>3. check \in [Checks -> Check]
  BY DEF Init, Check, Idle
<1>4. TypeOK
  BY <1>2, <1>3 DEF Init, TypeOK
<1>5. Remembers
  BY DEF Init, Remembers
<1>6. ReadsAfterBegin
  BY <1>2 DEF Init, ReadsAfterBegin, Idle
<1> QED
  BY <1>4, <1>5, <1>6 DEF IInv

\* Every step preserves the inductive invariant: one step per action.
LEMMA NextInv == IInv /\ [Next]_vars => IInv'
<1> SUFFICES ASSUME IInv, [Next]_vars PROVE IInv'
  OBVIOUS
<1> USE DEF reports
<1>a. TypeOK /\ Remembers /\ ReadsAfterBegin
  BY DEF IInv
<1>b. /\ Len(published) \in Nat
      /\ Len(published) \in 1..Len(published)
      /\ \A i \in 1..Len(published) : published[i] \in Record
  BY <1>a, CheckerAssumption DEF TypeOK, ReadsAfterBegin
<1>c. \A c \in Checks : check[c] = [by |-> check[c].by, pc |-> check[c].pc,
                                    at |-> check[c].at, since |-> check[c].since]
  BY <1>a DEF TypeOK, Check
<1>1. ASSUME NEW r \in Records, Publish(r) PROVE IInv'
  <2>1. /\ published' \in Seq(Records)
        /\ Len(published') = Len(published) + 1
        /\ \A i \in 1..Len(published) : published'[i] = published[i]
    BY <1>1, <1>a DEF Publish, TypeOK
  <2>2. TypeOK'
    BY <1>1, <1>a, <2>1 DEF Publish, TypeOK
  <2>3. Remembers'
    BY <1>1, <1>a, <1>b, <2>1 DEF Publish, Remembers, TypeOK
  <2>4. ReadsAfterBegin'
    BY <1>1, <1>a, <1>b, <2>1 DEF Publish, ReadsAfterBegin, TypeOK, Check
  <2> QED
    BY <2>2, <2>3, <2>4 DEF IInv
<1>2. ASSUME NEW c \in Checks, NEW by \in {"poll", "caller"}, Begin(c, by),
             timer' \in BOOLEAN
      PROVE  IInv'
  <2>1. check' \in [Checks -> Check]
    BY <1>2, <1>a DEF Begin, TypeOK, Check
  <2>2. TypeOK' /\ Remembers'
    BY <1>2, <1>a, <2>1 DEF Begin, TypeOK, Remembers
  <2>3. told <= Len(published)
    BY <1>a, <1>b DEF Remembers, TypeOK
  <2>4. ReadsAfterBegin'
    BY <1>2, <1>a, <2>3 DEF Begin, ReadsAfterBegin, TypeOK
  <2> QED
    BY <2>2, <2>4 DEF IInv
<1>3. CASE Stop
  BY <1>3, <1>a DEF Stop, IInv, TypeOK, Remembers, ReadsAfterBegin
<1>4. ASSUME NEW c \in Checks, CallCheck(c) \/ Start(c) \/ Tick(c) PROVE IInv'
  BY <1>4, <1>a, <1>2 DEF CallCheck, Start, Tick, TypeOK
<1>5. ASSUME NEW c \in Checks, Fetch(c) PROVE IInv'
  <2>1. check' \in [Checks -> Check]
    BY <1>5, <1>a, <1>b DEF Fetch, TypeOK, Check
  <2>2. TypeOK' /\ Remembers'
    BY <1>5, <1>a, <2>1 DEF Fetch, TypeOK, Remembers
  <2>3. ReadsAfterBegin'
    BY <1>5, <1>a, <1>b DEF Fetch, ReadsAfterBegin, TypeOK, Check
  <2> QED
    BY <2>2, <2>3 DEF IInv
\* A check ends: its slot is idle again.
<1>6. ASSUME NEW c \in Checks, check' = [check EXCEPT ![c] = Idle],
             UNCHANGED published
      PROVE  check' \in [Checks -> Check] /\ ReadsAfterBegin'
  <2>1. check' \in [Checks -> Check]
    BY <1>6, <1>a DEF TypeOK, Check, Idle
  <2>2. ReadsAfterBegin'
    BY <1>6, <1>a, <1>b DEF ReadsAfterBegin, TypeOK, Idle
  <2> QED
    BY <2>1, <2>2
<1>7. ASSUME NEW c \in Checks, FetchFails(c) PROVE IInv'
  <2>1. check' \in [Checks -> Check] /\ ReadsAfterBegin'
    BY <1>7, <1>6 DEF FetchFails
  <2>2. TypeOK' /\ Remembers'
    BY <1>7, <1>a, <2>1 DEF FetchFails, TypeOK, Remembers
  <2> QED
    BY <2>1, <2>2 DEF IInv
<1>8. ASSUME NEW c \in Checks, Skip(c) PROVE IInv'
  <2>1. check' \in [Checks -> Check] /\ ReadsAfterBegin'
    BY <1>8, <1>6 DEF Skip
  <2>2. TypeOK' /\ Remembers'
    BY <1>8, <1>a, <2>1 DEF Skip, TypeOK, Remembers
  <2> QED
    BY <2>1, <2>2 DEF IInv
<1>9. ASSUME NEW c \in Checks, Report(c) PROVE IInv'
  <2>1. check' \in [Checks -> Check] /\ ReadsAfterBegin'
    BY <1>9, <1>6 DEF Report
  <2>2. /\ check[c].at \in 1..Len(published)
        /\ published[check[c].at] \in Record
    BY <1>9, <1>a, <1>b DEF Report, ReadsAfterBegin
  <2>3. /\ lastVersion' \in Versions
        /\ lastVersion' # Nothing
        /\ lastVersion' = VersionOf[published[check[c].at].body]
        /\ published[check[c].at].form = "signed" =>
             Operator \in published[check[c].at].signedBy
    BY <1>9, <2>2, VersionYields DEF Report, Found
  <2>4. TypeOK'
    BY <1>9, <1>a, <2>1, <2>2, <2>3 DEF Report, Tell, TypeOK
  <2>5. /\ check[c].by \in {"poll", "caller"}
        /\ told' = check[c].at
        /\ told' # 0 /\ told' <= Len(published')
        /\ published' = published
        /\ lastVersion' = Version(published[check[c].at])
    BY <1>9, <1>a, <1>b, <2>2 DEF Report, Tell, Found, TypeOK, Check
  <2>6. ~taken' => announced' = told'
    BY <1>9, <2>5 DEF Report, Tell
  <2>7. Remembers'
    BY <2>3, <2>5, <2>6 DEF Remembers
  <2> QED
    BY <2>1, <2>4, <2>7 DEF IInv
<1>10. CASE UNCHANGED vars
  BY <1>10, <1>a
     DEF vars, IInv, TypeOK, Remembers, ReadsAfterBegin
<1> QED
  BY <1>1, <1>3, <1>4, <1>5, <1>7, <1>8, <1>9, <1>10 DEF Next, Settle

\* The inductive invariant holds in every reachable state of the checker.
THEOREM Invariant == SafetySpec => []IInv
  BY InitInv, NextInv, PTL DEF SafetySpec

\* onUpdateAvailable is called twice in a row with one version only if a caller
\* of check() was told of another in between.
THEOREM AnnouncesAnew == SafetySpec => AnnouncedAnew
<1>1. ASSUME IInv,
             NEW c \in Checks, Report(c), announced # 0, ~taken
      PROVE  Found(c) # Version(published[announced])
  <2>1. announced = told /\ told # 0 /\ lastVersion = Version(published[told])
    BY <1>1 DEF IInv, Remembers
  <2> QED
    BY <1>1, <2>1 DEF Report
<1>2. IInv /\ [Next]_vars =>
        [\A c \in Checks :
           Report(c) /\ check[c].by = "poll" /\ announced # 0 /\ ~taken
             => Found(c) # Version(published[announced])]_vars
  BY <1>1
<1> QED
  BY <1>2, Invariant, PTL DEF SafetySpec, AnnouncedAnew

\* A check never reports a manifest older than one reported before it began,
\* however many checks overlap.
THEOREM NeverOlder == SafetySpec => NoOlderThanAtBegin
<1>1. IInv /\ [Next]_vars =>
        [\A c \in Checks : Report(c) => check[c].since <= told']_vars
  BY DEF IInv, ReadsAfterBegin, Report, Tell
<1> QED
  BY <1>1, Invariant, PTL DEF SafetySpec, NoOlderThanAtBegin

\* With one check at a time the checker implements the follower: versions are
\* reported in publication order, each at most once in a row.
THEOREM SerialRefines ==
  ASSUME \A c, d \in Checks : c = d
  PROVE  SafetySpec => Follower!SafetySpec
\* With one check, nothing is reported between its beginning and its end.
<1> DEFINE Serial == \A c \in Checks : check[c].pc # "idle" => check[c].since = told
<1>1. Init => Follower!Init /\ Serial
  BY DEF Init, Follower!Init, Idle
<1>2. IInv /\ Serial /\ [Next]_vars => Serial'
  <2> SUFFICES ASSUME IInv, Serial, [Next]_vars PROVE Serial'
    OBVIOUS
  <2> USE DEF reports
  <2>1. check \in [Checks -> Check]
    BY DEF IInv, TypeOK
  <2>2. ASSUME NEW c \in Checks, FetchFails(c) \/ Skip(c) \/ Report(c)
        PROVE  Serial'
    <3>1. check' = [check EXCEPT ![c] = Idle]
      BY <2>2 DEF FetchFails, Skip, Report
    <3>2. \A d \in Checks : check'[d] = Idle
      BY <2>1, <3>1
    <3> QED
      BY <3>2 DEF Idle
  <2>5. ASSUME NEW c \in Checks, Fetch(c) PROVE Serial'
    BY <2>5, <2>1 DEF Fetch, Check
  <2>3. ASSUME NEW c \in Checks, CallCheck(c) \/ Start(c) \/ Tick(c)
        PROVE  Serial'
    BY <2>1, <2>3 DEF CallCheck, Start, Tick, Begin
  <2>4. CASE UNCHANGED <<check, told>>
    BY <2>4
  <2> QED
    BY <2>2, <2>3, <2>4, <2>5 DEF Next, Settle, Publish, Stop, vars
<1>3. IInv /\ Serial /\ [Next]_vars => [Follower!Next]_(Follower!vars)
  <2> SUFFICES ASSUME IInv, Serial, [Next]_vars
               PROVE  Follower!Next \/ UNCHANGED Follower!vars
    OBVIOUS
  <2> USE DEF Follower!vars, reports
  <2>1. ASSUME NEW r \in Records, Publish(r) PROVE Follower!Next
    BY <2>1 DEF Publish, Follower!Next, Follower!Publish
  <2>2. ASSUME NEW c \in Checks, Start(c) PROVE Follower!Next
    BY <2>2 DEF Start, Begin, Follower!Next, Follower!Switch
  <2>3. CASE Stop
    BY <2>3 DEF Stop, Follower!Next, Follower!Switch
  <2>4. ASSUME NEW c \in Checks, Report(c) PROVE Follower!Next
    <3>1. /\ check[c].at \in 1..Len(published)
          /\ told \in Nat
          /\ told <= check[c].at
      BY <2>4 DEF Report, IInv, ReadsAfterBegin, Remembers, TypeOK
    <3>2. Version(published[check[c].at]) \notin {Nothing, lastVersion}
      BY <2>4 DEF Report, Found
    <3>3. published[check[c].at] \in Record
      BY <3>1, CheckerAssumption DEF IInv, TypeOK
    <3>4. told # check[c].at
      BY <3>1, <3>2, <3>3, VersionYields DEF IInv, Remembers
    <3>5. Follower!Follow(check[c].at)
      BY <2>4, <3>1, <3>2, <3>4 DEF Report, Tell, Found, Follower!Follow
    <3> QED
      BY <3>1, <3>5 DEF Follower!Next
  <2>5. CASE UNCHANGED <<published, timer, told, lastVersion>>
    BY <2>5
  <2> QED
    BY <2>1, <2>2, <2>3, <2>4, <2>5
       DEF Next, Settle, CallCheck, Tick, Begin, Fetch, FetchFails, Skip, vars
<1> QED
  BY <1>1, <1>2, <1>3, Invariant, PTL DEF SafetySpec, Follower!SafetySpec
=============================================================================
