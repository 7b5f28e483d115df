---------------------------- MODULE UpdateChecker ----------------------------
(***************************************************************************)
(* createUpdateChecker (libs/b3nd-managed-node/update-protocol.ts): looks  *)
(* for a new version in the operator's update manifest.                    *)
(*                                                                         *)
(* Unlike the config watcher it has no re-entrance guard: every tick of    *)
(* the interval and every call of the public check() is a check of its     *)
(* own, and checks that overlap finish in any order.  A check awaits the   *)
(* read of the manifest, then its verification and decryption, and judges  *)
(* the version last, in one step with lastVersion.  A poll that finds a    *)
(* new version calls onUpdateAvailable; whether that call fails changes    *)
(* nothing in the checker.  The version is remembered whoever the check    *)
(* reports to, so what a caller of check() is told, the handler is not.    *)
(***************************************************************************)
EXTENDS SignedRecords, Sequences

CONSTANTS
  Records,       \* the manifests the operator may publish
  Versions,      \* the versions they name
  VersionOf,     \* the version a manifest's body names
  Checks,        \* identities for the checks in flight: their number bounds
                 \* how many overlap
  HasKey,        \* was the checker given the node's decryption key?
  MaxPublished,  \* bound: manifests published
  MaxFaults      \* bound: failing reads

ASSUME CheckerAssumption ==
  /\ Records \subseteq Record
  /\ VersionOf \in [Bodies -> Versions]
  /\ Nothing \notin Versions
  /\ HasKey \in BOOLEAN
  /\ MaxPublished \in Nat \ {0}
  /\ MaxFaults \in Nat

VARIABLES
  published,    \* the manifests published at the update URI, oldest first
  timer,        \* is the interval set?
  lastVersion,  \* the version last found, Nothing for the initial null
  check,        \* the checks in flight: who each one reports to, where it
                \* is, the position of the manifest it read, and (history)
                \* the value of told when it began
  told,         \* history: position of the manifest reported last, to a
                \* caller of check() or to onUpdateAvailable; or 0
  announced,    \* history: position of the manifest that onUpdateAvailable
                \* was called with last, or 0
  taken,        \* history: has a caller of check() been told since?
  faults        \* reads that failed so far

vars == <<published, timer, lastVersion, check, told, announced, taken, faults>>
reports == <<lastVersion, told, announced, taken>>

Check == [by : {"poll", "caller"}, pc : {"idle", "reading", "judging"},
          at : Nat, since : Nat]
Idle == [by |-> "poll", pc |-> "idle", at |-> 0, since |-> 0]

Init ==
  /\ published \in {<<r>> : r \in Records}
  /\ timer = FALSE
  /\ lastVersion = Nothing
  /\ check = [c \in Checks |-> Idle]
  /\ told = 0
  /\ announced = 0
  /\ taken = FALSE
  /\ faults = 0

-----------------------------------------------------------------------------
\* The operator writes a manifest at the node's update URI.
Publish(r) ==
  /\ Len(published) < MaxPublished
  /\ published' = Append(published, r)
  /\ UNCHANGED <<timer, check, reports, faults>>

\* A call of check(), up to the await of the read.
Begin(c, by) ==
  /\ check[c].pc = "idle"
  /\ check' = [check EXCEPT ![c] = [by |-> by, pc |-> "reading", at |-> 0,
                                    since |-> told]]
  /\ UNCHANGED <<published, reports, faults>>

\* The public check().
CallCheck(c) == Begin(c, "caller") /\ UNCHANGED timer

\* start(): the interval and an immediate poll.
Start(c) == ~timer /\ timer' = TRUE /\ Begin(c, "poll")

\* The interval fires.
Tick(c) == timer /\ Begin(c, "poll") /\ UNCHANGED timer

\* stop(): checks in flight go on.
Stop ==
  /\ timer
  /\ timer' = FALSE
  /\ UNCHANGED <<published, check, reports, faults>>

\* Mutant of Fetch: the read is answered by a replica that may lag behind.
FetchStale(c) ==
  /\ check[c].pc = "reading"
  /\ \E i \in 1..Len(published) :
       check' = [check EXCEPT ![c].pc = "judging", ![c].at = i]
  /\ UNCHANGED <<published, timer, reports, faults>>

\* The client's read takes its snapshot of the manifest.
Fetch(c) ==
  /\ check[c].pc = "reading"
  /\ check' = [check EXCEPT ![c].pc = "judging", ![c].at = Len(published)]
  /\ UNCHANGED <<published, timer, reports, faults>>

\* The read rejects: caught, "not available".
FetchFails(c) ==
  /\ check[c].pc = "reading"
  /\ faults < MaxFaults
  /\ faults' = faults + 1
  /\ check' = [check EXCEPT ![c] = Idle]
  /\ UNCHANGED <<published, timer, reports>>

\* A manifest outside any envelope is taken as it is; a signed one must be
\* verified, and opened if it is sealed.
Trusts(rec) ==
  \/ rec.form = "bare" /\ rec.seal = "open"
  \/ rec.form = "signed" /\ Verified(rec) /\ Opens(rec, HasKey)

\* The version check() compares: Nothing where it answers "not available"
\* before the comparison (ValidBodies name a version and a module URL).
Version(rec) ==
  IF Trusts(rec) /\ rec.body \in ValidBodies
  THEN VersionOf[rec.body]
  ELSE Nothing

Found(c) == Version(published[check[c].at])

\* Not available, or the version found last.
Skip(c) ==
  /\ check[c].pc = "judging"
  /\ Found(c) \in {Nothing, lastVersion}
  /\ check' = [check EXCEPT ![c] = Idle]
  /\ UNCHANGED <<published, timer, reports, faults>>

\* Whom a check tells what it found: its caller, or the handler.  A poll
\* calls onUpdateAvailable a fixed number of microtasks after its check, so
\* handlers are called in the order of the reports.
Tell(c) ==
  /\ told' = check[c].at
  /\ announced' = IF check[c].by = "poll" THEN check[c].at ELSE announced
  /\ taken' = (check[c].by = "caller")

\* Mutant of Report: the version is not remembered.
ReportForgets(c) ==
  /\ check[c].pc = "judging"
  /\ Found(c) \notin {Nothing, lastVersion}
  /\ Tell(c)
  /\ check' = [check EXCEPT ![c] = Idle]
  /\ UNCHANGED <<published, timer, lastVersion, faults>>

\* Mutant of Report: the version of the latest manifest is remembered, not of
\* the one that was judged.
ReportRereads(c) ==
  /\ check[c].pc = "judging"
  /\ Found(c) \notin {Nothing, lastVersion}
  /\ lastVersion' = Version(published[Len(published)])
  /\ Tell(c)
  /\ check' = [check EXCEPT ![c] = Idle]
  /\ UNCHANGED <<published, timer, faults>>

\* A version other than the last one: remembered, and reported to the caller
\* of check() or, by a poll, to onUpdateAvailable.
Report(c) ==
  /\ check[c].pc = "judging"
  /\ Found(c) \notin {Nothing, lastVersion}
  /\ lastVersion' = Found(c)
  /\ Tell(c)
  /\ check' = [check EXCEPT ![c] = Idle]
  /\ UNCHANGED <<published, timer, faults>>

Settle(c) == Fetch(c) \/ FetchFails(c) \/ Skip(c) \/ Report(c)

Next ==
  \/ \E r \in Records : Publish(r)
  \/ Stop
  \/ \E c \in Checks : CallCheck(c) \/ Start(c) \/ Tick(c) \/ Settle(c)

SafetySpec == Init /\ [][Next]_vars

\* The interval keeps firing while it is set, and reads settle.
Fairness == WF_vars(\E c \in Checks : Tick(c)) /\ \A c \in Checks : WF_vars(Settle(c))

Spec == SafetySpec /\ Fairness

-----------------------------------------------------------------------------
(* Properties *)

TypeOK ==
  /\ published \in Seq(Records)
  /\ timer \in BOOLEAN
  /\ lastVersion \in Versions \cup {Nothing}
  /\ check \in [Checks -> Check]
  /\ told \in Nat
  /\ announced \in Nat
  /\ taken \in BOOLEAN
  /\ faults \in Nat

\* The handler is called twice in a row with one version only if a caller of
\* check() was told of another in between, however polls and calls overlap
\* and in whatever order they finish.
AnnouncedAnew ==
  [][\A c \in Checks :
       Report(c) /\ check[c].by = "poll" /\ announced # 0 /\ ~taken
         => Found(c) # Version(published[announced])]_vars

\* Overlapping checks may report an older manifest after a newer one, but only
\* among themselves: what had been reported when a check began is never undone
\* by that check.
NoOlderThanAtBegin ==
  [][\A c \in Checks : Report(c) => check[c].since <= told']_vars

\* However checks overlapped and failed, while the interval runs over a
\* manifest that stays the same, its version ends up the one reported last.
Latest == published[Len(published)]
Converges ==
  <>[](timer /\ Version(Latest) # Nothing) =>
    <>[](/\ told # 0
         /\ Version(published[told]) = Version(Latest)
         /\ lastVersion = Version(Latest))

\* The inductive invariant behind the safety properties: a manifest is read
\* after its check began, when it is not older than any that was reported.
ReadsAfterBegin ==
  /\ published # <<>>
  /\ \A c \in Checks :
       /\ check[c].since <= Len(published)
       /\ check[c].pc = "judging" =>
            check[c].at \in 1..Len(published) /\ check[c].since <= check[c].at

\* What was told last, to anyone, is what lastVersion remembers, and carries
\* the operator's signature when it is signed at all; the handler knows it
\* unless a caller of check() took it.
Remembers ==
  /\ (told = 0) = (lastVersion = Nothing)
  /\ told # 0 =>
       /\ told <= Len(published)
       /\ published[told].form = "signed" => Operator \in published[told].signedBy
       /\ lastVersion = VersionOf[published[told].body]
       /\ lastVersion = Version(published[told])
  /\ ~taken => announced = told

IInv == TypeOK /\ Remembers /\ ReadsAfterBegin

\* When checks do not overlap, the checker implements the follower: reports
\* only move forward along the publication order.
Follower == INSTANCE ConfigFollower
              WITH Load <- Version, on <- timer, seen <- told,
                   config <- lastVersion
FollowsVersion == Follower!Spec
=============================================================================
