----------------------------- MODULE ManagedNode -----------------------------
(***************************************************************************)
(* The managed mode of the node (apps/b3nd-node/mod.ts, Phase 2): boots    *)
(* with the operator's configuration, follows its changes with a config    *)
(* watcher, and reports what it runs with in its heartbeat; and it may     *)
(* crash at any time and be started again.                                 *)
(*                                                                         *)
(* The composition of ConfigWatcher and Heartbeat over the node's          *)
(* currentConfig: the watcher's callback writes it, the heartbeat's        *)
(* getters read it.  Config records and status document are in the node's  *)
(* own store, which may or may not survive the process.                    *)
(***************************************************************************)
EXTENDS SignedRecords, Sequences, FiniteSets

CONSTANTS
  Records,       \* the records the operator may publish
  Polls,         \* see ConfigWatcher
  HasKey,        \* is NODE_ENCRYPTION_PRIVATE_KEY_HEX set?
  MaxPublished,  \* bound: records published
  MaxFaults,     \* bound: failing reads
  MaxInFlight,   \* bound: heartbeats in flight
  MaxLost,       \* bound: heartbeats lost
  MaxCrashes     \* bound: crashes

ASSUME NodeAssumption == HasKey \in BOOLEAN /\ MaxCrashes \in Nat

VARIABLES
  life,        \* "down", "booting", "loaded" (initial load over) or "up"
  current,     \* currentConfig
  bootConfig,  \* currentConfig when the heartbeat was created: its name and
               \* the intervals stay those of this config
  currentAt,   \* history: position of the record current is from, or 0
  crashes,     \* crashes so far
  \* the store: the config records and the status document
  published, status,
  \* the config watcher
  timer, lastConfig, polling, poll, delivered, applied, failed, faults, lateCalls,
  \* the heartbeat writer
  beating, writes, lost

node == <<life, current, bootConfig, currentAt, crashes>>
watcher == <<timer, lastConfig, polling, poll, delivered, applied, failed,
             faults, lateCalls>>
heartbeat == <<beating, writes, status, lost>>
vars == <<node, published, watcher, heartbeat>>

\* What the heartbeat's options answer: the name is the boot config's, the
\* backends are the current config's.
View == [name |-> bootConfig, backends |-> current]
Views == [name : Bodies \cup {Nothing}, backends : Bodies \cup {Nothing}]

Watcher == INSTANCE ConfigWatcher
Beat == INSTANCE Heartbeat
          WITH view <- View, timer <- beating, NoView <- Nothing

Init ==
  /\ life = "down"
  /\ current = Nothing
  /\ bootConfig = Nothing
  /\ currentAt = 0
  /\ crashes = 0
  /\ Watcher!Init
  /\ beating = FALSE
  /\ writes = <<>>
  /\ status = Beat!NoDocument
  /\ lost = 0

-----------------------------------------------------------------------------
Publish(r) == Watcher!Publish(r) /\ UNCHANGED <<node, heartbeat>>

\* The process is started.
Boot ==
  /\ life = "down"
  /\ life' = "booting"
  /\ UNCHANGED <<current, bootConfig, currentAt, crashes, published, watcher,
                 heartbeat>>

\* The initial loadConfig, with the node's key if it has one.  A load that
\* throws is caught: the node goes on without a configuration.
InitialLoad ==
  /\ life = "booting"
  /\ life' = "loaded"
  /\ current' = LoadConfig(published[Len(published)], HasKey)
  /\ bootConfig' = current'
  /\ currentAt' = IF current' = Nothing THEN 0 ELSE Len(published)
  /\ UNCHANGED <<crashes, published, watcher, heartbeat>>

InitialReadFails ==
  /\ life = "booting"
  /\ faults < MaxFaults
  /\ faults' = faults + 1
  /\ life' = "loaded"
  /\ UNCHANGED <<current, bootConfig, currentAt, crashes, published, timer,
                 lastConfig, polling, poll, delivered, applied, failed,
                 lateCalls, heartbeat>>

\* heartbeat.start() and configWatcher.start(), in the step that follows.
GoUp ==
  /\ life = "loaded"
  /\ life' = "up"
  /\ UNCHANGED <<current, bootConfig, currentAt, crashes>>
  /\ Beat!Start
  /\ Watcher!Start

\* Mutant of Apply: a config is applied only when none was there.
ApplyOnce(p) ==
  /\ Watcher!Deliver(p)
  /\ current' = IF current = Nothing THEN Watcher!Loaded(p) ELSE current
  /\ currentAt' = IF current = Nothing THEN poll[p].at ELSE currentAt
  /\ UNCHANGED <<life, bootConfig, crashes, heartbeat>>

\* The watcher calls onConfigChange, which assigns currentConfig at once (and
\* cannot reject: its body is a try).
Apply(p) ==
  /\ Watcher!Deliver(p)
  /\ current' = Watcher!Loaded(p)
  /\ currentAt' = poll[p].at
  /\ UNCHANGED <<life, bootConfig, crashes, heartbeat>>

\* The watcher's other steps.
Watch ==
  /\ \/ Watcher!Tick
     \/ \E p \in Polls :
          \/ Watcher!ReadRecord(p)
          \/ Watcher!ReadFails(p)
          \/ Watcher!Skip(p)
          \/ Watcher!CallbackResolves(p)
  /\ UNCHANGED <<node, heartbeat>>

\* The heartbeat ticks, or a write of it goes on; a write that was sent does
\* so even when the process is gone.
BeatTick ==
  /\ UNCHANGED <<node, published, watcher>>
  /\ Beat!Tick

BeatSettle(i) ==
  /\ i <= Len(writes)
  /\ UNCHANGED <<node, published, watcher>>
  /\ Beat!Settle(i)

\* The node is its own config client.  The end of the process does nothing to
\* a durable backend, and a heartbeat that was sent still arrives; a memory://
\* backend is lost with it, which to its readers is the publication of an
\* absent record.
Sent == {i \in DOMAIN writes : writes[i].pc = "sending"}

StoreSurvives ==
  /\ \E kept \in [1..Cardinality(Sent) -> Sent] :
       /\ \A j, k \in DOMAIN kept : j < k => kept[j] < kept[k]
       /\ writes' = [k \in DOMAIN kept |-> writes[kept[k]]]
  /\ UNCHANGED <<published, status>>

StoreIsLost ==
  /\ \E r \in Records :
       r.form = "absent" /\ published' = Append(published, r)
  /\ writes' = <<>>
  /\ status' = Beat!NoDocument

\* The process dies, and all that it had in memory.
Crash ==
  /\ life # "down"
  /\ crashes < MaxCrashes
  /\ crashes' = crashes + 1
  /\ life' = "down"
  /\ current' = Nothing
  /\ bootConfig' = Nothing
  /\ currentAt' = 0
  /\ timer' = FALSE
  /\ lastConfig' = Nothing
  /\ polling' = FALSE
  /\ poll' = [p \in Polls |-> Watcher!Idle]
  /\ delivered' = 0
  /\ applied' = 0
  /\ failed' = 0
  /\ lateCalls' = 0
  /\ beating' = FALSE
  /\ StoreSurvives \/ StoreIsLost
  /\ UNCHANGED <<faults, lost>>

Next ==
  \/ \E r \in Records : Publish(r)
  \/ Boot
  \/ InitialLoad
  \/ InitialReadFails
  \/ GoUp
  \/ \E p \in Polls : Apply(p)
  \/ Watch
  \/ BeatTick
  \/ \E i \in 1..MaxInFlight : BeatSettle(i)
  \/ Crash

SafetySpec == Init /\ [][Next]_vars

\* What the fairness of the two loops amounts to here, the intervals fire and
\* promises settle; and the container of a managed node is restarted when it
\* dies ("unless-stopped" in the generated compose file).
Fairness ==
  /\ WF_vars(Boot)
  /\ WF_vars(InitialLoad \/ InitialReadFails)
  /\ WF_vars(GoUp)
  /\ WF_vars((\E p \in Polls : Apply(p)) \/ Watch)
  /\ WF_vars(BeatTick)
  /\ \A i \in 1..MaxInFlight : WF_vars(BeatSettle(i))

Spec == SafetySpec /\ Fairness

-----------------------------------------------------------------------------
(* Properties *)

TypeOK ==
  /\ life \in {"down", "booting", "loaded", "up"}
  /\ current \in Bodies \cup {Nothing}
  /\ bootConfig \in Bodies \cup {Nothing}
  /\ currentAt \in Nat
  /\ crashes \in Nat
  /\ Watcher!TypeOK
  /\ beating \in BOOLEAN

\* The node never runs with a configuration the operator did not sign and
\* seal to it, or publish in plaintext; and it has one once either the initial
\* load or the watcher found one, until it dies.
CurrentIsLoaded ==
  /\ (current = Nothing) <=> (currentAt = 0)
  /\ current # Nothing =>
       /\ currentAt <= Len(published)
       /\ Operator \in published[currentAt].signedBy
       /\ published[currentAt].body = current
       /\ published[currentAt].seal = "open" \/ (published[currentAt].seal = "node" /\ HasKey)
  /\ life = "up" /\ lastConfig # Nothing => current = lastConfig

\* What makes it so.  A node that is not up has no poll under way, and before it
\* is loaded no configuration; and a poll under way is alone and has read what
\* is no older than what the node runs with.
PollsAreCurrent ==
  /\ Len(published) # 0
  /\ Watcher!OneAtATime
  /\ life # "up" => ~polling /\ ~timer /\ lastConfig = Nothing
  /\ life \in {"down", "booting"} => current = Nothing
  /\ \A p \in Polls :
       poll[p].pc \in {"loading", "applying"} =>
         poll[p].at \in 1..Len(published) /\ currentAt <= poll[p].at

\* At every moment of a node's life, over crashes, restarts and configurations
\* it could not verify, open or apply, what it runs on is what the code took
\* from a record its operator signed, and the variables have their types.
IInv == TypeOK /\ CurrentIsLoaded /\ PollsAreCurrent

\* While the process lives, its configuration only moves forward along the
\* operator's publications: the watcher never takes it back behind the initial
\* load, although it starts from no config and reads without a key.
ForwardWhileUp ==
  [][life' # "down" => currentAt' >= currentAt]_vars

\* The promise of a managed node, as the operator sees it.
LoadBoot(r) == LoadConfig(r, HasKey)
LoadPoll(r) == LoadConfig(r, FALSE)
Promise == INSTANCE FollowingNode
             WITH running <- life # "down", seen <- currentAt, config <- current,
                  shown <- status.shows, Load <- LoadBoot, Retry <- LoadPoll

\* The node keeps its promise: over crashes, failed and slow reads, late and lost
\* heartbeats, it takes a step that FollowingNode has, or none; and it follows
\* what its watcher can load.
FollowsOperator == Promise!Spec

\* What the heartbeat's getters answer: the configuration of the record the node
\* has now, and of the same or an earlier one, which it booted with.
ViewIsPublished ==
  /\ current = Promise!ConfigAt(currentAt)
  /\ \E i \in 0..currentAt : bootConfig = Promise!ConfigAt(i)

\* A status document, stored or on its way, shows configurations of the operator:
\* those the node had when the heartbeat began, even if it was sent before a crash
\* and arrives after it, its backends never older than its name.  So would the
\* document of a heartbeat that begins now.
OfOperator(doc) ==
  /\ doc \in Beat!Document
  /\ doc.shows = doc.begun
  /\ \E i, j \in 0..Len(published) :
       /\ i <= j
       /\ doc.shows = [name |-> Promise!ConfigAt(i), backends |-> Promise!ConfigAt(j)]

StatusShowsPublished ==
  /\ status # Beat!NoDocument => OfOperator(status)
  /\ writes \in Seq(Beat!Write)
  /\ \A i \in DOMAIN writes : OfOperator(writes[i].doc)
  /\ ViewIsPublished

\* End to end: when the operator leaves a plaintext configuration in place, the
\* node ends up running with it and its status document ends up showing it,
\* whatever crashes, failed reads and lost heartbeats came before.
Latest == published[Len(published)]
OperatorSeesItsConfig ==
  <>[](LoadConfig(Latest, FALSE) # Nothing) =>
    <>[](/\ current = LoadConfig(Latest, FALSE)
         /\ status # Beat!NoDocument
         /\ status.shows.backends = current)

\* "config watcher will retry": a configuration that the node can load, with
\* the key it has, is loaded in the end.
RetrySucceeds ==
  <>[](LoadConfig(Latest, HasKey) # Nothing) =>
    <>[](current = LoadConfig(Latest, HasKey))
=============================================================================
