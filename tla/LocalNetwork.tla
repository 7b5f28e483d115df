---------------------------- MODULE LocalNetwork ----------------------------
(***************************************************************************)
(* startLocalNetwork (libs/b3nd-managed-node/local-runner.ts): one process *)
(* per node of a manifest, spawned in order, and stop(), which ends them   *)
(* one after the other in the same order.                                  *)
(*                                                                         *)
(* Processes may end by themselves at any time.  When one cannot be        *)
(* spawned, startLocalNetwork throws: its caller gets no network to stop,  *)
(* though the processes spawned before go on.                              *)
(***************************************************************************)
EXTENDS Naturals, Sequences

CONSTANTS
  NodeCount,  \* the nodes of the manifest are 1 .. NodeCount, in its order
  HasKey,     \* those that a private key is given for
  StopCalls   \* calls of stop()

ASSUME LocalNetworkAssumption == NodeCount \in Nat /\ HasKey \subseteq 1 .. NodeCount

Nodes == 1 .. NodeCount

VARIABLES
  launch,     \* "starting", "started", or "threw"
  next,       \* the node startLocalNetwork looks at next
  spawned,    \* running: the nodes that were spawned, in order
  process,    \* the process of each node
  stopAt,     \* of each stop(): its position in spawned, 0 before the call
  stopWaits   \* of each stop(): has it sent the SIGTERM, and waits?

lnVars == <<launch, next, spawned, process, stopAt, stopWaits>>

LnInit ==
  /\ launch = "starting"
  /\ next = 1
  /\ spawned = <<>>
  /\ process = [n \in Nodes |-> "none"]
  /\ stopAt = [c \in StopCalls |-> 0]
  /\ stopWaits = [c \in StopCalls |-> FALSE]

-----------------------------------------------------------------------------
\* A node without a private key is skipped.
SkipNode ==
  /\ launch = "starting"
  /\ next \in Nodes \ HasKey
  /\ next' = next + 1
  /\ UNCHANGED <<launch, spawned, process, stopAt, stopWaits>>

SpawnNode ==
  /\ launch = "starting"
  /\ next \in HasKey
  /\ next' = next + 1
  /\ spawned' = Append(spawned, next)
  /\ process' = [process EXCEPT ![next] = "alive"]
  /\ UNCHANGED <<launch, stopAt, stopWaits>>

SpawnThrows ==
  /\ launch = "starting"
  /\ next \in HasKey
  /\ launch' = "threw"
  /\ UNCHANGED <<next, spawned, process, stopAt, stopWaits>>

AllSpawned ==
  /\ launch = "starting"
  /\ next > NodeCount
  /\ launch' = "started"
  /\ UNCHANGED <<next, spawned, process, stopAt, stopWaits>>

\* A process ends, by itself or by a SIGTERM.
ProcessEnds(n) ==
  /\ process[n] \in {"alive", "dying"}
  /\ process' = [process EXCEPT ![n] = "dead"]
  /\ UNCHANGED <<launch, next, spawned, stopAt, stopWaits>>

\* stop() is called.
StopCalled(c) ==
  /\ launch = "started"
  /\ stopAt[c] = 0
  /\ stopAt' = [stopAt EXCEPT ![c] = 1]
  /\ UNCHANGED <<launch, next, spawned, process, stopWaits>>

Stopping(c) == stopAt[c] \in DOMAIN spawned
Stopped(c) == stopAt[c] > Len(spawned)

\* Mutant of Kill: an error ends the loop.
KillEndsLoop(c) ==
  /\ Stopping(c)
  /\ ~stopWaits[c]
  /\ LET n == spawned[stopAt[c]] IN
     IF process[n] = "dead"
     THEN stopAt' = [stopAt EXCEPT ![c] = Len(spawned) + 1] /\ UNCHANGED <<process, stopWaits>>
     ELSE /\ process' = [process EXCEPT ![n] = "dying"]
          /\ stopWaits' = [stopWaits EXCEPT ![c] = TRUE]
          /\ UNCHANGED stopAt
  /\ UNCHANGED <<launch, next, spawned>>

\* SIGTERM to the next process, which throws when the process has ended: the
\* loop goes on.
Kill(c) ==
  /\ Stopping(c)
  /\ ~stopWaits[c]
  /\ LET n == spawned[stopAt[c]] IN
     IF process[n] = "dead"
     THEN stopAt' = [stopAt EXCEPT ![c] = @ + 1] /\ UNCHANGED <<process, stopWaits>>
     ELSE /\ process' = [process EXCEPT ![n] = "dying"]
          /\ stopWaits' = [stopWaits EXCEPT ![c] = TRUE]
          /\ UNCHANGED stopAt
  /\ UNCHANGED <<launch, next, spawned>>

\* Mutant of ProcessStopped: the status is not awaited.
ProcessSignalled(c) ==
  /\ Stopping(c)
  /\ stopWaits[c]
  /\ stopAt' = [stopAt EXCEPT ![c] = @ + 1]
  /\ stopWaits' = [stopWaits EXCEPT ![c] = FALSE]
  /\ UNCHANGED <<launch, next, spawned, process>>

\* Its status is known.
ProcessStopped(c) ==
  /\ Stopping(c)
  /\ stopWaits[c]
  /\ process[spawned[stopAt[c]]] = "dead"
  /\ stopAt' = [stopAt EXCEPT ![c] = @ + 1]
  /\ stopWaits' = [stopWaits EXCEPT ![c] = FALSE]
  /\ UNCHANGED <<launch, next, spawned, process>>

LnNext ==
  \/ SkipNode \/ SpawnNode \/ SpawnThrows \/ AllSpawned
  \/ \E n \in Nodes : ProcessEnds(n)
  \/ \E c \in StopCalls : StopCalled(c) \/ Kill(c) \/ ProcessStopped(c)

LnSpec == LnInit /\ [][LnNext]_lnVars

-----------------------------------------------------------------------------
\* The variables have the types of what they model.
LnTypeOK ==
  /\ launch \in {"starting", "started", "threw"}
  /\ next \in 1 .. NodeCount + 1
  /\ spawned \in Seq(HasKey)
  /\ process \in [Nodes -> {"none", "alive", "dying", "dead"}]
  /\ stopAt \in [StopCalls -> 0 .. NodeCount + 1]
  /\ stopWaits \in [StopCalls -> BOOLEAN]

\* Once stop() is called no process of the network runs in the end, and each
\* call resolves, though processes end by themselves and several calls of
\* stop() go through the nodes at the same time.
NetworkStops ==
  \A c \in StopCalls :
    (stopAt[c] # 0) ~> (Stopped(c) /\ \A n \in Nodes : process[n] \in {"none", "dead"})

\* A stop() has left behind it dead processes only, and when it resolves none
\* is left, though another stop() sends its signals at the same time.
StoppedIsDead ==
  \A c \in StopCalls : \A i \in DOMAIN spawned :
    i < stopAt[c] => process[spawned[i]] = "dead"

\* Every process was spawned once, for a node that has a key, and is reached by
\* stop().
ProcessesAreKnown ==
  /\ \A n \in Nodes : process[n] # "none" <=> \E i \in DOMAIN spawned : spawned[i] = n
  /\ \A i, j \in DOMAIN spawned : i < j => spawned[i] < spawned[j]

\* What makes it so: stop() goes through a list that is complete, and the nodes
\* that are looked at next have no process yet.
ListIsComplete ==
  /\ \A c \in StopCalls : stopAt[c] # 0 => launch = "started"
  /\ Len(spawned) < next /\ \A i \in DOMAIN spawned : spawned[i] < next
  /\ \A c \in StopCalls : stopWaits[c] => stopAt[c] \in DOMAIN spawned

LnInv == LnTypeOK /\ StoppedIsDead /\ ProcessesAreKnown /\ ListIsComplete
=============================================================================
