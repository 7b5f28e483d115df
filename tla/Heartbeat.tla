------------------------------ MODULE Heartbeat ------------------------------
(***************************************************************************)
(* createHeartbeatWriter (libs/b3nd-managed-node/heartbeat.ts): writes the *)
(* node's status document, at start and then on every tick.                *)
(*                                                                         *)
(* The document is put together synchronously, then signed (and sealed)    *)
(* and sent, each an await.  Nothing keeps a slow write from overlapping   *)
(* the next one, so the writes in flight are kept in the order they began; *)
(* any of them may be the next to reach the store, or be lost: an error is *)
(* logged and the write is not tried again.                                *)
(*                                                                         *)
(* What the getters answer is the environment's variable `view`.           *)
(***************************************************************************)
EXTENDS Naturals, Sequences, SequencesExt

CONSTANTS
  Views,        \* what getBackendStatuses and getMetrics may answer
  NoView,       \* the view of a status document that was never written
  MaxInFlight,  \* bound: writes in flight, the latency in ticks
  MaxLost       \* bound: writes lost

ASSUME HeartbeatAssumption ==
  /\ NoView \notin Views
  /\ MaxInFlight \in Nat \ {0}
  /\ MaxLost \in Nat

VARIABLES
  view,      \* what the getters answer now
  timer,     \* is the interval set?
  writes,    \* the writes in flight, oldest first
  status,    \* the status document in the store
  lost       \* writes that failed so far

vars == <<view, timer, writes, status, lost>>

\* A document has the view it shows and (history) the view when its heartbeat
\* began.
Document == [shows : Views, begun : Views]
NoDocument == [shows |-> NoView, begun |-> NoView]
Write == [pc : {"signing", "sending"}, doc : Document]

Init ==
  /\ view \in Views
  /\ timer = FALSE
  /\ writes = <<>>
  /\ status = NoDocument
  /\ lost = 0

-----------------------------------------------------------------------------
\* The node's state, as the getters see it, changes.
ChangeView(v) ==
  /\ view' = v
  /\ UNCHANGED <<timer, writes, status, lost>>

\* Mutant of Begin: the getters are asked once, for the first heartbeat.
BeginCached ==
  /\ Len(writes) < MaxInFlight
  /\ writes' = Append(writes,
       [pc |-> "signing",
        doc |-> [shows |-> IF status = NoDocument THEN view ELSE status.shows,
                 begun |-> view]])
  /\ UNCHANGED <<view, status, lost>>

\* writeHeartbeat, up to its first await: the document is put together.
Begin ==
  /\ Len(writes) < MaxInFlight
  /\ writes' = Append(writes,
       [pc |-> "signing",
        doc |-> [shows |-> view, begun |-> view]])
  /\ UNCHANGED <<view, status, lost>>

Start == ~timer /\ timer' = TRUE /\ Begin

Tick == timer /\ Begin /\ UNCHANGED timer

\* stop(): writes in flight go on.
Stop ==
  /\ timer
  /\ timer' = FALSE
  /\ UNCHANGED <<view, writes, status, lost>>

\* Mutant of Sign: the getters are asked when the document is signed.
SignLate(i) ==
  /\ writes[i].pc = "signing"
  /\ writes' = [writes EXCEPT ![i].pc = "sending", ![i].doc.shows = view]
  /\ UNCHANGED <<view, timer, status, lost>>

\* The message is signed and handed to the client.
Sign(i) ==
  /\ writes[i].pc = "signing"
  /\ writes' = [writes EXCEPT ![i].pc = "sending"]
  /\ UNCHANGED <<view, timer, status, lost>>

\* The write reaches the store.
Land(i) ==
  /\ writes[i].pc = "sending"
  /\ status' = writes[i].doc
  /\ writes' = RemoveAt(writes, i)
  /\ UNCHANGED <<view, timer, lost>>

\* Signing or sending fails: caught and logged.
Lose(i) ==
  /\ lost < MaxLost
  /\ lost' = lost + 1
  /\ writes' = RemoveAt(writes, i)
  /\ UNCHANGED <<view, timer, status>>

Settle(i) == Sign(i) \/ Land(i) \/ Lose(i)

WriterNext ==
  \/ Start
  \/ Tick
  \/ Stop
  \/ \E i \in 1..Len(writes) : Settle(i)

Next == (\E v \in Views : ChangeView(v)) \/ WriterNext

SafetySpec == Init /\ [][Next]_vars

\* The interval keeps firing while it is set, and awaits settle.
Fairness ==
  /\ WF_vars(Tick)
  /\ \A i \in 1..MaxInFlight : WF_vars(i <= Len(writes) /\ Settle(i))

Spec == SafetySpec /\ Fairness

-----------------------------------------------------------------------------
(* Properties *)

TypeOK ==
  /\ view \in Views
  /\ timer \in BOOLEAN
  /\ writes \in Seq(Write)
  /\ Len(writes) <= MaxInFlight
  /\ status \in Document \cup {NoDocument}
  /\ lost \in Nat

\* A status document is a snapshot: it never mixes what the node was when its
\* heartbeat began with what it became while the document was signed and sent.
StatusIsASnapshot == status.shows = status.begun

\* So are the documents on their way.
InFlightAreSnapshots ==
  \A i \in DOMAIN writes : writes[i].doc.shows = writes[i].doc.begun

\* The inductive invariant: a heartbeat, on its way or landed, late or out of
\* order, tells of one moment only, that at which it was put together: never a
\* part of what the node was by then beside a part of what it was later.
IInv == TypeOK /\ StatusIsASnapshot /\ InFlightAreSnapshots

\* Although a slow heartbeat may land after a newer one, and heartbeats may be
\* lost, a writer that stays on ends up showing what the node is.
Converges ==
  \A v \in Views : <>[](timer /\ view = v) => <>[](status.shows = v)
=============================================================================
