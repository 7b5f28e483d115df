------------------------- MODULE NodeServicesProofs -------------------------
(***************************************************************************)
(* Safety of the executors, of the local network and of the compose file,  *)
(* for any number of callers, statements, errors, writers and nodes; and   *)
(* that the executor runs transactions one at a time when callers do.      *)
(***************************************************************************)
EXTENDS PgExecutor, FsExecutor, LocalNetwork, ComposeServices, TLAPS

PgPlaces == {"new", "open", "rollback", "ok", "failed"}

\* The rows of a call are named by it.
LEMMA RowsAreOfCalls ==
  ASSUME NEW c \in Calls
  PROVE  /\ \A x \in RowsOf(c) : x[1] = c
         /\ c \in Txs => RowsOf(c) = {c} \X (1 .. Statements)
         /\ c \in Queries => RowsOf(c) = {<<c, 1>>}
  BY PgAssumption DEF RowsOf, Calls

\* What a step does to the place of one call, and so to those that are open.
LEMMA MoveKeeps ==
  ASSUME PgTypeOK, NEW c \in Calls, NEW where \in PgPlaces, MoveTo(c, where)
  PROVE  /\ pc' \in [Calls -> PgPlaces]
         /\ \A d \in Calls : pc'[d] = IF d = c THEN where ELSE pc[d]
         /\ Open' = IF where \in {"open", "rollback"} THEN Open \cup {c} ELSE Open \ {c}
<1>1. /\ pc' \in [Calls -> PgPlaces]
      /\ \A d \in Calls : pc'[d] = IF d = c THEN where ELSE pc[d]
  BY DEF MoveTo, PgTypeOK, PgPlaces
<1> QED
  BY <1>1 DEF Open

LEMMA MeetKeeps ==
  ASSUME PgTypeOK, NEW c \in Calls, Meet(c)
  PROVE  /\ exposed' \subseteq Calls /\ exposed \subseteq exposed'
         /\ Open = {} => exposed' = exposed
         /\ Open # {} => exposed' = exposed \cup Open \cup {c}
  BY DEF Meet, PgTypeOK, Open

LEMMA PgInitInv == PgInit => PgIInv
<1> SUFFICES ASSUME PgInit PROVE PgIInv
  OBVIOUS
<1>1. PgTypeOK
  <2>1. pc \in [Calls -> PgPlaces] /\ done \in [Calls -> 0 .. Statements]
    BY PgAssumption DEF PgInit, PgPlaces
  <2>2. errors \in 0 .. MaxErrors
    BY PgAssumption DEF PgInit
  <2> QED
    BY <2>1, <2>2 DEF PgInit, PgTypeOK, PgPlaces
<1>2. Open = {}
  BY DEF PgInit, Open
<1>3. AckedOrNothing /\ TransactionIsOfACall /\ AloneIsExact
  BY <1>2 DEF PgInit, AckedOrNothing, TransactionIsOfACall, AloneIsExact
<1>4. TracesAreOfCalls
  <2>1. \A c \in Queries : c \in Calls
    BY DEF Calls
  <2>2. \A c \in Calls : pc[c] = "new" /\ done[c] = 0
    BY DEF PgInit
  <2>3. doubt = {} /\ rows \cup work = {}
    BY DEF PgInit
  <2> QED
    BY <2>1, <2>2, <2>3 DEF TracesAreOfCalls
<1> QED
  BY <1>1, <1>3, <1>4 DEF PgIInv

-----------------------------------------------------------------------------
(* One lemma per kind of step *)

LEMMA BeginInv ==
  ASSUME PgIInv, NEW c \in Txs, Begin(c)
  PROVE  PgIInv'
<1>1. c \in Calls /\ pc[c] = "new" /\ connected /\ ~aborted /\ PgTypeOK
  BY DEF Begin, Calls, PgIInv
<1>2. /\ pc' \in [Calls -> PgPlaces]
      /\ \A d \in Calls : pc'[d] = IF d = c THEN "open" ELSE pc[d]
      /\ Open' = Open \cup {c}
  BY <1>1, MoveKeeps DEF Begin, PgPlaces
<1>3. /\ exposed' \subseteq Calls /\ exposed \subseteq exposed'
      /\ Open = {} => exposed' = exposed
      /\ Open # {} => exposed' = exposed \cup Open \cup {c}
  BY <1>1, MeetKeeps DEF Begin
<1>4. inTx' = TRUE /\ UNCHANGED <<connected, aborted, work, rows, done, errors, tolerant, doubt>>
  BY DEF Begin, ServerBegin
<1>5. PgTypeOK'
  BY <1>1, <1>2, <1>3, <1>4 DEF PgTypeOK, PgPlaces
<1>6. AckedOrNothing'
  BY <1>2, <1>3, <1>4 DEF PgIInv, AckedOrNothing
<1>7. TransactionIsOfACall'
  BY <1>1, <1>2, <1>3, <1>4 DEF PgIInv, TransactionIsOfACall
<1>8. AloneIsExact'
  <2> SUFFICES ASSUME NEW d \in Open', d \notin exposed'
               PROVE  /\ Open' = {d}
                      /\ rows' \cap RowsOf(d) = {}
                      /\ inTx' /\ ~aborted'
                      /\ work' = {d} \X (1 .. done'[d])
    BY DEF AloneIsExact
  <2>1. d = c /\ Open = {}
    BY <1>2, <1>3
  <2>2. work = {} /\ done[c] = 0 /\ \A x \in rows : x[1] # c
    BY <1>1, <2>1 DEF PgIInv, TransactionIsOfACall, TracesAreOfCalls
  <2>3. rows \cap RowsOf(c) = {}
    BY <1>1, <2>2, RowsAreOfCalls
  <2>4. {c} \X (1 .. done[c]) = {}
    BY <2>2
  <2> QED
    BY <1>1, <1>2, <1>4, <2>1, <2>2, <2>3, <2>4
<1>9. TracesAreOfCalls'
  <2>1. \A d \in Queries : d \in Calls /\ d # c
    BY PgAssumption DEF Calls
  <2>2. \A d \in doubt : d \in Calls
    BY <1>1 DEF PgTypeOK
  <2>3. \A d \in Calls : pc'[d] = "new" => pc[d] = "new"
    BY <1>2
  <2>4. doubt = {}
    BY <1>1, <1>2, <2>2 DEF PgIInv, TracesAreOfCalls
  <2> QED
    BY <1>2, <1>4, <2>1, <2>3, <2>4 DEF PgIInv, TracesAreOfCalls
<1> QED
  BY <1>5, <1>6, <1>7, <1>8, <1>9 DEF PgIInv

\* A call fails without a trace: at BEGIN, at the statement of a query, or when
\* nothing is to be done any more on a connection that is lost.
LEMMA FailInv ==
  ASSUME PgIInv, NEW c \in Calls, MoveTo(c, "failed"),
         UNCHANGED <<connected, inTx, work, rows, done, tolerant, doubt>>,
         errors' \in 0 .. MaxErrors, aborted' \in {aborted, inTx},
         \/ pc[c] = "new" /\ Meet(c)
         \/ ~connected /\ c \in Open /\ UNCHANGED exposed
         \/ ~connected /\ pc[c] = "new" /\ UNCHANGED exposed
  PROVE  PgIInv'
<1>1. PgTypeOK /\ (pc[c] = "new" \/ c \in Open)
  BY DEF PgIInv
<1>2. /\ pc' \in [Calls -> PgPlaces]
      /\ \A d \in Calls : pc'[d] = IF d = c THEN "failed" ELSE pc[d]
      /\ Open' = Open \ {c}
  BY <1>1, MoveKeeps DEF PgPlaces
<1>3. /\ exposed' \subseteq Calls /\ exposed \subseteq exposed'
      /\ \/ ~connected
         \/ Open = {} \/ exposed' = exposed \cup Open \cup {c}
  BY <1>1, MeetKeeps DEF PgTypeOK
<1>4. PgTypeOK'
  BY <1>1, <1>2, <1>3 DEF PgTypeOK, PgPlaces
<1>5. AckedOrNothing'
  <2>1. c \notin doubt /\ c \notin exposed => RowsOf(c) \cap rows = {}
    <3>1. CASE pc[c] = "new"
      BY <3>1, RowsAreOfCalls DEF PgIInv, TracesAreOfCalls
    <3>2. CASE c \in Open
      BY <3>2 DEF PgIInv, AloneIsExact
    <3> QED
      BY <1>1, <3>1, <3>2
  <2> QED
    BY <1>2, <1>3, <2>1 DEF PgIInv, AckedOrNothing
<1>6. TransactionIsOfACall'
  <2>1. connected => pc[c] = "new" /\ c \notin Open
    BY DEF Open
  <2> QED
    BY <1>2, <1>3, <2>1 DEF PgIInv, TransactionIsOfACall
<1>7. AloneIsExact'
  <2> SUFFICES ASSUME NEW d \in Open', d \notin exposed'
               PROVE  /\ Open' = {d} /\ ~connected
                      /\ d \notin doubt => rows \cap RowsOf(d) = {}
    BY DEF AloneIsExact
  <2>1. d \in Open /\ d # c /\ d \notin exposed
    BY <1>2, <1>3
  <2>2. Open = {d} /\ (d \notin doubt => rows \cap RowsOf(d) = {})
    BY <2>1 DEF PgIInv, AloneIsExact
  <2> QED
    BY <1>2, <1>3, <2>1, <2>2
<1>8. TracesAreOfCalls'
  <2>1. \A d \in Calls : pc'[d] = "new" => pc[d] = "new"
    BY <1>2
  <2>2. \A d \in Queries : d \in Calls
    BY DEF Calls
  <2>3. \A d \in doubt : d \in Calls
    BY <1>1 DEF PgTypeOK
  <2> QED
    BY <1>2, <2>1, <2>2, <2>3 DEF PgIInv, TracesAreOfCalls
<1> QED
  BY <1>4, <1>5, <1>6, <1>7, <1>8 DEF PgIInv

\* A statement of fn is made, in the open transaction or for good.
LEMMA InsertInv ==
  ASSUME PgIInv, NEW c \in Txs, Insert(c)
  PROVE  PgIInv'
<1> DEFINE x == <<c, done[c] + 1>>
<1>1. /\ c \in Calls /\ c \in Open /\ connected /\ ~aborted /\ PgTypeOK
      /\ pc[c] = "open"
      /\ UNCHANGED <<connected, inTx, aborted, pc, errors, exposed, tolerant, doubt>>
  BY DEF Insert, ServerInsert, Calls, Open, PgIInv, history
<1>2. /\ Open' = Open
      /\ done[c] \in Nat /\ done[c] + 1 \in 1 .. Statements
      /\ x \in Calls \X (1 .. Statements) /\ x[1] = c
  BY <1>1, PgAssumption DEF Insert, Open, PgTypeOK
<1>3. /\ done' \in [Calls -> 0 .. Statements]
      /\ \A d \in Calls : done'[d] = IF d = c THEN done[d] + 1 ELSE done[d]
  BY <1>1, <1>2, PgAssumption DEF Insert, PgTypeOK
<1>4. IF inTx THEN work' = work \cup {x} /\ rows' = rows
              ELSE rows' = rows \cup {x} /\ work' = work
  BY DEF Insert, ServerInsert
<1>5. c \notin exposed => inTx /\ Open = {c}
  BY <1>1 DEF PgIInv, AloneIsExact
<1> HIDE DEF x
<1>6. PgTypeOK'
  BY <1>1, <1>2, <1>3, <1>4 DEF PgTypeOK
<1>7. \A d \in Calls : d # c => x \notin RowsOf(d)
  BY <1>2, RowsAreOfCalls
<1>8. AckedOrNothing'
  BY <1>1, <1>4, <1>5, <1>7 DEF PgIInv, AckedOrNothing
<1>9. TransactionIsOfACall'
  BY <1>1, <1>2, <1>4 DEF PgIInv, TransactionIsOfACall
<1>10. AloneIsExact'
  <2> SUFFICES ASSUME NEW d \in Open, d \notin exposed
               PROVE  /\ Open = {d}
                      /\ d \notin doubt => rows' \cap RowsOf(d) = {}
                      /\ pc[d] = "open" => inTx
                      /\ pc[d] = "open" /\ d \notin tolerant =>
                           ~aborted /\ work' = {d} \X (1 .. done'[d])
    BY <1>1, <1>2 DEF AloneIsExact
  <2>1. /\ Open = {d} /\ d = c /\ inTx
        /\ d \notin doubt => rows \cap RowsOf(d) = {}
        /\ d \notin tolerant => work = {d} \X (1 .. done[d])
    BY <1>1, <1>5 DEF PgIInv, AloneIsExact
  <2>2. 1 .. done[c] + 1 = (1 .. done[c]) \cup {done[c] + 1}
    BY <1>2
  <2>3. {c} \X (1 .. done[c] + 1) = ({c} \X (1 .. done[c])) \cup {x}
    BY <2>2 DEF x
  <2> QED
    BY <1>1, <1>3, <1>4, <2>1, <2>3
<1>11. TracesAreOfCalls'
  <2>1. \A d \in Calls : pc[d] = "new" => d # c
    BY <1>1
  <2>2. rows' \cup work' = rows \cup work \cup {x}
    BY <1>4
  <2> QED
    BY <1>1, <1>2, <1>3, <2>1, <2>2 DEF PgIInv, TracesAreOfCalls
<1> QED
  BY <1>6, <1>8, <1>9, <1>10, <1>11 DEF PgIInv

\* A statement of fn fails, and fn with it or not.
LEMMA InsertFailsInv ==
  ASSUME PgIInv, NEW c \in Txs, InsertFails(c)
  PROVE  PgIInv'
<1>1. /\ c \in Calls /\ c \in Open /\ connected /\ PgTypeOK /\ pc[c] = "open"
      /\ UNCHANGED <<connected, inTx, work, rows, exposed, doubt>>
      /\ aborted' = inTx
  BY DEF InsertFails, ServerError, Calls, Open, PgIInv
<1>2. errors' \in 0 .. MaxErrors
  BY <1>1, PgAssumption DEF InsertFails, ErrorIsDue, CountError, PgTypeOK
<1>3. PICK where \in {"open", "rollback"} :
        /\ pc' \in [Calls -> PgPlaces]
        /\ \A d \in Calls : pc'[d] = IF d = c THEN where ELSE pc[d]
        /\ Open' = Open
        /\ done' \in [Calls -> 0 .. Statements]
        /\ \A d \in Calls \ {c} : done'[d] = done[d]
        /\ tolerant' \subseteq Calls /\ tolerant \subseteq tolerant'
        /\ where = "open" => c \in tolerant'
  <2>1. CASE MoveTo(c, "rollback") /\ UNCHANGED <<done, tolerant>>
    <3>1. /\ pc' \in [Calls -> PgPlaces]
          /\ \A d \in Calls : pc'[d] = IF d = c THEN "rollback" ELSE pc[d]
          /\ Open' = Open
      BY <1>1, <2>1, MoveKeeps DEF PgPlaces
    <3> QED
      BY <1>1, <2>1, <3>1 DEF PgTypeOK
  <2>2. CASE UNCHANGED pc /\ done' = [done EXCEPT ![c] = @ + 1] /\ tolerant' = tolerant \cup {c}
    <3>1. /\ done' \in [Calls -> 0 .. Statements]
          /\ \A d \in Calls \ {c} : done'[d] = done[d]
      BY <1>1, <2>2, PgAssumption DEF InsertFails, PgTypeOK
    <3> QED
      BY <1>1, <2>2, <3>1 DEF PgTypeOK, PgPlaces, Open
  <2> QED
    BY <2>1, <2>2 DEF InsertFails
<1>4. PgTypeOK'
  BY <1>1, <1>2, <1>3 DEF PgTypeOK, PgPlaces
<1>5. AckedOrNothing'
  BY <1>1, <1>3 DEF PgIInv, AckedOrNothing
<1>6. TransactionIsOfACall'
  BY <1>1, <1>3 DEF PgIInv, TransactionIsOfACall
<1>7. AloneIsExact'
  <2> SUFFICES ASSUME NEW d \in Open, d \notin exposed
               PROVE  /\ Open = {d}
                      /\ d \notin doubt => rows \cap RowsOf(d) = {}
                      /\ pc'[d] = "open" => inTx /\ d \in tolerant'
    BY <1>1, <1>3 DEF AloneIsExact
  <2>1. /\ Open = {d} /\ d = c /\ inTx
        /\ d \notin doubt => rows \cap RowsOf(d) = {}
    BY <1>1 DEF PgIInv, AloneIsExact
  <2> QED
    BY <1>1, <1>3, <2>1
<1>8. TracesAreOfCalls'
  <2>1. \A d \in Queries : d \in Calls /\ d # c
    BY PgAssumption DEF Calls
  <2>2. \A d \in doubt : d \in Calls /\ d # c
    BY <1>1 DEF PgTypeOK, PgIInv, TracesAreOfCalls
  <2>3. \A d \in Calls : pc'[d] = "new" => d # c
    BY <1>3
  <2> QED
    BY <1>1, <1>3, <2>1, <2>2, <2>3 DEF PgIInv, TracesAreOfCalls
<1> QED
  BY <1>4, <1>5, <1>6, <1>7, <1>8 DEF PgIInv

\* fn rejects: nothing of it is undone yet.
LEMMA ThrowInv ==
  ASSUME PgIInv, NEW c \in Txs, Throw(c)
  PROVE  PgIInv'
<1>1. /\ c \in Calls /\ c \in Open /\ PgTypeOK /\ pc[c] = "open"
      /\ UNCHANGED <<connected, inTx, aborted, work, rows, done, errors, exposed, tolerant, doubt>>
  BY DEF Throw, Calls, Open, PgIInv, server, history
<1>2. /\ pc' \in [Calls -> PgPlaces]
      /\ \A d \in Calls : pc'[d] = IF d = c THEN "rollback" ELSE pc[d]
      /\ Open' = Open
  BY <1>1, MoveKeeps DEF Throw, PgPlaces
<1>3. PgTypeOK'
  BY <1>1, <1>2 DEF PgTypeOK, PgPlaces
<1>4. AckedOrNothing' /\ TransactionIsOfACall'
  BY <1>1, <1>2 DEF PgIInv, AckedOrNothing, TransactionIsOfACall
<1>5. AloneIsExact'
  BY <1>1, <1>2 DEF PgIInv, AloneIsExact, Open
<1>6. TracesAreOfCalls'
  <2>1. \A d \in Queries : d \in Calls /\ d # c
    BY PgAssumption DEF Calls
  <2>2. \A d \in doubt : d \in Calls
    BY <1>1 DEF PgTypeOK
  <2> QED
    BY <1>1, <1>2, <2>1, <2>2 DEF PgIInv, TracesAreOfCalls
<1> QED
  BY <1>3, <1>4, <1>5, <1>6 DEF PgIInv

\* A call ends the transaction, which keeps what there was in it or nothing:
\* COMMIT, one that fails, one whose answer is lost, and ROLLBACK.
LEMMA EndInv ==
  ASSUME PgIInv, NEW c \in Txs, c \in Open, connected, connected' \in BOOLEAN,
         errors' \in 0 .. MaxErrors, UNCHANGED <<done, exposed, tolerant>>,
         NEW where \in {"ok", "rollback", "failed"}, MoveTo(c, where),
         NEW kept \in {{}, CommitWork}, ServerEnd(kept),
         \/ /\ where = "ok" /\ pc[c] = "open" /\ done[c] = Statements
            /\ kept = CommitWork /\ UNCHANGED doubt
         \/ where \in {"failed", "rollback"} /\ kept = {} /\ UNCHANGED doubt
         \/ /\ where = "rollback" /\ pc[c] = "open" /\ done[c] = Statements
            /\ kept = CommitWork /\ connected' = FALSE /\ doubt' = doubt \cup {c}
  PROVE  PgIInv'
<1>1. c \in Calls /\ PgTypeOK
  BY DEF Calls, PgIInv
<1>2. /\ pc' \in [Calls -> PgPlaces]
      /\ \A d \in Calls : pc'[d] = IF d = c THEN where ELSE pc[d]
      /\ Open' = IF where = "rollback" THEN Open ELSE Open \ {c}
  BY <1>1, MoveKeeps DEF PgPlaces
<1>3. /\ inTx' = FALSE /\ aborted' = FALSE /\ work' = {} /\ rows' = rows \cup kept
      /\ kept \subseteq work
  BY DEF ServerEnd, CommitWork
<1>4. \A d \in Calls : d \notin Open \cup exposed => RowsOf(d) \cap work = {}
  BY RowsAreOfCalls DEF PgIInv, TransactionIsOfACall
<1>5. PgTypeOK'
  BY <1>1, <1>2, <1>3 DEF PgTypeOK, PgPlaces
<1>6. AckedOrNothing'
  <2> SUFFICES ASSUME NEW d \in Calls \ exposed
               PROVE  /\ pc'[d] = "ok" /\ d \notin tolerant => RowsOf(d) \subseteq rows'
                      /\ pc'[d] = "failed" /\ d \notin doubt' => RowsOf(d) \cap rows' = {}
                      /\ d \in doubt' /\ d \notin tolerant => RowsOf(d) \subseteq rows'
    BY DEF AckedOrNothing
  <2>1. CASE d # c
    <3>1. pc'[d] = pc[d] /\ (d \in doubt' <=> d \in doubt)
      BY <1>2, <2>1
    <3>2. pc[d] = "failed" => d \notin Open
      BY DEF Open
    <3> QED
      BY <1>3, <1>4, <3>1, <3>2 DEF PgIInv, AckedOrNothing
  <2>2. CASE d = c
    <3>1. /\ c \notin doubt => rows \cap RowsOf(c) = {}
          /\ pc[c] = "open" /\ c \notin tolerant => ~aborted /\ work = {c} \X (1 .. done[c])
      BY <2>2 DEF PgIInv, AloneIsExact
    <3>2. RowsOf(c) = {c} \X (1 .. Statements)
      BY <1>1, RowsAreOfCalls
    <3>3. CASE where = "ok"
      BY <1>1, <1>2, <1>3, <2>2, <3>1, <3>2, <3>3 DEF PgIInv, TracesAreOfCalls, CommitWork
    <3>4. CASE where # "ok" /\ UNCHANGED doubt
      BY <1>1, <1>2, <1>3, <2>2, <3>1, <3>4 DEF PgIInv, TracesAreOfCalls
    <3>5. CASE where = "rollback" /\ doubt' = doubt \cup {c}
      BY <1>1, <1>2, <1>3, <2>2, <3>1, <3>2, <3>5 DEF PgIInv, TracesAreOfCalls, CommitWork
    <3> QED
      BY <3>3, <3>4, <3>5
  <2> QED
    BY <2>1, <2>2
<1>7. TransactionIsOfACall'
  BY <1>3 DEF TransactionIsOfACall
<1>8. AloneIsExact'
  <2> SUFFICES ASSUME NEW d \in Open', d \notin exposed
               PROVE  /\ Open' = {d}
                      /\ d \notin doubt' => rows' \cap RowsOf(d) = {}
                      /\ pc'[d] # "open"
    BY DEF AloneIsExact
  <2>1. d \in Open /\ Open = {d} /\ d = c
    BY <1>2 DEF PgIInv, AloneIsExact
  <2>2. where = "rollback"
    BY <1>2, <2>1
  <2> QED
    BY <1>1, <1>2, <1>3, <2>1, <2>2 DEF PgIInv, AloneIsExact
<1>9. TracesAreOfCalls'
  <2>1. \A d \in Queries : d \in Calls /\ d # c
    BY PgAssumption DEF Calls
  <2>2. doubt = {}
    BY DEF PgIInv, TracesAreOfCalls
  <2>3. \A d \in doubt' : ~connected' /\ pc'[d] \in {"rollback", "failed"}
    BY <1>1, <1>2, <2>2
  <2>4. \A d \in Calls : pc'[d] = "new" => pc[d] = "new" /\ d # c /\ (d \in doubt' => d \in doubt)
    BY <1>2
  <2>5. rows' \cup work' \subseteq rows \cup work
    BY <1>3
  <2> QED
    BY <1>2, <2>1, <2>3, <2>4, <2>5 DEF PgIInv, TracesAreOfCalls
<1> QED
  BY <1>5, <1>6, <1>7, <1>8, <1>9 DEF PgIInv

\* A query is made, in whatever transaction is open.
LEMMA QueryInv ==
  ASSUME PgIInv, NEW c \in Queries, Query(c)
  PROVE  PgIInv'
<1> DEFINE x == <<c, 1>>
<1>1. /\ c \in Calls /\ pc[c] = "new" /\ connected /\ ~aborted /\ PgTypeOK /\ c \notin Open
      /\ UNCHANGED <<connected, inTx, aborted, done, errors, tolerant, doubt>>
  BY DEF Query, ServerInsert, Calls, PgIInv, Open
<1>2. /\ pc' \in [Calls -> PgPlaces]
      /\ \A d \in Calls : pc'[d] = IF d = c THEN "ok" ELSE pc[d]
      /\ Open' = Open
  <2>1. MoveTo(c, "ok")
    BY DEF Query
  <2> QED
    BY <1>1, <2>1, MoveKeeps DEF PgPlaces
<1>3. /\ exposed' \subseteq Calls /\ exposed \subseteq exposed'
      /\ Open = {} => exposed' = exposed
      /\ Open # {} => exposed' = exposed \cup Open \cup {c}
  BY <1>1, MeetKeeps DEF Query
<1>4. IF inTx THEN work' = work \cup {x} /\ rows' = rows
              ELSE rows' = rows \cup {x} /\ work' = work
  BY DEF Query, ServerInsert
<1>5. x \in Calls \X (1 .. Statements) /\ x[1] = c /\ RowsOf(c) = {x}
  BY <1>1, RowsAreOfCalls, PgAssumption
<1> HIDE DEF x
<1>6. PgTypeOK'
  BY <1>1, <1>2, <1>3, <1>4, <1>5 DEF PgTypeOK, PgPlaces
<1>7. inTx => Open # {} /\ c \in exposed'
  BY <1>3 DEF PgIInv, TransactionIsOfACall
<1>8. \A d \in Calls : d # c => x \notin RowsOf(d)
  BY <1>5, RowsAreOfCalls
<1>9. AckedOrNothing'
  BY <1>1, <1>2, <1>3, <1>4, <1>5, <1>7, <1>8 DEF PgIInv, AckedOrNothing
<1>10. TransactionIsOfACall'
  BY <1>1, <1>2, <1>3, <1>4, <1>5, <1>7 DEF PgIInv, TransactionIsOfACall
<1>11. AloneIsExact'
  BY <1>2, <1>3 DEF AloneIsExact
<1>12. TracesAreOfCalls'
  <2>1. \A d \in Queries : d \in Calls
    BY DEF Calls
  <2>2. \A d \in doubt : d \in Calls /\ d # c
    BY <1>1, PgAssumption DEF PgTypeOK, PgIInv, TracesAreOfCalls
  <2>3. \A d \in Calls : pc'[d] = "new" => pc[d] = "new" /\ d # c
    BY <1>2
  <2>4. rows' \cup work' = rows \cup work \cup {x}
    BY <1>4
  <2> QED
    BY <1>1, <1>2, <1>5, <2>1, <2>2, <2>3, <2>4 DEF PgIInv, TracesAreOfCalls
<1> QED
  BY <1>6, <1>9, <1>10, <1>11, <1>12 DEF PgIInv

\* The statement of a query takes place and its answer is lost.
LEMMA QueryUnseenInv ==
  ASSUME PgIInv, NEW c \in Queries, QueryUnseen(c)
  PROVE  PgIInv'
<1> DEFINE kept == IF inTx THEN {} ELSE {<<c, 1>>}
<1>1. /\ c \in Calls /\ pc[c] = "new" /\ connected /\ PgTypeOK /\ c \notin Open
      /\ connected' = FALSE /\ doubt' = doubt \cup {c} /\ doubt = {}
      /\ UNCHANGED <<done, errors, tolerant>>
  BY DEF QueryUnseen, Calls, PgIInv, TracesAreOfCalls, Open
<1>2. /\ pc' \in [Calls -> PgPlaces]
      /\ \A d \in Calls : pc'[d] = IF d = c THEN "failed" ELSE pc[d]
      /\ Open' = Open
  <2>1. MoveTo(c, "failed")
    BY DEF QueryUnseen
  <2> QED
    BY <1>1, <2>1, MoveKeeps DEF PgPlaces
<1>3. /\ exposed' \subseteq Calls /\ exposed \subseteq exposed'
      /\ Open = {} => exposed' = exposed
      /\ Open # {} => exposed' = exposed \cup Open \cup {c}
  BY <1>1, MeetKeeps DEF QueryUnseen
<1>4. inTx' = FALSE /\ aborted' = FALSE /\ work' = {} /\ rows' = rows \cup kept
  BY DEF QueryUnseen, ServerEnd
<1>5. /\ RowsOf(c) = {<<c, 1>>} /\ <<c, 1>> \in Calls \X (1 .. Statements)
      /\ kept \subseteq RowsOf(c) /\ (~inTx => kept = RowsOf(c))
  BY <1>1, RowsAreOfCalls, PgAssumption
<1> HIDE DEF kept
<1>6. PgTypeOK'
  BY <1>1, <1>2, <1>3, <1>4, <1>5 DEF PgTypeOK, PgPlaces
<1>7. inTx => c \in exposed'
  BY <1>3 DEF PgIInv, TransactionIsOfACall
<1>8. \A d \in Calls : d # c => kept \cap RowsOf(d) = {}
  BY <1>1, <1>5, RowsAreOfCalls
<1>9. AckedOrNothing'
  BY <1>1, <1>2, <1>3, <1>4, <1>5, <1>7, <1>8 DEF PgIInv, AckedOrNothing
<1>10. TransactionIsOfACall'
  BY <1>4 DEF TransactionIsOfACall
<1>11. AloneIsExact'
  BY <1>2, <1>3 DEF AloneIsExact
<1>12. TracesAreOfCalls'
  <2>1. \A d \in Queries : d \in Calls
    BY DEF Calls
  <2>2. \A d \in Calls : pc'[d] = "new" => pc[d] = "new" /\ d # c
    BY <1>2
  <2>3. \A x \in rows' \cup work' : x \in rows \/ x = <<c, 1>>
    BY <1>4, <1>5
  <2> QED
    BY <1>1, <1>2, <2>1, <2>2, <2>3 DEF PgIInv, TracesAreOfCalls
<1> QED
  BY <1>6, <1>9, <1>10, <1>11, <1>12 DEF PgIInv

\* The connection is lost, and the open transaction with it.
LEMMA DisconnectInv == PgIInv /\ Disconnect => PgIInv'
<1> SUFFICES ASSUME PgIInv, Disconnect PROVE PgIInv'
  OBVIOUS
<1>1. /\ connected' = FALSE /\ inTx' = FALSE /\ aborted' = FALSE /\ work' = {} /\ rows' = rows
      /\ UNCHANGED <<pc, done, errors, exposed, tolerant, doubt>>
      /\ Open' = Open
  BY DEF Disconnect, ServerEnd, Open, history
<1>2. PgTypeOK' /\ TransactionIsOfACall'
  BY <1>1 DEF PgIInv, PgTypeOK, TransactionIsOfACall
<1>3. AckedOrNothing' /\ AloneIsExact' /\ TracesAreOfCalls'
  BY <1>1 DEF PgIInv, AckedOrNothing, AloneIsExact, TracesAreOfCalls
<1> QED
  BY <1>2, <1>3 DEF PgIInv

LEMMA PgNextInv == PgIInv /\ [PgNext]_pgVars => PgIInv'
<1> SUFFICES ASSUME PgIInv, [PgNext]_pgVars PROVE PgIInv'
  OBVIOUS
<1>1. ASSUME NEW c \in Txs, Begin(c) PROVE PgIInv'
  BY <1>1, BeginInv
<1>2. ASSUME NEW c \in Txs, BeginFails(c) PROVE PgIInv'
  BY <1>2, FailInv DEF BeginFails, server, Calls, PgIInv, PgTypeOK
<1>3. ASSUME NEW c \in Txs, Insert(c) PROVE PgIInv'
  BY <1>3, InsertInv
<1>4. ASSUME NEW c \in Txs, InsertFails(c) PROVE PgIInv'
  BY <1>4, InsertFailsInv
<1>5. ASSUME NEW c \in Txs, Throw(c) PROVE PgIInv'
  BY <1>5, ThrowInv
<1>6. ASSUME NEW c \in Txs, Commit(c) PROVE PgIInv'
  <2>1. c \in Open /\ connected' \in BOOLEAN /\ errors' \in 0 .. MaxErrors
    BY <1>6 DEF Commit, Open, Calls, PgIInv, PgTypeOK
  <2> QED
    BY <1>6, <2>1, EndInv DEF Commit, history
<1>7. ASSUME NEW c \in Txs, CommitFails(c) PROVE PgIInv'
  <2>1. c \in Open /\ connected' \in BOOLEAN
    BY <1>7 DEF CommitFails, Open, Calls, PgIInv, PgTypeOK
  <2>2. errors' \in 0 .. MaxErrors
    BY <1>7, PgAssumption DEF CommitFails, PgIInv, PgTypeOK
  <2> QED
    BY <1>7, <2>1, <2>2, EndInv DEF CommitFails, history
<1>8. ASSUME NEW c \in Txs, CommitUnseen(c) PROVE PgIInv'
  <2>1. c \in Open /\ connected' \in BOOLEAN /\ errors' \in 0 .. MaxErrors
    BY <1>8 DEF CommitUnseen, Open, Calls, PgIInv, PgTypeOK
  <2> QED
    BY <1>8, <2>1, EndInv DEF CommitUnseen
<1>9. ASSUME NEW c \in Txs, Rollback(c) PROVE PgIInv'
  <2>1. c \in Open /\ connected' \in BOOLEAN /\ errors' \in 0 .. MaxErrors
    BY <1>9 DEF Rollback, Open, Calls, PgIInv, PgTypeOK
  <2> QED
    BY <1>9, <2>1, EndInv DEF Rollback, history
<1>10. ASSUME NEW c \in Queries, Query(c) PROVE PgIInv'
  BY <1>10, QueryInv
<1>11. ASSUME NEW c \in Queries, QueryFails(c) PROVE PgIInv'
  <2>1. errors' \in 0 .. MaxErrors
    BY <1>11, PgAssumption DEF QueryFails, ErrorIsDue, CountError, PgIInv, PgTypeOK
  <2> QED
    BY <1>11, <2>1, FailInv DEF QueryFails, ServerError, Calls
<1>12. ASSUME NEW c \in Calls, Refused(c) PROVE PgIInv'
  BY <1>12, FailInv DEF Refused, server, history, PgIInv, PgTypeOK
<1>13. CASE Disconnect
  BY <1>13, DisconnectInv
<1>14. CASE UNCHANGED pgVars
  BY <1>14
  DEF pgVars, server, history, PgIInv, PgTypeOK, AckedOrNothing, TransactionIsOfACall,
      AloneIsExact, TracesAreOfCalls, Open
<1>15. ASSUME NEW c \in Queries, QueryUnseen(c) PROVE PgIInv'
  BY <1>15, QueryUnseenInv
<1> QED
  BY <1>1, <1>2, <1>3, <1>4, <1>5, <1>6, <1>7, <1>8, <1>9, <1>10, <1>11, <1>12, <1>13, <1>14,
     <1>15
  DEF PgNext

-----------------------------------------------------------------------------
\* However the calls on the one connection come in between each other, and
\* whatever fails, a call that had none beside it is atomic and durable
\* (transaction, query).
THEOREM ExecutorSafety == PgSpec => []PgIInv
<1>1. PgInit => PgIInv
  BY PgInitInv
<1>2. PgIInv /\ [PgNext]_pgVars => PgIInv'
  BY PgNextInv
<1> QED
  BY <1>1, <1>2, PTL DEF PgSpec

-----------------------------------------------------------------------------
(* The refinement *)

LEMMA InitRefines == PgInit => Sql!Init
  BY DEF PgInit, Outcome, Sql!Init

\* A step that leaves the rows and all outcomes alone is a stutter.
LEMMA Stutters ==
  ASSUME rows' = rows, \A c \in Calls : Outcome(c)' = Outcome(c)
  PROVE  UNCHANGED Sql!vars
  BY DEF Sql!vars

\* A step that settles one call is a step of SqlTransactions, if it adds none or
\* all of the call's rows, as its outcome says.
LEMMA Settles ==
  ASSUME NEW c \in Calls, Outcome(c) = "new",
         \A d \in Calls : d # c => Outcome(d)' = Outcome(d),
         \/ Outcome(c)' = "ok" /\ rows' = rows \cup RowsOf(c)
         \/ Outcome(c)' = "failed" /\ rows' \in {rows, rows \cup RowsOf(c)}
  PROVE  Sql!Next
<1>1. CASE Outcome(c)' = "ok" /\ rows' = rows \cup RowsOf(c)
  <2>1. Sql!Commit(c)
    BY <1>1 DEF Sql!Commit, Sql!Settle
  <2> QED
    BY <2>1 DEF Sql!Next
<1>2. CASE Outcome(c)' = "failed" /\ rows' = rows
  <2>1. Sql!Fail(c)
    BY <1>2 DEF Sql!Fail, Sql!Settle
  <2> QED
    BY <2>1 DEF Sql!Next
<1>3. CASE Outcome(c)' = "failed" /\ rows' = rows \cup RowsOf(c)
  <2>1. Sql!InDoubt(c)
    BY <1>3 DEF Sql!InDoubt, Sql!Settle
  <2> QED
    BY <2>1 DEF Sql!Next
<1> QED
  BY <1>1, <1>2, <1>3

\* The outcome of a call that moves, the others keeping theirs.
LEMMA OutcomeMoves ==
  ASSUME PgTypeOK, NEW c \in Calls, NEW where \in PgPlaces, MoveTo(c, where), UNCHANGED doubt
  PROVE  /\ \A d \in Calls : d # c => Outcome(d)' = Outcome(d)
         /\ Outcome(c)' = IF c \in doubt THEN "failed"
                          ELSE IF where \in {"ok", "failed"} THEN where ELSE "new"
  BY MoveKeeps DEF Outcome

\* Every step of the executor, while no calls meet and no fn goes on after an
\* error, is one of SqlTransactions or a stutter.
LEMMA StepRefines ==
  ASSUME PgIInv, [PgNext]_pgVars, exposed' = {}, tolerant' = {}
  PROVE  [Sql!Next]_(Sql!vars)
<1>1. PgTypeOK /\ (\A c \in Open : c \notin exposed => Open = {c})
  BY DEF PgIInv, AloneIsExact
<1>2. ASSUME NEW c \in Calls, Meet(c) PROVE Open = {} /\ exposed = {} /\ ~inTx
  BY <1>2 DEF Meet, PgIInv, TransactionIsOfACall
<1>3. ASSUME NEW c \in Calls, MoveTo(c, "open"), pc[c] = "new", rows' = rows, UNCHANGED doubt
      PROVE  UNCHANGED Sql!vars
  <2>1. Outcome(c) = "new" /\ Outcome(c)' = "new"
    BY <1>1, <1>3, OutcomeMoves DEF PgIInv, TracesAreOfCalls, Outcome, PgPlaces
  <2> QED
    BY <1>1, <1>3, <2>1, OutcomeMoves, Stutters DEF PgPlaces
<1>4. ASSUME NEW c \in Calls, MoveTo(c, "rollback"), pc[c] = "open", rows' = rows, UNCHANGED doubt
      PROVE  UNCHANGED Sql!vars
  <2>1. Outcome(c) = Outcome(c)'
    BY <1>1, <1>4, OutcomeMoves DEF Outcome, PgPlaces
  <2> QED
    BY <1>1, <1>4, <2>1, OutcomeMoves, Stutters DEF PgPlaces
<1>5. ASSUME NEW c \in Calls, MoveTo(c, "failed"), pc[c] \in {"new", "open", "rollback"},
             rows' = rows, UNCHANGED doubt
      PROVE  [Sql!Next]_(Sql!vars)
  <2>1. CASE c \in doubt
    <3>1. Outcome(c) = Outcome(c)'
      BY <1>1, <1>5, <2>1, OutcomeMoves DEF Outcome, PgPlaces
    <3> QED
      BY <1>1, <1>5, <3>1, OutcomeMoves, Stutters DEF PgPlaces
  <2>2. CASE c \notin doubt
    <3>1. Outcome(c) = "new" /\ Outcome(c)' = "failed"
      BY <1>1, <1>5, <2>2, OutcomeMoves DEF Outcome, PgPlaces
    <3> QED
      BY <1>1, <1>5, <3>1, OutcomeMoves, Settles DEF PgPlaces
  <2> QED
    BY <2>1, <2>2
<1>6. ASSUME NEW c \in Txs, pc[c] = "open", connected, done[c] = Statements,
             exposed = {}, tolerant = {}
      PROVE  /\ c \in Calls /\ Outcome(c) = "new"
             /\ rows \cup CommitWork = rows \cup RowsOf(c)
  <2>1. c \in Open /\ c \in Calls
    BY <1>6 DEF Open, Calls
  <2>2. ~aborted /\ work = {c} \X (1 .. Statements)
    BY <1>6, <2>1 DEF PgIInv, AloneIsExact
  <2>3. Outcome(c) = "new"
    BY <1>6, <2>1 DEF PgIInv, PgTypeOK, TracesAreOfCalls, Outcome
  <2> QED
    BY <1>6, <2>1, <2>2, <2>3, RowsAreOfCalls DEF CommitWork
<1>7. ASSUME NEW c \in Txs, Begin(c) PROVE UNCHANGED Sql!vars
  BY <1>3, <1>7 DEF Begin, ServerBegin, Calls
<1>8. ASSUME NEW c \in Txs, BeginFails(c) PROVE [Sql!Next]_(Sql!vars)
  BY <1>5, <1>8 DEF BeginFails, server, Calls
<1>9. ASSUME NEW c \in Txs, Insert(c) PROVE UNCHANGED Sql!vars
  <2>1. c \in Open /\ exposed = {} /\ connected /\ pc[c] = "open"
    BY <1>9 DEF Insert, Open, Calls, history
  <2>2. inTx
    BY <2>1 DEF PgIInv, AloneIsExact
  <2>3. rows' = rows /\ UNCHANGED <<pc, doubt>>
    BY <1>9, <2>2 DEF Insert, ServerInsert, history
  <2> QED
    BY <2>3, Stutters DEF Outcome
<1>10. ASSUME NEW c \in Txs, InsertFails(c) PROVE UNCHANGED Sql!vars
  <2>1. CASE MoveTo(c, "rollback")
    BY <1>4, <1>10, <2>1 DEF InsertFails, ServerError, Calls
  <2>2. CASE UNCHANGED pc
    BY <1>10, <2>2, Stutters DEF InsertFails, ServerError, Outcome
  <2> QED
    BY <1>10, <2>1, <2>2 DEF InsertFails
<1>11. ASSUME NEW c \in Txs, Throw(c) PROVE UNCHANGED Sql!vars
  BY <1>4, <1>11 DEF Throw, server, history, Calls
<1>12. ASSUME NEW c \in Txs, Commit(c) PROVE [Sql!Next]_(Sql!vars)
  <2>1. /\ c \in Calls /\ Outcome(c) = "new" /\ rows' = rows \cup RowsOf(c)
        /\ MoveTo(c, "ok") /\ UNCHANGED doubt
    BY <1>6, <1>12 DEF Commit, ServerEnd, history
  <2>2. Outcome(c)' = "ok"
    <3>1. c \notin doubt
      BY <2>1 DEF Outcome
    <3> QED
      BY <1>1, <2>1, <3>1, OutcomeMoves DEF PgPlaces
  <2> QED
    BY <1>1, <2>1, <2>2, OutcomeMoves, Settles DEF PgPlaces
<1>13. ASSUME NEW c \in Txs, CommitFails(c) PROVE UNCHANGED Sql!vars
  BY <1>4, <1>13 DEF CommitFails, ServerEnd, history, Calls
<1>14. ASSUME NEW c \in Txs, CommitUnseen(c) PROVE [Sql!Next]_(Sql!vars)
  <2>1. /\ c \in Calls /\ Outcome(c) = "new" /\ rows' = rows \cup RowsOf(c)
        /\ MoveTo(c, "rollback") /\ doubt' = doubt \cup {c}
    BY <1>6, <1>14 DEF CommitUnseen, ServerEnd
  <2>2. Outcome(c)' = "failed" /\ \A d \in Calls : d # c => Outcome(d)' = Outcome(d)
    BY <1>1, <2>1, MoveKeeps DEF Outcome, PgPlaces
  <2> QED
    BY <2>1, <2>2, Settles
<1>15. ASSUME NEW c \in Txs, Rollback(c) PROVE [Sql!Next]_(Sql!vars)
  BY <1>5, <1>15 DEF Rollback, ServerEnd, history, Calls
<1>16. ASSUME NEW c \in Queries, Query(c) PROVE [Sql!Next]_(Sql!vars)
  <2>1. /\ c \in Calls /\ pc[c] = "new" /\ MoveTo(c, "ok") /\ UNCHANGED doubt /\ ~inTx
    BY <1>2, <1>16 DEF Query, Calls
  <2>2. rows' = rows \cup RowsOf(c)
    BY <1>16, <2>1, RowsAreOfCalls DEF Query, ServerInsert
  <2>3. c \notin doubt
    BY <2>1 DEF PgIInv, TracesAreOfCalls
  <2>4. Outcome(c) = "new" /\ Outcome(c)' = "ok"
    BY <1>1, <2>1, <2>3, OutcomeMoves DEF Outcome, PgPlaces
  <2> QED
    BY <1>1, <2>1, <2>2, <2>4, OutcomeMoves, Settles DEF PgPlaces
<1>17. ASSUME NEW c \in Queries, QueryFails(c) PROVE [Sql!Next]_(Sql!vars)
  BY <1>5, <1>17 DEF QueryFails, ServerError, Calls
<1>18. ASSUME NEW c \in Calls, Refused(c) PROVE [Sql!Next]_(Sql!vars)
  BY <1>5, <1>18 DEF Refused, Open, server, history
<1>19. CASE Disconnect
  BY <1>19, Stutters DEF Disconnect, ServerEnd, Outcome, history
<1>20. CASE UNCHANGED pgVars
  BY <1>20, Stutters DEF pgVars, server, history, Outcome
<1>21. ASSUME NEW c \in Queries, QueryUnseen(c) PROVE [Sql!Next]_(Sql!vars)
  <2>1. /\ c \in Calls /\ pc[c] = "new" /\ MoveTo(c, "failed") /\ ~inTx
        /\ doubt' = doubt \cup {c}
    BY <1>2, <1>21 DEF QueryUnseen, Calls
  <2>2. rows' = rows \cup RowsOf(c)
    BY <1>21, <2>1, RowsAreOfCalls DEF QueryUnseen, ServerEnd
  <2>3. Outcome(c) = "new"
    BY <2>1 DEF PgIInv, TracesAreOfCalls, Outcome
  <2>4. Outcome(c)' = "failed" /\ \A d \in Calls : d # c => Outcome(d)' = Outcome(d)
    BY <1>1, <2>1, MoveKeeps DEF Outcome, PgPlaces
  <2> QED
    BY <2>1, <2>2, <2>3, <2>4, Settles
<1> QED
  BY <1>7, <1>8, <1>9, <1>10, <1>11, <1>12, <1>13, <1>14, <1>15, <1>16, <1>17, <1>18, <1>19, <1>20,
     <1>21
  DEF PgNext

\* The executor begins where SqlTransactions does, and keeps its promise as
\* long as no call has another one beside it and no fn goes on after an error.
THEOREM ExecutorRefines == PgSpec => Sql!Init /\ SerialRefines
<1>1. PgInit => Sql!Init
  BY InitRefines
<1>2. PgIInv /\ [PgNext]_pgVars
        => [exposed' = {} /\ tolerant' = {} => [Sql!Next]_(Sql!vars)]_pgVars
  BY StepRefines
<1> QED
  BY <1>1, <1>2, ExecutorSafety, PTL DEF PgSpec, SerialRefines

-----------------------------------------------------------------------------
\* FsExecutor

LEMMA FsInitInv == FsInit => FsInv
  BY FsAssumption DEF FsInit, FsInv, FsTypeOK, QuietFileIsLast, LoneWriteIsLinked, Writing

\* What the move of one writer does to those that are writing.
LEMMA WriterMoves ==
  ASSUME FsTypeOK, NEW w \in Writers, NEW to \in {"idle", "ensured", "writing"},
         writer' = [writer EXCEPT ![w] = to]
  PROVE  /\ writer' \in [Writers -> {"idle", "ensured", "writing"}]
         /\ Writing' = IF to = "writing" THEN Writing \cup {w} ELSE Writing \ {w}
  BY DEF FsTypeOK, Writing

LEMMA FsNextInv == FsInv /\ [FsNext]_fsVars => FsInv'
<1> SUFFICES ASSUME FsInv, [FsNext]_fsVars PROVE FsInv'
  OBVIOUS
<1> USE DEF FsInv
<1>1. CASE UNCHANGED fsVars
  BY <1>1 DEF fsVars, FsTypeOK, QuietFileIsLast, LoneWriteIsLinked, Writing
<1>2. CASE \E w \in Writers : EnsureDir(w)
  <2>1. PICK w \in Writers : EnsureDir(w)
    BY <1>2
  <2>2. writer' \in [Writers -> {"idle", "ensured", "writing"}] /\ Writing' = Writing
    BY <2>1, WriterMoves DEF EnsureDir, Writing
  <2> QED
    BY <2>1, <2>2 DEF EnsureDir, FsTypeOK, QuietFileIsLast, LoneWriteIsLinked
<1>3. CASE \E w \in Writers : Truncate(w)
  <2>1. PICK w \in Writers : Truncate(w)
    BY <1>3
  <2>2. writer' \in [Writers -> {"idle", "ensured", "writing"}] /\ Writing' = Writing \cup {w}
    BY <2>1, WriterMoves DEF Truncate
  <2> QED
    BY <2>1, <2>2 DEF Truncate, FsTypeOK, QuietFileIsLast, LoneWriteIsLinked
<1>4. CASE \E w \in Writers : Written(w)
  <2>1. PICK w \in Writers : Written(w)
    BY <1>4
  <2>2. /\ writer' \in [Writers -> {"idle", "ensured", "writing"}]
        /\ Writing' = Writing \ {w}
        /\ w \in Writing
    BY <2>1, WriterMoves DEF Written, Writing
  <2>3. FsTypeOK'
    BY <2>1, <2>2 DEF Written, FsTypeOK
  <2>4. QuietFileIsLast' /\ LoneWriteIsLinked'
    BY <2>1, <2>2 DEF Written, QuietFileIsLast, LoneWriteIsLinked
  <2> QED
    BY <2>3, <2>4
<1>5. CASE \E w \in Writers : WriteFails(w)
  <2>1. PICK w \in Writers : WriteFails(w)
    BY <1>5
  <2>2. /\ writer' \in [Writers -> {"idle", "ensured", "writing"}]
        /\ Writing' = Writing \ {w}
    BY <2>1, WriterMoves DEF WriteFails
  <2> QED
    BY <2>1, <2>2 DEF WriteFails, FsTypeOK, QuietFileIsLast, LoneWriteIsLinked
<1>6. CASE RemoveFile
  <2>1. Writing' = Writing
    BY <1>6 DEF RemoveFile, Writing
  <2> QED
    BY <1>6, <2>1 DEF RemoveFile, FsTypeOK, QuietFileIsLast, LoneWriteIsLinked
<1> QED
  BY <1>1, <1>2, <1>3, <1>4, <1>5, <1>6 DEF FsNext

\* Writes, failures and removals of one file in any order (writeFile,
\* removeFile): between the calls it is what the last acknowledged one made it,
\* unless it was damaged.
THEOREM FileSafety == FsSpec => []FsInv
<1>1. FsInit => FsInv
  BY FsInitInv
<1>2. FsInv /\ [FsNext]_fsVars => FsInv'
  BY FsNextInv
<1> QED
  BY <1>1, <1>2, PTL DEF FsSpec

-----------------------------------------------------------------------------
\* LocalNetwork

LEMMA LnInitInv == LnInit => LnInv
  BY LocalNetworkAssumption
  DEF LnInit, LnInv, LnTypeOK, StoppedIsDead, ProcessesAreKnown, ListIsComplete, Nodes

\* What the list of spawned nodes is made of.
LEMMA SpawnedAreNodes ==
  ASSUME LnTypeOK
  PROVE  /\ Len(spawned) \in Nat /\ DOMAIN spawned = 1 .. Len(spawned)
         /\ \A i \in DOMAIN spawned : spawned[i] \in HasKey /\ spawned[i] \in Nodes
<1>1. spawned \in Seq(HasKey)
  BY DEF LnTypeOK
<1>2. Len(spawned) \in Nat /\ DOMAIN spawned = 1 .. Len(spawned)
  BY <1>1
<1>3. \A i \in DOMAIN spawned : spawned[i] \in HasKey
  BY <1>1
<1> QED
  BY <1>2, <1>3, LocalNetworkAssumption DEF Nodes

\* A step that neither starts a process nor moves a stop(), and takes no process
\* from the dead, keeps the invariant.
LEMMA ProcessesMove ==
  ASSUME LnInv, UNCHANGED <<next, spawned, stopAt>>,
         stopWaits' \in [StopCalls -> BOOLEAN],
         \A c \in StopCalls : stopWaits'[c] => stopWaits[c] \/ stopAt[c] \in DOMAIN spawned,
         launch' \in {"starting", "started", "threw"},
         launch = "started" => launch' = "started",
         process' \in [Nodes -> {"none", "alive", "dying", "dead"}],
         \A n \in Nodes : /\ process[n] = "none" <=> process'[n] = "none"
                          /\ process[n] = "dead" => process'[n] = "dead"
  PROVE  LnInv'
<1> USE DEF LnInv
<1>1. LnTypeOK'
  BY DEF LnTypeOK
<1>2. ProcessesAreKnown' /\ ListIsComplete'
  BY DEF ProcessesAreKnown, ListIsComplete
<1>3. StoppedIsDead'
  BY SpawnedAreNodes DEF StoppedIsDead
<1> QED
  BY <1>1, <1>2, <1>3

\* A stop() begins, or goes on past a process that is dead.
LEMMA StopMoves ==
  ASSUME LnInv, NEW c \in StopCalls, launch = "started",
         UNCHANGED <<launch, next, spawned, process>>,
         stopAt[c] = 0 \/ (Stopping(c) /\ process[spawned[stopAt[c]]] = "dead"),
         stopAt' = [stopAt EXCEPT ![c] = @ + 1],
         stopWaits' \in [StopCalls -> BOOLEAN],
         \A d \in StopCalls : stopWaits'[d] => stopWaits[d] /\ d # c
  PROVE  LnInv'
<1> USE DEF LnInv
<1>1. stopAt[c] \in 0 .. NodeCount + 1 /\ next \in 1 .. NodeCount + 1 /\ NodeCount \in Nat
  BY LocalNetworkAssumption DEF LnTypeOK
<1>2. \A d \in StopCalls : stopAt'[d] = IF d = c THEN stopAt[c] + 1 ELSE stopAt[d]
  BY DEF LnTypeOK
<1>3. stopAt[c] + 1 \in 0 .. NodeCount + 1
  BY <1>1, SpawnedAreNodes DEF Stopping, ListIsComplete
<1>4. LnTypeOK'
  BY <1>3 DEF LnTypeOK
<1>5. ProcessesAreKnown'
  BY DEF ProcessesAreKnown
<1>6. ListIsComplete'
  BY <1>2 DEF ListIsComplete
<1>7. StoppedIsDead'
  <2> SUFFICES ASSUME NEW d \in StopCalls, NEW i \in DOMAIN spawned, i < stopAt'[d]
               PROVE  process[spawned[i]] = "dead"
    BY DEF StoppedIsDead
  <2>1. CASE d # c
    BY <1>2, <2>1 DEF StoppedIsDead
  <2>2. CASE d = c
    <3>1. i \in Nat /\ i < stopAt[c] + 1
      BY <1>2, <2>2, SpawnedAreNodes
    <3>2. i < stopAt[c] \/ i = stopAt[c]
      BY <1>1, <3>1
    <3> QED
      BY <1>1, <3>1, <3>2, SpawnedAreNodes DEF StoppedIsDead
  <2> QED
    BY <2>1, <2>2
<1> QED
  BY <1>4, <1>5, <1>6, <1>7

\* A node is spawned, at the end of the list.
LEMMA SpawnInv == LnInv /\ SpawnNode => LnInv'
<1> SUFFICES ASSUME LnInv, SpawnNode PROVE LnInv'
  OBVIOUS
<1> USE DEF LnInv, SpawnNode
<1>1. /\ next \in HasKey /\ next \in Nodes /\ next \in Nat /\ next + 1 \in 1 .. NodeCount + 1
      /\ launch = "starting"
  BY LocalNetworkAssumption DEF Nodes
<1>2. \A c \in StopCalls : stopAt[c] = 0 /\ ~stopWaits[c]
  BY <1>1, SpawnedAreNodes DEF ListIsComplete
<1>3. /\ spawned' \in Seq(HasKey)
      /\ Len(spawned') = Len(spawned) + 1
      /\ DOMAIN spawned' = 1 .. Len(spawned) + 1
      /\ \A i \in DOMAIN spawned : spawned'[i] = spawned[i]
      /\ spawned'[Len(spawned) + 1] = next
  BY <1>1 DEF LnTypeOK
<1>4. \A n \in Nodes : process'[n] = IF n = next THEN "alive" ELSE process[n]
  BY DEF LnTypeOK
<1>5. LnTypeOK'
  BY <1>1, <1>3 DEF LnTypeOK
<1>6. StoppedIsDead'
  BY <1>2, <1>3, SpawnedAreNodes DEF StoppedIsDead
<1>7. ProcessesAreKnown'
  <2>1. \A n \in Nodes : process'[n] # "none" <=> \E i \in DOMAIN spawned' : spawned'[i] = n
    BY <1>1, <1>3, <1>4, SpawnedAreNodes DEF ProcessesAreKnown
  <2>2. \A i, j \in DOMAIN spawned' : i < j => spawned'[i] < spawned'[j]
    BY <1>3, SpawnedAreNodes DEF ProcessesAreKnown, ListIsComplete
  <2> QED
    BY <2>1, <2>2 DEF ProcessesAreKnown
<1>8. ListIsComplete'
  <2>1. Len(spawned') < next'
    BY <1>1, <1>3, SpawnedAreNodes DEF ListIsComplete
  <2>2. \A i \in DOMAIN spawned' : spawned'[i] < next'
    <3> SUFFICES ASSUME NEW i \in DOMAIN spawned' PROVE spawned'[i] < next'
      OBVIOUS
    <3>1. CASE i \in DOMAIN spawned
      BY <1>1, <1>3, <3>1, SpawnedAreNodes, LocalNetworkAssumption DEF ListIsComplete, Nodes
    <3>2. CASE i = Len(spawned) + 1
      BY <1>1, <1>3, <3>2
    <3> QED
      BY <1>3, <3>1, <3>2, SpawnedAreNodes
  <2> QED
    BY <1>2, <2>1, <2>2 DEF ListIsComplete
<1> QED
  BY <1>5, <1>6, <1>7, <1>8

LEMMA LnNextInv == LnInv /\ [LnNext]_lnVars => LnInv'
<1> SUFFICES ASSUME LnInv, [LnNext]_lnVars PROVE LnInv'
  OBVIOUS
<1> USE DEF LnInv
<1>1. CASE UNCHANGED lnVars
  BY <1>1 DEF lnVars, LnTypeOK, StoppedIsDead, ProcessesAreKnown, ListIsComplete
<1>2. CASE SkipNode
  <2>1. next \in Nat /\ next + 1 \in 1 .. NodeCount + 1
    BY <1>2, LocalNetworkAssumption DEF SkipNode, Nodes
  <2>2. LnTypeOK' /\ StoppedIsDead' /\ ProcessesAreKnown'
    BY <1>2, <2>1 DEF SkipNode, LnTypeOK, StoppedIsDead, ProcessesAreKnown
  <2>3. ListIsComplete'
    BY <1>2, <2>1, SpawnedAreNodes, LocalNetworkAssumption DEF SkipNode, ListIsComplete, Nodes
  <2> QED
    BY <2>2, <2>3
<1>3. CASE SpawnNode
  BY <1>3, SpawnInv
<1>4. CASE SpawnThrows \/ AllSpawned
  BY <1>4, ProcessesMove DEF SpawnThrows, AllSpawned, LnTypeOK
<1>5. CASE \E n \in Nodes : ProcessEnds(n)
  <2>1. PICK n \in Nodes : ProcessEnds(n)
    BY <1>5
  <2> QED
    BY <2>1, ProcessesMove DEF ProcessEnds, LnTypeOK
<1>6. CASE \E c \in StopCalls : StopCalled(c)
  <2>1. PICK c \in StopCalls : StopCalled(c)
    BY <1>6
  <2>2. ~stopWaits[c]
    BY <2>1, SpawnedAreNodes DEF StopCalled, ListIsComplete
  <2>3. stopAt' = [stopAt EXCEPT ![c] = @ + 1]
    BY <2>1 DEF StopCalled
  <2> QED
    BY <2>1, <2>2, <2>3, StopMoves DEF StopCalled, LnTypeOK
<1>7. CASE \E c \in StopCalls : Kill(c)
  <2>1. PICK c \in StopCalls : Kill(c)
    BY <1>7
  <2>2. launch = "started" /\ spawned[stopAt[c]] \in Nodes
    BY <2>1, SpawnedAreNodes DEF Kill, Stopping, ListIsComplete
  <2>3. CASE process[spawned[stopAt[c]]] = "dead"
    BY <2>1, <2>2, <2>3, StopMoves DEF Kill, LnTypeOK
  <2>4. CASE process[spawned[stopAt[c]]] # "dead"
    <3>1. process[spawned[stopAt[c]]] # "none"
      BY <2>1, <2>2 DEF Kill, Stopping, ProcessesAreKnown
    <3> QED
      BY <2>1, <2>2, <2>4, <3>1, ProcessesMove DEF Kill, Stopping, LnTypeOK
  <2> QED
    BY <2>3, <2>4
<1>8. CASE \E c \in StopCalls : ProcessStopped(c)
  <2>1. PICK c \in StopCalls : ProcessStopped(c)
    BY <1>8
  <2>2. launch = "started"
    BY <2>1, SpawnedAreNodes DEF ProcessStopped, Stopping, ListIsComplete
  <2> QED
    BY <2>1, <2>2, StopMoves DEF ProcessStopped, LnTypeOK
<1> QED
  BY <1>1, <1>2, <1>3, <1>4, <1>5, <1>6, <1>7, <1>8 DEF LnNext

\* However many stop() calls go through the network, and whichever processes have
\* ended by themselves, each leaves only dead processes behind, and its list
\* names every process there is (startLocalNetwork, stop).
THEOREM NetworkSafety == LnSpec => []LnInv
<1>1. LnInit => LnInv
  BY LnInitInv
<1>2. LnInv /\ [LnNext]_lnVars => LnInv'
  BY LnNextInv
<1> QED
  BY <1>1, <1>2, PTL DEF LnSpec
-----------------------------------------------------------------------------
\* The compose file.

\* The numbers of nodes, and what the backends of a node need.
LEMMA ManifestParts ==
  ASSUME CsTypeOK
  PROVE  /\ DOMAIN manifest = 1 .. Len(manifest) /\ Len(manifest) \in Nat /\ placed \in Nat
         /\ \A i \in DOMAIN manifest : manifest[i].backends \subseteq Needed
<1>1. manifest \in Seq(NetworkNode) /\ placed \in 0 .. Len(manifest)
  BY DEF CsTypeOK
<1>2. DOMAIN manifest = 1 .. Len(manifest) /\ Len(manifest) \in Nat
  BY <1>1
<1>3. \A i \in DOMAIN manifest : manifest[i] \in NetworkNode
  BY <1>1
<1>4. \A i \in DOMAIN manifest : manifest[i].backends \subseteq Needed
  BY <1>3 DEF Needed, NetworkNode
<1> QED
  BY <1>1, <1>2, <1>4

\* A node waits for services that are not nodes.
LEMMA NodeContainerType ==
  ASSUME CsTypeOK, NEW i \in DOMAIN manifest
  PROVE  NodeContainer(i) \in
           [runs : {"node"} \cup Fixed, node : 0 .. Len(manifest), dependsOn : SUBSET Fixed]
<1>1. i \in 0 .. Len(manifest)
  BY ManifestParts
<1>2. {"config-server"} \cup manifest[i].backends \in SUBSET Fixed
  BY ManifestParts DEF Fixed
<1> QED
  BY <1>1, <1>2 DEF NodeContainer, Container

LEMMA AddNodeInv ==
  ASSUME CsTypeOK, NEW node \in NetworkNode, AddNode(node)
  PROVE  CsTypeOK' /\ compose' = "none" /\ placed' = 0
<1>1. /\ manifest' \in Seq(NetworkNode) /\ Len(manifest') = Len(manifest) + 1
      /\ Len(manifest') \in Nat /\ Len(manifest') <= MaxNodes
  BY ComposeAssumption DEF AddNode, CsTypeOK
<1>2. services' = NoServices /\ DOMAIN services' = {}
  BY DEF AddNode, NoServices
<1> QED
  BY <1>1, <1>2 DEF AddNode, CsTypeOK, NoServices

\* The file begins with what is not a node.
LEMMA GenerateInv ==
  ASSUME CsTypeOK, placed = 0, Generate
  PROVE  CsTypeOK' /\ compose' = "loop" /\ LastOfName'
<1>1. /\ manifest' = manifest /\ placed' = 0 /\ Fixed' = Fixed /\ compose' = "loop"
      /\ services' = [s \in Fixed |-> Container(s, 0, {})]
  BY DEF Generate, Fixed, Needed
<1>2. Len(manifest) \in Nat
  BY ManifestParts
<1>3. \A s \in Fixed : Container(s, 0, {}) \in
        [runs : {"node"} \cup Fixed, node : 0 .. Len(manifest), dependsOn : SUBSET Fixed]
  BY <1>2 DEF Container
<1>4. CsTypeOK'
  BY <1>1, <1>3 DEF CsTypeOK
<1>5. LastOfName'
  <2>1. DOMAIN services' = Fixed /\ \A s \in Fixed : services'[s] = Container(s, 0, {})
    BY <1>1
  <2>2. 1 .. placed' = {}
    BY <1>1
  <2>3. \A s \in Fixed : Container(s, 0, {})' = Container(s, 0, {})
    BY DEF Container
  <2> QED
    BY <1>1, <2>1, <2>2, <2>3 DEF LastOfName
<1> QED
  BY <1>1, <1>4, <1>5

\* The next node takes its place, and that of an earlier one of its name.
LEMMA AddServiceInv ==
  ASSUME CsTypeOK, LastOfName, AddService
  PROVE  CsTypeOK' /\ compose' = "loop" /\ LastOfName'
<1>0. PICK n : n = placed + 1
  OBVIOUS
<1> DEFINE Type == [runs : {"node"} \cup Fixed, node : 0 .. Len(manifest), dependsOn : SUBSET Fixed]
<1>1. /\ manifest' = manifest /\ placed' = n /\ compose' = "loop" /\ Fixed' = Fixed
      /\ services' = [s \in DOMAIN services \cup {ServiceName(n)} |->
                        IF s = ServiceName(n) THEN NodeContainer(n) ELSE services[s]]
  BY <1>0 DEF AddService, Fixed, Needed
<1>2. n \in DOMAIN manifest /\ n \in 1 .. Len(manifest) /\ placed \in Nat
  BY <1>0, ManifestParts DEF AddService
<1>3. \A i : /\ ServiceName(i)' = ServiceName(i) /\ NodeContainer(i)' = NodeContainer(i)
             /\ \A s : Container(s, 0, {})' = Container(s, 0, {})
  BY <1>1 DEF ServiceName, NodeContainer, Container
<1>4. NodeContainer(n) \in Type
  BY <1>2, NodeContainerType
<1>5. services \in [DOMAIN services -> Type]
  BY DEF CsTypeOK
<1>6. 1 .. n = 1 .. placed \cup {n} /\ n \in Nat /\ \A j \in 1 .. n : j <= n
  BY <1>0, <1>2
<1> HIDE DEF Type
<1>7. /\ DOMAIN services' = DOMAIN services \cup {ServiceName(n)}
      /\ services'[ServiceName(n)] = NodeContainer(n)
      /\ \A s \in DOMAIN services \ {ServiceName(n)} : services'[s] = services[s]
  BY <1>1
<1>8. CsTypeOK'
  <2>1. services' \in [DOMAIN services' -> Type]
    BY <1>1, <1>4, <1>5
  <2> QED
    BY <1>1, <1>2, <2>1 DEF CsTypeOK, Type
<1>9. LastOfName'
  <2>1. DOMAIN services' = Fixed \cup {ServiceName(i) : i \in 1 .. n}
    BY <1>6, <1>7 DEF LastOfName
  <2>2. OfNode(ServiceName(n), n)'
    BY <1>1, <1>3, <1>6, <1>7 DEF OfNode
  <2>3. ASSUME NEW s \in DOMAIN services \ {ServiceName(n)}
        PROVE  \/ \E i \in 1 .. n : OfNode(s, i)'
               \/ /\ \A i \in 1 .. n : ServiceName(i) # s
                  /\ services'[s] = Container(s, 0, {})
    <3>1. ASSUME NEW i \in 1 .. placed, OfNode(s, i)
          PROVE  OfNode(s, i)'
      BY <1>1, <1>3, <1>6, <1>7, <2>3, <3>1 DEF OfNode
    <3> QED
      BY <1>6, <1>7, <2>3, <3>1 DEF LastOfName
  <2>4. n \in 1 .. n
    BY <1>6
  <2>5. \A s \in DOMAIN services' :
          \/ \E i \in 1 .. n : OfNode(s, i)'
          \/ /\ \A i \in 1 .. n : ServiceName(i) # s
             /\ services'[s] = Container(s, 0, {})
    <3> TAKE s \in DOMAIN services'
    <3>1. CASE s = ServiceName(n)
      <4>1. OfNode(s, n)'
        BY <1>3, <2>2, <3>1 DEF OfNode
      <4> QED
        BY <2>4, <4>1
    <3>2. CASE s # ServiceName(n)
      BY <1>7, <2>3, <3>2
    <3> QED
      BY <3>1, <3>2
  <2> QED
    BY <1>1, <1>3, <2>1, <2>5 DEF LastOfName
<1> QED
  BY <1>1, <1>8, <1>9

\* What the file has once every node has had its turn.
LEMMA CompleteFile ==
  ASSUME CsTypeOK, LastOfName, placed = Len(manifest)
  PROVE  AllAreThere <=> NamesAreApart
<1>1. DOMAIN manifest = 1 .. placed /\ placed \in Nat /\ \A i \in 1 .. placed : i # 0 /\ i \in Nat
  BY ManifestParts
<1>2. /\ DOMAIN services = Fixed \cup {ServiceName(i) : i \in 1 .. placed}
      /\ \A s \in DOMAIN services :
           \/ \E i \in 1 .. placed : OfNode(s, i)
           \/ /\ \A i \in 1 .. placed : ServiceName(i) # s
              /\ services[s] = Container(s, 0, {})
  BY DEF LastOfName
<1>3. /\ \A i : NodeContainer(i).runs = "node" /\ NodeContainer(i).node = i
      /\ \A s : Container(s, 0, {}).runs = s /\ Container(s, 0, {}).node = 0
  BY DEF NodeContainer, Container
<1>4. "node" \notin Fixed
  BY DEF Fixed, Needed, Databases
<1>5. ASSUME AllAreThere PROVE NamesAreApart
  <2>1. ASSUME NEW i \in 1 .. placed, NEW j \in 1 .. placed, ServiceName(i) = ServiceName(j)
        PROVE  j <= i
    <3>1. PICK s \in DOMAIN services : services[s].node = i
      BY <1>1, <1>5 DEF AllAreThere
    <3>2. PICK k \in 1 .. placed : OfNode(s, k)
      BY <1>1, <1>2, <1>3, <3>1
    <3>3. k = i
      BY <1>3, <3>1, <3>2 DEF OfNode
    <3> QED
      BY <2>1, <3>2, <3>3 DEF OfNode
  <2>2. ASSUME NEW i \in 1 .. placed PROVE ServiceName(i) \notin Fixed
    <3>1. SUFFICES ASSUME ServiceName(i) \in Fixed PROVE FALSE
      OBVIOUS
    <3>2. PICK s \in DOMAIN services : services[s].runs = ServiceName(i)
      BY <1>5, <3>1 DEF AllAreThere
    <3>3. \A k \in 1 .. placed : ~OfNode(s, k)
      BY <1>3, <1>4, <3>1, <3>2 DEF OfNode
    <3>4. s = ServiceName(i)
      BY <1>2, <1>3, <3>2, <3>3
    <3> QED
      BY <1>2, <3>3, <3>4
  <2>3. ASSUME NEW i \in 1 .. placed, NEW j \in 1 .. placed, ServiceName(i) = ServiceName(j)
        PROVE  i = j
    <3>1. j <= i /\ i <= j
      BY <2>1, <2>3
    <3> QED
      BY <1>1, <3>1
  <2> QED
    BY <1>1, <2>2, <2>3 DEF NamesAreApart
<1>6. ASSUME NamesAreApart PROVE AllAreThere
  <2>1. ASSUME NEW i \in 1 .. placed
        PROVE  \E s \in DOMAIN services : services[s].node = i
    <3>1. ServiceName(i) \in DOMAIN services
      BY <1>2
    <3>2. PICK k \in 1 .. placed : OfNode(ServiceName(i), k)
      BY <1>2, <3>1
    <3>3. k = i
      BY <1>1, <1>6, <3>2 DEF OfNode, NamesAreApart
    <3> QED
      BY <1>3, <3>1, <3>2, <3>3 DEF OfNode
  <2>2. ASSUME NEW r \in Fixed
        PROVE  \E s \in DOMAIN services : services[s].runs = r
    <3>1. r \in DOMAIN services /\ \A i \in 1 .. placed : ServiceName(i) # r
      BY <1>1, <1>2, <1>6 DEF NamesAreApart
    <3> QED
      BY <1>2, <1>3, <3>1 DEF OfNode
  <2> QED
    BY <1>1, <2>1, <2>2 DEF AllAreThere
<1> QED
  BY <1>5, <1>6

\* What a node waits for is not a node, and so is always there.
LEMMA DependsOnFixed ==
  ASSUME CsTypeOK, LastOfName
  PROVE  WaitsAreMet
<1>1. \A s \in DOMAIN services : services[s].dependsOn \in SUBSET Fixed
  BY DEF CsTypeOK
<1> QED
  BY <1>1 DEF WaitsAreMet, LastOfName

\* The invariant without what follows from the rest of it.
Placing ==
  /\ CsTypeOK
  /\ compose = "none" => placed = 0
  /\ compose # "none" => LastOfName
  /\ compose = "complete" => placed = Len(manifest)

LEMMA PlacingInit == CsInit => Placing
<1> SUFFICES ASSUME CsInit PROVE Placing
  OBVIOUS
<1>1. manifest = <<>> /\ Len(manifest) = 0 /\ manifest \in Seq(NetworkNode) /\ Len(manifest) <= MaxNodes
  BY ComposeAssumption DEF CsInit
<1>2. services = NoServices /\ DOMAIN services = {}
  BY DEF CsInit, NoServices
<1> QED
  BY <1>1, <1>2 DEF CsInit, Placing, CsTypeOK, NoServices

LEMMA PlacingNext == Placing /\ [CsNext]_csVars => Placing'
<1> SUFFICES ASSUME Placing, [CsNext]_csVars PROVE Placing'
  OBVIOUS
<1>1. ASSUME NEW node \in NetworkNode, AddNode(node) PROVE Placing'
  BY <1>1, AddNodeInv DEF Placing
<1>2. CASE Generate
  <2>1. CsTypeOK /\ placed = 0
    BY <1>2 DEF Placing, Generate
  <2> QED
    BY <1>2, <2>1, GenerateInv DEF Placing
<1>3. CASE AddService
  <2>1. CsTypeOK /\ LastOfName
    BY <1>3 DEF Placing, AddService
  <2> QED
    BY <1>3, <2>1, AddServiceInv DEF Placing
<1>4. CASE Generated
  <2>1. LastOfName /\ CsTypeOK
    BY <1>4 DEF Placing, Generated
  <2>2. UNCHANGED <<manifest, placed, services>> /\ compose' = "complete" /\ placed = Len(manifest)
    BY <1>4 DEF Generated
  <2>3. CsTypeOK'
    BY <2>1, <2>2 DEF CsTypeOK, Fixed, Needed
  <2>4. LastOfName'
    <3>1. /\ Fixed' = Fixed /\ \A s : Container(s, 0, {})' = Container(s, 0, {})
          /\ \A i : ServiceName(i)' = ServiceName(i)
          /\ \A i, s : OfNode(s, i) => OfNode(s, i)'
      BY <2>2 DEF OfNode, Fixed, Needed, ServiceName, NodeContainer, Container
    <3> QED
      BY <2>1, <2>2, <3>1 DEF LastOfName
  <2> QED
    BY <2>2, <2>3, <2>4 DEF Placing
<1>5. CASE UNCHANGED csVars
  BY <1>5 DEF csVars, Placing, CsTypeOK, LastOfName, OfNode, Fixed, Needed, ServiceName,
              NodeContainer, Container
<1> QED
  BY <1>1, <1>2, <1>3, <1>4, <1>5 DEF CsNext

\* For any manifest and whatever the names of its nodes are made to: the compose
\* file that generateCompose writes has a service for every node, the config
\* server and each database exactly if no two names meet, and whatever a service
\* waits for is in the file.
THEOREM ComposeSafety == CsSpec => []CsInv
<1>1. CsInit => Placing
  BY PlacingInit
<1>2. Placing /\ [CsNext]_csVars => Placing'
  BY PlacingNext
<1>3. Placing => CsInv
  BY DependsOnFixed, CompleteFile DEF Placing, CsInv
<1> QED
  BY <1>1, <1>2, <1>3, PTL DEF CsSpec
=============================================================================
