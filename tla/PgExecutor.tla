----------------------------- MODULE PgExecutor -----------------------------
(***************************************************************************)
(* createPostgresExecutor (apps/b3nd-node/pg-executor.ts): transactions    *)
(* and queries of several callers on one connection.                       *)
(*                                                                         *)
(* The client sends one statement at a time, in the order in which they    *)
(* were asked for.  A caller awaits each of its own, so that statements of *)
(* other callers come in between: the connection has one transaction, and  *)
(* they all share it.  What the database does with BEGIN in a transaction, *)
(* COMMIT in none or in one that has failed is PostgreSQL's: a warning,    *)
(* not an error, and a COMMIT after an error rolls back.                   *)
(*                                                                         *)
(* Each statement of a call inserts a row of its own, <<call, number>>.    *)
(***************************************************************************)
EXTENDS Naturals

CONSTANTS
  Txs,         \* calls of transaction(fn)
  Queries,     \* calls of query(sql)
  Statements,  \* the number of statements of each fn
  MaxErrors    \* bound: statements that fail of themselves

ASSUME PgAssumption ==
  /\ Txs \cap Queries = {}
  /\ Statements \in Nat \ {0}
  /\ MaxErrors \in Nat

Calls == Txs \cup Queries
RowsOf(c) == {c} \X (IF c \in Txs THEN 1 .. Statements ELSE {1})

VARIABLES
  connected,  \* is the client connected?
  inTx,       \* the server: has the connection a transaction open?
  aborted,    \* the server: has a statement of it failed?
  work,       \* the server: the rows it has inserted
  rows,       \* the server: the committed rows
  pc,         \* of each call: "open" from BEGIN on, "rollback" after an error
  done,       \* of each call: how many statements it has made
  errors,     \* statements that failed of themselves so far
  exposed,    \* history: calls that had another one beside them
  tolerant,   \* history: calls whose fn went on after a failed statement
  doubt       \* history: calls whose COMMIT, or whose one statement, took place
              \* unseen

server == <<inTx, aborted, work, rows>>
history == <<exposed, tolerant, doubt>>
pgVars == <<connected, server, pc, done, errors, history>>

Open == {c \in Calls : pc[c] \in {"open", "rollback"}}

PgInit ==
  /\ connected = TRUE
  /\ inTx = FALSE
  /\ aborted = FALSE
  /\ work = {}
  /\ rows = {}
  /\ pc = [c \in Calls |-> "new"]
  /\ done = [c \in Calls |-> 0]
  /\ errors = 0
  /\ exposed = {}
  /\ tolerant = {}
  /\ doubt = {}

-----------------------------------------------------------------------------
(* The server *)

\* BEGIN: a second one changes nothing.
ServerBegin == inTx' = TRUE /\ UNCHANGED <<aborted, work, rows>>

\* A statement inserts the row x, into the open transaction or for good.
ServerInsert(x) ==
  /\ ~aborted
  /\ IF inTx THEN work' = work \cup {x} /\ UNCHANGED rows
             ELSE rows' = rows \cup {x} /\ UNCHANGED work
  /\ UNCHANGED <<inTx, aborted>>

\* A statement fails: of itself, or because one has failed before.
ServerError ==
  /\ aborted' = inTx
  /\ UNCHANGED <<inTx, work, rows>>

\* The transaction ends, if there is one.
ServerEnd(kept) ==
  /\ inTx' = FALSE
  /\ aborted' = FALSE
  /\ work' = {}
  /\ rows' = rows \cup kept

\* What a COMMIT keeps.
CommitWork == IF aborted THEN {} ELSE work

ErrorIsDue == aborted \/ errors < MaxErrors
CountError == errors' = IF aborted THEN errors ELSE errors + 1
-----------------------------------------------------------------------------
(* The executor *)

MoveTo(c, where) == pc' = [pc EXCEPT ![c] = where]

\* The call c begins, beside those that are open.
Meet(c) == exposed' = IF Open = {} THEN exposed ELSE exposed \cup Open \cup {c}

\* transaction(fn), BEGIN.
Begin(c) ==
  /\ connected
  /\ pc[c] = "new"
  /\ ~aborted
  /\ MoveTo(c, "open")
  /\ Meet(c)
  /\ ServerBegin
  /\ UNCHANGED <<connected, done, errors, tolerant, doubt>>

\* BEGIN is before the try: when it fails nothing is rolled back.
BeginFails(c) ==
  /\ pc[c] = "new"
  /\ connected => aborted
  /\ MoveTo(c, "failed")
  /\ Meet(c)
  /\ UNCHANGED <<connected, server, done, errors, tolerant, doubt>>

\* A statement of fn.
Insert(c) ==
  /\ connected
  /\ pc[c] = "open"
  /\ done[c] < Statements
  /\ ServerInsert(<<c, done[c] + 1>>)
  /\ done' = [done EXCEPT ![c] = @ + 1]
  /\ UNCHANGED <<connected, pc, errors, history>>

\* Mutant of InsertFails: the error is lost.
InsertFailsUnseen(c) ==
  /\ connected
  /\ pc[c] = "open"
  /\ done[c] < Statements
  /\ ErrorIsDue
  /\ CountError
  /\ ServerError
  /\ done' = [done EXCEPT ![c] = @ + 1]
  /\ UNCHANGED <<connected, pc, history>>

\* It fails: fn rejects, or catches the error and goes on.
InsertFails(c) ==
  /\ connected
  /\ pc[c] = "open"
  /\ done[c] < Statements
  /\ ErrorIsDue
  /\ CountError
  /\ ServerError
  /\ \/ MoveTo(c, "rollback") /\ UNCHANGED <<done, tolerant>>
     \/ /\ done' = [done EXCEPT ![c] = @ + 1]
        /\ tolerant' = tolerant \cup {c}
        /\ UNCHANGED pc
  /\ UNCHANGED <<connected, exposed, doubt>>

\* fn rejects of itself.
Throw(c) ==
  /\ pc[c] = "open"
  /\ MoveTo(c, "rollback")
  /\ UNCHANGED <<connected, server, done, errors, history>>

\* COMMIT, which is answered as done whatever the transaction has become.
Commit(c) ==
  /\ connected
  /\ pc[c] = "open"
  /\ done[c] = Statements
  /\ ServerEnd(CommitWork)
  /\ MoveTo(c, "ok")
  /\ UNCHANGED <<connected, done, errors, history>>

\* COMMIT fails, as a deferred constraint does.
CommitFails(c) ==
  /\ connected
  /\ pc[c] = "open"
  /\ done[c] = Statements
  /\ errors < MaxErrors
  /\ errors' = errors + 1
  /\ ServerEnd({})
  /\ MoveTo(c, "rollback")
  /\ UNCHANGED <<connected, done, history>>

\* Mutant of Rollback: the transaction stays open.
RollbackForgets(c) ==
  /\ connected
  /\ pc[c] = "rollback"
  /\ MoveTo(c, "failed")
  /\ UNCHANGED <<connected, server, done, errors, history>>

\* ROLLBACK, and the error goes to the caller.
Rollback(c) ==
  /\ connected
  /\ pc[c] = "rollback"
  /\ ServerEnd({})
  /\ MoveTo(c, "failed")
  /\ UNCHANGED <<connected, done, errors, history>>

\* query(sql): one statement, in whatever transaction is open.
Query(c) ==
  /\ connected
  /\ pc[c] = "new"
  /\ ServerInsert(<<c, 1>>)
  /\ MoveTo(c, "ok")
  /\ Meet(c)
  /\ UNCHANGED <<connected, done, errors, tolerant, doubt>>

QueryFails(c) ==
  /\ connected
  /\ pc[c] = "new"
  /\ ErrorIsDue
  /\ CountError
  /\ ServerError
  /\ MoveTo(c, "failed")
  /\ Meet(c)
  /\ UNCHANGED <<connected, done, tolerant, doubt>>

-----------------------------------------------------------------------------
(* The connection: it is never made again *)

\* It is lost, and with it the open transaction.
Disconnect ==
  /\ connected
  /\ connected' = FALSE
  /\ ServerEnd({})
  /\ UNCHANGED <<pc, done, errors, history>>

\* It is lost after a COMMIT and before its answer.
CommitUnseen(c) ==
  /\ connected
  /\ pc[c] = "open"
  /\ done[c] = Statements
  /\ connected' = FALSE
  /\ ServerEnd(CommitWork)
  /\ MoveTo(c, "rollback")
  /\ doubt' = doubt \cup {c}
  /\ UNCHANGED <<done, errors, exposed, tolerant>>

\* It is lost after the statement of a query and before its answer: the row
\* stays, unless it went into a transaction, which is lost.
QueryUnseen(c) ==
  /\ connected
  /\ pc[c] = "new"
  /\ ~aborted
  /\ connected' = FALSE
  /\ ServerEnd(IF inTx THEN {} ELSE {<<c, 1>>})
  /\ MoveTo(c, "failed")
  /\ Meet(c)
  /\ doubt' = doubt \cup {c}
  /\ UNCHANGED <<done, errors, tolerant>>

\* Every statement is refused from then on: the error of ROLLBACK takes the
\* place of the one before.
Refused(c) ==
  /\ ~connected
  /\ c \in Open \/ (c \in Queries /\ pc[c] = "new")
  /\ MoveTo(c, "failed")
  /\ UNCHANGED <<connected, server, done, errors, history>>

PgNext ==
  \/ \E c \in Txs :
       \/ Begin(c) \/ BeginFails(c)
       \/ Insert(c) \/ InsertFails(c) \/ Throw(c)
       \/ Commit(c) \/ CommitFails(c) \/ CommitUnseen(c)
       \/ Rollback(c)
  \/ \E c \in Queries : Query(c) \/ QueryFails(c) \/ QueryUnseen(c)
  \/ \E c \in Calls : Refused(c)
  \/ Disconnect

PgSpec == PgInit /\ [][PgNext]_pgVars

-----------------------------------------------------------------------------
(* Properties *)

Outcome(c) == IF c \in doubt THEN "failed"
              ELSE IF pc[c] \in {"ok", "failed"} THEN pc[c] ELSE "new"

Sql == INSTANCE SqlTransactions WITH
         Callers <- Calls, Rows <- RowsOf,
         rows <- rows, outcome <- [c \in Calls |-> Outcome(c)]

\* As long as no call has another one beside it and no fn goes on after an
\* error, the executor keeps the promise: each transaction has the effect of
\* all its statements in one step, or none, though statements and commits fail
\* and the connection is lost.
SerialRefines == [][exposed' = {} /\ tolerant' = {} => [Sql!Next]_(Sql!vars)]_pgVars

\* The variables have the types of what they model.
PgTypeOK ==
  /\ connected \in BOOLEAN
  /\ inTx \in BOOLEAN
  /\ aborted \in BOOLEAN
  /\ work \subseteq Calls \X (1 .. Statements)
  /\ rows \subseteq Calls \X (1 .. Statements)
  /\ pc \in [Calls -> {"new", "open", "rollback", "ok", "failed"}]
  /\ done \in [Calls -> 0 .. Statements]
  /\ errors \in 0 .. MaxErrors
  /\ exposed \subseteq Calls
  /\ tolerant \subseteq Calls
  /\ doubt \subseteq Calls

\* Whatever the other calls do, one that had none beside it is atomic and
\* durable: acknowledged it has all its rows in the database, unless its fn
\* went on after an error; failed it has none of them, unless the connection
\* was lost before the answer to its commit, or to its one statement, and then
\* it has them all.  So what is acknowledged and lost, or kept in part, is the
\* price of sharing the connection.
AckedOrNothing ==
  \A c \in Calls \ exposed :
    /\ pc[c] = "ok" /\ c \notin tolerant => RowsOf(c) \subseteq rows
    /\ pc[c] = "failed" /\ c \notin doubt => RowsOf(c) \cap rows = {}
    /\ c \in doubt /\ c \notin tolerant => RowsOf(c) \subseteq rows

\* The connection has a transaction only while a call has one, and what it
\* holds is theirs, or of calls that met another.
TransactionIsOfACall ==
  /\ inTx => connected /\ Open # {}
  /\ aborted => inTx
  /\ ~inTx => work = {}
  /\ \A x \in work : x[1] \in Open \cup exposed

\* A call that has not met another is alone, and while its fn has seen each
\* error, the connection's transaction is its own, with all it did so far.
AloneIsExact ==
  \A c \in Open \ exposed :
    /\ Open = {c}
    /\ c \notin doubt => rows \cap RowsOf(c) = {}
    /\ pc[c] = "open" /\ connected => inTx
    /\ pc[c] = "open" /\ connected /\ c \notin tolerant =>
         ~aborted /\ work = {c} \X (1 .. done[c])

\* What is true of a call before and when it leaves a trace; only a connection
\* that is lost leaves a call in doubt.
TracesAreOfCalls ==
  /\ \A c \in Calls : pc[c] = "new" =>
       done[c] = 0 /\ c \notin doubt /\ \A x \in rows \cup work : x[1] # c
  /\ \A c \in Queries : pc[c] \notin {"open", "rollback"}
  /\ \A c \in doubt : ~connected /\ pc[c] \in {"rollback", "failed"}

\* The inductive invariant.
PgIInv ==
  /\ PgTypeOK
  /\ AckedOrNothing
  /\ TransactionIsOfACall
  /\ AloneIsExact
  /\ TracesAreOfCalls
=============================================================================
