--------------------------- MODULE SqlTransactions ---------------------------
(***************************************************************************)
(* What a SqlExecutor promises (apps/b3nd-node/pg-executor.ts,             *)
(* sqlite-executor.ts): transaction(fn) has the effect of all statements   *)
(* of fn in one step, or none, and query(sql) is one such statement.       *)
(*                                                                         *)
(* For the synchronous SQLite executor this is the code as it stands: from *)
(* BEGIN to COMMIT or ROLLBACK nothing else can run.  InDoubt is for       *)
(* executors that are apart from their database: the commit, or the        *)
(* statement of the query, took place, but its caller is told of a         *)
(* failure.                                                                *)
(***************************************************************************)
CONSTANTS
  Callers,   \* calls of transaction() and query()
  Rows(_)    \* the rows that the statements of a call insert

VARIABLES
  rows,      \* the rows in the database
  outcome    \* of each call: "new", "ok" or "failed"

vars == <<rows, outcome>>

Init == rows = {} /\ outcome = [c \in Callers |-> "new"]

Settle(c, o) == outcome[c] = "new" /\ outcome' = [outcome EXCEPT ![c] = o]

Commit(c) == Settle(c, "ok") /\ rows' = rows \cup Rows(c)

Fail(c) == Settle(c, "failed") /\ UNCHANGED rows

InDoubt(c) == Settle(c, "failed") /\ rows' = rows \cup Rows(c)

Next == \E c \in Callers : Commit(c) \/ Fail(c) \/ InDoubt(c)

Spec == Init /\ [][Next]_vars
=============================================================================
