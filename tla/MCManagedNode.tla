---------------------------- MODULE MCManagedNode ----------------------------
(* A small instance of ManagedNode: two configurations, in plaintext or    *)
(* sealed to the node, and a record the operator did not sign.             *)
EXTENDS ManagedNode

CONSTANTS op, mallory, a, b

MCKeys == {op, mallory}
MCBodies == {a, b}

Signed(keys, seal, body) ==
  [form |-> "signed", signedBy |-> keys, seal |-> seal, body |-> body]

Absent == [form |-> "absent", signedBy |-> {}, seal |-> "open", body |-> a]

MCRecords ==
  {Absent, Signed({op}, "open", a), Signed({op}, "open", b),
   Signed({op}, "node", b), Signed({mallory}, "open", b)}
SealedRecords == {Absent, Signed({op}, "node", a)}
=============================================================================
