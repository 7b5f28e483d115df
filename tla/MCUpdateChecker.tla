--------------------------- MODULE MCUpdateChecker ---------------------------
(* A small instance of UpdateChecker: two versions, a manifest without a   *)
(* module URL, and a record for each branch of check().                    *)
EXTENDS UpdateChecker

CONSTANTS op, mallory, m1, m2, broken, v1, v2

MCKeys == {op, mallory}
MCBodies == {m1, m2, broken}
MCValidBodies == {m1, m2}
MCVersions == {v1, v2}
MCVersionOf == [m \in MCBodies |-> IF m = m2 THEN v2 ELSE v1]

Signed(keys, seal, body) ==
  [form |-> "signed", signedBy |-> keys, seal |-> seal, body |-> body]
Bare(body) ==
  [form |-> "bare", signedBy |-> {}, seal |-> "open", body |-> body]

AllRecords ==
  {Signed({op}, "open", m1), Signed({op}, "node", m2), Bare(m2),
   Signed({op}, "other", m2), Signed({mallory}, "open", m2),
   Signed({op}, "open", broken)}
FewRecords == {Signed({op}, "open", m1), Signed({op}, "node", m2), Bare(broken)}
=============================================================================
