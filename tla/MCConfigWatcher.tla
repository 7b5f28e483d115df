--------------------------- MODULE MCConfigWatcher ---------------------------
(* A small instance of ConfigWatcher: two valid configurations, one that   *)
(* validateConfig rejects, and a record for each branch of loadConfig.     *)
EXTENDS ConfigWatcher

CONSTANTS op, mallory, a, b, bad

MCKeys == {op, mallory}
MCBodies == {a, b, bad}
MCValidBodies == {a, b}

Signed(keys, seal, body) ==
  [form |-> "signed", signedBy |-> keys, seal |-> seal, body |-> body]

\* Two records that load, and the same configuration signed a second time by
\* another key as well: a new record with an old body.
Good == {Signed({op}, "open", a), Signed({op}, "open", b),
         Signed({op, mallory}, "open", a)}

\* One record for each reason to throw.
Rejected ==
  {[form |-> "absent", signedBy |-> {}, seal |-> "open", body |-> a],
   Signed({mallory}, "open", b),
   Signed({op}, "node", b),
   Signed({op}, "open", bad)}

AllRecords == Good \cup Rejected
FewRecords == {Signed({op}, "open", a), Signed({op}, "open", b),
               Signed({op}, "node", b)}
=============================================================================
