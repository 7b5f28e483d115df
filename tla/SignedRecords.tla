---------------------------- MODULE SignedRecords ----------------------------
(***************************************************************************)
(* The records an operator publishes for a node, and what the node makes   *)
(* of one of them (libs/b3nd-managed-node/config-loader.ts).               *)
(*                                                                         *)
(* A record is abstracted to what the loader's branches tell apart: its    *)
(* form, whose signatures over the payload verify, whether the payload is  *)
(* sealed (and to whom), and the body inside.  The cryptography itself is  *)
(* the SDK's (external): a signature of signedBy verifies, a payload       *)
(* sealed to the node opens with the node's key and with no other.         *)
(***************************************************************************)
EXTENDS Naturals

CONSTANTS
  Keys,          \* public keys that may appear in a record's auth list
  Operator,      \* the key the node was configured to trust
  Bodies,        \* plaintext bodies a record may carry
  ValidBodies,   \* those that validateConfig accepts
  Nothing        \* what a load that fails yields

ASSUME RecordAssumption ==
  /\ Operator \in Keys
  /\ ValidBodies \subseteq Bodies
  /\ Nothing \notin Bodies

\* "absent": nothing at the URI, or no object there.  "bare": an object
\* without the auth/payload envelope.  "signed": the envelope.
Forms == {"absent", "bare", "signed"}

\* "open": plaintext payload.  "node": encrypted to this node's key.
\* "other": encrypted, but to some other key.
Seals == {"open", "node", "other"}

Record == [form : Forms, signedBy : SUBSET Keys, seal : Seals, body : Bodies]

\* Mutant of Verified: any valid signature will do, whoever made it.
VerifiedByAnyone(rec) == rec.signedBy # {}

\* The loop over message.auth: some entry bears the operator's key and its
\* signature over the payload verifies.
Verified(rec) == Operator \in rec.signedBy

\* The decision on the payload: plaintext is taken as it is, an encrypted one
\* needs the node's private key, and decryption fails when it is another's.
Opens(rec, hasKey) ==
  \/ rec.seal = "open"
  \/ rec.seal = "node" /\ hasKey

Loads(rec, hasKey) ==
  /\ rec.form = "signed"
  /\ Opens(rec, hasKey)
  /\ Verified(rec)
  /\ rec.body \in ValidBodies

\* loadConfig: the config it returns, or Nothing where it throws.
LoadConfig(rec, hasKey) == IF Loads(rec, hasKey) THEN rec.body ELSE Nothing
=============================================================================
