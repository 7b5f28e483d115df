------------------------- MODULE MCContinuousRunner -------------------------
(* A small instance of ContinuousRunner: an SDK test file, an end-to-end   *)
(* one, and an SDK one that is written after the inspector has started.    *)
EXTENDS ContinuousRunner

CONSTANTS sdk, e2e, new

MCFiles == {sdk, e2e, new}
MCDiscovered == {sdk, e2e}
MCE2e == {e2e}
MCFullRun == {sdk, e2e}
MCChanges == {{new}, {e2e}}
=============================================================================
