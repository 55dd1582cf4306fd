------------------------------ MODULE MCAdapter ------------------------------
(***************************************************************************)
(* The OpenSSH adapter for TLC: calls of Forward and Observe that compete  *)
(* for an import and a publication, beside a dead Manager's master.        *)
(***************************************************************************)
EXTENDS Adapter, TLC

\* Callers only differ by name.
AdapterSymmetry == Permutations(Caller)

============================================================================
