--------------------------- MODULE MCWabaTokens -----------------------------
(* Three attaches, of two tenants in any order, race two requests that use  *)
(* or end a binding: enough for a WABA to move to another tenant and back   *)
(* while an attach is between its reads.                                    *)
EXTENDS WabaTokens, TLC

\* Requests and tenants are interchangeable: every property treats them alike.
Interchangeable ==
  Permutations(Tenants) \cup Permutations(Attaches) \cup Permutations(Openers)
=============================================================================
