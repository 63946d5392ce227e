----------------------------- MODULE MCLicenses -----------------------------
(***************************************************************************)
(* Instances of Licenses for TLC: two scopes; ranges that touch on a day,  *)
(* nest and stay open.  The royalty arithmetic has no states of its own:   *)
(* the assumptions of MCRoyaltyLedger are evaluated with these instances.  *)
(***************************************************************************)
EXTENDS Licenses, MCRoyaltyLedger, TLC

CONSTANTS A, B

Form(k, from, to) == [scope |-> k, from |-> from, to |-> to]

Touching == {Form(A, 0, 1), Form(A, 1, Open)}
TwoScopes == Touching \cup {Form(B, 0, Open)}

Interchangeable == Permutations(Ids) \cup Permutations(Requests)
=============================================================================
