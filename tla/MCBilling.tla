------------------------------ MODULE MCBilling -----------------------------
(* Two users, one referred by the other, one key, two concurrent requests. *)
EXTENDS Billing, TLC

CONSTANTS alice, bob, k1, r1, r2

RequestSymmetry == Permutations(Requests)
MCOwner == (k1 :> bob)
MCReferrer == (alice :> NoUser) @@ (bob :> alice)
MCOpeningBalances == {4}
MCAdminBalances == {-1}
MCCosts == {-1, 2}
=============================================================================
