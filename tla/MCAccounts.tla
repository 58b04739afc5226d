----------------------------- MODULE MCAccounts -----------------------------
(* A site that is being set up: the address of a configured administrator, *)
(* which a provider vouches for, another address, and an identity that     *)
(* comes without one and is configured too.                                *)
EXTENDS Accounts, TLC

CONSTANTS root, guest, s1, s2, a1, a2, h1, h2

MCClaimedEmail == (s1 :> root) @@ (s2 :> NoOne)

MCBootstrapAdmins == {root, s2}

MCSymmetry == Permutations({a1, a2}) \cup Permutations({h1, h2})
=============================================================================
