----------------------------- MODULE MCPasskeys -----------------------------
(* Two users, a key each, and two requests served at the same time.        *)
EXTENDS Passkeys, TLC

CONSTANTS a1, a2, k1, k2, h1, h2, c1, c2, c3

MCSymmetry ==
    Permutations({a1, a2}) \cup Permutations({k1, k2}) \cup
    Permutations({c1, c2, c3}) \cup Permutations({h1, h2})
=============================================================================
