----------------------------- MODULE MCPayments -----------------------------
(* An order, and two callbacks served at the same time.                    *)
EXTENDS Payments

CONSTANTS alice, o1, c1, c2

MCOpeningBalances == {0}
MCAdminBalances == {1}
=============================================================================
