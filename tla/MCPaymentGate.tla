--------------------------- MODULE MCPaymentGate ---------------------------
(***************************************************************************)
(* PaymentGate on a small instance: one wallet, whose two requests contend *)
(* for its credit, for one URL of a metered route, one of a route with a   *)
(* fixed price, or one of each.  A metered price is below or above the     *)
(* fixed one and the credit seed, so that credit covers it or only a part. *)
(***************************************************************************)
EXTENDS PaymentGate

CONSTANTS w1, r1, r2, metered, fixed

MCWallet  == {w1}
MCRequest == {r1, r2}
MCKey     == {metered, fixed}
MCMetered == {metered}
MCPrice   == {1, 3}
MCAmount  == 0..3
=============================================================================
