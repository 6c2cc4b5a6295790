-------------------------- MODULE RegistrationLife --------------------------
(***************************************************************************)
(* What domain.sh promises about the registration of a domain: it is       *)
(* bought once, by one wallet, and only ever moves forward, through every  *)
(* stage: purchased, given a zone, delegated to it.                        *)
(***************************************************************************)
CONSTANTS Wallet, NoOne

VARIABLES owner, stage

Stages == {"unregistered", "purchased", "zoned", "delegated"}

Init == owner = NoOne /\ stage = "unregistered"

Buy(w) ==
  /\ stage = "unregistered" /\ stage' = "purchased"
  /\ owner' = w

Advance(from, to) ==
  /\ stage = from /\ stage' = to
  /\ UNCHANGED owner

Next ==
  \/ \E w \in Wallet : Buy(w)
  \/ Advance("purchased", "zoned")
  \/ Advance("zoned", "delegated")

Spec == Init /\ [][Next]_<<owner, stage>>
=============================================================================
