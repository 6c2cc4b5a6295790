------------------------ MODULE MCDomainRegistration ------------------------
(***************************************************************************)
(* Constants for the domain registration: a registrant, another wallet,    *)
(* and as many calls as the interleavings of interest take.  The worlds:   *)
(* everything may happen, nothing may, or one thing alone may: replies get *)
(* lost, the process is killed, owners delete their zones.                 *)
(***************************************************************************)
EXTENDS DomainRegistration, TLC

CONSTANTS c1, c2, c3, c4, ann, bob

FourCalls  == {c1, c2, c3, c4}
TwoWallets == {ann, bob}

World(lossy, crashes, deletes) ==
  [lossy |-> lossy, crashes |-> crashes, deletes |-> deletes]

AllWorlds == {World(TRUE, TRUE, TRUE), World(TRUE, FALSE, FALSE),
              World(FALSE, TRUE, FALSE), World(FALSE, FALSE, TRUE),
              World(FALSE, FALSE, FALSE)}

Symmetry == Permutations(FourCalls) \cup Permutations(TwoWallets)
=============================================================================
