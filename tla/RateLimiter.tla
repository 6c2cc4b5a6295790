---------------------------- MODULE RateLimiter ----------------------------
(***************************************************************************)
(* The per-wallet fixed-window rate limiter of the payment middleware      *)
(* (packages/x402-middleware/src/rate-limit.ts).  check is synchronous, so *)
(* it is one action, the lazy pruning at its head included.  Time is in    *)
(* ticks, and several checks may fall into one tick.                       *)
(***************************************************************************)
EXTENDS Integers, Sequences, FiniteSets

CONSTANTS Wallet,           (* lower-cased wallet addresses                *)
          Limit,            (* max: requests per window                    *)
          WindowLength,     (* windowMs                                    *)
          PruneInterval,    (* pruneIntervalMs                             *)
          TimeLimit         (* bound: the last tick                        *)

ASSUME LimiterAssumption ==
  /\ Limit \in Nat
  /\ WindowLength \in Nat \ {0}
  /\ PruneInterval \in Nat \ {0}
  /\ TimeLimit \in Nat

VARIABLES now,              (* Date.now()                                  *)
          windows,          (* the map of window entries                   *)
          lastPrune,
          served            (* history: when each wallet was let through   *)

limiterVars == <<now, windows, lastPrune, served>>

Entry == [count : 0..Limit, start : Nat]

LimiterTypeOK ==
  /\ now       \in Nat
  /\ DOMAIN windows \subseteq Wallet
  /\ \A w \in DOMAIN windows : windows[w] \in Entry
  /\ lastPrune \in Nat
  /\ served    \in [Wallet -> Seq(Nat)]

LimiterInit ==
  /\ now = 0
  /\ windows = <<>>
  /\ lastPrune = 0
  /\ served = [w \in Wallet |-> <<>>]

-----------------------------------------------------------------------------
(* Broken: a window lasts one tick too long.                               *)
ExpiredLate(entry) == now - entry.start > WindowLength

Expired(entry) == now - entry.start >= WindowLength

(* maybePrune keeps the entries that have not expired.                     *)
Unpruned == {w \in DOMAIN windows : ~ Expired(windows[w])}

PruneDue == now - lastPrune >= PruneInterval

(* The entry check works with: the wallet's own, or a new one.             *)
CurrentEntry(w) ==
  IF w \notin DOMAIN windows \/ Expired(windows[w])
  THEN [count |-> 0, start |-> now] ELSE windows[w]

(* Broken: one request too many.                                           *)
DeniesLate(w) == CurrentEntry(w).count > Limit

Denies(w) == CurrentEntry(w).count >= Limit

(* check(w) for one request of w.                                          *)
Check(w) ==
  LET entry == CurrentEntry(w)
      kept  == IF PruneDue THEN Unpruned ELSE DOMAIN windows
  IN /\ windows'   = [v \in kept \cup {w} |->
                        IF v # w THEN windows[v]
                        ELSE IF Denies(w) THEN entry
                        ELSE [entry EXCEPT !.count = @ + 1]]
     /\ lastPrune' = IF PruneDue THEN now ELSE lastPrune
     /\ served'    = IF Denies(w) THEN served
                     ELSE [served EXCEPT ![w] = Append(@, now)]
     /\ UNCHANGED now

Tick ==
  /\ now < TimeLimit
  /\ now' = now + 1
  /\ UNCHANGED <<windows, lastPrune, served>>

LimiterNext == Tick \/ \E w \in Wallet : Check(w)

LimiterSpec == LimiterInit /\ [][LimiterNext]_limiterVars
-----------------------------------------------------------------------------
(* How many requests of w were let through in the ticks from..to.          *)
ServedBetween(w, from, to) ==
  Cardinality({i \in 1..Len(served[w]) : from <= served[w][i] /\ served[w][i] <= to})

(* A fixed window allows a burst at its end and one at the next window's   *)
(* start, and no more: no stretch as long as a window sees more than twice *)
(* the limit, however the prunings fall (rate-limit.ts:41-72).             *)
BurstIsBounded ==
  \A w \in Wallet : \A t \in 0..now :
    ServedBetween(w, t, t + WindowLength - 1) <= 2 * Limit

(* A wallet is refused only if it has really used up its limit within the  *)
(* last window: a refusal never outlives the window it was counted in      *)
(* (rate-limit.ts:48-57).                                                  *)
RefusedOnlyWhenSpent ==
  \A w \in Wallet : Denies(w) =>
    ServedBetween(w, now - WindowLength + 1, now) >= Limit

(* The limit is kept, and nobody is refused who has not reached it         *)
(* (rate-limit.ts:41-72).                                                  *)
LimitIsFair == BurstIsBounded /\ RefusedOnlyWhenSpent

(* What a wallet has used of the window it is in.                          *)
Used(w) == CurrentEntry(w).count

(* Pruning is invisible: a check of one wallet, and the pruning it does on *)
(* the way, changes no other wallet's count (rate-limit.ts:64-72).         *)
PruningIsInvisible ==
  [][\A w \in Wallet : Check(w) => \A v \in Wallet \ {w} : Used(v)' = Used(v)]_limiterVars
=============================================================================
