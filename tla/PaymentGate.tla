---------------------------- MODULE PaymentGate ----------------------------
(***************************************************************************)
(* The x402 payment middleware (packages/x402-middleware/src/middleware.ts)*)
(* around concurrent requests.  One process per request; the steps are the *)
(* stretches of code between two awaits: the allowlist check and the cost  *)
(* estimator, the payment library reading the price and asking its         *)
(* facilitator, the route handler, the usage of the response, and the      *)
(* settlement on chain.  The requests share the credit ledger and          *)
(* estimateCache, the map from "pattern:url" to the price to be paid.      *)
(*                                                                         *)
(* The payment library and the facilitator are external: the library reads *)
(* the price at some point after it is called, a payment verifies or not,  *)
(* and it settles or not; it does not settle a response whose status is    *)
(* 400 or more.                                                            *)
(***************************************************************************)
EXTENDS CreditLedger

CONSTANTS Request,        (* requests, each arriving at most once          *)
          Key,            (* cache keys: route pattern and request URL     *)
          Metered,        (* keys of routes whose price is an estimator    *)
          Calculated,     (* keys of routes with a cost calculator         *)
          StaticPrice,    (* the price of the other routes                 *)
          Price,          (* what estimators and calculators return        *)
          SeedAmount,     (* a gate invite's credit seed (infer.sh)        *)
          SeedLimit       (* bound: no seed takes a log sum beyond it      *)

NoWallet == "no wallet"   (* the request has no payment header             *)
NoEntry  == 0             (* estimateCache has no entry: prices are not 0  *)

ASSUME GateAssumption ==
  /\ Metered \subseteq Key
  /\ Calculated \subseteq Key
  /\ StaticPrice \in Nat \ {0}
  /\ Price \subseteq Nat \ {0}
  /\ SeedAmount \in Amount
  /\ \A price \in Price \cup {StaticPrice} : 0..price \subseteq Amount
  /\ SeedLimit \in Nat
  /\ NoWallet \notin Wallet

VARIABLES req,      (* each request's context and call, see Requests       *)
          cache     (* estimateCache                                       *)

vars == <<ledgerVars, req, cache>>

Places == {"idle", "gate", "payment", "verify", "handler", "usage", "chain",
           "done"}

Requests ==
  [pc       : Places,
   wallet   : Wallet \cup {NoWallet},         (* walletAddress             *)
   key      : Key,                            (* cacheKey                  *)
   due      : Nat,                            (* estimatedPrice; 0 before  *)
   via      : {"x402", "credit", "partial"},  (* paidVia                   *)
   asked    : Nat,     (* history: the price the request put in the cache  *)
   price    : Nat,     (* the price the library read for it; 0 before      *)
   status   : {"none", "ok", "error", "402"}, (* the handler's response    *)
   deferred : BOOLEAN, (* a stream's settlement still waits for its usage  *)
   net      : Int,     (* history: what it moved in the ledger             *)
   actual   : Nat,     (* history: what the calculator said; 0 before      *)
   charged  : Nat]     (* history: what was settled on chain               *)

TypeOK ==
  /\ LedgerTypeOK
  /\ req   \in [Request -> Requests]
  /\ cache \in [Key -> Nat]

NewRequest(k) ==
  [pc |-> "idle", wallet |-> NoWallet, key |-> k, due |-> 0, via |-> "x402",
   asked |-> 0, price |-> 0, status |-> "none", deferred |-> FALSE, net |-> 0,
   actual |-> 0, charged |-> 0]

Init ==
  /\ LedgerInit
  /\ cache = [k \in Key |-> NoEntry]
  /\ \E keys \in [Request -> Key] : req = [r \in Request |-> NewRequest(keys[r])]

-----------------------------------------------------------------------------
(* Between setting the cache entry and deleting it in the finally block.   *)
InFlight(r) == req[r].pc \in {"payment", "verify", "handler", "usage", "chain"}

(* Broken: no finally block.                                               *)
LeaveWithoutCleanup(r, place) == cache' = cache

(* The finally block: a request that is done deletes the entry of its key. *)
Leave(r, place) ==
  cache' = IF place = "done" THEN [cache EXCEPT ![req[r].key] = NoEntry]
           ELSE cache

(* Broken: any credit is taken to cover the price.                         *)
CreditTakenOverdraws(current, cost) == IF current <= 0 THEN 0 ELSE cost

(* What checkCredit takes at this price from this balance.                 *)
CreditTaken(current, cost) ==
  IF current <= 0 THEN 0 ELSE IF current >= cost THEN cost ELSE current

(* The request comes in with or without a payment header.                  *)
Arrive(r) ==
  /\ req[r].pc = "idle"
  /\ \E w \in Wallet \cup {NoWallet} :
       req' = [req EXCEPT ![r].pc = "gate", ![r].wallet = w]
  /\ UNCHANGED <<ledgerVars, cache>>

(* 403 from denyWallet or 429 from the rate limiter, both only for a known *)
(* wallet, or the estimator throws: nothing has been cached or charged.    *)
Reject(r) ==
  /\ req[r].pc = "gate"
  /\ req[r].wallet # NoWallet \/ req[r].key \in Metered
  /\ req' = [req EXCEPT ![r].pc = "done"]
  /\ UNCHANGED <<ledgerVars, cache>>

(* The request asks for a payment of amount, having used credit.           *)
Ask(r, place, via, cost, credit, amount) ==
  /\ req' = [req EXCEPT ![r].pc = place, ![r].via = via, ![r].due = cost,
                        ![r].asked = amount, ![r].net = -credit]
  /\ cache' = [cache EXCEPT ![req[r].key] = amount]
  /\ IF credit = 0 THEN UNCHANGED ledgerVars
     ELSE DeductCredit(req[r].wallet, credit)

(* The price is known: check the credit, cache the price, reduced by a     *)
(* partial credit, and go to the handler on credit or call the payment     *)
(* library.  No await lies between these.                                  *)
Admit(r) ==
  /\ req[r].pc = "gate"
  /\ \E cost \in (IF req[r].key \in Metered THEN Price ELSE {StaticPrice}) :
       LET taken == IF req[r].wallet = NoWallet THEN 0
                    ELSE CreditTaken(balance[req[r].wallet], cost)
       IN \/ taken = 0 /\ Ask(r, "payment", "x402", cost, 0, cost)
          \/ taken = cost /\ Ask(r, "handler", "credit", cost, cost, cost)
          \/ /\ taken \notin {0, cost}
             /\ Ask(r, "payment", "partial", cost, taken, cost - taken)

(* Broken: the reader waits for an entry.                                  *)
ReadPriceWaits(r) ==
  /\ req[r].pc = "payment"
  /\ cache[req[r].key] # NoEntry
  /\ req' = [req EXCEPT ![r].pc = "verify", ![r].price = cache[req[r].key]]
  /\ UNCHANGED <<ledgerVars, cache>>

(* External: the payment library calls the DynamicPrice reader, which      *)
(* throws when the entry is gone.                                          *)
ReadPrice(r) ==
  /\ req[r].pc = "payment"
  /\ LET read  == cache[req[r].key]
         place == IF read = NoEntry THEN "done" ELSE "verify"
     IN /\ req' = [req EXCEPT ![r].pc = place, ![r].price = read]
        /\ Leave(r, place)
  /\ UNCHANGED ledgerVars

(* External: the facilitator accepts the payment, or the library answers   *)
(* 402 (always, without a payment header).                                 *)
Verify(r) ==
  /\ req[r].pc = "verify"
  /\ \E place \in {"handler", "done"} :
       /\ place = "handler" => req[r].wallet # NoWallet
       /\ req' = [req EXCEPT ![r].pc = place]
       /\ Leave(r, place)
  /\ UNCHANGED ledgerVars

-----------------------------------------------------------------------------
(* Where a response with this status leads: on credit the middleware is    *)
(* through; else the library settles, unless the status is 400 or more.    *)
AfterNext(r, status) ==
  IF req[r].via = "credit" \/ status # "ok" THEN "done" ELSE "chain"

(* settleResponse has an estimate to settle against on metered routes, and *)
(* on static ones only when credit paid for all of it.                     *)
Settles(r) ==
  /\ req[r].key \in Calculated
  /\ req[r].key \in Metered \/ req[r].via = "credit"

(* Broken: settles against the reduced price.                              *)
ReconciledAgainstAsked(r, cost) ==
  SettleDelta(balance[req[r].wallet], req[r].asked, cost)

(* What settling at this cost moves in the ledger.                         *)
Reconciled(r, cost) == SettleDelta(balance[req[r].wallet], req[r].due, cost)

(* The handler responds and nothing is to be reconciled.                   *)
RespondUnsettled(r) ==
  /\ req[r].pc = "handler"
  /\ \E status \in {"ok", "error", "402"} :
       /\ Settles(r) => status = "402"
       /\ req' = [req EXCEPT ![r].pc = AfterNext(r, status),
                             ![r].status = status]
       /\ Leave(r, AfterNext(r, status))
  /\ UNCHANGED ledgerVars

(* The handler fails: the estimate is given back, at once.                 *)
RespondError(r) ==
  /\ req[r].pc = "handler"
  /\ Settles(r)
  /\ req' = [req EXCEPT ![r].pc = "done", ![r].status = "error",
                        ![r].net = @ + Reconciled(r, 0)]
  /\ Leave(r, "done")
  /\ Settle(req[r].wallet, req[r].due, 0)

(* The handler responds with a stream, settled when its usage is known.    *)
RespondStream(r) ==
  /\ req[r].pc = "handler"
  /\ Settles(r)
  /\ req' = [req EXCEPT ![r].pc = AfterNext(r, "ok"), ![r].status = "ok",
                        ![r].deferred = TRUE]
  /\ Leave(r, AfterNext(r, "ok"))
  /\ UNCHANGED ledgerVars

(* The handler responds in full; its usage and its cost are awaited.       *)
Respond(r) ==
  /\ req[r].pc = "handler"
  /\ Settles(r)
  /\ req' = [req EXCEPT ![r].pc = "usage", ![r].status = "ok"]
  /\ UNCHANGED <<ledgerVars, cache>>

SettleUsage(r) ==
  /\ req[r].pc = "usage"
  /\ \E cost \in Price :
       /\ req' = [req EXCEPT ![r].pc = AfterNext(r, "ok"), ![r].actual = cost,
                             ![r].net = @ + Reconciled(r, cost)]
       /\ Settle(req[r].wallet, req[r].due, cost)
  /\ Leave(r, AfterNext(r, "ok"))

(* The usage or the calculator throws: the request ends in a 500 that the  *)
(* library does not settle, and the ledger is left as it is.               *)
UsageThrows(r) ==
  /\ req[r].pc = "usage"
  /\ req' = [req EXCEPT ![r].pc = "done"]
  /\ Leave(r, "done")
  /\ UNCHANGED ledgerVars

(* A stream has ended: settle at the calculator's cost, or, if it failed,  *)
(* at the estimate.  A client that goes away leaves it pending for ever.   *)
SettleStream(r) ==
  /\ req[r].deferred
  /\ \E cost \in Price \cup {req[r].due} :
       /\ req' = [req EXCEPT ![r].deferred = FALSE, ![r].actual = cost,
                             ![r].net = @ + Reconciled(r, cost)]
       /\ Settle(req[r].wallet, req[r].due, cost)
  /\ UNCHANGED cache

(* External: the library settles the payment on chain, or answers 402.     *)
SettleOnChain(r) ==
  /\ req[r].pc = "chain"
  /\ \E amount \in {0, req[r].price} :
       req' = [req EXCEPT ![r].pc = "done", ![r].charged = amount]
  /\ Leave(r, "done")
  /\ UNCHANGED ledgerVars

-----------------------------------------------------------------------------
(* Broken: the seed is written past the log.                               *)
SeedUnlogged(w) ==
  /\ txSum[w] + SeedAmount <= SeedLimit
  /\ balance[w] + SeedAmount <= SeedLimit
  /\ balance' = [balance EXCEPT ![w] = @ + SeedAmount]
  /\ UNCHANGED <<stale, txSum, forfeited, req, cache>>

(* POST /internal/credit/add of infer.sh, called when an invite is         *)
(* redeemed.                                                               *)
Seed(w) ==
  /\ txSum[w] + SeedAmount <= SeedLimit
  /\ AddCredit(w, SeedAmount)
  /\ UNCHANGED <<req, cache>>

(* A month without activity, and the daily sweep.                          *)
Housekeeping ==
  /\ ExpireInactive \/ \E w \in Wallet : GrowStale(w)
  /\ UNCHANGED <<req, cache>>

(* What the service does for a request by itself.                          *)
Step(r) ==
  \/ Reject(r) \/ Admit(r) \/ ReadPrice(r) \/ Verify(r)
  \/ RespondUnsettled(r) \/ RespondError(r) \/ RespondStream(r) \/ Respond(r)
  \/ SettleUsage(r) \/ UsageThrows(r) \/ SettleOnChain(r)

Next ==
  \/ \E r \in Request : Arrive(r) \/ Step(r) \/ SettleStream(r)
  \/ \E w \in Wallet : Seed(w)
  \/ Housekeeping

Spec == Init /\ [][Next]_vars

(* The runtime goes on with every call, and every external call returns or *)
(* times out.  Nothing makes a client arrive or read a stream to its end.  *)
FairSpec == Spec /\ \A r \in Request : WF_vars(Step(r))
-----------------------------------------------------------------------------
(* A cached price belongs to a request that is still being served: none    *)
(* outlives its request to be read as the price of a later one, whichever  *)
(* way the requests end (middleware.ts:475-505).                           *)
CachedPriceHasOwner ==
  \A k \in Key : cache[k] # NoEntry =>
    \E r \in Request : InFlight(r) /\ req[r].key = k /\ req[r].asked = cache[k]

(* Only a reconciliation after the response can put a wallet into debt:    *)
(* the credit checks of concurrent requests never overdraw the balance     *)
(* they share (middleware.ts:305-325).                                     *)
AdmissionMakesNoDebt ==
  [][\A w \in Wallet : balance'[w] < 0 /\ balance'[w] < balance[w] =>
       \E r \in Request : req[r].wallet = w /\ req'[r].actual # req[r].actual]_vars

(* A request that never reached its handler has lost at most the partial   *)
(* credit that lowered its price, never the whole price                    *)
(* (middleware.ts:313-325).                                                *)
UnservedLosesLessThanPrice ==
  \A r \in Request : req[r].pc = "done" /\ req[r].status = "none" =>
    \/ req[r].net = 0
    \/ req[r].via = "partial" /\ -req[r].due < req[r].net /\ req[r].net < 0

(* The request has ended, was reconciled, and paid: on credit, on chain,   *)
(* or half and half.                                                       *)
Billed(r) ==
  /\ req[r].pc = "done" /\ req[r].status = "ok" /\ req[r].actual # 0
  /\ req[r].via = "credit" \/ req[r].charged # 0

(* Whatever way a reconciled request paid and whatever other requests of   *)
(* the wallet did meanwhile, it cost the wallet exactly what the calculator *)
(* said when the estimate covered that, and never more, provided that what *)
(* it paid on chain was its own price (middleware.ts:290-400,              *)
(* credit.ts:126-135).                                                     *)
BilledAtActualCost ==
  \A r \in Request : Billed(r) /\ req[r].price \in {0, req[r].asked} =>
    LET spent == req[r].charged - req[r].net IN
    /\ spent <= req[r].actual
    /\ req[r].due >= req[r].actual => spent = req[r].actual

(* A request on credit whose handler failed cost nothing on a calculated   *)
(* route, whatever other requests did to the balance between the charge    *)
(* and the refund (middleware.ts:313-318, 358-366).                        *)
FailedOnCreditIsFree ==
  \A r \in Request :
    (req[r].pc = "done" /\ req[r].status = "error" /\ req[r].via = "credit"
       /\ Settles(r))
      => req[r].net = 0

(* What a request has moved in its wallet when it has ended, however it    *)
(* ended: unserved, failed or reconciled (middleware.ts:290-400).          *)
BilledFairly ==
  UnservedLosesLessThanPrice /\ BilledAtActualCost /\ FailedOnCreditIsFree

(* The payment library asks each request for the price the request itself  *)
(* came to (the comment at middleware.ts:73-77).                           *)
OwnPrice ==
  \A r \in Request : req[r].price # 0 => req[r].price = req[r].asked

(* Credit is what was overpaid: no request leaves its wallet with more     *)
(* credit than it paid for (credit.test.ts:63, middleware.test.ts).        *)
CreditIsBacked ==
  \A r \in Request : req[r].pc = "done" => req[r].net <= req[r].charged

(* Every request is answered: whatever the cache holds when its turn       *)
(* comes, and whatever fails, it ends (middleware.ts:438-508).             *)
EveryRequestAnswered ==
  \A r \in Request : req[r].pc = "gate" ~> req[r].pc = "done"
=============================================================================
