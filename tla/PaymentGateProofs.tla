------------------------- MODULE PaymentGateProofs -------------------------
(***************************************************************************)
(* The payment gate for every set of requests, keys, wallets and prices:   *)
(* its types, the cleanup of the price cache, that it drives the credit    *)
(* ledger only through the ledger's own operations (so every theorem about *)
(* the ledger holds of the gate), and that admission overdraws no balance. *)
(***************************************************************************)
EXTENDS PaymentGate, CreditLedgerProofs

(* What the types do not say of a request's record and the ledger's        *)
(* operations need: the estimate is an amount, only a request with a       *)
(* wallet gets as far as a settlement, and it is settled once.             *)
Settleable(rec) ==
  /\ rec.due \in Amount
  /\ rec.pc \in {"handler", "usage"} => rec.wallet \in Wallet
  /\ rec.pc \notin {"chain", "done"} => rec.actual = 0 /\ ~rec.deferred
  /\ rec.deferred => rec.wallet \in Wallet /\ rec.actual = 0

GateInv == TypeOK /\ \A r \in Request : Settleable(req[r])

-----------------------------------------------------------------------------
(* Prices, and the parts of a price that credit may cover, are amounts.    *)
LEMMA PricesAreAmounts ==
  /\ 0 \in Amount
  /\ \A p \in Price \cup {StaticPrice} :
       /\ p \in Nat \ {0}
       /\ p \in Amount
       /\ \A part \in Nat : part <= p => part \in Amount
<1>1. ASSUME NEW p \in Price \cup {StaticPrice}
      PROVE  p \in Nat \ {0} /\ 0..p \subseteq Amount
  BY GateAssumption DEF GateAssumption
<1>2. StaticPrice \in Nat /\ 0..StaticPrice \subseteq Amount
  BY <1>1
<1>3. QED
  BY <1>1, <1>2

LEMMA AmountsAreNaturals == Amount \subseteq Nat
BY LedgerAssumption DEF LedgerAssumption

(* Credit never covers more than there is of it, or than is asked.         *)
LEMMA CreditTakenBounds ==
  ASSUME NEW current \in Int, NEW cost \in Nat
  PROVE  /\ CreditTaken(current, cost) \in Nat
         /\ CreditTaken(current, cost) <= cost
         /\ CreditTaken(current, cost) = 0 \/ CreditTaken(current, cost) <= current
BY DEF CreditTaken

LEMMA SettleDeltaType ==
  ASSUME NEW current \in Int, NEW estimated \in Nat, NEW cost \in Nat
  PROVE  SettleDelta(current, estimated, cost) \in Int
<1>1. CASE estimated > cost
  BY <1>1 DEF SettleDelta
<1>2. CASE estimated < cost
  <2>1. cost - estimated \in Nat
    BY <1>2
  <2>2. -Deduction(current, cost - estimated) \in Int
    BY <2>1, DeductionType
  <2>3. QED
    BY <1>2, <2>2 DEF SettleDelta
<1>3. CASE estimated = cost
  BY <1>3 DEF SettleDelta
<1>4. QED
  BY <1>1, <1>2, <1>3

-----------------------------------------------------------------------------
(* What every step must do: move the ledger lawfully and keep the rest of  *)
(* the invariant.                                                          *)
Lawful ==
  /\ req' \in [Request -> Requests]
  /\ \A q \in Request : Settleable(req'[q])
  /\ cache' \in [Key -> Nat]
  /\ [LedgerNext]_ledgerVars

LEMMA RequestFields ==
  ASSUME GateInv, NEW r \in Request
  PROVE  /\ req[r] \in Requests
         /\ req[r].wallet \in Wallet \cup {NoWallet}
         /\ req[r].key \in Key
         /\ req[r].due \in Nat
         /\ req[r].net \in Int
         /\ Settleable(req[r])
BY DEF GateInv, TypeOK, Requests

(* A step that gives one request a lawful record is lawful if it is so for *)
(* the cache and the ledger.                                               *)
LEMMA RequestUpdate ==
  ASSUME GateInv, NEW r \in Request, NEW rec \in Requests, Settleable(rec),
         req' = [req EXCEPT ![r] = rec],
         cache' \in [Key -> Nat], [LedgerNext]_ledgerVars
  PROVE  Lawful
<1>1. req \in [Request -> Requests] /\ \A q \in Request : Settleable(req[q])
  BY DEF GateInv, TypeOK
<1>2. req' \in [Request -> Requests]
  BY <1>1
<1>3. ASSUME NEW q \in Request
      PROVE  Settleable(req'[q])
  <2>1. CASE q = r
    BY <1>1, <2>1
  <2>2. CASE q # r
    BY <1>1, <2>2
  <2>3. QED
    BY <2>1, <2>2
<1>4. QED
  BY <1>2, <1>3 DEF Lawful

(* Leaving changes the cache only by deleting entries.                     *)
LEMMA LeaveTypes ==
  ASSUME GateInv, NEW r \in Request, NEW place, Leave(r, place)
  PROVE  cache' \in [Key -> Nat]
BY DEF GateInv, TypeOK, Leave, NoEntry

(* The ledger's operations, as the gate calls them.                        *)
LEMMA LedgerStands == UNCHANGED ledgerVars => [LedgerNext]_ledgerVars
OBVIOUS

LEMMA SettleIsLawful ==
  ASSUME NEW w \in Wallet, NEW estimated \in Amount, NEW cost \in Amount,
         Settle(w, estimated, cost)
  PROVE  [LedgerNext]_ledgerVars
BY DEF LedgerNext

LEMMA ArriveLawful == ASSUME GateInv, NEW r \in Request, Arrive(r) PROVE Lawful
<1>1. PICK w \in Wallet \cup {NoWallet} :
        req' = [req EXCEPT ![r].pc = "gate", ![r].wallet = w]
  BY DEF Arrive
<1> DEFINE rec == [req[r] EXCEPT !.pc = "gate", !.wallet = w]
<1>2. req' = [req EXCEPT ![r] = rec]
  BY <1>1 DEF GateInv, TypeOK
<1>3. rec \in Requests
  BY <1>1, RequestFields DEF Requests, Places
<1>4. Settleable(rec)
  BY <1>1, RequestFields DEF Arrive, Settleable, Requests
<1>5. cache' \in [Key -> Nat]
  BY DEF Arrive, GateInv, TypeOK
<1>6. [LedgerNext]_ledgerVars
  BY LedgerStands DEF Arrive
<1> HIDE DEF rec
<1>7. QED
  BY <1>2, <1>3, <1>4, <1>5, <1>6, RequestUpdate

LEMMA RejectLawful == ASSUME GateInv, NEW r \in Request, Reject(r) PROVE Lawful
<1> DEFINE rec == [req[r] EXCEPT !.pc = "done"]
<1>2. req' = [req EXCEPT ![r] = rec]
  BY DEF Reject, GateInv, TypeOK
<1>3. rec \in Requests
  BY RequestFields DEF Requests, Places
<1>4. Settleable(rec)
  BY RequestFields DEF Reject, Settleable, Requests
<1>5. cache' \in [Key -> Nat]
  BY DEF Reject, GateInv, TypeOK
<1>6. [LedgerNext]_ledgerVars
  BY LedgerStands DEF Reject
<1> HIDE DEF rec
<1>7. QED
  BY <1>2, <1>3, <1>4, <1>5, <1>6, RequestUpdate

LEMMA ReadPriceLawful == ASSUME GateInv, NEW r \in Request, ReadPrice(r) PROVE Lawful
<1> DEFINE rec == [req[r] EXCEPT !.pc = IF cache[req[r].key] = NoEntry THEN "done" ELSE "verify", !.price = cache[req[r].key]]
<1>2. req' = [req EXCEPT ![r] = rec]
  BY DEF ReadPrice, GateInv, TypeOK
<1>8. cache[req[r].key] \in Nat
  BY RequestFields DEF GateInv, TypeOK
<1>3. rec \in Requests
  BY RequestFields, <1>8 DEF Requests, Places
<1>4. Settleable(rec)
  BY RequestFields, <1>8 DEF ReadPrice, Settleable, Requests
<1>5. cache' \in [Key -> Nat]
  BY LeaveTypes DEF ReadPrice
<1>6. [LedgerNext]_ledgerVars
  BY LedgerStands DEF ReadPrice
<1> HIDE DEF rec
<1>7. QED
  BY <1>2, <1>3, <1>4, <1>5, <1>6, RequestUpdate

LEMMA VerifyLawful == ASSUME GateInv, NEW r \in Request, Verify(r) PROVE Lawful
<1>1. PICK place \in {"handler", "done"} :
        /\ place = "handler" => req[r].wallet # NoWallet
        /\ req' = [req EXCEPT ![r].pc = place]
        /\ Leave(r, place)
  BY DEF Verify
<1> DEFINE rec == [req[r] EXCEPT !.pc = place]
<1>2. req' = [req EXCEPT ![r] = rec]
  BY <1>1 DEF GateInv, TypeOK
<1>3. rec \in Requests
  BY <1>1, RequestFields DEF Requests, Places
<1>4. Settleable(rec)
  BY <1>1, RequestFields DEF Verify, Settleable, Requests
<1>5. cache' \in [Key -> Nat]
  BY <1>1, LeaveTypes DEF Verify
<1>6. [LedgerNext]_ledgerVars
  BY LedgerStands DEF Verify
<1> HIDE DEF rec
<1>7. QED
  BY <1>2, <1>3, <1>4, <1>5, <1>6, RequestUpdate

LEMMA RespondUnsettledLawful == ASSUME GateInv, NEW r \in Request, RespondUnsettled(r) PROVE Lawful
<1>1. PICK status \in {"ok", "error", "402"} :
        /\ req' = [req EXCEPT ![r].pc = AfterNext(r, status), ![r].status = status]
        /\ Leave(r, AfterNext(r, status))
  BY DEF RespondUnsettled
<1> DEFINE rec == [req[r] EXCEPT !.pc = AfterNext(r, status),
                        !.status = status]
<1>2. req' = [req EXCEPT ![r] = rec]
  BY <1>1 DEF GateInv, TypeOK
<1>3. rec \in Requests
  BY <1>1, RequestFields DEF Requests, Places, AfterNext
<1>4. Settleable(rec)
  BY <1>1, RequestFields DEF RespondUnsettled, Settleable, Requests, AfterNext
<1>5. cache' \in [Key -> Nat]
  BY <1>1, LeaveTypes DEF RespondUnsettled
<1>6. [LedgerNext]_ledgerVars
  BY LedgerStands DEF RespondUnsettled
<1> HIDE DEF rec
<1>7. QED
  BY <1>2, <1>3, <1>4, <1>5, <1>6, RequestUpdate

LEMMA RespondErrorLawful == ASSUME GateInv, NEW r \in Request, RespondError(r) PROVE Lawful
<1> DEFINE rec == [req[r] EXCEPT !.pc = "done",
                        !.status = "error",
                        !.net = req[r].net + Reconciled(r, 0)]
<1>2. req' = [req EXCEPT ![r] = rec]
  BY DEF RespondError, GateInv, TypeOK
<1>8. req[r].wallet \in Wallet /\ req[r].due \in Amount /\ 0 \in Amount
  BY RequestFields, PricesAreAmounts DEF RespondError, Settleable
<1>9. Reconciled(r, 0) \in Int
  BY <1>8, RequestFields, SettleDeltaType DEF Reconciled, GateInv, TypeOK, LedgerTypeOK
<1>3. rec \in Requests
  BY RequestFields, <1>9 DEF Requests, Places
<1>4. Settleable(rec)
  BY RequestFields, <1>9 DEF RespondError, Settleable, Requests
<1>5. cache' \in [Key -> Nat]
  BY LeaveTypes DEF RespondError
<1>6. [LedgerNext]_ledgerVars
  BY <1>8, SettleIsLawful DEF RespondError
<1> HIDE DEF rec
<1>7. QED
  BY <1>2, <1>3, <1>4, <1>5, <1>6, RequestUpdate

LEMMA RespondStreamLawful == ASSUME GateInv, NEW r \in Request, RespondStream(r) PROVE Lawful
<1> DEFINE rec == [req[r] EXCEPT !.pc = AfterNext(r, "ok"),
                        !.status = "ok",
                        !.deferred = TRUE]
<1>2. req' = [req EXCEPT ![r] = rec]
  BY DEF RespondStream, GateInv, TypeOK
<1>3. rec \in Requests
  BY RequestFields DEF Requests, Places, AfterNext
<1>4. Settleable(rec)
  BY RequestFields DEF RespondStream, Settleable, Requests, AfterNext
<1>5. cache' \in [Key -> Nat]
  BY LeaveTypes DEF RespondStream
<1>6. [LedgerNext]_ledgerVars
  BY LedgerStands DEF RespondStream
<1> HIDE DEF rec
<1>7. QED
  BY <1>2, <1>3, <1>4, <1>5, <1>6, RequestUpdate

LEMMA RespondLawful == ASSUME GateInv, NEW r \in Request, Respond(r) PROVE Lawful
<1> DEFINE rec == [req[r] EXCEPT !.pc = "usage",
                        !.status = "ok"]
<1>2. req' = [req EXCEPT ![r] = rec]
  BY DEF Respond, GateInv, TypeOK
<1>3. rec \in Requests
  BY RequestFields DEF Requests, Places
<1>4. Settleable(rec)
  BY RequestFields DEF Respond, Settleable, Requests
<1>5. cache' \in [Key -> Nat]
  BY DEF Respond, GateInv, TypeOK
<1>6. [LedgerNext]_ledgerVars
  BY LedgerStands DEF Respond
<1> HIDE DEF rec
<1>7. QED
  BY <1>2, <1>3, <1>4, <1>5, <1>6, RequestUpdate

LEMMA SettleUsageLawful == ASSUME GateInv, NEW r \in Request, SettleUsage(r) PROVE Lawful
<1>1. PICK cost \in Price :
        /\ req' = [req EXCEPT ![r].pc = AfterNext(r, "ok"), ![r].actual = cost, ![r].net = @ + Reconciled(r, cost)]
        /\ Settle(req[r].wallet, req[r].due, cost)
  BY DEF SettleUsage
<1> DEFINE rec == [req[r] EXCEPT !.pc = AfterNext(r, "ok"),
                        !.actual = cost,
                        !.net = req[r].net + Reconciled(r, cost)]
<1>2. req' = [req EXCEPT ![r] = rec]
  BY <1>1 DEF GateInv, TypeOK
<1>8. req[r].wallet \in Wallet /\ req[r].due \in Amount
      /\ cost \in Amount /\ cost \in Nat
  BY RequestFields, PricesAreAmounts, AmountsAreNaturals DEF SettleUsage, Settleable
<1>9. Reconciled(r, cost) \in Int
  BY <1>8, RequestFields, SettleDeltaType DEF Reconciled, GateInv, TypeOK, LedgerTypeOK
<1>3. rec \in Requests
  BY <1>1, RequestFields, <1>8, <1>9 DEF Requests, Places, AfterNext
<1>4. Settleable(rec)
  BY <1>1, RequestFields, <1>8, <1>9 DEF SettleUsage, Settleable, Requests, AfterNext
<1>5. cache' \in [Key -> Nat]
  BY <1>1, LeaveTypes DEF SettleUsage
<1>6. [LedgerNext]_ledgerVars
  BY <1>1, <1>8, SettleIsLawful
<1> HIDE DEF rec
<1>7. QED
  BY <1>2, <1>3, <1>4, <1>5, <1>6, RequestUpdate

LEMMA UsageThrowsLawful == ASSUME GateInv, NEW r \in Request, UsageThrows(r) PROVE Lawful
<1> DEFINE rec == [req[r] EXCEPT !.pc = "done"]
<1>2. req' = [req EXCEPT ![r] = rec]
  BY DEF UsageThrows, GateInv, TypeOK
<1>3. rec \in Requests
  BY RequestFields DEF Requests, Places
<1>4. Settleable(rec)
  BY RequestFields DEF UsageThrows, Settleable, Requests
<1>5. cache' \in [Key -> Nat]
  BY LeaveTypes DEF UsageThrows
<1>6. [LedgerNext]_ledgerVars
  BY LedgerStands DEF UsageThrows
<1> HIDE DEF rec
<1>7. QED
  BY <1>2, <1>3, <1>4, <1>5, <1>6, RequestUpdate

LEMMA SettleStreamLawful == ASSUME GateInv, NEW r \in Request, SettleStream(r) PROVE Lawful
<1>1. PICK cost \in Price \cup {req[r].due} :
        /\ req' = [req EXCEPT ![r].deferred = FALSE, ![r].actual = cost, ![r].net = @ + Reconciled(r, cost)]
        /\ Settle(req[r].wallet, req[r].due, cost)
  BY DEF SettleStream
<1> DEFINE rec == [req[r] EXCEPT !.deferred = FALSE,
                        !.actual = cost,
                        !.net = req[r].net + Reconciled(r, cost)]
<1>2. req' = [req EXCEPT ![r] = rec]
  BY <1>1 DEF GateInv, TypeOK
<1>8. req[r].wallet \in Wallet /\ req[r].due \in Amount
      /\ cost \in Amount /\ cost \in Nat
  BY RequestFields, PricesAreAmounts, AmountsAreNaturals DEF SettleStream, Settleable
<1>9. Reconciled(r, cost) \in Int
  BY <1>8, RequestFields, SettleDeltaType DEF Reconciled, GateInv, TypeOK, LedgerTypeOK
<1>3. rec \in Requests
  BY <1>1, RequestFields, <1>8, <1>9 DEF Requests, Places
<1>4. Settleable(rec)
  BY <1>1, RequestFields, <1>8, <1>9 DEF SettleStream, Settleable, Requests
<1>5. cache' \in [Key -> Nat]
  BY DEF SettleStream, GateInv, TypeOK
<1>6. [LedgerNext]_ledgerVars
  BY <1>1, <1>8, SettleIsLawful
<1> HIDE DEF rec
<1>7. QED
  BY <1>2, <1>3, <1>4, <1>5, <1>6, RequestUpdate

LEMMA SettleOnChainLawful == ASSUME GateInv, NEW r \in Request, SettleOnChain(r) PROVE Lawful
<1>1. PICK amount \in {0, req[r].price} :
        req' = [req EXCEPT ![r].pc = "done", ![r].charged = amount]
  BY DEF SettleOnChain
<1> DEFINE rec == [req[r] EXCEPT !.pc = "done",
                        !.charged = amount]
<1>2. req' = [req EXCEPT ![r] = rec]
  BY <1>1 DEF GateInv, TypeOK
<1>3. rec \in Requests
  BY <1>1, RequestFields DEF Requests, Places
<1>4. Settleable(rec)
  BY <1>1, RequestFields DEF SettleOnChain, Settleable, Requests
<1>5. cache' \in [Key -> Nat]
  BY <1>1, LeaveTypes DEF SettleOnChain
<1>6. [LedgerNext]_ledgerVars
  BY LedgerStands DEF SettleOnChain
<1> HIDE DEF rec
<1>7. QED
  BY <1>2, <1>3, <1>4, <1>5, <1>6, RequestUpdate

LEMMA AskLawful ==
  ASSUME GateInv, NEW r \in Request, req[r].pc = "gate",
         NEW place \in {"payment", "handler"},
         NEW via \in {"x402", "credit", "partial"},
         NEW cost \in Amount, NEW credit \in Amount, NEW amount \in Nat,
         credit # 0 \/ place = "handler" => req[r].wallet \in Wallet,
         Ask(r, place, via, cost, credit, amount)
  PROVE  Lawful
<1> DEFINE rec == [req[r] EXCEPT !.pc = place, !.via = via, !.due = cost,
                                 !.asked = amount, !.net = -credit]
<1>1. cost \in Nat /\ credit \in Nat
  BY AmountsAreNaturals
<1>2. req' = [req EXCEPT ![r] = rec]
  BY DEF Ask, GateInv, TypeOK
<1>3. rec \in Requests
  BY <1>1, RequestFields DEF Requests, Places
<1>4. Settleable(rec)
  BY <1>1, RequestFields DEF Settleable, Requests
<1>5. cache' \in [Key -> Nat]
  BY RequestFields DEF Ask, GateInv, TypeOK
<1>6. [LedgerNext]_ledgerVars
  <2>1. CASE credit = 0
    BY <2>1, LedgerStands DEF Ask
  <2>2. CASE credit # 0
    <3>1. req[r].wallet \in Wallet /\ DeductCredit(req[r].wallet, credit)
      BY <2>2 DEF Ask
    <3>2. QED
      BY <3>1 DEF LedgerNext
  <2>3. QED
    BY <2>1, <2>2
<1> HIDE DEF rec
<1>7. QED
  BY <1>2, <1>3, <1>4, <1>5, <1>6, RequestUpdate

(* The three ways of Admit, with what is known of the credit taken.        *)
LEMMA AdmitWays ==
  ASSUME GateInv, NEW r \in Request, Admit(r)
  PROVE  \E cost \in Amount, taken \in Amount :
           /\ cost \in Nat \ {0} /\ taken \in Nat /\ taken <= cost
           /\ taken # 0 => /\ req[r].wallet \in Wallet
                           /\ taken <= balance[req[r].wallet]
           /\ \/ taken = 0 /\ Ask(r, "payment", "x402", cost, 0, cost)
              \/ taken = cost /\ Ask(r, "handler", "credit", cost, cost, cost)
              \/ /\ taken \notin {0, cost}
                 /\ Ask(r, "payment", "partial", cost, taken, cost - taken)
<1> DEFINE Taken(cost) == IF req[r].wallet = NoWallet THEN 0
                          ELSE CreditTaken(balance[req[r].wallet], cost)
<1>1. PICK cost \in Price \cup {StaticPrice} :
        \/ Taken(cost) = 0 /\ Ask(r, "payment", "x402", cost, 0, cost)
        \/ Taken(cost) = cost /\ Ask(r, "handler", "credit", cost, cost, cost)
        \/ /\ Taken(cost) \notin {0, cost}
           /\ Ask(r, "payment", "partial", cost, Taken(cost), cost - Taken(cost))
  BY DEF Admit
<1>2. cost \in Nat \ {0} /\ cost \in Amount
  BY PricesAreAmounts
<1>3. /\ Taken(cost) \in Nat /\ Taken(cost) <= cost
      /\ Taken(cost) # 0 => /\ req[r].wallet \in Wallet
                            /\ Taken(cost) <= balance[req[r].wallet]
  <2>1. CASE req[r].wallet = NoWallet
    BY <1>2, <2>1
  <2>2. CASE req[r].wallet # NoWallet
    <3>1. req[r].wallet \in Wallet
      BY <2>2, RequestFields
    <3>2. balance[req[r].wallet] \in Int
      BY <3>1 DEF GateInv, TypeOK, LedgerTypeOK
    <3>3. QED
      BY <1>2, <2>2, <3>1, <3>2, CreditTakenBounds
  <2>3. QED
    BY <2>1, <2>2
<1>4. Taken(cost) \in Amount
  BY <1>3, PricesAreAmounts
<1> HIDE DEF Taken
<1>5. QED
  BY <1>1, <1>2, <1>3, <1>4

LEMMA AdmitLawful == ASSUME GateInv, NEW r \in Request, Admit(r) PROVE Lawful
<1>1. req[r].pc = "gate" /\ 0 \in Amount
  BY PricesAreAmounts DEF Admit
<1>2. PICK cost \in Amount, taken \in Amount :
        /\ cost \in Nat \ {0} /\ taken \in Nat /\ taken <= cost
        /\ taken # 0 => /\ req[r].wallet \in Wallet
                        /\ taken <= balance[req[r].wallet]
        /\ \/ taken = 0 /\ Ask(r, "payment", "x402", cost, 0, cost)
           \/ taken = cost /\ Ask(r, "handler", "credit", cost, cost, cost)
           \/ /\ taken \notin {0, cost}
              /\ Ask(r, "payment", "partial", cost, taken, cost - taken)
  BY AdmitWays
<1>3. CASE Ask(r, "payment", "x402", cost, 0, cost)
  BY <1>1, <1>2, <1>3, AskLawful
<1>4. CASE taken = cost /\ Ask(r, "handler", "credit", cost, cost, cost)
  BY <1>1, <1>2, <1>4, AskLawful
<1>5. CASE Ask(r, "payment", "partial", cost, taken, cost - taken)
  <2>1. cost - taken \in Nat
    BY <1>2
  <2>2. QED
    BY <1>1, <1>2, <1>5, <2>1, AskLawful
<1>6. QED
  BY <1>2, <1>3, <1>4, <1>5

LEMMA GateStepLawful == GateInv /\ [Next]_vars => Lawful
<1> SUFFICES ASSUME GateInv, [Next]_vars PROVE Lawful
  OBVIOUS
<1>1. ASSUME NEW r \in Request, Arrive(r) \/ Step(r) \/ SettleStream(r)
      PROVE  Lawful
  BY <1>1, ArriveLawful, RejectLawful, AdmitLawful, ReadPriceLawful,
     VerifyLawful, RespondUnsettledLawful, RespondErrorLawful,
     RespondStreamLawful, RespondLawful, SettleUsageLawful, UsageThrowsLawful,
     SettleStreamLawful, SettleOnChainLawful DEF Step
<1>2. UNCHANGED <<req, cache>> /\ [LedgerNext]_ledgerVars => Lawful
  BY DEF Lawful, GateInv, TypeOK
<1>3. ASSUME NEW w \in Wallet, Seed(w)
      PROVE  Lawful
  <2>1. SeedAmount \in Amount
    BY GateAssumption DEF GateAssumption
  <2>2. LedgerNext
    BY <1>3, <2>1 DEF Seed, LedgerNext
  <2>3. QED
    BY <1>2, <1>3, <2>2 DEF Seed
<1>4. CASE Housekeeping
  BY <1>2, <1>4 DEF Housekeeping, LedgerNext
<1>5. CASE UNCHANGED vars
  BY <1>2, <1>5, LedgerStands DEF vars
<1>6. QED
  BY <1>1, <1>3, <1>4, <1>5 DEF Next

LEMMA GateInvStep == GateInv /\ [Next]_vars => GateInv'
BY GateStepLawful, LedgerTypes DEF Lawful, GateInv, TypeOK

LEMMA GateInvInit == Init => GateInv
<1> SUFFICES ASSUME Init PROVE GateInv
  OBVIOUS
<1>1. LedgerTypeOK
  BY DEF Init, LedgerInit, LedgerTypeOK
<1>2. cache \in [Key -> Nat]
  BY DEF Init, NoEntry
<1>3. PICK keys \in [Request -> Key] :
        req = [r \in Request |-> NewRequest(keys[r])]
  BY DEF Init
<1>4. ASSUME NEW r \in Request
      PROVE  req[r] \in Requests /\ Settleable(req[r])
  <2>1. req[r] = NewRequest(keys[r]) /\ keys[r] \in Key
    BY <1>3
  <2>2. NewRequest(keys[r]) \in Requests
    BY <2>1 DEF NewRequest, Requests, Places
  <2>3. Settleable(NewRequest(keys[r]))
    BY PricesAreAmounts DEF NewRequest, Settleable
  <2>4. QED
    BY <2>1, <2>2, <2>3
<1>5. req \in [Request -> Requests]
  BY <1>3, <1>4
<1>6. QED
  BY <1>1, <1>2, <1>4, <1>5 DEF GateInv, TypeOK

LEMMA GateInvariant == Spec => []GateInv
BY GateInvInit, GateInvStep, PTL DEF Spec

(* Every reachable gate has its types (middleware.ts:73-94, 438-447).      *)
THEOREM GateTypeCorrect == Spec => []TypeOK
<1>1. GateInv => TypeOK
  BY DEF GateInv
<1>2. QED
  BY <1>1, GateInvariant, PTL

-----------------------------------------------------------------------------
(* The gate implements the ledger's specification: whatever its requests   *)
(* do at the same time, the ledger sees its own operations, with amounts   *)
(* it was made for (middleware.ts:290-400).                                *)
THEOREM GateImplementsLedger == Spec => LedgerSpec
<1>1. Init => LedgerInit
  BY DEF Init
<1>2. GateInv /\ [Next]_vars => [LedgerNext]_ledgerVars
  BY GateStepLawful DEF Lawful
<1>3. QED
  BY <1>1, <1>2, GateInvariant, PTL DEF Spec, LedgerSpec

(* So no interleaving of requests takes a wallet below the debt cap        *)
(* (credit.ts:109-114).                                                    *)
THEOREM GateKeepsFloor == Spec => []BalanceFloor
BY GateImplementsLedger, FloorHolds, PTL

-----------------------------------------------------------------------------
(* A request that keeps its key and its price takes no owner from an entry *)
(* it leaves in the cache.                                                 *)
LEMMA OwnerKept ==
  ASSUME GateInv, CachedPriceHasOwner, NEW r \in Request,
         \A q \in Request : q # r => req'[q] = req[q],
         req'[r].key = req[r].key, req'[r].asked = req[r].asked,
         InFlight(r) => InFlight(r)' \/ cache'[req[r].key] = NoEntry,
         \A k \in Key : cache'[k] # NoEntry => cache'[k] = cache[k]
  PROVE  CachedPriceHasOwner'
<1> SUFFICES ASSUME NEW k \in Key, cache'[k] # NoEntry
             PROVE  \E q \in Request :
                      InFlight(q)' /\ req'[q].key = k /\ req'[q].asked = cache'[k]
  BY DEF CachedPriceHasOwner
<1>1. PICK q \in Request :
        InFlight(q) /\ req[q].key = k /\ req[q].asked = cache'[k]
  BY DEF CachedPriceHasOwner
<1>2. CASE q = r
  BY <1>1, <1>2
<1>3. CASE q # r
  <2>1. req'[q] = req[q]
    BY <1>3
  <2>2. InFlight(q)'
    BY <1>1, <2>1 DEF InFlight
  <2>3. QED
    BY <1>1, <2>1, <2>2
<1>4. QED
  BY <1>2, <1>3

(* Every step of a request but Admit is of that kind.                      *)
LEMMA StepKeepsOwner ==
  ASSUME GateInv, CachedPriceHasOwner, NEW r \in Request,
         \/ Arrive(r) \/ Reject(r) \/ ReadPrice(r) \/ Verify(r)
         \/ RespondUnsettled(r) \/ RespondError(r) \/ RespondStream(r)
         \/ Respond(r) \/ SettleUsage(r) \/ UsageThrows(r) \/ SettleOnChain(r)
         \/ SettleStream(r)
  PROVE  CachedPriceHasOwner'
<1> USE DEF GateInv, TypeOK
<1>1. req[r] \in Requests /\ req[r].key \in Key
  BY RequestFields
<1>2. \A q \in Request : q # r => req'[q] = req[q]
  BY DEF Arrive, Reject, ReadPrice, Verify, RespondUnsettled, RespondError,
         RespondStream, Respond, SettleUsage, UsageThrows, SettleOnChain,
         SettleStream
<1>3. req'[r].key = req[r].key /\ req'[r].asked = req[r].asked
  <2>1. CASE Arrive(r) \/ Reject(r) \/ ReadPrice(r) \/ Verify(r)
    BY <1>1, <2>1 DEF Arrive, Reject, ReadPrice, Verify, Requests
  <2>2. CASE RespondUnsettled(r) \/ RespondError(r) \/ RespondStream(r)
    BY <1>1, <2>2 DEF RespondUnsettled, RespondError, RespondStream, Requests
  <2>3. CASE Respond(r) \/ UsageThrows(r)
    BY <1>1, <2>3 DEF Respond, UsageThrows, Requests
  <2>4. CASE SettleOnChain(r)
    BY <1>1, <2>4 DEF SettleOnChain, Requests
  <2>5. CASE SettleUsage(r)
    <3>1. PICK cost \in Price :
            req' = [req EXCEPT ![r].pc = AfterNext(r, "ok"), ![r].actual = cost,
                               ![r].net = @ + Reconciled(r, cost)]
      BY <2>5 DEF SettleUsage
    <3>2. QED
      BY <1>1, <3>1 DEF Requests
  <2>6. CASE SettleStream(r)
    <3>1. PICK cost \in Price \cup {req[r].due} :
            req' = [req EXCEPT ![r].deferred = FALSE, ![r].actual = cost,
                               ![r].net = @ + Reconciled(r, cost)]
      BY <2>6 DEF SettleStream
    <3>2. QED
      BY <1>1, <3>1 DEF Requests
  <2>7. QED
    BY <2>1, <2>2, <2>3, <2>4, <2>5, <2>6
<1>4. \A k \in Key : cache'[k] # NoEntry => cache'[k] = cache[k]
  BY DEF Arrive, Reject, ReadPrice, Verify, RespondUnsettled, RespondError,
         RespondStream, Respond, SettleUsage, UsageThrows, SettleOnChain,
         SettleStream, Leave
<1>5. InFlight(r) => InFlight(r)' \/ cache'[req[r].key] = NoEntry
  <2>1. ASSUME NEW place, Leave(r, place), req'[r].pc = place,
               place \in Places, place \notin {"idle", "gate"}
        PROVE  InFlight(r)' \/ cache'[req[r].key] = NoEntry
    BY <1>1, <2>1 DEF Leave, InFlight, Places
  <2>2. CASE Arrive(r) \/ Reject(r)
    BY <2>2 DEF Arrive, Reject, InFlight
  <2>3. CASE ReadPrice(r)
    BY <1>1, <2>1, <2>3 DEF ReadPrice, Requests, Places
  <2>4. CASE Verify(r)
    BY <1>1, <2>1, <2>4 DEF Verify, Requests, Places
  <2>5. CASE RespondUnsettled(r)
    BY <1>1, <2>1, <2>5 DEF RespondUnsettled, AfterNext, Requests, Places
  <2>6. CASE RespondError(r)
    BY <1>1, <2>1, <2>6 DEF RespondError, Requests, Places
  <2>7. CASE RespondStream(r)
    BY <1>1, <2>1, <2>7 DEF RespondStream, AfterNext, Requests, Places
  <2>8. CASE Respond(r)
    BY <1>1, <2>8 DEF Respond, InFlight, Requests
  <2>9. CASE SettleUsage(r)
    <3>1. PICK cost \in Price :
            req' = [req EXCEPT ![r].pc = AfterNext(r, "ok"), ![r].actual = cost,
                               ![r].net = @ + Reconciled(r, cost)]
      BY <2>9 DEF SettleUsage
    <3>2. req'[r].pc = AfterNext(r, "ok")
      BY <1>1, <3>1 DEF Requests
    <3>3. AfterNext(r, "ok") \in {"chain", "done"} /\ Leave(r, AfterNext(r, "ok"))
      BY <2>9 DEF SettleUsage, AfterNext
    <3>4. QED
      BY <2>1, <3>2, <3>3 DEF Places
  <2>10. CASE UsageThrows(r)
    BY <1>1, <2>1, <2>10 DEF UsageThrows, Requests, Places
  <2>11. CASE SettleOnChain(r)
    BY <1>1, <2>1, <2>11 DEF SettleOnChain, Requests, Places
  <2>12. CASE SettleStream(r)
    <3>1. PICK cost \in Price \cup {req[r].due} :
            req' = [req EXCEPT ![r].deferred = FALSE, ![r].actual = cost,
                               ![r].net = @ + Reconciled(r, cost)]
      BY <2>12 DEF SettleStream
    <3>2. req'[r].pc = req[r].pc
      BY <1>1, <3>1 DEF Requests
    <3>3. QED
      BY <3>2 DEF InFlight
  <2>13. QED
    BY <2>2, <2>3, <2>4, <2>5, <2>6, <2>7, <2>8, <2>9, <2>10, <2>11, <2>12
<1>6. QED
  BY <1>2, <1>3, <1>4, <1>5, OwnerKept

(* Asking makes the request the owner of its key's entry.                  *)
LEMMA AskOwns ==
  ASSUME GateInv, CachedPriceHasOwner, NEW r \in Request, req[r].pc = "gate",
         NEW place \in {"payment", "handler"}, NEW via, NEW cost, NEW credit,
         NEW amount, Ask(r, place, via, cost, credit, amount)
  PROVE  CachedPriceHasOwner'
<1> SUFFICES ASSUME NEW k \in Key, cache'[k] # NoEntry
             PROVE  \E q \in Request :
                      InFlight(q)' /\ req'[q].key = k /\ req'[q].asked = cache'[k]
  BY DEF CachedPriceHasOwner
<1>1. req[r] \in Requests /\ req[r].key \in Key
  BY RequestFields
<1>2. CASE k = req[r].key
  <2>1. /\ req'[r].pc = place /\ req'[r].key = k /\ req'[r].asked = amount
        /\ cache'[k] = amount
    BY <1>1, <1>2 DEF Ask, GateInv, TypeOK, Requests
  <2>2. QED
    BY <2>1 DEF InFlight
<1>3. CASE k # req[r].key
  <2>1. cache'[k] = cache[k]
    BY <1>3 DEF Ask, GateInv, TypeOK
  <2>2. PICK q \in Request :
          InFlight(q) /\ req[q].key = k /\ req[q].asked = cache'[k]
    BY <2>1 DEF CachedPriceHasOwner
  <2>3. req'[q] = req[q]
    BY <1>3, <2>2 DEF Ask, GateInv, TypeOK
  <2>4. QED
    BY <2>2, <2>3 DEF InFlight
<1>4. QED
  BY <1>2, <1>3

(* No cached price outlives the requests for its key                       *)
(* (middleware.ts:475-505).                                                *)
THEOREM CacheIsOwned == Spec => []CachedPriceHasOwner
<1>1. Init => CachedPriceHasOwner
  BY DEF Init, CachedPriceHasOwner
<1>2. ASSUME GateInv, CachedPriceHasOwner, [Next]_vars
      PROVE  CachedPriceHasOwner'
  <2>1. ASSUME NEW r \in Request, Admit(r)
        PROVE  CachedPriceHasOwner'
    <3>1. req[r].pc = "gate"
      BY <2>1 DEF Admit
    <3>2. QED
      BY <1>2, <2>1, <3>1, AdmitWays, AskOwns
  <2>2. ASSUME NEW r \in Request, Arrive(r) \/ Step(r) \/ SettleStream(r)
        PROVE  CachedPriceHasOwner'
    BY <1>2, <2>1, <2>2, StepKeepsOwner DEF Step
  <2>3. CASE UNCHANGED <<req, cache>>
    BY <1>2, <2>3 DEF CachedPriceHasOwner, InFlight
  <2>4. QED
    BY <1>2, <2>2, <2>3 DEF Next, Seed, Housekeeping, vars
<1>3. QED
  BY <1>1, <1>2, GateInvariant, PTL DEF Spec

-----------------------------------------------------------------------------
(* The steps of the ledger that cannot put anybody into debt.              *)
LEMMA DebtlessSteps ==
  ASSUME LedgerTypeOK, NEW w \in Wallet, balance'[w] < 0, balance'[w] < balance[w]
  PROVE  /\ ~ UNCHANGED ledgerVars
         /\ \A v \in Wallet : ~ GrowStale(v)
         /\ ~ ExpireInactive
         /\ \A v \in Wallet, amount \in Nat :
              /\ ~ AddCredit(v, amount)
              /\ v # w => ~ DeductCredit(v, amount)
              /\ amount <= balance[v] => ~ DeductCredit(v, amount)
<1>1. balance[w] \in Int /\ balance'[w] # balance[w]
  BY DEF LedgerTypeOK
<1>2. ~ UNCHANGED ledgerVars /\ \A v \in Wallet : ~ GrowStale(v)
  BY <1>1 DEF ledgerVars, GrowStale
<1>3. ~ ExpireInactive
  BY <1>1 DEF ExpireInactive
<1>4. ASSUME NEW v \in Wallet, NEW delta \in Int, Post(v, delta)
      PROVE  v = w /\ delta < 0 /\ balance[w] + delta < 0
  BY <1>1, <1>4 DEF Post, LedgerTypeOK
<1>5. ASSUME NEW v \in Wallet, NEW amount \in Nat, AddCredit(v, amount)
      PROVE  FALSE
  <2>1. amount \in Int /\ ~(amount < 0)
    OBVIOUS
  <2>2. QED
    BY <1>4, <1>5, <2>1 DEF AddCredit
<1>6. ASSUME NEW v \in Wallet, NEW amount \in Nat, DeductCredit(v, amount)
      PROVE  v = w /\ ~(amount <= balance[v])
  <2>1. balance[v] \in Int
    BY DEF LedgerTypeOK
  <2>2. -Deduction(balance[v], amount) \in Int
    BY <2>1, DeductionType
  <2>3. v = w /\ balance[v] + (-Deduction(balance[v], amount)) < 0
    BY <1>4, <1>6, <2>2 DEF DeductCredit
  <2>4. amount <= balance[v] => Deduction(balance[v], amount) = amount
    BY <2>1, LedgerAssumption DEF LedgerAssumption, Deduction
  <2>5. QED
    BY <2>1, <2>3, <2>4
<1>7. QED
  BY <1>2, <1>3, <1>5, <1>6

(* Settling puts only the request's wallet into debt, and only by a cost   *)
(* above the estimate.                                                     *)
LEMMA SettlingDebt ==
  ASSUME LedgerTypeOK, NEW w \in Wallet, balance'[w] < 0, balance'[w] < balance[w],
         NEW v \in Wallet, NEW estimated \in Nat, NEW cost \in Nat,
         Settle(v, estimated, cost)
  PROVE  v = w /\ estimated < cost
<1>1. CASE estimated = cost
  BY <1>1, DebtlessSteps DEF Settle
<1>2. CASE estimated > cost
  <2>1. estimated - cost \in Nat /\ AddCredit(v, estimated - cost)
    BY <1>2 DEF Settle
  <2>2. QED
    BY <2>1, DebtlessSteps
<1>3. CASE estimated < cost
  <2>1. cost - estimated \in Nat /\ DeductCredit(v, cost - estimated)
    BY <1>3 DEF Settle
  <2>2. QED
    BY <1>3, <2>1, DebtlessSteps
<1>4. QED
  BY <1>1, <1>2, <1>3

(* Credit checks never overdraw: a wallet gets into debt only when a       *)
(* request of its own is reconciled at its cost (middleware.ts:305-325).   *)
THEOREM AdmissionHolds == Spec => AdmissionMakesNoDebt
<1> DEFINE Debt(w) == balance'[w] < 0 /\ balance'[w] < balance[w]
           Reconciles(w) == \E r \in Request :
             req[r].wallet = w /\ req'[r].actual # req[r].actual
<1>1. ASSUME GateInv, [Next]_vars, NEW w \in Wallet, Debt(w)
      PROVE  Reconciles(w)
  <2>1. LedgerTypeOK /\ ~ UNCHANGED ledgerVars
    BY <1>1, DebtlessSteps DEF GateInv, TypeOK
  <2>2. ASSUME NEW r \in Request, Admit(r)
        PROVE  FALSE
    <3>1. PICK taken \in Nat, cost \in Nat :
            /\ cost # 0
            /\ taken # 0 => req[r].wallet \in Wallet /\ taken <= balance[req[r].wallet]
            /\ \/ taken = 0 /\ Ask(r, "payment", "x402", cost, 0, cost)
               \/ taken = cost /\ Ask(r, "handler", "credit", cost, cost, cost)
               \/ /\ taken \notin {0, cost}
                  /\ Ask(r, "payment", "partial", cost, taken, cost - taken)
      BY <1>1, <2>2, AdmitWays
    <3>2. taken # 0
      BY <2>1, <3>1 DEF Ask
    <3>3. DeductCredit(req[r].wallet, taken)
      BY <3>1, <3>2 DEF Ask
    <3>4. QED
      BY <1>1, <2>1, <3>1, <3>2, <3>3, DebtlessSteps
  <2>3. ASSUME NEW r \in Request, RespondError(r)
        PROVE  FALSE
    <3>1. req[r].wallet \in Wallet /\ req[r].due \in Nat
      BY <1>1, <2>3, RequestFields DEF RespondError, Settleable
    <3>2. ~(req[r].due < 0)
      BY <3>1
    <3>3. QED
      BY <1>1, <2>1, <2>3, <3>1, <3>2, SettlingDebt DEF RespondError
  <2>4. ASSUME NEW r \in Request, SettleUsage(r)
        PROVE  Reconciles(w)
    <3>1. PICK cost \in Price :
            /\ req' = [req EXCEPT ![r].pc = AfterNext(r, "ok"), ![r].actual = cost,
                                  ![r].net = @ + Reconciled(r, cost)]
            /\ Settle(req[r].wallet, req[r].due, cost)
      BY <2>4 DEF SettleUsage
    <3>2. /\ req[r].wallet \in Wallet /\ req[r].due \in Nat
          /\ req[r].actual = 0 /\ cost \in Nat \ {0}
      BY <1>1, <2>4, RequestFields, PricesAreAmounts DEF SettleUsage, Settleable
    <3>3. req[r].wallet = w
      BY <1>1, <2>1, <3>1, <3>2, SettlingDebt
    <3>4. req'[r].actual = cost
      BY <1>1, <3>1, RequestFields DEF GateInv, TypeOK, Requests
    <3>5. QED
      BY <3>2, <3>3, <3>4
  <2>5. ASSUME NEW r \in Request, SettleStream(r)
        PROVE  Reconciles(w)
    <3>1. PICK cost \in Price \cup {req[r].due} :
            /\ req' = [req EXCEPT ![r].deferred = FALSE, ![r].actual = cost,
                                  ![r].net = @ + Reconciled(r, cost)]
            /\ Settle(req[r].wallet, req[r].due, cost)
      BY <2>5 DEF SettleStream
    <3>2. /\ req[r].wallet \in Wallet /\ req[r].due \in Nat
          /\ req[r].actual = 0 /\ cost \in Nat
      BY <1>1, <2>5, RequestFields, PricesAreAmounts DEF SettleStream, Settleable
    <3>3. req[r].wallet = w /\ req[r].due < cost
      BY <1>1, <2>1, <3>1, <3>2, SettlingDebt
    <3>4. req'[r].actual = cost /\ cost # 0
      <4>1. cost # 0
        BY <3>2, <3>3
      <4>2. QED
        BY <1>1, <3>1, <4>1, RequestFields DEF GateInv, TypeOK, Requests
    <3>5. QED
      BY <3>2, <3>3, <3>4
  <2>6. ASSUME NEW v \in Wallet, Seed(v)
        PROVE  FALSE
    <3>1. SeedAmount \in Nat
      BY GateAssumption, AmountsAreNaturals DEF GateAssumption
    <3>2. QED
      BY <1>1, <2>1, <2>6, <3>1, DebtlessSteps DEF Seed
  <2>7. ~ Housekeeping
    BY <1>1, <2>1, DebtlessSteps DEF Housekeeping
  <2>8. QED
    BY <1>1, <2>1, <2>2, <2>3, <2>4, <2>5, <2>6, <2>7
       DEF Next, Step, vars, Arrive, Reject, ReadPrice, Verify,
           RespondUnsettled, RespondStream, Respond, UsageThrows, SettleOnChain
<1>2. GateInv /\ [Next]_vars => [\A w \in Wallet : Debt(w) => Reconciles(w)]_vars
  BY <1>1
<1>3. QED
  BY <1>2, GateInvariant, PTL DEF Spec, AdmissionMakesNoDebt

-----------------------------------------------------------------------------
(* What the admission took from the wallet: all of the estimate on credit, *)
(* and otherwise what was not asked for on chain.                          *)
AdmissionDelta(rec) == IF rec.via = "credit" THEN -rec.due ELSE rec.asked - rec.due

(* Settles of a record.                                                    *)
SettlesOn(rec) ==
  /\ rec.key \in Calculated
  /\ rec.key \in Metered \/ rec.via = "credit"

(* A request that has not come to its price, or was rejected before.       *)
Unpriced(rec) ==
  /\ rec.pc \in {"idle", "gate", "done"}
  /\ rec.status = "none" /\ rec.via = "x402"
  /\ rec.due = 0 /\ rec.asked = 0 /\ rec.net = 0 /\ rec.charged = 0
  /\ rec.actual = 0 /\ ~rec.deferred

(* What a request with a price has moved in the ledger so far: what the    *)
(* admission took, and what the reconciliation, if there was one, gave     *)
(* back or took again.                                                     *)
PricedFairly(rec) ==
  /\ rec.pc \notin {"idle", "gate"}
  /\ 0 < rec.asked /\ rec.asked <= rec.due
  /\ rec.asked = rec.due <=> rec.via # "partial"
  /\ rec.status = "none" =>
       /\ rec.pc \in {"payment", "verify", "handler", "done"}
       /\ rec.via = "credit" => rec.pc = "handler"
       /\ rec.actual = 0 /\ rec.net = AdmissionDelta(rec)
  /\ rec.status # "none" => rec.pc \in {"usage", "chain", "done"}
  /\ rec.status # "none" /\ rec.actual = 0 =>
       rec.net = AdmissionDelta(rec)
                 + (IF rec.status = "error" /\ SettlesOn(rec) THEN rec.due ELSE 0)
  /\ rec.actual # 0 =>
       /\ rec.status = "ok"
       /\ rec.due >= rec.actual =>
            rec.net = AdmissionDelta(rec) + (rec.due - rec.actual)
       /\ rec.due < rec.actual =>
            /\ rec.net <= AdmissionDelta(rec)
            /\ AdmissionDelta(rec) <= rec.net + (rec.actual - rec.due)
  /\ rec.pc = "usage" => rec.status = "ok"
  /\ rec.deferred => rec.status = "ok"
  /\ rec.charged # 0 => rec.charged = rec.price /\ rec.via # "credit" /\ rec.pc = "done"
  /\ rec.pc = "chain" => rec.via # "credit"

Fair(rec) == Unpriced(rec) \/ PricedFairly(rec)

FairInv == GateInv /\ \A r \in Request : Fair(req[r])

FairAfter == \A q \in Request : Fair(req'[q])

(* A step that changes one request's record keeps the others' accounts.    *)
LEMMA FairUpdate ==
  ASSUME FairInv, NEW r \in Request, NEW rec, Fair(rec),
         req' = [req EXCEPT ![r] = rec]
  PROVE  FairAfter
<1>1. req \in [Request -> Requests] /\ \A q \in Request : Fair(req[q])
  BY DEF FairInv, GateInv, TypeOK
<1>2. ASSUME NEW q \in Request PROVE Fair(req'[q])
  <2>1. CASE q = r
    BY <1>1, <2>1
  <2>2. CASE q # r
    BY <1>1, <2>2
  <2>3. QED
    BY <2>1, <2>2
<1>3. QED
  BY <1>2 DEF FairAfter

(* The reconciliation moves the ledger by the estimate less the cost, or,  *)
(* where that is below zero, by something between it and nothing.          *)
LEMMA SettleDeltaBounds ==
  ASSUME NEW current \in Int, NEW estimated \in Nat, NEW cost \in Nat
  PROVE  /\ SettleDelta(current, estimated, cost) \in Int
         /\ estimated >= cost =>
              SettleDelta(current, estimated, cost) = estimated - cost
         /\ estimated < cost =>
              /\ SettleDelta(current, estimated, cost) <= 0
              /\ 0 <= SettleDelta(current, estimated, cost) + (cost - estimated)
<1>1. NegativeCap \in Nat
  BY LedgerAssumption DEF LedgerAssumption
<1>2. QED
  BY <1>1 DEF SettleDelta, Deduction

LEMMA ReconciledBounds ==
  ASSUME FairInv, NEW r \in Request, req[r].wallet \in Wallet, NEW cost \in Nat
  PROVE  /\ Reconciled(r, cost) \in Int
         /\ req[r].due >= cost => Reconciled(r, cost) = req[r].due - cost
         /\ req[r].due < cost =>
              /\ Reconciled(r, cost) <= 0
              /\ 0 <= Reconciled(r, cost) + (cost - req[r].due)
<1>1. balance[req[r].wallet] \in Int /\ req[r].due \in Nat
  BY RequestFields DEF FairInv, GateInv, TypeOK, LedgerTypeOK
<1>2. QED
  BY <1>1, SettleDeltaBounds DEF Reconciled

LEMMA FairFields ==
  ASSUME FairInv, NEW r \in Request
  PROVE  /\ req[r] \in Requests
         /\ Settleable(req[r])
         /\ Fair(req[r])
         /\ Settles(r) <=> SettlesOn(req[r])
         /\ cache[req[r].key] \in Nat
BY RequestFields DEF FairInv, GateInv, TypeOK, Settles, SettlesOn

LEMMA AskFair ==
  ASSUME FairInv, NEW r \in Request, req[r].pc = "gate",
         NEW place \in {"payment", "handler"},
         NEW via \in {"x402", "credit", "partial"},
         NEW cost \in Nat \ {0}, NEW credit \in Nat, NEW amount \in Nat,
         \/ place = "payment" /\ via = "x402" /\ credit = 0 /\ amount = cost
         \/ place = "handler" /\ via = "credit" /\ credit = cost /\ amount = cost
         \/ /\ place = "payment" /\ via = "partial"
            /\ credit # 0 /\ credit < cost /\ amount = cost - credit,
         Ask(r, place, via, cost, credit, amount)
  PROVE  FairAfter
<1> DEFINE rec == [req[r] EXCEPT !.pc = place, !.via = via, !.due = cost,
                                 !.asked = amount, !.net = -credit]
<1>1. req' = [req EXCEPT ![r] = rec]
  BY DEF Ask, FairInv, GateInv, TypeOK
<1>2. Fair(rec)
  <2>1. req[r] \in Requests /\ Fair(req[r])
    BY FairFields
  <2>2. Unpriced(req[r])
    BY <2>1 DEF Fair, PricedFairly
  <2>3. PricedFairly(rec)
    BY <2>1, <2>2 DEF Unpriced, PricedFairly, AdmissionDelta, Requests
  <2>4. QED
    BY <2>3 DEF Fair
<1> HIDE DEF rec
<1>3. QED
  BY <1>1, <1>2, FairUpdate

LEMMA AdmitFair == ASSUME FairInv, NEW r \in Request, Admit(r) PROVE FairAfter
<1>1. req[r].pc = "gate" /\ GateInv
  BY DEF Admit, FairInv
<1>2. PICK cost \in Amount, taken \in Amount :
        /\ cost \in Nat \ {0} /\ taken \in Nat /\ taken <= cost
        /\ taken # 0 => /\ req[r].wallet \in Wallet
                        /\ taken <= balance[req[r].wallet]
        /\ \/ taken = 0 /\ Ask(r, "payment", "x402", cost, 0, cost)
           \/ taken = cost /\ Ask(r, "handler", "credit", cost, cost, cost)
           \/ /\ taken \notin {0, cost}
              /\ Ask(r, "payment", "partial", cost, taken, cost - taken)
  BY <1>1, AdmitWays
<1>3. CASE Ask(r, "payment", "x402", cost, 0, cost)
  BY <1>1, <1>2, <1>3, AskFair
<1>4. CASE taken = cost /\ Ask(r, "handler", "credit", cost, cost, cost)
  BY <1>1, <1>2, <1>4, AskFair
<1>5. CASE taken \notin {0, cost} /\ Ask(r, "payment", "partial", cost, taken, cost - taken)
  <2>1. cost - taken \in Nat /\ taken < cost /\ taken # 0
    BY <1>2, <1>5
  <2>2. QED
    BY <1>1, <1>2, <1>5, <2>1, AskFair
<1>6. QED
  BY <1>2, <1>3, <1>4, <1>5

LEMMA ArriveFair == ASSUME FairInv, NEW r \in Request, Arrive(r) PROVE FairAfter
<1>1. PICK w \in Wallet \cup {NoWallet} : req' = [req EXCEPT ![r].pc = "gate", ![r].wallet = w]
  BY DEF Arrive
<1> DEFINE rec == [req[r] EXCEPT !.pc = "gate", !.wallet = w]
<1>2. req' = [req EXCEPT ![r] = rec]
  BY <1>1 DEF Arrive, FairInv, GateInv, TypeOK
<1>3. Fair(rec)
  <2>1. /\ req[r] \in Requests /\ Fair(req[r]) /\ Settleable(req[r])
        /\ Settles(r) <=> SettlesOn(req[r])
    BY FairFields
  <2>2. Unpriced(req[r])
    BY <2>1 DEF Fair, PricedFairly, Arrive
  <2>3. Unpriced(rec)
    BY <1>1, <2>1, <2>2 DEF Arrive, Unpriced, SettlesOn, AfterNext, Settleable, Requests
  <2>4. QED
    BY <2>3 DEF Fair
<1> HIDE DEF rec
<1>4. QED
  BY <1>2, <1>3, FairUpdate

LEMMA RejectFair == ASSUME FairInv, NEW r \in Request, Reject(r) PROVE FairAfter
<1> DEFINE rec == [req[r] EXCEPT !.pc = "done"]
<1>2. req' = [req EXCEPT ![r] = rec]
  BY DEF Reject, FairInv, GateInv, TypeOK
<1>3. Fair(rec)
  <2>1. /\ req[r] \in Requests /\ Fair(req[r]) /\ Settleable(req[r])
        /\ Settles(r) <=> SettlesOn(req[r])
    BY FairFields
  <2>2. Unpriced(req[r])
    BY <2>1 DEF Fair, PricedFairly, Reject
  <2>3. Unpriced(rec)
    BY <2>1, <2>2 DEF Reject, Unpriced, SettlesOn, AfterNext, Settleable, Requests
  <2>4. QED
    BY <2>3 DEF Fair
<1> HIDE DEF rec
<1>4. QED
  BY <1>2, <1>3, FairUpdate

LEMMA ReadPriceFair == ASSUME FairInv, NEW r \in Request, ReadPrice(r) PROVE FairAfter
<1>1. PICK place \in {"done", "verify"}, read \in Nat :
        /\ place = (IF read = NoEntry THEN "done" ELSE "verify")
        /\ req' = [req EXCEPT ![r].pc = place, ![r].price = read]
  BY FairFields DEF ReadPrice
<1> DEFINE rec == [req[r] EXCEPT !.pc = place, !.price = read]
<1>2. req' = [req EXCEPT ![r] = rec]
  BY <1>1 DEF ReadPrice, FairInv, GateInv, TypeOK
<1>3. Fair(rec)
  <2>1. /\ req[r] \in Requests /\ Fair(req[r]) /\ Settleable(req[r])
        /\ Settles(r) <=> SettlesOn(req[r])
    BY FairFields
  <2>2. PricedFairly(req[r])
    BY <2>1 DEF Fair, Unpriced, ReadPrice
  <2>3. PricedFairly(rec)
    BY <1>1, <2>1, <2>2 DEF ReadPrice, PricedFairly, AdmissionDelta, SettlesOn, AfterNext, Settleable, Requests
  <2>4. QED
    BY <2>3 DEF Fair
<1> HIDE DEF rec
<1>4. QED
  BY <1>2, <1>3, FairUpdate

LEMMA VerifyFair == ASSUME FairInv, NEW r \in Request, Verify(r) PROVE FairAfter
<1>1. PICK place \in {"handler", "done"} : req' = [req EXCEPT ![r].pc = place]
  BY DEF Verify
<1> DEFINE rec == [req[r] EXCEPT !.pc = place]
<1>2. req' = [req EXCEPT ![r] = rec]
  BY <1>1 DEF Verify, FairInv, GateInv, TypeOK
<1>3. Fair(rec)
  <2>1. /\ req[r] \in Requests /\ Fair(req[r]) /\ Settleable(req[r])
        /\ Settles(r) <=> SettlesOn(req[r])
    BY FairFields
  <2>2. PricedFairly(req[r])
    BY <2>1 DEF Fair, Unpriced, Verify
  <2>3. PricedFairly(rec)
    BY <1>1, <2>1, <2>2 DEF Verify, PricedFairly, AdmissionDelta, SettlesOn, AfterNext, Settleable, Requests
  <2>4. QED
    BY <2>3 DEF Fair
<1> HIDE DEF rec
<1>4. QED
  BY <1>2, <1>3, FairUpdate

LEMMA RespondUnsettledFair == ASSUME FairInv, NEW r \in Request, RespondUnsettled(r) PROVE FairAfter
<1>1. PICK status \in {"ok", "error", "402"} :
        /\ Settles(r) => status = "402"
        /\ req' = [req EXCEPT ![r].pc = AfterNext(r, status), ![r].status = status]
  BY DEF RespondUnsettled
<1> DEFINE rec == [req[r] EXCEPT !.pc = AfterNext(r, status), !.status = status]
<1>2. req' = [req EXCEPT ![r] = rec]
  BY <1>1 DEF RespondUnsettled, FairInv, GateInv, TypeOK
<1>3. Fair(rec)
  <2>1. /\ req[r] \in Requests /\ Fair(req[r]) /\ Settleable(req[r])
        /\ Settles(r) <=> SettlesOn(req[r])
    BY FairFields
  <2>2. PricedFairly(req[r])
    BY <2>1 DEF Fair, Unpriced, RespondUnsettled
  <2>3. PricedFairly(rec)
    BY <1>1, <2>1, <2>2 DEF RespondUnsettled, PricedFairly, AdmissionDelta, SettlesOn, AfterNext, Settleable, Requests
  <2>4. QED
    BY <2>3 DEF Fair
<1> HIDE DEF rec
<1>4. QED
  BY <1>2, <1>3, FairUpdate

LEMMA RespondErrorFair == ASSUME FairInv, NEW r \in Request, RespondError(r) PROVE FairAfter
<1> DEFINE rec == [req[r] EXCEPT !.pc = "done", !.status = "error", !.net = req[r].net + Reconciled(r, 0)]
<1>2. req' = [req EXCEPT ![r] = rec]
  BY DEF RespondError, FairInv, GateInv, TypeOK
<1>8. /\ req[r].wallet \in Wallet
      /\ Reconciled(r, 0) \in Int
      /\ Reconciled(r, 0) = req[r].due
  <2>1. req[r].wallet \in Wallet /\ req[r].due \in Nat
    BY FairFields DEF Requests, Settleable, RespondError
  <2>2. QED
    BY <2>1, ReconciledBounds
<1>3. Fair(rec)
  <2>1. /\ req[r] \in Requests /\ Fair(req[r]) /\ Settleable(req[r])
        /\ Settles(r) <=> SettlesOn(req[r])
    BY FairFields
  <2>2. PricedFairly(req[r])
    BY <2>1 DEF Fair, Unpriced, RespondError
  <2>3. PricedFairly(rec)
    BY <1>8, <2>1, <2>2 DEF RespondError, PricedFairly, AdmissionDelta, SettlesOn, AfterNext, Settleable, Requests
  <2>4. QED
    BY <2>3 DEF Fair
<1> HIDE DEF rec
<1>4. QED
  BY <1>2, <1>3, FairUpdate

LEMMA RespondStreamFair == ASSUME FairInv, NEW r \in Request, RespondStream(r) PROVE FairAfter
<1> DEFINE rec == [req[r] EXCEPT !.pc = AfterNext(r, "ok"), !.status = "ok", !.deferred = TRUE]
<1>2. req' = [req EXCEPT ![r] = rec]
  BY DEF RespondStream, FairInv, GateInv, TypeOK
<1>3. Fair(rec)
  <2>1. /\ req[r] \in Requests /\ Fair(req[r]) /\ Settleable(req[r])
        /\ Settles(r) <=> SettlesOn(req[r])
    BY FairFields
  <2>2. PricedFairly(req[r])
    BY <2>1 DEF Fair, Unpriced, RespondStream
  <2>3. PricedFairly(rec)
    BY <2>1, <2>2 DEF RespondStream, PricedFairly, AdmissionDelta, SettlesOn, AfterNext, Settleable, Requests
  <2>4. QED
    BY <2>3 DEF Fair
<1> HIDE DEF rec
<1>4. QED
  BY <1>2, <1>3, FairUpdate

LEMMA RespondFair == ASSUME FairInv, NEW r \in Request, Respond(r) PROVE FairAfter
<1> DEFINE rec == [req[r] EXCEPT !.pc = "usage", !.status = "ok"]
<1>2. req' = [req EXCEPT ![r] = rec]
  BY DEF Respond, FairInv, GateInv, TypeOK
<1>3. Fair(rec)
  <2>1. /\ req[r] \in Requests /\ Fair(req[r]) /\ Settleable(req[r])
        /\ Settles(r) <=> SettlesOn(req[r])
    BY FairFields
  <2>2. PricedFairly(req[r])
    BY <2>1 DEF Fair, Unpriced, Respond
  <2>3. PricedFairly(rec)
    BY <2>1, <2>2 DEF Respond, PricedFairly, AdmissionDelta, SettlesOn, AfterNext, Settleable, Requests
  <2>4. QED
    BY <2>3 DEF Fair
<1> HIDE DEF rec
<1>4. QED
  BY <1>2, <1>3, FairUpdate

LEMMA SettleUsageFair == ASSUME FairInv, NEW r \in Request, SettleUsage(r) PROVE FairAfter
<1>1. PICK cost \in Price :
        req' = [req EXCEPT ![r].pc = AfterNext(r, "ok"), ![r].actual = cost,
                           ![r].net = @ + Reconciled(r, cost)]
  BY DEF SettleUsage
<1> DEFINE rec == [req[r] EXCEPT !.pc = AfterNext(r, "ok"), !.actual = cost, !.net = req[r].net + Reconciled(r, cost)]
<1>2. req' = [req EXCEPT ![r] = rec]
  BY <1>1 DEF SettleUsage, FairInv, GateInv, TypeOK
<1>8. /\ cost \in Nat \ {0}
      /\ Reconciled(r, cost) \in Int
      /\ req[r].due >= cost => Reconciled(r, cost) = req[r].due - cost
      /\ req[r].due < cost =>
           /\ Reconciled(r, cost) <= 0
           /\ 0 <= Reconciled(r, cost) + (cost - req[r].due)
  <2>1. req[r].wallet \in Wallet /\ req[r].due \in Nat \ {0}
    BY FairFields DEF Requests, Settleable, SettleUsage, Fair, Unpriced, PricedFairly
  <2>2. cost \in Nat \ {0}
    BY <2>1, PricesAreAmounts
  <2>3. QED
    BY <2>1, <2>2, ReconciledBounds
<1>3. Fair(rec)
  <2>1. /\ req[r] \in Requests /\ Fair(req[r]) /\ Settleable(req[r])
        /\ Settles(r) <=> SettlesOn(req[r])
    BY FairFields
  <2>2. PricedFairly(req[r])
    BY <2>1 DEF Fair, Unpriced, SettleUsage
  <2>3. PricedFairly(rec)
    BY <1>1, <1>8, <2>1, <2>2 DEF SettleUsage, PricedFairly, AdmissionDelta, SettlesOn, AfterNext, Settleable, Requests
  <2>4. QED
    BY <2>3 DEF Fair
<1> HIDE DEF rec
<1>4. QED
  BY <1>2, <1>3, FairUpdate

LEMMA UsageThrowsFair == ASSUME FairInv, NEW r \in Request, UsageThrows(r) PROVE FairAfter
<1> DEFINE rec == [req[r] EXCEPT !.pc = "done"]
<1>2. req' = [req EXCEPT ![r] = rec]
  BY DEF UsageThrows, FairInv, GateInv, TypeOK
<1>3. Fair(rec)
  <2>1. /\ req[r] \in Requests /\ Fair(req[r]) /\ Settleable(req[r])
        /\ Settles(r) <=> SettlesOn(req[r])
    BY FairFields
  <2>2. PricedFairly(req[r])
    BY <2>1 DEF Fair, Unpriced, UsageThrows
  <2>3. PricedFairly(rec)
    BY <2>1, <2>2 DEF UsageThrows, PricedFairly, AdmissionDelta, SettlesOn, AfterNext, Settleable, Requests
  <2>4. QED
    BY <2>3 DEF Fair
<1> HIDE DEF rec
<1>4. QED
  BY <1>2, <1>3, FairUpdate

LEMMA SettleStreamFair == ASSUME FairInv, NEW r \in Request, SettleStream(r) PROVE FairAfter
<1>1. PICK cost \in Price \cup {req[r].due} :
        req' = [req EXCEPT ![r].deferred = FALSE, ![r].actual = cost,
                           ![r].net = @ + Reconciled(r, cost)]
  BY DEF SettleStream
<1> DEFINE rec == [req[r] EXCEPT !.deferred = FALSE, !.actual = cost, !.net = req[r].net + Reconciled(r, cost)]
<1>2. req' = [req EXCEPT ![r] = rec]
  BY <1>1 DEF SettleStream, FairInv, GateInv, TypeOK
<1>8. /\ cost \in Nat \ {0}
      /\ Reconciled(r, cost) \in Int
      /\ req[r].due >= cost => Reconciled(r, cost) = req[r].due - cost
      /\ req[r].due < cost =>
           /\ Reconciled(r, cost) <= 0
           /\ 0 <= Reconciled(r, cost) + (cost - req[r].due)
  <2>1. req[r].wallet \in Wallet /\ req[r].due \in Nat \ {0}
    BY FairFields DEF Requests, Settleable, SettleStream, Fair, Unpriced, PricedFairly
  <2>2. cost \in Nat \ {0}
    BY <2>1, PricesAreAmounts
  <2>3. QED
    BY <2>1, <2>2, ReconciledBounds
<1>3. Fair(rec)
  <2>1. /\ req[r] \in Requests /\ Fair(req[r]) /\ Settleable(req[r])
        /\ Settles(r) <=> SettlesOn(req[r])
    BY FairFields
  <2>2. PricedFairly(req[r])
    BY <2>1 DEF Fair, Unpriced, SettleStream
  <2>3. PricedFairly(rec)
    BY <1>1, <1>8, <2>1, <2>2 DEF SettleStream, PricedFairly, AdmissionDelta, SettlesOn, AfterNext, Settleable, Requests
  <2>4. QED
    BY <2>3 DEF Fair
<1> HIDE DEF rec
<1>4. QED
  BY <1>2, <1>3, FairUpdate

LEMMA SettleOnChainFair == ASSUME FairInv, NEW r \in Request, SettleOnChain(r) PROVE FairAfter
<1>1. PICK amount \in {0, req[r].price} :
        req' = [req EXCEPT ![r].pc = "done", ![r].charged = amount]
  BY DEF SettleOnChain
<1> DEFINE rec == [req[r] EXCEPT !.pc = "done", !.charged = amount]
<1>2. req' = [req EXCEPT ![r] = rec]
  BY <1>1 DEF SettleOnChain, FairInv, GateInv, TypeOK
<1>3. Fair(rec)
  <2>1. /\ req[r] \in Requests /\ Fair(req[r]) /\ Settleable(req[r])
        /\ Settles(r) <=> SettlesOn(req[r])
    BY FairFields
  <2>2. PricedFairly(req[r])
    BY <2>1 DEF Fair, Unpriced, SettleOnChain
  <2>3. PricedFairly(rec)
    BY <1>1, <2>1, <2>2 DEF SettleOnChain, PricedFairly, AdmissionDelta, SettlesOn, AfterNext, Settleable, Requests
  <2>4. QED
    BY <2>3 DEF Fair
<1> HIDE DEF rec
<1>4. QED
  BY <1>2, <1>3, FairUpdate

LEMMA FairStep == FairInv /\ [Next]_vars => FairInv'
<1> SUFFICES ASSUME FairInv, [Next]_vars PROVE FairInv'
  OBVIOUS
<1>1. GateInv'
  BY GateInvStep DEF FairInv
<1>2. FairAfter
  <2>1. ASSUME NEW r \in Request, Arrive(r) \/ Step(r) \/ SettleStream(r)
        PROVE  FairAfter
    BY <2>1, ArriveFair, RejectFair, AdmitFair, ReadPriceFair, VerifyFair,
       RespondUnsettledFair, RespondErrorFair, RespondStreamFair, RespondFair,
       SettleUsageFair, UsageThrowsFair, SettleStreamFair, SettleOnChainFair
       DEF Step
  <2>2. ASSUME UNCHANGED req PROVE FairAfter
    BY <2>2 DEF FairAfter, FairInv
  <2>3. QED
    BY <2>1, <2>2 DEF Next, Seed, Housekeeping, vars
<1>3. QED
  BY <1>1, <1>2 DEF FairInv, FairAfter

LEMMA FairInit == Init => FairInv
<1> SUFFICES ASSUME Init PROVE FairInv
  OBVIOUS
<1>1. PICK keys \in [Request -> Key] :
        req = [r \in Request |-> NewRequest(keys[r])]
  BY DEF Init
<1>2. ASSUME NEW r \in Request PROVE Fair(req[r])
  BY <1>1 DEF NewRequest, Fair, Unpriced
<1>3. QED
  BY <1>2, GateInvInit DEF FairInv

(* What the accounts of a request say of it once it has ended.             *)
LEMMA FairAccounts ==
  ASSUME FairInv, NEW r \in Request
  PROVE  /\ req[r].pc = "done" /\ req[r].status = "none" =>
              \/ req[r].net = 0
              \/ req[r].via = "partial" /\ -req[r].due < req[r].net /\ req[r].net < 0
         /\ (Billed(r) /\ req[r].price \in {0, req[r].asked}) =>
              LET spent == req[r].charged - req[r].net IN
              /\ spent <= req[r].actual
              /\ req[r].due >= req[r].actual => spent = req[r].actual
         /\ (req[r].pc = "done" /\ req[r].status = "error" /\ req[r].via = "credit"
              /\ Settles(r)) => req[r].net = 0
<1>1. /\ req[r] \in Requests /\ Fair(req[r])
      /\ Settles(r) <=> SettlesOn(req[r])
  BY FairFields
<1>2. /\ req[r].due \in Nat /\ req[r].asked \in Nat /\ req[r].net \in Int
      /\ req[r].price \in Nat /\ req[r].charged \in Nat /\ req[r].actual \in Nat
      /\ req[r].via \in {"x402", "credit", "partial"}
  BY <1>1 DEF Requests
<1>3. CASE Unpriced(req[r])
  BY <1>2, <1>3 DEF Unpriced, Billed
<1>4. CASE PricedFairly(req[r])
  <2>1. CASE req[r].via = "credit"
    BY <1>1, <1>2, <1>4, <2>1 DEF PricedFairly, AdmissionDelta, Billed
  <2>2. CASE req[r].via # "credit"
    BY <1>1, <1>2, <1>4, <2>2 DEF PricedFairly, AdmissionDelta, Billed
  <2>3. QED
    BY <2>1, <2>2
<1>5. QED
  BY <1>1, <1>3, <1>4 DEF Fair

(* However it ended, a request moved in its wallet what it should have:    *)
(* nothing or a part of its price if it was not served, what the calculator *)
(* said, or less, if it was reconciled and paid its own price, and nothing *)
(* if it was served on credit and failed (middleware.ts:290-400).          *)
THEOREM BillsAreFair == Spec => []BilledFairly
<1>1. Spec => []FairInv
  BY FairInit, FairStep, PTL DEF Spec
<1>2. FairInv => BilledFairly
  BY FairAccounts DEF BilledFairly, UnservedLosesLessThanPrice,
     BilledAtActualCost, FailedOnCreditIsFree
<1>3. QED
  BY <1>1, <1>2, PTL
=============================================================================
