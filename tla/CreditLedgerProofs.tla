------------------------- MODULE CreditLedgerProofs -------------------------
(***************************************************************************)
(* The credit ledger's invariants for every set of wallets, every set of   *)
(* amounts and every cap.  Each is inductive; the floor needs the types.   *)
(***************************************************************************)
EXTENDS CreditLedger, TLAPS

(* What is deducted is a natural number.                                   *)
LEMMA DeductionType ==
  ASSUME NEW current \in Int, NEW amount \in Nat
  PROVE  Deduction(current, amount) \in Nat /\ -Deduction(current, amount) \in Int
BY LedgerAssumption DEF LedgerAssumption, Deduction

(* It never takes a balance that is above the floor below it.              *)
LEMMA DeductionKeepsFloor ==
  ASSUME NEW current \in Int, NEW amount \in Nat, current >= -NegativeCap
  PROVE  current + (-Deduction(current, amount)) >= -NegativeCap
BY LedgerAssumption DEF LedgerAssumption, Deduction

(* The three ways a step of the ledger can go: it posts a credit or a      *)
(* debit, expires, or only lets time pass.                                 *)
LEMMA LedgerSteps ==
  ASSUME LedgerTypeOK, [LedgerNext]_ledgerVars
  PROVE  \/ \E w \in Wallet, amount \in Nat :
              AddCredit(w, amount) \/ DeductCredit(w, amount)
         \/ ExpireInactive
         \/ \E w \in Wallet : GrowStale(w)
         \/ UNCHANGED ledgerVars
<1>1. ASSUME NEW w \in Wallet, NEW amount \in Amount,
             AddCredit(w, amount) \/ DeductCredit(w, amount)
      PROVE  \E a \in Nat : AddCredit(w, a) \/ DeductCredit(w, a)
  BY <1>1, LedgerAssumption DEF LedgerAssumption
<1>2. ASSUME NEW w \in Wallet, NEW estimated \in Amount, NEW cost \in Amount,
             Settle(w, estimated, cost)
      PROVE  \/ \E a \in Nat : AddCredit(w, a) \/ DeductCredit(w, a)
             \/ UNCHANGED ledgerVars
  <2>1. estimated \in Nat /\ cost \in Nat
    BY LedgerAssumption DEF LedgerAssumption
  <2>2. CASE estimated = cost
    BY <1>2, <2>2 DEF Settle
  <2>3. CASE estimated > cost
    <3>1. estimated - cost \in Nat /\ AddCredit(w, estimated - cost)
      BY <1>2, <2>1, <2>3 DEF Settle
    <3>2. QED
      BY <3>1
  <2>4. CASE estimated < cost
    <3>1. cost - estimated \in Nat /\ DeductCredit(w, cost - estimated)
      BY <1>2, <2>1, <2>4 DEF Settle
    <3>2. QED
      BY <3>1
  <2>5. QED
    BY <2>1, <2>2, <2>3, <2>4
<1>3. QED
  BY <1>1, <1>2 DEF LedgerNext

(* Posting keeps the types.                                                *)
LEMMA PostTypes ==
  ASSUME LedgerTypeOK, NEW w \in Wallet, NEW delta \in Int, Post(w, delta)
  PROVE  LedgerTypeOK'
BY DEF LedgerTypeOK, Post

LEMMA LedgerTypes == LedgerTypeOK /\ [LedgerNext]_ledgerVars => LedgerTypeOK'
<1> SUFFICES ASSUME LedgerTypeOK, [LedgerNext]_ledgerVars
             PROVE  LedgerTypeOK'
  OBVIOUS
<1>1. ASSUME NEW w \in Wallet, NEW amount \in Nat, AddCredit(w, amount)
      PROVE  LedgerTypeOK'
  BY <1>1, PostTypes DEF AddCredit
<1>2. ASSUME NEW w \in Wallet, NEW amount \in Nat, DeductCredit(w, amount)
      PROVE  LedgerTypeOK'
  <2>1. balance[w] \in Int
    BY DEF LedgerTypeOK
  <2>2. -Deduction(balance[w], amount) \in Int
    BY <2>1, DeductionType
  <2>3. QED
    BY <1>2, <2>2, PostTypes DEF DeductCredit
<1>3. CASE ExpireInactive
  BY <1>3 DEF ExpireInactive, LedgerTypeOK
<1>4. ASSUME NEW w \in Wallet, GrowStale(w)
      PROVE  LedgerTypeOK'
  BY <1>4 DEF GrowStale, LedgerTypeOK
<1>5. CASE UNCHANGED ledgerVars
  BY <1>5 DEF ledgerVars, LedgerTypeOK
<1>6. QED
  BY <1>1, <1>2, <1>3, <1>4, <1>5, LedgerSteps

(* Every reachable ledger has its types (credit.ts:7-25).                  *)
THEOREM LedgerTypeCorrect == LedgerSpec => []LedgerTypeOK
<1>1. LedgerInit => LedgerTypeOK
  BY DEF LedgerInit, LedgerTypeOK
<1>2. QED
  BY <1>1, LedgerTypes, PTL DEF LedgerSpec

-----------------------------------------------------------------------------
LEMMA FloorStep ==
  LedgerTypeOK /\ BalanceFloor /\ [LedgerNext]_ledgerVars => BalanceFloor'
<1> SUFFICES ASSUME LedgerTypeOK, BalanceFloor, [LedgerNext]_ledgerVars,
                    NEW v \in Wallet
             PROVE  balance'[v] >= -NegativeCap
  BY DEF BalanceFloor
<1> USE LedgerAssumption DEF LedgerAssumption
<1>1. balance[v] \in Int /\ balance[v] >= -NegativeCap
  BY DEF LedgerTypeOK, BalanceFloor
<1>2. ASSUME NEW w \in Wallet, NEW amount \in Nat, AddCredit(w, amount)
      PROVE  balance'[v] >= -NegativeCap
  BY <1>1, <1>2 DEF AddCredit, Post, LedgerTypeOK
<1>3. ASSUME NEW w \in Wallet, NEW amount \in Nat, DeductCredit(w, amount)
      PROVE  balance'[v] >= -NegativeCap
  <2>1. CASE v = w
    <3>1. balance'[v] = balance[v] + (-Deduction(balance[v], amount))
      BY <1>3, <2>1 DEF DeductCredit, Post, LedgerTypeOK
    <3>2. QED
      BY <1>1, <3>1, DeductionKeepsFloor
  <2>2. CASE v # w
    BY <1>1, <1>3, <2>2 DEF DeductCredit, Post, LedgerTypeOK
  <2>3. QED
    BY <2>1, <2>2
<1>4. CASE ExpireInactive
  BY <1>1, <1>4 DEF ExpireInactive
<1>5. ASSUME NEW w \in Wallet, GrowStale(w)
      PROVE  balance'[v] >= -NegativeCap
  BY <1>1, <1>5 DEF GrowStale
<1>6. CASE UNCHANGED ledgerVars
  BY <1>1, <1>6 DEF ledgerVars
<1>7. QED
  BY <1>2, <1>3, <1>4, <1>5, <1>6, LedgerSteps

(* No wallet is ever more than the cap in debt (credit.ts:109-114).        *)
THEOREM FloorHolds == LedgerSpec => []BalanceFloor
<1>1. LedgerInit => BalanceFloor
  <2>1. 0 >= -NegativeCap
    BY LedgerAssumption DEF LedgerAssumption
  <2>2. QED
    BY <2>1 DEF LedgerInit, BalanceFloor
<1>2. QED
  BY <1>1, FloorStep, LedgerTypeCorrect, PTL DEF LedgerSpec

-----------------------------------------------------------------------------
LEMMA HistoryStep ==
  LedgerTypeOK /\ HistoryExplainsBalance /\ [LedgerNext]_ledgerVars
    => HistoryExplainsBalance'
<1> SUFFICES ASSUME LedgerTypeOK, HistoryExplainsBalance,
                    [LedgerNext]_ledgerVars, NEW v \in Wallet
             PROVE  txSum'[v] = balance'[v] + forfeited'[v]
  BY DEF HistoryExplainsBalance
<1>1. /\ balance[v] \in Int /\ txSum[v] \in Int /\ forfeited[v] \in Int
      /\ txSum[v] = balance[v] + forfeited[v]
  BY DEF LedgerTypeOK, HistoryExplainsBalance
<1>2. ASSUME NEW w \in Wallet, NEW delta \in Int, Post(w, delta)
      PROVE  txSum'[v] = balance'[v] + forfeited'[v]
  BY <1>1, <1>2 DEF Post, LedgerTypeOK
<1>3. ASSUME NEW w \in Wallet, NEW amount \in Nat,
             AddCredit(w, amount) \/ DeductCredit(w, amount)
      PROVE  txSum'[v] = balance'[v] + forfeited'[v]
  <2>1. balance[w] \in Int
    BY DEF LedgerTypeOK
  <2>2. -Deduction(balance[w], amount) \in Int
    BY <2>1, DeductionType
  <2>3. amount \in Int
    OBVIOUS
  <2>4. QED
    BY <1>2, <1>3, <2>2, <2>3 DEF AddCredit, DeductCredit
<1>4. CASE ExpireInactive
  BY <1>1, <1>4 DEF ExpireInactive
<1>5. ASSUME NEW w \in Wallet, GrowStale(w)
      PROVE  txSum'[v] = balance'[v] + forfeited'[v]
  BY <1>1, <1>5 DEF GrowStale
<1>6. CASE UNCHANGED ledgerVars
  BY <1>1, <1>6 DEF ledgerVars
<1>7. QED
  BY <1>3, <1>4, <1>5, <1>6, LedgerSteps

(* The log explains every balance (credit.ts:86-146).                      *)
THEOREM HistoryHolds == LedgerSpec => []HistoryExplainsBalance
<1>1. LedgerInit => HistoryExplainsBalance
  <2> SUFFICES ASSUME LedgerInit, NEW w \in Wallet
               PROVE  txSum[w] = balance[w] + forfeited[w]
    BY DEF HistoryExplainsBalance
  <2>1. txSum[w] = 0 /\ balance[w] = 0 /\ forfeited[w] = 0
    BY DEF LedgerInit
  <2>2. QED
    BY <2>1
<1>2. QED
  BY <1>1, HistoryStep, LedgerTypeCorrect, PTL DEF LedgerSpec

-----------------------------------------------------------------------------
(* A balance changes without a log row only by expiry, which takes all of  *)
(* a positive balance and forgives no debt (credit.ts:137-146).            *)
THEOREM ExpiryHolds == LedgerSpec => ExpiryKeepsDebts
<1> DEFINE Silent(w) == balance'[w] # balance[w] /\ txSum'[w] = txSum[w]
<1>1. ASSUME LedgerTypeOK, [LedgerNext]_ledgerVars, NEW v \in Wallet, Silent(v)
      PROVE  balance[v] > 0 /\ balance'[v] = 0
  <2>1. ASSUME NEW w \in Wallet, NEW delta \in Int, Post(w, delta)
        PROVE  FALSE
    BY <1>1, <2>1 DEF Post, LedgerTypeOK
  <2>2. ASSUME NEW w \in Wallet, NEW amount \in Nat,
               AddCredit(w, amount) \/ DeductCredit(w, amount)
        PROVE  FALSE
    <3>1. balance[w] \in Int
      BY <1>1 DEF LedgerTypeOK
    <3>2. -Deduction(balance[w], amount) \in Int
      BY <3>1, DeductionType
    <3>3. amount \in Int
      OBVIOUS
    <3>4. QED
      BY <2>1, <2>2, <3>2, <3>3 DEF AddCredit, DeductCredit
  <2>3. CASE ExpireInactive
    BY <1>1, <2>3 DEF ExpireInactive
  <2>4. (\E w \in Wallet : GrowStale(w)) \/ UNCHANGED ledgerVars => FALSE
    BY <1>1 DEF GrowStale, ledgerVars
  <2>5. QED
    BY <1>1, <2>2, <2>3, <2>4, LedgerSteps
<1>2. LedgerTypeOK /\ [LedgerNext]_ledgerVars
        => [\A w \in Wallet : Silent(w) => balance[w] > 0 /\ balance'[w] = 0]_ledgerVars
  BY <1>1
<1>3. QED
  BY <1>2, LedgerTypeCorrect, PTL DEF LedgerSpec, ExpiryKeepsDebts
=============================================================================
