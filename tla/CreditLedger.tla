---------------------------- MODULE CreditLedger ----------------------------
(***************************************************************************)
(* The per-wallet credit ledger of metered billing                         *)
(* (packages/x402-middleware/src/credit.ts): two SQLite tables,            *)
(* credit_balance and credit_tx, changed by addCredit, deductCredit,       *)
(* settle and expireInactive.  Every operation is synchronous and runs in  *)
(* one BEGIN IMMEDIATE ... COMMIT transaction, so each is one action.      *)
(* Amounts are whole micro-USDC: add and subtract of the code round to six *)
(* decimals and compute with integers.                                     *)
(***************************************************************************)
EXTENDS Integers

CONSTANTS Wallet,       (* wallet addresses, lower-cased                   *)
          Amount,       (* amounts a caller passes to the ledger           *)
          NegativeCap   (* how far a balance may go below zero             *)

ASSUME LedgerAssumption ==
  /\ Amount \subseteq Nat
  /\ NegativeCap \in Nat

VARIABLES balance,      (* credit_balance.balance_usdc; no row reads as 0  *)
          stale,        (* updated_at is older than the expiry horizon     *)
          txSum,        (* the sum of amount_usdc over a wallet's credit_tx *)
          forfeited     (* history: credit deleted by expiry, which writes *)
                        (* no credit_tx row                                *)

ledgerVars == <<balance, stale, txSum, forfeited>>

LedgerTypeOK ==
  /\ balance   \in [Wallet -> Int]
  /\ stale     \in [Wallet -> BOOLEAN]
  /\ txSum     \in [Wallet -> Int]
  /\ forfeited \in [Wallet -> Nat]

LedgerInit ==
  /\ balance   = [w \in Wallet |-> 0]
  /\ stale     = [w \in Wallet |-> FALSE]
  /\ txSum     = [w \in Wallet |-> 0]
  /\ forfeited = [w \in Wallet |-> 0]

-----------------------------------------------------------------------------
(* Broken variants, substituted for the definitions below to see that the  *)
(* properties notice.                                                      *)
DeductionUncapped(current, amount) == amount

-----------------------------------------------------------------------------
(* What deductCredit takes for a request to take amount: all of it, or     *)
(* what is left down to the cap, and never less than nothing.              *)
Deduction(current, amount) ==
  IF current - amount < -NegativeCap
  THEN IF current + NegativeCap < 0 THEN 0 ELSE current + NegativeCap
  ELSE amount

(* upsertBalanceStmt and insertTxStmt: the balance moves by delta, the     *)
(* move is logged, and updated_at is now.                                  *)
Post(w, delta) ==
  /\ balance' = [balance EXCEPT ![w] = @ + delta]
  /\ txSum'   = [txSum EXCEPT ![w] = @ + delta]
  /\ stale'   = [stale EXCEPT ![w] = FALSE]
  /\ UNCHANGED forfeited

AddCredit(w, amount) == Post(w, amount)

DeductCreditLogsAmount(w, amount) ==
  /\ balance' = [balance EXCEPT ![w] = @ - Deduction(@, amount)]
  /\ txSum'   = [txSum EXCEPT ![w] = @ - amount]
  /\ stale'   = [stale EXCEPT ![w] = FALSE]
  /\ UNCHANGED forfeited

DeductCredit(w, amount) == Post(w, -Deduction(balance[w], amount))

(* The change settle makes: give back what the estimate took too much, or  *)
(* take what it took too little, as far as the cap allows.                 *)
SettleDelta(current, estimated, actual) ==
  IF estimated > actual THEN estimated - actual
  ELSE IF estimated < actual THEN -Deduction(current, actual - estimated)
  ELSE 0

Settle(w, estimated, actual) ==
  IF estimated = actual THEN UNCHANGED ledgerVars
  ELSE IF estimated > actual THEN AddCredit(w, estimated - actual)
  ELSE DeductCredit(w, actual - estimated)

ExpireAnySign ==
  LET old == {w \in Wallet : stale[w]} IN
  /\ balance'   = [w \in Wallet |-> IF w \in old THEN 0 ELSE balance[w]]
  /\ forfeited' = [w \in Wallet |-> IF w \in old
                                    THEN forfeited[w] + balance[w]
                                    ELSE forfeited[w]]
  /\ stale'     = [w \in Wallet |-> stale[w] /\ w \notin old]
  /\ UNCHANGED txSum

(* The daily sweep of createPrimApp: one DELETE over all the rows that are *)
(* both old and positive.  A debt is never forgiven.                       *)
ExpireInactive ==
  LET old == {w \in Wallet : stale[w] /\ balance[w] > 0} IN
  /\ old # {}
  /\ balance'   = [w \in Wallet |-> IF w \in old THEN 0 ELSE balance[w]]
  /\ forfeited' = [w \in Wallet |-> IF w \in old
                                    THEN forfeited[w] + balance[w]
                                    ELSE forfeited[w]]
  /\ stale'     = [w \in Wallet |-> stale[w] /\ w \notin old]
  /\ UNCHANGED txSum

(* The expiry horizon passes without a row of w being touched.             *)
GrowStale(w) ==
  /\ ~stale[w]
  /\ stale' = [stale EXCEPT ![w] = TRUE]
  /\ UNCHANGED <<balance, txSum, forfeited>>

LedgerNext ==
  \/ \E w \in Wallet :
       \/ \E amount \in Amount : AddCredit(w, amount) \/ DeductCredit(w, amount)
       \/ \E estimated, actual \in Amount : Settle(w, estimated, actual)
       \/ GrowStale(w)
  \/ ExpireInactive

LedgerSpec == LedgerInit /\ [][LedgerNext]_ledgerVars

-----------------------------------------------------------------------------
(* No order of debits, settlements, refunds and expiries takes a wallet    *)
(* more than the cap into debt (credit.ts:109-114).                        *)
BalanceFloor == \A w \in Wallet : balance[w] >= -NegativeCap

(* The log accounts for the balance: what credit_tx adds up to is the      *)
(* balance, plus what expiry deleted without a row (credit.ts:86-124,      *)
(* 137-146), also for the debits the cap cut short.                        *)
HistoryExplainsBalance ==
  \A w \in Wallet : txSum[w] = balance[w] + forfeited[w]

(* Only the expiry sweep takes credit from a wallet without a log row, it  *)
(* takes all of a positive balance, and it leaves every debt as it was     *)
(* (credit.ts:137-146).                                                    *)
ExpiryKeepsDebts ==
  [][\A w \in Wallet :
       (balance'[w] # balance[w] /\ txSum'[w] = txSum[w])
         => balance[w] > 0 /\ balance'[w] = 0]_ledgerVars
=============================================================================
