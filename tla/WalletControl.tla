--------------------------- MODULE WalletControl ---------------------------
(***************************************************************************)
(* wallet.sh (packages/wallet/src): registered wallets, their requests for *)
(* funds, and their spending policies, a row each: limits, what has been   *)
(* spent of the day, and a pause.  Three kinds of calls write into that    *)
(* row, and the day ends by itself: whoever looks at the row next resets   *)
(* it.                                                                     *)
(*                                                                         *)
(* The sender of payments is external: policy.ts is checked "before every  *)
(* send operation" and told "after a successful send", and nothing in the  *)
(* repository sends any more.  Amounts are whole units.                    *)
(***************************************************************************)
EXTENDS Integers

CONSTANTS Agent,  (* addresses; each registers itself                      *)
          FundRequest,
          SendId,      (* as many sends may be under way at once           *)
          Payment,     (* what is sent, and limits                         *)
          LastDay,     (* bound: days                                      *)
          WalletLimit  (* bound: changes of policies, and sends            *)

NoLimit == 0         (* NULL                                               *)
NotPaused == "none"  (* NULL                                               *)
Scope == {"all", "send", "swap"}
Unset == [row |-> FALSE, tx |-> NoLimit, perDay |-> NoLimit, spent |-> 0, reset |-> 0,
          pause |-> NotPaused]

ASSUME WalletAssumption ==
  Payment \subseteq Nat \ {0} /\ LastDay \in Nat /\ WalletLimit \in Nat

VARIABLES wallet,      (* wallets: not there, active or deactivated        *)
          fundReq,     (* fund_requests: whose, and their status           *)
          policy,      (* policies                                         *)
          day,         (* which day it is, in UTC                          *)
          sending,     (* sends between the check and the record of them   *)
          changes,     (* policies written and sends begun so far          *)
          said,        (* history: the pause and the limits last asked for *)
          spentToday,  (* history: what was recorded since midnight        *)
          late,        (* history: wallets whose send was recorded in a    *)
                      (* row of a day before                               *)
          loose  (* history: wallets that had two sends at once, or a      *)
                      (* limit set after something was spent               *)

walletVars == <<wallet, fundReq, policy, day, sending, changes, said, spentToday, late, loose>>

NoFunds == [of |-> "nobody", status |-> "none"]
NotSending == [of |-> "nobody", sum |-> 0]

WalletTypeOK ==
  /\ wallet \in [Agent -> {"none", "active", "deactivated"}]
  /\ fundReq \in [FundRequest ->
       {NoFunds} \cup [of : Agent, status : {"pending", "approved", "denied"}]]
  /\ policy \in [Agent -> [row : BOOLEAN, tx : Payment \cup {NoLimit}, perDay : Payment \cup {NoLimit},
                           spent : Nat, reset : Nat, pause : Scope \cup {NotPaused}]]
  /\ day \in Nat /\ changes \in Nat
  /\ sending \in [SendId -> {NotSending} \cup [of : Agent, sum : Payment]]
  /\ said \in [Agent -> [tx : Payment \cup {NoLimit}, perDay : Payment \cup {NoLimit},
                         pause : Scope \cup {NotPaused}]]
  /\ spentToday \in [Agent -> Nat]
  /\ late \subseteq Agent /\ loose \subseteq Agent

WalletInit ==
  /\ wallet = [a \in Agent |-> "none"]
  /\ fundReq = [f \in FundRequest |-> NoFunds]
  /\ policy = [a \in Agent |-> Unset]
  /\ day = 0 /\ changes = 0
  /\ sending = [s \in SendId |-> NotSending]
  /\ said = [a \in Agent |-> [tx |-> NoLimit, perDay |-> NoLimit, pause |-> NotPaused]]
  /\ spentToday = [a \in Agent |-> 0]
  /\ late = {} /\ loose = {}

-----------------------------------------------------------------------------
(* Who signs, or whom gate.sh brings, is registered; whoever was           *)
(* deactivated is back with the policy there was.                          *)
RegisterWallet(a) ==
  /\ wallet[a] # "active"
  /\ wallet' = [wallet EXCEPT ![a] = "active"]
  /\ UNCHANGED <<fundReq, policy, day, sending, changes, said, spentToday, late, loose>>

DeactivateWallet(a) ==
  /\ wallet[a] = "active"
  /\ wallet' = [wallet EXCEPT ![a] = "deactivated"]
  /\ UNCHANGED <<fundReq, policy, day, sending, changes, said, spentToday, late, loose>>

CreateFundRequest(a, f) ==
  /\ wallet[a] = "active" /\ fundReq[f] = NoFunds
  /\ fundReq' = [fundReq EXCEPT ![f] = [of |-> a, status |-> "pending"]]
  /\ UNCHANGED <<wallet, policy, day, sending, changes, said, spentToday, late, loose>>

(* approveFundRequest and denyFundRequest; the owner asks itself.          *)
DecideFundRequest(f, status) ==
  /\ fundReq[f].status = "pending" /\ wallet[fundReq[f].of] = "active"
  /\ fundReq' = [fundReq EXCEPT ![f].status = status]
  /\ UNCHANGED <<wallet, policy, day, sending, changes, said, spentToday, late, loose>>

-----------------------------------------------------------------------------
(* The row as whoever writes it finds it, made if it is not there.         *)
RowOf(a) == IF policy[a].row THEN policy[a] ELSE [Unset EXCEPT !.row = TRUE, !.reset = day + 1]

(* A row whose day is over starts anew, with the next midnight ahead.      *)
ResetIfNeeded(row) ==
  IF row.row /\ day >= row.reset THEN [row EXCEPT !.spent = 0, !.reset = day + 1] ELSE row

(* Broken: the limits that are not in the request are cleared.             *)
MergePolicy(row, limits) ==
  [row EXCEPT !.tx = IF "tx" \in DOMAIN limits THEN limits.tx ELSE NoLimit,
              !.perDay = IF "perDay" \in DOMAIN limits THEN limits.perDay ELSE NoLimit]

UpsertPolicy(row, limits) ==
  [row EXCEPT !.tx = IF "tx" \in DOMAIN limits THEN limits.tx ELSE @,
              !.perDay = IF "perDay" \in DOMAIN limits THEN limits.perDay ELSE @]

(* What a request may set: one limit, the other, or both.                  *)
LimitsAsked ==
  [tx : Payment \cup {NoLimit}] \cup [perDay : Payment \cup {NoLimit}] \cup
    [tx : Payment \cup {NoLimit}, perDay : Payment \cup {NoLimit}]

UpdateSpendingPolicy(a, limits) ==
  /\ wallet[a] = "active" /\ changes < WalletLimit
  /\ policy' = [policy EXCEPT ![a] = UpsertPolicy(RowOf(a), limits)]
  /\ said' = [said EXCEPT ![a] =
       [x \in DOMAIN said[a] |-> IF x \in DOMAIN limits THEN limits[x] ELSE said[a][x]]]
  /\ changes' = changes + 1
  /\ loose' = IF "perDay" \in DOMAIN limits /\ (\/ policy[a].spent # 0
                                                \/ \E s \in SendId : sending[s].of = a)
              THEN loose \cup {a} ELSE loose
  /\ UNCHANGED <<wallet, fundReq, day, sending, spentToday, late>>

(* pauseWallet, with a scope, and resumeWallet, whose scope is ignored.    *)
SetPause(a, scope) ==
  /\ wallet[a] = "active" /\ changes < WalletLimit
  /\ policy' = [policy EXCEPT ![a] = [RowOf(a) EXCEPT !.pause = scope]]
  /\ said' = [said EXCEPT ![a].pause = scope]
  /\ changes' = changes + 1
  /\ UNCHANGED <<wallet, fundReq, day, sending, spentToday, late, loose>>

(* getWallet and getSpendingPolicy reset the row on the way.  The former   *)
(* asks the chain for balances first: the wallet may be deactivated since. *)
LookAtPolicy(a) ==
  /\ wallet[a] # "none"
  /\ policy' = [policy EXCEPT ![a] = ResetIfNeeded(@)]
  /\ UNCHANGED <<wallet, fundReq, day, sending, changes, said, spentToday, late, loose>>

-----------------------------------------------------------------------------
WithinPolicy(row, sum) ==
  /\ row.pause \notin {"all", "send"}
  /\ row.tx # NoLimit => sum <= row.tx
  /\ row.perDay # NoLimit => row.spent + sum <= row.perDay

CheckPolicy(s, a, sum) ==
  /\ sending[s] = NotSending /\ changes < WalletLimit
  /\ policy' = [policy EXCEPT ![a] = ResetIfNeeded(@)]
  /\ changes' = changes + 1
  /\ IF policy[a].row => WithinPolicy(ResetIfNeeded(policy[a]), sum)
     THEN /\ sending' = [sending EXCEPT ![s] = [of |-> a, sum |-> sum]]
          /\ loose' = IF \E o \in SendId : sending[o].of = a THEN loose \cup {a} ELSE loose
     ELSE UNCHANGED <<sending, loose>>
  /\ UNCHANGED <<wallet, fundReq, day, said, spentToday, late>>

RecordSpend(s) ==
  /\ sending[s] # NotSending
  /\ LET a == sending[s].of IN
       /\ policy' = [policy EXCEPT ![a] = [RowOf(a) EXCEPT !.spent = @ + sending[s].sum]]
       /\ spentToday' = [spentToday EXCEPT ![a] = @ + sending[s].sum]
       /\ late' = IF policy[a].row /\ day >= policy[a].reset THEN late \cup {a} ELSE late
  /\ sending' = [sending EXCEPT ![s] = NotSending]
  /\ UNCHANGED <<wallet, fundReq, day, changes, said, loose>>

(* The send fails: nothing is recorded.                                    *)
SendFails(s) ==
  /\ sending[s] # NotSending
  /\ sending' = [sending EXCEPT ![s] = NotSending]
  /\ UNCHANGED <<wallet, fundReq, policy, day, changes, said, spentToday, late, loose>>

Midnight ==
  /\ day < LastDay /\ day' = day + 1
  /\ spentToday' = [a \in Agent |-> 0]
  /\ late' = {}
  /\ UNCHANGED <<wallet, fundReq, policy, sending, changes, said, loose>>

-----------------------------------------------------------------------------
WalletNext ==
  \/ \E a \in Agent :
       \/ RegisterWallet(a) \/ DeactivateWallet(a) \/ LookAtPolicy(a)
       \/ \E f \in FundRequest : CreateFundRequest(a, f)
       \/ \E limits \in LimitsAsked : UpdateSpendingPolicy(a, limits)
       \/ \E scope \in Scope \cup {NotPaused} : SetPause(a, scope)
       \/ \E s \in SendId, sum \in Payment : CheckPolicy(s, a, sum)
  \/ \E f \in FundRequest, status \in {"approved", "denied"} : DecideFundRequest(f, status)
  \/ \E s \in SendId : RecordSpend(s) \/ SendFails(s)
  \/ Midnight

WalletSpec == WalletInit /\ [][WalletNext]_walletVars

-----------------------------------------------------------------------------
(* Pausing, setting limits, spending and resetting write into one row, and *)
(* none of them undoes another: the pause and the limits are those last    *)
(* asked for, also after the wallet was away; a row of today counts what   *)
(* was spent today; and no day's spending passes the limit, as long as     *)
(* sends come one after another and the limit is there from the start      *)
(* (service.ts:497-598, policy.ts:18-68, db.ts:383-522).                   *)
PolicyHolds ==
  \A a \in Agent :
    /\ policy[a].pause = said[a].pause
    /\ policy[a].tx = said[a].tx /\ policy[a].perDay = said[a].perDay
    /\ day < policy[a].reset /\ a \notin late => policy[a].spent = spentToday[a]
    /\ a \notin loose /\ policy[a].perDay # NoLimit => policy[a].spent <= policy[a].perDay
=============================================================================
