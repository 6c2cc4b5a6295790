----------------------------- MODULE GateRedeem -----------------------------
(***************************************************************************)
(* Invite codes of gate.sh (packages/gate/src/service.ts, db.ts and        *)
(* fund.ts).  Redeeming a code burns it and puts the wallet on the         *)
(* allowlist, then sends USDC and gas money on chain, and undoes the first *)
(* two when a transfer fails.  The transfers are awaited, so redemptions,  *)
(* operators and restarts come in between.                                 *)
(*                                                                         *)
(* The chain and the services told of the new wallet are external: any     *)
(* request to them may fail, also after it was carried out.                *)
(***************************************************************************)
EXTENDS Naturals, FiniteSets

CONSTANTS Code,       (* invite codes                                      *)
          Preset,     (* those in GATE_CODES                               *)
          Invitee,    (* wallets                                           *)
          Redemption  (* as many redemptions may be under way at once      *)

NoCode    == "no code"
NoInvitee == "no wallet"

ASSUME RedeemAssumption ==
  /\ Preset \subseteq Code
  /\ NoCode \notin Code /\ NoInvitee \notin Invitee
  /\ {"none", "available"} \cap Invitee = {}

VARIABLES code,       (* the invite_codes table                            *)
          allowed,    (* the allowed_wallets table                         *)
          redemption, (* the context of each redemption                    *)
          granted,    (* history: what the last redemption of a code sent  *)
          word,       (* history: the operators' last word on each wallet  *)
          interrupted (* history: the process died during a redemption     *)

redeemVars == <<code, allowed, redemption, granted, word, interrupted>>

Redemptions ==
  [pc     : {"idle", "usdc", "eth", "register", "seed"},
   code   : Code \cup {NoCode},
   wallet : Invitee \cup {NoInvitee}]

RedeemTypeOK ==
  /\ code        \in [Code -> {"none", "available"} \cup Invitee]  (* or the wallet *)
  /\ allowed     \subseteq Invitee
  /\ redemption  \in [Redemption -> Redemptions]
  /\ granted     \in [Code -> SUBSET {"usdc", "eth"}]
  /\ word        \in [Invitee -> {"none", "in", "out"}]
  /\ interrupted \in BOOLEAN

NotRedeeming == [pc |-> "idle", code |-> NoCode, wallet |-> NoInvitee]

RedeemInit ==
  /\ code = [k \in Code |-> IF k \in Preset THEN "available" ELSE "none"]
  /\ allowed = {} /\ interrupted = FALSE
  /\ word = [w \in Invitee |-> "none"]
  /\ redemption = [r \in Redemption |-> NotRedeeming]
  /\ granted = [k \in Code |-> {}]

-----------------------------------------------------------------------------
Redeemed(k) == code[k] \in Invitee

UnderWay(k) == \E r \in Redemption : redemption[r].code = k

(* validateAndBurn.                                                        *)
Burn(k, w) == code[k] = "available" /\ code' = [code EXCEPT ![k] = w]

(* POST /v1/redeem of a code that can be redeemed, up to its first await.  *)
BeginRedeem(r, k, w) ==
  /\ redemption[r].pc = "idle"
  /\ Burn(k, w)
  /\ allowed' = allowed \cup {w}
  /\ redemption' = [redemption EXCEPT ![r] = [pc |-> "usdc", code |-> k, wallet |-> w]]
  /\ granted' = [granted EXCEPT ![k] = {}]
  /\ word' = [word EXCEPT ![w] = IF @ = "out" THEN "none" ELSE @]
  /\ UNCHANGED interrupted

(* Broken: the wallet stays on the allowlist.                              *)
UndoBurn(r) ==
  /\ code' = [code EXCEPT ![redemption[r].code] = "available"]
  /\ redemption' = [redemption EXCEPT ![r] = NotRedeeming]
  /\ UNCHANGED <<allowed, word, interrupted>>

(* Broken: the code stays burned.                                          *)
UndoAllow(r) ==
  /\ allowed' = allowed \ {redemption[r].wallet}
  /\ redemption' = [redemption EXCEPT ![r] = NotRedeeming]
  /\ UNCHANGED <<code, word, interrupted>>

(* unburnCode and removeFromAllowlist after a failed transfer: two commits *)
(* in two databases, here one step, so that no process dies between them.  *)
Undo(r) ==
  /\ code' = [code EXCEPT ![redemption[r].code] = "available"]
  /\ allowed' = allowed \ {redemption[r].wallet}
  /\ redemption' = [redemption EXCEPT ![r] = NotRedeeming]
  /\ UNCHANGED <<word, interrupted>>

GoOnRedeeming(r, place) ==
  /\ redemption' = [redemption EXCEPT ![r].pc = place]
  /\ UNCHANGED <<code, allowed, word, interrupted>>

Grant(r, coin) ==
  granted' = [granted EXCEPT ![redemption[r].code] = @ \cup {coin}]

(* External: fundWallet sends USDC, or fails, or only its answer does.     *)
SendUsdc(r) ==
  /\ redemption[r].pc = "usdc"
  /\ \/ Grant(r, "usdc") /\ (GoOnRedeeming(r, "eth") \/ Undo(r))
     \/ UNCHANGED granted /\ Undo(r)

(* External: and ETH under the next nonce, which another redemption may    *)
(* have used by now.                                                       *)
SendEth(r) ==
  /\ redemption[r].pc = "eth"
  /\ \/ Grant(r, "eth") /\ (GoOnRedeeming(r, "register") \/ Undo(r))
     \/ UNCHANGED granted /\ Undo(r)

(* External: registerWalletOnService, whatever comes of it.                *)
RegisterWallet(r) ==
  /\ redemption[r].pc = "register"
  /\ GoOnRedeeming(r, "seed")
  /\ UNCHANGED granted

(* External: seedInferCredit, whatever comes of it, and the response.      *)
SeedCredit(r) ==
  /\ redemption[r].pc = "seed"
  /\ redemption' = [redemption EXCEPT ![r] = NotRedeeming]
  /\ UNCHANGED <<code, allowed, granted, word, interrupted>>

-----------------------------------------------------------------------------
(* POST and DELETE /internal/codes.                                        *)
CreateCode(k) ==
  /\ code[k] = "none"
  /\ code' = [code EXCEPT ![k] = "available"]
  /\ UNCHANGED <<allowed, redemption, granted, word, interrupted>>

RevokeCode(k) ==
  /\ code[k] = "available"
  /\ code' = [code EXCEPT ![k] = "none"]
  /\ UNCHANGED <<allowed, redemption, granted, word, interrupted>>

(* POST /internal/allowlist/add and DELETE /internal/allowlist/:address.   *)
AddByHand(w) ==
  /\ allowed' = allowed \cup {w}
  /\ word' = [word EXCEPT ![w] = "in"]
  /\ UNCHANGED <<code, redemption, granted, interrupted>>

StrikeOff(w) ==
  /\ w \in allowed
  /\ allowed' = allowed \ {w}
  /\ word' = [word EXCEPT ![w] = "out"]
  /\ UNCHANGED <<code, redemption, granted, interrupted>>

(* The process dies and starts again, which seeds the codes of GATE_CODES, *)
(* also those revoked meanwhile.                                           *)
GateRestart ==
  /\ interrupted' = (interrupted \/ \E r \in Redemption : redemption[r].pc # "idle")
  /\ redemption' = [r \in Redemption |-> NotRedeeming]
  /\ code' = [k \in Code |-> IF k \in Preset /\ code[k] = "none" THEN "available"
                             ELSE code[k]]
  /\ UNCHANGED <<allowed, granted, word>>

RedeemStep(r) == SendUsdc(r) \/ SendEth(r) \/ RegisterWallet(r) \/ SeedCredit(r)

RedeemNext ==
  \/ \E r \in Redemption : RedeemStep(r) \/ \E k \in Code, w \in Invitee : BeginRedeem(r, k, w)
  \/ \E k \in Code : CreateCode(k) \/ RevokeCode(k)
  \/ \E w \in Invitee : AddByHand(w) \/ StrikeOff(w)
  \/ GateRestart

RedeemSpec == RedeemInit /\ [][RedeemNext]_redeemVars
-----------------------------------------------------------------------------
(* A code stays redeemed only for a wallet that got both transfers, unless *)
(* the process died: any failure gives the code back                       *)
(* (gate/src/service.ts:51-83).                                            *)
RedeemedMeansFunded ==
  \A k \in Code : Redeemed(k) /\ ~ UnderWay(k) /\ ~ interrupted
                    => granted[k] = {"usdc", "eth"}

(* Nobody gets past the allowlist without a code of their own or an        *)
(* operator's word: a failed redemption leaves nothing behind, however     *)
(* redemptions, revocations and restarts interleave, but for a process     *)
(* that dies inside the rollback itself (gate/src/service.ts:48-82).       *)
AllowedByCode ==
  \A w \in allowed : word[w] = "in" \/ \E k \in Code : code[k] = w

(* "Wallet is automatically added to the platform allowlist on redeem."    *)
(* (packages/gate/prim.yaml:66): who has redeemed a code is on it, unless  *)
(* an operator has struck the wallet off or the process died meanwhile.    *)
RedeemedMeansAllowed ==
  \A k \in Code : Redeemed(k) /\ ~ UnderWay(k) /\ word[code[k]] # "out"
                    /\ ~ interrupted => code[k] \in allowed
=============================================================================
