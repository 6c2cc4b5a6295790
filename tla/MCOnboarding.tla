---------------------------- MODULE MCOnboarding ----------------------------
(***************************************************************************)
(* What a new wallet meets: the invite codes of gate.sh, the faucet, and   *)
(* the rate limiter of every paid service.  They keep to state of their    *)
(* own: one run checks them side by side, one of them at work in each      *)
(* behaviour.                                                              *)
(*                                                                         *)
(* The limiter's windows are longer than its pruning interval, so that     *)
(* windows live through prunings, and there are ticks for two windows and  *)
(* a half.                                                                 *)
(***************************************************************************)
EXTENDS RateLimiter, GateRedeem, Faucet

CONSTANTS w1, w2, k1, k2, r1, r2, a1, d1, d2

VARIABLE part    (* chosen once: the one at work *)

MCWallet == {w1, w2}
MCCode == {k1, k2}
MCPreset == {k1}
MCRedemption == {r1, r2}
MCAddress == {a1}
MCCoin == {"usdc", "eth"}
MCDrip == {d1, d2}

(* What rations a wallet rations it fairly: the limiter of the paid        *)
(* services, and the one of the faucet (rate-limit.ts:41-72,               *)
(* faucet/src/index.ts:105-196).                                           *)
WindowsHold == LimitIsFair /\ OneDripPerWindow

OnboardingTypeOK == LimiterTypeOK /\ RedeemTypeOK /\ FaucetTypeOK

onboardingVars == <<limiterVars, redeemVars, faucetVars, part>>

OnboardingInit ==
  /\ part \in {"limiter", "gate", "faucet"}
  /\ LimiterInit /\ RedeemInit /\ FaucetInit
  /\ part # "faucet" => outage = CHOOSE o \in Outages : TRUE

OnboardingNext ==
  /\ UNCHANGED part
  /\ \/ part = "limiter" /\ LimiterNext /\ UNCHANGED <<redeemVars, faucetVars>>
     \/ part = "gate" /\ RedeemNext /\ UNCHANGED <<limiterVars, faucetVars>>
     \/ part = "faucet" /\ FaucetNext /\ UNCHANGED <<limiterVars, redeemVars>>

OnboardingSpec ==
  OnboardingInit /\ [][OnboardingNext]_onboardingVars /\ FaucetFairness
=============================================================================
