---------------------------- MODULE ChatAccounts ----------------------------
(***************************************************************************)
(* The accounts of the chat application (apps/chat/src/auth.ts and         *)
(* accounts.ts): a passkey signs a challenge, a new account gets a wallet  *)
(* of its own and may redeem an invite code at gate.sh, and a session is a *)
(* signed token that the server keeps no record of.                        *)
(*                                                                         *)
(* Challenges are in memory, accounts in SQLite.  Passkeys and gate.sh are *)
(* external.                                                               *)
(***************************************************************************)
EXTENDS Integers

CONSTANTS Passkey,
          Challenge,  (* random ids                                        *)
          SignIn      (* as many sign-ins may be under way at once         *)

VARIABLES challengeStore,  (* whether a challenge is waited for; who       *)
                          (* expires stays in the map and lets nobody in   *)
          accounts,  (* passkeys that have an account                      *)
          signIn,    (* sign-ins between two awaits                        *)
          sessions,  (* whose browsers hold a token                        *)
          letIn      (* history: sign-ins a challenge was good for         *)

chatAccountVars == <<challengeStore, accounts, signIn, sessions, letIn>>

NotSigningIn == [pc |-> "idle"]

ChatAccountsTypeOK ==
  /\ challengeStore \in [Challenge -> {"new", "open", "gone"}]
  /\ accounts \subseteq Passkey /\ sessions \subseteq Passkey
  /\ signIn \in [SignIn -> {NotSigningIn} \cup
       [pc : {"verify", "redeem"}, how : {"register", "login"}, key : Passkey, with : Challenge]]
  /\ letIn \in [Challenge -> Nat]

ChatAccountsInit ==
  /\ challengeStore = [h \in Challenge |-> "new"]
  /\ accounts = {} /\ sessions = {}
  /\ signIn = [s \in SignIn |-> NotSigningIn]
  /\ letIn = [h \in Challenge |-> 0]

-----------------------------------------------------------------------------
(* POST /auth/register/options and /auth/login/options                     *)
OfferChallenge(h) ==
  /\ challengeStore[h] = "new"
  /\ challengeStore' = [challengeStore EXCEPT ![h] = "open"]
  /\ UNCHANGED <<accounts, signIn, sessions, letIn>>

ChallengeExpires(h) ==
  /\ challengeStore[h] = "open"
  /\ challengeStore' = [challengeStore EXCEPT ![h] = "gone"]
  /\ UNCHANGED <<accounts, signIn, sessions, letIn>>

(* Broken: the challenge is dropped when the passkey has been verified.    *)
KeptMeanwhile(h) == challengeStore

TakeChallenge(h) == [challengeStore EXCEPT ![h] = "gone"]

(* A credential comes with the challenge it has signed: the challenge is   *)
(* taken, a login looks the account up, and the signature is verified.     *)
BeginSignIn(s, how, k, h) ==
  /\ signIn[s] = NotSigningIn
  /\ challengeStore[h] = "open"
  /\ challengeStore' = TakeChallenge(h)
  /\ signIn' = [signIn EXCEPT ![s] =
       IF how = "login" => k \in accounts
       THEN [pc |-> "verify", how |-> how, key |-> k, with |-> h] ELSE NotSigningIn]
  /\ UNCHANGED <<accounts, sessions, letIn>>

EndSignIn(s) == signIn' = [signIn EXCEPT ![s] = NotSigningIn]

(* createAccount turns down a passkey that has an account.                 *)
Register(s) ==
  LET k == signIn[s].key IN
  IF k \in accounts THEN EndSignIn(s) /\ UNCHANGED <<accounts, sessions>>
  ELSE /\ accounts' = accounts \cup {k}
       /\ \/ signIn' = [signIn EXCEPT ![s].pc = "redeem"] /\ UNCHANGED sessions
          \/ EndSignIn(s) /\ sessions' = sessions \cup {k}  (* no invite code *)

Verified(s) ==
  /\ signIn[s].pc = "verify"
  /\ letIn' = [letIn EXCEPT ![signIn[s].with] = @ + 1]
  /\ IF signIn[s].how = "register" THEN Register(s)
     ELSE /\ EndSignIn(s) /\ sessions' = sessions \cup {signIn[s].key}
          /\ UNCHANGED accounts
  /\ UNCHANGED challengeStore

NotVerified(s) ==
  /\ signIn[s].pc = "verify"
  /\ EndSignIn(s)
  /\ UNCHANGED <<challengeStore, accounts, sessions, letIn>>

(* gate.sh redeems the code, refuses, or is not reached: the account is    *)
(* signed in in any case, with a warning.                                  *)
GateAnswers(s) ==
  /\ signIn[s].pc = "redeem"
  /\ EndSignIn(s) /\ sessions' = sessions \cup {signIn[s].key}
  /\ UNCHANGED <<challengeStore, accounts, letIn>>

(* The cookie's seven days are over, or the browser drops it.              *)
SessionEnds(k) ==
  /\ k \in sessions /\ sessions' = sessions \ {k}
  /\ UNCHANGED <<challengeStore, accounts, signIn, letIn>>

ChatRestarts ==
  /\ challengeStore' = [h \in Challenge |-> IF challengeStore[h] = "new" THEN "new" ELSE "gone"]
  /\ signIn' = [s \in SignIn |-> NotSigningIn]
  /\ UNCHANGED <<accounts, sessions, letIn>>

ChatAccountsNext ==
  \/ \E h \in Challenge : OfferChallenge(h) \/ ChallengeExpires(h)
  \/ \E s \in SignIn :
       \/ Verified(s) \/ NotVerified(s) \/ GateAnswers(s)
       \/ \E how \in {"register", "login"}, k \in Passkey, h \in Challenge : BeginSignIn(s, how, k, h)
  \/ \E k \in Passkey : SessionEnds(k)
  \/ ChatRestarts

ChatAccountsSpec == ChatAccountsInit /\ [][ChatAccountsNext]_chatAccountVars

-----------------------------------------------------------------------------
(* A challenge lets nobody in twice, however often and however fast it is  *)
(* answered, and whoever has a session has an account, after restarts too  *)
(* (auth.ts:93-248, accounts.ts:52-92).                                    *)
SignInsHold ==
  /\ \A h \in Challenge : letIn[h] <= 1
  /\ sessions \subseteq accounts
=============================================================================
