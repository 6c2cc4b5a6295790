----------------------------- MODULE PrimFetch ------------------------------
(***************************************************************************)
(* The paying fetch of x402-client (packages/x402-client/src/client.ts),   *)
(* against the two ways the services take a payment: behind the gate the   *)
(* handler runs first and a success is settled, and POST                   *)
(* /v1/domains/register (packages/domain/src/index.ts) settles first.      *)
(*                                                                         *)
(* The facilitator and the chain are external.  Every authorization has a  *)
(* nonce of its own and lands at most once.  A settlement that is reported *)
(* to have failed may be with the chain nevertheless.                      *)
(***************************************************************************)
EXTENDS Integers, FiniteSets

CONSTANTS Fetch,            (* calls of the fetch that createPrimFetch made *)
          Charge,           (* what routes ask for                         *)
          MaxPayment,       (* config.maxPayment                           *)
          RetrySettlement,  (* config.retrySettlement                      *)
          KeystoreUsed      (* config.keystore, and no signer              *)

ASSUME FetchAssumption ==
  /\ Charge \subseteq Nat /\ MaxPayment \in Nat
  /\ RetrySettlement \in BOOLEAN /\ KeystoreUsed \in BOOLEAN

VARIABLES fetch,      (* the calls                                         *)
          keystore,   (* keystoreClientPromise, of all calls               *)
          auth,       (* external: what has become of the authorizations   *)
          misled      (* history: authorizations that were reported to     *)
                      (* have failed while they were with the chain        *)

fetchVars == <<fetch, keystore, auth, misled>>

Answers == {"none", "ok", "4xx", "5xx", "402", "unsettled", "threw"}

FetchTypeOK ==
  /\ fetch \in [Fetch ->
       [pc : {"idle", "asked", "key", "sign", "paying", "handling", "answered", "waiting", "done"},
        route : {"gate", "register"}, charge : Charge \cup {0}, signed : 0..2, answer : Answers]]
  /\ keystore \in {"none", "loading", "ready", "rejected"}
  /\ auth \in [Fetch -> [1..2 -> {"none", "signed", "pending", "landed", "void"}]]
  /\ misled \subseteq Fetch \X (1..2)

FetchInit ==
  /\ fetch = [f \in Fetch |->
       [pc |-> "idle", route |-> "gate", charge |-> 0, signed |-> 0, answer |-> "none"]]
  /\ keystore = IF KeystoreUsed THEN "none" ELSE "ready"
  /\ auth = [f \in Fetch |-> [i \in 1..2 |-> "none"]]
  /\ misled = {}

-----------------------------------------------------------------------------
At(f, place) == fetch[f].pc = place
Go(f, place) == fetch' = [fetch EXCEPT ![f].pc = place]
Ends(f, answer) == fetch' = [fetch EXCEPT ![f] = [@ EXCEPT !.pc = "done", !.answer = answer]]

FirstRequest(f, route, n) ==
  /\ At(f, "idle")
  /\ fetch' = [fetch EXCEPT ![f] = [@ EXCEPT !.pc = "asked", !.route = route, !.charge = n]]
  /\ UNCHANGED <<keystore, auth, misled>>

Affordable(f) == fetch[f].charge <= MaxPayment

(* Any other answer than a 402 with its header is the caller's.  The first *)
(* call that needs it starts the loading of the key.                       *)
PaymentRequired(f) ==
  /\ At(f, "asked")
  /\ \/ Ends(f, "ok") /\ UNCHANGED keystore
     \/ Ends(f, "402") /\ UNCHANGED keystore
     \/ ~ Affordable(f) /\ Ends(f, "threw") /\ UNCHANGED keystore
     \/ /\ Affordable(f)
        /\ Go(f, "key")
        /\ keystore' = IF keystore = "none" THEN "loading" ELSE keystore
  /\ UNCHANGED <<auth, misled>>

(* The promise is kept, also when it is rejected.                          *)
KeystoreLoads ==
  /\ keystore = "loading" /\ keystore' \in {"ready", "rejected"}
  /\ UNCHANGED <<fetch, auth, misled>>

HaveKey(f) ==
  /\ At(f, "key")
  /\ \/ keystore = "ready" /\ Go(f, "sign")
     \/ keystore = "rejected" /\ Ends(f, "threw")
  /\ UNCHANGED <<keystore, auth, misled>>

(* A fresh authorization for what the first answer required, and the       *)
(* request with it.                                                        *)
Sign(f) ==
  /\ fetch[f].pc \in {"sign", "waiting"}
  /\ LET i == fetch[f].signed + 1 IN
     /\ fetch' = [fetch EXCEPT ![f] = [@ EXCEPT !.pc = "paying", !.signed = i, !.answer = "none"]]
     /\ auth' = [auth EXCEPT ![f][i] = "signed"]
  /\ UNCHANGED <<keystore, misled>>

-----------------------------------------------------------------------------
Answer(f, a) == fetch' = [fetch EXCEPT ![f] = [@ EXCEPT !.pc = "answered", !.answer = a]]

(* Nothing is settled: the payment does not verify, the quote has expired, *)
(* or the handler fails.                                                   *)
TurnDown(f) ==
  /\ At(f, "paying")
  /\ \E a \in {"402", "4xx", "5xx"} : Answer(f, a)
  /\ UNCHANGED <<keystore, auth, misled>>

(* External: the facilitator, and what the service answers.                *)
SettleAuth(f) ==
  /\ At(f, "paying")
  /\ LET i == fetch[f].signed
         Failed == Answer(f, IF fetch[f].route = "gate" THEN "unsettled" ELSE "5xx") IN
     \/ /\ auth' = [auth EXCEPT ![f][i] = "landed"]
        /\ IF fetch[f].route = "gate" THEN Answer(f, "ok") ELSE Go(f, "handling")
        /\ UNCHANGED misled
     \/ auth' = [auth EXCEPT ![f][i] = "void"] /\ Failed /\ UNCHANGED misled
     \/ /\ auth' = [auth EXCEPT ![f][i] = "pending"] /\ Failed
        /\ misled' = misled \cup {<<f, i>>}
  /\ UNCHANGED keystore

(* registerDomain, after its payment.                                      *)
HandleRegister(f) ==
  /\ At(f, "handling")
  /\ \E a \in {"ok", "4xx", "5xx"} : Answer(f, a)
  /\ UNCHANGED <<keystore, auth, misled>>

(* External: what is with the chain lands, or is reverted.                 *)
ChainDecides(f, i) ==
  /\ auth[f][i] = "pending"
  /\ \E a \in {"landed", "void"} : auth' = [auth EXCEPT ![f][i] = a]
  /\ UNCHANGED <<fetch, keystore, misled>>

-----------------------------------------------------------------------------
Reads(f, again) ==
  /\ At(f, "answered")
  /\ IF again /\ RetrySettlement /\ fetch[f].signed = 1 THEN Go(f, "waiting") ELSE Go(f, "done")
  /\ UNCHANGED <<keystore, auth, misled>>

(* Broken: any failure is worth a second payment.                          *)
RetryWhatFailed(f) == Reads(f, fetch[f].answer \in {"unsettled", "402", "5xx"})

(* The client waits for two seconds and pays again only if the settlement  *)
(* failed; what follows on the second payment is the caller's.             *)
ReadAnswer(f) == Reads(f, fetch[f].answer = "unsettled")

(* The connection breaks: fetch throws, and nothing is tried again.        *)
LoseConnection(f) ==
  /\ fetch[f].pc \in {"asked", "answered"}
  /\ Ends(f, "threw")
  /\ UNCHANGED <<keystore, auth, misled>>

FetchStep(f) ==
  \/ \E route \in {"gate", "register"}, n \in Charge : FirstRequest(f, route, n)
  \/ PaymentRequired(f) \/ HaveKey(f) \/ Sign(f)
  \/ TurnDown(f) \/ SettleAuth(f) \/ HandleRegister(f)
  \/ ReadAnswer(f) \/ LoseConnection(f)
  \/ \E i \in 1..2 : ChainDecides(f, i)

FetchNext == (\E f \in Fetch : FetchStep(f)) \/ KeystoreLoads

FetchSpec == FetchInit /\ [][FetchNext]_fetchVars

-----------------------------------------------------------------------------
Landed(f) == {i \in 1..2 : auth[f][i] = "landed"}

(* A call pays once at most, unless it was told that a settlement failed   *)
(* which had not; never more than its cap at a time; and what it got after *)
(* signing it has paid for (client.ts:128-252, index.ts:138-258).          *)
PaidAsAgreed ==
  \A f \in Fetch :
    /\ Cardinality(Landed(f)) > 1 => <<f, 1>> \in misled
    /\ Landed(f) # {} => fetch[f].charge <= MaxPayment
    /\ fetch[f].answer = "ok" /\ fetch[f].signed > 0 => fetch[f].signed \in Landed(f)
=============================================================================
