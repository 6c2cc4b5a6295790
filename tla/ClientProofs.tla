---------------------------- MODULE ClientProofs ----------------------------
(***************************************************************************)
(* What runs at the agent's, for any number of calls, keys and commands:   *)
(* the paying fetch never pays twice unless it was misled, the keystore's  *)
(* files open and resolve, and the chat application lets in whom it saw    *)
(* and keeps the answers it was given.                                     *)
(***************************************************************************)
EXTENDS PrimFetch, Keystore, ChatAccounts, ChatStream,
        FiniteSetTheorems, TLAPS

(* What an authorization that was signed must be like where the call is.   *)
Paying(f) ==
  LET x == fetch[f] IN
  /\ x.signed = 0 => auth[f][1] = "none"
  /\ x.signed # 2 => auth[f][2] = "none"
  /\ x.pc \in {"idle", "asked", "key", "sign"} => x.signed = 0
  /\ x.pc \in {"paying", "handling", "answered", "waiting"} => x.signed # 0
  /\ x.pc = "paying" => auth[f][x.signed] = "signed"
  /\ x.pc = "handling" => auth[f][x.signed] = "landed"
  /\ x.pc = "waiting" => x.signed = 1 /\ x.answer = "unsettled"

(* An authorization said to have failed has, or somebody was misled.       *)
Given(f, i) == auth[f][i] = "void" \/ <<f, i>> \in misled

Reported(f) ==
  LET x == fetch[f] IN
  /\ x.answer = "unsettled" => x.signed # 0 /\ Given(f, x.signed)
  /\ x.signed = 2 => Given(f, 1)
  /\ \A i \in 1..2 : auth[f][i] = "pending" => <<f, i>> \in misled
  /\ x.answer = "ok" /\ x.signed # 0 => auth[f][x.signed] = "landed"

Capped(f) ==
  fetch[f].signed # 0 \/ fetch[f].pc \in {"key", "sign"} => fetch[f].charge <= MaxPayment

FetchInv ==
  /\ FetchTypeOK
  /\ \A f \in Fetch : Paying(f) /\ Reported(f) /\ Capped(f)

LEMMA FetchInvInit == FetchInit => FetchInv
<1> SUFFICES ASSUME FetchInit PROVE FetchInv
  OBVIOUS
<1>1. FetchTypeOK
  BY FetchAssumption DEF FetchAssumption, FetchInit, FetchTypeOK, Answers
<1>2. ASSUME NEW f \in Fetch PROVE Paying(f) /\ Reported(f) /\ Capped(f)
  <2>1. /\ fetch[f].pc = "idle" /\ fetch[f].signed = 0 /\ fetch[f].answer = "none"
        /\ \A i \in 1..2 : auth[f][i] = "none"
    BY DEF FetchInit
  <2>2. Paying(f)
    BY <2>1 DEF Paying
  <2>3. Reported(f)
    BY <2>1 DEF Reported
  <2>4. Capped(f)
    BY <2>1 DEF Capped
  <2>5. QED
    BY <2>2, <2>3, <2>4
<1>3. QED
  BY <1>1, <1>2 DEF FetchInv

(* A step of one call leaves what holds of the others.                     *)
LEMMA OtherFetches ==
  ASSUME FetchInv, NEW f \in Fetch, FetchTypeOK',
         \A g \in Fetch \ {f} : fetch'[g] = fetch[g] /\ auth'[g] = auth[g],
         misled \subseteq misled',
         (Paying(f) /\ Reported(f) /\ Capped(f))'
  PROVE  FetchInv'
<1>1. ASSUME NEW g \in Fetch \ {f} PROVE (Paying(g) /\ Reported(g) /\ Capped(g))'
  <2>1. Paying(g) /\ Reported(g) /\ Capped(g) /\ fetch'[g] = fetch[g] /\ auth'[g] = auth[g]
    BY DEF FetchInv
  <2>2. Paying(g)'
    BY <2>1 DEF Paying
  <2>3. \A i : Given(g, i) => Given(g, i)'
    BY <2>1 DEF Given
  <2>4. Reported(g)'
    BY <2>1, <2>3 DEF Reported
  <2>5. Capped(g)'
    BY <2>1 DEF Capped
  <2>6. QED
    BY <2>2, <2>4, <2>5
<1>2. QED
  BY <1>1 DEF FetchInv

(* A step of one call that neither signs nor settles: it is enough to look *)
(* at where the call is then.                                              *)
LEMMA FetchGoes ==
  ASSUME FetchInv, NEW f \in Fetch, FetchTypeOK',
         \A g \in Fetch \ {f} : fetch'[g] = fetch[g],
         UNCHANGED <<auth, misled>>,
         fetch'[f].signed = fetch[f].signed, fetch'[f].charge = fetch[f].charge,
         fetch'[f].answer = fetch[f].answer \/ fetch'[f].answer \in {"threw", "402", "4xx", "5xx"}
           \/ (fetch'[f].answer = "ok" /\
                (fetch[f].signed # 0 => auth[f][fetch[f].signed] = "landed")),
         Paying(f)', Capped(f)'
  PROVE  FetchInv'
<1>1. Reported(f) /\ auth'[f] = auth[f] /\ \A i : Given(f, i)' = Given(f, i)
  BY DEF FetchInv, Given
<1>2. Reported(f)'
  BY <1>1 DEF Reported
<1>3. QED
  BY <1>2, OtherFetches

LEMMA RequestInv ==
  ASSUME FetchInv, NEW f \in Fetch, NEW route \in {"gate", "register"}, NEW n \in Charge,
         FirstRequest(f, route, n)
  PROVE  FetchInv'
<1>1. FetchTypeOK /\ Paying(f) /\ Reported(f) /\ fetch[f].pc = "idle"
  BY DEF FetchInv, FirstRequest, At
<1>2. FetchTypeOK'
  BY <1>1 DEF FirstRequest, FetchTypeOK
<1>3. /\ fetch'[f].pc = "asked" /\ fetch'[f].signed = fetch[f].signed
      /\ fetch'[f].answer = fetch[f].answer
      /\ UNCHANGED <<auth, misled>>
      /\ \A g \in Fetch \ {f} : fetch'[g] = fetch[g] /\ auth'[g] = auth[g]
  BY <1>1 DEF FirstRequest, FetchTypeOK
<1>4. fetch[f].signed = 0
  BY <1>1 DEF Paying
<1>5. Paying(f)'
  BY <1>1, <1>3, <1>4 DEF Paying
<1>6. Capped(f)'
  BY <1>3, <1>4 DEF Capped
<1>7. Reported(f)'
  BY <1>1, <1>3, <1>4 DEF Reported, Given
<1>8. QED
  BY <1>2, <1>3, <1>5, <1>6, <1>7, OtherFetches

(* A call that ends before it has signed anything.                         *)
LEMMA EndsInv ==
  ASSUME FetchInv, NEW f \in Fetch, NEW a \in {"ok", "402", "threw"}, Ends(f, a),
         a # "threw" => fetch[f].pc = "asked",
         keystore' \in {"none", "loading", "ready", "rejected"}, UNCHANGED <<auth, misled>>
  PROVE  FetchInv'
<1>1. FetchTypeOK /\ Paying(f) /\ Capped(f)
  BY DEF FetchInv
<1>2. FetchTypeOK'
  BY <1>1 DEF Ends, FetchTypeOK, Answers
<1>3. /\ fetch'[f].pc = "done" /\ fetch'[f].answer = a /\ fetch'[f].signed = fetch[f].signed
      /\ fetch'[f].charge = fetch[f].charge
      /\ \A g \in Fetch \ {f} : fetch'[g] = fetch[g]
  BY <1>1 DEF Ends, FetchTypeOK
<1>4. Paying(f)'
  BY <1>1, <1>3 DEF Paying
<1>5. Capped(f)'
  BY <1>1, <1>3 DEF Capped
<1>6. fetch[f].pc = "asked" => fetch[f].signed = 0
  BY <1>1 DEF Paying
<1>7. a = "ok" => (fetch[f].signed # 0 => auth[f][fetch[f].signed] = "landed")
  BY <1>6
<1>8. QED
  BY <1>2, <1>3, <1>4, <1>5, <1>7, FetchGoes

(* A call that only moves on.                                              *)
LEMMA GoInv ==
  ASSUME FetchInv, NEW f \in Fetch, NEW place \in {"key", "sign", "waiting", "done"}, Go(f, place),
         keystore' \in {"none", "loading", "ready", "rejected"}, UNCHANGED <<auth, misled>>,
         \/ place = "key" /\ fetch[f].pc = "asked" /\ Affordable(f)
         \/ place = "sign" /\ fetch[f].pc = "key"
         \/ place = "waiting" /\ fetch[f].signed = 1 /\ fetch[f].answer = "unsettled"
         \/ place = "done"
  PROVE  FetchInv'
<1>1. FetchTypeOK /\ Paying(f) /\ Capped(f)
  BY DEF FetchInv
<1>2. FetchTypeOK'
  BY <1>1 DEF Go, FetchTypeOK
<1>3. /\ fetch'[f].pc = place /\ fetch'[f].answer = fetch[f].answer
      /\ fetch'[f].signed = fetch[f].signed /\ fetch'[f].charge = fetch[f].charge
      /\ \A g \in Fetch \ {f} : fetch'[g] = fetch[g]
  BY <1>1 DEF Go, FetchTypeOK
<1>4. Paying(f)'
  <2>1. CASE place = "key" \/ place = "sign"
    BY <1>1, <1>3, <2>1 DEF Paying
  <2>2. CASE place = "waiting"
    BY <1>1, <1>3, <2>2 DEF Paying
  <2>3. CASE place = "done"
    BY <1>1, <1>3, <2>3 DEF Paying
  <2>4. QED
    BY <2>1, <2>2, <2>3
<1>5. Capped(f)'
  BY <1>1, <1>3 DEF Capped, Affordable
<1>6. QED
  BY <1>2, <1>3, <1>4, <1>5, FetchGoes

(* Nothing is signed again but where it is known to have failed, or the    *)
(* call was misled.                                                        *)
LEMMA SignInv ==
  ASSUME FetchInv, NEW f \in Fetch, Sign(f)
  PROVE  FetchInv'
<1>1. FetchTypeOK /\ Paying(f) /\ Reported(f) /\ Capped(f)
  BY DEF FetchInv
<1>2. PICK i : i = fetch[f].signed + 1
  OBVIOUS
<1>3. \/ i = 1 /\ fetch[f].signed = 0 /\ fetch[f].pc = "sign"
      \/ i = 2 /\ fetch[f].signed = 1 /\ fetch[f].pc = "waiting"
  <2>1. fetch[f].pc \in {"sign", "waiting"}
    BY DEF Sign
  <2>2. CASE fetch[f].pc = "sign"
    BY <1>1, <1>2, <2>2 DEF Paying
  <2>3. CASE fetch[f].pc = "waiting"
    BY <1>1, <1>2, <2>3 DEF Paying
  <2>4. QED
    BY <2>1, <2>2, <2>3
<1>4. /\ fetch'[f].pc = "paying" /\ fetch'[f].signed = i /\ fetch'[f].answer = "none"
      /\ fetch'[f].charge = fetch[f].charge /\ UNCHANGED misled
      /\ \A g \in Fetch \ {f} : fetch'[g] = fetch[g] /\ auth'[g] = auth[g]
  BY <1>1, <1>2 DEF Sign, FetchTypeOK
<1>5. auth'[f] = [auth[f] EXCEPT ![i] = "signed"]
  BY <1>1, <1>2 DEF Sign, FetchTypeOK
<1>6. auth'[f][i] = "signed" /\ \A j \in 1..2 : j # i => auth'[f][j] = auth[f][j]
  BY <1>1, <1>3, <1>5 DEF FetchTypeOK
<1>7. FetchTypeOK'
  <2>1. auth' \in [Fetch -> [1..2 -> {"none", "signed", "pending", "landed", "void"}]]
    BY <1>1, <1>2, <1>3 DEF Sign, FetchTypeOK
  <2>2. fetch' = [fetch EXCEPT ![f] = [@ EXCEPT !.pc = "paying", !.signed = i, !.answer = "none"]]
    BY <1>2 DEF Sign
  <2>3. UNCHANGED <<keystore, misled>> /\ i \in 0..2
    BY <1>3 DEF Sign
  <2>4. fetch' \in [Fetch ->
          [pc : {"idle", "asked", "key", "sign", "paying", "handling", "answered", "waiting", "done"},
           route : {"gate", "register"}, charge : Charge \cup {0}, signed : 0..2, answer : Answers]]
    <3>1. "none" \in Answers
      BY DEF Answers
    <3>2. QED
      BY <1>1, <2>2, <2>3, <3>1 DEF FetchTypeOK
  <2>5. QED
    BY <1>1, <2>1, <2>3, <2>4 DEF FetchTypeOK
<1>8. Paying(f)'
  BY <1>1, <1>3, <1>4, <1>6 DEF Paying
<1>9. i = 2 => Given(f, 1)
  BY <1>1, <1>3 DEF Paying, Reported
<1>10. Reported(f)'
  <2>1. i = 2 => Given(f, 1)'
    BY <1>3, <1>4, <1>6, <1>9 DEF Given
  <2>2. \A j \in 1..2 : auth'[f][j] = "pending" => <<f, j>> \in misled'
    BY <1>1, <1>4, <1>6 DEF Reported
  <2>3. QED
    BY <2>1, <2>2, <1>3, <1>4 DEF Reported
<1>11. Capped(f)'
  BY <1>1, <1>3, <1>4 DEF Capped
<1>12. QED
  BY <1>4, <1>7, <1>8, <1>10, <1>11, OtherFetches

(* The answer to a payment that was not settled.                           *)
LEMMA TurnDownInv ==
  ASSUME FetchInv, NEW f \in Fetch, NEW a \in {"402", "4xx", "5xx"}, Answer(f, a),
         fetch[f].pc \in {"paying", "handling"}, UNCHANGED <<keystore, auth, misled>>
  PROVE  FetchInv'
<1>1. FetchTypeOK /\ Paying(f) /\ Capped(f)
  BY DEF FetchInv
<1>2. FetchTypeOK'
  BY <1>1 DEF Answer, FetchTypeOK, Answers
<1>3. /\ fetch'[f].pc = "answered" /\ fetch'[f].answer = a /\ fetch'[f].signed = fetch[f].signed
      /\ fetch'[f].charge = fetch[f].charge
      /\ \A g \in Fetch \ {f} : fetch'[g] = fetch[g]
  BY <1>1 DEF Answer, FetchTypeOK
<1>4. Paying(f)'
  BY <1>1, <1>3 DEF Paying
<1>5. Capped(f)'
  BY <1>1, <1>3 DEF Capped
<1>6. QED
  BY <1>2, <1>3, <1>4, <1>5, FetchGoes

(* What register's handler answers has been paid for.                      *)
LEMMA HandleInv ==
  ASSUME FetchInv, NEW f \in Fetch, HandleRegister(f)
  PROVE  FetchInv'
<1>1. FetchTypeOK /\ Paying(f) /\ Capped(f) /\ fetch[f].pc = "handling"
  BY DEF FetchInv, HandleRegister, At
<1>2. PICK a \in {"ok", "4xx", "5xx"} : Answer(f, a)
  BY DEF HandleRegister
<1>3. UNCHANGED <<keystore, auth, misled>>
  BY DEF HandleRegister
<1>4. FetchTypeOK'
  BY <1>1, <1>2, <1>3 DEF Answer, FetchTypeOK, Answers
<1>5. /\ fetch'[f].pc = "answered" /\ fetch'[f].answer = a /\ fetch'[f].signed = fetch[f].signed
      /\ fetch'[f].charge = fetch[f].charge
      /\ \A g \in Fetch \ {f} : fetch'[g] = fetch[g]
  BY <1>1, <1>2 DEF Answer, FetchTypeOK
<1>6. Paying(f)' /\ auth[f][fetch[f].signed] = "landed"
  BY <1>1, <1>3, <1>5 DEF Paying
<1>7. Capped(f)'
  BY <1>1, <1>5 DEF Capped
<1>8. QED
  BY <1>3, <1>4, <1>5, <1>6, <1>7, FetchGoes

(* Settling: an authorization that is not where it was said to be counts   *)
(* as misleading.                                                          *)
LEMMA SettleInv ==
  ASSUME FetchInv, NEW f \in Fetch, SettleAuth(f)
  PROVE  FetchInv'
<1>1. FetchTypeOK /\ Paying(f) /\ Reported(f) /\ Capped(f) /\ fetch[f].pc = "paying"
  BY DEF FetchInv, SettleAuth, At
<1>2. PICK i : i = fetch[f].signed
  OBVIOUS
<1>3. i \in 1..2 /\ i # 0
  BY <1>1, <1>2 DEF Paying, FetchTypeOK
<1>4. PICK v \in {"landed", "void", "pending"} :
        /\ auth' = [auth EXCEPT ![f][i] = v]
        /\ misled' = IF v = "pending" THEN misled \cup {<<f, i>>} ELSE misled
        /\ \/ v = "landed" /\ (Answer(f, "ok") \/ Go(f, "handling"))
           \/ v # "landed" /\ (Answer(f, "unsettled") \/ Answer(f, "5xx"))
        /\ UNCHANGED keystore
  BY <1>2 DEF SettleAuth
<1>5. auth' \in [Fetch -> [1..2 -> {"none", "signed", "pending", "landed", "void"}]]
  BY <1>1, <1>3, <1>4 DEF FetchTypeOK
<1>6. misled' \subseteq Fetch \X (1..2) /\ misled \subseteq misled'
  BY <1>1, <1>3, <1>4 DEF FetchTypeOK
<1>7. FetchTypeOK'
  <2>1. fetch' \in [Fetch ->
          [pc : {"idle", "asked", "key", "sign", "paying", "handling", "answered", "waiting", "done"},
           route : {"gate", "register"}, charge : Charge \cup {0}, signed : 0..2, answer : Answers]]
    <3>1. CASE Go(f, "handling")
      BY <1>1, <3>1 DEF Go, FetchTypeOK
    <3>2. ASSUME NEW a \in {"ok", "unsettled", "5xx"}, Answer(f, a)
          PROVE  fetch' \in [Fetch ->
            [pc : {"idle", "asked", "key", "sign", "paying", "handling", "answered", "waiting", "done"},
             route : {"gate", "register"}, charge : Charge \cup {0}, signed : 0..2,
             answer : Answers]]
      <4>1. a \in Answers
        BY DEF Answers
      <4>2. QED
        BY <1>1, <3>2, <4>1 DEF Answer, FetchTypeOK
    <3>3. QED
      BY <1>4, <3>1, <3>2
  <2>2. QED
    BY <1>1, <1>4, <1>5, <1>6, <2>1 DEF FetchTypeOK
<1>8. /\ fetch'[f].signed = i /\ fetch'[f].charge = fetch[f].charge
      /\ \/ v = "landed" /\ fetch'[f].pc = "answered" /\ fetch'[f].answer = "ok"
         \/ v = "landed" /\ fetch'[f].pc = "handling" /\ fetch'[f].answer = fetch[f].answer
         \/ v # "landed" /\ fetch'[f].pc = "answered" /\ fetch'[f].answer \in {"unsettled", "5xx"}
      /\ \A g \in Fetch \ {f} : fetch'[g] = fetch[g]
  <2>1. CASE v = "landed" /\ Go(f, "handling")
    BY <1>1, <1>2, <2>1 DEF Go, FetchTypeOK
  <2>2. ASSUME NEW a \in {"ok", "unsettled", "5xx"}, Answer(f, a),
               (v = "landed") <=> (a = "ok")
        PROVE  /\ fetch'[f].signed = i /\ fetch'[f].charge = fetch[f].charge
               /\ fetch'[f].pc = "answered" /\ fetch'[f].answer = a
               /\ \A g \in Fetch \ {f} : fetch'[g] = fetch[g]
    BY <1>1, <1>2, <2>2 DEF Answer, FetchTypeOK
  <2>3. QED
    BY <1>4, <2>1, <2>2
<1>9. /\ auth'[f][i] = v /\ \A j \in 1..2 : j # i => auth'[f][j] = auth[f][j]
      /\ \A g \in Fetch \ {f} : auth'[g] = auth[g]
  BY <1>1, <1>3, <1>4 DEF FetchTypeOK
<1>10. Paying(f)'
  BY <1>1, <1>2, <1>3, <1>8, <1>9 DEF Paying
<1>11. Given(f, i)' <=> v # "landed" \/ <<f, i>> \in misled'
  BY <1>4, <1>9 DEF Given
<1>12. Reported(f)'
  <2>1. fetch[f].signed = 2 => Given(f, 1)'
    BY <1>1, <1>2, <1>6, <1>9 DEF Reported, Given
  <2>2. \A j \in 1..2 : auth'[f][j] = "pending" => <<f, j>> \in misled'
    BY <1>1, <1>4, <1>6, <1>9 DEF Reported
  <2>3. fetch'[f].answer = "unsettled" => Given(f, i)'
    <3>1. fetch[f].answer = "unsettled" => <<f, i>> \in misled'
      BY <1>1, <1>2, <1>6 DEF Paying, Reported, Given
    <3>2. QED
      BY <1>8, <1>11, <3>1
  <2>4. fetch'[f].answer = "ok" => auth'[f][i] = "landed"
    BY <1>1, <1>2, <1>3, <1>8, <1>9 DEF Reported, Paying
  <2>5. QED
    BY <2>1, <2>2, <2>3, <2>4, <1>2, <1>3, <1>8 DEF Reported
<1>13. Capped(f)'
  BY <1>1, <1>2, <1>3, <1>8 DEF Capped
<1>14. QED
  BY <1>6, <1>7, <1>8, <1>9, <1>10, <1>12, <1>13, OtherFetches

(* What is with the chain was said to have failed.                         *)
LEMMA ChainInv ==
  ASSUME FetchInv, NEW f \in Fetch, NEW i \in 1..2, ChainDecides(f, i)
  PROVE  FetchInv'
<1>1. FetchTypeOK /\ Paying(f) /\ Reported(f) /\ Capped(f) /\ auth[f][i] = "pending"
  BY DEF FetchInv, ChainDecides
<1>2. PICK v \in {"landed", "void"} : auth' = [auth EXCEPT ![f][i] = v]
  BY DEF ChainDecides
<1>3. UNCHANGED <<fetch, keystore, misled>>
  BY DEF ChainDecides
<1>4. FetchTypeOK'
  BY <1>1, <1>2, <1>3 DEF FetchTypeOK
<1>5. /\ auth'[f][i] = v /\ \A j \in 1..2 : j # i => auth'[f][j] = auth[f][j]
      /\ \A g \in Fetch \ {f} : auth'[g] = auth[g]
  BY <1>1, <1>2 DEF FetchTypeOK
<1>6. Paying(f)'
  <2>1. fetch[f].signed = 0 => auth[f][1] = "none"
    BY <1>1 DEF Paying
  <2>2. auth'[f][1] = auth[f][1] \/ i = 1
    BY <1>5
  <2>3. auth'[f][2] = auth[f][2] \/ i = 2
    BY <1>5
  <2>4. fetch[f].signed = i => fetch[f].pc \notin {"paying", "handling"}
    BY <1>1 DEF Paying
  <2>5. fetch[f].pc \in {"paying", "handling"} => fetch[f].signed \in (1..2) \ {i}
    BY <1>1, <2>4 DEF Paying, FetchTypeOK
  <2>6. fetch[f].pc \in {"paying", "handling"} => auth'[f][fetch[f].signed] = auth[f][fetch[f].signed]
    BY <1>5, <2>5
  <2>7. QED
    BY <1>1, <1>3, <2>1, <2>2, <2>3, <2>6 DEF Paying
<1>7. \A j \in 1..2 : Given(f, j) => Given(f, j)'
  BY <1>1, <1>3, <1>5 DEF Given, Reported
<1>8. fetch[f].signed # 0 => fetch[f].signed \in 1..2
  BY <1>1 DEF FetchTypeOK
<1>9. Reported(f)'
  BY <1>1, <1>3, <1>5, <1>7, <1>8 DEF Reported
<1>10. Capped(f)'
  BY <1>1, <1>3 DEF Capped
<1>11. QED
  BY <1>3, <1>4, <1>5, <1>6, <1>9, <1>10, OtherFetches

LEMMA FetchStepInv ==
  ASSUME FetchInv, NEW f \in Fetch, FetchStep(f)
  PROVE  FetchInv'
<1>1. ASSUME NEW route \in {"gate", "register"}, NEW n \in Charge, FirstRequest(f, route, n)
      PROVE  FetchInv'
  BY <1>1, RequestInv
<1>2. CASE PaymentRequired(f)
  <2>1. UNCHANGED <<auth, misled>> /\ fetch[f].pc = "asked"
    BY <1>2 DEF PaymentRequired, At
  <2>2. keystore' \in {"none", "loading", "ready", "rejected"}
    BY <1>2 DEF PaymentRequired, FetchInv, FetchTypeOK
  <2>3. CASE \E a \in {"ok", "402", "threw"} : Ends(f, a)
    BY <2>1, <2>2, <2>3, EndsInv
  <2>4. CASE Affordable(f) /\ Go(f, "key")
    BY <2>1, <2>2, <2>4, GoInv
  <2>5. QED
    BY <1>2, <2>3, <2>4 DEF PaymentRequired
<1>3. CASE HaveKey(f)
  <2>1. UNCHANGED <<keystore, auth, misled>> /\ fetch[f].pc = "key"
    BY <1>3 DEF HaveKey, At
  <2>2. keystore' \in {"none", "loading", "ready", "rejected"}
    BY <2>1 DEF FetchInv, FetchTypeOK
  <2>3. CASE Go(f, "sign")
    BY <2>1, <2>2, <2>3, GoInv
  <2>4. CASE Ends(f, "threw")
    BY <2>1, <2>2, <2>4, EndsInv
  <2>5. QED
    BY <1>3, <2>3, <2>4 DEF HaveKey
<1>4. CASE TurnDown(f)
  <2>1. UNCHANGED <<keystore, auth, misled>> /\ fetch[f].pc = "paying"
    BY <1>4 DEF TurnDown, At
  <2>2. PICK a \in {"402", "4xx", "5xx"} : Answer(f, a)
    BY <1>4 DEF TurnDown
  <2>3. QED
    BY <2>1, <2>2, TurnDownInv
<1>5. CASE ReadAnswer(f)
  <2>1. UNCHANGED <<keystore, auth, misled>>
    BY <1>5 DEF ReadAnswer, Reads
  <2>2. keystore' \in {"none", "loading", "ready", "rejected"}
    BY <2>1 DEF FetchInv, FetchTypeOK
  <2>3. CASE fetch[f].signed = 1 /\ fetch[f].answer = "unsettled" /\ Go(f, "waiting")
    BY <2>1, <2>2, <2>3, GoInv
  <2>4. CASE Go(f, "done")
    BY <2>1, <2>2, <2>4, GoInv
  <2>5. QED
    BY <1>5, <2>3, <2>4 DEF ReadAnswer, Reads
<1>6. CASE LoseConnection(f)
  <2>1. UNCHANGED <<keystore, auth, misled>> /\ Ends(f, "threw")
    BY <1>6 DEF LoseConnection
  <2>2. keystore' \in {"none", "loading", "ready", "rejected"}
    BY <2>1 DEF FetchInv, FetchTypeOK
  <2>3. QED
    BY <2>1, <2>2, EndsInv
<1>7. QED
  BY <1>1, <1>2, <1>3, <1>4, <1>5, <1>6, SignInv, SettleInv, HandleInv, ChainInv DEF FetchStep

LEMMA FetchInvStep == FetchInv /\ [FetchNext]_fetchVars => FetchInv'
<1> SUFFICES ASSUME FetchInv, [FetchNext]_fetchVars PROVE FetchInv'
  OBVIOUS
<1>1. CASE KeystoreLoads
  <2>1. UNCHANGED <<fetch, auth, misled>> /\ keystore' \in {"ready", "rejected"}
    BY <1>1 DEF KeystoreLoads
  <2>2. FetchTypeOK'
    BY <2>1 DEF FetchInv, FetchTypeOK
  <2>3. ASSUME NEW f \in Fetch PROVE (Paying(f) /\ Reported(f) /\ Capped(f))'
    BY <2>1 DEF FetchInv, Paying, Reported, Capped, Given
  <2>4. QED
    BY <2>2, <2>3 DEF FetchInv
<1>2. CASE UNCHANGED fetchVars
  <2>1. UNCHANGED <<fetch, keystore, auth, misled>>
    BY <1>2 DEF fetchVars
  <2>2. FetchTypeOK'
    BY <2>1 DEF FetchInv, FetchTypeOK
  <2>3. ASSUME NEW f \in Fetch PROVE (Paying(f) /\ Reported(f) /\ Capped(f))'
    BY <2>1 DEF FetchInv, Paying, Reported, Capped, Given
  <2>4. QED
    BY <2>2, <2>3 DEF FetchInv
<1>3. QED
  BY <1>1, <1>2, FetchStepInv DEF FetchNext

(* The types of calls and authorizations, whatever the client and the      *)
(* services do, for any number of calls (client.ts:103-252).               *)
THEOREM FetchTypeCorrect == FetchSpec => []FetchTypeOK
<1>1. FetchInv => FetchTypeOK
  BY DEF FetchInv
<1>2. QED
  BY <1>1, FetchInvInit, FetchInvStep, PTL DEF FetchSpec

LEMMA OnceUnlessMisled ==
  ASSUME FetchInv, NEW f \in Fetch, <<f, 1>> \notin misled
  PROVE  ~ Cardinality(Landed(f)) > 1
<1>1. ~ (1 \in Landed(f) /\ 2 \in Landed(f))
  <2>1. FetchTypeOK /\ Paying(f) /\ Reported(f)
    BY DEF FetchInv
  <2>2. auth[f][2] = "landed" => auth[f][1] = "void"
    BY <2>1 DEF Paying, Reported, Given
  <2>3. QED
    BY <2>2 DEF Landed
<1>2. Landed(f) \subseteq 1..2
  BY DEF Landed
<1>3. Landed(f) = {} \/ Landed(f) = {1} \/ Landed(f) = {2}
  BY <1>1, <1>2
<1>4. Cardinality(Landed(f)) \in {0, 1}
  BY <1>3, FS_EmptySet, FS_Singleton
<1>5. QED
  BY <1>4

(* A call pays twice only if it was told of a failure that was none, never *)
(* above its cap, and has paid for what it got after signing, for any      *)
(* number of calls and any prices (client.ts:128-252, index.ts:138-258).   *)
THEOREM FetchPaysAsAgreed == FetchSpec => []PaidAsAgreed
<1>1. FetchInv => PaidAsAgreed
  <2> SUFFICES ASSUME FetchInv, NEW f \in Fetch
      PROVE /\ Cardinality(Landed(f)) > 1 => <<f, 1>> \in misled
            /\ Landed(f) # {} => fetch[f].charge <= MaxPayment
            /\ fetch[f].answer = "ok" /\ fetch[f].signed > 0 => fetch[f].signed \in Landed(f)
    BY DEF PaidAsAgreed
  <2>1. FetchTypeOK /\ Paying(f) /\ Reported(f) /\ Capped(f)
    BY DEF FetchInv
  <2>2. Landed(f) # {} => fetch[f].signed # 0
    BY <2>1 DEF Landed, Paying
  <2>3. fetch[f].signed > 0 => fetch[f].signed \in 1..2 /\ fetch[f].signed # 0
    BY <2>1 DEF FetchTypeOK
  <2>4. QED
    BY <2>1, <2>2, <2>3, OnceUnlessMisled DEF Capped, Reported, Landed
<1>2. QED
  BY <1>1, FetchInvInit, FetchInvStep, PTL DEF FetchSpec

-----------------------------------------------------------------------------
(* Files are encrypted with the one device key there is, and so will those *)
(* be that are about to be written, unless two were made at once.          *)
OneDevice ==
  /\ device = devices
  /\ ~ twice =>
       /\ \A c \in Command : command[c].pc = "make" => device = 0
       /\ \A c \in Command : command[c].key \in {0, device}
       /\ \A a \in Keys : keyFile[a] \in {0, device}

(* A command that imports the first key makes it the default one.          *)
FirstIsDefault ==
  ~ raggedly =>
    /\ \A c, d \in Command : command[c].pc # "idle" /\ command[d].pc # "idle" => c = d
    /\ default # NoAddress => default \in Keys
    /\ default = NoAddress /\ ~ Importing => Keys = {}
    /\ \A c \in Command :
         /\ command[c].pc # "idle" => command[c].address \in Address
         /\ command[c].pc \in {"make", "save"} /\ default = NoAddress => Keys = {}
         /\ command[c].pc \in {"count", "default"} =>
              /\ command[c].address \in Keys
              /\ default = NoAddress => Keys = {command[c].address}

KeystoreInv == KeystoreTypeOK /\ OneDevice /\ FirstIsDefault

LEMMA KeystoreInvInit == KeystoreInit => KeystoreInv
<1> SUFFICES ASSUME KeystoreInit PROVE KeystoreInv
  OBVIOUS
<1>1. KeystoreTypeOK
  <2>1. NoCommand \in [pc : {"idle", "make", "save", "count", "default"},
                       address : Address \cup {NoAddress}, key : 0..0]
    BY DEF NoCommand
  <2>2. command \in [Command ->
          [pc : {"idle", "make", "save", "count", "default"},
           address : Address \cup {NoAddress}, key : 0..devices]]
    BY <2>1 DEF KeystoreInit
  <2>3. keyFile \in [Address -> {NoFile} \cup 0..devices]
    BY DEF KeystoreInit
  <2>4. commands \in 0..CommandLimit
    BY KeystoreAssumption DEF KeystoreAssumption, KeystoreInit
  <2>5. device \in 0..devices /\ devices \in Nat
    BY DEF KeystoreInit
  <2>6. twice \in BOOLEAN /\ raggedly \in BOOLEAN
    BY Zenon DEF KeystoreInit
  <2>7. default \in Address \cup {NoAddress}
    BY DEF KeystoreInit
  <2>8. QED
    BY <2>2, <2>3, <2>4, <2>5, <2>6, <2>7 DEF KeystoreTypeOK
<1>2. /\ \A c \in Command : command[c].pc = "idle" /\ command[c].key = 0
      /\ \A a \in Address : keyFile[a] = NoFile
      /\ device = 0 /\ devices = 0 /\ default = NoAddress
  BY DEF KeystoreInit, NoCommand
<1>3. Keys = {}
  BY <1>2 DEF Keys
<1>4. OneDevice
  BY <1>2, <1>3 DEF OneDevice
<1>5. FirstIsDefault
  BY <1>2, <1>3 DEF FirstIsDefault
<1>6. QED
  BY <1>1, <1>4, <1>5 DEF KeystoreInv

(* A command that starts takes the device key there is, or will make one.  *)
LEMMA ImportInv ==
  ASSUME KeystoreInv, NEW c \in Command, NEW a \in Address, NEW passphrase \in BOOLEAN,
         ImportKey(c, a, passphrase)
  PROVE  KeystoreInv'
<1>1. KeystoreTypeOK /\ OneDevice /\ FirstIsDefault /\ command[c].pc = "idle"
  BY DEF KeystoreInv, ImportKey, StartImport
<1>2. PICK place \in {"make", "save"}, key \in {0, device} :
        /\ command' = [command EXCEPT ![c] = [pc |-> place, address |-> a, key |-> key]]
        /\ place = "make" => device = 0
  BY DEF ImportKey, StartImport
<1>3. /\ UNCHANGED <<device, devices, keyFile, default, twice>> /\ Keys' = Keys
      /\ commands' \in 0..CommandLimit /\ raggedly' = (raggedly \/ Importing)
  BY <1>1, KeystoreAssumption
  DEF KeystoreAssumption, ImportKey, StartImport, CountCommand, KeystoreTypeOK, Keys
<1>4. /\ command'[c].pc = place /\ command'[c].address = a /\ command'[c].key = key
      /\ \A d \in Command \ {c} : command'[d] = command[d]
  BY <1>1, <1>2 DEF KeystoreTypeOK
<1>5. key \in 0..devices
  BY <1>1, <1>2 DEF KeystoreTypeOK
<1>6. KeystoreTypeOK'
  <2>1. command' \in [Command ->
          [pc : {"idle", "make", "save", "count", "default"},
           address : Address \cup {NoAddress}, key : 0..devices]]
    BY <1>1, <1>2, <1>5 DEF KeystoreTypeOK
  <2>2. raggedly' \in BOOLEAN
    BY <1>1, <1>3 DEF KeystoreTypeOK, Importing
  <2>3. QED
    BY <1>1, <1>3, <2>1, <2>2 DEF KeystoreTypeOK
<1>7. OneDevice'
  BY <1>1, <1>2, <1>3, <1>4 DEF OneDevice
<1>8. FirstIsDefault'
  <2> SUFFICES ASSUME ~ raggedly' PROVE FirstIsDefault'
    BY DEF FirstIsDefault
  <2>1. ~ raggedly /\ \A d \in Command : command[d].pc = "idle"
    BY <1>3 DEF Importing
  <2>2. \A d \in Command \ {c} : command'[d].pc = "idle"
    BY <1>4, <2>1
  <2>3. default = NoAddress => Keys = {}
    BY <1>1, <2>1 DEF FirstIsDefault, Importing
  <2>4. Importing'
    BY <1>2, <1>4 DEF Importing
  <2>5. QED
    BY <1>1, <1>2, <1>3, <1>4, <2>1, <2>2, <2>3, <2>4 DEF FirstIsDefault
<1>9. QED
  BY <1>6, <1>7, <1>8 DEF KeystoreInv

(* What getOrCreateDeviceKey makes is the only one, unless two make one.   *)
LEMMA MakeInv ==
  ASSUME KeystoreInv, NEW c \in Command, MakeDeviceKey(c)
  PROVE  KeystoreInv'
<1>1. KeystoreTypeOK /\ OneDevice /\ FirstIsDefault /\ command[c].pc = "make"
  BY DEF KeystoreInv, MakeDeviceKey
<1>2. /\ devices' = devices + 1 /\ device' = devices' /\ Keys' = Keys
      /\ UNCHANGED <<keyFile, default, commands, raggedly>>
      /\ twice' = (twice \/ \E d \in Command \ {c} : command[d].pc = "make")
  BY DEF MakeDeviceKey, Keys
<1>3. /\ command'[c].pc = "save" /\ command'[c].address = command[c].address
      /\ command'[c].key = devices'
      /\ \A d \in Command \ {c} : command'[d] = command[d]
  BY <1>1 DEF KeystoreTypeOK, MakeDeviceKey
<1>4. devices \in Nat /\ devices' \in Nat /\ 0..devices \subseteq 0..devices' /\ devices' \in 0..devices'
  BY <1>1, <1>2 DEF KeystoreTypeOK
<1>5. KeystoreTypeOK'
  <2> DEFINE D == devices'
  <2>1. D = devices'
    OBVIOUS
  <2> HIDE DEF D
  <2>2. command' \in [Command ->
          [pc : {"idle", "make", "save", "count", "default"},
           address : Address \cup {NoAddress}, key : 0..D]]
    <3>1. command \in [Command ->
            [pc : {"idle", "make", "save", "count", "default"},
             address : Address \cup {NoAddress}, key : 0..D]]
      BY <1>1, <1>4, <2>1 DEF KeystoreTypeOK
    <3>2. command' = [command EXCEPT ![c].pc = "save", ![c].key = D] /\ D \in 0..D
      BY <1>4, <2>1 DEF MakeDeviceKey
    <3>3. QED
      BY <3>1, <3>2
  <2>3. keyFile' \in [Address -> {NoFile} \cup 0..D]
    BY <1>1, <1>2, <1>4, <2>1 DEF KeystoreTypeOK
  <2>4. twice' \in BOOLEAN
    BY <1>1, <1>2 DEF KeystoreTypeOK
  <2>5. QED
    BY <1>1, <1>2, <1>4, <2>1, <2>2, <2>3, <2>4 DEF KeystoreTypeOK
<1>6. OneDevice'
  <2>1. device' = devices'
    BY <1>2
  <2>2. ASSUME ~ twice'
        PROVE  /\ \A d \in Command : command'[d].pc = "make" => device' = 0
               /\ \A d \in Command : command'[d].key \in {0, device'}
               /\ \A a \in Keys' : keyFile'[a] \in {0, device'}
    <3>1. ~ twice /\ \A d \in Command \ {c} : command[d].pc # "make"
      BY <1>2, <2>2
    <3>2. device = 0 /\ \A d \in Command : command[d].key \in {0, device}
      BY <1>1, <3>1 DEF OneDevice
    <3>3. \A a \in Keys : keyFile[a] \in {0, device}
      BY <1>1, <3>1 DEF OneDevice
    <3>4. QED
      BY <1>2, <1>3, <3>1, <3>2, <3>3
  <2>3. QED
    BY <2>1, <2>2 DEF OneDevice
<1>7. FirstIsDefault'
  <2>1. \A d \in Command : command'[d].pc # "idle" <=> command[d].pc # "idle"
    BY <1>1, <1>3
  <2>2. Importing' = Importing
    BY <2>1 DEF Importing
  <2>3. QED
    BY <1>1, <1>2, <1>3, <2>1, <2>2 DEF FirstIsDefault
<1>8. QED
  BY <1>5, <1>6, <1>7 DEF KeystoreInv

LEMMA SaveInv ==
  ASSUME KeystoreInv, NEW c \in Command, SaveKeystoreFile(c)
  PROVE  KeystoreInv'
<1>1. KeystoreTypeOK /\ OneDevice /\ FirstIsDefault /\ command[c].pc = "save"
  BY DEF KeystoreInv, SaveKeystoreFile
<1>2. UNCHANGED <<device, devices, default, commands, twice, raggedly>>
  BY DEF SaveKeystoreFile
<1>3. /\ command'[c].pc = "count" /\ command'[c].address = command[c].address
      /\ command'[c].key = command[c].key
      /\ \A d \in Command \ {c} : command'[d] = command[d]
  BY <1>1 DEF KeystoreTypeOK, SaveKeystoreFile
<1>4. KeystoreTypeOK'
  <2>1. command' \in [Command ->
          [pc : {"idle", "make", "save", "count", "default"},
           address : Address \cup {NoAddress}, key : 0..devices]]
    BY <1>1 DEF KeystoreTypeOK, SaveKeystoreFile
  <2>2. command[c].key \in 0..devices
    BY <1>1 DEF KeystoreTypeOK
  <2>3. keyFile' \in [Address -> {NoFile} \cup 0..devices]
    BY <1>1, <2>2 DEF KeystoreTypeOK, SaveKeystoreFile
  <2>4. QED
    BY <1>1, <1>2, <2>1, <2>3 DEF KeystoreTypeOK
<1>5. \A a \in Address : a # command[c].address => keyFile'[a] = keyFile[a]
  BY <1>1 DEF KeystoreTypeOK, SaveKeystoreFile
<1>6. \A a \in Address : a = command[c].address => keyFile'[a] = command[c].key
  BY <1>1 DEF KeystoreTypeOK, SaveKeystoreFile
<1>7. OneDevice'
  BY <1>1, <1>2, <1>3, <1>5, <1>6 DEF OneDevice, Keys
<1>8. FirstIsDefault'
  <2> SUFFICES ASSUME ~ raggedly PROVE FirstIsDefault'
    BY <1>2 DEF FirstIsDefault
  <2>1. command[c].address \in Address
    BY <1>1 DEF FirstIsDefault
  <2>2. command[c].key # NoFile
    BY <1>1 DEF KeystoreTypeOK, NoFile
  <2>3. Keys' = Keys \cup {command[c].address}
    BY <1>5, <1>6, <2>1, <2>2 DEF Keys
  <2>4. Importing'
    BY <1>3 DEF Importing
  <2>5. \A d \in Command \ {c} : command[d].pc = "idle" /\ command'[d].pc = "idle"
    BY <1>1, <1>3 DEF FirstIsDefault
  <2>6. default = NoAddress => Keys' = {command[c].address}
    BY <1>1, <2>3 DEF FirstIsDefault
  <2>7. QED
    BY <1>1, <1>2, <1>3, <2>1, <2>3, <2>4, <2>5, <2>6 DEF FirstIsDefault
<1>9. QED
  BY <1>4, <1>7, <1>8 DEF KeystoreInv

(* A command that goes away: it leaves no key without a default behind,    *)
(* unless it is known to have been cut short.                              *)
LEMMA EndInv ==
  ASSUME KeystoreInv, NEW c \in Command, EndCommand(c), command[c].pc # "idle",
         default' \in {default, command[c].address} \cap (Address \cup {NoAddress}),
         default' # default => command[c].pc = "default",
         UNCHANGED <<device, devices, keyFile, commands, twice>>,
         raggedly' = raggedly \/ raggedly' = TRUE,
         ~ raggedly' /\ default' = NoAddress => Keys = {}
  PROVE  KeystoreInv'
<1>1. KeystoreTypeOK /\ OneDevice /\ FirstIsDefault
  BY DEF KeystoreInv
<1>2. /\ command'[c].pc = "idle" /\ command'[c].key = 0
      /\ \A d \in Command \ {c} : command'[d] = command[d]
      /\ Keys' = Keys
  BY <1>1 DEF KeystoreTypeOK, EndCommand, NoCommand, Keys
<1>3. KeystoreTypeOK'
  <2>1. NoCommand \in [pc : {"idle", "make", "save", "count", "default"},
                       address : Address \cup {NoAddress}, key : 0..devices]
    BY <1>1 DEF NoCommand, KeystoreTypeOK
  <2>2. command' \in [Command ->
          [pc : {"idle", "make", "save", "count", "default"},
           address : Address \cup {NoAddress}, key : 0..devices]]
    BY <1>1, <2>1 DEF KeystoreTypeOK, EndCommand
  <2>3. raggedly' \in BOOLEAN
    BY <1>1 DEF KeystoreTypeOK
  <2>4. QED
    BY <1>1, <2>2, <2>3 DEF KeystoreTypeOK
<1>4. OneDevice'
  BY <1>1, <1>2 DEF OneDevice
<1>5. FirstIsDefault'
  <2> SUFFICES ASSUME ~ raggedly' PROVE FirstIsDefault'
    BY DEF FirstIsDefault
  <2>1. ~ raggedly /\ \A d \in Command \ {c} : command[d].pc = "idle"
    BY <1>1 DEF FirstIsDefault
  <2>2. \A d \in Command : command'[d].pc = "idle"
    BY <1>2, <2>1
  <2>3. default' # NoAddress => default' \in Keys
    BY <1>1, <2>1 DEF FirstIsDefault
  <2>4. QED
    BY <1>2, <2>2, <2>3 DEF FirstIsDefault
<1>6. QED
  BY <1>3, <1>4, <1>5 DEF KeystoreInv

(* What no command is concerned with: prim wallet default and remove.      *)
LEMMA OutsideInv ==
  ASSUME KeystoreInv, NEW a \in Address, SetDefaultAddress(a) \/ RemoveKey(a)
  PROVE  KeystoreInv'
<1>1. KeystoreTypeOK /\ OneDevice /\ FirstIsDefault
  BY DEF KeystoreInv
<1>2. UNCHANGED <<device, devices, command, twice>> /\ commands' \in 0..CommandLimit
  BY <1>1, KeystoreAssumption
  DEF KeystoreAssumption, SetDefaultAddress, RemoveKey, CountCommand, KeystoreTypeOK
<1>3. \A b \in Address : keyFile'[b] = keyFile[b] \/ keyFile'[b] = NoFile
  BY <1>1 DEF SetDefaultAddress, RemoveKey, KeystoreTypeOK
<1>4. KeystoreTypeOK'
  <2>1. keyFile' \in [Address -> {NoFile} \cup 0..devices]
    BY <1>1 DEF SetDefaultAddress, RemoveKey, KeystoreTypeOK
  <2>2. default' \in Address \cup {NoAddress}
    BY <1>1 DEF SetDefaultAddress, RemoveKey, KeystoreTypeOK
  <2>3. raggedly' \in BOOLEAN
    BY <1>1 DEF SetDefaultAddress, RemoveKey, KeystoreTypeOK, Importing
  <2>4. QED
    BY <1>1, <1>2, <2>1, <2>2, <2>3 DEF KeystoreTypeOK
<1>5. OneDevice'
  BY <1>1, <1>2, <1>3 DEF OneDevice, Keys
<1>6. FirstIsDefault'
  <2> SUFFICES ASSUME ~ raggedly' PROVE FirstIsDefault'
    BY DEF FirstIsDefault
  <2>1. ~ raggedly /\ ~ Importing
    BY DEF SetDefaultAddress, RemoveKey
  <2>2. \A c \in Command : command[c].pc = "idle"
    BY <2>1 DEF Importing
  <2>3. CASE SetDefaultAddress(a)
    <3>1. default' = a /\ a \in Keys /\ Keys' = Keys /\ a # NoAddress
      BY <2>3, KeystoreAssumption DEF SetDefaultAddress, Keys, KeystoreAssumption
    <3>2. QED
      BY <1>2, <2>2, <3>1 DEF FirstIsDefault
  <2>4. CASE RemoveKey(a)
    <3>1. a # default /\ default' = default /\ Keys' = Keys \ {a}
      BY <1>1, <2>4 DEF RemoveKey, Keys, KeystoreTypeOK
    <3>2. QED
      BY <1>1, <1>2, <2>1, <2>2, <3>1 DEF FirstIsDefault
  <2>5. QED
    BY <2>3, <2>4
<1>7. QED
  BY <1>4, <1>5, <1>6 DEF KeystoreInv

LEMMA KeystoreInvStep == KeystoreInv /\ [KeystoreNext]_keystoreVars => KeystoreInv'
<1> SUFFICES ASSUME KeystoreInv, [KeystoreNext]_keystoreVars PROVE KeystoreInv'
  OBVIOUS
<1> KeystoreTypeOK /\ OneDevice /\ FirstIsDefault
  BY DEF KeystoreInv
<1>1. ASSUME NEW c \in Command, ListKeys(c) PROVE KeystoreInv'
  <2>1. /\ UNCHANGED <<device, devices, keyFile, default, commands, twice, raggedly>>
        /\ command[c].pc = "count" /\ Keys' = Keys
    BY <1>1 DEF ListKeys, Keys
  <2>2. CASE EndCommand(c) /\ Cardinality(Keys) # 1
    <3>1. ~ raggedly /\ default = NoAddress => Cardinality(Keys) = 1
      BY <2>1, FS_Singleton DEF FirstIsDefault
    <3>2. QED
      BY <2>1, <2>2, <3>1, EndInv DEF KeystoreTypeOK
  <2>3. CASE command' = [command EXCEPT ![c].pc = "default"]
    <3>1. /\ command'[c].pc = "default" /\ command'[c].address = command[c].address
          /\ command'[c].key = command[c].key
          /\ \A d \in Command \ {c} : command'[d] = command[d]
      BY <2>3 DEF KeystoreTypeOK
    <3>2. KeystoreTypeOK'
      BY <2>1, <2>3 DEF KeystoreTypeOK
    <3>3. OneDevice'
      BY <2>1, <3>1 DEF OneDevice
    <3>4. Importing' = Importing
      BY <2>1, <3>1 DEF Importing
    <3>5. FirstIsDefault'
      BY <2>1, <3>1, <3>4 DEF FirstIsDefault
    <3>6. QED
      BY <3>2, <3>3, <3>5 DEF KeystoreInv
  <2>4. QED
    BY <1>1, <2>2, <2>3 DEF ListKeys
<1>2. ASSUME NEW c \in Command, SetFirstDefault(c) PROVE KeystoreInv'
  <2>1. /\ UNCHANGED <<device, devices, keyFile, commands, twice, raggedly>>
        /\ command[c].pc = "default" /\ default' = command[c].address /\ EndCommand(c)
    BY <1>2 DEF SetFirstDefault
  <2>2. ~ raggedly => default' # NoAddress
    BY <2>1, KeystoreAssumption DEF FirstIsDefault, Keys, KeystoreAssumption
  <2>3. default' \in Address \cup {NoAddress}
    BY <2>1 DEF KeystoreTypeOK
  <2>4. QED
    BY <2>1, <2>2, <2>3, EndInv
<1>3. ASSUME NEW c \in Command, KillCommand(c) PROVE KeystoreInv'
  <2>1. /\ UNCHANGED <<device, devices, keyFile, default, commands, twice>>
        /\ command[c].pc # "idle" /\ raggedly' = TRUE /\ EndCommand(c)
    BY <1>3 DEF KillCommand
  <2>2. QED
    BY <2>1, EndInv DEF KeystoreTypeOK
<1>4. CASE UNCHANGED keystoreVars
  <2>1. UNCHANGED <<device, devices, keyFile, default, command, commands, twice, raggedly>>
    BY <1>4 DEF keystoreVars
  <2>2. KeystoreTypeOK'
    BY <2>1 DEF KeystoreTypeOK
  <2>3. Keys' = Keys /\ Importing' = Importing
    BY <2>1 DEF Keys, Importing
  <2>4. OneDevice'
    BY <2>1, <2>3 DEF OneDevice
  <2>5. FirstIsDefault'
    BY <2>1, <2>3 DEF FirstIsDefault
  <2>6. QED
    BY <2>2, <2>4, <2>5 DEF KeystoreInv
<1>5. QED
  BY <1>1, <1>2, <1>3, <1>4, ImportInv, MakeInv, SaveInv, OutsideInv DEF KeystoreNext

(* Every key file opens with the device key on disk, unless two commands   *)
(* made one at once, and a key is found when none is named, for any number *)
(* of commands and keys (keystore.ts:83-170, device.ts:11-24).             *)
THEOREM KeysAlwaysOpen == KeystoreSpec => []KeysOpen
<1>1. KeystoreInv => KeysOpen
  <2> SUFFICES ASSUME KeystoreInv PROVE KeysOpen
    OBVIOUS
  <2>1. OneDevice /\ FirstIsDefault
    BY DEF KeystoreInv
  <2>2. ~ twice => \A a \in Keys : keyFile[a] \in {0, device}
    BY <2>1 DEF OneDevice
  <2>3. ~ raggedly /\ ~ Importing /\ Keys # {} => Resolves
    BY <2>1 DEF FirstIsDefault, Resolves
  <2>4. QED
    BY <2>2, <2>3 DEF KeysOpen
<1>2. QED
  BY <1>1, KeystoreInvInit, KeystoreInvStep, PTL DEF KeystoreSpec

-----------------------------------------------------------------------------
(* A challenge under verification is nobody else's, and has let nobody in. *)
Answering(s) ==
  LET x == signIn[s] IN
  /\ x.pc = "verify" =>
       /\ challengeStore[x.with] = "gone" /\ letIn[x.with] = 0
       /\ \A t \in SignIn : signIn[t].pc = "verify" /\ signIn[t].with = x.with => t = s
       /\ x.how = "login" => x.key \in accounts
  /\ x.pc = "redeem" => x.key \in accounts

ChatInv ==
  /\ ChatAccountsTypeOK /\ SignInsHold
  /\ \A h \in Challenge : challengeStore[h] # "gone" => letIn[h] = 0
  /\ \A s \in SignIn : Answering(s)

SignIns ==
  {NotSigningIn} \cup
    [pc : {"verify", "redeem"}, how : {"register", "login"}, key : Passkey, with : Challenge]

LEMMA ChatInvInit == ChatAccountsInit => ChatInv
<1> SUFFICES ASSUME ChatAccountsInit PROVE ChatInv
  OBVIOUS
<1>1. ChatAccountsTypeOK
  BY DEF ChatAccountsInit, ChatAccountsTypeOK, NotSigningIn
<1>2. SignInsHold
  BY DEF ChatAccountsInit, SignInsHold
<1>3. \A h \in Challenge : challengeStore[h] # "gone" => letIn[h] = 0
  BY DEF ChatAccountsInit
<1>4. \A s \in SignIn : Answering(s)
  BY DEF ChatAccountsInit, Answering, NotSigningIn
<1>5. QED
  BY <1>1, <1>2, <1>3, <1>4 DEF ChatInv

(* Whoever ends a sign-in with an account has a session.                   *)
LEMMA SignInEnds ==
  ASSUME ChatInv, NEW s \in SignIn, EndSignIn(s), challengeStore' = challengeStore,
         accounts \subseteq accounts', accounts' \subseteq Passkey,
         sessions' \subseteq accounts',
         letIn' \in [Challenge -> Nat],
         \A h \in Challenge : letIn'[h] = letIn[h] \/ (/\ letIn'[h] = 1
                                                        /\ signIn[s].pc = "verify" /\ signIn[s].with = h)
  PROVE  ChatInv'
<1>1. /\ signIn' \in [SignIn -> SignIns] /\ signIn'[s] = NotSigningIn
      /\ \A t \in SignIn : t # s => signIn'[t] = signIn[t]
  BY DEF ChatInv, ChatAccountsTypeOK, EndSignIn, SignIns
<1>2. ChatAccountsTypeOK'
  BY <1>1 DEF ChatInv, ChatAccountsTypeOK, SignIns
<1>3. SignInsHold'
  BY DEF ChatInv, SignInsHold, ChatAccountsTypeOK
<1>4. \A h \in Challenge : challengeStore'[h] # "gone" => letIn'[h] = 0
  BY DEF ChatInv, Answering, ChatAccountsTypeOK
<1>5. ASSUME NEW t \in SignIn PROVE Answering(t)'
  <2>1. CASE t = s
    BY <1>1, <2>1 DEF Answering, NotSigningIn
  <2>2. CASE t # s
    <3>1. signIn[t] \in SignIns /\ signIn'[t] = signIn[t]
      BY <1>1, <2>2 DEF ChatInv, ChatAccountsTypeOK, SignIns
    <3>2. Answering(t) /\ Answering(s)
      BY DEF ChatInv
    <3>3. \A o \in SignIn : signIn'[o].pc = "verify" => signIn'[o] = signIn[o]
      BY <1>1 DEF NotSigningIn
    <3>4. ASSUME signIn[t].pc = "verify" PROVE letIn'[signIn[t].with] = 0
      BY <2>2, <3>1, <3>2, <3>4 DEF Answering, SignIns, NotSigningIn
    <3>5. QED
      BY <3>1, <3>2, <3>3, <3>4 DEF Answering
  <2>3. QED
    BY <2>1, <2>2
<1>6. QED
  BY <1>2, <1>3, <1>4, <1>5 DEF ChatInv

LEMMA BeginSignInInv ==
  ASSUME ChatInv, NEW s \in SignIn, NEW how \in {"register", "login"}, NEW k \in Passkey,
         NEW h \in Challenge, BeginSignIn(s, how, k, h)
  PROVE  ChatInv'
<1>1. /\ challengeStore[h] = "open" /\ letIn[h] = 0
      /\ challengeStore' = [challengeStore EXCEPT ![h] = "gone"]
      /\ accounts' = accounts /\ sessions' = sessions /\ letIn' = letIn
  BY DEF ChatInv, BeginSignIn, TakeChallenge
<1>2. /\ signIn' \in [SignIn -> SignIns] /\ \A t \in SignIn : t # s => signIn'[t] = signIn[t]
      /\ \/ signIn'[s] = NotSigningIn
         \/ /\ signIn'[s] = [pc |-> "verify", how |-> how, key |-> k, with |-> h]
            /\ how = "login" => k \in accounts
  BY DEF ChatInv, ChatAccountsTypeOK, BeginSignIn, SignIns, NotSigningIn
<1>3. ChatAccountsTypeOK'
  BY <1>1, <1>2 DEF ChatInv, ChatAccountsTypeOK, SignIns
<1>4. SignInsHold'
  BY <1>1 DEF ChatInv, SignInsHold
<1>5. \A c \in Challenge : challengeStore'[c] # "gone" => letIn'[c] = 0
  BY <1>1 DEF ChatInv, ChatAccountsTypeOK
<1>6. ASSUME NEW t \in SignIn PROVE signIn[t].pc = "verify" => signIn[t].with # h
  BY <1>1 DEF ChatInv, Answering
<1>7. ASSUME NEW t \in SignIn PROVE Answering(t)'
  <2>1. CASE t = s
    BY <1>1, <1>2, <1>6, <2>1 DEF ChatInv, ChatAccountsTypeOK, Answering, NotSigningIn
  <2>2. CASE t # s
    <3>1. signIn[t] \in SignIns /\ signIn'[t] = signIn[t] /\ Answering(t)
      BY <1>2, <2>2 DEF ChatInv, ChatAccountsTypeOK, SignIns
    <3>2. signIn[t].pc = "verify" => /\ challengeStore'[signIn[t].with] = "gone"
                                     /\ letIn'[signIn[t].with] = 0
      BY <1>1, <3>1 DEF Answering, SignIns, NotSigningIn, ChatInv, ChatAccountsTypeOK
    <3>3. \A o \in SignIn : signIn[t].pc = "verify" /\ signIn'[o].pc = "verify" /\
                            signIn'[o].with = signIn[t].with => o = t
      BY <1>2, <1>6, <3>1 DEF Answering, NotSigningIn
    <3>4. QED
      BY <1>1, <3>1, <3>2, <3>3 DEF Answering
  <2>3. QED
    BY <2>1, <2>2
<1>8. QED
  BY <1>3, <1>4, <1>5, <1>7 DEF ChatInv

LEMMA VerifiedInv ==
  ASSUME ChatInv, NEW s \in SignIn, Verified(s)
  PROVE  ChatInv'
<1> DEFINE x == signIn[s]
<1>1. /\ x \in SignIns /\ x.pc = "verify" /\ Answering(s)
      /\ letIn \in [Challenge -> Nat] /\ accounts \subseteq Passkey /\ sessions \subseteq accounts
  BY DEF ChatInv, ChatAccountsTypeOK, SignIns, Verified, SignInsHold
<1>2. /\ x.with \in Challenge /\ x.key \in Passkey /\ letIn[x.with] = 0
      /\ x.how \in {"register", "login"} /\ challengeStore' = challengeStore
  BY <1>1 DEF SignIns, NotSigningIn, Answering, Verified
<1>3. letIn' = [letIn EXCEPT ![x.with] = 1]
  BY <1>1, <1>2 DEF Verified
<1>4. /\ letIn' \in [Challenge -> Nat]
      /\ \A h \in Challenge : letIn'[h] = letIn[h] \/ (letIn'[h] = 1 /\ x.pc = "verify" /\ x.with = h)
  BY <1>1, <1>2, <1>3
<1>5. CASE x.how = "login"
  <2>1. /\ EndSignIn(s) /\ accounts' = accounts
        /\ sessions' = sessions \cup {x.key} /\ x.key \in accounts
    BY <1>1, <1>5 DEF Verified, Answering
  <2>2. QED
    BY <1>1, <1>2, <1>4, <2>1, SignInEnds
<1>6. CASE x.how = "register"
  <2>1. Register(s)
    BY <1>6 DEF Verified
  <2>2. CASE EndSignIn(s)
    <3>1. accounts \subseteq accounts' /\ accounts' \subseteq Passkey /\ sessions' \subseteq accounts'
      BY <1>1, <1>2, <2>1, <2>2 DEF Register
    <3>2. QED
      BY <1>2, <1>4, <2>2, <3>1, SignInEnds
  <2>3. CASE /\ signIn' = [signIn EXCEPT ![s].pc = "redeem"]
             /\ accounts' = accounts \cup {x.key} /\ sessions' = sessions
    <3>1. /\ signIn' \in [SignIn -> SignIns]
          /\ signIn'[s].pc = "redeem" /\ signIn'[s].key = x.key
          /\ \A t \in SignIn : t # s => signIn'[t] = signIn[t]
      BY <1>1, <2>3 DEF ChatInv, ChatAccountsTypeOK, SignIns, NotSigningIn
    <3>2. ChatAccountsTypeOK'
      BY <1>1, <1>2, <1>4, <2>3, <3>1 DEF ChatInv, ChatAccountsTypeOK, SignIns
    <3>3. SignInsHold'
      BY <1>1, <1>4, <2>3 DEF ChatInv, SignInsHold
    <3>4. \A h \in Challenge : challengeStore'[h] # "gone" => letIn'[h] = 0
      BY <1>1, <1>2, <1>4 DEF ChatInv, Answering
    <3>5. ASSUME NEW t \in SignIn PROVE Answering(t)'
      <4>1. CASE t = s
        BY <2>3, <3>1, <4>1 DEF Answering
      <4>2. CASE t # s
        <5>1. signIn[t] \in SignIns /\ signIn'[t] = signIn[t] /\ Answering(t)
          BY <3>1, <4>2 DEF ChatInv, ChatAccountsTypeOK, SignIns
        <5>2. signIn[t].pc = "verify" => letIn'[signIn[t].with] = 0
          BY <1>1, <1>4, <4>2, <5>1 DEF Answering, SignIns, NotSigningIn
        <5>3. \A o \in SignIn : signIn'[o].pc = "verify" => signIn'[o] = signIn[o]
          BY <3>1
        <5>4. QED
          BY <1>2, <2>3, <5>1, <5>2, <5>3 DEF Answering
      <4>3. QED
        BY <4>1, <4>2
    <3>6. QED
      BY <3>2, <3>3, <3>4, <3>5 DEF ChatInv
  <2>4. QED
    BY <2>1, <2>2, <2>3 DEF Register
<1>7. QED
  BY <1>2, <1>5, <1>6

LEMMA ChatInvStep == ChatInv /\ [ChatAccountsNext]_chatAccountVars => ChatInv'
<1> SUFFICES ASSUME ChatInv, [ChatAccountsNext]_chatAccountVars PROVE ChatInv'
  OBVIOUS
<1>1. ASSUME NEW h \in Challenge, OfferChallenge(h) \/ ChallengeExpires(h) PROVE ChatInv'
  <2>1. /\ challengeStore' \in [Challenge -> {"new", "open", "gone"}]
        /\ \A c \in Challenge : challengeStore[c] = "gone" => challengeStore'[c] = "gone"
        /\ UNCHANGED <<accounts, signIn, sessions, letIn>>
    BY <1>1 DEF ChatInv, ChatAccountsTypeOK, OfferChallenge, ChallengeExpires
  <2>2. ChatAccountsTypeOK'
    BY <2>1 DEF ChatInv, ChatAccountsTypeOK
  <2>3. \A c \in Challenge : challengeStore'[c] # "gone" => letIn'[c] = 0
    BY <2>1 DEF ChatInv
  <2>4. ASSUME NEW s \in SignIn PROVE Answering(s)'
    <3>1. signIn[s] \in SignIns /\ Answering(s)
      BY DEF ChatInv, ChatAccountsTypeOK, SignIns
    <3>2. signIn[s].pc = "verify" => challengeStore'[signIn[s].with] = "gone"
      BY <2>1, <3>1 DEF Answering, SignIns, NotSigningIn
    <3>3. QED
      BY <2>1, <3>1, <3>2 DEF Answering
  <2>5. QED
    BY <2>1, <2>2, <2>3, <2>4 DEF ChatInv, SignInsHold
<1>2. ASSUME NEW s \in SignIn, NotVerified(s) \/ GateAnswers(s) PROVE ChatInv'
  <2>1. Answering(s) /\ sessions \subseteq accounts /\ accounts \subseteq Passkey /\ letIn \in [Challenge -> Nat]
    BY DEF ChatInv, SignInsHold, ChatAccountsTypeOK
  <2>2. /\ EndSignIn(s) /\ challengeStore' = challengeStore
        /\ accounts' = accounts /\ sessions' \subseteq accounts /\ letIn' = letIn
    BY <1>2, <2>1 DEF NotVerified, GateAnswers, Answering
  <2>3. QED
    BY <2>1, <2>2, SignInEnds
<1>3. ASSUME NEW s \in SignIn, NEW how \in {"register", "login"}, NEW k \in Passkey,
             NEW h \in Challenge, BeginSignIn(s, how, k, h)
      PROVE  ChatInv'
  BY <1>3, BeginSignInInv
<1>4. ASSUME NEW s \in SignIn, Verified(s) PROVE ChatInv'
  BY <1>4, VerifiedInv
<1>5. ASSUME NEW k \in Passkey, SessionEnds(k) PROVE ChatInv'
  <2>1. sessions' \subseteq sessions /\ UNCHANGED <<challengeStore, accounts, signIn, letIn>>
    BY <1>5 DEF SessionEnds
  <2>2. ChatAccountsTypeOK' /\ SignInsHold'
    BY <2>1 DEF ChatInv, ChatAccountsTypeOK, SignInsHold
  <2>3. QED
    BY <2>1, <2>2 DEF ChatInv, Answering
<1>6. CASE ChatRestarts
  <2>1. /\ challengeStore' \in [Challenge -> {"new", "open", "gone"}]
        /\ \A c \in Challenge : challengeStore'[c] # "gone" => challengeStore[c] # "gone"
        /\ signIn' \in [SignIn -> SignIns] /\ \A s \in SignIn : signIn'[s] = NotSigningIn
        /\ UNCHANGED <<accounts, sessions, letIn>>
    BY <1>6 DEF ChatInv, ChatAccountsTypeOK, ChatRestarts, SignIns
  <2>2. ChatAccountsTypeOK' /\ SignInsHold'
    BY <2>1 DEF ChatInv, ChatAccountsTypeOK, SignInsHold, SignIns
  <2>3. \A s \in SignIn : Answering(s)'
    BY <2>1 DEF Answering, NotSigningIn
  <2>4. QED
    BY <2>1, <2>2, <2>3 DEF ChatInv
<1>7. CASE UNCHANGED chatAccountVars
  BY <1>7 DEF ChatInv, chatAccountVars, ChatAccountsTypeOK, SignInsHold, Answering
<1>8. QED
  BY <1>1, <1>2, <1>3, <1>4, <1>5, <1>6, <1>7 DEF ChatAccountsNext

(* No challenge lets two in, and nobody has a session without an account   *)
(* (auth.ts:90-248), for any number of passkeys, challenges and sign-ins.  *)
THEOREM SignInsAreSound == ChatAccountsSpec => []SignInsHold
<1>1. ChatInv => SignInsHold
  BY DEF ChatInv
<1>2. QED
  BY ChatInvInit, ChatInvStep, <1>1, PTL DEF ChatAccountsSpec

-----------------------------------------------------------------------------
Roles == {"user", "assistant"}
Messages == [role : Roles, to : Question]
Tasks == [pc : {"open", "stream", "failed"}, in : Conversation, question : Question, here : BOOLEAN]

(* A task's question is its own, is in its conversation, and nobody has    *)
(* answered it.                                                            *)
Streaming(c) ==
  LET x == chat[c] IN
  x.pc # "idle" =>
    /\ x.question <= questions
    /\ \A d \in Chat : chat[d].pc # "idle" /\ chat[d].question = x.question => d = c
    /\ MessagesTo(x.in, "user", x.question) # {}
    /\ \A v \in Conversation : MessagesTo(v, "assistant", x.question) = {}

StreamInv ==
  /\ ChatStreamTypeOK
  /\ \A v \in Conversation, role \in Roles, n \in Question :
       MessagesTo(v, role, n) # {} => n <= questions
  /\ \A c \in Chat : Streaming(c)
  /\ AnswersAreKept

LEMMA StreamTypes ==
  ASSUME ChatStreamTypeOK
  PROVE  /\ messages \in [Conversation -> Seq(Messages)]
         /\ chat \in [Chat -> {NotChatting} \cup Tasks]
         /\ questions \in Nat /\ questions <= ChatLimit /\ answered \subseteq Question
         /\ \A c \in Chat : chat[c].pc # "idle" =>
              /\ chat[c] \in Tasks /\ chat[c].in \in Conversation /\ chat[c].question \in Question
         /\ Question \subseteq Nat
<1>1. /\ messages \in [Conversation -> Seq(Messages)]
      /\ chat \in [Chat -> {NotChatting} \cup Tasks]
      /\ questions \in Nat /\ questions <= ChatLimit /\ answered \subseteq Question
  <2>1. messages \in [Conversation -> Seq(Messages)]
    BY Zenon DEF ChatStreamTypeOK, Messages, Roles
  <2>2. chat \in [Chat -> {NotChatting} \cup Tasks]
    BY Zenon DEF ChatStreamTypeOK, Tasks
  <2>3. questions \in 0..ChatLimit /\ answered \subseteq Question
    BY Zenon DEF ChatStreamTypeOK
  <2>4. QED
    BY <2>1, <2>2, <2>3, ChatAssumption DEF ChatAssumption
<1>2. \A c \in Chat : chat[c].pc # "idle" => chat[c] \in Tasks
  BY <1>1 DEF NotChatting
<1>3. \A x \in Tasks : x.in \in Conversation /\ x.question \in Question
  BY DEF Tasks
<1>4. QED
  BY <1>1, <1>2, <1>3 DEF Question

(* A message is added at the end of its conversation.                      *)
LEMMA Appended ==
  ASSUME ChatStreamTypeOK, NEW v \in Conversation, NEW role \in Roles, NEW n \in Question,
         AddMessage(v, role, n)
  PROVE  /\ messages' \in [Conversation -> Seq(Messages)]
         /\ \E last \in Nat :
              /\ \A r, k : \A i \in MessagesTo(v, r, k) : i \in Nat /\ i < last
              /\ MessagesTo(v, role, n)' = MessagesTo(v, role, n) \cup {last}
         /\ \A u \in Conversation, r \in Roles, k \in Question :
              u # v \/ r # role \/ k # n => MessagesTo(u, r, k)' = MessagesTo(u, r, k)
<1> DEFINE m == [role |-> role, to |-> n]
           old == messages[v]
           last == Len(old) + 1
<1>1. messages \in [Conversation -> Seq(Messages)] /\ old \in Seq(Messages) /\ m \in Messages
  BY StreamTypes DEF Messages
<1>2. messages' = [messages EXCEPT ![v] = Append(old, m)]
  BY DEF AddMessage
<1>3. messages'[v] = Append(old, m) /\ \A u \in Conversation : u # v => messages'[u] = messages[u]
  BY <1>1, <1>2
<1>4. messages' \in [Conversation -> Seq(Messages)]
  BY <1>1, <1>2
<1>5. /\ DOMAIN old = 1..Len(old) /\ Len(old) \in Nat
      /\ DOMAIN messages'[v] = 1..last /\ messages'[v][last] = m
      /\ \A i \in 1..Len(old) : messages'[v][i] = old[i]
  BY <1>1, <1>3
<1>6. \A r, k : \A i \in MessagesTo(v, r, k) : i \in Nat /\ i < last
  BY <1>5 DEF MessagesTo
<1>7. \A u \in Conversation, r \in Roles, k \in Question :
        u # v => MessagesTo(u, r, k)' = MessagesTo(u, r, k)
  BY <1>3 DEF MessagesTo
<1>8. \A r \in Roles, k \in Question :
        MessagesTo(v, r, k)' =
          MessagesTo(v, r, k) \cup IF m = [role |-> r, to |-> k] THEN {last} ELSE {}
  <2> SUFFICES ASSUME NEW r \in Roles, NEW k \in Question
               PROVE  MessagesTo(v, r, k)' =
                        MessagesTo(v, r, k) \cup IF m = [role |-> r, to |-> k] THEN {last} ELSE {}
    OBVIOUS
  <2> DEFINE x == [role |-> r, to |-> k]
  <2>1. /\ MessagesTo(v, r, k)' = {i \in DOMAIN messages'[v] : messages'[v][i] = x}
        /\ MessagesTo(v, r, k) = {i \in DOMAIN old : old[i] = x}
    BY DEF MessagesTo
  <2>2. \A i : i \in 1..last <=> i \in 1..Len(old) \/ i = last
    BY <1>5
  <2> HIDE DEF x, m, old
  <2>3. QED
    BY <1>5, <2>1, <2>2 DEF x
<1>9. \A r \in Roles, k \in Question : m = [role |-> r, to |-> k] <=> r = role /\ k = n
  OBVIOUS
<1>10. /\ MessagesTo(v, role, n)' = MessagesTo(v, role, n) \cup {last} /\ last \in Nat
       /\ \A r \in Roles, k \in Question :
            r # role \/ k # n => MessagesTo(v, r, k)' = MessagesTo(v, r, k)
  <2> HIDE DEF m, last
  <2>1. MessagesTo(v, role, n)' = MessagesTo(v, role, n) \cup {last}
    BY <1>8, <1>9
  <2>2. last \in Nat
    BY <1>5 DEF last
  <2>3. \A r \in Roles, k \in Question :
          r # role \/ k # n => MessagesTo(v, r, k)' = MessagesTo(v, r, k)
    BY <1>8, <1>9
  <2>4. QED
    BY <2>1, <2>2, <2>3
<1>11. QED
  <2> HIDE DEF last
  <2>1. QED
    BY <1>4, <1>6, <1>7, <1>10

LEMMA StreamInvInit == ChatStreamInit => StreamInv
<1> SUFFICES ASSUME ChatStreamInit PROVE StreamInv
  OBVIOUS
<1>1. ChatStreamTypeOK
  BY ChatAssumption DEF ChatAssumption, ChatStreamInit, ChatStreamTypeOK
<1>2. \A v \in Conversation, r \in Roles, k \in Question : MessagesTo(v, r, k) = {}
  BY DEF ChatStreamInit, MessagesTo
<1>3. \A c \in Chat : Streaming(c)
  BY DEF ChatStreamInit, Streaming, NotChatting
<1>4. AnswersAreKept
  BY <1>2 DEF AnswersAreKept, ChatStreamInit, Roles
<1>5. QED
  BY <1>1, <1>2, <1>3, <1>4 DEF StreamInv

(* Tasks go on or end, and nothing is written.                             *)
LEMMA TasksGoOn ==
  ASSUME StreamInv, chat' \in [Chat -> {NotChatting} \cup Tasks],
         UNCHANGED <<messages, questions, answered>>,
         \A c \in Chat : chat'[c].pc # "idle" =>
           chat[c].pc # "idle" /\ chat'[c].in = chat[c].in /\ chat'[c].question = chat[c].question
  PROVE  StreamInv'
<1>1. ChatStreamTypeOK'
  BY DEF StreamInv, ChatStreamTypeOK, Tasks
<1>2. \A v, r, k : MessagesTo(v, r, k)' = MessagesTo(v, r, k)
  BY DEF MessagesTo
<1>3. ASSUME NEW c \in Chat PROVE Streaming(c)'
  <2> SUFFICES ASSUME chat'[c].pc # "idle"
               PROVE  Streaming(c)'
    BY DEF Streaming
  <2>1. chat[c].pc # "idle" /\ chat'[c].in = chat[c].in /\ chat'[c].question = chat[c].question
    OBVIOUS
  <2>2. Streaming(c)
    BY DEF StreamInv
  <2>3. QED
    BY <1>2, <2>1, <2>2 DEF Streaming
<1>4. AnswersAreKept'
  BY <1>2 DEF StreamInv, AnswersAreKept
<1>5. QED
  BY <1>1, <1>2, <1>3, <1>4 DEF StreamInv

LEMMA BeginStreamInv ==
  ASSUME StreamInv, NEW c \in Chat, NEW v \in Conversation, BeginChat(c, v)
  PROVE  StreamInv'
<1>0. questions \in Nat /\ questions < ChatLimit
  BY StreamTypes DEF StreamInv, BeginChat
<1> PICK n \in Question : n = questions + 1
  BY <1>0, ChatAssumption DEF ChatAssumption, Question
<1> DEFINE x == [pc |-> "open", in |-> v, question |-> n, here |-> TRUE]
<1>1. /\ questions \in Nat /\ questions < ChatLimit /\ questions' = n /\ n \in Nat
      /\ chat[c].pc = "idle" /\ chat' = [chat EXCEPT ![c] = x] /\ answered' = answered
      /\ AddMessage(v, "user", n) /\ "user" \in Roles
  BY <1>0 DEF BeginChat, NotChatting, Roles
<1>2. /\ messages' \in [Conversation -> Seq(Messages)]
      /\ MessagesTo(v, "user", n)' # {}
      /\ \A u \in Conversation, r \in Roles, k \in Question :
           u # v \/ r # "user" \/ k # n => MessagesTo(u, r, k)' = MessagesTo(u, r, k)
  <2>1. ChatStreamTypeOK
    BY DEF StreamInv
  <2>2. PICK last \in Nat :
          /\ \A r, k : \A i \in MessagesTo(v, r, k) : i \in Nat /\ i < last
          /\ MessagesTo(v, "user", n)' = MessagesTo(v, "user", n) \cup {last}
    BY <1>1, <2>1, Appended
  <2>3. /\ messages' \in [Conversation -> Seq(Messages)]
        /\ \A u \in Conversation, r \in Roles, k \in Question :
             u # v \/ r # "user" \/ k # n => MessagesTo(u, r, k)' = MessagesTo(u, r, k)
    BY <1>1, <2>1, Appended
  <2>4. QED
    BY <2>2, <2>3
<1>3. x \in Tasks /\ x.pc = "open" /\ x.in = v /\ x.question = n
  BY <1>1 DEF Tasks
<1>4. /\ chat \in [Chat -> {NotChatting} \cup Tasks]
      /\ \A d \in Chat : chat[d].pc # "idle" => chat[d].in \in Conversation
           /\ chat[d].question \in Question /\ chat[d].question \in Nat
      /\ questions <= ChatLimit /\ answered \subseteq Question /\ Question \subseteq Nat
  BY StreamTypes DEF StreamInv
<1> HIDE DEF x
<1>5. chat'[c] = x /\ \A d \in Chat : d # c => chat'[d] = chat[d]
  BY <1>1, <1>4
<1>6. ChatStreamTypeOK'
  <2>1. chat' \in [Chat -> {NotChatting} \cup Tasks]
    BY <1>1, <1>3, <1>4
  <2>2. questions' \in 0..ChatLimit
    BY <1>1, ChatAssumption DEF ChatAssumption
  <2>3. QED
    BY <1>1, <1>2, <1>4, <2>1, <2>2 DEF ChatStreamTypeOK, Tasks, Messages, Roles
<1>7. \A u \in Conversation, r \in Roles : MessagesTo(u, r, n) = {}
  BY <1>1 DEF StreamInv
<1>8. ASSUME NEW u \in Conversation, NEW r \in Roles, NEW k \in Question, MessagesTo(u, r, k)' # {}
      PROVE  k <= questions'
  <2>1. CASE k = n
    BY <1>1, <2>1
  <2>2. CASE k # n
    <3>1. k <= questions
      BY <1>2, <1>8, <2>2 DEF StreamInv
    <3>2. QED
      BY <1>1, <1>4, <3>1
  <2>3. QED
    BY <2>1, <2>2
<1>9. ASSUME NEW d \in Chat PROVE Streaming(d)'
  <2>1. CASE d = c
    <3>1. \A e \in Chat : chat'[e].pc # "idle" /\ chat'[e].question = n => e = c
      <4> SUFFICES ASSUME NEW e \in Chat, e # c, chat'[e].pc # "idle", chat'[e].question = n
                   PROVE  FALSE
        OBVIOUS
      <4>1. Streaming(e) /\ chat'[e] = chat[e]
        BY <1>5 DEF StreamInv
      <4>2. chat[e].question <= questions
        BY <4>1 DEF Streaming
      <4>3. QED
        BY <1>1, <4>1, <4>2
    <3>2. \A u \in Conversation : MessagesTo(u, "assistant", n)' = {}
      BY <1>1, <1>2, <1>7 DEF Roles
    <3>3. chat'[d].in = v /\ chat'[d].question = n /\ n <= questions'
      BY <1>1, <1>3, <1>5, <2>1
    <3>4. QED
      BY <1>2, <2>1, <3>1, <3>2, <3>3 DEF Streaming
  <2>2. CASE d # c /\ chat[d].pc # "idle"
    <3>1. Streaming(d) /\ chat'[d] = chat[d]
      BY <1>5, <2>2 DEF StreamInv
    <3>2. chat[d].question # n /\ chat[d].question <= questions'
      BY <1>1, <1>4, <2>2, <3>1 DEF Streaming
    <3>3. /\ MessagesTo(chat[d].in, "user", chat[d].question)' # {}
          /\ \A u \in Conversation : MessagesTo(u, "assistant", chat[d].question)' = {}
      BY <1>2, <1>4, <2>2, <3>1, <3>2 DEF Streaming, Roles
    <3>4. \A e \in Chat : chat'[e].pc # "idle" /\ chat'[e].question = chat[d].question => e = d
      BY <1>3, <1>5, <2>2, <3>1, <3>2 DEF Streaming
    <3>5. QED
      BY <3>1, <3>2, <3>3, <3>4 DEF Streaming
  <2>3. CASE d # c /\ chat[d].pc = "idle"
    BY <1>5, <2>3 DEF Streaming
  <2>4. QED
    BY <2>1, <2>2, <2>3
<1>10. AnswersAreKept'
  <2>1. \A u \in Conversation, k \in Question :
          MessagesTo(u, "assistant", k)' = MessagesTo(u, "assistant", k)
    BY <1>2 DEF Roles
  <2>2. \A u \in Conversation, k \in Question :
          MessagesTo(u, "user", k) \subseteq MessagesTo(u, "user", k)'
    BY <1>2, <1>7 DEF Roles
  <2>3. AnswersAreKept
    BY DEF StreamInv
  <2>4. QED
    BY <1>1, <1>4, <2>1, <2>2, <2>3 DEF AnswersAreKept
<1>11. QED
  BY <1>6, <1>8, <1>9, <1>10 DEF StreamInv

(* An answer is written, the first to its question and after it.           *)
LEMMA RecordInv ==
  ASSUME StreamInv, NEW c \in Chat, chat[c].pc # "idle", RecordAnswer(c), EndChat(c),
         questions' = questions, answered' \subseteq answered \cup {chat[c].question}
  PROVE  StreamInv'
<1>1. PICK v \in Conversation, n \in Question : v = chat[c].in /\ n = chat[c].question
  BY StreamTypes DEF StreamInv
<1>2. AddMessage(v, "assistant", n) /\ "assistant" \in Roles /\ "user" \in Roles
  BY <1>1 DEF RecordAnswer, Roles
<1>3. PICK last \in Nat :
        /\ \A r, k : \A i \in MessagesTo(v, r, k) : i \in Nat /\ i < last
        /\ MessagesTo(v, "assistant", n)' = MessagesTo(v, "assistant", n) \cup {last}
  BY <1>2, Appended DEF StreamInv
<1>4. /\ messages' \in [Conversation -> Seq(Messages)]
      /\ \A u \in Conversation, r \in Roles, k \in Question :
           u # v \/ r # "assistant" \/ k # n => MessagesTo(u, r, k)' = MessagesTo(u, r, k)
  BY <1>2, Appended DEF StreamInv
<1>5. Streaming(c) /\ AnswersAreKept
  BY DEF StreamInv
<1>6. /\ n <= questions /\ MessagesTo(v, "user", n) # {}
      /\ \A u \in Conversation : MessagesTo(u, "assistant", n) = {}
      /\ \A d \in Chat : chat[d].pc # "idle" /\ chat[d].question = n => d = c
  BY <1>1, <1>5 DEF Streaming
<1>7. MessagesTo(v, "assistant", n)' = {last}
  BY <1>3, <1>6
<1>8. /\ chat \in [Chat -> {NotChatting} \cup Tasks] /\ answered \subseteq Question
      /\ \A d \in Chat : chat[d].pc # "idle" =>
           chat[d].in \in Conversation /\ chat[d].question \in Question
  BY StreamTypes DEF StreamInv
<1>9. /\ chat' \in [Chat -> {NotChatting} \cup Tasks]
      /\ chat'[c].pc = "idle" /\ \A d \in Chat : d # c => chat'[d] = chat[d]
  BY <1>8 DEF EndChat, NotChatting
<1>10. ChatStreamTypeOK'
  BY <1>1, <1>4, <1>8, <1>9 DEF StreamInv, ChatStreamTypeOK, Tasks, Messages, Roles
<1>11. \A u \in Conversation, r \in Roles, k \in Question :
         MessagesTo(u, r, k)' # {} => k <= questions'
  BY <1>4, <1>6 DEF StreamInv
<1>12. ASSUME NEW d \in Chat PROVE Streaming(d)'
  <2>1. CASE chat'[d].pc = "idle"
    BY <2>1 DEF Streaming
  <2>2. CASE chat'[d].pc # "idle"
    <3>1. d # c /\ chat'[d] = chat[d] /\ chat[d].pc # "idle" /\ Streaming(d)
      BY <1>9, <2>2 DEF StreamInv
    <3>2. chat[d].question # n
      BY <1>6, <3>1
    <3>3. /\ MessagesTo(chat[d].in, "user", chat[d].question)' # {}
          /\ \A u \in Conversation : MessagesTo(u, "assistant", chat[d].question)' = {}
      BY <1>2, <1>4, <1>8, <3>1, <3>2 DEF Streaming
    <3>4. \A e \in Chat : chat'[e].pc # "idle" /\ chat'[e].question = chat[d].question => e = d
      BY <1>9, <3>1 DEF Streaming
    <3>5. QED
      BY <3>1, <3>3, <3>4 DEF Streaming
  <2>3. QED
    BY <2>1, <2>2
<1>13. AnswersAreKept'
  <2>1. ASSUME NEW k \in answered' PROVE \E u \in Conversation : MessagesTo(u, "assistant", k)' # {}
    <3>1. CASE k = n
      BY <1>7, <3>1
    <3>2. CASE k # n
      <4>1. k \in answered /\ k \in Question
        BY <1>1, <1>8, <2>1, <3>2
      <4>2. PICK u \in Conversation : MessagesTo(u, "assistant", k) # {}
        BY <1>5, <4>1 DEF AnswersAreKept
      <4>3. MessagesTo(u, "assistant", k)' = MessagesTo(u, "assistant", k)
        BY <1>2, <1>4, <3>2, <4>1
      <4>4. QED
        BY <4>2, <4>3
    <3>3. QED
      BY <3>1, <3>2
  <2>2. ASSUME NEW u \in Conversation, NEW k \in Question, NEW i \in MessagesTo(u, "assistant", k)'
        PROVE  /\ MessagesTo(u, "assistant", k)' = {i}
               /\ \E j \in MessagesTo(u, "user", k)' : j < i
    <3>1. MessagesTo(u, "user", k)' = MessagesTo(u, "user", k)
      BY <1>2, <1>4
    <3>2. CASE u = v /\ k = n
      <4>1. i = last
        BY <1>7, <2>2, <3>2
      <4>2. PICK j : j \in MessagesTo(v, "user", n)
        BY <1>6
      <4>3. j < last
        BY <1>3, <4>2
      <4>4. QED
        BY <1>7, <3>1, <3>2, <4>1, <4>2, <4>3
    <3>3. CASE u # v \/ k # n
      <4>1. MessagesTo(u, "assistant", k)' = MessagesTo(u, "assistant", k)
        BY <1>2, <1>4, <3>3
      <4>2. QED
        BY <1>5, <2>2, <3>1, <4>1 DEF AnswersAreKept
    <3>4. QED
      BY <3>2, <3>3
  <2>3. QED
    BY <2>1, <2>2 DEF AnswersAreKept
<1>14. QED
  BY <1>10, <1>11, <1>12, <1>13 DEF StreamInv

LEMMA StreamInvStep == StreamInv /\ [ChatStreamNext]_chatVars => StreamInv'
<1> SUFFICES ASSUME StreamInv, [ChatStreamNext]_chatVars PROVE StreamInv'
  OBVIOUS
<1>1. /\ chat \in [Chat -> {NotChatting} \cup Tasks]
      /\ \A c \in Chat : chat[c].pc # "idle" => chat[c] \in Tasks
  BY StreamTypes DEF StreamInv
<1>2. ASSUME NEW c \in Chat, NEW v \in Conversation, BeginChat(c, v) PROVE StreamInv'
  BY <1>2, BeginStreamInv
<1>3. ASSUME NEW c \in Chat, EndChat(c), UNCHANGED <<messages, questions, answered>>
      PROVE  StreamInv'
  <2>1. /\ chat' \in [Chat -> {NotChatting} \cup Tasks]
        /\ \A d \in Chat : chat'[d].pc # "idle" => chat'[d] = chat[d]
    BY <1>1, <1>3 DEF EndChat, NotChatting
  <2>2. QED
    BY <1>3, <2>1, TasksGoOn
<1>4. ASSUME NEW c \in Chat, NEW pc \in {"stream", "failed"}, chat[c].pc # "idle",
             chat' = [chat EXCEPT ![c].pc = pc], UNCHANGED <<messages, questions, answered>>
      PROVE  StreamInv'
  <2>1. chat[c] \in Tasks
    BY <1>1, <1>4
  <2>2. /\ [chat[c] EXCEPT !.pc = pc] \in Tasks
        /\ [chat[c] EXCEPT !.pc = pc].in = chat[c].in
        /\ [chat[c] EXCEPT !.pc = pc].question = chat[c].question
    BY <2>1 DEF Tasks
  <2>3. /\ chat' \in [Chat -> {NotChatting} \cup Tasks]
        /\ chat'[c].in = chat[c].in /\ chat'[c].question = chat[c].question
        /\ \A d \in Chat : d # c => chat'[d] = chat[d]
    BY <1>1, <1>4, <2>2
  <2>4. QED
    BY <1>4, <2>3, TasksGoOn
<1>5. ASSUME NEW c \in Chat, OpenStream(c) PROVE StreamInv'
  BY <1>3, <1>4, <1>5 DEF OpenStream
<1>6. ASSUME NEW c \in Chat, ModelAnswers(c) PROVE StreamInv'
  BY <1>6, RecordInv DEF ModelAnswers
<1>7. ASSUME NEW c \in Chat, ModelSaysNothing(c) PROVE StreamInv'
  BY <1>3, <1>7 DEF ModelSaysNothing
<1>8. ASSUME NEW c \in Chat, ModelFails(c) PROVE StreamInv'
  BY <1>4, <1>8 DEF ModelFails
<1>9. ASSUME NEW c \in Chat, AfterFailure(c) PROVE StreamInv'
  BY <1>3, <1>9, RecordInv DEF AfterFailure
<1>10. ASSUME NEW c \in Chat, BrowserLeaves(c) PROVE StreamInv'
  <2>1. chat[c] \in Tasks /\ chat[c].pc # "idle"
    BY <1>1, <1>10 DEF BrowserLeaves
  <2>2. /\ [chat[c] EXCEPT !.here = FALSE] \in Tasks
        /\ [chat[c] EXCEPT !.here = FALSE].in = chat[c].in
        /\ [chat[c] EXCEPT !.here = FALSE].question = chat[c].question
    BY <2>1 DEF Tasks
  <2>3. /\ chat' \in [Chat -> {NotChatting} \cup Tasks]
        /\ chat'[c].in = chat[c].in /\ chat'[c].question = chat[c].question
        /\ \A d \in Chat : d # c => chat'[d] = chat[d]
    BY <1>1, <1>10, <2>2 DEF BrowserLeaves
  <2>4. QED
    BY <1>10, <2>1, <2>3, TasksGoOn DEF BrowserLeaves
<1>11. CASE StreamsBreakOff
  <2>1. chat' \in [Chat -> {NotChatting} \cup Tasks] /\ \A c \in Chat : chat'[c].pc = "idle"
    BY <1>11 DEF StreamsBreakOff, NotChatting
  <2>2. QED
    BY <1>11, <2>1, TasksGoOn DEF StreamsBreakOff
<1>12. CASE UNCHANGED chatVars
  BY <1>1, <1>12, TasksGoOn DEF chatVars
<1>13. QED
  BY <1>2, <1>5, <1>6, <1>7, <1>8, <1>9, <1>10, <1>11, <1>12 DEF ChatStreamNext

(* Every full answer is kept, follows its question, and is the only one to *)
(* it (agent.ts:57-189), for any number of conversations and questions at  *)
(* once, whoever leaves.                                                   *)
THEOREM AnswersKept == ChatStreamSpec => []AnswersAreKept
<1>1. StreamInv => AnswersAreKept
  BY DEF StreamInv
<1>2. QED
  BY StreamInvInit, StreamInvStep, <1>1, PTL DEF ChatStreamSpec
=============================================================================
