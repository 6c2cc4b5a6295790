-------------------------- MODULE OnboardingProofs --------------------------
(***************************************************************************)
(* What a new wallet meets, for any number of each.  Invite codes: whoever *)
(* is on the allowlist has a code or an operator's word, and a redeemed    *)
(* code is a funded one.  The faucet: no two transfers share a nonce, and  *)
(* one drip at a time means one drip per window.  The rate limiter: the    *)
(* limit is kept and nobody is refused without cause, for every limit,     *)
(* window length and pruning interval.                                     *)
(***************************************************************************)
EXTENDS MCOnboarding, FiniteSetTheorems, WellFoundedInduction, TLAPS

Engaged(r) == redemption[r].pc # "idle"

(* What a redemption knows: it alone holds its code, burned for its        *)
(* wallet, and what it has got past has been sent.                         *)
Holding(r) ==
  IF Engaged(r)
  THEN /\ redemption[r].code \in Code /\ redemption[r].wallet \in Invitee
       /\ code[redemption[r].code] = redemption[r].wallet
       /\ redemption[r].pc = "eth" => "usdc" \in granted[redemption[r].code]
       /\ redemption[r].pc \in {"register", "seed"} =>
            granted[redemption[r].code] = {"usdc", "eth"}
       /\ \A q \in Redemption \ {r} :
            Engaged(q) => redemption[q].code # redemption[r].code
  ELSE redemption[r] = NotRedeeming

RedeemInv ==
  /\ RedeemTypeOK /\ RedeemedMeansFunded /\ AllowedByCode
  /\ \A r \in Redemption : Holding(r)

-----------------------------------------------------------------------------
LEMMA RedeemInvInit == RedeemInit => RedeemInv
<1> SUFFICES ASSUME RedeemInit PROVE RedeemInv
  OBVIOUS
<1>1. NotRedeeming \in Redemptions
  BY DEF NotRedeeming, Redemptions
<1>2. RedeemTypeOK
  BY <1>1, RedeemAssumption DEF RedeemAssumption, RedeemInit, RedeemTypeOK
<1>3. \A k \in Code : ~ Redeemed(k)
  BY RedeemAssumption DEF RedeemAssumption, RedeemInit, Redeemed
<1>4. \A r \in Redemption : Holding(r)
  BY DEF RedeemInit, Holding, Engaged, NotRedeeming
<1>5. AllowedByCode
  BY DEF RedeemInit, AllowedByCode
<1>6. QED
  BY <1>2, <1>3, <1>4, <1>5 DEF RedeemInv, RedeemedMeansFunded

(* A redemption takes up an available code.                                *)
LEMMA BeginRedeemInv ==
  ASSUME RedeemInv, NEW r \in Redemption, NEW k \in Code, NEW w \in Invitee,
         BeginRedeem(r, k, w)
  PROVE  RedeemInv'
<1> DEFINE rec == [pc |-> "usdc", code |-> k, wallet |-> w]
<1>1. /\ RedeemTypeOK /\ redemption[r].pc = "idle" /\ code[k] = "available"
      /\ code' = [code EXCEPT ![k] = w] /\ allowed' = allowed \cup {w}
      /\ redemption' = [redemption EXCEPT ![r] = rec]
      /\ granted' = [granted EXCEPT ![k] = {}]
      /\ word' = [word EXCEPT ![w] = IF @ = "out" THEN "none" ELSE @]
      /\ interrupted' = interrupted
  BY DEF RedeemInv, BeginRedeem, Burn
<1>2. rec \in Redemptions
  BY DEF Redemptions
<1> HIDE DEF rec
<1>3. RedeemTypeOK'
  BY <1>1, <1>2 DEF RedeemTypeOK
<1>4. rec.pc = "usdc" /\ rec.code = k /\ rec.wallet = w
  BY DEF rec
<1>5. redemption'[r] = rec /\ \A q \in Redemption \ {r} : redemption'[q] = redemption[q]
  BY <1>1 DEF RedeemTypeOK
<1>6. code'[k] = w /\ \A j \in Code \ {k} : code'[j] = code[j] /\ granted'[j] = granted[j]
  BY <1>1 DEF RedeemTypeOK
<1>7. "available" \notin Invitee
  BY RedeemAssumption DEF RedeemAssumption
<1>8. \A q \in Redemption \ {r} : Engaged(q) => redemption[q].code \in Code \ {k}
  BY <1>1, <1>7 DEF RedeemInv, Holding
<1>9. ASSUME NEW q \in Redemption PROVE Holding(q)'
  <2>1. CASE q = r
    BY <1>4, <1>5, <1>6, <1>8, <2>1 DEF Holding, Engaged
  <2>2. CASE q # r
    BY <1>4, <1>5, <1>6, <1>8, <2>2 DEF RedeemInv, Holding, Engaged
  <2>3. QED
    BY <2>1, <2>2
<1>10. RedeemedMeansFunded'
  <2> SUFFICES ASSUME NEW j \in Code, Redeemed(j)', ~ UnderWay(j)', ~ interrupted'
               PROVE  granted'[j] = {"usdc", "eth"}
    BY DEF RedeemedMeansFunded
  <2>1. j # k
    BY <1>4, <1>5 DEF UnderWay
  <2>2. Redeemed(j) /\ ~ interrupted
    BY <1>1, <1>6, <2>1 DEF Redeemed
  <2>3. ASSUME NEW q \in Redemption, redemption[q].code = j PROVE FALSE
    <3>1. q # r
      BY <1>1, <2>3, RedeemAssumption
         DEF RedeemInv, Holding, Engaged, NotRedeeming, RedeemAssumption
    <3>2. QED
      BY <1>5, <2>3, <3>1 DEF UnderWay
  <2>4. QED
    BY <1>6, <2>1, <2>2, <2>3 DEF RedeemInv, RedeemedMeansFunded, UnderWay
<1>11. AllowedByCode'
  <2> SUFFICES ASSUME NEW v \in allowed'
               PROVE  word'[v] = "in" \/ \E j \in Code : code'[j] = v
    BY DEF AllowedByCode
  <2>1. CASE v = w
    BY <1>6, <2>1
  <2>2. CASE v # w
    <3>1. v \in allowed /\ v \in Invitee
      BY <1>1, <2>2 DEF RedeemTypeOK
    <3>2. word'[v] = word[v]
      BY <1>1, <2>2, <3>1 DEF RedeemTypeOK
    <3>3. QED
      BY <1>1, <1>6, <1>7, <3>1, <3>2 DEF RedeemInv, AllowedByCode
  <2>3. QED
    BY <2>1, <2>2
<1>12. QED
  BY <1>3, <1>9, <1>10, <1>11 DEF RedeemInv

(* A transfer that was or was not sent: what other codes have got stays.   *)
Granting(r) ==
  /\ granted' \in [Code -> SUBSET {"usdc", "eth"}]
  /\ \A j \in Code : j # redemption[r].code => granted'[j] = granted[j]

LEMMA GrantIsGranting ==
  ASSUME RedeemInv, NEW r \in Redemption, Engaged(r), NEW coin \in {"usdc", "eth"},
         Grant(r, coin)
  PROVE  /\ Granting(r)
         /\ granted'[redemption[r].code] = granted[redemption[r].code] \cup {coin}
<1>1. redemption[r].code \in Code
  BY DEF RedeemInv, Holding
<1>2. granted \in [Code -> SUBSET {"usdc", "eth"}]
  BY DEF RedeemInv, RedeemTypeOK
<1>3. QED
  BY <1>1, <1>2 DEF Granting, Grant

LEMMA NoGrantIsGranting ==
  ASSUME RedeemInv, NEW r \in Redemption, UNCHANGED granted
  PROVE  Granting(r)
BY DEF RedeemInv, RedeemTypeOK, Granting

(* The rollback.                                                           *)
LEMMA UndoInv ==
  ASSUME RedeemInv, NEW r \in Redemption, Engaged(r), Granting(r), Undo(r)
  PROVE  RedeemInv'
<1> DEFINE k == redemption[r].code
           w == redemption[r].wallet
<1>1. k \in Code /\ w \in Invitee /\ code[k] = w
  BY DEF RedeemInv, Holding
<1>2. \A q \in Redemption \ {r} : Engaged(q) => redemption[q].code # k
  BY DEF RedeemInv, Holding
<1> HIDE DEF k, w
<1>3. /\ RedeemTypeOK
      /\ code' = [code EXCEPT ![k] = "available"] /\ allowed' = allowed \ {w}
      /\ redemption' = [redemption EXCEPT ![r] = NotRedeeming]
      /\ word' = word /\ interrupted' = interrupted
  BY DEF RedeemInv, Undo, k, w
<1>4. /\ granted' \in [Code -> SUBSET {"usdc", "eth"}]
      /\ \A j \in Code \ {k} : granted'[j] = granted[j]
  BY DEF Granting, k
<1>5. redemption'[r] = NotRedeeming
      /\ \A q \in Redemption \ {r} : redemption'[q] = redemption[q]
  BY <1>3 DEF RedeemTypeOK
<1>6. code'[k] = "available" /\ \A j \in Code \ {k} : code'[j] = code[j]
  BY <1>1, <1>3 DEF RedeemTypeOK
<1>7. "available" \notin Invitee /\ NoCode \notin Code
  BY RedeemAssumption DEF RedeemAssumption
<1>8. RedeemTypeOK'
  <2>1. NotRedeeming \in Redemptions
    BY DEF NotRedeeming, Redemptions
  <2>2. QED
    BY <1>3, <1>4, <2>1 DEF RedeemTypeOK
<1>9. ASSUME NEW q \in Redemption PROVE Holding(q)'
  <2>1. CASE q = r
    BY <1>5, <2>1 DEF Holding, Engaged, NotRedeeming
  <2>2. CASE q # r
    BY <1>2, <1>4, <1>5, <1>6, <2>2 DEF RedeemInv, Holding, Engaged, NotRedeeming
  <2>3. QED
    BY <2>1, <2>2
<1>10. RedeemedMeansFunded'
  <2> SUFFICES ASSUME NEW j \in Code, Redeemed(j)', ~ UnderWay(j)', ~ interrupted'
               PROVE  granted'[j] = {"usdc", "eth"}
    BY DEF RedeemedMeansFunded
  <2>1. j # k
    BY <1>6, <1>7 DEF Redeemed
  <2>2. Redeemed(j) /\ ~ interrupted
    BY <1>3, <1>6, <2>1 DEF Redeemed
  <2>3. ~ UnderWay(j)
    BY <1>5, <2>1 DEF UnderWay, k
  <2>4. QED
    BY <1>4, <2>1, <2>2, <2>3 DEF RedeemInv, RedeemedMeansFunded
<1>11. AllowedByCode'
  <2> SUFFICES ASSUME NEW v \in allowed'
               PROVE  word'[v] = "in" \/ \E j \in Code : code'[j] = v
    BY DEF AllowedByCode
  <2>1. v \in allowed /\ v # w
    BY <1>3
  <2>2. QED
    BY <1>1, <1>3, <1>6, <2>1 DEF RedeemInv, AllowedByCode
<1>12. QED
  BY <1>8, <1>9, <1>10, <1>11 DEF RedeemInv

(* The next step of a redemption.                                          *)
LEMMA GoOnInv ==
  ASSUME RedeemInv, NEW r \in Redemption, Engaged(r), Granting(r),
         NEW place \in {"eth", "register", "seed"}, GoOnRedeeming(r, place),
         place = "eth" => "usdc" \in granted'[redemption[r].code],
         place # "eth" => granted'[redemption[r].code] = {"usdc", "eth"}
  PROVE  RedeemInv'
<1> DEFINE k == redemption[r].code
<1>1. k \in Code /\ redemption[r].wallet \in Invitee /\ code[k] = redemption[r].wallet
  BY DEF RedeemInv, Holding
<1>2. \A q \in Redemption \ {r} : Engaged(q) => redemption[q].code # k
  BY DEF RedeemInv, Holding
<1> HIDE DEF k
<1>3. /\ RedeemTypeOK /\ redemption' = [redemption EXCEPT ![r].pc = place]
      /\ code' = code /\ allowed' = allowed /\ word' = word /\ interrupted' = interrupted
  BY DEF RedeemInv, GoOnRedeeming
<1>4. /\ granted' \in [Code -> SUBSET {"usdc", "eth"}]
      /\ \A j \in Code \ {k} : granted'[j] = granted[j]
  BY DEF Granting, k
<1>5. /\ redemption'[r].pc = place /\ redemption'[r].code = k
      /\ redemption'[r].wallet = redemption[r].wallet
      /\ redemption' \in [Redemption -> Redemptions]
  BY <1>3 DEF RedeemTypeOK, Redemptions, k
<1>6. \A q \in Redemption \ {r} : redemption'[q] = redemption[q]
  BY <1>3 DEF RedeemTypeOK
<1>7. RedeemTypeOK'
  BY <1>3, <1>4, <1>5 DEF RedeemTypeOK
<1>8. ASSUME NEW q \in Redemption PROVE Holding(q)'
  <2>1. CASE q = r
    BY <1>1, <1>2, <1>3, <1>5, <1>6, <2>1 DEF Holding, Engaged, k
  <2>2. CASE q # r
    BY <1>2, <1>3, <1>4, <1>5, <1>6, <2>2 DEF RedeemInv, Holding, Engaged
  <2>3. QED
    BY <2>1, <2>2
<1>9. RedeemedMeansFunded'
  <2> SUFFICES ASSUME NEW j \in Code, Redeemed(j)', ~ UnderWay(j)', ~ interrupted'
               PROVE  granted'[j] = {"usdc", "eth"}
    BY DEF RedeemedMeansFunded
  <2>1. j # k
    BY <1>5 DEF UnderWay
  <2>2. Redeemed(j) /\ ~ interrupted
    BY <1>3 DEF Redeemed
  <2>3. ~ UnderWay(j)
    BY <1>6, <2>1 DEF UnderWay, k
  <2>4. QED
    BY <1>4, <2>1, <2>2, <2>3 DEF RedeemInv, RedeemedMeansFunded
<1>10. AllowedByCode'
  BY <1>3 DEF RedeemInv, AllowedByCode
<1>11. QED
  BY <1>7, <1>8, <1>9, <1>10 DEF RedeemInv

(* An await that ends, whichever way.                                      *)
LEMMA RedeemStepInv ==
  ASSUME RedeemInv, NEW r \in Redemption, RedeemStep(r)
  PROVE  RedeemInv'
<1>1. CASE SendUsdc(r)
  <2>1. Engaged(r) /\ redemption[r].code \in Code
    BY <1>1 DEF SendUsdc, Engaged, RedeemInv, Holding
  <2>2. CASE Grant(r, "usdc") /\ (GoOnRedeeming(r, "eth") \/ Undo(r))
    <3>1. Granting(r) /\ "usdc" \in granted'[redemption[r].code]
      BY <2>1, <2>2, GrantIsGranting
    <3>2. QED
      BY <2>1, <2>2, <3>1, GoOnInv, UndoInv
  <2>3. CASE UNCHANGED granted /\ Undo(r)
    BY <2>1, <2>3, NoGrantIsGranting, UndoInv
  <2>4. QED
    BY <1>1, <2>2, <2>3 DEF SendUsdc
<1>2. CASE SendEth(r)
  <2>1. Engaged(r) /\ redemption[r].code \in Code
    BY <1>2 DEF SendEth, Engaged, RedeemInv, Holding
  <2>2. CASE Grant(r, "eth") /\ (GoOnRedeeming(r, "register") \/ Undo(r))
    <3>1. /\ Granting(r)
          /\ granted'[redemption[r].code] = granted[redemption[r].code] \cup {"eth"}
      BY <2>1, <2>2, GrantIsGranting
    <3>2. /\ "usdc" \in granted[redemption[r].code]
          /\ granted[redemption[r].code] \subseteq {"usdc", "eth"}
      BY <1>2, <2>1 DEF SendEth, RedeemInv, Holding, RedeemTypeOK
    <3>3. granted'[redemption[r].code] = {"usdc", "eth"}
      BY <3>1, <3>2
    <3>4. QED
      BY <2>1, <2>2, <3>1, <3>3, GoOnInv, UndoInv
  <2>3. CASE UNCHANGED granted /\ Undo(r)
    BY <2>1, <2>3, NoGrantIsGranting, UndoInv
  <2>4. QED
    BY <1>2, <2>2, <2>3 DEF SendEth
<1>3. CASE RegisterWallet(r)
  <2>1. /\ Engaged(r) /\ Granting(r) /\ GoOnRedeeming(r, "seed")
        /\ granted'[redemption[r].code] = {"usdc", "eth"}
    BY <1>3, NoGrantIsGranting DEF RegisterWallet, Engaged, RedeemInv, Holding
  <2>2. QED
    BY <2>1, GoOnInv
<1>4. CASE SeedCredit(r)
  <2>1. /\ RedeemTypeOK /\ redemption[r].pc = "seed"
        /\ redemption' = [redemption EXCEPT ![r] = NotRedeeming]
        /\ code' = code /\ allowed' = allowed /\ granted' = granted /\ word' = word
        /\ interrupted' = interrupted
    BY <1>4 DEF RedeemInv, SeedCredit
  <2>2. NotRedeeming \in Redemptions /\ NotRedeeming.pc = "idle"
    BY DEF NotRedeeming, Redemptions
  <2>3. redemption'[r] = NotRedeeming
        /\ \A q \in Redemption \ {r} : redemption'[q] = redemption[q]
    BY <2>1 DEF RedeemTypeOK
  <2>4. granted[redemption[r].code] = {"usdc", "eth"}
    BY <2>1 DEF RedeemInv, Holding, Engaged
  <2>5. RedeemTypeOK'
    BY <2>1, <2>2 DEF RedeemTypeOK
  <2>6. ASSUME NEW q \in Redemption PROVE Holding(q)'
    <3>1. CASE q = r
      BY <2>2, <2>3, <3>1 DEF Holding, Engaged
    <3>2. CASE q # r
      BY <2>1, <2>2, <2>3, <3>2 DEF RedeemInv, Holding, Engaged
    <3>3. QED
      BY <3>1, <3>2
  <2>7. RedeemedMeansFunded'
    <3> SUFFICES ASSUME NEW j \in Code, Redeemed(j)', ~ UnderWay(j)', ~ interrupted'
                 PROVE  granted'[j] = {"usdc", "eth"}
      BY DEF RedeemedMeansFunded
    <3>1. CASE j = redemption[r].code
      BY <2>1, <2>4, <3>1
    <3>2. CASE j # redemption[r].code
      BY <2>1, <2>3, <3>2 DEF RedeemInv, RedeemedMeansFunded, Redeemed, UnderWay
    <3>3. QED
      BY <3>1, <3>2
  <2>8. AllowedByCode'
    BY <2>1 DEF RedeemInv, AllowedByCode
  <2>9. QED
    BY <2>5, <2>6, <2>7, <2>8 DEF RedeemInv
<1>5. QED
  BY <1>1, <1>2, <1>3, <1>4 DEF RedeemStep

(* What operators do to a code that is not burned disturbs no redemption.  *)
LEMMA CodeByHandInv ==
  ASSUME RedeemInv, NEW k \in Code, CreateCode(k) \/ RevokeCode(k)
  PROVE  RedeemInv'
<1>1. PICK to \in {"none", "available"} : code' = [code EXCEPT ![k] = to]
  BY DEF CreateCode, RevokeCode
<1>2. /\ RedeemTypeOK /\ code[k] \in {"none", "available"}
      /\ UNCHANGED <<allowed, redemption, granted, word, interrupted>>
  BY DEF RedeemInv, CreateCode, RevokeCode
<1>3. {"none", "available"} \cap Invitee = {}
  BY RedeemAssumption DEF RedeemAssumption
<1>4. code'[k] = to /\ \A j \in Code \ {k} : code'[j] = code[j]
  BY <1>1, <1>2 DEF RedeemTypeOK
<1>5. RedeemTypeOK'
  BY <1>1, <1>2 DEF RedeemTypeOK
<1>6. \A q \in Redemption : Holding(q)'
  BY <1>2, <1>3, <1>4 DEF RedeemInv, Holding, Engaged
<1>7. RedeemedMeansFunded'
  BY <1>2, <1>3, <1>4 DEF RedeemInv, RedeemedMeansFunded, Redeemed, UnderWay
<1>8. AllowedByCode'
  BY <1>2, <1>3, <1>4 DEF RedeemInv, AllowedByCode, RedeemTypeOK
<1>9. QED
  BY <1>5, <1>6, <1>7, <1>8 DEF RedeemInv

(* Nor does what they do to the allowlist.                                 *)
LEMMA ListByHandInv ==
  ASSUME RedeemInv, NEW w \in Invitee, AddByHand(w) \/ StrikeOff(w)
  PROVE  RedeemInv'
<1>1. /\ RedeemTypeOK /\ allowed' \subseteq allowed \cup {w}
      /\ word' \in [Invitee -> {"none", "in", "out"}]
      /\ \A v \in Invitee \ {w} : word'[v] = word[v]
      /\ w \in allowed' => word'[w] = "in"
      /\ UNCHANGED <<code, redemption, granted, interrupted>>
  BY DEF RedeemInv, RedeemTypeOK, AddByHand, StrikeOff
<1>2. RedeemTypeOK'
  BY <1>1 DEF RedeemTypeOK
<1>3. \A q \in Redemption : Holding(q)'
  BY <1>1 DEF RedeemInv, Holding, Engaged
<1>4. RedeemedMeansFunded'
  BY <1>1 DEF RedeemInv, RedeemedMeansFunded, Redeemed, UnderWay
<1>5. AllowedByCode'
  BY <1>1 DEF RedeemInv, AllowedByCode, RedeemTypeOK
<1>6. QED
  BY <1>2, <1>3, <1>4, <1>5 DEF RedeemInv

(* A restart forgets the redemptions and burns nothing.                    *)
LEMMA GateRestartInv ==
  ASSUME RedeemInv, GateRestart
  PROVE  RedeemInv'
<1>1. /\ RedeemTypeOK
      /\ interrupted' = (interrupted \/ \E r \in Redemption : redemption[r].pc # "idle")
      /\ redemption' = [r \in Redemption |-> NotRedeeming]
      /\ code' = [k \in Code |-> IF k \in Preset /\ code[k] = "none" THEN "available"
                                 ELSE code[k]]
      /\ UNCHANGED <<allowed, granted, word>>
  BY DEF RedeemInv, GateRestart
<1>2. {"none", "available"} \cap Invitee = {} /\ NoCode \notin Code
  BY RedeemAssumption DEF RedeemAssumption
<1>3. RedeemTypeOK'
  <2>1. NotRedeeming \in Redemptions
    BY DEF NotRedeeming, Redemptions
  <2>2. interrupted' \in BOOLEAN
    BY <1>1
  <2>3. QED
    BY <1>1, <2>1, <2>2 DEF RedeemTypeOK
<1>4. \A q \in Redemption : Holding(q)'
  BY <1>1 DEF Holding, Engaged, NotRedeeming
<1>5. RedeemedMeansFunded'
  <2> SUFFICES ASSUME NEW j \in Code, Redeemed(j)', ~ interrupted'
               PROVE  granted'[j] = {"usdc", "eth"}
    BY DEF RedeemedMeansFunded
  <2>1. Redeemed(j)
    BY <1>1, <1>2 DEF Redeemed
  <2>2. ~ interrupted /\ \A r \in Redemption : redemption[r] = NotRedeeming
    BY <1>1 DEF RedeemInv, Holding, Engaged
  <2>3. ~ UnderWay(j)
    BY <1>2, <2>2 DEF UnderWay, NotRedeeming
  <2>4. QED
    BY <1>1, <2>1, <2>2, <2>3 DEF RedeemInv, RedeemedMeansFunded
<1>6. AllowedByCode'
  <2> SUFFICES ASSUME NEW w \in allowed'
               PROVE  word'[w] = "in" \/ \E j \in Code : code'[j] = w
    BY DEF AllowedByCode
  <2>1. w \in allowed /\ w \in Invitee
    BY <1>1 DEF RedeemTypeOK
  <2>2. QED
    BY <1>1, <1>2, <2>1 DEF RedeemInv, AllowedByCode
<1>7. QED
  BY <1>3, <1>4, <1>5, <1>6 DEF RedeemInv

(* No step takes the redemptions out of the invariant.                     *)
LEMMA RedeemInvStep == RedeemInv /\ [RedeemNext]_redeemVars => RedeemInv'
<1> SUFFICES ASSUME RedeemInv, [RedeemNext]_redeemVars PROVE RedeemInv'
  OBVIOUS
<1>1. CASE \E r \in Redemption : RedeemStep(r)
  BY <1>1, RedeemStepInv
<1>2. CASE \E r \in Redemption, k \in Code, w \in Invitee : BeginRedeem(r, k, w)
  BY <1>2, BeginRedeemInv
<1>3. CASE \E k \in Code : CreateCode(k) \/ RevokeCode(k)
  BY <1>3, CodeByHandInv
<1>4. CASE \E w \in Invitee : AddByHand(w) \/ StrikeOff(w)
  BY <1>4, ListByHandInv
<1>5. CASE GateRestart
  BY <1>5, GateRestartInv
<1>6. CASE UNCHANGED redeemVars
  BY <1>6 DEF redeemVars, RedeemInv, RedeemTypeOK, RedeemedMeansFunded, AllowedByCode,
              Holding, Engaged, Redeemed, UnderWay
<1>7. QED
  BY <1>1, <1>2, <1>3, <1>4, <1>5, <1>6 DEF RedeemNext

LEMMA RedeemInvHolds == RedeemSpec => []RedeemInv
BY RedeemInvInit, RedeemInvStep, PTL DEF RedeemSpec

-----------------------------------------------------------------------------
(* The tables of gate.sh and the redemptions keep their types              *)
(* (gate/src/db.ts).                                                       *)
THEOREM RedeemTypeCorrect == RedeemSpec => []RedeemTypeOK
<1>1. RedeemInv => RedeemTypeOK
  BY DEF RedeemInv
<1>2. QED
  BY <1>1, RedeemInvHolds, PTL

(* However many redemptions are under way, a code stays redeemed only for  *)
(* a wallet that got both transfers (gate/src/service.ts:51-83).           *)
THEOREM CodesAreFunded == RedeemSpec => []RedeemedMeansFunded
<1>1. RedeemInv => RedeemedMeansFunded
  BY DEF RedeemInv
<1>2. QED
  BY <1>1, RedeemInvHolds, PTL

(* However redemptions, revocations, operators and restarts interleave,    *)
(* nobody is on the allowlist without a code of their own or an operator's *)
(* word (gate/src/service.ts:48-82).                                       *)
THEOREM AllowedHolds == RedeemSpec => []AllowedByCode
<1>1. RedeemInv => AllowedByCode
  BY DEF RedeemInv
<1>2. QED
  BY <1>1, RedeemInvHolds, PTL

-----------------------------------------------------------------------------
(* A request under way is for a wallet and a coin, stands in line while it *)
(* waits, is the first there while it fetches, and has a nonce to send.    *)
Placed(d) ==
  /\ drip[d].pc # "idle" => drip[d].for \in Address \X Coin
  /\ drip[d].pc = "queue" => \E i \in 1..Len(line) : line[i] = d
  /\ drip[d].pc = "fetch" => Len(line) > 0 /\ line[1] = d /\ current = NoNonce
  /\ drip[d].pc = "send" <=> drip[d].nonce # NoNonce

(* Nothing has a nonce the queue has not got to yet.                       *)
InOrder ==
  /\ current = NoNonce => chain.pool = {} /\ \A d \in Drip : drip[d].pc # "send"
  /\ current # NoNonce =>
       /\ chain.mined <= current + 1
       /\ \A tx \in chain.pool : tx[1] <= current
       /\ \A d \in Drip : drip[d].pc = "send" => drip[d].nonce <= current

QueueInv ==
  /\ FaucetTypeOK /\ NoncesDoNotCollide
  /\ \A d \in Drip : Placed(d)
  /\ ~ trouble => InOrder

(* What a drip writes down.                                                *)
Books ==
  /\ lately \subseteq Address \X Coin /\ overlap \subseteq Address \X Coin
  /\ dripped \in [Address \X Coin -> Nat]

LEMMA QueueInvInit == FaucetInit => QueueInv
<1> SUFFICES ASSUME FaucetInit PROVE QueueInv
  OBVIOUS
<1>1. NotDripping \in Drips /\ NotDripping.pc = "idle" /\ NotDripping.nonce = NoNonce
  BY DEF NotDripping, Drips
<1>2. FaucetTypeOK
  <2>1. Funds \in Nat /\ DripLimit \in Nat
    BY FaucetAssumption DEF FaucetAssumption
  <2>2. drip \in [Drip -> Drips]
    BY <1>1 DEF FaucetInit
  <2>3. chain \in [mined : Nat, pool : SUBSET (Nat \X Coin), funds : [Coin -> Nat]]
    BY <2>1 DEF FaucetInit
  <2>4. dripped \in [Address \X Coin -> Nat]
    BY DEF FaucetInit
  <2>5. line \in Seq(Drip \cup {Lost})
    BY DEF FaucetInit
  <2>6. current \in Nat \cup {NoNonce} /\ trouble \in BOOLEAN
    BY DEF FaucetInit
  <2>7. begun \in 0..DripLimit
    BY <2>1 DEF FaucetInit
  <2>8. lately \subseteq Address \X Coin /\ overlap \subseteq Address \X Coin
    BY DEF FaucetInit
  <2>9. QED
    BY <2>2, <2>3, <2>4, <2>5, <2>6, <2>7, <2>8 DEF FaucetInit, FaucetTypeOK
<1>3. \A d \in Drip : Placed(d) /\ drip[d].pc = "idle"
  BY <1>1 DEF FaucetInit, Placed
<1>4. InOrder /\ NoncesDoNotCollide
  BY <1>3 DEF FaucetInit, InOrder, NoncesDoNotCollide
<1>5. QED
  BY <1>2, <1>3, <1>4 DEF QueueInv

LEMMA BooksKept ==
  ASSUME QueueInv, NEW d \in Drip, drip[d].pc # "idle",
         \/ Sent(d)
         \/ SentUnheard(d)
         \/ NotSent
  PROVE  Books'
<1>1. drip[d].for \in Address \X Coin
  BY DEF QueueInv, Placed
<1>2. Books
  BY DEF QueueInv, FaucetTypeOK, Books
<1>3. CASE NotSent
  BY <1>2, <1>3 DEF NotSent, Books
<1>4. CASE Sent(d) \/ SentUnheard(d)
  <2> DEFINE ak == drip[d].for
  <2>1. dripped' = [dripped EXCEPT ![ak] = @ + 1]
    BY <1>4 DEF Sent, SentUnheard
  <2>2. ak \in Address \X Coin
    BY <1>1
  <2>3. /\ lately' \subseteq lately \cup {ak}
        /\ overlap' \subseteq overlap \cup {ak}
    BY <1>4 DEF Sent, SentUnheard
  <2> HIDE DEF ak
  <2>4. QED
    BY <1>2, <2>1, <2>2, <2>3 DEF Books
<1>5. QED
  BY <1>3, <1>4

(* A request comes, goes, or gets in line: the nonces stay as they are.    *)
LEMMA OutsideInv ==
  ASSUME QueueInv, NEW d \in Drip, NEW rec \in Drips,
         drip[d].pc \in {"idle", "cdp", "floor"},
         rec.pc \in {"idle", "cdp", "floor", "queue"}, rec.nonce = NoNonce,
         rec.pc # "idle" => rec.for \in Address \X Coin,
         drip' = [drip EXCEPT ![d] = rec],
         line' = IF rec.pc = "queue" THEN Append(line, d) ELSE line,
         UNCHANGED <<current, chain, trouble, outage>>,
         Books', begun' \in 0..DripLimit
  PROVE  QueueInv'
<1>1. FaucetTypeOK
  BY DEF QueueInv
<1>2. drip'[d] = rec /\ \A e \in Drip \ {d} : drip'[e] = drip[e]
  BY <1>1 DEF FaucetTypeOK
<1>3. /\ line' \in Seq(Drip \cup {Lost}) /\ Len(line') >= Len(line)
      /\ \A i \in 1..Len(line) : line'[i] = line[i]
      /\ Len(line) \in Nat
  BY <1>1 DEF FaucetTypeOK
<1>4. rec.pc = "queue" => Len(line') \in 1..Len(line') /\ line'[Len(line')] = d
  BY <1>1 DEF FaucetTypeOK
<1>5. FaucetTypeOK'
  BY <1>1, <1>3 DEF FaucetTypeOK, Books
<1>6. ASSUME NEW e \in Drip PROVE Placed(e)'
  <2>1. CASE e = d
    BY <1>2, <1>4, <2>1 DEF Placed
  <2>2. CASE e # d
    <3>1. Placed(e) /\ drip'[e] = drip[e] /\ current' = current
      BY <1>2, <2>2 DEF QueueInv
    <3>2. drip[e].pc = "queue" => \E i \in 1..Len(line') : line'[i] = e
      BY <1>3, <3>1 DEF Placed
    <3>3. drip[e].pc = "fetch" => Len(line') > 0 /\ line'[1] = e
      BY <1>3, <3>1 DEF Placed
    <3>4. QED
      BY <3>1, <3>2, <3>3 DEF Placed
  <2>3. QED
    BY <2>1, <2>2
<1>7. \A e \in Drip : drip'[e].nonce = drip[e].nonce
                      /\ (drip'[e].pc = "send" <=> drip[e].pc = "send")
  BY <1>2 DEF QueueInv, Placed
<1>8. ~ trouble' => InOrder'
  BY <1>7 DEF QueueInv, InOrder
<1>9. NoncesDoNotCollide'
  BY <1>7 DEF QueueInv, NoncesDoNotCollide
<1>10. QED
  BY <1>5, <1>6, <1>8, <1>9 DEF QueueInv

(* The queue gives the first in line a nonce nobody has had.               *)
LEMMA AssignInv ==
  ASSUME QueueInv, NEW d \in Drip, NEW n \in Nat, drip[d].pc # "idle",
         Len(line) > 0, line[1] = d, drip[d].nonce = NoNonce,
         n = IF current = NoNonce THEN chain.mined ELSE current + 1,
         Assign(d, n), UNCHANGED <<lately, chain, begun, dripped, overlap, trouble, outage>>
  PROVE  QueueInv'
<1>1. /\ FaucetTypeOK /\ drip[d] \in Drips /\ line \in Seq(Drip \cup {Lost})
      /\ current' = n /\ line' = Tail(line)
      /\ drip' = [drip EXCEPT ![d].pc = "send", ![d].nonce = n]
  BY DEF QueueInv, FaucetTypeOK, Assign
<1>2. /\ drip'[d] = [drip[d] EXCEPT !.pc = "send", !.nonce = n]
      /\ \A e \in Drip \ {d} : drip'[e] = drip[e]
  BY <1>1 DEF FaucetTypeOK
<1>3. /\ drip'[d] \in Drips /\ drip'[d].pc = "send" /\ drip'[d].nonce = n
      /\ drip'[d].for = drip[d].for
  <2> DEFINE old == drip[d]
             rec == drip'[d]
  <2>1. old \in Drips /\ rec = [old EXCEPT !.pc = "send", !.nonce = n] /\ n \in Nat
    BY <1>1, <1>2
  <2> HIDE DEF old, rec
  <2>2. rec \in Drips /\ rec.pc = "send" /\ rec.nonce = n /\ rec.for = old.for
    BY <2>1 DEF Drips
  <2>3. QED
    BY <2>2 DEF old, rec
<1>4. drip' \in [Drip -> Drips]
  BY <1>1, <1>3 DEF FaucetTypeOK
<1>5. /\ line' \in Seq(Drip \cup {Lost}) /\ Len(line) \in Nat
      /\ Len(line') = Len(line) - 1
      /\ \A i \in 1..Len(line') : line'[i] = line[i + 1]
  BY <1>1
<1>6. FaucetTypeOK'
  BY <1>1, <1>4, <1>5 DEF FaucetTypeOK
<1>7. n # NoNonce
  BY DEF NoNonce
<1>8. ASSUME NEW e \in Drip PROVE Placed(e)'
  <2>1. CASE e = d
    BY <1>3, <1>7, <2>1 DEF QueueInv, Placed
  <2>2. CASE e # d
    <3>1. Placed(e) /\ drip'[e] = drip[e]
      BY <1>2, <2>2 DEF QueueInv
    <3>2. ASSUME drip[e].pc = "queue" PROVE \E i \in 1..Len(line') : line'[i] = e
      <4>1. PICK i \in 1..Len(line) : line[i] = e
        BY <3>1, <3>2 DEF Placed
      <4>2. i - 1 \in 1..Len(line') /\ line'[i - 1] = e
        BY <1>5, <2>2, <4>1
      <4>3. QED
        BY <4>2
    <3>3. drip[e].pc # "fetch"
      BY <2>2, <3>1 DEF Placed
    <3>4. QED
      BY <3>1, <3>2, <3>3 DEF Placed
  <2>3. QED
    BY <2>1, <2>2
<1>9. /\ chain' = chain /\ trouble' = trouble /\ chain.mined \in Nat
      /\ \A tx \in chain.pool : tx[1] \in Nat
      /\ \A e \in Drip : drip[e].pc = "send" => drip[e].nonce \in Nat
  BY <1>1 DEF QueueInv, FaucetTypeOK, Placed, Drips
<1>10. ASSUME ~ trouble
       PROVE  /\ chain.mined <= n
              /\ \A tx \in chain.pool : tx[1] < n
              /\ \A e \in Drip : drip[e].pc = "send" => drip[e].nonce < n
  BY <1>1, <1>9, <1>10 DEF QueueInv, InOrder, FaucetTypeOK
<1>11. ~ trouble' => InOrder'
  <2> SUFFICES ASSUME ~ trouble PROVE InOrder'
    BY <1>9
  <2>1. ASSUME NEW e \in Drip, drip'[e].pc = "send" PROVE drip'[e].nonce <= n
    <3>1. CASE e = d
      BY <1>3, <3>1
    <3>2. CASE e # d
      <4>1. drip'[e] = drip[e] /\ drip[e].pc = "send"
        BY <1>2, <2>1, <3>2
      <4>2. drip[e].nonce \in Nat /\ drip[e].nonce < n
        BY <1>9, <1>10, <4>1
      <4>3. QED
        BY <4>1, <4>2
    <3>3. QED
      BY <3>1, <3>2
  <2>2. chain.mined <= n + 1
    BY <1>9, <1>10
  <2>3. \A tx \in chain.pool : tx[1] <= n
    BY <1>9, <1>10
  <2>4. current' = n /\ chain' = chain
    BY <1>1, <1>9
  <2>5. QED
    BY <1>7, <2>1, <2>2, <2>3, <2>4 DEF InOrder
<1>12. NoncesDoNotCollide'
  <2> SUFFICES ASSUME ~ trouble, NEW e \in Drip, drip'[e].pc = "send"
               PROVE  /\ drip'[e].nonce >= chain.mined
                      /\ \A tx \in chain.pool : tx[1] # drip'[e].nonce
                      /\ \A f \in Drip \ {e} : drip'[f].nonce # drip'[e].nonce
    BY <1>9 DEF NoncesDoNotCollide
  <2>1. \A f \in Drip \ {d} : drip'[f].nonce # n
    BY <1>2, <1>7, <1>9, <1>10 DEF QueueInv, Placed
  <2>2. CASE e = d
    BY <1>3, <1>9, <1>10, <2>1, <2>2
  <2>3. CASE e # d
    <3>1. drip'[e] = drip[e] /\ drip[e].pc = "send"
      BY <1>2, <2>3
    <3>2. ASSUME NEW f \in Drip \ {e} PROVE drip'[f].nonce # drip[e].nonce
      <4>1. CASE f = d
        BY <1>3, <2>1, <2>3, <3>1, <4>1
      <4>2. CASE f # d
        BY <1>2, <3>1, <4>2 DEF QueueInv, NoncesDoNotCollide
      <4>3. QED
        BY <4>1, <4>2
    <3>3. QED
      BY <3>1, <3>2 DEF QueueInv, NoncesDoNotCollide
  <2>4. QED
    BY <2>2, <2>3
<1>13. QED
  BY <1>6, <1>8, <1>11, <1>12 DEF QueueInv

(* The first in line asks the chain, or is done, or is out of luck.        *)
LEMMA HeadInv ==
  ASSUME QueueInv, NEW d \in Drip, AtHead(d)
  PROVE  drip[d].pc = "queue" /\ Len(line) > 0 /\ line[1] = d /\ drip[d].nonce = NoNonce
<1>1. /\ Placed(d) /\ line \in Seq(Drip \cup {Lost})
      /\ drip[d].pc = "queue" /\ Head(line) = d
  BY DEF QueueInv, FaucetTypeOK, AtHead
<1>2. Len(line) \in Nat /\ Len(line) > 0
  BY <1>1 DEF Placed
<1>3. Head(line) = line[1]
  BY <1>1, <1>2
<1>4. QED
  BY <1>1, <1>2, <1>3 DEF Placed

LEMMA BeginFetchInv ==
  ASSUME QueueInv, NEW d \in Drip, BeginFetch(d)
  PROVE  QueueInv'
<1>1. /\ FaucetTypeOK /\ drip[d] \in Drips /\ current = NoNonce
      /\ drip' = [drip EXCEPT ![d].pc = "fetch"]
      /\ UNCHANGED <<lately, current, line, chain, begun, dripped, overlap, trouble, outage>>
  BY DEF QueueInv, FaucetTypeOK, BeginFetch, DripTo, NotSent
<1>2. drip[d].pc = "queue" /\ Len(line) > 0 /\ line[1] = d /\ drip[d].nonce = NoNonce
  BY HeadInv DEF BeginFetch
<1>3. /\ drip'[d] = [drip[d] EXCEPT !.pc = "fetch"]
      /\ \A e \in Drip \ {d} : drip'[e] = drip[e]
  BY <1>1 DEF FaucetTypeOK
<1>4. /\ drip'[d] \in Drips /\ drip'[d].pc = "fetch" /\ drip'[d].nonce = NoNonce
      /\ drip'[d].for = drip[d].for
  BY <1>1, <1>2, <1>3 DEF Drips
<1>5. FaucetTypeOK'
  BY <1>1, <1>4 DEF FaucetTypeOK
<1>6. ASSUME NEW e \in Drip PROVE Placed(e)'
  <2>1. CASE e = d
    BY <1>1, <1>2, <1>4, <2>1 DEF QueueInv, Placed
  <2>2. CASE e # d
    BY <1>1, <1>3, <2>2 DEF QueueInv, Placed
  <2>3. QED
    BY <2>1, <2>2
<1>7. \A e \in Drip : drip'[e].nonce = drip[e].nonce
                      /\ (drip'[e].pc = "send" <=> drip[e].pc = "send")
  BY <1>2, <1>3, <1>4
<1>8. ~ trouble' => InOrder'
  BY <1>1, <1>7 DEF QueueInv, InOrder
<1>9. NoncesDoNotCollide'
  BY <1>1, <1>7 DEF QueueInv, NoncesDoNotCollide
<1>10. QED
  BY <1>5, <1>6, <1>8, <1>9 DEF QueueInv

(* After a failure nothing is claimed but that everybody keeps their place.*)
LEMMA TroubleInv ==
  ASSUME QueueInv, FaucetTypeOK', trouble', \A e \in Drip : Placed(e)'
  PROVE  QueueInv'
BY DEF QueueInv, NoncesDoNotCollide

LEMMA FetchNonceInv ==
  ASSUME QueueInv, NEW d \in Drip, FetchNonce(d)
  PROVE  QueueInv'
<1>1. /\ FaucetTypeOK /\ drip[d].pc = "fetch" /\ Len(line) > 0 /\ line[1] = d
      /\ current = NoNonce /\ drip[d].nonce = NoNonce
      /\ UNCHANGED <<lately, chain, begun, dripped, overlap, outage>>
  BY DEF QueueInv, FetchNonce, Placed, NotSent
<1>2. CASE Assign(d, chain.mined) /\ UNCHANGED trouble
  <2>1. chain.mined \in Nat
    BY <1>1 DEF FaucetTypeOK
  <2>2. QED
    BY <1>1, <1>2, <2>1, AssignInv
<1>3. CASE current' = NoNonce /\ line' = [line EXCEPT ![1] = Lost] /\ trouble' = TRUE
           /\ EndDrip(d)
  <2>1. /\ drip' = [drip EXCEPT ![d] = NotDripping] /\ NotDripping \in Drips
        /\ NotDripping.pc = "idle" /\ NotDripping.nonce = NoNonce
    BY <1>3 DEF EndDrip, NotDripping, Drips
  <2>2. drip'[d] = NotDripping /\ \A e \in Drip \ {d} : drip'[e] = drip[e]
    BY <1>1, <2>1 DEF FaucetTypeOK
  <2>3. /\ line \in Seq(Drip \cup {Lost}) /\ Len(line) \in Nat /\ 1 \in 1..Len(line)
    BY <1>1 DEF FaucetTypeOK
  <2>4. /\ line' \in Seq(Drip \cup {Lost}) /\ Len(line') = Len(line)
        /\ \A i \in 1..Len(line) : i # 1 => line'[i] = line[i]
    BY <1>3, <2>3
  <2>5. FaucetTypeOK'
    BY <1>1, <1>3, <2>1, <2>4 DEF FaucetTypeOK
  <2>6. ASSUME NEW e \in Drip PROVE Placed(e)'
    <3>1. CASE e = d
      BY <2>1, <2>2, <3>1 DEF Placed
    <3>2. CASE e # d
      BY <1>1, <2>2, <2>4, <3>2 DEF QueueInv, Placed
    <3>3. QED
      BY <3>1, <3>2
  <2>7. QED
    BY <1>3, <2>5, <2>6, TroubleInv
<1>4. QED
  BY <1>2, <1>3 DEF FetchNonce

LEMMA SubmitTypes ==
  ASSUME QueueInv, NEW d \in Drip, drip[d].pc = "send", Submit(d)
  PROVE  /\ chain' \in [mined : Nat, pool : SUBSET (Nat \X Coin), funds : [Coin -> Nat]]
         /\ chain'.mined = chain.mined
         /\ chain'.pool = chain.pool \cup {<<drip[d].nonce, drip[d].for[2]>>}
<1>1. drip[d] \in Drips /\ drip[d].nonce # NoNonce /\ drip[d].for \in Address \X Coin
  BY DEF QueueInv, FaucetTypeOK, Placed
<1>2. drip[d].nonce \in Nat /\ drip[d].for[2] \in Coin
  BY <1>1 DEF Drips
<1> DEFINE tx == <<drip[d].nonce, drip[d].for[2]>>
<1>3. tx \in Nat \X Coin
  BY <1>2
<1>4. chain' = [chain EXCEPT !.pool = @ \cup {tx}]
  BY DEF Submit
<1> HIDE DEF tx
<1>5. chain \in [mined : Nat, pool : SUBSET (Nat \X Coin), funds : [Coin -> Nat]]
  BY DEF QueueInv, FaucetTypeOK
<1>6. chain'.mined = chain.mined /\ chain'.pool = chain.pool \cup {tx}
  BY <1>4, <1>5
<1>7. chain' \in [mined : Nat, pool : SUBSET (Nat \X Coin), funds : [Coin -> Nat]]
  BY <1>3, <1>4, <1>5
<1>8. QED
  BY <1>6, <1>7 DEF tx

LEMMA SendTransferInv ==
  ASSUME QueueInv, NEW d \in Drip, SendTransfer(d)
  PROVE  QueueInv'
<1>1. /\ FaucetTypeOK /\ drip[d].pc = "send" /\ UNCHANGED <<line, begun, outage>>
      /\ EndDrip(d)
      /\ \/ Sent(d)
         \/ SentUnheard(d)
         \/ NotSent
      /\ \/ Submit(d)
         \/ chain' = chain
  BY DEF QueueInv, SendTransfer, Sent
<1>2. /\ drip' = [drip EXCEPT ![d] = NotDripping] /\ NotDripping \in Drips
      /\ NotDripping.pc = "idle" /\ NotDripping.nonce = NoNonce
  BY <1>1 DEF EndDrip, NotDripping, Drips
<1>3. drip'[d] = NotDripping /\ \A e \in Drip \ {d} : drip'[e] = drip[e]
  BY <1>1, <1>2 DEF FaucetTypeOK
<1>4. Books'
  BY <1>1, BooksKept
<1>5. chain' \in [mined : Nat, pool : SUBSET (Nat \X Coin), funds : [Coin -> Nat]]
  BY <1>1, SubmitTypes DEF FaucetTypeOK
<1>6. drip' \in [Drip -> Drips]
  BY <1>1, <1>2 DEF FaucetTypeOK
<1>7. CASE Submit(d) /\ Sent(d) /\ UNCHANGED <<current, trouble>>
  <2>1. FaucetTypeOK'
    BY <1>1, <1>4, <1>5, <1>6, <1>7 DEF FaucetTypeOK, Books
  <2>2. ASSUME NEW e \in Drip PROVE Placed(e)'
    <3>1. CASE e = d
      BY <1>2, <1>3, <3>1 DEF Placed
    <3>2. CASE e # d
      BY <1>1, <1>3, <1>7, <3>2 DEF QueueInv, Placed
    <3>3. QED
      BY <3>1, <3>2
  <2>3. /\ chain'.mined = chain.mined
        /\ chain'.pool = chain.pool \cup {<<drip[d].nonce, drip[d].for[2]>>}
    BY <1>1, <1>7, SubmitTypes
  <2>4. \A tx \in chain'.pool : tx \in chain.pool \/ tx[1] = drip[d].nonce
    BY <2>3
  <2>5. \A e \in Drip : drip'[e].pc = "send" => e # d /\ drip'[e] = drip[e]
    BY <1>2, <1>3
  <2>6. ~ trouble' => InOrder'
    <3> SUFFICES ASSUME ~ trouble PROVE InOrder'
      BY <1>7
    <3>1. /\ current # NoNonce /\ current' = current /\ drip[d].nonce <= current
          /\ chain.mined <= current + 1
      BY <1>1, <1>7 DEF QueueInv, InOrder
    <3>2. \A tx \in chain'.pool : tx[1] <= current
      BY <2>4, <3>1 DEF QueueInv, InOrder
    <3>3. \A e \in Drip : drip'[e].pc = "send" => drip'[e].nonce <= current
      BY <2>5, <3>1 DEF QueueInv, InOrder
    <3>4. QED
      BY <2>3, <3>1, <3>2, <3>3 DEF InOrder
  <2>7. NoncesDoNotCollide'
    <3> SUFFICES ASSUME ~ trouble, NEW e \in Drip, drip'[e].pc = "send"
                 PROVE  /\ drip[e].nonce >= chain.mined
                        /\ \A tx \in chain'.pool : tx[1] # drip[e].nonce
                        /\ \A f \in Drip \ {e} : drip'[f].nonce # drip[e].nonce
      BY <1>7, <2>3, <2>5 DEF NoncesDoNotCollide
    <3>1. /\ e # d /\ drip[e].pc = "send" /\ drip[e].nonce # NoNonce
      BY <2>5 DEF QueueInv, Placed
    <3>2. /\ drip[e].nonce >= chain.mined
          /\ \A tx \in chain.pool : tx[1] # drip[e].nonce
          /\ \A f \in Drip \ {e} : drip[f].nonce # drip[e].nonce
      BY <3>1 DEF QueueInv, NoncesDoNotCollide
    <3>3. \A tx \in chain'.pool : tx[1] # drip[e].nonce
      BY <2>4, <3>1, <3>2
    <3>4. \A f \in Drip \ {e} : drip'[f].nonce # drip[e].nonce
      BY <1>2, <1>3, <3>1, <3>2
    <3>5. QED
      BY <3>2, <3>3, <3>4
  <2>8. QED
    BY <2>1, <2>2, <2>6, <2>7 DEF QueueInv
<1>8. CASE current' = NoNonce /\ trouble' = TRUE
  <2>1. FaucetTypeOK'
    BY <1>1, <1>4, <1>5, <1>6, <1>8 DEF FaucetTypeOK, Books
  <2>2. ASSUME NEW e \in Drip PROVE Placed(e)'
    <3>1. CASE e = d
      BY <1>2, <1>3, <3>1 DEF Placed
    <3>2. CASE e # d
      BY <1>1, <1>3, <1>8, <3>2 DEF QueueInv, Placed
    <3>3. QED
      BY <3>1, <3>2
  <2>3. QED
    BY <1>8, <2>1, <2>2, TroubleInv
<1>9. QED
  BY <1>7, <1>8 DEF SendTransfer

LEMMA MineInv ==
  ASSUME QueueInv, Mine
  PROVE  QueueInv'
<1> DEFINE Chains == [mined : Nat, pool : SUBSET (Nat \X Coin), funds : [Coin -> Nat]]
<1>1. PICK tx \in chain.pool :
        /\ tx[1] = chain.mined
        /\ chain' = [mined |-> chain.mined + 1, pool |-> chain.pool \ {tx},
                     funds |-> [chain.funds EXCEPT ![tx[2]] = IF @ > 0 THEN @ - 1 ELSE 0]]
  BY DEF Mine
<1>2. /\ FaucetTypeOK /\ chain \in Chains
      /\ UNCHANGED <<lately, current, line, drip, begun, dripped, overlap, trouble, outage>>
  BY DEF QueueInv, FaucetTypeOK, Mine
<1>3. chain'.mined = chain.mined + 1 /\ chain'.pool = chain.pool \ {tx}
  BY <1>1
<1>4. chain.mined \in Nat /\ chain.pool \subseteq Nat \X Coin /\ chain.funds \in [Coin -> Nat]
  BY <1>2
<1>5. tx[2] \in Coin
  BY <1>4
<1>6. [chain.funds EXCEPT ![tx[2]] = IF @ > 0 THEN @ - 1 ELSE 0] \in [Coin -> Nat]
  BY <1>4, <1>5
<1>7. chain' \in Chains
  BY <1>1, <1>4, <1>6
<1>8. FaucetTypeOK'
  BY <1>2, <1>7 DEF FaucetTypeOK
<1>9. \A d \in Drip : Placed(d)'
  BY <1>2 DEF QueueInv, Placed
<1>10. \A d \in Drip : drip[d].pc = "send" => drip[d].nonce \in Nat
  BY <1>2 DEF QueueInv, FaucetTypeOK, Placed, Drips
<1>11. ~ trouble' => InOrder'
  <2> SUFFICES ASSUME ~ trouble PROVE InOrder'
    BY <1>2
  <2>1. current # NoNonce /\ tx[1] <= current
    BY <1>1 DEF QueueInv, InOrder
  <2>2. current \in Nat
    BY <1>2, <2>1 DEF FaucetTypeOK
  <2>3. chain'.mined <= current + 1
    BY <1>1, <1>3, <1>4, <2>1, <2>2
  <2>4. QED
    BY <1>2, <1>3, <2>1, <2>3 DEF QueueInv, InOrder
<1>12. NoncesDoNotCollide'
  <2> SUFFICES ASSUME ~ trouble, NEW d \in Drip, drip[d].pc = "send"
               PROVE  /\ drip[d].nonce >= chain.mined + 1
                      /\ \A t \in chain.pool \ {tx} : t[1] # drip[d].nonce
                      /\ \A e \in Drip \ {d} : drip[e].nonce # drip[d].nonce
    BY <1>2, <1>3 DEF NoncesDoNotCollide
  <2>1. /\ drip[d].nonce >= chain.mined
        /\ \A t \in chain.pool : t[1] # drip[d].nonce
        /\ \A e \in Drip \ {d} : drip[e].nonce # drip[d].nonce
    BY DEF QueueInv, NoncesDoNotCollide
  <2>2. drip[d].nonce # chain.mined
    BY <1>1, <2>1
  <2>3. drip[d].nonce >= chain.mined + 1
    BY <1>4, <1>10, <2>1, <2>2
  <2>4. QED
    BY <2>1, <2>3
<1>13. QED
  BY <1>8, <1>9, <1>11, <1>12 DEF QueueInv

LEMMA FaucetRestartInv ==
  ASSUME QueueInv, FaucetRestart
  PROVE  QueueInv'
<1>1. /\ FaucetTypeOK /\ current' = NoNonce /\ line' = <<>> /\ trouble' = TRUE
      /\ drip' = [d \in Drip |-> NotDripping]
      /\ overlap' = overlap \cup {drip[d].for : d \in {e \in Drip : drip[e].pc # "idle"}}
      /\ UNCHANGED <<lately, chain, begun, dripped, outage>>
  BY DEF QueueInv, FaucetRestart
<1>2. NotDripping \in Drips /\ NotDripping.pc = "idle" /\ NotDripping.nonce = NoNonce
  BY DEF NotDripping, Drips
<1>3. overlap' \subseteq Address \X Coin
  <2>1. \A d \in Drip : drip[d].pc # "idle" => drip[d].for \in Address \X Coin
    BY DEF QueueInv, Placed
  <2>2. overlap \subseteq Address \X Coin
    BY <1>1 DEF FaucetTypeOK
  <2>3. QED
    BY <1>1, <2>1, <2>2
<1>4. drip' \in [Drip -> Drips] /\ line' \in Seq(Drip \cup {Lost})
  BY <1>1, <1>2
<1>5. FaucetTypeOK'
  BY <1>1, <1>3, <1>4 DEF FaucetTypeOK
<1>6. \A d \in Drip : Placed(d)'
  BY <1>1, <1>2 DEF Placed
<1>7. QED
  BY <1>1, <1>5, <1>6, TroubleInv

LEMMA WindowEndsInv ==
  ASSUME QueueInv, NEW ak \in Address \X Coin, WindowEnds(ak)
  PROVE  QueueInv'
<1>1. /\ FaucetTypeOK /\ lately' = lately \ {ak} /\ dripped' = [dripped EXCEPT ![ak] = 0]
      /\ UNCHANGED <<current, line, drip, chain, begun, overlap, trouble, outage>>
  BY DEF QueueInv, WindowEnds
<1>2. FaucetTypeOK'
  BY <1>1 DEF FaucetTypeOK
<1>3. QED
  BY <1>1, <1>2 DEF QueueInv, Placed, InOrder, NoncesDoNotCollide

LEMMA BeginDripInv ==
  ASSUME QueueInv, NEW d \in Drip, NEW ak \in Address \X Coin, BeginDrip(d, ak)
  PROVE  QueueInv'
<1> DEFINE rec == [pc |-> "cdp", for |-> ak, nonce |-> NoNonce]
<1>1. /\ FaucetTypeOK /\ drip[d].pc = "idle" /\ begun < DripLimit /\ begun' = begun + 1
      /\ drip' = [drip EXCEPT ![d] = rec]
      /\ overlap' \subseteq overlap \cup {ak}
      /\ UNCHANGED <<lately, current, line, chain, dripped, trouble, outage>>
  BY DEF QueueInv, BeginDrip
<1>2. rec \in Drips /\ rec.pc = "cdp" /\ rec.nonce = NoNonce /\ rec.for = ak
  BY DEF Drips
<1> HIDE DEF rec
<1>3. Books'
  BY <1>1 DEF FaucetTypeOK, Books
<1>4. begun' \in 0..DripLimit
  BY <1>1, FaucetAssumption DEF FaucetTypeOK, FaucetAssumption
<1>5. QED
  BY <1>1, <1>2, <1>3, <1>4, OutsideInv

(* A request moves on before the queue, or ends there.                     *)
LEMMA MoveInv ==
  ASSUME QueueInv, NEW d \in Drip, drip[d].pc \in {"cdp", "floor"},
         NEW place \in {"floor", "queue"},
         \/ DripTo(d, place) /\ line' = IF place = "queue" THEN Append(line, d) ELSE line
         \/ EndDrip(d) /\ line' = line,
         \/ Sent(d)
         \/ SentUnheard(d)
         \/ NotSent,
         UNCHANGED <<current, chain, begun, trouble, outage>>
  PROVE  QueueInv'
<1>1. FaucetTypeOK /\ drip[d] \in Drips /\ begun \in 0..DripLimit
  BY DEF QueueInv, FaucetTypeOK
<1>2. drip[d].nonce = NoNonce /\ drip[d].for \in Address \X Coin
  BY DEF QueueInv, Placed
<1>3. Books'
  BY BooksKept
<1>4. CASE DripTo(d, place) /\ line' = IF place = "queue" THEN Append(line, d) ELSE line
  <2> DEFINE old == drip[d]
             rec == [old EXCEPT !.pc = place]
  <2>1. drip' = [drip EXCEPT ![d] = rec]
    BY <1>4 DEF DripTo
  <2>2. old \in Drips /\ old.nonce = NoNonce /\ old.for \in Address \X Coin
    BY <1>1, <1>2
  <2> HIDE DEF old
  <2>3. rec \in Drips /\ rec.pc = place /\ rec.nonce = NoNonce /\ rec.for \in Address \X Coin
    BY <2>2 DEF Drips
  <2> HIDE DEF rec
  <2>4. QED
    BY <1>1, <1>3, <1>4, <2>1, <2>3, OutsideInv
<1>5. CASE EndDrip(d) /\ line' = line
  <2>1. NotDripping \in Drips /\ NotDripping.pc = "idle" /\ NotDripping.nonce = NoNonce
    BY DEF NotDripping, Drips
  <2>2. drip' = [drip EXCEPT ![d] = NotDripping]
    BY <1>5 DEF EndDrip
  <2>3. QED
    BY <1>1, <1>3, <1>5, <2>1, <2>2, OutsideInv
<1>6. QED
  BY <1>4, <1>5

LEMMA FaucetStepInv ==
  ASSUME QueueInv, NEW d \in Drip, FaucetStep(d)
  PROVE  QueueInv'
<1>1. CASE CdpDrip(d)
  BY <1>1, MoveInv DEF CdpDrip, Sent
<1>2. CASE CheckFloor(d)
  BY <1>2, MoveInv DEF CheckFloor
<1>3. CASE CountUp(d)
  <2>1. /\ current # NoNonce /\ Assign(d, current + 1) /\ current \in Nat
        /\ UNCHANGED <<lately, chain, begun, dripped, overlap, trouble, outage>>
    BY <1>3 DEF CountUp, NotSent, QueueInv, FaucetTypeOK
  <2>2. drip[d].pc = "queue" /\ Len(line) > 0 /\ line[1] = d /\ drip[d].nonce = NoNonce
    BY <1>3, HeadInv DEF CountUp
  <2>3. current + 1 \in Nat
    BY <2>1
  <2>4. QED
    BY <2>1, <2>2, <2>3, AssignInv
<1>4. CASE BeginFetch(d)
  BY <1>4, BeginFetchInv
<1>5. CASE FetchNonce(d)
  BY <1>5, FetchNonceInv
<1>6. CASE SendTransfer(d)
  BY <1>6, SendTransferInv
<1>7. QED
  BY <1>1, <1>2, <1>3, <1>4, <1>5, <1>6 DEF FaucetStep

LEMMA QueueInvStep == QueueInv /\ [FaucetNext]_faucetVars => QueueInv'
<1> SUFFICES ASSUME QueueInv, [FaucetNext]_faucetVars PROVE QueueInv'
  OBVIOUS
<1>1. CASE \E d \in Drip : FaucetStep(d)
  BY <1>1, FaucetStepInv
<1>2. CASE \E d \in Drip, ak \in Address \X Coin : BeginDrip(d, ak)
  BY <1>2, BeginDripInv
<1>3. CASE Mine
  BY <1>3, MineInv
<1>4. CASE \E ak \in Address \X Coin : WindowEnds(ak)
  BY <1>4, WindowEndsInv
<1>5. CASE FaucetRestart
  BY <1>5, FaucetRestartInv
<1>6. CASE UNCHANGED faucetVars
  BY <1>6 DEF faucetVars, QueueInv, FaucetTypeOK, Placed, InOrder, NoncesDoNotCollide
<1>7. QED
  BY <1>1, <1>2, <1>3, <1>4, <1>5, <1>6 DEF FaucetNext

LEMMA QueueInvHolds == FaucetSpec => []QueueInv
BY QueueInvInit, QueueInvStep, PTL DEF FaucetSpec

-----------------------------------------------------------------------------
(* The faucet's table, its nonce queue and its requests keep their types   *)
(* (faucet/src/service.ts:26-60).                                          *)
THEOREM FaucetTypeCorrect == FaucetSpec => []FaucetTypeOK
<1>1. QueueInv => FaucetTypeOK
  BY DEF QueueInv
<1>2. QED
  BY <1>1, QueueInvHolds, PTL

(* However many drips of either coin wait in the queue, until a transfer   *)
(* fails no two get the same nonce, nor one that is taken on chain         *)
(* (faucet/src/service.ts:26-54).                                          *)
THEOREM NoncesAreUnique == FaucetSpec => []NoncesDoNotCollide
<1>1. QueueInv => NoncesDoNotCollide
  BY DEF QueueInv
<1>2. QED
  BY <1>1, QueueInvHolds, PTL

-----------------------------------------------------------------------------
LEMMA CurrentEntryType ==
  ASSUME LimiterTypeOK, NEW w \in Wallet
  PROVE  CurrentEntry(w) \in Entry
BY LimiterAssumption DEF LimiterAssumption, LimiterTypeOK, CurrentEntry, Entry

LEMMA LimiterTypesInit == LimiterInit => LimiterTypeOK
<1> SUFFICES ASSUME LimiterInit PROVE LimiterTypeOK
  OBVIOUS
<1>1. DOMAIN windows = {}
  BY DEF LimiterInit
<1>2. served \in [Wallet -> Seq(Nat)]
  BY DEF LimiterInit
<1>3. now \in Nat /\ lastPrune \in Nat
  BY DEF LimiterInit
<1>4. QED
  BY <1>1, <1>2, <1>3 DEF LimiterTypeOK

LEMMA LimiterTypesStep ==
  LimiterTypeOK /\ [LimiterNext]_limiterVars => LimiterTypeOK'
<1> SUFFICES ASSUME LimiterTypeOK, [LimiterNext]_limiterVars
             PROVE  LimiterTypeOK'
  OBVIOUS
<1>1. ASSUME NEW w \in Wallet, Check(w)
      PROVE  LimiterTypeOK'
  <2> DEFINE kept == IF PruneDue THEN Unpruned ELSE DOMAIN windows
             entry == IF Denies(w) THEN CurrentEntry(w)
                      ELSE [CurrentEntry(w) EXCEPT !.count = @ + 1]
  <2>1. kept \subseteq DOMAIN windows /\ DOMAIN windows \subseteq Wallet
    BY DEF Unpruned, LimiterTypeOK
  <2>2. windows' = [v \in kept \cup {w} |-> IF v # w THEN windows[v] ELSE entry]
    BY <1>1 DEF Check
  <2>3. entry \in Entry
    <3>1. CurrentEntry(w) \in Entry
      BY CurrentEntryType
    <3>2. CASE Denies(w)
      BY <3>1, <3>2
    <3>3. CASE ~ Denies(w)
      <4>1. CurrentEntry(w).count + 1 \in 0..Limit
        BY <3>1, <3>3, LimiterAssumption DEF LimiterAssumption, Denies, Entry
      <4>2. QED
        BY <3>1, <3>3, <4>1 DEF Entry
    <3>4. QED
      BY <3>2, <3>3
  <2> HIDE DEF kept, entry
  <2>4. DOMAIN windows' = kept \cup {w}
    BY <2>2
  <2>5. ASSUME NEW v \in DOMAIN windows'
        PROVE  windows'[v] \in Entry
    <3>1. CASE v = w
      BY <2>2, <2>3, <2>4, <3>1
    <3>2. CASE v # w
      <4>1. v \in DOMAIN windows
        BY <2>1, <2>4, <3>2
      <4>2. windows[v] \in Entry
        BY <4>1 DEF LimiterTypeOK
      <4>3. QED
        BY <2>2, <2>4, <3>2, <4>2
    <3>3. QED
      BY <3>1, <3>2
  <2>6. now' \in Nat /\ lastPrune' \in Nat
    BY <1>1 DEF Check, LimiterTypeOK
  <2>7. served' \in [Wallet -> Seq(Nat)]
    <3>1. CASE Denies(w)
      BY <1>1, <3>1 DEF Check, LimiterTypeOK
    <3>2. CASE ~ Denies(w)
      <4>1. Append(served[w], now) \in Seq(Nat)
        BY DEF LimiterTypeOK
      <4>2. served' = [served EXCEPT ![w] = Append(served[w], now)]
        BY <1>1, <3>2 DEF Check
      <4>3. QED
        BY <4>1, <4>2 DEF LimiterTypeOK
    <3>3. QED
      BY <3>1, <3>2
  <2>8. QED
    BY <2>1, <2>4, <2>5, <2>6, <2>7 DEF LimiterTypeOK
<1>2. CASE Tick
  BY <1>2 DEF Tick, LimiterTypeOK
<1>3. CASE UNCHANGED limiterVars
  BY <1>3 DEF limiterVars, LimiterTypeOK
<1>4. QED
  BY <1>1, <1>2, <1>3 DEF LimiterNext

(* Every reachable limiter has its types; no count passes the limit        *)
(* (rate-limit.ts:20-57).                                                  *)
THEOREM LimiterTypeCorrect == LimiterSpec => []LimiterTypeOK
BY LimiterTypesInit, LimiterTypesStep, PTL DEF LimiterSpec

(* A check and the pruning on its way change what no other wallet has used *)
(* (rate-limit.ts:64-72).                                                  *)
THEOREM PruningHolds == LimiterSpec => PruningIsInvisible
<1>1. ASSUME LimiterTypeOK, NEW w \in Wallet, Check(w), NEW v \in Wallet \ {w}
      PROVE  Used(v)' = Used(v)
  <2> DEFINE kept == IF PruneDue THEN Unpruned ELSE DOMAIN windows
  <2>1. now' = now /\ DOMAIN windows' = kept \cup {w}
    BY <1>1 DEF Check
  <2>2. v \in kept => windows'[v] = windows[v] /\ v \in DOMAIN windows
    BY <1>1 DEF Check, Unpruned
  <2>3. v \in DOMAIN windows' <=> v \in kept
    BY <2>1
  <2>4. v \notin kept => v \notin DOMAIN windows \/ Expired(windows[v])
    BY DEF Unpruned
  <2> HIDE DEF kept
  <2>5. CASE v \in kept
    BY <2>1, <2>2, <2>3, <2>5 DEF Used, CurrentEntry, Expired
  <2>6. CASE v \notin kept
    BY <2>3, <2>4, <2>6 DEF Used, CurrentEntry
  <2>7. QED
    BY <2>5, <2>6
<1>2. LimiterTypeOK /\ [LimiterNext]_limiterVars =>
        [\A w \in Wallet : Check(w) => \A v \in Wallet \ {w} : Used(v)' = Used(v)]_limiterVars
  BY <1>1
<1>3. QED
  BY <1>2, LimiterTypeCorrect, PTL DEF LimiterSpec, PruningIsInvisible

-----------------------------------------------------------------------------
(* The limiter's history.  An entry fits the log of when a wallet was let  *)
(* through if it counts the last of it, all from its start on and none of  *)
(* it a window later, and whatever the limit leaves out of the window      *)
(* before is a whole window older than its start.                          *)
FitsLog(log, time, count, start) ==
  /\ count <= Len(log) /\ start <= time
  /\ \A i \in 1..Len(log) :
       /\ log[i] < start + WindowLength
       /\ i + count > Len(log) => start <= log[i]
       /\ i + count <= Len(log) => log[i] < start
       /\ i + count + Limit <= Len(log) => log[i] + WindowLength <= start

Fits(log, time, entry) == FitsLog(log, time, entry.count, entry.start)

New(time) == [count |-> 0, start |-> time]

(* The log is in order, and twice the limit takes a window.                *)
Paced(log, time) ==
  \A i \in 1..Len(log) :
    /\ log[i] <= time
    /\ \A j \in 1..i : log[j] <= log[i]
    /\ i + 2 * Limit <= Len(log) => log[i] + WindowLength <= log[i + 2 * Limit]

Held(w) == IF w \in DOMAIN windows THEN windows[w] ELSE New(now)

LimiterInv ==
  /\ LimiterTypeOK
  /\ \A w \in Wallet : Fits(served[w], now, Held(w)) /\ Paced(served[w], now)

LEMMA Windowed == Limit \in Nat /\ WindowLength \in Nat \ {0}
BY LimiterAssumption DEF LimiterAssumption

LEMMA LogTypes ==
  ASSUME NEW log \in Seq(Nat)
  PROVE  Len(log) \in Nat /\ \A i \in 1..Len(log) : log[i] \in Nat
OBVIOUS

(* An entry that has expired makes room for a new one.                     *)
LEMMA ExpiredFitsNew ==
  ASSUME NEW log \in Seq(Nat), NEW time \in Nat, NEW entry \in Entry,
         Fits(log, time, entry), time - entry.start >= WindowLength
  PROVE  Fits(log, time, New(time))
<1> DEFINE count == entry.count
           start == entry.start
           n == Len(log)
<1>1. /\ start \in Nat /\ count \in Nat /\ count <= Limit
      /\ start + WindowLength <= time /\ n \in Nat
      /\ Limit \in Nat /\ WindowLength \in Nat \ {0}
  BY Windowed DEF Entry
<1>2. FitsLog(log, time, count, start)
  BY DEF Fits, FitsLog
<1> HIDE DEF count, start
<1>3. ASSUME NEW i \in 1..n
      PROVE  /\ log[i] < time /\ log[i] < time + WindowLength
             /\ i + Limit <= n => log[i] + WindowLength <= time
  <2>1. /\ log[i] \in Nat /\ log[i] < start + WindowLength
        /\ i + count <= n => log[i] < start
    BY <1>2, LogTypes DEF FitsLog
  <2>2. log[i] < time /\ log[i] < time + WindowLength
    BY <1>1, <2>1
  <2>3. ASSUME i + Limit <= n PROVE log[i] + WindowLength <= time
    <3>1. i + count <= n
      BY <1>1, <2>3
    <3>2. QED
      BY <1>1, <2>1, <3>1
  <2>4. QED
    BY <2>2, <2>3
<1>4. QED
  BY <1>1, <1>3 DEF Fits, FitsLog, New

(* What a check lets through is counted, and keeps to the pace.            *)
LEMMA ServedFitsLog ==
  ASSUME NEW log \in Seq(Nat), NEW time \in Nat, NEW count \in Nat, NEW start \in Nat,
         FitsLog(log, time, count, start), Paced(log, time),
         count < Limit, time - start < WindowLength
  PROVE  /\ FitsLog(Append(log, time), time, count + 1, start)
         /\ Paced(Append(log, time), time)
<1> DEFINE n == Len(log)
           more == Append(log, time)
<1>1. /\ n \in Nat /\ \A i \in 1..n : log[i] \in Nat
      /\ Limit \in Nat /\ WindowLength \in Nat \ {0}
  BY LogTypes, Windowed
<1>2. /\ Len(more) = n + 1 /\ more[n + 1] = time
      /\ \A i \in 1..n : more[i] = log[i]
  BY <1>1
<1>3. count <= n /\ start <= time /\ time < start + WindowLength
  BY <1>1 DEF FitsLog
<1> HIDE DEF more, n
<1>4. FitsLog(more, time, count + 1, start)
  <2>1. ASSUME NEW i \in 1..(n + 1)
        PROVE  /\ more[i] < start + WindowLength
               /\ i + (count + 1) > n + 1 => start <= more[i]
               /\ i + (count + 1) <= n + 1 => more[i] < start
               /\ i + (count + 1) + Limit <= n + 1 => more[i] + WindowLength <= start
    <3>1. CASE i = n + 1
      <4>1. more[i] = time
        BY <1>2, <3>1
      <4>2. ~ (i + (count + 1) <= n + 1) /\ ~ (i + (count + 1) + Limit <= n + 1)
        BY <1>1, <3>1
      <4>3. QED
        BY <1>1, <1>3, <4>1, <4>2
    <3>2. CASE i \in 1..n
      <4>1. /\ log[i] < start + WindowLength
            /\ i + count > n => start <= log[i]
            /\ i + count <= n => log[i] < start
            /\ i + count + Limit <= n => log[i] + WindowLength <= start
        BY <3>2 DEF FitsLog, n
      <4>2. more[i] = log[i]
        BY <1>2, <3>2
      <4>3. QED
        BY <1>1, <3>2, <4>1, <4>2
    <3>3. QED
      BY <1>1, <3>1, <3>2
  <2>2. QED
    BY <1>1, <1>2, <1>3, <2>1 DEF FitsLog
<1>5. Paced(more, time)
  <2>1. ASSUME NEW i \in 1..(n + 1)
        PROVE  /\ more[i] <= time
               /\ \A j \in 1..i : more[j] <= more[i]
               /\ i + 2 * Limit <= n + 1 => more[i] + WindowLength <= more[i + 2 * Limit]
    <3>1. CASE i = n + 1
      <4>1. \A j \in 1..n : log[j] <= time
        BY DEF Paced, n
      <4>2. ~ (i + 2 * Limit <= n + 1)
        BY <1>1, <3>1
      <4>3. more[i] = time
        BY <1>2, <3>1
      <4>4. ASSUME NEW j \in 1..i PROVE more[j] <= more[i]
        <5>1. CASE j = n + 1
          BY <1>2, <3>1, <5>1
        <5>2. CASE j # n + 1
          <6>1. j \in 1..n
            BY <1>1, <3>1, <5>2
          <6>2. QED
            BY <1>2, <4>1, <4>3, <6>1
        <5>3. QED
          BY <5>1, <5>2
      <4>5. QED
        BY <4>2, <4>3, <4>4
    <3>2. CASE i \in 1..n
      <4>1. /\ log[i] <= time /\ \A j \in 1..i : log[j] <= log[i]
            /\ i + 2 * Limit <= n => log[i] + WindowLength <= log[i + 2 * Limit]
        BY <3>2 DEF Paced, n
      <4>2. more[i] <= time /\ \A j \in 1..i : more[j] <= more[i]
        BY <1>1, <1>2, <3>2, <4>1
      <4>3. CASE i + 2 * Limit <= n
        <5>1. i + 2 * Limit \in 1..n
          BY <1>1, <3>2, <4>3
        <5>2. more[i] = log[i] /\ more[i + 2 * Limit] = log[i + 2 * Limit]
          BY <1>2, <3>2, <5>1
        <5>3. QED
          BY <4>1, <4>2, <4>3, <5>2
      <4>4. CASE i + 2 * Limit = n + 1
        <5>1. i + count + Limit <= n
          BY <1>1, <3>2, <4>4
        <5>2. log[i] + WindowLength <= start /\ start <= time
          BY <3>2, <5>1 DEF FitsLog, n
        <5>3. log[i] + WindowLength <= time
          BY <1>1, <3>2, <5>2
        <5>4. QED
          BY <1>2, <3>2, <4>2, <4>4, <5>3
      <4>5. CASE i + 2 * Limit > n + 1
        BY <1>1, <3>2, <4>2, <4>5
      <4>6. QED
        BY <1>1, <3>2, <4>3, <4>4, <4>5
    <3>3. QED
      BY <1>1, <3>1, <3>2
  <2>2. QED
    BY <1>2, <2>1 DEF Paced
<1>6. QED
  BY <1>4, <1>5 DEF more

LEMMA ServedFits ==
  ASSUME NEW log \in Seq(Nat), NEW time \in Nat, NEW entry \in Entry,
         Fits(log, time, entry), Paced(log, time),
         entry.count < Limit, time - entry.start < WindowLength
  PROVE  /\ Fits(Append(log, time), time, [entry EXCEPT !.count = @ + 1])
         /\ Paced(Append(log, time), time)
<1>1. entry.count \in Nat /\ entry.start \in Nat
  BY Windowed DEF Entry
<1>2. /\ [entry EXCEPT !.count = @ + 1].count = entry.count + 1
      /\ [entry EXCEPT !.count = @ + 1].start = entry.start
  BY DEF Entry
<1>3. QED
  BY <1>1, <1>2, ServedFitsLog DEF Fits

(* The entry a check works with fits.                                      *)
LEMMA CurrentFits ==
  ASSUME LimiterInv, NEW w \in Wallet
  PROVE  /\ CurrentEntry(w) \in Entry /\ Fits(served[w], now, CurrentEntry(w))
         /\ now - CurrentEntry(w).start < WindowLength
<1>1. /\ LimiterTypeOK /\ served[w] \in Seq(Nat) /\ now \in Nat
      /\ Fits(served[w], now, Held(w))
  BY DEF LimiterInv, LimiterTypeOK
<1>2. CASE w \notin DOMAIN windows
  <2>1. CurrentEntry(w) = New(now) /\ Held(w) = New(now)
    BY <1>2 DEF Held, CurrentEntry, New
  <2>2. QED
    BY <1>1, <2>1, CurrentEntryType, Windowed DEF New
<1>3. CASE w \in DOMAIN windows /\ Expired(windows[w])
  <2>1. CurrentEntry(w) = New(now) /\ Held(w) = windows[w] /\ windows[w] \in Entry
    BY <1>1, <1>3 DEF Held, CurrentEntry, New, LimiterTypeOK
  <2>2. Fits(served[w], now, New(now))
    BY <1>1, <1>3, <2>1, ExpiredFitsNew DEF Expired
  <2>3. QED
    BY <1>1, <2>1, <2>2, CurrentEntryType, Windowed DEF New
<1>4. CASE w \in DOMAIN windows /\ ~ Expired(windows[w])
  <2>1. CurrentEntry(w) = windows[w] /\ Held(w) = windows[w] /\ windows[w] \in Entry
    BY <1>1, <1>4 DEF Held, CurrentEntry, LimiterTypeOK
  <2>2. QED
    BY <1>1, <1>4, <2>1, Windowed DEF Expired, Entry
<1>5. QED
  BY <1>2, <1>3, <1>4

LEMMA LimiterInvInit == LimiterInit => LimiterInv
<1> SUFFICES ASSUME LimiterInit PROVE LimiterInv
  OBVIOUS
<1>1. /\ DOMAIN windows = {} /\ now = 0
      /\ \A w \in Wallet : served[w] = <<>>
  BY DEF LimiterInit
<1>2. ASSUME NEW w \in Wallet PROVE Fits(served[w], now, Held(w)) /\ Paced(served[w], now)
  <2>1. Held(w) = New(0) /\ served[w] = <<>> /\ Len(<<>>) = 0
    BY <1>1 DEF Held
  <2>2. QED
    BY <1>1, <2>1, Windowed DEF New, Fits, FitsLog, Paced
<1>3. QED
  BY <1>2, LimiterTypesInit DEF LimiterInv

LEMMA CheckInv ==
  ASSUME LimiterInv, NEW w \in Wallet, Check(w), LimiterTypeOK'
  PROVE  LimiterInv'
<1> DEFINE entry == CurrentEntry(w)
           next == IF Denies(w) THEN entry ELSE [entry EXCEPT !.count = @ + 1]
           kept == IF PruneDue THEN Unpruned ELSE DOMAIN windows
<1>1. /\ windows' = [v \in kept \cup {w} |-> IF v # w THEN windows[v] ELSE next]
      /\ now' = now
      /\ served' = IF Denies(w) THEN served
                   ELSE [served EXCEPT ![w] = Append(served[w], now)]
  BY DEF Check
<1>2. /\ LimiterTypeOK /\ served \in [Wallet -> Seq(Nat)] /\ now \in Nat
      /\ \A v \in Wallet : Fits(served[v], now, Held(v)) /\ Paced(served[v], now)
  BY DEF LimiterInv, LimiterTypeOK
<1>3. /\ entry \in Entry /\ Fits(served[w], now, entry) /\ now - entry.start < WindowLength
  BY CurrentFits
<1>4. Fits(served'[w], now, next) /\ Paced(served'[w], now)
  <2>1. CASE Denies(w)
    BY <1>1, <1>2, <1>3, <2>1
  <2>2. CASE ~ Denies(w)
    <3>1. entry.count < Limit
      BY <1>3, <2>2, Windowed DEF Denies, Entry
    <3>2. served'[w] = Append(served[w], now) /\ next = [entry EXCEPT !.count = @ + 1]
      BY <1>1, <1>2, <2>2
    <3>3. QED
      BY <1>2, <1>3, <3>1, <3>2, ServedFits
  <2>3. QED
    BY <2>1, <2>2
<1> HIDE DEF entry, next
<1>5. Held(w)' = next
  BY <1>1 DEF Held
<1>6. ASSUME NEW v \in Wallet, v # w
      PROVE  Fits(served'[v], now, Held(v)') /\ Paced(served'[v], now)
  <2>1. served'[v] = served[v]
    BY <1>1, <1>2, <1>6
  <2>2. CASE v \in kept
    <3>1. v \in DOMAIN windows /\ v \in DOMAIN windows' /\ windows'[v] = windows[v]
      BY <1>1, <1>6, <2>2 DEF Unpruned
    <3>2. QED
      BY <1>2, <2>1, <3>1 DEF Held
  <2>3. CASE v \notin kept
    <3>1. Held(v)' = New(now)
      BY <1>1, <1>6, <2>3 DEF Held
    <3>2. \/ Held(v) = New(now)
          \/ v \in DOMAIN windows /\ Expired(windows[v])
      BY <2>3 DEF Held, Unpruned
    <3>3. Fits(served[v], now, New(now))
      <4>1. CASE Held(v) = New(now)
        BY <1>2, <4>1
      <4>2. CASE v \in DOMAIN windows /\ Expired(windows[v])
        <5>1. Held(v) = windows[v] /\ windows[v] \in Entry
          BY <1>2, <4>2 DEF Held, LimiterTypeOK
        <5>2. served[v] \in Seq(Nat)
          BY <1>2
        <5>3. QED
          BY <1>2, <4>2, <5>1, <5>2, ExpiredFitsNew DEF Expired
      <4>3. QED
        BY <3>2, <4>1, <4>2
    <3>4. QED
      BY <1>2, <2>1, <3>1, <3>3
  <2>4. QED
    BY <2>2, <2>3
<1>7. ASSUME NEW v \in Wallet
      PROVE  Fits(served'[v], now', Held(v)') /\ Paced(served'[v], now')
  BY <1>1, <1>4, <1>5, <1>6
<1>8. QED
  BY <1>7 DEF LimiterInv

LEMMA NewFitsLater ==
  ASSUME NEW log \in Seq(Nat), NEW time \in Nat, FitsLog(log, time, 0, time)
  PROVE  FitsLog(log, time + 1, 0, time + 1)
<1>1. ASSUME NEW i \in 1..Len(log)
      PROVE  /\ log[i] < (time + 1) + WindowLength
             /\ i + 0 > Len(log) => time + 1 <= log[i]
             /\ i + 0 <= Len(log) => log[i] < time + 1
             /\ i + 0 + Limit <= Len(log) => log[i] + WindowLength <= time + 1
  <2>1. /\ log[i] < time + WindowLength
        /\ i + 0 > Len(log) => time <= log[i]
        /\ i + 0 <= Len(log) => log[i] < time
        /\ i + 0 + Limit <= Len(log) => log[i] + WindowLength <= time
    BY DEF FitsLog
  <2>2. log[i] \in Nat /\ Len(log) \in Nat /\ i \in Nat /\ i <= Len(log)
    BY LogTypes
  <2>3. QED
    BY <2>1, <2>2, Windowed
<1>2. 0 <= Len(log) /\ time + 1 <= time + 1
  BY LogTypes
<1>3. QED
  BY <1>1, <1>2 DEF FitsLog

LEMMA TickInv ==
  ASSUME LimiterInv, Tick, LimiterTypeOK'
  PROVE  LimiterInv'
<1>1. now' = now + 1 /\ UNCHANGED <<windows, served>>
  BY DEF Tick
<1>2. ASSUME NEW w \in Wallet
      PROVE  Fits(served[w], now + 1, Held(w)') /\ Paced(served[w], now + 1)
  <2>1. /\ served[w] \in Seq(Nat) /\ now \in Nat /\ Fits(served[w], now, Held(w))
        /\ Paced(served[w], now) /\ Held(w) \in Entry
    BY Windowed DEF LimiterInv, LimiterTypeOK, Held, New, Entry
  <2>2. \A i \in 1..Len(served[w]) : served[w][i] \in Nat
    BY <2>1
  <2>3. Paced(served[w], now + 1)
    BY <2>1, <2>2 DEF Paced
  <2>4. CASE w \in DOMAIN windows
    <3>1. Held(w)' = Held(w)
      BY <1>1, <2>4 DEF Held
    <3>2. Held(w).start \in Nat
      BY <2>1 DEF Entry
    <3>3. QED
      BY <2>1, <2>3, <3>1, <3>2 DEF Fits, FitsLog
  <2>5. CASE w \notin DOMAIN windows
    <3>1. Held(w) = New(now) /\ Held(w)' = New(now + 1)
      BY <1>1, <2>5 DEF Held
    <3>2. Fits(served[w], now, New(now))
      BY <2>1, <3>1
    <3>3. Fits(served[w], now + 1, New(now + 1))
      BY <2>1, <3>2, NewFitsLater DEF Fits, New
    <3>4. QED
      BY <2>3, <3>1, <3>3
  <2>6. QED
    BY <2>4, <2>5
<1>3. QED
  BY <1>1, <1>2 DEF LimiterInv

LEMMA LimiterInvHolds == LimiterSpec => []LimiterInv
<1>1. LimiterInv /\ [LimiterNext]_limiterVars => LimiterInv'
  <2> SUFFICES ASSUME LimiterInv, [LimiterNext]_limiterVars PROVE LimiterInv'
    OBVIOUS
  <2>1. LimiterTypeOK'
    BY LimiterTypesStep DEF LimiterInv
  <2>2. CASE UNCHANGED limiterVars
    BY <2>1, <2>2 DEF limiterVars, LimiterInv, Held
  <2>3. QED
    BY <2>1, <2>2, CheckInv, TickInv DEF LimiterNext
<1>2. QED
  BY <1>1, LimiterInvInit, PTL DEF LimiterSpec

-----------------------------------------------------------------------------
(* A set of numbers has a least one.                                       *)
LEMMA LeastOf ==
  ASSUME NEW S \in SUBSET Nat, S # {}
  PROVE  \E a \in S : \A b \in S : a <= b
<1> DEFINE Below == {p \in Nat \X Nat : p[1] < p[2]}
<1>1. OpToRel(<, Nat) = Below
  BY DEF OpToRel, Below
<1>2. IsWellFoundedOn(Below, Nat)
  BY <1>1, NatLessThanWellFounded
<1>3. PICK a \in S : \A b \in S : ~ (<<b, a>> \in Below)
  BY <1>2, WFMin
<1>4. ASSUME NEW b \in S PROVE a <= b
  <2>1. a \in Nat /\ b \in Nat /\ ~ (<<b, a>> \in Below)
    BY <1>3
  <2>2. ~ (b < a)
    BY <2>1
  <2>3. QED
    BY <2>1, <2>2
<1>5. QED
  BY <1>4

(* No stretch as long as a window has more than twice the limit in it.     *)
LEMMA BurstBound ==
  ASSUME NEW log \in Seq(Nat), NEW time \in Nat, Paced(log, time), NEW t \in Nat
  PROVE  Cardinality({i \in 1..Len(log) : t <= log[i] /\ log[i] <= t + WindowLength - 1})
           <= 2 * Limit
<1> DEFINE n == Len(log)
           S == {i \in 1..n : t <= log[i] /\ log[i] <= t + WindowLength - 1}
<1>1. /\ n \in Nat /\ \A i \in 1..n : log[i] \in Nat
      /\ Limit \in Nat /\ WindowLength \in Nat \ {0}
  BY LogTypes, Windowed
<1>2. CASE S = {}
  <2>1. Cardinality(S) = 0
    BY <1>2, FS_EmptySet
  <2>2. QED
    BY <1>1, <2>1
<1>3. CASE S # {}
  <2>1. S \in SUBSET Nat
    OBVIOUS
  <2>2. PICK a \in S : \A b \in S : a <= b
    BY <1>3, <2>1, LeastOf
  <2>3. a \in 1..n /\ t <= log[a]
    OBVIOUS
  <2>4. ASSUME NEW i \in S PROVE i \in a..(a + 2 * Limit - 1)
    <3>1. i \in 1..n /\ log[i] <= t + WindowLength - 1 /\ a <= i
      BY <2>2
    <3>2. SUFFICES ASSUME i >= a + 2 * Limit PROVE FALSE
      BY <1>1, <2>3, <3>1
    <3> DEFINE k == a + 2 * Limit
    <3>3. k \in 1..n /\ k \in 1..i
      BY <1>1, <2>3, <3>1, <3>2
    <3>4. log[a] + WindowLength <= log[k] /\ log[k] <= log[i]
      BY <2>3, <3>1, <3>3 DEF Paced
    <3>5. log[a] \in Nat /\ log[k] \in Nat /\ log[i] \in Nat
      BY <1>1, <2>3, <3>1, <3>3
    <3> DEFINE x == log[a]
               y == log[k]
               z == log[i]
    <3>6. /\ x \in Nat /\ y \in Nat /\ z \in Nat /\ WindowLength \in Nat
          /\ t <= x /\ x + WindowLength <= y /\ y <= z /\ z <= t + WindowLength - 1
      BY <1>1, <2>3, <3>1, <3>4, <3>5
    <3> HIDE DEF k, x, y, z
    <3>7. QED
      BY <3>6
  <2> HIDE DEF S
  <2>5. S \subseteq a..(a + 2 * Limit - 1)
    BY <2>4
  <2>6. a \in Int /\ a + 2 * Limit - 1 \in Int
    BY <1>1, <2>3
  <2> DEFINE last == a + 2 * Limit - 1
  <2>7. IsFiniteSet(a..last) /\ Cardinality(a..last) <= 2 * Limit
    <3>1. IsFiniteSet(a..last) /\ Cardinality(a..last) = IF a > last THEN 0 ELSE last - a + 1
      BY <2>6, FS_Interval
    <3>2. QED
      BY <1>1, <2>3, <3>1
  <2>8. Cardinality(S) <= Cardinality(a..last)
    BY <2>5, <2>7, FS_Subset
  <2>9. IsFiniteSet(S)
    BY <2>5, <2>7, FS_Subset
  <2>10. Cardinality(S) \in Nat /\ Cardinality(a..last) \in Nat
    BY <2>7, <2>9, FS_CardinalityType
  <2>11. QED
    BY <1>1, <2>7, <2>8, <2>10 DEF S
<1>4. QED
  BY <1>2, <1>3

(* A window in which the limit was reached has seen that many.             *)
LEMMA SpentBound ==
  ASSUME NEW log \in Seq(Nat), NEW time \in Nat, NEW start \in Nat, NEW count \in Nat,
         FitsLog(log, time, count, start), Paced(log, time),
         time - start < WindowLength
  PROVE  Cardinality({i \in 1..Len(log) : time - WindowLength + 1 <= log[i] /\ log[i] <= time})
           >= count
<1> DEFINE n == Len(log)
           S == {i \in 1..n : time - WindowLength + 1 <= log[i] /\ log[i] <= time}
           first == n - count + 1
<1>1. /\ n \in Nat /\ \A i \in 1..n : log[i] \in Nat
      /\ WindowLength \in Nat \ {0} /\ count <= n /\ first \in 1..(n + 1)
  <2>1. n \in Nat /\ count <= n
    BY LogTypes DEF FitsLog
  <2>2. QED
    BY <2>1, LogTypes, Windowed
<1>2. first..n \subseteq S
  <2>1. ASSUME NEW i \in first..n PROVE i \in S
    <3>1. i \in 1..n /\ i + count > n
      BY <1>1
    <3>2. start <= log[i] /\ log[i] <= time /\ log[i] \in Nat
      BY <1>1, <3>1 DEF FitsLog, Paced
    <3>3. time - WindowLength + 1 <= log[i]
      BY <1>1, <3>2
    <3>4. QED
      BY <3>1, <3>2, <3>3
  <2>2. QED
    BY <2>1
<1>3. IsFiniteSet(S)
  <2>1. IsFiniteSet(1..n) /\ S \in SUBSET (1..n)
    BY <1>1, FS_Interval
  <2>2. QED
    BY <2>1, FS_Subset
<1>4. Cardinality(first..n) = count
  <2> HIDE DEF n
  <2>1. first \in Int /\ n \in Int
    BY <1>1
  <2> HIDE DEF first
  <2>2. Cardinality(first..n) = IF first > n THEN 0 ELSE n - first + 1
    BY <2>1, FS_Interval
  <2>3. QED
    BY <1>1, <2>1, <2>2 DEF first
<1> HIDE DEF S
<1>5. Cardinality(first..n) <= Cardinality(S)
  BY <1>2, <1>3, FS_Subset
<1>6. Cardinality(S) \in Nat
  BY <1>3, FS_CardinalityType
<1>7. QED
  BY <1>4, <1>5, <1>6 DEF S

LEMMA InvIsFair ==
  ASSUME LimiterInv
  PROVE  LimitIsFair
<1>1. BurstIsBounded
  <2>1. ASSUME NEW w \in Wallet, NEW t \in 0..now
        PROVE  ServedBetween(w, t, t + WindowLength - 1) <= 2 * Limit
    <3>1. served[w] \in Seq(Nat) /\ now \in Nat /\ Paced(served[w], now) /\ t \in Nat
      BY DEF LimiterInv, LimiterTypeOK
    <3>2. QED
      BY <3>1, BurstBound DEF ServedBetween
  <2>2. QED
    BY <2>1 DEF BurstIsBounded
<1>2. RefusedOnlyWhenSpent
  <2>1. ASSUME NEW w \in Wallet, Denies(w)
        PROVE  ServedBetween(w, now - WindowLength + 1, now) >= Limit
    <3> DEFINE entry == CurrentEntry(w)
    <3>1. served[w] \in Seq(Nat) /\ now \in Nat /\ Paced(served[w], now)
      BY DEF LimiterInv, LimiterTypeOK
    <3>2. entry \in Entry /\ Fits(served[w], now, entry) /\ now - entry.start < WindowLength
      BY CurrentFits
    <3>3. entry.count \in Nat /\ entry.start \in Nat /\ entry.count = Limit
      BY <2>1, <3>2, Windowed DEF Entry, Denies
    <3> HIDE DEF entry
    <3>4. QED
      BY <3>1, <3>2, <3>3, SpentBound DEF Fits, ServedBetween
  <2>2. QED
    BY <2>1 DEF RefusedOnlyWhenSpent
<1>3. QED
  BY <1>1, <1>2 DEF LimitIsFair

-----------------------------------------------------------------------------
(* The ration of one wallet in one coin, as long as it requests one drip   *)
(* after another: it has one request under way and has not had a drip      *)
(* lately, or it has had one and has no request.                           *)
Requesting(d, ak) == drip[d].pc # "idle" /\ drip[d].for = ak

Rationed(ak) ==
  /\ \A d, e \in Drip : Requesting(d, ak) /\ Requesting(e, ak) => d = e
  /\ (\E d \in Drip : Requesting(d, ak)) => ak \notin lately
  /\ dripped[ak] = IF ak \in lately THEN 1 ELSE 0

RationInv == QueueInv /\ \A ak \in Address \X Coin : ak \notin overlap => Rationed(ak)

(* A request goes on, or it ends.                                          *)
Moves(d) ==
  /\ \A e \in Drip : e # d => drip'[e] = drip[e]
  /\ drip'[d].pc = "idle" \/ drip'[d].for = drip[d].for

LEMMA DripMoves ==
  ASSUME QueueInv, NEW d \in Drip
  PROVE  /\ EndDrip(d) => Moves(d) /\ drip'[d].pc = "idle"
         /\ \A place \in {"floor", "queue", "fetch"} : DripTo(d, place) => Moves(d)
         /\ \A n \in Nat : Assign(d, n) => Moves(d)
<1>1. drip \in [Drip -> Drips] /\ drip[d] \in Drips
  BY DEF QueueInv, FaucetTypeOK
<1>2. NotDripping.pc = "idle"
  BY DEF NotDripping
<1>3. EndDrip(d) => Moves(d) /\ drip'[d].pc = "idle"
  BY <1>1, <1>2 DEF EndDrip, Moves
<1>4. ASSUME NEW place \in {"floor", "queue", "fetch"}, DripTo(d, place) PROVE Moves(d)
  <2>1. drip' = [drip EXCEPT ![d] = [drip[d] EXCEPT !.pc = place]]
    BY <1>1, <1>4 DEF DripTo
  <2>2. [drip[d] EXCEPT !.pc = place].for = drip[d].for
    BY <1>1 DEF Drips
  <2>3. QED
    BY <1>1, <2>1, <2>2 DEF Moves
<1>5. ASSUME NEW n \in Nat, Assign(d, n) PROVE Moves(d)
  <2>1. drip' = [drip EXCEPT ![d] = [drip[d] EXCEPT !.pc = "send", !.nonce = n]]
    BY <1>1, <1>5 DEF Assign
  <2>2. [drip[d] EXCEPT !.pc = "send", !.nonce = n].for = drip[d].for
    BY <1>1 DEF Drips
  <2>3. QED
    BY <1>1, <2>1, <2>2 DEF Moves
<1>6. QED
  BY <1>3, <1>4, <1>5

(* What a step of a request writes down.                                   *)
LEMMA StepWrites ==
  ASSUME QueueInv, NEW d \in Drip, FaucetStep(d)
  PROVE  /\ drip[d].pc # "idle" /\ Moves(d)
         /\ NotSent \/ Sent(d) \/ SentUnheard(d)
<1>1. CASE CdpDrip(d)
  BY <1>1, DripMoves DEF CdpDrip, Sent
<1>2. CASE CheckFloor(d)
  BY <1>2, DripMoves DEF CheckFloor
<1>3. CASE CountUp(d)
  <2>1. current + 1 \in Nat
    BY <1>3 DEF CountUp, QueueInv, FaucetTypeOK
  <2>2. QED
    BY <1>3, <2>1, DripMoves DEF CountUp, AtHead
<1>4. CASE BeginFetch(d)
  BY <1>4, DripMoves DEF BeginFetch, AtHead
<1>5. CASE FetchNonce(d)
  <2>1. chain.mined \in Nat
    BY DEF QueueInv, FaucetTypeOK
  <2>2. QED
    BY <1>5, <2>1, DripMoves DEF FetchNonce
<1>6. CASE SendTransfer(d)
  BY <1>6, DripMoves DEF SendTransfer, Sent
<1>7. QED
  BY <1>1, <1>2, <1>3, <1>4, <1>5, <1>6 DEF FaucetStep

LEMMA StepRations ==
  ASSUME RationInv, NEW d \in Drip, FaucetStep(d),
         NEW ak \in Address \X Coin, ak \notin overlap'
  PROVE  Rationed(ak)'
<1>1. /\ drip[d].pc # "idle" /\ Moves(d)
      /\ NotSent \/ Sent(d) \/ SentUnheard(d)
  BY StepWrites DEF RationInv
<1>2. ak \notin overlap
  BY <1>1 DEF NotSent, Sent, SentUnheard
<1>3. Rationed(ak) /\ dripped \in [Address \X Coin -> Nat]
  BY <1>2 DEF RationInv, QueueInv, FaucetTypeOK
<1>4. \A e \in Drip : Requesting(e, ak)' => Requesting(e, ak)
  BY <1>1 DEF Moves, Requesting
<1>5. CASE drip[d].for # ak
  <2>1. (ak \in lately' <=> ak \in lately) /\ dripped'[ak] = dripped[ak]
    BY <1>1, <1>3, <1>5 DEF NotSent, Sent, SentUnheard
  <2>2. QED
    BY <1>3, <1>4, <2>1 DEF Rationed
<1>6. CASE drip[d].for = ak
  <2>1. Requesting(d, ak) /\ ak \notin lately /\ dripped[ak] = 0
    BY <1>1, <1>3, <1>6 DEF Requesting, Rationed
  <2>2. CASE NotSent
    BY <1>3, <1>4, <2>2 DEF Rationed, NotSent
  <2>3. CASE Sent(d)
    <3>1. drip'[d].pc = "idle" /\ ak \in lately' /\ dripped'[ak] = 1
      BY <1>3, <1>6, <2>1, <2>3, DripMoves DEF Sent, RationInv
    <3>2. ~ \E e \in Drip : Requesting(e, ak)'
      BY <1>3, <1>4, <2>1, <3>1 DEF Rationed, Requesting
    <3>3. QED
      BY <3>1, <3>2 DEF Rationed
  <2>4. CASE SentUnheard(d)
    BY <1>6, <2>4 DEF SentUnheard
  <2>5. QED
    BY <1>1, <2>2, <2>3, <2>4
<1>7. QED
  BY <1>5, <1>6

LEMMA BeginRations ==
  ASSUME RationInv, NEW d \in Drip, NEW bk \in Address \X Coin, BeginDrip(d, bk),
         NEW ak \in Address \X Coin, ak \notin overlap'
  PROVE  Rationed(ak)'
<1>1. ak \notin overlap /\ Rationed(ak)
  BY DEF BeginDrip, RationInv
<1>2. /\ drip[d].pc = "idle" /\ bk \notin lately /\ UNCHANGED <<lately, dripped>>
      /\ drip' = [drip EXCEPT ![d] = [pc |-> "cdp", for |-> bk, nonce |-> NoNonce]]
  BY DEF BeginDrip
<1>3. /\ drip'[d].pc = "cdp" /\ drip'[d].for = bk
      /\ \A e \in Drip : e # d => drip'[e] = drip[e]
  BY <1>2 DEF RationInv, QueueInv, FaucetTypeOK
<1>4. CASE ak = bk
  <2>1. \A e \in Drip : drip[e].for # ak
    BY <1>4 DEF BeginDrip
  <2>2. \A e \in Drip : Requesting(e, ak)' => e = d
    BY <1>3, <2>1 DEF Requesting
  <2>3. QED
    BY <1>1, <1>2, <1>4, <2>2 DEF Rationed
<1>5. CASE ak # bk
  <2>1. \A e \in Drip : Requesting(e, ak)' => Requesting(e, ak)
    BY <1>3, <1>5 DEF Requesting
  <2>2. QED
    BY <1>1, <1>2, <2>1 DEF Rationed
<1>6. QED
  BY <1>4, <1>5

LEMMA RationInvHolds == FaucetSpec => []RationInv
<1>1. FaucetInit => RationInv
  <2> SUFFICES ASSUME FaucetInit PROVE RationInv
    OBVIOUS
  <2>1. /\ lately = {} /\ dripped = [ak \in Address \X Coin |-> 0]
        /\ \A d \in Drip : drip[d].pc = "idle"
    BY DEF FaucetInit, NotDripping
  <2>2. QED
    BY <2>1, QueueInvInit DEF RationInv, Rationed, Requesting
<1>2. RationInv /\ [FaucetNext]_faucetVars => RationInv'
  <2> SUFFICES ASSUME RationInv, [FaucetNext]_faucetVars,
                      NEW ak \in Address \X Coin, ak \notin overlap'
               PROVE  Rationed(ak)'
    BY QueueInvStep DEF RationInv
  <2>1. ASSUME NEW d \in Drip, FaucetStep(d) PROVE Rationed(ak)'
    BY <2>1, StepRations
  <2>2. ASSUME NEW d \in Drip, NEW bk \in Address \X Coin, BeginDrip(d, bk)
        PROVE  Rationed(ak)'
    BY <2>2, BeginRations
  <2>3. CASE Mine
    BY <2>3 DEF Mine, RationInv, Rationed, Requesting
  <2>4. ASSUME NEW bk \in Address \X Coin, WindowEnds(bk) PROVE Rationed(ak)'
    <3>1. /\ Rationed(ak) /\ UNCHANGED drip /\ lately' = lately \ {bk}
          /\ dripped' = [dripped EXCEPT ![bk] = 0]
          /\ dripped \in [Address \X Coin -> Nat]
      BY <2>4 DEF WindowEnds, RationInv, QueueInv, FaucetTypeOK
    <3>2. dripped'[ak] = IF ak = bk THEN 0 ELSE dripped[ak]
      BY <3>1
    <3>3. QED
      BY <3>1, <3>2 DEF Rationed, Requesting
  <2>5. CASE FaucetRestart
    <3>1. /\ UNCHANGED <<lately, dripped>> /\ drip' = [d \in Drip |-> NotDripping]
          /\ overlap' = overlap \cup {drip[d].for : d \in {e \in Drip : drip[e].pc # "idle"}}
      BY <2>5 DEF FaucetRestart
    <3>2. Rationed(ak)
      BY <3>1 DEF RationInv
    <3>3. \A d \in Drip : ~ Requesting(d, ak)'
      BY <3>1 DEF Requesting, NotDripping
    <3>4. QED
      BY <3>1, <3>2, <3>3 DEF Rationed
  <2>6. CASE UNCHANGED faucetVars
    BY <2>6 DEF faucetVars, RationInv, Rationed, Requesting
  <2>7. QED
    BY <2>1, <2>2, <2>3, <2>4, <2>5, <2>6 DEF FaucetNext
<1>3. QED
  BY <1>1, <1>2, PTL DEF FaucetSpec

-----------------------------------------------------------------------------
(* Side by side, each part runs as it does alone.                          *)
LEMMA OnboardingRuns == OnboardingSpec => LimiterSpec /\ RedeemSpec /\ FaucetSpec
<1>1. OnboardingInit => LimiterInit /\ RedeemInit /\ FaucetInit
  BY DEF OnboardingInit
<1>2. [OnboardingNext]_onboardingVars =>
        [LimiterNext]_limiterVars /\ [RedeemNext]_redeemVars /\ [FaucetNext]_faucetVars
  BY DEF OnboardingNext, onboardingVars, limiterVars, redeemVars, faucetVars
<1>3. QED
  BY <1>1, <1>2, PTL DEF OnboardingSpec, LimiterSpec, RedeemSpec, FaucetSpec

(* The types of all three, for any number of wallets, codes and requests.  *)
THEOREM OnboardingTypeCorrect == OnboardingSpec => []OnboardingTypeOK
<1>1. LimiterTypeOK /\ RedeemTypeOK /\ FaucetTypeOK => OnboardingTypeOK
  BY DEF OnboardingTypeOK
<1>2. QED
  BY <1>1, OnboardingRuns, LimiterTypeCorrect, RedeemTypeCorrect, FaucetTypeCorrect, PTL

(* Nobody gets more than his ration, and nobody is refused it: for every   *)
(* limit, window and pruning interval, and any number of requests at once  *)
(* (rate-limit.ts:41-72, faucet/src/index.ts:105-196).                     *)
THEOREM RationsHold == OnboardingSpec => []WindowsHold
<1>1. LimiterInv => LimitIsFair
  BY InvIsFair
<1>2. RationInv => OneDripPerWindow
  BY DEF RationInv, Rationed, OneDripPerWindow
<1>3. LimitIsFair /\ OneDripPerWindow => WindowsHold
  BY DEF WindowsHold
<1>4. QED
  BY <1>1, <1>2, <1>3, OnboardingRuns, LimiterInvHolds, RationInvHolds, PTL
=============================================================================
