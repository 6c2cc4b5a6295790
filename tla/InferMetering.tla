--------------------------- MODULE InferMetering ---------------------------
(***************************************************************************)
(* What infer.sh charges for a chat (packages/infer/src/pricing.ts and     *)
(* index.ts): an estimate from cached rates before, which the payment gate *)
(* takes, and the actual cost after, to which the gate settles.  The cache *)
(* is refreshed every hour while requests are under way.                   *)
(*                                                                         *)
(* OpenRouter is external: it changes its rates, may run another model     *)
(* than the one asked for (openrouter/auto), and may say what it took.     *)
(* Rates are per token, prompt and completion together.                    *)
(***************************************************************************)
EXTENDS Integers

CONSTANTS Model,
          Rate,       (* per token, in units of the currency               *)
          Tokens,     (* of a prompt and its answer                        *)
          Fallback,   (* FALLBACK_RATE                                     *)
          Floor,      (* MINIMUM_PRICE                                     *)
          Inference,  (* requests                                          *)
          RateMoves   (* bound: changes of rates                           *)

ASSUME InferAssumption ==
  /\ Rate \subseteq Nat \ {0} /\ Tokens \subseteq Nat \ {0}
  /\ Fallback \in Nat /\ Floor \in Nat /\ RateMoves \in Nat

Unknown == -1

VARIABLES rate,       (* what OpenRouter charges per token                 *)
          rateCache,  (* ... and what it was when it was last asked        *)
          refresh,    (* the rates on their way into the cache, if any     *)
          infer,      (* the requests                                      *)
          moves       (* changes of rates so far                           *)

inferVars == <<rate, rateCache, refresh, infer, moves>>

NoRefresh == [under |-> FALSE]
NotAsked == [pc |-> "idle"]

InferTypeOK ==
  /\ rate \in [Model -> Rate] /\ rateCache \in [Model -> Rate \cup {Unknown}]
  /\ refresh \in {NoRefresh} \cup [under : {TRUE}, rates : [Model -> Rate \cup {Unknown}]]
  /\ infer \in [Inference ->
       {NotAsked} \cup [pc : {"asking"}, model : Model, stream : BOOLEAN, estimate : Nat] \cup
       [pc : {"served"}, model : Model, stream : BOOLEAN, estimate : Nat, ran : Model,
        took : Tokens, tells : {"cost", "tokens", "nothing"}, cost : Nat] \cup
       [pc : {"billed"}, bill : Nat, cost : Nat, known : BOOLEAN]]
  /\ moves \in Nat

InferInit ==
  /\ rate \in [Model -> Rate] /\ rateCache = [m \in Model |-> Unknown]
  /\ refresh = NoRefresh
  /\ infer = [q \in Inference |-> NotAsked]
  /\ moves = 0

-----------------------------------------------------------------------------
ModelRate(m) == IF rateCache[m] = Unknown THEN Fallback ELSE rateCache[m]
AtLeastFloor(cost) == IF cost > Floor THEN cost ELSE Floor

(* OpenRouter lists its models, some of them without a rate.               *)
ListModels ==
  /\ refresh = NoRefresh
  /\ \E listed \in SUBSET Model :
       refresh' = [under |-> TRUE,
                   rates |-> [m \in Model |-> IF m \in listed THEN rate[m] ELSE Unknown]]
  /\ UNCHANGED <<rate, rateCache, infer, moves>>

(* Who is not listed keeps the rate there was.  A failure changes nothing. *)
RefreshModelPricing ==
  /\ refresh # NoRefresh
  /\ rateCache' = [m \in Model |->
       IF refresh.rates[m] = Unknown THEN rateCache[m] ELSE refresh.rates[m]]
  /\ refresh' = NoRefresh
  /\ UNCHANGED <<rate, infer, moves>>

RatesMove(m, r) ==
  /\ moves < RateMoves /\ rate[m] # r
  /\ rate' = [rate EXCEPT ![m] = r]
  /\ moves' = moves + 1
  /\ UNCHANGED <<rateCache, refresh, infer>>

InferRestarts ==
  /\ rateCache' = [m \in Model |-> Unknown] /\ refresh' = NoRefresh
  /\ infer' = [q \in Inference |-> IF infer[q].pc = "billed" THEN infer[q] ELSE NotAsked]
  /\ UNCHANGED <<rate, moves>>

-----------------------------------------------------------------------------
(* The estimate rests on max_tokens, which the request may leave to a      *)
(* default that OpenRouter is not told of: what it takes may be more.      *)
EstimateCost(q, m, stream, tokens) ==
  /\ infer[q] = NotAsked
  /\ infer' = [infer EXCEPT ![q] =
       [pc |-> "asking", model |-> m, stream |-> stream,
        estimate |-> AtLeastFloor(tokens * ModelRate(m))]]
  /\ UNCHANGED <<rate, rateCache, refresh, moves>>

(* OpenRouter runs a model, charges for it, and tells what it took, or     *)
(* what it charged too, or neither.                                        *)
OpenRouterAnswers(q, ran, took, tells) ==
  /\ infer[q].pc = "asking"
  /\ infer' = [infer EXCEPT ![q] =
       [pc |-> "served", model |-> @.model, stream |-> @.stream, estimate |-> @.estimate,
        ran |-> ran, took |-> took, tells |-> tells, cost |-> took * rate[ran]]]
  /\ UNCHANGED <<rate, rateCache, refresh, moves>>

(* An error is settled to nothing by the gate.                             *)
OpenRouterRefuses(q) ==
  /\ infer[q].pc = "asking"
  /\ infer' = [infer EXCEPT ![q] = NotAsked]
  /\ UNCHANGED <<rate, rateCache, refresh, moves>>

(* Broken: a reply is billed by the model that was asked for.              *)
BilledModelAsked(r) == r.model

(* A reply says which model it is from; a stream is taken at its request.  *)
BilledModel(r) == IF r.stream THEN r.model ELSE r.ran

(* handleChat keeps of a reply the tokens only, none if it tells nothing,  *)
(* and of a stream all that its last chunk tells.                          *)
ActualCost(r) ==
  CASE r.tells = "nothing" -> IF r.stream THEN r.estimate ELSE Floor
    [] r.tells = "cost" /\ r.stream -> AtLeastFloor(r.cost)
    [] OTHER -> AtLeastFloor(r.took * ModelRate(BilledModel(r)))

(* What it cost can be known: OpenRouter tells it and is listened to, or   *)
(* the cache has the rate that was charged for the model that has run.     *)
CostKnown(r) ==
  \/ r.tells = "cost" /\ r.stream
  \/ /\ r.tells # "nothing" /\ (r.stream => r.ran = r.model)
     /\ rateCache[r.ran] # Unknown /\ r.took * rateCache[r.ran] = r.cost

SettleChat(q) ==
  /\ infer[q].pc = "served"
  /\ infer' = [infer EXCEPT ![q] =
       [pc |-> "billed", bill |-> ActualCost(@), cost |-> @.cost, known |-> CostKnown(@)]]
  /\ UNCHANGED <<rate, rateCache, refresh, moves>>

-----------------------------------------------------------------------------
InferNext ==
  \/ \E q \in Inference :
       \/ \E m \in Model, stream \in BOOLEAN, tokens \in Tokens : EstimateCost(q, m, stream, tokens)
       \/ \E ran \in Model, took \in Tokens, tells \in {"cost", "tokens", "nothing"} :
            OpenRouterAnswers(q, ran, took, tells)
       \/ OpenRouterRefuses(q) \/ SettleChat(q)
  \/ ListModels \/ RefreshModelPricing \/ InferRestarts
  \/ \E m \in Model, r \in Rate : RatesMove(m, r)

InferSpec == InferInit /\ [][InferNext]_inferVars

-----------------------------------------------------------------------------
(* A chat is billed at what OpenRouter charged for it, and never below the *)
(* minimum, wherever that can be known: whatever rates move and are        *)
(* refreshed between estimate, answer and settlement, and whichever model  *)
(* has run (pricing.ts:45-253, index.ts:153-233).                          *)
BilledAsRun ==
  \A q \in Inference : infer[q].pc = "billed" =>
    /\ infer[q].bill >= Floor
    /\ infer[q].known => infer[q].bill = AtLeastFloor(infer[q].cost)
=============================================================================
