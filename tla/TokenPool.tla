----------------------------- MODULE TokenPool ------------------------------
(***************************************************************************)
(* token.sh's pools (createPool of packages/token/src/service.ts): a       *)
(* Uniswap V3 pool for a token and USDC is created and given its starting  *)
(* price by two transactions, or adopted as it is found, and one row per   *)
(* token says which it is.                                                 *)
(*                                                                         *)
(* The chain is external: anybody may create or initialize a pool.  This   *)
(* is about one token.                                                     *)
(***************************************************************************)
EXTENDS Integers, Sequences, FiniteSets

CONSTANTS Fee,            (* VALID_FEE_TIERS                               *)
          Price,
          PoolCall,       (* as many calls may be under way at once        *)
          PoolLimit       (* bound: calls, and acts of strangers           *)

NotThere == -1            (* the zero address                              *)
NoFee    == "no fee"
NoPool   == [fee |-> NoFee, price |-> 0]
PoolPrice == Price \cup {0}     (* 0: not initialized                      *)

ASSUME PoolAssumption ==
  Price \subseteq Nat \ {0} /\ PoolLimit \in Nat /\ NoFee \notin Fee

VARIABLES poolRow,    (* the row of pools                                  *)
          pool,       (* external: the pools' prices, by their fees        *)
          poolTx,     (* external: the deployer's transactions             *)
          poolCall,   (* the calls under way                               *)
          poolCalls,  (* calls so far                                      *)
          strayed     (* history: calls overlapped, or one ended after it  *)
                      (* had sent a transaction and wrote no row           *)

poolVars == <<poolRow, pool, poolTx, poolCall, poolCalls, strayed>>

NoPoolCall == [pc |-> "idle", fee |-> NoFee, price |-> 0, tx |-> 0]

PoolTypeOK ==
  /\ poolRow \in [fee : Fee \cup {NoFee}, price : PoolPrice]
  /\ pool \in [Fee -> PoolPrice \cup {NotThere}]
  /\ poolTx \in Seq([op : {"create", "init"}, fee : Fee, price : Price,
                     is : {"sent", "mined", "reverted"}])
  /\ poolCall \in [PoolCall ->
       [pc : {"idle", "look", "create", "creating", "init", "initing", "insert"},
        fee : Fee \cup {NoFee}, price : PoolPrice, tx : Nat]]
  /\ poolCalls \in 0..PoolLimit
  /\ strayed \in BOOLEAN

PoolInit ==
  /\ poolRow = NoPool
  /\ pool = [f \in Fee |-> NotThere]
  /\ poolTx = <<>>
  /\ poolCall = [c \in PoolCall |-> NoPoolCall]
  /\ poolCalls = 0 /\ strayed = FALSE

-----------------------------------------------------------------------------
AtPool(c, place) == poolCall[c].pc = place
GoPool(c, place) == poolCall' = [poolCall EXCEPT ![c].pc = place]
EndPool(c) == poolCall' = [poolCall EXCEPT ![c] = NoPoolCall]
OnChain(c) == pool[poolCall[c].fee]

(* POST /v1/tokens/:id/pool, of a confirmed token without a row.           *)
CreatePool(c, f, p) ==
  /\ AtPool(c, "idle") /\ poolCalls < PoolLimit
  /\ poolRow = NoPool
  /\ poolCalls' = poolCalls + 1
  /\ poolCall' = [poolCall EXCEPT ![c] = [pc |-> "look", fee |-> f, price |-> p, tx |-> 0]]
  /\ strayed' = (strayed \/ \E d \in PoolCall : ~ AtPool(d, "idle"))
  /\ UNCHANGED <<poolRow, pool, poolTx>>

(* There is a receipt; what it says is not looked at.                      *)
HasReceipt(c) == poolCall[c].tx # 0 /\ poolTx[poolCall[c].tx].is # "sent"

ReadsPool(c, priceRead) ==
  \/ AtPool(c, "look") /\ OnChain(c) = NotThere /\ GoPool(c, "create")
  \/ /\ AtPool(c, "look") \/ (AtPool(c, "creating") /\ HasReceipt(c))
     /\ OnChain(c) = 0 /\ GoPool(c, "init")
  \/ /\ \/ AtPool(c, "look") /\ OnChain(c) # 0
        \/ AtPool(c, "creating") /\ HasReceipt(c) /\ OnChain(c) # 0
        \/ AtPool(c, "initing") /\ HasReceipt(c)
     /\ OnChain(c) # NotThere
     /\ poolCall' = [poolCall EXCEPT ![c].pc = "insert", ![c].price = priceRead]

(* Broken: a pool that is there is taken to have the price asked for.      *)
AdoptAsAsked(c) ==
  ReadsPool(c, poolCall[c].price) /\ UNCHANGED <<poolRow, pool, poolTx, poolCalls, strayed>>

(* getPool, and slot0 of the pool that is there, at first and after each   *)
(* receipt: a pool without a price gets one, and whatever price there is   *)
(* then is kept.  No pool is ever gone again, so that the reads that       *)
(* follow one another without a write between them are one step.           *)
ReadPool(c) ==
  ReadsPool(c, OnChain(c)) /\ UNCHANGED <<poolRow, pool, poolTx, poolCalls, strayed>>

SendPoolTx(c) ==
  /\ poolCall[c].pc \in {"create", "init"}
  /\ poolTx' = Append(poolTx, [op |-> poolCall[c].pc, fee |-> poolCall[c].fee,
                               price |-> poolCall[c].price, is |-> "sent"])
  /\ poolCall' = [poolCall EXCEPT
       ![c].pc = IF @ = "create" THEN "creating" ELSE "initing", ![c].tx = Len(poolTx')]
  /\ UNCHANGED <<poolRow, pool, poolCalls, strayed>>

(* insertPool, which throws where the token has a row.                     *)
InsertPool(c) ==
  /\ AtPool(c, "insert")
  /\ poolRow' = IF poolRow = NoPool
                THEN [fee |-> poolCall[c].fee, price |-> poolCall[c].price] ELSE poolRow
  /\ EndPool(c)
  /\ UNCHANGED <<pool, poolTx, poolCalls, strayed>>

(* Any error of the node is a 502: a transaction that was sent unheard, a  *)
(* receipt that does not come in 30 seconds, no pool where one was to be.  *)
(* And the process may die.                                                *)
GiveUpPool(c) ==
  /\ ~ AtPool(c, "idle")
  /\ poolTx' \in {poolTx} \cup
       IF poolCall[c].pc \in {"create", "init"}
       THEN {Append(poolTx, [op |-> poolCall[c].pc, fee |-> poolCall[c].fee,
                             price |-> poolCall[c].price, is |-> "sent"])} ELSE {}
  /\ strayed' = (strayed \/ poolTx' # poolTx \/ poolCall[c].tx # 0)
  /\ EndPool(c)
  /\ UNCHANGED <<poolRow, pool, poolCalls>>

-----------------------------------------------------------------------------
(* External: a transaction does what it says where it can, and may fail    *)
(* for the lack of gas.                                                    *)
MinePoolTx(i) ==
  /\ i \in DOMAIN poolTx /\ poolTx[i].is = "sent"
  /\ \A j \in 1..(i - 1) : poolTx[j].is # "sent"
  /\ LET tx == poolTx[i]
         before == IF tx.op = "create" THEN NotThere ELSE 0
         after  == IF tx.op = "create" THEN 0 ELSE tx.price IN
     \/ /\ pool[tx.fee] = before
        /\ pool' = [pool EXCEPT ![tx.fee] = after]
        /\ poolTx' = [poolTx EXCEPT ![i].is = "mined"]
     \/ poolTx' = [poolTx EXCEPT ![i].is = "reverted"] /\ UNCHANGED pool
  /\ UNCHANGED <<poolRow, poolCall, poolCalls, strayed>>

(* External: somebody else creates a pool, or initializes it.              *)
Stranger(f, p) ==
  /\ poolCalls < PoolLimit /\ poolCalls' = poolCalls + 1
  /\ pool[f] \in {NotThere, 0}
  /\ pool' = [pool EXCEPT ![f] = IF @ = NotThere THEN 0 ELSE p]
  /\ UNCHANGED <<poolRow, poolTx, poolCall, strayed>>

PoolStep(c) ==
  \/ \E f \in Fee, p \in Price : CreatePool(c, f, p)
  \/ ReadPool(c) \/ SendPoolTx(c) \/ InsertPool(c) \/ GiveUpPool(c)

PoolNext ==
  \/ \E c \in PoolCall : PoolStep(c)
  \/ \E i \in DOMAIN poolTx : MinePoolTx(i)
  \/ \E f \in Fee, p \in Price : Stranger(f, p)

PoolSpec == PoolInit /\ [][PoolNext]_poolVars

-----------------------------------------------------------------------------
(* A token's row names a pool that is there at the price it has, whoever   *)
(* made it, unless the transaction that was to give it one was reverted;   *)
(* and the deployer has paid for one pool at most, as long as calls come   *)
(* one after another and none is given up with a transaction sent          *)
(* (service.ts:441-449, 490-576).                                          *)
PoolsAreReal ==
  /\ poolRow # NoPool =>
       /\ pool[poolRow.fee] # NotThere
       /\ IF poolRow.price # 0 THEN pool[poolRow.fee] = poolRow.price
          ELSE \E i \in DOMAIN poolTx :
                 poolTx[i].op = "init" /\ poolTx[i].fee = poolRow.fee /\ poolTx[i].is = "reverted"
  /\ ~ strayed =>
       Cardinality({i \in DOMAIN poolTx : poolTx[i].op = "create" /\ poolTx[i].is = "mined"}) <= 1
=============================================================================
