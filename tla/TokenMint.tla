----------------------------- MODULE TokenMint ------------------------------
(***************************************************************************)
(* token.sh's tokens (packages/token/src/service.ts and db.ts): deploying  *)
(* a mintable ERC-20 contract and minting up to its cap.  A transaction is *)
(* sent, its receipt is waited for, and the row says what has come of it.  *)
(* Who has waited long enough (30 seconds) goes on without.                *)
(*                                                                         *)
(* The chain is external; the contract is contracts/AgentToken.sol, whose  *)
(* mint() keeps to the cap by itself.  Supplies and amounts are in halves  *)
(* of a token.                                                             *)
(***************************************************************************)
EXTENDS Integers, Sequences, FiniteSets

CONSTANTS Token,
          Amount,         (* of a minting request, in halves               *)
          InitialSupply, MaxSupply,
          TokenCall,      (* as many calls may be under way at once        *)
          TokenLimit      (* bound: calls                                  *)

NoToken == "no token"

ASSUME TokenAssumption ==
  /\ Amount \subseteq Nat \ {0} /\ InitialSupply \in Nat \ {0} /\ MaxSupply \in Nat
  /\ InitialSupply <= MaxSupply
  /\ TokenLimit \in Nat /\ NoToken \notin Token

VARIABLES token,      (* deployments in SQLite                             *)
          contract,   (* external: the contracts                           *)
          mintTx,     (* external: the minting transactions                *)
          minting,    (* the calls under way                               *)
          mintings,   (* calls so far                                      *)
          untold      (* history: tokens two calls minted at once, or with *)
                      (* a minting whose outcome was never counted         *)

tokenVars == <<token, contract, mintTx, minting, mintings, untold>>

NotMinting == [pc |-> "idle", token |-> NoToken, amount |-> 0, tx |-> 0]

TokenTypeOK ==
  /\ token \in [Token -> [status : {"none", "pending", "confirmed", "failed"}, minted : Nat]]
  /\ contract \in [Token -> [is : {"none", "sent", "up", "reverted"},
                             supply : Nat, minted : Nat, minter : BOOLEAN]]
  /\ mintTx \in Seq([token : Token, amount : Nat,
                     is : {"sent", "mined", "over", "reverted"}])
  /\ minting \in [TokenCall ->
       [pc : {"idle", "deploy", "deployed", "receipt", "write", "written"},
        token : Token \cup {NoToken}, amount : Nat, tx : Nat]]
  /\ mintings \in 0..TokenLimit
  /\ untold \subseteq Token

TokenInit ==
  /\ token = [t \in Token |-> [status |-> "none", minted |-> 0]]
  /\ contract = [t \in Token |->
       [is |-> "none", supply |-> 0, minted |-> 0, minter |-> TRUE]]
  /\ mintTx = <<>>
  /\ minting = [c \in TokenCall |-> NotMinting]
  /\ mintings = 0 /\ untold = {}

-----------------------------------------------------------------------------
EndMinting(c) == minting' = [minting EXCEPT ![c] = NotMinting]

Minting(t) == \E c \in TokenCall : minting[c].pc \in {"write", "written"} /\ minting[c].token = t

BeginMinting(c) == minting[c].pc = "idle" /\ mintings < TokenLimit /\ mintings' = mintings + 1

(* POST /v1/tokens: the id is made when the transaction has been sent.     *)
DeployToken(c, t) ==
  /\ BeginMinting(c)
  /\ token[t].status = "none" /\ contract[t].is = "none"
  /\ \A d \in TokenCall : minting[d].token # t
  /\ minting' = [minting EXCEPT ![c].pc = "deploy", ![c].token = t]
  /\ UNCHANGED <<token, contract, mintTx, untold>>

(* External: the node takes the contract, or it does not, and whether its  *)
(* answer is heard or not.                                                 *)
SendContract(c) ==
  /\ minting[c].pc = "deploy"
  /\ \/ /\ contract' = [contract EXCEPT ![minting[c].token].is = "sent"]
        /\ minting' = [minting EXCEPT ![c].pc = "deployed"] \/ EndMinting(c)
     \/ EndMinting(c) /\ UNCHANGED contract
  /\ UNCHANGED <<token, mintTx, mintings, untold>>

(* insertDeployment                                                        *)
InsertDeployment(c) ==
  /\ minting[c].pc = "deployed"
  /\ token' = [token EXCEPT ![minting[c].token].status = "pending"]
  /\ minting' = [minting EXCEPT ![c].pc = "receipt"]
  /\ UNCHANGED <<contract, mintTx, mintings, untold>>

(* The receipt says how the deployment went.  After the timeout the row    *)
(* stays as it is, and so it does when the process dies.                   *)
DeployReceipt(c) ==
  /\ minting[c].pc = "receipt"
  /\ LET t == minting[c].token IN
     \/ contract[t].is = "up" /\ token' = [token EXCEPT ![t].status = "confirmed"]
     \/ contract[t].is = "reverted" /\ token' = [token EXCEPT ![t].status = "failed"]
     \/ UNCHANGED token
  /\ EndMinting(c)
  /\ UNCHANGED <<contract, mintTx, mintings, untold>>

-----------------------------------------------------------------------------
(* Broken: what has been minted since is not looked at.                    *)
AboveInitial(t, a) == InitialSupply + a <= MaxSupply

WithinCap(t, a) == InitialSupply + token[t].minted + a <= MaxSupply

(* POST /v1/tokens/:id/mint: the cap is checked with the row as it is now. *)
MintTokens(c, t, a) ==
  /\ BeginMinting(c)
  /\ token[t].status = "confirmed" /\ WithinCap(t, a)
  /\ minting' = [minting EXCEPT ![c] = [pc |-> "write", token |-> t, amount |-> a, tx |-> 0]]
  /\ untold' = IF Minting(t) THEN untold \cup {t} ELSE untold
  /\ UNCHANGED <<token, contract, mintTx>>

(* External: the node takes the transaction, or not, heard or not.         *)
SendMint(c) ==
  /\ minting[c].pc = "write"
  /\ LET t == minting[c].token
         sent == Append(mintTx, [token |-> t, amount |-> minting[c].amount, is |-> "sent"]) IN
     \/ /\ mintTx' = sent
        /\ minting' = [minting EXCEPT ![c].pc = "written", ![c].tx = Len(sent)]
        /\ UNCHANGED untold
     \/ /\ mintTx' = sent /\ EndMinting(c)
        /\ untold' = untold \cup {t}
     \/ EndMinting(c) /\ UNCHANGED <<mintTx, untold>>
  /\ UNCHANGED <<token, contract, mintings>>

(* incrementTotalMinted adds the amounts as integers; what is none throws, *)
(* and is taken for a timeout.                                             *)
Countable(a) == a % 2 = 0

MintReceipt(c) ==
  /\ minting[c].pc = "written"
  /\ LET t == minting[c].token
         a == minting[c].amount
         outcome == mintTx[minting[c].tx].is IN
     \/ /\ outcome = "mined" /\ Countable(a)
        /\ token' = [token EXCEPT ![t].minted = @ + a]
        /\ UNCHANGED untold
     \/ outcome \in {"over", "reverted"} /\ UNCHANGED <<token, untold>>
     \/ /\ outcome = "mined" => ~ Countable(a)
        /\ outcome \in {"sent", "mined"}
        /\ untold' = untold \cup {t}
        /\ UNCHANGED token
  /\ EndMinting(c)
  /\ UNCHANGED <<contract, mintTx, mintings>>

(* The process dies, or the node's answer about the receipt gets lost.     *)
MintUnheard(c) ==
  /\ minting[c].pc = "written"
  /\ untold' = untold \cup {minting[c].token}
  /\ EndMinting(c)
  /\ UNCHANGED <<token, contract, mintTx, mintings>>

-----------------------------------------------------------------------------
(* External: the constructor mints the initial supply to the owner.        *)
MineContract(t) ==
  /\ contract[t].is = "sent"
  /\ \/ contract' = [contract EXCEPT ![t].is = "up", ![t].supply = InitialSupply]
     \/ contract' = [contract EXCEPT ![t].is = "reverted"]
  /\ UNCHANGED <<token, mintTx, minting, mintings, untold>>

(* External: transactions of one account are mined in their order.  mint() *)
(* is for the minter, and up to the cap.                                   *)
MineMint(i) ==
  /\ i \in DOMAIN mintTx /\ mintTx[i].is = "sent"
  /\ \A j \in 1..(i - 1) : mintTx[j].is # "sent"
  /\ LET t == mintTx[i].token
         a == mintTx[i].amount
         outcome == IF ~ contract[t].minter THEN "reverted"
                    ELSE IF contract[t].supply + a > MaxSupply THEN "over" ELSE "mined" IN
     /\ mintTx' = [mintTx EXCEPT ![i].is = outcome]
     /\ contract' = IF outcome = "mined"
          THEN [contract EXCEPT ![t].supply = @ + a, ![t].minted = @ + a] ELSE contract
  /\ UNCHANGED <<token, minting, mintings, untold>>

(* External: holders burn, and the owner may take the minting away.        *)
HoldersAct(t) ==
  /\ contract[t].is = "up"
  /\ \/ contract[t].supply > 0 /\ contract' = [contract EXCEPT ![t].supply = @ - 1]
     \/ contract' = [contract EXCEPT ![t].minter = FALSE]
  /\ UNCHANGED <<token, mintTx, minting, mintings, untold>>

TokenStep(c) ==
  \/ \E t \in Token : DeployToken(c, t) \/ \E a \in Amount : MintTokens(c, t, a)
  \/ SendContract(c) \/ InsertDeployment(c) \/ DeployReceipt(c)
  \/ SendMint(c) \/ MintReceipt(c) \/ MintUnheard(c)

TokenNext ==
  \/ \E c \in TokenCall : TokenStep(c)
  \/ \E t \in Token : MineContract(t) \/ HoldersAct(t)
  \/ \E i \in DOMAIN mintTx : MineMint(i)

TokenSpec == TokenInit /\ [][TokenNext]_tokenVars

-----------------------------------------------------------------------------
(* The row counts what the chain has minted, in whichever order receipts   *)
(* come, until one is given up on or an amount is no integer; and as long  *)
(* as mintings come one after another and are counted, what the service    *)
(* lets through is not turned down by the contract for the cap, whatever   *)
(* is burned meanwhile (service.ts:294-312, 341-352, db.ts:196).           *)
MintedIsCounted ==
  /\ \A t \in Token : t \notin untold =>
       /\ token[t].minted <= contract[t].minted
       /\ ~ Minting(t) => token[t].minted = contract[t].minted
  /\ \A i \in DOMAIN mintTx : mintTx[i].is = "over" => mintTx[i].token \in untold
=============================================================================
