------------------------------- MODULE Faucet -------------------------------
(***************************************************************************)
(* faucet.sh (packages/faucet/src/index.ts, service.ts and rate-limit.ts). *)
(* A drip comes from Coinbase's faucet (CDP) or, if that fails, from the   *)
(* treasury wallet, as long as that has more than its reserve.  Treasury   *)
(* transfers of both coins take their nonces from one queue, a chain of    *)
(* promises each of which waits for the one before it.  An address has to  *)
(* wait for a while after a drip; the time of it is written down when the  *)
(* drip is over.                                                           *)
(*                                                                         *)
(* CDP, the chain and its RPC node are external.                           *)
(***************************************************************************)
EXTENDS Integers, Sequences

CONSTANTS Address,
          Coin,       (* "usdc" and "eth"                                  *)
          Drip,       (* as many requests may be under way at once         *)
          Reserve,    (* FAUCET_RESERVE_*, in drips                        *)
          Funds,      (* what the treasury starts with, in drips           *)
          Outages,    (* whether the RPC node may fail, and the process    *)
                      (* die: a set of Booleans                            *)
          DripLimit   (* bound: requests                                   *)

NoNonce == -1
Lost    == "lost"     (* a request that left the queue without a word      *)
NoDrip  == <<"nobody", "nothing">>

ASSUME FaucetAssumption ==
  Reserve \in Nat /\ Funds \in Nat /\ DripLimit \in Nat /\ Lost \notin Drip

VARIABLES lately,     (* rate_limits: who got what within the window       *)
          current,    (* NonceQueue.current                                *)
          line,       (* the promises in NonceQueue that are not resolved  *)
          drip,       (* the context of each request                       *)
          chain,      (* external: the account's transactions and funds    *)
          begun,      (* requests so far                                   *)
          dripped,    (* history: drips within the window                  *)
          overlap,    (* history: the same was requested twice at once, or *)
                      (* sent and reported as failed                       *)
          trouble,    (* history: a transfer or a nonce has failed         *)
          outage      (* chosen once, from Outages                         *)

faucetVars == <<lately, current, line, drip, chain, begun, dripped, overlap,
                trouble, outage>>

Drips ==
  [pc    : {"idle", "cdp", "floor", "queue", "fetch", "send"},
   for   : (Address \X Coin) \cup {NoDrip},
   nonce : Nat \cup {NoNonce}]

FaucetTypeOK ==
  /\ lately  \subseteq Address \X Coin
  /\ current \in Nat \cup {NoNonce}
  /\ line    \in Seq(Drip \cup {Lost})
  /\ drip    \in [Drip -> Drips]
  /\ chain   \in [mined : Nat,                (* transactions of the account *)
                  pool  : SUBSET (Nat \X Coin),  (* not mined yet             *)
                  funds : [Coin -> Nat]]
  /\ begun   \in 0..DripLimit
  /\ dripped \in [Address \X Coin -> Nat]
  /\ overlap \subseteq Address \X Coin
  /\ trouble \in BOOLEAN
  /\ outage  \in Outages

NotDripping == [pc |-> "idle", for |-> NoDrip, nonce |-> NoNonce]

FaucetInit ==
  /\ lately = {} /\ current = NoNonce /\ line = <<>>
  /\ drip = [d \in Drip |-> NotDripping]
  /\ chain = [mined |-> 0, pool |-> {}, funds |-> [k \in Coin |-> Funds]]
  /\ begun = 0 /\ overlap = {} /\ trouble = FALSE
  /\ dripped = [ak \in Address \X Coin |-> 0]
  /\ outage \in Outages

-----------------------------------------------------------------------------
DripTo(d, place) == drip' = [drip EXCEPT ![d].pc = place]

EndDrip(d) == drip' = [drip EXCEPT ![d] = NotDripping]

(* POST /v1/faucet/usdc and /eth, let through by RateLimiter.check.        *)
BeginDrip(d, ak) ==
  /\ drip[d].pc = "idle" /\ begun < DripLimit
  /\ ak \notin lately
  /\ drip' = [drip EXCEPT ![d] = [pc |-> "cdp", for |-> ak, nonce |-> NoNonce]]
  /\ begun' = begun + 1
  /\ overlap' = IF \E e \in Drip : drip[e].for = ak THEN overlap \cup {ak} ELSE overlap
  /\ UNCHANGED <<lately, current, line, chain, dripped, trouble, outage>>

(* Broken: nothing is written down.                                        *)
SentUnrecorded(d) ==
  /\ dripped' = [dripped EXCEPT ![drip[d].for] = @ + 1]
  /\ EndDrip(d)
  /\ UNCHANGED <<lately, overlap>>

(* The drip is sent, and RateLimiter.record.                               *)
Sent(d) ==
  /\ dripped' = [dripped EXCEPT ![drip[d].for] = @ + 1]
  /\ lately' = lately \cup {drip[d].for}
  /\ EndDrip(d)
  /\ UNCHANGED overlap

(* It is sent, and its answer lost.                                        *)
SentUnheard(d) ==
  /\ dripped' = [dripped EXCEPT ![drip[d].for] = @ + 1]
  /\ overlap' = overlap \cup {drip[d].for}
  /\ UNCHANGED lately

NotSent == UNCHANGED <<lately, dripped, overlap>>

(* External: cdpDrip; on any error the treasury is tried.                  *)
CdpDrip(d) ==
  /\ drip[d].pc = "cdp"
  /\ \/ Sent(d)
     \/ (SentUnheard(d) \/ NotSent) /\ DripTo(d, "floor")
  /\ UNCHANGED <<current, line, chain, begun, trouble, outage>>

(* The balance is read, and if there is more than the reserve, the request *)
(* stands in line for a nonce.  An error of the node ends it, too.         *)
CheckFloor(d) ==
  /\ drip[d].pc = "floor"
  /\ \/ /\ chain.funds[drip[d].for[2]] >= 1 + Reserve
        /\ DripTo(d, "queue")
        /\ line' = Append(line, d)
     \/ EndDrip(d) /\ UNCHANGED line
  /\ NotSent
  /\ UNCHANGED <<current, chain, begun, trouble, outage>>

-----------------------------------------------------------------------------
(* NonceQueue.next assigns a nonce and lets the next in line go on.        *)
Assign(d, n) ==
  /\ current' = n
  /\ drip' = [drip EXCEPT ![d].pc = "send", ![d].nonce = n]
  /\ line' = Tail(line)

(* Broken: nobody waits for anybody.                                       *)
JumpsQueue(d) == drip[d].pc = "queue"

AtHead(d) == drip[d].pc = "queue" /\ Head(line) = d

(* Broken: the next in line is let go on only after a fetch.               *)
CountUpQuietly(d) ==
  /\ AtHead(d) /\ current # NoNonce
  /\ current' = current + 1
  /\ drip' = [drip EXCEPT ![d].pc = "send", ![d].nonce = current + 1]
  /\ NotSent
  /\ UNCHANGED <<line, chain, begun, trouble, outage>>

CountUp(d) ==
  /\ AtHead(d) /\ current # NoNonce
  /\ Assign(d, current + 1)
  /\ NotSent
  /\ UNCHANGED <<chain, begun, trouble, outage>>

BeginFetch(d) ==
  /\ AtHead(d) /\ current = NoNonce
  /\ DripTo(d, "fetch")
  /\ NotSent
  /\ UNCHANGED <<current, line, chain, begun, trouble, outage>>

(* External: getTransactionCount, of what has been mined.  When it fails,  *)
(* the queue is reset, but the request's own promise is never resolved.    *)
FetchNonce(d) ==
  /\ drip[d].pc = "fetch"
  /\ \/ Assign(d, chain.mined) /\ UNCHANGED trouble
     \/ /\ outage
        /\ current' = NoNonce
        /\ line' = [line EXCEPT ![1] = Lost]
        /\ trouble' = TRUE
        /\ EndDrip(d)
  /\ NotSent
  /\ UNCHANGED <<chain, begun, outage>>

(* External: the node takes a transaction whose nonce is not taken, also   *)
(* one that has to wait for those before it.                               *)
Submit(d) ==
  /\ drip[d].nonce >= chain.mined
  /\ \A tx \in chain.pool : tx[1] # drip[d].nonce
  /\ chain' = [chain EXCEPT !.pool = @ \cup {<<drip[d].nonce, drip[d].for[2]>>}]

(* The transfer.  On an error the queue starts again from the chain.       *)
SendTransfer(d) ==
  /\ drip[d].pc = "send"
  /\ \/ Submit(d) /\ Sent(d) /\ UNCHANGED <<current, trouble>>
     \/ /\ \/ Submit(d) /\ SentUnheard(d)
           \/ NotSent /\ UNCHANGED chain
        /\ EndDrip(d)
        /\ current' = NoNonce /\ trouble' = TRUE
  /\ UNCHANGED <<line, begun, outage>>

-----------------------------------------------------------------------------
(* External: the next transaction is mined; it moves nothing if the funds  *)
(* are gone.                                                               *)
Mine ==
  /\ \E tx \in chain.pool :
       /\ tx[1] = chain.mined
       /\ chain' = [mined |-> chain.mined + 1, pool |-> chain.pool \ {tx},
                    funds |-> [chain.funds EXCEPT ![tx[2]] = IF @ > 0 THEN @ - 1 ELSE 0]]
  /\ UNCHANGED <<lately, current, line, drip, begun, dripped, overlap, trouble, outage>>

(* The window after a drip is over.                                        *)
WindowEnds(ak) ==
  /\ ak \in lately
  /\ lately' = lately \ {ak}
  /\ dripped' = [dripped EXCEPT ![ak] = 0]
  /\ UNCHANGED <<current, line, drip, chain, begun, overlap, trouble, outage>>

(* The process dies: the queue is empty, the table and the chain stay.     *)
FaucetRestart ==
  /\ outage
  /\ current' = NoNonce /\ line' = <<>>
  /\ drip' = [d \in Drip |-> NotDripping]
  /\ overlap' = overlap \cup {drip[d].for : d \in {e \in Drip : drip[e].pc # "idle"}}
  /\ trouble' = TRUE
  /\ UNCHANGED <<lately, chain, begun, dripped, outage>>

FaucetStep(d) ==
  CdpDrip(d) \/ CheckFloor(d) \/ CountUp(d) \/ BeginFetch(d) \/ FetchNonce(d) \/ SendTransfer(d)

FaucetNext ==
  \/ \E d \in Drip : FaucetStep(d) \/ \E ak \in Address \X Coin : BeginDrip(d, ak)
  \/ Mine
  \/ \E ak \in Address \X Coin : WindowEnds(ak)
  \/ FaucetRestart

FaucetSpec == FaucetInit /\ [][FaucetNext]_faucetVars

(* The runtime goes on with a request, and external requests time out.     *)
FaucetFairness == \A d \in Drip : WF_faucetVars(FaucetStep(d))

-----------------------------------------------------------------------------
(* Who requests one drip after another gets one within the window, from    *)
(* CDP and the treasury together (faucet/src/index.ts:105-196).            *)
OneDripPerWindow == \A ak \in Address \X Coin : ak \notin overlap => dripped[ak] <= 1

(* "Assigns explicit sequential nonces so concurrent treasury txs don't    *)
(* collide" (faucet/src/service.ts:26): this is so until a transfer fails. *)
NoncesDoNotCollide ==
  ~ trouble => \A d \in Drip : drip[d].pc = "send" =>
    /\ drip[d].nonce >= chain.mined
    /\ \A tx \in chain.pool : tx[1] # drip[d].nonce
    /\ \A e \in Drip \ {d} : drip[e].nonce # drip[d].nonce

(* While the node answers, the queue lets everybody through in the end     *)
(* (faucet/src/service.ts:32-54).                                          *)
EveryDripEnds == ~ outage => \A d \in Drip : drip[d].pc = "queue" ~> drip[d].pc = "idle"

(* "Reset after errors so next call re-fetches from chain"                 *)
(* (faucet/src/service.ts:56): after an error, too, who waits in the queue *)
(* gets out of it.                                                         *)
QueueRecovers == \A d \in Drip : drip[d].pc = "queue" ~> drip[d].pc # "queue"
=============================================================================
