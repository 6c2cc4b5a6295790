---------------------------- MODULE EmailWebhooks ----------------------------
(***************************************************************************)
(* The webhooks of email.sh (registerWebhook, deleteWebhook and            *)
(* handleIngestEvent of packages/email/src/service.ts, and                 *)
(* packages/email/src/webhook-delivery.ts).  A hook belongs to a mailbox,  *)
(* mailboxes come and go, and an address may pass to another wallet.  An   *)
(* incoming message starts a delivery for each hook of its mailbox, which  *)
(* runs in the background, retries, and counts what comes of it in the     *)
(* hook's row, while other deliveries and the owner do the same.           *)
(***************************************************************************)
EXTENDS Integers, FiniteSets

CONSTANTS Wallet,
          Address,
          Hook,          (* ids of hooks                                   *)
          Delivery,      (* as many deliveries may be under way at once    *)
          MaxAttempts,    (* MAX_RETRIES                                    *)
          PauseAfter,    (* CONSECUTIVE_FAILURES_PAUSE                     *)
          LastBox        (* bound: mailboxes ever made, which have the ids *)
                         (* 1, 2, ...                                      *)

ASSUME WebhooksAssumption ==
  MaxAttempts \in Nat \ {0} /\ PauseAfter \in Nat \ {0} /\ LastBox \in Nat

VARIABLES holder,        (* the mailboxes row with each address: its id    *)
          owner,         (* mailboxes.owner_wallet, by id                  *)
          lastBox,       (* the newest id                                  *)
          hook,          (* the webhooks table                             *)
          delivery,      (* the context of each delivery                   *)
          streak         (* history: failed deliveries of a hook since the *)
                         (* last one that succeeded                        *)

webhookVars == <<holder, owner, lastBox, hook, delivery, streak>>

NoMailbox == 0
NoOne     == "no one"
NoHook    == "no hook"

HookRows ==
  [box    : 0..LastBox,                          (* mailbox_id; NoMailbox: no row *)
   status : {"active", "paused"},
   fails  : Nat]                                 (* consecutive_failures    *)

Deliveries ==
  [hook    : Hook \cup {NoHook},
   for     : Wallet \cup {NoOne},  (* history: whose mail it tells of       *)
   to      : Wallet \cup {NoOne},  (* history: who registered the hook      *)
   attempt : 0..MaxAttempts]

WebhookTypeOK ==
  /\ holder   \in [Address -> 0..LastBox]
  /\ owner    \in [1..LastBox -> Wallet \cup {NoOne}]
  /\ lastBox  \in 0..LastBox
  /\ hook     \in [Hook -> HookRows]
  /\ delivery \in [Delivery -> Deliveries]
  /\ streak   \in [Hook -> Nat]

NoHookRow == [box |-> NoMailbox, status |-> "active", fails |-> 0]
Quiet == [hook |-> NoHook, for |-> NoOne, to |-> NoOne, attempt |-> 0]

WebhookInit ==
  /\ holder = [a \in Address |-> NoMailbox]
  /\ owner = [m \in 1..LastBox |-> NoOne]
  /\ lastBox = 0
  /\ hook = [h \in Hook |-> NoHookRow]
  /\ delivery = [d \in Delivery |-> Quiet]
  /\ streak = [h \in Hook |-> 0]

-----------------------------------------------------------------------------
(* insertMailbox: a new id for a free address.                             *)
OpenMailbox(w, a) ==
  /\ holder[a] = NoMailbox /\ lastBox < LastBox
  /\ lastBox' = lastBox + 1
  /\ holder' = [holder EXCEPT ![a] = lastBox + 1]
  /\ owner' = [owner EXCEPT ![lastBox + 1] = w]
  /\ UNCHANGED <<hook, delivery, streak>>

(* deleteMailboxRow; its hooks go with it if the build of SQLite enforces  *)
(* foreign keys, which the code does not ask for, and stay if it does not. *)
CloseMailbox(a) ==
  /\ holder[a] # NoMailbox
  /\ holder' = [holder EXCEPT ![a] = NoMailbox]
  /\ \/ UNCHANGED hook
     \/ hook' = [h \in Hook |-> IF hook[h].box = holder[a] THEN NoHookRow ELSE hook[h]]
  /\ UNCHANGED <<owner, lastBox, delivery, streak>>

(* Broken: hooks are not told apart by their mailbox.                      *)
HooksByAddress(a) ==
  {h \in Hook : /\ holder[a] # NoMailbox /\ hook[h].box # NoMailbox
                /\ hook[h].status = "active"}

(* getWebhooksByMailbox of the mailbox that has the address now.           *)
HooksOf(a) ==
  {h \in Hook : holder[a] # NoMailbox /\ hook[h].box = holder[a] /\ hook[h].status = "active"}

InUse(h) == hook[h].box # NoMailbox \/ \E d \in Delivery : delivery[d].hook = h

(* registerWebhook by the owner of the mailbox.                            *)
RegisterWebhook(a) ==
  /\ holder[a] # NoMailbox
  /\ \E h \in Hook :
       /\ ~ InUse(h)
       /\ hook' = [hook EXCEPT ![h] = [NoHookRow EXCEPT !.box = holder[a]]]
       /\ streak' = [streak EXCEPT ![h] = 0]
  /\ UNCHANGED <<holder, owner, lastBox, delivery>>

(* deleteWebhook, while there is the mailbox to name.                      *)
DeleteWebhook(a) ==
  /\ holder[a] # NoMailbox
  /\ \E h \in Hook :
       /\ hook[h].box = holder[a]
       /\ hook' = [hook EXCEPT ![h] = NoHookRow]
  /\ UNCHANGED <<holder, owner, lastBox, delivery, streak>>

(* handleIngestEvent and dispatchWebhookDeliveries: there is no await from *)
(* the look-up of the address to the first attempts.  The bound on         *)
(* deliveries leaves out what does not fit.                                *)
Ingest(a) ==
  /\ HooksOf(a) # {}
  /\ Cardinality(HooksOf(a)) <= Cardinality({d \in Delivery : delivery[d] = Quiet})
  /\ \E f \in [HooksOf(a) -> {d \in Delivery : delivery[d] = Quiet}] :
       /\ \A g, h \in HooksOf(a) : f[g] = f[h] => g = h
       /\ delivery' = [d \in Delivery |->
            IF \E h \in HooksOf(a) : f[h] = d
            THEN LET h == CHOOSE h \in HooksOf(a) : f[h] = d IN
                 [hook |-> h, for |-> owner[holder[a]], to |-> owner[hook[h].box],
                  attempt |-> 1]
            ELSE delivery[d]]
  /\ UNCHANGED <<holder, owner, lastBox, hook, streak>>

-----------------------------------------------------------------------------
(* An UPDATE of the hook's row, if it is still there.                      *)
UpdateHook(h, changed) ==
  hook' = IF hook[h].box = NoMailbox THEN hook ELSE [hook EXCEPT ![h] = changed]

EndDelivery(d) == delivery' = [delivery EXCEPT ![d] = Quiet]

(* Broken: a success does not interrupt a row of failures.                 *)
DeliveredUncounted(d) ==
  /\ delivery[d].attempt > 0
  /\ streak' = [streak EXCEPT ![delivery[d].hook] = 0]
  /\ EndDelivery(d)
  /\ UNCHANGED <<holder, owner, lastBox, hook>>

(* The hook answers with success, and resetWebhookFailures.                *)
Delivered(d) ==
  /\ delivery[d].attempt > 0
  /\ LET h == delivery[d].hook IN
     /\ UpdateHook(h, [hook[h] EXCEPT !.fails = 0])
     /\ streak' = [streak EXCEPT ![h] = 0]
  /\ EndDelivery(d)
  /\ UNCHANGED <<holder, owner, lastBox>>

(* Broken: one attempt too many.                                           *)
RetryOnceMore(d) ==
  /\ delivery[d].attempt \in 1..MaxAttempts
  /\ delivery' = [delivery EXCEPT ![d].attempt = @ + 1]
  /\ UNCHANGED <<holder, owner, lastBox, hook, streak>>

(* It answers with 500 or more, or not in time: after a while, try again.  *)
RetryDelivery(d) ==
  /\ delivery[d].attempt \in 1..(MaxAttempts - 1)
  /\ delivery' = [delivery EXCEPT ![d].attempt = @ + 1]
  /\ UNCHANGED <<holder, owner, lastBox, hook, streak>>

(* It answers with a client error, or the last attempt fails: count it,    *)
(* and pause the hook if that was one too many in a row.                   *)
DeliveryFailed(d) ==
  /\ delivery[d].attempt > 0
  /\ LET h == delivery[d].hook IN
     /\ UpdateHook(h, [hook[h] EXCEPT !.fails = @ + 1,
                                      !.status = IF hook[h].fails + 1 >= PauseAfter
                                                 THEN "paused" ELSE @])
     /\ streak' = [streak EXCEPT ![h] = @ + 1]
  /\ EndDelivery(d)
  /\ UNCHANGED <<holder, owner, lastBox>>

(* The process dies, and the deliveries under way with it.                 *)
WebhookRestart ==
  /\ \E d \in Delivery : delivery[d] # Quiet
  /\ delivery' = [d \in Delivery |-> Quiet]
  /\ UNCHANGED <<holder, owner, lastBox, hook, streak>>

WebhookNext ==
  \/ \E a \in Address :
       \/ \E w \in Wallet : OpenMailbox(w, a)
       \/ CloseMailbox(a) \/ RegisterWebhook(a) \/ DeleteWebhook(a) \/ Ingest(a)
  \/ \E d \in Delivery : Delivered(d) \/ RetryDelivery(d) \/ DeliveryFailed(d)
  \/ WebhookRestart

WebhookSpec == WebhookInit /\ [][WebhookNext]_webhookVars
-----------------------------------------------------------------------------
(* Mail is told only to the wallet whose mailbox it came to: a hook that   *)
(* outlives its mailbox hears nothing of the mail of the wallet that has   *)
(* the address next (service.ts:673-826).                                  *)
HooksHearOwnMail == \A d \in Delivery : delivery[d].for = delivery[d].to

(* A hook is paused only if its deliveries failed PauseAfter times with no *)
(* success in between, in the order in which they ended and not in that in *)
(* which they began (webhook-delivery.ts:98-123).                          *)
PausedForCause ==
  [][\A h \in Hook : hook[h].status = "active" /\ hook'[h].status = "paused"
       => streak'[h] >= PauseAfter]_webhookVars
=============================================================================
