------------------------------ MODULE MCEmail ------------------------------
(***************************************************************************)
(* Mailboxes, custom domains and webhooks keep to state of their own: one  *)
(* run checks them side by side, one of them at work in each behaviour.    *)
(***************************************************************************)
EXTENDS EmailMailbox, EmailDomain, EmailWebhooks

CONSTANTS b1, b2, c1, c2, s1, s2, n1, n2, w1, w2, h1, h2, d1, d2, a1

VARIABLE part    (* chosen once: the one at work *)

MCBox == {b1, b2}
MCCall == {c1, c2}
MCSweeper == {s1, s2}
MCName == {n1, n2}
MCWallet == {w1, w2}
MCHook == {h1, h2}
MCDelivery == {d1, d2}
MCAddress == {a1}

World(boxes, workers, unreliable) ==
  [boxes |-> boxes, workers |-> workers, crashes |-> unreliable, lossy |-> unreliable,
   reuse |-> unreliable]

MCWorlds ==
  {World({b1, b2}, {c1, s1}, TRUE), World({b1, b2}, {c1, c2}, TRUE),
   World({b1, b2}, {c1, s1}, FALSE), World({b1}, {c1, c2, s1}, FALSE),
   World({b1}, {c1, s1, s2}, FALSE)}

(* index.ts starts no sweep.                                               *)
MCServiceWorlds == {World({b1}, {c1}, FALSE)}

(* Whatever a table of email.sh says is true of what it is about: of       *)
(* Stalwart's accounts, of its domains, and of whose mail a hook hears     *)
(* (service.ts:186-1083, expiry.ts:26-83).                                 *)
MailRowsHold == AccountsMatch /\ ActiveIsReal /\ HooksHearOwnMail

EmailTypeOK == MailboxTypeOK /\ EmailDomainTypeOK /\ WebhookTypeOK

emailVars == <<mailboxVars, emailDomainVars, webhookVars, part>>

EmailInit ==
  /\ part \in {"mailboxes", "domain", "webhooks"}
  /\ MailboxInit /\ EmailDomainInit /\ WebhookInit
  /\ part # "mailboxes" => world = CHOOSE w \in Worlds : TRUE

EmailNext ==
  /\ UNCHANGED part
  /\ \/ part = "mailboxes" /\ MailboxNext /\ UNCHANGED <<emailDomainVars, webhookVars>>
     \/ part = "domain" /\ EmailDomainNext /\ UNCHANGED <<mailboxVars, webhookVars>>
     \/ part = "webhooks" /\ WebhookNext /\ UNCHANGED <<mailboxVars, emailDomainVars>>

EmailSpec ==
  EmailInit /\ [][EmailNext]_emailVars /\ \A p \in Job : WF_mailboxVars(MailboxStep(p))
=============================================================================
