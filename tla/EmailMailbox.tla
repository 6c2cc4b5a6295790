---------------------------- MODULE EmailMailbox ----------------------------
(***************************************************************************)
(* The life of mailboxes in email.sh (packages/email/src/service.ts and    *)
(* expiry.ts).  A mailbox is a row in SQLite and an account ("principal")  *)
(* on the Stalwart mail server, named by the local part of its address.    *)
(* The row is found by its id, the account is made and deleted by name, and *)
(* every call to the server is an await, so calls of the owner and the     *)
(* expiry sweeps interleave between asking the server and writing the row. *)
(*                                                                         *)
(* Calls are made by the mailbox's owner; others get a 404 at once.        *)
(* Stalwart is external: it may refuse or not answer any request.          *)
(***************************************************************************)
EXTENDS Integers, FiniteSets

CONSTANTS Box,          (* ids of mailboxes                                *)
          Call,         (* as many calls of owners may be under way at once *)
          Sweeper,      (* and as many sweeps                              *)
          Name,         (* local parts of addresses                        *)
          MaxRetries,   (* CLEANUP_MAX_RETRIES                             *)
          Batch,        (* SWEEP_BATCH_SIZE, also for failed cleanups      *)
          Worlds        (* what may happen, see world                      *)

NoBox  == "no mailbox"
NoName == "no name"

ASSUME MailboxAssumption ==
  /\ MaxRetries \in Nat \ {0} /\ Batch \in Nat \ {0}
  /\ Call \cap Sweeper = {} /\ NoBox \notin Box /\ NoName \notin Name
  /\ Worlds \subseteq [boxes : SUBSET Box, workers : SUBSET (Call \cup Sweeper),
                       crashes : BOOLEAN, lossy : BOOLEAN, reuse : BOOLEAN]

VARIABLES mailbox,      (* the mailboxes table, by id                      *)
          account,      (* external: whose account has a name              *)
          job,          (* the context of each call and sweep              *)
          world         (* chosen once: which of the mailboxes, calls and   *)
                        (* sweeps there are, whether the process may be    *)
                        (* restarted, a request be done and its answer     *)
                        (* lost, and a name be used again                  *)

mailboxVars == <<mailbox, account, job, world>>

Job == Call \cup Sweeper

Rows ==
  [status   : {"none", "active", "expired"},     (* "none": no row         *)
   name     : Name \cup {NoName},                (* stalwart_name, UNIQUE  *)
   life     : {"forever", "running", "past"},    (* expires_at against now *)
   cleanup  : {0, 1, -1},                        (* stalwart_cleanup_failed *)
   attempts : Nat]                               (* cleanup_attempts       *)

Jobs ==
  [pc     : {"idle", "create", "made", "ask", "gone", "missing", "failed",
             "sweep"},
   task   : {"create", "expire", "retry", "delete"},
   box    : Box \cup {NoBox},                    (* the row it works on    *)
   name   : Name \cup {NoName},                  (* row.stalwart_name      *)
   due    : SUBSET Box,                          (* a sweep's expired rows *)
   failed : SUBSET (Box \X Nat)]                 (* and its failed cleanups,
                                                    with cleanup_attempts  *)

MailboxTypeOK ==
  /\ mailbox \in [Box -> Rows]
  /\ account \in [Name -> Box \cup {NoBox}]
  /\ job     \in [Job -> Jobs]
  /\ world   \in Worlds

NoRow(n) == [status |-> "none", name |-> n, life |-> "forever", cleanup |-> 0,
             attempts |-> 0]

(* The context where no call or sweep is under way.                        *)
Free == [pc |-> "idle", task |-> "create", box |-> NoBox, name |-> NoName,
         due |-> {}, failed |-> {}]

MailboxInit ==
  /\ mailbox = [m \in Box |-> NoRow(NoName)]
  /\ job = [p \in Job |-> Free]
  /\ account = [n \in Name |-> NoBox]
  /\ world \in Worlds

-----------------------------------------------------------------------------
Exists(m) == mailbox[m].status # "none"

(* isExpired of an active row, and the WHERE of getExpiredMailboxes.       *)
Due(m) == mailbox[m].status = "active" /\ mailbox[m].life = "past"

Cleanable(m) == mailbox[m].status = "expired" /\ mailbox[m].cleanup = 1

Goto(p, place) == job' = [job EXCEPT ![p].pc = place]

Ready(p) == p \in world.workers /\ job[p].pc = "idle"

(* An UPDATE of the row with this id, if it is still there.                *)
Update(m, changed) ==
  mailbox' = IF Exists(m) THEN [mailbox EXCEPT ![m] = changed] ELSE mailbox

(* An owner's call is over.                                                *)
End(c) == job' = [job EXCEPT ![c] = Free]

(* A sweep goes on to its next row.                                        *)
NextItem(s) ==
  job' = [job EXCEPT ![s] = [Free EXCEPT !.pc = "sweep", !.due = job[s].due,
                                         !.failed = job[s].failed]]

GoOn(p) == IF p \in Sweeper THEN NextItem(p) ELSE End(p)

(* deletePrincipal(row.stalwart_name) is called.                           *)
AskToDelete(p, task, m) ==
  job' = [job EXCEPT ![p] = [@ EXCEPT !.pc = "ask", !.task = task, !.box = m,
                                      !.name = mailbox[m].name]]

-----------------------------------------------------------------------------
(* Ids are random, so are generated names; a name can be asked for.        *)
Fresh(m) ==
  /\ m \in world.boxes /\ mailbox[m].name = NoName
  /\ \A p \in Job : job[p].box # m
  /\ \A n \in Name : account[n] # m

UnusedName(n) ==
  /\ \A m \in Box : mailbox[m].name # n
  /\ \A p \in Job : job[p].name # n

(* POST /v1/mailboxes, with a chosen or a generated name.                  *)
BeginCreate(c) ==
  /\ Ready(c)
  /\ \E n \in Name, m \in Box :
       /\ Fresh(m)
       /\ world.reuse \/ UnusedName(n)
       /\ job' = [job EXCEPT ![c].pc = "create", ![c].name = n, ![c].box = m]
  /\ UNCHANGED <<mailbox, account, world>>

(* External: createPrincipal, which a taken name or an error ends.         *)
CreateAccount(c) ==
  /\ job[c].pc = "create"
  /\ \/ /\ account[job[c].name] = NoBox
        /\ account' = [account EXCEPT ![job[c].name] = job[c].box]
        /\ Goto(c, "made") \/ (world.lossy /\ End(c))
     \/ End(c) /\ UNCHANGED account
  /\ UNCHANGED <<mailbox, world>>

(* finalizeMailbox, when the JMAP session is discovered or not: a row with *)
(* the same name makes the insertion fail, and the account stays.          *)
InsertMailbox(c) ==
  /\ job[c].pc = "made"
  /\ IF \E m \in Box : Exists(m) /\ mailbox[m].name = job[c].name
     THEN UNCHANGED mailbox
     ELSE \E life \in {"forever", "running"} :
            mailbox' = [mailbox EXCEPT ![job[c].box] =
                      [status |-> "active", name |-> job[c].name, life |-> life,
                       cleanup |-> 0, attempts |-> 0]]
  /\ End(c)
  /\ UNCHANGED <<account, world>>

(* The time of a mailbox is up.                                            *)
Lapse(m) ==
  /\ mailbox[m].status = "active" /\ mailbox[m].life = "running"
  /\ mailbox' = [mailbox EXCEPT ![m].life = "past"]
  /\ UNCHANGED <<account, job, world>>

-----------------------------------------------------------------------------
(* A call that reads, sends from or renews a mailbox finds that it is due: *)
(* lazyExpire.                                                             *)
LazyExpire(c) ==
  /\ Ready(c)
  /\ \E m \in Box : Due(m) /\ AskToDelete(c, "expire", m)
  /\ UNCHANGED <<mailbox, account, world>>

(* Broken: renewMailbox only looks at the status.                          *)
RenewLate(c) ==
  /\ Ready(c)
  /\ \E m \in Box, life \in {"forever", "running"} :
       /\ mailbox[m].status = "active"
       /\ mailbox' = [mailbox EXCEPT ![m].life = life]
  /\ End(c)
  /\ UNCHANGED <<account, world>>

(* renewMailbox of a mailbox that is not due.  There is no await between   *)
(* its check and the update but a lazyExpire with nothing to do.           *)
Renew(c) ==
  /\ Ready(c)
  /\ \E m \in Box, life \in {"forever", "running"} :
       /\ mailbox[m].status = "active" /\ mailbox[m].life # "past"
       /\ mailbox' = [mailbox EXCEPT ![m].life = life]
  /\ End(c)
  /\ UNCHANGED <<account, world>>

(* DELETE /v1/mailboxes/:id, of an active or an expired mailbox.           *)
BeginDelete(c) ==
  /\ Ready(c)
  /\ \E m \in Box : Exists(m) /\ AskToDelete(c, "delete", m)
  /\ UNCHANGED <<mailbox, account, world>>

(* External: deletePrincipal.                                              *)
DeleteAccount(p) ==
  /\ job[p].pc = "ask"
  /\ \/ /\ account[job[p].name] # NoBox
        /\ account' = [account EXCEPT ![job[p].name] = NoBox]
        /\ Goto(p, "gone") \/ (world.lossy /\ Goto(p, "failed"))
     \/ account[job[p].name] = NoBox /\ Goto(p, "missing") /\ UNCHANGED account
     \/ Goto(p, "failed") /\ UNCHANGED account
  /\ UNCHANGED <<mailbox, world>>

Answered(p, task) == job[p].pc \in {"gone", "missing", "failed"} /\ job[p].task = task

(* Broken: any error counts as success.                                    *)
MarkExpiredClean(p) ==
  /\ Answered(p, "expire")
  /\ LET m == job[p].box IN
     Update(m, [mailbox[m] EXCEPT !.status = "expired", !.cleanup = 0])
  /\ GoOn(p)
  /\ UNCHANGED <<account, world>>

(* Broken: an error leaves the mailbox active.                             *)
MarkExpiredOnSuccess(p) ==
  /\ Answered(p, "expire")
  /\ LET m == job[p].box IN
     IF job[p].pc = "failed" THEN UNCHANGED mailbox
     ELSE Update(m, [mailbox[m] EXCEPT !.status = "expired", !.cleanup = 0])
  /\ GoOn(p)
  /\ UNCHANGED <<account, world>>

(* The rest of expireMailbox: a 404 is as good as a success.               *)
MarkExpired(p) ==
  /\ Answered(p, "expire")
  /\ LET m == job[p].box IN
     Update(m, [mailbox[m] EXCEPT !.status = "expired",
                                  !.cleanup = IF job[p].pc = "failed" THEN 1 ELSE 0])
  /\ GoOn(p)
  /\ UNCHANGED <<account, world>>

(* Broken: the row goes although the server refused.                       *)
DeleteRowAlways(c) ==
  /\ Answered(c, "delete")
  /\ mailbox' = [mailbox EXCEPT ![job[c].box] = NoRow(@.name)]
  /\ End(c)
  /\ UNCHANGED <<account, world>>

(* The rest of deleteMailbox: every error, a 404 too, keeps the row.       *)
DeleteMailboxRow(c) ==
  /\ Answered(c, "delete")
  /\ mailbox' = IF job[c].pc = "gone"
                THEN [mailbox EXCEPT ![job[c].box] = NoRow(@.name)] ELSE mailbox
  /\ End(c)
  /\ UNCHANGED <<account, world>>

-----------------------------------------------------------------------------
(* As many of a set as LIMIT lets through, in no particular order.         *)
Limited(S) ==
  {T \in SUBSET S : Cardinality(T) = IF Cardinality(S) > Batch THEN Batch
                                     ELSE Cardinality(S)}

(* runExpirySweep starts, also while the one before is still at it: it     *)
(* reads both lists, whose rows it then works on one after the other.      *)
BeginSweep(s) ==
  /\ Ready(s)
  /\ \E m \in Box : Due(m) \/ Cleanable(m)
  /\ \E due \in Limited({m \in Box : Due(m)}),
        failed \in Limited({m \in Box : Cleanable(m)}) :
       job' = [job EXCEPT ![s].pc = "sweep", ![s].due = due,
                          ![s].failed = {<<m, mailbox[m].attempts>> : m \in failed}]
  /\ UNCHANGED <<mailbox, account, world>>

SweepExpired(s) ==
  /\ job[s].pc = "sweep"
  /\ \E m \in job[s].due :
       job' = [job EXCEPT ![s] = [job[s] EXCEPT !.pc = "ask", !.task = "expire", !.box = m,
                                    !.name = mailbox[m].name, !.due = @ \ {m}]]
  /\ UNCHANGED <<mailbox, account, world>>

GivesUp(attempts) == attempts + 1 >= MaxRetries

(* retryCleanup, up to its await: it counts the attempt in the row and     *)
(* looks at the count it has read before.                                  *)
SweepFailed(s) ==
  /\ job[s].pc = "sweep" /\ job[s].due = {}
  /\ \E item \in job[s].failed :
       LET m == item[1] IN
       /\ Update(m, [mailbox[m] EXCEPT !.attempts = @ + 1,
                                       !.cleanup = IF GivesUp(item[2]) THEN -1 ELSE @])
       /\ job' = [job EXCEPT ![s] =
                    IF GivesUp(item[2]) THEN [job[s] EXCEPT !.failed = @ \ {item}]
                    ELSE [job[s] EXCEPT !.pc = "ask", !.task = "retry", !.box = m,
                                        !.name = mailbox[m].name, !.failed = @ \ {item}]]
  /\ UNCHANGED <<account, world>>

(* The rest of retryCleanup.                                               *)
MarkCleanupDone(s) ==
  /\ Answered(s, "retry")
  /\ LET m == job[s].box IN
     IF job[s].pc = "failed" THEN UNCHANGED mailbox
     ELSE Update(m, [mailbox[m] EXCEPT !.cleanup = 0])
  /\ NextItem(s)
  /\ UNCHANGED <<account, world>>

EndSweep(s) ==
  /\ job[s].pc = "sweep" /\ job[s].due = {} /\ job[s].failed = {}
  /\ job' = [job EXCEPT ![s] = Free]
  /\ UNCHANGED <<mailbox, account, world>>

-----------------------------------------------------------------------------
(* The process dies with its calls and sweeps; rows and accounts stay.     *)
MailboxRestart ==
  /\ world.crashes
  /\ \E p \in Job : job[p].pc # "idle"
  /\ job' = [p \in Job |-> Free]
  /\ UNCHANGED <<mailbox, account, world>>

(* What the service does by itself, once a call has come in.               *)
MailboxStep(p) ==
  \/ p \in Call /\ (CreateAccount(p) \/ InsertMailbox(p) \/ DeleteMailboxRow(p))
  \/ DeleteAccount(p) \/ MarkExpired(p)
  \/ p \in Sweeper /\ (SweepExpired(p) \/ SweepFailed(p) \/ MarkCleanupDone(p)
                         \/ BeginSweep(p) \/ EndSweep(p))

MailboxNext ==
  \/ \E c \in Call : BeginCreate(c) \/ LazyExpire(c) \/ Renew(c) \/ BeginDelete(c)
  \/ \E m \in Box : Lapse(m)
  \/ \E p \in Job : MailboxStep(p)
  \/ MailboxRestart

MailboxSpec == MailboxInit /\ [][MailboxNext]_mailboxVars

(* The runtime goes on with every call, Stalwart answers or the request    *)
(* times out, and the interval of startExpirySweep comes round again.      *)
MailboxFairSpec == MailboxSpec /\ \A p \in Job : WF_mailboxVars(MailboxStep(p))
-----------------------------------------------------------------------------
(* A row that calls itself expired and cleaned up tells the truth: its own *)
(* account is gone, in whatever order lazy expiry, overlapping sweeps,     *)
(* retries and deletions finish (expiry.ts:26-65).                         *)
CleanMeansGone ==
  \A m \in Box : mailbox[m].status = "expired" /\ mailbox[m].cleanup = 0
                    => account[mailbox[m].name] # m

InFlight(m) ==
  \E p \in Job : job[p].box = m /\ job[p].pc \notin {"idle", "sweep"}

Reliable == ~ world.crashes /\ ~ world.lossy /\ ~ world.reuse

(* Nobody loses a mailbox that is not being expired or deleted: it has its *)
(* account, whatever the sweeps do to others (service.ts:186-437,          *)
(* expiry.ts:71-83).  A name that is used again breaks this, and so does a *)
(* deletion of which only the account's part is known to be done.          *)
UsableHasAccount ==
  Reliable => \A m \in Box :
    mailbox[m].status = "active" /\ ~ InFlight(m) => account[mailbox[m].name] = m

(* No account is forgotten on the server: once its calls are over, it has  *)
(* an active mailbox, or an expired one that records the failed cleanup    *)
(* (service.ts:314-388, expiry.ts:26-65).                                  *)
AccountsAreRecorded ==
  Reliable => \A n \in Name :
    account[n] # NoBox /\ ~ InFlight(account[n]) =>
      \/ mailbox[account[n]].status = "active"
      \/ Cleanable(account[n]) \/ mailbox[account[n]].cleanup = -1

(* Mailboxes and accounts match, as far as Stalwart can be relied on       *)
(* (service.ts:186-437, expiry.ts:26-83).                                  *)
AccountsMatch == UsableHasAccount /\ AccountsAreRecorded

(* A mailbox that has been due once is not renewed any more: no renewal    *)
(* overtakes an expiry that is under way (service.ts:622-652).             *)
NoRevival ==
  [][\A m \in Box : mailbox[m].life = "past" /\ mailbox'[m].status # "none"
       => mailbox'[m].life = "past"]_mailboxVars

(* Where sweeps run and the process stays up, a mailbox that is due gets   *)
(* expired, whether or not Stalwart answers (expiry.ts:71-83).             *)
DueGetsExpired ==
  world.workers \cap Sweeper # {} /\ ~ world.crashes =>
    \A m \in Box : Due(m) ~> ~ Due(m)

(* "Dual strategy: lazy checks on read + interval sweep as safety net"     *)
(* (expiry.ts:4): a mailbox that is due gets expired without being read.   *)
SafetyNet == \A m \in Box : Due(m) ~> ~ Due(m)
=============================================================================
