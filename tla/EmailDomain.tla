----------------------------- MODULE EmailDomain -----------------------------
(***************************************************************************)
(* One custom mail domain of email.sh (packages/email/src/service.ts): it  *)
(* is registered, verified against DNS and then provisioned on the         *)
(* Stalwart mail server, and deleted.  A registration is a SQLite row with *)
(* a new id, of which there is at most one for the domain (UNIQUE); what   *)
(* Stalwart knows is found by the domain's name.  verifyDomain awaits DNS  *)
(* and five requests to Stalwart, so verifications and deletions of one    *)
(* registration, and of the next, interleave at each of them.              *)
(***************************************************************************)
EXTENDS Integers

CONSTANTS DomainCall,    (* as many calls may be under way at once         *)
          LastId         (* bound: registrations of the domain             *)

ASSUME EmailDomainAssumption == LastId \in Nat

VARIABLES domain,        (* the domains row                                *)
          principal,     (* external: Stalwart has the domain              *)
          check,         (* the context of each verify or delete call      *)
          proven,        (* history: the ids whose DNS a call saw in order *)
          disturbed      (* history: two calls have overlapped, one was cut *)
                         (* off, or the answer to a deletion got lost      *)

emailDomainVars == <<domain, principal, check, proven, disturbed>>

NoId == 0

Checks ==
  [pc : {"idle", "dns", "provision", "dkim", "rollback", "records", "delete",
         "deleted"},
   id : 0..LastId]

EmailDomainTypeOK ==
  /\ domain    \in [id : 0..LastId, last : 0..LastId, active : BOOLEAN]
  /\ principal \in BOOLEAN
  /\ check     \in [DomainCall -> Checks]
  /\ proven    \subseteq 1..LastId
  /\ disturbed \in BOOLEAN

EmailDomainInit ==
  /\ domain = [id |-> NoId, last |-> 0, active |-> FALSE]
  /\ principal = FALSE
  /\ check = [c \in DomainCall |-> [pc |-> "idle", id |-> NoId]]
  /\ proven = {}
  /\ disturbed = FALSE

-----------------------------------------------------------------------------
GotoCheck(c, place) == check' = [check EXCEPT ![c].pc = place]

EndCheck(c) == check' = [check EXCEPT ![c] = [pc |-> "idle", id |-> NoId]]

(* A call of the owner's reads the row and goes to its first await.        *)
BeginCheck(c, place) ==
  /\ check[c].pc = "idle" /\ domain.id # NoId
  /\ check' = [check EXCEPT ![c] = [pc |-> place, id |-> domain.id]]
  /\ disturbed' = (disturbed \/ \E d \in DomainCall : check[d].pc # "idle")
  /\ UNCHANGED <<domain, principal, proven>>

(* registerDomain: a new id, unless there is a row.                        *)
RegisterDomain ==
  /\ domain.id = NoId /\ domain.last < LastId
  /\ domain' = [id |-> domain.last + 1, last |-> domain.last + 1, active |-> FALSE]
  /\ UNCHANGED <<principal, check, proven, disturbed>>

-----------------------------------------------------------------------------
BeginVerify(c) == ~ domain.active /\ BeginCheck(c, "dns")

(* The records in DNS are as required, or verifyDomain ends there.         *)
VerifyDns(c) ==
  /\ check[c].pc = "dns"
  /\ \/ GotoCheck(c, "provision") /\ proven' = proven \cup {check[c].id}
     \/ EndCheck(c) /\ UNCHANGED proven
  /\ UNCHANGED <<domain, principal, disturbed>>

(* External: createDomainPrincipal; a conflict is as good as a success.    *)
Provision(c) ==
  /\ check[c].pc = "provision"
  /\ \/ principal' = TRUE /\ GotoCheck(c, "dkim")
     \/ principal' \in {principal, TRUE} /\ EndCheck(c)
  /\ UNCHANGED <<domain, proven, disturbed>>

(* External: both keys are generated, or one is refused, or the connection *)
(* fails, which is thrown past the rollback.                               *)
GenerateDkim(c) ==
  /\ check[c].pc = "dkim"
  /\ \/ GotoCheck(c, "records") \/ GotoCheck(c, "rollback") \/ EndCheck(c)
  /\ UNCHANGED <<domain, principal, proven, disturbed>>

(* External: deleteDomainPrincipal, as best it can.                        *)
RollBack(c) ==
  /\ check[c].pc = "rollback"
  /\ principal' \in {principal, FALSE}
  /\ EndCheck(c)
  /\ UNCHANGED <<domain, proven, disturbed>>

(* Broken: the row is found by the domain's name.                          *)
ActivateByName(c) ==
  /\ check[c].pc = "records"
  /\ domain' = [domain EXCEPT !.active = @ \/ domain.id # NoId]
  /\ EndCheck(c)
  /\ UNCHANGED <<principal, proven, disturbed>>

(* The keys are fetched or not, and the row with this id, if it is still   *)
(* there, is activated; a failed connection is thrown.                     *)
Activate(c) ==
  /\ check[c].pc = "records"
  /\ \/ domain' = [domain EXCEPT !.active = @ \/ domain.id = check[c].id]
     \/ UNCHANGED domain
  /\ EndCheck(c)
  /\ UNCHANGED <<principal, proven, disturbed>>

-----------------------------------------------------------------------------
(* deleteDomain of a domain that was never provisioned has no await.       *)
DeletePending(c) ==
  /\ check[c].pc = "idle" /\ domain.id # NoId /\ ~ domain.active
  /\ domain' = [domain EXCEPT !.id = NoId]
  /\ UNCHANGED <<principal, check, proven, disturbed>>

BeginDomainDelete(c) == domain.active /\ BeginCheck(c, "delete")

(* External: deleteDomainPrincipal.  An error Stalwart names ends the call; *)
(* its not having the domain, and a failed connection, are as good as a    *)
(* success.                                                                *)
Unprovision(c) ==
  /\ check[c].pc = "delete"
  /\ \/ principal' \in {FALSE, principal} /\ GotoCheck(c, "deleted") /\ UNCHANGED disturbed
     \/ principal' = FALSE /\ EndCheck(c) /\ disturbed' = TRUE
     \/ EndCheck(c) /\ UNCHANGED <<principal, disturbed>>
  /\ UNCHANGED <<domain, proven>>

DeleteDomainRow(c) ==
  /\ check[c].pc = "deleted"
  /\ domain' = IF domain.id # check[c].id THEN domain
               ELSE [domain EXCEPT !.id = NoId, !.active = FALSE]
  /\ EndCheck(c)
  /\ UNCHANGED <<principal, proven, disturbed>>

-----------------------------------------------------------------------------
EmailDomainRestart ==
  /\ \E c \in DomainCall : check[c].pc # "idle"
  /\ check' = [c \in DomainCall |-> [pc |-> "idle", id |-> NoId]]
  /\ disturbed' = TRUE
  /\ UNCHANGED <<domain, principal, proven>>

EmailDomainNext ==
  \/ RegisterDomain
  \/ \E c \in DomainCall :
       \/ BeginVerify(c) \/ VerifyDns(c) \/ Provision(c) \/ GenerateDkim(c)
       \/ RollBack(c) \/ Activate(c)
       \/ DeletePending(c) \/ BeginDomainDelete(c) \/ Unprovision(c) \/ DeleteDomainRow(c)
  \/ EmailDomainRestart

EmailDomainSpec == EmailDomainInit /\ [][EmailDomainNext]_emailDomainVars
-----------------------------------------------------------------------------
(* A registration is active only if its own DNS check has passed: no late  *)
(* verification of a registration that was deleted meanwhile activates the *)
(* one that took its place (service.ts:928-1083).                          *)
ActiveIsProven == domain.active => domain.id \in proven

(* An active domain can receive mail: Stalwart knows it, unless it is just *)
(* being deleted, provided that no two calls overlapped, none was cut off, *)
(* and no answer was lost (service.ts:983-1083).                           *)
ActiveIsProvisioned ==
  domain.active /\ ~ disturbed =>
    principal \/ \E c \in DomainCall : check[c].pc = "deleted"

(* What the row says of an active domain is true of the DNS and of         *)
(* Stalwart (service.ts:928-1083).                                         *)
ActiveIsReal == ActiveIsProven /\ ActiveIsProvisioned
=============================================================================
