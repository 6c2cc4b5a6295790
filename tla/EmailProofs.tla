---------------------------- MODULE EmailProofs ----------------------------
(***************************************************************************)
(* Mailboxes, custom domains and webhooks, for any number of each and of   *)
(* calls, sweeps and deliveries.  The invariants follow what a call has in *)
(* hand: its copy of a row whose name never changes, the id whose DNS it   *)
(* has seen, the hook it delivers to.                                      *)
(*                                                                         *)
(* First what a row says of its account, whatever gets lost and however    *)
(* often the process dies: a call's copy of the name is the row's, and     *)
(* nobody gives the account back to a mailbox that once had it.            *)
(***************************************************************************)
EXTENDS MCEmail, TLAPS

Making   == {"create", "made"}
Deciding == {"ask", "gone", "missing", "failed"}

(* A row that exists has a name.                                           *)
NamedRows == \A m \in Box : Exists(m) => mailbox[m].name \in Name

(* What a call or sweep with the context j knows: a mailbox being made has *)
(* no row; whoever deletes an account has the row's id and name; what the  *)
(* server said of the account is still true of this mailbox; a sweep's     *)
(* lists are of rows.                                                      *)
Informed(j) ==
  /\ j.pc \in Making =>
       /\ j.box \in Box /\ j.name \in Name
       /\ mailbox[j.box].name = NoName
  /\ j.pc \in Deciding =>
       /\ j.box \in Box /\ j.name \in Name
       /\ mailbox[j.box].name = j.name
  /\ j.pc \in {"gone", "missing"} => account[j.name] # j.box
  /\ \A m \in j.due : mailbox[m].name \in Name
  /\ \A item \in j.failed : mailbox[item[1]].name \in Name

(* Nobody else works on a mailbox that is being made.                      *)
Unshared ==
  \A p, q \in Job : p # q /\ job[p].pc \in Making => job[q].box # job[p].box

MailboxInv ==
  /\ MailboxTypeOK /\ NamedRows /\ CleanMeansGone
  /\ \A p \in Job : Informed(job[p])
  /\ Unshared

(* Names stay with their rows, and no mailbox is given an account.         *)
Keeping ==
  /\ \A m \in Box : mailbox'[m].name = mailbox[m].name
  /\ \A n \in Name : account'[n] \in {account[n], NoBox}
-----------------------------------------------------------------------------
LEMMA FreeIsOK == Free \in Jobs /\ Informed(Free) /\ Informed(Free)'
BY DEF Free, Jobs, Informed, Making, Deciding

(* A step of p leaves what the other calls and sweeps know true.           *)
LEMMA OthersStayInformed ==
  ASSUME MailboxInv, NEW q \in Job, job'[q] = job[q], Keeping
  PROVE  Informed(job[q])'
<1>1. job[q] \in Jobs /\ Informed(job[q])
  BY DEF MailboxInv, MailboxTypeOK
<1>2. /\ job[q].due \subseteq Box
      /\ \A item \in job[q].failed : item[1] \in Box
  BY <1>1 DEF Jobs
<1>3. NoBox \notin Box
  BY MailboxAssumption DEF MailboxAssumption
<1>4. job[q].pc \in Making =>
        /\ job[q].box \in Box /\ job[q].name \in Name
        /\ mailbox'[job[q].box].name = NoName
  BY <1>1 DEF Informed, Keeping
<1>5. job[q].pc \in Deciding =>
        /\ job[q].box \in Box /\ job[q].name \in Name
        /\ mailbox'[job[q].box].name = job[q].name
  BY <1>1 DEF Informed, Keeping
<1>6. job[q].pc \in {"gone", "missing"} => account'[job[q].name] # job[q].box
  BY <1>1, <1>3, <1>5 DEF Informed, Keeping, Deciding
<1>7. \A m \in job[q].due : mailbox'[m].name \in Name
  BY <1>1, <1>2 DEF Informed, Keeping
<1>8. \A item \in job[q].failed : mailbox'[item[1]].name \in Name
  BY <1>1, <1>2 DEF Informed, Keeping
<1>9. QED
  BY <1>4, <1>5, <1>6, <1>7, <1>8 DEF Informed

(* So a step of p is in order if p's new context is.                       *)
LEMMA JobStep ==
  ASSUME MailboxInv, NEW p \in Job, Keeping,
         job' = [job EXCEPT ![p] = job'[p]], job'[p] \in Jobs, Informed(job[p])',
         \A q \in Job \ {p} : job[q].pc \in Making => job'[p].box # job[q].box,
         job'[p].pc \in Making => \A q \in Job \ {p} : job[q].box # job'[p].box
  PROVE  /\ job' \in [Job -> Jobs]
         /\ \A q \in Job : Informed(job[q])'
         /\ Unshared'
<1>1. job \in [Job -> Jobs]
  BY DEF MailboxInv, MailboxTypeOK
<1>2. job' \in [Job -> Jobs]
  BY <1>1
<1>3. \A q \in Job \ {p} : job'[q] = job[q]
  BY <1>1
<1>4. ASSUME NEW q \in Job PROVE Informed(job[q])'
  <2>1. CASE q = p
    BY <2>1
  <2>2. CASE q # p
    BY <1>3, <2>2, OthersStayInformed
  <2>3. QED
    BY <2>1, <2>2
<1>5. Unshared'
  BY <1>3 DEF MailboxInv, Unshared
<1>6. QED
  BY <1>2, <1>4, <1>5

(* A job that is over, or goes on to the next row, keeps to its lists.     *)
LEMMA Leaving ==
  ASSUME MailboxInv, NEW p \in Job, Keeping, GoOn(p) \/ End(p) \/ NextItem(p)
  PROVE  /\ job' \in [Job -> Jobs]
         /\ \A q \in Job : Informed(job[q])'
         /\ Unshared'
<1>1. job[p] \in Jobs /\ Informed(job[p]) /\ job \in [Job -> Jobs]
  BY DEF MailboxInv, MailboxTypeOK
<1>2. \A q \in Job : job[q].pc \in Making => job[q].box # NoBox
  BY MailboxAssumption DEF MailboxAssumption, MailboxInv, Informed
<1>3. CASE job' = [job EXCEPT ![p] = Free]
  <2>1. job'[p] = Free
    BY <1>1, <1>3
  <2>2. Informed(job[p])'
    BY <2>1 DEF Free, Informed, Making, Deciding
  <2>3. job'[p].pc \notin Making /\ job'[p].box = NoBox
    BY <2>1 DEF Free, Making
  <2>4. QED
    BY <1>2, <1>3, <2>1, <2>2, <2>3, FreeIsOK, JobStep
<1>4. CASE NextItem(p)
  <2> DEFINE rec == [Free EXCEPT !.pc = "sweep", !.due = job[p].due, !.failed = job[p].failed]
  <2>1. rec \in Jobs
    BY <1>1, FreeIsOK DEF Jobs, Free
  <2>2. job' = [job EXCEPT ![p] = rec]
    BY <1>4 DEF NextItem
  <2>3. rec.pc = "sweep" /\ rec.box = NoBox /\ rec.due = job[p].due /\ rec.failed = job[p].failed
    BY DEF Free
  <2> HIDE DEF rec
  <2>4. job'[p] = rec
    BY <1>1, <2>2
  <2>5. /\ job[p].due \subseteq Box
        /\ \A item \in job[p].failed : item[1] \in Box
    BY <1>1 DEF Jobs
  <2>6. Informed(job[p])'
    BY <1>1, <2>3, <2>4, <2>5 DEF Informed, Making, Deciding, Keeping
  <2>7. job'[p].pc \notin Making /\ job'[p].box = NoBox
    BY <2>3, <2>4 DEF Making
  <2>8. QED
    BY <1>2, <2>1, <2>2, <2>4, <2>6, <2>7, JobStep
<1>5. QED
  BY <1>3, <1>4 DEF GoOn, End

(* Asking for the deletion of a row's account.                             *)
LEMMA Asking ==
  ASSUME MailboxInv, NEW p \in Job, NEW task \in {"expire", "retry", "delete"},
         NEW m \in Box, mailbox[m].name \in Name, Keeping,
         job'[p] \in Jobs, job' = [job EXCEPT ![p] = job'[p]],
         job'[p].pc = "ask", job'[p].box = m, job'[p].name = mailbox[m].name,
         job'[p].due \subseteq job[p].due, job'[p].failed \subseteq job[p].failed
  PROVE  /\ job' \in [Job -> Jobs]
         /\ \A q \in Job : Informed(job[q])'
         /\ Unshared'
<1>1. job[p] \in Jobs /\ Informed(job[p])
  BY DEF MailboxInv, MailboxTypeOK
<1>2. /\ job[p].due \subseteq Box
      /\ \A item \in job[p].failed : item[1] \in Box
  BY <1>1 DEF Jobs
<1>3. Informed(job[p])'
  BY <1>1, <1>2 DEF Informed, Making, Deciding, Keeping
<1>4. \A q \in Job \ {p} : job[q].pc \in Making => job'[p].box # job[q].box
  BY MailboxAssumption DEF MailboxAssumption, MailboxInv, Informed
<1>5. QED
  BY <1>3, <1>4, JobStep DEF Making
-----------------------------------------------------------------------------
LEMMA InitInv == MailboxInit => MailboxInv
<1> SUFFICES ASSUME MailboxInit PROVE MailboxInv
  OBVIOUS
<1>1. MailboxTypeOK
  BY FreeIsOK, MailboxAssumption
  DEF MailboxInit, MailboxTypeOK, MailboxAssumption, NoRow, Rows
<1>2. NamedRows /\ CleanMeansGone
  BY DEF MailboxInit, NamedRows, CleanMeansGone, Exists, NoRow
<1>3. \A p \in Job : job[p] = Free
  BY DEF MailboxInit
<1>4. (\A p \in Job : Informed(job[p])) /\ Unshared
  BY <1>3 DEF Free, Informed, Unshared, Making, Deciding
<1>5. QED
  BY <1>1, <1>2, <1>4 DEF MailboxInv

(* When nothing but a row's other columns changes.                         *)
LEMMA RowChange ==
  ASSUME MailboxInv, NEW m \in Box, NEW r \in Rows,
         mailbox' = [mailbox EXCEPT ![m] = r], UNCHANGED <<account, world>>,
         r.name = mailbox[m].name, r.status # "none" => r.name \in Name,
         r.status = "expired" /\ r.cleanup = 0 => account[r.name] # m
  PROVE  /\ mailbox' \in [Box -> Rows] /\ account' \in [Name -> Box \cup {NoBox}]
         /\ world' \in Worlds
         /\ NamedRows' /\ CleanMeansGone' /\ Keeping
<1>1. mailbox \in [Box -> Rows]
  BY DEF MailboxInv, MailboxTypeOK
<1>2. mailbox'[m] = r /\ \A k \in Box \ {m} : mailbox'[k] = mailbox[k]
  BY <1>1
<1>3. NamedRows'
  BY <1>2 DEF MailboxInv, NamedRows, Exists
<1>4. CleanMeansGone'
  BY <1>2 DEF MailboxInv, CleanMeansGone
<1>5. Keeping
  BY <1>2 DEF Keeping
<1>6. QED
  BY <1>1, <1>3, <1>4, <1>5 DEF MailboxInv, MailboxTypeOK

LEMMA NoChange ==
  ASSUME MailboxInv, UNCHANGED <<mailbox, account, world>>
  PROVE  /\ mailbox' \in [Box -> Rows] /\ account' \in [Name -> Box \cup {NoBox}]
         /\ world' \in Worlds
         /\ NamedRows' /\ CleanMeansGone' /\ Keeping
BY DEF MailboxInv, MailboxTypeOK, NamedRows, CleanMeansGone, Keeping, Exists

LEMMA BeginCreateInv ==
  ASSUME MailboxInv, NEW c \in Call, BeginCreate(c)
  PROVE  MailboxInv'
<1>1. PICK n \in Name, m \in Box :
        /\ Fresh(m)
        /\ job' = [job EXCEPT ![c].pc = "create", ![c].name = n, ![c].box = m]
  BY DEF BeginCreate
<1>2. c \in Job /\ job[c] \in Jobs /\ Informed(job[c]) /\ job[c].pc = "idle"
  BY DEF MailboxInv, MailboxTypeOK, BeginCreate, Ready, Job
<1> DEFINE rec == [job[c] EXCEPT !.pc = "create", !.name = n, !.box = m]
<1>3. rec \in Jobs
  BY <1>2 DEF Jobs
<1>4. job' = [job EXCEPT ![c] = rec]
  BY <1>1, <1>2
<1>5. /\ rec.pc = "create" /\ rec.name = n /\ rec.box = m
      /\ rec.due = job[c].due /\ rec.failed = job[c].failed
  BY <1>2 DEF Jobs
<1> HIDE DEF rec
<1>6. job'[c] = rec
  BY <1>2, <1>4 DEF MailboxInv, MailboxTypeOK
<1>7. Informed(job[c])'
  BY <1>1, <1>2, <1>5, <1>6 DEF BeginCreate, Informed, Making, Deciding, Fresh
<1>8. \A q \in Job : job[q].box # m
  BY <1>1 DEF Fresh
<1>9. /\ mailbox' \in [Box -> Rows] /\ account' \in [Name -> Box \cup {NoBox}]
      /\ world' \in Worlds
      /\ NamedRows' /\ CleanMeansGone' /\ Keeping
  BY NoChange DEF BeginCreate
<1>10. /\ job' \in [Job -> Jobs] /\ (\A q \in Job : Informed(job[q])') /\ Unshared'
  BY <1>2, <1>3, <1>4, <1>5, <1>6, <1>7, <1>8, <1>9, JobStep
<1>11. QED
  BY <1>9, <1>10 DEF MailboxInv, MailboxTypeOK

(* The one step that gives an account away gives it to a mailbox that has  *)
(* no row yet.                                                             *)
LEMMA AccountMade ==
  ASSUME MailboxInv, NEW c \in Call, job[c].pc = "create",
         account' = [account EXCEPT ![job[c].name] = job[c].box],
         UNCHANGED <<mailbox, world>>, Goto(c, "made") \/ End(c)
  PROVE  MailboxInv'
<1>1. c \in Job /\ job[c] \in Jobs /\ Informed(job[c])
  BY DEF MailboxInv, MailboxTypeOK, Job
<1>2. job[c].box \in Box /\ job[c].name \in Name /\ mailbox[job[c].box].name = NoName
  BY <1>1 DEF Informed, Making
<1>3. account' \in [Name -> Box \cup {NoBox}] /\ mailbox' \in [Box -> Rows] /\ world' \in Worlds
  BY <1>2 DEF MailboxInv, MailboxTypeOK
<1>4. NamedRows'
  BY DEF MailboxInv, NamedRows, Exists
<1>5. CleanMeansGone'
  <2> SUFFICES ASSUME NEW m \in Box, mailbox[m].status = "expired", mailbox[m].cleanup = 0
               PROVE  account'[mailbox[m].name] # m
    BY DEF CleanMeansGone
  <2>1. mailbox[m].name \in Name /\ account[mailbox[m].name] # m
    BY DEF MailboxInv, NamedRows, Exists, CleanMeansGone
  <2>2. m # job[c].box
    BY <1>2, <2>1, MailboxAssumption DEF MailboxAssumption
  <2>3. QED
    BY <2>1, <2>2 DEF MailboxInv, MailboxTypeOK
<1> DEFINE rec == IF End(c) THEN Free ELSE [job[c] EXCEPT !.pc = "made"]
<1>6. rec \in Jobs /\ job' = [job EXCEPT ![c] = rec]
  BY <1>1, FreeIsOK DEF Jobs, Goto, End
<1>7. rec = Free \/ (/\ rec.pc = "made" /\ rec.box = job[c].box /\ rec.name = job[c].name
                     /\ rec.due = job[c].due /\ rec.failed = job[c].failed)
  BY <1>1 DEF Jobs
<1> HIDE DEF rec
<1>8. job' \in [Job -> Jobs] /\ job'[c] = rec /\ \A q \in Job \ {c} : job'[q] = job[q]
  BY <1>1, <1>6 DEF MailboxInv, MailboxTypeOK
<1>9. ASSUME NEW q \in Job PROVE Informed(job[q])'
  <2>1. Informed(job[q]) /\ job[q] \in Jobs
    BY DEF MailboxInv, MailboxTypeOK
  <2>2. CASE q # c
    <3>1. job[q].box # job[c].box
      BY <1>1, <2>2 DEF MailboxInv, Unshared, Making
    <3>2. job[q].pc \in {"gone", "missing"} => account'[job[q].name] # job[q].box
      BY <1>2, <2>1, <3>1 DEF Informed, Deciding, MailboxInv, MailboxTypeOK
    <3>3. job'[q] = job[q] /\ mailbox' = mailbox
      BY <1>8, <2>2
    <3>4. QED
      BY <2>1, <3>2, <3>3 DEF Informed
  <2>3. CASE q = c /\ rec = Free
    <3>1. job'[q] = Free
      BY <1>8, <2>3
    <3>2. QED
      BY <3>1 DEF Informed, Free, Making, Deciding
  <2>4. CASE q = c /\ rec # Free
    <3>1. job'[q] = rec /\ mailbox' = mailbox
      BY <1>8, <2>4
    <3>2. QED
      BY <1>1, <1>2, <1>7, <2>4, <3>1 DEF Informed, Making, Deciding
  <2>5. QED
    BY <2>2, <2>3, <2>4
<1>10. Unshared'
  <2>1. rec.box \in {job[c].box, NoBox} /\ (rec.pc \in Making => rec.box = job[c].box)
    BY <1>7 DEF Free, Making
  <2>2. \A q \in Job : job[q].pc \in Making => job[q].box # NoBox
    BY MailboxAssumption DEF MailboxAssumption, MailboxInv, Informed
  <2>3. \A q \in Job \ {c} : job[q].box # job[c].box
    BY <1>1 DEF MailboxInv, Unshared, Making
  <2>4. QED
    BY <1>1, <1>8, <2>1, <2>2, <2>3 DEF MailboxInv, Unshared
<1>11. QED
  BY <1>3, <1>4, <1>5, <1>8, <1>9, <1>10 DEF MailboxInv, MailboxTypeOK

LEMMA CreateAccountInv ==
  ASSUME MailboxInv, NEW c \in Call, CreateAccount(c)
  PROVE  MailboxInv'
<1>1. CASE UNCHANGED account /\ End(c)
  <2>1. c \in Job /\ UNCHANGED <<mailbox, account, world>>
    BY <1>1 DEF Job, CreateAccount
  <2>2. /\ mailbox' \in [Box -> Rows] /\ account' \in [Name -> Box \cup {NoBox}]
        /\ world' \in Worlds
        /\ NamedRows' /\ CleanMeansGone' /\ Keeping
    BY <2>1, NoChange
  <2>3. /\ job' \in [Job -> Jobs] /\ (\A q \in Job : Informed(job[q])') /\ Unshared'
    BY <1>1, <2>1, <2>2, Leaving
  <2>4. QED
    BY <2>2, <2>3 DEF MailboxInv, MailboxTypeOK
<1>2. CASE account' = [account EXCEPT ![job[c].name] = job[c].box] /\ (Goto(c, "made") \/ End(c))
  BY <1>2, AccountMade DEF CreateAccount
<1>3. QED
  BY <1>1, <1>2 DEF CreateAccount

LEMMA InsertMailboxInv ==
  ASSUME MailboxInv, NEW c \in Call, InsertMailbox(c)
  PROVE  MailboxInv'
<1>1. c \in Job /\ job[c] \in Jobs /\ Informed(job[c])
  BY DEF MailboxInv, MailboxTypeOK, Job
<1>2. job[c].box \in Box /\ job[c].name \in Name /\ mailbox[job[c].box].name = NoName
  BY <1>1 DEF Informed, Making, InsertMailbox
<1>3. CASE UNCHANGED mailbox
  <2>1. /\ mailbox' \in [Box -> Rows] /\ account' \in [Name -> Box \cup {NoBox}]
        /\ world' \in Worlds
        /\ NamedRows' /\ CleanMeansGone' /\ Keeping
    BY <1>3, NoChange DEF InsertMailbox
  <2>2. /\ job' \in [Job -> Jobs] /\ (\A q \in Job : Informed(job[q])') /\ Unshared'
    BY <1>1, <2>1, Leaving DEF InsertMailbox
  <2>3. QED
    BY <2>1, <2>2 DEF MailboxInv, MailboxTypeOK
<1>4. CASE ~ UNCHANGED mailbox
  <2>1. PICK life \in {"forever", "running"} :
          mailbox' = [mailbox EXCEPT ![job[c].box] =
             [status |-> "active", name |-> job[c].name, life |-> life,
              cleanup |-> 0, attempts |-> 0]]
    BY <1>4 DEF InsertMailbox
  <2> DEFINE r == [status |-> "active", name |-> job[c].name, life |-> life,
                   cleanup |-> 0, attempts |-> 0]
  <2>2. r \in Rows /\ r.status = "active" /\ r.name = job[c].name
    BY <1>2 DEF Rows
  <2>3. mailbox' = [mailbox EXCEPT ![job[c].box] = r]
    BY <2>1
  <2> HIDE DEF r
  <2>4. /\ mailbox' \in [Box -> Rows] /\ mailbox'[job[c].box] = r
        /\ \A m \in Box \ {job[c].box} : mailbox'[m] = mailbox[m]
    BY <1>2, <2>2, <2>3 DEF MailboxInv, MailboxTypeOK
  <2>5. NamedRows'
    BY <1>2, <2>2, <2>4 DEF MailboxInv, NamedRows, Exists
  <2>6. CleanMeansGone'
    BY <2>2, <2>4 DEF MailboxInv, CleanMeansGone, InsertMailbox
  <2>7. \A m \in Box : mailbox[m].name \in Name => mailbox'[m].name = mailbox[m].name
    BY <1>2, <2>4, MailboxAssumption DEF MailboxAssumption
  <2>8. job' = [job EXCEPT ![c] = Free] /\ account' = account /\ world' = world
    BY DEF InsertMailbox, End
  <2>9. job' \in [Job -> Jobs] /\ job'[c] = Free /\ \A q \in Job \ {c} : job'[q] = job[q]
    BY <1>1, <2>8, FreeIsOK DEF MailboxInv, MailboxTypeOK
  <2>10. ASSUME NEW q \in Job PROVE Informed(job[q])'
    <3>1. CASE q = c
      BY <2>9, <3>1 DEF Informed, Free, Making, Deciding
    <3>2. CASE q # c
      <4>1. /\ Informed(job[q]) /\ job[q] \in Jobs /\ job'[q] = job[q]
            /\ job[q].box # job[c].box
        BY <1>1, <2>9, <3>2 DEF MailboxInv, MailboxTypeOK, Unshared, InsertMailbox, Making
      <4>2. job[q].pc \in Making =>
              /\ job[q].box \in Box /\ job[q].name \in Name
              /\ mailbox'[job[q].box].name = NoName
        BY <2>4, <4>1 DEF Informed
      <4>3. job[q].pc \in Deciding =>
              /\ job[q].box \in Box /\ job[q].name \in Name
              /\ mailbox'[job[q].box].name = job[q].name
        BY <2>4, <4>1 DEF Informed
      <4>4. \A m \in job[q].due : mailbox'[m].name \in Name
        BY <2>7, <4>1 DEF Informed, Jobs
      <4>5. \A item \in job[q].failed : mailbox'[item[1]].name \in Name
        <5>1. \A item \in job[q].failed : item[1] \in Box
          BY <4>1 DEF Jobs
        <5>2. QED
          BY <2>7, <4>1, <5>1 DEF Informed
      <4>6. QED
        BY <2>8, <4>1, <4>2, <4>3, <4>4, <4>5 DEF Informed
    <3>3. QED
      BY <3>1, <3>2
  <2>11. Unshared'
    <3>1. Free.box = NoBox /\ Free.pc \notin Making
      BY DEF Free, Making
    <3>2. \A q \in Job : job[q].pc \in Making => job[q].box # NoBox
      BY MailboxAssumption DEF MailboxAssumption, MailboxInv, Informed
    <3>3. QED
      BY <2>9, <3>1, <3>2 DEF MailboxInv, Unshared
  <2>12. QED
    BY <2>4, <2>5, <2>6, <2>8, <2>9, <2>10, <2>11 DEF MailboxInv, MailboxTypeOK
<1>5. QED
  BY <1>3, <1>4

LEMMA LapseInv ==
  ASSUME MailboxInv, NEW m \in Box, Lapse(m)
  PROVE  MailboxInv'
<1> DEFINE r == [mailbox[m] EXCEPT !.life = "past"]
<1>1. mailbox[m] \in Rows
  BY DEF MailboxInv, MailboxTypeOK
<1>2. r \in Rows /\ r.name = mailbox[m].name /\ r.status = "active"
  BY <1>1 DEF Rows, Lapse
<1>3. mailbox' = [mailbox EXCEPT ![m] = r] /\ UNCHANGED <<account, job, world>>
  BY DEF Lapse
<1> HIDE DEF r
<1>4. mailbox[m].name \in Name
  BY DEF MailboxInv, NamedRows, Exists, Lapse
<1>5. /\ mailbox' \in [Box -> Rows] /\ account' \in [Name -> Box \cup {NoBox}]
      /\ world' \in Worlds
      /\ NamedRows' /\ CleanMeansGone' /\ Keeping
  BY <1>2, <1>3, <1>4, RowChange
<1>6. \A q \in Job : Informed(job[q])'
  BY <1>3, <1>5, OthersStayInformed
<1>7. QED
  BY <1>3, <1>5, <1>6 DEF MailboxInv, MailboxTypeOK, Unshared

LEMMA RenewInv ==
  ASSUME MailboxInv, NEW c \in Call, Renew(c)
  PROVE  MailboxInv'
<1>1. PICK m \in Box, life \in {"forever", "running"} :
        /\ mailbox[m].status = "active"
        /\ mailbox' = [mailbox EXCEPT ![m].life = life]
  BY DEF Renew
<1> DEFINE r == [mailbox[m] EXCEPT !.life = life]
<1>2. mailbox[m] \in Rows
  BY DEF MailboxInv, MailboxTypeOK
<1>3. r \in Rows /\ r.name = mailbox[m].name /\ r.status = "active"
  BY <1>1, <1>2 DEF Rows
<1>4. mailbox' = [mailbox EXCEPT ![m] = r] /\ UNCHANGED <<account, world>> /\ End(c)
  BY <1>1 DEF Renew
<1> HIDE DEF r
<1>5. mailbox[m].name \in Name
  BY <1>1 DEF MailboxInv, NamedRows, Exists
<1>6. /\ mailbox' \in [Box -> Rows] /\ account' \in [Name -> Box \cup {NoBox}]
      /\ world' \in Worlds
      /\ NamedRows' /\ CleanMeansGone' /\ Keeping
  BY <1>3, <1>4, <1>5, RowChange
<1>7. /\ job' \in [Job -> Jobs] /\ (\A q \in Job : Informed(job[q])') /\ Unshared'
  BY <1>4, <1>6, Leaving DEF Job
<1>8. QED
  BY <1>6, <1>7 DEF MailboxInv, MailboxTypeOK

LEMMA AskToDeleteInv ==
  ASSUME MailboxInv, NEW p \in Job, NEW task \in {"expire", "delete"},
         NEW m \in Box, Exists(m), AskToDelete(p, task, m),
         UNCHANGED <<mailbox, account, world>>
  PROVE  MailboxInv'
<1>1. job[p] \in Jobs /\ job \in [Job -> Jobs] /\ mailbox[m] \in Rows
  BY DEF MailboxInv, MailboxTypeOK
<1> DEFINE rec == [job[p] EXCEPT !.pc = "ask", !.task = task, !.box = m,
                                 !.name = mailbox[m].name]
<1>2. rec \in Jobs
  BY <1>1 DEF Jobs, Rows
<1>3. /\ rec.pc = "ask" /\ rec.box = m /\ rec.name = mailbox[m].name
      /\ rec.due = job[p].due /\ rec.failed = job[p].failed
  BY <1>1 DEF Jobs
<1>4. job' = [job EXCEPT ![p] = rec]
  BY DEF AskToDelete
<1> HIDE DEF rec
<1>5. job'[p] = rec
  BY <1>1, <1>4
<1>6. /\ mailbox' \in [Box -> Rows] /\ account' \in [Name -> Box \cup {NoBox}]
      /\ world' \in Worlds
      /\ NamedRows' /\ CleanMeansGone' /\ Keeping
  BY NoChange
<1>7. mailbox[m].name \in Name
  BY DEF MailboxInv, NamedRows
<1>8. /\ job' \in [Job -> Jobs] /\ (\A q \in Job : Informed(job[q])') /\ Unshared'
  BY <1>2, <1>3, <1>4, <1>5, <1>6, <1>7, Asking
<1>9. QED
  BY <1>6, <1>8 DEF MailboxInv, MailboxTypeOK

LEMMA LazyExpireInv ==
  ASSUME MailboxInv, NEW c \in Call, LazyExpire(c) \/ BeginDelete(c)
  PROVE  MailboxInv'
<1>1. CASE LazyExpire(c)
  BY <1>1, AskToDeleteInv DEF LazyExpire, Due, Exists, Job
<1>2. CASE BeginDelete(c)
  BY <1>2, AskToDeleteInv DEF BeginDelete, Job
<1>3. QED
  BY <1>1, <1>2

LEMMA DeleteAccountInv ==
  ASSUME MailboxInv, NEW p \in Job, DeleteAccount(p)
  PROVE  MailboxInv'
<1>1. job[p] \in Jobs /\ job \in [Job -> Jobs] /\ Informed(job[p]) /\ job[p].pc = "ask"
  BY DEF MailboxInv, MailboxTypeOK, DeleteAccount
<1>2. job[p].box \in Box /\ job[p].name \in Name /\ mailbox[job[p].box].name = job[p].name
  BY <1>1 DEF Informed, Deciding
<1>3. PICK pc \in {"gone", "missing", "failed"} :
        /\ Goto(p, pc)
        /\ pc # "failed" => account'[job[p].name] = NoBox
        /\ account' \in {account, [account EXCEPT ![job[p].name] = NoBox]}
  BY <1>2 DEF DeleteAccount, MailboxInv, MailboxTypeOK
<1> DEFINE rec == [job[p] EXCEPT !.pc = pc]
<1>4. rec \in Jobs
  BY <1>1 DEF Jobs
<1>5. /\ rec.pc = pc /\ rec.box = job[p].box /\ rec.name = job[p].name
      /\ rec.due = job[p].due /\ rec.failed = job[p].failed
  BY <1>1 DEF Jobs
<1>6. job' = [job EXCEPT ![p] = rec]
  BY <1>3 DEF Goto
<1> HIDE DEF rec
<1>7. job'[p] = rec /\ mailbox' = mailbox /\ world' = world
  BY <1>1, <1>6 DEF DeleteAccount
<1>8. Keeping /\ account' \in [Name -> Box \cup {NoBox}]
  BY <1>3, <1>7 DEF Keeping, MailboxInv, MailboxTypeOK
<1>9. NamedRows'
  BY <1>7 DEF MailboxInv, NamedRows, Exists
<1>10. CleanMeansGone'
  <2> SUFFICES ASSUME NEW m \in Box, mailbox[m].status = "expired", mailbox[m].cleanup = 0
               PROVE  account'[mailbox[m].name] # m
    BY <1>7 DEF CleanMeansGone
  <2>1. mailbox[m].name \in Name /\ account[mailbox[m].name] # m
    BY DEF MailboxInv, NamedRows, Exists, CleanMeansGone
  <2>2. QED
    BY <1>8, <2>1, MailboxAssumption DEF Keeping, MailboxAssumption
<1>11. Informed(job[p])'
  BY <1>1, <1>2, <1>3, <1>5, <1>7, MailboxAssumption
  DEF Informed, Making, Deciding, MailboxAssumption
<1>12. \A q \in Job \ {p} : job[q].pc \in Making => job'[p].box # job[q].box
  BY <1>5, <1>7 DEF MailboxInv, Unshared
<1>13. /\ job' \in [Job -> Jobs] /\ (\A q \in Job : Informed(job[q])') /\ Unshared'
  BY <1>4, <1>5, <1>6, <1>7, <1>8, <1>11, <1>12, JobStep DEF Making
<1>14. QED
  BY <1>7, <1>8, <1>9, <1>10, <1>13 DEF MailboxInv, MailboxTypeOK

(* The answer is written to the row: whoever calls the account gone has    *)
(* seen it gone.                                                           *)
LEMMA MarkInv ==
  ASSUME MailboxInv, NEW p \in Job, MarkExpired(p) \/ MarkCleanupDone(p)
  PROVE  MailboxInv'
<1> DEFINE m == job[p].box
<1>1. /\ job[p].pc \in {"gone", "missing", "failed"} /\ UNCHANGED <<account, world>>
      /\ GoOn(p) \/ NextItem(p)
  BY DEF MarkExpired, MarkCleanupDone, Answered
<1>2. m \in Box /\ mailbox[m].name = job[p].name /\ mailbox[m] \in Rows
  BY <1>1 DEF MailboxInv, MailboxTypeOK, Informed, Deciding
<1>3. job[p].pc # "failed" => account[mailbox[m].name] # m
  BY <1>1, <1>2 DEF MailboxInv, Informed
<1>4. CASE UNCHANGED mailbox
  BY <1>1, <1>4, NoChange, Leaving DEF MailboxInv, MailboxTypeOK
<1>5. CASE ~ UNCHANGED mailbox
  <2>1. Exists(m)
    BY <1>5 DEF MarkExpired, MarkCleanupDone, Update
  <2>2. PICK cleanup \in {0, 1}, status \in {"expired", mailbox[m].status} :
          /\ mailbox' = [mailbox EXCEPT ![m] = [mailbox[m] EXCEPT !.status = status,
                                                                 !.cleanup = cleanup]]
          /\ job[p].pc = "failed" => cleanup = 1
    <3>1. CASE MarkExpired(p)
      BY <2>1, <3>1 DEF MarkExpired, Update
    <3>2. CASE MarkCleanupDone(p)
      <4>1. mailbox' = [mailbox EXCEPT ![m] = [mailbox[m] EXCEPT !.cleanup = 0]] /\ job[p].pc # "failed"
        BY <1>5, <2>1, <3>2 DEF MarkCleanupDone, Update
      <4>2. [mailbox[m] EXCEPT !.cleanup = 0]
              = [mailbox[m] EXCEPT !.status = mailbox[m].status, !.cleanup = 0]
        BY <1>2 DEF Rows
      <4>3. QED
        BY <4>1, <4>2
    <3>3. QED
      BY <3>1, <3>2
  <2> DEFINE r == [mailbox[m] EXCEPT !.status = status, !.cleanup = cleanup]
  <2>3. r \in Rows /\ r.name = mailbox[m].name /\ r.cleanup = cleanup
    BY <1>2 DEF Rows
  <2>4. mailbox' = [mailbox EXCEPT ![m] = r]
    BY <2>2
  <2> HIDE DEF r
  <2>5. mailbox[m].name \in Name
    BY <1>2, <2>1 DEF MailboxInv, NamedRows
  <2>6. /\ mailbox' \in [Box -> Rows] /\ account' \in [Name -> Box \cup {NoBox}]
        /\ world' \in Worlds
        /\ NamedRows' /\ CleanMeansGone' /\ Keeping
    <3>1. r.cleanup = 0 => account[r.name] # m
      BY <1>3, <2>2, <2>3
    <3>2. QED
      BY <1>1, <1>2, <2>3, <2>4, <2>5, <3>1, RowChange
  <2>7. /\ job' \in [Job -> Jobs] /\ (\A q \in Job : Informed(job[q])') /\ Unshared'
    BY <1>1, <2>6, Leaving
  <2>8. QED
    BY <2>6, <2>7 DEF MailboxInv, MailboxTypeOK
<1>6. QED
  BY <1>4, <1>5

LEMMA DeleteMailboxRowInv ==
  ASSUME MailboxInv, NEW c \in Call, DeleteMailboxRow(c)
  PROVE  MailboxInv'
<1> DEFINE m == job[c].box
<1>1. /\ c \in Job /\ job[c].pc \in Deciding /\ End(c) /\ UNCHANGED <<account, world>>
  BY DEF DeleteMailboxRow, Answered, Job, Deciding
<1>2. m \in Box /\ mailbox[m] \in Rows
  BY <1>1 DEF MailboxInv, MailboxTypeOK, Informed
<1>3. CASE UNCHANGED mailbox
  BY <1>1, <1>3, NoChange, Leaving DEF MailboxInv, MailboxTypeOK
<1>4. CASE ~ UNCHANGED mailbox
  <2> DEFINE r == NoRow(mailbox[m].name)
  <2>1. r \in Rows /\ r.name = mailbox[m].name /\ r.status = "none"
    BY <1>2 DEF NoRow, Rows
  <2>2. mailbox' = [mailbox EXCEPT ![m] = r]
    BY <1>4 DEF DeleteMailboxRow
  <2> HIDE DEF r
  <2>3. /\ mailbox' \in [Box -> Rows] /\ account' \in [Name -> Box \cup {NoBox}]
        /\ world' \in Worlds
        /\ NamedRows' /\ CleanMeansGone' /\ Keeping
    BY <1>1, <1>2, <2>1, <2>2, RowChange
  <2>4. /\ job' \in [Job -> Jobs] /\ (\A q \in Job : Informed(job[q])') /\ Unshared'
    BY <1>1, <2>3, Leaving
  <2>5. QED
    BY <2>3, <2>4 DEF MailboxInv, MailboxTypeOK
<1>5. QED
  BY <1>3, <1>4

LEMMA BeginSweepInv ==
  ASSUME MailboxInv, NEW s \in Sweeper, BeginSweep(s)
  PROVE  MailboxInv'
<1>1. /\ s \in Job /\ job \in [Job -> Jobs] /\ job[s] \in Jobs /\ job[s].pc = "idle"
      /\ \A m \in Box : mailbox[m].attempts \in Nat
  BY DEF MailboxInv, MailboxTypeOK, BeginSweep, Ready, Job, Rows
<1>2. PICK due \in SUBSET {m \in Box : Due(m)},
           items \in SUBSET {m \in Box : Cleanable(m)} :
        job' = [job EXCEPT ![s].pc = "sweep", ![s].due = due,
                           ![s].failed = {<<m, mailbox[m].attempts>> : m \in items}]
  BY DEF BeginSweep, Limited
<1> DEFINE lost == {<<m, mailbox[m].attempts>> : m \in items}
           rec  == [job[s] EXCEPT !.pc = "sweep", !.due = due, !.failed = lost]
<1>3. lost \subseteq Box \X Nat /\ \A item \in lost : item[1] \in items
  BY <1>1
<1> HIDE DEF lost
<1>4. rec \in Jobs
  BY <1>1, <1>3 DEF Jobs
<1>5. rec.pc = "sweep" /\ rec.box = job[s].box /\ rec.due = due /\ rec.failed = lost
  BY <1>1 DEF Jobs
<1>6. job' = [job EXCEPT ![s] = rec]
  BY <1>1, <1>2 DEF lost
<1> HIDE DEF rec
<1>7. job'[s] = rec
  BY <1>1, <1>6
<1>8. /\ mailbox' \in [Box -> Rows] /\ account' \in [Name -> Box \cup {NoBox}]
      /\ world' \in Worlds
      /\ NamedRows' /\ CleanMeansGone' /\ Keeping
  BY NoChange DEF BeginSweep
<1>9. (\A m \in due : mailbox[m].name \in Name) /\ (\A m \in items : mailbox[m].name \in Name)
  BY DEF MailboxInv, NamedRows, Exists, Due, Cleanable
<1>10. Informed(job[s])'
  <2>1. (\A m \in due : mailbox'[m].name \in Name) /\ (\A m \in items : mailbox'[m].name \in Name)
    BY <1>8, <1>9 DEF Keeping
  <2>2. \A item \in lost : mailbox'[item[1]].name \in Name
    BY <1>3, <2>1
  <2>3. QED
    BY <1>5, <1>7, <2>1, <2>2 DEF Informed, Making, Deciding
<1>11. \A q \in Job \ {s} : job[q].pc \in Making => job'[s].box # job[q].box
  BY <1>1, <1>5, <1>7 DEF MailboxInv, Unshared
<1>12. /\ job' \in [Job -> Jobs] /\ (\A q \in Job : Informed(job[q])') /\ Unshared'
  BY <1>1, <1>4, <1>5, <1>6, <1>7, <1>8, <1>10, <1>11, JobStep DEF Making
<1>13. QED
  BY <1>8, <1>12 DEF MailboxInv, MailboxTypeOK

LEMMA SweepExpiredInv ==
  ASSUME MailboxInv, NEW s \in Sweeper, SweepExpired(s)
  PROVE  MailboxInv'
<1>1. /\ s \in Job /\ job \in [Job -> Jobs] /\ job[s] \in Jobs /\ Informed(job[s])
  BY DEF MailboxInv, MailboxTypeOK, Job
<1>2. PICK m \in job[s].due :
        job' = [job EXCEPT ![s] = [job[s] EXCEPT !.pc = "ask", !.task = "expire", !.box = m,
                                     !.name = mailbox[m].name, !.due = @ \ {m}]]
  BY DEF SweepExpired
<1>3. m \in Box /\ mailbox[m].name \in Name
  BY <1>1 DEF Jobs, Informed
<1> DEFINE rec == [job[s] EXCEPT !.pc = "ask", !.task = "expire", !.box = m,
                                 !.name = mailbox[m].name, !.due = @ \ {m}]
<1>4. rec \in Jobs
  BY <1>1, <1>3 DEF Jobs
<1>5. /\ rec.pc = "ask" /\ rec.box = m /\ rec.name = mailbox[m].name
      /\ rec.due \subseteq job[s].due /\ rec.failed \subseteq job[s].failed
  BY <1>1 DEF Jobs
<1>6. job' = [job EXCEPT ![s] = rec]
  BY <1>2
<1> HIDE DEF rec
<1>7. job'[s] = rec
  BY <1>1, <1>6
<1>8. /\ mailbox' \in [Box -> Rows] /\ account' \in [Name -> Box \cup {NoBox}]
      /\ world' \in Worlds
      /\ NamedRows' /\ CleanMeansGone' /\ Keeping
  BY NoChange DEF SweepExpired
<1>9. /\ job' \in [Job -> Jobs] /\ (\A q \in Job : Informed(job[q])') /\ Unshared'
  BY <1>1, <1>3, <1>4, <1>5, <1>6, <1>7, <1>8, Asking
<1>10. QED
  BY <1>8, <1>9 DEF MailboxInv, MailboxTypeOK

LEMMA SweepFailedInv ==
  ASSUME MailboxInv, NEW s \in Sweeper, SweepFailed(s)
  PROVE  MailboxInv'
<1>1. /\ s \in Job /\ job \in [Job -> Jobs] /\ job[s] \in Jobs /\ Informed(job[s])
      /\ job[s].pc = "sweep" /\ UNCHANGED <<account, world>>
  BY DEF MailboxInv, MailboxTypeOK, Job, SweepFailed
<1>2. PICK item \in job[s].failed :
        /\ Update(item[1], [mailbox[item[1]] EXCEPT !.attempts = @ + 1,
                              !.cleanup = IF GivesUp(item[2]) THEN -1 ELSE @])
        /\ GivesUp(item[2]) =>
             job' = [job EXCEPT ![s] = [job[s] EXCEPT !.failed = @ \ {item}]]
        /\ ~ GivesUp(item[2]) =>
             job' = [job EXCEPT ![s] = [job[s] EXCEPT !.pc = "ask", !.task = "retry",
                       !.box = item[1], !.name = mailbox[item[1]].name,
                       !.failed = @ \ {item}]]
  BY DEF SweepFailed
<1> DEFINE m == item[1]
           clean == IF GivesUp(item[2]) THEN -1 ELSE mailbox[m].cleanup
           tried == mailbox[m].attempts + 1
           r == [mailbox[m] EXCEPT !.attempts = tried, !.cleanup = clean]
<1>3. m \in Box /\ mailbox[m].name \in Name /\ mailbox[m] \in Rows
  BY <1>1 DEF Jobs, Informed, MailboxInv, MailboxTypeOK
<1>4. /\ mailbox' \in [Box -> Rows] /\ account' \in [Name -> Box \cup {NoBox}]
      /\ world' \in Worlds
      /\ NamedRows' /\ CleanMeansGone' /\ Keeping
  <2>1. CASE ~ Exists(m)
    BY <1>1, <1>2, <2>1, NoChange DEF Update
  <2>2. CASE Exists(m)
    <3>1. mailbox' = [mailbox EXCEPT ![m] = r]
      BY <1>2, <2>2 DEF Update
    <3>2. tried \in Nat /\ clean \in {0, 1, -1} /\ clean \in {-1, mailbox[m].cleanup}
      BY <1>3 DEF Rows
    <3> HIDE DEF tried, clean
    <3>3. /\ r \in Rows /\ r.name = mailbox[m].name /\ r.status = mailbox[m].status
          /\ r.cleanup = clean
      BY <1>3, <3>2 DEF Rows
    <3> HIDE DEF r
    <3>4. r.status = "expired" /\ r.cleanup = 0 => account[r.name] # m
      <4>1. mailbox[m].status = "expired" /\ mailbox[m].cleanup = 0
              => account[mailbox[m].name] # m
        BY <1>3 DEF MailboxInv, CleanMeansGone
      <4>2. clean = 0 => mailbox[m].cleanup = 0
        BY <3>2
      <4>3. QED
        BY <3>3, <4>1, <4>2
    <3>5. QED
      BY <1>1, <1>3, <3>1, <3>3, <3>4, RowChange
  <2>3. QED
    BY <2>1, <2>2
<1>5. CASE GivesUp(item[2])
  <2> DEFINE rec == [job[s] EXCEPT !.failed = @ \ {item}]
  <2>1. rec \in Jobs
    BY <1>1 DEF Jobs
  <2>2. /\ rec.pc = "sweep" /\ rec.box = job[s].box
        /\ rec.due = job[s].due /\ rec.failed \subseteq job[s].failed
    BY <1>1 DEF Jobs
  <2>3. job' = [job EXCEPT ![s] = rec]
    BY <1>2, <1>5
  <2> HIDE DEF rec
  <2>4. job'[s] = rec
    BY <1>1, <2>3
  <2>5. job[s].due \subseteq Box /\ \A i \in job[s].failed : i[1] \in Box
    BY <1>1 DEF Jobs
  <2>6. Informed(job[s])'
    BY <1>1, <1>4, <2>2, <2>4, <2>5 DEF Informed, Making, Deciding, Keeping
  <2>7. \A q \in Job \ {s} : job[q].pc \in Making => job'[s].box # job[q].box
    BY <1>1, <2>2, <2>4 DEF MailboxInv, Unshared
  <2>8. /\ job' \in [Job -> Jobs] /\ (\A q \in Job : Informed(job[q])') /\ Unshared'
    BY <1>1, <1>4, <2>1, <2>2, <2>3, <2>4, <2>6, <2>7, JobStep DEF Making
  <2>9. QED
    BY <1>4, <2>8 DEF MailboxInv, MailboxTypeOK
<1>6. CASE ~ GivesUp(item[2])
  <2> DEFINE rec == [job[s] EXCEPT !.pc = "ask", !.task = "retry", !.box = m,
                                   !.name = mailbox[m].name, !.failed = @ \ {item}]
  <2>1. rec \in Jobs
    BY <1>1, <1>3 DEF Jobs
  <2>2. /\ rec.pc = "ask" /\ rec.box = m /\ rec.name = mailbox[m].name
        /\ rec.due \subseteq job[s].due /\ rec.failed \subseteq job[s].failed
    BY <1>1 DEF Jobs
  <2>3. job' = [job EXCEPT ![s] = rec]
    BY <1>2, <1>6
  <2> HIDE DEF rec
  <2>4. job'[s] = rec
    BY <1>1, <2>3
  <2>5. /\ job' \in [Job -> Jobs] /\ (\A q \in Job : Informed(job[q])') /\ Unshared'
    BY <1>1, <1>3, <1>4, <2>1, <2>2, <2>3, <2>4, Asking
  <2>6. QED
    BY <1>4, <2>5 DEF MailboxInv, MailboxTypeOK
<1>7. QED
  BY <1>5, <1>6

LEMMA EndSweepInv ==
  ASSUME MailboxInv, NEW s \in Sweeper, EndSweep(s)
  PROVE  MailboxInv'
BY NoChange, Leaving DEF EndSweep, End, Job, MailboxInv, MailboxTypeOK

LEMMA RestartInv ==
  ASSUME MailboxInv, MailboxRestart
  PROVE  MailboxInv'
<1>1. /\ mailbox' \in [Box -> Rows] /\ account' \in [Name -> Box \cup {NoBox}]
      /\ world' \in Worlds
      /\ NamedRows' /\ CleanMeansGone' /\ Keeping
  BY NoChange DEF MailboxRestart
<1>2. job' \in [Job -> Jobs] /\ \A q \in Job : job'[q] = Free
  BY FreeIsOK DEF MailboxRestart
<1>3. (\A q \in Job : Informed(job[q])') /\ Unshared'
  BY <1>2 DEF Informed, Unshared, Free, Making, Deciding
<1>4. QED
  BY <1>1, <1>2, <1>3 DEF MailboxInv, MailboxTypeOK

-----------------------------------------------------------------------------
(* Every step of a call, a sweep, the clock or the machine keeps the       *)
(* invariant.                                                              *)
LEMMA MailboxStepInv == MailboxInv /\ [MailboxNext]_mailboxVars => MailboxInv'
<1> SUFFICES ASSUME MailboxInv, [MailboxNext]_mailboxVars PROVE MailboxInv'
  OBVIOUS
<1>1. ASSUME NEW c \in Call, BeginCreate(c) \/ LazyExpire(c) \/ Renew(c) \/ BeginDelete(c)
      PROVE  MailboxInv'
  BY <1>1, BeginCreateInv, LazyExpireInv, RenewInv
<1>2. ASSUME NEW m \in Box, Lapse(m) PROVE MailboxInv'
  BY <1>2, LapseInv
<1>3. ASSUME NEW p \in Job, MailboxStep(p) PROVE MailboxInv'
  <2>1. CASE p \in Call /\ (CreateAccount(p) \/ InsertMailbox(p) \/ DeleteMailboxRow(p))
    BY <2>1, CreateAccountInv, InsertMailboxInv, DeleteMailboxRowInv
  <2>2. CASE DeleteAccount(p) \/ MarkExpired(p)
    BY <2>2, DeleteAccountInv, MarkInv
  <2>3. CASE p \in Sweeper /\ (SweepExpired(p) \/ SweepFailed(p) \/ MarkCleanupDone(p))
    BY <2>3, SweepExpiredInv, SweepFailedInv, MarkInv
  <2>4. CASE p \in Sweeper /\ (BeginSweep(p) \/ EndSweep(p))
    BY <2>4, BeginSweepInv, EndSweepInv
  <2>5. QED
    BY <1>3, <2>1, <2>2, <2>3, <2>4 DEF MailboxStep
<1>4. CASE MailboxRestart
  BY <1>4, RestartInv
<1>5. CASE UNCHANGED mailboxVars
  BY <1>5 DEF mailboxVars, MailboxInv, MailboxTypeOK, NamedRows, Exists, CleanMeansGone,
              Informed, Unshared
<1>6. QED
  BY <1>1, <1>2, <1>3, <1>4, <1>5 DEF MailboxNext

(* Rows, accounts and jobs keep their types.                               *)
THEOREM MailboxTypeCorrect == MailboxSpec => []MailboxTypeOK
<1>1. MailboxInv => MailboxTypeOK
  BY DEF MailboxInv
<1>2. QED
  BY <1>1, InitInv, MailboxStepInv, PTL DEF MailboxSpec

(* An expired row that calls itself cleaned up has no account on the mail  *)
(* server, whatever calls and sweeps overlap, answers get lost and         *)
(* restarts interrupt (expiry.ts:26-65).                                   *)
THEOREM CleanHolds == MailboxSpec => []CleanMeansGone
<1>1. MailboxInv => CleanMeansGone
  BY DEF MailboxInv
<1>2. QED
  BY <1>1, InitInv, MailboxStepInv, PTL DEF MailboxSpec

-----------------------------------------------------------------------------
(* The account of a name is its mailbox's, or that of one being made.      *)
AccountsOwned ==
  \A n \in Name : account[n] # NoBox =>
    \/ mailbox[account[n]].name = n
    \/ \E p \in Job : job[p].pc = "made" /\ job[p].name = n /\ job[p].box = account[n]

(* Where no name is used twice, a name tells the mailbox.                  *)
NamesUnique ==
  /\ \A k, m \in Box : mailbox[k].name = mailbox[m].name /\ mailbox[m].name \in Name => k = m
  /\ \A p \in Job : job[p].pc \in Making =>
       /\ \A m \in Box : mailbox[m].name # job[p].name
       /\ \A q \in Job \ {p} : job[q].pc \in Making => job[q].name # job[p].name

MadeHasAccount ==
  \A p \in Job : job[p].pc = "made" => account[job[p].name] = job[p].box

(* A row is deleted with its account gone.                                 *)
DeletedHasNone ==
  \A m \in Box : mailbox[m].status = "none" /\ mailbox[m].name \in Name =>
    account[mailbox[m].name] # m

(* Cleanups are retried of rows that are not active any more.              *)
RetriesExpired ==
  \A p \in Job :
    /\ job[p].pc \in Deciding /\ job[p].task = "retry" =>
         mailbox[job[p].box].status # "active"
    /\ \A item \in job[p].failed : mailbox[item[1]].status # "active"

(* Somebody has just deleted the account and is about to say so in the row. *)
BeingClosed(m) ==
  \E p \in Job : job[p].box = m /\ job[p].pc = "gone" /\ job[p].task # "retry"

ActiveHasAccount ==
  \A m \in Box : mailbox[m].status = "active" /\ account[mailbox[m].name] # m =>
    BeingClosed(m)

AccountsInv ==
  /\ AccountsOwned /\ NamesUnique /\ MadeHasAccount
  /\ DeletedHasNone /\ RetriesExpired /\ ActiveHasAccount

OthersKeep(p) == \A q \in Job \ {p} : job'[q] = job[q]

(* What p knows after its step of the rows whose cleanup it retries.       *)
RetryKnown(p) ==
  /\ job'[p].pc \in Deciding /\ job'[p].task = "retry" =>
       mailbox'[job'[p].box].status # "active"
  /\ \A item \in job'[p].failed : mailbox'[item[1]].status # "active"

(* The steps that only ask, look, or write in a row what has become of it. *)
LEMMA KeepStep ==
  ASSUME MailboxInv, AccountsInv, NEW p \in Job, OthersKeep(p), RetryKnown(p),
         account' = account,
         \A m \in Box : mailbox'[m].name = mailbox[m].name,
         \A m \in Box : mailbox'[m].status = "active" => mailbox[m].status = "active",
         \A m \in Box : mailbox'[m].status = "none" =>
           mailbox[m].status = "none" \/ account[mailbox[m].name] # m,
         job'[p].pc \notin Making, job[p].pc # "made",
         job[p].pc = "gone" /\ job[p].task # "retry" =>
           mailbox'[job[p].box].status # "active"
  PROVE  AccountsInv'
<1>1. /\ job \in [Job -> Jobs] /\ mailbox \in [Box -> Rows]
      /\ account \in [Name -> Box \cup {NoBox}]
  BY DEF MailboxInv, MailboxTypeOK
<1>2. AccountsOwned'
  <2>1. ASSUME NEW n \in Name, account[n] # NoBox
        PROVE  \/ mailbox'[account[n]].name = n
               \/ \E q \in Job : /\ job'[q].pc = "made" /\ job'[q].name = n
                                 /\ job'[q].box = account[n]
    <3>1. account[n] \in Box
      BY <1>1, <2>1
    <3>2. CASE mailbox[account[n]].name = n
      BY <3>1, <3>2
    <3>3. CASE \E q \in Job : /\ job[q].pc = "made" /\ job[q].name = n
                              /\ job[q].box = account[n]
      BY <3>3 DEF OthersKeep
    <3>4. QED
      BY <2>1, <3>2, <3>3 DEF AccountsInv, AccountsOwned
  <2>2. QED
    BY <2>1 DEF AccountsOwned
<1>3. NamesUnique'
  BY DEF AccountsInv, NamesUnique, OthersKeep
<1>4. MadeHasAccount'
  BY DEF AccountsInv, MadeHasAccount, OthersKeep, Making
<1>5. DeletedHasNone'
  BY DEF AccountsInv, DeletedHasNone
<1>6. RetriesExpired'
  <2>1. ASSUME NEW q \in Job
        PROVE  /\ job'[q].pc \in Deciding /\ job'[q].task = "retry" =>
                    mailbox'[job'[q].box].status # "active"
               /\ \A item \in job'[q].failed : mailbox'[item[1]].status # "active"
    <3>1. CASE q = p
      BY <3>1 DEF RetryKnown
    <3>2. CASE q # p
      <4>1. job'[q] = job[q]
        BY <3>2 DEF OthersKeep
      <4>2. job[q].pc \in Deciding => job[q].box \in Box
        BY DEF MailboxInv, Informed
      <4>3. \A item \in job[q].failed : item[1] \in Box
        BY <1>1 DEF Jobs
      <4>4. QED
        BY <4>1, <4>2, <4>3 DEF AccountsInv, RetriesExpired
    <3>3. QED
      BY <3>1, <3>2
  <2>2. QED
    BY <2>1 DEF RetriesExpired
<1>7. ActiveHasAccount'
  <2>1. ASSUME NEW m \in Box, mailbox'[m].status = "active", account[mailbox[m].name] # m
        PROVE  BeingClosed(m)'
    <3>1. PICK q \in Job : job[q].box = m /\ job[q].pc = "gone" /\ job[q].task # "retry"
      BY <2>1 DEF AccountsInv, ActiveHasAccount, BeingClosed
    <3>2. q # p
      BY <2>1, <3>1
    <3>3. QED
      BY <3>1, <3>2 DEF BeingClosed, OthersKeep
  <2>2. QED
    BY <2>1 DEF ActiveHasAccount
<1>8. QED
  BY <1>2, <1>3, <1>4, <1>5, <1>6, <1>7 DEF AccountsInv

LEMMA QuietJob ==
  ASSUME MailboxInv, AccountsInv, NEW p \in Job, OthersKeep(p), RetryKnown(p),
         UNCHANGED account,
         \A m \in Box : mailbox'[m].name = mailbox[m].name
                        /\ mailbox'[m].status = mailbox[m].status,
         job'[p].pc \notin Making, job[p].pc \notin {"made", "gone"}
  PROVE  AccountsInv'
BY KeepStep

LEMMA LazyExpireAccounts ==
  ASSUME MailboxInv, AccountsInv, NEW c \in Call, LazyExpire(c) \/ BeginDelete(c)
  PROVE  AccountsInv'
<1>1. c \in Job /\ job[c] \in Jobs /\ job \in [Job -> Jobs] /\ job[c].pc = "idle"
  BY DEF MailboxInv, MailboxTypeOK, Job, LazyExpire, BeginDelete, Ready
<1>2. PICK task \in {"expire", "delete"}, m \in Box : AskToDelete(c, task, m)
  BY DEF LazyExpire, BeginDelete
<1>3. /\ OthersKeep(c) /\ job'[c].pc = "ask" /\ job'[c].task = task
      /\ job'[c].failed = job[c].failed
  BY <1>1, <1>2 DEF AskToDelete, OthersKeep, Jobs
<1>4. RetryKnown(c)
  BY <1>1, <1>3 DEF RetryKnown, AccountsInv, RetriesExpired, LazyExpire, BeginDelete
<1>5. QED
  BY <1>1, <1>3, <1>4, QuietJob DEF LazyExpire, BeginDelete, Making

LEMMA RenewAccounts ==
  ASSUME MailboxInv, AccountsInv, NEW c \in Call, Renew(c)
  PROVE  AccountsInv'
<1>1. c \in Job /\ job \in [Job -> Jobs] /\ job[c].pc = "idle" /\ mailbox \in [Box -> Rows]
  BY DEF MailboxInv, MailboxTypeOK, Job, Renew, Ready
<1>2. OthersKeep(c) /\ job'[c] = Free
  BY <1>1 DEF Renew, End, OthersKeep
<1>3. RetryKnown(c) /\ job'[c].pc \notin Making
  BY <1>2 DEF RetryKnown, Free, Deciding, Making
<1>4. \A m \in Box : /\ mailbox'[m].name = mailbox[m].name
                     /\ mailbox'[m].status = mailbox[m].status
  BY <1>1 DEF Renew, Rows
<1>5. QED
  BY <1>1, <1>2, <1>3, <1>4, QuietJob DEF Renew

LEMMA BeginSweepAccounts ==
  ASSUME MailboxInv, AccountsInv, NEW s \in Sweeper, BeginSweep(s)
  PROVE  AccountsInv'
<1>1. s \in Job /\ job[s] \in Jobs /\ job \in [Job -> Jobs] /\ job[s].pc = "idle"
  BY DEF MailboxInv, MailboxTypeOK, Job, BeginSweep, Ready
<1>2. PICK due \in SUBSET {m \in Box : Due(m)},
           items \in SUBSET {m \in Box : Cleanable(m)} :
        job' = [job EXCEPT ![s].pc = "sweep", ![s].due = due,
                           ![s].failed = {<<m, mailbox[m].attempts>> : m \in items}]
  BY DEF BeginSweep, Limited
<1> DEFINE lost == {<<m, mailbox[m].attempts>> : m \in items}
<1>3. \A item \in lost : item[1] \in items
  OBVIOUS
<1>4. job' = [job EXCEPT ![s].pc = "sweep", ![s].due = due, ![s].failed = lost]
  BY <1>2
<1> HIDE DEF lost
<1>5. OthersKeep(s) /\ job'[s].pc = "sweep" /\ job'[s].failed = lost
  BY <1>1, <1>4 DEF OthersKeep, Jobs
<1>6. RetryKnown(s)
  BY <1>3, <1>5 DEF RetryKnown, Deciding, Cleanable, BeginSweep
<1>7. QED
  BY <1>1, <1>5, <1>6, QuietJob DEF BeginSweep, Making

LEMMA SweepExpiredAccounts ==
  ASSUME MailboxInv, AccountsInv, NEW s \in Sweeper, SweepExpired(s)
  PROVE  AccountsInv'
<1>1. s \in Job /\ job[s] \in Jobs /\ job \in [Job -> Jobs] /\ job[s].pc = "sweep"
  BY DEF MailboxInv, MailboxTypeOK, Job, SweepExpired
<1>2. PICK m \in job[s].due :
        job' = [job EXCEPT ![s] = [job[s] EXCEPT !.pc = "ask", !.task = "expire", !.box = m,
                                     !.name = mailbox[m].name, !.due = @ \ {m}]]
  BY DEF SweepExpired
<1>3. /\ OthersKeep(s) /\ job'[s].pc = "ask" /\ job'[s].task = "expire"
      /\ job'[s].failed = job[s].failed
  BY <1>1, <1>2 DEF OthersKeep, Jobs
<1>4. RetryKnown(s)
  BY <1>1, <1>3 DEF RetryKnown, AccountsInv, RetriesExpired, SweepExpired
<1>5. QED
  BY <1>1, <1>3, <1>4, QuietJob DEF SweepExpired, Making

LEMMA SweepFailedAccounts ==
  ASSUME MailboxInv, AccountsInv, NEW s \in Sweeper, SweepFailed(s)
  PROVE  AccountsInv'
<1>1. /\ s \in Job /\ job[s] \in Jobs /\ job \in [Job -> Jobs] /\ job[s].pc = "sweep"
      /\ mailbox \in [Box -> Rows]
  BY DEF MailboxInv, MailboxTypeOK, Job, SweepFailed
<1>2. PICK item \in job[s].failed :
        /\ Update(item[1], [mailbox[item[1]] EXCEPT !.attempts = @ + 1,
                              !.cleanup = IF GivesUp(item[2]) THEN -1 ELSE @])
        /\ job' = [job EXCEPT ![s] =
                     IF GivesUp(item[2]) THEN [job[s] EXCEPT !.failed = @ \ {item}]
                     ELSE [job[s] EXCEPT !.pc = "ask", !.task = "retry", !.box = item[1],
                                         !.name = mailbox[item[1]].name, !.failed = @ \ {item}]]
  BY DEF SweepFailed
<1>3. \A m \in Box : mailbox'[m].name = mailbox[m].name /\ mailbox'[m].status = mailbox[m].status
  BY <1>1, <1>2 DEF Update, Rows
<1>4. /\ OthersKeep(s) /\ job'[s].failed = job[s].failed \ {item}
      /\ \/ job'[s].pc = "sweep"
         \/ job'[s].pc = "ask" /\ job'[s].box = item[1]
  BY <1>1, <1>2 DEF OthersKeep, Jobs
<1>5. \A i \in job[s].failed : i[1] \in Box /\ mailbox[i[1]].status # "active"
  BY <1>1 DEF Jobs, AccountsInv, RetriesExpired
<1>6. RetryKnown(s)
  BY <1>3, <1>4, <1>5 DEF RetryKnown, Deciding
<1>7. QED
  BY <1>1, <1>3, <1>4, <1>6, QuietJob DEF SweepFailed, Making

LEMMA EndSweepAccounts ==
  ASSUME MailboxInv, AccountsInv, NEW s \in Sweeper, EndSweep(s)
  PROVE  AccountsInv'
<1>1. s \in Job /\ job \in [Job -> Jobs] /\ job[s].pc = "sweep"
  BY DEF MailboxInv, MailboxTypeOK, Job, EndSweep
<1>2. OthersKeep(s) /\ job'[s] = Free
  BY <1>1 DEF EndSweep, OthersKeep
<1>3. RetryKnown(s) /\ job'[s].pc \notin Making
  BY <1>2 DEF RetryKnown, Free, Deciding, Making
<1>4. QED
  BY <1>1, <1>2, <1>3, QuietJob DEF EndSweep

(* Where a job goes when it has written its answer.                        *)
LEMMA LeftJob ==
  ASSUME MailboxInv, AccountsInv, NEW p \in Job, GoOn(p) \/ End(p) \/ NextItem(p),
         \A m \in Box : mailbox'[m].status = "active" => mailbox[m].status = "active"
  PROVE  OthersKeep(p) /\ RetryKnown(p) /\ job'[p].pc \notin Making
<1>1. job \in [Job -> Jobs] /\ job[p] \in Jobs
  BY DEF MailboxInv, MailboxTypeOK
<1>2. CASE job' = [job EXCEPT ![p] = Free]
  BY <1>1, <1>2 DEF OthersKeep, RetryKnown, Free, Deciding, Making
<1>3. CASE NextItem(p)
  <2>1. OthersKeep(p) /\ job'[p].pc = "sweep" /\ job'[p].failed = job[p].failed
    BY <1>1, <1>3 DEF NextItem, Free, OthersKeep
  <2>2. \A i \in job[p].failed : i[1] \in Box /\ mailbox[i[1]].status # "active"
    BY <1>1 DEF Jobs, AccountsInv, RetriesExpired
  <2>3. QED
    BY <2>1, <2>2 DEF RetryKnown, Deciding, Making
<1>4. QED
  BY <1>2, <1>3 DEF GoOn, End

LEMMA MarkExpiredAccounts ==
  ASSUME MailboxInv, AccountsInv, NEW p \in Job, MarkExpired(p)
  PROVE  AccountsInv'
<1>1. /\ job[p].pc \in {"gone", "missing", "failed"} /\ GoOn(p) /\ UNCHANGED account
      /\ job[p].box \in Box /\ mailbox \in [Box -> Rows]
  BY DEF MarkExpired, Answered, MailboxInv, MailboxTypeOK, Informed, Deciding
<1>2. /\ \A m \in Box : /\ mailbox'[m].name = mailbox[m].name
                        /\ mailbox'[m].status \in {mailbox[m].status, "expired"}
      /\ mailbox'[job[p].box].status # "active"
  BY <1>1 DEF MarkExpired, Update, Exists, Rows
<1>3. OthersKeep(p) /\ RetryKnown(p) /\ job'[p].pc \notin Making
  BY <1>1, <1>2, LeftJob
<1>4. QED
  BY <1>1, <1>2, <1>3, KeepStep

LEMMA MarkCleanupDoneAccounts ==
  ASSUME MailboxInv, AccountsInv, NEW p \in Sweeper, MarkCleanupDone(p)
  PROVE  AccountsInv'
<1>1. /\ job[p].pc \in {"gone", "missing", "failed"} /\ job[p].task = "retry"
      /\ NextItem(p) /\ UNCHANGED account /\ p \in Job
      /\ job[p].box \in Box /\ mailbox \in [Box -> Rows]
  BY DEF MarkCleanupDone, Answered, MailboxInv, MailboxTypeOK, Informed, Deciding, Job
<1>2. \A m \in Box : mailbox'[m].name = mailbox[m].name /\ mailbox'[m].status = mailbox[m].status
  BY <1>1 DEF MarkCleanupDone, Update, Rows
<1>3. OthersKeep(p) /\ RetryKnown(p) /\ job'[p].pc \notin Making
  BY <1>1, <1>2, LeftJob
<1>4. QED
  BY <1>1, <1>2, <1>3, KeepStep

LEMMA DeleteMailboxRowAccounts ==
  ASSUME MailboxInv, AccountsInv, NEW c \in Call, DeleteMailboxRow(c)
  PROVE  AccountsInv'
<1>1. /\ c \in Job /\ job[c].pc \in {"gone", "missing", "failed"} /\ End(c)
      /\ UNCHANGED account /\ mailbox \in [Box -> Rows] /\ Informed(job[c])
  BY DEF DeleteMailboxRow, Answered, MailboxInv, MailboxTypeOK, Job
<1>2. job[c].box \in Box /\ mailbox[job[c].box].name = job[c].name
      /\ (job[c].pc = "gone" => account[job[c].name] # job[c].box)
  BY <1>1 DEF Informed, Deciding
<1>3. \A m \in Box :
        /\ mailbox'[m].name = mailbox[m].name
        /\ \/ mailbox'[m].status = mailbox[m].status /\ (job[c].pc = "gone" => m # job[c].box)
           \/ mailbox'[m].status = "none" /\ job[c].pc = "gone" /\ m = job[c].box
  BY <1>1, <1>2 DEF DeleteMailboxRow, NoRow
<1>4. OthersKeep(c) /\ RetryKnown(c) /\ job'[c].pc \notin Making
  BY <1>1, <1>3, LeftJob
<1>5. QED
  BY <1>1, <1>2, <1>3, <1>4, KeepStep

LEMMA BeginCreateAccounts ==
  ASSUME MailboxInv, AccountsInv, ~ world.reuse, NEW c \in Call, BeginCreate(c)
  PROVE  AccountsInv'
<1>1. c \in Job /\ job[c] \in Jobs /\ job \in [Job -> Jobs] /\ job[c].pc = "idle"
  BY DEF MailboxInv, MailboxTypeOK, Job, BeginCreate, Ready
<1>2. PICK n \in Name, m \in Box :
        /\ UnusedName(n)
        /\ job' = [job EXCEPT ![c].pc = "create", ![c].name = n, ![c].box = m]
  BY DEF BeginCreate
<1>3. /\ OthersKeep(c) /\ job'[c].pc = "create" /\ job'[c].name = n
      /\ job'[c].failed = job[c].failed
  BY <1>1, <1>2 DEF OthersKeep, Jobs
<1>4. mailbox' = mailbox /\ account' = account
  BY DEF BeginCreate
<1>5. AccountsOwned' /\ MadeHasAccount' /\ DeletedHasNone'
  BY <1>1, <1>3, <1>4 DEF AccountsInv, AccountsOwned, MadeHasAccount,
                          DeletedHasNone, OthersKeep
<1>6. NamesUnique'
  <2>1. \A k, m2 \in Box : mailbox'[k].name = mailbox'[m2].name /\ mailbox'[m2].name \in Name => k = m2
    BY <1>4 DEF AccountsInv, NamesUnique
  <2>2. ASSUME NEW p \in Job, job'[p].pc \in Making
        PROVE  /\ \A b \in Box : mailbox'[b].name # job'[p].name
               /\ \A q \in Job \ {p} : job'[q].pc \in Making => job'[q].name # job'[p].name
    <3>1. CASE p = c
      BY <1>2, <1>3, <1>4, <3>1 DEF UnusedName, OthersKeep
    <3>2. CASE p # c
      <4>1. job'[p] = job[p] /\ job[p].pc \in Making
        BY <1>3, <2>2, <3>2 DEF OthersKeep
      <4>2. /\ \A b \in Box : mailbox[b].name # job[p].name
            /\ \A q \in Job \ {p} : job[q].pc \in Making => job[q].name # job[p].name
        BY <4>1 DEF AccountsInv, NamesUnique
      <4>3. job[p].name # n
        BY <1>2 DEF UnusedName
      <4>4. \A q \in Job : q # c => job'[q] = job[q]
        BY <1>3 DEF OthersKeep
      <4>5. QED
        BY <1>3, <1>4, <4>1, <4>2, <4>3, <4>4
    <3>3. QED
      BY <3>1, <3>2
  <2>3. QED
    BY <2>1, <2>2 DEF NamesUnique
<1>7. RetriesExpired'
  BY <1>3, <1>4 DEF AccountsInv, RetriesExpired, OthersKeep, Deciding
<1>8. ActiveHasAccount'
  BY <1>1, <1>3, <1>4 DEF AccountsInv, ActiveHasAccount, BeingClosed, OthersKeep
<1>9. QED
  BY <1>5, <1>6, <1>7, <1>8 DEF AccountsInv

LEMMA CreateAccountAccounts ==
  ASSUME MailboxInv, AccountsInv, ~ world.lossy, NEW c \in Call, CreateAccount(c)
  PROVE  AccountsInv'
<1>1. /\ c \in Job /\ job[c] \in Jobs /\ job \in [Job -> Jobs] /\ job[c].pc = "create"
      /\ mailbox' = mailbox /\ account \in [Name -> Box \cup {NoBox}]
  BY DEF MailboxInv, MailboxTypeOK, Job, CreateAccount
<1>2. job[c].name \in Name /\ job[c].box \in Box /\ mailbox[job[c].box].name = NoName
      /\ NoName \notin Name
  BY <1>1, MailboxAssumption DEF MailboxInv, Informed, Making, MailboxAssumption
<1>3. CASE End(c) /\ UNCHANGED account
  <2>1. OthersKeep(c) /\ RetryKnown(c) /\ job'[c].pc \notin Making
    BY <1>1, <1>3, LeftJob
  <2>2. QED
    BY <1>1, <1>3, <2>1, QuietJob
<1>4. CASE /\ account[job[c].name] = NoBox
           /\ account' = [account EXCEPT ![job[c].name] = job[c].box]
           /\ Goto(c, "made")
  <2> DEFINE n == job[c].name
  <2>1. /\ OthersKeep(c) /\ job'[c].pc = "made" /\ job'[c].name = n
        /\ job'[c].box = job[c].box /\ job'[c].failed = job[c].failed
    BY <1>1, <1>4 DEF Goto, OthersKeep, Jobs
  <2>2. account'[n] = job[c].box /\ \A k \in Name \ {n} : account'[k] = account[k]
    BY <1>1, <1>2, <1>4
  <2>3. /\ \A m \in Box : mailbox[m].name # n
        /\ \A q \in Job \ {c} : job[q].pc \in Making => job[q].name # n
    BY <1>1 DEF AccountsInv, NamesUnique, Making
  <2>4. AccountsOwned'
    <3>1. ASSUME NEW k \in Name, account'[k] # NoBox
          PROVE  \/ mailbox'[account'[k]].name = k
                 \/ \E q \in Job : job'[q].pc = "made" /\ job'[q].name = k /\ job'[q].box = account'[k]
      <4>1. CASE k = n
        BY <1>1, <2>1, <2>2, <4>1
      <4>2. CASE k # n
        BY <1>1, <2>1, <2>2, <3>1, <4>2 DEF AccountsInv, AccountsOwned, OthersKeep
      <4>3. QED
        BY <4>1, <4>2
    <3>2. QED
      BY <3>1 DEF AccountsOwned
  <2>5. NamesUnique'
    <3>1. ASSUME NEW p \in Job
          PROVE  job'[p].name = job[p].name /\ (job'[p].pc \in Making => job[p].pc \in Making)
      BY <1>1, <2>1 DEF OthersKeep, Making
    <3>2. QED
      BY <1>1, <3>1 DEF AccountsInv, NamesUnique
  <2>6. MadeHasAccount'
    BY <2>1, <2>2, <2>3 DEF AccountsInv, MadeHasAccount, OthersKeep, Making, MailboxInv, Informed
  <2>7. DeletedHasNone'
    BY <1>1, <2>2, <2>3 DEF AccountsInv, DeletedHasNone
  <2>8. RetriesExpired'
    BY <1>1, <2>1 DEF AccountsInv, RetriesExpired, OthersKeep, Deciding
  <2>9. ActiveHasAccount'
    <3>1. ASSUME NEW m \in Box, mailbox[m].status = "active", account'[mailbox[m].name] # m
          PROVE  BeingClosed(m)'
      <4>1. account[mailbox[m].name] # m
        BY <2>2, <2>3, <3>1 DEF MailboxInv, NamedRows, Exists
      <4>2. BeingClosed(m)
        BY <3>1, <4>1 DEF AccountsInv, ActiveHasAccount
      <4>3. QED
        BY <1>1, <2>1, <4>2 DEF BeingClosed, OthersKeep
    <3>2. QED
      BY <1>1, <3>1 DEF ActiveHasAccount
  <2>10. QED
    BY <2>4, <2>5, <2>6, <2>7, <2>8, <2>9 DEF AccountsInv
<1>5. QED
  BY <1>3, <1>4 DEF CreateAccount

LEMMA InsertMailboxAccounts ==
  ASSUME MailboxInv, AccountsInv, NEW c \in Call, InsertMailbox(c)
  PROVE  AccountsInv'
<1>1. /\ c \in Job /\ job[c] \in Jobs /\ job \in [Job -> Jobs] /\ job[c].pc = "made"
      /\ account' = account /\ mailbox \in [Box -> Rows] /\ End(c)
  BY DEF MailboxInv, MailboxTypeOK, Job, InsertMailbox
<1>2. /\ job[c].name \in Name /\ job[c].box \in Box
      /\ mailbox[job[c].box].name = NoName /\ NoName \notin Name
      /\ account[job[c].name] = job[c].box
  BY <1>1, MailboxAssumption DEF MailboxInv, Informed, Making, MailboxAssumption,
                                 AccountsInv, MadeHasAccount
<1>3. /\ \A m \in Box : mailbox[m].name # job[c].name
      /\ \A q \in Job \ {c} : job[q].pc \in Making => job[q].name # job[c].name
      /\ \A q \in Job \ {c} : job[q].box # job[c].box
  BY <1>1 DEF AccountsInv, NamesUnique, Making, MailboxInv, Unshared
<1>4. PICK life \in {"forever", "running"} :
        mailbox' = [mailbox EXCEPT ![job[c].box] =
                      [status |-> "active", name |-> job[c].name, life |-> life,
                       cleanup |-> 0, attempts |-> 0]]
  BY <1>3 DEF InsertMailbox
<1>5. /\ mailbox'[job[c].box].status = "active" /\ mailbox'[job[c].box].name = job[c].name
      /\ \A m \in Box \ {job[c].box} : mailbox'[m] = mailbox[m]
  BY <1>1, <1>2, <1>4
<1>6. OthersKeep(c) /\ job'[c].pc = "idle" /\ job'[c].failed = {}
  BY <1>1 DEF End, Free, OthersKeep
<1>7. AccountsOwned'
  <2>1. ASSUME NEW n \in Name, account[n] # NoBox
        PROVE  \/ mailbox'[account[n]].name = n
               \/ \E q \in Job : job'[q].pc = "made" /\ job'[q].name = n /\ job'[q].box = account[n]
    <3>1. account[n] \in Box
      BY <2>1 DEF MailboxInv, MailboxTypeOK
    <3>2. CASE n = job[c].name
      BY <1>2, <1>5, <3>2
    <3>3. CASE n # job[c].name /\ mailbox[account[n]].name = n
      BY <1>2, <1>5, <3>1, <3>3
    <3>4. CASE /\ n # job[c].name
               /\ \E q \in Job : job[q].pc = "made" /\ job[q].name = n /\ job[q].box = account[n]
      BY <1>6, <3>4 DEF OthersKeep
    <3>5. QED
      BY <2>1, <3>2, <3>3, <3>4 DEF AccountsInv, AccountsOwned
  <2>2. QED
    BY <1>1, <2>1 DEF AccountsOwned
<1>8. NamesUnique'
  <2>1. ASSUME NEW k \in Box, NEW m \in Box, mailbox'[k].name = mailbox'[m].name,
               mailbox'[m].name \in Name
        PROVE  k = m
    BY <1>3, <1>5, <2>1 DEF AccountsInv, NamesUnique
  <2>2. ASSUME NEW p \in Job, job'[p].pc \in Making
        PROVE  /\ \A m \in Box : mailbox'[m].name # job'[p].name
               /\ \A q \in Job \ {p} : job'[q].pc \in Making => job'[q].name # job'[p].name
    <3>1. p # c /\ job'[p] = job[p]
      BY <1>6, <2>2 DEF OthersKeep, Making
    <3>2. \A m \in Box : mailbox[m].name # job[p].name
      BY <2>2, <3>1 DEF AccountsInv, NamesUnique
    <3>3. \A q \in Job : job'[q].pc \in Making => job'[q] = job[q]
      BY <1>6 DEF OthersKeep, Making
    <3>4. QED
      BY <1>3, <1>5, <2>2, <3>1, <3>2, <3>3 DEF AccountsInv, NamesUnique
  <2>3. QED
    BY <2>1, <2>2 DEF NamesUnique
<1>9. MadeHasAccount'
  BY <1>1, <1>6 DEF AccountsInv, MadeHasAccount, OthersKeep
<1>10. DeletedHasNone'
  BY <1>1, <1>5 DEF AccountsInv, DeletedHasNone
<1>11. RetriesExpired'
  <2>1. ASSUME NEW q \in Job
        PROVE  /\ job'[q].pc \in Deciding /\ job'[q].task = "retry" =>
                    mailbox'[job'[q].box].status # "active"
               /\ \A item \in job'[q].failed : mailbox'[item[1]].status # "active"
    <3>1. CASE q = c
      BY <1>6, <3>1 DEF Deciding
    <3>2. CASE q # c
      <4>1. job'[q] = job[q]
        BY <1>6, <3>2 DEF OthersKeep
      <4>2. job[q].pc \in Deciding => job[q].box \in Box /\ job[q].box # job[c].box
        BY <1>3, <3>2 DEF MailboxInv, Informed
      <4>3. \A item \in job[q].failed :
              item[1] \in Box /\ mailbox[item[1]].name \in Name
        BY DEF MailboxInv, MailboxTypeOK, Jobs, Informed
      <4>4. \A item \in job[q].failed : item[1] # job[c].box
        BY <1>2, <4>3
      <4>5. QED
        BY <1>5, <4>1, <4>2, <4>3, <4>4 DEF AccountsInv, RetriesExpired
    <3>3. QED
      BY <3>1, <3>2
  <2>2. QED
    BY <2>1 DEF RetriesExpired
<1>12. ActiveHasAccount'
  <2>1. ASSUME NEW m \in Box, mailbox'[m].status = "active", account[mailbox'[m].name] # m
        PROVE  BeingClosed(m)'
    <3>1. m # job[c].box /\ mailbox'[m] = mailbox[m]
      BY <1>2, <1>5, <2>1
    <3>2. BeingClosed(m)
      BY <2>1, <3>1 DEF AccountsInv, ActiveHasAccount
    <3>3. QED
      BY <1>1, <1>6, <3>2 DEF BeingClosed, OthersKeep
  <2>2. QED
    BY <1>1, <2>1 DEF ActiveHasAccount
<1>13. QED
  BY <1>7, <1>8, <1>9, <1>10, <1>11, <1>12 DEF AccountsInv

LEMMA DeleteAccountAccounts ==
  ASSUME MailboxInv, AccountsInv, ~ world.lossy, NEW p \in Job, DeleteAccount(p)
  PROVE  AccountsInv'
<1>1. /\ job[p] \in Jobs /\ job \in [Job -> Jobs] /\ job[p].pc = "ask"
      /\ mailbox' = mailbox /\ account \in [Name -> Box \cup {NoBox}]
  BY DEF MailboxInv, MailboxTypeOK, DeleteAccount
<1>2. /\ job[p].name \in Name /\ job[p].box \in Box
      /\ mailbox[job[p].box].name = job[p].name
  BY <1>1 DEF MailboxInv, Informed, Deciding
<1>3. PICK place \in {"gone", "missing", "failed"} :
        /\ Goto(p, place)
        /\ place # "gone" => account' = account
        /\ place = "gone" => account' = [account EXCEPT ![job[p].name] = NoBox]
  BY DEF DeleteAccount
<1>4. /\ OthersKeep(p) /\ job'[p].pc = place /\ job'[p].task = job[p].task
      /\ job'[p].box = job[p].box /\ job'[p].failed = job[p].failed
      /\ job'[p].name = job[p].name
  BY <1>1, <1>3 DEF Goto, OthersKeep, Jobs
<1>5. RetryKnown(p)
  BY <1>1, <1>4 DEF RetryKnown, AccountsInv, RetriesExpired, Deciding
<1>6. CASE place # "gone"
  <2>1. account' = account /\ job'[p].pc \notin Making
    BY <1>3, <1>4, <1>6 DEF Making
  <2>2. QED
    BY <1>1, <1>4, <1>5, <2>1, QuietJob
<1>7. CASE place = "gone"
  <2>1. /\ account'[job[p].name] = NoBox
        /\ \A k \in Name \ {job[p].name} : account'[k] = account[k]
    BY <1>1, <1>2, <1>3, <1>7
  <2>2. NoBox \notin Box
    BY MailboxAssumption DEF MailboxAssumption
  <2>3. \A q \in Job : /\ job'[q].pc \in Making => q # p /\ job'[q] = job[q]
                       /\ job[q].pc \in Making => q # p /\ job'[q] = job[q]
    BY <1>1, <1>4, <1>7 DEF OthersKeep, Making
  <2>4. AccountsOwned'
    BY <1>1, <2>1, <2>3 DEF AccountsInv, AccountsOwned, Making
  <2>5. NamesUnique'
    BY <1>1, <2>3 DEF AccountsInv, NamesUnique
  <2>6. MadeHasAccount'
    <3>1. ASSUME NEW q \in Job, job'[q].pc = "made"
          PROVE  account'[job'[q].name] = job'[q].box
      <4>1. job'[q] = job[q] /\ job[q].pc \in Making
        BY <2>3, <3>1 DEF Making
      <4>2. job[q].name # job[p].name /\ job[q].name \in Name
        BY <1>2, <4>1 DEF AccountsInv, NamesUnique, MailboxInv, Informed
      <4>3. QED
        BY <2>1, <3>1, <4>1, <4>2 DEF AccountsInv, MadeHasAccount
    <3>2. QED
      BY <3>1 DEF MadeHasAccount
  <2>7. DeletedHasNone'
    BY <1>1, <2>1, <2>2 DEF AccountsInv, DeletedHasNone
  <2>8. RetriesExpired'
    BY <1>1, <1>4, <1>5 DEF AccountsInv, RetriesExpired, RetryKnown, OthersKeep
  <2>9. ActiveHasAccount'
    <3>1. ASSUME NEW m \in Box, mailbox[m].status = "active", account'[mailbox[m].name] # m
          PROVE  BeingClosed(m)'
      <4>1. mailbox[m].name \in Name
        BY <3>1 DEF MailboxInv, NamedRows, Exists
      <4>2. CASE mailbox[m].name = job[p].name
        <5>1. m = job[p].box
          BY <1>2, <4>1, <4>2 DEF AccountsInv, NamesUnique
        <5>2. job[p].task # "retry"
          BY <1>1, <3>1, <5>1 DEF AccountsInv, RetriesExpired, Deciding
        <5>3. QED
          BY <1>4, <1>7, <5>1, <5>2 DEF BeingClosed
      <4>3. CASE mailbox[m].name # job[p].name
        <5>1. BeingClosed(m)
          BY <2>1, <3>1, <4>1, <4>3 DEF AccountsInv, ActiveHasAccount
        <5>2. QED
          BY <1>1, <1>4, <5>1 DEF BeingClosed, OthersKeep
      <4>4. QED
        BY <4>2, <4>3
    <3>2. QED
      BY <1>1, <3>1 DEF ActiveHasAccount
  <2>10. QED
    BY <2>4, <2>5, <2>6, <2>7, <2>8, <2>9 DEF AccountsInv
<1>8. QED
  BY <1>6, <1>7

LEMMA AccountsStand ==
  ASSUME MailboxInv, AccountsInv, UNCHANGED <<account, job>>,
         \A m \in Box : mailbox'[m].name = mailbox[m].name
                        /\ mailbox'[m].status = mailbox[m].status
  PROVE  AccountsInv'
<1>1. AccountsOwned' /\ DeletedHasNone'
  BY DEF MailboxInv, MailboxTypeOK, AccountsInv, AccountsOwned, DeletedHasNone
<1>2. NamesUnique' /\ MadeHasAccount'
  BY DEF AccountsInv, NamesUnique, MadeHasAccount
<1>3. RetriesExpired'
  <2>1. ASSUME NEW q \in Job
        PROVE  /\ job[q].pc \in Deciding => job[q].box \in Box
               /\ \A item \in job[q].failed : item[1] \in Box
    BY DEF MailboxInv, MailboxTypeOK, Jobs, Informed
  <2>2. QED
    BY <2>1 DEF AccountsInv, RetriesExpired
<1>4. ActiveHasAccount'
  BY DEF AccountsInv, ActiveHasAccount, BeingClosed
<1>5. QED
  BY <1>1, <1>2, <1>3, <1>4 DEF AccountsInv

LEMMA AccountsStep ==
  ASSUME MailboxInv, AccountsInv, Reliable, [MailboxNext]_mailboxVars
  PROVE  AccountsInv'
<1>1. ASSUME NEW c \in Call, BeginCreate(c) \/ LazyExpire(c) \/ Renew(c) \/ BeginDelete(c)
      PROVE  AccountsInv'
  BY <1>1, BeginCreateAccounts, LazyExpireAccounts, RenewAccounts DEF Reliable
<1>2. ASSUME NEW m \in Box, Lapse(m) PROVE AccountsInv'
  <2>1. \A k \in Box : mailbox'[k].name = mailbox[k].name /\ mailbox'[k].status = mailbox[k].status
    BY <1>2 DEF Lapse, MailboxInv, MailboxTypeOK, Rows
  <2>2. QED
    BY <1>2, <2>1, AccountsStand DEF Lapse
<1>3. ASSUME NEW p \in Job, MailboxStep(p) PROVE AccountsInv'
  <2>1. CASE p \in Call /\ (CreateAccount(p) \/ InsertMailbox(p) \/ DeleteMailboxRow(p))
    BY <2>1, CreateAccountAccounts, InsertMailboxAccounts, DeleteMailboxRowAccounts DEF Reliable
  <2>2. CASE DeleteAccount(p) \/ MarkExpired(p)
    BY <2>2, DeleteAccountAccounts, MarkExpiredAccounts DEF Reliable
  <2>3. CASE p \in Sweeper /\ (SweepExpired(p) \/ SweepFailed(p) \/ MarkCleanupDone(p))
    BY <2>3, SweepExpiredAccounts, SweepFailedAccounts, MarkCleanupDoneAccounts
  <2>4. CASE p \in Sweeper /\ (BeginSweep(p) \/ EndSweep(p))
    BY <2>4, BeginSweepAccounts, EndSweepAccounts
  <2>5. QED
    BY <1>3, <2>1, <2>2, <2>3, <2>4 DEF MailboxStep
<1>4. ~ MailboxRestart
  BY DEF MailboxRestart, Reliable
<1>5. CASE UNCHANGED mailboxVars
  BY <1>5, AccountsStand DEF mailboxVars
<1>6. QED
  BY <1>1, <1>2, <1>3, <1>4, <1>5 DEF MailboxNext

-----------------------------------------------------------------------------
LEMMA AccountsInit == MailboxInit => AccountsInv
<1> SUFFICES ASSUME MailboxInit PROVE AccountsInv
  OBVIOUS
<1>1. /\ \A m \in Box : mailbox[m].status = "none" /\ mailbox[m].name = NoName
      /\ \A p \in Job : job[p].pc = "idle" /\ job[p].failed = {}
      /\ \A n \in Name : account[n] = NoBox
      /\ NoName \notin Name
  BY MailboxAssumption DEF MailboxInit, NoRow, Free, MailboxAssumption
<1>2. QED
  BY <1>1 DEF AccountsInv, AccountsOwned, NamesUnique, MadeHasAccount, DeletedHasNone,
              RetriesExpired, ActiveHasAccount, Making, Deciding

LEMMA WorldStands == [MailboxNext]_mailboxVars => UNCHANGED world
BY DEF MailboxNext, mailboxVars, MailboxStep, BeginCreate, LazyExpire, Renew,
       BeginDelete, Lapse, CreateAccount, InsertMailbox, DeleteMailboxRow,
       DeleteAccount, MarkExpired, SweepExpired, SweepFailed, MarkCleanupDone,
       BeginSweep, EndSweep, MailboxRestart

LEMMA AccountsInvariant == MailboxSpec => [](MailboxInv /\ (Reliable => AccountsInv))
<1>1. MailboxInv /\ (Reliable => AccountsInv) /\ [MailboxNext]_mailboxVars
        => (Reliable => AccountsInv)'
  BY AccountsStep, WorldStands DEF Reliable
<1>2. QED
  BY <1>1, InitInv, MailboxStepInv, AccountsInit, PTL DEF MailboxSpec

LEMMA AccountsMatchInv ==
  ASSUME MailboxInv, Reliable => AccountsInv
  PROVE  AccountsMatch
<1>1. UsableHasAccount
  BY DEF UsableHasAccount, AccountsInv, ActiveHasAccount, BeingClosed, InFlight
<1>2. ASSUME Reliable, NEW n \in Name, account[n] # NoBox, ~ InFlight(account[n])
      PROVE  \/ mailbox[account[n]].status = "active"
             \/ Cleanable(account[n]) \/ mailbox[account[n]].cleanup = -1
  <2> DEFINE m == account[n]
  <2>1. m \in Box /\ mailbox[m] \in Rows
    BY <1>2 DEF MailboxInv, MailboxTypeOK
  <2>2. mailbox[m].name = n
    BY <1>2 DEF AccountsInv, AccountsOwned, InFlight
  <2>3. mailbox[m].status # "none"
    BY <1>2, <2>1, <2>2 DEF AccountsInv, DeletedHasNone
  <2>4. ~(mailbox[m].status = "expired" /\ mailbox[m].cleanup = 0)
    BY <2>1, <2>2 DEF MailboxInv, CleanMeansGone
  <2>5. QED
    BY <2>1, <2>3, <2>4 DEF Rows, Cleanable
<1>3. QED
  BY <1>1, <1>2 DEF AccountsMatch, AccountsAreRecorded

-----------------------------------------------------------------------------
(* A mailbox without a row is not past its time.                           *)
OnlyRowsLapse == \A m \in Box : mailbox[m].status = "none" => mailbox[m].life # "past"

(* What a step does to the time of a mailbox.                              *)
LEMMA LifeStays ==
  ASSUME MailboxInv, OnlyRowsLapse, [MailboxNext]_mailboxVars, NEW m \in Box
  PROVE  /\ mailbox[m].life = "past" /\ mailbox'[m].status # "none" =>
              mailbox'[m].life = "past"
         /\ mailbox'[m].status = "none" => mailbox'[m].life # "past"
<1> DEFINE Stays == /\ mailbox[m].life = "past" /\ mailbox'[m].status # "none" =>
                         mailbox'[m].life = "past"
                    /\ mailbox'[m].status = "none" => mailbox'[m].life # "past"
<1> SUFFICES Stays
  OBVIOUS
<1>1. mailbox \in [Box -> Rows] /\ mailbox[m] \in Rows
  BY DEF MailboxInv, MailboxTypeOK
<1>2. CASE UNCHANGED mailbox
  BY <1>2 DEF OnlyRowsLapse
<1>3. ASSUME NEW c \in Call, Renew(c) PROVE Stays
  BY <1>1, <1>3 DEF Renew, OnlyRowsLapse
<1>4. ASSUME NEW k \in Box, Lapse(k) PROVE Stays
  BY <1>1, <1>4 DEF Lapse, OnlyRowsLapse
<1>5. ASSUME NEW c \in Call, InsertMailbox(c) PROVE Stays
  <2>1. c \in Job /\ job[c].pc = "made"
    BY <1>5 DEF InsertMailbox, Job
  <2>2. job[c].box \in Box /\ mailbox[job[c].box].name = NoName /\ NoName \notin Name
    BY <2>1, MailboxAssumption DEF MailboxInv, Informed, Making, MailboxAssumption
  <2>3. mailbox[job[c].box].life # "past"
    BY <1>1, <2>2 DEF MailboxInv, NamedRows, Exists, OnlyRowsLapse, Rows
  <2>4. CASE UNCHANGED mailbox
    BY <1>2, <2>4
  <2>5. CASE ~ UNCHANGED mailbox
    <3>1. PICK life \in {"forever", "running"} :
            mailbox' = [mailbox EXCEPT ![job[c].box] =
                          [status |-> "active", name |-> job[c].name, life |-> life,
                           cleanup |-> 0, attempts |-> 0]]
      BY <1>5, <2>5 DEF InsertMailbox
    <3>2. CASE m = job[c].box
      BY <1>1, <2>3, <3>1, <3>2
    <3>3. CASE m # job[c].box
      BY <1>1, <3>1, <3>3 DEF OnlyRowsLapse
    <3>4. QED
      BY <3>2, <3>3
  <2>6. QED
    BY <2>4, <2>5
<1>6. ASSUME NEW p \in Job, MarkExpired(p) PROVE Stays
  BY <1>1, <1>6 DEF MarkExpired, Update, Exists, OnlyRowsLapse
<1>7. ASSUME NEW c \in Call, DeleteMailboxRow(c) PROVE Stays
  BY <1>1, <1>7 DEF DeleteMailboxRow, NoRow, OnlyRowsLapse
<1>8. ASSUME NEW s \in Sweeper, MarkCleanupDone(s) PROVE Stays
  <2>1. CASE UNCHANGED mailbox
    BY <1>2, <2>1
  <2>2. CASE ~ UNCHANGED mailbox
    <3> DEFINE k == job[s].box
    <3>1. mailbox' = [mailbox EXCEPT ![k] = [mailbox[k] EXCEPT !.cleanup = 0]]
      BY <1>8, <2>2 DEF MarkCleanupDone, Update
    <3>2. mailbox'[m].life = mailbox[m].life /\ mailbox'[m].status = mailbox[m].status
      <4>1. CASE m = k
        <5>1. mailbox'[m] = [mailbox[m] EXCEPT !.cleanup = 0]
          BY <1>1, <3>1, <4>1
        <5>2. QED
          BY <1>1, <5>1 DEF Rows
      <4>2. CASE m # k
        BY <1>1, <3>1, <4>2
      <4>3. QED
        BY <4>1, <4>2
    <3>3. QED
      BY <3>2 DEF OnlyRowsLapse
  <2>3. QED
    BY <2>1, <2>2
<1>9. ASSUME NEW s \in Sweeper, SweepFailed(s) PROVE Stays
  BY <1>1, <1>9 DEF SweepFailed, Update, Exists, OnlyRowsLapse
<1>10. QED
  BY <1>2, <1>3, <1>4, <1>5, <1>6, <1>7, <1>8, <1>9
     DEF MailboxNext, mailboxVars, MailboxStep, BeginCreate, LazyExpire,
         BeginDelete, CreateAccount, DeleteAccount, SweepExpired,
         BeginSweep, EndSweep, MailboxRestart

(* No renewal overtakes an expiry: a mailbox whose time is up stays so, for *)
(* any number of calls and sweeps (service.ts:622-652).                    *)
THEOREM NoRevivalHolds == MailboxSpec => NoRevival
<1>1. MailboxInit => OnlyRowsLapse
  BY DEF MailboxInit, NoRow, OnlyRowsLapse
<1>2. MailboxInv /\ OnlyRowsLapse /\ [MailboxNext]_mailboxVars => OnlyRowsLapse'
  BY LifeStays DEF OnlyRowsLapse
<1>3. MailboxInv /\ OnlyRowsLapse /\ [MailboxNext]_mailboxVars =>
        [\A m \in Box : mailbox[m].life = "past" /\ mailbox'[m].status # "none"
           => mailbox'[m].life = "past"]_mailboxVars
  BY LifeStays
<1>4. QED
  BY <1>1, <1>2, <1>3, InitInv, MailboxStepInv, PTL DEF MailboxSpec, NoRevival

-----------------------------------------------------------------------------
(* Custom domains: a call past the DNS check has proven its own            *)
(* registration, and an active registration is a proven one.               *)
ProvenCalls ==
  \A c \in DomainCall :
    /\ check[c].pc # "idle" => check[c].id # NoId
    /\ check[c].pc \in {"provision", "dkim", "rollback", "records"} =>
         check[c].id \in proven

DomainInv == EmailDomainTypeOK /\ ActiveIsProven /\ ProvenCalls

Verifying == {"dns", "provision", "dkim", "rollback", "records"}
Deleting  == {"delete", "deleted"}

(* While no two calls have overlapped, none was cut off and no answer got  *)
(* lost: the call under way is the only one, it knows whether Stalwart has *)
(* the domain, and the row does not change behind a deletion's back.       *)
OneCall ==
  \A c, d \in DomainCall : check[c].pc # "idle" /\ check[d].pc # "idle" => c = d

CallKnows ==
  \A c \in DomainCall :
    /\ check[c].pc \in {"dkim", "records"} => principal
    /\ check[c].pc \in Verifying => ~ domain.active
    /\ check[c].pc \in Deleting => domain.active /\ domain.id = check[c].id

Undisturbed ==
  /\ OneCall /\ CallKnows
  /\ domain.active => principal \/ \E c \in DomainCall : check[c].pc = "deleted"

(* The two kinds of step a call makes in its own context.                  *)
LEMMA CheckMoves ==
  ASSUME EmailDomainTypeOK, NEW c \in DomainCall,
         \/ EndCheck(c)
         \/ \E place \in Verifying \cup Deleting : GotoCheck(c, place)
  PROVE  /\ check' \in [DomainCall -> Checks]
         /\ \A d \in DomainCall : d # c => check'[d] = check[d]
         /\ \/ check'[c].pc = "idle"
            \/ check'[c].id = check[c].id
<1>1. check \in [DomainCall -> Checks] /\ check[c] \in Checks /\ NoId \in 0..LastId
  BY EmailDomainAssumption DEF EmailDomainTypeOK, EmailDomainAssumption, NoId
<1>2. CASE EndCheck(c)
  <2>1. [pc |-> "idle", id |-> NoId] \in Checks
    BY <1>1 DEF Checks
  <2>2. QED
    BY <1>1, <1>2, <2>1 DEF EndCheck
<1>3. ASSUME NEW place \in Verifying \cup Deleting, GotoCheck(c, place)
      PROVE  /\ check' \in [DomainCall -> Checks]
             /\ \A d \in DomainCall : d # c => check'[d] = check[d]
             /\ check'[c].id = check[c].id
  <2>1. [check[c] EXCEPT !.pc = place] \in Checks
    BY <1>1, <1>3 DEF Checks, Verifying, Deleting
  <2>2. check' = [check EXCEPT ![c] = [check[c] EXCEPT !.pc = place]]
    BY <1>1, <1>3 DEF GotoCheck
  <2>3. check'[c] = [check[c] EXCEPT !.pc = place] /\ check[c].id = check'[c].id
    BY <1>1, <2>2 DEF Checks
  <2>4. QED
    BY <1>1, <2>1, <2>2, <2>3
<1>4. QED
  BY <1>2, <1>3

LEMMA PlaceNow ==
  ASSUME EmailDomainTypeOK, NEW c \in DomainCall
  PROVE  /\ EndCheck(c) => check'[c].pc = "idle"
         /\ \A place \in Verifying \cup Deleting :
              GotoCheck(c, place) => check'[c].pc = place
<1>1. check \in [DomainCall -> Checks] /\ check[c] \in Checks
  BY DEF EmailDomainTypeOK
<1>2. EndCheck(c) => check'[c].pc = "idle"
  BY <1>1 DEF EndCheck
<1>3. ASSUME NEW place \in Verifying \cup Deleting, GotoCheck(c, place)
      PROVE  check'[c].pc = place
  BY <1>1, <1>3 DEF GotoCheck, Checks
<1>4. QED
  BY <1>2, <1>3

(* An owner's call begins.                                                 *)
LEMMA CheckBegins ==
  ASSUME EmailDomainTypeOK, NEW c \in DomainCall, NEW place \in Verifying \cup Deleting,
         BeginCheck(c, place)
  PROVE  /\ check' \in [DomainCall -> Checks]
         /\ \A d \in DomainCall : d # c => check'[d] = check[d]
         /\ check'[c] = [pc |-> place, id |-> domain.id]
         /\ disturbed' \in BOOLEAN
         /\ ~ disturbed' => ~ disturbed /\ \A d \in DomainCall : check[d].pc = "idle"
<1>1. check \in [DomainCall -> Checks] /\ domain.id \in 0..LastId
  BY DEF EmailDomainTypeOK
<1>2. [pc |-> place, id |-> domain.id] \in Checks
  BY <1>1 DEF Checks, Verifying, Deleting
<1>3. disturbed' = (disturbed \/ \E d \in DomainCall : check[d].pc # "idle")
  BY DEF BeginCheck
<1>4. disturbed' \in BOOLEAN
  BY <1>3
<1>5. QED
  BY <1>1, <1>2, <1>3, <1>4 DEF BeginCheck

LEMMA DomainInitInv == EmailDomainInit => DomainInv /\ Undisturbed
<1> SUFFICES ASSUME EmailDomainInit PROVE DomainInv /\ Undisturbed
  OBVIOUS
<1>1. /\ domain = [id |-> NoId, last |-> 0, active |-> FALSE] /\ principal = FALSE
      /\ proven = {} /\ disturbed = FALSE
      /\ check = [c \in DomainCall |-> [pc |-> "idle", id |-> NoId]]
  BY DEF EmailDomainInit
<1>2. NoId \in 0..LastId /\ 0 \in 0..LastId
  BY EmailDomainAssumption DEF EmailDomainAssumption, NoId
<1>3. [pc |-> "idle", id |-> NoId] \in Checks
  BY <1>2 DEF Checks
<1>4. EmailDomainTypeOK
  BY <1>1, <1>2, <1>3 DEF EmailDomainTypeOK
<1>5. ActiveIsProven /\ ProvenCalls
  BY <1>1 DEF ActiveIsProven, ProvenCalls
<1>6. Undisturbed
  BY <1>1 DEF Undisturbed, OneCall, CallKnows, Verifying, Deleting
<1>7. QED
  BY <1>4, <1>5, <1>6 DEF DomainInv

(* A registration comes or goes while its row is not active.               *)
LEMMA RowSteps ==
  ASSUME DomainInv, ~ disturbed => Undisturbed,
         RegisterDomain \/ \E c \in DomainCall : DeletePending(c)
  PROVE  DomainInv' /\ (~ disturbed => Undisturbed)'
<1>1. LastId \in Nat
  BY EmailDomainAssumption DEF EmailDomainAssumption
<1>2. /\ domain'.active = FALSE
      /\ domain' \in [id : 0..LastId, last : 0..LastId, active : BOOLEAN]
      /\ ~ domain.active
  <2>1. CASE RegisterDomain
    BY <1>1, <2>1 DEF RegisterDomain, DomainInv, EmailDomainTypeOK, ActiveIsProven, NoId
  <2>2. ASSUME NEW c \in DomainCall, DeletePending(c) PROVE <1>2!1 /\ <1>2!2 /\ <1>2!3
    BY <1>1, <2>2 DEF DeletePending, DomainInv, EmailDomainTypeOK, NoId
  <2>3. QED
    BY <2>1, <2>2
<1>3. UNCHANGED <<principal, check, proven, disturbed>>
  BY DEF RegisterDomain, DeletePending
<1>4. DomainInv'
  BY <1>2, <1>3 DEF DomainInv, EmailDomainTypeOK, ActiveIsProven, ProvenCalls
<1>5. (~ disturbed => Undisturbed)'
  BY <1>2, <1>3 DEF Undisturbed, OneCall, CallKnows
<1>6. QED
  BY <1>4, <1>5

(* A call begins that verifies or deletes.                                 *)
LEMMA BeginSteps ==
  ASSUME DomainInv, ~ disturbed => Undisturbed, NEW c \in DomainCall,
         BeginVerify(c) \/ BeginDomainDelete(c)
  PROVE  DomainInv' /\ (~ disturbed => Undisturbed)'
<1>1. PICK place \in {"dns", "delete"} :
        BeginCheck(c, place) /\ (domain.active <=> place = "delete")
  BY DEF BeginVerify, BeginDomainDelete, DomainInv, EmailDomainTypeOK
<1>2. place \in Verifying \cup Deleting
  BY DEF Verifying, Deleting
<1>3. /\ check' \in [DomainCall -> Checks]
      /\ \A d \in DomainCall : d # c => check'[d] = check[d]
      /\ check'[c].pc = place /\ check'[c].id = domain.id
      /\ disturbed' \in BOOLEAN
      /\ ~ disturbed' => ~ disturbed /\ \A d \in DomainCall : check[d].pc = "idle"
  <2>1. EmailDomainTypeOK /\ BeginCheck(c, place)
    BY <1>1 DEF DomainInv
  <2>2. check'[c] = [pc |-> place, id |-> domain.id]
    BY <1>2, <2>1, CheckBegins
  <2>3. QED
    BY <1>2, <2>1, <2>2, CheckBegins
<1>4. domain.id # NoId
  BY <1>1 DEF BeginCheck
<1>4a. UNCHANGED <<domain, principal, proven>>
  BY <1>1 DEF BeginCheck
<1>5. DomainInv'
  BY <1>3, <1>4, <1>4a DEF DomainInv, EmailDomainTypeOK, ActiveIsProven, ProvenCalls
<1>6. ASSUME ~ disturbed' PROVE Undisturbed'
  <2>1. Undisturbed /\ \A d \in DomainCall : d # c => check'[d].pc = "idle"
    BY <1>3, <1>6
  <2>2. OneCall'
    BY <2>1 DEF OneCall
  <2>3. CallKnows'
    BY <1>1, <1>3, <1>4a, <2>1 DEF CallKnows, Verifying, Deleting
  <2>4. (domain.active => principal \/ \E d \in DomainCall : check[d].pc = "deleted")'
    BY <1>3, <1>4a, <1>6 DEF Undisturbed
  <2>5. QED
    BY <2>2, <2>3, <2>4 DEF Undisturbed
<1>7. QED
  BY <1>5, <1>6

(* The steps of a call under way keep what is known of each registration.  *)
LEMMA CallStepsInv ==
  ASSUME DomainInv, NEW c \in DomainCall,
         \/ VerifyDns(c) \/ Provision(c) \/ GenerateDkim(c) \/ RollBack(c)
         \/ Activate(c) \/ Unprovision(c) \/ DeleteDomainRow(c)
  PROVE  /\ DomainInv'
         /\ \A d \in DomainCall : d # c => check'[d] = check[d]
         /\ check'[c].pc = "idle" \/ check'[c].id = check[c].id
<1>1. \/ EndCheck(c) \/ \E place \in Verifying \cup Deleting : GotoCheck(c, place)
  BY DEF VerifyDns, Provision, GenerateDkim, RollBack, Activate, Unprovision,
         DeleteDomainRow, Verifying, Deleting
<1>2. /\ check' \in [DomainCall -> Checks]
      /\ \A d \in DomainCall : d # c => check'[d] = check[d]
      /\ check'[c].pc = "idle" \/ check'[c].id = check[c].id
  BY <1>1, CheckMoves DEF DomainInv
<1>3. check \in [DomainCall -> Checks] /\ check[c] \in Checks
  BY DEF DomainInv, EmailDomainTypeOK
<1>4. /\ check[c].pc # "idle" => check[c].id \in 1..LastId
      /\ check[c].pc \in {"provision", "dkim", "rollback", "records"} =>
           check[c].id \in proven
  BY <1>3 DEF DomainInv, ProvenCalls, Checks, NoId
<1>5. proven \subseteq proven' /\ proven' \subseteq 1..LastId
  <2>1. CASE VerifyDns(c)
    BY <1>4, <2>1 DEF VerifyDns, DomainInv, EmailDomainTypeOK
  <2>2. CASE ~ VerifyDns(c)
    BY <2>2 DEF Provision, GenerateDkim, RollBack, Activate, Unprovision,
                DeleteDomainRow, DomainInv, EmailDomainTypeOK
  <2>3. QED
    BY <2>1, <2>2
<1>6. /\ domain' \in [id : 0..LastId, last : 0..LastId, active : BOOLEAN]
      /\ domain'.active => domain'.id \in proven'
  <2>1. CASE Activate(c)
    <3>1. \/ UNCHANGED domain
          \/ domain' = [domain EXCEPT !.active = @ \/ domain.id = check[c].id]
      BY <2>1 DEF Activate
    <3>2. check[c].id \in proven
      BY <1>4, <2>1 DEF Activate
    <3>3. QED
      BY <1>5, <3>1, <3>2 DEF DomainInv, EmailDomainTypeOK, ActiveIsProven
  <2>2. CASE DeleteDomainRow(c)
    <3>1. \/ UNCHANGED domain
          \/ domain' = [domain EXCEPT !.id = NoId, !.active = FALSE]
      BY <2>2 DEF DeleteDomainRow
    <3>2. NoId \in 0..LastId
      BY EmailDomainAssumption DEF EmailDomainAssumption, NoId
    <3>3. QED
      BY <1>5, <3>1, <3>2 DEF DomainInv, EmailDomainTypeOK, ActiveIsProven
  <2>3. CASE UNCHANGED domain
    BY <1>5, <2>3 DEF DomainInv, EmailDomainTypeOK, ActiveIsProven
  <2>4. QED
    BY <2>1, <2>2, <2>3 DEF VerifyDns, Provision, GenerateDkim, RollBack, Unprovision
<1>7. principal' \in BOOLEAN /\ disturbed' \in BOOLEAN
  BY DEF DomainInv, EmailDomainTypeOK, VerifyDns, Provision, GenerateDkim, RollBack,
         Activate, Unprovision, DeleteDomainRow
<1>8. check'[c].pc \in {"provision", "dkim", "rollback", "records"} =>
        check'[c].id \in proven'
  <2>1. CASE VerifyDns(c)
    BY <1>2, <1>3, <2>1 DEF VerifyDns, GotoCheck, EndCheck, Checks
  <2>2. CASE Provision(c) \/ GenerateDkim(c)
    BY <1>2, <1>4, <1>5, <2>2 DEF Provision, GenerateDkim
  <2>3. CASE RollBack(c) \/ Activate(c) \/ Unprovision(c) \/ DeleteDomainRow(c)
    <3>1. EndCheck(c) \/ GotoCheck(c, "deleted")
      BY <2>3 DEF RollBack, Activate, Unprovision, DeleteDomainRow
    <3>2. check'[c].pc \in {"idle", "deleted"}
      BY <3>1, PlaceNow DEF Deleting, DomainInv
    <3>3. QED
      BY <3>2
  <2>4. QED
    BY <2>1, <2>2, <2>3
<1>9. check[c].pc # "idle"
  BY DEF VerifyDns, Provision, GenerateDkim, RollBack, Activate, Unprovision,
         DeleteDomainRow
<1>10. ProvenCalls'
  BY <1>2, <1>4, <1>5, <1>8, <1>9 DEF DomainInv, ProvenCalls, NoId
<1>11. QED
  BY <1>2, <1>5, <1>6, <1>7, <1>10 DEF DomainInv, EmailDomainTypeOK, ActiveIsProven

(* ... and what is known of the one call, while there is only one.         *)
LEMMA CallStepsUndisturbed ==
  ASSUME DomainInv, ~ disturbed => Undisturbed, NEW c \in DomainCall, ~ disturbed',
         \/ VerifyDns(c) \/ Provision(c) \/ GenerateDkim(c) \/ RollBack(c)
         \/ Activate(c) \/ Unprovision(c) \/ DeleteDomainRow(c)
  PROVE  Undisturbed'
<1>1. Undisturbed
  BY DEF VerifyDns, Provision, GenerateDkim, RollBack, Activate, Unprovision,
         DeleteDomainRow, DomainInv, EmailDomainTypeOK
<1>2. /\ \A d \in DomainCall : d # c => check'[d] = check[d]
      /\ check'[c].pc = "idle" \/ check'[c].id = check[c].id
  BY CallStepsInv
<1>3. check[c].pc # "idle"
  BY DEF VerifyDns, Provision, GenerateDkim, RollBack, Activate, Unprovision,
         DeleteDomainRow
<1>4. \A d \in DomainCall : d # c => check'[d].pc = "idle"
  BY <1>1, <1>2, <1>3 DEF Undisturbed, OneCall
<1>5. OneCall'
  BY <1>4 DEF OneCall
<1>6. SUFFICES /\ check'[c].pc \in {"dkim", "records"} => principal'
               /\ check'[c].pc \in Verifying => ~ domain'.active
               /\ check'[c].pc \in Deleting => domain'.active /\ domain'.id = check'[c].id
               /\ domain'.active => principal' \/ check'[c].pc = "deleted"
  BY <1>4, <1>5 DEF Undisturbed, CallKnows, Verifying, Deleting
<1>7. /\ check[c].pc \in {"dkim", "records"} => principal
      /\ check[c].pc \in Verifying => ~ domain.active
      /\ check[c].pc \in Deleting => domain.active /\ domain.id = check[c].id
      /\ domain.active => principal \/ check[c].pc = "deleted"
  BY <1>1, <1>3 DEF Undisturbed, OneCall, CallKnows
<1>8. check \in [DomainCall -> Checks] /\ check[c] \in Checks
  BY DEF DomainInv, EmailDomainTypeOK
<1>9. CASE VerifyDns(c) \/ Provision(c) \/ GenerateDkim(c)
  <2>1. /\ check[c].pc \in Verifying /\ UNCHANGED domain
        /\ \/ EndCheck(c) \/ GotoCheck(c, "provision") \/ GotoCheck(c, "rollback")
           \/ principal' /\ (GotoCheck(c, "dkim") \/ GotoCheck(c, "records"))
    BY <1>7, <1>9 DEF VerifyDns, Provision, GenerateDkim, Verifying
  <2>2. \/ check'[c].pc \in {"idle", "provision", "rollback"}
        \/ principal' /\ check'[c].pc \in {"dkim", "records"}
    BY <2>1, PlaceNow DEF Verifying, DomainInv
  <2>3. QED
    BY <1>7, <2>1, <2>2 DEF Verifying, Deleting
<1>10. CASE RollBack(c)
  BY <1>7, <1>8, <1>10 DEF RollBack, Verifying, Deleting, EndCheck, Checks
<1>11. CASE Activate(c)
  <2>1. check'[c].pc = "idle" /\ principal' = principal /\ principal
    BY <1>7, <1>8, <1>11 DEF Activate, EndCheck
  <2>2. QED
    BY <2>1 DEF Verifying, Deleting
<1>12. CASE Unprovision(c)
  <2>1. /\ check[c].pc = "delete" /\ UNCHANGED domain
        /\ \/ GotoCheck(c, "deleted")
           \/ EndCheck(c) /\ principal' = principal
    BY <1>12 DEF Unprovision
  <2>2. \/ check'[c].pc = "deleted"
        \/ check'[c].pc = "idle" /\ principal' = principal
    BY <2>1, PlaceNow DEF Deleting, DomainInv
  <2>3. QED
    BY <1>2, <1>7, <2>1, <2>2 DEF Verifying, Deleting
<1>13. CASE DeleteDomainRow(c)
  <2>1. check'[c].pc = "idle" /\ domain' = [domain EXCEPT !.id = NoId, !.active = FALSE]
    BY <1>7, <1>8, <1>13 DEF DeleteDomainRow, EndCheck, Deleting
  <2>2. ~ domain'.active
    BY <2>1 DEF DomainInv, EmailDomainTypeOK
  <2>3. QED
    BY <2>1, <2>2 DEF Verifying, Deleting
<1>14. QED
  BY <1>9, <1>10, <1>11, <1>12, <1>13

LEMMA DomainRestartInv ==
  ASSUME DomainInv, EmailDomainRestart
  PROVE  DomainInv' /\ (~ disturbed => Undisturbed)'
<1>1. [pc |-> "idle", id |-> NoId] \in Checks
  BY EmailDomainAssumption DEF EmailDomainAssumption, Checks, NoId
<1>2. /\ check' = [c \in DomainCall |-> [pc |-> "idle", id |-> NoId]]
      /\ disturbed' = TRUE /\ UNCHANGED <<domain, principal, proven>>
  BY DEF EmailDomainRestart
<1>3. QED
  BY <1>1, <1>2 DEF DomainInv, EmailDomainTypeOK, ActiveIsProven, ProvenCalls

LEMMA DomainInvariant == EmailDomainSpec => [](DomainInv /\ (~ disturbed => Undisturbed))
<1>1. ASSUME DomainInv, ~ disturbed => Undisturbed, [EmailDomainNext]_emailDomainVars
      PROVE  DomainInv' /\ (~ disturbed => Undisturbed)'
  <2>1. CASE UNCHANGED emailDomainVars
    BY <1>1, <2>1 DEF emailDomainVars, DomainInv, EmailDomainTypeOK, ActiveIsProven,
       ProvenCalls, Undisturbed, OneCall, CallKnows
  <2>2. CASE RegisterDomain \/ \E c \in DomainCall : DeletePending(c)
    BY <1>1, <2>2, RowSteps
  <2>3. ASSUME NEW c \in DomainCall, BeginVerify(c) \/ BeginDomainDelete(c)
        PROVE  DomainInv' /\ (~ disturbed => Undisturbed)'
    BY <1>1, <2>3, BeginSteps
  <2>4. ASSUME NEW c \in DomainCall,
               \/ VerifyDns(c) \/ Provision(c) \/ GenerateDkim(c) \/ RollBack(c)
               \/ Activate(c) \/ Unprovision(c) \/ DeleteDomainRow(c)
        PROVE  DomainInv' /\ (~ disturbed => Undisturbed)'
    BY <1>1, <2>4, CallStepsInv, CallStepsUndisturbed
  <2>5. CASE EmailDomainRestart
    BY <1>1, <2>5, DomainRestartInv
  <2>6. QED
    BY <1>1, <2>1, <2>2, <2>3, <2>4, <2>5 DEF EmailDomainNext
<1>2. QED
  BY <1>1, DomainInitInv, PTL DEF EmailDomainSpec

-----------------------------------------------------------------------------
(* Webhooks: a delivery under way has a hook to go to, a hook without a    *)
(* row has counted nothing, and one with a row never counts more failures  *)
(* than there have been in a row.                                          *)
HooksCount ==
  /\ \A d \in Delivery : delivery[d].attempt > 0 => delivery[d].hook \in Hook
  /\ \A h \in Hook : /\ hook[h].box = NoMailbox => hook[h] = NoHookRow
                     /\ hook[h].fails <= streak[h]

WebhookInv == WebhookTypeOK /\ HooksHearOwnMail /\ HooksCount

LEMMA RowsOfHooks ==
  NoHookRow \in HookRows /\ Quiet \in Deliveries /\ NoHookRow.fails = 0
BY WebhooksAssumption
   DEF WebhooksAssumption, NoHookRow, HookRows, Quiet, Deliveries, NoMailbox, NoHook, NoOne

LEMMA WebhookInitInv == WebhookInit => WebhookInv
<1> SUFFICES ASSUME WebhookInit PROVE WebhookInv
  OBVIOUS
<1>1. WebhookTypeOK
  <2>1. 0 \in 0..LastBox /\ NoMailbox \in 0..LastBox
    BY WebhooksAssumption DEF WebhooksAssumption, NoMailbox
  <2>2. holder \in [Address -> 0..LastBox] /\ lastBox \in 0..LastBox
        /\ owner \in [1..LastBox -> Wallet \cup {NoOne}]
    BY <2>1 DEF WebhookInit
  <2>3. hook \in [Hook -> HookRows] /\ delivery \in [Delivery -> Deliveries]
        /\ streak \in [Hook -> Nat]
    BY RowsOfHooks DEF WebhookInit
  <2>4. QED
    BY <2>2, <2>3 DEF WebhookTypeOK
<1>2. HooksHearOwnMail /\ HooksCount
  BY DEF WebhookInit, HooksHearOwnMail, HooksCount, Quiet, NoHookRow
<1>3. QED
  BY <1>1, <1>2 DEF WebhookInv

(* Mailboxes and hooks come and go.                                        *)
LEMMA OwnerSteps ==
  ASSUME WebhookInv, NEW a \in Address,
         \/ \E w \in Wallet : OpenMailbox(w, a)
         \/ CloseMailbox(a) \/ RegisterWebhook(a) \/ DeleteWebhook(a)
  PROVE  WebhookInv'
<1>1. /\ hook \in [Hook -> HookRows] /\ streak \in [Hook -> Nat]
      /\ holder \in [Address -> 0..LastBox] /\ lastBox \in 0..LastBox
      /\ owner \in [1..LastBox -> Wallet \cup {NoOne}] /\ LastBox \in Nat
  BY WebhooksAssumption DEF WebhooksAssumption, WebhookInv, WebhookTypeOK
<1>2. UNCHANGED delivery
  BY DEF OpenMailbox, CloseMailbox, RegisterWebhook, DeleteWebhook
<1>3. SUFFICES /\ holder' \in [Address -> 0..LastBox] /\ lastBox' \in 0..LastBox
               /\ owner' \in [1..LastBox -> Wallet \cup {NoOne}]
               /\ hook' \in [Hook -> HookRows] /\ streak' \in [Hook -> Nat]
               /\ \A h \in Hook : /\ hook'[h].box = NoMailbox => hook'[h] = NoHookRow
                                  /\ hook'[h].fails <= streak'[h]
  BY <1>2 DEF WebhookInv, WebhookTypeOK, HooksHearOwnMail, HooksCount
<1>4. \A h \in Hook : /\ hook[h] \in HookRows /\ streak[h] \in Nat
                      /\ hook[h].box = NoMailbox => hook[h] = NoHookRow
                      /\ hook[h].fails <= streak[h]
  BY <1>1 DEF WebhookInv, HooksCount
<1>5. ASSUME NEW w \in Wallet, OpenMailbox(w, a) PROVE <1>3!1
  <2>1. lastBox + 1 \in 1..LastBox
    BY <1>1, <1>5 DEF OpenMailbox
  <2>2. QED
    BY <1>1, <1>4, <1>5, <2>1 DEF OpenMailbox
<1>6. CASE CloseMailbox(a)
  <2>1. holder' \in [Address -> 0..LastBox]
    BY <1>1, <1>6 DEF CloseMailbox, NoMailbox
  <2>2. hook' \in [Hook -> HookRows]
        /\ \A h \in Hook : hook'[h] = NoHookRow \/ hook'[h] = hook[h]
    BY <1>1, <1>6, RowsOfHooks DEF CloseMailbox
  <2>3. QED
    BY <1>1, <1>4, <1>6, <2>1, <2>2, RowsOfHooks DEF CloseMailbox
<1>7. CASE RegisterWebhook(a)
  <2>1. PICK h \in Hook : /\ hook' = [hook EXCEPT ![h] = [NoHookRow EXCEPT !.box = holder[a]]]
                          /\ streak' = [streak EXCEPT ![h] = 0]
    BY <1>7 DEF RegisterWebhook
  <2>2. holder[a] # NoMailbox /\ UNCHANGED <<holder, owner, lastBox>>
    BY <1>7 DEF RegisterWebhook
  <2>3. DEFINE row == [NoHookRow EXCEPT !.box = holder[a]]
  <2>4. row \in HookRows /\ row.fails = 0 /\ row.box = holder[a]
    BY <1>1, WebhooksAssumption DEF NoHookRow, HookRows
  <2>5. hook' = [hook EXCEPT ![h] = row]
    BY <2>1
  <2> HIDE DEF row
  <2>6. hook' \in [Hook -> HookRows] /\ streak' \in [Hook -> Nat]
    BY <1>1, <2>1, <2>4, <2>5
  <2>7. ASSUME NEW g \in Hook
        PROVE  /\ hook'[g].box = NoMailbox => hook'[g] = NoHookRow
               /\ hook'[g].fails <= streak'[g]
    <3>1. CASE g = h
      <4>1. hook'[g] = row /\ streak'[g] = 0
        BY <1>1, <2>1, <2>5, <3>1
      <4>2. QED
        BY <2>2, <2>4, <4>1
    <3>2. CASE g # h
      <4>1. hook'[g] = hook[g] /\ streak'[g] = streak[g]
        BY <1>1, <2>1, <2>5, <3>2
      <4>2. QED
        BY <1>4, <4>1
    <3>3. QED
      BY <3>1, <3>2
  <2>8. QED
    BY <1>1, <2>2, <2>6, <2>7
<1>8. CASE DeleteWebhook(a)
  <2>1. PICK h \in Hook : hook' = [hook EXCEPT ![h] = NoHookRow]
    BY <1>8 DEF DeleteWebhook
  <2>2. UNCHANGED <<holder, owner, lastBox, streak>>
    BY <1>8 DEF DeleteWebhook
  <2>3. QED
    BY <1>1, <1>4, <2>1, <2>2, RowsOfHooks
<1>9. QED
  BY <1>5, <1>6, <1>7, <1>8

(* Mail comes in.                                                          *)
LEMMA IngestInv ==
  ASSUME WebhookInv, NEW a \in Address, Ingest(a)
  PROVE  WebhookInv'
<1>1. /\ hook \in [Hook -> HookRows] /\ delivery \in [Delivery -> Deliveries]
      /\ holder \in [Address -> 0..LastBox]
      /\ owner \in [1..LastBox -> Wallet \cup {NoOne}]
      /\ MaxAttempts \in Nat \ {0} /\ LastBox \in Nat
  BY WebhooksAssumption DEF WebhooksAssumption, WebhookInv, WebhookTypeOK
<1>2. PICK f \in [HooksOf(a) -> {d \in Delivery : delivery[d] = Quiet}] :
        delivery' = [d \in Delivery |->
            IF \E h \in HooksOf(a) : f[h] = d
            THEN LET h == CHOOSE h \in HooksOf(a) : f[h] = d IN
                 [hook |-> h, for |-> owner[holder[a]], to |-> owner[hook[h].box],
                  attempt |-> 1]
            ELSE delivery[d]]
  BY DEF Ingest
<1>3. ASSUME NEW d \in Delivery
      PROVE  \/ delivery'[d] = delivery[d]
             \/ \E h \in HooksOf(a) :
                  delivery'[d] = [hook |-> h, for |-> owner[holder[a]],
                                  to |-> owner[hook[h].box], attempt |-> 1]
  <2>1. CASE \E h \in HooksOf(a) : f[h] = d
    <3> DEFINE h == CHOOSE h \in HooksOf(a) : f[h] = d
    <3>1. h \in HooksOf(a)
      BY <2>1
    <3>2. delivery'[d] = [hook |-> h, for |-> owner[holder[a]],
                          to |-> owner[hook[h].box], attempt |-> 1]
      BY <1>2, <2>1
    <3>3. QED
      BY <3>1, <3>2
  <2>2. CASE ~ \E h \in HooksOf(a) : f[h] = d
    BY <1>2, <2>2
  <2>3. QED
    BY <2>1, <2>2
<1>4. ASSUME NEW d \in Delivery
      PROVE  /\ delivery'[d] \in Deliveries
             /\ delivery'[d].for = delivery'[d].to
             /\ delivery'[d].attempt > 0 => delivery'[d].hook \in Hook
  <2>1. CASE delivery'[d] = delivery[d]
    BY <1>1, <2>1 DEF WebhookInv, HooksHearOwnMail, HooksCount
  <2>2. ASSUME NEW h \in HooksOf(a),
               delivery'[d] = [hook |-> h, for |-> owner[holder[a]],
                               to |-> owner[hook[h].box], attempt |-> 1]
        PROVE  <1>4!2
    <3>1. /\ h \in Hook /\ hook[h].box = holder[a] /\ holder[a] \in 1..LastBox
      BY <1>1 DEF HooksOf, NoMailbox
    <3>2. owner[holder[a]] \in Wallet \cup {NoOne} /\ 1 \in 0..MaxAttempts
      BY <1>1, <3>1
    <3>3. QED
      BY <2>2, <3>1, <3>2 DEF Deliveries
  <2>3. QED
    BY <1>3, <2>1, <2>2
<1>5. delivery' \in [Delivery -> Deliveries]
  <2>1. DOMAIN delivery' = Delivery /\ delivery' = [d \in Delivery |-> delivery'[d]]
    BY <1>2
  <2>2. QED
    BY <1>4, <2>1
<1>6. UNCHANGED <<holder, owner, lastBox, hook, streak>>
  BY DEF Ingest
<1>7. QED
  BY <1>4, <1>5, <1>6 DEF WebhookInv, WebhookTypeOK, HooksHearOwnMail, HooksCount

(* What is counted at the end of a delivery.                               *)
LEMMA CountedHook ==
  ASSUME WebhookInv, NEW h \in Hook, NEW fails \in Nat, NEW seen \in Nat,
         NEW status \in {"active", "paused"}, fails <= seen,
         UpdateHook(h, [hook[h] EXCEPT !.fails = fails, !.status = status]),
         streak' = [streak EXCEPT ![h] = seen]
  PROVE  /\ hook' \in [Hook -> HookRows] /\ streak' \in [Hook -> Nat]
         /\ \A g \in Hook : /\ hook'[g].box = NoMailbox => hook'[g] = NoHookRow
                            /\ hook'[g].fails <= streak'[g]
         /\ \A g \in Hook : g # h => hook'[g] = hook[g]
         /\ \/ hook'[h] = hook[h]
            \/ hook'[h].status = status
<1>1. /\ hook \in [Hook -> HookRows] /\ streak \in [Hook -> Nat]
      /\ \A g \in Hook : /\ hook[g] \in HookRows /\ streak[g] \in Nat
                         /\ hook[g].box = NoMailbox => hook[g] = NoHookRow
                         /\ hook[g].fails <= streak[g]
  BY DEF WebhookInv, WebhookTypeOK, HooksCount
<1>2. streak' \in [Hook -> Nat] /\ streak'[h] = seen
      /\ \A g \in Hook : g # h => streak'[g] = streak[g]
  BY <1>1
<1>3. CASE hook[h].box = NoMailbox
  <2>1. hook' = hook /\ hook[h].fails = 0
    BY <1>1, <1>3, RowsOfHooks DEF UpdateHook
  <2>2. QED
    BY <1>1, <1>2, <2>1
<1>4. CASE hook[h].box # NoMailbox
  <2> DEFINE row == [hook[h] EXCEPT !.fails = fails, !.status = status]
  <2>1. row \in HookRows /\ row.fails = fails /\ row.box = hook[h].box
        /\ row.status = status
    BY <1>1 DEF HookRows
  <2>2. hook' = [hook EXCEPT ![h] = row]
    BY <1>4 DEF UpdateHook
  <2> HIDE DEF row
  <2>3. QED
    BY <1>1, <1>2, <1>4, <2>1, <2>2
<1>5. QED
  BY <1>3, <1>4

(* A delivery ends, or is tried again.                                     *)
LEMMA DeliverySteps ==
  ASSUME WebhookInv, NEW d \in Delivery,
         Delivered(d) \/ DeliveryFailed(d) \/ RetryDelivery(d)
  PROVE  /\ WebhookInv'
         /\ \A h \in Hook : hook[h].status = "active" /\ hook'[h].status = "paused"
              => streak'[h] >= PauseAfter
<1> DEFINE h == delivery[d].hook
<1>1. /\ hook \in [Hook -> HookRows] /\ streak \in [Hook -> Nat]
      /\ delivery \in [Delivery -> Deliveries] /\ MaxAttempts \in Nat \ {0}
      /\ PauseAfter \in Nat \ {0}
  BY WebhooksAssumption DEF WebhooksAssumption, WebhookInv, WebhookTypeOK
<1>2. h \in Hook /\ hook[h] \in HookRows /\ streak[h] \in Nat
      /\ hook[h].fails \in Nat /\ hook[h].fails <= streak[h]
      /\ hook[h].status \in {"active", "paused"}
  <2>1. h \in Hook
    BY <1>1 DEF Delivered, DeliveryFailed, RetryDelivery, WebhookInv, HooksCount, Deliveries
  <2>2. QED
    BY <1>1, <2>1 DEF WebhookInv, HooksCount, HookRows
<1>3. UNCHANGED <<holder, owner, lastBox>>
  BY DEF Delivered, DeliveryFailed, RetryDelivery
<1>4. /\ delivery' \in [Delivery -> Deliveries]
      /\ \A e \in Delivery :
           /\ delivery'[e].for = delivery'[e].to
           /\ delivery'[e].attempt > 0 => delivery'[e].hook \in Hook
  <2>1. CASE Delivered(d) \/ DeliveryFailed(d)
    <3>1. delivery' = [delivery EXCEPT ![d] = Quiet]
      BY <2>1 DEF Delivered, DeliveryFailed, EndDelivery
    <3>2. Quiet.for = Quiet.to /\ Quiet.attempt = 0
      BY DEF Quiet
    <3>3. QED
      BY <1>1, <3>1, <3>2, RowsOfHooks DEF WebhookInv, HooksHearOwnMail, HooksCount
  <2>2. CASE RetryDelivery(d)
    <3> DEFINE next == [delivery[d] EXCEPT !.attempt = @ + 1]
    <3>1. delivery[d].attempt + 1 \in 0..MaxAttempts
      BY <1>1, <2>2 DEF RetryDelivery
    <3>2. next \in Deliveries /\ next.for = delivery[d].for /\ next.to = delivery[d].to
          /\ next.hook = h
      BY <1>1, <3>1 DEF Deliveries
    <3>3. delivery' = [delivery EXCEPT ![d] = next]
      BY <2>2 DEF RetryDelivery
    <3> HIDE DEF next
    <3>4. QED
      BY <1>1, <1>2, <3>2, <3>3 DEF WebhookInv, HooksHearOwnMail, HooksCount
  <2>3. QED
    BY <2>1, <2>2
<1>5. SUFFICES /\ hook' \in [Hook -> HookRows] /\ streak' \in [Hook -> Nat]
               /\ \A g \in Hook : /\ hook'[g].box = NoMailbox => hook'[g] = NoHookRow
                                  /\ hook'[g].fails <= streak'[g]
                                  /\ hook[g].status = "active" /\ hook'[g].status = "paused"
                                       => streak'[g] >= PauseAfter
  BY <1>3, <1>4 DEF WebhookInv, WebhookTypeOK, HooksHearOwnMail, HooksCount
<1>6. CASE Delivered(d)
  <2> DEFINE status == hook[h].status
             fails == 0
  <2>1. UpdateHook(h, [hook[h] EXCEPT !.fails = 0]) /\ streak' = [streak EXCEPT ![h] = 0]
    BY <1>6 DEF Delivered
  <2>2. [hook[h] EXCEPT !.fails = 0] = [hook[h] EXCEPT !.fails = 0, !.status = status]
    BY <1>2 DEF HookRows
  <2>3. /\ UpdateHook(h, [hook[h] EXCEPT !.fails = fails, !.status = status])
        /\ streak' = [streak EXCEPT ![h] = fails]
    BY <2>1, <2>2
  <2>4. /\ status \in {"active", "paused"} /\ status = hook[h].status /\ h \in Hook
        /\ fails \in Nat /\ fails <= fails
    BY <1>2
  <2> HIDE DEF h, status, fails
  <2>5. /\ hook' \in [Hook -> HookRows] /\ streak' \in [Hook -> Nat]
        /\ \A g \in Hook : /\ hook'[g].box = NoMailbox => hook'[g] = NoHookRow
                           /\ hook'[g].fails <= streak'[g]
        /\ \A g \in Hook : g # h => hook'[g] = hook[g]
        /\ hook'[h] = hook[h] \/ hook'[h].status = status
    BY <2>3, <2>4, CountedHook
  <2>6. QED
    BY <2>4, <2>5
<1>7. CASE DeliveryFailed(d)
  <2> DEFINE fails == hook[h].fails + 1
             status == IF fails >= PauseAfter THEN "paused" ELSE hook[h].status
             seen == streak[h] + 1
  <2>1. UpdateHook(h, [hook[h] EXCEPT !.fails = fails, !.status = status])
        /\ streak' = [streak EXCEPT ![h] = seen]
    BY <1>1, <1>2, <1>7 DEF DeliveryFailed, HookRows
  <2>2. fails \in Nat /\ seen \in Nat /\ fails <= seen /\ status \in {"active", "paused"}
    BY <1>2
  <2>3. status = "paused" => fails >= PauseAfter \/ hook[h].status = "paused"
    BY <1>2
  <2>4. streak'[h] = seen
    BY <1>1, <1>2, <2>1
  <2> HIDE DEF fails, status, seen
  <2> HIDE DEF h
  <2>5. /\ hook' \in [Hook -> HookRows] /\ streak' \in [Hook -> Nat]
        /\ \A g \in Hook : /\ hook'[g].box = NoMailbox => hook'[g] = NoHookRow
                           /\ hook'[g].fails <= streak'[g]
        /\ \A g \in Hook : g # h => hook'[g] = hook[g]
        /\ hook'[h] = hook[h] \/ hook'[h].status = status
    BY <1>2, <2>1, <2>2, CountedHook
  <2>6. hook[h].status = "active" /\ hook'[h].status = "paused" => seen >= PauseAfter
    BY <1>1, <1>2, <2>2, <2>3, <2>5
  <2>7. QED
    BY <2>4, <2>5, <2>6
<1>8. CASE RetryDelivery(d)
  <2>1. UNCHANGED <<hook, streak>>
    BY <1>8 DEF RetryDelivery
  <2>2. QED
    BY <1>1, <2>1 DEF WebhookInv, HooksCount
<1>9. QED
  BY <1>6, <1>7, <1>8

(* One step of the webhooks, whatever it is.                               *)
LEMMA WebhookStepInv ==
  ASSUME WebhookInv, [WebhookNext]_webhookVars
  PROVE  /\ WebhookInv'
         /\ \A h \in Hook : hook[h].status = "active" /\ hook'[h].status = "paused"
              => streak'[h] >= PauseAfter
<1>1. hook \in [Hook -> HookRows] /\ LastBox \in Nat
  BY WebhooksAssumption DEF WebhooksAssumption, WebhookInv, WebhookTypeOK
<1>2. CASE UNCHANGED webhookVars
  BY <1>2 DEF webhookVars, WebhookInv, WebhookTypeOK, HooksHearOwnMail, HooksCount
<1>3. ASSUME NEW a \in Address,
             \/ \E w \in Wallet : OpenMailbox(w, a)
             \/ CloseMailbox(a) \/ RegisterWebhook(a) \/ DeleteWebhook(a) \/ Ingest(a)
      PROVE  /\ WebhookInv'
             /\ \A h \in Hook : hook'[h] = hook[h] \/ hook'[h].status = "active"
  <2>1. WebhookInv'
    BY <1>3, OwnerSteps, IngestInv
  <2>2. ASSUME NEW h \in Hook PROVE hook'[h] = hook[h] \/ hook'[h].status = "active"
    <3>1. NoHookRow.status = "active"
      BY DEF NoHookRow
    <3>2. CASE RegisterWebhook(a)
      <4>1. PICK g \in Hook :
              hook' = [hook EXCEPT ![g] = [NoHookRow EXCEPT !.box = holder[a]]]
        BY <3>2 DEF RegisterWebhook
      <4>2. [NoHookRow EXCEPT !.box = holder[a]].status = "active"
        BY DEF NoHookRow
      <4>3. QED
        BY <1>1, <4>1, <4>2
    <3>3. CASE ~ RegisterWebhook(a)
      BY <1>1, <1>3, <3>1, <3>3 DEF OpenMailbox, CloseMailbox, DeleteWebhook, Ingest
    <3>4. QED
      BY <3>2, <3>3
  <2>3. QED
    BY <2>1, <2>2
<1>4. ASSUME NEW d \in Delivery, Delivered(d) \/ RetryDelivery(d) \/ DeliveryFailed(d)
      PROVE  /\ WebhookInv'
             /\ \A h \in Hook : hook[h].status = "active" /\ hook'[h].status = "paused"
                  => streak'[h] >= PauseAfter
  BY <1>4, DeliverySteps
<1>5. CASE WebhookRestart
  <2>1. /\ delivery' = [d \in Delivery |-> Quiet]
        /\ UNCHANGED <<holder, owner, lastBox, hook, streak>>
    BY <1>5 DEF WebhookRestart
  <2>2. Quiet.for = Quiet.to /\ Quiet.attempt = 0
    BY DEF Quiet
  <2>3. QED
    BY <2>1, <2>2, RowsOfHooks DEF WebhookInv, WebhookTypeOK, HooksHearOwnMail, HooksCount
<1>6. QED
  BY <1>2, <1>3, <1>4, <1>5 DEF WebhookNext, webhookVars

LEMMA WebhookInvariant == WebhookSpec => []WebhookInv
BY WebhookInitInv, WebhookStepInv, PTL DEF WebhookSpec

(* A hook is paused only after that many failures in a row, for any number *)
(* of deliveries at once (webhook-delivery.ts:98-123).                     *)
THEOREM PausedForCauseHolds == WebhookSpec => PausedForCause
<1>1. WebhookInv /\ [WebhookNext]_webhookVars =>
        [\A h \in Hook : hook[h].status = "active" /\ hook'[h].status = "paused"
           => streak'[h] >= PauseAfter]_webhookVars
  BY WebhookStepInv
<1>2. QED
  BY <1>1, WebhookInvariant, PTL DEF WebhookSpec, PausedForCause
-----------------------------------------------------------------------------
(* Side by side: each part runs as it does alone.                          *)
LEMMA PartsRun == EmailSpec => MailboxSpec /\ EmailDomainSpec /\ WebhookSpec
<1>1. EmailInit => MailboxInit /\ EmailDomainInit /\ WebhookInit
  BY DEF EmailInit
<1>2. [EmailNext]_emailVars =>
        [MailboxNext]_mailboxVars /\ [EmailDomainNext]_emailDomainVars
          /\ [WebhookNext]_webhookVars
  BY DEF EmailNext, emailVars, webhookVars, emailDomainVars, mailboxVars
<1>3. QED
  BY <1>1, <1>2, PTL DEF EmailSpec, MailboxSpec, EmailDomainSpec, WebhookSpec

(* email.sh keeps to its types, for any number of mailboxes, calls, sweeps, *)
(* registrations, hooks and deliveries (packages/email/src).                *)
THEOREM EmailTypeCorrect == EmailSpec => []EmailTypeOK
<1>1. MailboxInv /\ DomainInv /\ WebhookInv => EmailTypeOK
  BY DEF MailboxInv, DomainInv, WebhookInv, EmailTypeOK
<1>2. QED
  BY <1>1, PartsRun, AccountsInvariant, DomainInvariant, WebhookInvariant, PTL

(* The tables of email.sh are true of what they are about: the accounts and *)
(* the domains Stalwart has, and whose mail a hook hears                    *)
(* (service.ts:186-1083, expiry.ts:26-83).                                  *)
THEOREM MailRowsAreTrue == EmailSpec => []MailRowsHold
<1>1. DomainInv /\ (~ disturbed => Undisturbed) => ActiveIsReal
  BY DEF DomainInv, EmailDomainTypeOK, Undisturbed, ActiveIsReal, ActiveIsProvisioned
<1>2. MailboxInv /\ (Reliable => AccountsInv) => AccountsMatch
  BY AccountsMatchInv
<1>3. WebhookInv => HooksHearOwnMail
  BY DEF WebhookInv
<1>4. AccountsMatch /\ ActiveIsReal /\ HooksHearOwnMail => MailRowsHold
  BY DEF MailRowsHold
<1>5. QED
  BY <1>1, <1>2, <1>3, <1>4, PartsRun, AccountsInvariant, DomainInvariant,
     WebhookInvariant, PTL
=============================================================================
