--------------------------- MODULE DomainRecords ----------------------------
(***************************************************************************)
(* domain.sh's DNS records (packages/domain/src/service.ts, db.ts and      *)
(* cloudflare.ts): the records of one zone, at Cloudflare and as rows.     *)
(* Every call asks Cloudflare first and writes what it answers.  Setting   *)
(* up mail makes or updates one record of each kind it needs, by what is   *)
(* there at Cloudflare, so that it may be called again.                    *)
(***************************************************************************)
EXTENDS Integers, Sequences, FiniteSets

CONSTANTS Rec,            (* records, as numbers                           *)
          Kind,           (* types and names of records                    *)
          MailKinds,      (* those that mail needs, in order               *)
          Content,        (* content, ttl and priority of a record         *)
          Match,          (* those a spec's matchFn accepts: MX records of *)
                          (* priority 10, TXT that begins with v=spf1      *)
          ByHand,         (* what callers write themselves                 *)
          RecCall,        (* as many calls may be under way at once        *)
          RecLimit        (* bound: calls                                  *)

NoRec == 0
NoValue == [name |-> "none", content |-> "none", proxied |-> FALSE]
MailKind == {MailKinds[i] : i \in DOMAIN MailKinds}

Value == [name : Kind, content : Content, proxied : BOOLEAN] \cup {NoValue}

(* What mail setup writes, it finds again.                                 *)
MailContent == {x \in Content : \A k \in MailKind : x \in Match[k]}

ASSUME RecordsAssumption ==
  /\ Rec \subseteq Nat \ {NoRec} /\ MailKind \subseteq Kind /\ "none" \notin Kind
  /\ Len(MailKinds) \in Nat \ {0} /\ DOMAIN MailKinds = 1..Len(MailKinds)
  /\ \A i, j \in DOMAIN MailKinds : MailKinds[i] = MailKinds[j] => i = j
  /\ Match \in [MailKind -> SUBSET Content]
  /\ ByHand \subseteq [name : Kind, content : Content, proxied : BOOLEAN]
  /\ RecLimit \in Nat

VARIABLES zone,       (* is there a row; external: is it at Cloudflare     *)
          recRow,     (* records in SQLite                                 *)
          cfRec,      (* external: the zone's records at Cloudflare        *)
          recCall,    (* the calls under way                               *)
          recCalls,   (* calls so far                                      *)
          tangled,    (* history: records of calls that overlapped, whose  *)
                      (* answer got lost, or that a batch left undeleted   *)
          unproxied,  (* history: records that mail setup was the last to  *)
                      (* update                                            *)
          doubled     (* history: two mail setups overlapped, or somebody  *)
                      (* has by hand made a record that they look for      *)

recordVars == <<zone, recRow, cfRec, recCall, recCalls, tangled, unproxied, doubled>>

NoRecCall == [pc |-> "idle", make |-> NoRec, change |-> NoRec, drop |-> NoRec,
              made |-> NoValue, changed |-> NoValue, content |-> "none", step |-> 0]

RecordsTypeOK ==
  /\ zone \in [row : BOOLEAN, cf : BOOLEAN]
  /\ recRow \in [Rec -> Value] /\ cfRec \in [Rec -> Value]
  /\ recCall \in [RecCall ->
       [pc   : {"idle", "list", "ask", "answered", "drop_zone", "zone_dropped"},
        make : Rec \cup {NoRec}, change : Rec \cup {NoRec}, drop : Rec \cup {NoRec},
        made : Value, changed : Value,
        content : MailContent \cup {"none"}, step : 0..Len(MailKinds)]]
  /\ recCalls \in 0..RecLimit
  /\ tangled \subseteq Rec /\ unproxied \subseteq Rec /\ doubled \in BOOLEAN

RecordsInit ==
  /\ zone = [row |-> TRUE, cf |-> TRUE]
  /\ recRow = [r \in Rec |-> NoValue] /\ cfRec = recRow
  /\ recCall = [c \in RecCall |-> NoRecCall]
  /\ recCalls = 0 /\ tangled = {} /\ unproxied = {} /\ doubled = FALSE

-----------------------------------------------------------------------------
Items(x) == {x.make, x.change, x.drop} \ {NoRec}
InWork(r) == \E c \in RecCall : recCall[c].pc # "idle" /\ r \in Items(recCall[c])
Unused(r) == recRow[r] = NoValue /\ cfRec[r] = NoValue /\ ~ InWork(r) /\ r \notin tangled

(* Ids are made anew: which unused one it is does not matter.              *)
Fresh(r) == Unused(r) /\ \A q \in Rec : Unused(q) => r <= q

Recorded == {r \in Rec : recRow[r] # NoValue}

(* checkZoneOwnership: a row, and the caller's.                            *)
MayAsk(c) == recCall[c].pc = "idle" /\ recCalls < RecLimit /\ zone.row

Ask(c, x) ==
  /\ MayAsk(c)
  /\ recCalls' = recCalls + 1
  /\ recCall' = [recCall EXCEPT ![c] = x]
  /\ tangled' = tangled \cup {r \in Items(x) : InWork(r)}
  /\ UNCHANGED <<zone, recRow, cfRec, unproxied>>

(* Which values a request asks for is told by what Cloudflare makes of it. *)
Request(make, change, drop) ==
  [NoRecCall EXCEPT !.pc = "ask", !.make = make, !.change = change, !.drop = drop]

CreateRecord(c, r) ==
  Fresh(r) /\ Ask(c, Request(r, NoRec, NoRec)) /\ UNCHANGED doubled

UpdateRecord(c, r) ==
  r \in Recorded /\ Ask(c, Request(NoRec, r, NoRec)) /\ UNCHANGED doubled

DeleteRecord(c, r) ==
  r \in Recorded /\ Ask(c, Request(NoRec, NoRec, r)) /\ UNCHANGED doubled

(* One request to Cloudflare for several records.  Batches of several of a *)
(* sort are left out.                                                      *)
BatchRecords(c, make, change, drop) ==
  /\ make # NoRec => Fresh(make)
  /\ {change, drop} \subseteq Recorded \cup {NoRec}
  /\ Cardinality({make, change, drop} \ {NoRec}) > 1
  /\ Ask(c, Request(make, change, drop))
  /\ UNCHANGED doubled

MailSetup(c, x) ==
  /\ Ask(c, [NoRecCall EXCEPT !.pc = "list", !.content = x, !.step = 1])
  /\ doubled' = (doubled \/ \E d \in RecCall : recCall[d].step > 0)

DeleteZone(c) == Ask(c, [NoRecCall EXCEPT !.pc = "drop_zone"]) /\ UNCHANGED doubled

-----------------------------------------------------------------------------
(* One kind after the other: the record found is updated, and what is not  *)
(* found is made.                                                          *)
SetUp(c, match) ==
  /\ recCall[c].pc = "list" /\ zone.cf
  /\ \/ \E r \in match :
          /\ recCall' = [recCall EXCEPT ![c] = [@ EXCEPT !.pc = "ask", !.change = r]]
          /\ tangled' = IF InWork(r) THEN tangled \cup {r} ELSE tangled
     \/ /\ match = {}
        /\ \E r \in Rec :
             /\ Fresh(r)
             /\ recCall' = [recCall EXCEPT ![c] = [@ EXCEPT !.pc = "ask", !.make = r]]
        /\ UNCHANGED tangled
  /\ UNCHANGED <<zone, recRow, cfRec, recCalls, unproxied, doubled>>

(* A spec's type and name, by which Cloudflare lists, and its matchFn.     *)
IsOf(v, k) == v.name = k /\ v.content \in Match[k]

OfKind(c) == {r \in Rec : IsOf(cfRec[r], MailKinds[recCall[c].step])}

(* Broken: a record with another content is not the one looked for.        *)
MailFindsSame(c) ==
  recCall[c].step > 0 /\ SetUp(c, {r \in OfKind(c) : cfRec[r].content = recCall[c].content})

MailFinds(c) == recCall[c].step > 0 /\ SetUp(c, OfKind(c))

(* What a request may ask for: by hand anything, whether all of it is in   *)
(* the request or some is the row's (PUT) or Cloudflare's (PATCH); mail    *)
(* setup's PUT says nothing of proxied.                                    *)
Wanted(x, r) ==
  IF r = NoRec THEN {NoValue}
  ELSE IF x.step = 0 THEN ByHand
  ELSE {[name |-> MailKinds[x.step], content |-> x.content, proxied |-> FALSE]}

(* External: what has been done of a request, at least something; only     *)
(* what is there can be changed or deleted, and what is deleted is not     *)
(* changed.                                                                *)
Done(c, make, change, drop, made, changed) ==
  LET x == recCall[c] IN
  /\ {make, change, drop} # {NoRec}
  /\ \A r \in {change, drop} \ {NoRec} : cfRec[r] # NoValue
  /\ change # NoRec => change # drop
  /\ cfRec' = [r \in Rec |-> IF r = make THEN made ELSE IF r = change THEN changed
                             ELSE IF r = drop THEN NoValue ELSE cfRec[r]]
  /\ recCall' = [recCall EXCEPT ![c] = [@ EXCEPT !.pc = "answered", !.make = make,
                   !.change = change, !.made = made, !.changed = changed]]
  /\ tangled' = tangled \cup ({x.drop} \ {drop, NoRec})
  /\ doubled' = (doubled \/ /\ x.step = 0
                            /\ \E k \in MailKind :
                                 \/ IsOf(made, k)
                                 \/ IsOf(changed, k) /\ ~ IsOf(cfRec[change], k))

CfServes(c) ==
  LET x == recCall[c] IN
  /\ zone.cf
  /\ \/ /\ x.pc = "ask"
        /\ \E make \in {x.make, NoRec}, change \in {x.change, NoRec}, drop \in {x.drop, NoRec} :
             \E made \in Wanted(x, make), changed \in Wanted(x, change) :
               Done(c, make, change, drop, made, changed)
        /\ UNCHANGED zone
     \/ /\ x.pc = "drop_zone"
        /\ cfRec' = [r \in Rec |-> NoValue] /\ zone' = [zone EXCEPT !.cf = FALSE]
        /\ recCall' = [recCall EXCEPT ![c].pc = "zone_dropped"]
        /\ UNCHANGED <<tangled, doubled>>
  /\ UNCHANGED <<recRow, recCalls, unproxied>>

EndRecCall(c) == recCall' = [recCall EXCEPT ![c] = NoRecCall]

(* An error ends the call, a mail setup where it is.                       *)
CfRefuses(c) ==
  /\ recCall[c].pc \in {"list", "ask", "drop_zone"}
  /\ EndRecCall(c)
  /\ UNCHANGED <<zone, recRow, cfRec, recCalls, tangled, unproxied, doubled>>

(* Done at Cloudflare, but the answer gets lost or is an error, the        *)
(* process dies, or a batch's "local DB update failed".                    *)
LoseRecords(c) ==
  /\ recCall[c].pc \in {"answered", "zone_dropped"}
  /\ tangled' = tangled \cup Items(recCall[c])
  /\ EndRecCall(c)
  /\ UNCHANGED <<zone, recRow, cfRec, recCalls, unproxied, doubled>>

NextKind(c) ==
  IF recCall[c].step \in 1..(Len(MailKinds) - 1)
  THEN recCall' = [recCall EXCEPT ![c] =
         [NoRecCall EXCEPT !.pc = "list", !.content = recCall[c].content, !.step = recCall[c].step + 1]]
  ELSE EndRecCall(c)

(* Broken: of an updated record the row keeps its type and name.           *)
WrittenInPart(x) ==
  [r \in Rec |->
     IF r = x.make THEN x.made
     ELSE IF r = x.drop THEN NoValue
     ELSE IF r = x.change /\ r \in Recorded
     THEN [recRow[r] EXCEPT !.content = IF x.step = 0 THEN x.changed.content ELSE x.content]
     ELSE recRow[r]]

(* insertRecord and updateRecordRow with the answer, but for a record that *)
(* mail setup has found, of which it knows the content; deleteRecordRow    *)
(* for all that were to be deleted.                                        *)
Written(x) ==
  [r \in Rec |->
     IF r = x.make THEN x.made
     ELSE IF r = x.drop THEN NoValue
     ELSE IF r = x.change /\ r \in Recorded
     THEN IF x.step = 0 THEN x.changed ELSE [recRow[r] EXCEPT !.content = x.content]
     ELSE recRow[r]]

(* A row for a zone that has none any more may be turned down for its      *)
(* foreign key.                                                            *)
WriteRecords(c) ==
  LET x == recCall[c] IN
  /\ x.pc = "answered"
  /\ \/ recRow' = Written(x)
     \/ ~ zone.row /\ UNCHANGED recRow
  /\ unproxied' = (unproxied \ Items(x)) \cup (IF x.step = 0 THEN {} ELSE {x.change} \ {NoRec})
  /\ NextKind(c)
  /\ UNCHANGED <<zone, cfRec, recCalls, tangled, doubled>>

(* deleteRecordsByZone, deleteZoneRow                                      *)
DropZone(c) ==
  /\ recCall[c].pc = "zone_dropped"
  /\ zone' = [zone EXCEPT !.row = FALSE]
  /\ recRow' = [r \in Rec |-> NoValue]
  /\ EndRecCall(c)
  /\ UNCHANGED <<cfRec, recCalls, tangled, unproxied, doubled>>

RecordsStep(c) ==
  \/ /\ MayAsk(c)
     /\ \/ \E r \in Rec : CreateRecord(c, r)
        \/ \E r \in Recorded : UpdateRecord(c, r) \/ DeleteRecord(c, r)
        \/ \E make \in Rec \cup {NoRec}, change, drop \in Recorded \cup {NoRec} :
              BatchRecords(c, make, change, drop)
        \/ \E x \in MailContent : MailSetup(c, x)
        \/ DeleteZone(c)
  \/ MailFinds(c) \/ CfServes(c) \/ CfRefuses(c) \/ LoseRecords(c)
  \/ WriteRecords(c) \/ DropZone(c)

RecordsNext == \E c \in RecCall : RecordsStep(c)

RecordsSpec == RecordsInit /\ [][RecordsNext]_recordVars

-----------------------------------------------------------------------------
(* Of a record that mail setup has updated, the row may still say that it  *)
(* is proxied.                                                             *)
SameRecord(r) ==
  recRow[r] = IF r \in unproxied THEN [cfRec[r] EXCEPT !.proxied = recRow[r].proxied]
              ELSE cfRec[r]

(* A record's row is what Cloudflare has, but for a proxied that mail      *)
(* setup has taken away, as long as the calls on the record come one after *)
(* another and are answered and what was to be deleted is; whichever calls *)
(* they are, and whatever becomes of other records of the same batch or    *)
(* setup.  And setting up mail again, after failures and lost answers too, *)
(* never makes a second record of those it looks for, unless one was made  *)
(* by hand: two SPF records void each other                                *)
(* (service.ts:271-346, 393-480, 484-634, 640-842).                        *)
RowsMatchCloudflare ==
  /\ zone.row /\ zone.cf => \A r \in Rec \ tangled : ~ InWork(r) => SameRecord(r)
  /\ ~ doubled => \A k \in MailKind : Cardinality({r \in Rec : IsOf(cfRec[r], k)}) <= 1
=============================================================================
