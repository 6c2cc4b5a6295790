------------------------- MODULE DomainRegistration -------------------------
(***************************************************************************)
(* The life of one domain name in domain.sh (packages/domain/src/service.ts *)
(* and the register route of index.ts): it is paid for, purchased at the    *)
(* registrar, recorded, given a Cloudflare zone, and delegated to it.       *)
(* Every call is split at its awaits: the external service acts in one step *)
(* and the handler goes on in another, so calls interleave, replies get     *)
(* lost and the process dies in between.  Registrations and zones are       *)
(* SQLite rows, whose domain is UNIQUE.                                     *)
(***************************************************************************)
EXTENDS Integers

CONSTANTS Wallet,        (* callers                                        *)
          Call,          (* calls, each made at most once                  *)
          Worlds,        (* what may happen, see world                     *)
          ZoneLimit      (* bound: zones Cloudflare creates                *)

Kind == {"register", "recover", "configure", "delete", "create"}
NoOne == "no one"

ASSUME DomainAssumption ==
  /\ Worlds \subseteq [lossy : BOOLEAN, crashes : BOOLEAN, deletes : BOOLEAN]
  /\ ZoneLimit \in Nat
  /\ NoOne \notin Wallet

VARIABLES reg,          (* the registrations row; owner = NoOne: no row    *)
          zone,         (* the zones row; id = NoZone: no row              *)
          call,         (* each call's context                             *)
          quoteOpen,    (* the domain's quote has not expired              *)
          told,         (* the registrant was given the recovery token     *)
          purchased,    (* external: the registrar sold us the domain      *)
          delegation,   (* external: the zone whose servers it delegates to *)
          cf,           (* external: Cloudflare's zone of that name        *)
          zonesMade,    (* history: how many zones Cloudflare has made     *)
          world         (* chosen once: whether a service may act and its  *)
                        (* reply be lost, the process may be restarted, and *)
                        (* owners may delete their zones                   *)

rows     == <<reg, zone>>
external == <<purchased, delegation, cf, zonesMade>>
vars     == <<reg, zone, call, quoteOpen, told, external, world>>

NoZone == 0             (* also: a registrar that delegates nowhere of ours *)

Places == {"idle", "settle", "paid", "purchase", "purchased", "zone", "zoned",
           "unzoned", "names", "named", "unnamed", "delete", "deleted", "done"}

Calls ==
  [pc     : Places,
   kind   : Kind,
   wallet : Wallet \cup {NoOne},   (* callerWallet                         *)
   zone   : Nat]                   (* cfZone.id, check.row, or nameservers *)

SystemTypeOK ==
  /\ reg  \in [owner : Wallet \cup {NoOne}, token : BOOLEAN, zone : Nat, ns : BOOLEAN]
  /\ zone \in [id : Nat, owner : Wallet \cup {NoOne}]
  /\ zone.id = NoZone <=> zone.owner = NoOne
  /\ call \in [Call -> Calls]
  /\ quoteOpen \in BOOLEAN /\ told \in BOOLEAN /\ purchased \in BOOLEAN
  /\ delegation \in Nat /\ cf \in Nat /\ zonesMade \in Nat

TypeOK == SystemTypeOK /\ world \in Worlds

Idle == [pc |-> "idle", kind |-> "register", wallet |-> NoOne, zone |-> NoZone]

Init ==
  /\ reg = [owner |-> NoOne, token |-> FALSE, zone |-> NoZone, ns |-> FALSE]
  /\ zone = [id |-> NoZone, owner |-> NoOne]
  /\ call = [c \in Call |-> Idle]
  /\ quoteOpen = TRUE /\ told = FALSE /\ purchased = FALSE
  /\ delegation = NoZone /\ cf = NoZone /\ zonesMade = 0
  /\ world \in Worlds

Registered == reg.owner # NoOne

(* No call is under way.                                                   *)
Quiescent == \A c \in Call : call[c].pc \in {"idle", "done"}

Goto(c, place) == call' = [call EXCEPT ![c].pc = place]

(* A call comes in and reaches its first await.                            *)
Begin(c, kind, w, place, zoneId) ==
  /\ call[c].pc = "idle"
  /\ call' = [call EXCEPT ![c] = [pc |-> place, kind |-> kind, wallet |-> w,
                                  zone |-> zoneId]]
  /\ UNCHANGED <<rows, quoteOpen, told, external>>

-----------------------------------------------------------------------------
(* POST /v1/domains/register: an open quote is paid first.                 *)
BeginRegister(c) ==
  \E w \in Wallet : quoteOpen /\ Begin(c, "register", w, "settle", NoZone)

(* External: the facilitator settles the payment, or does not.             *)
SettlePayment(c) ==
  /\ call[c].pc = "settle"
  /\ \E place \in {"paid", "done"} : Goto(c, place)
  /\ UNCHANGED <<rows, quoteOpen, told, external>>

(* registerDomain up to the purchase: the quote may have expired, or the   *)
(* domain been registered, while the payment settled.                      *)
StartRegistration(c) ==
  /\ call[c].pc = "paid"
  /\ Goto(c, IF quoteOpen /\ ~ Registered THEN "purchase" ELSE "done")
  /\ UNCHANGED <<rows, quoteOpen, told, external>>

(* External: the registrar sells a domain once.                            *)
Purchase(c) ==
  /\ call[c].pc = "purchase"
  /\ \/ ~ purchased /\ purchased' = TRUE /\ Goto(c, "purchased")
     \/ ~ purchased /\ world.lossy /\ purchased' = TRUE /\ Goto(c, "done")
     \/ Goto(c, "done") /\ UNCHANGED purchased
  /\ UNCHANGED <<rows, quoteOpen, told, delegation, cf, zonesMade>>

(* Broken: the recovery token is minted only when it is needed.            *)
InsertRegistrationLateToken(c) ==
  /\ call[c].pc = "purchased" /\ ~ Registered
  /\ reg' = [owner |-> call[c].wallet, token |-> FALSE, zone |-> NoZone,
             ns |-> FALSE]
  /\ Goto(c, "zone")
  /\ UNCHANGED <<zone, quoteOpen, told, external>>

(* The row is written with its recovery token as soon as money is spent;   *)
(* a second row for the domain throws.                                     *)
InsertRegistration(c) ==
  /\ call[c].pc = "purchased"
  /\ IF Registered THEN Goto(c, "done") /\ UNCHANGED reg
     ELSE /\ reg' = [owner |-> call[c].wallet, token |-> TRUE, zone |-> NoZone,
                     ns |-> FALSE]
          /\ Goto(c, "zone")
  /\ UNCHANGED <<zone, quoteOpen, told, external>>

-----------------------------------------------------------------------------
(* POST /v1/zones: a zone of the caller's own, unless there is a row.      *)
BeginCreate(c) ==
  \E w \in Wallet : zone.id = NoZone /\ Begin(c, "create", w, "zone", NoZone)

(* POST /v1/domains/recover with the token: on to the zone if there is     *)
(* none, else to the name servers (those of a row that is gone are []).    *)
BeginRecover(c) ==
  /\ reg.token /\ told
  /\ LET place == IF reg.zone = NoZone THEN "zone"
                  ELSE IF reg.ns THEN "unnamed" ELSE "names"
         names == IF reg.zone = zone.id THEN zone.id ELSE NoZone
     IN Begin(c, "recover", reg.owner, place, names)

(* External: Cloudflare creates the zone, if it has none of that name.     *)
CreateCfZone(c) ==
  /\ call[c].pc = "zone"
  /\ \/ /\ cf = NoZone /\ zonesMade < ZoneLimit
        /\ cf' = zonesMade + 1 /\ zonesMade' = zonesMade + 1
        /\ \/ call' = [call EXCEPT ![c].pc = "zoned", ![c].zone = zonesMade + 1]
           \/ world.lossy /\ Goto(c, "unzoned")
     \/ Goto(c, "unzoned") /\ UNCHANGED <<cf, zonesMade>>
  /\ UNCHANGED <<rows, quoteOpen, told, purchased, delegation>>

(* Broken: the registration does not get the new zone's id.                *)
InsertZoneUnlinked(c) ==
  /\ call[c].pc = "zoned" /\ zone.id = NoZone
  /\ zone' = [id |-> call[c].zone, owner |-> call[c].wallet]
  /\ Goto(c, IF call[c].kind = "create" THEN "done" ELSE "names")
  /\ UNCHANGED <<reg, quoteOpen, told, external>>

(* Broken: a registration takes whatever zone row the domain has.          *)
InsertZoneAdopts(c) ==
  /\ call[c].pc = "zoned"
  /\ zone' = IF zone.id # NoZone THEN zone
             ELSE [id |-> call[c].zone, owner |-> call[c].wallet]
  /\ IF call[c].kind = "create" THEN Goto(c, "done") /\ UNCHANGED reg
     ELSE reg' = [reg EXCEPT !.zone = zone'.id] /\ Goto(c, "names")
  /\ UNCHANGED <<quoteOpen, told, external>>

(* The zone is recorded and, for a registration, linked to it; a second    *)
(* row for the domain throws, which register takes for a failed zone.      *)
InsertZone(c) ==
  /\ call[c].pc = "zoned"
  /\ IF zone.id # NoZone
     THEN Goto(c, "unzoned") /\ UNCHANGED rows
     ELSE /\ zone' = [id |-> call[c].zone, owner |-> call[c].wallet]
          /\ IF call[c].kind = "create"
             THEN Goto(c, "done") /\ UNCHANGED reg
             ELSE reg' = [reg EXCEPT !.zone = call[c].zone] /\ Goto(c, "names")
  /\ UNCHANGED <<quoteOpen, told, external>>

(* No zone: register hands out the recovery token, the others an error.    *)
RespondUnzoned(c) ==
  /\ call[c].pc = "unzoned"
  /\ told' = (told \/ call[c].kind = "register")
  /\ Goto(c, "done")
  /\ UNCHANGED <<rows, quoteOpen, external>>

-----------------------------------------------------------------------------
(* POST /v1/domains/:domain/configure-ns, with the zone the row points to. *)
BeginConfigure(c) ==
  /\ Registered /\ reg.zone # NoZone /\ zone.id = reg.zone
  /\ Begin(c, "configure", reg.owner, "names", zone.id)

(* External: the registrar takes the name servers, of which it wants some. *)
SetNameservers(c) ==
  /\ call[c].pc = "names"
  /\ \/ /\ call[c].zone # NoZone
        /\ delegation' = call[c].zone
        /\ Goto(c, "named") \/ (world.lossy /\ Goto(c, "unnamed"))
     \/ Goto(c, "unnamed") /\ UNCHANGED delegation
  /\ UNCHANGED <<rows, quoteOpen, told, purchased, cf, zonesMade>>

(* What came of it is recorded; but for configure-ns the token is spent    *)
(* either way.                                                             *)
RecordNames(c) ==
  /\ call[c].pc \in {"named", "unnamed"}
  /\ reg' = [reg EXCEPT !.ns = @ \/ call[c].pc = "named",
                        !.token = @ /\ call[c].kind = "configure"]
  /\ Goto(c, "done")
  /\ UNCHANGED <<zone, quoteOpen, told, external>>

-----------------------------------------------------------------------------
(* DELETE /v1/zones/:id by its owner.                                      *)
BeginDelete(c) ==
  /\ world.deletes /\ zone.id # NoZone
  /\ Begin(c, "delete", zone.owner, "delete", zone.id)

(* Broken: the row is kept when the zone is deleted.                       *)
DeleteCfZoneOnly(c) ==
  /\ call[c].pc = "delete"
  /\ cf' = IF cf = call[c].zone THEN NoZone ELSE cf
  /\ Goto(c, "done")
  /\ UNCHANGED <<rows, quoteOpen, told, purchased, delegation, zonesMade>>

(* External: Cloudflare deletes a zone it still has.                       *)
DeleteCfZone(c) ==
  /\ call[c].pc = "delete"
  /\ \/ /\ cf = call[c].zone
        /\ cf' = NoZone
        /\ Goto(c, "deleted") \/ (world.lossy /\ Goto(c, "done"))
     \/ Goto(c, "done") /\ UNCHANGED cf
  /\ UNCHANGED <<rows, quoteOpen, told, purchased, delegation, zonesMade>>

(* Broken: the owner stays in the row.                                     *)
DeleteZoneRowId(c) ==
  /\ call[c].pc = "deleted"
  /\ zone' = IF zone.id = call[c].zone THEN [zone EXCEPT !.id = NoZone] ELSE zone
  /\ Goto(c, "done")
  /\ UNCHANGED <<reg, quoteOpen, told, external>>

(* Broken: the registration forgets its zone with it.                      *)
DeleteZoneRowByDomain(c) ==
  /\ call[c].pc = "deleted"
  /\ zone' = [id |-> NoZone, owner |-> NoOne]
  /\ reg' = [reg EXCEPT !.zone = NoZone]
  /\ Goto(c, "done")
  /\ UNCHANGED <<quoteOpen, told, external>>

(* The zone's row is deleted by its id; a registration is left alone.      *)
DeleteZoneRow(c) ==
  /\ call[c].pc = "deleted"
  /\ zone' = IF zone.id = call[c].zone THEN [id |-> NoZone, owner |-> NoOne] ELSE zone
  /\ Goto(c, "done")
  /\ UNCHANGED <<reg, quoteOpen, told, external>>

-----------------------------------------------------------------------------
ExpireQuote ==
  /\ quoteOpen /\ quoteOpen' = FALSE
  /\ UNCHANGED <<rows, call, told, external>>

(* The process dies: the calls it was serving are gone, the rows are not.  *)
Restart ==
  /\ world.crashes
  /\ ~ Quiescent
  /\ call' = [c \in Call |-> IF call[c].pc = "idle" THEN call[c]
                             ELSE [call[c] EXCEPT !.pc = "done"]]
  /\ UNCHANGED <<rows, quoteOpen, told, external>>

Next ==
  /\ UNCHANGED world
  /\ \/ \E c \in Call :
          \/ BeginRegister(c) \/ SettlePayment(c) \/ StartRegistration(c)
          \/ Purchase(c) \/ InsertRegistration(c)
          \/ BeginCreate(c) \/ BeginRecover(c) \/ CreateCfZone(c) \/ InsertZone(c)
          \/ RespondUnzoned(c) \/ BeginConfigure(c) \/ SetNameservers(c)
          \/ RecordNames(c) \/ BeginDelete(c) \/ DeleteCfZone(c) \/ DeleteZoneRow(c)
     \/ ExpireQuote
     \/ Restart

Spec == Init /\ [][Next]_vars
-----------------------------------------------------------------------------
(* A paid-for domain without a zone can still be recovered: no order of    *)
(* failing calls spends the token before the zone is there                 *)
(* (service.ts:985-1024, 1088-1128).                                       *)
TokenKeptUntilZone == Registered /\ reg.zone = NoZone => reg.token

(* The zone a registration points to belongs to the registrant, whoever    *)
(* else makes and deletes zones of that name meanwhile                     *)
(* (service.ts:998-1010, 1093-1109).                                       *)
RegistrantsZone ==
  Registered /\ reg.zone # NoZone /\ zone.id = reg.zone => zone.owner = reg.owner

(* What the row calls configured is delegated to the zone it points to, in *)
(* whatever order the answers of the registrar come in, whichever of them  *)
(* are lost and whenever the process dies, as long as no zone is deleted   *)
(* and made anew (service.ts:1036-1045, 1116-1125, 1177-1187).             *)
NsMeansDelegated == reg.ns /\ ~ world.deletes => delegation = reg.zone

(* A name that was bought is recorded, by the time no call is under way,   *)
(* unless the registrar's reply or the process got lost                    *)
(* (service.ts:970-998).                                                   *)
PurchaseIsRecorded ==
  purchased /\ Quiescent /\ ~ world.lossy /\ ~ world.crashes => Registered

(* With those provisos a zone row is about a zone Cloudflare has, but   *)
(* for the moment in which a delete is coming back                         *)
(* (service.ts:147-190, 247-267, 998-1010).                                *)
RowsAreReal ==
  zone.id # NoZone /\ ~ world.lossy /\ ~ world.crashes =>
    \/ cf = zone.id
    \/ \E c \in Call : call[c].pc = "deleted" /\ call[c].zone = zone.id

(* The rows agree with the registrar and with Cloudflare.                  *)
RowsMatchOutside == NsMeansDelegated /\ PurchaseIsRecorded /\ RowsAreReal

(* What the owner of a registration that is not set up can do about it,    *)
(* where the services then do what they are asked: configure-ns; recover   *)
(* with a token that was handed out; delete a zone of the name made        *)
(* beforehand, then recover.                                               *)
CanConfigure == reg.zone # NoZone /\ zone.id = reg.zone /\ cf = reg.zone
HasToken     == reg.token /\ told /\ reg.zone = NoZone
CanRecover   == HasToken /\ zone.id = NoZone /\ cf = NoZone
CanMakeRoom  == HasToken /\ zone.owner = reg.owner /\ cf = zone.id

(* Where every call fails for as long as the state stays: another wallet's *)
(* zone row; a zone that only Cloudflare has, or only the rows; a token    *)
(* nobody was told; a registration that points to a deleted zone.          *)
StrangersZone == zone.owner \notin {NoOne, reg.owner}
ZonesDisagree == zone.id # cf /\ (world.lossy \/ world.crashes \/ world.deletes)
TokenUntold   == ~ told /\ reg.zone = NoZone /\ world.crashes
ZoneIsGone    == reg.zone # NoZone /\ zone.id # reg.zone /\ world.deletes
DeadEnd       == StrangersZone \/ ZonesDisagree \/ TokenUntold \/ ZoneIsGone

(* Whatever has failed, and in whatever order, the owner of a registration *)
(* that is not set up has a call that can set it up, but for four dead     *)
(* ends; and those come of a lost answer, a killed process, a deletion or  *)
(* a stranger's zone, never of services that fail and say so               *)
(* (service.ts:985-1045, 1072-1187, 247-267).                              *)
WayForward ==
  Registered /\ ~ reg.ns /\ Quiescent =>
    CanConfigure \/ CanRecover \/ CanMakeRoom \/ DeadEnd

(* "If zone creation or NS configuration fails during registration ... Use *)
(* the recovery_token with the recover endpoint to retry setup"            *)
(* (skills/domain.md:173).                                                 *)
TokenRetriesSetup == Registered /\ ~ reg.ns /\ Quiescent => reg.token

(* The abstract life of the registration: see RegistrationLife.            *)
Life == INSTANCE RegistrationLife WITH
  owner <- reg.owner,
  stage <- IF ~ Registered THEN "unregistered"
           ELSE IF reg.ns THEN "delegated"
           ELSE IF reg.zone # NoZone THEN "zoned" ELSE "purchased"

LifeSpec == Life!Spec
=============================================================================
