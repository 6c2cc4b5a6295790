---------------------------- MODULE SpawnServers ----------------------------
(***************************************************************************)
(* spawn.sh (packages/spawn/src/service.ts and db.ts): servers and SSH     *)
(* keys at a cloud provider, and their rows.  Every call asks the provider *)
(* first and writes the row when the answer is there, from what it read    *)
(* of the row before it asked.                                             *)
(*                                                                         *)
(* The provider is external.  It answers with an error, with a success, or *)
(* not at all; an error says nothing but "it was not done", for a server   *)
(* that is gone already as for any other reason.  Success in creating or   *)
(* resizing a server is an action that has begun and may still fail; it    *)
(* begins one at a time on a server.                                       *)
(***************************************************************************)
EXTENDS Integers, FiniteSets

CONSTANTS Wallet,
          Server, SshKey,  (* ids; each is one wallet's from the start     *)
          Owner,           (* whose request gets an id                     *)
          Size,            (* server types (and images)                    *)
          SpawnOrder,      (* as many calls may be under way at once       *)
          MaxServers,      (* SPAWN_MAX_SERVERS_PER_WALLET                 *)
          SpawnLimit       (* bound: calls                                 *)

Item == Server \cup SshKey
NoItem == "no item"

ASSUME SpawnAssumption ==
  /\ Owner \in [Item -> Wallet]
  /\ Server \cap SshKey = {} /\ NoItem \notin Item
  /\ MaxServers \in Nat /\ SpawnLimit \in Nat

VARIABLES server,   (* servers and ssh_keys in SQLite                      *)
          machine,  (* external: the provider's state                      *)
          order,    (* the calls under way                                 *)
          orders,   (* calls so far                                        *)
          unheard,  (* history: items of calls that never saw an answer    *)
          crossed,  (* history: items two calls worked on at once          *)
          undone    (* history: servers whose last resizing failed         *)

spawnVars == <<server, machine, order, orders, unheard, crossed, undone>>

Live == {"initializing", "running", "off"}

ServerRow == [status : Live \cup {"none", "destroying"}, size : Size \cup {"none"}]

(* "failed": it never came up.  A server moves from size to next.          *)
Machine == [status : Live \cup {"none", "gone", "failed"},
            size : Size \cup {"none"}, next : Size \cup {"none"}]

NoOrder == [pc |-> "idle", item |-> NoItem, status |-> "none", live |-> "none", size |-> "none"]

SpawnTypeOK ==
  /\ server \in [Item -> ServerRow] /\ machine \in [Item -> Machine]
  /\ order  \in [SpawnOrder ->
       [pc     : {"idle", "create", "created", "refresh", "refreshed", "delete",
                  "deleted", "resize", "resized"},
        item   : Item \cup {NoItem},
        status : Live \cup {"none", "destroying"}, live : Live \cup {"none"},
        size   : Size \cup {"none"}]]
  /\ orders \in 0..SpawnLimit
  /\ unheard \subseteq Item /\ crossed \subseteq Item /\ undone \subseteq Item

SpawnInit ==
  /\ server = [i \in Item |-> [status |-> "none", size |-> "none"]]
  /\ machine = [i \in Item |-> [status |-> "none", size |-> "none", next |-> "none"]]
  /\ order = [c \in SpawnOrder |-> NoOrder]
  /\ orders = 0 /\ unheard = {} /\ crossed = {} /\ undone = {}

-----------------------------------------------------------------------------
BusyWith(i) == \E c \in SpawnOrder : order[c].pc # "idle" /\ order[c].item = i

(* A call of the owner's passes its checks and asks the provider; it keeps *)
(* the status of the row it has read.                                      *)
BeginOrder(c, i, place, z) ==
  /\ order[c].pc = "idle" /\ orders < SpawnLimit
  /\ orders' = orders + 1
  /\ order' = [order EXCEPT ![c] =
       [NoOrder EXCEPT !.pc = place, !.item = i, !.status = server[i].status, !.size = z]]
  /\ crossed' = IF BusyWith(i) THEN crossed \cup {i} ELSE crossed
  /\ UNCHANGED <<server, machine, unheard, undone>>

(* countActiveServersByOwner                                               *)
Counted(w) == {s \in Server : Owner[s] = w /\ server[s].status \in Live}

CreateServer(c, s, z) ==
  /\ server[s].status = "none" /\ machine[s].status = "none" /\ ~ BusyWith(s)
  /\ Cardinality(Counted(Owner[s])) < MaxServers
  /\ BeginOrder(c, s, "create", z)

RegisterSshKey(c, k) ==
  /\ server[k].status = "none" /\ machine[k].status = "none" /\ ~ BusyWith(k)
  /\ BeginOrder(c, k, "create", "none")

(* The refresh of GET /v1/servers/:id, "if not in a terminal state".       *)
GetServer(c, s) == server[s].status \in Live /\ BeginOrder(c, s, "refresh", "none")

(* Of a server or a key; a server's row stays, whatever its status, and    *)
(* may be deleted again.                                                   *)
DeleteItem(c, i) == server[i].status # "none" /\ BeginOrder(c, i, "delete", "none")

(* Resizing, and rebuilding with another image.                            *)
ResizeServer(c, s, z) == server[s].status # "none" /\ BeginOrder(c, s, "resize", z)

-----------------------------------------------------------------------------
(* External: what the provider does with a request.  The SSH keys a server *)
(* is made with have been looked up in the rows; a key is there at once.   *)
Served(c) ==
  LET i == order[c].item
      now == machine[i] IN
  \/ /\ order[c].pc = "create"
     /\ machine' = [machine EXCEPT ![i] =
          [status |-> "initializing", size |-> "none", next |-> order[c].size]]
     /\ order' = [order EXCEPT ![c].pc = "created"]
     /\ UNCHANGED undone
  \/ /\ order[c].pc = "delete" /\ now.status \in Live
     /\ machine' = [machine EXCEPT ![i].status = "gone"]
     /\ order' = [order EXCEPT ![c].pc = "deleted"]
     /\ UNCHANGED undone
  \/ /\ order[c].pc = "resize" /\ now.status \in Live /\ now.next = now.size
     /\ machine' = [machine EXCEPT ![i].next = order[c].size]
     /\ order' = [order EXCEPT ![c].pc = "resized"]
     /\ undone' = undone \ {i}
  \/ /\ order[c].pc = "refresh" /\ now.status \in Live
     /\ order' = [order EXCEPT ![c] = [@ EXCEPT !.pc = "refreshed", !.live = now.status]]
     /\ UNCHANGED <<machine, undone>>

ProviderServes(c) == Served(c) /\ UNCHANGED <<server, orders, unheard, crossed>>

(* External: an action that was begun succeeds or fails later, whatever    *)
(* the row says by then; nothing tells the service.                        *)
Acting(s) == machine[s].status \in Live /\ machine[s].next # machine[s].size

ActionEnds(s) ==
  /\ Acting(s)
  /\ machine' = [machine EXCEPT ![s] =
       [status |-> IF @.status = "initializing" THEN "running" ELSE @.status,
        size |-> @.next, next |-> @.next]]
  /\ UNCHANGED <<server, order, orders, unheard, crossed, undone>>

ActionFails(s) ==
  /\ Acting(s)
  /\ \/ /\ machine[s].size = "none"
        /\ machine' = [machine EXCEPT ![s].status = "failed"]
        /\ UNCHANGED undone
     \/ /\ machine[s].size # "none"
        /\ machine' = [machine EXCEPT ![s].next = machine[s].size]
        /\ undone' = undone \cup {s}
  /\ UNCHANGED <<server, order, orders, unheard, crossed>>

EndOrder(c) == order' = [order EXCEPT ![c] = NoOrder]

(* Broken: what cannot be deleted is taken for deleted.                    *)
RefusedMeansGone(c) ==
  /\ order[c].pc \in {"create", "refresh", "delete", "resize"}
  /\ server' = IF order[c].pc = "delete"
            THEN [server EXCEPT ![order[c].item].status = "destroying"] ELSE server
  /\ EndOrder(c)
  /\ UNCHANGED <<machine, orders, unheard, crossed, undone>>

(* An error: a ProviderError is a 502; a refresh goes on with the row as   *)
(* it was read.                                                            *)
ProviderRefuses(c) ==
  /\ order[c].pc \in {"create", "refresh", "delete", "resize"}
  /\ EndOrder(c)
  /\ UNCHANGED <<server, machine, orders, unheard, crossed, undone>>

(* The answer gets lost after the provider has done it, or the process     *)
(* dies before it comes.                                                   *)
LoseAnswer(c) ==
  /\ order[c].pc \in {"created", "deleted", "resized"}
  /\ unheard' = unheard \cup {order[c].item}
  /\ EndOrder(c)
  /\ UNCHANGED <<server, machine, orders, crossed, undone>>

-----------------------------------------------------------------------------
(* insertServer, insertSshKey                                              *)
InsertItem(c) ==
  /\ order[c].pc = "created"
  /\ server' = [server EXCEPT ![order[c].item] = [status |-> "initializing", size |-> order[c].size]]
  /\ EndOrder(c)
  /\ UNCHANGED <<machine, orders, unheard, crossed, undone>>

(* updateServerStatus with what the provider said, where that differs from *)
(* the row as it was read; the address may differ, too.                    *)
RefreshStatus(c) ==
  /\ order[c].pc = "refreshed"
  /\ server' \in {[server EXCEPT ![order[c].item].status = order[c].live]} \cup
                 IF order[c].live = order[c].status THEN {server} ELSE {}
  /\ EndOrder(c)
  /\ UNCHANGED <<machine, orders, unheard, crossed, undone>>

(* updateServerStatus, deleteSshKeyRow                                     *)
MarkDeleted(c) ==
  /\ order[c].pc = "deleted"
  /\ server' = [server EXCEPT ![order[c].item] =
       IF order[c].item \in Server THEN [@ EXCEPT !.status = "destroying"]
       ELSE [status |-> "none", size |-> "none"]]
  /\ EndOrder(c)
  /\ UNCHANGED <<machine, orders, unheard, crossed, undone>>

(* updateServerTypeAndImage                                                *)
MarkResized(c) ==
  /\ order[c].pc = "resized"
  /\ server' = [server EXCEPT ![order[c].item].size = order[c].size]
  /\ EndOrder(c)
  /\ UNCHANGED <<machine, orders, unheard, crossed, undone>>

(* External: the owner starts or stops a server, or reboots it, through    *)
(* calls that write no row.                                                *)
Power(s) ==
  /\ server[s].status # "none" /\ machine[s].status \in {"running", "off"}
  /\ \E status \in {"running", "off"} : machine' = [machine EXCEPT ![s].status = status]
  /\ UNCHANGED <<server, order, orders, unheard, crossed, undone>>

SpawnStep(c) ==
  \/ \E s \in Server, z \in Size : CreateServer(c, s, z) \/ ResizeServer(c, s, z)
  \/ \E k \in SshKey : RegisterSshKey(c, k)
  \/ \E s \in Server : GetServer(c, s)
  \/ \E i \in Item : DeleteItem(c, i)
  \/ ProviderServes(c) \/ ProviderRefuses(c) \/ LoseAnswer(c)
  \/ InsertItem(c) \/ RefreshStatus(c) \/ MarkDeleted(c) \/ MarkResized(c)

SpawnNext ==
  \/ \E c \in SpawnOrder : SpawnStep(c)
  \/ \E s \in Server : Power(s) \/ ActionEnds(s) \/ ActionFails(s)

SpawnSpec == SpawnInit /\ [][SpawnNext]_spawnVars

-----------------------------------------------------------------------------
(* Nothing runs at the provider that the wallet's cap does not count: a    *)
(* server has a live row, or is just being recorded, unless its answer got *)
(* lost, whatever refreshes and deletions overlap.  And as long as an      *)
(* item's calls come one after another and are all answered, its row says  *)
(* whether it is there, unless it never came up, and of which type it is   *)
(* or is about to be, unless the action the row was changed for has failed *)
(* (service.ts:138-147, 225-250, 292-355, 449-541, 545-640).               *)
RowsMatchProvider ==
  /\ \A s \in Server : machine[s].status \in Live /\ s \notin unheard =>
       \/ server[s].status \in Live
       \/ \E c \in SpawnOrder : order[c].pc = "created" /\ order[c].item = s
  /\ \A i \in Item : i \notin unheard \cup crossed /\ ~ BusyWith(i) =>
       /\ machine[i].status \in Live => server[i].status \in Live
       /\ server[i].status \in Live => machine[i].status \in Live \cup {"failed"}
       /\ machine[i].status \in Live /\ i \notin undone => server[i].size = machine[i].next

(* "Max 3 concurrent servers per wallet" (service.ts:145).                 *)
CapPerWallet == \A w \in Wallet : Cardinality(Counted(w)) <= MaxServers
=============================================================================
