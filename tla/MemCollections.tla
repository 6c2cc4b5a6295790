--------------------------- MODULE MemCollections ---------------------------
(***************************************************************************)
(* mem.sh (packages/mem/src/service.ts, db.ts and qdrant.ts): collections  *)
(* of documents, kept in Qdrant under a name derived from the wallet's and *)
(* the collection's, with a row each.                                      *)
(*                                                                         *)
(* Qdrant is external.  The name is derived from 32 bits of a hash of the  *)
(* wallet: two wallets may share names, and a collection made again has    *)
(* the name of the one before it.                                          *)
(***************************************************************************)
EXTENDS Integers

CONSTANTS Collection,     (* ids, made anew by every creation              *)
          Tenant,         (* which wallet's and name's an id is, ...       *)
          Place,          (* ... and the name at Qdrant                    *)
          MemCall,        (* as many calls may be under way at once        *)
          MemLimit        (* bound: calls                                  *)

NoCollection == "no collection"
Places == {Place[k] : k \in Collection}

ASSUME MemAssumption ==
  /\ DOMAIN Tenant = Collection /\ DOMAIN Place = Collection
  /\ \A k, l \in Collection : Tenant[k] = Tenant[l] => Place[k] = Place[l]
  /\ NoCollection \notin Collection
  /\ MemLimit \in Nat

VARIABLES rows,       (* collections in SQLite                             *)
          qdrant,     (* external: its collections, and through which rows *)
                      (* their documents came                              *)
          memCall,    (* the calls under way                               *)
          memCalls,   (* calls so far                                      *)
          mixed       (* history: names two calls worked on at once, or    *)
                      (* with an answer that got lost                      *)

memVars == <<rows, qdrant, memCall, memCalls, mixed>>

NoMemCall == [pc |-> "idle", row |-> NoCollection]

MemTypeOK ==
  /\ rows \subseteq Collection
  /\ qdrant \in [Places -> [there : BOOLEAN, holds : SUBSET Collection]]
  /\ memCall \in [MemCall ->
       [pc  : {"idle", "create", "created", "delete", "deleted", "embed", "upsert"},
        row : Collection \cup {NoCollection}]]
  /\ memCalls \in 0..MemLimit
  /\ mixed \subseteq Places

MemInit ==
  /\ rows = {}
  /\ qdrant = [p \in Places |-> [there |-> FALSE, holds |-> {}]]
  /\ memCall = [c \in MemCall |-> NoMemCall]
  /\ memCalls = 0 /\ mixed = {}

-----------------------------------------------------------------------------
WorkedOn(p) == \E c \in MemCall : memCall[c].pc # "idle" /\ Place[memCall[c].row] = p

BeginMemCall(c, k, place) ==
  /\ memCall[c].pc = "idle" /\ memCalls < MemLimit
  /\ memCalls' = memCalls + 1
  /\ memCall' = [memCall EXCEPT ![c] = [pc |-> place, row |-> k]]
  /\ mixed' = IF WorkedOn(Place[k]) THEN mixed \cup {Place[k]} ELSE mixed
  /\ UNCHANGED <<rows, qdrant>>

(* The wallet has no row of that name.                                     *)
CreateCollection(c, k) ==
  /\ k \notin rows /\ \A d \in MemCall : memCall[d].row # k
  /\ \A p \in Places : k \notin qdrant[p].holds
  /\ \A l \in rows : Tenant[l] # Tenant[k]
  /\ BeginMemCall(c, k, "create")

DeleteCollection(c, k) == k \in rows /\ BeginMemCall(c, k, "delete")

(* The documents are embedded, and then sent to the collection that the    *)
(* row named before.                                                       *)
UpsertDocuments(c, k) == k \in rows /\ BeginMemCall(c, k, "embed")

Embedded(c) ==
  /\ memCall[c].pc = "embed"
  /\ memCall' = [memCall EXCEPT ![c].pc = "upsert"]
  /\ UNCHANGED <<rows, qdrant, memCalls, mixed>>

-----------------------------------------------------------------------------
EndMemCall(c) == memCall' = [memCall EXCEPT ![c] = NoMemCall]

(* External: Qdrant makes no collection twice.                             *)
QdrantServes(c) ==
  LET p == Place[memCall[c].row] IN
  /\ \/ /\ memCall[c].pc = "create" /\ ~ qdrant[p].there
        /\ qdrant' = [qdrant EXCEPT ![p].there = TRUE]
        /\ memCall' = [memCall EXCEPT ![c].pc = "created"]
     \/ /\ memCall[c].pc = "delete"
        /\ qdrant' = [qdrant EXCEPT ![p] = [there |-> FALSE, holds |-> {}]]
        /\ memCall' = [memCall EXCEPT ![c].pc = "deleted"]
     \/ /\ memCall[c].pc = "upsert" /\ qdrant[p].there
        /\ qdrant' = [qdrant EXCEPT ![p].holds = @ \cup {memCall[c].row}]
        /\ EndMemCall(c)
  /\ UNCHANGED <<rows, memCalls, mixed>>

(* Broken: "already exists" is taken for success.                          *)
RefusedIsMade(c) ==
  /\ memCall[c].pc \in {"create", "delete", "embed", "upsert"}
  /\ rows' = IF memCall[c].pc = "create" THEN rows \cup {memCall[c].row} ELSE rows
  /\ EndMemCall(c)
  /\ UNCHANGED <<qdrant, memCalls, mixed>>

(* Any error of Qdrant, or of the embedding service, ends the call.        *)
QdrantRefuses(c) ==
  /\ memCall[c].pc \in {"create", "delete", "embed", "upsert"}
  /\ EndMemCall(c)
  /\ UNCHANGED <<rows, qdrant, memCalls, mixed>>

(* Done, but the answer gets lost or the process dies.                     *)
LoseMemAnswer(c) ==
  /\ memCall[c].pc \in {"created", "deleted"}
  /\ mixed' = mixed \cup {Place[memCall[c].row]}
  /\ EndMemCall(c)
  /\ UNCHANGED <<rows, qdrant, memCalls>>

(* insertCollection throws where the name, here or at Qdrant, is a row's.  *)
InsertCollection(c) ==
  /\ memCall[c].pc = "created"
  /\ LET k == memCall[c].row IN
     rows' = IF \E l \in rows : Place[l] = Place[k] THEN rows ELSE rows \cup {k}
  /\ EndMemCall(c)
  /\ UNCHANGED <<qdrant, memCalls, mixed>>

(* deleteCollectionRow                                                     *)
DropCollection(c) ==
  /\ memCall[c].pc = "deleted"
  /\ rows' = rows \ {memCall[c].row}
  /\ EndMemCall(c)
  /\ UNCHANGED <<qdrant, memCalls, mixed>>

MemStep(c) ==
  \/ \E k \in Collection : CreateCollection(c, k) \/ DeleteCollection(c, k) \/ UpsertDocuments(c, k)
  \/ Embedded(c) \/ QdrantServes(c) \/ QdrantRefuses(c) \/ LoseMemAnswer(c)
  \/ InsertCollection(c) \/ DropCollection(c)

MemNext == \E c \in MemCall : MemStep(c)

MemSpec == MemInit /\ [][MemNext]_memVars

-----------------------------------------------------------------------------
(* A collection's row has its collection at Qdrant, and nobody else's      *)
(* documents are in there, not those of an earlier one of its name nor of  *)
(* a wallet that shares the name, as long as the calls on the name come    *)
(* one after another and are answered (service.ts:114-165, 199-217,        *)
(* 225-297).                                                               *)
CollectionsAreOwn ==
  \A k \in rows : Place[k] \notin mixed /\ ~ WorkedOn(Place[k]) =>
    qdrant[Place[k]].there /\ qdrant[Place[k]].holds \subseteq {k}
=============================================================================
