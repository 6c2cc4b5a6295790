--------------------------- MODULE ServicesProofs ---------------------------
(***************************************************************************)
(* The rows that services keep about something elsewhere, for any number   *)
(* of servers, collections, tokens, records and calls: that they match it  *)
(* as far as the runs check on a small instance.  And, for any number of   *)
(* wallets and requests: that policies keep what was set, and bills are of *)
(* what was used.                                                          *)
(***************************************************************************)
EXTENDS SpawnServers, MemCollections, MemCache, TokenMint, TokenPool, DomainRecords,
        WalletControl, InferMetering, FiniteSetTheorems, SequenceTheorems, TLAPS

CacheInv == CacheTypeOK /\ ValuesLive

LEMMA CacheInvInit == CacheInit => CacheInv
  BY CacheAssumption DEF CacheAssumption, CacheInit, CacheInv, CacheTypeOK, ValuesLive, Lifetime

(* What is swept has lived its time, and what is not is as it was.         *)
LEMMA SweptLive ==
  ASSUME NEW entries \in [CacheKey -> Lifetime], NEW until \in [CacheKey -> Lifetime],
         \A k \in CacheKey : /\ ~ Over(until[k]) => entries[k] = until[k]
                             /\ entries[k] \in {until[k], Absent}
  PROVE  /\ Swept(entries) \in [CacheKey -> Lifetime]
         /\ \A k \in CacheKey : /\ ~ Over(until[k]) => Swept(entries)[k] = until[k]
                                /\ Swept(entries)[k] \in {until[k], Absent}
<1>1. \A k \in CacheKey : Swept(entries)[k] = IF Over(entries[k]) THEN Absent ELSE entries[k]
  BY DEF Swept
<1>2. Swept(entries) \in [CacheKey -> Lifetime]
  BY DEF Swept, Lifetime
<1>3. QED
  BY <1>1, <1>2

LEMMA CacheInvStep == CacheInv /\ [CacheNext]_cacheVars => CacheInv'
<1> SUFFICES ASSUME CacheInv, [CacheNext]_cacheVars PROVE CacheInv'
  OBVIOUS
<1>1. CacheTypeOK /\ ValuesLive
  BY DEF CacheInv
<1>2. ASSUME NEW k \in CacheKey, NEW ttl \in Ttl, CacheSet(k, ttl) PROVE CacheInv'
  <2> DEFINE entries == [cache EXCEPT ![k] = written'[k]]
  <2>1. (IF ttl = Forever THEN Forever ELSE cacheNow + ttl) \in Lifetime
    BY <1>1, CacheAssumption DEF CacheAssumption, CacheTypeOK, Lifetime
  <2>2. written' \in [CacheKey -> Lifetime] /\ UNCHANGED cacheNow
    BY <1>1, <1>2, <2>1 DEF CacheSet, CacheTypeOK
  <2>3. \A l \in CacheKey \ {k} : written'[l] = written[l]
    BY <1>1, <1>2 DEF CacheSet, CacheTypeOK
  <2>4. entries \in [CacheKey -> Lifetime]
    BY <1>1, <2>2 DEF CacheTypeOK
  <2>5. entries[k] = written'[k] /\ \A l \in CacheKey \ {k} : entries[l] = cache[l]
    BY <1>1 DEF CacheTypeOK
  <2>6. \A l \in CacheKey : /\ ~ Over(written'[l]) => entries[l] = written'[l]
                            /\ entries[l] \in {written'[l], Absent}
    BY <1>1, <2>3, <2>5 DEF ValuesLive
  <2>7. cache' = entries \/ cache' = Swept(entries)
    BY <1>2 DEF CacheSet
  <2> HIDE DEF entries
  <2>8. /\ cache' \in [CacheKey -> Lifetime]
        /\ \A l \in CacheKey : /\ ~ Over(written'[l]) => cache'[l] = written'[l]
                               /\ cache'[l] \in {written'[l], Absent}
    BY <2>2, <2>4, <2>6, <2>7, SweptLive
  <2>10. CacheTypeOK'
    BY <1>1, <2>2, <2>8 DEF CacheTypeOK
  <2>11. ValuesLive'
    BY <2>2, <2>8 DEF ValuesLive, Over
  <2>12. QED
    BY <2>10, <2>11 DEF CacheInv
<1>3. ASSUME NEW k \in CacheKey, CacheGet(k) PROVE CacheInv'
  <2>1. /\ cache' = [cache EXCEPT ![k] = Absent] /\ Over(cache[k])
        /\ UNCHANGED <<cacheNow, written>>
    BY <1>3 DEF CacheGet
  <2>2. CacheTypeOK'
    BY <1>1, <2>1 DEF CacheTypeOK, Lifetime
  <2>3. Over(written[k])
    BY <1>1, <2>1 DEF ValuesLive, Over, Absent
  <2>4. \A l \in CacheKey : /\ ~ Over(written[l]) => cache'[l] = written[l]
                            /\ cache'[l] \in {written[l], Absent}
    BY <1>1, <2>1, <2>3 DEF ValuesLive, CacheTypeOK
  <2>5. ValuesLive'
    BY <2>1, <2>4 DEF ValuesLive, Over
  <2>6. QED
    BY <2>2, <2>5 DEF CacheInv
<1>4. ASSUME NEW k \in CacheKey, CacheDelete(k) PROVE CacheInv'
  <2>1. /\ cache' = [cache EXCEPT ![k] = Absent] /\ written' = [written EXCEPT ![k] = Absent]
        /\ UNCHANGED cacheNow
    BY <1>4 DEF CacheDelete
  <2>2. CacheTypeOK'
    BY <1>1, <2>1 DEF CacheTypeOK, Lifetime
  <2>3. \A l \in CacheKey : /\ ~ Over(written'[l]) => cache'[l] = written'[l]
                            /\ cache'[l] \in {written'[l], Absent}
    BY <1>1, <2>1 DEF ValuesLive, CacheTypeOK
  <2>4. ValuesLive'
    BY <2>1, <2>3 DEF ValuesLive, Over
  <2>5. QED
    BY <2>2, <2>4 DEF CacheInv
<1>5. CASE CacheTick
  <2>1. cacheNow' = cacheNow + 1 /\ cacheNow < CacheEnd /\ UNCHANGED <<cache, written>>
    BY <1>5 DEF CacheTick
  <2>2. CacheTypeOK'
    BY <1>1, <2>1, CacheAssumption DEF CacheAssumption, CacheTypeOK
  <2>3. \A k \in CacheKey : Over(written[k]) => Over(written[k])'
    BY <1>1, <2>1 DEF Over, CacheTypeOK
  <2>4. ValuesLive'
    BY <1>1, <2>1, <2>3 DEF ValuesLive
  <2>5. QED
    BY <2>2, <2>4 DEF CacheInv
<1>6. CASE UNCHANGED cacheVars
  BY <1>1, <1>6 DEF cacheVars, CacheInv, CacheTypeOK, ValuesLive, Over
<1>7. QED
  BY <1>2, <1>3, <1>4, <1>5, <1>6 DEF CacheNext

(* A value lives as long as it was said to and does not come back, for any *)
(* number of keys, times to live, and sweeps (mem/src/service.ts:345-425,  *)
(* db.ts:162-213).                                                         *)
THEOREM CacheKeepsItsWord == CacheSpec => []ValuesLive
<1>1. CacheInv => ValuesLive
  BY DEF CacheInv
<1>2. QED
  BY <1>1, CacheInvInit, CacheInvStep, PTL DEF CacheSpec

-----------------------------------------------------------------------------
(* On a name nobody works on by two calls at once, a call knows whether    *)
(* its row is there, and the collection that has been made is empty.       *)
CallKnows(c) ==
  LET x == memCall[c] IN
  IF x.pc = "idle" THEN x = NoMemCall
  ELSE /\ x.row \in Collection
       /\ Place[x.row] \notin mixed =>
            /\ \A d \in MemCall :
                 memCall[d].pc # "idle" /\ Place[memCall[d].row] = Place[x.row] => c = d
            /\ x.pc \notin {"create", "created"} => x.row \in rows
            /\ x.pc = "created" =>
                 /\ qdrant[Place[x.row]].there /\ qdrant[Place[x.row]].holds = {}
                 /\ \A k \in rows : Place[k] # Place[x.row]

Emptied(k) ==
  \E c \in MemCall : memCall[c].pc = "deleted" /\ Place[memCall[c].row] = Place[k]

RowOwn(k) ==
  Place[k] \notin mixed /\ ~ Emptied(k) =>
    qdrant[Place[k]].there /\ qdrant[Place[k]].holds \subseteq {k}

RowsOwn ==
  /\ \A k, l \in rows : Place[k] = Place[l] => k = l
  /\ \A p \in Places : ~ qdrant[p].there => qdrant[p].holds = {}
  /\ \A k \in rows : RowOwn(k)

MemInv == MemTypeOK /\ (\A c \in MemCall : CallKnows(c)) /\ RowsOwn

LEMMA MemInvInit == MemInit => MemInv
<1> SUFFICES ASSUME MemInit PROVE MemInv
  OBVIOUS
<1>1. MemTypeOK
  <2>1. NoMemCall \in [pc  : {"idle", "create", "created", "delete", "deleted", "embed", "upsert"},
                      row : Collection \cup {NoCollection}]
    BY DEF NoMemCall
  <2>2. memCall \in [MemCall ->
          [pc  : {"idle", "create", "created", "delete", "deleted", "embed", "upsert"},
           row : Collection \cup {NoCollection}]]
    BY <2>1 DEF MemInit
  <2>3. memCalls \in 0..MemLimit
    BY MemAssumption DEF MemAssumption, MemInit
  <2>4. qdrant \in [Places -> [there : BOOLEAN, holds : SUBSET Collection]]
    BY DEF MemInit
  <2>5. QED
    BY <2>2, <2>3, <2>4 DEF MemInit, MemTypeOK
<1>2. ASSUME NEW c \in MemCall PROVE CallKnows(c)
  BY DEF MemInit, CallKnows, NoMemCall
<1>3. RowsOwn
  BY DEF MemInit, RowsOwn
<1>4. QED
  BY <1>1, <1>2, <1>3 DEF MemInv

(* A step of one call changes nothing elsewhere than on its name.          *)
LEMMA MemElsewhere ==
  ASSUME MemInv, MemTypeOK', NEW c \in MemCall, memCall[c].pc # "idle",
         \A d \in MemCall \ {c} : memCall'[d] = memCall[d],
         memCall'[c].pc = "idle" \/ memCall'[c].row = memCall[c].row,
         mixed \subseteq mixed',
         \A l \in Collection : Place[l] # Place[memCall[c].row] => (l \in rows' <=> l \in rows),
         \A p \in Places \ {Place[memCall[c].row]} : qdrant'[p] = qdrant[p]
  PROVE  /\ \A d \in MemCall \ {c} : CallKnows(d)'
         /\ \A k \in rows' : Place[k] # Place[memCall[c].row] => RowOwn(k)'
<1>1. MemTypeOK /\ RowsOwn /\ rows' \subseteq Collection /\ memCall[c].row \in Collection
  BY DEF MemInv, MemTypeOK, CallKnows
<1>2. ASSUME NEW d \in MemCall \ {c} PROVE CallKnows(d)'
  <2>1. CASE memCall[d].pc = "idle"
    BY <2>1 DEF MemInv, CallKnows
  <2>2. CASE memCall[d].pc # "idle"
    <3>1. CallKnows(d) /\ memCall'[d] = memCall[d] /\ memCall[d].row \in Collection
      BY <2>2 DEF MemInv, CallKnows
    <3> DEFINE P == Place[memCall[d].row]
    <3>2. ASSUME P \notin mixed'
          PROVE  /\ \A e \in MemCall : memCall'[e].pc # "idle" /\ Place[memCall'[e].row] = P => d = e
                 /\ memCall[d].pc \notin {"create", "created"} => memCall[d].row \in rows'
                 /\ memCall[d].pc = "created" => /\ qdrant'[P].there /\ qdrant'[P].holds = {}
                                                 /\ \A k \in rows' : Place[k] # P
      <4>1. P # Place[memCall[c].row]
        BY <2>2, <3>1, <3>2 DEF CallKnows
      <4>2. \A e \in MemCall : memCall'[e].pc # "idle" /\ Place[memCall'[e].row] = P => d = e
        BY <2>2, <3>1, <3>2, <4>1 DEF CallKnows
      <4>3. memCall[d].pc \notin {"create", "created"} => memCall[d].row \in rows'
        BY <2>2, <3>1, <3>2, <4>1 DEF CallKnows
      <4>4. qdrant'[P] = qdrant[P]
        BY <3>1, <4>1 DEF Places
      <4>5. ASSUME memCall[d].pc = "created"
            PROVE  qdrant'[P].there /\ qdrant'[P].holds = {} /\ \A k \in rows' : Place[k] # P
        <5>1. qdrant[P].there /\ qdrant[P].holds = {} /\ \A k \in rows : Place[k] # P
          BY <2>2, <3>1, <3>2, <4>5 DEF CallKnows
        <5>2. \A k \in rows' : Place[k] # P
          BY <1>1, <4>1, <5>1
        <5>3. QED
          BY <4>4, <5>1, <5>2
      <4>6. QED
        BY <4>2, <4>3, <4>5
    <3>3. QED
      BY <2>2, <3>1, <3>2 DEF CallKnows
  <2>3. QED
    BY <2>1, <2>2
<1>3. ASSUME NEW k \in rows', Place[k] # Place[memCall[c].row] PROVE RowOwn(k)'
  <2>1. k \in rows /\ RowOwn(k)
    BY <1>1, <1>3 DEF RowsOwn
  <2>2. qdrant'[Place[k]] = qdrant[Place[k]]
    BY <1>1, <1>3 DEF Places
  <2>3. Emptied(k) => Emptied(k)'
    BY <1>3 DEF Emptied
  <2>4. QED
    BY <2>1, <2>2, <2>3 DEF RowOwn
<1>4. QED
  BY <1>2, <1>3

LEMMA BeginMemInv ==
  ASSUME MemInv, NEW c \in MemCall, NEW k \in Collection, NEW place \in {"create", "delete", "embed"},
         BeginMemCall(c, k, place), place # "create" => k \in rows
  PROVE  MemInv'
<1>1. MemTypeOK /\ RowsOwn /\ memCall[c].pc = "idle" /\ UNCHANGED <<rows, qdrant>>
  BY DEF MemInv, BeginMemCall
<1>2. /\ memCall'[c] = [pc |-> place, row |-> k]
      /\ \A d \in MemCall \ {c} : memCall'[d] = memCall[d]
  BY <1>1 DEF BeginMemCall, MemTypeOK
<1>3. /\ mixed \subseteq mixed'
      /\ Place[k] \notin mixed' =>
           \A d \in MemCall : memCall[d].pc # "idle" => Place[memCall[d].row] # Place[k]
  BY DEF BeginMemCall, WorkedOn
<1>4. MemTypeOK'
  <2>1. memCalls' \in 0..MemLimit
    BY <1>1, MemAssumption DEF MemAssumption, BeginMemCall, MemTypeOK
  <2>2. memCall' \in [MemCall ->
          [pc  : {"idle", "create", "created", "delete", "deleted", "embed", "upsert"},
           row : Collection \cup {NoCollection}]]
    BY <1>1 DEF BeginMemCall, MemTypeOK
  <2>3. mixed' \subseteq Places
    BY <1>1 DEF BeginMemCall, MemTypeOK, Places
  <2>4. QED
    BY <1>1, <2>1, <2>2, <2>3 DEF MemTypeOK
<1>5. CallKnows(c)'
  BY <1>1, <1>2, <1>3 DEF CallKnows
<1>6. ASSUME NEW d \in MemCall \ {c} PROVE CallKnows(d)'
  <2>1. CallKnows(d) /\ memCall'[d] = memCall[d]
    BY <1>2 DEF MemInv
  <2>2. QED
    BY <1>1, <1>2, <1>3, <2>1 DEF CallKnows
<1>7. RowsOwn'
  <2>1. \A l \in rows : Emptied(l) => Emptied(l)'
    BY <1>1, <1>2 DEF Emptied
  <2>2. \A l \in rows : RowOwn(l)'
    BY <1>1, <1>3, <2>1 DEF RowsOwn, RowOwn
  <2>3. QED
    BY <1>1, <2>2 DEF RowsOwn
<1>8. QED
  BY <1>4, <1>5, <1>6, <1>7 DEF MemInv

(* Qdrant makes a collection on a name only where there is none: no row    *)
(* has it then, unless the name is mixed up.                               *)
LEMMA QdrantInv ==
  ASSUME MemInv, NEW c \in MemCall, QdrantServes(c)
  PROVE  MemInv'
<1>1. /\ MemTypeOK /\ RowsOwn /\ CallKnows(c) /\ memCall[c].pc # "idle"
      /\ UNCHANGED <<rows, memCalls, mixed>> /\ memCall[c].row \in Collection
  BY DEF MemInv, QdrantServes, CallKnows
<1> DEFINE k == memCall[c].row
           p == Place[k]
<1>2. p \in Places /\ k \in Collection
  BY <1>1 DEF Places
<1> HIDE DEF p
<1>3. \A d \in MemCall \ {c} : memCall'[d] = memCall[d]
  BY <1>1 DEF QdrantServes, EndMemCall, MemTypeOK
<1>4. \A q \in Places \ {p} : qdrant'[q] = qdrant[q]
  BY <1>1, <1>2 DEF QdrantServes, MemTypeOK, p
<1>5. p \notin mixed =>
        \A d \in MemCall \ {c} : memCall[d].pc # "idle" => Place[memCall[d].row] # p
  BY <1>1 DEF CallKnows, p
<1>6. CASE /\ memCall[c].pc = "create" /\ ~ qdrant[p].there
           /\ qdrant' = [qdrant EXCEPT ![p].there = TRUE]
           /\ memCall' = [memCall EXCEPT ![c].pc = "created"]
  <2>1. memCall'[c].pc = "created" /\ memCall'[c].row = k
    BY <1>1, <1>6 DEF MemTypeOK
  <2>2. MemTypeOK'
    BY <1>1, <1>2, <1>6 DEF MemTypeOK
  <2>3. qdrant'[p].there /\ qdrant'[p].holds = {}
    BY <1>1, <1>2, <1>6 DEF MemTypeOK, RowsOwn
  <2>4. p \notin mixed => \A l \in rows : Place[l] # p
    BY <1>1, <1>5, <1>6 DEF RowsOwn, RowOwn, Emptied
  <2>5. (\A d \in MemCall \ {c} : CallKnows(d)') /\ (\A l \in rows' : Place[l] # p => RowOwn(l)')
    BY <1>1, <1>3, <1>4, <2>1, <2>2, MemElsewhere DEF p
  <2>6. CallKnows(c)'
    BY <1>1, <1>2, <1>3, <1>5, <2>1, <2>3, <2>4 DEF CallKnows, p
  <2>7. RowsOwn'
    <3>1. \A l \in rows' : RowOwn(l)'
      BY <1>1, <2>4, <2>5 DEF RowOwn
    <3>2. QED
      BY <1>1, <1>4, <2>3, <3>1 DEF RowsOwn
  <2>8. QED
    BY <2>2, <2>5, <2>6, <2>7 DEF MemInv
<1>7. CASE /\ memCall[c].pc = "delete"
           /\ qdrant' = [qdrant EXCEPT ![p] = [there |-> FALSE, holds |-> {}]]
           /\ memCall' = [memCall EXCEPT ![c].pc = "deleted"]
  <2>1. memCall'[c].pc = "deleted" /\ memCall'[c].row = k
    BY <1>1, <1>7 DEF MemTypeOK
  <2>2. MemTypeOK'
    BY <1>1, <1>2, <1>7 DEF MemTypeOK
  <2>3. qdrant'[p].holds = {}
    BY <1>1, <1>2, <1>7 DEF MemTypeOK
  <2>4. \A l \in rows : Place[l] = p => Emptied(l)'
    BY <2>1 DEF Emptied, p
  <2>5. (\A d \in MemCall \ {c} : CallKnows(d)') /\ (\A l \in rows' : Place[l] # p => RowOwn(l)')
    BY <1>1, <1>3, <1>4, <2>1, <2>2, MemElsewhere DEF p
  <2>6. CallKnows(c)'
    BY <1>1, <1>2, <1>3, <1>5, <1>7, <2>1 DEF CallKnows, p
  <2>7. RowsOwn'
    <3>1. \A l \in rows' : RowOwn(l)'
      BY <1>1, <2>4, <2>5 DEF RowOwn
    <3>2. QED
      BY <1>1, <1>4, <2>3, <3>1 DEF RowsOwn
  <2>8. QED
    BY <2>2, <2>5, <2>6, <2>7 DEF MemInv
<1>8. CASE /\ memCall[c].pc = "upsert" /\ qdrant[p].there
           /\ qdrant' = [qdrant EXCEPT ![p].holds = @ \cup {k}]
           /\ EndMemCall(c)
  <2>1. memCall'[c] = NoMemCall /\ memCall'[c].pc = "idle"
    BY <1>1, <1>8 DEF MemTypeOK, EndMemCall, NoMemCall
  <2>2. MemTypeOK'
    <3>1. qdrant' \in [Places -> [there : BOOLEAN, holds : SUBSET Collection]]
      BY <1>1, <1>2, <1>8 DEF MemTypeOK
    <3>2. NoMemCall \in [pc  : {"idle", "create", "created", "delete", "deleted", "embed", "upsert"},
                        row : Collection \cup {NoCollection}]
      BY DEF NoMemCall
    <3>3. memCall' \in [MemCall ->
            [pc  : {"idle", "create", "created", "delete", "deleted", "embed", "upsert"},
             row : Collection \cup {NoCollection}]]
      BY <1>1, <1>8, <3>2 DEF EndMemCall, MemTypeOK
    <3>4. QED
      BY <1>1, <3>1, <3>3 DEF MemTypeOK
  <2>3. qdrant'[p].there /\ qdrant'[p].holds = qdrant[p].holds \cup {k}
    BY <1>1, <1>2, <1>8 DEF MemTypeOK
  <2>4. p \notin mixed => \A l \in rows : Place[l] = p => l = k /\ qdrant[p].holds \subseteq {k}
    BY <1>1, <1>5, <1>8 DEF CallKnows, RowsOwn, RowOwn, Emptied, p
  <2>5. (\A d \in MemCall \ {c} : CallKnows(d)') /\ (\A l \in rows' : Place[l] # p => RowOwn(l)')
    BY <1>1, <1>3, <1>4, <2>1, <2>2, MemElsewhere DEF p
  <2>6. CallKnows(c)'
    BY <2>1 DEF CallKnows
  <2>7. RowsOwn'
    <3>1. \A l \in rows' : Place[l] = p => RowOwn(l)'
      BY <1>1, <2>3, <2>4 DEF RowOwn
    <3>2. QED
      BY <1>1, <1>4, <2>3, <2>5, <3>1 DEF RowsOwn
  <2>8. QED
    BY <2>2, <2>5, <2>6, <2>7 DEF MemInv
<1>9. QED
  BY <1>6, <1>7, <1>8 DEF QdrantServes, p

(* A call that ends leaves rows as they are, or takes or gives its own.    *)
LEMMA EndMemInv ==
  ASSUME MemInv, NEW c \in MemCall, memCall[c].pc # "idle", EndMemCall(c),
         UNCHANGED <<qdrant, memCalls>>,
         mixed' = mixed \cup {Place[memCall[c].row]} \/ UNCHANGED mixed,
         \/ UNCHANGED rows /\ (memCall[c].pc \notin {"created", "deleted"}
                               \/ Place[memCall[c].row] \in mixed')
         \/ InsertCollection(c) \/ DropCollection(c)
  PROVE  MemInv'
<1>1. /\ MemTypeOK /\ RowsOwn /\ CallKnows(c) /\ memCall[c].row \in Collection
      /\ mixed \subseteq mixed'
  BY DEF MemInv, CallKnows
<1> DEFINE k == memCall[c].row
           p == Place[k]
<1>2. p \in Places /\ k \in Collection
  BY <1>1 DEF Places
<1> HIDE DEF p
<1>3. /\ memCall'[c] = NoMemCall /\ memCall'[c].pc = "idle"
      /\ \A d \in MemCall \ {c} : memCall'[d] = memCall[d]
  BY <1>1 DEF EndMemCall, MemTypeOK, NoMemCall
<1>4. rows' \in {rows, rows \cup {k}, rows \ {k}}
  BY DEF InsertCollection, DropCollection
<1>5. MemTypeOK'
  <2>1. NoMemCall \in [pc  : {"idle", "create", "created", "delete", "deleted", "embed", "upsert"},
                      row : Collection \cup {NoCollection}]
    BY DEF NoMemCall
  <2>2. memCall' \in [MemCall ->
          [pc  : {"idle", "create", "created", "delete", "deleted", "embed", "upsert"},
           row : Collection \cup {NoCollection}]]
    BY <1>1, <2>1 DEF EndMemCall, MemTypeOK
  <2>3. mixed' \subseteq Places /\ rows' \subseteq Collection
    BY <1>1, <1>2, <1>4 DEF MemTypeOK, p
  <2>4. QED
    BY <1>1, <2>2, <2>3 DEF MemTypeOK
<1>6. (\A d \in MemCall \ {c} : CallKnows(d)') /\ (\A l \in rows' : Place[l] # p => RowOwn(l)')
  BY <1>1, <1>3, <1>4, <1>5, MemElsewhere DEF p
<1>7. CallKnows(c)'
  BY <1>3 DEF CallKnows
<1>8. RowsOwn'
  <2>1. p \notin mixed =>
          \A d \in MemCall \ {c} : memCall[d].pc # "idle" => Place[memCall[d].row] # p
    BY <1>1 DEF CallKnows, p
  <2>2. ASSUME NEW l \in rows', Place[l] = p PROVE RowOwn(l)'
    <3> SUFFICES ASSUME p \notin mixed' PROVE RowOwn(l)'
      BY <2>2 DEF RowOwn
    <3>1. CASE UNCHANGED rows /\ memCall[c].pc \notin {"created", "deleted"}
      <4>1. ~ Emptied(l) /\ l \in rows
        BY <1>1, <2>1, <2>2, <3>1 DEF Emptied
      <4>2. QED
        BY <1>1, <4>1 DEF RowsOwn, RowOwn
    <3>2. CASE InsertCollection(c)
      <4>1. memCall[c].pc = "created" /\ rows' \subseteq rows \cup {k}
        BY <3>2 DEF InsertCollection
      <4>2. l = k /\ qdrant[p].there /\ qdrant[p].holds = {}
        BY <1>1, <2>2, <4>1 DEF CallKnows, p
      <4>3. QED
        BY <2>2, <4>2 DEF RowOwn
    <3>3. CASE DropCollection(c)
      <4>1. k \in rows /\ rows' = rows \ {k}
        BY <1>1, <3>3 DEF DropCollection, CallKnows, p
      <4>2. QED
        BY <1>1, <2>2, <4>1 DEF RowsOwn, p
    <3>4. QED
      BY <3>1, <3>2, <3>3 DEF p
  <2>3. \A l, m \in rows' : Place[l] = Place[m] => l = m
    <3>1. CASE InsertCollection(c)
      BY <1>1, <3>1 DEF InsertCollection, RowsOwn
    <3>2. CASE rows' \subseteq rows
      BY <1>1, <3>2 DEF RowsOwn
    <3>3. QED
      BY <3>1, <3>2 DEF DropCollection
  <2>4. QED
    BY <1>1, <1>6, <2>2, <2>3 DEF RowsOwn
<1>9. QED
  BY <1>5, <1>6, <1>7, <1>8 DEF MemInv

LEMMA MemInvStep == MemInv /\ [MemNext]_memVars => MemInv'
<1> SUFFICES ASSUME MemInv, [MemNext]_memVars PROVE MemInv'
  OBVIOUS
<1>1. ASSUME NEW c \in MemCall, NEW k \in Collection,
             CreateCollection(c, k) \/ DeleteCollection(c, k) \/ UpsertDocuments(c, k)
      PROVE  MemInv'
  BY <1>1, BeginMemInv DEF CreateCollection, DeleteCollection, UpsertDocuments
<1>2. ASSUME NEW c \in MemCall, Embedded(c) PROVE MemInv'
  <2>1. MemTypeOK /\ RowsOwn /\ CallKnows(c) /\ UNCHANGED <<rows, qdrant, memCalls, mixed>>
    BY <1>2 DEF MemInv, Embedded
  <2>2. /\ memCall[c].pc = "embed" /\ memCall'[c].pc = "upsert" /\ memCall'[c].row = memCall[c].row
        /\ \A d \in MemCall \ {c} : memCall'[d] = memCall[d]
    BY <1>2, <2>1 DEF Embedded, MemTypeOK
  <2>3. MemTypeOK'
    BY <1>2, <2>1 DEF Embedded, MemTypeOK
  <2>4. \A d \in MemCall \ {c} : CallKnows(d)'
    BY <2>1, <2>2, <2>3, MemElsewhere
  <2>5. CallKnows(c)'
    BY <2>1, <2>2 DEF CallKnows
  <2>6. \A k : Emptied(k)' = Emptied(k)
    BY <2>2 DEF Emptied
  <2>7. RowsOwn'
    BY <2>1, <2>6 DEF RowsOwn, RowOwn
  <2>8. QED
    BY <2>3, <2>4, <2>5, <2>7 DEF MemInv
<1>3. ASSUME NEW c \in MemCall, QdrantRefuses(c) PROVE MemInv'
  BY <1>3, EndMemInv DEF QdrantRefuses
<1>4. ASSUME NEW c \in MemCall, LoseMemAnswer(c) PROVE MemInv'
  BY <1>4, EndMemInv DEF LoseMemAnswer
<1>5. ASSUME NEW c \in MemCall, InsertCollection(c) \/ DropCollection(c) PROVE MemInv'
  <2>1. memCall[c].pc # "idle" /\ EndMemCall(c) /\ UNCHANGED <<qdrant, memCalls, mixed>>
    BY <1>5 DEF InsertCollection, DropCollection
  <2>2. QED
    BY <1>5, <2>1, EndMemInv
<1>6. CASE UNCHANGED memVars
  <2>1. UNCHANGED <<rows, qdrant, memCall, memCalls, mixed>>
    BY <1>6 DEF memVars
  <2>2. MemTypeOK'
    BY <2>1 DEF MemInv, MemTypeOK
  <2>3. \A c \in MemCall : CallKnows(c)'
    BY <2>1 DEF MemInv, CallKnows
  <2>4. RowsOwn'
    BY <2>1 DEF MemInv, RowsOwn, RowOwn, Emptied
  <2>5. QED
    BY <2>2, <2>3, <2>4 DEF MemInv
<1>7. QED
  BY <1>1, <1>2, <1>3, <1>4, <1>5, <1>6, QdrantInv DEF MemNext, MemStep

(* A collection's row has its collection, with its own documents only, for *)
(* any number of wallets, names and calls and any clash of the names'      *)
(* hashes (mem/src/service.ts:114-165, 199-217, 225-297).                  *)
THEOREM CollectionsStayOwn == MemSpec => []CollectionsAreOwn
<1>1. MemInv => CollectionsAreOwn
  BY DEF MemInv, RowsOwn, RowOwn, Emptied, CollectionsAreOwn, WorkedOn
<1>2. QED
  BY <1>1, MemInvInit, MemInvStep, PTL DEF MemSpec

-----------------------------------------------------------------------------
(* Where it may be that has been live and was not deleted.                 *)
Upright == Live \cup {"failed"}

Agree(i) ==
  /\ machine[i].status \in Live => server[i].status \in Live
  /\ server[i].status \in Live => machine[i].status \in Upright
  /\ machine[i].status \in Live /\ i \notin undone => server[i].size = machine[i].next

(* What an order knows of its item wherever other orders are.              *)
OrderKnows(c) ==
  LET x == order[c] IN
  IF x.pc = "idle" THEN x = NoOrder
  ELSE /\ x.item \in Item
       /\ x.pc \in {"create", "created"} =>
            /\ server[x.item].status = "none"
            /\ \A d \in SpawnOrder \ {c} : order[d].item # x.item
       /\ x.pc = "create" => machine[x.item].status = "none"
       /\ x.pc = "created" => machine[x.item].status \in Upright
       /\ x.pc = "deleted" => machine[x.item].status = "gone"
       /\ x.pc = "refreshed" => x.live \in Live
       /\ x.pc \in {"refresh", "refreshed"} => x.item \in Server

(* And what is so where it is alone with it.                               *)
OrderAlone(c) ==
  LET x == order[c] IN
  x.pc # "idle" /\ x.item \notin unheard \cup crossed =>
    /\ \A d \in SpawnOrder : order[d].item = x.item => c = d
    /\ x.pc = "refreshed" => machine[x.item].status \in Upright
    /\ x.pc \in {"created", "resized"} /\ machine[x.item].status \in Live /\ x.item \notin undone =>
         machine[x.item].next = x.size
    /\ x.pc = "resized" =>
         /\ machine[x.item].status \in Live => server[x.item].status \in Live
         /\ server[x.item].status \in Live => machine[x.item].status \in Upright

Unsettled(i) ==
  \E c \in SpawnOrder :
    order[c].item = i /\ order[c].pc \in {"created", "deleted", "resized"}

Covered(s) ==
  machine[s].status \in Live /\ s \notin unheard =>
    \/ server[s].status \in Live
    \/ \E c \in SpawnOrder : order[c].pc = "created" /\ order[c].item = s

Accurate(i) == i \notin unheard \cup crossed /\ ~ Unsettled(i) => Agree(i)

SpawnInv ==
  /\ SpawnTypeOK
  /\ \A c \in SpawnOrder : OrderKnows(c) /\ OrderAlone(c)
  /\ \A s \in Server : Covered(s)
  /\ \A i \in Item : Accurate(i)

Orders == [pc     : {"idle", "create", "created", "refresh", "refreshed", "delete",
                     "deleted", "resize", "resized"},
           item   : Item \cup {NoItem},
           status : Live \cup {"none", "destroying"}, live : Live \cup {"none"},
           size   : Size \cup {"none"}]

LEMMA SpawnTypes ==
  /\ NoOrder \in Orders
  /\ NoOrder.pc = "idle" /\ NoOrder.item = NoItem /\ NoItem \notin Item
  /\ "none" \notin Upright /\ "gone" \notin Upright /\ "destroying" \notin Upright
  /\ "initializing" \in Live /\ Live \subseteq Upright /\ "failed" \notin Live
<1>1. NoOrder \in Orders
  BY DEF NoOrder, Orders
<1>2. NoOrder.pc = "idle" /\ NoOrder.item = NoItem
  BY DEF NoOrder
<1>3. /\ "none" \notin Upright /\ "gone" \notin Upright /\ "destroying" \notin Upright
      /\ "initializing" \in Live /\ Live \subseteq Upright /\ "failed" \notin Live
  BY DEF Live, Upright
<1>4. QED
  BY <1>1, <1>2, <1>3, SpawnAssumption DEF SpawnAssumption

LEMMA SpawnInvInit == SpawnInit => SpawnInv
<1> SUFFICES ASSUME SpawnInit PROVE SpawnInv
  OBVIOUS
<1>1. SpawnTypeOK
  <2>1. server \in [Item -> ServerRow]
    BY DEF SpawnInit, ServerRow
  <2>2. machine \in [Item -> Machine]
    BY DEF SpawnInit, Machine
  <2>3. order \in [SpawnOrder -> Orders]
    BY SpawnTypes DEF SpawnInit
  <2>4. orders \in 0..SpawnLimit
    BY SpawnAssumption DEF SpawnAssumption, SpawnInit
  <2>5. unheard \subseteq Item /\ crossed \subseteq Item /\ undone \subseteq Item
    BY DEF SpawnInit
  <2>6. QED
    BY <2>1, <2>2, <2>3, <2>4, <2>5 DEF SpawnTypeOK, Orders
<1>2. \A c \in SpawnOrder : order[c] = NoOrder /\ order[c].pc = "idle"
  BY SpawnTypes DEF SpawnInit
<1>3. ASSUME NEW c \in SpawnOrder PROVE OrderKnows(c) /\ OrderAlone(c)
  BY <1>2 DEF OrderKnows, OrderAlone
<1>4. \A i \in Item : server[i].status = "none" /\ machine[i].status = "none"
  BY DEF SpawnInit
<1>5. ASSUME NEW s \in Server PROVE Covered(s)
  BY <1>4, SpawnTypes DEF Covered, Item
<1>6. ASSUME NEW i \in Item PROVE Accurate(i)
  BY <1>4, SpawnTypes DEF Accurate, Agree
<1>7. QED
  BY <1>1, <1>3, <1>5, <1>6 DEF SpawnInv

LEMMA BeginOrderInv ==
  ASSUME SpawnInv, NEW c \in SpawnOrder, NEW i \in Item, NEW z \in Size \cup {"none"},
         NEW place \in {"create", "refresh", "delete", "resize"}, BeginOrder(c, i, place, z),
         place = "create" =>
           server[i].status = "none" /\ machine[i].status = "none" /\ ~ BusyWith(i),
         place # "create" => server[i].status # "none",
         place = "refresh" => i \in Server
  PROVE  SpawnInv'
<1>1. /\ SpawnTypeOK /\ order[c].pc = "idle" /\ UNCHANGED <<server, machine, unheard, undone>>
      /\ \A d \in SpawnOrder : order[d].pc = "idle" => order[d].item = NoItem
  BY SpawnTypes DEF SpawnInv, BeginOrder, OrderKnows
<1> DEFINE x == [NoOrder EXCEPT !.pc = place, !.item = i, !.status = server[i].status, !.size = z]
<1>2. x.pc = place /\ x.item = i /\ x \in Orders
  <2>1. server[i].status \in Live \cup {"none", "destroying"}
    BY <1>1 DEF SpawnTypeOK, ServerRow
  <2>2. QED
    BY <2>1, SpawnTypes DEF Orders
<1>3. order' = [order EXCEPT ![c] = x]
  BY DEF BeginOrder
<1> HIDE DEF x
<1>4. order'[c] = x /\ \A d \in SpawnOrder \ {c} : order'[d] = order[d]
  BY <1>1, <1>3 DEF SpawnTypeOK
<1>5. crossed \subseteq crossed' /\ (i \notin crossed' => ~ BusyWith(i)) /\ crossed' \subseteq Item
  BY <1>1 DEF BeginOrder, SpawnTypeOK
<1>6. SpawnTypeOK'
  <2>1. order' \in [SpawnOrder -> Orders]
    BY <1>1, <1>2, <1>3 DEF SpawnTypeOK, Orders
  <2>2. orders' \in 0..SpawnLimit
    BY <1>1, SpawnAssumption DEF SpawnAssumption, BeginOrder, SpawnTypeOK
  <2>3. QED
    BY <1>1, <1>5, <2>1, <2>2 DEF SpawnTypeOK, Orders
<1>7. ~ BusyWith(i) => \A d \in SpawnOrder \ {c} : order[d].item # i
  BY <1>1, SpawnTypes DEF BusyWith
<1>8. OrderKnows(c)'
  BY <1>1, <1>2, <1>4, <1>7 DEF OrderKnows
<1>9. OrderAlone(c)'
  BY <1>2, <1>4, <1>5, <1>7 DEF OrderAlone
<1>10. ASSUME NEW d \in SpawnOrder \ {c} PROVE OrderKnows(d)'
  <2>1. OrderKnows(d) /\ order'[d] = order[d]
    BY <1>4 DEF SpawnInv
  <2>2. order[d].pc \in {"create", "created"} => order[d].item # i
    BY <1>7, <2>1 DEF OrderKnows
  <2>3. QED
    BY <1>1, <1>2, <1>4, <2>1, <2>2 DEF OrderKnows
<1>11. ASSUME NEW d \in SpawnOrder \ {c} PROVE OrderAlone(d)'
  <2>1. OrderAlone(d) /\ order'[d] = order[d]
    BY <1>4 DEF SpawnInv
  <2>2. order[d].pc # "idle" /\ order[d].item \notin crossed' => order[d].item # i
    BY <1>5 DEF BusyWith
  <2>3. QED
    BY <1>1, <1>2, <1>4, <1>5, <2>1, <2>2 DEF OrderAlone
<1>12. ASSUME NEW s \in Server PROVE Covered(s)'
  BY <1>1, <1>4 DEF SpawnInv, Covered
<1>13. ASSUME NEW j \in Item PROVE Accurate(j)'
  <2>1. Unsettled(j) => Unsettled(j)'
    BY <1>1, <1>4 DEF Unsettled
  <2>2. QED
    BY <1>1, <1>5, <2>1 DEF SpawnInv, Accurate, Agree
<1>14. QED
  BY <1>6, <1>8, <1>9, <1>10, <1>11, <1>12, <1>13 DEF SpawnInv

(* A step of one order changes nothing for other items, and for other      *)
(* orders of its item nothing that they could still know.                  *)
LEMMA SpawnElsewhere ==
  ASSUME SpawnInv, NEW c \in SpawnOrder, order[c].pc # "idle", SpawnTypeOK',
         NEW i \in Item, i = order[c].item,
         \A j \in Item \ {i} : server'[j] = server[j] /\ machine'[j] = machine[j],
         machine[i].status = "gone" => machine'[i].status = "gone",
         \A j \in Item \ {i} : j \in undone' <=> j \in undone,
         \A d \in SpawnOrder \ {c} : order'[d] = order[d],
         order'[c].item \in {i, NoItem},
         unheard \subseteq unheard', crossed \subseteq crossed'
  PROVE  /\ \A d \in SpawnOrder \ {c} : OrderKnows(d)' /\ OrderAlone(d)'
         /\ \A s \in Server \ {i} : Covered(s)'
         /\ \A j \in Item \ {i} : Accurate(j)'
<1>1. ASSUME NEW d \in SpawnOrder \ {c} PROVE OrderKnows(d)' /\ OrderAlone(d)'
  <2>1. OrderKnows(d) /\ OrderAlone(d) /\ order'[d] = order[d]
    BY DEF SpawnInv
  <2>2. CASE order[d].pc = "idle"
    BY <2>1, <2>2 DEF OrderKnows, OrderAlone
  <2>3. CASE order[d].pc # "idle" /\ order[d].item # i
    <3>1. order[d].item \in Item \ {i}
      BY <2>1, <2>3 DEF OrderKnows
    <3>2. order'[c].item # order[d].item
      BY <3>1, SpawnTypes
    <3>3. OrderKnows(d)'
      BY <2>1, <2>3, <3>1, <3>2 DEF OrderKnows
    <3>4. OrderAlone(d)'
      BY <2>1, <2>3, <3>1, <3>2 DEF OrderAlone
    <3>5. QED
      BY <3>3, <3>4
  <2>4. CASE order[d].pc # "idle" /\ order[d].item = i
    <3>1. order[d].pc \notin {"create", "created"} /\ i \in unheard \cup crossed
      BY <2>1, <2>4 DEF OrderKnows, OrderAlone
    <3>2. OrderKnows(d)'
      BY <2>1, <2>4, <3>1 DEF OrderKnows
    <3>3. OrderAlone(d)'
      BY <2>1, <2>4, <3>1 DEF OrderAlone
    <3>4. QED
      BY <3>2, <3>3
  <2>5. QED
    BY <2>2, <2>3, <2>4
<1>2. ASSUME NEW s \in Server \ {i} PROVE Covered(s)'
  <2>1. s \in Item /\ Covered(s)
    BY DEF SpawnInv, Item
  <2>2. QED
    BY <2>1 DEF Covered
<1>3. ASSUME NEW j \in Item \ {i} PROVE Accurate(j)'
  <2>1. Unsettled(j) => Unsettled(j)'
    BY DEF Unsettled
  <2>2. QED
    BY <2>1 DEF SpawnInv, Accurate, Agree
<1>4. QED
  BY <1>1, <1>2, <1>3

LEMMA OneOrder ==
  ASSUME SpawnInv, NEW c \in SpawnOrder, order[c].pc # "idle", SpawnTypeOK',
         NEW i \in Item, i = order[c].item,
         \A j \in Item \ {i} : server'[j] = server[j] /\ machine'[j] = machine[j],
         machine[i].status = "gone" => machine'[i].status = "gone",
         \A j \in Item \ {i} : j \in undone' <=> j \in undone,
         \A d \in SpawnOrder \ {c} : order'[d] = order[d],
         order'[c].item \in {i, NoItem},
         unheard \subseteq unheard', crossed \subseteq crossed',
         OrderKnows(c)', OrderAlone(c)', Accurate(i)', i \in Server => Covered(i)'
  PROVE  SpawnInv'
<1>1. \A d \in SpawnOrder \ {c} : OrderKnows(d)' /\ OrderAlone(d)'
  BY SpawnElsewhere
<1>2. (\A s \in Server \ {i} : Covered(s)') /\ (\A j \in Item \ {i} : Accurate(j)')
  BY SpawnElsewhere
<1>3. QED
  BY <1>1, <1>2 DEF SpawnInv

(* What the provider does is not in the row yet.                           *)
LEMMA ServedInv ==
  ASSUME SpawnInv, NEW c \in SpawnOrder, ProviderServes(c)
  PROVE  SpawnInv'
<1>1. /\ SpawnTypeOK /\ OrderKnows(c) /\ OrderAlone(c) /\ order[c].pc # "idle"
      /\ UNCHANGED <<server, orders, unheard, crossed>>
  BY DEF SpawnInv, ProviderServes, Served
<1>2. PICK i \in Item : i = order[c].item
  BY <1>1 DEF OrderKnows
<1>3. /\ Accurate(i) /\ (i \in Server => Covered(i))
      /\ i \notin unheard \cup crossed /\ order[c].pc \notin {"created", "deleted", "resized"} =>
           ~ Unsettled(i)
  BY <1>1, <1>2 DEF SpawnInv, OrderAlone, Unsettled
<1>4. \A d \in SpawnOrder \ {c} : order'[d] = order[d]
  BY <1>1 DEF ProviderServes, Served, SpawnTypeOK
<1>5. /\ \A j \in Item \ {i} : server'[j] = server[j] /\ machine'[j] = machine[j]
      /\ \A j \in Item \ {i} : j \in undone' <=> j \in undone
  BY <1>1, <1>2 DEF ProviderServes, Served, SpawnTypeOK
<1>6. order[c] \in Orders /\ machine[i] \in Machine
  BY <1>1 DEF SpawnTypeOK, Orders
<1>7. CASE /\ order[c].pc = "create" /\ UNCHANGED undone
           /\ machine' = [machine EXCEPT ![i] =
                [status |-> "initializing", size |-> "none", next |-> order[c].size]]
           /\ order' = [order EXCEPT ![c].pc = "created"]
  <2>1. SpawnTypeOK'
    <3>1. [status |-> "initializing", size |-> "none", next |-> order[c].size] \in Machine
      BY <1>6, SpawnTypes DEF Machine, Orders
    <3>2. QED
      BY <1>1, <1>7, <3>1 DEF SpawnTypeOK
  <2>2. /\ order'[c].pc = "created" /\ order'[c].item = i /\ order'[c].size = order[c].size
        /\ machine'[i].status = "initializing" /\ machine'[i].next = order[c].size
    BY <1>1, <1>2, <1>7 DEF SpawnTypeOK
  <2>3. machine[i].status = "none"
    BY <1>1, <1>2, <1>7 DEF OrderKnows
  <2>4. OrderKnows(c)'
    BY <1>1, <1>2, <1>4, <1>7, <2>2, SpawnTypes DEF OrderKnows
  <2>5. OrderAlone(c)'
    BY <1>1, <1>2, <1>4, <1>7, <2>2 DEF OrderAlone
  <2>6. Accurate(i)'
    BY <2>2 DEF Accurate, Unsettled
  <2>7. i \in Server => Covered(i)'
    BY <2>2 DEF Covered
  <2>8. QED
    BY <1>1, <1>2, <1>4, <1>5, <2>1, <2>2, <2>3, <2>4, <2>5, <2>6, <2>7, OneOrder
<1>8. CASE /\ order[c].pc = "delete" /\ UNCHANGED undone
           /\ machine' = [machine EXCEPT ![i].status = "gone"]
           /\ order' = [order EXCEPT ![c].pc = "deleted"]
  <2>1. SpawnTypeOK'
    <3>1. [machine[i] EXCEPT !.status = "gone"] \in Machine
      BY <1>6 DEF Machine
    <3>2. machine' \in [Item -> Machine]
      BY <1>1, <1>8, <3>1 DEF SpawnTypeOK
    <3>3. order' \in [SpawnOrder -> Orders]
      BY <1>1, <1>8 DEF SpawnTypeOK, Orders
    <3>4. QED
      BY <1>1, <1>8, <3>2, <3>3 DEF SpawnTypeOK, Orders
  <2>2. order'[c].pc = "deleted" /\ order'[c].item = i /\ machine'[i].status = "gone"
    BY <1>1, <1>2, <1>8 DEF SpawnTypeOK
  <2>3. OrderKnows(c)'
    BY <1>2, <2>2 DEF OrderKnows
  <2>4. OrderAlone(c)'
    BY <1>1, <1>2, <1>4, <1>8, <2>2 DEF OrderAlone
  <2>5. Accurate(i)'
    BY <2>2 DEF Accurate, Unsettled
  <2>6. i \in Server => Covered(i)'
    BY <2>2, SpawnTypes DEF Covered
  <2>7. QED
    BY <1>1, <1>2, <1>4, <1>5, <2>1, <2>2, <2>3, <2>4, <2>5, <2>6, OneOrder
<1>9. CASE /\ order[c].pc = "resize" /\ machine[i].status \in Live /\ undone' = undone \ {i}
           /\ machine' = [machine EXCEPT ![i].next = order[c].size]
           /\ order' = [order EXCEPT ![c].pc = "resized"]
  <2>1. SpawnTypeOK'
    <3>1. order[c].size \in Size \cup {"none"}
      BY <1>6 DEF Orders
    <3>2. machine' \in [Item -> Machine]
      BY <1>1, <1>9, <3>1 DEF SpawnTypeOK, Machine
    <3>3. order' \in [SpawnOrder -> Orders] /\ undone' \subseteq Item
      BY <1>1, <1>9 DEF SpawnTypeOK, Orders
    <3>4. QED
      BY <1>1, <3>2, <3>3 DEF SpawnTypeOK, Orders
  <2>2. /\ order'[c].pc = "resized" /\ order'[c].item = i /\ order'[c].size = order[c].size
        /\ machine'[i].status = machine[i].status /\ machine'[i].next = order[c].size
    BY <1>1, <1>2, <1>9 DEF SpawnTypeOK
  <2>3. OrderKnows(c)'
    BY <1>2, <2>2 DEF OrderKnows
  <2>4. i \notin unheard \cup crossed => Agree(i)
    BY <1>3, <1>9 DEF Accurate
  <2>5. OrderAlone(c)'
    BY <1>1, <1>2, <1>4, <1>9, <2>2, <2>4 DEF OrderAlone, Agree
  <2>6. Accurate(i)'
    BY <2>2 DEF Accurate, Unsettled
  <2>7. i \in Server => Covered(i)'
    BY <1>1, <1>3, <1>4, <1>9, <2>2 DEF Covered
  <2>8. QED
    BY <1>1, <1>2, <1>4, <1>5, <2>1, <2>2, <2>3, <2>5, <2>6, <2>7, OneOrder
<1>10. CASE /\ order[c].pc = "refresh" /\ machine[i].status \in Live /\ UNCHANGED <<machine, undone>>
            /\ order' = [order EXCEPT ![c] = [@ EXCEPT !.pc = "refreshed", !.live = machine[i].status]]
  <2>1. SpawnTypeOK'
    <3>1. machine[i].status \in Live \cup {"none"}
      BY <1>10
    <3>2. order' \in [SpawnOrder -> Orders]
      <4> DEFINE v == machine[i].status
      <4>1. v \in Live \cup {"none"} /\ order \in [SpawnOrder -> Orders]
        BY <1>1, <3>1 DEF SpawnTypeOK, Orders
      <4>2. order' = [order EXCEPT ![c] = [@ EXCEPT !.pc = "refreshed", !.live = v]]
        BY <1>10
      <4> HIDE DEF v
      <4>3. QED
        BY <4>1, <4>2 DEF Orders
    <3>3. QED
      BY <1>1, <1>10, <3>2 DEF SpawnTypeOK, Orders
  <2>2. order'[c].pc = "refreshed" /\ order'[c].item = i /\ order'[c].live = machine[i].status
    BY <1>1, <1>2, <1>10 DEF SpawnTypeOK
  <2>3. OrderKnows(c)'
    BY <1>1, <1>2, <1>10, <2>2 DEF OrderKnows
  <2>4. OrderAlone(c)'
    BY <1>1, <1>2, <1>4, <1>10, <2>2, SpawnTypes DEF OrderAlone
  <2>5. Unsettled(i) => Unsettled(i)'
    BY <1>4, <1>10 DEF Unsettled
  <2>6. Accurate(i)'
    BY <1>1, <1>3, <1>10, <2>5 DEF Accurate, Agree
  <2>7. i \in Server => Covered(i)'
    BY <1>1, <1>3, <1>4, <1>10 DEF Covered
  <2>8. QED
    BY <1>1, <1>2, <1>4, <1>5, <1>10, <2>1, <2>2, <2>3, <2>4, <2>6, <2>7, OneOrder
<1>11. QED
  BY <1>1, <1>2, <1>7, <1>8, <1>9, <1>10 DEF ProviderServes, Served

(* An order that ends has written its row, or nobody relies on it.         *)
LEMMA EndOrderInv ==
  ASSUME SpawnInv, NEW c \in SpawnOrder, order[c].pc # "idle", EndOrder(c), SpawnTypeOK',
         NEW i \in Item, i = order[c].item,
         \A j \in Item \ {i} : server'[j] = server[j],
         UNCHANGED <<machine, crossed, undone>>, unheard \subseteq unheard',
         Accurate(i)', i \in Server => Covered(i)'
  PROVE  SpawnInv'
<1>1. SpawnTypeOK /\ NoOrder.pc = "idle" /\ NoOrder.item = NoItem
  BY SpawnTypes DEF SpawnInv
<1>2. order'[c] = NoOrder /\ \A d \in SpawnOrder \ {c} : order'[d] = order[d]
  BY <1>1 DEF EndOrder, SpawnTypeOK
<1>3. OrderKnows(c)' /\ OrderAlone(c)'
  BY <1>1, <1>2 DEF OrderKnows, OrderAlone
<1>4. QED
  BY <1>1, <1>2, <1>3, OneOrder

LEMMA EndsInSpawn ==
  ASSUME SpawnInv, NEW c \in SpawnOrder, order[c].pc # "idle", EndOrder(c)
  PROVE  /\ SpawnTypeOK /\ order' \in [SpawnOrder -> Orders] /\ order'[c].pc = "idle"
         /\ \A d \in SpawnOrder \ {c} : order'[d] = order[d]
         /\ OrderKnows(c) /\ OrderAlone(c) /\ order[c].item \in Item
         /\ \A i \in Item : Accurate(i) /\ (i \in Server => Covered(i))
         /\ order[c].item \notin unheard \cup crossed /\
              order[c].pc \notin {"created", "deleted", "resized"} => ~ Unsettled(order[c].item)
<1>1. SpawnTypeOK /\ OrderKnows(c) /\ OrderAlone(c) /\ order[c].item \in Item
  BY DEF SpawnInv, OrderKnows
<1>2. order' \in [SpawnOrder -> Orders] /\ order'[c].pc = "idle"
  BY <1>1, SpawnTypes DEF EndOrder, SpawnTypeOK, Orders
<1>3. \A d \in SpawnOrder \ {c} : order'[d] = order[d]
  BY <1>1 DEF EndOrder, SpawnTypeOK
<1>4. order[c].item \notin unheard \cup crossed /\
        order[c].pc \notin {"created", "deleted", "resized"} => ~ Unsettled(order[c].item)
  BY <1>1 DEF OrderAlone, Unsettled
<1>5. QED
  BY <1>1, <1>2, <1>3, <1>4 DEF SpawnInv

LEMMA RefusedInv ==
  ASSUME SpawnInv, NEW c \in SpawnOrder, ProviderRefuses(c) \/ LoseAnswer(c)
  PROVE  SpawnInv'
<1>1. /\ order[c].pc # "idle" /\ EndOrder(c) /\ UNCHANGED <<server, machine, orders, crossed, undone>>
      /\ unheard' = unheard \/ unheard' = unheard \cup {order[c].item}
      /\ order[c].pc \in {"created", "deleted", "resized"} => unheard' = unheard \cup {order[c].item}
  BY DEF ProviderRefuses, LoseAnswer
<1>2. PICK i \in Item : i = order[c].item
  BY <1>1, EndsInSpawn
<1>3. SpawnTypeOK'
  BY <1>1, <1>2, EndsInSpawn DEF SpawnTypeOK, Orders
<1>4. ASSUME i \notin unheard' PROVE Unsettled(i) => Unsettled(i)'
  BY <1>1, <1>2, <1>4, EndsInSpawn DEF Unsettled
<1>5. Accurate(i)'
  BY <1>1, <1>4, EndsInSpawn DEF Accurate, Agree
<1>6. i \in Server => Covered(i)'
  BY <1>1, <1>2, EndsInSpawn DEF Covered
<1>7. QED
  BY <1>1, <1>2, <1>3, <1>5, <1>6, EndOrderInv

LEMMA WriteRowInv ==
  ASSUME SpawnInv, NEW c \in SpawnOrder,
         InsertItem(c) \/ RefreshStatus(c) \/ MarkDeleted(c) \/ MarkResized(c)
  PROVE  SpawnInv'
<1>1. order[c].pc # "idle" /\ EndOrder(c) /\ UNCHANGED <<machine, orders, unheard, crossed, undone>>
  BY DEF InsertItem, RefreshStatus, MarkDeleted, MarkResized
<1>2. PICK i \in Item : i = order[c].item
  BY <1>1, EndsInSpawn
<1>3. SpawnTypeOK /\ OrderKnows(c) /\ OrderAlone(c) /\ Accurate(i) /\ (i \in Server => Covered(i))
  BY <1>1, <1>2, EndsInSpawn
<1>4. \A j \in Item \ {i} : server'[j] = server[j]
  BY <1>2, <1>3 DEF InsertItem, RefreshStatus, MarkDeleted, MarkResized, SpawnTypeOK
<1>5. ASSUME server' \in [Item -> ServerRow]
      PROVE  SpawnTypeOK'
  BY <1>1, <1>5, EndsInSpawn DEF SpawnTypeOK, Orders
<1>6. CASE InsertItem(c)
  <2>1. order[c].pc = "created" /\ order[c].size \in Size \cup {"none"}
    BY <1>3, <1>6 DEF InsertItem, SpawnTypeOK, Orders
  <2>2. server' = [server EXCEPT ![i] = [status |-> "initializing", size |-> order[c].size]]
    BY <1>2, <1>6 DEF InsertItem
  <2>3. SpawnTypeOK'
    BY <1>3, <1>5, <2>1, <2>2, SpawnTypes DEF SpawnTypeOK, ServerRow
  <2>4. server'[i].status \in Live /\ server'[i].size = order[c].size
    BY <1>3, <2>2, SpawnTypes DEF SpawnTypeOK
  <2>5. Accurate(i)'
    BY <1>1, <1>2, <1>3, <2>1, <2>4 DEF Accurate, Agree, OrderKnows, OrderAlone
  <2>6. i \in Server => Covered(i)'
    BY <2>4 DEF Covered
  <2>7. QED
    BY <1>1, <1>2, <1>4, <2>3, <2>5, <2>6, EndOrderInv
<1>7. CASE RefreshStatus(c)
  <2>1. /\ order[c].pc = "refreshed" /\ order[c].live \in Live
        /\ server' = server \/ server' = [server EXCEPT ![i].status = order[c].live]
    BY <1>2, <1>3, <1>7 DEF RefreshStatus, OrderKnows
  <2>2. SpawnTypeOK'
    BY <1>3, <1>5, <2>1 DEF SpawnTypeOK, ServerRow
  <2>3. /\ server'[i].size = server[i].size
        /\ server'[i].status = server[i].status \/ server'[i].status \in Live
    <3>1. server \in [Item -> ServerRow] /\ server[i] \in ServerRow
      BY <1>3 DEF SpawnTypeOK
    <3>2. CASE server' = [server EXCEPT ![i].status = order[c].live]
      <4>1. server'[i] = [server[i] EXCEPT !.status = order[c].live]
        BY <3>1, <3>2
      <4>2. QED
        BY <2>1, <3>1, <4>1 DEF ServerRow
    <3>3. QED
      BY <2>1, <3>2
  <2>4. i \notin unheard \cup crossed => machine[i].status \in Upright /\ Agree(i)
    BY <1>1, <1>2, <1>3, <2>1, EndsInSpawn DEF OrderAlone, Accurate
  <2>5. Accurate(i)'
    BY <1>1, <2>3, <2>4 DEF Accurate, Agree
  <2>6. i \in Server => Covered(i)'
    <3>1. \A d \in SpawnOrder : order[d].pc = "created" => order'[d] = order[d]
      BY <1>1, <2>1, EndsInSpawn
    <3>2. QED
      BY <1>1, <1>3, <2>3, <3>1 DEF Covered
  <2>7. QED
    BY <1>1, <1>2, <1>4, <2>2, <2>5, <2>6, EndOrderInv
<1>8. CASE MarkDeleted(c)
  <2>1. /\ order[c].pc = "deleted"
        /\ server' = [server EXCEPT ![i] = IF i \in Server THEN [@ EXCEPT !.status = "destroying"]
                                           ELSE [status |-> "none", size |-> "none"]]
    BY <1>2, <1>8 DEF MarkDeleted
  <2>2. SpawnTypeOK'
    BY <1>3, <1>5, <2>1 DEF SpawnTypeOK, ServerRow
  <2>3. server'[i].status \in {"none", "destroying"}
    BY <1>3, <2>1 DEF SpawnTypeOK
  <2>4. machine[i].status = "gone"
    BY <1>2, <1>3, <2>1 DEF OrderKnows
  <2>5. Accurate(i)'
    BY <1>1, <2>3, <2>4, SpawnTypes DEF Accurate, Agree
  <2>6. i \in Server => Covered(i)'
    BY <1>1, <2>4, SpawnTypes DEF Covered
  <2>7. QED
    BY <1>1, <1>2, <1>4, <2>2, <2>5, <2>6, EndOrderInv
<1>9. CASE MarkResized(c)
  <2>1. /\ order[c].pc = "resized" /\ order[c].size \in Size \cup {"none"}
        /\ server' = [server EXCEPT ![i].size = order[c].size]
    BY <1>2, <1>3, <1>9 DEF MarkResized, SpawnTypeOK
  <2>2. SpawnTypeOK'
    BY <1>3, <1>5, <2>1 DEF SpawnTypeOK, ServerRow
  <2>3. server'[i].status = server[i].status /\ server'[i].size = order[c].size
    BY <1>3, <2>1 DEF SpawnTypeOK
  <2>4. Accurate(i)'
    BY <1>1, <1>2, <1>3, <2>1, <2>3 DEF Accurate, Agree, OrderAlone
  <2>5. i \in Server => Covered(i)'
    <3>1. \A d \in SpawnOrder : order[d].pc = "created" => order'[d] = order[d]
      BY <1>1, <2>1, EndsInSpawn
    <3>2. QED
      BY <1>1, <1>3, <2>3, <3>1 DEF Covered
  <2>6. QED
    BY <1>1, <1>2, <1>4, <2>2, <2>4, <2>5, EndOrderInv
<1>10. QED
  BY <1>6, <1>7, <1>8, <1>9

(* What becomes of a server by itself: it stays one that is or was live,   *)
(* and moves to the size it was moving to, or its action has failed.       *)
LEMMA MachineMoves ==
  ASSUME SpawnInv, NEW s \in Server, Power(s) \/ ActionEnds(s) \/ ActionFails(s)
  PROVE  /\ UNCHANGED <<server, order, orders, unheard, crossed>> /\ SpawnTypeOK'
         /\ machine[s].status \in Live /\ machine'[s].status \in Upright
         /\ \A i \in Item \ {s} : machine'[i] = machine[i] /\ (i \in undone' <=> i \in undone)
         /\ s \notin undone' => s \notin undone
         /\ machine'[s].status \in Live /\ s \notin undone' => machine'[s].next = machine[s].next
<1>1. SpawnTypeOK /\ s \in Item /\ UNCHANGED <<server, order, orders, unheard, crossed>>
  BY DEF SpawnInv, Power, ActionEnds, ActionFails, Item
<1>2. machine \in [Item -> Machine] /\ machine[s] \in Machine
  BY <1>1 DEF SpawnTypeOK
<1>3. {"running", "off"} \subseteq Live
  BY DEF Live
<1>4. CASE Power(s)
  <2>1. PICK status \in {"running", "off"} : machine' = [machine EXCEPT ![s].status = status]
    BY <1>4 DEF Power
  <2>2. status \in Live /\ machine[s].status \in Live /\ UNCHANGED undone
    BY <1>3, <1>4 DEF Power
  <2>3. machine' \in [Item -> Machine]
    BY <1>2, <2>1, <2>2 DEF Machine
  <2>4. machine'[s].status \in Live /\ machine'[s].next = machine[s].next
    BY <1>1, <1>2, <2>1, <2>2
  <2>5. SpawnTypeOK'
    BY <1>1, <2>2, <2>3 DEF SpawnTypeOK
  <2>6. QED
    BY <1>1, <1>2, <2>1, <2>2, <2>4, <2>5, SpawnTypes
<1>5. CASE ActionEnds(s)
  <2> DEFINE m == [status |-> IF machine[s].status = "initializing" THEN "running"
                              ELSE machine[s].status,
                   size |-> machine[s].next, next |-> machine[s].next]
  <2>1. machine' = [machine EXCEPT ![s] = m] /\ machine[s].status \in Live /\ UNCHANGED undone
    BY <1>5 DEF ActionEnds, Acting
  <2>2. m \in Machine /\ m.status \in Live /\ m.next = machine[s].next
    BY <1>2, <1>3, <2>1 DEF Machine
  <2> HIDE DEF m
  <2>3. SpawnTypeOK'
    BY <1>1, <2>1, <2>2 DEF SpawnTypeOK
  <2>4. QED
    BY <1>1, <1>2, <2>1, <2>2, <2>3, SpawnTypes
<1>6. CASE ActionFails(s)
  <2>1. machine[s].status \in Live
    BY <1>6 DEF ActionFails, Acting
  <2>2. CASE machine' = [machine EXCEPT ![s].status = "failed"] /\ UNCHANGED undone
    <3>1. SpawnTypeOK'
      BY <1>1, <1>2, <2>2 DEF SpawnTypeOK, Machine
    <3>2. machine'[s].status = "failed" /\ "failed" \in Upright
      BY <1>1, <1>2, <2>2 DEF Upright
    <3>3. QED
      BY <1>1, <1>2, <2>1, <2>2, <3>1, <3>2, SpawnTypes
  <2>3. CASE machine' = [machine EXCEPT ![s].next = machine[s].size] /\ undone' = undone \cup {s}
    <3>1. SpawnTypeOK'
      BY <1>1, <1>2, <2>3 DEF SpawnTypeOK, Machine
    <3>2. machine'[s].status = machine[s].status
      BY <1>1, <1>2, <2>3
    <3>3. QED
      BY <1>1, <1>2, <2>1, <2>3, <3>1, <3>2, SpawnTypes
  <2>4. QED
    BY <1>6, <2>2, <2>3 DEF ActionFails
<1>7. QED
  BY <1>4, <1>5, <1>6

LEMMA MachineInv ==
  ASSUME SpawnInv, NEW s \in Server, Power(s) \/ ActionEnds(s) \/ ActionFails(s)
  PROVE  SpawnInv'
<1>1. /\ UNCHANGED <<server, order, orders, unheard, crossed>> /\ SpawnTypeOK'
      /\ machine[s].status \in Live /\ machine'[s].status \in Upright
      /\ \A i \in Item \ {s} : machine'[i] = machine[i] /\ (i \in undone' <=> i \in undone)
      /\ s \notin undone' => s \notin undone
      /\ machine'[s].status \in Live /\ s \notin undone' => machine'[s].next = machine[s].next
  BY MachineMoves
<1>2. ASSUME NEW i \in Item
      PROVE  /\ machine'[i].status \in Live => machine[i].status \in Live
             /\ machine[i].status \in Upright => machine'[i].status \in Upright
             /\ i \notin undone' => i \notin undone
             /\ machine'[i].status \in Live /\ i \notin undone' => machine'[i].next = machine[i].next
  BY <1>1
<1>3. ASSUME NEW c \in SpawnOrder PROVE OrderKnows(c)'
  <2>1. OrderKnows(c)
    BY DEF SpawnInv
  <2>2. CASE order[c].pc = "idle"
    BY <1>1, <2>1, <2>2 DEF OrderKnows
  <2>3. CASE order[c].pc # "idle" /\ order[c].item # s
    BY <1>1, <2>1, <2>3 DEF OrderKnows
  <2>4. CASE order[c].pc # "idle" /\ order[c].item = s
    BY <1>1, <2>1, <2>4, SpawnTypes DEF OrderKnows
  <2>5. QED
    BY <2>2, <2>3, <2>4
<1>4. ASSUME NEW c \in SpawnOrder PROVE OrderAlone(c)'
  <2>1. OrderAlone(c) /\ (order[c].pc # "idle" => order[c].item \in Item)
    BY DEF SpawnInv, OrderKnows
  <2>2. QED
    BY <1>1, <1>2, <2>1 DEF OrderAlone
<1>5. ASSUME NEW t \in Server PROVE Covered(t)'
  <2>1. Covered(t) /\ t \in Item
    BY DEF SpawnInv, Item
  <2>2. QED
    BY <1>1, <1>2, <2>1 DEF Covered
<1>6. ASSUME NEW i \in Item PROVE Accurate(i)'
  <2>1. Accurate(i) /\ Unsettled(i)' = Unsettled(i)
    BY <1>1 DEF SpawnInv, Unsettled
  <2>2. QED
    BY <1>1, <1>2, <2>1 DEF Accurate, Agree
<1>7. QED
  BY <1>1, <1>3, <1>4, <1>5, <1>6 DEF SpawnInv

LEMMA SpawnInvStep == SpawnInv /\ [SpawnNext]_spawnVars => SpawnInv'
<1> SUFFICES ASSUME SpawnInv, [SpawnNext]_spawnVars PROVE SpawnInv'
  OBVIOUS
<1>1. Server \subseteq Item /\ SshKey \subseteq Item
  BY DEF Item
<1>2. ASSUME NEW c \in SpawnOrder, NEW s \in Server, NEW z \in Size,
             CreateServer(c, s, z) \/ ResizeServer(c, s, z)
      PROVE  SpawnInv'
  BY <1>1, <1>2, BeginOrderInv DEF CreateServer, ResizeServer
<1>3. ASSUME NEW c \in SpawnOrder, NEW k \in SshKey, RegisterSshKey(c, k) PROVE SpawnInv'
  BY <1>1, <1>3, BeginOrderInv DEF RegisterSshKey
<1>4. ASSUME NEW c \in SpawnOrder, NEW s \in Server, GetServer(c, s) PROVE SpawnInv'
  BY <1>1, <1>4, BeginOrderInv, SpawnTypes DEF GetServer
<1>5. ASSUME NEW c \in SpawnOrder, NEW i \in Item, DeleteItem(c, i) PROVE SpawnInv'
  BY <1>5, BeginOrderInv DEF DeleteItem
<1>6. CASE UNCHANGED spawnVars
  <2>1. UNCHANGED <<server, machine, order, orders, unheard, crossed, undone>>
    BY <1>6 DEF spawnVars
  <2>2. SpawnTypeOK'
    BY <2>1 DEF SpawnInv, SpawnTypeOK
  <2>3. \A c \in SpawnOrder : OrderKnows(c)' /\ OrderAlone(c)'
    BY <2>1 DEF SpawnInv, OrderKnows, OrderAlone
  <2>4. \A s \in Server : Covered(s)'
    BY <2>1 DEF SpawnInv, Covered
  <2>5. \A i \in Item : Accurate(i)'
    BY <2>1 DEF SpawnInv, Accurate, Agree, Unsettled
  <2>6. QED
    BY <2>2, <2>3, <2>4, <2>5 DEF SpawnInv
<1>7. QED
  BY <1>2, <1>3, <1>4, <1>5, <1>6, ServedInv, RefusedInv, WriteRowInv, MachineInv
  DEF SpawnNext, SpawnStep

(* Rows say what runs at the provider, wherever calls come one after       *)
(* another and are heard and no action fails later, and nothing runs       *)
(* uncounted, for any number of wallets, servers and calls                 *)
(* (spawn/src/service.ts:138-147, 225-250, 292-355, 449-541, 545-640).     *)
THEOREM SpawnRowsMatch == SpawnSpec => []RowsMatchProvider
<1>1. SpawnInv => RowsMatchProvider
  <2> SUFFICES ASSUME SpawnInv PROVE RowsMatchProvider
    OBVIOUS
  <2>1. \A i \in Item : Unsettled(i) => BusyWith(i)
    BY DEF Unsettled, BusyWith
  <2>2. \A s \in Server : machine[s].status \in Live /\ s \notin unheard =>
          \/ server[s].status \in Live
          \/ \E c \in SpawnOrder : order[c].pc = "created" /\ order[c].item = s
    BY DEF SpawnInv, Covered
  <2>3. \A i \in Item : i \notin unheard \cup crossed /\ ~ BusyWith(i) => Agree(i)
    BY <2>1 DEF SpawnInv, Accurate
  <2>4. QED
    BY <2>2, <2>3 DEF RowsMatchProvider, Agree, Upright
<1>2. QED
  BY <1>1, SpawnInvInit, SpawnInvStep, PTL DEF SpawnSpec

-----------------------------------------------------------------------------
(* Mintings of a token one after another: at most one transaction is under *)
(* way, and the row is behind the chain by it at most.                     *)
Outstanding(t) ==
  {i \in DOMAIN mintTx : mintTx[i].token = t /\ mintTx[i].is = "sent"}

Writes(c, t) == minting[c].pc \in {"write", "written"} /\ minting[c].token = t

(* What a call goes by, as long as no other has minted beside it.          *)
AloneWith(c, t) ==
  LET x == minting[c] IN
  /\ WithinCap(t, x.amount)
  /\ \A d \in TokenCall : Writes(d, t) => d = c
  /\ x.pc = "write" => Outstanding(t) = {} /\ token[t].minted = contract[t].minted
  /\ x.pc = "written" =>
       /\ Outstanding(t) \subseteq {x.tx}
       /\ contract[t].minted =
            IF mintTx[x.tx].is = "mined" THEN token[t].minted + x.amount ELSE token[t].minted

OneMinting(c) ==
  LET x == minting[c] IN
  /\ x.pc # "idle" => x.token \in Token
  /\ x.pc = "written" => /\ x.tx \in DOMAIN mintTx
                         /\ mintTx[x.tx].token = x.token /\ mintTx[x.tx].amount = x.amount
  /\ \A t \in Token \ untold : Writes(c, t) => AloneWith(c, t)

Level(t) == Outstanding(t) = {} /\ token[t].minted = contract[t].minted

MintInv ==
  /\ TokenTypeOK
  /\ \A c \in TokenCall : OneMinting(c)
  /\ \A t \in Token : contract[t].supply <= InitialSupply + contract[t].minted
  /\ \A t \in Token : t \notin untold /\ ~ Minting(t) => Level(t)
  /\ \A i \in DOMAIN mintTx : mintTx[i].is = "over" => mintTx[i].token \in untold

Mintings ==
  [pc : {"idle", "deploy", "deployed", "receipt", "write", "written"},
   token : Token \cup {NoToken}, amount : Nat, tx : Nat]
MintTxs == [token : Token, amount : Nat, is : {"sent", "mined", "over", "reverted"}]
TokenRows == [status : {"none", "pending", "confirmed", "failed"}, minted : Nat]
Contracts ==
  [is : {"none", "sent", "up", "reverted"}, supply : Nat, minted : Nat, minter : BOOLEAN]

LEMMA MintTypes ==
  /\ TokenTypeOK <=>
       /\ token \in [Token -> TokenRows] /\ contract \in [Token -> Contracts]
       /\ mintTx \in Seq(MintTxs) /\ minting \in [TokenCall -> Mintings]
       /\ mintings \in 0..TokenLimit /\ untold \subseteq Token
  /\ NotMinting \in Mintings /\ NotMinting.pc = "idle" /\ NoToken \notin Token
<1>1. NoToken \notin Token
  BY TokenAssumption DEF TokenAssumption
<1>2. NotMinting \in Mintings /\ NotMinting.pc = "idle"
  BY DEF NotMinting, Mintings
<1>3. QED
  BY <1>1, <1>2 DEF TokenTypeOK, TokenRows, Contracts, MintTxs, Mintings

LEMMA MintInvInit == TokenInit => MintInv
<1> SUFFICES ASSUME TokenInit PROVE MintInv
  OBVIOUS
<1>1. /\ \A c \in TokenCall : minting[c].pc = "idle"
      /\ \A t \in Token : token[t].minted = 0 /\ contract[t].minted = 0 /\ contract[t].supply = 0
      /\ DOMAIN mintTx = {}
  <2>1. DOMAIN <<>> = {}
    OBVIOUS
  <2>2. QED
    BY <2>1, MintTypes DEF TokenInit
<1>2. TokenTypeOK
  <2>1. token \in [Token -> TokenRows]
    BY DEF TokenInit, TokenRows
  <2>2. contract \in [Token -> Contracts]
    BY DEF TokenInit, Contracts
  <2>3. mintTx \in Seq(MintTxs) /\ untold \subseteq Token
    BY DEF TokenInit
  <2>4. minting \in [TokenCall -> Mintings]
    BY MintTypes DEF TokenInit
  <2>5. mintings \in 0..TokenLimit
    BY TokenAssumption DEF TokenAssumption, TokenInit
  <2>6. QED
    BY <2>1, <2>2, <2>3, <2>4, <2>5, MintTypes
<1>3. \A c \in TokenCall : OneMinting(c)
  BY <1>1 DEF OneMinting, Writes
<1>4. \A t \in Token : Level(t) /\ contract[t].supply <= InitialSupply + contract[t].minted
  BY <1>1, TokenAssumption DEF TokenAssumption, Level, Outstanding
<1>5. QED
  BY <1>1, <1>2, <1>3, <1>4 DEF MintInv

(* A transaction stays the token's and keeps its amount.                   *)
TxKept ==
  \A i \in DOMAIN mintTx :
    i \in DOMAIN mintTx' /\ mintTx'[i].token = mintTx[i].token /\ mintTx'[i].amount = mintTx[i].amount

Same(t) ==
  /\ token'[t].minted = token[t].minted /\ contract'[t].minted = contract[t].minted
  /\ \A i \in DOMAIN mintTx' : mintTx'[i].token = t => i \in DOMAIN mintTx
  /\ \A i \in DOMAIN mintTx : mintTx[i].token = t => mintTx'[i] = mintTx[i]

LEMMA SameOutstanding ==
  ASSUME TxKept, NEW t, Same(t)
  PROVE  Outstanding(t)' = Outstanding(t)
BY DEF TxKept, Same, Outstanding

(* A step changes some calls and the tokens they write, and nothing goes   *)
(* by those but the calls themselves.                                      *)
LEMMA MintFrame ==
  ASSUME MintInv, TokenTypeOK', untold \subseteq untold', TxKept,
         NEW C \in SUBSET TokenCall, NEW T \in SUBSET Token,
         \A d \in TokenCall \ C : minting'[d] = minting[d],
         \A s \in Token \ T : s \notin untold' => Same(s),
         \A c \in C : minting[c].pc \in {"write", "written"} => minting[c].token \in T,
         \A c \in C : minting'[c].pc \in {"write", "written"} => minting'[c].token \in T,
         \A t \in T : t \notin untold' => \A d \in TokenCall \ C : ~ Writes(d, t),
         \A c \in C : OneMinting(c)',
         \A t \in T : t \notin untold' /\ ~ Minting(t)' => Level(t)',
         \A t \in Token : contract'[t].supply <= InitialSupply + contract'[t].minted,
         \A i \in DOMAIN mintTx' : mintTx'[i].is = "over" => mintTx'[i].token \in untold'
  PROVE  MintInv'
<1>1. \A d \in TokenCall : OneMinting(d)
  BY DEF MintInv
<1>2. ASSUME NEW d \in TokenCall \ C PROVE OneMinting(d)'
  <2> DEFINE s == minting[d].token
  <2>1. /\ minting'[d] = minting[d]
        /\ minting[d].pc # "idle" => s \in Token
        /\ minting[d].pc = "written" =>
             /\ minting[d].tx \in DOMAIN mintTx /\ minting[d].tx \in DOMAIN mintTx'
             /\ mintTx[minting[d].tx].token = s /\ mintTx'[minting[d].tx].token = s
             /\ mintTx'[minting[d].tx].amount = minting[d].amount
    BY <1>1 DEF OneMinting, TxKept
  <2>2. ASSUME minting[d].pc \in {"write", "written"}, s \notin untold'
        PROVE  AloneWith(d, s)'
    <3>1. s \in Token /\ s \notin untold /\ Writes(d, s)
      BY <2>1, <2>2 DEF Writes
    <3>2. s \notin T
      BY <1>2, <2>2, <3>1
    <3>3. Same(s) /\ Outstanding(s)' = Outstanding(s)
      BY <2>2, <3>1, <3>2, SameOutstanding
    <3>4. AloneWith(d, s)
      BY <1>1, <3>1 DEF OneMinting
    <3>5. \A e \in TokenCall : Writes(e, s)' => e = d
      <4>1. \A e \in C : ~ Writes(e, s)'
        BY <3>2 DEF Writes
      <4>2. \A e \in TokenCall \ C : Writes(e, s)' => Writes(e, s)
        BY DEF Writes
      <4>3. QED
        BY <3>4, <4>1, <4>2 DEF AloneWith
    <3>6. WithinCap(s, minting[d].amount)'
      BY <2>1, <3>3, <3>4 DEF AloneWith, WithinCap, Same
    <3>7. minting'[d].pc = "write" => Outstanding(s)' = {} /\ token'[s].minted = contract'[s].minted
      BY <2>1, <3>3, <3>4 DEF AloneWith, Same
    <3>8. minting'[d].pc = "written" =>
            /\ Outstanding(s)' \subseteq {minting'[d].tx}
            /\ contract'[s].minted =
                 IF mintTx'[minting'[d].tx].is = "mined" THEN token'[s].minted + minting'[d].amount
                 ELSE token'[s].minted
      BY <2>1, <3>3, <3>4 DEF AloneWith, Same
    <3>9. QED
      BY <2>1, <3>5, <3>6, <3>7, <3>8 DEF AloneWith
  <2>3. ASSUME NEW t \in Token \ untold', Writes(d, t)' PROVE AloneWith(d, t)'
    <3>1. t = s /\ minting[d].pc \in {"write", "written"}
      BY <2>1, <2>3 DEF Writes
    <3>2. AloneWith(d, s)'
      BY <2>2, <3>1
    <3>3. QED
      BY <2>1, <3>1, <3>2 DEF AloneWith
  <2>4. QED
    BY <2>1, <2>3 DEF OneMinting
<1>3. ASSUME NEW s \in Token, s \notin T, s \notin untold', ~ Minting(s)' PROVE Level(s)'
  <2>1. Same(s) /\ Outstanding(s)' = Outstanding(s)
    BY <1>3, SameOutstanding
  <2>2. ~ Minting(s)
    <3> SUFFICES ASSUME NEW d \in TokenCall, Writes(d, s) PROVE FALSE
      BY DEF Minting, Writes
    <3>1. d \notin C
      BY <1>3 DEF Writes
    <3>2. Writes(d, s)'
      BY <3>1 DEF Writes
    <3>3. QED
      BY <1>3, <3>2 DEF Minting, Writes
  <2>3. Level(s)
    BY <1>3, <2>2 DEF MintInv
  <2>4. QED
    BY <2>1, <2>3 DEF Level, Same
<1>4. QED
  BY <1>2, <1>3 DEF MintInv

(* Deploying and what holders do touch no token's counts.                  *)
LEMMA NoMintInv ==
  ASSUME MintInv, mintTx' = mintTx, untold' = untold, TokenTypeOK',
         NEW C \in SUBSET TokenCall, \A d \in TokenCall \ C : minting'[d] = minting[d],
         \A c \in C : /\ minting[c].pc \notin {"write", "written"}
                      /\ minting'[c].pc \notin {"write", "written"}
                      /\ minting'[c].pc = "idle" \/ minting'[c].token \in Token,
         \A t \in Token : /\ token'[t].minted = token[t].minted
                          /\ contract'[t].minted = contract[t].minted
                          /\ contract'[t].supply <= InitialSupply + contract[t].minted
  PROVE  MintInv'
<1>1. TxKept /\ \A s \in Token : Same(s)
  BY DEF TxKept, Same
<1>2. \A c \in C : OneMinting(c)'
  BY DEF OneMinting, Writes
<1>3. \A i \in DOMAIN mintTx' : mintTx'[i].is = "over" => mintTx'[i].token \in untold'
  BY DEF MintInv
<1>4. {} \in SUBSET Token
  OBVIOUS
<1>5. QED
  BY <1>1, <1>2, <1>3, <1>4, MintFrame

LEMMA DeployTokenInv ==
  ASSUME MintInv, NEW c \in TokenCall, NEW t \in Token, DeployToken(c, t)
  PROVE  MintInv'
<1>1. TokenTypeOK /\ minting[c] \in Mintings /\ UNCHANGED <<token, contract, mintTx, untold>>
  BY MintTypes DEF MintInv, DeployToken
<1> DEFINE z == [minting[c] EXCEPT !.pc = "deploy"]
           y == [z EXCEPT !.token = t]
<1>2. minting[c].pc = "idle" /\ minting' = [minting EXCEPT ![c] = y]
  BY <1>1, MintTypes DEF DeployToken, BeginMinting
<1>3. z \in Mintings /\ z.pc = "deploy"
  BY <1>1 DEF Mintings
<1> HIDE DEF z
<1>4. y \in Mintings /\ y.pc = "deploy" /\ y.token = t
  BY <1>3 DEF Mintings
<1> HIDE DEF y
<1>5. minting'[c] = y /\ \A d \in TokenCall \ {c} : minting'[d] = minting[d]
  BY <1>1, <1>2, MintTypes
<1>6. mintings' \in 0..TokenLimit
  BY <1>1, TokenAssumption, MintTypes DEF TokenAssumption, DeployToken, BeginMinting
<1>7. TokenTypeOK'
  <2>1. minting' \in [TokenCall -> Mintings]
    BY <1>1, <1>2, <1>4, MintTypes
  <2>2. QED
    BY <1>1, <1>6, <2>1, MintTypes DEF TokenTypeOK, Mintings
<1>8. \A s \in Token : contract[s].supply <= InitialSupply + contract[s].minted
  BY DEF MintInv
<1>9. {c} \in SUBSET TokenCall
  OBVIOUS
<1>10. QED
  BY <1>1, <1>2, <1>4, <1>5, <1>7, <1>8, <1>9, NoMintInv

(* A call that goes on with its deployment, or ends.                       *)
LEMMA DeploysInv ==
  ASSUME MintInv, NEW c \in TokenCall, minting[c].pc \in {"deploy", "deployed", "receipt"},
         UNCHANGED <<mintTx, mintings, untold>>,
         token' \in [Token -> TokenRows], contract' \in [Token -> Contracts],
         \A t \in Token : /\ token'[t].minted = token[t].minted
                          /\ contract'[t].minted = contract[t].minted
                          /\ contract'[t].supply = contract[t].supply,
         NEW y \in Mintings, minting' = [minting EXCEPT ![c] = y],
         y.pc = "idle" \/ (y.pc \in {"deployed", "receipt"} /\ y.token = minting[c].token)
  PROVE  MintInv'
<1>1. TokenTypeOK /\ OneMinting(c) /\ minting[c].token \in Token
  BY MintTypes DEF MintInv, OneMinting
<1>2. minting'[c] = y /\ \A d \in TokenCall \ {c} : minting'[d] = minting[d]
  BY <1>1, MintTypes
<1>3. TokenTypeOK'
  <2>1. minting' \in [TokenCall -> Mintings]
    BY <1>1, MintTypes
  <2>2. QED
    BY <1>1, <2>1, MintTypes DEF TokenTypeOK, Mintings, TokenRows, Contracts
<1>4. \A t \in Token : /\ token'[t].minted = token[t].minted
                       /\ contract'[t].minted = contract[t].minted
                       /\ contract'[t].supply <= InitialSupply + contract[t].minted
  BY DEF MintInv
<1>5. PICK C \in SUBSET TokenCall : C = {c}
  OBVIOUS
<1>6. \A d \in C : /\ minting[d].pc \notin {"write", "written"}
                   /\ minting'[d].pc \notin {"write", "written"}
                   /\ minting'[d].pc = "idle" \/ minting'[d].token \in Token
  BY <1>1, <1>2, <1>5
<1>7. /\ \A d \in TokenCall \ C : minting'[d] = minting[d]
      /\ mintTx' = mintTx /\ untold' = untold
  BY <1>2, <1>5
<1>8. QED
  BY <1>3, <1>4, <1>6, <1>7, NoMintInv, Zenon

LEMMA DeployStepInv ==
  ASSUME MintInv, NEW c \in TokenCall, SendContract(c) \/ InsertDeployment(c) \/ DeployReceipt(c)
  PROVE  MintInv'
<1>1. TokenTypeOK /\ token \in [Token -> TokenRows] /\ contract \in [Token -> Contracts]
      /\ UNCHANGED <<mintTx, mintings, untold>>
  BY MintTypes DEF MintInv, SendContract, InsertDeployment, DeployReceipt
<1>2. ASSUME NEW t, NEW s \in {"pending", "confirmed", "failed"},
             token' = [token EXCEPT ![t].status = s]
      PROVE  token' \in [Token -> TokenRows] /\ \A u \in Token : token'[u].minted = token[u].minted
  BY <1>1, <1>2 DEF TokenRows
<1>3. ASSUME NEW t, contract' = [contract EXCEPT ![t].is = "sent"]
      PROVE  /\ contract' \in [Token -> Contracts]
             /\ \A u \in Token : /\ contract'[u].minted = contract[u].minted
                                 /\ contract'[u].supply = contract[u].supply
  BY <1>1, <1>3 DEF Contracts
<1>4. ASSUME \/ EndMinting(c)
             \/ \E place \in {"deployed", "receipt"} : minting' = [minting EXCEPT ![c].pc = place]
      PROVE  \E y \in Mintings :
               /\ minting' = [minting EXCEPT ![c] = y]
               /\ y.pc = "idle" \/ (y.pc \in {"deployed", "receipt"} /\ y.token = minting[c].token)
  <2>1. CASE EndMinting(c)
    BY <2>1, MintTypes DEF EndMinting
  <2>2. ASSUME NEW place \in {"deployed", "receipt"}, minting' = [minting EXCEPT ![c].pc = place]
        PROVE  \E y \in Mintings : /\ minting' = [minting EXCEPT ![c] = y]
                                   /\ y.pc \in {"deployed", "receipt"} /\ y.token = minting[c].token
    <3> DEFINE y == [minting[c] EXCEPT !.pc = place]
    <3>1. minting[c] \in Mintings
      BY <1>1, MintTypes
    <3>2. y \in Mintings /\ y.pc = place /\ y.token = minting[c].token
      BY <3>1 DEF Mintings
    <3>3. minting' = [minting EXCEPT ![c] = y]
      BY <1>1, <2>2, MintTypes
    <3> HIDE DEF y
    <3>4. QED
      BY <3>2, <3>3
  <2>3. QED
    BY <1>4, <2>1, <2>2
<1>5. PICK y \in Mintings :
        /\ minting' = [minting EXCEPT ![c] = y]
        /\ y.pc = "idle" \/ (y.pc \in {"deployed", "receipt"} /\ y.token = minting[c].token)
  BY <1>4 DEF SendContract, InsertDeployment, DeployReceipt
<1>6. minting[c].pc \in {"deploy", "deployed", "receipt"}
  BY DEF SendContract, InsertDeployment, DeployReceipt
<1>7. /\ token' \in [Token -> TokenRows] /\ contract' \in [Token -> Contracts]
      /\ \A u \in Token : /\ token'[u].minted = token[u].minted
                          /\ contract'[u].minted = contract[u].minted
                          /\ contract'[u].supply = contract[u].supply
  <2>1. CASE SendContract(c)
    <3>1. UNCHANGED token /\ (contract' = contract \/ contract' = [contract EXCEPT ![minting[c].token].is = "sent"])
      BY <2>1 DEF SendContract
    <3>2. QED
      BY <1>1, <1>3, <3>1
  <2>2. CASE InsertDeployment(c)
    BY <1>1, <1>2, <2>2 DEF InsertDeployment
  <2>3. CASE DeployReceipt(c)
    <3>1. /\ UNCHANGED contract
          /\ token' = token \/ \E s \in {"confirmed", "failed"} : token' = [token EXCEPT ![minting[c].token].status = s]
      BY <2>3 DEF DeployReceipt
    <3>2. QED
      BY <1>1, <1>2, <3>1
  <2>4. QED
    BY <2>1, <2>2, <2>3
<1>8. QED
  BY <1>1, <1>5, <1>6, <1>7, DeploysInv

LEMMA ContractStepInv ==
  ASSUME MintInv, NEW t \in Token, MineContract(t) \/ HoldersAct(t)
  PROVE  MintInv'
<1>1. /\ TokenTypeOK /\ contract \in [Token -> Contracts]
      /\ UNCHANGED <<token, mintTx, minting, mintings, untold>>
      /\ \A s \in Token : contract[s].supply <= InitialSupply + contract[s].minted
  BY MintTypes DEF MintInv, MineContract, HoldersAct
<1> DEFINE k == contract[t]
<1>2. k \in Contracts /\ k.supply \in Nat /\ k.minted \in Nat /\ InitialSupply \in Nat
  BY <1>1, TokenAssumption DEF Contracts, TokenAssumption
<1>3. PICK y \in Contracts :
        /\ contract' = [contract EXCEPT ![t] = y]
        /\ y.minted = k.minted /\ y.supply <= InitialSupply + k.minted
  <2>1. CASE contract' = [contract EXCEPT ![t].is = "up", ![t].supply = InitialSupply]
    <3> DEFINE z == [k EXCEPT !.is = "up"]
               y == [z EXCEPT !.supply = InitialSupply]
    <3>1. contract' = [contract EXCEPT ![t] = y]
      BY <1>1, <2>1
    <3>2. z \in Contracts /\ z.minted = k.minted
      BY <1>2 DEF Contracts
    <3> HIDE DEF z
    <3>3. y \in Contracts /\ y.minted = k.minted /\ y.supply = InitialSupply
      BY <1>2, <3>2 DEF Contracts
    <3> HIDE DEF y
    <3>4. InitialSupply <= InitialSupply + k.minted
      BY <1>2
    <3>5. QED
      BY <3>1, <3>3, <3>4
  <2>2. CASE contract' = [contract EXCEPT ![t].is = "reverted"]
    <3> DEFINE y == [k EXCEPT !.is = "reverted"]
    <3>1. contract' = [contract EXCEPT ![t] = y]
      BY <1>1, <2>2
    <3>2. y \in Contracts /\ y.minted = k.minted /\ y.supply = k.supply
      BY <1>2 DEF Contracts
    <3> HIDE DEF y
    <3>3. QED
      BY <1>1, <3>1, <3>2
  <2>3. CASE contract[t].supply > 0 /\ contract' = [contract EXCEPT ![t].supply = @ - 1]
    <3> DEFINE n == k.supply - 1
               y == [k EXCEPT !.supply = n]
    <3>1. contract' = [contract EXCEPT ![t] = y]
      BY <1>1, <2>3
    <3>2. n \in Nat /\ n <= InitialSupply + k.minted
      BY <1>1, <1>2, <2>3
    <3> HIDE DEF n
    <3>3. y \in Contracts /\ y.minted = k.minted /\ y.supply = n
      BY <1>2, <3>2 DEF Contracts
    <3> HIDE DEF y
    <3>4. QED
      BY <3>1, <3>2, <3>3
  <2>4. CASE contract' = [contract EXCEPT ![t].minter = FALSE]
    <3> DEFINE y == [k EXCEPT !.minter = FALSE]
    <3>1. contract' = [contract EXCEPT ![t] = y]
      BY <1>1, <2>4
    <3>2. y \in Contracts /\ y.minted = k.minted /\ y.supply = k.supply
      BY <1>2, Zenon DEF Contracts
    <3> HIDE DEF y
    <3>3. QED
      BY <1>1, <3>1, <3>2
  <2>5. QED
    BY <2>1, <2>2, <2>3, <2>4 DEF MineContract, HoldersAct
<1>4. \A s \in Token : /\ contract'[s].minted = contract[s].minted
                       /\ contract'[s].supply <= InitialSupply + contract[s].minted
  BY <1>1, <1>3
<1>5. TokenTypeOK'
  <2>1. contract' \in [Token -> Contracts]
    BY <1>1, <1>3
  <2>2. QED
    BY <1>1, <2>1, MintTypes DEF TokenTypeOK, Contracts
<1>6. {} \in SUBSET TokenCall
  OBVIOUS
<1>7. QED
  BY <1>1, <1>4, <1>5, <1>6, NoMintInv

LEMMA MintTokensInv ==
  ASSUME MintInv, NEW c \in TokenCall, NEW t \in Token, NEW a \in Amount, MintTokens(c, t, a)
  PROVE  MintInv'
<1>1. TokenTypeOK /\ UNCHANGED <<token, contract, mintTx>> /\ minting[c].pc = "idle"
  BY DEF MintInv, MintTokens, BeginMinting
<1> DEFINE y == [pc |-> "write", token |-> t, amount |-> a, tx |-> 0]
<1>2. y \in Mintings /\ y.pc = "write" /\ y.token = t /\ y.amount = a
  BY TokenAssumption DEF TokenAssumption, Mintings
<1>3. minting' = [minting EXCEPT ![c] = y]
  BY DEF MintTokens
<1> HIDE DEF y
<1>4. minting'[c] = y /\ \A d \in TokenCall \ {c} : minting'[d] = minting[d]
  BY <1>1, <1>3, MintTypes
<1>5. untold \subseteq untold' /\ untold' \subseteq Token /\ (t \notin untold' => t \notin untold /\ ~ Minting(t))
  BY <1>1, MintTypes DEF MintTokens
<1>6. TokenTypeOK'
  <2>1. minting' \in [TokenCall -> Mintings]
    BY <1>1, <1>2, <1>3, MintTypes
  <2>2. mintings' \in 0..TokenLimit
    BY <1>1, TokenAssumption, MintTypes DEF TokenAssumption, MintTokens, BeginMinting
  <2>3. QED
    BY <1>1, <1>5, <2>1, <2>2, MintTypes DEF TokenTypeOK, Mintings
<1>7. TxKept /\ \A s \in Token : Same(s)
  BY <1>1 DEF TxKept, Same
<1>8. \A d \in TokenCall \ {c} : t \notin untold' => ~ Writes(d, t)
  BY <1>5 DEF Minting, Writes
<1>9. t \notin untold' => AloneWith(c, t)'
  <2> SUFFICES ASSUME t \notin untold' PROVE AloneWith(c, t)'
    OBVIOUS
  <2>1. Outstanding(t) = {} /\ token[t].minted = contract[t].minted
    BY <1>5 DEF MintInv, Level
  <2>2. Outstanding(t)' = {} /\ token'[t].minted = contract'[t].minted
    BY <1>1, <2>1 DEF Outstanding
  <2>3. \A d \in TokenCall : Writes(d, t)' => d = c
    BY <1>4, <1>8 DEF Writes
  <2>4. WithinCap(t, minting[c].amount)'
    BY <1>1, <1>2, <1>4 DEF WithinCap, MintTokens
  <2>5. QED
    BY <1>2, <1>4, <2>2, <2>3, <2>4 DEF AloneWith
<1>10. OneMinting(c)'
  <2>1. \A s \in Token : Writes(c, s)' => s = t
    BY <1>2, <1>4 DEF Writes
  <2>2. QED
    BY <1>2, <1>4, <1>9, <2>1 DEF OneMinting
<1>11. Minting(t)'
  BY <1>2, <1>4 DEF Minting
<1>12. /\ \A i \in DOMAIN mintTx' : mintTx'[i].is = "over" => mintTx'[i].token \in untold'
       /\ \A s \in Token : contract'[s].supply <= InitialSupply + contract'[s].minted
  BY <1>1, <1>5 DEF MintInv
<1>13. \A s \in {t} : s \notin untold' /\ ~ Minting(s)' => Level(s)'
  BY <1>11
<1>14. /\ {c} \in SUBSET TokenCall /\ {t} \in SUBSET Token
       /\ \A d \in {c} : minting[d].pc \notin {"write", "written"} /\ minting'[d].token \in {t} /\ OneMinting(d)'
  BY <1>1, <1>2, <1>4, <1>10
<1>15. QED
  BY <1>4, <1>5, <1>6, <1>7, <1>8, <1>12, <1>13, <1>14, MintFrame

(* A minting that ends, with the row and the chain even or the token       *)
(* untold.                                                                 *)
LEMMA MintEnds ==
  ASSUME MintInv, TokenTypeOK', NEW c \in TokenCall, NEW t \in Token, Writes(c, t), EndMinting(c),
         TxKept, untold \subseteq untold', UNCHANGED contract,
         \A s \in Token \ {t} : Same(s), t \in untold' \/ Level(t)',
         \A i \in DOMAIN mintTx' : mintTx'[i].is = "over" => mintTx'[i].token \in untold'
  PROVE  MintInv'
<1>1. TokenTypeOK /\ OneMinting(c) /\ minting[c].token = t /\ minting[c].pc \in {"write", "written"}
  BY DEF MintInv, Writes
<1>2. minting'[c] = NotMinting /\ minting'[c].pc = "idle" /\ \A d \in TokenCall \ {c} : minting'[d] = minting[d]
  BY <1>1, MintTypes DEF EndMinting
<1>3. \A d \in TokenCall \ {c} : t \notin untold' => ~ Writes(d, t)
  BY <1>1 DEF OneMinting, AloneWith
<1>4. OneMinting(c)'
  BY <1>2 DEF OneMinting, Writes
<1>5. \A s \in Token : contract'[s].supply <= InitialSupply + contract'[s].minted
  BY DEF MintInv
<1>6. /\ {c} \in SUBSET TokenCall /\ {t} \in SUBSET Token
      /\ \A d \in {c} : /\ minting'[d].pc \notin {"write", "written"} /\ minting[d].token \in {t}
                        /\ OneMinting(d)'
  BY <1>1, <1>2, <1>4
<1>7. \A s \in {t} : /\ s \notin untold' /\ ~ Minting(s)' => Level(s)'
                     /\ s \notin untold' => \A d \in TokenCall \ {c} : ~ Writes(d, s)
  BY <1>3
<1>8. QED
  BY <1>2, <1>5, <1>6, <1>7, MintFrame

(* A transaction that is sent.                                             *)
LEMMA SentToMint ==
  ASSUME MintInv, NEW a \in MintTxs, a.is = "sent", mintTx' = Append(mintTx, a)
  PROVE  /\ TxKept /\ mintTx' \in Seq(MintTxs)
         /\ Len(mintTx') \in DOMAIN mintTx' /\ Len(mintTx') \in Nat /\ mintTx'[Len(mintTx')] = a
         /\ \A i \in DOMAIN mintTx' : i \in DOMAIN mintTx \/ i = Len(mintTx')
         /\ \A i \in DOMAIN mintTx : mintTx'[i] = mintTx[i]
         /\ \A i \in DOMAIN mintTx' : mintTx'[i].is = "over" => mintTx'[i].token \in untold
<1>1. mintTx \in Seq(MintTxs)
  BY MintTypes DEF MintInv
<1>2. /\ mintTx' \in Seq(MintTxs) /\ Len(mintTx') = Len(mintTx) + 1 /\ Len(mintTx) \in Nat
      /\ \A i \in 1..Len(mintTx) : mintTx'[i] = mintTx[i]
      /\ mintTx'[Len(mintTx) + 1] = a
      /\ DOMAIN mintTx = 1..Len(mintTx) /\ DOMAIN mintTx' = 1..Len(mintTx')
  BY <1>1, AppendProperties
<1>3. /\ Len(mintTx') \in DOMAIN mintTx' /\ Len(mintTx') \in Nat /\ mintTx'[Len(mintTx')] = a
      /\ \A i \in DOMAIN mintTx' : i \in DOMAIN mintTx \/ i = Len(mintTx')
      /\ \A i \in DOMAIN mintTx : i \in DOMAIN mintTx' /\ mintTx'[i] = mintTx[i]
  BY <1>2
<1>4. \A i \in DOMAIN mintTx' : mintTx'[i].is = "over" => mintTx'[i].token \in untold
  <2>1. \A i \in DOMAIN mintTx : mintTx[i].is = "over" => mintTx[i].token \in untold
    BY DEF MintInv
  <2>2. a.is # "over"
    OBVIOUS
  <2>3. QED
    BY <1>3, <2>1, <2>2
<1>5. QED
  BY <1>2, <1>3, <1>4 DEF TxKept

LEMMA SendMintInv ==
  ASSUME MintInv, NEW c \in TokenCall, SendMint(c)
  PROVE  MintInv'
<1>1. /\ TokenTypeOK /\ OneMinting(c) /\ minting[c] \in Mintings /\ minting[c].pc = "write"
      /\ minting[c].token \in Token /\ UNCHANGED <<token, contract, mintings>>
  BY MintTypes DEF MintInv, OneMinting, SendMint
<1>2. PICK t \in Token : t = minting[c].token /\ Writes(c, t)
  BY <1>1 DEF Writes
<1>3. t \notin untold => AloneWith(c, t)
  BY <1>1, <1>2 DEF OneMinting
<1> DEFINE a == [token |-> t, amount |-> minting[c].amount, is |-> "sent"]
<1>4. a \in MintTxs /\ a.token = t /\ a.amount = minting[c].amount /\ a.is = "sent"
  BY <1>1 DEF MintTxs, Mintings
<1> HIDE DEF a
<1>5. ASSUME mintTx' = Append(mintTx, a), untold' \subseteq Token, minting' \in [TokenCall -> Mintings]
      PROVE  TokenTypeOK' /\ \A s \in Token \ {t} : Same(s)
  <2>1. mintTx' \in Seq(MintTxs)
    BY <1>4, <1>5, SentToMint
  <2>2. \A s \in Token \ {t} : Same(s)
    BY <1>1, <1>4, <1>5, SentToMint DEF Same
  <2>3. QED
    BY <1>1, <1>5, <2>1, <2>2, MintTypes DEF TokenTypeOK, Mintings, MintTxs
<1>6. CASE /\ mintTx' = Append(mintTx, a) /\ UNCHANGED untold
           /\ minting' = [minting EXCEPT ![c].pc = "written", ![c].tx = Len(mintTx')]
  <2> DEFINE n == Len(mintTx')
             z == [minting[c] EXCEPT !.pc = "written"]
             y == [z EXCEPT !.tx = n]
  <2>1. minting' = [minting EXCEPT ![c] = y]
    BY <1>1, <1>6, MintTypes
  <2>2. /\ TxKept /\ n \in DOMAIN mintTx' /\ n \in Nat /\ mintTx'[n] = a
        /\ \A i \in DOMAIN mintTx' : i \in DOMAIN mintTx \/ i = n
        /\ \A i \in DOMAIN mintTx : mintTx'[i] = mintTx[i]
        /\ \A i \in DOMAIN mintTx' : mintTx'[i].is = "over" => mintTx'[i].token \in untold
    BY <1>4, <1>6, SentToMint
  <2> HIDE DEF n
  <2>3. z \in Mintings /\ z.pc = "written" /\ z.token = t /\ z.amount = minting[c].amount
    BY <1>1, <1>2 DEF Mintings
  <2> HIDE DEF z
  <2>4. y \in Mintings /\ y.pc = "written" /\ y.token = t /\ y.amount = minting[c].amount /\ y.tx = n
    BY <2>2, <2>3 DEF Mintings
  <2> HIDE DEF y
  <2>5. minting'[c] = y /\ \A d \in TokenCall \ {c} : minting'[d] = minting[d]
    BY <1>1, <2>1, MintTypes
  <2>6. TokenTypeOK' /\ \A s \in Token \ {t} : Same(s)
    <3>1. minting' \in [TokenCall -> Mintings] /\ untold' \subseteq Token
      BY <1>1, <1>6, <2>1, <2>4, MintTypes
    <3>2. QED
      BY <1>5, <1>6, <3>1
  <2>7. \A d \in TokenCall \ {c} : t \notin untold => ~ Writes(d, t)
    BY <1>3 DEF AloneWith
  <2>8. t \notin untold => AloneWith(c, t)'
    <3> SUFFICES ASSUME t \notin untold PROVE AloneWith(c, t)'
      OBVIOUS
    <3>1. /\ Outstanding(t) = {} /\ token[t].minted = contract[t].minted
          /\ WithinCap(t, minting[c].amount)
      BY <1>1, <1>3 DEF AloneWith
    <3>2. Outstanding(t)' \subseteq {n}
      BY <2>2, <3>1 DEF Outstanding
    <3>3. \A d \in TokenCall : Writes(d, t)' => d = c
      BY <2>5, <2>7 DEF Writes
    <3>4. mintTx'[n].is # "mined"
      BY <1>4, <2>2
    <3>5. contract'[t].minted = token'[t].minted
      BY <1>1, <3>1
    <3>6. WithinCap(t, minting[c].amount)'
      BY <1>1, <2>4, <2>5, <3>1 DEF WithinCap
    <3>7. QED
      BY <2>4, <2>5, <3>2, <3>3, <3>4, <3>5, <3>6 DEF AloneWith
  <2>9. OneMinting(c)'
    <3>1. \A s \in Token : Writes(c, s)' => s = t
      BY <2>4, <2>5 DEF Writes
    <3>2. \A s \in Token \ untold' : Writes(c, s)' => AloneWith(c, s)'
      BY <1>6, <2>8, <3>1
    <3>3. mintTx'[minting'[c].tx].token = t /\ mintTx'[minting'[c].tx].amount = minting'[c].amount
      BY <1>4, <2>2, <2>4, <2>5
    <3>4. QED
      BY <2>2, <2>4, <2>5, <3>1, <3>2, <3>3 DEF OneMinting
  <2>10. \A s \in {t} : s \notin untold' /\ ~ Minting(s)' => Level(s)'
    BY <2>4, <2>5 DEF Minting
  <2>11. /\ {c} \in SUBSET TokenCall /\ {t} \in SUBSET Token
         /\ \A d \in {c} : minting[d].token \in {t} /\ minting'[d].token \in {t} /\ OneMinting(d)'
         /\ untold \subseteq untold'
         /\ \A s \in {t} : s \notin untold' => \A d \in TokenCall \ {c} : ~ Writes(d, s)
    BY <1>2, <1>6, <2>4, <2>5, <2>7, <2>9
  <2>12. \A s \in Token : contract'[s].supply <= InitialSupply + contract'[s].minted
    BY <1>1 DEF MintInv
  <2>13. QED
    BY <1>6, <2>2, <2>5, <2>6, <2>10, <2>11, <2>12, MintFrame
<1>7. ASSUME EndMinting(c) PROVE minting' \in [TokenCall -> Mintings]
  BY <1>1, <1>7, MintTypes DEF EndMinting
<1>8. CASE mintTx' = Append(mintTx, a) /\ EndMinting(c) /\ untold' = untold \cup {t}
  <2>1. untold' \subseteq Token /\ untold \subseteq untold' /\ t \in untold'
    BY <1>1, <1>8, MintTypes
  <2>2. TokenTypeOK' /\ \A s \in Token \ {t} : Same(s)
    BY <1>5, <1>7, <1>8, <2>1
  <2>3. TxKept /\ \A i \in DOMAIN mintTx' : mintTx'[i].is = "over" => mintTx'[i].token \in untold
    BY <1>4, <1>8, SentToMint
  <2>4. QED
    BY <1>1, <1>2, <1>8, <2>1, <2>2, <2>3, MintEnds
<1>9. CASE EndMinting(c) /\ UNCHANGED <<mintTx, untold>>
  <2>1. TokenTypeOK'
    BY <1>1, <1>7, <1>9, MintTypes DEF TokenTypeOK, Mintings
  <2>2. TxKept /\ \A s \in Token : Same(s)
    BY <1>1, <1>9 DEF TxKept, Same
  <2>3. t \notin untold => Level(t)'
    BY <1>1, <1>3, <1>9 DEF AloneWith, Level, Outstanding
  <2>4. \A i \in DOMAIN mintTx' : mintTx'[i].is = "over" => mintTx'[i].token \in untold'
    BY <1>9 DEF MintInv
  <2>5. QED
    BY <1>1, <1>2, <1>9, <2>1, <2>2, <2>3, <2>4, MintEnds
<1>10. QED
  BY <1>2, <1>6, <1>8, <1>9 DEF SendMint, a

LEMMA ReceiptInv ==
  ASSUME MintInv, NEW c \in TokenCall, MintReceipt(c) \/ MintUnheard(c)
  PROVE  MintInv'
<1>1. /\ TokenTypeOK /\ OneMinting(c) /\ minting[c] \in Mintings /\ minting[c].pc = "written"
      /\ EndMinting(c) /\ UNCHANGED <<contract, mintTx, mintings>>
  BY MintTypes DEF MintInv, MintReceipt, MintUnheard
<1>2. PICK t \in Token : t = minting[c].token /\ Writes(c, t)
  BY <1>1 DEF Writes, OneMinting
<1>3. /\ t \notin untold => AloneWith(c, t)
      /\ minting[c].tx \in DOMAIN mintTx /\ mintTx[minting[c].tx].token = t
  BY <1>1, <1>2 DEF OneMinting
<1>4. minting' \in [TokenCall -> Mintings]
  BY <1>1, MintTypes DEF EndMinting
<1>5. TxKept /\ Outstanding(t)' = Outstanding(t)
  BY <1>1 DEF TxKept, Outstanding
<1>6. CASE UNCHANGED token /\ (untold' = untold \cup {t} \/ (UNCHANGED untold /\ (t \in untold \/ Level(t))))
  <2>1. untold' \subseteq Token /\ untold \subseteq untold'
    BY <1>1, <1>6, MintTypes
  <2>2. TokenTypeOK'
    BY <1>1, <1>4, <1>6, <2>1, MintTypes DEF TokenTypeOK, Mintings
  <2>3. \A s \in Token : Same(s)
    BY <1>1, <1>6 DEF Same
  <2>4. t \in untold' \/ Level(t)'
    BY <1>1, <1>5, <1>6 DEF Level
  <2>5. \A i \in DOMAIN mintTx' : mintTx'[i].is = "over" => mintTx'[i].token \in untold'
    BY <1>1, <2>1 DEF MintInv
  <2>6. QED
    BY <1>1, <1>2, <1>5, <2>1, <2>2, <2>3, <2>4, <2>5, MintEnds
<1>7. CASE /\ mintTx[minting[c].tx].is = "mined" /\ UNCHANGED untold
           /\ token' = [token EXCEPT ![t].minted = @ + minting[c].amount]
  <2> DEFINE n == token[t].minted + minting[c].amount
             y == [token[t] EXCEPT !.minted = n]
  <2>1. token \in [Token -> TokenRows] /\ token[t] \in TokenRows /\ token' = [token EXCEPT ![t] = y]
    BY <1>1, <1>7, MintTypes
  <2>2. n \in Nat
    BY <1>1, <2>1 DEF TokenRows, Mintings
  <2> HIDE DEF n
  <2>3. y \in TokenRows /\ y.minted = n
    BY <2>1, <2>2 DEF TokenRows
  <2> HIDE DEF y
  <2>4. token' \in [Token -> TokenRows] /\ token'[t].minted = n /\ \A s \in Token \ {t} : token'[s] = token[s]
    BY <2>1, <2>3
  <2>5. TokenTypeOK'
    BY <1>1, <1>4, <1>7, <2>4, MintTypes DEF TokenTypeOK, Mintings, TokenRows
  <2>6. \A s \in Token \ {t} : Same(s)
    BY <1>1, <2>4 DEF Same
  <2>7. t \notin untold => Level(t)'
    <3> SUFFICES ASSUME t \notin untold PROVE Level(t)'
      OBVIOUS
    <3>1. Outstanding(t) \subseteq {minting[c].tx} /\ contract[t].minted = n
      BY <1>1, <1>3, <1>7 DEF AloneWith, n
    <3>2. Outstanding(t) = {}
      BY <1>7, <3>1 DEF Outstanding
    <3>3. QED
      BY <1>1, <1>5, <2>4, <3>1, <3>2 DEF Level
  <2>8. \A i \in DOMAIN mintTx' : mintTx'[i].is = "over" => mintTx'[i].token \in untold'
    BY <1>1, <1>7 DEF MintInv
  <2>9. t \in untold' \/ Level(t)'
    BY <1>7, <2>7
  <2>10. untold \subseteq untold'
    BY <1>7
  <2>11. QED
    BY <1>1, <1>2, <1>5, <2>5, <2>6, <2>8, <2>9, <2>10, MintEnds
<1>8. ASSUME mintTx[minting[c].tx].is \in {"over", "reverted"} PROVE t \in untold \/ Level(t)
  <2>1. CASE mintTx[minting[c].tx].is = "over"
    BY <1>3, <2>1 DEF MintInv
  <2>2. CASE mintTx[minting[c].tx].is = "reverted" /\ t \notin untold
    <3>1. Outstanding(t) \subseteq {minting[c].tx} /\ contract[t].minted = token[t].minted
      BY <1>1, <1>3, <2>2 DEF AloneWith
    <3>2. QED
      BY <2>2, <3>1 DEF Outstanding, Level
  <2>3. QED
    BY <1>8, <2>1, <2>2
<1>9. QED
  BY <1>2, <1>6, <1>7, <1>8 DEF MintReceipt, MintUnheard

LEMMA MineMintInv ==
  ASSUME MintInv, NEW i \in DOMAIN mintTx, MineMint(i)
  PROVE  MintInv'
<1> DEFINE tx == mintTx[i]
<1>1. /\ TokenTypeOK /\ contract \in [Token -> Contracts] /\ mintTx \in Seq(MintTxs)
      /\ tx \in MintTxs /\ tx.is = "sent" /\ UNCHANGED <<token, minting, mintings, untold>>
  <2>1. TokenTypeOK /\ mintTx \in Seq(MintTxs)
    BY MintTypes DEF MintInv
  <2>2. QED
    BY <2>1, ElementOfSeq, MintTypes DEF MineMint
<1>2. PICK t \in Token, a \in Nat : t = tx.token /\ a = tx.amount
  BY <1>1 DEF MintTxs
<1>3. PICK how \in {"reverted", "over", "mined"} :
        /\ mintTx' = [mintTx EXCEPT ![i].is = how]
        /\ how = "over" <=> contract[t].minter /\ contract[t].supply + a > MaxSupply
        /\ contract' = IF how = "mined"
             THEN [contract EXCEPT ![t].supply = @ + a, ![t].minted = @ + a] ELSE contract
  BY <1>2 DEF MineMint
<1> DEFINE r == [tx EXCEPT !.is = how]
<1>4. r \in MintTxs /\ r.token = t /\ r.amount = a /\ r.is = how
  BY <1>1, <1>2 DEF MintTxs
<1>5. mintTx' = [mintTx EXCEPT ![i] = r]
  BY <1>1, <1>3
<1> HIDE DEF r
<1>6. /\ mintTx' \in Seq(MintTxs) /\ DOMAIN mintTx' = DOMAIN mintTx
      /\ mintTx'[i] = r /\ \A j \in DOMAIN mintTx \ {i} : mintTx'[j] = mintTx[j]
  BY <1>1, <1>4, <1>5, ExceptSeq
<1>7. contract[t] \in Contracts /\ contract[t].supply \in Nat /\ contract[t].minted \in Nat
  BY <1>1 DEF Contracts
<1>8. /\ contract' \in [Token -> Contracts]
      /\ \A s \in Token \ {t} : contract'[s] = contract[s]
      /\ how = "mined" => /\ contract'[t].minted = contract[t].minted + a
                          /\ contract'[t].supply = contract[t].supply + a
      /\ how # "mined" => contract' = contract
  <2>1. CASE how = "mined"
    <3> DEFINE m == contract[t].supply + a
               n == contract[t].minted + a
               z == [contract[t] EXCEPT !.supply = m]
               y == [z EXCEPT !.minted = n]
    <3>1. contract' = [contract EXCEPT ![t] = y]
      BY <1>1, <1>3, <2>1
    <3>2. m \in Nat /\ n \in Nat
      BY <1>7
    <3> HIDE DEF m, n
    <3>3. z \in Contracts /\ z.supply = m
      BY <1>7, <3>2 DEF Contracts
    <3> HIDE DEF z
    <3>4. y \in Contracts /\ y.supply = m /\ y.minted = n
      BY <3>2, <3>3 DEF Contracts
    <3> HIDE DEF y
    <3>5. QED
      BY <1>1, <2>1, <3>1, <3>4 DEF m, n
  <2>2. CASE how # "mined"
    BY <1>1, <1>3, <2>2
  <2>3. QED
    BY <2>1, <2>2
<1>9. TokenTypeOK' /\ TxKept /\ \A s \in Token \ {t} : Same(s)
  <2>1. TokenTypeOK'
    BY <1>1, <1>6, <1>8, MintTypes DEF TokenTypeOK, MintTxs, Contracts
  <2>2. TxKept
    BY <1>2, <1>4, <1>6 DEF TxKept
  <2>3. \A s \in Token \ {t} : Same(s)
    BY <1>1, <1>2, <1>6, <1>8 DEF Same
  <2>4. QED
    BY <2>1, <2>2, <2>3
<1>10. \A s \in Token : contract'[s].supply <= InitialSupply + contract'[s].minted
  <2>1. \A s \in Token : contract[s].supply <= InitialSupply + contract[s].minted
    BY DEF MintInv
  <2>2. how = "mined" => contract'[t].supply <= InitialSupply + contract'[t].minted
    BY <1>7, <1>8, <2>1, TokenAssumption DEF TokenAssumption
  <2>3. QED
    BY <1>8, <2>1, <2>2
<1> DEFINE C == {d \in TokenCall : Writes(d, t)}
(* The call whose transaction it is, where nobody else has minted.         *)
<1>11. ASSUME t \notin untold
       PROVE  \E c \in TokenCall : /\ Writes(c, t) /\ AloneWith(c, t) /\ minting[c].pc = "written"
                                   /\ minting[c].tx = i /\ minting[c].amount = a
  <2>1. i \in Outstanding(t)
    BY <1>1, <1>2 DEF Outstanding
  <2>2. PICK c \in TokenCall : Writes(c, t)
    BY <1>11, <2>1 DEF MintInv, Level, Minting, Writes
  <2>3. OneMinting(c) /\ AloneWith(c, t)
    BY <1>11, <2>2 DEF MintInv, OneMinting
  <2>4. minting[c].pc = "written"
    BY <2>1, <2>2, <2>3 DEF AloneWith, Writes
  <2>5. minting[c].tx = i
    BY <2>1, <2>3, <2>4 DEF AloneWith
  <2>6. QED
    BY <1>2, <2>2, <2>3, <2>4, <2>5 DEF OneMinting
<1>12. ASSUME t \notin untold
       PROVE  \E c \in TokenCall : Writes(c, t)' /\ AloneWith(c, t)' /\ how # "over"
  <2>1. PICK c \in TokenCall : /\ Writes(c, t) /\ AloneWith(c, t) /\ minting[c].pc = "written"
                               /\ minting[c].tx = i /\ minting[c].amount = a
    BY <1>11, <1>12
  <2>2. /\ contract[t].minted = token[t].minted /\ Outstanding(t) \subseteq {i}
        /\ InitialSupply + token[t].minted + a <= MaxSupply
    BY <1>1, <2>1 DEF AloneWith, WithinCap
  <2>3. how # "over"
    <3>1. contract[t].supply <= InitialSupply + contract[t].minted
      BY DEF MintInv
    <3>2. InitialSupply \in Nat /\ MaxSupply \in Nat
      BY TokenAssumption DEF TokenAssumption
    <3>3. QED
      BY <1>3, <1>7, <2>2, <3>1, <3>2
  <2>4. Outstanding(t)' \subseteq {i}
    BY <1>6, <2>2 DEF Outstanding
  <2>5. contract'[t].minted = IF mintTx'[i].is = "mined" THEN token'[t].minted + a ELSE token'[t].minted
    BY <1>1, <1>4, <1>6, <1>8, <2>2
  <2>6. Writes(c, t)' /\ (\A d \in TokenCall : Writes(d, t)' => d = c) /\ WithinCap(t, minting[c].amount)'
    BY <1>1, <2>1 DEF AloneWith, Writes, WithinCap
  <2>7. minting'[c] = minting[c]
    BY <1>1
  <2>8. AloneWith(c, t)'
    BY <2>1, <2>4, <2>5, <2>6, <2>7 DEF AloneWith
  <2>9. QED
    BY <2>3, <2>6, <2>8
<1>13. \A d \in C : OneMinting(d)'
  <2> SUFFICES ASSUME NEW d \in C PROVE OneMinting(d)'
    OBVIOUS
  <2>1. OneMinting(d) /\ minting'[d] = minting[d] /\ Writes(d, t)
    BY <1>1 DEF MintInv
  <2>2. /\ minting[d].pc # "idle" => minting[d].token \in Token
        /\ minting[d].pc = "written" =>
             /\ minting[d].tx \in DOMAIN mintTx'
             /\ mintTx'[minting[d].tx].token = minting[d].token
             /\ mintTx'[minting[d].tx].amount = minting[d].amount
    BY <1>9, <2>1 DEF OneMinting, TxKept
  <2>3. \A s \in Token : Writes(d, s)' => s = t
    BY <2>1 DEF Writes
  <2>4. t \notin untold => AloneWith(d, t)'
    <3>1. ASSUME t \notin untold PROVE AloneWith(d, t)'
      <4>1. PICK c \in TokenCall : Writes(c, t)' /\ AloneWith(c, t)'
        BY <1>12, <3>1
      <4>2. d = c
        <5>1. Writes(d, t)'
          BY <2>1 DEF Writes
        <5>2. QED
          BY <4>1, <5>1 DEF AloneWith
      <4>3. QED
        BY <4>1, <4>2
    <3>2. QED
      BY <3>1
  <2>5. QED
    BY <1>1, <2>1, <2>2, <2>3, <2>4 DEF OneMinting
<1>14. t \notin untold' => Minting(t)'
  BY <1>1, <1>12 DEF Minting, Writes
<1>15. \A j \in DOMAIN mintTx' : mintTx'[j].is = "over" => mintTx'[j].token \in untold'
  <2>1. \A j \in DOMAIN mintTx : mintTx[j].is = "over" => mintTx[j].token \in untold
    BY DEF MintInv
  <2>2. how = "over" => t \in untold
    BY <1>12
  <2>3. QED
    BY <1>1, <1>4, <1>6, <2>1, <2>2
<1>16. PICK D \in SUBSET TokenCall, T \in SUBSET Token : D = C /\ T = {t}
  OBVIOUS
<1>17. /\ \A d \in TokenCall \ D : minting'[d] = minting[d]
       /\ \A s \in Token \ T : s \notin untold' => Same(s)
       /\ \A c \in D : minting[c].pc \in {"write", "written"} => minting[c].token \in T
       /\ \A c \in D : minting'[c].pc \in {"write", "written"} => minting'[c].token \in T
       /\ \A c \in D : OneMinting(c)'
       /\ untold \subseteq untold'
  BY <1>1, <1>9, <1>13, <1>16 DEF Writes
<1>18. /\ \A s \in T : s \notin untold' => \A d \in TokenCall \ D : ~ Writes(d, s)
       /\ \A s \in T : s \notin untold' /\ ~ Minting(s)' => Level(s)'
  BY <1>14, <1>16
<1>19. QED
  BY <1>9, <1>10, <1>15, <1>17, <1>18, MintFrame

LEMMA MintInvStep == MintInv /\ [TokenNext]_tokenVars => MintInv'
<1> SUFFICES ASSUME MintInv, [TokenNext]_tokenVars PROVE MintInv'
  OBVIOUS
<1>1. ASSUME NEW c \in TokenCall, TokenStep(c) PROVE MintInv'
  <2>1. ASSUME NEW t \in Token, DeployToken(c, t) PROVE MintInv'
    BY <2>1, DeployTokenInv
  <2>2. ASSUME NEW t \in Token, NEW a \in Amount, MintTokens(c, t, a) PROVE MintInv'
    BY <2>2, MintTokensInv
  <2>3. CASE SendContract(c) \/ InsertDeployment(c) \/ DeployReceipt(c)
    BY <2>3, DeployStepInv
  <2>4. CASE SendMint(c)
    BY <2>4, SendMintInv
  <2>5. CASE MintReceipt(c) \/ MintUnheard(c)
    BY <2>5, ReceiptInv
  <2>6. QED
    BY <1>1, <2>1, <2>2, <2>3, <2>4, <2>5 DEF TokenStep
<1>2. ASSUME NEW t \in Token, MineContract(t) \/ HoldersAct(t) PROVE MintInv'
  BY <1>2, ContractStepInv
<1>3. ASSUME NEW i \in DOMAIN mintTx, MineMint(i) PROVE MintInv'
  BY <1>3, MineMintInv
<1>4. CASE UNCHANGED tokenVars
  <2>1. UNCHANGED <<token, contract, mintTx, minting, mintings, untold>>
    BY <1>4 DEF tokenVars
  <2>2. TokenTypeOK'
    BY <2>1 DEF MintInv, TokenTypeOK
  <2>3. {} \in SUBSET TokenCall
    OBVIOUS
  <2>4. QED
    BY <2>1, <2>2, <2>3, NoMintInv DEF MintInv
<1>5. QED
  BY <1>1, <1>2, <1>3, <1>4 DEF TokenNext

(* The row of a token counts what the chain has minted, in whichever order *)
(* receipts come, until one is given up on or an amount is no integer; and *)
(* as long as mintings come one after another and are counted, what the    *)
(* service lets through is not turned down by the contract for the cap     *)
(* (mintTokens of packages/token/src/service.ts, db.ts:196).               *)
THEOREM MintsAreCounted == TokenSpec => []MintedIsCounted
<1>1. MintInv => MintedIsCounted
  <2> SUFFICES ASSUME MintInv PROVE MintedIsCounted
    OBVIOUS
  <2>1. ASSUME NEW t \in Token \ untold PROVE token[t].minted <= contract[t].minted
    <3>1. token[t].minted \in Nat /\ contract[t].minted \in Nat
      BY MintTypes DEF MintInv, TokenRows, Contracts
    <3>2. CASE ~ Minting(t)
      BY <3>1, <3>2 DEF MintInv, Level
    <3>3. ASSUME NEW c \in TokenCall, Writes(c, t) PROVE token[t].minted <= contract[t].minted
      <4>1. AloneWith(c, t) /\ minting[c].amount \in Nat /\ minting[c].pc \in {"write", "written"}
        BY <3>3, MintTypes DEF MintInv, OneMinting, Mintings, Writes
      <4>2. \/ contract[t].minted = token[t].minted
            \/ contract[t].minted = token[t].minted + minting[c].amount
        BY <4>1 DEF AloneWith
      <4>3. QED
        BY <3>1, <4>1, <4>2
    <3>4. QED
      BY <3>2, <3>3 DEF Minting, Writes
  <2>2. QED
    BY <2>1 DEF MintInv, Level, MintedIsCounted
<1>2. QED
  BY MintInvInit, MintInvStep, <1>1, PTL DEF TokenSpec

-----------------------------------------------------------------------------
(* A price read is the pool's, or that of a pool left without one.         *)
IsReal(fee, price) ==
  /\ fee \in Fee /\ pool[fee] # NotThere
  /\ IF price # 0 THEN pool[fee] = price
     ELSE \E i \in DOMAIN poolTx :
            poolTx[i].op = "init" /\ poolTx[i].fee = fee /\ poolTx[i].is = "reverted"

PoolCallKnows(c) ==
  LET x == poolCall[c] IN
  IF x.pc = "idle" THEN x = NoPoolCall
  ELSE /\ x.fee \in Fee
       /\ x.pc # "insert" => x.price \in Price
       /\ x.pc = "look" => x.tx = 0
       /\ x.tx # 0 => x.tx \in DOMAIN poolTx
       /\ x.pc \in {"init", "initing"} => pool[x.fee] # NotThere
       /\ x.pc = "initing" => x.tx # 0 /\ poolTx[x.tx].op = "init" /\ poolTx[x.tx].fee = x.fee
       /\ x.pc = "insert" => IsReal(x.fee, x.price)

(* Where calls do not overlap, the one there is has sent what was sent.    *)
AloneInPool(c) ==
  poolCall[c].pc # "idle" =>
    /\ poolRow = NoPool
    /\ poolCall[c].tx = 0 => poolTx = <<>>
    /\ poolCall[c].pc \in {"look", "create"} => poolCall[c].tx = 0

OneCreation ==
  ~ strayed =>
    /\ \A c, d \in PoolCall : poolCall[c].pc # "idle" /\ poolCall[d].pc # "idle" => c = d
    /\ \A c \in PoolCall : AloneInPool(c)
    /\ poolRow = NoPool /\ (\A c \in PoolCall : poolCall[c].pc = "idle") => poolTx = <<>>
    /\ \A i, j \in DOMAIN poolTx : poolTx[i].op = "create" /\ poolTx[j].op = "create" => i = j

TxSound(i) ==
  poolTx[i].op = "init" =>
    /\ pool[poolTx[i].fee] # NotThere
    /\ poolTx[i].is = "mined" => pool[poolTx[i].fee] # 0

PoolInv ==
  /\ PoolTypeOK
  /\ \A i \in DOMAIN poolTx : TxSound(i)
  /\ \A c \in PoolCall : PoolCallKnows(c)
  /\ poolRow # NoPool => IsReal(poolRow.fee, poolRow.price)
  /\ OneCreation

PoolCalls ==
  [pc : {"idle", "look", "create", "creating", "init", "initing", "insert"},
   fee : Fee \cup {NoFee}, price : PoolPrice, tx : Nat]
PoolTxs ==
  [op : {"create", "init"}, fee : Fee, price : Price, is : {"sent", "mined", "reverted"}]

LEMMA PoolTypes ==
  /\ NoFee \notin Fee /\ NoPool.fee = NoFee /\ NoPool \in [fee : Fee \cup {NoFee}, price : PoolPrice]
  /\ NoPoolCall \in PoolCalls /\ NoPoolCall.pc = "idle"
  /\ 0 \notin Price /\ NotThere \notin PoolPrice /\ Price \subseteq PoolPrice /\ 0 \in PoolPrice
<1>1. 0 \notin Price /\ NotThere \notin PoolPrice /\ Price \subseteq PoolPrice /\ 0 \in PoolPrice
  BY PoolAssumption DEF PoolAssumption, PoolPrice, NotThere
<1>2. NoPool.fee = NoFee /\ NoPool \in [fee : Fee \cup {NoFee}, price : PoolPrice]
  BY <1>1 DEF NoPool
<1>3. NoPoolCall \in PoolCalls /\ NoPoolCall.pc = "idle"
  BY <1>1 DEF NoPoolCall, PoolCalls
<1>4. QED
  BY <1>1, <1>2, <1>3, PoolAssumption DEF PoolAssumption

LEMMA PoolInvInit == PoolInit => PoolInv
<1> SUFFICES ASSUME PoolInit PROVE PoolInv
  OBVIOUS
<1>1. \A c \in PoolCall : poolCall[c] = NoPoolCall /\ poolCall[c].pc = "idle"
  BY PoolTypes DEF PoolInit
<1>2. poolRow = NoPool /\ poolTx = <<>> /\ DOMAIN poolTx = {}
  BY DEF PoolInit
<1>3. PoolTypeOK
  <2>1. poolCall \in [PoolCall -> PoolCalls]
    BY PoolTypes DEF PoolInit
  <2>2. poolTx \in Seq(PoolTxs)
    BY <1>2
  <2>3. poolRow \in [fee : Fee \cup {NoFee}, price : PoolPrice]
    BY <1>2, PoolTypes
  <2>4. pool \in [Fee -> PoolPrice \cup {NotThere}]
    BY DEF PoolInit
  <2>5. poolCalls \in 0..PoolLimit
    BY PoolAssumption DEF PoolAssumption, PoolInit
  <2>6. strayed \in BOOLEAN
    BY Zenon DEF PoolInit
  <2>7. QED
    BY <2>1, <2>2, <2>3, <2>4, <2>5, <2>6 DEF PoolTypeOK, PoolCalls, PoolTxs
<1>4. OneCreation
  BY <1>1, <1>2 DEF OneCreation, AloneInPool
<1>5. \A c \in PoolCall : PoolCallKnows(c)
  BY <1>1 DEF PoolCallKnows
<1>6. QED
  BY <1>2, <1>3, <1>4, <1>5 DEF PoolInv

(* What is at the chain stays: a pool, its price, and how a transaction    *)
(* went.                                                                   *)
ChainGoesOn ==
  /\ \A f \in Fee : /\ pool[f] # NotThere => pool'[f] # NotThere
                    /\ pool[f] \notin {NotThere, 0} => pool'[f] = pool[f]
  /\ \A i \in DOMAIN poolTx :
       /\ i \in DOMAIN poolTx'
       /\ poolTx'[i].op = poolTx[i].op /\ poolTx'[i].fee = poolTx[i].fee
       /\ poolTx[i].is = "reverted" => poolTx'[i].is = "reverted"

LEMMA RealStays ==
  ASSUME ChainGoesOn, NEW f, NEW p \in PoolPrice, IsReal(f, p)
  PROVE  IsReal(f, p)'
<1>1. f \in Fee /\ pool[f] # NotThere /\ pool'[f] # NotThere
  BY DEF IsReal, ChainGoesOn
<1>2. CASE p # 0
  BY <1>1, <1>2, PoolTypes DEF IsReal, ChainGoesOn
<1>3. CASE p = 0
  <2>1. PICK i \in DOMAIN poolTx :
          poolTx[i].op = "init" /\ poolTx[i].fee = f /\ poolTx[i].is = "reverted"
    BY <1>3 DEF IsReal
  <2>2. /\ i \in DOMAIN poolTx'
        /\ poolTx'[i].op = "init" /\ poolTx'[i].fee = f /\ poolTx'[i].is = "reverted"
    BY <2>1 DEF ChainGoesOn
  <2>3. QED
    BY <1>1, <1>3, <2>2 DEF IsReal
<1>4. QED
  BY <1>2, <1>3

LEMMA PoolElsewhere ==
  ASSUME PoolInv, ChainGoesOn
  PROVE  /\ \A d \in PoolCall : poolCall'[d] = poolCall[d] => PoolCallKnows(d)'
         /\ poolRow' = poolRow /\ poolRow # NoPool => IsReal(poolRow.fee, poolRow.price)'
<1>1. PoolTypeOK
  BY DEF PoolInv
<1>2. ASSUME NEW d \in PoolCall, poolCall'[d] = poolCall[d] PROVE PoolCallKnows(d)'
  <2>1. PoolCallKnows(d) /\ poolCall[d].price \in PoolPrice
    BY <1>1 DEF PoolInv, PoolTypeOK
  <2>2. CASE poolCall[d].pc = "idle"
    BY <1>2, <2>1, <2>2 DEF PoolCallKnows
  <2>3. CASE poolCall[d].pc # "idle"
    <3>1. poolCall'[d].pc = "insert" => IsReal(poolCall[d].fee, poolCall[d].price)'
      <4>1. PICK f \in Fee, p \in PoolPrice : f = poolCall[d].fee /\ p = poolCall[d].price
        BY <2>1, <2>3 DEF PoolCallKnows
      <4>2. poolCall[d].pc = "insert" => IsReal(f, p)'
        BY <2>1, <2>3, <4>1, RealStays DEF PoolCallKnows
      <4>3. poolCall'[d].fee = f /\ poolCall'[d].price = p /\ poolCall'[d].pc = poolCall[d].pc
        BY <1>2, <4>1
      <4>4. QED
        BY <4>2, <4>3 DEF IsReal
    <3>2. poolCall[d].tx # 0 =>
            /\ poolCall[d].tx \in DOMAIN poolTx /\ poolCall[d].tx \in DOMAIN poolTx'
            /\ poolTx'[poolCall[d].tx].op = poolTx[poolCall[d].tx].op
            /\ poolTx'[poolCall[d].tx].fee = poolTx[poolCall[d].tx].fee
      BY <2>1, <2>3 DEF PoolCallKnows, ChainGoesOn
    <3>3. poolCall[d].pc \in {"init", "initing"} => pool'[poolCall[d].fee] # NotThere
      BY <2>1, <2>3 DEF PoolCallKnows, ChainGoesOn
    <3>4. QED
      BY <1>2, <2>1, <2>3, <3>1, <3>2, <3>3 DEF PoolCallKnows
  <2>4. QED
    BY <2>2, <2>3
<1>3. ASSUME poolRow' = poolRow, poolRow # NoPool PROVE IsReal(poolRow.fee, poolRow.price)'
  <2>1. PICK f \in Fee, p \in PoolPrice : f = poolRow.fee /\ p = poolRow.price
    BY <1>1, <1>3 DEF PoolInv, PoolTypeOK, IsReal
  <2>2. IsReal(f, p)'
    BY <1>3, <2>1, RealStays DEF PoolInv
  <2>3. poolRow'.fee = f /\ poolRow'.price = p
    BY <1>3, <2>1
  <2>4. QED
    BY <2>2, <2>3 DEF IsReal
<1>4. QED
  BY <1>2, <1>3

(* A transaction that is sent.                                             *)
LEMMA SentToPool ==
  ASSUME PoolInv, NEW a \in PoolTxs, a.is = "sent", poolTx' = Append(poolTx, a), UNCHANGED pool,
         a.op = "init" => pool[a.fee] # NotThere
  PROVE  /\ ChainGoesOn /\ poolTx' \in Seq(PoolTxs)
         /\ Len(poolTx') \in DOMAIN poolTx' /\ Len(poolTx') # 0 /\ poolTx'[Len(poolTx')] = a
         /\ \A i \in DOMAIN poolTx' : TxSound(i)'
         /\ \A i \in DOMAIN poolTx' : i \in DOMAIN poolTx \/ i = Len(poolTx')
         /\ \A i \in DOMAIN poolTx : poolTx'[i] = poolTx[i]
<1>1. poolTx \in Seq(PoolTxs)
  BY DEF PoolInv, PoolTypeOK, PoolTxs
<1>2. /\ poolTx' \in Seq(PoolTxs) /\ Len(poolTx') = Len(poolTx) + 1 /\ Len(poolTx) \in Nat
      /\ \A i \in 1..Len(poolTx) : poolTx'[i] = poolTx[i]
      /\ poolTx'[Len(poolTx) + 1] = a
      /\ DOMAIN poolTx = 1..Len(poolTx) /\ DOMAIN poolTx' = 1..Len(poolTx')
  BY <1>1, AppendProperties
<1>3. /\ Len(poolTx') \in DOMAIN poolTx' /\ Len(poolTx') # 0 /\ poolTx'[Len(poolTx')] = a
      /\ \A i \in DOMAIN poolTx' : i \in DOMAIN poolTx \/ i = Len(poolTx')
      /\ \A i \in DOMAIN poolTx : i \in DOMAIN poolTx' /\ poolTx'[i] = poolTx[i]
  BY <1>2
<1>4. ChainGoesOn
  BY <1>3 DEF ChainGoesOn
<1>5. ASSUME NEW i \in DOMAIN poolTx' PROVE TxSound(i)'
  <2>1. CASE i \in DOMAIN poolTx
    BY <1>3, <2>1 DEF PoolInv, TxSound
  <2>2. CASE i = Len(poolTx')
    BY <1>3, <2>2 DEF TxSound
  <2>3. QED
    BY <1>3, <2>1, <2>2
<1>6. QED
  BY <1>2, <1>3, <1>4, <1>5

LEMMA CreatePoolInv ==
  ASSUME PoolInv, NEW c \in PoolCall, NEW f \in Fee, NEW p \in Price, CreatePool(c, f, p)
  PROVE  PoolInv'
<1>1. /\ PoolTypeOK /\ OneCreation /\ poolCall[c].pc = "idle" /\ poolRow = NoPool
      /\ UNCHANGED <<poolRow, pool, poolTx>>
  BY DEF PoolInv, CreatePool, AtPool
<1> DEFINE x == [pc |-> "look", fee |-> f, price |-> p, tx |-> 0]
<1>2. x \in PoolCalls /\ x.pc = "look" /\ x.fee = f /\ x.price = p /\ x.tx = 0
  BY PoolTypes DEF PoolCalls
<1>3. poolCall' = [poolCall EXCEPT ![c] = x]
  BY DEF CreatePool
<1> HIDE DEF x
<1>4. poolCall'[c] = x /\ \A d \in PoolCall \ {c} : poolCall'[d] = poolCall[d]
  BY <1>1, <1>3 DEF PoolTypeOK
<1>5. PoolTypeOK'
  <2>1. poolCall' \in [PoolCall -> PoolCalls]
    BY <1>1, <1>2, <1>3 DEF PoolTypeOK, PoolCalls
  <2>2. poolCalls' \in 0..PoolLimit
    BY <1>1, PoolAssumption DEF PoolAssumption, CreatePool, PoolTypeOK
  <2>3. strayed' \in BOOLEAN
    BY <1>1 DEF CreatePool, PoolTypeOK
  <2>4. QED
    BY <1>1, <2>1, <2>2, <2>3 DEF PoolTypeOK, PoolCalls
<1>6. ChainGoesOn
  BY <1>1 DEF ChainGoesOn
<1>7. \A d \in PoolCall \ {c} : PoolCallKnows(d)'
  BY <1>4, <1>6, PoolElsewhere
<1>8. PoolCallKnows(c)'
  BY <1>2, <1>4 DEF PoolCallKnows
<1>9. \A i \in DOMAIN poolTx : TxSound(i)'
  BY <1>1 DEF PoolInv, TxSound
<1>10. OneCreation'
  <2> SUFFICES ASSUME ~ strayed' PROVE OneCreation'
    BY DEF OneCreation
  <2>1. ~ strayed /\ \A d \in PoolCall : poolCall[d].pc = "idle"
    BY DEF CreatePool, AtPool
  <2>2. poolTx = <<>>
    BY <1>1, <2>1 DEF OneCreation
  <2>3. \A d \in PoolCall : poolCall'[d].pc # "idle" => d = c
    BY <1>4, <2>1
  <2>4. \A d \in PoolCall : AloneInPool(d)'
    BY <1>1, <1>2, <1>4, <2>2, <2>3 DEF AloneInPool
  <2>5. QED
    BY <1>1, <2>1, <2>2, <2>3, <2>4 DEF OneCreation
<1>11. QED
  BY <1>1, <1>5, <1>7, <1>8, <1>9, <1>10 DEF PoolInv

(* A price of zero that is kept is one that a transaction has failed to    *)
(* set.                                                                    *)
LEMMA ReadPoolInv ==
  ASSUME PoolInv, NEW c \in PoolCall, ReadPool(c)
  PROVE  PoolInv'
<1>1. /\ PoolTypeOK /\ OneCreation /\ PoolCallKnows(c)
      /\ UNCHANGED <<poolRow, pool, poolTx, poolCalls, strayed>>
      /\ poolCall[c].pc \in {"look", "creating", "initing"}
  BY DEF PoolInv, ReadPool, ReadsPool, AtPool
<1> DEFINE x == poolCall[c]
<1>2. x \in PoolCalls /\ x.fee \in Fee /\ pool[x.fee] \in PoolPrice \cup {NotThere}
  BY <1>1 DEF PoolTypeOK, PoolCalls, PoolCallKnows
<1>3. PICK y \in PoolCalls :
        /\ poolCall' = [poolCall EXCEPT ![c] = y]
        /\ y.fee = x.fee /\ y.tx = x.tx
        /\ \/ y.pc = "create" /\ y.price = x.price /\ x.pc = "look"
           \/ y.pc = "init" /\ y.price = x.price /\ pool[x.fee] = 0
           \/ /\ y.pc = "insert" /\ y.price = pool[x.fee] /\ pool[x.fee] # NotThere
              /\ pool[x.fee] = 0 => x.pc = "initing" /\ poolTx[x.tx].is # "sent"
  <2>1. ASSUME NEW place \in {"create", "init"}, GoPool(c, place),
               place = "create" => x.pc = "look", place = "init" => pool[x.fee] = 0
        PROVE  \E y \in PoolCalls :
                 /\ poolCall' = [poolCall EXCEPT ![c] = y]
                 /\ y.fee = x.fee /\ y.tx = x.tx /\ y.pc = place /\ y.price = x.price
    <3> DEFINE y == [x EXCEPT !.pc = place]
    <3>1. y \in PoolCalls /\ y.fee = x.fee /\ y.tx = x.tx /\ y.pc = place /\ y.price = x.price
      BY <1>2 DEF PoolCalls
    <3>2. poolCall' = [poolCall EXCEPT ![c] = y]
      BY <1>1, <2>1 DEF GoPool, PoolTypeOK
    <3> HIDE DEF y
    <3>3. QED
      BY <3>1, <3>2
  <2>2. ASSUME poolCall' = [poolCall EXCEPT ![c].pc = "insert", ![c].price = OnChain(c)],
               pool[x.fee] # NotThere
        PROVE  \E y \in PoolCalls :
                 /\ poolCall' = [poolCall EXCEPT ![c] = y]
                 /\ y.fee = x.fee /\ y.tx = x.tx /\ y.pc = "insert" /\ y.price = pool[x.fee]
    <3> DEFINE p == pool[x.fee]
               z == [x EXCEPT !.pc = "insert"]
               y == [z EXCEPT !.price = p]
    <3>1. p \in PoolPrice
      BY <1>2, <2>2
    <3>2. poolCall' = [poolCall EXCEPT ![c] = y]
      BY <1>1, <2>2 DEF OnChain, PoolTypeOK
    <3> HIDE DEF p
    <3>3. z \in PoolCalls /\ z.fee = x.fee /\ z.tx = x.tx /\ z.pc = "insert"
      BY <1>2 DEF PoolCalls
    <3> HIDE DEF z
    <3>4. y \in PoolCalls /\ y.fee = x.fee /\ y.tx = x.tx /\ y.pc = "insert" /\ y.price = p
      BY <3>1, <3>3 DEF PoolCalls
    <3> HIDE DEF y
    <3>5. QED
      BY <3>2, <3>4 DEF p
  <2>3. CASE x.pc = "look" /\ GoPool(c, "create")
    BY <2>1, <2>3
  <2>4. CASE pool[x.fee] = 0 /\ GoPool(c, "init")
    BY <2>1, <2>4
  <2>5. CASE /\ poolCall' = [poolCall EXCEPT ![c].pc = "insert", ![c].price = OnChain(c)]
             /\ pool[x.fee] # NotThere
             /\ pool[x.fee] # 0 \/ (x.pc = "initing" /\ poolTx[x.tx].is # "sent")
    BY <2>2, <2>5
  <2>6. QED
    BY <2>3, <2>4, <2>5 DEF ReadPool, ReadsPool, AtPool, OnChain, HasReceipt
<1>4. poolCall'[c] = y /\ \A d \in PoolCall \ {c} : poolCall'[d] = poolCall[d]
  BY <1>1, <1>3 DEF PoolTypeOK
<1>5. PoolTypeOK'
  BY <1>1, <1>3 DEF PoolTypeOK, PoolCalls
<1>6. ChainGoesOn
  BY <1>1 DEF ChainGoesOn
<1>7. /\ \A d \in PoolCall \ {c} : PoolCallKnows(d)'
      /\ poolRow # NoPool => IsReal(poolRow.fee, poolRow.price)'
  BY <1>1, <1>4, <1>6, PoolElsewhere
<1>8. PoolCallKnows(c)'
  <2>1. y.pc = "insert" => IsReal(y.fee, y.price)
    <3>1. x.pc = "initing" => x.tx \in DOMAIN poolTx /\ poolTx[x.tx].op = "init" /\ poolTx[x.tx].fee = x.fee
      BY <1>1 DEF PoolCallKnows
    <3>2. ASSUME x.pc = "initing", pool[x.fee] = 0, poolTx[x.tx].is # "sent"
          PROVE  poolTx[x.tx].is = "reverted"
      <4>1. poolTx[x.tx] \in PoolTxs
        <5>1. poolTx \in Seq(PoolTxs) /\ x.tx \in DOMAIN poolTx
          BY <1>1, <3>1, <3>2 DEF PoolTypeOK, PoolTxs
        <5>2. QED
          BY <5>1, ElementOfSeq
      <4>2. poolTx[x.tx].is # "mined"
        BY <3>1, <3>2 DEF PoolInv, TxSound
      <4>3. QED
        BY <3>2, <4>1, <4>2 DEF PoolTxs
    <3>3. QED
      BY <1>2, <1>3, <3>1, <3>2 DEF IsReal
  <2>2. y.pc = "insert" => IsReal(y.fee, y.price)'
    BY <1>1, <2>1 DEF IsReal
  <2>3. y.pc # "insert" => y.price \in Price
    BY <1>1, <1>3 DEF PoolCallKnows
  <2>4. y.tx # 0 => y.tx \in DOMAIN poolTx
    BY <1>1, <1>3 DEF PoolCallKnows
  <2>5. pool[x.fee] = 0 => pool[x.fee] # NotThere
    BY PoolTypes
  <2>6. y.pc \in {"create", "init", "insert"} /\ (y.pc = "init" => pool[y.fee] # NotThere)
    BY <1>3, <2>5
  <2>7. poolCall'[c].pc = "insert" => IsReal(poolCall[c].fee, poolCall[c].price)'
    BY <1>4, <2>2 DEF IsReal
  <2>8. QED
    BY <1>1, <1>2, <1>3, <1>4, <2>3, <2>4, <2>6, <2>7 DEF PoolCallKnows
<1>9. \A i \in DOMAIN poolTx : TxSound(i)'
  BY <1>1 DEF PoolInv, TxSound
<1>10. OneCreation'
  <2> SUFFICES ASSUME ~ strayed PROVE OneCreation'
    BY <1>1 DEF OneCreation
  <2>1. \A d \in PoolCall : poolCall'[d].pc # "idle" <=> poolCall[d].pc # "idle"
    BY <1>1, <1>3, <1>4
  <2>2. y.pc = "create" => y.tx = 0
    BY <1>1, <1>3 DEF PoolCallKnows
  <2>3. \A d \in PoolCall : AloneInPool(d)'
    BY <1>1, <1>3, <1>4, <2>2 DEF OneCreation, AloneInPool
  <2>4. QED
    BY <1>1, <2>1, <2>3 DEF OneCreation
<1>11. QED
  BY <1>1, <1>5, <1>7, <1>8, <1>9, <1>10 DEF PoolInv

(* A transaction and the call that goes on with it, or without.            *)
LEMMA PoolSendsInv ==
  ASSUME PoolInv, NEW c \in PoolCall, poolCall[c].pc \in {"create", "init"},
         NEW a \in PoolTxs, a.op = poolCall[c].pc, a.fee = poolCall[c].fee, a.is = "sent",
         poolTx' = Append(poolTx, a), UNCHANGED <<poolRow, pool, poolCalls>>,
         NEW y \in PoolCalls, poolCall' = [poolCall EXCEPT ![c] = y],
         \/ y = NoPoolCall /\ strayed' = TRUE
         \/ /\ y.pc = (IF poolCall[c].pc = "create" THEN "creating" ELSE "initing")
            /\ y.fee = poolCall[c].fee /\ y.price = poolCall[c].price
            /\ y.tx = Len(poolTx') /\ UNCHANGED strayed
  PROVE  PoolInv'
<1>1. PoolTypeOK /\ OneCreation /\ PoolCallKnows(c)
  BY DEF PoolInv
<1>2. a.op = "init" => pool[a.fee] # NotThere
  BY <1>1 DEF PoolCallKnows
<1>3. /\ ChainGoesOn /\ poolTx' \in Seq(PoolTxs)
      /\ Len(poolTx') \in DOMAIN poolTx' /\ Len(poolTx') # 0 /\ poolTx'[Len(poolTx')] = a
      /\ \A i \in DOMAIN poolTx' : TxSound(i)'
      /\ \A i \in DOMAIN poolTx' : i \in DOMAIN poolTx \/ i = Len(poolTx')
      /\ \A i \in DOMAIN poolTx : poolTx'[i] = poolTx[i]
  BY <1>2, SentToPool
<1>4. poolCall'[c] = y /\ \A d \in PoolCall \ {c} : poolCall'[d] = poolCall[d]
  BY <1>1 DEF PoolTypeOK
<1>5. PoolTypeOK'
  <2>1. poolCall' \in [PoolCall -> PoolCalls]
    BY <1>1 DEF PoolTypeOK, PoolCalls
  <2>2. strayed' \in BOOLEAN
    BY <1>1 DEF PoolTypeOK
  <2>3. QED
    BY <1>1, <1>3, <2>1, <2>2 DEF PoolTypeOK, PoolCalls, PoolTxs
<1>6. /\ \A d \in PoolCall \ {c} : PoolCallKnows(d)'
      /\ poolRow # NoPool => IsReal(poolRow.fee, poolRow.price)'
  BY <1>3, <1>4, PoolElsewhere
<1>7. PoolCallKnows(c)'
  <2>1. CASE y = NoPoolCall
    BY <1>4, <2>1, PoolTypes DEF PoolCallKnows
  <2>2. CASE y # NoPoolCall
    <3>1. /\ y.pc = "creating" \/ (y.pc = "initing" /\ poolCall[c].pc = "init")
          /\ y.fee = poolCall[c].fee /\ y.price = poolCall[c].price /\ y.tx = Len(poolTx')
      BY <2>2
    <3>2. y.fee \in Fee /\ y.price \in Price /\ (y.pc = "initing" => pool[y.fee] # NotThere)
      BY <1>1, <3>1 DEF PoolCallKnows
    <3>3. QED
      BY <1>3, <1>4, <3>1, <3>2 DEF PoolCallKnows
  <2>3. QED
    BY <2>1, <2>2
<1>8. OneCreation'
  <2> SUFFICES ASSUME ~ strayed' PROVE OneCreation'
    BY DEF OneCreation
  <2>1. /\ ~ strayed /\ y.tx = Len(poolTx')
        /\ y.pc = IF poolCall[c].pc = "create" THEN "creating" ELSE "initing"
    OBVIOUS
  <2>2. \A d \in PoolCall : poolCall'[d].pc # "idle" <=> poolCall[d].pc # "idle"
    BY <1>4, <2>1
  <2>3. \A d \in PoolCall : poolCall'[d].pc # "idle" => d = c
    BY <1>1, <2>1, <2>2 DEF OneCreation
  <2>4. \A d \in PoolCall : AloneInPool(d)'
    BY <1>1, <1>3, <1>4, <2>1, <2>3 DEF OneCreation, AloneInPool
  <2>5. a.op = "create" => DOMAIN poolTx = {}
    <3>1. poolCall[c].pc = "create" => poolTx = <<>>
      BY <1>1, <2>1 DEF OneCreation, AloneInPool
    <3>2. DOMAIN <<>> = {}
      OBVIOUS
    <3>3. QED
      BY <3>1, <3>2
  <2>6. \A i, j \in DOMAIN poolTx' : poolTx'[i].op = "create" /\ poolTx'[j].op = "create" => i = j
    BY <1>1, <1>3, <2>1, <2>5 DEF OneCreation
  <2>7. QED
    BY <1>1, <1>4, <2>1, <2>2, <2>3, <2>4, <2>6 DEF OneCreation
<1>9. QED
  BY <1>1, <1>3, <1>5, <1>6, <1>7, <1>8 DEF PoolInv

LEMMA SendPoolTxInv ==
  ASSUME PoolInv, NEW c \in PoolCall, SendPoolTx(c) \/ (GiveUpPool(c) /\ poolTx' # poolTx)
  PROVE  PoolInv'
<1>1. /\ PoolTypeOK /\ poolCall[c].pc \in {"create", "init"} /\ UNCHANGED <<poolRow, pool, poolCalls>>
      /\ poolCall[c] \in PoolCalls /\ poolCall[c].fee \in Fee /\ poolCall[c].price \in Price
  BY DEF PoolInv, PoolTypeOK, PoolCalls, PoolCallKnows, SendPoolTx, GiveUpPool
<1> DEFINE a == [op |-> poolCall[c].pc, fee |-> poolCall[c].fee, price |-> poolCall[c].price,
                 is |-> "sent"]
<1>2. a \in PoolTxs /\ a.op = poolCall[c].pc /\ a.fee = poolCall[c].fee /\ a.is = "sent"
  BY <1>1 DEF PoolTxs
<1>3. poolTx' = Append(poolTx, a)
  BY DEF SendPoolTx, GiveUpPool
<1> HIDE DEF a
<1>4. CASE SendPoolTx(c)
  <2>1. Len(poolTx') \in Nat
    <3>1. poolTx \in Seq(PoolTxs)
      BY <1>1 DEF PoolTypeOK, PoolTxs
    <3>2. QED
      BY <1>2, <1>3, <3>1, AppendProperties
  <2> DEFINE n == Len(poolTx')
             place == IF poolCall[c].pc = "create" THEN "creating" ELSE "initing"
             z == [poolCall[c] EXCEPT !.pc = place]
             y == [z EXCEPT !.tx = n]
  <2>2. poolCall' = [poolCall EXCEPT ![c] = y]
    BY <1>1, <1>4 DEF SendPoolTx, PoolTypeOK
  <2> HIDE DEF n
  <2>3. place \in {"creating", "initing"}
    OBVIOUS
  <2> HIDE DEF place
  <2>4. z \in PoolCalls /\ z.pc = place /\ z.fee = poolCall[c].fee /\ z.price = poolCall[c].price
    BY <1>1, <2>3 DEF PoolCalls
  <2> HIDE DEF z
  <2>5. /\ y \in PoolCalls /\ y.pc = place /\ y.fee = poolCall[c].fee
        /\ y.price = poolCall[c].price /\ y.tx = n
    BY <2>1, <2>4 DEF PoolCalls, n
  <2> HIDE DEF y
  <2>6. /\ y.tx = Len(poolTx')
        /\ y.pc = IF poolCall[c].pc = "create" THEN "creating" ELSE "initing"
    BY <2>5 DEF n, place
  <2>7. UNCHANGED strayed
    BY <1>4 DEF SendPoolTx
  <2>8. QED
    BY <1>1, <1>2, <1>3, <2>2, <2>5, <2>6, <2>7, PoolSendsInv
<1>5. CASE GiveUpPool(c) /\ poolTx' # poolTx
  <2>1. strayed' = TRUE /\ poolCall' = [poolCall EXCEPT ![c] = NoPoolCall]
    BY <1>5 DEF GiveUpPool, EndPool
  <2>2. QED
    BY <1>1, <1>2, <1>3, <2>1, PoolTypes, PoolSendsInv
<1>6. QED
  BY <1>4, <1>5

LEMMA EndPoolInv ==
  ASSUME PoolInv, NEW c \in PoolCall,
         InsertPool(c) \/ (GiveUpPool(c) /\ UNCHANGED poolTx)
  PROVE  PoolInv'
<1>1. /\ PoolTypeOK /\ OneCreation /\ PoolCallKnows(c) /\ poolCall[c].pc # "idle"
      /\ UNCHANGED <<pool, poolTx, poolCalls>>
      /\ poolCall' = [poolCall EXCEPT ![c] = NoPoolCall]
  BY DEF PoolInv, InsertPool, GiveUpPool, EndPool, AtPool
<1>2. /\ poolCall'[c] = NoPoolCall /\ poolCall'[c].pc = "idle"
      /\ \A d \in PoolCall \ {c} : poolCall'[d] = poolCall[d]
  BY <1>1, PoolTypes DEF PoolTypeOK
<1>3. CASE InsertPool(c) /\ poolRow = NoPool
  <2>1. /\ poolCall[c].pc = "insert" /\ UNCHANGED strayed
        /\ poolRow' = [fee |-> poolCall[c].fee, price |-> poolCall[c].price]
    BY <1>3 DEF InsertPool, AtPool
  <2>2. PICK f \in Fee, p \in PoolPrice : f = poolCall[c].fee /\ p = poolCall[c].price
    BY <1>1 DEF PoolCallKnows, PoolTypeOK
  <2>3. poolRow'.fee = f /\ poolRow'.price = p /\ IsReal(f, p)
    BY <1>1, <2>1, <2>2 DEF PoolCallKnows
  <2>4. IsReal(f, p)'
    BY <1>1, <2>3 DEF IsReal
  <2>5. poolRow' # NoPool /\ poolRow' \in [fee : Fee \cup {NoFee}, price : PoolPrice]
    BY <2>1, <2>2, <2>3, PoolTypes
  <2>6. ~ strayed => \A d \in PoolCall : poolCall'[d].pc = "idle"
    BY <1>1, <1>2 DEF OneCreation
  <2>7. PoolTypeOK'
    <3>1. poolCall' \in [PoolCall -> PoolCalls]
      BY <1>1, PoolTypes DEF PoolTypeOK, PoolCalls
    <3>2. QED
      BY <1>1, <2>1, <2>5, <3>1 DEF PoolTypeOK, PoolCalls
  <2>8. OneCreation'
    BY <1>1, <2>1, <2>5, <2>6 DEF OneCreation, AloneInPool
  <2>9. ChainGoesOn
    BY <1>1 DEF ChainGoesOn
  <2>10. \A d \in PoolCall \ {c} : PoolCallKnows(d)'
    BY <1>2, <2>9, PoolElsewhere
  <2>11. PoolCallKnows(c)'
    BY <1>2 DEF PoolCallKnows
  <2>12. \A i \in DOMAIN poolTx : TxSound(i)'
    BY <1>1 DEF PoolInv, TxSound
  <2>13. IsReal(poolRow.fee, poolRow.price)'
    BY <2>3, <2>4 DEF IsReal
  <2>14. QED
    BY <1>1, <2>7, <2>8, <2>10, <2>11, <2>12, <2>13 DEF PoolInv
<1>4. CASE UNCHANGED poolRow /\ (strayed' => strayed \/ GiveUpPool(c)) /\ (strayed => strayed')
           /\ strayed' \in BOOLEAN /\ (GiveUpPool(c) /\ ~ strayed' => poolCall[c].tx = 0)
           /\ (InsertPool(c) => poolRow # NoPool)
  <2>1. PoolTypeOK'
    <3>1. poolCall' \in [PoolCall -> PoolCalls]
      BY <1>1, PoolTypes DEF PoolTypeOK, PoolCalls
    <3>2. QED
      BY <1>1, <1>4, <3>1 DEF PoolTypeOK, PoolCalls
  <2>2. ChainGoesOn
    BY <1>1 DEF ChainGoesOn
  <2>3. /\ \A d \in PoolCall \ {c} : PoolCallKnows(d)'
        /\ poolRow # NoPool => IsReal(poolRow.fee, poolRow.price)'
    BY <1>2, <1>4, <2>2, PoolElsewhere
  <2>4. PoolCallKnows(c)'
    BY <1>2 DEF PoolCallKnows
  <2>5. \A i \in DOMAIN poolTx : TxSound(i)'
    BY <1>1 DEF PoolInv, TxSound
  <2>6. OneCreation'
    <3> SUFFICES ASSUME ~ strayed' PROVE OneCreation'
      BY DEF OneCreation
    <3>1. ~ strayed /\ GiveUpPool(c) /\ poolTx = <<>>
      BY <1>1, <1>4 DEF OneCreation, AloneInPool
    <3>2. \A d \in PoolCall : poolCall'[d].pc = "idle"
      BY <1>1, <1>2, <3>1 DEF OneCreation
    <3>3. QED
      BY <1>1, <3>1, <3>2 DEF OneCreation, AloneInPool
  <2>7. QED
    BY <1>1, <1>4, <2>1, <2>3, <2>4, <2>5, <2>6 DEF PoolInv
<1>5. strayed \in BOOLEAN
  BY <1>1 DEF PoolTypeOK
<1>6. CASE GiveUpPool(c)
  <2>1. /\ UNCHANGED poolRow /\ strayed' \in BOOLEAN /\ (strayed => strayed')
        /\ (~ strayed' => poolCall[c].tx = 0)
    BY <1>5, <1>6 DEF GiveUpPool
  <2>2. ~ InsertPool(c) \/ poolRow # NoPool \/ (InsertPool(c) /\ poolRow = NoPool)
    OBVIOUS
  <2>3. QED
    BY <1>3, <1>4, <1>6, <2>1, <2>2
<1>7. CASE InsertPool(c) /\ poolRow # NoPool /\ ~ GiveUpPool(c)
  BY <1>4, <1>5, <1>7 DEF InsertPool
<1>8. QED
  BY <1>3, <1>6, <1>7

(* What the chain does by itself leaves what calls know true.              *)
LEMMA ChainMovesInv ==
  ASSUME PoolInv, ChainGoesOn, UNCHANGED <<poolRow, poolCall, strayed>>, PoolTypeOK',
         DOMAIN poolTx' = DOMAIN poolTx, poolTx = <<>> => poolTx' = <<>>,
         \A i \in DOMAIN poolTx : TxSound(i)'
  PROVE  PoolInv'
<1>1. /\ \A d \in PoolCall : PoolCallKnows(d)'
      /\ poolRow # NoPool => IsReal(poolRow.fee, poolRow.price)'
  BY PoolElsewhere
<1>2. poolRow' # NoPool => IsReal(poolRow.fee, poolRow.price)'
  BY <1>1
<1>3. OneCreation'
  BY DEF PoolInv, OneCreation, AloneInPool, ChainGoesOn
<1>4. QED
  BY <1>1, <1>2, <1>3 DEF PoolInv

LEMMA MinePoolTxInv ==
  ASSUME PoolInv, NEW i \in DOMAIN poolTx, MinePoolTx(i)
  PROVE  PoolInv'
<1> DEFINE tx == poolTx[i]
<1>1. /\ PoolTypeOK /\ poolTx \in Seq(PoolTxs) /\ tx \in PoolTxs /\ tx.is = "sent"
      /\ UNCHANGED <<poolRow, poolCall, poolCalls, strayed>>
  <2>1. PoolTypeOK /\ poolTx \in Seq(PoolTxs)
    BY DEF PoolInv, PoolTypeOK, PoolTxs
  <2>2. QED
    BY <2>1, ElementOfSeq DEF MinePoolTx
<1>2. PICK how \in {"mined", "reverted"} :
        /\ poolTx' = [poolTx EXCEPT ![i].is = how]
        /\ how = "reverted" => pool' = pool
        /\ how = "mined" /\ tx.op = "create" =>
             pool[tx.fee] = NotThere /\ pool' = [pool EXCEPT ![tx.fee] = 0]
        /\ how = "mined" /\ tx.op = "init" =>
             pool[tx.fee] = 0 /\ pool' = [pool EXCEPT ![tx.fee] = tx.price]
  <2>1. CASE poolTx' = [poolTx EXCEPT ![i].is = "reverted"] /\ pool' = pool
    BY <2>1
  <2>2. CASE /\ pool[tx.fee] = (IF tx.op = "create" THEN NotThere ELSE 0)
             /\ pool' = [pool EXCEPT ![tx.fee] = IF tx.op = "create" THEN 0 ELSE tx.price]
             /\ poolTx' = [poolTx EXCEPT ![i].is = "mined"]
    BY <2>2
  <2>3. QED
    BY <2>1, <2>2 DEF MinePoolTx
<1> DEFINE a == [tx EXCEPT !.is = how]
<1>3. a \in PoolTxs /\ a.op = tx.op /\ a.fee = tx.fee /\ a.is = how
  BY <1>1 DEF PoolTxs
<1>4. poolTx' = [poolTx EXCEPT ![i] = a]
  BY <1>1, <1>2
<1> HIDE DEF a
<1>5. /\ poolTx' \in Seq(PoolTxs) /\ DOMAIN poolTx' = DOMAIN poolTx
      /\ poolTx'[i] = a /\ \A j \in DOMAIN poolTx \ {i} : poolTx'[j] = poolTx[j]
  BY <1>1, <1>3, <1>4, ExceptSeq
<1>6. tx.fee \in Fee /\ tx.price \in Price /\ tx.op \in {"create", "init"}
  BY <1>1 DEF PoolTxs
<1>7. 0 \notin Price /\ Price \subseteq PoolPrice /\ 0 \in PoolPrice /\ 0 # NotThere
      /\ NotThere \notin Price
  BY PoolTypes
<1>8. pool' \in [Fee -> PoolPrice \cup {NotThere}]
  BY <1>1, <1>2, <1>6, <1>7 DEF PoolTypeOK
<1>9. /\ \A f \in Fee : /\ pool[f] # NotThere => pool'[f] # NotThere
                        /\ pool[f] \notin {NotThere, 0} => pool'[f] = pool[f]
      /\ how = "mined" /\ tx.op = "init" => pool'[tx.fee] \notin {NotThere, 0}
  BY <1>1, <1>2, <1>6, <1>7 DEF PoolTypeOK
<1>10. ChainGoesOn
  BY <1>1, <1>3, <1>5, <1>9 DEF ChainGoesOn
<1>11. PoolTypeOK'
  BY <1>1, <1>5, <1>8 DEF PoolTypeOK, PoolTxs
<1>12. ASSUME NEW j \in DOMAIN poolTx PROVE TxSound(j)'
  <2>1. TxSound(j) /\ poolTx[j].fee \in Fee
    <3>1. poolTx[j] \in PoolTxs
      BY <1>1, ElementOfSeq
    <3>2. QED
      BY <3>1 DEF PoolInv, PoolTxs
  <2>2. CASE j = i
    BY <1>3, <1>5, <1>6, <1>9, <2>1, <2>2 DEF TxSound
  <2>3. CASE j # i
    BY <1>5, <1>9, <2>1, <2>3 DEF TxSound
  <2>4. QED
    BY <2>2, <2>3
<1>13. poolTx = <<>> => poolTx' = <<>>
  <2>1. poolTx # <<>>
    OBVIOUS
  <2>2. QED
    BY <2>1
<1>14. QED
  BY <1>1, <1>5, <1>10, <1>11, <1>12, <1>13, ChainMovesInv

LEMMA StrangerInv ==
  ASSUME PoolInv, NEW f \in Fee, NEW p \in Price, Stranger(f, p)
  PROVE  PoolInv'
<1>1. PoolTypeOK /\ UNCHANGED <<poolRow, poolTx, poolCall, strayed>>
  BY DEF PoolInv, Stranger
<1>2. 0 # p /\ p # NotThere /\ p \in PoolPrice /\ 0 \in PoolPrice /\ 0 # NotThere
  BY PoolTypes
<1>3. /\ pool' \in [Fee -> PoolPrice \cup {NotThere}]
      /\ \A g \in Fee : /\ pool[g] # NotThere => pool'[g] # NotThere
                        /\ pool[g] \notin {NotThere, 0} => pool'[g] = pool[g]
  BY <1>1, <1>2 DEF PoolTypeOK, Stranger
<1>4. poolCalls' \in 0..PoolLimit
  BY <1>1, PoolAssumption DEF PoolAssumption, PoolTypeOK, Stranger
<1>5. PoolTypeOK' /\ ChainGoesOn
  BY <1>1, <1>3, <1>4 DEF PoolTypeOK, ChainGoesOn
<1>6. ASSUME NEW j \in DOMAIN poolTx PROVE TxSound(j)'
  <2>1. TxSound(j) /\ poolTx[j].fee \in Fee
    <3>1. poolTx \in Seq(PoolTxs)
      BY <1>1 DEF PoolTypeOK, PoolTxs
    <3>2. poolTx[j] \in PoolTxs
      BY <3>1, ElementOfSeq
    <3>3. QED
      BY <3>2 DEF PoolInv, PoolTxs
  <2>2. QED
    BY <1>1, <1>3, <2>1 DEF TxSound
<1>7. QED
  BY <1>1, <1>5, <1>6, ChainMovesInv

LEMMA PoolInvStep == PoolInv /\ [PoolNext]_poolVars => PoolInv'
<1> SUFFICES ASSUME PoolInv, [PoolNext]_poolVars PROVE PoolInv'
  OBVIOUS
<1>1. ASSUME NEW c \in PoolCall, NEW f \in Fee, NEW p \in Price, CreatePool(c, f, p) PROVE PoolInv'
  BY <1>1, CreatePoolInv
<1>2. ASSUME NEW c \in PoolCall, ReadPool(c) PROVE PoolInv'
  BY <1>2, ReadPoolInv
<1>3. ASSUME NEW c \in PoolCall, SendPoolTx(c) PROVE PoolInv'
  BY <1>3, SendPoolTxInv
<1>4. ASSUME NEW c \in PoolCall, InsertPool(c) PROVE PoolInv'
  BY <1>4, EndPoolInv
<1>5. ASSUME NEW c \in PoolCall, GiveUpPool(c) PROVE PoolInv'
  <2>1. CASE poolTx' = poolTx
    BY <1>5, <2>1, EndPoolInv
  <2>2. CASE poolTx' # poolTx
    BY <1>5, <2>2, SendPoolTxInv
  <2>3. QED
    BY <2>1, <2>2
<1>6. ASSUME NEW i \in DOMAIN poolTx, MinePoolTx(i) PROVE PoolInv'
  BY <1>6, MinePoolTxInv
<1>7. ASSUME NEW f \in Fee, NEW p \in Price, Stranger(f, p) PROVE PoolInv'
  BY <1>7, StrangerInv
<1>8. CASE UNCHANGED poolVars
  <2>1. UNCHANGED <<poolRow, pool, poolTx, poolCall, poolCalls, strayed>>
    BY <1>8 DEF poolVars
  <2>2. ChainGoesOn /\ PoolTypeOK'
    BY <2>1 DEF PoolInv, PoolTypeOK, ChainGoesOn
  <2>3. \A i \in DOMAIN poolTx : TxSound(i)'
    BY <2>1 DEF PoolInv, TxSound
  <2>4. QED
    BY <2>1, <2>2, <2>3, ChainMovesInv
<1>9. QED
  BY <1>1, <1>2, <1>3, <1>4, <1>5, <1>6, <1>7, <1>8 DEF PoolNext, PoolStep

(* A token's row names a pool that is there at the price it has, whoever   *)
(* made it, unless the transaction that was to give it one was reverted;   *)
(* and the deployer has paid for one pool at most, as long as calls come   *)
(* one after another and none ends after it has sent without a row         *)
(* (createPool of packages/token/src/service.ts).                          *)
THEOREM PoolRowsAreReal == PoolSpec => []PoolsAreReal
<1>1. PoolInv => PoolsAreReal
  <2> SUFFICES ASSUME PoolInv PROVE PoolsAreReal
    OBVIOUS
  <2>1. /\ poolRow # NoPool => IsReal(poolRow.fee, poolRow.price)
        /\ OneCreation
    BY DEF PoolInv
  <2> DEFINE Paid == {i \in DOMAIN poolTx : poolTx[i].op = "create" /\ poolTx[i].is = "mined"}
  <2>2. ~ strayed => Cardinality(Paid) <= 1
    <3>1. ~ strayed => \A i, j \in Paid : i = j
      BY <2>1 DEF OneCreation
    <3>2. CASE Paid = {}
      <4>1. Cardinality(Paid) = 0
        BY <3>2, FS_EmptySet
      <4>2. QED
        BY <4>1
    <3>3. CASE Paid # {} /\ ~ strayed
      <4>1. PICK i \in Paid : TRUE
        BY <3>3
      <4>2. Paid = {i}
        BY <3>1, <3>3, <4>1
      <4>3. Cardinality(Paid) = 1
        BY <4>2, FS_Singleton
      <4>4. QED
        BY <4>3
    <3>4. QED
      BY <3>2, <3>3
  <2>3. QED
    BY <2>1, <2>2 DEF PoolsAreReal, IsReal
<1>2. QED
  BY PoolInvInit, PoolInvStep, <1>1, PTL DEF PoolSpec

-----------------------------------------------------------------------------
RecPending(r) == \E c \in RecCall : recCall[c].pc = "answered" /\ r \in Items(recCall[c])

(* A row as mail setup leaves it says nothing of proxied.                  *)
AsThere(row, there, byMail) ==
  row = IF byMail THEN [there EXCEPT !.proxied = row.proxied] ELSE there

RowAfter(x, row, r) ==
  IF r = x.make THEN x.made
  ELSE IF r = x.drop THEN NoValue
  ELSE IF r = x.change /\ row # NoValue
  THEN IF x.step = 0 THEN x.changed ELSE [row EXCEPT !.content = x.content]
  ELSE row

(* A call that alone works on a record finds it at Cloudflare as it is in  *)
(* the rows, or has done there what it will write.                         *)
RecCallKnows(c) ==
  LET x == recCall[c] IN
  IF x.pc = "idle" THEN x = NoRecCall
  ELSE /\ x.pc = "list" => Items(x) = {}
       /\ x.step > 0 => x.content \in Content /\ NoRec \in {x.make, x.change}
       /\ \A r \in Items(x) \ tangled :
            /\ \A d \in RecCall : r \in Items(recCall[d]) => c = d
            /\ zone.row /\ zone.cf =>
                 /\ x.pc = "ask" /\ x.step > 0 /\ r = x.change => cfRec[r].name = MailKinds[x.step]
                 /\ x.pc = "answered" =>
                      AsThere(RowAfter(x, recRow[r], r), cfRec[r], x.step > 0 /\ r = x.change)

RowSame(r) == zone.row /\ zone.cf /\ r \notin tangled /\ ~ RecPending(r) => SameRecord(r)

(* A mail setup has seen all records of the kind it is at.                 *)
FindsAll(c) ==
  recCall[c].step > 0 /\ recCall[c].pc = "ask" =>
    \A r \in Rec : IsOf(cfRec[r], MailKinds[recCall[c].step]) =>
                     r \in {recCall[c].make, recCall[c].change}

MailOnce ==
  ~ doubled =>
    /\ \A k \in MailKind : \A r, q \in Rec : IsOf(cfRec[r], k) /\ IsOf(cfRec[q], k) => r = q
    /\ \A c, d \in RecCall : recCall[c].step > 0 /\ recCall[d].step > 0 => c = d
    /\ \A c \in RecCall : FindsAll(c)

RecordsInv ==
  /\ RecordsTypeOK
  /\ \A c \in RecCall : RecCallKnows(c)
  /\ \A r \in Rec : RowSame(r)
  /\ MailOnce

RecCalls ==
  [pc   : {"idle", "list", "ask", "answered", "drop_zone", "zone_dropped"},
   make : Rec \cup {NoRec}, change : Rec \cup {NoRec}, drop : Rec \cup {NoRec},
   made : Value, changed : Value,
   content : MailContent \cup {"none"}, step : 0..Len(MailKinds)]

Real == [name : Kind, content : Content, proxied : BOOLEAN]

LEMMA RecordValues ==
  /\ Value = Real \cup {NoValue} /\ NoValue \in Value /\ ByHand \subseteq Value
  /\ \A v \in Value : v # NoValue <=> v \in Real
  /\ \A v \in Value : v.name = "none" <=> v = NoValue
  /\ \A k \in MailKind : ~ IsOf(NoValue, k)
<1>1. Value = Real \cup {NoValue} /\ NoValue.name = "none"
  BY DEF Value, Real, NoValue
<1>2. \A v \in Real : v.name \in Kind /\ v.name # "none"
  BY RecordsAssumption DEF RecordsAssumption, Real
<1>3. ByHand \subseteq Value
  BY <1>1, RecordsAssumption DEF RecordsAssumption, Real
<1>4. \A k \in MailKind : ~ IsOf(NoValue, k)
  BY <1>1, RecordsAssumption DEF RecordsAssumption, IsOf
<1>5. QED
  BY <1>1, <1>2, <1>3, <1>4

LEMMA RecordTypes ==
  /\ NoRec \notin Rec
  /\ NoRecCall \in RecCalls /\ NoRecCall.pc = "idle" /\ Items(NoRecCall) = {}
  /\ NoRecCall.make = NoRec /\ NoRecCall.change = NoRec /\ NoRecCall.drop = NoRec
  /\ NoRecCall.step = 0 /\ ~ (NoRecCall.step > 0)
  /\ \A x \in RecCalls : Items(x) \subseteq Rec
<1>1. Len(MailKinds) \in Nat \ {0} /\ NoRec \notin Rec
  BY RecordsAssumption DEF RecordsAssumption
<1>2. NoRecCall \in RecCalls
  BY <1>1, RecordValues DEF NoRecCall, RecCalls
<1>3. /\ NoRecCall.make = NoRec /\ NoRecCall.change = NoRec /\ NoRecCall.drop = NoRec
      /\ NoRecCall.step = 0 /\ ~ (NoRecCall.step > 0) /\ NoRecCall.pc = "idle"
  BY DEF NoRecCall
<1>4. Items(NoRecCall) = {}
  BY <1>3 DEF Items
<1>5. \A x \in RecCalls : Items(x) \subseteq Rec
  BY DEF Items, RecCalls
<1>6. QED
  BY <1>1, <1>2, <1>3, <1>4, <1>5

(* What is written of a record is a value, and it is by the call and by    *)
(* the record's row.                                                       *)
LEMMA WrittenValues ==
  ASSUME RecordsTypeOK, NEW x \in RecCalls, x.step > 0 => x.content \in Content
  PROVE  /\ Written(x) \in [Rec -> Value]
         /\ \A r \in Rec : Written(x)[r] = RowAfter(x, recRow[r], r)
         /\ \A r \in Rec \ Items(x) : Written(x)[r] = recRow[r]
<1>1. ASSUME NEW r \in Rec
      PROVE  /\ Written(x)[r] \in Value /\ Written(x)[r] = RowAfter(x, recRow[r], r)
             /\ (r \notin Items(x) => Written(x)[r] = recRow[r])
  <2>1. r # NoRec /\ recRow[r] \in Value /\ NoValue \in Value
    BY RecordTypes, RecordValues DEF RecordsTypeOK
  <2>2. Written(x)[r] = RowAfter(x, recRow[r], r)
    BY DEF Written, Recorded, RowAfter
  <2>3. r \notin Items(x) => Written(x)[r] = recRow[r]
    BY <2>1, <2>2 DEF Items, RowAfter
  <2>4. CASE r # x.make /\ r # x.drop /\ r = x.change /\ recRow[r] # NoValue /\ x.step # 0
    <3>1. recRow[r] \in Real
      BY <2>1, <2>4, RecordValues
    <3>2. x.step > 0
      BY <2>4, RecordsAssumption DEF RecordsAssumption, RecCalls
    <3>3. Written(x)[r] = [recRow[r] EXCEPT !.content = x.content]
      BY <2>2, <2>4 DEF RowAfter
    <3>4. Written(x)[r] \in Real
      BY <3>1, <3>2, <3>3 DEF Real
    <3>5. QED
      BY <2>2, <2>3, <3>4, RecordValues
  <2>5. CASE ~ (r # x.make /\ r # x.drop /\ r = x.change /\ recRow[r] # NoValue /\ x.step # 0)
    <3>1. x.made \in Value /\ x.changed \in Value
      BY DEF RecCalls
    <3>2. QED
      BY <2>1, <2>2, <2>3, <2>5, <3>1 DEF RowAfter
  <2>6. QED
    BY <2>4, <2>5
<1>2. QED
  BY <1>1 DEF Written

LEMMA RecordsInvInit == RecordsInit => RecordsInv
<1> SUFFICES ASSUME RecordsInit PROVE RecordsInv
  OBVIOUS
<1>1. /\ \A c \in RecCall : recCall[c] = NoRecCall /\ recCall[c].pc = "idle"
      /\ recRow = cfRec /\ unproxied = {} /\ \A r \in Rec : cfRec[r] = NoValue
  BY RecordTypes DEF RecordsInit
<1>2. RecordsTypeOK
  <2>1. recCall \in [RecCall -> RecCalls]
    BY RecordTypes DEF RecordsInit
  <2>2. recRow \in [Rec -> Value] /\ cfRec \in [Rec -> Value]
    BY RecordValues DEF RecordsInit
  <2>3. recCalls \in 0..RecLimit /\ tangled \subseteq Rec /\ unproxied \subseteq Rec
    BY RecordsAssumption DEF RecordsAssumption, RecordsInit
  <2>4. zone \in [row : BOOLEAN, cf : BOOLEAN]
    BY Zenon DEF RecordsInit
  <2>5. doubled \in BOOLEAN
    BY Zenon DEF RecordsInit
  <2>6. QED
    BY <2>1, <2>2, <2>3, <2>4, <2>5 DEF RecordsTypeOK, RecCalls
<1>3. \A c \in RecCall : RecCallKnows(c)
  BY <1>1 DEF RecCallKnows
<1>4. \A r \in Rec : RowSame(r)
  BY <1>1 DEF RowSame, SameRecord
<1>5. MailOnce
  <2>1. \A r \in Rec, k \in MailKind : ~ IsOf(cfRec[r], k)
    BY <1>1, RecordValues
  <2>2. \A c \in RecCall : ~ (recCall[c].step > 0)
    BY <1>1, RecordTypes
  <2>3. QED
    BY <2>1, <2>2 DEF MailOnce, FindsAll
<1>6. QED
  BY <1>2, <1>3, <1>4, <1>5 DEF RecordsInv

(* A step of one call touches its own records, and others' only where they *)
(* are tangled.                                                            *)
LEMMA RecElsewhere ==
  ASSUME RecordsInv, RecordsTypeOK', NEW c \in RecCall,
         \A d \in RecCall \ {c} : recCall'[d] = recCall[d],
         tangled \subseteq tangled',
         zone'.row => zone.row, zone'.cf => zone.cf,
         \A r \in Items(recCall'[c]) \ tangled' : \A d \in RecCall \ {c} : r \notin Items(recCall[d]),
         zone'.row /\ zone'.cf =>
           \A r \in Rec \ Items(recCall[c]) :
             recRow'[r] = recRow[r] /\ cfRec'[r] = cfRec[r] /\ (r \in unproxied' <=> r \in unproxied)
  PROVE  /\ \A d \in RecCall \ {c} : RecCallKnows(d)'
         /\ \A r \in Rec \ (Items(recCall[c]) \cup Items(recCall'[c])) : RowSame(r)'
<1>1. \A d \in RecCall : recCall[d] \in RecCalls
  BY DEF RecordsInv, RecordsTypeOK, RecCalls
<1>2. ASSUME NEW d \in RecCall \ {c} PROVE RecCallKnows(d)'
  <2>1. RecCallKnows(d) /\ recCall'[d] = recCall[d]
    BY DEF RecordsInv
  <2>2. CASE recCall[d].pc = "idle"
    BY <2>1, <2>2 DEF RecCallKnows
  <2>3. CASE recCall[d].pc # "idle"
    <3> DEFINE x == recCall[d]
    <3>1. PICK y : y = x
      OBVIOUS
    <3>2. ASSUME NEW r \in Items(y) \ tangled'
          PROVE  /\ \A e \in RecCall : r \in Items(recCall'[e]) => d = e
                 /\ zone'.row /\ zone'.cf =>
                      /\ y.pc = "ask" /\ y.step > 0 /\ r = y.change =>
                           cfRec'[r].name = MailKinds[y.step]
                      /\ y.pc = "answered" =>
                           AsThere(RowAfter(y, recRow'[r], r), cfRec'[r], y.step > 0 /\ r = y.change)
      <4>1. \A e \in RecCall : r \in Items(recCall[e]) => d = e
        BY <2>1, <2>3, <3>1, <3>2 DEF RecCallKnows
      <4>2. r \in Rec /\ r \notin Items(recCall[c])
        BY <1>1, <3>1, <4>1, RecordTypes
      <4>3. \A e \in RecCall : r \in Items(recCall'[e]) => d = e
        BY <3>1, <4>1
      <4>4. ASSUME zone'.row, zone'.cf
            PROVE  /\ y.pc = "ask" /\ y.step > 0 /\ r = y.change =>
                        cfRec'[r].name = MailKinds[y.step]
                   /\ y.pc = "answered" =>
                        AsThere(RowAfter(y, recRow'[r], r), cfRec'[r], y.step > 0 /\ r = y.change)
        <5>1. recRow'[r] = recRow[r] /\ cfRec'[r] = cfRec[r]
          BY <4>2, <4>4
        <5>2. /\ y.pc = "ask" /\ y.step > 0 /\ r = y.change => cfRec[r].name = MailKinds[y.step]
              /\ y.pc = "answered" => AsThere(RowAfter(y, recRow[r], r), cfRec[r], y.step > 0 /\ r = y.change)
          BY <2>1, <2>3, <3>1, <3>2, <4>4 DEF RecCallKnows
        <5>3. QED
          BY <5>1, <5>2
      <4>5. QED
        BY <4>3, <4>4
    <3>3. recCall'[d] = y /\ y.pc # "idle"
      BY <2>1, <2>3, <3>1
    <3>4. (y.pc = "list" => Items(y) = {}) /\
          (y.step > 0 => y.content \in Content /\ NoRec \in {y.make, y.change})
      BY <2>1, <2>3, <3>1 DEF RecCallKnows
    <3>5. QED
      BY <3>2, <3>3, <3>4 DEF RecCallKnows
  <2>4. QED
    BY <2>2, <2>3
<1>3. ASSUME NEW r \in Rec \ (Items(recCall[c]) \cup Items(recCall'[c])) PROVE RowSame(r)'
  <2>1. RecPending(r) => RecPending(r)'
    BY DEF RecPending
  <2>2. QED
    BY <2>1 DEF RecordsInv, RowSame, SameRecord
<1>4. QED
  BY <1>2, <1>3

LEMMA AskInv ==
  ASSUME RecordsInv, NEW c \in RecCall, NEW x \in RecCalls, Ask(c, x),
         x.pc \in {"list", "ask", "drop_zone"}, x.pc = "list" => Items(x) = {},
         x.step > 0 => x.content \in Content /\ x.pc = "list",
         doubled' \in BOOLEAN, doubled => doubled',
         x.step > 0 /\ ~ doubled' => \A d \in RecCall : ~ (recCall[d].step > 0)
  PROVE  RecordsInv'
<1>1. /\ RecordsTypeOK /\ MailOnce /\ RecCallKnows(c)
      /\ recCall[c].pc = "idle" /\ recCall[c] = NoRecCall
      /\ UNCHANGED <<zone, recRow, cfRec, unproxied>>
  BY DEF RecordsInv, Ask, MayAsk, RecCallKnows
<1>2. recCall'[c] = x /\ \A d \in RecCall \ {c} : recCall'[d] = recCall[d]
  BY <1>1 DEF Ask, RecordsTypeOK
<1>3. Items(recCall[c]) = {} /\ Items(x) \subseteq Rec
  BY <1>1, RecordTypes
<1>4. RecordsTypeOK'
  <2>1. recCall' \in [RecCall -> RecCalls]
    BY <1>1 DEF Ask, RecordsTypeOK, RecCalls
  <2>2. recCalls' \in 0..RecLimit
    BY <1>1, RecordsAssumption DEF RecordsAssumption, Ask, MayAsk, RecordsTypeOK
  <2>3. tangled' \subseteq Rec
    BY <1>1, <1>3 DEF Ask, RecordsTypeOK
  <2>4. QED
    BY <1>1, <2>1, <2>2, <2>3 DEF RecordsTypeOK, RecCalls
<1>5. tangled \subseteq tangled' /\ \A r \in Items(x) \ tangled' : ~ InWork(r)
  BY DEF Ask
<1>6. \A r \in Items(x) \ tangled' : \A d \in RecCall \ {c} : r \notin Items(recCall[d])
  <2> SUFFICES ASSUME NEW r \in Items(x) \ tangled', NEW d \in RecCall \ {c}
               PROVE  r \notin Items(recCall[d])
    OBVIOUS
  <2>1. recCall[d].pc = "idle" => Items(recCall[d]) = {}
    BY RecordTypes DEF RecordsInv, RecCallKnows
  <2>2. QED
    BY <1>5, <2>1 DEF InWork
<1>7. (\A d \in RecCall \ {c} : RecCallKnows(d)') /\ (\A r \in Rec \ Items(x) : RowSame(r)')
  BY <1>1, <1>2, <1>3, <1>4, <1>5, <1>6, RecElsewhere
<1>8. RecCallKnows(c)'
  <2>1. x.pc # "idle" /\ x.pc # "answered" /\ ~ (x.pc = "ask" /\ x.step > 0)
    OBVIOUS
  <2>2. x.step > 0 => NoRec \in {x.make, x.change}
    <3>1. x.make \in Rec \cup {NoRec}
      BY DEF RecCalls
    <3>2. QED
      BY <3>1 DEF Items
  <2>3. QED
    BY <1>2, <1>6, <2>1, <2>2 DEF RecCallKnows
<1>9. \A r \in Rec : RowSame(r)'
  <2>1. \A r \in Rec : RecPending(r) => RecPending(r)'
    BY <1>1, <1>2 DEF RecPending
  <2>2. QED
    BY <1>1, <1>5, <2>1 DEF RecordsInv, RowSame, SameRecord
<1>10. MailOnce'
  <2> SUFFICES ASSUME ~ doubled' PROVE MailOnce'
    BY DEF MailOnce
  <2>1. ~ doubled /\ ~ (x.step > 0 /\ x.pc = "ask")
    OBVIOUS
  <2>2. \A k \in MailKind : \A r, q \in Rec : IsOf(cfRec'[r], k) /\ IsOf(cfRec'[q], k) => r = q
    BY <1>1, <2>1 DEF MailOnce
  <2>3. \A d, e \in RecCall : recCall'[d].step > 0 /\ recCall'[e].step > 0 => d = e
    BY <1>1, <1>2, <2>1 DEF MailOnce
  <2>4. ASSUME NEW d \in RecCall PROVE FindsAll(d)'
    BY <1>1, <1>2, <2>1 DEF MailOnce, FindsAll, IsOf
  <2>5. QED
    BY <2>2, <2>3, <2>4 DEF MailOnce, IsOf
<1>11. QED
  BY <1>4, <1>7, <1>8, <1>9, <1>10 DEF RecordsInv

(* A setup finds the record of its kind, or makes one where there is none. *)
LEMMA MailFindsInv ==
  ASSUME RecordsInv, NEW c \in RecCall, MailFinds(c)
  PROVE  RecordsInv'
<1>1. /\ RecordsTypeOK /\ MailOnce /\ RecCallKnows(c) /\ recCall[c].step > 0
      /\ recCall[c].pc = "list" /\ UNCHANGED <<zone, recRow, cfRec, recCalls, unproxied, doubled>>
  BY DEF RecordsInv, MailFinds, SetUp
<1>2. /\ Items(recCall[c]) = {} /\ recCall[c].content \in Content /\ recCall[c] \in RecCalls
      /\ recCall[c].make = NoRec /\ recCall[c].change = NoRec /\ recCall[c].drop = NoRec
  BY <1>1 DEF RecCallKnows, Items, RecordsTypeOK, RecCalls
<1>3. PICK k \in MailKind : k = MailKinds[recCall[c].step]
  BY <1>1, <1>2, RecordsAssumption DEF RecordsAssumption, MailKind, RecCalls
<1>4. PICK r \in Rec, x \in RecCalls :
        /\ x.pc = "ask" /\ x.step = recCall[c].step /\ x.content = recCall[c].content
        /\ Items(x) = {r} /\ r \in {x.make, x.change} /\ NoRec \in {x.make, x.change}
        /\ recCall' = [recCall EXCEPT ![c] = x]
        /\ tangled' = IF InWork(r) THEN tangled \cup {r} ELSE tangled
        /\ r = x.change => IsOf(cfRec[r], k)
        /\ r = x.make => \A q \in Rec : ~ IsOf(cfRec[q], k)
  <2>1. CASE \E r \in OfKind(c) :
               /\ recCall' = [recCall EXCEPT ![c] = [@ EXCEPT !.pc = "ask", !.change = r]]
               /\ tangled' = IF InWork(r) THEN tangled \cup {r} ELSE tangled
    <3>1. PICK r \in OfKind(c) :
            /\ recCall' = [recCall EXCEPT ![c] = [@ EXCEPT !.pc = "ask", !.change = r]]
            /\ tangled' = IF InWork(r) THEN tangled \cup {r} ELSE tangled
      BY <2>1
    <3> DEFINE x == [recCall[c] EXCEPT !.pc = "ask", !.change = r]
    <3>2. r \in Rec /\ r # NoRec /\ IsOf(cfRec[r], k)
      BY <1>3, <3>1, RecordTypes DEF OfKind
    <3>3. /\ x \in RecCalls /\ x.pc = "ask" /\ x.step = recCall[c].step
          /\ x.content = recCall[c].content /\ x.change = r /\ x.make = NoRec /\ x.drop = NoRec
      BY <1>2, <3>2 DEF RecCalls
    <3>4. recCall' = [recCall EXCEPT ![c] = x]
      BY <1>1, <3>1 DEF RecordsTypeOK
    <3> HIDE DEF x
    <3>5. Items(x) = {r} /\ r # x.make
      BY <3>2, <3>3 DEF Items
    <3>6. QED
      BY <3>1, <3>2, <3>3, <3>4, <3>5
  <2>2. CASE /\ OfKind(c) = {} /\ UNCHANGED tangled
             /\ \E r \in Rec :
                  /\ Fresh(r)
                  /\ recCall' = [recCall EXCEPT ![c] = [@ EXCEPT !.pc = "ask", !.make = r]]
    <3>1. PICK r \in Rec :
            /\ Fresh(r)
            /\ recCall' = [recCall EXCEPT ![c] = [@ EXCEPT !.pc = "ask", !.make = r]]
      BY <2>2
    <3> DEFINE x == [recCall[c] EXCEPT !.pc = "ask", !.make = r]
    <3>2. r # NoRec /\ ~ InWork(r) /\ \A q \in Rec : ~ IsOf(cfRec[q], k)
      BY <1>3, <2>2, <3>1, RecordTypes DEF OfKind, Fresh, Unused
    <3>3. /\ x \in RecCalls /\ x.pc = "ask" /\ x.step = recCall[c].step
          /\ x.content = recCall[c].content /\ x.make = r /\ x.change = NoRec /\ x.drop = NoRec
      BY <1>2, <3>2 DEF RecCalls
    <3>4. recCall' = [recCall EXCEPT ![c] = x]
      BY <1>1, <3>1 DEF RecordsTypeOK
    <3> HIDE DEF x
    <3>5. Items(x) = {r} /\ r # x.change
      BY <3>2, <3>3 DEF Items
    <3>6. tangled' = IF InWork(r) THEN tangled \cup {r} ELSE tangled
      BY <2>2, <3>2
    <3>7. QED
      BY <3>2, <3>3, <3>4, <3>5, <3>6
  <2>3. QED
    BY <2>1, <2>2 DEF MailFinds, SetUp
<1>5. recCall'[c] = x /\ \A d \in RecCall \ {c} : recCall'[d] = recCall[d]
  BY <1>1, <1>4 DEF RecordsTypeOK
<1>6. RecordsTypeOK'
  <2>1. recCall' \in [RecCall -> RecCalls]
    BY <1>1, <1>4 DEF RecordsTypeOK, RecCalls
  <2>2. tangled' \subseteq Rec
    BY <1>1, <1>4 DEF RecordsTypeOK
  <2>3. QED
    BY <1>1, <2>1, <2>2 DEF RecordsTypeOK, RecCalls
<1>7. r \notin tangled' => \A d \in RecCall \ {c} : r \notin Items(recCall[d])
  <2> SUFFICES ASSUME r \notin tangled', NEW d \in RecCall \ {c} PROVE r \notin Items(recCall[d])
    OBVIOUS
  <2>1. recCall[d].pc = "idle" => Items(recCall[d]) = {}
    BY RecordTypes DEF RecordsInv, RecCallKnows
  <2>2. QED
    BY <1>4, <2>1 DEF InWork
<1>8. tangled \subseteq tangled'
  BY <1>4
<1>9. \A d \in RecCall \ {c} : RecCallKnows(d)'
  BY <1>1, <1>4, <1>5, <1>6, <1>7, <1>8, RecElsewhere
<1>10. RecCallKnows(c)'
  <2>1. r = x.change => cfRec'[r].name = MailKinds[x.step]
    BY <1>1, <1>3, <1>4 DEF IsOf
  <2>2. QED
    BY <1>2, <1>4, <1>5, <1>7, <2>1 DEF RecCallKnows
<1>11. \A q \in Rec : RowSame(q)'
  <2>1. \A q \in Rec : RecPending(q) => RecPending(q)'
    BY <1>1, <1>5 DEF RecPending
  <2>2. QED
    BY <1>1, <1>8, <2>1 DEF RecordsInv, RowSame, SameRecord
<1>12. MailOnce'
  <2> SUFFICES ASSUME ~ doubled PROVE MailOnce'
    BY <1>1 DEF MailOnce
  <2>1. \A d, e \in RecCall : recCall'[d].step > 0 /\ recCall'[e].step > 0 => d = e
    BY <1>1, <1>4, <1>5 DEF MailOnce
  <2>2. \A q \in Rec : IsOf(cfRec'[q], k) => q \in {x.make, x.change}
    BY <1>1, <1>4 DEF MailOnce
  <2>3. ASSUME NEW d \in RecCall PROVE FindsAll(d)'
    <3>1. CASE d = c
      BY <1>3, <1>4, <1>5, <2>2, <3>1 DEF FindsAll, IsOf
    <3>2. CASE d # c
      BY <1>1, <1>5, <3>2 DEF MailOnce, FindsAll, IsOf
    <3>3. QED
      BY <3>1, <3>2
  <2>4. QED
    BY <1>1, <2>1, <2>3 DEF MailOnce, IsOf
<1>13. QED
  BY <1>6, <1>9, <1>10, <1>11, <1>12 DEF RecordsInv

(* What Cloudflare does with a request is what will be written, but for    *)
(* deletions it leaves undone.                                             *)
LEMMA DoneInv ==
  ASSUME RecordsInv, NEW c \in RecCall, zone.cf, NEW x \in RecCalls, x = recCall[c], x.pc = "ask",
         NEW make \in {x.make, NoRec}, NEW change \in {x.change, NoRec},
         NEW drop \in {x.drop, NoRec}, NEW made \in Wanted(x, make),
         NEW changed \in Wanted(x, change), Done(c, make, change, drop, made, changed),
         UNCHANGED <<zone, recRow, recCalls, unproxied>>
  PROVE  RecordsInv'
<1>1. /\ RecordsTypeOK /\ MailOnce /\ RecCallKnows(c)
      /\ make \in Rec \cup {NoRec} /\ change \in Rec \cup {NoRec} /\ drop \in Rec \cup {NoRec}
  BY DEF RecordsInv, RecCalls
<1>2. /\ x.step > 0 => x.content \in Content /\ NoRec \in {x.make, x.change}
      /\ \A r \in Items(x) \ tangled : \A d \in RecCall \ {c} : r \notin Items(recCall[d])
  BY <1>1 DEF RecCallKnows
<1>3. PICK k : k = MailKinds[x.step]
  OBVIOUS
<1>4. x.step > 0 => k \in MailKind /\ k \in Kind
  BY <1>3, RecordsAssumption DEF RecordsAssumption, MailKind, RecCalls
<1>5. x.step \in Nat
  BY RecordsAssumption DEF RecordsAssumption, RecCalls
<1>6. /\ x.step > 0 /\ make # NoRec => made = [name |-> k, content |-> x.content, proxied |-> FALSE]
      /\ x.step > 0 /\ change # NoRec =>
           changed = [name |-> k, content |-> x.content, proxied |-> FALSE]
      /\ make = NoRec => made = NoValue
      /\ change = NoRec => changed = NoValue
      /\ made \in Value /\ changed \in Value
  <2>1. PICK v : v = [name |-> k, content |-> x.content, proxied |-> FALSE]
    OBVIOUS
  <2>2. x.step > 0 => v \in Value
    BY <1>2, <1>4, <2>1 DEF Value
  <2>3. \A r : Wanted(x, r) = IF r = NoRec THEN {NoValue} ELSE IF x.step = 0 THEN ByHand ELSE {v}
    BY <1>3, <2>1 DEF Wanted
  <2>4. /\ make = NoRec => made = NoValue
        /\ change = NoRec => changed = NoValue
        /\ x.step = 0 /\ make # NoRec => made \in ByHand
        /\ x.step = 0 /\ change # NoRec => changed \in ByHand
        /\ x.step > 0 /\ make # NoRec => made = v
        /\ x.step > 0 /\ change # NoRec => changed = v
    BY <1>5, <2>3
  <2>5. made \in Value /\ changed \in Value
    <3>1. NoValue \in Value /\ ByHand \subseteq Value
      BY RecordValues
    <3>2. x.step = 0 \/ x.step > 0
      BY <1>5
    <3>3. QED
      BY <2>2, <2>4, <3>1, <3>2
  <2>6. QED
    BY <2>1, <2>4, <2>5
<1>7. PICK y \in RecCalls :
        /\ recCall' = [recCall EXCEPT ![c] = y]
        /\ y.pc = "answered" /\ y.make = make /\ y.change = change /\ y.drop = x.drop
        /\ y.made = made /\ y.changed = changed /\ y.content = x.content /\ y.step = x.step
  <2> DEFINE y == [x EXCEPT !.pc = "answered", !.make = make, !.change = change,
                            !.made = made, !.changed = changed]
  <2>1. recCall' = [recCall EXCEPT ![c] = y]
    BY <1>1 DEF Done, RecordsTypeOK
  <2>2. /\ y \in RecCalls /\ y.pc = "answered" /\ y.make = make /\ y.change = change
        /\ y.drop = x.drop /\ y.made = made /\ y.changed = changed /\ y.content = x.content
        /\ y.step = x.step
    BY <1>1, <1>6 DEF RecCalls
  <2> HIDE DEF y
  <2>3. QED
    BY <2>1, <2>2
<1>8. recCall'[c] = y /\ \A d \in RecCall \ {c} : recCall'[d] = recCall[d]
  BY <1>1, <1>7 DEF RecordsTypeOK
<1>9. Items(y) \subseteq Items(x) /\ Items(x) \subseteq Rec
  BY <1>7, RecordTypes DEF Items
<1>10. /\ \A r \in Rec : cfRec'[r] = IF r = make THEN made ELSE IF r = change THEN changed
                                    ELSE IF r = drop THEN NoValue ELSE cfRec[r]
       /\ \A r \in {change, drop} \ {NoRec} : cfRec[r] # NoValue
       /\ change # NoRec => change # drop
       /\ tangled' = tangled \cup ({x.drop} \ {drop, NoRec})
  BY DEF Done
<1>11. \A r \in Rec \ Items(y) : cfRec'[r] = cfRec[r]
  <2> SUFFICES ASSUME NEW r \in Rec \ Items(y) PROVE cfRec'[r] = cfRec[r]
    OBVIOUS
  <2>1. r # NoRec /\ r # make /\ r # change /\ r # drop
    BY <1>7, RecordTypes DEF Items
  <2>2. QED
    BY <1>10, <2>1
<1>12. RecordsTypeOK'
  <2>1. recCall' \in [RecCall -> RecCalls]
    BY <1>1, <1>7 DEF RecordsTypeOK, RecCalls
  <2>2. cfRec' \in [Rec -> Value]
    BY <1>1, <1>6, RecordValues DEF Done, RecordsTypeOK
  <2>3. tangled' \subseteq Rec
    BY <1>1, <1>10 DEF RecordsTypeOK, RecCalls
  <2>4. doubled' \in BOOLEAN
    BY <1>1, Zenon DEF Done, RecordsTypeOK
  <2>5. QED
    BY <1>1, <2>1, <2>2, <2>3, <2>4 DEF RecordsTypeOK, RecCalls
<1>13. tangled \subseteq tangled'
  BY <1>10
<1>14. \A r \in Items(y) \ tangled' : \A d \in RecCall \ {c} : r \notin Items(recCall[d])
  BY <1>2, <1>9, <1>13
<1>15. (\A d \in RecCall \ {c} : RecCallKnows(d)') /\ (\A r \in Rec \ Items(x) : RowSame(r)')
  BY <1>8, <1>9, <1>11, <1>12, <1>13, <1>14, RecElsewhere
<1>16. ASSUME NEW r \in Items(x) \ tangled, zone.row PROVE SameRecord(r)
  <2>1. r \in Rec /\ ~ RecPending(r)
    BY <1>2, <1>9 DEF RecPending
  <2>2. QED
    BY <1>16, <2>1 DEF RecordsInv, RowSame
<1>17. ASSUME NEW r \in Items(y) \ tangled', zone.row
       PROVE  AsThere(RowAfter(y, recRow[r], r), cfRec'[r], y.step > 0 /\ r = y.change)
  <2>1. r \in Rec /\ r # NoRec /\ r \in Items(x) \ tangled
    BY <1>9, <1>13, RecordTypes
  <2>2. r = x.drop => drop = x.drop
    BY <1>10, <2>1
  <2>3. CASE r = make
    <3>1. ~ (y.step > 0 /\ r = y.change)
      BY <1>2, <1>7, <2>1, <2>3
    <3>2. QED
      BY <1>7, <1>10, <2>1, <2>3, <3>1 DEF AsThere, RowAfter
  <2>4. CASE r # make /\ r = x.drop
    BY <1>7, <1>10, <2>1, <2>2, <2>4 DEF AsThere, RowAfter
  <2>5. CASE r # make /\ r # x.drop
    <3>1. r = change /\ r = x.change /\ r # drop
      BY <1>7, <2>1, <2>5 DEF Items
    <3>2. recRow[r] \in Value /\ cfRec[r] \in Value /\ cfRec[r] # NoValue
      BY <1>1, <1>10, <2>1, <3>1 DEF RecordsTypeOK
    <3>3. recRow[r].name = cfRec[r].name
      <4>1. cfRec[r] \in Real
        BY <3>2, RecordValues
      <4>2. [cfRec[r] EXCEPT !.proxied = recRow[r].proxied].name = cfRec[r].name
        BY <4>1 DEF Real
      <4>3. QED
        BY <1>16, <1>17, <2>1, <4>2 DEF SameRecord
    <3>4. recRow[r] # NoValue /\ recRow[r] \in Real
      BY <3>2, <3>3, RecordValues
    <3>5. cfRec'[r] = changed
      BY <1>10, <2>1, <2>5, <3>1
    <3>6. CASE x.step = 0
      BY <1>7, <2>5, <3>1, <3>4, <3>5, <3>6 DEF AsThere, RowAfter
    <3>7. CASE x.step > 0
      <4>1. cfRec[r].name = k
        BY <1>1, <1>3, <1>17, <2>1, <3>1, <3>7 DEF RecCallKnows
      <4>2. PICK b \in BOOLEAN, z \in Content :
              recRow[r] = [name |-> k, content |-> z, proxied |-> b]
        BY <3>3, <3>4, <4>1 DEF Real
      <4>3. RowAfter(y, recRow[r], r) = [name |-> k, content |-> x.content, proxied |-> b]
        BY <1>7, <2>5, <3>1, <3>4, <3>7, <4>2 DEF RowAfter
      <4>4. cfRec'[r] = [name |-> k, content |-> x.content, proxied |-> FALSE]
        BY <1>6, <2>1, <3>1, <3>5, <3>7
      <4>5. y.step > 0 /\ r = y.change
        BY <1>7, <3>1, <3>7
      <4>6. QED
        BY <4>3, <4>4, <4>5 DEF AsThere
    <3>8. QED
      BY <1>5, <3>6, <3>7
  <2>6. QED
    BY <2>3, <2>4, <2>5
<1>18. RecCallKnows(c)'
  <2>1. \A r \in Items(y) \ tangled' : \A d \in RecCall : r \in Items(recCall'[d]) => c = d
    BY <1>8, <1>14
  <2>2. y.step > 0 => y.content \in Content /\ NoRec \in {y.make, y.change}
    BY <1>2, <1>7
  <2>3. QED
    BY <1>7, <1>8, <1>17, <2>1, <2>2 DEF RecCallKnows
<1>19. \A r \in Rec : RowSame(r)'
  <2>1. ASSUME NEW r \in Items(x), zone.row, r \notin tangled', ~ RecPending(r)' PROVE SameRecord(r)'
    <3>1. r \notin Items(y) /\ r \in Rec
      BY <1>7, <1>8, <1>9, <2>1 DEF RecPending
    <3>2. SameRecord(r) /\ cfRec'[r] = cfRec[r]
      BY <1>11, <1>13, <1>16, <2>1, <3>1
    <3>3. QED
      BY <3>2 DEF SameRecord
  <2>2. QED
    BY <1>15, <2>1 DEF RowSame
<1>20. MailOnce'
  <2> SUFFICES ASSUME ~ doubled' PROVE MailOnce'
    BY DEF MailOnce
  <2>1. /\ ~ doubled
        /\ x.step = 0 => \A l \in MailKind :
             ~ IsOf(made, l) /\ (IsOf(changed, l) => IsOf(cfRec[change], l))
    BY DEF Done
  <2>2. /\ \A l \in MailKind : \A r, q \in Rec : IsOf(cfRec[r], l) /\ IsOf(cfRec[q], l) => r = q
        /\ \A d, e \in RecCall : recCall[d].step > 0 /\ recCall[e].step > 0 => d = e
        /\ \A d \in RecCall : FindsAll(d)
    BY <1>1, <2>1 DEF MailOnce
  <2>3. ASSUME NEW l \in MailKind, NEW r \in Rec, IsOf(cfRec'[r], l), ~ IsOf(cfRec[r], l)
        PROVE  x.step > 0 /\ l = k /\ r \in {x.make, x.change}
    <3>1. cfRec'[r] # NoValue /\ r # NoRec
      BY <2>3, RecordTypes, RecordValues
    <3>2. (r = make /\ cfRec'[r] = made) \/ (r = change /\ cfRec'[r] = changed)
      BY <1>10, <2>3, <3>1
    <3>3. x.step > 0
      BY <1>5, <2>1, <2>3, <3>2
    <3>4. cfRec'[r].name = k
      BY <1>6, <3>1, <3>2, <3>3
    <3>5. QED
      BY <2>3, <3>1, <3>2, <3>3, <3>4 DEF IsOf
  <2>4. x.step > 0 => \A r \in Rec : IsOf(cfRec[r], k) => r \in {x.make, x.change}
    BY <1>3, <2>2 DEF FindsAll
  <2>5. ASSUME NEW l \in MailKind, NEW r \in Rec, NEW q \in Rec,
               IsOf(cfRec'[r], l), IsOf(cfRec'[q], l)
        PROVE  r = q
    <3>1. CASE IsOf(cfRec[r], l) /\ IsOf(cfRec[q], l)
      BY <2>2, <3>1
    <3>2. CASE ~ IsOf(cfRec[r], l) \/ ~ IsOf(cfRec[q], l)
      <4>1. x.step > 0 /\ l = k
        BY <2>3, <2>5, <3>2
      <4>2. r \in {x.make, x.change} \ {NoRec} /\ q \in {x.make, x.change} \ {NoRec}
        BY <2>3, <2>4, <2>5, <4>1, RecordTypes
      <4>3. QED
        BY <1>2, <4>1, <4>2
    <3>3. QED
      BY <3>1, <3>2
  <2>6. \A d, e \in RecCall : recCall'[d].step > 0 /\ recCall'[e].step > 0 => d = e
    BY <1>7, <1>8, <2>2
  <2>7. ASSUME NEW d \in RecCall PROVE FindsAll(d)'
    <3>1. CASE d = c
      BY <1>7, <1>8, <3>1 DEF FindsAll
    <3>2. CASE d # c /\ recCall[d].step > 0
      <4>1. PICK m \in MailKind : m = MailKinds[recCall[d].step]
        BY <1>1, <3>2, RecordsAssumption DEF RecordsAssumption, MailKind, RecordsTypeOK
      <4>2. ~ (x.step > 0)
        BY <2>2, <3>2
      <4>3. \A r \in Rec : IsOf(cfRec'[r], m) => IsOf(cfRec[r], m)
        BY <2>3, <4>2
      <4>4. recCall[d].pc = "ask" =>
              \A r \in Rec : IsOf(cfRec'[r], m) => r \in {recCall[d].make, recCall[d].change}
        BY <2>2, <3>2, <4>1, <4>3 DEF FindsAll
      <4>5. QED
        BY <1>8, <3>2, <4>1, <4>4 DEF FindsAll, IsOf
    <3>3. CASE d # c /\ ~ (recCall[d].step > 0)
      BY <1>8, <3>3 DEF FindsAll
    <3>4. QED
      BY <3>1, <3>2, <3>3
  <2>8. QED
    BY <2>1, <2>5, <2>6, <2>7 DEF MailOnce, IsOf
<1>21. QED
  BY <1>12, <1>15, <1>18, <1>19, <1>20 DEF RecordsInv

(* A deleted zone has no records.                                          *)
LEMMA ZoneDropInv ==
  ASSUME RecordsInv, NEW c \in RecCall, recCall[c].pc = "drop_zone",
         cfRec' = [r \in Rec |-> NoValue], zone' = [zone EXCEPT !.cf = FALSE],
         recCall' = [recCall EXCEPT ![c].pc = "zone_dropped"],
         UNCHANGED <<recRow, recCalls, tangled, unproxied, doubled>>
  PROVE  RecordsInv'
<1>1. RecordsTypeOK /\ MailOnce /\ RecCallKnows(c)
  BY DEF RecordsInv
<1>2. PICK x \in RecCalls : x = recCall[c]
  BY <1>1 DEF RecordsTypeOK, RecCalls
<1>3. PICK y \in RecCalls :
        /\ recCall' = [recCall EXCEPT ![c] = y]
        /\ y.pc = "zone_dropped" /\ y.make = x.make /\ y.change = x.change /\ y.drop = x.drop
        /\ y.content = x.content /\ y.step = x.step
  <2> DEFINE y == [x EXCEPT !.pc = "zone_dropped"]
  <2>1. recCall' = [recCall EXCEPT ![c] = y]
    BY <1>1, <1>2 DEF RecordsTypeOK
  <2>2. /\ y \in RecCalls /\ y.pc = "zone_dropped" /\ y.make = x.make /\ y.change = x.change
        /\ y.drop = x.drop /\ y.content = x.content /\ y.step = x.step
    BY DEF RecCalls
  <2> HIDE DEF y
  <2>3. QED
    BY <2>1, <2>2
<1>4. recCall'[c] = y /\ \A d \in RecCall \ {c} : recCall'[d] = recCall[d]
  BY <1>1, <1>3 DEF RecordsTypeOK
<1>5. Items(y) = Items(x)
  BY <1>3 DEF Items
<1>6. ~ zone'.cf /\ zone'.row = zone.row /\ zone' \in [row : BOOLEAN, cf : BOOLEAN]
  BY <1>1 DEF RecordsTypeOK
<1>7. RecordsTypeOK'
  <2>1. recCall' \in [RecCall -> RecCalls]
    BY <1>1, <1>3 DEF RecordsTypeOK, RecCalls
  <2>2. cfRec' \in [Rec -> Value]
    BY RecordValues
  <2>3. QED
    BY <1>1, <1>6, <2>1, <2>2 DEF RecordsTypeOK, RecCalls
<1>8. \A r \in Items(x) \ tangled : \A d \in RecCall \ {c} : r \notin Items(recCall[d])
  BY <1>1, <1>2 DEF RecCallKnows
<1>9. \A d \in RecCall \ {c} : RecCallKnows(d)'
  BY <1>2, <1>4, <1>5, <1>6, <1>7, <1>8, RecElsewhere
<1>10. RecCallKnows(c)'
  <2>1. \A r \in Items(y) \ tangled : \A d \in RecCall : r \in Items(recCall'[d]) => c = d
    BY <1>4, <1>5, <1>8
  <2>2. y.step > 0 => y.content \in Content /\ NoRec \in {y.make, y.change}
    BY <1>1, <1>2, <1>3 DEF RecCallKnows
  <2>3. QED
    BY <1>3, <1>4, <1>6, <2>1, <2>2 DEF RecCallKnows
<1>11. \A r \in Rec : RowSame(r)'
  BY <1>6 DEF RowSame
<1>12. MailOnce'
  <2> SUFFICES ASSUME ~ doubled PROVE MailOnce'
    BY DEF MailOnce
  <2>1. \A r \in Rec, k \in MailKind : ~ IsOf(cfRec'[r], k)
    BY RecordValues
  <2>2. \A d, e \in RecCall : recCall'[d].step > 0 /\ recCall'[e].step > 0 => d = e
    BY <1>1, <1>2, <1>3, <1>4 DEF MailOnce
  <2>3. ASSUME NEW d \in RecCall PROVE FindsAll(d)'
    <3>1. recCall'[d].step \in 0..Len(MailKinds)
      BY <1>7 DEF RecordsTypeOK
    <3>2. recCall'[d].step > 0 => MailKinds[recCall'[d].step] \in MailKind
      BY <3>1, RecordsAssumption DEF RecordsAssumption, MailKind
    <3>3. QED
      BY <2>1, <3>2 DEF FindsAll, IsOf
  <2>4. QED
    BY <2>1, <2>2, <2>3 DEF MailOnce, IsOf
<1>13. QED
  BY <1>7, <1>9, <1>10, <1>11, <1>12 DEF RecordsInv

LEMMA CfServesInv ==
  ASSUME RecordsInv, NEW c \in RecCall, CfServes(c)
  PROVE  RecordsInv'
<1>1. PICK x \in RecCalls : x = recCall[c]
  BY DEF RecordsInv, RecordsTypeOK, RecCalls
<1>2. zone.cf /\ UNCHANGED <<recRow, recCalls, unproxied>>
  BY DEF CfServes
<1>3. CASE /\ x.pc = "ask" /\ UNCHANGED zone
           /\ \E make \in {x.make, NoRec}, change \in {x.change, NoRec}, drop \in {x.drop, NoRec} :
                \E made \in Wanted(x, make), changed \in Wanted(x, change) :
                  Done(c, make, change, drop, made, changed)
  BY <1>1, <1>2, <1>3, DoneInv
<1>4. CASE /\ x.pc = "drop_zone"
           /\ cfRec' = [r \in Rec |-> NoValue] /\ zone' = [zone EXCEPT !.cf = FALSE]
           /\ recCall' = [recCall EXCEPT ![c].pc = "zone_dropped"]
           /\ UNCHANGED <<tangled, doubled>>
  BY <1>1, <1>2, <1>4, ZoneDropInv
<1>5. QED
  BY <1>1, <1>3, <1>4 DEF CfServes

(* A call that ends, or goes on to the next kind, has written its records, *)
(* or has done nothing, or they are tangled.                               *)
LEMMA RecGoesInv ==
  ASSUME RecordsInv, NEW c \in RecCall, recCall[c].pc # "idle", NextKind(c) \/ EndRecCall(c),
         UNCHANGED <<cfRec, recCalls, doubled>>, recRow' \in [Rec -> Value], unproxied' \subseteq Rec,
         zone' \in [row : BOOLEAN, cf : BOOLEAN],
         zone'.row => zone.row, zone'.cf => zone.cf,
         tangled' = tangled \/ tangled' = tangled \cup Items(recCall[c]),
         zone'.row /\ zone'.cf =>
           /\ \A r \in Rec \ Items(recCall[c]) :
                recRow'[r] = recRow[r] /\ (r \in unproxied' <=> r \in unproxied)
           /\ \A r \in Items(recCall[c]) \ tangled' : SameRecord(r)'
  PROVE  RecordsInv'
<1>1. RecordsTypeOK /\ MailOnce /\ RecCallKnows(c) /\ tangled \subseteq tangled'
  BY DEF RecordsInv
<1>2. PICK x \in RecCalls : x = recCall[c]
  BY <1>1 DEF RecordsTypeOK, RecCalls
<1>3. PICK y \in RecCalls :
        /\ recCall' = [recCall EXCEPT ![c] = y]
        /\ Items(y) = {} /\ y.make = NoRec
        /\ \/ y = NoRecCall
           \/ y.pc = "list" /\ y.step > 0 /\ x.step > 0 /\ y.content = x.content
  <2>1. CASE EndRecCall(c)
    BY <2>1, RecordTypes DEF EndRecCall
  <2>2. CASE NextKind(c) /\ ~ EndRecCall(c)
    <3> DEFINE n == x.step + 1
               y == [NoRecCall EXCEPT !.pc = "list", !.content = x.content, !.step = n]
    <3>1. recCall' = [recCall EXCEPT ![c] = y] /\ x.step \in 1..(Len(MailKinds) - 1)
      BY <1>2, <2>2 DEF NextKind
    <3>2. n \in 0..Len(MailKinds) /\ n > 0 /\ x.step > 0 /\ x.content \in MailContent \cup {"none"}
      BY <3>1, RecordsAssumption DEF RecordsAssumption, RecCalls
    <3> HIDE DEF n
    <3>3. /\ y \in RecCalls /\ y.pc = "list" /\ y.step = n /\ y.content = x.content
          /\ y.make = NoRec /\ y.change = NoRec /\ y.drop = NoRec
      BY <3>2, RecordTypes DEF RecCalls
    <3> HIDE DEF y
    <3>4. Items(y) = {}
      BY <3>3 DEF Items
    <3>5. QED
      BY <3>1, <3>2, <3>3, <3>4
  <2>3. QED
    BY <2>1, <2>2
<1>4. recCall'[c] = y /\ \A d \in RecCall \ {c} : recCall'[d] = recCall[d]
  BY <1>1, <1>3 DEF RecordsTypeOK
<1>5. RecordsTypeOK'
  <2>1. recCall' \in [RecCall -> RecCalls]
    BY <1>1, <1>3 DEF RecordsTypeOK, RecCalls
  <2>2. tangled' \subseteq Rec
    BY <1>1, <1>2, RecordTypes DEF RecordsTypeOK
  <2>3. QED
    BY <1>1, <2>1, <2>2 DEF RecordsTypeOK, RecCalls
<1>6. (\A d \in RecCall \ {c} : RecCallKnows(d)') /\ (\A r \in Rec \ Items(x) : RowSame(r)')
  BY <1>1, <1>2, <1>3, <1>4, <1>5, RecElsewhere
<1>7. RecCallKnows(c)'
  <2>1. y.pc = "list" => y.content \in Content
    BY <1>1, <1>2, <1>3, RecordTypes DEF RecCallKnows
  <2>2. QED
    BY <1>3, <1>4, <2>1, RecordTypes DEF RecCallKnows
<1>8. \A r \in Rec : RowSame(r)'
  BY <1>2, <1>6 DEF RowSame
<1>9. MailOnce'
  <2> SUFFICES ASSUME ~ doubled PROVE MailOnce'
    BY DEF MailOnce
  <2>1. \A d, e \in RecCall : recCall'[d].step > 0 /\ recCall'[e].step > 0 => d = e
    BY <1>1, <1>2, <1>3, <1>4, RecordTypes DEF MailOnce
  <2>2. ~ (y.step > 0 /\ y.pc = "ask")
    BY <1>3, RecordTypes
  <2>3. ASSUME NEW d \in RecCall PROVE FindsAll(d)'
    BY <1>1, <1>4, <2>2 DEF MailOnce, FindsAll, IsOf
  <2>4. QED
    BY <1>1, <2>1, <2>3 DEF MailOnce, IsOf
<1>10. QED
  BY <1>5, <1>6, <1>7, <1>8, <1>9 DEF RecordsInv

LEMMA RecEndsInv ==
  ASSUME RecordsInv, NEW c \in RecCall,
         CfRefuses(c) \/ LoseRecords(c) \/ WriteRecords(c) \/ DropZone(c)
  PROVE  RecordsInv'
<1>1. RecordsTypeOK /\ RecCallKnows(c) /\ recCall[c] \in RecCalls /\ Items(recCall[c]) \subseteq Rec
  BY RecordTypes DEF RecordsInv, RecordsTypeOK, RecCalls
<1>2. zone \in [row : BOOLEAN, cf : BOOLEAN] /\ recRow \in [Rec -> Value] /\ unproxied \subseteq Rec
  BY <1>1 DEF RecordsTypeOK
<1>3. CASE CfRefuses(c)
  <2>1. ASSUME NEW r \in Items(recCall[c]) \ tangled, zone.row, zone.cf PROVE SameRecord(r)'
    <3>1. r \in Rec /\ ~ RecPending(r)
      BY <1>1, <1>3, <2>1 DEF RecPending, RecCallKnows, CfRefuses
    <3>2. SameRecord(r)
      BY <2>1, <3>1 DEF RecordsInv, RowSame
    <3>3. QED
      BY <1>3, <3>2 DEF SameRecord, CfRefuses
  <2>2. QED
    BY <1>2, <1>3, <2>1, RecGoesInv DEF CfRefuses
<1>4. CASE LoseRecords(c)
  BY <1>2, <1>4, RecGoesInv DEF LoseRecords
<1>5. CASE WriteRecords(c)
  <2>1. PICK x \in RecCalls : x = recCall[c]
    BY <1>1
  <2>2. /\ x.pc = "answered" /\ x.step > 0 => x.content \in Content
        /\ Written(x) \in [Rec -> Value]
        /\ \A r \in Rec : Written(x)[r] = RowAfter(x, recRow[r], r)
        /\ \A r \in Rec \ Items(x) : Written(x)[r] = recRow[r]
    BY <1>1, <1>5, <2>1, WrittenValues DEF RecCallKnows, WriteRecords
  <2>3. /\ recRow' = Written(x) \/ (~ zone.row /\ recRow' = recRow)
        /\ unproxied' =
             (unproxied \ Items(x)) \cup (IF x.step = 0 THEN {} ELSE {x.change} \ {NoRec})
        /\ UNCHANGED <<zone, cfRec, recCalls, tangled, doubled>> /\ NextKind(c)
    BY <1>5, <2>1 DEF WriteRecords
  <2>4. unproxied' \subseteq Rec /\ recRow' \in [Rec -> Value]
    BY <1>2, <2>2, <2>3 DEF RecCalls
  <2>5. x.step = 0 \/ x.step > 0
    BY RecordsAssumption DEF RecordsAssumption, RecCalls
  <2>6. /\ \A r \in Rec : r \notin Items(x) => (r \in unproxied' <=> r \in unproxied)
        /\ \A r \in Rec : r \in Items(x) => (r \in unproxied' <=> x.step > 0 /\ r = x.change)
    BY <2>3, <2>5, RecordTypes DEF Items
  <2>7. ASSUME NEW r \in Items(x) \ tangled, zone.row, zone.cf PROVE SameRecord(r)'
    <3>1. r \in Rec /\ AsThere(RowAfter(x, recRow[r], r), cfRec[r], x.step > 0 /\ r = x.change)
      BY <1>1, <1>5, <2>1, <2>2, <2>7 DEF RecCallKnows, WriteRecords
    <3>2. recRow'[r] = RowAfter(x, recRow[r], r) /\ cfRec'[r] = cfRec[r]
      BY <2>2, <2>3, <2>7, <3>1
    <3>3. QED
      BY <2>6, <2>7, <3>1, <3>2 DEF AsThere, SameRecord
  <2>8. zone.row => \A r \in Rec \ Items(x) : recRow'[r] = recRow[r]
    BY <2>2, <2>3
  <2>9. recCall[c].pc # "idle"
    BY <1>5 DEF WriteRecords
  <2>10. QED
    BY <1>2, <2>1, <2>3, <2>4, <2>6, <2>7, <2>8, <2>9, RecGoesInv
<1>6. CASE DropZone(c)
  <2>1. ~ zone'.row /\ zone'.cf = zone.cf /\ zone' \in [row : BOOLEAN, cf : BOOLEAN]
    BY <1>2, <1>6 DEF DropZone
  <2>2. recRow' \in [Rec -> Value]
    BY <1>6, RecordValues DEF DropZone
  <2>3. QED
    BY <1>2, <1>6, <2>1, <2>2, RecGoesInv DEF DropZone
<1>7. QED
  BY <1>3, <1>4, <1>5, <1>6

LEMMA RecordRequestInv ==
  ASSUME RecordsInv, NEW c \in RecCall,
         NEW make \in Rec \cup {NoRec}, NEW change \in Rec \cup {NoRec}, NEW drop \in Rec \cup {NoRec},
         Ask(c, Request(make, change, drop)), UNCHANGED doubled
  PROVE  RecordsInv'
<1> DEFINE y == Request(make, change, drop)
<1>1. y \in RecCalls /\ y.pc = "ask" /\ y.step = 0 /\ ~ (y.step > 0)
  BY RecordTypes DEF Request, RecCalls
<1>2. doubled \in BOOLEAN
  BY DEF RecordsInv, RecordsTypeOK
<1> HIDE DEF y
<1>3. Ask(c, y)
  BY DEF y
<1>4. QED
  BY <1>1, <1>2, <1>3, AskInv

LEMMA MailSetupInv ==
  ASSUME RecordsInv, NEW c \in RecCall, NEW x \in MailContent, MailSetup(c, x)
  PROVE  RecordsInv'
<1> DEFINE y == [NoRecCall EXCEPT !.pc = "list", !.content = x, !.step = 1]
<1>1. 1 \in 0..Len(MailKinds) /\ x \in Content
  BY RecordsAssumption DEF RecordsAssumption, MailContent
<1>2. /\ y \in RecCalls /\ y.pc = "list" /\ y.make = NoRec /\ y.change = NoRec /\ y.drop = NoRec
      /\ y.content = x
  BY <1>1, RecordTypes DEF RecCalls
<1>3. Ask(c, y)
  BY DEF MailSetup
<1> HIDE DEF y
<1>4. Items(y) = {}
  BY <1>2 DEF Items
<1>5. doubled \in BOOLEAN
  BY DEF RecordsInv, RecordsTypeOK
<1>6. doubled' \in BOOLEAN /\ (doubled => doubled')
      /\ (~ doubled' => \A d \in RecCall : ~ (recCall[d].step > 0))
  BY <1>5 DEF MailSetup
<1>7. QED
  BY <1>1, <1>2, <1>3, <1>4, <1>6, AskInv

LEMMA RecordsInvStep == RecordsInv /\ [RecordsNext]_recordVars => RecordsInv'
<1> SUFFICES ASSUME RecordsInv, [RecordsNext]_recordVars PROVE RecordsInv'
  OBVIOUS
<1>1. doubled \in BOOLEAN /\ Recorded \subseteq Rec /\ NoRec \notin Rec
  BY RecordTypes DEF RecordsInv, RecordsTypeOK, Recorded
<1>2. ASSUME NEW c \in RecCall, NEW r \in Rec, CreateRecord(c, r) PROVE RecordsInv'
  BY <1>2, RecordRequestInv DEF CreateRecord
<1>3. ASSUME NEW c \in RecCall, NEW r \in Recorded, UpdateRecord(c, r) PROVE RecordsInv'
  BY <1>1, <1>3, RecordRequestInv DEF UpdateRecord
<1>4. ASSUME NEW c \in RecCall, NEW r \in Recorded, DeleteRecord(c, r) PROVE RecordsInv'
  BY <1>1, <1>4, RecordRequestInv DEF DeleteRecord
<1>5. ASSUME NEW c \in RecCall, NEW make \in Rec \cup {NoRec},
             NEW change \in Recorded \cup {NoRec}, NEW drop \in Recorded \cup {NoRec},
             BatchRecords(c, make, change, drop)
      PROVE  RecordsInv'
  BY <1>1, <1>5, RecordRequestInv DEF BatchRecords
<1>6. ASSUME NEW c \in RecCall, NEW x \in MailContent, MailSetup(c, x) PROVE RecordsInv'
  BY <1>6, MailSetupInv
<1>7. ASSUME NEW c \in RecCall, DeleteZone(c) PROVE RecordsInv'
  <2> DEFINE y == [NoRecCall EXCEPT !.pc = "drop_zone"]
  <2>1. y \in RecCalls /\ y.pc = "drop_zone" /\ y.step = 0 /\ ~ (y.step > 0)
    BY RecordTypes DEF RecCalls
  <2>2. Ask(c, y) /\ UNCHANGED doubled
    BY <1>7 DEF DeleteZone
  <2> HIDE DEF y
  <2>3. QED
    BY <1>1, <2>1, <2>2, AskInv
<1>8. CASE UNCHANGED recordVars
  <2>1. UNCHANGED <<zone, recRow, cfRec, recCall, recCalls, tangled, unproxied, doubled>>
    BY <1>8 DEF recordVars
  <2>2. RecordsTypeOK'
    BY <2>1 DEF RecordsInv, RecordsTypeOK
  <2>3. \A c \in RecCall : RecCallKnows(c)'
    BY <2>1 DEF RecordsInv, RecCallKnows
  <2>4. \A r \in Rec : RowSame(r)'
    BY <2>1 DEF RecordsInv, RowSame, SameRecord, RecPending
  <2>5. MailOnce'
    BY <2>1 DEF RecordsInv, MailOnce, FindsAll, IsOf
  <2>6. QED
    BY <2>2, <2>3, <2>4, <2>5 DEF RecordsInv
<1>9. QED
  BY <1>2, <1>3, <1>4, <1>5, <1>6, <1>7, <1>8, MailFindsInv, CfServesInv, RecEndsInv
  DEF RecordsNext, RecordsStep

(* Rows are what Cloudflare has, but for a proxied that mail setup has     *)
(* taken away, and mail setups make no second record of those they look    *)
(* for, for any number of records, kinds and calls, whatever else a record *)
(* has and whatever of a batch Cloudflare does (domain/src/                *)
(* service.ts:271-346, 393-480, 484-634, 640-842).                         *)
THEOREM RecordsMatch == RecordsSpec => []RowsMatchCloudflare
<1>1. RecordsInv => RowsMatchCloudflare
  <2> SUFFICES ASSUME RecordsInv PROVE RowsMatchCloudflare
    OBVIOUS
  <2>1. \A r \in Rec : RecPending(r) => InWork(r)
    BY DEF RecPending, InWork
  <2>2. zone.row /\ zone.cf => \A r \in Rec \ tangled : ~ InWork(r) => SameRecord(r)
    BY <2>1 DEF RecordsInv, RowSame
  <2>3. ASSUME ~ doubled, NEW k \in MailKind
        PROVE  Cardinality({r \in Rec : IsOf(cfRec[r], k)}) <= 1
    <3> DEFINE K == {r \in Rec : IsOf(cfRec[r], k)}
    <3>1. \A r, q \in K : r = q
      BY <2>3 DEF RecordsInv, MailOnce
    <3> HIDE DEF K
    <3>2. K = {} \/ \E r : K = {r}
      BY <3>1
    <3>3. Cardinality(K) \in {0, 1}
      BY <3>2, FS_EmptySet, FS_Singleton
    <3>4. QED
      BY <3>3 DEF K
  <2>4. QED
    BY <2>2, <2>3 DEF RowsMatchCloudflare
<1>2. QED
  BY <1>1, RecordsInvInit, RecordsInvStep, PTL DEF RecordsSpec

-----------------------------------------------------------------------------
Sends(a) == {s \in SendId : sending[s] # NotSending /\ sending[s].of = a}

(* A row's day ends at the next midnight at the latest; what it counts is  *)
(* what was sent today, or it is of a day before and nothing was sent; and *)
(* there is room for what has been checked and not yet recorded.           *)
PolicyKept(a) ==
  LET p == policy[a] IN
  /\ p.pause = said[a].pause /\ p.tx = said[a].tx /\ p.perDay = said[a].perDay
  /\ p.reset <= day + 1
  /\ ~ p.row => p = Unset
  /\ a \notin late => spentToday[a] = IF day < p.reset THEN p.spent ELSE 0
  /\ a \notin loose =>
       /\ \A s, t \in Sends(a) : s = t
       /\ p.perDay # NoLimit => /\ p.spent <= p.perDay
                                /\ \A s \in Sends(a) : p.spent + sending[s].sum <= p.perDay

PolicyInv == WalletTypeOK /\ \A a \in Agent : PolicyKept(a)

Limits == Payment \cup {NoLimit}
Policies ==
  [row : BOOLEAN, tx : Limits, perDay : Limits, spent : Nat, reset : Nat,
   pause : Scope \cup {NotPaused}]

LEMMA LimitsAreNat == Limits \subseteq Nat /\ Payment \subseteq Nat
  BY WalletAssumption DEF WalletAssumption, Limits, NoLimit

LEMMA PolicyInvInit == WalletInit => PolicyInv
<1> SUFFICES ASSUME WalletInit PROVE PolicyInv
  OBVIOUS
<1>1. WalletTypeOK
  <2>1. Unset \in Policies
    BY DEF Unset, Policies, Limits
  <2>2. policy \in [Agent -> Policies]
    BY <2>1 DEF WalletInit
  <2>3. /\ wallet \in [Agent -> {"none", "active", "deactivated"}]
        /\ fundReq \in [FundRequest ->
             {NoFunds} \cup [of : Agent, status : {"pending", "approved", "denied"}]]
        /\ sending \in [SendId -> {NotSending} \cup [of : Agent, sum : Payment]]
    BY DEF WalletInit
  <2>4. said \in [Agent -> [tx : Limits, perDay : Limits, pause : Scope \cup {NotPaused}]]
    BY DEF WalletInit, Limits
  <2>5. /\ day \in Nat /\ changes \in Nat /\ spentToday \in [Agent -> Nat]
        /\ late \subseteq Agent /\ loose \subseteq Agent
    BY DEF WalletInit
  <2>6. QED
    BY <2>2, <2>3, <2>4, <2>5 DEF WalletTypeOK, Policies, Limits
<1>2. \A a \in Agent : PolicyKept(a)
  <2> SUFFICES ASSUME NEW a \in Agent PROVE PolicyKept(a)
    OBVIOUS
  <2>1. Sends(a) = {}
    BY DEF WalletInit, Sends
  <2>2. policy[a] = Unset /\ spentToday[a] = 0 /\ day = 0
    BY DEF WalletInit
  <2>3. said[a] = [tx |-> NoLimit, perDay |-> NoLimit, pause |-> NotPaused]
    BY DEF WalletInit
  <2>4. /\ Unset.pause = said[a].pause /\ Unset.tx = said[a].tx
        /\ Unset.perDay = said[a].perDay /\ Unset.perDay = NoLimit
        /\ Unset.reset = 0 /\ Unset.spent = 0
    BY <2>3 DEF Unset
  <2>5. QED
    BY <2>1, <2>2, <2>4 DEF PolicyKept
<1>3. QED
  BY <1>1, <1>2 DEF PolicyInv

(* A row that is made, and a row that is reset, is of the limits it was of *)
(* before, and of today.                                                   *)
LEMMA Rowed ==
  ASSUME PolicyInv, NEW a \in Agent, NEW p \in {RowOf(a), ResetIfNeeded(policy[a])}
  PROVE  /\ p \in Policies /\ policy[a] \in Policies
         /\ p.pause = policy[a].pause /\ p.tx = policy[a].tx /\ p.perDay = policy[a].perDay
         /\ p.reset <= day + 1 /\ p.spent <= policy[a].spent
         /\ ~ p.row => p = Unset
         /\ a \notin late => spentToday[a] = IF day < p.reset THEN p.spent ELSE 0
<1>1. policy[a] \in Policies /\ PolicyKept(a) /\ day \in Nat
  BY DEF PolicyInv, WalletTypeOK, Policies, Limits
<1>2. Unset \in Policies
  BY DEF Unset, Policies, Limits
<1>3. CASE p = policy[a]
  BY <1>1, <1>3 DEF PolicyKept, Policies
<1>4. CASE ~ policy[a].row /\ p = [Unset EXCEPT !.row = TRUE, !.reset = day + 1]
  <2>1. policy[a] = Unset
    BY <1>1, <1>4 DEF PolicyKept
  <2>2. /\ p \in Policies /\ p.row /\ p.reset = day + 1 /\ p.spent = 0
        /\ p.pause = Unset.pause /\ p.tx = Unset.tx /\ p.perDay = Unset.perDay
        /\ Unset.spent = 0 /\ Unset.reset = 0
    <3>1. p = [row |-> TRUE, tx |-> Unset.tx, perDay |-> Unset.perDay, spent |-> 0,
               reset |-> day + 1, pause |-> Unset.pause]
      BY <1>4 DEF Unset
    <3>2. Unset.spent = 0 /\ Unset.reset = 0
      BY DEF Unset
    <3>3. /\ Unset.tx \in Limits /\ Unset.perDay \in Limits
          /\ Unset.pause \in Scope \cup {NotPaused}
      BY DEF Unset, Limits
    <3>4. day + 1 \in Nat
      BY <1>1
    <3>5. QED
      BY <3>1, <3>2, <3>3, <3>4 DEF Policies
  <2>3. QED
    BY <1>1, <2>1, <2>2 DEF PolicyKept
<1>5. CASE day >= policy[a].reset /\ p = [policy[a] EXCEPT !.spent = 0, !.reset = day + 1]
           /\ policy[a].row
  <2>1. /\ p \in Policies /\ p.row /\ p.reset = day + 1 /\ p.spent = 0
        /\ p.pause = policy[a].pause /\ p.tx = policy[a].tx /\ p.perDay = policy[a].perDay
    <3>1. PICK row \in BOOLEAN, tx \in Limits, perDay \in Limits, spent \in Nat, reset \in Nat,
               pause \in Scope \cup {NotPaused} :
            policy[a] = [row |-> row, tx |-> tx, perDay |-> perDay, spent |-> spent, reset |-> reset,
                 pause |-> pause]
      BY <1>1, Zenon DEF Policies
    <3>2. p = [row |-> row, tx |-> tx, perDay |-> perDay, spent |-> 0, reset |-> day + 1, pause |-> pause]
      <4> DEFINE r == [row |-> row, tx |-> tx, perDay |-> perDay, spent |-> spent, reset |-> reset,
                       pause |-> pause]
                 v == [row |-> row, tx |-> tx, perDay |-> perDay, spent |-> 0, reset |-> reset,
                       pause |-> pause]
                 w == [row |-> row, tx |-> tx, perDay |-> perDay, spent |-> 0, reset |-> day + 1,
                       pause |-> pause]
      <4>1. [r EXCEPT !.spent = 0, !.reset = day + 1] = w
        <5>1. [r EXCEPT !.spent = 0] = v
          BY SMT
        <5>2. [v EXCEPT !.reset = day + 1] = w
          BY SMT
        <5> HIDE DEF r, v, w
        <5>3. [r EXCEPT !.spent = 0, !.reset = day + 1] = [[r EXCEPT !.spent = 0] EXCEPT !.reset = day + 1]
          BY Zenon
        <5>4. QED
          BY <5>1, <5>2, <5>3, Zenon
      <4>2. policy[a] = r
        BY <3>1
      <4> HIDE DEF r, w
      <4>3. p = w
        BY <1>5, <4>1, <4>2, Zenon
      <4>4. QED
        BY <4>3 DEF w
    <3>3. day + 1 \in Nat /\ policy[a].row
      BY <1>1, <1>5
    <3>4. p \in Policies
      BY <3>2, <3>3 DEF Policies
    <3>5. /\ p.row = policy[a].row /\ p.reset = day + 1 /\ p.spent = 0
          /\ p.pause = policy[a].pause /\ p.tx = policy[a].tx /\ p.perDay = policy[a].perDay
      BY <3>1, <3>2
    <3>6. QED
      BY <3>3, <3>4, <3>5
  <2>2. QED
    BY <1>1, <1>5, <2>1 DEF PolicyKept, Policies
<1>6. QED
  BY <1>3, <1>4, <1>5 DEF RowOf, ResetIfNeeded

(* One policy changes, and the sends of its wallet with it.                *)
LEMMA OnePolicy ==
  ASSUME PolicyInv, NEW a \in Agent, NEW p \in Policies,
         policy' = [policy EXCEPT ![a] = p],
         WalletTypeOK', day' = day,
         \A b \in Agent : b # a =>
           /\ said'[b] = said[b] /\ spentToday'[b] = spentToday[b]
           /\ Sends(b)' = Sends(b) /\ (b \in late <=> b \in late') /\ (b \in loose <=> b \in loose')
           /\ \A s \in Sends(b) : sending'[s] = sending[s],
         p.pause = said'[a].pause, p.tx = said'[a].tx, p.perDay = said'[a].perDay,
         p.reset <= day + 1, ~ p.row => p = Unset,
         a \notin late' => spentToday'[a] = IF day < p.reset THEN p.spent ELSE 0,
         a \notin loose' =>
           /\ \A s, t \in Sends(a)' : s = t
           /\ p.perDay # NoLimit =>
                /\ p.spent <= p.perDay
                /\ \A s \in Sends(a)' : p.spent + sending'[s].sum <= p.perDay
  PROVE  PolicyInv'
<1>1. policy'[a] = p /\ \A b \in Agent : b # a => policy'[b] = policy[b]
  BY DEF PolicyInv, WalletTypeOK
<1>2. PolicyKept(a)'
  BY <1>1 DEF PolicyKept
<1>3. ASSUME NEW b \in Agent, b # a PROVE PolicyKept(b)'
  BY <1>1, <1>3 DEF PolicyInv, PolicyKept
<1>4. QED
  BY <1>2, <1>3 DEF PolicyInv

(* What is being sent is a payment.                                        *)
LEMMA SumsAreNat ==
  ASSUME PolicyInv, NEW s \in SendId, sending[s] # NotSending
  PROVE  sending[s].of \in Agent /\ sending[s].sum \in Payment /\ sending[s].sum \in Nat
<1>1. sending[s] \in [of : Agent, sum : Payment]
  BY DEF PolicyInv, WalletTypeOK
<1>2. QED
  BY <1>1, LimitsAreNat

LEMMA UpdateInv ==
  ASSUME PolicyInv, NEW a \in Agent, NEW limits \in LimitsAsked, UpdateSpendingPolicy(a, limits)
  PROVE  PolicyInv'
<1> DEFINE r == RowOf(a)
           p == UpsertPolicy(r, limits)
<1>1. /\ r \in Policies /\ policy[a] \in Policies /\ r.pause = policy[a].pause /\ r.tx = policy[a].tx
      /\ r.perDay = policy[a].perDay /\ r.reset <= day + 1 /\ r.spent <= policy[a].spent
      /\ a \notin late => spentToday[a] = IF day < r.reset THEN r.spent ELSE 0
      /\ PolicyKept(a)
  BY Rowed DEF PolicyInv
<1>2. r.row
  BY DEF RowOf, Unset
<1>3. /\ "tx" \in DOMAIN limits => limits.tx \in Limits
      /\ "perDay" \in DOMAIN limits => limits.perDay \in Limits
      /\ DOMAIN limits \subseteq {"tx", "perDay"}
  BY DEF LimitsAsked, Limits
<1>4. /\ p \in Policies /\ p.row /\ p.pause = r.pause /\ p.reset = r.reset /\ p.spent = r.spent
      /\ p.tx = (IF "tx" \in DOMAIN limits THEN limits.tx ELSE r.tx)
      /\ p.perDay = (IF "perDay" \in DOMAIN limits THEN limits.perDay ELSE r.perDay)
  BY <1>1, <1>2, <1>3 DEF UpsertPolicy, Policies
<1>5. /\ policy' = [policy EXCEPT ![a] = p] /\ changes' = changes + 1
      /\ UNCHANGED <<wallet, fundReq, day, sending, spentToday, late>>
      /\ loose' = IF "perDay" \in DOMAIN limits /\ (\/ policy[a].spent # 0
                                                    \/ \E s \in SendId : sending[s].of = a)
                  THEN loose \cup {a} ELSE loose
  BY DEF UpdateSpendingPolicy
<1>6. said[a] \in [tx : Limits, perDay : Limits, pause : Scope \cup {NotPaused}]
  BY DEF PolicyInv, WalletTypeOK, Limits
<1>7. /\ said' = [said EXCEPT ![a] =
           [x \in DOMAIN said[a] |-> IF x \in DOMAIN limits THEN limits[x] ELSE said[a][x]]]
      /\ DOMAIN said[a] = {"tx", "perDay", "pause"}
  BY <1>6 DEF UpdateSpendingPolicy
<1>8. /\ said'[a] \in [tx : Limits, perDay : Limits, pause : Scope \cup {NotPaused}]
      /\ said'[a].pause = said[a].pause
      /\ said'[a].tx = (IF "tx" \in DOMAIN limits THEN limits.tx ELSE said[a].tx)
      /\ said'[a].perDay = (IF "perDay" \in DOMAIN limits THEN limits.perDay ELSE said[a].perDay)
      /\ \A b \in Agent : b # a => said'[b] = said[b]
      /\ said' \in [Agent -> [tx : Limits, perDay : Limits, pause : Scope \cup {NotPaused}]]
  <2> DEFINE new == [x \in {"tx", "perDay", "pause"} |->
                       IF x \in DOMAIN limits THEN limits[x] ELSE said[a][x]]
  <2>1. said' = [said EXCEPT ![a] = new]
    BY <1>7
  <2>2. /\ new.tx = (IF "tx" \in DOMAIN limits THEN limits.tx ELSE said[a].tx)
        /\ new.perDay = (IF "perDay" \in DOMAIN limits THEN limits.perDay ELSE said[a].perDay)
        /\ new.pause = said[a].pause
    BY <1>3
  <2>3. new = [tx |-> new.tx, perDay |-> new.perDay, pause |-> new.pause]
    OBVIOUS
  <2>4. new \in [tx : Limits, perDay : Limits, pause : Scope \cup {NotPaused}]
    BY <1>3, <1>6, <2>2, <2>3
  <2>5. said \in [Agent -> [tx : Limits, perDay : Limits, pause : Scope \cup {NotPaused}]]
    BY DEF PolicyInv, WalletTypeOK, Limits
  <2>6. said'[a] = new
    BY <2>1, <2>5
  <2>7. QED
    BY <2>1, <2>2, <2>4, <2>5, <2>6
<1>9. WalletTypeOK'
  <2>1. policy' \in [Agent -> Policies]
    BY <1>4, <1>5 DEF PolicyInv, WalletTypeOK, Policies, Limits
  <2>2. QED
    BY <1>5, <1>8, <2>1 DEF PolicyInv, WalletTypeOK, Policies, Limits
<1>10. Sends(a)' = Sends(a) /\ \A b \in Agent : Sends(b)' = Sends(b)
  BY <1>5 DEF Sends
<1>11. a \notin loose' =>
         /\ \A s, t \in Sends(a)' : s = t
         /\ p.perDay # NoLimit => /\ p.spent <= p.perDay
                                  /\ \A s \in Sends(a)' : p.spent + sending'[s].sum <= p.perDay
  <2> SUFFICES ASSUME a \notin loose'
               PROVE  /\ \A s, t \in Sends(a)' : s = t
                      /\ p.perDay # NoLimit =>
                           /\ p.spent <= p.perDay
                           /\ \A s \in Sends(a)' : p.spent + sending'[s].sum <= p.perDay
    OBVIOUS
  <2>1. a \notin loose
    BY <1>5
  <2>2. CASE "perDay" \in DOMAIN limits
    <3>1. policy[a].spent = 0 /\ Sends(a) = {}
      BY <1>5, <2>2 DEF Sends
    <3>2. p.spent = 0
      BY <1>1, <1>4, <3>1 DEF Policies
    <3>3. p.perDay \in Nat
      BY <1>4, LimitsAreNat DEF Policies
    <3>4. QED
      BY <1>10, <3>1, <3>2, <3>3
  <2>3. CASE "perDay" \notin DOMAIN limits
    <3>1. p.perDay = policy[a].perDay /\ p.spent <= policy[a].spent
      BY <1>1, <1>4, <2>3
    <3>2. p.spent \in Nat /\ policy[a].spent \in Nat /\ p.perDay \in Int
      <4>1. p \in Policies /\ policy[a] \in Policies
        BY <1>1, <1>4
      <4> HIDE DEF p, r
      <4>2. p.perDay \in Limits /\ p.spent \in Nat /\ policy[a].spent \in Nat
        BY <4>1 DEF Policies
      <4>3. p.perDay \in Nat
        BY <4>2, LimitsAreNat
      <4>4. QED
        BY <4>2, <4>3
    <3>3. \A s \in Sends(a) : sending[s].sum \in Int
      BY SumsAreNat DEF Sends
    <3>4. QED
      BY <1>1, <1>5, <1>10, <2>1, <3>1, <3>2, <3>3 DEF PolicyKept
  <2>4. QED
    BY <2>2, <2>3
<1>12. QED
  <2>1. /\ p.pause = said'[a].pause /\ p.tx = said'[a].tx /\ p.perDay = said'[a].perDay
    BY <1>1, <1>4, <1>8 DEF PolicyKept
  <2>2. \A b \in Agent : b # a =>
          /\ said'[b] = said[b] /\ spentToday'[b] = spentToday[b]
          /\ Sends(b)' = Sends(b) /\ (b \in late <=> b \in late') /\ (b \in loose <=> b \in loose')
          /\ \A s \in Sends(b) : sending'[s] = sending[s]
    BY <1>5, <1>8, <1>10
  <2>3. a \notin late' => spentToday'[a] = IF day < p.reset THEN p.spent ELSE 0
    BY <1>1, <1>4, <1>5
  <2>4. p.reset <= day + 1
    BY <1>1, <1>4
  <2>5. day' = day
    BY <1>5
  <2>6. QED
    BY <1>4, <1>5, <1>9, <1>11, <2>1, <2>2, <2>3, <2>4, <2>5, OnePolicy

(* A wallet that spends nothing meanwhile has its row written.             *)
LEMMA RowWritten ==
  ASSUME PolicyInv, NEW a \in Agent, NEW p \in Policies,
         policy' = [policy EXCEPT ![a] = p],
         said' \in [Agent -> [tx : Limits, perDay : Limits, pause : Scope \cup {NotPaused}]],
         changes' \in Nat, UNCHANGED <<wallet, fundReq, day, sending, spentToday, late, loose>>,
         \A b \in Agent : b # a => said'[b] = said[b],
         p.pause = said'[a].pause, p.tx = said'[a].tx, p.perDay = said'[a].perDay,
         p.perDay = policy[a].perDay, p.spent <= policy[a].spent,
         p.reset <= day + 1, ~ p.row => p = Unset,
         a \notin late => spentToday[a] = IF day < p.reset THEN p.spent ELSE 0
  PROVE  PolicyInv'
<1>1. Sends(a)' = Sends(a) /\ \A b \in Agent : Sends(b)' = Sends(b)
  BY DEF Sends
<1>2. policy' \in [Agent -> Policies] /\ policy[a] \in Policies
  BY DEF PolicyInv, WalletTypeOK, Policies, Limits
<1>3. WalletTypeOK'
  BY <1>2 DEF PolicyInv, WalletTypeOK, Policies, Limits
<1>4. ASSUME a \notin loose
      PROVE  /\ \A s, t \in Sends(a)' : s = t
             /\ p.perDay # NoLimit =>
                  /\ p.spent <= p.perDay
                  /\ \A s \in Sends(a)' : p.spent + sending'[s].sum <= p.perDay
  <2>1. /\ p.spent \in Nat /\ policy[a].spent \in Nat /\ p.perDay \in Nat
        /\ \A s \in Sends(a) : sending[s].sum \in Nat
    BY <1>2, LimitsAreNat, SumsAreNat DEF Policies, Sends
  <2>2. PolicyKept(a)
    BY DEF PolicyInv
  <2>3. QED
    BY <1>1, <1>4, <2>1, <2>2 DEF PolicyKept
<1>5. \A b \in Agent : b # a =>
        /\ said'[b] = said[b] /\ spentToday'[b] = spentToday[b]
        /\ Sends(b)' = Sends(b) /\ (b \in late <=> b \in late') /\ (b \in loose <=> b \in loose')
        /\ \A s \in Sends(b) : sending'[s] = sending[s]
  BY <1>1
<1>6. QED
  BY <1>3, <1>4, <1>5, OnePolicy

LEMMA PauseInv ==
  ASSUME PolicyInv, NEW a \in Agent, NEW scope \in Scope \cup {NotPaused}, SetPause(a, scope)
  PROVE  PolicyInv'
<1> DEFINE r == RowOf(a)
           p == [r EXCEPT !.pause = scope]
<1>1. /\ r \in Policies /\ r.pause = policy[a].pause /\ r.tx = policy[a].tx
      /\ r.perDay = policy[a].perDay /\ r.reset <= day + 1 /\ r.spent <= policy[a].spent
      /\ a \notin late => spentToday[a] = IF day < r.reset THEN r.spent ELSE 0
  BY Rowed
<1>2. r.row
  BY DEF RowOf, Unset
<1>3. p = [row |-> r.row, tx |-> r.tx, perDay |-> r.perDay, spent |-> r.spent, reset |-> r.reset,
           pause |-> scope]
  BY <1>1 DEF Policies
<1>4. /\ p \in Policies /\ p.row /\ p.pause = scope /\ p.reset = r.reset /\ p.spent = r.spent
      /\ p.tx = r.tx /\ p.perDay = r.perDay
  <2> HIDE DEF r
  <2>1. QED
    BY <1>1, <1>2, <1>3 DEF Policies
<1>5. /\ policy' = [policy EXCEPT ![a] = p] /\ changes' = changes + 1 /\ changes \in Nat
      /\ UNCHANGED <<wallet, fundReq, day, sending, spentToday, late, loose>>
      /\ said' = [said EXCEPT ![a].pause = scope]
  BY DEF SetPause, PolicyInv, WalletTypeOK
<1>6. said \in [Agent -> [tx : Limits, perDay : Limits, pause : Scope \cup {NotPaused}]]
  BY DEF PolicyInv, WalletTypeOK, Limits
<1>7. /\ said' \in [Agent -> [tx : Limits, perDay : Limits, pause : Scope \cup {NotPaused}]]
      /\ \A b \in Agent : b # a => said'[b] = said[b]
      /\ said'[a].pause = scope /\ said'[a].tx = said[a].tx /\ said'[a].perDay = said[a].perDay
  BY <1>5, <1>6
<1>8. said[a].tx = r.tx /\ said[a].perDay = r.perDay
  BY <1>1 DEF PolicyInv, PolicyKept
<1>9. changes' \in Nat
  BY <1>5
<1>10. QED
  <2> HIDE DEF p, r
  <2>1. QED
    BY <1>1, <1>4, <1>5, <1>7, <1>8, <1>9, RowWritten

LEMMA LookInv ==
  ASSUME PolicyInv, NEW a \in Agent, LookAtPolicy(a)
  PROVE  PolicyInv'
<1> DEFINE p == ResetIfNeeded(policy[a])
<1>1. /\ p \in Policies /\ p.pause = policy[a].pause /\ p.tx = policy[a].tx
      /\ p.perDay = policy[a].perDay /\ p.reset <= day + 1 /\ p.spent <= policy[a].spent
      /\ ~ p.row => p = Unset
      /\ a \notin late => spentToday[a] = IF day < p.reset THEN p.spent ELSE 0
  BY Rowed
<1>2. /\ policy' = [policy EXCEPT ![a] = p] /\ said' = said /\ changes' = changes
      /\ UNCHANGED <<wallet, fundReq, day, sending, spentToday, late, loose>>
  BY DEF LookAtPolicy
<1>3. /\ said \in [Agent -> [tx : Limits, perDay : Limits, pause : Scope \cup {NotPaused}]]
      /\ changes \in Nat /\ PolicyKept(a)
  BY DEF PolicyInv, WalletTypeOK, Limits
<1>4. p.pause = said'[a].pause /\ p.tx = said'[a].tx /\ p.perDay = said'[a].perDay
  BY <1>1, <1>2, <1>3 DEF PolicyKept
<1>5. QED
  <2> HIDE DEF p
  <2>1. QED
    BY <1>1, <1>2, <1>3, <1>4, RowWritten

LEMMA CheckInv ==
  ASSUME PolicyInv, NEW s \in SendId, NEW a \in Agent, NEW sum \in Payment, CheckPolicy(s, a, sum)
  PROVE  PolicyInv'
<1> DEFINE p == ResetIfNeeded(policy[a])
           new == [of |-> a, sum |-> sum]
<1>1. /\ p \in Policies /\ policy[a] \in Policies
      /\ p.pause = policy[a].pause /\ p.tx = policy[a].tx
      /\ p.perDay = policy[a].perDay /\ p.reset <= day + 1 /\ p.spent <= policy[a].spent
      /\ ~ p.row => p = Unset
      /\ a \notin late => spentToday[a] = IF day < p.reset THEN p.spent ELSE 0
  BY Rowed
<1>2. /\ policy' = [policy EXCEPT ![a] = p] /\ said' = said /\ changes' = changes + 1
      /\ UNCHANGED <<wallet, fundReq, day, spentToday, late>> /\ sending[s] = NotSending
  BY DEF CheckPolicy
<1>3. /\ said \in [Agent -> [tx : Limits, perDay : Limits, pause : Scope \cup {NotPaused}]]
      /\ changes \in Nat /\ PolicyKept(a) /\ changes' \in Nat
      /\ sending \in [SendId -> {NotSending} \cup [of : Agent, sum : Payment]] /\ loose \subseteq Agent
  BY <1>2 DEF PolicyInv, WalletTypeOK, Limits
<1>4. p.pause = said'[a].pause /\ p.tx = said'[a].tx /\ p.perDay = said'[a].perDay
  BY <1>1, <1>2, <1>3 DEF PolicyKept
<1>5. CASE UNCHANGED <<sending, loose>>
  <2> HIDE DEF p
  <2>1. QED
    BY <1>1, <1>2, <1>3, <1>4, <1>5, RowWritten
<1>6. CASE /\ sending' = [sending EXCEPT ![s] = new]
           /\ loose' = IF \E o \in SendId : sending[o].of = a THEN loose \cup {a} ELSE loose
           /\ policy[a].row => WithinPolicy(p, sum)
  <2>1. /\ sending' \in [SendId -> {NotSending} \cup [of : Agent, sum : Payment]]
        /\ sending'[s] = new /\ new.of = a /\ new.sum = sum
        /\ \A t \in SendId : t # s => sending'[t] = sending[t]
        /\ loose' \subseteq Agent
    BY <1>3, <1>6
  <2>2. policy' \in [Agent -> Policies]
    BY <1>1, <1>2 DEF PolicyInv, WalletTypeOK, Policies, Limits
  <2>3. WalletTypeOK'
    BY <1>2, <1>3, <2>1, <2>2 DEF PolicyInv, WalletTypeOK, Policies, Limits
  <2>4. Sends(a)' \subseteq Sends(a) \cup {s}
    BY <2>1 DEF Sends
  <2>5. ASSUME NEW b \in Agent, b # a
        PROVE  /\ Sends(b)' = Sends(b) /\ (b \in loose <=> b \in loose')
               /\ \A t \in Sends(b) : sending'[t] = sending[t]
    BY <1>2, <1>6, <2>1, <2>5 DEF Sends
  <2>6. ASSUME a \notin loose'
        PROVE  /\ \A t, u \in Sends(a)' : t = u
               /\ p.perDay # NoLimit =>
                    /\ p.spent <= p.perDay
                    /\ \A t \in Sends(a)' : p.spent + sending'[t].sum <= p.perDay
    <3>1. a \notin loose /\ Sends(a) = {}
      BY <1>6, <2>6 DEF Sends
    <3>2. Sends(a)' \subseteq {s}
      BY <2>4, <3>1
    <3>3. /\ p.spent \in Nat /\ p.perDay \in Nat /\ policy[a].spent \in Nat /\ sum \in Nat
      BY <1>1, LimitsAreNat DEF Policies
    <3>4. ASSUME p.perDay # NoLimit PROVE p.spent <= p.perDay /\ p.spent + sum <= p.perDay
      <4>1. CASE policy[a].row
        BY <1>6, <3>3, <3>4, <4>1 DEF WithinPolicy
      <4>2. CASE ~ policy[a].row
        BY <1>1, <1>3, <3>4, <4>2 DEF PolicyKept, Unset
      <4>3. QED
        BY <4>1, <4>2
    <3>5. QED
      BY <2>1, <3>2, <3>4
  <2>7. QED
    <3> HIDE DEF p
    <3>1. \A b \in Agent : b # a =>
            /\ said'[b] = said[b] /\ spentToday'[b] = spentToday[b]
            /\ Sends(b)' = Sends(b) /\ (b \in late <=> b \in late') /\ (b \in loose <=> b \in loose')
            /\ \A t \in Sends(b) : sending'[t] = sending[t]
      BY <1>2, <2>5
    <3>2. a \notin late' => spentToday'[a] = IF day < p.reset THEN p.spent ELSE 0
      BY <1>1, <1>2
    <3>3. day' = day
      BY <1>2
    <3>4. QED
      BY <1>1, <1>2, <1>4, <2>3, <2>6, <3>1, <3>2, <3>3, OnePolicy
<1>7. QED
  BY <1>5, <1>6 DEF CheckPolicy

LEMMA SpendInv ==
  ASSUME PolicyInv, NEW s \in SendId, RecordSpend(s), NEW a \in Agent, NEW sum \in Payment,
         sending[s].of = a, sending[s].sum = sum
  PROVE  PolicyInv'
<1> DEFINE r == RowOf(a)
           p == [r EXCEPT !.spent = @ + sum]
<1>1. a \in Agent /\ sum \in Nat /\ sending[s] # NotSending /\ s \in Sends(a)
  BY LimitsAreNat DEF RecordSpend, Sends
<1>2. /\ r \in Policies /\ policy[a] \in Policies /\ r.pause = policy[a].pause
      /\ r.tx = policy[a].tx /\ r.perDay = policy[a].perDay /\ r.reset <= day + 1
      /\ r.spent <= policy[a].spent /\ PolicyKept(a) /\ day \in Nat
      /\ a \notin late => spentToday[a] = IF day < r.reset THEN r.spent ELSE 0
  BY <1>1, Rowed DEF PolicyInv, WalletTypeOK
<1>3. /\ r.row /\ r.reset \in Nat
      /\ day < r.reset \/ (policy[a].row /\ day >= policy[a].reset /\ r = policy[a])
  BY <1>2 DEF RowOf, Unset, Policies
<1>4. p = [row |-> r.row, tx |-> r.tx, perDay |-> r.perDay, spent |-> r.spent + sum,
           reset |-> r.reset, pause |-> r.pause]
  <2> HIDE DEF r
  <2>1. QED
    BY <1>2 DEF Policies
<1>5. r.spent \in Nat /\ policy[a].spent \in Nat /\ r.perDay \in Nat
  BY <1>2, LimitsAreNat DEF Policies
<1>6. /\ p \in Policies /\ p.row /\ p.pause = r.pause /\ p.reset = r.reset
      /\ p.spent = r.spent + sum /\ p.tx = r.tx /\ p.perDay = r.perDay
  <2> HIDE DEF r
  <2>1. r.spent + sum \in Nat
    BY <1>1, <1>5
  <2>2. QED
    BY <1>2, <1>3, <1>4, <2>1 DEF Policies
<1>7. /\ policy' = [policy EXCEPT ![a] = p] /\ spentToday' = [spentToday EXCEPT ![a] = @ + sum]
      /\ late' = (IF policy[a].row /\ day >= policy[a].reset THEN late \cup {a} ELSE late)
      /\ sending' = [sending EXCEPT ![s] = NotSending]
      /\ UNCHANGED <<wallet, fundReq, day, changes, said, loose>>
  BY DEF RecordSpend
<1>8. /\ sending \in [SendId -> {NotSending} \cup [of : Agent, sum : Payment]]
      /\ spentToday \in [Agent -> Nat] /\ late \subseteq Agent
  BY DEF PolicyInv, WalletTypeOK
<1>9. /\ sending' \in [SendId -> {NotSending} \cup [of : Agent, sum : Payment]]
      /\ sending'[s] = NotSending /\ \A t \in SendId : t # s => sending'[t] = sending[t]
      /\ spentToday' \in [Agent -> Nat] /\ spentToday'[a] = spentToday[a] + sum
      /\ \A b \in Agent : b # a => spentToday'[b] = spentToday[b]
      /\ late' \subseteq Agent
  BY <1>1, <1>7, <1>8
<1>10. policy' \in [Agent -> Policies]
  <2> HIDE DEF p
  <2>1. QED
    BY <1>1, <1>6, <1>7 DEF PolicyInv, WalletTypeOK, Policies, Limits
<1>11. WalletTypeOK'
  BY <1>7, <1>9, <1>10 DEF PolicyInv, WalletTypeOK, Policies, Limits
<1>12. Sends(a)' = Sends(a) \ {s}
  BY <1>1, <1>9 DEF Sends
<1>13. ASSUME NEW b \in Agent, b # a
       PROVE  /\ Sends(b)' = Sends(b) /\ (b \in late <=> b \in late') /\ (b \in loose <=> b \in loose')
              /\ \A t \in Sends(b) : sending'[t] = sending[t]
              /\ said'[b] = said[b] /\ spentToday'[b] = spentToday[b]
  <2>1. s \notin Sends(b)
    BY <1>13 DEF Sends
  <2>2. Sends(b)' = Sends(b) /\ \A t \in Sends(b) : sending'[t] = sending[t]
    BY <1>9, <2>1 DEF Sends
  <2>3. QED
    BY <1>7, <1>9, <1>13, <2>2
<1>14. a \notin late' => spentToday'[a] = IF day < p.reset THEN p.spent ELSE 0
  <2> SUFFICES ASSUME a \notin late' PROVE spentToday'[a] = IF day < p.reset THEN p.spent ELSE 0
    OBVIOUS
  <2> HIDE DEF r, p
  <2>1. a \notin late /\ day < r.reset
    BY <1>3, <1>7
  <2>2. QED
    BY <1>2, <1>6, <1>9, <2>1
<1>15. ASSUME a \notin loose'
       PROVE  /\ \A t, u \in Sends(a)' : t = u
              /\ p.perDay # NoLimit =>
                   /\ p.spent <= p.perDay
                   /\ \A t \in Sends(a)' : p.spent + sending'[t].sum <= p.perDay
  <2>1. Sends(a) = {s} /\ Sends(a)' = {}
    BY <1>1, <1>2, <1>7, <1>12, <1>15 DEF PolicyKept
  <2>2. ASSUME p.perDay # NoLimit PROVE p.spent <= p.perDay
    <3>1. policy[a].spent + sum <= policy[a].perDay
      BY <1>1, <1>2, <1>6, <1>7, <1>15, <2>2 DEF PolicyKept
    <3>2. QED
      <4> HIDE DEF r, p
      <4>1. QED
        BY <1>1, <1>2, <1>5, <1>6, <3>1
  <2>3. QED
    BY <2>1, <2>2
<1>16. p.pause = said'[a].pause /\ p.tx = said'[a].tx /\ p.perDay = said'[a].perDay
  BY <1>2, <1>6, <1>7 DEF PolicyKept
<1>17. p.reset <= day + 1 /\ day' = day
  BY <1>2, <1>6, <1>7
<1>18. QED
  <2> HIDE DEF p
  <2>1. QED
    BY <1>1, <1>6, <1>7, <1>11, <1>13, <1>14, <1>15, <1>16, <1>17, OnePolicy

LEMMA PolicyInvStep == PolicyInv /\ [WalletNext]_walletVars => PolicyInv'
<1> SUFFICES ASSUME PolicyInv, [WalletNext]_walletVars PROVE PolicyInv'
  OBVIOUS
<1>1. ASSUME UNCHANGED <<policy, day, sending, changes, said, spentToday, late, loose>>,
             wallet' \in [Agent -> {"none", "active", "deactivated"}],
             fundReq' \in [FundRequest ->
               {NoFunds} \cup [of : Agent, status : {"pending", "approved", "denied"}]]
      PROVE  PolicyInv'
  <2>1. WalletTypeOK'
    BY <1>1 DEF PolicyInv, WalletTypeOK
  <2>2. \A a \in Agent : PolicyKept(a)'
    BY <1>1 DEF PolicyInv, PolicyKept, Sends
  <2>3. QED
    BY <2>1, <2>2 DEF PolicyInv
<1>2. /\ wallet \in [Agent -> {"none", "active", "deactivated"}]
      /\ fundReq \in [FundRequest ->
           {NoFunds} \cup [of : Agent, status : {"pending", "approved", "denied"}]]
  BY DEF PolicyInv, WalletTypeOK
<1>3. ASSUME NEW a \in Agent, RegisterWallet(a) \/ DeactivateWallet(a) PROVE PolicyInv'
  BY <1>1, <1>2, <1>3 DEF RegisterWallet, DeactivateWallet
<1>4. ASSUME NEW a \in Agent, NEW f \in FundRequest, CreateFundRequest(a, f) PROVE PolicyInv'
  BY <1>1, <1>2, <1>4 DEF CreateFundRequest
<1>5. ASSUME NEW f \in FundRequest, NEW status \in {"approved", "denied"},
             DecideFundRequest(f, status)
      PROVE  PolicyInv'
  BY <1>1, <1>2, <1>5 DEF DecideFundRequest, NoFunds
<1>6. ASSUME NEW a \in Agent, LookAtPolicy(a) PROVE PolicyInv'
  BY <1>6, LookInv
<1>7. ASSUME NEW a \in Agent, NEW limits \in LimitsAsked, UpdateSpendingPolicy(a, limits)
      PROVE  PolicyInv'
  BY <1>7, UpdateInv
<1>8. ASSUME NEW a \in Agent, NEW scope \in Scope \cup {NotPaused}, SetPause(a, scope)
      PROVE  PolicyInv'
  BY <1>8, PauseInv
<1>9. ASSUME NEW a \in Agent, NEW s \in SendId, NEW sum \in Payment, CheckPolicy(s, a, sum)
      PROVE  PolicyInv'
  BY <1>9, CheckInv
<1>10. ASSUME NEW s \in SendId, RecordSpend(s) PROVE PolicyInv'
  <2>1. sending[s].of \in Agent /\ sending[s].sum \in Payment
    BY <1>10, SumsAreNat DEF RecordSpend
  <2>2. QED
    BY <1>10, <2>1, SpendInv
<1>11. ASSUME NEW s \in SendId, SendFails(s) PROVE PolicyInv'
  <2>1. sending' = [sending EXCEPT ![s] = NotSending]
        /\ UNCHANGED <<wallet, fundReq, policy, day, changes, said, spentToday, late, loose>>
    BY <1>11 DEF SendFails
  <2>2. WalletTypeOK'
    BY <2>1 DEF PolicyInv, WalletTypeOK
  <2>3. \A a \in Agent : \A t \in Sends(a)' : t \in Sends(a) /\ sending'[t] = sending[t]
    BY <2>1 DEF PolicyInv, WalletTypeOK, Sends
  <2>4. ASSUME NEW a \in Agent PROVE PolicyKept(a)'
    BY <2>1, <2>3 DEF PolicyInv, PolicyKept
  <2>5. QED
    BY <2>2, <2>4 DEF PolicyInv
<1>12. CASE Midnight
  <2>1. /\ day' = day + 1 /\ day \in Nat /\ late' = {} /\ spentToday' = [a \in Agent |-> 0]
        /\ UNCHANGED <<wallet, fundReq, policy, sending, changes, said, loose>>
    BY <1>12 DEF Midnight, PolicyInv, WalletTypeOK
  <2>2. WalletTypeOK'
    BY <2>1 DEF PolicyInv, WalletTypeOK
  <2>3. ASSUME NEW a \in Agent PROVE PolicyKept(a)'
    <3>1. PolicyKept(a) /\ policy[a].reset \in Nat
      BY DEF PolicyInv, WalletTypeOK
    <3>2. Sends(a)' = Sends(a)
      BY <2>1 DEF Sends
    <3>3. ~ (day' < policy[a].reset) /\ policy[a].reset <= day' + 1
      BY <2>1, <3>1 DEF PolicyKept
    <3>4. QED
      BY <2>1, <3>1, <3>2, <3>3 DEF PolicyKept
  <2>4. QED
    BY <2>2, <2>3 DEF PolicyInv
<1>13. CASE UNCHANGED walletVars
  BY <1>1, <1>2, <1>13 DEF walletVars
<1>14. QED
  BY <1>3, <1>4, <1>5, <1>6, <1>7, <1>8, <1>9, <1>10, <1>11, <1>12, <1>13 DEF WalletNext

(* Limits, pauses, spending and the daily reset keep each other's writes,  *)
(* and the limit holds (policy.ts:18-68, db.ts:409-522), for any number of *)
(* wallets, sends and days.                                                *)
THEOREM PoliciesHold == WalletSpec => []PolicyHolds
<1>1. PolicyInv => PolicyHolds
  BY DEF PolicyInv, PolicyKept, PolicyHolds
<1>2. QED
  BY PolicyInvInit, PolicyInvStep, <1>1, PTL DEF WalletSpec

-----------------------------------------------------------------------------
(* Requests before their bill keep an estimate that is not below the       *)
(* minimum; bills are what the property asks of them.                      *)
BillOf(q) ==
  LET r == infer[q] IN
  /\ r.pc \in {"asking", "served"} => r.estimate >= Floor
  /\ r.pc = "billed" => /\ r.bill >= Floor
                        /\ r.known => r.bill = AtLeastFloor(r.cost)

InferInv == InferTypeOK /\ \A q \in Inference : BillOf(q)

Asking == [pc : {"asking"}, model : Model, stream : BOOLEAN, estimate : Nat]
ServedCalls ==
  [pc : {"served"}, model : Model, stream : BOOLEAN, estimate : Nat, ran : Model,
   took : Tokens, tells : {"cost", "tokens", "nothing"}, cost : Nat]
Billed == [pc : {"billed"}, bill : Nat, cost : Nat, known : BOOLEAN]
Requests == {NotAsked} \cup Asking \cup ServedCalls \cup Billed

LEMMA InferTypes ==
  InferTypeOK <=>
    /\ rate \in [Model -> Rate] /\ rateCache \in [Model -> Rate \cup {Unknown}]
    /\ refresh \in {NoRefresh} \cup [under : {TRUE}, rates : [Model -> Rate \cup {Unknown}]]
    /\ infer \in [Inference -> Requests]
    /\ moves \in Nat
  BY Zenon DEF InferTypeOK, Requests, Asking, ServedCalls, Billed

LEMMA InferKinds ==
  /\ NotAsked.pc = "idle"
  /\ \A r \in Asking : r.pc = "asking" /\ r.estimate \in Nat /\ r.model \in Model
  /\ \A r \in ServedCalls : r.pc = "served" /\ r.estimate \in Nat /\ r.cost \in Nat
  /\ \A r \in Billed : r.pc = "billed"
  BY DEF NotAsked, Asking, ServedCalls, Billed

LEMMA Costs ==
  /\ \A t \in Tokens, m \in Model : rateCache \in [Model -> Rate \cup {Unknown}] =>
       ModelRate(m) \in Nat /\ t * ModelRate(m) \in Nat
  /\ \A x \in Nat : AtLeastFloor(x) \in Nat /\ AtLeastFloor(x) >= Floor
<1>1. ASSUME NEW t \in Tokens, NEW m \in Model, rateCache \in [Model -> Rate \cup {Unknown}]
      PROVE  ModelRate(m) \in Nat
  BY <1>1, InferAssumption DEF InferAssumption, ModelRate
<1>2. \A i, j \in Nat : i * j \in Nat
  OBVIOUS
<1>3. Tokens \subseteq Nat
  BY InferAssumption DEF InferAssumption
<1>4. \A x \in Nat : AtLeastFloor(x) \in Nat /\ AtLeastFloor(x) >= Floor
  BY InferAssumption DEF InferAssumption, AtLeastFloor
<1>5. QED
  BY <1>1, <1>2, <1>3, <1>4

LEMMA InferInvInit == InferInit => InferInv
<1> SUFFICES ASSUME InferInit PROVE InferInv
  OBVIOUS
<1>1. InferTypeOK
  BY InferTypes DEF InferInit, Requests
<1>2. \A q \in Inference : BillOf(q)
  BY InferKinds DEF InferInit, BillOf
<1>3. QED
  BY <1>1, <1>2 DEF InferInv

(* Nothing but the rates changes: requests are as good as they were.       *)
LEMMA RatesInv ==
  ASSUME InferInv, UNCHANGED infer, moves' \in Nat,
         rate' \in [Model -> Rate], rateCache' \in [Model -> Rate \cup {Unknown}],
         refresh' \in {NoRefresh} \cup [under : {TRUE}, rates : [Model -> Rate \cup {Unknown}]]
  PROVE  InferInv'
<1>1. infer' = infer /\ InferTypeOK'
  BY InferTypes DEF InferInv, InferTypeOK, Requests, Asking, ServedCalls, Billed
<1>2. QED
  BY <1>1 DEF InferInv, BillOf, AtLeastFloor

(* One request goes on.                                                    *)
LEMMA OneRequest ==
  ASSUME InferInv, NEW q \in Inference, NEW r \in Requests,
         infer' = [infer EXCEPT ![q] = r], UNCHANGED <<rate, rateCache, refresh, moves>>,
         r.pc \in {"asking", "served"} => r.estimate >= Floor,
         r.pc = "billed" => r.bill >= Floor /\ (r.known => r.bill = AtLeastFloor(r.cost))
  PROVE  InferInv'
<1>1. infer \in [Inference -> Requests]
  BY InferTypes DEF InferInv
<1>2. /\ infer' \in [Inference -> Requests] /\ infer'[q] = r
      /\ \A o \in Inference : o # q => infer'[o] = infer[o]
  BY <1>1
<1>3. InferTypeOK'
  BY <1>2, InferTypes DEF InferInv, InferTypeOK, Requests, Asking, ServedCalls, Billed
<1>4. ASSUME NEW o \in Inference PROVE BillOf(o)'
  BY <1>2 DEF InferInv, BillOf, AtLeastFloor
<1>5. QED
  BY <1>3, <1>4 DEF InferInv

LEMMA SettleInvInfer ==
  ASSUME InferInv, NEW q \in Inference, SettleChat(q)
  PROVE  InferInv'
<1> DEFINE r == infer[q]
           b == [pc |-> "billed", bill |-> ActualCost(r), cost |-> r.cost, known |-> CostKnown(r)]
<1>1. infer \in [Inference -> Requests] /\ rateCache \in [Model -> Rate \cup {Unknown}]
  BY InferTypes DEF InferInv
<1>2. r \in ServedCalls /\ r.estimate >= Floor
  BY <1>1, InferKinds DEF SettleChat, Requests, InferInv, BillOf
<1>3. /\ r.took \in Tokens /\ BilledModel(r) \in Model /\ r.cost \in Nat /\ r.ran \in Model
      /\ r.estimate \in Nat /\ r.tells \in {"cost", "tokens", "nothing"} /\ r.stream \in BOOLEAN
  BY <1>2 DEF ServedCalls, BilledModel
<1>4. infer' = [infer EXCEPT ![q] = b] /\ UNCHANGED <<rate, rateCache, refresh, moves>>
  BY <1>1 DEF SettleChat
<1>5. r.took * ModelRate(BilledModel(r)) \in Nat /\ Floor \in Nat
  BY <1>1, <1>3, Costs, InferAssumption DEF InferAssumption
<1>6. ActualCost(r) \in Nat /\ ActualCost(r) >= Floor
  <2>1. CASE r.tells = "nothing"
    BY <1>2, <1>3, <1>5, <2>1 DEF ActualCost
  <2>2. CASE r.tells = "cost" /\ r.stream
    BY <1>3, <2>2, Costs DEF ActualCost
  <2>3. CASE r.tells # "nothing" /\ ~ (r.tells = "cost" /\ r.stream)
    BY <1>5, <2>3, Costs DEF ActualCost
  <2>4. QED
    BY <2>1, <2>2, <2>3
<1>7. CostKnown(r) \in BOOLEAN
  BY DEF CostKnown
<1>8. ASSUME CostKnown(r) PROVE ActualCost(r) = AtLeastFloor(r.cost)
  <2>1. CASE r.tells = "cost" /\ r.stream
    BY <2>1 DEF ActualCost
  <2>2. CASE ~ (r.tells = "cost" /\ r.stream)
    <3>1. /\ r.tells # "nothing" /\ BilledModel(r) = r.ran
          /\ rateCache[r.ran] # Unknown /\ r.took * rateCache[r.ran] = r.cost
      BY <1>8, <2>2 DEF CostKnown, BilledModel
    <3>2. r.took * ModelRate(BilledModel(r)) = r.cost
      BY <3>1 DEF ModelRate
    <3>3. QED
      BY <2>2, <3>1, <3>2 DEF ActualCost
  <2>3. QED
    BY <2>1, <2>2
<1>9. b \in Requests
  BY <1>3, <1>6, <1>7 DEF Requests, Billed
<1>10. QED
  BY <1>4, <1>6, <1>8, <1>9, OneRequest

LEMMA InferInvStep == InferInv /\ [InferNext]_inferVars => InferInv'
<1> SUFFICES ASSUME InferInv, [InferNext]_inferVars PROVE InferInv'
  OBVIOUS
<1>1. /\ rate \in [Model -> Rate] /\ rateCache \in [Model -> Rate \cup {Unknown}]
      /\ infer \in [Inference -> Requests] /\ moves \in Nat
      /\ refresh \in {NoRefresh} \cup [under : {TRUE}, rates : [Model -> Rate \cup {Unknown}]]
  BY InferTypes DEF InferInv
<1>2. ASSUME NEW q \in Inference, NEW m \in Model, NEW stream \in BOOLEAN, NEW tokens \in Tokens,
             EstimateCost(q, m, stream, tokens)
      PROVE  InferInv'
  <2> DEFINE r == [pc |-> "asking", model |-> m, stream |-> stream,
                   estimate |-> AtLeastFloor(tokens * ModelRate(m))]
  <2>1. AtLeastFloor(tokens * ModelRate(m)) \in Nat /\ AtLeastFloor(tokens * ModelRate(m)) >= Floor
    BY <1>1, Costs
  <2>2. r \in Requests /\ r.pc = "asking" /\ r.estimate >= Floor
    BY <2>1 DEF Requests, Asking
  <2>3. infer' = [infer EXCEPT ![q] = r] /\ UNCHANGED <<rate, rateCache, refresh, moves>>
    BY <1>2 DEF EstimateCost
  <2>4. QED
    BY <2>2, <2>3, OneRequest
<1>3. ASSUME NEW q \in Inference, NEW ran \in Model, NEW took \in Tokens,
             NEW tells \in {"cost", "tokens", "nothing"}, OpenRouterAnswers(q, ran, took, tells)
      PROVE  InferInv'
  <2> DEFINE r == [pc |-> "served", model |-> infer[q].model, stream |-> infer[q].stream,
                   estimate |-> infer[q].estimate, ran |-> ran, took |-> took, tells |-> tells,
                   cost |-> took * rate[ran]]
  <2>1. infer[q] \in Asking /\ infer[q].estimate >= Floor
    BY <1>1, <1>3, InferKinds DEF OpenRouterAnswers, Requests, InferInv, BillOf
  <2>2. took \in Nat /\ rate[ran] \in Nat
    BY <1>1, InferAssumption DEF InferAssumption
  <2>3. took * rate[ran] \in Nat
    BY <2>2
  <2>4. r \in Requests /\ r.pc = "served" /\ r.estimate >= Floor
    BY <2>1, <2>3 DEF Requests, ServedCalls, Asking
  <2>5. infer' = [infer EXCEPT ![q] = r] /\ UNCHANGED <<rate, rateCache, refresh, moves>>
    BY <1>1, <1>3 DEF OpenRouterAnswers
  <2>6. QED
    BY <2>4, <2>5, OneRequest
<1>4. ASSUME NEW q \in Inference, OpenRouterRefuses(q) PROVE InferInv'
  <2>1. infer' = [infer EXCEPT ![q] = NotAsked] /\ UNCHANGED <<rate, rateCache, refresh, moves>>
    BY <1>4 DEF OpenRouterRefuses
  <2>2. NotAsked \in Requests /\ NotAsked.pc = "idle"
    BY DEF Requests, NotAsked
  <2>3. QED
    BY <2>1, <2>2, OneRequest
<1>5. ASSUME NEW q \in Inference, SettleChat(q) PROVE InferInv'
  BY <1>5, SettleInvInfer
<1>6. CASE ListModels
  <2>1. PICK listed \in SUBSET Model :
          refresh' = [under |-> TRUE,
                      rates |-> [m \in Model |-> IF m \in listed THEN rate[m] ELSE Unknown]]
    BY <1>6 DEF ListModels
  <2>2. [m \in Model |-> IF m \in listed THEN rate[m] ELSE Unknown] \in [Model -> Rate \cup {Unknown}]
    BY <1>1
  <2>3. refresh' \in [under : {TRUE}, rates : [Model -> Rate \cup {Unknown}]]
    BY <2>1, <2>2
  <2>4. UNCHANGED <<rate, rateCache, infer, moves>>
    BY <1>6 DEF ListModels
  <2>5. QED
    BY <1>1, <2>3, <2>4, RatesInv
<1>7. CASE RefreshModelPricing
  <2>1. refresh.rates \in [Model -> Rate \cup {Unknown}]
    BY <1>1, <1>7 DEF RefreshModelPricing
  <2>2. rateCache' \in [Model -> Rate \cup {Unknown}]
    BY <1>1, <1>7, <2>1 DEF RefreshModelPricing
  <2>3. UNCHANGED <<rate, infer, moves>> /\ refresh' = NoRefresh
    BY <1>7 DEF RefreshModelPricing
  <2>4. QED
    BY <1>1, <2>2, <2>3, RatesInv
<1>8. ASSUME NEW m \in Model, NEW x \in Rate, RatesMove(m, x) PROVE InferInv'
  <2>1. rate' \in [Model -> Rate] /\ moves' \in Nat /\ UNCHANGED <<rateCache, refresh, infer>>
    BY <1>1, <1>8 DEF RatesMove
  <2>2. QED
    BY <1>1, <2>1, RatesInv
<1>9. CASE InferRestarts
  <2>1. /\ rateCache' \in [Model -> Rate \cup {Unknown}] /\ refresh' = NoRefresh
        /\ UNCHANGED <<rate, moves>>
    BY <1>9 DEF InferRestarts
  <2>2. /\ infer' \in [Inference -> Requests]
        /\ \A q \in Inference : \/ infer'[q] = NotAsked
                                \/ infer'[q] = infer[q] /\ infer[q].pc = "billed"
    BY <1>1, <1>9 DEF InferRestarts, Requests
  <2>3. InferTypeOK'
    BY <1>1, <2>1, <2>2, InferTypes DEF InferTypeOK, Requests, Asking, ServedCalls, Billed
  <2>4. \A q \in Inference : BillOf(q)'
    BY <2>2, InferKinds DEF InferInv, BillOf, AtLeastFloor
  <2>5. QED
    BY <2>3, <2>4 DEF InferInv
<1>10. CASE UNCHANGED inferVars
  BY <1>1, <1>10, RatesInv DEF inferVars
<1>11. QED
  BY <1>2, <1>3, <1>4, <1>5, <1>6, <1>7, <1>8, <1>9, <1>10 DEF InferNext

(* A bill is what OpenRouter charged, where that can be known, and never   *)
(* below the minimum (pricing.ts:186-253, index.ts:163-232), for any       *)
(* models, rates and number of requests.                                   *)
THEOREM BillsAreTrue == InferSpec => []BilledAsRun
<1>1. InferInv => BilledAsRun
  BY DEF InferInv, BillOf, BilledAsRun
<1>2. QED
  BY InferInvInit, InferInvStep, <1>1, PTL DEF InferSpec
=============================================================================
