------------------------------ MODULE MemCache ------------------------------
(***************************************************************************)
(* mem.sh's cache (packages/mem/src/service.ts and db.ts): values of one   *)
(* wallet with times to live.  Every call is one synchronous stretch; what *)
(* has expired goes when it is read, or with some later write.             *)
(***************************************************************************)
EXTENDS Integers

CONSTANTS CacheKey,
          Ttl,            (* times to live, also Forever                   *)
          CacheEnd        (* bound: the last tick                          *)

Forever == -1             (* NULL: never expires                           *)
Absent  == -2             (* no entry                                      *)

ASSUME CacheAssumption == Ttl \subseteq Nat \cup {Forever} /\ CacheEnd \in Nat

VARIABLES cache,      (* cache_entries in SQLite: when they expire         *)
          cacheNow,   (* Date.now()                                        *)
          written     (* history: until when a key was last said to live,  *)
                      (* if nobody has deleted it                          *)

cacheVars == <<cache, cacheNow, written>>

Lifetime == Nat \cup {Forever, Absent}

CacheTypeOK ==
  /\ cache \in [CacheKey -> Lifetime] /\ written \in [CacheKey -> Lifetime]
  /\ cacheNow \in 0..CacheEnd

CacheInit ==
  /\ cache = [k \in CacheKey |-> Absent] /\ written = cache
  /\ cacheNow = 0

Over(end) == end \in Nat /\ end < cacheNow

(* Broken: an entry that expires now is past already.                      *)
SweptAtOnce(entries) ==
  [k \in CacheKey |-> IF entries[k] \in 0..cacheNow THEN Absent ELSE entries[k]]

(* deleteExpiredEntries, of all wallets.                                   *)
Swept(entries) == [k \in CacheKey |-> IF Over(entries[k]) THEN Absent ELSE entries[k]]

(* One write in ten sweeps, "to avoid deleting the entry we just inserted" *)
(* after it has been read back.                                            *)
CacheSet(k, ttl) ==
  /\ written' = [written EXCEPT ![k] = IF ttl = Forever THEN Forever ELSE cacheNow + ttl]
  /\ LET entries == [cache EXCEPT ![k] = written'[k]] IN cache' \in {entries, Swept(entries)}
  /\ UNCHANGED cacheNow

(* Reading deletes what has expired.                                       *)
CacheGet(k) ==
  /\ Over(cache[k])
  /\ cache' = [cache EXCEPT ![k] = Absent]
  /\ UNCHANGED <<cacheNow, written>>

CacheDelete(k) ==
  /\ cache[k] # Absent
  /\ cache' = [cache EXCEPT ![k] = Absent]
  /\ written' = [written EXCEPT ![k] = Absent]
  /\ UNCHANGED cacheNow

CacheTick == cacheNow < CacheEnd /\ cacheNow' = cacheNow + 1 /\ UNCHANGED <<cache, written>>

CacheNext ==
  \/ \E k \in CacheKey : CacheGet(k) \/ CacheDelete(k) \/ \E ttl \in Ttl : CacheSet(k, ttl)
  \/ CacheTick

CacheSpec == CacheInit /\ [][CacheNext]_cacheVars

-----------------------------------------------------------------------------
(* A value lives as long as it was said to, ttl = 0 included, whatever     *)
(* other keys are read, written, and swept with; and none comes back       *)
(* (service.ts:345-425, db.ts:162-213).                                    *)
ValuesLive ==
  \A k \in CacheKey :
    /\ ~ Over(written[k]) => cache[k] = written[k]
    /\ cache[k] \in {written[k], Absent}
=============================================================================
