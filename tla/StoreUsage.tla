----------------------------- MODULE StoreUsage -----------------------------
(***************************************************************************)
(* store.sh (packages/store/src/service.ts and db.ts): the buckets of a    *)
(* wallet, their objects in Cloudflare R2, and what the rows say of them:  *)
(* a quota, and how many bytes are in use, which every upload and deletion *)
(* adds to or takes from by the size the object had when it was asked for. *)
(*                                                                         *)
(* R2 is external.  Wallets share nothing, so there is one.                *)
(***************************************************************************)
EXTENDS Integers, FiniteSets, FiniteSetsExt

CONSTANTS Bucket,         (* ids; a bucket's name in R2 is made anew       *)
          BucketName,
          ObjectKey,
          Bytes,          (* sizes of uploads                              *)
          Quota,          (* what PUT /quota may set, also NoQuota         *)
          DefaultQuota,   (* DEFAULT_BUCKET_QUOTA                          *)
          MaxStorage,     (* MAX_STORAGE_PER_WALLET                        *)
          MaxBuckets,     (* MAX_BUCKETS_PER_WALLET                        *)
          Opened,         (* the rows of empty buckets a wallet may have   *)
                          (* at the start: a set of functions on Bucket    *)
          Transfer,       (* as many calls may be under way at once        *)
          TransferLimit   (* bound: calls                                  *)

NoQuota  == -1    (* NULL: no limit                                        *)
NoName   == "no name"
NoBucket == "no bucket"
NoKey    == "no key"

NoRow == [name |-> NoName, quota |-> NoQuota, usage |-> 0]
Row == [name : BucketName \cup {NoName}, quota : Nat \cup {NoQuota}, usage : Nat]

ASSUME StoreAssumption ==
  /\ Bytes \subseteq Nat \ {0} /\ Quota \subseteq Nat \cup {NoQuota}
  /\ DefaultQuota \in Nat /\ MaxStorage \in Nat
  /\ MaxBuckets \in Nat /\ TransferLimit \in Nat
  /\ Opened \subseteq [Bucket -> Row]
  /\ \A rows \in Opened : \A b \in Bucket : rows[b].usage = 0
  /\ NoName \notin BucketName /\ NoBucket \notin Bucket /\ NoKey \notin ObjectKey
  /\ IsFiniteSet(Bucket) /\ IsFiniteSet(ObjectKey)

VARIABLES bucket,     (* buckets in SQLite                                 *)
          r2,         (* external: the buckets and objects of R2           *)
          transfer,   (* the calls under way                               *)
          transfers,  (* calls so far                                      *)
          muddled,    (* history: buckets whose calls overlapped, failed   *)
                      (* half way, or did not say how much they wrote      *)
          raced       (* history: two calls overlapped in some bucket      *)

storeVars == <<bucket, r2, transfer, transfers, muddled, raced>>

NoTransfer == [pc |-> "idle", bucket |-> NoBucket, name |-> NoName, key |-> NoKey,
               size |-> 0, old |-> 0, tracked |-> TRUE, row |-> NoRow]

StoreTypeOK ==
  /\ bucket \in [Bucket -> Row]
  /\ r2 \in [Bucket -> [there : BOOLEAN, size : [ObjectKey -> Nat]]]
  /\ transfer \in [Transfer ->
       [pc      : {"idle", "create", "created", "drop", "dropped", "head", "headed", "put",
                   "stored", "find", "delete", "deleted", "list", "listed"},
        bucket  : Bucket \cup {NoBucket}, name : BucketName \cup {NoName},
        key     : ObjectKey \cup {NoKey}, size : Nat, old : Nat, tracked : BOOLEAN,
        row     : Row]]
  /\ transfers \in 0..TransferLimit
  /\ muddled \subseteq Bucket /\ raced \in BOOLEAN

StoreInit ==
  /\ bucket \in Opened
  /\ r2 = [b \in Bucket |-> [there |-> bucket[b] # NoRow, size |-> [k \in ObjectKey |-> 0]]]
  /\ transfer = [t \in Transfer |-> NoTransfer]
  /\ transfers = 0 /\ muddled = {} /\ raced = FALSE

Stored(b) == MapThenSumSet(LAMBDA k : r2[b].size[k], ObjectKey)

Rows == {b \in Bucket : bucket[b].name # NoName}

-----------------------------------------------------------------------------
Using(b) == \E t \in Transfer : transfer[t].pc # "idle" /\ transfer[t].bucket = b

Begins(t, b) ==
  /\ transfer[t].pc = "idle" /\ transfers < TransferLimit
  /\ transfers' = transfers + 1
  /\ raced' = (raced \/ \E u \in Transfer : transfer[u].pc # "idle")
  /\ UNCHANGED <<bucket, r2>>

Starts(t, b, what) ==
  /\ Begins(t, b)
  /\ transfer' = [transfer EXCEPT ![t] = what]
  /\ muddled' = IF Using(b) THEN muddled \cup {b} ELSE muddled

CreateBucket(t, b, n) ==
  /\ b \notin Rows /\ ~ r2[b].there /\ ~ Using(b)
  /\ Cardinality(Rows) < MaxBuckets
  /\ \A c \in Rows : bucket[c].name # n
  /\ Starts(t, b, [NoTransfer EXCEPT !.pc = "create", !.bucket = b, !.name = n])

DeleteBucket(t, b) ==
  b \in Rows /\ Starts(t, b, [NoTransfer EXCEPT !.pc = "drop", !.bucket = b])

(* An upload keeps the row as it is now.  Without a Content-Length it is   *)
(* refused where there is a quota, and else neither looked up nor counted. *)
PutObject(t, b, k, z, tracked) ==
  /\ b \in Rows
  /\ tracked \/ bucket[b].quota = NoQuota
  /\ Begins(t, b)
  /\ transfer' = [transfer EXCEPT ![t] =
       [NoTransfer EXCEPT !.pc = IF tracked THEN "head" ELSE "put", !.bucket = b,
                          !.key = k, !.size = z, !.tracked = tracked, !.row = bucket[b]]]
  /\ muddled' = IF Using(b) \/ ~ tracked THEN muddled \cup {b} ELSE muddled

DeleteObject(t, b, k) ==
  /\ b \in Rows
  /\ Starts(t, b, [NoTransfer EXCEPT !.pc = "find", !.bucket = b, !.key = k])

(* Reconciling makes up for whatever happened before it, if it is alone.   *)
ReconcileUsage(t, b) ==
  /\ b \in Rows
  /\ Begins(t, b)
  /\ transfer' = [transfer EXCEPT ![t] = [NoTransfer EXCEPT !.pc = "list", !.bucket = b]]
  /\ muddled' = IF Using(b) THEN muddled \cup {b} ELSE muddled \ {b}

-----------------------------------------------------------------------------
(* External: what R2 does.  It drops empty buckets only; a listing is one  *)
(* page.                                                                   *)
R2Does(t, b, k) ==
  LET To(place) == transfer' = [transfer EXCEPT ![t].pc = place]
      Finds(place, n) == transfer' = [transfer EXCEPT ![t].pc = place, ![t].old = n]
                           /\ UNCHANGED r2
      Holds(n) == r2' = [r2 EXCEPT ![b].size[k] = n] IN
  \/ /\ transfer[t].pc = "create" /\ To("created")
     /\ r2' = [r2 EXCEPT ![b].there = TRUE]
  \/ /\ transfer[t].pc # "idle" /\ r2[b].there
     /\ \/ /\ transfer[t].pc = "drop" /\ Stored(b) = 0 /\ To("dropped")
           /\ r2' = [r2 EXCEPT ![b].there = FALSE]
        \/ transfer[t].pc = "head" /\ Finds("headed", r2[b].size[k])
        \/ transfer[t].pc = "find" /\ Finds("delete", r2[b].size[k])
        \/ transfer[t].pc = "put" /\ To("stored") /\ Holds(transfer[t].size)
        \/ transfer[t].pc = "delete" /\ To("deleted") /\ Holds(0)
        \/ transfer[t].pc = "list" /\ Finds("listed", Stored(b))

R2Serves(t) ==
  /\ R2Does(t, transfer[t].bucket, transfer[t].key)
  /\ UNCHANGED <<bucket, transfers, muddled, raced>>

EndTransfer(t) == transfer' = [transfer EXCEPT ![t] = NoTransfer]

Muddle(t) == muddled' = muddled \cup {transfer[t].bucket}

(* An error: the call ends, but where it was only looking for the object's *)
(* size: "assume new object".                                              *)
R2Refuses(t) ==
  /\ \/ transfer[t].pc \in {"create", "drop", "put", "delete"}
        /\ EndTransfer(t) /\ UNCHANGED muddled
     \/ transfer[t].pc = "list" /\ EndTransfer(t) /\ Muddle(t)
     \/ /\ transfer[t].pc \in {"head", "find"}
        /\ transfer' = [transfer EXCEPT ![t].pc = IF @ = "head" THEN "headed" ELSE "delete"]
        /\ Muddle(t)
  /\ UNCHANGED <<bucket, r2, transfers, raced>>

(* R2 has done it, and the answer gets lost or the process dies.           *)
LoseTransfer(t) ==
  /\ transfer[t].pc \in {"created", "dropped", "stored", "deleted", "listed"}
  /\ EndTransfer(t) /\ Muddle(t)
  /\ UNCHANGED <<bucket, r2, transfers, raced>>

-----------------------------------------------------------------------------
WalletUsage == MapThenSumSet(LAMBDA b : bucket[b].usage, Rows)

(* Broken: what is in use fits, whatever is coming.                        *)
FitsBefore(x) ==
  /\ x.row.quota = NoQuota \/ (x.row.quota # 0 /\ x.row.usage <= x.row.quota)
  /\ WalletUsage <= MaxStorage

(* The quota and the usage are the row's before R2 was asked, the wallet's *)
(* total is of now.                                                        *)
Fits(x) ==
  /\ \/ x.row.quota = NoQuota
     \/ x.row.quota # 0 /\ x.row.usage + x.size - x.old <= x.row.quota
  /\ WalletUsage + x.size - x.old <= MaxStorage

CheckQuota(t) ==
  /\ transfer[t].pc = "headed"
  /\ IF Fits(transfer[t]) THEN transfer' = [transfer EXCEPT ![t].pc = "put"] ELSE EndTransfer(t)
  /\ UNCHANGED <<bucket, r2, transfers, muddled, raced>>

(* Broken: usage may fall below nothing.                                   *)
CountUnfloored(b, delta) ==
  bucket' = [bucket EXCEPT ![b].usage = IF b \notin Rows THEN @ ELSE @ + delta]

(* incrementUsage and decrementUsage, of a row that is still there.        *)
Count(b, delta) ==
  bucket' = [bucket EXCEPT ![b].usage =
               IF b \notin Rows THEN @ ELSE IF @ + delta < 0 THEN 0 ELSE @ + delta]

(* Broken: an overwriting upload is counted in full.                       *)
AccountInFull(t) ==
  /\ transfer[t].pc = "stored"
  /\ Count(transfer[t].bucket, transfer[t].size)
  /\ EndTransfer(t)
  /\ UNCHANGED <<r2, transfers, muddled, raced>>

Account(t) ==
  /\ transfer[t].pc = "stored"
  /\ IF transfer[t].tracked
     THEN Count(transfer[t].bucket, transfer[t].size - transfer[t].old)
     ELSE UNCHANGED bucket
  /\ EndTransfer(t)
  /\ UNCHANGED <<r2, transfers, muddled, raced>>

Discount(t) ==
  /\ transfer[t].pc = "deleted"
  /\ Count(transfer[t].bucket, - transfer[t].old)
  /\ EndTransfer(t)
  /\ UNCHANGED <<r2, transfers, muddled, raced>>

SetUsage(t) ==
  /\ transfer[t].pc = "listed"
  /\ LET b == transfer[t].bucket IN
     bucket' = IF b \in Rows THEN [bucket EXCEPT ![b].usage = transfer[t].old] ELSE bucket
  /\ EndTransfer(t)
  /\ UNCHANGED <<r2, transfers, muddled, raced>>

(* insertBucket, which throws when the name was taken meanwhile, and the   *)
(* default quota.                                                          *)
InsertBucket(t) ==
  /\ transfer[t].pc = "created"
  /\ LET b == transfer[t].bucket IN
     \/ /\ \A c \in Rows : bucket[c].name # transfer[t].name
        /\ bucket' = [bucket EXCEPT ![b] =
             [name |-> transfer[t].name, quota |-> DefaultQuota, usage |-> 0]]
     \/ /\ \E c \in Rows : bucket[c].name = transfer[t].name
        /\ UNCHANGED bucket
  /\ EndTransfer(t)
  /\ UNCHANGED <<r2, transfers, muddled, raced>>

DropRow(t) ==
  /\ transfer[t].pc = "dropped"
  /\ bucket' = [bucket EXCEPT ![transfer[t].bucket] = NoRow]
  /\ EndTransfer(t)
  /\ UNCHANGED <<r2, transfers, muddled, raced>>

-----------------------------------------------------------------------------
SetQuotaForBucket(b, q) ==
  /\ b \in Rows
  /\ bucket' = [bucket EXCEPT ![b].quota = q]
  /\ muddled' = IF Using(b) THEN muddled \cup {b} ELSE muddled
  /\ UNCHANGED <<r2, transfer, transfers, raced>>

(* Somebody uses a URL signed by presignObject: R2 takes the object, and   *)
(* nobody counts it.                                                       *)
PresignedPut(b, k, z) ==
  /\ b \in Rows /\ r2[b].there /\ transfers < TransferLimit
  /\ transfers' = transfers + 1
  /\ r2' = [r2 EXCEPT ![b].size[k] = z]
  /\ muddled' = muddled \cup {b}
  /\ UNCHANGED <<bucket, transfer, raced>>

StoreStep(t) ==
  \/ \E b \in Bucket :
       \/ \E n \in BucketName : CreateBucket(t, b, n)
       \/ DeleteBucket(t, b) \/ ReconcileUsage(t, b)
       \/ \E k \in ObjectKey : DeleteObject(t, b, k)
       \/ \E k \in ObjectKey, z \in Bytes, tracked \in BOOLEAN : PutObject(t, b, k, z, tracked)
  \/ R2Serves(t) \/ R2Refuses(t) \/ LoseTransfer(t)
  \/ CheckQuota(t) \/ Account(t) \/ Discount(t) \/ SetUsage(t)
  \/ InsertBucket(t) \/ DropRow(t)

StoreNext ==
  \/ \E t \in Transfer : StoreStep(t)
  \/ \E b \in Bucket :
       \/ \E q \in Quota : SetQuotaForBucket(b, q)
       \/ \E k \in ObjectKey, z \in Bytes : PresignedPut(b, k, z)

StoreSpec == StoreInit /\ [][StoreNext]_storeVars

-----------------------------------------------------------------------------
(* As long as a bucket's calls come one after another, or somebody has     *)
(* reconciled it since, the row says what R2 holds, whatever was uploaded, *)
(* overwritten, deleted, or refused (service.ts:269-364, 396-432, 581-619).*)
UsageIsExact ==
  \A b \in Rows \ muddled : ~ Using(b) => bucket[b].usage = Stored(b)

(* Calls that do not overlap grow a bucket up to its quota, and the wallet *)
(* up to its cap, and no further (service.ts:315-340).                     *)
UploadsFit ==
  [][\A b \in Bucket : b \notin muddled' /\ Stored(b)' > Stored(b) =>
       /\ bucket[b].quota = NoQuota \/ Stored(b)' <= bucket[b].quota
       /\ ~ raced /\ muddled = {} =>
            MapThenSumSet(Stored, Rows)' <= MaxStorage]_storeVars
=============================================================================
