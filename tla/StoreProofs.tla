---------------------------- MODULE StoreProofs -----------------------------
(***************************************************************************)
(* store.sh, for any number of buckets, objects and calls, of any sizes:   *)
(* what the rows say is what R2 holds, and uploads stay within quota and   *)
(* cap.  Sums come first: what is stored and what is used are sums, of     *)
(* which the library's folds say what they are but no more.                *)
(*                                                                         *)
(* At the end, the services side by side: they keep what each keeps alone. *)
(***************************************************************************)
EXTENDS MCServices, ClientProofs, ServicesProofs, WellFoundedInduction

(* The sum of a function's values over a set, as it is defined: by taking  *)
(* one element away after the other.                                       *)
SumOver(f, S) == MapThenSumSet(LAMBDA x : f[x], S)

OneOf(s) == CHOOSE x \in s : TRUE

SumsUpTo(f, S, g) ==
  g = [s \in SUBSET S |-> IF s = {} THEN 0 ELSE f[OneOf(s)] + g[s \ {OneOf(s)}]]

LEMMA SumIsIt ==
  ASSUME NEW f, NEW S
  PROVE  SumOver(f, S) = (CHOOSE g : SumsUpTo(f, S, g))[S]
BY DEF SumOver, SumsUpTo, MapThenSumSet, MapThenFoldSet, OneOf

(* A set of finite sets has a member none of whose parts it has.           *)
LEMMA SmallestSet ==
  ASSUME NEW S, IsFiniteSet(S), NEW T, T \subseteq SUBSET S, T # {}
  PROVE  \E t \in T : \A u \in T : u \subseteq t => u = t
<1>1. SUBSET S \subseteq FiniteSubsetsOf(S)
  BY FS_Subset DEF FiniteSubsetsOf
<1>2. PICK t \in T : \A u \in T : ~ (<<u, t>> \in StrictSubsetOrdering(S))
  BY <1>1, FS_StrictSubsetOrderingWellFounded, WFMin
<1>3. QED
  BY <1>1, <1>2 DEF StrictSubsetOrdering

LEMMA SumUnique ==
  ASSUME NEW f, NEW S, IsFiniteSet(S), NEW g, NEW h, SumsUpTo(f, S, g), SumsUpTo(f, S, h)
  PROVE  g = h
<1> DEFINE T == {s \in SUBSET S : g[s] # h[s]}
<1>1. CASE T = {}
  <2>1. \A s \in SUBSET S : g[s] = h[s]
    BY <1>1
  <2>2. QED
    BY <2>1 DEF SumsUpTo
<1>2. CASE T # {}
  <2>0. \E t \in T : \A u \in T : u \subseteq t => u = t
    <3>1. T \subseteq SUBSET S
      OBVIOUS
    <3> HIDE DEF T
    <3>2. QED
      BY <1>2, <3>1, SmallestSet
  <2>1. PICK t \in T : \A u \in T : u \subseteq t => u = t
    BY <2>0
  <2>2. CASE t = {}
    BY <2>1, <2>2 DEF SumsUpTo
  <2>3. CASE t # {}
    <3>1. OneOf(t) \in t
      BY <2>3 DEF OneOf
    <3>2. t \ {OneOf(t)} \notin T /\ t \ {OneOf(t)} \in SUBSET S
      BY <2>1, <3>1
    <3>3. g[t \ {OneOf(t)}] = h[t \ {OneOf(t)}]
      BY <3>2
    <3>4. QED
      BY <2>1, <2>3, <3>3 DEF SumsUpTo
  <2>4. QED
    BY <2>2, <2>3
<1>3. QED
  BY <1>1, <1>2

LEMMA SumOfPart ==
  ASSUME NEW f, NEW S, IsFiniteSet(S), NEW g, SumsUpTo(f, S, g), NEW s, s \subseteq S,
         NEW h, SumsUpTo(f, s, h)
  PROVE  g[s] = h[s]
<1> DEFINE k == [q \in SUBSET s |-> g[q]]
<1>1. \A q \in SUBSET s : /\ q \in SUBSET S
                          /\ q \ {OneOf(q)} \in SUBSET s
  OBVIOUS
<1>2. \A q \in SUBSET s : k[q] = IF q = {} THEN 0 ELSE f[OneOf(q)] + k[q \ {OneOf(q)}]
  BY <1>1 DEF SumsUpTo
<1>3. SumsUpTo(f, s, k)
  <2>1. k = [q \in SUBSET s |-> k[q]]
    OBVIOUS
  <2> HIDE DEF k
  <2>2. QED
    BY <1>2, <2>1 DEF SumsUpTo
<1>4. k = h
  BY <1>3, SumUnique, FS_Subset
<1>5. QED
  BY <1>4

LEMMA SumExists ==
  ASSUME NEW f, NEW S, IsFiniteSet(S)
  PROVE  \E g : SumsUpTo(f, S, g)
<1> DEFINE Of(s) == CHOOSE g : SumsUpTo(f, s, g)
           T == {s \in SUBSET S : ~ \E g : SumsUpTo(f, s, g)}
<1>1. CASE T = {}
  BY <1>1
<1>2. CASE T # {}
  <2>0. \E t \in T : \A u \in T : u \subseteq t => u = t
    <3>1. T \subseteq SUBSET S
      OBVIOUS
    <3> HIDE DEF T
    <3>2. QED
      BY <1>2, <3>1, SmallestSet
  <2>1. PICK t \in T : \A u \in T : u \subseteq t => u = t
    BY <2>0
  <2>2. \A s \in SUBSET t : s # t => SumsUpTo(f, s, Of(s))
    BY <2>1
  <2> DEFINE g == [s \in SUBSET t |-> IF s = {} THEN 0
                     ELSE f[OneOf(s)] + Of(s \ {OneOf(s)})[s \ {OneOf(s)}]]
  <2> HIDE DEF Of
  <2>3. ASSUME NEW r \in SUBSET t, r # t PROVE g[r] = Of(r)[r]
    <3>1. SumsUpTo(f, r, Of(r))
      BY <2>2, <2>3
    <3>2. CASE r = {}
      BY <3>1, <3>2 DEF SumsUpTo
    <3>3. CASE r # {}
      <4>1. OneOf(r) \in r
        BY <3>3 DEF OneOf
      <4> DEFINE q == r \ {OneOf(r)}
      <4>2. q \subseteq r /\ q # t /\ q \in SUBSET t
        BY <2>3, <4>1
      <4>3. SumsUpTo(f, q, Of(q))
        BY <2>2, <4>2
      <4>4. IsFiniteSet(r)
        BY <2>1, FS_Subset
      <4>5. Of(r)[q] = Of(q)[q]
        BY <3>1, <4>2, <4>3, <4>4, SumOfPart
      <4>6. Of(r)[r] = f[OneOf(r)] + Of(r)[q]
        BY <3>1, <3>3 DEF SumsUpTo
      <4>7. QED
        BY <3>3, <4>5, <4>6
    <3>4. QED
      BY <3>2, <3>3
  <2>4. ASSUME NEW s \in SUBSET t
        PROVE  g[s] = IF s = {} THEN 0 ELSE f[OneOf(s)] + g[s \ {OneOf(s)}]
    <3>1. CASE s = {}
      BY <3>1
    <3>2. CASE s # {}
      <4>1. OneOf(s) \in s
        BY <3>2 DEF OneOf
      <4> DEFINE q == s \ {OneOf(s)}
      <4>2. q \in SUBSET t /\ q # t
        BY <4>1
      <4>3. g[q] = Of(q)[q]
        BY <2>3, <4>2
      <4>4. QED
        BY <3>2, <4>3
    <3>3. QED
      BY <3>1, <3>2
  <2>5. g = [s \in SUBSET t |-> g[s]]
    OBVIOUS
  <2> HIDE DEF g
  <2>6. SumsUpTo(f, t, g)
    BY <2>4, <2>5 DEF SumsUpTo
  <2>7. QED
    BY <2>1, <2>6
<1>3. QED
  BY <1>1, <1>2
LEMMA SumOverIs ==
  ASSUME NEW f, NEW S, IsFiniteSet(S), NEW g, SumsUpTo(f, S, g)
  PROVE  SumOver(f, S) = g[S]
<1> DEFINE h == CHOOSE k : SumsUpTo(f, S, k)
<1>1. SumsUpTo(f, S, h)
  OBVIOUS
<1>2. SumOver(f, S) = h[S]
  BY SumIsIt
<1> HIDE DEF h
<1>3. QED
  BY <1>1, <1>2, SumUnique

LEMMA SumOfNothing ==
  ASSUME NEW f
  PROVE  SumOver(f, {}) = 0
<1>1. IsFiniteSet({})
  BY FS_EmptySet
<1>2. PICK g : SumsUpTo(f, {}, g)
  BY <1>1, SumExists
<1>3. g[{}] = 0
  BY <1>2 DEF SumsUpTo
<1>4. QED
  BY <1>1, <1>2, <1>3, SumOverIs

LEMMA SumOfMore ==
  ASSUME NEW f, NEW S, IsFiniteSet(S), S # {}
  PROVE  /\ OneOf(S) \in S
         /\ SumOver(f, S) = f[OneOf(S)] + SumOver(f, S \ {OneOf(S)})
<1>1. OneOf(S) \in S
  BY DEF OneOf
<1> DEFINE R == S \ {OneOf(S)}
<1>2. IsFiniteSet(R) /\ R \subseteq S
  BY FS_Subset
<1>3. PICK g : SumsUpTo(f, S, g)
  BY SumExists
<1>4. PICK h : SumsUpTo(f, R, h)
  BY <1>2, SumExists
<1>5. g[S] = f[OneOf(S)] + g[R]
  BY <1>3 DEF SumsUpTo
<1> HIDE DEF R
<1>6. g[R] = h[R]
  BY <1>2, <1>3, <1>4, SumOfPart
<1>7. SumOver(f, S) = g[S] /\ SumOver(f, R) = h[R]
  BY <1>2, <1>3, <1>4, SumOverIs
<1>8. QED
  BY <1>1, <1>5, <1>6, <1>7 DEF R

LEMMA SumIsNat ==
  ASSUME NEW f, NEW S, IsFiniteSet(S), \A x \in S : f[x] \in Nat
  PROVE  SumOver(f, S) \in Nat
<1> DEFINE T == {s \in SUBSET S : SumOver(f, s) \notin Nat}
<1>1. CASE T = {}
  BY <1>1
<1>2. CASE T # {}
  <2>1. T \subseteq SUBSET S
    OBVIOUS
  <2>2. PICK t \in T : \A u \in T : u \subseteq t => u = t
    <3> HIDE DEF T
    <3>1. QED
      BY <1>2, <2>1, SmallestSet
  <2>3. t # {}
    <3>1. SumOver(f, {}) \in Nat
      BY SumOfNothing
    <3>2. QED
      BY <2>2, <3>1
  <2>4. IsFiniteSet(t)
    BY <2>1, FS_Subset
  <2>5. /\ OneOf(t) \in t
        /\ SumOver(f, t) = f[OneOf(t)] + SumOver(f, t \ {OneOf(t)})
    BY <2>3, <2>4, SumOfMore
  <2>6. t \ {OneOf(t)} \notin T /\ t \ {OneOf(t)} \in SUBSET S
    BY <2>2, <2>5
  <2>7. SumOver(f, t \ {OneOf(t)}) \in Nat /\ f[OneOf(t)] \in Nat
    BY <2>5, <2>6
  <2>8. SumOver(f, t) \in Nat
    BY <2>5, <2>7
  <2>9. QED
    BY <2>8
<1>3. QED
  BY <1>1, <1>2

LEMMA SumWithout ==
  ASSUME NEW f, NEW S, IsFiniteSet(S), \A y \in S : f[y] \in Nat, NEW x \in S
  PROVE  SumOver(f, S) = f[x] + SumOver(f, S \ {x})
<1> DEFINE Off(s) == \E y \in s : SumOver(f, s) # f[y] + SumOver(f, s \ {y})
           T == {s \in SUBSET S : Off(s)}
<1>1. CASE T = {}
  BY <1>1
<1>2. CASE T # {}
  <2>1. T \subseteq SUBSET S
    OBVIOUS
  <2>2. PICK t \in T : \A u \in T : u \subseteq t => u = t
    <3> HIDE DEF T
    <3>1. QED
      BY <1>2, <2>1, SmallestSet
  <2>3. PICK y \in t : SumOver(f, t) # f[y] + SumOver(f, t \ {y})
    BY <2>2
  <2>4. IsFiniteSet(t)
    BY <2>1, FS_Subset
  <2> DEFINE z == OneOf(t)
  <2>5. z \in t /\ SumOver(f, t) = f[z] + SumOver(f, t \ {z})
    BY <2>3, <2>4, SumOfMore
  <2>6. y # z
    BY <2>3, <2>5
  <2> HIDE DEF z
  <2>7. /\ t \ {z} \in SUBSET S /\ t \ {y} \in SUBSET S
        /\ ~ Off(t \ {z}) /\ ~ Off(t \ {y})
    BY <2>2, <2>3, <2>5
  <2>8. SumOver(f, t \ {z}) = f[y] + SumOver(f, (t \ {z}) \ {y})
    BY <2>3, <2>6, <2>7
  <2>9. SumOver(f, t \ {y}) = f[z] + SumOver(f, (t \ {y}) \ {z})
    BY <2>5, <2>6, <2>7
  <2>10. (t \ {z}) \ {y} = (t \ {y}) \ {z}
    OBVIOUS
  <2>11. /\ f[y] \in Nat /\ f[z] \in Nat
         /\ SumOver(f, (t \ {y}) \ {z}) \in Nat
    <3>1. IsFiniteSet((t \ {y}) \ {z}) /\ \A q \in (t \ {y}) \ {z} : f[q] \in Nat
      BY <2>4, FS_Subset
    <3>2. QED
      BY <2>3, <2>5, <3>1, SumIsNat
  <2>12. SumOver(f, t) = f[y] + SumOver(f, t \ {y})
    <3> DEFINE n == SumOver(f, (t \ {y}) \ {z})
    <3>1. /\ SumOver(f, t) = f[z] + (f[y] + n)
          /\ SumOver(f, t \ {y}) = f[z] + n
      BY <2>5, <2>8, <2>9, <2>10
    <3>2. n \in Nat
      BY <2>11
    <3> HIDE DEF n
    <3>3. QED
      BY <2>11, <3>1, <3>2
  <2>13. QED
    BY <2>3, <2>12
<1>3. QED
  BY <1>1, <1>2

LEMMA SameSum ==
  ASSUME NEW f, NEW g, NEW S, IsFiniteSet(S), \A x \in S : f[x] = g[x]
  PROVE  SumOver(f, S) = SumOver(g, S)
<1> DEFINE T == {s \in SUBSET S : SumOver(f, s) # SumOver(g, s)}
<1>1. CASE T = {}
  BY <1>1
<1>2. CASE T # {}
  <2>1. T \subseteq SUBSET S
    OBVIOUS
  <2>2. PICK t \in T : \A u \in T : u \subseteq t => u = t
    <3> HIDE DEF T
    <3>1. QED
      BY <1>2, <2>1, SmallestSet
  <2>3. t # {}
    BY <2>2, SumOfNothing
  <2>4. IsFiniteSet(t)
    BY <2>1, FS_Subset
  <2>5. /\ OneOf(t) \in t
        /\ SumOver(f, t) = f[OneOf(t)] + SumOver(f, t \ {OneOf(t)})
        /\ SumOver(g, t) = g[OneOf(t)] + SumOver(g, t \ {OneOf(t)})
    BY <2>3, <2>4, SumOfMore
  <2>6. t \ {OneOf(t)} \notin T /\ t \ {OneOf(t)} \in SUBSET S
    BY <2>2, <2>5
  <2>7. QED
    BY <2>2, <2>5, <2>6
<1>3. QED
  BY <1>1, <1>2

(* One value changes, and the sum by as much.                              *)
LEMMA SumChanges ==
  ASSUME NEW f, NEW g, NEW S, IsFiniteSet(S), NEW x \in S,
         \A y \in S : f[y] \in Nat /\ g[y] \in Nat,
         \A y \in S \ {x} : f[y] = g[y]
  PROVE  SumOver(g, S) = SumOver(f, S) - f[x] + g[x]
<1>1. IsFiniteSet(S \ {x})
  BY FS_Subset
<1>2. SumOver(f, S \ {x}) = SumOver(g, S \ {x})
  BY <1>1, SameSum
<1>3. SumOver(f, S \ {x}) \in Nat
  BY <1>1, SumIsNat
<1>4. /\ SumOver(f, S) = f[x] + SumOver(f, S \ {x})
      /\ SumOver(g, S) = g[x] + SumOver(g, S \ {x})
  BY SumWithout
<1>5. f[x] \in Nat /\ g[x] \in Nat
  OBVIOUS
<1>6. QED
  BY <1>2, <1>3, <1>4, <1>5

(* A sum of nothing but naturals is nothing when all of them are.          *)
LEMMA NoSum ==
  ASSUME NEW f, NEW S, IsFiniteSet(S), \A y \in S : f[y] \in Nat, SumOver(f, S) = 0,
         NEW x \in S
  PROVE  f[x] = 0
<1>1. SumOver(f, S \ {x}) \in Nat /\ f[x] \in Nat
  BY FS_Subset, SumIsNat
<1>2. QED
  BY <1>1, SumWithout
(* Nothing but zeros come to nothing.                                      *)
LEMMA SumOfZeros ==
  ASSUME NEW f, NEW S, IsFiniteSet(S), \A x \in S : f[x] = 0
  PROVE  SumOver(f, S) = 0
<1> DEFINE T == {s \in SUBSET S : SumOver(f, s) # 0}
<1>1. CASE T = {}
  BY <1>1
<1>2. CASE T # {}
  <2>1. T \subseteq SUBSET S
    OBVIOUS
  <2>2. PICK t \in T : \A u \in T : u \subseteq t => u = t
    <3> HIDE DEF T
    <3>1. QED
      BY <1>2, <2>1, SmallestSet
  <2>3. t # {}
    BY <2>2, SumOfNothing
  <2>4. IsFiniteSet(t)
    BY <2>1, FS_Subset
  <2>5. /\ OneOf(t) \in t
        /\ SumOver(f, t) = f[OneOf(t)] + SumOver(f, t \ {OneOf(t)})
    BY <2>3, <2>4, SumOfMore
  <2>6. t \ {OneOf(t)} \notin T /\ t \ {OneOf(t)} \in SUBSET S
    BY <2>2, <2>5
  <2>7. SumOver(f, t \ {OneOf(t)}) = 0 /\ f[OneOf(t)] = 0
    BY <2>5, <2>6
  <2>8. SumOver(f, t) = 0
    BY <2>5, <2>7
  <2>9. QED
    BY <2>8
<1>3. QED
  BY <1>1, <1>2

Busy(t) == transfer[t].pc # "idle"

UsedBy(t, b) == Busy(t) /\ transfer[t].bucket = b

(* What a call was asked for.                                              *)
Asked(x) ==
  /\ x.pc # "idle" => x.bucket \in Bucket
  /\ x.pc \in {"create", "created"} => x.name \in BucketName
  /\ x.pc \in {"head", "headed", "put", "stored", "find", "delete", "deleted"} =>
       x.key \in ObjectKey

(* What a call that is alone in its bucket knows of the bucket's row r,    *)
(* and of R2, where the objects have sizes s and n bytes together.         *)
Known(x, r, s, n) ==
  /\ x.pc \in {"create", "created"} <=> r.name = NoName
  /\ x.pc \in {"drop", "head", "headed", "put", "find", "delete"} => r.usage = n
  /\ x.pc = "dropped" => n = 0
  /\ x.pc \in {"headed", "put", "delete"} => x.old = s[x.key]
  /\ x.pc \in {"head", "headed", "put", "stored"} => x.tracked
  /\ x.pc \in {"head", "headed", "put"} => x.row = r
  /\ x.pc = "put" => r.quota = NoQuota \/ n + x.size - x.old <= r.quota
  /\ x.pc = "stored" => n = r.usage - x.old + x.size
  /\ x.pc = "deleted" => n = r.usage - x.old
  /\ x.pc = "listed" => x.old = n

(* A bucket that is not muddled is used by one call at a time, and counted *)
(* in between.                                                             *)
Ordered(b) ==
  /\ \A t, u \in Transfer : UsedBy(t, b) /\ UsedBy(u, b) => t = u
  /\ b \notin Rows => Stored(b) = 0
  /\ b \in Rows /\ ~ Using(b) => bucket[b].usage = Stored(b)
  /\ \A t \in Transfer : UsedBy(t, b) => Known(transfer[t], bucket[b], r2[b].size, Stored(b))

(* An upload that is let through fits in what the wallet may have.         *)
Allowed(t) ==
  transfer[t].pc = "put" /\ transfer[t].bucket \notin muddled /\ ~ raced =>
    WalletUsage + transfer[t].size - transfer[t].old <= MaxStorage

StoreInv ==
  /\ StoreTypeOK
  /\ \A t \in Transfer : Asked(transfer[t]) /\ Allowed(t)
  /\ ~ raced => \A t, u \in Transfer : Busy(t) /\ Busy(u) => t = u
  /\ \A b \in Bucket \ muddled : Ordered(b)

LEMMA StoredIs ==
  ASSUME NEW b
  PROVE  /\ Stored(b) = SumOver(r2[b].size, ObjectKey)
         /\ Stored(b)' = SumOver(r2'[b].size, ObjectKey)
BY DEF Stored, SumOver, MapThenSumSet, MapThenFoldSet

LEMMA StoredIsNat ==
  ASSUME NEW b \in Bucket
  PROVE  /\ StoreTypeOK => Stored(b) \in Nat
         /\ StoreTypeOK' => Stored(b)' \in Nat
<1>1. IsFiniteSet(ObjectKey)
  BY StoreAssumption DEF StoreAssumption
<1>2. StoreTypeOK => \A k \in ObjectKey : r2[b].size[k] \in Nat
  BY DEF StoreTypeOK
<1>3. StoreTypeOK' => \A k \in ObjectKey : r2'[b].size[k] \in Nat
  BY DEF StoreTypeOK
<1>4. QED
  BY <1>1, <1>2, <1>3, StoredIs, SumIsNat

(* What the rows say, all together.                                        *)
LEMMA UsageIsSum ==
  ASSUME NEW table, NEW S, IsFiniteSet(S), NEW f, \A b \in S : f[b] = table[b].usage
  PROVE  MapThenSumSet(LAMBDA b : table[b].usage, S) = SumOver(f, S)
<1> DEFINE Sums(g) == g = [s \in SUBSET S |-> IF s = {} THEN 0
                             ELSE table[OneOf(s)].usage + g[s \ {OneOf(s)}]]
           h == CHOOSE g : Sums(g)
<1>1. MapThenSumSet(LAMBDA b : table[b].usage, S) = h[S]
  BY DEF MapThenSumSet, MapThenFoldSet, OneOf
<1>2. ASSUME NEW s \in SUBSET S, s # {} PROVE f[OneOf(s)] = table[OneOf(s)].usage
  BY <1>2 DEF OneOf
<1>3. PICK k : SumsUpTo(f, S, k)
  BY SumExists
<1>4. Sums(k)
  BY <1>2, <1>3 DEF SumsUpTo
<1>5. Sums(h)
  BY <1>4
<1> HIDE DEF h
<1>6. SumsUpTo(f, S, h)
  BY <1>2, <1>5 DEF SumsUpTo
<1>7. QED
  BY <1>1, <1>6, SumOverIs

UsageOf(table) == [b \in Bucket |-> table[b].usage]

LEMMA WalletUsageIs ==
  /\ WalletUsage = SumOver(UsageOf(bucket), Rows)
  /\ WalletUsage' = SumOver(UsageOf(bucket'), Rows')
<1>1. IsFiniteSet(Rows) /\ IsFiniteSet(Rows')
  BY StoreAssumption, FS_Subset DEF StoreAssumption, Rows
<1>2. /\ \A b \in Rows : UsageOf(bucket)[b] = bucket[b].usage
      /\ \A b \in Rows' : UsageOf(bucket')[b] = bucket'[b].usage
  BY DEF Rows, UsageOf
<1>3. /\ WalletUsage = MapThenSumSet(LAMBDA b : bucket[b].usage, Rows)
      /\ WalletUsage' = MapThenSumSet(LAMBDA b : bucket'[b].usage, Rows')
  BY DEF WalletUsage, MapThenSumSet, MapThenFoldSet
<1>4. QED
  BY <1>1, <1>2, <1>3, UsageIsSum

(* As long as the rows keep their usage, so does the wallet.               *)
LEMMA WalletUsageStays ==
  ASSUME Rows' = Rows, \A b \in Bucket : bucket'[b].usage = bucket[b].usage
  PROVE  WalletUsage' = WalletUsage
<1>1. UsageOf(bucket') = UsageOf(bucket)
  BY DEF UsageOf
<1>2. QED
  BY <1>1, WalletUsageIs

-----------------------------------------------------------------------------
(* A call goes on, or ends.                                                *)
LEMMA CallGoesOn ==
  ASSUME StoreInv, StoreTypeOK', NEW t \in Transfer, Busy(t), NEW b, b = transfer[t].bucket,
         NEW y, y.pc = "idle" \/ y.bucket = b, Asked(y),
         transfer' = [transfer EXCEPT ![t] = y],
         raced' = raced, muddled \subseteq muddled',
         \A c \in Bucket \ {b} : bucket'[c] = bucket[c] /\ r2'[c].size = r2[c].size,
         y.pc = "put" /\ b \notin muddled' /\ ~ raced =>
           WalletUsage' + y.size - y.old <= MaxStorage,
         b \notin muddled' =>
           /\ b \notin Rows' => Stored(b)' = 0
           /\ y.pc = "idle" /\ b \in Rows' => bucket'[b].usage = Stored(b)'
           /\ y.pc # "idle" => Known(y, bucket'[b], r2'[b].size, Stored(b)')
  PROVE  StoreInv'
<1>1. transfer'[t] = y /\ \A u \in Transfer : u # t => transfer'[u] = transfer[u]
  BY DEF StoreInv, StoreTypeOK
<1>2. b \in Bucket
  BY DEF StoreInv, Asked, Busy
<1>3. \A u \in Transfer : Asked(transfer'[u])
  BY <1>1 DEF StoreInv
<1>4. ASSUME NEW u \in Transfer PROVE Allowed(u)'
  <2>1. CASE u = t
    BY <1>1, <2>1 DEF Allowed
  <2>2. CASE u # t
    <3>1. transfer'[u].pc = "put" => raced
      BY <1>1, <2>2 DEF StoreInv, Busy
    <3>2. QED
      BY <3>1 DEF Allowed
  <2>3. QED
    BY <2>1, <2>2
<1>5. ~ raced' => \A u, v \in Transfer : Busy(u)' /\ Busy(v)' => u = v
  BY <1>1 DEF StoreInv, Busy
<1>6. ASSUME NEW c \in Bucket \ muddled' PROVE Ordered(c)'
  <2>1. Ordered(c)
    BY <1>6 DEF StoreInv
  <2>2. CASE c # b
    <3>1. /\ bucket'[c] = bucket[c] /\ r2'[c].size = r2[c].size
          /\ (c \in Rows <=> c \in Rows')
      BY <1>6, <2>2 DEF Rows
    <3>2. Stored(c)' = Stored(c)
      BY <3>1, StoredIs
    <3>3. \A u \in Transfer : UsedBy(u, c)' <=> UsedBy(u, c)
      BY <1>1, <2>2 DEF UsedBy, Busy
    <3>4. \A u \in Transfer : UsedBy(u, c) => transfer'[u] = transfer[u]
      BY <1>1, <2>2 DEF UsedBy
    <3>5. Using(c)' <=> Using(c)
      BY <3>3 DEF Using, UsedBy, Busy
    <3>6. QED
      BY <2>1, <3>1, <3>2, <3>3, <3>4, <3>5 DEF Ordered
  <2>3. CASE c = b
    <3>1. UsedBy(t, b)
      BY DEF UsedBy
    <3>2. \A u \in Transfer : UsedBy(u, b)' => u = t /\ y.pc # "idle"
      BY <1>1, <2>1, <2>3, <3>1 DEF Ordered, UsedBy, Busy
    <3>3. y.pc # "idle" => Using(b)'
      BY <1>1 DEF Using
    <3>4. ASSUME NEW u \in Transfer, UsedBy(u, b)'
          PROVE  Known(transfer'[u], bucket'[b], r2'[b].size, Stored(b)')
      BY <1>1, <1>6, <2>3, <3>2, <3>4
    <3>5. QED
      BY <1>6, <2>3, <3>2, <3>3, <3>4 DEF Ordered
  <2>4. QED
    BY <2>2, <2>3
<1>7. QED
  BY <1>3, <1>4, <1>5, <1>6 DEF StoreInv

(* A call begins.                                                          *)
LEMMA CallBegins ==
  ASSUME StoreInv, StoreTypeOK', NEW t \in Transfer, NEW b \in Bucket, Begins(t, b),
         NEW y, y.pc # "idle", y.bucket = b, Asked(y),
         transfer' = [transfer EXCEPT ![t] = y],
         \A c \in Bucket \ {b} : c \in muddled' <=> c \in muddled,
         y.pc = "put" => b \in muddled',
         b \notin muddled' =>
           /\ ~ Using(b) /\ (b \notin Rows => Stored(b) = 0)
           /\ Known(y, bucket[b], r2[b].size, Stored(b))
  PROVE  StoreInv'
<1>1. transfer'[t] = y /\ \A u \in Transfer : u # t => transfer'[u] = transfer[u]
  BY DEF StoreInv, StoreTypeOK
<1>2. /\ ~ Busy(t) /\ bucket' = bucket /\ r2' = r2
      /\ raced' = (raced \/ \E u \in Transfer : Busy(u))
  BY DEF Begins, Busy
<1>3. \A u \in Transfer : Asked(transfer'[u])
  BY <1>1 DEF StoreInv
<1>4. ASSUME NEW u \in Transfer PROVE Allowed(u)'
  <2>1. CASE u = t
    BY <1>1, <2>1 DEF Allowed
  <2>2. CASE u # t
    <3>1. transfer'[u].pc = "put" => raced'
      BY <1>1, <1>2, <2>2 DEF Busy
    <3>2. QED
      BY <3>1 DEF Allowed
  <2>3. QED
    BY <2>1, <2>2
<1>5. ~ raced' => \A u, v \in Transfer : Busy(u)' /\ Busy(v)' => u = v
  BY <1>1, <1>2 DEF Busy
<1>6. ASSUME NEW c \in Bucket \ muddled' PROVE Ordered(c)'
  <2>1. /\ Stored(c)' = Stored(c) /\ (c \in Rows <=> c \in Rows')
    BY <1>2, StoredIs DEF Rows
  <2>2. CASE c # b
    <3>1. Ordered(c)
      BY <1>6, <2>2 DEF StoreInv
    <3>2. \A u \in Transfer : UsedBy(u, c)' <=> UsedBy(u, c)
      BY <1>1, <1>2, <2>2 DEF UsedBy, Busy
    <3>3. \A u \in Transfer : UsedBy(u, c) => transfer'[u] = transfer[u]
      BY <1>1, <1>2 DEF UsedBy
    <3>4. Using(c)' <=> Using(c)
      BY <3>2 DEF Using, UsedBy, Busy
    <3>5. QED
      BY <1>2, <2>1, <3>1, <3>2, <3>3, <3>4 DEF Ordered
  <2>3. CASE c = b
    <3>1. \A u \in Transfer : UsedBy(u, b)' => u = t
      BY <1>1, <1>6, <2>3 DEF Using, UsedBy, Busy
    <3>2. Using(b)'
      BY <1>1 DEF Using
    <3>3. QED
      BY <1>1, <1>2, <1>6, <2>1, <2>3, <3>1, <3>2 DEF Ordered
  <2>4. QED
    BY <2>2, <2>3
<1>7. QED
  BY <1>3, <1>4, <1>5, <1>6 DEF StoreInv

Calls ==
  [pc      : {"idle", "create", "created", "drop", "dropped", "head", "headed", "put",
              "stored", "find", "delete", "deleted", "list", "listed"},
   bucket  : Bucket \cup {NoBucket}, name : BucketName \cup {NoName},
   key     : ObjectKey \cup {NoKey}, size : Nat, old : Nat, tracked : BOOLEAN,
   row     : Row]

LEMMA IdleCall == NoTransfer \in Calls /\ Asked(NoTransfer) /\ NoTransfer.pc = "idle"
BY DEF NoTransfer, Calls, Asked, NoRow, Row, NoQuota

LEMMA CallTyped ==
  ASSUME StoreTypeOK, NEW t \in Transfer, NEW y \in Calls
  PROVE  /\ transfer[t] \in Calls
         /\ [transfer EXCEPT ![t] = y] \in [Transfer -> Calls]
BY DEF StoreTypeOK, Calls

(* What a call that begins leaves alone.                                   *)
LEMMA BeginsTyped ==
  ASSUME StoreTypeOK, NEW t \in Transfer, NEW b \in Bucket, Begins(t, b), NEW y \in Calls,
         transfer' = [transfer EXCEPT ![t] = y],
         muddled' \subseteq muddled \cup {b}
  PROVE  StoreTypeOK'
<1>1. transfer' \in [Transfer -> Calls]
  BY CallTyped
<1>2. transfers' \in 0..TransferLimit
  BY StoreAssumption DEF StoreAssumption, StoreTypeOK, Begins
<1>3. /\ raced' \in BOOLEAN
      /\ bucket' \in [Bucket -> Row]
      /\ r2' \in [Bucket -> [there : BOOLEAN, size : [ObjectKey -> Nat]]]
      /\ muddled' \subseteq Bucket
  BY DEF StoreTypeOK, Begins
<1>4. QED
  BY <1>1, <1>2, <1>3 DEF StoreTypeOK, Calls

LEMMA CreateInv ==
  ASSUME StoreInv, NEW t \in Transfer, NEW b \in Bucket, NEW n \in BucketName,
         CreateBucket(t, b, n)
  PROVE  StoreInv'
<1> DEFINE y == [NoTransfer EXCEPT !.pc = "create", !.bucket = b, !.name = n]
<1>1. y.pc = "create" /\ y.bucket = b /\ y.name = n
  BY DEF NoTransfer
<1>2. y \in Calls
  BY DEF NoTransfer, Calls, NoRow, Row, NoQuota
<1>3. transfer' = [transfer EXCEPT ![t] = y]
  BY DEF CreateBucket, Starts
<1>4. /\ Begins(t, b) /\ ~ Using(b) /\ b \notin Rows
      /\ muddled' = muddled
  BY DEF CreateBucket, Starts
<1> HIDE DEF y
<1>5. StoreTypeOK'
  BY <1>2, <1>3, <1>4, BeginsTyped DEF StoreInv
<1>6. Asked(y)
  BY <1>1 DEF Asked
<1>7. b \notin muddled' => Stored(b) = 0
  BY <1>4 DEF StoreInv, Ordered
<1>8. Known(y, bucket[b], r2[b].size, Stored(b))
  BY <1>1, <1>4 DEF Known, Rows
<1>9. QED
  BY <1>1, <1>3, <1>4, <1>5, <1>6, <1>7, <1>8, CallBegins

(* A deletion, of a bucket or an object: what the row says is so, or the   *)
(* bucket is muddled.                                                      *)
LEMMA DeletionInv ==
  ASSUME StoreInv, NEW t \in Transfer, NEW b \in Bucket, b \in Rows, NEW y \in Calls,
         Starts(t, b, y), y.pc \in {"drop", "find"}, y.bucket = b,
         y.pc = "find" => y.key \in ObjectKey
  PROVE  StoreInv'
<1>1. /\ Begins(t, b) /\ transfer' = [transfer EXCEPT ![t] = y]
      /\ muddled' \subseteq muddled \cup {b} /\ muddled \subseteq muddled'
      /\ b \notin muddled' => ~ Using(b)
  BY DEF Starts
<1>2. StoreTypeOK'
  BY <1>1, BeginsTyped DEF StoreInv
<1>3. Asked(y)
  BY DEF Asked
<1>4. b \notin muddled' => bucket[b].usage = Stored(b)
  BY <1>1 DEF StoreInv, Ordered
<1>5. b \notin muddled' => Known(y, bucket[b], r2[b].size, Stored(b))
  BY <1>4 DEF Known, Rows
<1>6. QED
  BY <1>1, <1>2, <1>3, <1>5, CallBegins

LEMMA DeletesInv ==
  ASSUME StoreInv, NEW t \in Transfer, NEW b \in Bucket,
         DeleteBucket(t, b) \/ \E k \in ObjectKey : DeleteObject(t, b, k)
  PROVE  StoreInv'
<1>1. CASE DeleteBucket(t, b)
  <2> DEFINE y == [NoTransfer EXCEPT !.pc = "drop", !.bucket = b]
  <2>1. y.pc = "drop" /\ y.bucket = b
    BY DEF NoTransfer
  <2>2. y \in Calls
    BY DEF NoTransfer, Calls, NoRow, Row, NoQuota
  <2>3. b \in Rows /\ Starts(t, b, y)
    BY <1>1 DEF DeleteBucket
  <2> HIDE DEF y
  <2>4. QED
    BY <2>1, <2>2, <2>3, DeletionInv
<1>2. ASSUME NEW k \in ObjectKey, DeleteObject(t, b, k) PROVE StoreInv'
  <2> DEFINE y == [NoTransfer EXCEPT !.pc = "find", !.bucket = b, !.key = k]
  <2>1. y.pc = "find" /\ y.bucket = b /\ y.key = k
    BY DEF NoTransfer
  <2>2. y \in Calls
    BY DEF NoTransfer, Calls, NoRow, Row, NoQuota
  <2>3. b \in Rows /\ Starts(t, b, y)
    BY <1>2 DEF DeleteObject
  <2> HIDE DEF y
  <2>4. QED
    BY <2>1, <2>2, <2>3, DeletionInv
<1>3. QED
  BY <1>1, <1>2

(* Whatever was before: a reconciliation that is alone will be right.      *)
LEMMA ReconcileInv ==
  ASSUME StoreInv, NEW t \in Transfer, NEW b \in Bucket, ReconcileUsage(t, b)
  PROVE  StoreInv'
<1> DEFINE y == [NoTransfer EXCEPT !.pc = "list", !.bucket = b]
<1>1. y.pc = "list" /\ y.bucket = b
  BY DEF NoTransfer
<1>2. y \in Calls
  BY DEF NoTransfer, Calls, NoRow, Row, NoQuota
<1>3. /\ b \in Rows /\ Begins(t, b) /\ transfer' = [transfer EXCEPT ![t] = y]
      /\ muddled' = IF Using(b) THEN muddled \cup {b} ELSE muddled \ {b}
  BY DEF ReconcileUsage
<1> HIDE DEF y
<1>4. /\ \A c \in Bucket \ {b} : c \in muddled' <=> c \in muddled
      /\ b \notin muddled' => ~ Using(b)
      /\ muddled' \subseteq muddled \cup {b}
  BY <1>3
<1>5. StoreTypeOK'
  BY <1>2, <1>3, <1>4, BeginsTyped DEF StoreInv
<1>6. Asked(y)
  BY <1>1 DEF Asked
<1>7. Known(y, bucket[b], r2[b].size, Stored(b))
  BY <1>1, <1>3 DEF Known, Rows
<1>8. QED
  BY <1>1, <1>3, <1>4, <1>5, <1>6, <1>7, CallBegins

LEMMA PutInv ==
  ASSUME StoreInv, NEW t \in Transfer, NEW b \in Bucket, NEW k \in ObjectKey, NEW z \in Bytes,
         NEW tracked \in BOOLEAN, PutObject(t, b, k, z, tracked)
  PROVE  StoreInv'
<1> DEFINE y == [NoTransfer EXCEPT !.pc = IF tracked THEN "head" ELSE "put", !.bucket = b,
                   !.key = k, !.size = z, !.tracked = tracked, !.row = bucket[b]]
<1>1. /\ y.pc = IF tracked THEN "head" ELSE "put"
      /\ y.bucket = b /\ y.key = k /\ y.tracked = tracked /\ y.row = bucket[b]
  BY DEF NoTransfer
<1>2. bucket[b] \in Row /\ z \in Nat
  BY StoreAssumption DEF StoreAssumption, StoreInv, StoreTypeOK
<1>3. y \in Calls
  BY <1>2 DEF NoTransfer, Calls
<1>4. /\ b \in Rows /\ Begins(t, b) /\ transfer' = [transfer EXCEPT ![t] = y]
      /\ muddled' = IF Using(b) \/ ~ tracked THEN muddled \cup {b} ELSE muddled
  BY DEF PutObject
<1> HIDE DEF y
<1>5. /\ \A c \in Bucket \ {b} : c \in muddled' <=> c \in muddled
      /\ b \notin muddled' => ~ Using(b) /\ tracked /\ b \notin muddled
      /\ muddled' \subseteq muddled \cup {b}
  BY <1>4
<1>6. StoreTypeOK'
  BY <1>3, <1>4, <1>5, BeginsTyped DEF StoreInv
<1>7. Asked(y)
  BY <1>1 DEF Asked
<1>8. b \notin muddled' => bucket[b].usage = Stored(b)
  BY <1>4, <1>5 DEF StoreInv, Ordered
<1>9. b \notin muddled' => Known(y, bucket[b], r2[b].size, Stored(b))
  BY <1>1, <1>4, <1>5, <1>8 DEF Known, Rows
<1>10. y.pc # "idle" /\ (y.pc = "put" => b \in muddled')
  BY <1>1, <1>5
<1>11. QED
  BY <1>1, <1>4, <1>5, <1>6, <1>7, <1>9, <1>10, CallBegins

(* What a call goes on with.                                               *)
LEMMA GoesOn ==
  ASSUME StoreTypeOK, NEW t \in Transfer,
         NEW p \in {"idle", "create", "created", "drop", "dropped", "head", "headed", "put",
                    "stored", "find", "delete", "deleted", "list", "listed"},
         NEW n \in Nat
  PROVE  /\ [transfer[t] EXCEPT !.pc = p] \in Calls
         /\ [transfer[t] EXCEPT !.pc = p, !.old = n] \in Calls
         /\ [transfer EXCEPT ![t].pc = p] =
              [transfer EXCEPT ![t] = [transfer[t] EXCEPT !.pc = p]]
<1>1. transfer[t] \in Calls
  BY DEF StoreTypeOK, Calls
<1>2. /\ [transfer[t] EXCEPT !.pc = p] \in Calls
      /\ [transfer[t] EXCEPT !.pc = p, !.old = n] \in Calls
  BY <1>1 DEF Calls
<1>3. [transfer EXCEPT ![t].pc = p] = [transfer EXCEPT ![t] = [transfer[t] EXCEPT !.pc = p]]
  OBVIOUS
<1>4. QED
  BY <1>2, <1>3

(* A step that changes a call, and the rows and objects within their types. *)
LEMMA StepTyped ==
  ASSUME StoreTypeOK, NEW t \in Transfer, NEW y \in Calls,
         transfer' = [transfer EXCEPT ![t] = y],
         bucket' \in [Bucket -> Row],
         r2' \in [Bucket -> [there : BOOLEAN, size : [ObjectKey -> Nat]]],
         muddled' \subseteq Bucket, UNCHANGED <<transfers, raced>>
  PROVE  StoreTypeOK'
<1>1. transfer' \in [Transfer -> Calls]
  BY CallTyped
<1>2. QED
  BY <1>1 DEF StoreTypeOK, Calls

(* An object gets another size, and the bucket with it.                    *)
LEMMA SizeChanges ==
  ASSUME StoreTypeOK, NEW b \in Bucket, NEW k \in ObjectKey, NEW n \in Nat,
         r2' = [r2 EXCEPT ![b].size[k] = n]
  PROVE  /\ r2' \in [Bucket -> [there : BOOLEAN, size : [ObjectKey -> Nat]]]
         /\ \A c \in Bucket \ {b} : r2'[c].size = r2[c].size
         /\ r2'[b].size[k] = n
         /\ Stored(b)' = Stored(b) - r2[b].size[k] + n
         /\ Stored(b) - r2[b].size[k] \in Nat
<1>1. r2[b].size \in [ObjectKey -> Nat]
  BY DEF StoreTypeOK
<1>2. /\ r2'[b] = [r2[b] EXCEPT !.size = [r2[b].size EXCEPT ![k] = n]]
      /\ \A c \in Bucket \ {b} : r2'[c] = r2[c]
      /\ DOMAIN r2' = Bucket
  BY DEF StoreTypeOK
<1>3. /\ r2'[b].size = [r2[b].size EXCEPT ![k] = n]
      /\ r2'[b] \in [there : BOOLEAN, size : [ObjectKey -> Nat]]
  <2> DEFINE z == [r2[b].size EXCEPT ![k] = n]
  <2>1. z \in [ObjectKey -> Nat]
    BY <1>1
  <2>2. r2[b] \in [there : BOOLEAN, size : [ObjectKey -> Nat]]
    BY DEF StoreTypeOK
  <2> HIDE DEF z
  <2>3. [r2[b] EXCEPT !.size = z].size = z
    BY <2>2
  <2>4. [r2[b] EXCEPT !.size = z] \in [there : BOOLEAN, size : [ObjectKey -> Nat]]
    BY <2>1, <2>2
  <2>5. r2'[b] = [r2[b] EXCEPT !.size = z]
    BY <1>2 DEF z
  <2>6. QED
    BY <2>3, <2>4, <2>5 DEF z
<1>4. r2' \in [Bucket -> [there : BOOLEAN, size : [ObjectKey -> Nat]]]
  BY <1>2, <1>3 DEF StoreTypeOK
<1> DEFINE f == r2[b].size
           g == r2'[b].size
<1>5. /\ \A j \in ObjectKey : f[j] \in Nat /\ g[j] \in Nat
      /\ \A j \in ObjectKey \ {k} : f[j] = g[j]
      /\ g[k] = n
  BY <1>1, <1>3
<1>6. Stored(b) = SumOver(f, ObjectKey) /\ Stored(b)' = SumOver(g, ObjectKey)
  BY StoredIs
<1>7. IsFiniteSet(ObjectKey) /\ IsFiniteSet(ObjectKey \ {k})
  BY StoreAssumption, FS_Subset DEF StoreAssumption
<1> HIDE DEF f, g
<1>8. SumOver(g, ObjectKey) = SumOver(f, ObjectKey) - f[k] + g[k]
  BY <1>5, <1>7, SumChanges
<1>9. SumOver(f, ObjectKey) = f[k] + SumOver(f, ObjectKey \ {k})
  BY <1>5, <1>7, SumWithout
<1>10. SumOver(f, ObjectKey \ {k}) \in Nat
  BY <1>5, <1>7, SumIsNat
<1>11. f[k] \in Nat
  BY <1>5
<1>12. SumOver(f, ObjectKey) - f[k] \in Nat
  BY <1>9, <1>10, <1>11
<1>13. QED
  BY <1>2, <1>4, <1>5, <1>6, <1>8, <1>12 DEF f, g

(* The call of a bucket that is not muddled knows what it should.          *)
LEMMA TransferKnows ==
  ASSUME StoreInv, NEW t \in Transfer, Busy(t), transfer[t].bucket \notin muddled
  PROVE  LET b == transfer[t].bucket IN
         /\ b \notin Rows => Stored(b) = 0
         /\ Known(transfer[t], bucket[b], r2[b].size, Stored(b))
<1>1. transfer[t].bucket \in Bucket
  BY DEF StoreInv, Asked, Busy
<1>2. UsedBy(t, transfer[t].bucket)
  BY DEF UsedBy
<1>3. QED
  BY <1>1, <1>2 DEF StoreInv, Ordered

(* What R2 does and the store does not see yet.                            *)
LEMMA R2ServesInv ==
  ASSUME StoreInv, NEW t \in Transfer, R2Serves(t),
         NEW b, b = transfer[t].bucket, NEW k, k = transfer[t].key
  PROVE  StoreInv'
<1> DEFINE x == transfer[t]
<1>1. Busy(t) /\ b \in Bucket /\ Asked(x) /\ StoreTypeOK
  BY DEF R2Serves, R2Does, Busy, StoreInv, Asked
<1>2. UNCHANGED <<bucket, transfers, muddled, raced>>
  BY DEF R2Serves
<1>3. x \in Calls /\ x.size \in Nat
  BY <1>1 DEF StoreTypeOK, Calls
<1>4. /\ \A c \in Bucket : c \in Rows <=> c \in Rows'
      /\ b \in Rows <=> bucket[b].name # NoName
  BY <1>1, <1>2 DEF Rows
<1>5. /\ bucket' \in [Bucket -> Row] /\ muddled' \subseteq Bucket
      /\ r2 \in [Bucket -> [there : BOOLEAN, size : [ObjectKey -> Nat]]]
  BY <1>1, <1>2 DEF StoreTypeOK
<1>6. Stored(b) \in Nat
  BY <1>1, StoredIsNat
<1>7. b \notin muddled =>
        /\ b \notin Rows => Stored(b) = 0
        /\ Known(x, bucket[b], r2[b].size, Stored(b))
  BY <1>1, TransferKnows
<1>8. ASSUME NEW y \in Calls, transfer' = [transfer EXCEPT ![t] = y],
             y.pc \notin {"idle", "put"}, y.bucket = b, Asked(y),
             r2' \in [Bucket -> [there : BOOLEAN, size : [ObjectKey -> Nat]]],
             \A c \in Bucket \ {b} : r2'[c].size = r2[c].size,
             b \notin muddled =>
               /\ b \notin Rows => Stored(b)' = 0
               /\ Known(y, bucket[b], r2'[b].size, Stored(b)')
      PROVE  StoreInv'
  <2>1. StoreTypeOK'
    BY <1>1, <1>2, <1>5, <1>8, StepTyped
  <2>2. QED
    BY <1>1, <1>2, <1>4, <1>8, <2>1, CallGoesOn
<1>9. CASE /\ x.pc \in {"create", "drop"}
           /\ transfer' = [transfer EXCEPT ![t].pc = IF x.pc = "create" THEN "created"
                                                     ELSE "dropped"]
           /\ r2' = [r2 EXCEPT ![b].there = (x.pc = "create")]
           /\ x.pc = "drop" => Stored(b) = 0
  <2> DEFINE p == IF x.pc = "create" THEN "created" ELSE "dropped"
             y == [x EXCEPT !.pc = p]
  <2>1. y.pc = p /\ y.bucket = b /\ y.name = x.name
    BY <1>3 DEF Calls
  <2>2. y \in Calls /\ transfer' = [transfer EXCEPT ![t] = y]
    BY <1>1, <1>9, GoesOn
  <2>3. \A c \in Bucket : r2'[c].size = r2[c].size
    BY <1>1, <1>9 DEF StoreTypeOK
  <2>4. r2' \in [Bucket -> [there : BOOLEAN, size : [ObjectKey -> Nat]]]
    <3> DEFINE z == (x.pc = "create")
    <3>1. z \in BOOLEAN
      OBVIOUS
    <3>2. r2' = [r2 EXCEPT ![b].there = z]
      BY <1>9
    <3> HIDE DEF z
    <3>3. QED
      BY <1>1, <3>1, <3>2 DEF StoreTypeOK
  <2>5. Stored(b)' = Stored(b)
    BY <1>1, <2>3, StoredIs
  <2>6. b \notin muddled => Known(y, bucket[b], r2'[b].size, Stored(b)')
    BY <1>1, <1>7, <1>9, <2>1, <2>3, <2>5 DEF Known
  <2>7. Asked(y)
    BY <1>1, <1>9, <2>1 DEF Asked
  <2> HIDE DEF y
  <2>8. QED
    BY <1>1, <1>7, <1>8, <2>1, <2>2, <2>3, <2>4, <2>5, <2>6, <2>7
<1>10. ASSUME NEW p \in {"headed", "delete", "listed"}, NEW n \in Nat,
              transfer' = [transfer EXCEPT ![t].pc = p, ![t].old = n], r2' = r2,
              <<x.pc, p>> \in {<<"head", "headed">>, <<"find", "delete">>, <<"list", "listed">>},
              IF p = "listed" THEN n = Stored(b) ELSE n = r2[b].size[k]
       PROVE  StoreInv'
  <2> DEFINE y == [x EXCEPT !.pc = p, !.old = n]
  <2>1. /\ y.pc = p /\ y.old = n /\ y.bucket = b /\ y.key = k
        /\ y.tracked = x.tracked /\ y.row = x.row
    BY <1>3 DEF Calls
  <2>2. y \in Calls /\ transfer' = [transfer EXCEPT ![t] = y]
    <3>1. p \in {"idle", "create", "created", "drop", "dropped", "head", "headed", "put",
                 "stored", "find", "delete", "deleted", "list", "listed"}
      OBVIOUS
    <3>2. StoreTypeOK
      BY <1>1
    <3>3. y \in Calls
      BY <3>1, <3>2, GoesOn
    <3>4. [transfer EXCEPT ![t].pc = p, ![t].old = n] = [transfer EXCEPT ![t] = y]
      BY <3>2 DEF StoreTypeOK
    <3>5. QED
      BY <1>10, <3>3, <3>4
  <2>3. Stored(b)' = Stored(b)
    BY <1>10, StoredIs
  <2>4. b \notin muddled => Known(y, bucket[b], r2[b].size, Stored(b))
    BY <1>7, <1>10, <2>1 DEF Known
  <2>5. Asked(y)
    BY <1>1, <1>10, <2>1 DEF Asked
  <2> HIDE DEF y
  <2>6. QED
    BY <1>5, <1>7, <1>8, <1>10, <2>1, <2>2, <2>3, <2>4, <2>5
<1>11. ASSUME NEW p \in {"stored", "deleted"}, NEW n \in Nat,
              transfer' = [transfer EXCEPT ![t].pc = p],
              r2' = [r2 EXCEPT ![b].size[k] = n],
              <<x.pc, p>> \in {<<"put", "stored">>, <<"delete", "deleted">>},
              n = IF p = "stored" THEN x.size ELSE 0
       PROVE  StoreInv'
  <2> DEFINE y == [x EXCEPT !.pc = p]
  <2>1. /\ y.pc = p /\ y.bucket = b /\ y.key = k /\ y.size = x.size /\ y.old = x.old
        /\ y.tracked = x.tracked
    BY <1>3 DEF Calls
  <2>2. y \in Calls /\ transfer' = [transfer EXCEPT ![t] = y]
    BY <1>1, <1>11, GoesOn
  <2>3. k \in ObjectKey
    BY <1>1, <1>11 DEF Asked
  <2>4. /\ r2' \in [Bucket -> [there : BOOLEAN, size : [ObjectKey -> Nat]]]
        /\ \A c \in Bucket \ {b} : r2'[c].size = r2[c].size
        /\ Stored(b)' = Stored(b) - r2[b].size[k] + n
    <3>1. r2' = [r2 EXCEPT ![b].size[k] = n]
      BY <1>11
    <3>2. StoreTypeOK /\ b \in Bucket
      BY <1>1
    <3>3. QED
      BY <2>3, <3>1, <3>2, SizeChanges
  <2>5. b \notin muddled =>
          /\ b \in Rows /\ bucket[b].usage = Stored(b) /\ x.old = r2[b].size[k]
          /\ bucket[b].name # NoName /\ (x.pc = "put" => x.tracked)
    BY <1>4, <1>7, <1>11 DEF Known
  <2>6. b \notin muddled => Stored(b)' = bucket[b].usage - x.old + n
    BY <2>4, <2>5
  <2>7. r2[b].size[k] \in Nat
    BY <1>1, <2>3 DEF StoreTypeOK
  <2>8. b \notin muddled => Known(y, bucket[b], r2'[b].size, Stored(b)')
    <3>1. CASE p = "stored"
      BY <1>11, <2>1, <2>5, <2>6, <3>1 DEF Known
    <3>2. CASE p = "deleted"
      <4>1. b \notin muddled => Stored(b)' = bucket[b].usage - x.old
        BY <1>6, <1>11, <2>4, <2>5, <2>7, <3>2
      <4>2. QED
        BY <1>11, <2>1, <2>5, <3>2, <4>1 DEF Known
    <3>3. QED
      BY <3>1, <3>2
  <2>9. Asked(y)
    BY <1>1, <1>11, <2>1, <2>3 DEF Asked
  <2> HIDE DEF y
  <2>10. QED
    BY <1>8, <1>11, <2>1, <2>2, <2>4, <2>5, <2>8, <2>9
<1>12. CASE x.pc \in {"create", "drop"}
  BY <1>9, <1>12 DEF R2Serves, R2Does
<1>13. CASE x.pc \in {"head", "find", "list"}
  <2>1. x.pc # "list" => r2[b].size[k] \in Nat
    BY <1>1, <1>13 DEF Asked, StoreTypeOK
  <2>2. QED
    BY <1>6, <1>10, <1>13, <2>1 DEF R2Serves, R2Does
<1>14. CASE x.pc \in {"put", "delete"}
  BY <1>3, <1>11, <1>14 DEF R2Serves, R2Does
<1>15. QED
  BY <1>12, <1>13, <1>14 DEF R2Serves, R2Does

(* A call ends.                                                            *)
LEMMA CallEnds ==
  ASSUME StoreInv, NEW t \in Transfer, Busy(t), EndTransfer(t),
         NEW b, b = transfer[t].bucket,
         bucket' \in [Bucket -> Row], \A c \in Bucket \ {b} : bucket'[c] = bucket[c],
         UNCHANGED <<r2, transfers, raced>>,
         muddled \subseteq muddled', muddled' \subseteq muddled \cup {b},
         b \notin muddled' =>
           /\ b \notin Rows' => Stored(b) = 0
           /\ b \in Rows' => bucket'[b].usage = Stored(b)
  PROVE  StoreInv'
<1>1. StoreTypeOK /\ b \in Bucket
  BY DEF StoreInv, Asked, Busy
<1>2. transfer' = [transfer EXCEPT ![t] = NoTransfer]
  BY DEF EndTransfer
<1>3. /\ r2' \in [Bucket -> [there : BOOLEAN, size : [ObjectKey -> Nat]]]
      /\ muddled' \subseteq Bucket
  BY <1>1 DEF StoreTypeOK
<1>4. StoreTypeOK'
  BY <1>1, <1>2, <1>3, IdleCall, StepTyped
<1>5. Stored(b)' = Stored(b)
  BY StoredIs
<1> DEFINE y == NoTransfer
<1>6. y.pc = "idle" /\ Asked(y)
  BY IdleCall
<1> HIDE DEF y
<1>7. transfer' = [transfer EXCEPT ![t] = y]
  BY <1>2 DEF y
<1>8. QED
  BY <1>4, <1>5, <1>6, <1>7, CallGoesOn

(* R2 refuses: nothing is done, and what was looked for is missing.        *)
LEMMA R2RefusesInv ==
  ASSUME StoreInv, NEW t \in Transfer, R2Refuses(t), NEW b, b = transfer[t].bucket
  PROVE  StoreInv'
<1> DEFINE x == transfer[t]
<1>1. Busy(t) /\ b \in Bucket /\ Asked(x) /\ StoreTypeOK
  BY DEF R2Refuses, Busy, StoreInv, Asked
<1>2. UNCHANGED <<bucket, r2, transfers, raced>>
  BY DEF R2Refuses
<1>3. bucket' \in [Bucket -> Row]
  BY <1>1, <1>2 DEF StoreTypeOK
<1>4. /\ \A c \in Bucket : c \in Rows <=> c \in Rows'
      /\ b \in Rows <=> bucket[b].name # NoName
  BY <1>1, <1>2 DEF Rows
<1>5. CASE /\ EndTransfer(t)
           /\ muddled' = muddled \cup {b} \/ (UNCHANGED muddled /\ x.pc # "list")
           /\ x.pc \in {"create", "drop", "put", "delete", "list"}
  <2>1. b \notin muddled' =>
          /\ b \notin Rows => Stored(b) = 0
          /\ x.pc # "list" /\ Known(x, bucket[b], r2[b].size, Stored(b))
    BY <1>1, <1>5, TransferKnows
  <2>2. b \notin muddled' =>
          /\ b \notin Rows' => Stored(b) = 0
          /\ b \in Rows' => bucket'[b].usage = Stored(b)
    BY <1>1, <1>2, <1>4, <1>5, <2>1 DEF Known
  <2>3. muddled \subseteq muddled' /\ muddled' \subseteq muddled \cup {b}
    BY <1>5
  <2>4. \A c \in Bucket \ {b} : bucket'[c] = bucket[c]
    BY <1>2
  <2>5. QED
    BY <1>1, <1>2, <1>3, <1>5, <2>2, <2>3, <2>4, CallEnds
<1>6. ASSUME NEW p \in {"headed", "delete"}, transfer' = [transfer EXCEPT ![t].pc = p],
             <<x.pc, p>> \in {<<"head", "headed">>, <<"find", "delete">>}, Muddle(t)
      PROVE  StoreInv'
  <2> DEFINE y == [x EXCEPT !.pc = p]
  <2>1. y \in Calls /\ transfer' = [transfer EXCEPT ![t] = y]
    BY <1>1, <1>6, GoesOn
  <2>2. x \in Calls
    BY <1>1 DEF StoreTypeOK, Calls
  <2>3. y.pc = p /\ y.bucket = b /\ y.key = x.key
    BY <2>2 DEF Calls
  <2>4. Asked(y)
    BY <1>1, <1>6, <2>3 DEF Asked
  <2> HIDE DEF y
  <2>5. /\ r2' \in [Bucket -> [there : BOOLEAN, size : [ObjectKey -> Nat]]]
        /\ muddled' \subseteq Bucket /\ b \in muddled' /\ muddled \subseteq muddled'
    BY <1>1, <1>2, <1>6 DEF StoreTypeOK, Muddle
  <2>6. StoreTypeOK'
    BY <1>1, <1>2, <1>3, <2>1, <2>5, StepTyped
  <2>7. QED
    BY <1>1, <1>2, <2>1, <2>3, <2>4, <2>5, <2>6, CallGoesOn
<1>7. CASE x.pc \in {"create", "drop", "put", "delete", "list"}
  BY <1>5, <1>7 DEF R2Refuses, Muddle
<1>8. CASE x.pc \in {"head", "find"}
  BY <1>6, <1>8 DEF R2Refuses
<1>9. QED
  BY <1>7, <1>8 DEF R2Refuses

(* An answer that gets lost muddles its bucket.                            *)
LEMMA LoseInv ==
  ASSUME StoreInv, NEW t \in Transfer, LoseTransfer(t), NEW b, b = transfer[t].bucket
  PROVE  StoreInv'
<1>1. /\ Busy(t) /\ EndTransfer(t) /\ muddled' = muddled \cup {b}
      /\ UNCHANGED <<bucket, r2, transfers, raced>>
  BY DEF LoseTransfer, Busy, Muddle
<1>2. bucket' \in [Bucket -> Row] /\ \A c \in Bucket \ {b} : bucket'[c] = bucket[c]
  BY <1>1 DEF StoreInv, StoreTypeOK
<1>3. QED
  BY <1>1, <1>2, CallEnds

(* The quota is of the row that is there still, if nobody came between.    *)
LEMMA CheckQuotaInv ==
  ASSUME StoreInv, NEW t \in Transfer, CheckQuota(t), NEW b, b = transfer[t].bucket
  PROVE  StoreInv'
<1> DEFINE x == transfer[t]
<1>1. Busy(t) /\ b \in Bucket /\ Asked(x) /\ StoreTypeOK /\ x.pc = "headed"
  BY DEF CheckQuota, Busy, StoreInv, Asked
<1>2. UNCHANGED <<bucket, r2, transfers, muddled, raced>>
  BY DEF CheckQuota
<1>3. /\ bucket' \in [Bucket -> Row] /\ muddled' \subseteq Bucket
      /\ r2' \in [Bucket -> [there : BOOLEAN, size : [ObjectKey -> Nat]]]
  BY <1>1, <1>2 DEF StoreTypeOK
<1>4. /\ \A c \in Bucket : c \in Rows <=> c \in Rows'
      /\ b \in Rows <=> bucket[b].name # NoName
  BY <1>1, <1>2 DEF Rows
<1>5. b \notin muddled =>
        /\ b \notin Rows => Stored(b) = 0
        /\ Known(x, bucket[b], r2[b].size, Stored(b))
  BY <1>1, TransferKnows
<1>6. CASE ~ Fits(x)
  <2>1. EndTransfer(t)
    BY <1>6 DEF CheckQuota
  <2>2. b \notin muddled => bucket[b].usage = Stored(b)
    BY <1>1, <1>5 DEF Known
  <2>3. QED
    BY <1>1, <1>2, <1>3, <1>4, <1>5, <2>1, <2>2, CallEnds
<1>7. CASE Fits(x)
  <2> DEFINE y == [x EXCEPT !.pc = "put"]
  <2>1. transfer' = [transfer EXCEPT ![t].pc = "put"]
    BY <1>7 DEF CheckQuota
  <2>2. y \in Calls /\ transfer' = [transfer EXCEPT ![t] = y]
    BY <1>1, <2>1, GoesOn
  <2>3. x \in Calls
    BY <1>1 DEF StoreTypeOK, Calls
  <2>4. /\ y.pc = "put" /\ y.bucket = b /\ y.key = x.key /\ y.size = x.size /\ y.old = x.old
        /\ y.tracked = x.tracked /\ y.row = x.row
    BY <2>3 DEF Calls
  <2>5. Asked(y)
    BY <1>1, <2>4 DEF Asked
  <2>6. WalletUsage' = WalletUsage
    BY <1>2, WalletUsageStays DEF Rows
  <2>7. WalletUsage' + y.size - y.old <= MaxStorage
    BY <1>7, <2>4, <2>6 DEF Fits
  <2>8. b \notin muddled =>
          /\ bucket[b].usage = Stored(b) /\ x.old = r2[b].size[x.key] /\ x.tracked
          /\ x.row = bucket[b] /\ bucket[b].name # NoName
    BY <1>1, <1>5 DEF Known
  <2>9. b \notin muddled =>
          bucket[b].quota = NoQuota \/ Stored(b) + x.size - x.old <= bucket[b].quota
    BY <1>7, <2>8 DEF Fits
  <2>10. b \notin muddled => Known(y, bucket[b], r2[b].size, Stored(b))
    BY <2>4, <2>8, <2>9 DEF Known
  <2>11. Stored(b)' = Stored(b)
    BY <1>2, StoredIs
  <2>12. StoreTypeOK'
    BY <1>1, <1>2, <1>3, <2>2, StepTyped
  <2> HIDE DEF y
  <2>13. QED
    BY <1>1, <1>2, <1>4, <1>5, <2>2, <2>4, <2>5, <2>7, <2>10, <2>11, <2>12, CallGoesOn
<1>8. QED
  BY <1>6, <1>7

-----------------------------------------------------------------------------
(* The row counts: by as much as it is told, and never below nothing.      *)
LEMMA RowCounts ==
  ASSUME StoreTypeOK, NEW b \in Bucket, NEW delta \in Int, Count(b, delta)
  PROVE  /\ bucket' \in [Bucket -> Row] /\ \A c \in Bucket \ {b} : bucket'[c] = bucket[c]
         /\ Rows' = Rows
         /\ b \in Rows /\ bucket[b].usage + delta >= 0 =>
              bucket'[b].usage = bucket[b].usage + delta
<1> DEFINE u == bucket[b].usage
           n == IF b \notin Rows THEN u ELSE IF u + delta < 0 THEN 0 ELSE u + delta
<1>1. u \in Nat /\ bucket[b] \in Row
  BY DEF StoreTypeOK, Row
<1>2. n \in Nat
  BY <1>1
<1>3. bucket' = [bucket EXCEPT ![b].usage = n]
  BY DEF Count
<1>4. b \in Rows /\ u + delta >= 0 => n = u + delta
  BY <1>1
<1> HIDE DEF n
<1>5. /\ bucket'[b] = [bucket[b] EXCEPT !.usage = n]
      /\ \A c \in Bucket \ {b} : bucket'[c] = bucket[c]
      /\ DOMAIN bucket' = Bucket
  BY <1>3 DEF StoreTypeOK
<1>6. bucket'[b] \in Row /\ bucket'[b].usage = n /\ bucket'[b].name = bucket[b].name
  BY <1>1, <1>2, <1>5 DEF Row
<1>7. bucket' \in [Bucket -> Row]
  BY <1>5, <1>6, <1>3 DEF StoreTypeOK
<1>8. Rows' = Rows
  BY <1>5, <1>6 DEF Rows
<1>9. QED
  BY <1>4, <1>5, <1>6, <1>7, <1>8

LEMMA AccountInv ==
  ASSUME StoreInv, NEW t \in Transfer, Account(t) \/ Discount(t),
         NEW b, b = transfer[t].bucket
  PROVE  StoreInv'
<1> DEFINE x == transfer[t]
           d == IF x.pc = "stored" THEN x.size - x.old ELSE - x.old
<1>1. /\ Busy(t) /\ b \in Bucket /\ StoreTypeOK /\ x.pc \in {"stored", "deleted"}
      /\ EndTransfer(t) /\ UNCHANGED <<r2, transfers, muddled, raced>>
  BY DEF Account, Discount, Busy, StoreInv, Asked
<1>2. x.size \in Nat /\ x.old \in Nat
  BY <1>1 DEF StoreTypeOK
<1>3. d \in Int /\ bucket[b].usage \in Nat /\ Stored(b) \in Nat
  BY <1>1, <1>2, StoredIsNat DEF StoreTypeOK, Row
<1>4. b \notin muddled =>
        /\ b \notin Rows => Stored(b) = 0
        /\ Known(x, bucket[b], r2[b].size, Stored(b))
  BY <1>1, TransferKnows
<1>5. b \notin muddled /\ x.pc = "stored" => x.tracked
  BY <1>4 DEF Known
<1>6. CASE UNCHANGED bucket /\ b \in muddled
  BY <1>1, <1>6, CallEnds DEF StoreTypeOK
<1>7. CASE Count(b, d)
  <2>1. b \in Rows <=> bucket[b].name # NoName
    BY <1>1 DEF Rows
  <2>2. b \notin muddled => b \in Rows
    BY <1>1, <1>4, <2>1 DEF Known
  <2>3. b \notin muddled => Stored(b) = bucket[b].usage + d
    <3>1. CASE x.pc = "stored"
      <4>1. b \notin muddled => Stored(b) = bucket[b].usage - x.old + x.size
        BY <1>4, <3>1 DEF Known
      <4>2. QED
        BY <1>2, <1>3, <3>1, <4>1
    <3>2. CASE x.pc = "deleted"
      <4>1. b \notin muddled => Stored(b) = bucket[b].usage - x.old
        BY <1>4, <3>2 DEF Known
      <4>2. QED
        BY <1>2, <1>3, <3>2, <4>1
    <3>3. QED
      BY <1>1, <3>1, <3>2
  <2> HIDE DEF d
  <2>4. b \notin muddled => bucket[b].usage + d >= 0
    BY <1>3, <2>3
  <2>5. /\ bucket' \in [Bucket -> Row] /\ \A c \in Bucket \ {b} : bucket'[c] = bucket[c]
        /\ Rows' = Rows
        /\ b \in Rows /\ bucket[b].usage + d >= 0 =>
             bucket'[b].usage = bucket[b].usage + d
    BY <1>1, <1>3, <1>7, RowCounts
  <2>6. QED
    BY <1>1, <2>2, <2>3, <2>4, <2>5, CallEnds
<1>8. CASE Account(t)
  BY <1>5, <1>6, <1>7, <1>8 DEF Account
<1>9. CASE Discount(t)
  BY <1>7, <1>9 DEF Discount
<1>10. QED
  BY <1>8, <1>9

LEMMA SetUsageInv ==
  ASSUME StoreInv, NEW t \in Transfer, SetUsage(t), NEW b, b = transfer[t].bucket
  PROVE  StoreInv'
<1> DEFINE n == transfer[t].old
<1>1. /\ Busy(t) /\ b \in Bucket /\ StoreTypeOK /\ EndTransfer(t)
      /\ UNCHANGED <<r2, transfers, muddled, raced>>
      /\ bucket' = IF b \in Rows THEN [bucket EXCEPT ![b].usage = n] ELSE bucket
  BY DEF SetUsage, Busy, StoreInv, Asked
<1>2. n \in Nat /\ bucket[b] \in Row
  BY <1>1 DEF StoreTypeOK
<1>3. b \notin muddled =>
        /\ b \notin Rows => Stored(b) = 0
        /\ n = Stored(b)
  BY <1>1, TransferKnows DEF SetUsage, Known
<1> HIDE DEF n
<1>4. /\ b \in Rows => bucket'[b] = [bucket[b] EXCEPT !.usage = n]
      /\ b \notin Rows => bucket'[b] = bucket[b]
      /\ \A c \in Bucket \ {b} : bucket'[c] = bucket[c]
  BY <1>1 DEF StoreTypeOK
<1>5. /\ bucket'[b] \in Row /\ bucket'[b].name = bucket[b].name
      /\ b \in Rows => bucket'[b].usage = n
  BY <1>2, <1>4 DEF Row
<1>6. bucket' \in [Bucket -> Row]
  BY <1>1, <1>4, <1>5 DEF StoreTypeOK
<1>7. Rows' = Rows
  BY <1>4, <1>5 DEF Rows
<1>8. QED
  BY <1>1, <1>3, <1>4, <1>5, <1>6, <1>7, CallEnds

(* A row goes in, empty as its bucket is.                                  *)
LEMMA InsertInv ==
  ASSUME StoreInv, NEW t \in Transfer, InsertBucket(t), NEW b, b = transfer[t].bucket
  PROVE  StoreInv'
<1> DEFINE x == transfer[t]
           r == [name |-> x.name, quota |-> DefaultQuota, usage |-> 0]
<1>1. /\ Busy(t) /\ b \in Bucket /\ StoreTypeOK /\ EndTransfer(t) /\ x.pc = "created"
      /\ UNCHANGED <<r2, transfers, muddled, raced>> /\ x.name \in BucketName
  BY DEF InsertBucket, Busy, StoreInv, Asked
<1>2. b \notin muddled =>
        /\ b \notin Rows => Stored(b) = 0
        /\ bucket[b].name = NoName
  BY <1>1, TransferKnows DEF Known
<1>3. b \notin muddled => Stored(b) = 0
  BY <1>1, <1>2 DEF Rows
<1>4. CASE UNCHANGED bucket
  BY <1>1, <1>2, <1>3, <1>4, CallEnds DEF StoreTypeOK, Rows
<1>5. CASE bucket' = [bucket EXCEPT ![b] = r]
  <2>1. r \in Row /\ r.usage = 0
    BY <1>1, StoreAssumption DEF StoreAssumption, Row
  <2> HIDE DEF r
  <2>2. /\ bucket'[b] = r /\ \A c \in Bucket \ {b} : bucket'[c] = bucket[c]
        /\ bucket' \in [Bucket -> Row]
    BY <1>1, <1>5, <2>1 DEF StoreTypeOK
  <2>3. QED
    BY <1>1, <1>3, <2>1, <2>2, CallEnds
<1>6. QED
  BY <1>4, <1>5 DEF InsertBucket

LEMMA DropRowInv ==
  ASSUME StoreInv, NEW t \in Transfer, DropRow(t), NEW b, b = transfer[t].bucket
  PROVE  StoreInv'
<1>1. /\ Busy(t) /\ b \in Bucket /\ StoreTypeOK /\ EndTransfer(t)
      /\ transfer[t].pc = "dropped"
      /\ UNCHANGED <<r2, transfers, muddled, raced>>
      /\ bucket' = [bucket EXCEPT ![b] = NoRow]
  BY DEF DropRow, Busy, StoreInv, Asked
<1>2. NoRow \in Row /\ NoRow.usage = 0
  BY DEF NoRow, Row, NoQuota
<1>3. /\ bucket'[b] = NoRow /\ \A c \in Bucket \ {b} : bucket'[c] = bucket[c]
      /\ bucket' \in [Bucket -> Row]
  BY <1>1, <1>2 DEF StoreTypeOK
<1>4. b \notin muddled => Stored(b) = 0
  BY <1>1, TransferKnows DEF Known
<1>5. QED
  BY <1>1, <1>2, <1>3, <1>4, CallEnds

-----------------------------------------------------------------------------
(* A quota is of no consequence to what is counted, and of some to the     *)
(* calls that keep the row.                                                *)
LEMMA SetQuotaInv ==
  ASSUME StoreInv, NEW b \in Bucket, NEW q \in Quota, SetQuotaForBucket(b, q)
  PROVE  StoreInv'
<1>1. /\ StoreTypeOK /\ bucket' = [bucket EXCEPT ![b].quota = q]
      /\ muddled' = IF Using(b) THEN muddled \cup {b} ELSE muddled
      /\ UNCHANGED <<r2, transfer, transfers, raced>>
  BY DEF SetQuotaForBucket, StoreInv
<1>2. q \in Nat \cup {NoQuota} /\ bucket[b] \in Row
  BY <1>1, StoreAssumption DEF StoreAssumption, StoreTypeOK
<1>3. /\ bucket'[b] = [bucket[b] EXCEPT !.quota = q]
      /\ \A c \in Bucket \ {b} : bucket'[c] = bucket[c]
      /\ DOMAIN bucket' = Bucket
  BY <1>1 DEF StoreTypeOK
<1>4. /\ bucket'[b] \in Row /\ bucket'[b].name = bucket[b].name
      /\ bucket'[b].usage = bucket[b].usage
  BY <1>2, <1>3 DEF Row
<1>5. Rows' = Rows /\ \A c \in Bucket : bucket'[c].usage = bucket[c].usage
  BY <1>3, <1>4 DEF Rows
<1>6. WalletUsage' = WalletUsage
  BY <1>5, WalletUsageStays
<1>7. StoreTypeOK'
  <2>1. bucket' \in [Bucket -> Row]
    BY <1>1, <1>3, <1>4 DEF StoreTypeOK
  <2>2. muddled' \subseteq Bucket
    BY <1>1 DEF StoreTypeOK
  <2>3. QED
    BY <1>1, <2>1, <2>2 DEF StoreTypeOK
<1>8. \A t \in Transfer : Asked(transfer'[t]) /\ Allowed(t)'
  BY <1>1, <1>6 DEF StoreInv, Allowed
<1>9. ~ raced' => \A t, u \in Transfer : Busy(t)' /\ Busy(u)' => t = u
  BY <1>1 DEF StoreInv, Busy
<1>10. ASSUME NEW c \in Bucket \ muddled' PROVE Ordered(c)'
  <2>1. Ordered(c)
    BY <1>1, <1>10 DEF StoreInv
  <2>2. Stored(c)' = Stored(c)
    BY <1>1, StoredIs
  <2>3. \A t \in Transfer : UsedBy(t, c)' <=> UsedBy(t, c)
    BY <1>1 DEF UsedBy, Busy
  <2>4. Using(c)' <=> Using(c)
    BY <1>1 DEF Using
  <2>5. ASSUME NEW t \in Transfer, UsedBy(t, c) PROVE bucket'[c] = bucket[c]
    BY <1>1, <1>3, <1>10, <2>5 DEF Using, UsedBy, Busy
  <2>6. QED
    BY <1>1, <1>5, <2>1, <2>2, <2>3, <2>4, <2>5 DEF Ordered
<1>11. QED
  BY <1>7, <1>8, <1>9, <1>10 DEF StoreInv

(* An upload that nobody counts muddles its bucket.                        *)
LEMMA PresignedInv ==
  ASSUME StoreInv, NEW b \in Bucket, NEW k \in ObjectKey, NEW z \in Bytes,
         PresignedPut(b, k, z)
  PROVE  StoreInv'
<1>1. /\ StoreTypeOK /\ r2' = [r2 EXCEPT ![b].size[k] = z] /\ transfers < TransferLimit
      /\ transfers' = transfers + 1
      /\ muddled' = muddled \cup {b} /\ UNCHANGED <<bucket, transfer, raced>>
  BY DEF PresignedPut, StoreInv
<1>2. z \in Nat
  BY StoreAssumption DEF StoreAssumption
<1>3. /\ r2' \in [Bucket -> [there : BOOLEAN, size : [ObjectKey -> Nat]]]
      /\ \A c \in Bucket \ {b} : r2'[c].size = r2[c].size
  BY <1>1, <1>2, SizeChanges
<1>4. transfers' \in 0..TransferLimit
  BY <1>1, StoreAssumption DEF StoreAssumption, StoreTypeOK
<1>5. StoreTypeOK'
  BY <1>1, <1>3, <1>4 DEF StoreTypeOK
<1>6. Rows' = Rows
  BY <1>1 DEF Rows
<1>7. WalletUsage' = WalletUsage
  BY <1>1, <1>6, WalletUsageStays
<1>8. \A t \in Transfer : Asked(transfer'[t]) /\ Allowed(t)'
  BY <1>1, <1>7 DEF StoreInv, Allowed
<1>9. ~ raced' => \A t, u \in Transfer : Busy(t)' /\ Busy(u)' => t = u
  BY <1>1 DEF StoreInv, Busy
<1>10. ASSUME NEW c \in Bucket \ muddled' PROVE Ordered(c)'
  <2>1. Ordered(c) /\ c # b
    BY <1>1, <1>10 DEF StoreInv
  <2>2. Stored(c)' = Stored(c)
    BY <1>3, <2>1, StoredIs
  <2>3. \A t \in Transfer : UsedBy(t, c)' <=> UsedBy(t, c)
    BY <1>1 DEF UsedBy, Busy
  <2>4. Using(c)' <=> Using(c)
    BY <1>1 DEF Using
  <2>5. r2'[c].size = r2[c].size
    BY <1>3, <2>1
  <2>6. QED
    BY <1>1, <1>6, <2>1, <2>2, <2>3, <2>4, <2>5 DEF Ordered
<1>11. QED
  BY <1>5, <1>8, <1>9, <1>10 DEF StoreInv

-----------------------------------------------------------------------------
LEMMA StoreInvInit == StoreInit => StoreInv
<1> SUFFICES ASSUME StoreInit PROVE StoreInv
  OBVIOUS
<1>1. /\ bucket \in [Bucket -> Row] /\ \A b \in Bucket : bucket[b].usage = 0
  BY StoreAssumption DEF StoreAssumption, StoreInit
<1>2. StoreTypeOK
  <2>1. r2 \in [Bucket -> [there : BOOLEAN, size : [ObjectKey -> Nat]]]
    BY DEF StoreInit
  <2>2. transfer \in [Transfer -> Calls]
    BY IdleCall DEF StoreInit
  <2>3. transfers \in 0..TransferLimit /\ muddled \subseteq Bucket
    BY StoreAssumption DEF StoreAssumption, StoreInit
  <2>4. raced \in BOOLEAN
    BY Zenon DEF StoreInit
  <2>5. QED
    BY <1>1, <2>1, <2>2, <2>3, <2>4 DEF StoreTypeOK, Calls
<1>3. \A t \in Transfer : Asked(transfer[t]) /\ transfer[t].pc = "idle"
  BY IdleCall DEF StoreInit
<1>4. ASSUME NEW b \in Bucket PROVE Ordered(b)
  <2> DEFINE f == r2[b].size
  <2>1. \A k \in ObjectKey : f[k] = 0
    BY DEF StoreInit
  <2>2. IsFiniteSet(ObjectKey)
    BY StoreAssumption DEF StoreAssumption
  <2>3. Stored(b) = SumOver(f, ObjectKey)
    BY StoredIs
  <2> HIDE DEF f
  <2>4. SumOver(f, ObjectKey) = 0
    BY <2>1, <2>2, SumOfZeros
  <2>5. QED
    BY <1>1, <1>3, <2>3, <2>4 DEF Ordered, UsedBy, Busy
<1>5. QED
  BY <1>2, <1>3, <1>4 DEF StoreInv, Allowed, Busy

LEMMA StoreInvStep == StoreInv /\ [StoreNext]_storeVars => StoreInv'
<1> SUFFICES ASSUME StoreInv, [StoreNext]_storeVars PROVE StoreInv'
  OBVIOUS
<1>1. ASSUME NEW t \in Transfer, StoreStep(t) PROVE StoreInv'
  <2>1. ASSUME NEW b \in Bucket,
               \/ \E n \in BucketName : CreateBucket(t, b, n)
               \/ DeleteBucket(t, b) \/ ReconcileUsage(t, b)
               \/ \E k \in ObjectKey : DeleteObject(t, b, k)
               \/ \E k \in ObjectKey, z \in Bytes, tracked \in BOOLEAN :
                    PutObject(t, b, k, z, tracked)
        PROVE  StoreInv'
    BY <2>1, CreateInv, DeletesInv, ReconcileInv, PutInv
  <2> DEFINE b == transfer[t].bucket
             k == transfer[t].key
  <2>2. PICK c, j : c = b /\ j = k
    OBVIOUS
  <2>3. ASSUME \/ R2Serves(t) \/ R2Refuses(t) \/ LoseTransfer(t)
               \/ CheckQuota(t) \/ Account(t) \/ Discount(t) \/ SetUsage(t)
               \/ InsertBucket(t) \/ DropRow(t)
        PROVE  StoreInv'
    BY <2>2, <2>3, R2ServesInv, R2RefusesInv, LoseInv, CheckQuotaInv, AccountInv,
       SetUsageInv, InsertInv, DropRowInv
  <2>4. QED
    BY <1>1, <2>1, <2>3 DEF StoreStep
<1>2. ASSUME NEW b \in Bucket,
             \/ \E q \in Quota : SetQuotaForBucket(b, q)
             \/ \E k \in ObjectKey, z \in Bytes : PresignedPut(b, k, z)
      PROVE  StoreInv'
  BY <1>2, SetQuotaInv, PresignedInv
<1>3. CASE UNCHANGED storeVars
  <2>1. UNCHANGED <<bucket, r2, transfer, transfers, muddled, raced>>
    BY <1>3 DEF storeVars
  <2>2. Rows' = Rows /\ WalletUsage' = WalletUsage
    BY <2>1, WalletUsageStays DEF Rows
  <2>3. StoreTypeOK'
    BY <2>1 DEF StoreInv, StoreTypeOK
  <2>4. ASSUME NEW c \in Bucket \ muddled' PROVE Ordered(c)'
    <3>1. Ordered(c)
      BY <2>1, <2>4 DEF StoreInv
    <3>2. Stored(c)' = Stored(c)
      BY <2>1, StoredIs
    <3>3. \A t \in Transfer : UsedBy(t, c)' <=> UsedBy(t, c)
      BY <2>1 DEF UsedBy, Busy
    <3>4. Using(c)' <=> Using(c)
      BY <2>1 DEF Using
    <3>5. QED
      BY <2>1, <2>2, <3>1, <3>2, <3>3, <3>4 DEF Ordered
  <2>5. QED
    BY <2>1, <2>2, <2>3, <2>4 DEF StoreInv, Allowed, Busy
<1>4. QED
  BY <1>1, <1>2, <1>3 DEF StoreNext

LEMMA StoreInvHolds == StoreSpec => []StoreInv
<1>1. QED
  BY StoreInvInit, StoreInvStep, PTL DEF StoreSpec

(* What the row of a bucket says is what R2 holds, for any number of       *)
(* buckets, objects and calls, of any sizes, as long as the bucket's calls *)
(* come one after another or it was reconciled since                       *)
(* (store/src/service.ts:269-364, 396-432, 581-619).                       *)
THEOREM UsageStaysExact == StoreSpec => []UsageIsExact
<1>1. StoreInv => UsageIsExact
  BY DEF StoreInv, Ordered, UsageIsExact, Rows
<1>2. QED
  BY <1>1, StoreInvHolds, PTL

(* A wallet's rows and objects have the types they should have.            *)
THEOREM StoreTypeCorrect == StoreSpec => []StoreTypeOK
<1>1. StoreInv => StoreTypeOK
  BY DEF StoreInv
<1>2. QED
  BY <1>1, StoreInvHolds, PTL

-----------------------------------------------------------------------------
(* What all buckets with a row hold together.                              *)
StoredOf == [b \in Bucket |-> Stored(b)]

LEMMA TotalIs == MapThenSumSet(Stored, Rows)' = SumOver(StoredOf', Rows')
<1> DEFINE Sums(g) == g = [s \in SUBSET Rows' |-> IF s = {} THEN 0
                             ELSE Stored(OneOf(s))' + g[s \ {OneOf(s)}]]
           h == CHOOSE g : Sums(g)
<1>1. MapThenSumSet(Stored, Rows)' = h[Rows']
  BY DEF MapThenSumSet, MapThenFoldSet, OneOf
<1>2. IsFiniteSet(Rows')
  BY StoreAssumption, FS_Subset DEF StoreAssumption, Rows
<1>3. ASSUME NEW s \in SUBSET Rows', s # {}
      PROVE  StoredOf'[OneOf(s)] = Stored(OneOf(s))'
  BY <1>3 DEF OneOf, Rows, StoredOf
<1>4. PICK k : SumsUpTo(StoredOf', Rows', k)
  BY <1>2, SumExists
<1>5. Sums(k)
  BY <1>3, <1>4 DEF SumsUpTo
<1>6. Sums(h)
  BY <1>5
<1> HIDE DEF h
<1>7. SumsUpTo(StoredOf', Rows', h)
  BY <1>3, <1>6 DEF SumsUpTo
<1>8. QED
  BY <1>1, <1>2, <1>7, SumOverIs

(* Nothing but an upload that was let through lets a bucket that is not    *)
(* muddled grow.                                                           *)
LEMMA OnlyPutsGrow ==
  ASSUME StoreInv, StoreNext, NEW b \in Bucket, b \notin muddled', Stored(b)' > Stored(b)
  PROVE  \E t \in Transfer :
           /\ transfer[t].pc = "put" /\ transfer[t].bucket = b
           /\ r2' = [r2 EXCEPT ![b].size[transfer[t].key] = transfer[t].size]
           /\ UNCHANGED <<bucket, muddled, raced>>
<1>1. StoreTypeOK /\ Stored(b) \in Nat
  BY StoredIsNat DEF StoreInv
<1>2. r2'[b].size # r2[b].size
  <2>1. SUFFICES ASSUME r2'[b].size = r2[b].size PROVE FALSE
    OBVIOUS
  <2>2. Stored(b)' = Stored(b)
    BY <2>1, StoredIs
  <2>3. QED
    BY <1>1, <2>2
<1>3. ASSUME NEW c \in Bucket, NEW k \in ObjectKey, NEW z \in Bytes, PresignedPut(c, k, z)
      PROVE  FALSE
  <2>1. r2' = [r2 EXCEPT ![c].size[k] = z] /\ c # b /\ z \in Nat
    BY <1>3, StoreAssumption DEF PresignedPut, StoreAssumption
  <2>2. QED
    BY <1>1, <1>2, <2>1, SizeChanges
<1>4. PICK t \in Transfer : R2Serves(t)
  <2>1. r2' # r2
    BY <1>2
  <2>2. ASSUME NEW t \in Transfer, NEW c \in Bucket,
               \/ \E n \in BucketName : CreateBucket(t, c, n)
               \/ DeleteBucket(t, c) \/ ReconcileUsage(t, c)
               \/ \E k \in ObjectKey : DeleteObject(t, c, k)
               \/ \E k \in ObjectKey, z \in Bytes, tracked \in BOOLEAN :
                    PutObject(t, c, k, z, tracked)
        PROVE  r2' = r2
    BY <2>2 DEF CreateBucket, DeleteBucket, ReconcileUsage, DeleteObject, PutObject, Starts,
       Begins
  <2>3. ASSUME NEW t \in Transfer,
               \/ R2Refuses(t) \/ LoseTransfer(t) \/ CheckQuota(t) \/ Account(t)
               \/ Discount(t) \/ SetUsage(t) \/ InsertBucket(t) \/ DropRow(t)
        PROVE  r2' = r2
    BY <2>3 DEF R2Refuses, LoseTransfer, CheckQuota, Account, Discount, SetUsage,
       InsertBucket, DropRow
  <2>4. ASSUME NEW c \in Bucket, NEW q \in Quota, SetQuotaForBucket(c, q) PROVE r2' = r2
    BY <2>4 DEF SetQuotaForBucket
  <2>5. \A t \in Transfer : StoreStep(t) => R2Serves(t)
    BY <2>1, <2>2, <2>3 DEF StoreStep
  <2>6. QED
    BY <1>3, <2>1, <2>4, <2>5 DEF StoreNext
<1>5. PICK c, k : c = transfer[t].bucket /\ k = transfer[t].key
  OBVIOUS
<1>6. c \in Bucket /\ Asked(transfer[t])
  BY <1>4, <1>5 DEF R2Serves, R2Does, StoreInv, Asked
<1>7. UNCHANGED <<bucket, muddled, raced>>
  BY <1>4 DEF R2Serves
<1>8. CASE transfer[t].pc \notin {"put", "delete"}
  <2>1. r2' = r2 \/ \E z \in BOOLEAN : r2' = [r2 EXCEPT ![c].there = z]
    BY <1>4, <1>5, <1>8 DEF R2Serves, R2Does
  <2>2. r2'[b].size = r2[b].size
    BY <1>1, <1>6, <2>1 DEF StoreTypeOK
  <2>3. QED
    BY <1>2, <2>2
<1>9. CASE transfer[t].pc = "delete"
  <2> DEFINE n == 0
  <2>1. n \in Nat /\ r2' = [r2 EXCEPT ![c].size[k] = n]
    BY <1>4, <1>5, <1>9 DEF R2Serves, R2Does
  <2>2. k \in ObjectKey
    BY <1>5, <1>6, <1>9 DEF Asked
  <2> HIDE DEF n
  <2>3. c = b
    BY <1>1, <1>2, <1>6, <2>1, <2>2, SizeChanges
  <2>4. Stored(b)' = Stored(b) - r2[b].size[k] + n
    BY <1>1, <2>1, <2>2, <2>3, SizeChanges
  <2>5. r2[b].size[k] \in Nat
    BY <1>1, <2>2 DEF StoreTypeOK
  <2>6. QED
    BY <1>1, <2>4, <2>5 DEF n
<1>10. CASE transfer[t].pc = "put"
  <2> DEFINE n == transfer[t].size
  <2>1. n \in Nat /\ r2' = [r2 EXCEPT ![c].size[k] = n]
    BY <1>1, <1>4, <1>5, <1>10 DEF R2Serves, R2Does, StoreTypeOK
  <2>2. k \in ObjectKey
    BY <1>5, <1>6, <1>10 DEF Asked
  <2> HIDE DEF n
  <2>3. c = b
    BY <1>1, <1>2, <1>6, <2>1, <2>2, SizeChanges
  <2>4. QED
    BY <1>5, <1>7, <1>10, <2>1, <2>3 DEF n
<1>11. QED
  BY <1>8, <1>9, <1>10

(* Calls that do not overlap grow a bucket up to its quota and no further, *)
(* and the wallet up to its cap, for every quota, cap and size of objects  *)
(* (store/src/service.ts:315-340).                                         *)
THEOREM UploadsAlwaysFit == StoreSpec => UploadsFit
<1> DEFINE Grown(b) == b \notin muddled' /\ Stored(b)' > Stored(b)
           Fit(b) == /\ bucket[b].quota = NoQuota \/ Stored(b)' <= bucket[b].quota
                     /\ ~ raced /\ muddled = {} =>
                          MapThenSumSet(Stored, Rows)' <= MaxStorage
<1>1. ASSUME StoreInv, StoreInv', [StoreNext]_storeVars, NEW b \in Bucket, Grown(b)
      PROVE  Fit(b)
  <2>1. StoreTypeOK /\ StoreTypeOK'
    BY <1>1 DEF StoreInv
  <2>2. Stored(b) \in Nat
    BY <2>1, StoredIsNat
  <2>3. StoreNext
    <3>1. CASE UNCHANGED storeVars
      <4>1. r2' = r2
        BY <3>1 DEF storeVars
      <4>2. Stored(b)' = Stored(b)
        BY <4>1, StoredIs
      <4>3. QED
        BY <1>1, <2>2, <4>2
    <3>2. QED
      BY <1>1, <3>1
  <2>4. PICK t \in Transfer :
          /\ transfer[t].pc = "put" /\ transfer[t].bucket = b
          /\ r2' = [r2 EXCEPT ![b].size[transfer[t].key] = transfer[t].size]
          /\ UNCHANGED <<bucket, muddled, raced>>
    BY <1>1, <2>3, OnlyPutsGrow
  <2>5. PICK k, z, old : k = transfer[t].key /\ z = transfer[t].size /\ old = transfer[t].old
    OBVIOUS
  <2>6. k \in ObjectKey /\ z \in Nat /\ old \in Nat
    BY <1>1, <2>1, <2>4, <2>5 DEF StoreInv, Asked, StoreTypeOK
  <2>7. /\ \A c \in Bucket \ {b} : r2'[c].size = r2[c].size
        /\ Stored(b)' = Stored(b) - r2[b].size[k] + z
    <3>1. r2' = [r2 EXCEPT ![b].size[k] = z]
      BY <2>4, <2>5
    <3>2. QED
      BY <2>1, <2>6, <3>1, SizeChanges
  <2>8. Known(transfer[t], bucket[b], r2[b].size, Stored(b))
    BY <1>1, <2>4, TransferKnows DEF Busy
  <2>9. /\ bucket[b].usage = Stored(b) /\ old = r2[b].size[k] /\ b \in Rows
        /\ bucket[b].quota = NoQuota \/ Stored(b) + z - old <= bucket[b].quota
    BY <2>4, <2>5, <2>8 DEF Known, Rows
  <2>10. Stored(b)' = Stored(b) + z - old
    <3> DEFINE n == r2[b].size[k]
    <3>1. old = n /\ Stored(b)' = Stored(b) - n + z
      BY <2>7, <2>9
    <3> HIDE DEF n
    <3>2. QED
      BY <2>2, <2>6, <3>1
  <2>11. bucket[b].quota = NoQuota \/ Stored(b)' <= bucket[b].quota
    BY <2>9, <2>10
  <2>12. ASSUME ~ raced, muddled = {} PROVE MapThenSumSet(Stored, Rows)' <= MaxStorage
    <3>1. \A c \in Rows : bucket[c].usage = Stored(c)
      <4>1. ASSUME NEW c \in Rows, c # b PROVE ~ Using(c)
        BY <1>1, <2>4, <2>12, <4>1 DEF Using, StoreInv, Busy
      <4>2. \A c \in Rows : Ordered(c)
        BY <1>1, <2>12 DEF StoreInv, Rows
      <4>3. QED
        BY <2>9, <4>1, <4>2 DEF Ordered
    <3>2. Rows' = Rows /\ IsFiniteSet(Rows) /\ Rows \subseteq Bucket
      BY <2>4, StoreAssumption, FS_Subset DEF StoreAssumption, Rows
    <3> DEFINE f == StoredOf
               g == StoredOf'
    <3>3. /\ \A c \in Bucket : f[c] = Stored(c) /\ g[c] = Stored(c)'
          /\ \A c \in Bucket : f[c] \in Nat /\ g[c] \in Nat
      BY <2>1, StoredIsNat DEF StoredOf
    <3>4. \A c \in Rows \ {b} : f[c] = g[c]
      BY <2>7, <3>2, <3>3, StoredIs
    <3>5. SumOver(UsageOf(bucket), Rows) = SumOver(f, Rows)
      <4>1. \A c \in Rows : UsageOf(bucket)[c] = f[c]
        BY <3>1, <3>2, <3>3 DEF UsageOf
      <4> HIDE DEF f
      <4>2. QED
        BY <3>2, <4>1, SameSum
    <3>6. MapThenSumSet(Stored, Rows)' = SumOver(g, Rows)
      BY <3>2, TotalIs
    <3> HIDE DEF f, g
    <3>7. SumOver(g, Rows) = SumOver(f, Rows) - f[b] + g[b]
      BY <2>9, <3>2, <3>3, <3>4, SumChanges
    <3>8. WalletUsage + z - old <= MaxStorage
      BY <1>1, <2>4, <2>5, <2>12 DEF StoreInv, Allowed
    <3>9. WalletUsage = SumOver(f, Rows)
      BY <3>5, WalletUsageIs
    <3>10. SumOver(f, Rows) \in Nat /\ MaxStorage \in Nat
      BY <3>2, <3>3, SumIsNat, StoreAssumption DEF StoreAssumption
    <3>11. f[b] = Stored(b) /\ g[b] = Stored(b) + z - old
      BY <2>10, <3>3
    <3>12. SumOver(g, Rows) = SumOver(f, Rows) + z - old
      BY <2>2, <2>6, <3>7, <3>10, <3>11
    <3>13. QED
      BY <3>6, <3>8, <3>9, <3>12
  <2>13. QED
    BY <2>11, <2>12
<1> HIDE DEF Grown, Fit
<1>2. StoreInv /\ StoreInv' /\ [StoreNext]_storeVars =>
        [\A b \in Bucket : Grown(b) => Fit(b)]_storeVars
  BY <1>1
<1>3. StoreSpec => [][\A b \in Bucket : Grown(b) => Fit(b)]_storeVars
  BY <1>2, StoreInvHolds, PTL DEF StoreSpec
<1>4. QED
  BY <1>3 DEF UploadsFit, Grown, Fit

-----------------------------------------------------------------------------
(* The services side by side: each runs as it does alone.                  *)
LEMMA ServicesRunAlone ==
  ServicesSpec =>
    /\ SpawnSpec /\ StoreSpec /\ TokenSpec /\ PoolSpec /\ MemSpec /\ CacheSpec /\ RecordsSpec
    /\ FetchSpec /\ KeystoreSpec /\ WalletSpec /\ ChatAccountsSpec /\ ChatStreamSpec
    /\ InferSpec
<1>1. ServicesInit =>
        /\ SpawnInit /\ StoreInit /\ TokenInit /\ PoolInit /\ MemInit /\ CacheInit
        /\ RecordsInit /\ FetchInit /\ KeystoreInit
        /\ WalletInit /\ ChatAccountsInit /\ ChatStreamInit /\ InferInit
  BY DEF ServicesInit
<1>2. ServicesNext \/ UNCHANGED servicesVars =>
        /\ SpawnNext \/ UNCHANGED spawnVars
        /\ StoreNext \/ UNCHANGED storeVars
        /\ TokenNext \/ UNCHANGED tokenVars
        /\ PoolNext \/ UNCHANGED poolVars
        /\ MemNext \/ UNCHANGED memVars
        /\ CacheNext \/ UNCHANGED cacheVars
        /\ RecordsNext \/ UNCHANGED recordVars
        /\ FetchNext \/ UNCHANGED fetchVars
        /\ KeystoreNext \/ UNCHANGED keystoreVars
        /\ WalletNext \/ UNCHANGED walletVars
        /\ ChatAccountsNext \/ UNCHANGED chatAccountVars
        /\ ChatStreamNext \/ UNCHANGED chatVars
        /\ InferNext \/ UNCHANGED inferVars
  BY DEF ServicesNext, Others, servicesVars
<1>3. [ServicesNext]_servicesVars =>
        /\ [SpawnNext]_spawnVars /\ [StoreNext]_storeVars /\ [TokenNext]_tokenVars
        /\ [PoolNext]_poolVars /\ [MemNext]_memVars /\ [CacheNext]_cacheVars
        /\ [RecordsNext]_recordVars /\ [FetchNext]_fetchVars /\ [KeystoreNext]_keystoreVars
        /\ [WalletNext]_walletVars /\ [ChatAccountsNext]_chatAccountVars
        /\ [ChatStreamNext]_chatVars /\ [InferNext]_inferVars
  BY <1>2
<1>4. QED
  BY <1>1, <1>3, PTL DEF ServicesSpec, SpawnSpec, StoreSpec, TokenSpec, PoolSpec, MemSpec,
     CacheSpec, RecordsSpec, FetchSpec, KeystoreSpec, WalletSpec, ChatAccountsSpec,
     ChatStreamSpec, InferSpec

LEMMA ServicesInvariants ==
  ServicesSpec =>
    [](/\ SpawnInv /\ StoreInv /\ MintInv /\ PoolInv /\ MemInv /\ CacheInv /\ RecordsInv
       /\ FetchInv /\ KeystoreInv /\ PolicyInv /\ ChatInv /\ StreamInv /\ InferInv)
<1>1. /\ SpawnSpec => []SpawnInv
      /\ TokenSpec => []MintInv
      /\ PoolSpec => []PoolInv
      /\ MemSpec => []MemInv
  BY SpawnInvInit, SpawnInvStep, MintInvInit, MintInvStep, PoolInvInit, PoolInvStep,
     MemInvInit, MemInvStep, PTL DEF SpawnSpec, TokenSpec, PoolSpec, MemSpec
<1>2. /\ CacheSpec => []CacheInv
      /\ RecordsSpec => []RecordsInv
      /\ FetchSpec => []FetchInv
      /\ KeystoreSpec => []KeystoreInv
  BY CacheInvInit, CacheInvStep, RecordsInvInit, RecordsInvStep, FetchInvInit, FetchInvStep,
     KeystoreInvInit, KeystoreInvStep, PTL DEF CacheSpec, RecordsSpec, FetchSpec, KeystoreSpec
<1>3. /\ WalletSpec => []PolicyInv
      /\ ChatAccountsSpec => []ChatInv
      /\ ChatStreamSpec => []StreamInv
      /\ InferSpec => []InferInv
  BY PolicyInvInit, PolicyInvStep, ChatInvInit, ChatInvStep, StreamInvInit, StreamInvStep,
     InferInvInit, InferInvStep, PTL DEF WalletSpec, ChatAccountsSpec, ChatStreamSpec, InferSpec
<1>4. QED
  BY <1>1, <1>2, <1>3, StoreInvHolds, ServicesRunAlone, PTL

(* Servers, buckets, tokens, pools, collections, cached values, records,   *)
(* payments, keys, policies, chats and bills have the types they should    *)
(* have, for any number of each.                                           *)
THEOREM ServicesTypeCorrect == ServicesSpec => []ServicesTypeOK
<1>1. SpawnInv /\ StoreInv /\ MintInv /\ PoolInv /\ MemInv /\ CacheInv /\ RecordsInv =>
        /\ SpawnTypeOK /\ StoreTypeOK /\ TokenTypeOK /\ PoolTypeOK /\ MemTypeOK
        /\ CacheTypeOK /\ RecordsTypeOK
  BY DEF SpawnInv, StoreInv, MintInv, PoolInv, MemInv, CacheInv, RecordsInv
<1>2. FetchInv /\ KeystoreInv /\ PolicyInv /\ ChatInv /\ StreamInv /\ InferInv =>
        /\ FetchTypeOK /\ KeystoreTypeOK
        /\ WalletTypeOK /\ ChatAccountsTypeOK /\ ChatStreamTypeOK /\ InferTypeOK
  BY DEF FetchInv, KeystoreInv, PolicyInv, ChatInv, StreamInv, InferInv
<1>3. SpawnInv /\ StoreInv /\ MintInv /\ PoolInv /\ MemInv /\ CacheInv /\ RecordsInv
        /\ FetchInv /\ KeystoreInv /\ PolicyInv /\ ChatInv /\ StreamInv /\ InferInv =>
        ServicesTypeOK
  BY <1>1, <1>2 DEF ServicesTypeOK
<1>4. QED
  BY <1>3, ServicesInvariants, PTL

(* The chat application lets in whom it saw and keeps what was answered,   *)
(* for any number of challenges, passkeys, conversations and chats         *)
(* (apps/chat/src/auth.ts:93-248, agent.ts:57-189), whatever the services  *)
(* do beside it.                                                           *)
THEOREM ChatKeeps == ServicesSpec => []ChatHolds
<1>1. ChatInv /\ StreamInv => ChatHolds
  BY DEF ChatInv, StreamInv, ChatHolds
<1>2. QED
  BY <1>1, ServicesInvariants, PTL
=============================================================================
