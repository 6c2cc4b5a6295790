----------------------------- MODULE MCServices -----------------------------
(***************************************************************************)
(* Servers, buckets, tokens, pools, collections, cached values, DNS        *)
(* records, payments, keys, policies, chats and bills keep to state of     *)
(* their own: one run checks them side by side, one of them at work in     *)
(* each behaviour.                                                         *)
(***************************************************************************)
EXTENDS SpawnServers, StoreUsage, TokenMint, TokenPool, MemCollections, MemCache,
        DomainRecords, PrimFetch, Keystore, WalletControl, ChatAccounts, ChatStream,
        InferMetering, TLC

CONSTANTS e1, e2, e3,    (* whatever a service keeps                       *)
          c1, c2,        (* calls                                          *)
          w1

VARIABLE part    (* chosen once: the one at work *)

MCTwo == {e1, e2}
MCThree == {e1, e2, e3}
MCCall == {c1, c2}
MCWallet == {w1}
MCKey == {e3}
MCOwner == [i \in {e1, e2, e3} |-> w1]
MCToken == {e3}
MCSymmetry == Permutations({c1, c2}) \cup Permutations({e1, e2})

(* The wallet starts with no bucket, or with one that is open.             *)
MCOpened ==
  {[b \in MCTwo |-> NoRow]} \cup
    {[b \in MCTwo |-> IF b = e THEN [name |-> "n1", quota |-> 2, usage |-> 0] ELSE NoRow] :
       e \in MCTwo}

(* Two wallets whose names coincide at Qdrant; the first makes its         *)
(* collection twice.                                                       *)
MCTenant == [k \in {e1, e2, e3} |-> IF k = e3 THEN "v" ELSE "w"]
MCPlace == [k \in {e1, e2, e3} |-> "p"]
MCQuota == {NoQuota}
MCTtl == {0, 1, 2, Forever}
MCMailKinds == <<"a", "mx">>

(* Any A record of the name is the mail server's, and may be proxied; an   *)
(* MX record of another priority is another record.                        *)
MCKind == {"a", "mx"}
MCContent == {"x", "y"}
MCMatch == [k \in MCKind |-> IF k = "a" THEN MCContent ELSE {"x"}]
MCByHand ==
  {v \in [name : MCKind, content : MCContent, proxied : BOOLEAN] :
     v.proxied <=> v.name = "a" /\ v.content = "x"}

ServicesTypeOK ==
  /\ SpawnTypeOK /\ StoreTypeOK /\ TokenTypeOK /\ PoolTypeOK /\ MemTypeOK
  /\ CacheTypeOK /\ RecordsTypeOK /\ FetchTypeOK /\ KeystoreTypeOK
  /\ WalletTypeOK /\ ChatAccountsTypeOK /\ ChatStreamTypeOK /\ InferTypeOK

(* The chat application keeps who is signed in and what was answered.      *)
ChatHolds == SignInsHold /\ AnswersAreKept

servicesVars ==
  <<spawnVars, storeVars, tokenVars, poolVars, memVars, cacheVars, recordVars,
    fetchVars, keystoreVars, walletVars, chatAccountVars, chatVars, inferVars, part>>

ServicesInit ==
  /\ part \in {"spawn", "store", "mint", "pools", "mem", "cache", "records", "fetch", "keys",
              "wallet", "signin", "chat", "infer"}
  /\ SpawnInit /\ StoreInit /\ TokenInit /\ PoolInit /\ MemInit /\ CacheInit
  /\ RecordsInit /\ FetchInit /\ KeystoreInit
  /\ WalletInit /\ ChatAccountsInit /\ ChatStreamInit /\ InferInit
  /\ part # "infer" => rate = [x \in Model |-> 1]
  /\ part # "store" => bucket = [b \in Bucket |-> NoRow]

Others(name) ==
  /\ UNCHANGED part
  /\ name # "spawn"   => UNCHANGED spawnVars
  /\ name # "store"   => UNCHANGED storeVars
  /\ name # "mint"    => UNCHANGED tokenVars
  /\ name # "pools"   => UNCHANGED poolVars
  /\ name # "mem"     => UNCHANGED memVars
  /\ name # "cache"   => UNCHANGED cacheVars
  /\ name # "records" => UNCHANGED recordVars
  /\ name # "fetch"   => UNCHANGED fetchVars
  /\ name # "keys"    => UNCHANGED keystoreVars
  /\ name # "wallet"  => UNCHANGED walletVars
  /\ name # "signin"  => UNCHANGED chatAccountVars
  /\ name # "chat"    => UNCHANGED chatVars
  /\ name # "infer"   => UNCHANGED inferVars

ServicesNext ==
  \/ part = "spawn"   /\ SpawnNext    /\ Others("spawn")
  \/ part = "store"   /\ StoreNext    /\ Others("store")
  \/ part = "mint"    /\ TokenNext    /\ Others("mint")
  \/ part = "pools"   /\ PoolNext     /\ Others("pools")
  \/ part = "mem"     /\ MemNext      /\ Others("mem")
  \/ part = "cache"   /\ CacheNext    /\ Others("cache")
  \/ part = "records" /\ RecordsNext  /\ Others("records")
  \/ part = "fetch"   /\ FetchNext    /\ Others("fetch")
  \/ part = "keys"    /\ KeystoreNext /\ Others("keys")
  \/ part = "wallet"  /\ WalletNext   /\ Others("wallet")
  \/ part = "signin"  /\ ChatAccountsNext /\ Others("signin")
  \/ part = "chat"    /\ ChatStreamNext   /\ Others("chat")
  \/ part = "infer"   /\ InferNext        /\ Others("infer")

ServicesSpec == ServicesInit /\ [][ServicesNext]_servicesVars
=============================================================================
