# Verification of prim.sh in TLA+

prim.sh is a set of small pay-per-call services ("primitives") for software
agents: domains, mailboxes, servers, storage, tokens, memory, search,
inference. Every service is a TypeScript/Bun HTTP application built from the
same middleware: a request pays by x402 (a signed USDC authorization in a
header) or from a credit balance, and its handler drives an external provider
and a local SQLite database.

This directory holds TLA+ modules of the parts whose correctness depends on
interleaving and failure, TLC configurations that check them on small
instances, and proofs, checked by TLAPS, of what matters most for every
instance. `PROJECT.json` lists the components, the runs, the hazards, what the
checks have turned up (findings), and for every definition the lines of the
code it models.

    tlc -config MCEmail.cfg MCEmail     # a run
    tlapm CreditLedgerProofs.tla        # the proofs of a module

## How the code runs, and how it is modelled

Each service is one JavaScript event loop. The code between two `await`s is
atomic, so an action is a stretch of a handler from one await to the next, and
concurrency is the interleaving of such stretches of several requests, timers
and background jobs. SQLite calls are synchronous and a transaction is part of
the action that makes it. Each request, call or job is a record in a function
(`req`, `call`, `job`, `redemption`, `drip`, `order`, `transfer`, ...): a place `pc` and what its local
variables hold over an await. State read before an await and used after it is
therefore stale in the model exactly where it is stale in the code.

Providers, chains, registrars, facilitators and mail servers are external. They
give every outcome the code tells apart; where they keep state of their own
(Stalwart's accounts, Cloudflare's zone and records, the registrar's
delegation, the chain's transactions, DigitalOcean's servers, the objects of
R2, Qdrant's collections), that state is a variable, a request changes it in one
step and the handler takes notice in another, and the answer may be lost after
the change was made. A restart of the process loses what is in memory and keeps
what is in SQLite.

Some variables are *histories*: nothing reads them but properties (what a
request moved in the ledger, what a code's redemption sent, which limits were
last asked for, which rows two calls wrote at once). Properties that hold only
as long as calls on one thing come one after another say so by such a history,
and the overlapping calls are in the model all the same. Some are chosen
once in the initial state and never change (`world`, `outage`, `part`): they
say which failures may happen, so that a property that needs a reliable world
is checked in one, and a property that does not is checked in all of them.

`(* Broken: ... *)` marks a variant of the definition after it with a plausible
mistake in it. Substituted for that definition, it must make TLC find a
property violated (`mutants` in `PROJECT.json`): so every property is known to
notice something.

## Inventory

What the parts keep, what they do, what is hard, and what makes them right.

| part (src/packages) | state | operations | hard behaviour | right when |
|---|---|---|---|---|
| x402-middleware, payment gate (`middleware.ts`) | `estimateCache`; module-level route prices | estimate, credit check, library call, handler, settlement | requests of one URL share a cache entry; a partial credit is taken before a payment that may fail; streams settle late | each request pays its own price, once, and what it cost |
| x402-middleware, credit ledger (`credit.ts`) | `credit_balance`, `credit_tx` | add, deduct, settle, expire | debt cap cutting a debit short; expiry next to debts | balance above the cap, log and balance agree |
| x402-middleware, rate limiter (`rate-limit.ts`) | window entries, time of the last pruning | check, prune | boundaries of windows, pruning inside another wallet's check | limit kept, no refusal without cause |
| domain.sh, registration (`service.ts`, `index.ts`) | registrations, zones, quotes; Cloudflare, registrar, delegation | register, recover, configure-ns, create and delete zone | five external services in a row, any of which fails; recovery by token; UNIQUE domains | money spent leads to a registration its owner can complete, but for named dead ends |
| email.sh, mailboxes (`service.ts`, `expiry.ts`) | mailbox rows; Stalwart's accounts | create, read, renew, delete, expire, sweep, clean up | sweeps overlap with calls and each other; answers get lost | a usable mailbox has its account, an expired one does not for ever |
| email.sh, custom domains | domain rows; Stalwart's domain principal | register, verify, delete | two verifications, one of which rolls back | active means proven and provisioned |
| email.sh, webhooks | webhook rows, failure counts; timers of deliveries | register, delete, ingest, deliver with retries, pause | deliveries outlive the webhook and cross each other | a hook hears its own mail, pauses for cause |
| email.sh, messages | JMAP session cache | list, read, send | little: requests are translated | - |
| gate.sh | invite codes, the shared allowlist; the chain | redeem with rollback, create and revoke codes, allowlist by hand | failure between two transfers, two codes of one wallet | a redeemed code is funded, a failed one leaves nothing |
| faucet.sh | times of drips, nonce queue; the chain | drip USDC or ETH, refill | promise chain of nonces, drips at once, reserve floor | no two transfers share a nonce, nobody waits for ever |
| spawn.sh | server rows, SSH keys; servers at DigitalOcean and Hetzner | create, refresh, start, stop, reboot, resize, rebuild, delete; keys | answers about a server deleted meanwhile; cap checked before an await | no server runs uncounted; a row says whether its server is there and what type it is to be |
| store.sh | bucket rows with quota and usage; R2 | create, put, delete, quota, reconcile | usage counters next to an object store that is written at once | usage within the quota and equal to what is stored |
| token.sh | deployments, supply counts, pools; the chain | deploy, mint, supply, create a pool, read a pool | receipts after the timeout, caps counted off chain, strangers who create the same pool | what the contract minted is counted; a recorded pool is there at its price |
| mem.sh | collections, cache entries; Qdrant | create, list, upsert, query, delete; set, get, delete with expiry, sweeps | two stores; names of two wallets that coincide | a row has its collection, which is its wallet's alone; an entry is live |
| domain.sh, DNS records | records at Cloudflare and in SQLite | create, update, delete, batch, mail setup | the two stores drift apart when one of them fails | each row has its record as it is at Cloudflare; no mail record is made twice |
| x402-client (`client.ts`) | none but the request's; the chain | first request, sign, retry, sign again | a settlement that failed in name only | at most one payment, below the cap |
| keystore (`packages/keystore`) | key files, device key, default | create, import, remove, set default, load | two commands at once, a killed process | each file opens, and the default resolves |
| wallet.sh | wallets, policies, fund requests, executions, breaker | register, fund, approve, pause, resume, policies | limits, pauses, spending and the daily reset write one row | none undoes another, the limit holds |
| infer.sh | cache of rates | estimate, chat, stream, bill | rates move under a request, the model that ran is another | a bill is what the request has cost, and never below the minimum |
| chat application (`apps/chat`) | accounts, challenges, conversations; streams under way | register, sign in, redeem a code, ask, answer | a challenge answered twice while its signature is verified; browsers that leave | one sign-in a challenge, every full answer is kept |
| x402-middleware, provider registry | provider instances, health | resolve, health rounds, destroy | overlapping rounds | one instance per provider |
| imagine.sh, search.sh, track.sh, feedback.sh | none shared | forward | - | - |
| CLI, SDK, MCP, create; apps/pay, site, deploy, scripts | local files | single-user commands, generators | - | - |

How they interact: every service calls the gate around each paid route; the
gate calls the ledger synchronously, the limiter, the allowlist database that
gate.sh writes, and the payment library. gate.sh redeems a code by writing the
allowlist, sending two transactions, and calling wallet.sh (`/internal/wallets`)
and infer.sh (`/internal/credit/add`, the ledger's `Seed`). email.sh reads the
custom domains it hosts; domain.sh and email.sh share nothing but DNS. The
paying fetch of x402-client takes its key from the keystore and stands on the
other side of every gate; the chat application redeems a code at gate.sh for
each account and calls the services through that fetch. infer.sh hands its
estimate and its calculation of the cost to the gate, which bills by them.

## Modules

**`CreditLedger`** is `credit.ts`: one action per operation (`AddCredit`,
`DeductCredit`, `Settle`, `ExpireInactive`, and time passing, `GrowStale`), each
of which is one `BEGIN IMMEDIATE` transaction in the code. `Deduction` is the
debt cap. Amounts are whole micro-USDC; the code's rounding to six decimals is
what makes them so.

**`PaymentGate`** extends it: `middleware.ts` around any number of requests.
`Admit` is the synchronous stretch from the estimator's answer to the call of
the payment library or the handler (credit check, partial credit, cache entry);
`ReadPrice` is the library calling back for the price; `Respond*` are the ways
a handler ends; `SettleUsage`, `SettleStream` and `SettleOnChain` reconcile and
settle; `Leave` is the `finally` block. It is a refinement of `CreditLedger`:
`LedgerSpec` is a property of it (the variables have the same names, so the
mapping is the identity).

**`RateLimiter`** is `rate-limit.ts`: `Check` with the lazy pruning at its head,
and a clock.

**`DomainRegistration`** is one domain name in domain.sh: payment, purchase at
the registrar, row, Cloudflare zone, zone row, name servers, with `recover`,
`configure-ns`, zones made by anybody of the same name, deletion, and restart.
**`RegistrationLife`** is its abstract specification: a registration goes
through its stages forward only, bought once and owned by one wallet.
`DomainRegistration` implements it (`LifeSpec`: the stage is computed from the
rows).

**`EmailMailbox`** is the life of mailboxes: creation in three steps
(principal, JMAP session, row), lazy expiry on reads, renewal, deletion, and
the sweeps of `expiry.ts` with their retries and dead letters. `Job` covers
calls and sweeps. **`EmailDomain`** is a custom domain: `verifyDomain` with its
provisioning and rollback, `deleteDomain`. **`EmailWebhooks`** is ingestion,
delivery with retries, and pausing.

**`GateRedeem`** is gate.sh's redemption with its rollback (`Undo`, two commits
in the code and one step here), the
operators' endpoints, and the seeding of `GATE_CODES` at every start.
**`Faucet`** is a drip: CDP first, then the treasury, whose transfers take their
nonces from `NonceQueue`. `line` is the chain of promises: its head is the one
caller that is not waiting, and a caller that left without resolving its
promise stays in it as `Lost`.

**`SpawnServers`** is spawn.sh. An order is a call with its await: what it read
of the row (`BeginOrder`, with the cap for a new server), the provider's own
step (`ProviderServes`, `ProviderRefuses`), the row written when the answer
comes (`InsertItem`, `RefreshStatus`, `MarkDeleted`, `MarkResized`), or its
loss. A creation and a resizing are actions that go on after the answer and may
fail then (`ActionEnds`, `ActionFails`), of which nothing tells the service.
Starting, stopping and rebooting write no row, and are `Power`.
**`StoreUsage`** is store.sh: bucket rows, uploads and deletions with their
object's size read before the transfer and the usage written after it, quotas,
reconciliation, and presigned uploads that go past the service.

**`TokenMint`** and **`TokenPool`** are token.sh: deployment and minting, whose
receipts are waited for 30 seconds (`MintUnheard` goes on without), and a
token's pool, created and given its price by two transactions or adopted as it
is found, with strangers who may create or price the same pool first.

**`MemCollections`** and **`MemCache`** are mem.sh: rows next to Qdrant's
collections, whose derived names may coincide (`Place`), and entries with a time
to live, lazily deleted and swept.

**`DomainRecords`** are the DNS records of domain.sh in both stores, with the
batch endpoint and the mail setup, which looks for records at Cloudflare before
it makes its own. A record is its type and name (`Kind`), what else it says
(`Content`: content, ttl and priority) and `proxied`; `Match` are the contents a
setup's `matchFn` accepts, so a record can be of the right type and name and not
be found. An update may change all of it. Cloudflare may do a request in part
(`Done`), and `Written` is what the answer makes of the rows.

**`PrimFetch`** is x402-client: a request, a signature within the cap, the
retry, and the second signature after a settlement that was reported as failed;
`auth` is what became of each authorization on the chain. It EXTENDS nothing of
the gate: what it knows of the gate is its answer. **`Keystore`** is the
key directory, file operation by file operation, under commands that run at the
same time and may be killed between two of them.

**`WalletControl`** is wallet.sh's wallets, fund requests and policies;
**`InferMetering`** the estimates, the cache of rates and the bills of infer.sh;
**`ChatAccounts`** and **`ChatStream`** the sign-in and the conversations of the
chat application.

**`MC*`** modules give the constants their values. `MCEmail`, `MCOnboarding`
and `MCServices` put modules that share no state side by side: the rigid variable `part` picks
the one at work in each behaviour, so the states add up and do not multiply.

**`*Proofs`** modules hold the theorems of the module they are named for;
`OnboardingProofs` those of `RateLimiter`, `GateRedeem` and `Faucet`,
`EmailProofs` those of `EmailMailbox`, `EmailDomain` and `EmailWebhooks`,
`ClientProofs` those of what runs at the agent's (`PrimFetch`, `Keystore`,
`ChatAccounts`, `ChatStream`), `ServicesProofs` those of the other services'
modules but for `StoreUsage`, which `StoreProofs` has, with those of all the
services side by side.

## Runs

| run | instance | shows |
|---|---|---|
| `payment_gate` | one wallet, two requests, one metered and one fixed route, prices below and above the credit | the ledger stays lawful, each request is billed its cost, the cache is cleaned up, every request ends |
| `payment_gate_contamination` | the same | *violation* of `OwnPrice`: requests for one URL read each other's price |
| `payment_gate_unbacked` | the same | *violation* of `CreditIsBacked`: a failed x402 request is credited what it never paid |
| `domain_registration` | four calls of any kind, two wallets, two zones, five worlds | token, ownership, delegation, record of the purchase, a way forward or one of four dead ends; implements `RegistrationLife` |
| `domain_registration_token` | the same | *violation* of `TokenRetriesSetup`: the token is gone when the name servers have failed |
| `email` | two mailboxes, two names, calls and sweeps in five worlds; one domain, two calls; two hooks, two deliveries | rows tell the truth about Stalwart, nothing expired revives, what is due expires, hooks hear only their mail |
| `email_sweep` | the service as `index.ts` starts it | *violation* of `SafetyNet`: no sweep is ever started |
| `onboarding` | two wallets, limit 2, windows of 3 ticks pruned every 2, seven ticks; two codes, two redemptions; two coins, three drips, two at once | bursts bounded, refusals earned; funded or given back; one drip per window, nonces apart, every drip ends |
| `onboarding_allowed` | the same | *violation* of `RedeemedMeansAllowed`: the rollback of one code takes away what another gave |
| `onboarding_queue` | the same, with a node that fails | *violation* of `QueueRecovers`: one failed nonce request stalls the treasury for good |
| `services` | thirteen modules side by side, `MCServices` with two calls (requests, orders, transfers, commands, sends, streams) at once in each but the cache and infer.sh; 700,000 states | rows match what providers, R2, the chain, Qdrant and Cloudflare have; a payment is made once; keys open; policies keep what was set; chats and bills are true |
| `services_cap` | the same | *violation* of `CapPerWallet`: two creations at once pass the count of servers together |

Some properties are conjunctions of named parts, each of which is stated in the
module it is about: `BilledFairly` (a failed request pays nothing, a served one
its cost), `RowsMatchOutside` (the registration's rows against registrar,
Cloudflare and name servers), `MailRowsHold` (mailboxes, custom domains, hooks),
`WindowsHold` (the limiter's and the faucet's), `ChatHolds` (sign-in and
conversations).

Deadlock is not checked: clients may stop asking, and calls, requests and ticks
are bounded, so every system here really may come to rest.

### Bounds, and why they are enough

- *Requests, calls, redemptions, drips.* The hazards are pairwise: one actor
  reads, another writes, the first goes on. Two of a kind meet in every order;
  where a third matters (a registration has three ways to go on after it has
  failed; a drip may be followed by another in its window) there are more. In
  the email run the number of jobs is split over worlds, so that two calls, a
  call and a sweep, or two sweeps and a call meet without the product of all.
  In the services run two orders, transfers, mintings, pool calls, collection
  calls, record calls, fetches, commands, sends, sign-ins and streams overlap
  in each behaviour, on two items (three ids of collections, of which two share
  a wallet and all share a place in Qdrant; three records, for a batch of one
  to be made, one changed and one dropped; two kinds, of which mail setup needs
  both, and two contents, of which one kind accepts one only; three calls).
  infer.sh has one request: requests
  share nothing but the cache of rates, which refreshes and moving rates
  disturb anyway.
- *Amounts.* `MCPrice` has a price below and one above the fixed price and the
  seed, so credit covers it, covers a part of it, or is absent, and an estimate
  is too high, right or too low; `NegativeCap = 1` is hit.
- *Seeds, zones, ids, attempts* (`SeedLimit`, `ZoneLimit`, `LastId`, `LastBox`,
  `MaxAttempts`, `MaxRetries`, `PauseAfter`, `Batch`) are small enough to be
  reached: the cap on retries, a second id after a deletion and a pause all
  happen. `PauseAfter` is 10 in the code and 2 here, `MaxAttempts` 3 and 2:
  the rule is a threshold, and only reaching it matters.
- *Caps of the services.* `MaxServers = 1` makes the second creation one too
  many; `DefaultQuota = 2`, `MaxStorage = 3` and sizes 1 and 2 let an upload
  fit, fill up, or pass quota and wallet's cap; `MaxSupply = 5` with two tokens
  at first and amounts of one and two lets the second or third minting pass the
  cap; `MaxPayment = 2` lies between the two prices; `Floor = 3` lies between
  the cheapest and the dearest bill; `MCTtl` has 0, two ticks to expire in and
  no expiry at all.
- *Time.* `TimeLimit = 7` ticks are two windows and a third of the limiter, so
  a burst can sit across a boundary. Elsewhere "later" is an action that may
  happen at any moment (expiry of a quote, of a mailbox, of a drip's window),
  which covers every timing; midnight comes twice in wallet.sh (`LastDay = 2`).
- *Symmetry* is used for calls and wallets of the domain, and for calls and
  items of the services run, where no liveness is checked.

### Fairness

Weak fairness of each actor's own steps (`Step(r)`, `MailboxStep(p)`,
`FaucetStep(d)`) and of nothing else: an event loop runs every callback that is
ready, and every external request returns or times out. Nothing is assumed of
clients, of operators, of the chain's miners or of restarts. A stream that its
client does not read to the end never settles, so `SettleStream` has no
fairness. The step of a sweep is the runtime's only where a sweep is running;
`DueGetsExpired` says what a sweep then achieves, `email_sweep` that the
program starts none. The services run states no liveness: what its modules wait
for is the answer of an external service, and a lost answer is one of theirs.

## Proofs

Every theorem holds for all values of the constants that satisfy the module's
assumption; all of them are checked to the last step.

- **Ledger** (`CreditLedgerProofs`). `LedgerSteps` reduces every operation to
  one posting to one wallet, an expiry, or nothing; each invariant is then
  shown for these three. `FloorHolds`: `BalanceFloor` is inductive with the
  types, because `Deduction` never passes the cap from above it.
  `HistoryHolds`: the log and the forfeited credit move with the balance.
- **Gate** (`PaymentGateProofs`). `GateInv` adds to the types that a request
  that may still settle knows its wallet and an estimate the ledger takes as an
  amount; without it a settlement need not be an operation of the ledger.
  `GateStepLawful` shows action by action that a step keeps `GateInv` and is a
  ledger step or leaves the ledger alone, hence `GateImplementsLedger`, and
  with it the ledger's own theorems hold of the gate (`GateKeepsFloor`).
  `CacheIsOwned`: every step leaves an entry's owner in flight or deletes the
  entry (`OwnerKept`). `AdmissionHolds` is an action property from the same
  invariant. `BillsAreFair` needs `FairInv`, which says at each place of a
  request what it has paid so far: nothing before it was priced (`Unpriced`),
  what its admission moved once it is let in (`AdmissionDelta`), and after that
  what its way out has added. Every action touches one request's account only,
  however the requests of one wallet interleave.
- **Limiter** (`OnboardingProofs`). `PruningIsInvisible`: pruning changes no
  wallet's count. `LimiterInv` relates the count of a wallet to the log of what
  was served: as many of the latest services as the count says fall in the
  window, none of the earlier ones does, and whatever lies more than a limit
  before them is a window old (`FitsLog`); so twice the limit always takes a
  window (`Paced`), which is `BurstBound`. `SpentBound` is what a refusal
  means. The services of a stretch are a set of indices of the log, so its size
  is a cardinality and no recursion is needed.
- **Registration** (`DomainRegistrationProofs`). `DomainInv` says what a call
  under way knows of the rows (a registering or recovering call works for the
  registrant, whoever sets name servers has seen the registration's zone, a
  zone just made is new to the registration) and how the columns of the
  registration hang together: `TokenKeptUntilZone` alone is not inductive.
  `TokenHolds`, `RegistrantsZoneHolds` and `LifeHolds` (the refinement, step by
  step) follow. `OutsideInv` adds what is outside: a purchase is in the row or
  about to be, where answers and the process survive (`PurchaseTracked`), zones
  of the registration stay while nobody deletes them (`ZonesKnown`,
  `ZoneStays`), and the token a way forward needs was given out or its call is
  still under way (`TokenTracked`), and where nothing is lost, killed or deleted
  Cloudflare has no zone but that of the row, or one a call is about to record
  (`CfTracked`). `RowsHold` and `WayForwardHolds` are its results. The latter
  says which call a registrant has left, and names the four states in which he
  has none: a zone only one of rows and Cloudflare has (`ZonesDisagree`), a
  token nobody was told (`TokenUntold`), another wallet's zone
  (`StrangersZone`), a zone that was deleted under the registration
  (`ZoneIsGone`); the first, second and fourth are allowed only in worlds that
  lose answers, kill processes or delete zones, so it also says that services
  that fail and say so never lead there. `NsMeansDelegated` came out stronger
  than it was stated, since a restart cannot break it.
- **Mailboxes** (`EmailProofs`). `MailboxInv` follows each job's copy of a row
  over its await: the copy's name is still the row's, a mailbox being made is
  nobody else's, and what the server said of the account is still true.
  `OthersStayInformed` and `JobStep` separate what a step does to its own job
  from what it may not do to the others. `CleanHolds` is the result: no order
  of overlapping sweeps and calls calls an account clean that still exists.
  `AccountsInv` adds what is at Stalwart: every account has an owner among rows
  and jobs, two rows share a name only after a reuse, an active row has its
  account or is being closed, a deleted row has left none behind
  (`DeletedHasNone`), and cleanups are retried of expired rows only
  (`RetriesExpired`). `NoRevivalHolds` is the action property: of a copied row
  only a renewal's copy may be written back, and a row's life is not over then.
- **Custom domains and webhooks** (`EmailProofs`). `DomainInv`: a call under
  way knows the row it works for (`CallKnows`), and what one call was told
  another has not undone unless two worked at once (`OneCall`, `Undisturbed`).
  `WebhookInv` counts: a hook's failures in a row are never more than the
  deliveries that ended so (`HooksCount`), whence `PausedForCauseHolds`.
- **Invite codes** (`OnboardingProofs`). `RedeemInv` adds what a redemption
  knows over its awaits (`Holding`): its code is burned for its own wallet, no
  other redemption holds that code, and what it has got past has been sent.
  Without the second part a rollback could give back a code that another wallet
  has redeemed, and neither `CodesAreFunded` nor `AllowedHolds` would follow.
- **Nonce queue** (`OnboardingProofs`). `NoncesDoNotCollide` is not inductive:
  `QueueInv` adds where a request stands (`Placed`: who waits is in the line,
  who fetches is at its head and has found the counter empty) and, until
  something fails, that the counter bounds every nonce in use (`InOrder`).
  `NoncesAreUnique` follows, since only the head of the line is given a nonce,
  either one above the counter or, when nothing is under way, the chain's.
- **Drips** (`OnboardingProofs`). `RationInv` says of an address and a coin
  whose requests did not overlap that one drip is under way at most, none while
  the last one is in its window, and that what was given in the window is one
  or nothing (`Rationed`). With the limiter's two bounds it gives `RationsHold`.
- **Servers** (`ServicesProofs`). `SpawnInv` says what an order knows over its
  await (`OrderKnows`: the item it was begun for, alone on it unless the item is
  `crossed`), and that a row agrees with its machine where nobody is at work
  (`Agree`, `Accurate`). Without `OrderAlone` the answer to a status request
  could be written over a deletion, and `SpawnRowsMatch` would not follow. What
  a row says of a server's type is where the provider is heading (`next`), and
  may be wrong once an action has failed (`undone`). `Covered` is what holds
  whatever overlaps: no server runs that no live row counts.
- **Tokens and pools** (`ServicesProofs`). `MintInv` bounds what the contract
  may have minted by the row and the mintings outstanding (`Level`), which needs
  that each outstanding transaction has one call waiting for it (`AloneWith`,
  `OneMinting`); `MintFrame` carries it over steps that touch another token.
  `PoolInv` follows what a call has read of the chain over the strangers' acts:
  `ChainGoesOn` (no pool is gone again, no price changes once there is one) is
  what makes a stale reading still true, `OneCreation` that two calls do not
  both create.
- **Collections and cache** (`ServicesProofs`). `MemInv` says which documents a
  place of Qdrant may hold when a row points there (`RowOwn`) and that a place
  just made is empty (`Emptied`). `CacheInv` relates each entry to what was last
  written and not deleted; sweeping and reading touch only what is over.
- **DNS records** (`ServicesProofs`). `RecordsInv` says what a call has at
  Cloudflare and not in its rows yet (`RecPending`), and that what it will write
  of each record is what Cloudflare has by then, `proxied` after a mail setup
  excepted (`RowAfter`, `AsThere`). Parts of a request that Cloudflare leaves
  undone drop out of the call, but for deletions, whose rows go all the same.
  `MailOnce` says of each kind that one record at most matches, and that a
  setup has seen all that do (`FindsAll`).
- **Storage** (`StoreProofs`). `UsageIsExact` compares a row with a sum over
  the objects of a bucket, so the module first proves what sums over a finite
  set are: they exist, there is one of each (`SumExists`, `SumUnique`), and one
  object's change moves the sum by as much (`SumChanges`, `SumWithout`).
  `StoreInv` then has what an upload or a deletion knows of the object it saw
  (`Known`), that the row agrees with R2 while nobody uses the bucket, and that
  the one call that does knows how far it is off (`Ordered`, unless calls have
  overlapped on the bucket), and that an admitted upload has its room in bucket
  and wallet while no other overlaps it (`Allowed`). TLC has been over
  `StoreInv` before the proof.
- **Paying fetch and keystore** (`ClientProofs`). `FetchInv` ties each
  signature to what became of it: a second one exists only when the first was
  reported as failed (`Reported`, `Given`). `KeystoreInv` follows the device key
  a command has read to the file it writes.
- **Policies** (`ServicesProofs`). `PolicyInv` adds to `PolicyHolds` what has
  been checked and not recorded yet: there is room for it below the limit
  (`PolicyKept`); and that no row's day ends later than the next midnight, so
  that a row of today cannot survive today. `Rowed` is the lemma every action
  rests on: making a row and resetting it keep limits and pause and count no
  more than before.
- **Bills** (`ServicesProofs`). `InferInv` keeps the estimate of each request
  at the minimum or above until the bill replaces it (`BillOf`), whatever the
  cache says by then.
- **Chats** (`ClientProofs`). `ChatInv`: a challenge under verification is out
  of the store and nobody else's (`Answering`), so that `letIn` counts one at
  most. `StreamInv`: a task's question is its own, is in its conversation and
  has no answer anywhere (`Streaming`), whence `AnswersAreKept`; `Appended` is
  the one lemma about sequences.
- **Side by side** (`EmailProofs`, `OnboardingProofs`, `StoreProofs`).
  `PartsRun`, `OnboardingRuns` and `ServicesRunAlone`: each behaviour of a
  composed specification is one of each part's own, at work or standing still,
  so what is proved of the parts holds of the whole: the composed types,
  `MailRowsAreTrue`, `RationsHold`, `ChatKeeps`.

Every invariant and every action property of the passing runs is stated by a
theorem, and so is the refinement of the ledger and of the registration's life.
Only model-checked is liveness (`EveryRequestAnswered`, `DueGetsExpired`,
`EveryDripEnds`): fairness and `ENABLED` are out of the prover's reach.

The library's induction theorems take an operator as a parameter, which the
provers cannot instantiate. Where a fact needs induction (sums over a set, the
first service of a stretch), it is proved by a smallest counterexample: the
order of the naturals and that of proper inclusion between finite sets are
well-founded, and a least element of the set of counterexamples is shown not to
be one. No module that is proved about reaches a `RECURSIVE` operator.

## What the checks have turned up

Seven disagreements between the code and what its comments, tests or documents
say are kept as runs that must fail, listed with their quotations under
`findings` in `PROJECT.json`: the shared price cache, credit that nobody paid
for, the recovery token that does not help with name servers, the sweep that is
never started, the allowlist entry lost to another code's rollback, the
nonce queue that never recovers, and the cap on servers that two creations at
once pass.

Met while modelling and left as they are, most of them not promised by anything
(histories in the models mark the states they lead to).

*Onboarding and mail.* A code whose
second transfer fails is given back although the first was sent; the death of
the process between burning a code and sending leaves the code burned, and its
death between the two commits of a rollback would leave the wallet on the
allowlist (not modelled); the
balance of the treasury is read before the queue, so drips at once go below the
reserve; an expired mailbox whose account is gone already cannot be deleted (a
404 of Stalwart ends the call before the row is deleted); `deleteDomain` of
email.sh goes on when Stalwart cannot be reached and leaves the principal; a
paused webhook is never resumed; the deliveries under way are lost in a restart.

*Registration.* A zone that Cloudflare has made and whose answer is lost, or
that another wallet has made of the name, lets every recover fail for as long as
it is there; a token lost in a restart is not handed out again; a registrant who
deletes his zone and makes a new one cannot configure name servers any more.

*Servers and storage.* A resizing is written into the row when it begins, and a
row whose action fails later says the wrong type for good; a server that never
comes up keeps its live row, which counts against the cap. A
creation whose answer is lost leaves a server that no row knows; a lost answer to a deletion leaves a row that cannot be deleted any
more, since the provider's 404 ends every later attempt, and that counts against
the cap for good. store.sh's `prim.yaml:213` says a quota of null "resets to
default 100 MB"; the code stores no quota.

*Tokens.* Fractional amounts of minting are sent to the chain but never counted,
since `BigInt` throws on them after the transaction. A deployment whose receipt
was late stays pending for ever, although the documentation tells callers to
poll. `maxSupply = 0`, which a comment calls uncapped, cannot be asked for. A
pool's row may carry a price of a reverted initialisation.

*Records and collections.* The mail setup's PUT drops `proxied` at Cloudflare
while the row keeps it; an MX record that was moved to another priority is not
found, and mail setup makes a second one next to it; of a batch that Cloudflare
does in part (`skills/domain.md:177`) the rows of all deletions go; a record whose creation is answered after its zone was
deleted is an orphan; a Qdrant collection stays behind when its row cannot be
inserted, and blocks its name with a 409 from then on.

*The agent's side.* A settlement reported as failed that lands is paid twice,
against `types.ts:19`. A keystore that failed to load once is remembered as
failed. Two first imports at once make two device keys, and the files of one do
not open; removing the default key leaves it dangling.

*wallet.sh.* Policies, pauses and the circuit breaker are consulted by nothing
that pays: `policy.ts` is written for send operations that are not there, while
`skills/wallet.md:121` still promises `wallet_paused` and `whitepaper.md:388`
that a breaker "can pause all payments network-wide". Resuming ignores its
scope; a narrower pause replaces a wider one; a request for funds is approved by
the wallet that made it; a payment recorded after midnight in a row not reset
yet is counted for the day before and forgotten.

*infer.sh.* `estimatedMaxTokens` is stored "so the handler can enforce it in the
OpenRouter request" (`pricing.ts:206-213`), and no handler reads it; replies
that are not streamed lose `usage.cost` (`index.ts:226`), which `pricing.ts`
calls the primary source; a stream without a cost is billed at the rates of the
model that was asked for even if a router ran another.

*Chats.* Challenges that nobody answers stay in the map; a new account whose
code could not be redeemed gets no second try, since registering again is a
409; after an error of the model what earlier steps had brought may be recorded
as the answer.

## Not modelled, and why

- Pure translation: validation of requests, response formats, pagination, JMAP
  messages, the routes of imagine.sh, search.sh, track.sh and feedback.sh, whose
  handlers forward one request and keep nothing. No state that two actors share.
- Generated and generating code: the SDK, the MCP server, the CLI's commands,
  the OpenAPI documents, `scripts/`, the site's templates and the deployment.
  They are most of the repository's lines, and have no behaviour of their own to
  model.
- The JMAP session cache and the flags `updateDomainVerification` keeps: they
  are rewritten from the outside at every use.
- The provider registry: only search.sh resolves a provider through it, it
  registers one, and fallback is off; what the registry keeps decides nothing
  that a caller could see.
- wallet.sh's execution journal, which no route calls; its circuit breaker,
  which the operators' routes set and nothing reads; allowed primitives, which
  nothing checks; balances, which are the chain's.
- store.sh's public buckets and listings, which are read only.
- SQLite's own concurrency: one process uses each database, except the
  allowlist, whose readers see a committed entry or none.
- Whether webhooks are deleted with their mailbox: it hangs on the SQLite
  build's default for foreign keys, which no `PRAGMA` of the code sets.
- A clock set back, and the arithmetic of dates.
- Models of infer.sh whose rate or cost is zero.
- `refillTreasury`: a loop of CDP requests that only adds to the treasury.

## Plan

Done, in the order of importance: the money path (ledger, gate, limiter), the
longest saga (domain registration), the part with background jobs (email), what
a new wallet meets (gate.sh, faucet.sh), the services that keep rows about
something elsewhere (spawn.sh, store.sh, token.sh, mem.sh, DNS records), and
the two ends of a payment (x402-client with its keys, wallet.sh's policies,
infer.sh's bills, the chat application).

Left:

1. An abstract specification of a server's life (never back from deleted) with
   `SpawnServers` shown to implement it where orders do not cross.
2. The paying fetch composed with the gate's settlement: both sides of one
   authorization in one state space.
