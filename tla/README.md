# A verified model of the inference marketplace

This directory holds TLA+ specifications of the chain in `src/`, of how
transactions get into it and events out of it, of its first start, and of the
programs around it (inference node, determinism harness, indexer); the TLC
configurations that check them on small instances; and proofs of their main
invariants for every instance, checked by TLAPS.

* To parse a module: `tlasany Marketplace.tla`
* To check a run: `tlc -workers 2 -config Dispute.cfg MCMarketplace.tla` (the
  module of every run is in `PROJECT.json`)
* To check the proofs of a module: `tlapm EscrowProofs.tla`

`PROJECT.json` lists the components, the runs, the deliberate bugs (mutants)
every property is shown to catch, the source lines behind every definition, the
disagreements between documents and code, the hazards and the theorems.

## 1. The system

A blockchain of one node keeps a market for inferences. A provider registers a
service with a price, perhaps bound to a *verification domain* (one model,
runtime, hardware, precision and tokenizer, for which outputs are reproducible).
A requester locks the price in escrow and asks. The provider answers with a
result and a bond. During the challenge window anyone may dispute the output
with a bond of its own; during the resolution window others *vouch* for either
side, with bonds. Blocks, or an authority, settle the dispute; the authority can
also retire a domain, which undoes everything still open on it.

| Component (source) | State | Operations | Hard behaviour | Correct when |
|---|---|---|---|---|
| Marketplace state machine (`chain/internal/state/{tx,block,resolution,state}.go`) | ledger, services, requests, domains, counters, height, authority; in one bbolt database | eleven transactions, `commitBlock` | any order of transactions of all parties; blocks that settle many requests at once; cascades; windows' last blocks; integer shares | money is conserved and every stake is backed and paid once to its owner; settled is final; windows are exact; nothing lives on a retired domain; everything is settled in the end |
| Transaction envelope (`tx.go` `SubmitTx`; `signAndSubmit`, `SubmitTxAs` of the clients) | a nonce per account | read nonce, sign, post; verify, compare nonce, dispatch, increment | clients read the nonce in one call and submit in another; answers get lost | at most one of the transactions signed with a nonce takes effect; the caller is told the truth; accounts do not block each other |
| Event bus (`state.go` `Subscribe`, `emit`) | subscribers' channels (64 events), log of the last 1024 events | subscribe, cancel, emit, replay | emission after the database transaction, outside the lock; replay goroutine; full channels; closed channels; restart | a subscriber that keeps up sees every event; nobody can stop the chain |
| Bootstrap (`state.go` `EnsureDevKeyring`, `api/demo.go` `demoSeed`) | key file, ledger | create keys and credit them, seed | crash or failure between the steps, repetition | the keys are funded once; an answer "seeded" means a whole market; concurrent seeds do not all fail |
| Block producer (`block.go` `RunBlockProducer`) | none | a ticker calls `commitBlock` | an error is logged and the next tick tries again | blocks go on |
| HTTP API (`chain/internal/api`) | none | decode, forward; `/events` streams | the nonce of a demo key is read outside the transaction | see envelope |
| Inference node (`inference-node`) | none | on a request: execute, submit the result | no retry; resubscription replays old requests; its key is used elsewhere too | every request is answered, but for failures |
| Determinism harness (`determinism-harness`) | results by request | per event: fetch, replay, then vouch or challenge | a goroutine per event, all with one key; status read before a replay of seconds | a wrong result is never paid, an honest one never slashed, but for failures |
| Indexer (`indexer`) | tables of services and requests | insert or update per event | replayed, reordered, dropped, ignored events | rows agree with the chain in the end |
| Executor, frontend, encodings, protobuf, scripts | | | | not modelled: pure I/O, rendering, cryptography |

How they interact: every client talks HTTP to the API, which calls `SubmitTx`;
the handlers run inside one serialised database transaction; after the commit
the events they returned are published, and the inference node, the harness and
the indexer read them over server-sent events, fetch more over HTTP and answer
with transactions. Nothing else is shared.

The hazards of this code, at their lines and with the properties that would
catch them, are in `PROJECT.json` under `hazards`. One has no property
(`tx.go:638`, a voucher that leaves its domain): the code promises nothing there.

## 2. Modules

```
Sums            Settlement                    EscrowPots (abstract)
   \             /      \                         |
    Marketplace                                   |  INSTANCE
     |    |   \                                   |
     |    |   MarketplaceProperties --------------+
     |    |      |          \            SumTheorems
     |    | MCMarketplace  MarketplaceProofs (extends both)
     |    |   (4 cfgs)            |
     |    |                  EscrowProofs
     |    |
     |    |    TxEnvelope --- EnvelopeProofs
     |    |     |      |
     |   ChainClient   |
     |       |         |
     | InferenceNode   |
     |       |         |
     |    Harness      |
     |       |         |
     |    Watching ----+------ WatchingProofs (extends EscrowProofs, EnvelopeProofs)
     |       |         |
     |   MCWatching    |
     |     (2 cfgs)    |
      \----------------|
                   Bootstrap -- BootstrapProofs (extends EscrowProofs, EnvelopeProofs)
                       |
                  MCBootstrap  (1 cfg)

 EventBus
    |      \
 Indexer    EventBusProperties  (1 cfg) ------- EventBusProofs
    |
 IndexerProperties ----------------------------- IndexerProofs
    |
 MCIndexer  (3 cfgs)
```

* **`Settlement`**: pure operators. `Refund`, `Finalize`, `Slash`, `Dismiss`
  and `Void` say, for a request's record, what the handler debits from escrow,
  what it credits to each address and the status it writes. Debit and credit are
  transcribed separately from the code's `debit` and `credit` calls, so that
  their agreement is something to check and to prove.
* **`Marketplace`**: the state machine. Variables are the buckets and keys of
  the database (`balances`: accounts; `services`, `requests`, `domains` with
  their counters; `height`; `authority`). One action per transaction handler:
  `RegisterService`, `UpdateService`, `DeactivateService`, `RegisterDomain`,
  `DeactivateDomain`, `Transfer`, `RequestInference`, `SubmitResult` /
  `SubmitAndFinalize` (`applySubmitResult` with and without a challenge window),
  `FileChallenge`, `Vouch`, `ResolveChallenge`; and `CommitBlock`. A handler's
  `signer` is the parameter `u`. `AtHorizon` is the end of the bounded history.
* **`MarketplaceProperties`**: what should hold (section 3), and the refinement
  mapping to
* **`EscrowPots`**: the abstract specification: one pot per deal (a request or a
  registered service); parties stake into it while it is open; when it is
  settled it is emptied, once, to its parties or the treasury.
* **`MCMarketplace`**: instances for TLC, and the state `demoSeed` leaves
  (`SeededInit`, a state that the transactions of `Spec` also reach).
* **`EventBus`**: how a committed event reaches the subscribers of `/events`. A
  *writer* is the block producer or an HTTP handler; it commits (`Commit`), then
  for each event appends to the log and copies the set of subscribers under the
  mutex (`Publish`), then tries the copies one by one without it (`Send`, `Drop`,
  `SendOnClosed`). A *subscriber* is one call of `Subscribe` with its channel
  (`queue`), its replay goroutine (`Replay`, `ReplayTimeout`, `ReplayOnClosed`)
  and the handler that reads it (`Receive`) until its deferred `Cancel`. `Crash`
  and `Restart` are the process: only `committed` survives.
* **`EventBusProperties`**: repeats each step of `EventBus` with history
  variables (who wrote an event, what the log held when a subscriber came, what
  was published since, what it has read, whether its buffer was ever full when it
  mattered), which only record.
* **`Indexer`**: extends `EventBus`; a subscriber is a connection of the indexer.
  The chain's side is the status of the requests, as the handlers of
  `Marketplace` write it, and the events they return in their order
  (`RegisterService` to `CommitBlock`); the indexer's side is its tables, the
  handlers of `sub.go` with the SQL of `store.go` (`Handle`), and the connection
  loop (`Connect`, `Ingest`, `Disconnect`).
* **`IndexerProperties`**, **`MCIndexer`**: what should hold, and the instances,
  with a state in which the indexer already knows the service, and two
  specifications that leave out failures (section 3).
* **`TxEnvelope`**: a *call* is one run of `SubmitTxAs` (inference node) or of
  `signAndSubmit` (harness, demo endpoints). It reads the nonce and posts
  (`Begin`, `Post`); later the chain accepts it, or refuses it for its message or
  its nonce (`Accept`, `Refuse`, `RefuseStale`). `Interrupt` is every failure in
  between: the caller is told an error, and its transaction arrives or does not.
  What a message does is left to the modules that use this one.
* **`ChainClient`**: `Marketplace` and `TxEnvelope` together, with what the two
  event-driven programs share: a connection to `/events` (`inbox`: what it still
  has to handle, in any order and with any delay; `Tell` fills it, `Reconnect`
  and `Restart` fill it again from the log), calls with what they are for
  (`job`), failures (`Disturb`), and the other actors: a client that asks and may
  dispute anything with any output (`Ask`, `Dispute`), somebody else who uses the
  provider's key (`RunErrand`), and blocks.
* **`InferenceNode`**: `handleEvent` up to the decision to submit (`Serve`,
  `PassBy`, `CannotServe`), one event at a time. A provider may fabricate an
  output (`MALICIOUS_PROVIDER=1`).
* **`Harness`**: `checkRequest` (`File`, `Note`, `CannotCheck`), any number at
  once. `Verdict` is its table of decisions; it looks at the request when the
  event is handled, and the call it starts is applied to what the request has
  become by then.
* **`Watching`**: all of them at work from a seeded market (`SeededServices`: any
  services of the programs in one domain), and the promise of the dispute game.
  **`MCWatching`**: its instances. In `ChainClient`, `Watching` and `Bootstrap` a
  transaction is refused exactly when the guard of its handler fails:
  `Marketplace` names these guards (`Challengeable`, `Vouchable`, `Registrable`
  ...), `Admits` and `ServiceAdmitted` combine them.
* **`Bootstrap`**: the start of the process (`Boot`, `FindKeys`, `WriteKeys`,
  `CreditKeys`: `EnsureDevKeyring`), `demoSeed` step by step (`StartSeed`,
  `BeginStep`, `SignStep`, `StepDone`, `StepRefused`, `KeyMissing`), other demo
  endpoints with the same keys, and `Crash`. **`MCBootstrap`**: its instance.
* **`SumTheorems`, `MarketplaceProofs`, `EscrowProofs`, `EnvelopeProofs`,
  `EventBusProofs`, `IndexerProofs`, `BootstrapProofs`, `WatchingProofs`**:
  section 5.

What is abstracted, and why it loses nothing the properties talk about:

* *Handlers are atomic.* bbolt runs one read-write transaction at a time and
  discards it when the handler returns an error, so a handler is one step and a
  rejected transaction is no step. `commitBlock` is one transaction too: if a
  debit fails the whole block is discarded (`Release` is a guard of
  `CommitBlock`, over the total: no settlement credits the escrow account, so
  each debit succeeds exactly when their sum is covered).
* *One denomination.* Balances are not keyed by denomination in the code either.
* *A domain's pinned tuple is its id.* An attestation carries the id whose tuple
  it matches, 0 when it matches none.
* *A voucher's bond is not stored.* Parameters are written once, at genesis, so
  all vouchers of a request lock the same `VoucherBond(r)`.
* *Fields that no handler reads back* (finalized-at, paid, texts, URIs,
  descriptions) and the events' payloads are left out.
* *The literal 20* of `block.go:55` and `tx.go:965` is the constant
  `ResolutionWindowBlocks`.
* *Integers.* `uint64` credits could wrap; with a conserved supply of 4·10⁹
  they cannot. Debits test the balance first (`Covers`).
* *Signatures.* An account is who can sign for it. `Marketplace` by itself has
  no nonces: a handler is any accepted transaction of its signer. `TxEnvelope`
  has them, and `ChainClient` and `Bootstrap` put the two together.
* *An event is its number* in the order of the database; `Indexer` keeps what
  each number says in `feed`. Adjacent events that say nothing of a request are
  one. The filter of `/events` by type only hides what the handler has taken.
* *The network between a channel and its reader* is merged into `Ingest`: bytes
  under way when a connection fails are lost, as the events in the channel are.
  A connection the indexer has given up is cancelled by the chain some time
  later, and what is sent to it until then is read by nobody.
* *A row* is its status and whether it has an output. The foreign key
  (`store.go:33,60`) makes an insertion without its service's row fail.
* *An execution* gives the one output `Truth`, in the node and in every harness
  of the domain (that is what a domain is for), or fails.
* *`Watching` leaves out* what its promise does not cover: restarts of the chain
  (its log is in memory) and logs of more than 1024 events; other voters than the
  harnesses; decisions of the authority. Prompts are inline, each harness has its
  key and coins enough, and node and harness are configured for the domain: a
  harness that is not only reports.

## 3. What is checked

Properties of `MarketplaceProperties` (each comment there names the code it is
about):

| Property | Kind | In words |
|---|---|---|
| `TypeOK` | invariant | types; no negative balance |
| `SupplyConserved` | invariant | no coin is created or lost, remainders included |
| `EscrowBacked` | invariant | the escrow account covers all prices and bonds held in it |
| `RecordsMatchStatus` | invariant | a dispute has exactly one challenge, for another output, and one vouch per account; bonds and results exist exactly from submission |
| `OpenInsideWindows` | invariant | an open request is inside its window: handlers and blocks meet without gap or overlap |
| `RetiredDomainIsEmpty` | invariant | no active service and no open request on a retired domain |
| `SurplusOnlyFromTransfers` | action | escrow changes exactly by what it is held for, except by transfers to its address |
| `SettledIsFinal` | action | a settled request never changes |
| `NoUnjustLoss` | action | balance plus stakes of an account fall only for its own reasons |
| `ImplementsPots`, `ImplementsPotsFromSeed` | refinement | the pooled escrow behaves as one pot per deal |
| `EventuallySettled` | liveness | every request is settled |

Of `EventBus`, `EventBusProperties` and `IndexerProperties`:

| Property | Kind | In words |
|---|---|---|
| `BusTypeOK` | invariant | types; the log and the channels keep to their limits |
| `NoEventTwice` | invariant | a subscription never gets an event both as a replay and live, nor twice |
| `StreamInOrder` | invariant | the replay comes in order, with a gap only at its end; so do the live events of one writer |
| `NothingMissed` | invariant | while nobody leaves, only a subscriber whose buffer was full misses anything |
| `WriterNeverWaits` | liveness | every transaction and block finishes its emits, whatever readers do |
| `IndexerTypeOK` | invariant | types of both |
| `OutcomesAreTrue` | invariant | an outcome in the tables is the chain's |
| `OnlyReplaysReopen` | action | an outcome in the tables is undone only by the creation of the request, processed again |
| `ReplayRepairs` | liveness | a replay that holds the story of a request ends with the right row |

Of `Watching`; *hindered* is a program that met a failure over the request, or
that still had it to handle when a block changed its status; *excused* is hindered,
or refused for a nonce that another transaction of its key took:

| Property | Kind | In words |
|---|---|---|
| `WatchTypeOK` | invariant | types; a program is handed only events it asked for, and only what is on the chain |
| `LieNeverPays` | invariant | a wrong result is paid only if every harness was excused |
| `TruthNeverSlashed` | invariant | an honest provider is slashed only if every harness was excused |
| `WatchersTakeSides` | invariant | a harness never stands against the truth, and in a settled dispute stands with it unless excused |
| `NodeAnswers` | invariant | a request is refunded unanswered only if its node was excused |

Of `TxEnvelope` and `Bootstrap`:

| Property | Kind | In words |
|---|---|---|
| `NoncesWithoutGap` | invariant | an account's accepted transactions carry the nonces 0, 1, 2... |
| `AnswersAreTrue` | invariant | told of success: done once; told of a refusal: not done, and never will be |
| `StaleBySameKey` | invariant | what makes a nonce stale is another transaction of the same account signed with it |
| `BootTypeOK` | invariant | types; no transaction is under way unless the process is up |
| `KeysFundedOnce` | invariant | the keys are credited together, at most once, and surely if nothing crashed |
| `SeededMeansComplete` | invariant | one seed at most answers "seeded", and then authority, domain and three services are there |
| `OneSeedSucceeds` | invariant | seeds posted together never all fail, but for crashes, missing credits or other uses of the keys |
| `HalfSeededByCrashOnly` | invariant | a service without its witnesses is left behind only by a killed seed or another use of the keys |

| Run | Instance | Shows |
|---|---|---|
| `Dispute` | 3 accounts, 1 service, 1 request, heights to the end of the dispute | every order of request, result, challenge, up to three vouches on either side, and blocks |
| `Cascade` | seeded: domain, provider, witness; 1 request | domain retirement and authority decisions at every point |
| `SharedEscrow` | seeded: 2 accounts, 2 requests, 1 domain, fair blocks | several deals in one account, settled apart or together, and always in the end |
| `Registry` | 2 accounts, 2 services, 2 prices, 1 domain, from genesis, challenge window 0, transfers | the race for authority, registration against retirement, price changes, early and late departure, immediate finalization, gifts to the escrow address |
| `Stream` | 2 writers, 2 subscribers, channel 1, log 2, 3 events, fair emits | every interleaving of emits, replays, departures, crashes |
| `Mirror` | 2 connections, 1 request, channel 1, log 3, 4 events | the tables under loss, disorder, repetition and restarts, for every way to settle |
| `Repair` | 2 connections, 1 request without challenges, channel 1, log 4, 4 events, `PromptSpec` | what a reconnection repairs |
| `Watch` | seeded: 1 node, 2 harnesses of 2 calls each, 1 request, 1 failure, restart, reconnection or errand, voucher margin 1 (2.9 million states) | the programs against each other, the client and the blocks, at every delay |
| `Boot` | 3 interchangeable seeds, 2 other calls, 1 crash, 5 domains, 4 services (2.3 million states) | start, crash, start again, and every interleaving of the seeds' steps |

Bounds. Windows and deadlines of one or two blocks have a first, a last and a
next block, which is all the guards distinguish. Three accounts are the fewest
with a requester, a provider and a challenger apart while each may also vouch;
bonds of 2, 2 and 1 make the dismissed pool (2 to 4) indivisible by some number
of recipients, so the remainder matters. Genesis balances (4 and 7) are short
enough for some stakes to be refused. `MaxHeight` stops new requests, and blocks
only once nothing is open: no dispute is cut short. The proofs remove all of
these bounds for the properties they cover.

A channel of one event and a log of two or three are full and overflow within the
three or four events of an instance, as those of 64 and 1024 do with more; two
subscribers let one disturb the other or a connection follow another; two writers
let their emits cross. In `SlashUnseen`, where nothing is to be dropped, the
channel holds every event. `Mirror` starts after a restart of the chain, with the service's row in the
tables, so that its four events are enough for a request, a result, a challenge
and a decision; `Repair` starts from nothing, so that it has the service's event
too, and leaves out idle blocks and retirements.

In `Watch` two harnesses are the fewest of which one may fail while the other must
do, and a margin of one vote is met by one voucher on a side and cancelled by one
on each; three outputs (the truth, the lie, and noise that is neither) are all
that `Verdict` tells apart. One failure is enough to make each excuse real, and
one errand to let the node be outraced; `WatcherRace` has a harness with two
requests. In `Boot` three seeds let one fail at its first step and another at its
second while a third goes on; five domains are one per seed and one per other
call.

Deadlock is checked wherever the process or the programs can go on for ever. In
`Repair`, `ReaderLeaves` and `SlashUnseen` the bounded history of events and
connections ends, in `Boot` the bounded calls and crashes do, and these say
`CHECK_DEADLOCK FALSE`.

Fairness. `FairWatchedSpec` assumes only that a goroutine in `emit` goes on: it
never waits for anything but the mutex, which is never held across a send. `Progress`
adds the replay goroutine, the indexer's reading, and its reconnection after a
backoff. `PromptSpec` (`Repair`) assumes besides that nobody kills the chain and
that no send of a replay waits for two seconds: if one does, the chain gives up
the rest of it. `CalmSpec` (`SlashUnseen`) has no failure at all, so that what it
finds is nobody else's fault.

`FairSpec` and `SeededFairSpec` (`SharedEscrow`) assume only weak fairness of
`CommitBlock`: `RunBlockProducer` calls `commitBlock` at every tick and after an
error tries again at the next. Nothing is assumed of any party.

## 4. Where documents and code disagree

Each of these runs checks what a document or comment says and finds a behaviour
of the code that contradicts it.

| Run | Says | The code |
|---|---|---|
| `ReaderLeaves` | `state.go:554`: a slow subscriber costs itself events | leaving during its replay, or during a block's emit, closes a channel that is still sent to: the panic ends the process |
| `SlashUnseen` | `docs/indexer-api.md:24`: eventually consistent | slashes, dismissals and voids have no handler |
| `WatcherRace` | `docs/TUTORIAL.md:13`: a single honest watcher per service is enough for a wrong result not to pay | two results that come together make two goroutines sign one nonce; the second challenge is refused and never filed again |

Others, seen while modelling and not run by themselves:

* `state.go:343` wants a voucher's service active through the disputes it votes
  on; eligibility is read when vouching only (`tx.go:638`).
* `types.go:281` and `docs/data-model.md:205`: the winning side's vouchers earn a
  reward; a slash only returns their bonds (`resolution.go:76`).
* `docs/indexer-api.md:150`: ingestion is idempotent; a repeated
  `InferenceRequested` makes a settled row PENDING (`store.go:185`,
  `OnlyReplaysReopen`).
* `demo.go:98`, `docs/chain-api.md:300` and `Makefile:73` call the seed
  idempotent; one that was killed after its second step leaves a market without
  witnesses, for which every later one answers "already_seeded"
  (`HalfSeededByCrashOnly`).
* A crash between the key file and the credits leaves keys that no start funds
  again (`KeysFundedOnce`); each seed then registers one more domain and fails at
  the bond.
* A harness cannot file for a service outside every domain: it asks for
  `/domains/0`, which is 404.
* `demoChallenge` attests no tokenizer, so in the seeded domain, which pins one,
  `make demo-spurious` (`Makefile:163`) is refused (`tx.go:519`).
* `docs/TUTORIAL.md:229` speaks of a reconciler in the harness; it has none, and
  a missed event is seen again only if the stream breaks.
* The provider and the challenger may vouch in their own dispute
  (`applyVouch`); `types.go:216` calls a voucher "a third party".
* A retired domain ends submitted and disputed requests as REFUNDED;
  `types.go:63`: "deadline elapsed without submission".
* Blocks finalize, dismiss and slash on their own (`docs/architecture.md:138`:
  refunds are "the only auto-triggered chain action").
* Registration does not check the minimum price; `docs/integrate-a-service.md:85`.
* When the panic that `ReaderLeaves` finds happens in a transaction's emit,
  `net/http` recovers it and the other subscribers miss the event (`NothingMissed`
  says why its premise is that nobody has left); `state.go:554`.
* A live event may arrive before the replay has ended (`StreamInOrder` orders each
  by itself only); `docs/chain-api.md:179`: "on connect, then streams live".
* A block's events may be logged before those of the transaction whose request it
  settles, since neither is emitted under the database's lock; a row whose
  refund came first stays PENDING, replays included (`ReplayRepairs` asks for the
  creation first).

## 5. What is proved

For every set of accounts, all parameters and any number of services, requests,
domains and blocks, from the named assumptions of `Settlement` and `Marketplace`
(addresses distinct, accounts finite, parameters natural numbers):

| Theorem | Property |
|---|---|
| `TypeCorrectness` | `TypeOK` |
| `RecordsAlwaysMatchStatus` | `RecordsMatchStatus` |
| `EscrowAlwaysBacked` | `EscrowBacked` |
| `SurplusComesFromTransfers` | `SurplusOnlyFromTransfers` |
| `SettledStaysFinal` | `SettledIsFinal` |
| `OpenRequestsInsideWindows` | `OpenInsideWindows` |
| `RetiredDomainStaysEmpty` | `RetiredDomainIsEmpty` |
| `SupplyAlwaysConserved` | `SupplyConserved` |
| `NobodyLosesUnjustly` | `NoUnjustLoss` |
| `MarketplaceImplementsPots` | `ImplementsPots`: every step of the marketplace is a step of `EscrowPots` or a stutter |
| `PotsFromAnyState` | `ImplementsPotsFromSeed`: the same from any well-formed state, deals open or not |

for any writers, subscribers, channel capacity and log limit (`BusSizes`):

| Theorem | Property |
|---|---|
| `BusTypeCorrectness` | `BusTypeOK` |
| `NeverTwice` | `NoEventTwice` |
| `NeverMissed` | `NothingMissed` |
| `StreamsInOrder` | `StreamInOrder` |

for any connections, requests and lengths of the histories (`RequestsAreIds`,
`NobodyIsConnected`, and those of the bus):

| Theorem | Property |
|---|---|
| `IndexerTypeCorrectness` | `IndexerTypeOK` |
| `OutcomesAlwaysTrue` | `OutcomesAreTrue` |
| `OnlyReplaysUndo` | `OnlyReplaysReopen` |

for any programs, accounts and calls (`CallsHaveSigners`):

| Theorem | Property |
|---|---|
| `NoncesAreSequential` | `NoncesWithoutGap` |
| `AnswersHold` | `AnswersAreTrue` |
| `StaleOnlyBySameKey` | `StaleBySameKey` |

for any key file, credits, seeds, other uses of the keys and crashes (the
assumptions of `Bootstrap`: a step of a seed has a call of its own, signed with
the key `demoSeed` signs it with; genesis gives nothing; the three keys and the
three names differ, a key is credited something and at least a bond, and the
model has room for one domain and three services, `SeedIsPossible`; and those of
the marketplace and the envelope):

| Theorem | Property |
|---|---|
| `BootTypeCorrectness` | `BootTypeOK` |
| `KeysAreFundedOnce` | `KeysFundedOnce` |
| `SeededIsComplete` | `SeededMeansComplete` |
| `OneSeedAlwaysSucceeds` | `OneSeedSucceeds` |
| `OnlyCrashesSeedHalf` | `HalfSeededByCrashOnly` |
| `BootKeepsEnvelope` | `NoncesWithoutGap`, `AnswersAreTrue` and `StaleBySameKey`, for seeds that crash |

and, for any nodes' services, harnesses, outputs, calls, requests, errands,
failures, windows and deadlines:

| Theorem | Property |
|---|---|
| `WatchTypeCorrectness` | `WatchTypeOK` |
| `LiesAreNotPaid` | `LieNeverPays` |
| `TruthIsNotSlashed` | `TruthNeverSlashed` |
| `HarnessesTakeSides` | `WatchersTakeSides` |
| `NodeIsNotSilent` | `NodeAnswers` |

These five take more assumptions than the others, because the promise needs
them: `ProgramsHaveAccounts` (each program has an account of its own and signs
its calls with it; errands are the provider's calls), `TruthIsOne` (an
execution has one output, fabricated ones differ), `MarketIsSeeded` (the services
are the programs', active and in one domain), `DefaultDeadline`,
`MayDispute` (the challenge window is not 0: with 0 nothing can be disputed),
`OneVoteDecides` (the margin is at most 1; `DefaultParams` has 0) and
`StakesAreCovered` (no program runs out of coins; with fewer, one whose stakes are
all locked would be refused).

The argument:

1. *Sums.* `SumTo` adds up a function over `1..n`. `SumTheorems` shows it is
   what recursion says (`SumEmpty`, `SumStep`) and how a change of one element,
   or of many, changes it (`SumChange`, `SumEqual`, `SumAdd`, `SumInt`,
   `SumNat`, `SumAtMost`, `SumCovers`).
2. *Settlements.* In `MarketplaceProofs`: each settlement of a well-typed request
   debits and credits natural numbers and writes a terminal status.
3. *`WellFormed`* == `TypeOK /\ RecordsMatchStatus` is inductive
   (`MarketplaceProofs`): one lemma per action. Neither half is inductive alone:
   a slash is typed only because a disputed request has a challenge, and a
   record's shape needs the types of what it holds.
4. *Escrow.* `Held` is what the account must have, `Excess` what it has beyond. In
   a well-formed state every step but a transfer leaves `Excess` as it is, and
   those only add to it: a `Lock` adds the same amount to the account and to
   `Held`; a settlement debits exactly what was held for its request
   (`DebitsWhatIsHeld`, by status) and pays nothing to the account itself
   (`NothingToEscrow`), so `SumChange` closes each case. It also shows that no
   debit of a block or a cascade can ever fail.
5. *Life cycle.* Any step leaves a request's service unchanged and a settled
   request untouched (`Evolves`), and never revives a service or moves it to
   another domain (`ServiceEvolves`). Finality is immediate. A retired domain
   stays empty because the cascade empties it (`CascadeEmpties`), and whatever is
   new is bound to a usable domain or an active service. A window is opened at
   the current height, and a block settles what it would leave outside.
6. *Supply.* Each settlement is `Balanced`: its credits, over all addresses, add up
   to its debit; for `Dismiss` that is that the shares and their remainder make
   the pool. A block, or a cascade, is a table of settlements by addresses: what
   leaves escrow is the sum of its rows' totals, what the accounts gain is the
   sum of its columns', and the two are equal (`SumsSwap`). The sum over accounts
   is the fold of the community modules, whose value does not depend on the order
   in which it picks its elements (`FoldAnyOrder`). `SubsetInduction` is the
   induction this takes, said of a set of subsets instead of a predicate.
7. *Wealth.* A handler that stakes takes from its signer's balance what the record
   then holds for that account, and touches nobody else. A settlement returns to
   an account at least what the request held for it, unless the account lost
   (`SettlementsPay`, `OutcomePays`). A block and a cascade settle many records at
   once: row by row what they pay covers what they release (`SumCovers`), and
   nothing else of the account's stakes changes (`StakesAfterSettling`). The
   exceptions of the property are exactly the cases in which a row falls short.
8. *Event bus.* `BusTypeOK` needs one more fact to be inductive, `SendsEvents`: an
   emit that still has somebody to reach carries an event. `TrimmedFits` keeps
   the log within its limit; a channel grows only where there is room. For
   `NoEventTwice` and `NothingMissed` the strengthening is `StreamInv`: an event on
   its way to a subscriber is in exactly one place, among those pending, an emit
   under way, the replay, the channel, or what was read.
9. *Envelope.* `EnvInv` == `EnvTypeOK /\ NoncesWithoutGap /\ PhasesAreTrue`: a call
   has taken effect exactly if it has a place among the accepted ones of its
   account, one whose transaction is under way has none, and its nonce is not
   ahead of the account's. Given that, an accepted call gets the next place, and a
   stale nonce is one whose place another call has.

10. *Refinement.* `MarketplaceImplementsPots` shows, in `EscrowProofs`, that each
   handler opens one pot (`Open`), stakes into one (`Stake`), gives (`Give`) or
   changes none, and that a block or a cascade is one `Settle` of the requests it
   settles: the
   pot of each is emptied to exactly the addresses its settlement credits. It
   rests on `WellFormed` and on the lemmas of 4, 6 and 7.
11. *Order of a stream.* `StreamInOrder` speaks of what was read. The strengthening
   is `OrderInv`: what was read, what is in the channel, and what an emit or the
   replay still has to send are in order one after the other (`OrderFor`), for the
   replay and for the live events of each writer, who keeps to its own
   (`AuthorsKept`).
12. *Indexer.* `MirrorInv` adds to the types and `OutcomesAreTrue`: what travels is
   committed (`Carried`: the log, emits, replays and channels carry numbers up to
   `committed`); an outcome's event exists only if the chain's status is that
   outcome, and a request is created by one event (`FeedIsTrue`); a row comes from
   an ingested creation (`RowsFromCreation`). Then an event applied late, twice or
   out of order can write only an outcome that the chain has for good; and what
   makes a row with an outcome PENDING again is a creation, the only one there is,
   which was ingested before.
13. *Start.* `BootInv` adds to `WellFormed`, `EnvInv` and the types that the keys
   are credited by the process that wrote the file (`KeysCredited`), that the
   transactions under way are those of the steps under way (`StepsUnderWay`), and
   what the steps of a seed leave (`SeedsProgress`): a seed past its second step
   holds the name of the first service, so no other gets there. `SeededMeansComplete`
   alone is not inductive: it says nothing of a seed at its fourth step.
   For `OneSeedSucceeds` and `HalfSeededByCrashOnly` it is strengthened to `SeedInv`:
   nothing is signed without a whole key file (`Untouched`), a seed does its steps
   in order (`StepsInOrder`), what they leave lasts (`StepsLast`), and as long as
   only seeds sign, names, counters, authority, nonces and the three purses are
   exactly what the steps have made of them (`OnlySeeds`). Then no seed fails past
   its second step, and if Bob's nonce has moved there is a seed that `Leads`: the one
   whose transaction moved it last. Its next nonce is current because nobody was
   accepted since, and its handler has nothing to refuse (`SeedIsAdmitted`). TLC
   checked `SeedInv` on the `Boot` instance (2.3 million states).
14. *Watching.* `WatchInv` is `WellFormed`, `OpenInsideWindows`, `EnvInv` and the
   types, and: the services and the domain are there to stay (`MarketStays`); a
   call that has started has a job its program may give, over a request there is
   (`JobsFit`); only harnesses vote, and they and their challenges are for the truth
   (`HonestSides`); a program's coins cover a stake for each call whose transaction
   is not accepted yet, which is counted by its nonce (`StakesLeft`); what is
   settled was settled well (`Kept`). The core is `Duty`: as long as a request needs an act
   of a program that is not excused, its event is in the program's inbox or the
   call it started is running. A step of anybody either keeps that, or is the
   failure, the late block or the stolen nonce that excuses the program. When a
   block then settles a wrong result as paid, somebody had a duty that no event and
   no call stands for, so every harness was excused. TLC checked `WatchInv` on all
   states of the `Watch` instance first.

Every safety invariant, action property and refinement that the passing runs check
is a theorem. Only checked by TLC is liveness: the provers have none under
fairness, so `EventuallySettled`, `WriterNeverWaits` and `ReplayRepairs` hold for
the instances of their runs. The theorems about `Marketplace` start from genesis;
the runs that start from a seeded market start from a state on the way.

## 6. What is left

Modelled partly: the HTTP API. Its demo endpoints for deactivating and resolving
sign and submit messages that `Marketplace` has, as the modelled ones do; reading
endpoints have no state.

Not modelled, and why:

* *Executor*: one HTTP call that gives an output or an error, which `Serve`,
  `File`, `CannotServe` and `CannotCheck` stand for.
* *Indexer query API, frontend, `/report` pages*: they show what others decided.
* *Canonical encodings, addresses, signatures*: cryptography and formatting. A hash
  is an element of a set, so equal hashes are equal data.
* *Protobuf definitions, scripts, containers*: schemas for a later phase and
  start-up; no logic of the program.

Worth adding next: restarts of the chain in `Watching`, under which a program can
miss what the log has lost.
