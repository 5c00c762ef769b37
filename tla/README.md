# meta-whatsapp-rs, in TLA+

A verification project for the parts of meta-whatsapp-rs where several processes
share state without a lock: the durable broadcast jobs of `meta-whatsapp-bot`, the
webhook delivery and dead letters of `meta-whatsapp-webhooks`, and the idempotency
keys, outgoing webhooks and WABA tokens of `meta-whatsapp-server-core`. The first
two are protocols over one port, `KvStore` (`get`, `put`, `put_if_absent`,
`compare_and_swap`, expiry, no scan, no transaction over two keys); the server's
go through ports of several tables whose calls are atomic one by one. Every call
may be interleaved with, or fail beside, everybody else's.

## The system, and what is hard about it

| part | state it keeps | operations | hard behaviour |
|---|---|---|---|
| durable jobs (`jobs/store.rs`, `jobs/runner.rs`, `jobs/port.rs`) | a record per job (state, run, lease, claims, retries, summary), a marker per recipient and run, 131049 markers | schedule, cancel, rerun; claim, hold, scan, check, mark, send, record, unmark, settle, retry | two runners on one job; a runner that stalls or dies in mid-send; an answer lost; a cancel between check and send |
| due index (`jobs/store.rs`, `jobs/mod.rs`) | pages of job ids per minute, one cursor | index, lower the cursor, claim due jobs, advance | moving the cursor past a minute while a job is written to it; failing between the move and the second read |
| webhook handler and dedup (`handler.rs`, `dedup.rs`) | a marker per event: pending under a lease, or done | claim, hand over, complete, release | redelivery beside a delivery still running; a lease that runs out under the sink; dropped requests |
| dead letters (`deadletter.rs`) | a ring of letters, its head, an index per contact | record, index, replay, remove, erase | an erasure beside appends and replays; an append that stops half-way |
| pacer, broadcast (`pacer.rs`, `broadcast.rs`) | windows of sends, shared limits | admit, wait, back off | several processes on one budget |
| bot (`bot.rs`, `guard.rs`, `command.rs`) | cooldowns | dispatch | little shared state |
| idempotency keys (`idempotency.rs`) | a record per key: claim, kept answer, lease, expiry | claim, run, settle, settle after a cut, purge | a repeat beside a request still running; a cut while settling; a call that took effect unheard; a late message |
| outgoing webhooks and outbox (`webhooks_out/`, `outbox.rs`) | streams of events, endpoints with a cursor per tenant, deliveries with claims | insert, purge; fan out, claim, attempt, settle; create, change, delete, retry | replicas racing on a page; an endpoint changed under a page; leases ending under an attempt |
| WABA bindings and token vault (`authz.rs`, `admin.rs`, `vault.rs`) | a binding with its generation, a sealed token with its version | attach, open, unbind, disconnect, re-encrypt | two stores and no transaction: the WABA moves between any two calls |
| server (`server-core`), the rest: inbound events, live streams, signup, OTP, erasure | records in the server's stores | enqueue, publish, look up | order of storing and publishing |
| client, adapters, core, HTTP, rendering | - | Graph API requests, databases, parsing, I/O | not concurrent, or external |

How they interact: the webhook handler hands an event to the application's sink
and, when the sink refuses it for good, to the dead letters; a status event
carrying error 131049 reaches the jobs through `limit_message`; a runner finds
jobs through the due index, claims them by the record, and sends through a
broadcast whose outbound is `Durable::send`. The stores are shared by every
replica. In the server, an operation that sends runs under an idempotency key, on
behalf of a capability made from a WABA's binding and token; an inbound event goes
to its tenant's stream in the outbox, and from there to the tenant's endpoints.

`PROJECT.json` lists every component, the ones not modelled with the reason, and
under `hazards` what is hard to test, each at its line.

## Modules

| module | models | checked by |
|---|---|---|
| `JobRun` | one job: the application's calls, the clock, and any number of runners, each with a pass over the job and one `Durable::send` per recipient | `MCJobRun` |
| `DueIndex` | the pages and the cursor, writers and runners; a pass over a job is only its claim and its end | `MCDueIndex` |
| `WebhookDelivery` | requests, the dedup markers, sink and dead-letter calls; Meta posting a body until it is answered 200 | `MCWebhookDelivery` |
| `DeadLetters` | the ring, the contact indexes, appends, replays and an erasure | `MCDeadLetters` |
| `Idempotency` | any number of requests on any keys, the store's records, and settling calls and messages that outlive their request | `MCIdempotency` |
| `OncePerKey` | what idempotency keys promise, without leases, calls, cuts and crashes: the abstract specification `Idempotency` implements | through `MCIdempotency` |
| `WebhooksOut` | replicas' dispatcher loops and attempts, the streams, endpoints and deliveries, and the changes tenants and operators make | `MCWebhooksOut` |
| `WabaTokens` | one WABA: its binding, its token, attaches, and requests that open, use and unbind it | `MCWabaTokens` |
| `JobRunProofs`, `JobRunSafety` | theorems about `JobRun` | TLAPS |
| `DueIndexProofs` | theorems about `DueIndex` | TLAPS |
| `WebhookDeliveryProofs` | theorems about `WebhookDelivery` | TLAPS |
| `DeadLettersProofs` | theorems about `DeadLetters` | TLAPS |
| `IdempotencyProofs` | theorems about `Idempotency`, the refinement included | TLAPS |
| `WebhooksOutProofs` | theorems about `WebhooksOut` | TLAPS |
| `WabaTokensProofs` | theorems about `WabaTokens` | TLAPS |

The first four models meet at their edges: `DueIndex` takes a pass over a job as two
steps, which `JobRun` opens up; `JobRun` leaves open when a job is met, which is
`DueIndex`'s subject; `WebhookDelivery` has one step for `DeadLetters::record`. The server's three
stand beside each other: they share no table.

### Steps

A step is one store call, one call to Meta or to the sink, or the moment at
which a loop of reads and compare-and-swaps takes effect. A loop may be one step
because only its last round changes anything, and it changes the record it has
just read. Where the code does not loop (`KvJobs::claim_one`), the read and the
swap are two steps. What happens between two awaits of one task is in one step.

A failing store call may have been executed or not: both outcomes are allowed
wherever the code handles the error (`MarkSendingFails`, `UnmarkFails`,
`ClaimFails`, `CompleteFails`, `IndexFails`). A process that stops is `Abandon`,
`RunnerFails`, `CallFails`, `Drop`, `StopBeforePut`, `Crash`: its local state goes, the
store's stays. A request that answers an error half-way is `AttachFails` or `OpenFails`;
one that is gone before it hears of its claim, `ClaimUnheard`.

### What stands for what

* `JobRun`. `job` is the `JobRecord`; `marker[run][p]` the recipient's marker;
  `fresh` the runners whose version of the record is current (the versions
  themselves are never compared for anything else); `taken` is history, whether a claim
  of the present run was taken over. Deadlines are kept as what is
  left of them. `found[r]` is what a pass knows of each recipient; `"unmarked"`
  at its end counts as unsent. `delivered` is history: how often Meta acted on a
  request. The answer `throttled` stands for `Error::may_resend`, `unknown` for
  `may_have_been_sent`. A broadcast is what it may do to one recipient: send,
  send a refused message again, or end before it (`Skip`).
* `DueIndex`. A bucket has one page whose version stands for the vector of page
  versions the cursor keeps. Pages do not expire (the code keeps them a month).
  `moves` numbers the due times of a job: two moves to the same millisecond, which
  `mark_indexed` could not tell apart, are left out. A runner that runs a job
  renews its lease.
* `WebhookDelivery`. A marker carries whose ticket has its version. `Expire` is
  the lease of a claim nobody works on any more, `Outlast` the lease of a request
  still running. Done markers live longer than Meta retries.
* `DeadLetters`. A letter is its id, the contacts it is indexed under and its
  attempts; a slot is `id % Capacity`. Ageing out is a `Remove` at any time.
* `Idempotency`. A claim id is random in the code; here it is the request. A record
  is its holder, what is kept, and what is left of the lease and of the expiry. `wire`
  is the request's message: on its way, acted on, or refused. A settling call is made,
  takes effect and is heard of in three steps (`calls` are those that may still take
  effect), so a request cut in between leaves its own call and its `Claim`'s. An answer
  is a success, a failure that may have been sent, one that proves nothing was, or the
  504 of a cut. A request that claimed its key and is gone before it hears of it, by a
  plain cut as well as by a failure, is "unheard": it has no `Claim`. `over` and `failed`
  are history.
* `WebhooksOut`. An event is its tenant and its sequence, a page what `fan_out_to`
  passes to the store, a claim token the number of the delivery's claims. Which events
  an endpoint asked for (`wanted`), what a page with other types passed (`raced`), what
  the receiver accepted (`got`) and why it may have come twice (`excused`) are history.
  When a retry is due and when a failing endpoint is disabled are left open.
* `WabaTokens`. A token is the tenant whose attach stored it, and how it was written
  (`Written`, history): under the binding the attach read, after that binding was over
  ("stray"), or between the two deletions of an unbinding ("late"). A request whose
  process stops takes no more steps, nor does one that fails before it stored or deleted
  anything. An attach that fails after its put has answered an error and "failed": its
  phone index, which `store` writes after the record, its confirming read or its take-back
  did. An unbinding may fail between its deletions (`OpenFails`). An expired or undecryptable
  token opens the same path as a missing one (`ForcedDelete`).

## Runs

| run | instance | shows |
|---|---|---|
| `jobrun` | 2 runners, 2 recipients, 1 run, 2 claims, lease 2 | `AtMostOnce`, `SummaryTruth`, `TakeoverOnlyExpired` |
| `jobrun_live` | 2 runners, 1 recipient, 2 runs, 1 retry, fairness | `MarkerTruth`, `UnsentUnlessTakenOver`, `SettledIsFinal`, `JobGoesOn`, types |
| `jobrun_stopped` | 2 recipients, one not composable | violation: `StoppedUnsent` |
| `dueindex` | 1 job, 2 calls; one runner failing once, or two that do not fail | `JobReachable`, types |
| `dueindex_live` | the same fleets, two due times, a retry | `NoJobLost` |
| `dueindex_lost` | two runners of which one fails | violation: `JobReachable` |
| `webhook` | 2 requests, a keyed and a keyless event, two bodies, 3 failures | all of `WebhookDelivery`'s properties |
| `deadletters` | ring of 2, ids 0..3, 2 appends at a time in any order, any of which may stop, a replay, an erasure, one contact | `EraseMissesOnlyOutrun`, `NoResurrection`, types |
| `deadletters_unindexed` | the same instance | violation: `EraseComplete` |
| `idempotency` | 3 requests on one key with two inputs, lease 1, expiry 2, 2 stops or failed settling calls, any number of claims not heard of, 1 record run out | `AtMostOneSend`, `AnswersTrue`, `SettlingUnderWay`, `KeptChangesByCut`, refinement of `OncePerKey`, types |
| `webhooks_out` | 2 tenants, 1 endpoint, 2 replicas, 2 types, pages of 1, bounds of 1, 2 and 2 attempts; 2 events, or 1 with a fault and a change, or with 2 changes | `MissedOnlyRaced`, `AcceptedOnce`, `PendingIsNamed`, `InFlightBounds`, `CursorAdvances`, types |
| `waba_tokens` | 2 tenants, 3 attaches, 2 requests that open, 1 re-encryption | `TokenIsBound`, `HeldOwn`, `StrayIsTakenBack`, `AttachedHasToken`, `ForgetsOwn`, types |

Bounds. Two runners are what a takeover needs, and two claims let each of them
have the job once; the second recipient lets one send be decided while the other
is in progress. The lease of 2 has a half that differs from both ends, so renewals
and expiries both occur. `dueindex` starts from no job or from a job that was run
and whose minute the cursor has not passed: the second is where re-runs land behind
the cursor. Its buckets are one clock unit long, so a move of the cursor is one tick.
Three failures in `webhook` are enough for a lease outlasted, a request dropped and a
marker not written in one behaviour. The ring of two wraps with the third id; the
fourth lets a later append drop the index entry of a letter that a skipped one left in
the ring, and is put over by a delayed append of the slot's earlier id. `deadletters` and
`deadletters_unindexed` are the same instance: the second
states the doc's sentence, the first what is true of the code instead. Erasing goes
through a person's index keys one after the other and independently, so one is enough.
In `idempotency` the third request repeats after a record ran out and was taken over; the
expiry is longer than the lease, so a key is met in progress, with its lease over, and
gone. In `webhooks_out` a page of one makes every second event a second page, and the
endpoint's bound of one with two tenants is where a claim exceeds it; `Budgets`
lists the mixtures considered: replicas racing over two events, one event that meets a
fault and a change, and one that meets two changes. In
`waba_tokens` a stray token needs two attaches and an unbinding, the third attach lets
the tenant refresh its binding meanwhile, and two openers let one unbinding race another.

Deadlock. `webhook` checks it. The others may stop, because their bounds do: every
claim made, every call of the application made, every id taken.

Fairness. Weak fairness of the clock, of a runner's and a request's next call: the
code awaits each call, and a store or HTTP client returns or times out. Strong
fairness of `ClaimSwap` says that stops and lost swaps do not hit every attempt to
claim; of `Skip`, that a broadcast's policy does not send a refused message again for
ever (`BroadcastPolicy` bounds its retries); of a body's post, that Meta keeps posting
what is not answered 200 (it does for seven days). Nothing is asked of the
application's calls, nor of failures.

## What the violations show

* `jobrun_stopped`. `JobEnd::Stopped` means "Recipients provably unsent after the last
  retry". A runner that stalls between its check and its marker loses the job; the
  other one settles it with that recipient unsent; the first then marks, passes
  `check_run` (same run, not cancelled) and sends. Nobody is sent twice; the summary
  is wrong about that recipient.
* `dueindex_lost`. "A runner failing between the two loses no job" fails with two
  runners: `claim_due` repairs the cursor, reads it again, and ignores what it keeps of
  the bucket behind it this time, which may be the only trace of another runner's
  unfinished move.
* `deadletters_unindexed`. An index drops entries by id, whether or not the ring has
  evicted them. After one append that stopped before its put, an acknowledged letter
  stays in the ring with no entry, and an erasure misses it.

Six more sentences of the docs are stronger than the code. They have no run of their own:
the passing runs state what holds instead, with the exception named.

* "kept, byte for byte" (`idempotency.rs:25-28`). A request cut while it settles has two
  completions under way, its answer's and the dropped `Claim`'s 504, and the store compares
  the claim, not the state: the second replaces the first after repeats may have read it.
  `KeptChangesByCut` says that this is the only way a kept answer changes.
* "A request cut before it settled its key (a `Claim` dropped: the deadline, or the client
  leaving) settles it as a `504 timeout`" (`idempotency.rs:38-41`). A request cut while it
  waits for the store's answer to its claim has no `Claim` to drop (`idempotency.rs:856-858`):
  the key stays in progress and reads as unknown once the lease is over. `SettlingUnderWay`
  excepts it by name ("unheard").
* "the oldest evicted first" (`deadletter.rs:159`). A put is unconditional, so an append
  delayed by a whole ring of ids overwrites a newer letter. Nothing in the code forbids it
  and no property here excludes it; `EraseMissesOnlyOutrun` and `NoResurrection` hold beside it.
* "its tenant's events after its cursor ... of its types, one delivery each"
  (`webhooks_out/dispatch.rs:3-7`). `fan_out` compares the cursor only. With the endpoint's
  types changed between the read of the endpoints and the fan-out, and an event of a new
  type inserted in between, the page moves the cursor past it. `MissedOnlyRaced` says
  that nothing else is missed. The per-endpoint bound (`webhooks_out/store.rs:216`, "one
  per endpoint") is likewise exceeded by an endpoint of several tenants, because a claim
  takes one delivery per tenant: `InFlightBounds` says by how much.
* "a token never outlives its binding" (`store.rs:71-75`). An unbinding deletes the token,
  then the binding. An attach of the same tenant that had read the binding may store its
  token in between and confirm it while the binding is still there: then the binding goes
  and the token is left. `forget_for_admin` has the same two steps. The next tenant's
  capability, if made between its bind and its own store, carries that token. `TokenIsBound`
  and `HeldOwn` name it ("late"); `store.rs:79-90` documents the other window ("stray"),
  of which `StrayIsTakenBack` says that it closes when the attach that opened it has read
  the binding again and taken its token back. It does not close when that attach answers 503
  because the phone index, the confirming read or the take-back failed
  (`authz.rs:1184,1185,1208`), or when its process stops: a state of its own ("failed") and
  a stop at "confirm" or "takeback". A disconnection by the next tenant deletes whichever
  such token it was made with, so `ForgetsOwn` excepts what `HeldOwn` excepts.
* `open` reads the binding after the vault so that the admin's unbinding does not "delete
  the new holder's binding" (`authz.rs:1093-1097`). `forget_for_admin` deletes without a
  condition after that check, so a WABA that moves between the check and the deletions
  loses the new holder's token or binding all the same.

## Refinement

`Idempotency` implements `OncePerKey`: the holder of a key is the record's claim, the kept
answer the record's, `sent` the requests Meta acted on. The abstract specification has no
lease, no store call and no failure; it says that a key has one holder, that only a holder
(or a request whose record ran out) has an effect, that a holder that had one does not give
the key back, and that a kept success is the holder's. `OncePerKeySpec` is checked by
`idempotency` and proved for every instance.

## Proofs

For every set of runners, every number of recipients, every lease, delay, retry limit
and bound, from the assumptions named in `JobRun` (the numbers are naturals, some of
them positive; `NoRunner` is no runner; who cannot be composed is a recipient):

* `TypeCorrect` (`JobRunProofs`): types, strengthened by `Scanning`: while a scan has a
  marker to read its position is a recipient.
* `NobodySentTwice`, `MarkersTellTheTruth` (`JobRunSafety`). Neither is inductive. The
  invariant `IInv` adds that a send past `mark_sending` has its recipient's marker to
  itself (`Owned`), that a send knows whether Meta acted on its request (`Known`), and
  that only a pass in its send phase has sends (`Passive`). Two sends to one recipient
  in one run would both own its marker, so they are one send; that is the whole
  argument, and it does not use the lease at all, as the code intends.
* `SummariesTellTheTruth` (`JobRunSafety`), from `SumInv`. What a pass has found out must
  stay true until it settles, beside other passes over the same run: a message sent stays
  sent, and a send that failed leaves its recipient's marker `Frozen`, there and in
  nobody's hands, also where `mark_outcome` itself failed. A recipient that cannot be
  composed has no marker, but no pass queues it either (`Uncomposed`). The scan leaves
  nobody out (`ScanRead`), and the runner that holds the job claimed it in its present run
  (`Holder`), because a claim number is given out once.
* `StoppedIsUnsent` (`JobRunSafety`), from `LoneInv`: while no claim of a run was taken
  over, the runner of its last claim is the only one with a pass over it (`Lone`), so every
  message of the run is one its pass knows of: a recipient it found unmarked, or whose
  marker it removed, was sent nothing (`LoneUnsent`), whatever an earlier pass of the run
  left half done. With a takeover that is false: `jobrun_stopped`.
* `NoEarlyTakeover`, `SettledStays` (`JobRunProofs`). The invariant says that a runner
  whose read of the record is current read a claimable job (`Current`) and that only a
  claimed job has a lease (`Leased`). Only six kinds of steps write the record.

For every set of jobs, calls and runners, every bucket length, due time and retry delay
(`DueIndexProofs`; `ProcsAssumption`, `JobsAssumption`, `TimesAssumption`,
`FleetsAssumption`):

* `DueTypes`: types, strengthened by where a runner may be (`Ticks`, `Cursors`).
* `DueReachable`, under the hypothesis `NoneFailsOrAlone`: every fleet is one whose runners
  do not fail, of any size, or one of a single runner, however often it fails. It cannot
  be dropped: `dueindex_lost` loses a job with two runners of which one fails. The runs
  that pass check the two sides of it, `OneThatFails` and `TwoThatDoNot`.

  `JobReachable` is not inductive, for two reasons. It looks at the cursor, and what a
  runner saw of a page before it moves the cursor decides what it does after; and some of
  what it accepts as a repair may be undone, because a call that still has the cursor to
  lower may stop. So the invariant names for every accepted job one page, its *home*, that
  holds the job's id and is counted on by itself. A home is `Safe`: no runner that read the
  page as it is and found nothing unsettled (`Sweeping`, the runner that may move the cursor
  past it and not notice) has dealt with the job, unless it is indexing the job's last move
  in a later bucket (`Carrying`). And it is `Kept`: the cursor has not passed it, or a runner
  that does not fail has read it again, or is about to and will find its version changed
  (`MovesBack`), or the cursor itself keeps the old version and the only runner has not begun
  to scan from it (`Noted`). A call that indexes a job makes the page it wrote a second
  home, from the write for what the readers have seen and from the cursor for the rest
  (`NewHomeAt`); only then does it mark the job as indexed and let the first go. A runner
  that retries a job while it sweeps its page is itself such a call (`Carrying`), and its
  advance comes after its mark. With several runners that do not fail, whoever moved the
  cursor reads the bucket again, and nobody else's move can take that away; with one runner
  that fails, nobody else scans between its move and its repair (`AloneAt`: it loses the
  cursor's version in mid-check only to a call that lowered it). Two runners of which one
  fails have neither, which is the violation.

For every set of requests, keys and inputs, every lease and expiry (`IdempotencyProofs`,
from the assumptions named in `Idempotency`: `Nobody` is no request, every request has a
key and an input, the lease is no longer than the expiry, which is positive):

* `TypeCorrect`, `SentOnce`, `AnswersAreTrue`, `NoKeyLeftBehind`, `KeptIsStable`,
  `ImplementsOncePerKey`, all from one invariant `IInv`. Its heart is `SenderHolds`: a
  request at work, or whose message is on its way or arrived, holds its key or its record
  ran out. Two such requests on one live key would both hold it. It is kept because a key is
  released only by a call that says nothing was sent, and such calls say the truth
  (`CallsTrue`); a call's truth rests on its request having ended (`WorkingIsOpen`,
  `IdleIsFresh`), a repeat's on the record's (`RecordsTrue`, `GivenTrue`), and that a kept
  answer changes by a cut only on a request's calls differing by the cut's (`OneAnswer`).
  The refinement adds one lemma per abstract action.

For every set of events, bodies and requests and every number of failures
(`WebhookDeliveryProofs`; `EventsAssumption`, `RequestsAssumption`, `FaultsAssumption`):

* `TypeCorrect`, `NothingSwallowed`, `DeliveredOnceButForExcuses`, `ClaimsAreOwn`. A
  marker is done only once its event was handed over, and a request is past an event only
  then: so a 200 means all of it was. A claim's request is at work on its event within its
  lease, so at most one delivery at a time is neither recorded as done nor counted as an
  excuse; the bound on duplicates adds those up.

For every capacity and every set of contacts, appends and replays (`DeadLettersProofs`;
`CapacityAssumption`, `ContactsAssumption`):

* `TypeCorrect`, `LettersDoNotComeBack`: an id is taken once, and only its append puts it.
* `EraseMissesNoOther`, for every order of puts and every append that stops: ids of one slot
  are a whole ring apart, so as long as an acknowledged letter's id is among the newest
  `Capacity`, no later append has taken its slot and none has dropped it from its contact's
  index (`AckedIsIndexed`); and what an erasure reads of an index it removes (`Swept`,
  `ErasesAll`).

For every set of tenants, endpoints and replicas and every bound (`WebhooksOutProofs`;
`BoundsAssumption`, with at least one attempt per window, and `TenantsAssumption`):

* `TypeCorrect`, `MissesOnlyRaced`, `AcceptsOnce`, `PendingAreNamed`, `CursorsGoForward`,
  from one invariant `IInv`. A page leaves out nothing of its types before its end
  (`PageFacts`), however old it is when it is used, because a stream only grows
  (`PagesHold`). What is wanted is still asked for and, before it is fanned out, still in the
  outbox (`WantedIsAsked`). The cursor is past everything an endpoint has seen, but for a
  cause (`SeenIsPast`), so a page at the cursor brings nothing a second time. A delivery
  with no cause against it has one attempt, under its lease (`OneAttempt`).
* `StaysInBounds`, with the finiteness of the attempts as the invariant: a claim picks one
  delivery per tenant, none for a tenant or an endpoint at its bound.

For every set of tenants, attaches and requests (`WabaTokensProofs`):

* `TypeCorrect`, `TokenGoesWithBinding`, `CapabilityHoldsOwn`, `StrayGoes`,
  `AttachedKeepsToken`, `DisconnectsOwn`. A binding never comes back, so what a request
  learnt of one stays true or that binding is over; a version of the vault's record is
  written once, so a deletion that compares versions deletes what was read. What they
  except (a stray, re-encrypted stray or late token; an attach that failed or stopped) is in
  their statements: they say where the exceptions end, not that there are none.

The inductive invariants were model-checked on the runs' instances, or smaller ones, before
they were proved. With `DueIndexProofs` every invariant and every action property of the passing
runs is proved, and so is the refinement. Left to TLC: the liveness properties `JobGoesOn`,
`NoJobLost` and `EveryBodyAcked`, since the prover does not reason about fairness and
`ENABLED`; and the three violations, which are counterexamples.

## Not modelled

Expiry of index pages, of job records and of recipient markers (`KvJobs::retention`,
`jobs/store.rs:1035`) after the retention, which the models' runs end before: a run longer
than that could send again; more than one page per bucket; records of a later release and unreadable ones (`JobRead::Newer`, `Corrupt`);
contention that exhausts a loop's rounds (`StorageError::Busy`) except as a failure of the
call; a job handed out twice by one call of `claim_due`. In the server: pings, signing secrets and their
rotation, URL checks, an attempt that panics, and the streams' and deliveries' rows that
erasing contacts or deleting a tenant removes (`WebhooksOut`); an insert's dedup key and
route guard; the phone index, the numbers' own bindings and status, tombstones, groups,
Flow keys, the credit line and the offboarding of a partner's WABA (`WabaTokens`), which
follow the binding or are kept under other keys; the tenants' own embedded signup
(`signup.rs`), which writes the same binding and vault by calls of its own, with its own
take-back, so `WabaTokens` speaks of attaches and unbindings only. Postgres and MongoDB keep the same ports as
the in-memory store the models are read from.

The repository is large (some 266,000 lines of implementation, tests in the same files
included), and most of it is not a protocol: typed requests and answers of the Graph API,
builders, parsing, serialisation, rendering, routes, configuration, database adapters and
their conformance suites. The models cover the part where steps of several actors meet, a
small share of the lines; the components of `PROJECT.json` say what each of the others is
and why it has no model, or which one it is a candidate for. The Graph API is external.

## Plan

1. An abstract job (a recipient is sent at most once, then settled) that `JobRun`
   implements, as a refinement.
2. `Pacer` (`pacer.rs`): several processes sharing a window, never above the limit.
3. Inbound events and live streams (`inbound.rs`, `live.rs`): the order of storing,
   publishing and acknowledging; the signup ledger (`partner.rs`, `onboard.rs`).
