# Verification of qoder-cpa

qoder-cpa is a plugin of CLIProxyAPI ("the host"): a shared library that logs Qoder accounts
in, refreshes their credentials, chooses an account for a request, and turns OpenAI chat
requests into upstream streams and back. This directory holds TLA+ models of it, the TLC runs
that check them, and TLAPS proofs. Paths below are relative to the root of the repository.

- [1 Inventory](#1-inventory)
- [2 Plan](#2-plan)
- [3 Modules and code](#3-modules-and-code)
- [4 Runs](#4-runs)
- [5 Where the code and its texts disagree](#5-where-the-code-and-its-texts-disagree)
- [6 Fairness](#6-fairness)
- [7 Proofs](#7-proofs)
- [8 What is not modelled](#8-what-is-not-modelled)

## 1 Inventory

The host calls the plugin through one C function with a method name and a JSON body; each
call runs on a thread of the host, so any two calls may overlap. The plugin calls back the
same way (HTTP, streams, auth files). Everything it keeps is in memory, in package variables.

| part | state | operations | interacts with |
|---|---|---|---|
| executor (`executor*.go`) | none of its own; one goroutine per streamed request | `execute`, `executeStream` + `pumpStream`, `aggregateChat`, `countTokens` | opens handles; emits to and closes the host's stream; reports failures to the scheduler |
| queue wait (`queue_wait.go`) | attempts, time waited, started, the stream in use | `queueAwait`, `ReadChunk`, `Cancel` | wraps the handle of a transport, reopens it |
| chat stream (`internal/qodertransport/adapters.go`, `text_tool_fallback*.go`) | terminal and done flags; held text, pending chunks, saved error | `ReadChunk`, `Cancel` | reads events of the parser |
| event stream (`host_http.go`, `{bearer,cosy}/sse.go`, `{bearer,cosy}/transport.go`) | buffered payload, done, closed; half an event | `Read`, `Close`, `ParseContext`, `Stream` | reads the host's HTTP stream; `context.AfterFunc` closes it at the deadline |
| scheduler (`scheduler*.go`) | quota snapshots, cooldowns, sticky bindings (an LRU map) | `schedulerPick`, `noteQuotaSnapshot`, `noteSchedulerFailure` | called by the host, by quota queries, by the executor |
| refresh (`internal/qoderauth/refresh.go`, `auth_provider.go`) | the refreshes under way, per account | `Refresh` through a singleflight | token endpoint; the host saves what it returns |
| management (`management*.go`) | one mutex | `refreshQuota`, `updateProfile`, labels, priorities, listing | reads and writes the host's auth files |
| device login (`internal/qoderauth/oauth.go`, `store.go`, `auth_provider.go`) | transactions in a store | `DeviceLogin`, `PollLogin` + `poll` | token endpoint, profile endpoint; the host saves the result |
| campaigns (`ops_campaigns.go`, `management_g1.go`, `internal/qodercontrol/campaigns.go`) | one background goroutine; the management mutex | `nextClaimAt`, `claimAll`; listing, claiming and activity for the panel; `ClaimCampaign` | host's auth files, upstream; the account's owner claims as well |
| model catalog (`model_provider.go`, `model_registry.go`, `internal/qodercontrol/models.go`, `management.go`) | a map of public IDs per account | `models`, `storeCatalog`, `resolveRecord`, the panel's list | written by `model.for_auth`, read each time a chat stream is opened |
| quota (`quota_dispatch.go`, `management_accounts.go`, `internal/qodercontrol/quota.go`) | none of its own; snapshots of the scheduler | `FetchQuota`, `handleQuotaFetch`, listing accounts | host's auth files, upstream, scheduler |
| error classes (`internal/qodertransport/qoderstream/`, `bearer/sse_business.go`, `cosy/sse_wire.go`) | none | `classifyEvent`, `ClassifyBusiness` | decide what is a queue refusal |
| builders, signing, ABI, web page | none | pure functions, I/O | - |

What is hard in it, and what makes each part correct:

- **Retries of a stream.** A refusal by the upstream's queue may be waited out, but only
  before any content, within three limits, and with the old stream closed first. Correct:
  the limits hold in any mix of refusals, failures and cancellations; one completion never
  comes from two streams.
- **Two goroutines and one stream.** The RPC returns while the pump goes on; the deadline
  closes the body while the owner reads or cancels. Correct: the host's streams are closed
  once, on every path; every request ends.
- **Text that may be a tool call.** Text is held back until it can be told from a tool call,
  and the stream may end at any moment. Correct: no text is lost, doubled or reordered; the
  finish reason matches; nothing follows the end.
- **Events cut into payloads.** Correct: the events come out in order, and none is missing but
  those that a failed read of the host's stream cut through or took along.
- **Reads of shared state one entry at a time.** A pick reads what other picks, quota
  queries and failures change. Correct: an answer was not unusable all along; conversations
  stay where they are; delegation only when nobody was usable.
- **Read, ask, write.** Management requests and refreshes change one file with no common
  lock. Correct: a rotated refresh token is never written back, host keys survive.
- **One refresh, many callers.** Correct: one at a time spends the token, all get its answer.
- **Overlapping polls.** Correct: one token, which reaches the host whole.
- **A daily loop beside others who claim.** Correct: no account is passed over because of
  another's failure, no day's slot is missed, nobody's own grant looks like another's.
- **A catalog that changes while it is in use.** Names and IDs coincide and come in the order
  of Go's maps. Correct: one public ID per model, and the model that was listed is called.
- **A quota from three reads that may each fail.** Correct: the scheduler is told of exhaustion
  that was seen, and of nothing else; every record of an account is told about.
- **Answers nested in answers.** Correct: a refusal is one by the queue exactly if it says so,
  and the wait is the one it names.

Every hazard of the code, with its line and the properties that cover it, is listed in
`PROJECT.json` under `hazards`.

## 2 Plan

In order of importance; the first ten are done.

1. `StreamHandle` (abstract), `QueueAwait`, `QueueAwaitProofs` - retries of a stream.
2. `Executor`, `ExecutorProofs` - composes `QueueAwait` with the two executor methods and the
   pump.
3. `RecencyMap` (abstract), `StickyMap`, `Scheduler`, `SchedulerProofs` - account choice.
4. `ChatStream` - tool-call fallback and ends of streams; `Aggregate` - what is made of them;
   `ChatStreamProofs`.
5. `EventStream`, `EventStreamProofs` - opening, payloads, parsing and closing.
6. `Credentials`, `CredentialsProofs` - refresh, management and the auth file.
7. `DeviceLogin` - overlapping polls.
8. `Campaigns`, `CampaignsProofs` - the daily schedule with its jitter, `claimAll`, claims through the
   panel.
9. `ModelCatalog` - public IDs, their registry and the requests that use them; `Quota` - from the
   upstream's answers to snapshots and rows.
10. `Classify` - the meaning of payloads, against a reference; `QueueAnswers` - its composition
    with `QueueAwait`.
11. Composition of `ChatStream` over `EventStream`, as a refinement of `StreamHandle`.
12. A clock for `Credentials`, with the lead and the backoff of refreshes.

Abstract specifications worth stating besides the two there are: an account file with atomic
updates (what `Credentials` would implement with a common lock), and an exactly-once login.

Theorems: every safety property that a passing run checks is proved (section 7). Next: the
composition of item 11, that is what the executor assumes of a stream from `EventStream` and
`ChatStream`; and a refinement of the atomic account file for the runs without the host's edits.

## 3 Modules and code

`PROJECT.json` maps each definition to the lines it stands for. Operators named
`<definition>_<slip>` are plausible slips of the definition that follows them; they are used
only to see that the properties can fail, and no specification refers to them.

**QueueAwait** is `queue_wait.go`. `pc` is where the goroutine that owns the handle is;
`attempts`, `waited`, `started`, `hctx` are the fields of `queueAwaitHandle`; `streams` holds
one entry per successful `StreamChat`, so that `Inner` is `h.inner`. `WaitsFor(q)` collects
the early returns of `ReadChunk` in the order of the code. Durations are integers that wrap
at `MaxDuration`, as `time.Duration(hint) * time.Second` does. `outbound` and `slept` are
history: calls of `StreamChat`, and time really slept; `hint` is the one the wait is made of. A chunk may still be returned after
the stream was closed (the adapters make the finish chunk and [DONE] themselves); a refusal
arrives as an event of an open stream.

**StreamHandle** is what any handle promises its caller: it is replaced upstream only while
nothing was handed out, holds one upstream stream at most and none after `Cancel`.
`QueueAwait` implements it under the mapping at its end.

**Executor** instantiates QueueAwait and adds the RPC (`rpc`, `reply`) and the reader of the
handle (`owner`), which is the RPC itself for `execute` and the pump for `stream`. Each way
out of `pumpStream` and `aggregateChat` is an action. The context of the RPCs is
`context.Background()`, hence `ParentCancels = FALSE`. An estimated usage is made whenever
there was no real one: the code leaves it out for an empty request without output, which the
transports refuse to open. `named`: a request without an AuthID is served from its credential,
but arms no cooldown.

**StickyMap** is `lruMap` with its three fields, **RecencyMap** what it is for: a list of
bindings, least recently used first. `touch` and `evictOldest` are written as the code has
them, slices and index included.

**Scheduler** interleaves picks at the granularity of the critical sections of
`schedulerState`. A pick's local variables are in `picker[p]`; `Outcomes` abstracts the random
draw of `quotaWeightedPick` to "any account with a fresh snapshot", since each has a weight of
at least epsilon. One model name is in use. `away`, `ready`, `bound`, `measured` are
history variables: what was true of an account from the beginning of a pick on, without
interruption; `glimpsed` is what was true of it at some time since. They make it possible to say what an answer promises although the state moved meanwhile.

**ChatStream** is the adapters' `handleState` and `textToolFallbackHandle`. Text is a sequence
of pieces, as long as the fallback can tell apart: the two halves of the prefix, the beginning
and the end of an array of calls, and other text. One `ReadChunk` of the code that loops or
calls itself is a sequence of steps here, one per upstream event. A native tool call has an
index and a part of its arguments. The calls of an array found in the text are one chunk here
(`EmitCalls`); the code makes one chunk per call, handed out one after the other.

**Aggregate** is the fold of `executor_aggregate.go` over these chunks. `AggregateFaithful`
compares its answer with the chunks and with the text that was received, in each state in which
a stream has ended.

**EventStream** is `Stream` of the transports and, if the upstream's answer can be used,
`hostStreamBody` under a `bufio.Reader` under `SSEParser`, whose two copies (`bearer`, `cosy`)
agree in what is modelled. The wire consists of pieces: the prefix `data:` and the JSON of each
event in two parts each, and the newlines, so that payloads and breaks fall inside the prefix,
right after it, inside the JSON, between lines and between events. `DataOf` takes a line only
if it has the whole prefix, as the parsers do. `HostFails(n)` is a read that fails with an error
that is not `io.EOF` and drops a payload of n pieces with it; the host may go on behind it.
`struck` (history) are the events in which such a read was or whose bytes it took. `closer` follows the two callers of
`Close` through its `sync.Once`. A refused answer is read to a limit and closed by `Stream`
itself; the host may also answer without a stream, with all payloads at once.

**Classify** is what `classifyEvent` of either transport and `ClassifyBusiness` make of one
payload. A payload is the sequence of JSON objects nested in it, each with the few fields that
decide; phrases are classes of messages. `ReadAsTold` compares the merging loop with a reference
that looks for the innermost word on each question.

**QueueAnswers** is `QueueAwait` with the refusals that `Classify` makes of a set of payloads in
both dialects, so that the path from the upstream's answer to the sleep is one specification.
`MCQueueAwait` has 14 058 payloads of up to five objects for it.

**Credentials** has the auth file with the plugin's keys (token, profile, account class) and
the host's (a version number), the upstream's valid token, the singleflight and the mutex of
the management service. Refresh tokens are numbers in the order they were given out. `stale`,
`lost`, `chosen`, `edits`, `crossed` are history. A refresh that was called with a stored
token leads or joins; in between its fields are those of the code, down to the channel that is
closed before the entry leaves the map.

**DeviceLogin** is one transaction. A poll is followed through the store, the transaction's
lock, the answer of the token endpoint, and `authService.poll`, which fills in the one
credential that all successful polls share, field by field and without a lock. The user
info and the key it is encrypted with are named by the poll that drew them. The draw itself
(`DeriveRuntimeFields`) is taken to succeed: it fails only when the system has no entropy.

**Campaigns** has a clock of a few units a day, on which the loop sleeps and wakes, and the
status of each campaign upstream, which the loop, two management requests (under
`managementService.mu`, which the loop does not take), the account's owner and the end of a
campaign change. `Answers` is what the upstream makes of a claim together with what
`ClaimCampaign` makes of that. `by`, `rival`, `tried`, `listed`, `ran`, `excused` are history.
A restart of the plugin may come between any two steps and takes the loop and the requests with
it; their claims stay.

**ModelCatalog** follows a catalog from the upstream into the registry, the host's list and the
panel. A word is a name or an internal ID, and the two may coincide. The order in which Go
visits a decoded JSON object is a choice among the orders of its scenes. A request takes an ID
from the host's list, or a word of its own, and is resolved anew each time `queueAwait` opens
its stream. `resolveRecord` takes one prefix off for its second look-up, which a client reaches
with `qoder/qoder/x`. The registry and an opened stream remember (history) the catalog they are from, lists
and requests the store.

**Quota** has one upstream account whose quota changes while `FetchQuota` makes its three reads,
any of which may fail. A snapshot remembers (history) what its fetch was told and what was true
all through it. `GET /qoder/accounts` visits a list in which one account may have two records.

## 4 Runs

Passing runs, with the distinct states TLC finds:

| run | question | bounds | states |
|---|---|---|---|
| `queue_await` | are answers read as told, do the limits on waits and calls hold, is it a `StreamHandle`? | 4 attempts, cap 3 s and budget 5 s (of two units each), the refusals of 14 058 payloads | 543 |
| `executor` | one source, one end that is told, one usage, an end for every request? | 3 attempts, one refusal that is waited out, one that is not | 2 972 |
| `scheduler` | what does a pick promise although its data moves? | 2 picks at once, 2 accounts and a foreign one, 2 conversations and none, sticky map of 1, clock to 2, 2 notes | 4 033 372 (up to symmetry) |
| `sticky_map` | do map, order and index agree, is it an LRU map? | 4 keys, 2 values, capacity 3 | 745 |
| `chat_stream` | does text arrive intact, are calls final, do streams end well, is the aggregate what the chunks say? | 5 upstream events of 9 texts, 2 indices of calls, buffer of 4 pieces | 719 420 |
| `event_stream` | events in order, none missed but by failures, one close, an end, refused or not? | 3 events (18 pieces), payloads of up to 6 pieces | 160 271 |
| `credentials` | single flight, living tokens, kept keys? | 2 refreshes, 2 management requests, 2 profiles, 1 class, 1 edit of the host | 253 330 |
| `login` | one token, which reaches the host; every poll returns? | 3 polls | 7 208 |
| `campaigns` | does every account get its turn, every day its round, every grant its owner? | 2 days of 3 units and the midnight after, 2 jitters, 2 accounts, 2 offers, 2 requests, 1 restart | 6 029 004 (up to symmetry) |
| `catalog` | is the catalog one to one, is the listed model called? | 2 catalogs of 3 models and an empty one, 2 refreshes, 1 request with 2 openings, 1 load of the panel | 4 211 406 (up to symmetry) |
| `quota` | is exhaustion told as it was, for every record; do rows keep their names? | 2 records, 4 lists, 3 quotas that change freely, 1 call and 1 panel | 5 190 947 |

Why these bounds are enough to see the interesting cases:

- `queue_await`: the four attempts can all be used up (1 s hints), the budget can be met exactly
  (2 + 3) and missed by one unit (3 + 3), and each early return has a refusal that takes it; a
  payload can be one object deeper than the code looks.
- `executor`: three attempts are the program's own value; two refusals reach every way out.
- `scheduler`: the interference of one pick with another needs two; a capacity of one makes each
  binding of another conversation evict; `QuotaTTL = 1` and three clock values let a snapshot
  be fresh, expire during a pick and be absent; cooldowns end before and after the snapshot.
- `sticky_map`: a capacity of three has a first, a middle and a last position, and a fourth key
  forces evictions; all operations are repeated without bound.
- `chat_stream`: prefix, array and something after it take three to five events when each brings
  one piece; the buffer can be exceeded both at once and bit by bit; calls of two indices come
  in either order, in several parts each.
- `event_stream`: a first, a middle and a terminal event; a payload may hold a whole event, and a
  failed read may drop one, or the end of one with the beginning of the next.
- `credentials`: a second refresh may join, lead later, or be overtaken by a save; two requests
  show the mutex, and one of each kind the read-ask-write window.
- `login`: of three polls one may hold the lock while two wait.
- `campaigns`: a day has a time before, in and after the slot; an account is listed twice, another
  is not the plugin's. A day is judged when its last slot is over: the clock reaches that of the
  second day (`MaxClock = 6`), which was computed, with new jitter, after the round of the first
  or after a restart on either. What is drawn after the second round decides about a third day,
  which the run does not reach; `EveryDayHasItsRound` holds for every day.
- `catalog`: two models of one name, a third named like the ID of one of them (so that the
  numbered ID is needed), and one model under two names; two refreshes can store in one order
  and reach the host in the other.
- `quota`: limits that are exhausted, left and absent, the flag with none of them; records with
  and without names of their own, with and without an index.

Deadlock is checked in every run but `scheduler` and `campaigns`, which stop at the bounds of
their clocks and counters. The other specifications have an explicit action for the state in
which all is over, or an upstream that may change for ever (`catalog`, `quota`).

What the properties say is in the comment above each. Those that took the most care:
`AnswersUsable` and `ConversationStays` (a promise over a whole pick, with the exception of an
account that is first exhausted and then cooling), `TokenLives` (all the ways in which the
stored refresh token may be dead, and no other), `CancelMeansClosed` (the second caller of
`Close` waits for the first one's host call, which is what lets `queue_wait.go` open the next
stream after the old one), `ListedModelIsCalled` (another model is called only after
another store, and only if the catalog stored by then has no such model or another use for the ID), `SnapshotTellsExhaustion`
(what each of the three reads can and cannot tell), `ReadAsTold` in `SleepsAsTold`, `TextIntact`
and `EveryRequestEnds`.

The type invariants (`TypeOK`) of the modules are in no run: they are weaker than what the
other properties need. All of them are proved (section 7).

## 5 Where the code and its texts disagree

One run ends with a counterexample to what a comment says of the program:

- `credentials_rotated` / `RotatedTokensStayDead`: the merge is written so that rotated tokens
  never come back (`management_save_merge.go:11-13`). The payload that is merged is the file as
  it was before an upstream query; a refresh that is saved in between is undone.

Further disagreements, known from the models or from reading; no run is spent on them:

- `scheduler.go` says a cooldown is armed when the executor surfaces a queue refusal. For
  streamed requests the pump surfaces it (`executor.go:139`) and tells nobody but the client;
  `CooldownFollowsRefusal` in `EndIsTold` states what remains.
- Long requests are to end with a result that can be diagnosed, and silent success is to be avoided
  (`PLAN.md:86`). The parsers look at no error of a read but `io.EOF` (`bearer/sse.go:54,74`,
  `cosy/sse.go:56,79`), and `Read` drops a payload that came with an error (`host_http.go:172`). If
  the host goes on after that, an event that was cut in its prefix, or was in that payload, is
  passed over, and the completion ends as if it had never been. The models have this
  (`DataOf`, `HostFails`); what holds is `OnlyStruckAreMissed`: no other event is lost.
- Buffered text must be preserved, says a test. The first letters of "Tool calls:" are held
  back in state `fbIdle`, which no flush looks at; an answer that ends in them loses them. This
  is the exception in the last line of `TextIntact`.
- Only one of several polls should succeed. A poll that waits for the transaction's lock is given
  the credential as well, and completes it without a lock; `TokenReachesHost` says when the
  result is nevertheless whole.
- The claim loop is to run once a day at its hour (`ops_campaigns.go:18-19`). The jitter is
  drawn anew after each round, so that a round at 10:05 may be followed by one at 10:20.
- `claimAll` returns the number of claims that succeeded; `ClaimCampaign` returns the outcomes
  rejected, expired and replayed without an error, and they are counted. The number is logged.
- A rate-limit phrase split across deltas is to be detected (`sse.go`, `dispatch`). `rateTail`
  keeps the last 96 bytes of the joined text before the phrase is looked for, and loses it if
  the second delta has much text after it.
- The answer to a refresh has the expiry as its `NextRefreshAfter`: the lead of five minutes,
  which `auth_provider.go` explains, is taken off only in the credential inside the answer.

Properties of the code that are visible in the models and contradict no text:

- durations wrap for absurd hints (see `NoOverflow`);
- a text that is itself an array of calls becomes tool calls without the prefix
  (`tryParseToolCalls`);
- of an upstream event with text and usage the cosy parser keeps the usage only, and of one with
  both reasoning and content or several tool calls the first (`CosyEvent`, `NextEvent`);
- an error code beside choices is an error for cosy and not for bearer; a message that is an
  object makes the code unreadable (`HasCode`);
- any payload with a queue field but no `service_available` is shaped like a queue refusal,
  `{"isQueued":false}` included (`QueueShaped`);
- queue refusals with a status other than 200 fail in `Stream` and are not waited out;
- an aggregate drops tool calls whose indices leave a gap (`ToolCalls`);
- a host's answer with a stream's ID but no status is an error, and that stream is not closed
  (`EventStream` takes such an answer for none);
- a fetch that was overtaken by a later one overwrites its snapshot (`Noted`); a second record
  whose fetch fails overwrites the row of the first (`ApplyQuota`); `refreshQuota` notes no
  snapshot.

## 6 Fairness

Liveness is stated where the code runs goroutines to an end.

- `QueueAwait`, `Executor`: every goroutine goes on, since host calls, `StreamChat` and timers
  return. Reading on is made to end by the deadline that each stream's context has
  (`context.WithTimeout` in `Stream`): weak fairness of `StreamExpires`. A closed stream has
  only finitely many chunks left, hence strong fairness of the error that follows them.
- `EventStream`: reader, deadline, `AfterFunc` and closers are goroutines of their own. After
  an empty payload `Read` asks the host again, with no regard for the context; that the host
  does not answer emptily for ever (strong fairness of `HostSpeaks`) is an assumption on the
  host, and without it `EveryStreamCloses` fails.
- `Credentials`, `DeviceLogin`: upstream calls return or time out; Go's mutex hands itself to
  every waiter in the end (starvation mode), hence strong fairness of the steps that acquire
  it. Nothing makes the host start a call or save an answer.
- `Scheduler`, `StickyMap`, `ChatStream`, `Campaigns`, `ModelCatalog` and `Quota` are checked for
  safety only: what has to happen there is stated at the moment it should have (a round that
  ends, a reply, a slot that is over).

## 7 Proofs

Eight modules hold theorems, which state for every value of the constants what the runs show on
small instances. Seven of them are about components: each `XProofs` extends the module `X`, states
an invariant, proves that it holds at first and is kept by every step (one step of the proof per
action), and derives the theorems from it. `SchedulerProofs` is also about `StickyMap`,
`CredentialsProofs` about `DeviceLogin` and `Quota`, `ChatStreamProofs` about `Aggregate` and
`ModelCatalog`, `QueueAwaitProofs` about `Classify` and `QueueAnswers`. The eighth, `FoldLemmas`,
is about `FoldLeft` and is instantiated wherever the code's loop is a fold.

`Invariance` (`Spec => []Inv`) and `TypeCorrect` (`Spec => []TypeOK`) are there for each component;
their names begin with `Map`, `Login`, `Quota` or `Catalog` for the second component of a module.
(The types of the sticky map and of the catalog are a part of their invariants.) The other
theorems:

| module | theorem | property | hypothesis |
|---|---|---|---|
| `QueueAwaitProofs` | `OneStream` | `AtMostOneOpen` | - |
| | `BoundedOutbound` | `OutboundBounded` | - |
| | `CappedWaits` | `WaitsWithinCap` | `NoOverflow` |
| | `BoundedWaiting` | `TotalWaitBounded` | `NoOverflow` |
| | `SleepsRight` | `SleepsAsTold` | `AnswersTold` |
| | `Refinement` | the safety part of `StreamHandle` | - |
| `ExecutorProofs` | `UsesTheHandle` | the safety part of `QueueAwait` | - |
| | `OneUpstream` | `AtMostOneOpen` of the handle below | - |
| | `OneSource` | `SingleSource` | - |
| | `EndToldOnce` | `EndIsTold` | - |
| | `UsageToldOnce` | `OneUsage` | - |
| `SchedulerProofs` | `UsableAnswers` | `AnswersUsable` | - |
| | `Delegation` | `DelegatesOnlyWithoutReady` | - |
| | `Stickiness` | `ConversationStays` | - |
| | `HostPriority` | `WeightsOrPriorities` | - |
| | `ConsistentMap` | `Consistent` | - |
| | `MapRefinement` | `ImplementsRecencyMap` | - |
| `ChatStreamProofs` | `TextArrives` | `TextIntact` | - |
| | `CallsStand` | `CallsAreFinal` | - |
| | `EndsAsAgreed` | `EndsOnce` | - |
| | `AggregateHolds` | `AggregateFaithful` | - |
| | `OneToOne` | `CatalogIsOneToOne` | - |
| | `CalledAsListed` | `ListedModelIsCalled` | - |
| | `PanelCallable` | `PanelNamesAreCallable` | - |
| `EventStreamProofs` | `OnlyFailuresLose` | `OnlyStruckAreMissed` | - |
| | `HealthyEndsWell` | `HealthyStreamCompletes` | - |
| | `CloseTold` | `CancelMeansClosed` | - |
| `CredentialsProofs` | `OneAtATime` | `OneRefreshUpstream` | - |
| | `JoinedAnswer` | `WaitersGetAnswer` | - |
| | `TokenIsLive` | `TokenLives` | - |
| | `OthersWorkStays` | `FileKeepsOthersWork` | - |
| | `SingleToken` | `OneToken` | - |
| | `TokenArrives` | `TokenReachesHost` | - |
| | `ToldRight` | `SnapshotTellsExhaustion` | - |
| | `AllNoted` | `EveryRecordNoted` | - |
| | `IdentitiesKept` | `RowsKeepIdentity` | - |
| `CampaignsProofs` | `NobodyIsSkipped` | `EveryAccountTried` | - |
| | `ReplaysAreOthers` | `ReplayComesFromOutside` | - |
| | `EveryDayHasItsRound` | `NoDayMissed` | - |

What is assumed of the constants is what the code fixes, and TLC evaluates it in the runs:

- `PolicyAssumption`, `RefusalAssumption`, `ExecutorAssumption`: the limits are natural numbers,
  at least one attempt; a refusal has two integer hints. `NoOverflow` is a hypothesis of two
  theorems and not an assumption: no hint of a refusal, counted in nanoseconds, exceeds the
  largest duration, nor does the sum of the two limits. Without it a negative delay passes both
  checks (`queue_wait.go:99`).
- `AnswersTold`, the hypothesis of `SleepsRight`: each payload is a sequence of at least one object
  (`Answers`), and the refusals are among those that `Classify` makes of the payloads.
- `CapAssumption`: the capacity of an LRU map is positive.
- `SchedulerAssumption`: the plugin's accounts are not the host's others, priorities are
  integers, times and bounds natural numbers.
- `EventAssumption`: a completion has at least one event.
- `DeltasAssumption`: a text is a sequence of pieces and not empty, the indices of calls are
  natural numbers.
- `CatalogAssumption`: a catalog is a sequence of scenes, each a sequence of entries.
- `QuotaAssumption`: a list of the host consists of its records, the panel is none of the host's
  calls.
- `CredentialsAssumption`, `DeviceLoginAssumption`: `None` is no refresh, request, profile or poll.
- `CampaignsAssumption`: the four that may be granted a benefit are told apart; the claim hour is
  not midnight and hour and jitter stay within the day (10:00 and 30 minutes in the code).

The bounds of the runs (`MaxPicks`, `MaxClock`, `MaxRestarts`, `MaxEdits`, `MaxPayload`, `MaxEvents`, `MaxBuf`, `MaxOpens`
and the like) are arbitrary natural numbers in the theorems, and sets of picks, accounts,
conversations, requests and polls are arbitrary sets, the catalogs, texts and answers those the
assumptions admit.

### The invariants, and why they are needed

None of the properties is inductive by itself. Some (`TokenLives`, `FileKeepsOthersWork`,
`ReplayComesFromOutside`, `OnlyStruckAreMissed`) are conjuncts of the invariant, the others follow from it.

**QueueAwait.** Streams are opened in order and all but the last are closed; the last one is
closed while the handle waits; the handle waits only while it has handed nothing out and has an
attempt left; each call of `StreamChat` but a failed last one is an attempt. Since `Replace` of
the abstract handle needs "no stream open, nothing handed out", the refinement follows as well.
`WaitInv` adds that `slept = waited` and that the wait under way fits the rest of the budget; it
is inductive only together with `Inv`, and only if `Delay` is exact, which `DelayExact` derives
from `NoOverflow`. `HintInv` says which refusal a wait under way is for.

**Executor.** Each step of it is a step of the handle or leaves the handle alone
(`HandleStep`), so that the handle's `Inv` is kept by `QueueAwaitProofs` and not proved again.
`SourceInv` ties the chunk in hand to the current stream of a handle that has started: a started
handle is not reopened, hence one source. `OwnerInv` and `EndInv` say what is known of the end at
each place of the reader, `UsageInv` and `CloseInv` what has been made of it there.

**Classify.** `Told` relates the objects that the loop of `extractQueue` has seen to the record it
has merged: each field has the innermost word that was said, and a record that was not found is
empty. It goes through `MergeQueue` object by object (`FoldLemmas`); with `Reached` (four objects)
and `Unwrapped` (up to three envelopes) it gives `ReadAsTold` of every answer.

**StickyMap.** `Aligned`: the index is the inverse of the slice. It is what is lost if `touch` or
`evictOldest` forgets to renumber a moved key, and the number of keys follows from it
(a bijection). For the refinement, the abstract list is the slice with the values of the map;
taking a key out of the slice and out of the list commute.

**Scheduler.** `PickInv(p)` relates the local variables of one pick to the histories `ready`,
`away`, `bound`, `measured` and `glimpsed` of what was true of an account since the pick began: no candidate
that was usable all along is turned down, what was unusable all along for one reason is not found
eligible, and the account the key stayed bound to is still among those left. `OthersStep` shows
that a step of somebody else only shortens the histories, so that the number of picks does not
matter.

**ChatStream.** `HoldInv`, text is held back only while it may begin the prefix and the stream is
read; `EndInv` and `FinishInv`, the finish chunk is the last but for the marker, and what may still
be pending is that chunk alone; `CallsInv`, the state of the fallback tells whether calls were
made; `SaidInv`, the text handed out and the text held back are together the text received. The
texts are sequences of sequences: `FlatAppend` says what `FlattenSeq` makes of one more.

**Aggregate.** `AggregateInv`: the aggregate of the chunks so far (`AggregateOf`) has their text,
their last finish reason, the marker, and for each call its parts in order. Parts are in order
because a chunk is made by an event and none is newer than the last one. From there to the answer
it takes that a list of calls without gaps is as long as there are calls.

**EventStream.** `BufferInv`: what is buffered are the pieces that come next on the wire. `LineInv`:
the line is a part of that of one event, from its first piece on unless a failed read struck the
event. `DataInv`: the data is empty, a whole event that is still to be returned, or `Bad`, that is no
JSON whatever follows, so that the reading will end with an error. `CountInv`: an event whose line
the reader has passed (`Taken`) was returned, was struck, is in the data, or the data is bad; and
one of which the reader missed the beginning was struck. It takes the three together: that no
event is returned too early or twice rests on where the pieces in the data came from.
`EndInv` finds the cause of each bad end. `CloseInv` follows the two
callers through the `sync.Once`: who has returned did so when it was over.

**Credentials.** `FlightInv`: the entry of the singleflight is the one refresh that is upstream,
and whoever waits names a refresh that led and, once awake, has its answer. `TokenInv`: no token
anywhere is newer than the valid one, without which an answer that is saved could not be told
from one that is overtaken. `MutexInv`: what the holder of the mutex has read is still so in the
file, unless the host wrote in between.

**DeviceLogin.** `LockInv`, the poll that asks the endpoint is the one that holds the
transaction's lock, and it asks only while the transaction is pending and has yielded nothing;
`OnItsWay`, some poll has the token or has delivered it unless its user is not known, which is
kept because a poll gives up only in `NoProfile` and only for that reason; `OwnHalves`, what a
poll that is alone has written is still in the shared credential, which is kept because a poll
that has started to complete the credential counts as one for ever.

**Quota.** `Knows`: a fetch that still reads knows only what it was told, and what was true all
through it is true now. `FilesInv`: the files still to visit are the end of the list, so that
`NotedInv` and `RowsInv` can speak of its beginning: each record of it was noted or could not be
had, and the rows are those of its accounts, with the best label so far.

**ModelCatalog.** `Lists(E, L)`: a listing has one row per ID of the entries `E`, no two rows have
the same public ID, and the mapping has what the rows say. It is kept by `AddModel` because a free
ID exists: a numbered one is looked for among more numbers than there are IDs in use (`FreeSuffix`,
by counting). That the order in which a catalog is visited does not matter is `FetchKeepsIDs`.
`RegistryInv`, `RefreshInv`, `HostInv` and `ChatInv` say that whoever holds a row of the last store
gets its model from `resolveRecord` (`RowStands`); `PanelInv` is the like for the panel.

**Campaigns.** `RoundInv`: each listed account was visited, and tried once, or is still ahead in
the files. `GrantInv`: what the loop is about to claim is not its own, and what the request with
the mutex saw claimable was not granted to another request since. `SlotInv`: a slot that has
begun was used, is excused, or is the one the loop sleeps until; that `nextClaimAt` skips none
rests on the lemmas about days (`DivMod`, `DayIs`, `NextSlot`).

### Folds

`FoldLeft` and `FlattenSeq` are defined by recursion on positions, and the library's theorems of
induction take a formula as a parameter, which the provers cannot instantiate. `FoldLemmas` does
without: induction is stated over a set of numbers or of sequences (`Induct`, `SeqInduct`) and
rests on least elements; the function that the recursion defines is shown to exist (`FoldExists`)
and to be the same for two sequences as far as they agree (`FoldAgree`), so that the fold of a
sequence with one more member is one more step (`FoldedAppend`). The operator that is folded, its
first value and the relation `Good` of members to results are CONSTANTS of the module, so that
`FoldedGood` is used through an instance for each loop: `Aggregating`, `KeepingOne`, `AddingModels`,
`AddingRows` and `Merging`.

### What is only model-checked

Liveness (`EveryRequestEnds`, `EveryStreamCloses`, `AllReturn`, `EveryPollReturns`) and the
fairness conjunct of `ImplementsStreamHandle`: fairness and ENABLED are out of the prover's
reach. Every invariant of a passing run is proved.

`RotatedTokensStayDead` is violated (section 5), and nothing is proved of it. `WaitsWithinCap`
and the `TypeOK`s are proved and in no run.

## 8 What is not modelled

- `countTokens`, signing, encryption, the C interface, registration, the web page and its assets:
  formatting or I/O without state that could go wrong between calls. Of the request builders
  only the model and its thinking parameters are in `ModelCatalog`.
- The choice of a transport (`internal/qodertransport/transport.go`): one switch on the profile.
- `bearer/aggregate.go`: the plugin does not use it.
- What the panel and the host are shown beside the properties: amounts, plans, activity figures.
- Local time: days have the same length, so that a change to summer time is not in `Campaigns`.
- In `EventStream` the limits on the size of lines and events, which end the stream with an
  error like others, and the rate-limit phrase in text, which does the same in `ChatStream`
  (`InnerError`).
- Time of credentials (expiry, lead of refreshes): the host decides when to ask, so that in
  `Credentials` a refresh may come at any time.
- In `EventStream` the second half of a JSON that was cut does not itself begin like a data line,
  and lines end in a newline alone (both parsers trim a carriage return).
- In `Campaigns` a claim and what its client is told of it are one step. One that the upstream
  grants only after the client's timeout or a restart is a grant from outside (`UserClaims`): a
  later replay of it is taken for another's, by the plugin as well as by `ReplayComesFromOutside`.
- In `ModelCatalog` the upstream's own IDs have no prefix `qoder/`. Of two models of one name the
  panel and the host's list may each take another one: the code does not tell them apart, and
  `PanelNamesAreCallable` only says that the name calls a model of that name, or of that ID.
- Panics and the death of the host: nothing is persisted by the plugin itself.
