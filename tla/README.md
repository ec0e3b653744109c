# Verification of the India AI financial analyst

TLA+ models of the backend in `apps/api/app` and of the jobs in `apps/api/scripts`, the TLC
configurations that check them on small instances, and TLAPS proofs of every safety property the
runs check. Paths below are relative to `apps/api/app` unless they
say otherwise.

## 1. The system

The application answers research questions about Indian stocks. A request, or an event found
in an official feed, becomes a row of `research_jobs`; a worker process claims the row, prepares
the security's data, asks a readiness contract, runs some fifteen agents, validates their claims,
and saves outputs, a report and a monitoring snapshot. Feed daemons ingest what exchanges publish,
live market workers keep a socket to the broker for each connected user, and scheduled jobs fill
the corpus. All processes share one PostgreSQL database and nothing else; every repository call is
one short transaction.

| component | state | operations | talks to |
|---|---|---|---|
| research queue (`workers/research_jobs.py`, `repositories/research_queue.py`, `repositories/research.py`, `repositories/research_progress.py`, `research/service.py`) | `research_jobs`, `agent_runs`, `reports`, snapshots; a worker's `needs_recovery` and failure count | claim, requeue stale, execute (a chain of transactions), mark failed; inline execution in `main.py` | intake inserts rows; the runtime is called in the middle of an execution |
| intake and quotas (`core/usage.py`, `research/service.py: enqueue`) | `user_usage_daily` | reserve, insert the job, release | routes and the event dispatch call it |
| event dispatch (`research/event_dispatch.py`, `watchlists.py`) | `watchlist_items`; a run's list of subscribers | dispatch, opt in and out | feed daemons call it, it calls enqueue |
| feed daemons (`workers/official_feeds.py`, `repositories/official_feeds.py`, `scripts/register_official_feed.py`) | `official_data_feeds` with leases and validators; a daemon's batch | claim_due, fetch, dispatch, complete, fail, block, register | exchanges over HTTP, ingestion, event dispatch |
| live streams (`market/upstox_stream.py`, `brokers/repository.py`) | `broker_stream_leases`, subscriptions, `user_live_quotes`; a worker's tasks and their buffers | poll, acquire, heartbeat, release, connect, retry, flush, reconcile | the broker's socket |
| broker connection and overlay (`brokers/upstox_oauth.py`, `market/live_overlay.py`) | `broker_oauth_states`, `broker_connections` | begin, complete, disconnect; the quote of an execution | routes, executions, streams |
| stock preparation (`research/stock_bundle.py`, `ingestion/nse_financial_on_demand.py`, `core/prepared_security_readiness.py`) | the data of one security; locks of a process | classify, fetch results, derive metrics, ask the gate | the worker, before the agents |
| provider gateway (`providers/gateway.py`, `client.py`, `router.py`) | failure counts, blocks and per-job budgets of a process | complete | agents call it; language model providers over HTTP |
| agent runtime (`orchestration/runtime.py`, `plan.py`) | a run's stage, its outputs, the semaphore | run, repairs | the queue calls it, it calls agents |
| agents, calculations, valuation, validator, synthesis, insights | none | functions of a context | called by the runtime |
| monitoring (`research/monitoring.py`) | snapshots, alerts | compare, save, mark read | an execution that has completed |
| readiness, evidence and release gates (`core/`, `scripts/run_*_gate.py`) | none | rules over counts, settings, evidence files and answers | workers, operators, the release |
| corpus jobs and daily refresh (`scripts/bootstrap_*`, `backfill_*`, `run_local_node.py`) | facts, evidence, bars, metrics, checkpoints; cursors; a state file | drivers, batches, workers, postflights; import, retry | exchanges, the broker, Yahoo |
| evidence (`ingestion/exchange.py`, `ingestion/exchange_documents.py`, `evidence/semantic.py`, `research/context.py`, `live_context.py`, `filing_evidence.py`, `acquisition.py`, `repositories/research.py: _save_evidence`) | `sources`, `evidence_chunks`, `corporate_event_sources`, `claim_evidence` | disclose, read a document, gather evidence, search, cache pages, save | feed daemons, executions, exchanges, a search of the web |
| other ingestion, connectors, parsers, resolver | market and reference tables | idempotent upserts, parsing | called by feed daemons and scripts |
| principals and auth, portfolio, comparison, exports, routes, web client | sessions, user tables | single transactions, reads | users |

What is hard here:

* **Two executors of one job.** Recovery judges by age alone; an execution that outlives the
  window, or an inline request whose row a worker can see, shares its row with another.
* **Chains of transactions.** An execution, an enqueue, a feed run, a document of results, a bar
  and its checkpoint are each a series of commits. Any of them can fail, or commit and lose its
  acknowledgement, and the process can die between two.
* **Leases that are not fenced.** `complete` and `fail` of a feed do not ask who holds the
  lease; a stream's heartbeat does not run while its task pauses or connects.
* **Check-then-act across awaits.** `_already_enqueued`, the daily counters around midnight, a
  circuit that opens while requests are under way, a token read before a disconnect, the three
  reads of the readiness gate, the snapshot before, chunks that are replaced between a context and
  the report that rests on it.
* **Abandoned work.** `asyncio.gather` raises with the first exception and leaves the others
  running: agents with their semaphore slots, requests and budget, a fetch without its bundle's lock.
* **One rule written twice.** Selection and postflight of a corpus job, calculation and
  recomputation of a claim, the corpus gate and the agents' contract, four checks of an address.
* **Progress.** Jobs, events, feed versions and companies should arrive in spite of all this, and
  nothing should starve behind others.

`PROJECT.json` lists these under `hazards`, each at its line. Five more are known and have no
property, because nothing in the repository says what should happen: the export serves a report of
a job that is running or has failed (`main.py:399`); an event that meets a closed corpus gate is
not dispatched again (`research/event_dispatch.py:63`); a document that fails to parse is counted
and never listed again (`workers/official_feeds.py:307`); only the first twelve candidates of a
listing are followed (`:236`); and the limit of the query for candidates is no limit of the sockets
(`market/upstox_stream.py:49`).

What makes each component correct, in a sentence: a job is executed once at a time, ends once,
is complete when it says so and is never forgotten; an owner gets no more jobs than its limits
and pays for those it has; every subscriber gets exactly one job of an event; a feed is worked
on by one daemon, its validators never outrun what was ingested, and every version arrives; a
user is streamed while active, by who holds its lease, and not after it left; a quote
called live is; agents run on whole data; a document on file is the one reading of one version; a
report is the one that was validated, free of contradictions, and saved with its evidence; a provider that is down is left alone; what changed is alerted; what a job says of
the corpus is true, and reruns complete it; a gate passes on what it asks for, and a release on
all of its stages.

## 2. Modules

| module | models | uses |
|---|---|---|
| `ResearchQueue` | the queue, workers, inline requests | |
| `ResearchJob` | abstract: what the queue promises of a job | refined by `ResearchQueue` |
| `ResearchQueueProofs` | theorems about `ResearchQueue` | |
| `ResearchIntake` | quotas and enqueue | |
| `EventDispatch` | event dispatch on top of the intake | extends `ResearchIntake` |
| `DispatchProofs` | theorems about intake and dispatch | |
| `OfficialFeeds` | feed daemons | |
| `UpstoxStream` | live market workers: leases and sockets | |
| `LiveQuotes` | a broker connection and the quotes it brings | |
| `IncomingProofs` | theorems about `OfficialFeeds` and about `LiveQuotes` | |
| `ProviderGateway` | fallback, circuit breaker, budgets | |
| `ResearchRun` | runs of the agents on top of the gateway | extends `ProviderGateway` |
| `ResearchRunProofs` | theorems about the gateway and the runs | |
| `DataReadiness` | policies by listing age, corpus gate, contract of the agents; no state | |
| `StockPreparation`, `PreparationProofs` | the bundle of a security and its gate; theorems about them | extends `DataReadiness` |
| `EvidenceGates`, `ReleaseGates` | gates over evidence files; over settings, corpus, jobs, deployment | the second extends `DataReadiness` |
| `AgentRules`, `PeerMetrics`, `ClaimValidation`, `Valuation` | what agents and ingestion compute; no state | `PeerMetrics` extends `AgentRules` |
| `Decisions` | asks the rules case by case, and states what they owe each other | extends all of them |
| `DecisionProofs` | theorems about `Decisions`, for every well-formed case | |
| `CorpusBackfill`, `MarketRefresh` | the jobs that fill the corpus; the daily prices | |
| `Monitoring` | snapshots and alerts | |
| `RecordsProofs` | theorems about `CorpusBackfill`, `MarketRefresh` and `Monitoring` | |
| `EvidenceCatalog` | documents read by daemons, gathered and saved by analyses | |
| `CollectionProofs` | theorems about `UpstoxStream` and `EvidenceCatalog` | |
| `MC...` | constants, cases and symmetry for TLC; `MCEventDispatch`, `MCIncoming`, `MCRecords` and `MCCollection` show several scenes in one run | |

**Conventions.** A transaction is an action. `Fault` is a transaction that fails: its write is
there or not (the acknowledgement was lost), and the code's exception path follows. Definitions
whose comment starts with "Mutation" or "mutant" are plausible bugs, used to see that a property can
fail; no action refers to them. Bounds are constants named `Max...` or `Last...`. A property named
`...Inv`, `...AreSound`, `...IsTrue` and the like may be a conjunction: its parts have names and
comments of their own. A scene is a variable that does not change and says which of several
components the behaviour is about.

### ResearchQueue
`jobs[j]` is a row, with counts of its agent runs and snapshots. `pc[e]` names the transaction
an executor (a worker or an inline request) is about to run, in the order of `poll_once` and
`execute_existing`; `att[e]` are the locals that decide about later writes. Of `started_at` the
model keeps what the queries ask: null, within the window, or older (`Age`). Actions carry the
names of the functions: `ClaimNext` (with SKIP LOCKED), `RequeueStale`, `Begin` ... `Complete`,
`Stamp`, `SaveSnapshot`, and the failure paths `SetFailed`, `SetFailedStage`, `Mark` and
`Outage`. The agents, the resolution of the security and the readiness gate are nondeterministic
outcomes. `Timely` says whether an execution may outlive the window; nothing in the code
guarantees it, so both values are checked. `FailureLimit` is 5 in the code.

### ResearchJob
A job is absent, queued, running, completed or failed; only an unfinished attempt is retried,
completion needs a report, an alert is raised once, after completion, and a completed job may
still turn failed (the trailing writes of an attempt stand inside the same `try`). `ResearchQueue`
implements it under the mapping `phase <- status`, `published <- report`, `alerts <- snapshots`.

### ResearchIntake and EventDispatch
`used[u][d][k]` is the row of `user_usage_daily`; `call[c]` is where a call of `enqueue` stands.
`reserve` and `release` each compute the date, so `call[c].day` and `today` may differ. `slips`
is auxiliary: it counts the releases of a unit that still belonged to a job, or to another day.
`EventDispatch` adds the loop over subscribers; `run[c]` is one run, `settled` the events whose
feed run completed (a failed run is repeated by the next poll), `blocked` those that were given
up at the corpus gate. Event jobs are standard in depth and conflict on the unique index of
migration 0019. `Busy` are owners who have used up their day before it begins.

### OfficialFeeds
Time counts down in `feed[f].wait` (next_run_at) and `feed[f].lease` (lease_until); `due` is the
order of `next_run_at`. A claim carries the validators it read and what is left of its own
lease, which nothing in the database shows. `Complete` and `Fail` write the row whoever holds the
lease by then. `Interval >= Lease` and `Retry >= Lease` are assumptions: the schema keeps
`poll_interval_seconds` at 300 or more, `fail` waits 300 at least, and `run_once` leases for 300.

### UpstoxStream
`lease[u]` is the row of a user, `pc[w][u]` the task of a worker, `age` the ticks since it began
to wait. A tick stands for about 15 seconds: the default heartbeat is one tick, the default lease
three, the longest pause (16 s) and the connection (two timeouts) one each; in `sockets_shared`, where
the exact ratio matters, about five: lease nine, heartbeat and pause three, connection five. `Prompt`
keeps tasks within what they wait for; `MaxStalls` ticks may break it (none in the runs; the theorem allows any number). `renewed` is auxiliary: how
long ago a task last renewed its lease, and whether it has been with one socket since (`direct`).
A lease that is still running is one worker's alone (`LeasesExclude`), and by default it outlasts a connection
and a heartbeat interval (`FirstSocketsAreLeased`). It does not outlast a pause and a connection on top, so
a socket that follows an error, a return to the loop or a lost lease may be one of two: that is the finding of
`sockets_shared`, and no property claims otherwise.

### LiveQuotes
One user, one instrument and one socket of `UpstoxStream`, from the state of `begin` to the quote
an execution shows. A price is the moment of its last trade, so how old a quote is needs no other
data. `socket.good` and `overlay[o].good` are the tokens that were read, and end when the broker
ends them (03:30, `Expiry`). `resubscribed` is auxiliary: what was subscribed to since the user
left. The windows are scaled: 15 seconds of freshness to less than a tick, 300 seconds, the TTL of a
subscription and of a state to one tick, a day to two. `provider_instrument` stands outside the
`try` of the overlay, so `Subscribe` may abort the execution. Initially the user is disconnected,
or connected by an attempt that is over. The model shows two things no property forbids: an
execution that has read its token before a disconnect subscribes after it, and the old socket,
which never asks for a connection, streams on; and a token that is granted before 03:30 and stored
after it is kept as valid for a day too long.

### ProviderGateway and ResearchRun
`asyncio` runs the code between two awaits at once and nothing awaits under the budget's lock, so
a call moves from one request to the next in one step (`Try`), and requests interleave.
`circuit[p]` is the pair of dictionaries `_failure_counts` and `_blocked_until`; a block is
"cooling" until its time is over. `stage[j]` follows `run`, with the two gathers of
`_execute_bounded_repairs` as stages of their own; `output[j][a]` is the attempt an agent's output
comes from, `seen[j]` what `candidate_claims` held when the validator last started.

### DataReadiness and StockPreparation
`DataReadiness` has the contracts as operators over records of counts and ages in days: `Clamp`ed
requirements by listing age, the errors of the corpus, what each of the sixteen agents waits for.
`StockPreparation` runs them for calls of one process on one security: `main[j]` is the worker's
path, `cls[j]` and `fin[j]` the two steps of the gather, which go on as orphans when the other
raises. `stored[d]` counts the transactions of a results document (event, facts, evidence). The
gate's three reads are three actions, and `seen[j]` what they have found so far. The module's
comment says that a bundle "never raises"; a database error of a coverage query does raise, and
`"raised"` is an outcome of the model.

### Decisions
No process runs here: `case` is what a gate, an agent or the validator is given, `verdict` what it
says, and the properties relate verdicts that come from different files (the two copies of a rule,
the commands that stand on each other, the agent's calculation and the validator's, a
case and its variation). The cases are in `MCDecisions`: a good input with one or two deviations,
and all combinations of the values that interact. Floats are integers or quotients `<<a, b>>`;
`EvidenceGates` keeps of a value whether it is good, the same as a text, bad or absent. In
`PeerMetrics` a fact has the filing and context it stands in and whether it was filed under the
very element of its name (`exact`), which is what the aliases ask. Facts are a finite set that is
read from the newest on: `Latest` is the first of a list sorted by day, and `row` says which of the
facts of one day comes first, so a sorted selection is a set with at most one member. `WellFormed`
says what each kind of case may be (types, a missing value as an empty set, counts that are not negative, facts
that are read in one order); TLC evaluates it on every case of `MCDecisions`, and it is all that the
proofs assume of a case.

### CorpusBackfill
`job[j]` is one workflow: the stages left, and of the stage the cursor, the batch and the worker's
place in it. Securities are numbered by symbol, documents from the newest. What a company exposes,
owes and lacks is constant (`world.companies`). Mature is two periods instead of eight, a batch two
companies, a driver has two batches; the metrics that count are three, as in the code.

### MarketRefresh
Two machines run one importer: `importer[m]` with the checkpoints it read at its start, `node` and
`state` the local node and its file, which may be lost while it is written. A day has four moments
(before six, six, seven, eight o'clock and later), so 24 hours are four ticks and the node's hour
is one; the window of 400 days is two, the overlap of seven is one, three attempts are two. The
hours go past the end of the window, so its floor binds. A bar that misses the close comes late, whenever
it likes; nothing in the importer or the source bounds it. The importer looks back only over the overlap
before its checkpoint, so a bar that comes after it is lost to the refresh: `overdue` marks those, and
`NothingIsOutOfReach` is about the others, and about days the window still covers. `SuccessIsTrue` excepts
securities that are held back for 24 hours (`backfill_yfinance_market_history.py:546`); with all of them held
back a retry has nobody to ask and succeeds (see the end of section 3).

### Monitoring
`snapshots[e]` is the transaction of one execution: begun, compared, committed. Others see it once
it is committed, while its time is that of its beginning. `status[e]` is that of its job: completed before
the snapshot is written, failed when the transaction fails (`RollBack`), when its acknowledgement is lost, or when
something after it raises (`CommitUnacknowledged`, `FailJob`); in the last two cases snapshot and alert are
on file. The comparison behind an alert (`Prior`) asks for any snapshot of the user, the delta that is shown
(`Own`, `LatestDelta`) for those of completed jobs. A claim is told from another by an identity that each
execution draws anew, as `Claim.claim_id` is.

### EvidenceCatalog
The evidence on one security. A URI stands for what the unique index of migration 0003 is on:
security, URI and date. `sources[u]` is the row of a URI, with its type, its checksum and whether it
was retrieved within the window of the cache; a chunk's `id` names who stored it, in which reading, and
its number, so that the readings of one document can be told apart. A daemon fetches a version
(`FetchDocument`), ensures the row, deletes and inserts chunks in one transaction, and links its
event in another. `DeleteChunks` and `InsertChunks` are the two moments of that transaction that
matter: a delete sees what is committed, an insert meets the unique index. An analysis gathers in
the order of `UserAwareResearchContextLoader.load`: the events (`LoadContext`), the chunks linked to
events, those found by meaning, pages from the cache or a search; `SaveOutput` is the transaction of
one agent's output. `links` ends "parsed" for documents only, as the XML instances (which are read by
the importer of `StockPreparation`) are not among the media. Facts are left out: their references
are made as those of events are.

The model shows, without a property that forbids it: the chunks of a transcript whose disclosure was
stored under the same URL are filings of the first rank to `evidence/semantic.py` (a recording is no
primary source after `deploy/README.md:256`), which only the reference to the event hides, so
`TranscriptsAreSecondary` excepts rows without a checksum; a page that is found again keeps its old
`retrieved_at`, so after one window the cache never has it again; a document that is read anew takes
its chunks out of `claim_evidence` of saved reports; and the checksum on file is that of the first version.

## 3. Runs

Twelve runs; one of several scenes asks each of its questions in a scene of its own. "viol." runs show a disagreement of code and documentation.

| run | instance | shows |
|---|---|---|
| `records` | scenes: 2 workers, 2 jobs, 2 outputs, 1 crash, 1 fault, timely; 2 securities, up to 12 moments over a window of 2 days, a weekend, 1 fault; 3 executions of 2 users, 1 fault; some 35,000 cases of rules | one executor per job, one snapshot, a whole report, recoverable rows, `ResearchJob` is implemented, whose ends are final; no bar of the window that came within the overlap is out of reach, a session on file as refreshed was asked for, or its securities are held back; what changed is alerted to its user, also around a failed job whose snapshot is on file; gates fail closed and agree with each other, a ready release is earned, no contradiction or uncorroborated claim of weight is in a report, results do not depend on unit, sign, wording or the order of filings |
| `queue_overrun` | 1 worker, 1 inline request, 1 job, 1 crash, 2 faults, failure limit 2, not timely, fair | what survives two executors of one row; every queued job is claimed, a restarted worker recovers, a job settles unless a crash or fault hits it |
| `queue_stranded` (viol.) | 1 worker, 1 crash | a worker that restarts early never requeues its lost job |
| `dispatch` | 2 callers, 2 owners (one busy), 1 event, 2 days, 1 crash, 1 fault, fair; scenes: events, requests around a midnight | one job per event and owner, nobody is suppressed by another, an owner who stays opted in is served; every job over a limit was let in by a slipped release, only jobs are charged |
| `feeds` | 3 daemons, 1 feed, 2 versions, crash, fault, registration; or 2 states, 2 callbacks, 1 instrument, 1 execution at a time, 1 fault, clock to 2; or up to 2 documents, 2 daemons, 2 analyses, 2 versions, 1 kill | unexpired leases exclude each other, validators are those of ingested versions; a state connects once, who left is streamed only what was asked for since, what is called live is; the chunks of a document are of one reading, a saved report of one version |
| `evidence_reused` (viol.) | 1 document, 1 analysis | an analysis fails when it saves evidence that is on file |
| `collection` | scenes: 2 or 3 companies, 2 workflows, 1 fault, an operator who reruns; 1 daemon, 3 feeds (one unlicensed), batch 1, crash, fault, fair | clean exits mean coverage, reruns collect everybody who can be; every version is ingested or superseded, no feed starves |
| `stream` | 2 workers, 2 users, limit 1, lease 3 ticks (the default), 1 restart, 2 faults, 2 toggles, fair | a lease that runs is one worker's, sockets of a fresh lease are covered; active users are streamed, others lose their sockets |
| `sockets_shared` (viol.) | 2 workers, 1 user, the default lease in ticks of 5 s, 1 fault, 1 toggle | two workers stream one user |
| `research_run` | 2 runs (plan of one collecting and one analysing agent, as for a governance filing), 2 providers, semaphore 2, 2 calls per job, threshold 2, fair | a completed report is the validated one, an outage costs a bounded number of requests, the circuit's two tables agree, every run ends |
| `preparation` | 2 jobs, 1 process, 2 documents, 1 fault, six stocks (four usual or unusual listings, one without external calls, one unsupported), fair | one fetch at a time and shared, true reports, agents that start on whole data, no lock left behind |
| `alerts_repeated` (viol.) | 2 executions of 1 user | two analyses that find the same raise an alert |

**Why the bounds are enough to be interesting.** Two workers and two jobs give every race of
claiming and recovery, one crash a stranded row, and a fault both variants of a lost commit at
any transaction. A third daemon is what it takes to see one lease cleared by a late finisher and
taken by another. Two versions make a stale validator possible. Two callbacks race for one state,
and a second state is stored over the first; a clock of two crosses every window once. Two runs
with a semaphore of two make one run wait for the agents another has abandoned, and a threshold of
two with two calls per job lets the circuit open with requests under way. `queue_overrun` has a
failure limit of two so that two faults end a process; the code's five differs only in how many
faults it takes. Two documents of three transactions leave every half-stored history, and a second
job of the same process meets the orphan of the first. Three companies over batches of two need
a second batch, and one of them can fail, be young, silent or a bank. Twelve moments with a
window of two days hold a weekend, a late bar, its overlap, a retry and a day that leaves the window. Three executions of two users are the fewest
with two overlapping ones after a common predecessor, or a stranger or a failed job between them.
With two workers and one error a socket can outlive its lease beside another, also when the lease is the default.
Two daemons with one document each, of which a revised version is the shorter one, give every overlap of
a delete and an insert, and a tail that would be left over; one kill leaves a document without a link.
Of events the context shows the latest one (100 in the code) and one page is enough for the cache, so
that one more of either is beyond; an output saves all of the evidence or, once before that, a part.
Symmetry is used only in runs without liveness, over workers (`records`) or daemons (`feeds`).
Deadlock checking is off where the model stops of itself: when every bound is used up and nothing is
due (`feeds`), or when all jobs, calls or cases are through (`records`, `collection`, `dispatch`, `preparation`,
and the violation runs `alerts_repeated`, `evidence_reused` and `sockets_shared`).

**Fairness.** Each weak fairness stands for a process that goes on: processes are restarted
(`restart: unless-stopped` in `deploy/docker-compose.production.yml`), daemons and workers poll
for ever, fetches and agents run under timeouts, and a row lock lasts one transaction. No fairness
is assumed of crashes, faults, the environment's choices or the answers' contents. `ClaimNext` is
weakly fair because a queued row that is skipped is locked for one transaction only. In `stream`
time itself is strongly fair: a worker sleeps between polls, so tasks that come and go in no time
do not stop the clock. `research_run` assumes one thing only, that the event loop does not rest
while something is ready, and nothing about the order. `dispatch` repeats an unsettled event: the
exchange lists it again and the failed feed run is due again. `preparation` lets a call that is
under way go on, its orphans included. In `collection` a job's own steps are weakly fair, and nothing of the other scene is enabled; that an
operator starts it again is no fairness but the hypothesis of `RerunsCollect` ("when the driver is
rerun from the top for ever").

**Disagreements found** (`findings` in `PROJECT.json`):

1. `workers/research_jobs.py:107`: recovery runs once, after a start or an outage. A worker that
   restarts within the staleness window of the job it lost requeues nothing, and never recovers
   again while its polls succeed; `core/config.py:155` says a stale job is requeued.
2. `research/monitoring.py:410`: claims are compared by `claim_id`, which every execution draws
   anew, so what was found again is both new and resolved, and each execution raises an alert;
   `PROJECT_INTENT.md:158` says "alert only on meaningful changes".
3. `repositories/research.py:333`: `_save_evidence` inserts a source for every reference whose id no
   chunk has, without `on conflict`; what the context refers to by a fresh id (events, facts, the price
   history, pages just stored) is on file under the same security, URI and date, and the unique index of
   migration 0003 fails the transaction and the analysis. `research/live_context.py:131` and
   `deploy/README.md:231` say that such data are reused. That nothing mixes versions
   (`ReportsAreOfOneVersion`) rests on the same failure: a chunk that was replaced under the analysis
   is missing when it is saved, and its source is there. The obvious repair, to pass over what is on file, needs a
   check of its own; it is the mutant of that property.
4. `market/upstox_stream.py:116`: the lease is renewed before the pause after an error and not again
   before the first heartbeat of the next socket; a pause of 16 seconds (the count of retries survives
   interruptions), a connection of up to half a minute and the interval outlast the default of 45 seconds. A task
   that learns it lost its lease (line 192) returns into a loop that opens the next socket without one.
   Line 32 says "one verified-TLS V3 market socket per leased, connected Upstox user".

Met while modelling, and visible in a property as its exception rather than in a run of its own:

* An inline request's row is inserted as queued, so a polling worker can execute it too
  (`research/service.py:114`): `ExecutedOnce` is stated, and proved, without inline requests.
* `reserve` and `release` name the rows of different days around midnight (`core/usage.py:146`):
  `OverrunsAreSlips` says that this is the one way over a limit.
* A snapshot on file whose job is marked as failed (`research/service.py:227`) is compared with by the next
  execution (`research/monitoring.py:273`) and not shown (`:181`). With A completed, B on file but failed
  and C after it, the alert of C is against B while the user is shown C against A; if C finds what B
  found, the step from A is in B's alert only. `StepsAreAlerted` says that every step between neighbours on
  file is in an alert, `ShownIsAlerted` that what is shown is, unless a failed job lies between.
* A unit that is reserved by a request that is cut off is never given back (`research/service.py:74`);
  `OnlyJobsAreCharged` speaks of the time before anything is cut off or fails.
* A bar that Yahoo brings later than the overlap of seven days is never asked for again
  (`scripts/backfill_yfinance_market_history.py:105`): `NothingIsOutOfReach` excepts those (`overdue`).
* A failed download is held back for 24 hours (`scripts/backfill_yfinance_market_history.py:546`) and
  the local node retries after one, three times a session after `scripts/run_local_node.py:14`. After an attempt
  in which all failed, the retry selects nobody, exits with 0 and the session is on file as refreshed:
  `SuccessIsTrue` excepts securities that are held back.
* A profit without a unit is compatible with finance costs in rupees and with a balance sheet in crores, and
  ROCE is published from all of them (`ingestion/derived_metrics.py:353`), in spite of line 91: "Calculations
  fail closed when periods or units cannot be reconciled." `PeriodsReconcile` speaks of profits with a unit.
* Beside ROCE, the metrics ROE, ROA and PE take the balance sheet or the shares of another day than the
  profit's (`PeriodsReconcile` names the metrics of one day; `ingestion/derived_metrics.py:386`, `:462`), in
  spite of the same sentence. The validator compares claims of one metric in known units
  only: of a unit it does not know a claim neither agrees with another nor contradicts it
  (`agents/validator_agent.py:207`), so `NoContradictionSurvives` says nothing of those.
* The evidence gates pass a file without `source_branch`, `required_service_count` or
  `paid_fallback_enabled`, and the promotion gate takes a text for a truth value, although their
  contracts say that missing evidence fails closed: `EvidenceFailsClosed` names the three keys.
* Bear and bull cases change places when the base is negative (`agents/valuation_agent.py:394`);
  `ScenariosOrdered` excepts it. "Non banking financial" contains "bank" and is routed as one
  (`valuation/router.py:31`), which `Family` says. Evidence coverage counts claims whose evidence
  does not exist (`agents/validator_agent.py:497`).

## 4. Proofs

### The queue
Every invariant a run checks is proved, and so are its action properties. A named assumption
on the constants stands in each module, as weak as its proofs allow, and TLC evaluates it in every
run; what a theorem needs beyond it is said with the theorem. Where a proof needs the least or greatest
of a set of numbers it is not by induction over data: the segments `0..x` are finite, and the
library proves that finite sets are well-founded under inclusion.

`ResearchQueueProofs` proves, for every number of workers, requests, jobs, outputs, crashes and faults:

| theorem | statement | assumes |
|---|---|---|
| `TypeCorrect` | `Spec => []TypeOK` | |
| `SingleExecution` | `Spec => []ExecutedOnce` | `Timely`, `Handlers = {}` |
| `SingleSnapshot` | `Spec => []SnapshotOnce` | the same |
| `Recoverable` | `Spec => []RunningIsRecoverable` | the same |
| `CompletedJobsAreWhole` | `Spec => []CompletedIsWhole` | |
| `EndIsFinal` | `Spec => TerminalStays`, which the runs check as part of `ImplementsLifecycle` | the same |
| `Refinement` | `Spec => ImplementsLifecycle` | the same |

`QueueAssumption` is the only assumption on the constants. The two further ones are needed:
a worker can claim the row of an inline request, and an execution that outlives the window
is requeued under its executor. `CompletedIsWhole` needs neither: it holds of shared and late executions too.

`TypeOK` is not inductive. That `cur[e]` is a job when an executor writes, that only workers reach
`loop` and `mark`, and that an outage's count stays below the limit depend on each other; `TInv`
adds them: `Control` ties `pc`, `cur` and the kind of executor together, `Unborn` says rows above
`created` are absent (so an insert overwrites nobody). A lemma per shape of step (`StepType`,
`TryType`, `WriteStep`, `OutageStep`, ...) carries the bulk of the actions, and
`ExecuteType` and `PollType` have one step per action.

`ExecutedOnce` is not inductive either: nothing in it keeps recovery from requeuing, or a claim
from taking, a row that is being executed. `XInv` adds what does. Every row has `RowInv` (queued
means no `started_at`; queued or running means not finished and no snapshot). Every busy executor
`Fits` its row: the row is fresh, so `Requeueable` is false of it; it is not queued, so no claim
takes it; and its status, report and snapshots are those of that place in the program. `Timely`
keeps `Age` away from it. With one executor per row, `Fits` of the writer says exactly which
writes are possible, which gives `SnapshotOnce`, `TerminalStays` and, through `Life` and
`OneLife` (what `ResearchJob` allows one executor to do to one job), the refinement: each write is a
step of `ResearchJob` or a stutter, recovery is its `Retry`.

`CompletedIsWhole` cannot use any of this, since executors may share a row. `WInv` says instead what
each of them has `Earned`: the outputs it counts are on file, whoever saved them, because rows only
gain (`Grows`); an executor that is about to show the job as completed finds it whole.

### Gateway and runs
| theorem | statement | rests on |
|---|---|---|
| `CircuitsAgree` | `RunSpec => []BlockedIffFailing` | the provider gateway |
| `ReportsValidated` | `RunSpec => []ReportIsValidated` | the runs |
| `OutagesAreCheap` | `RunSpec => []OutageIsCheap` | both |
| `RunTypeCorrect` | `RunSpec => []RunTypeOK` | both |

They hold for every set of providers and routes, every plan, finite sets of jobs and agents, and
every threshold, budget and semaphore that `GatewayAssumption` and `RunAssumption` allow; nothing
else is assumed. (`RunTypeOK` bounds what a job spends, and who holds the semaphore.)

* `GInv` says that each circuit's two entries agree, that budgets are respected and that a request
  names a provider. It is inductive with no word about runs: `Struck`, `Examined` and a success
  each keep an entry's agreement, and `TryKeeps` carries it through the loop over the choices.
* `VInv` says which agents may have a task in each stage, that a finished agent of the current
  stage has an output, and how far `seen` is behind `output`: what is validated is what is there
  as long as the validator or anything after it runs. Nobody gathers the
  agents a failed run leaves behind, so they write no output, and a failed stage needs no clause.
* `OutageIsCheap` needs both, and the semaphore. `OInv` adds that whoever waits for a provider
  holds the semaphore (`Seated`), so requests under way are a subset of `Holders` and at most
  `MaxConcurrency`. A provider that is asked is not cooling, hence `Examined` leaves at most
  `Threshold - 1` failures (an expired block resets them); a failure moves one request from those
  under way to the count, and every other step changes neither or lowers the sum. The cardinality
  facts are the library's (`FiniteSetTheorems`).

### Feeds
`IncomingProofs` proves three properties for any number of daemons, feeds, crashes and faults,
from `FeedAssumption`.

* `ValidatorsIngested == FeedSpec => []ValidatorIsIngested` is not inductive, since a 304 writes back
  the validator of a claim, and a completion a version the daemon fetched before. `IInv` says that
  those stand for stored content as well: the validator of every claim in some daemon's hands, and
  the version of a daemon that is about to complete. Versions are never removed, so no step of another
  daemon disturbs this.
* `LeasesExclude == FeedSpec => []UnexpiredIsExclusive`: a daemon that finishes late clears a lease
  which may be another's, so the lease of a row does not say that somebody works on it. `LInv` says
  what does: as long as a claim lasts, the row's lease or the wait until the row is due lasts too
  (`Guarded`). `Interval >= Lease` and `Retry >= Lease` are what makes the one replace the other.
  An operator who registers a feed makes it due at once and voids this, so the property, and `LInv`,
  speak of the time before.
* `FeedsHold == FeedSpec => []FeedInv` combines these with the types. What was missing is the queue:
  `DueInv` says that `due` holds each feed once, and only one whose `next_run_at` has passed, so a claim
  removes a feed that no other claim has; and that a daemon between two feeds has none in hand.

### Live streams
`CollectionProofs` proves `SocketsCovered == StreamSpec => []StreamInv` for any number of workers, users,
restarts, faults, changes and stalls, and any lengths of lease, pause, connection and heartbeat. `SInv` says of
each task that what is left of its user's lease and the time since it renewed it make up a whole term
(`Renewing`), hence nobody else takes it before; that one which has yet to acquire has nothing to rely on
(`Idle`); and, while no task has outstayed its bound, how much of the term one has spent that has stayed
with one socket (`Direct`): nothing when it checks, what it has waited when it connects, and at most a
connection more when it streams. With `Setup + Beat < Lease`, which the defaults satisfy, such a socket is within
its term. Of later sockets nothing of the kind holds (finding 4), and the theorem claims nothing.

### Live quotes
`IncomingProofs` also proves `QuotesHold == QuotesSpec => []QuotesAreTrue` for every number of states,
callbacks, instruments and executions, all windows and any clock, from `QuoteAssumption`.
`QuotesAreTrue` is not inductive in three places, and `QInv` adds what each lacks. `Exchanges`: the
attempt behind a stored connection is used, so no callback that is still to come can consume it
again, and callbacks in flight hold different states. `Subscriptions`: every row that is subscribed
was so since the user left (a disconnect clears both at once), hence whatever a socket reads at its
next check is in `resubscribed`. `Deliveries`: what is in a row or a buffer was received in the past
and traded before that (`Sent`), so that the age and the lag of what an execution shows add up to the
difference its label was computed from.

### Intake and dispatch
`DispatchProofs`, for any number of callers, owners, events, days, crashes and faults, from
`IntakeAssumption` (finitely many callers) and `OrderAssumption` (the query returns every subscriber):

* `QuotasHold == IntakeSpec => [](IntakeTypeOK /\ OverrunsAreSlips /\ OnlyJobsAreCharged)`, and
  `DispatchIsCharged`, the two properties under the dispatch. The inductive invariant is a balance,
  `Books`: what weighs on a counter, its jobs and the units under way (reserved, not yet inserted or
  released), is at most the counter and the slips of that owner and day, and equals the counter
  while nothing went wrong. A reservation adds one on both sides, an insert turns a unit into
  a job, a release takes one from both or is a slip.
* `DispatchIsIdempotent == DispatchSpec => []DispatchInv`, one job of an event for an owner, and
  `RunsReachEverybody == DispatchSpec => []NobodyIsSuppressed`. The invariant of a run says of each
  subscriber that is no longer left that it has its job, or is among those refused for their own
  quota, and what the answer of the call it waits for means. Jobs are never deleted, so no
  overlapping run disturbs it.

### Evidence
`CollectionProofs` also proves `DocumentsHold == CatalogSpec => []EvidenceIsWhole` and
`VersionsHold == CatalogSpec => []ReportsAreOfOneVersion` for any documents, any number of ingestors and
analyses and any faults, from `CatalogAssumption`. The chunks of a source are those of one
reading; what makes this inductive is what an ingestor has `doomed` before it stores its own: all
of the chunks at the URL, or chunks that are gone, so it replaces everything or clashes and stores nothing.
A lemma of its own says what no step does (`Grows`): ids are not given twice, the chunks at a URL
stay or go together, a source that is on file stays. From it follows that references keep their
meaning, and that an analysis which saves its output found each chunk it names still there.

### Preparation of a security
`PreparationProofs`, for any number of processes and calls, all securities, documents and faults, from
`PreparationAssumption`:

* `PreparationsHold == PrepSpec => []PrepInv`. The locks are easy. That a fetch is shared needs
  its progress: `Progress` says what is stored at each of the three transactions of a document, hence
  a call that has fetched leaves everything the exchange offers (`AllSourced`), and one that enters
  the lock later finds a hit unless that is less than `CacheBar` (`Shared`).
* `ReportsAreTrue == PrepSpec => []ReportIsTrue`. The report is read once, so what it read must last:
  stored rows only grow, the number of periods with them, and the newest one is not replaced by an
  older one (`CompleteStays`).
* `AgentsRunOnWholeData == PrepSpec => []AgentsSawWholeData`. The gate reads in three transactions. `GateInv`
  says what each fact in `seen` means, `WholeStays` that it lasts, and `ReadyCovers` that the contract
  of the sixteen agents asks for each. A verdict that is positive is then true of the state it is given in.

All three rest on the same lemma, `GrowsStep`: no step of any call takes a stored row away.

### Corpus, prices, alerts
`RecordsProofs`, for any number of jobs, securities, users and executions and all faults and kills:

* `CorpusIsCovered == CorpusSpec => []CoverageIsTrue`, from `CorpusAssumption`. Documents are stored from the
  newest on, each completely before the next, and a worker that stores a part has stored those before; the
  database only gains (`GainsCover`), so what a clean exit says stays true of it.
* `NoBarIsOutOfReach == RefreshSpec => []NothingIsOutOfReach`, from `RefreshAssumption`. Of the days the window
  still covers, a bar that came within the overlap and that the database lacks is no older than the overlap before the
  checkpoint, before every date that some importer has read, and before the one it is about to write
  (`PricesInv`): an importer that was overtaken writes an older date than the row has, which is as good. The
  window only moves on, so a day it covers now was covered when the date was read. Bars that come later
  (`overdue`) are left out of the invariant as of the property.
* `SessionsAreRefreshed == RefreshSpec => SuccessIsTrue`, an action property. `AttemptInv` has three parts:
  every security of an attempt is still to be asked for, was asked for, or is held back since; the cloud's
  import is over before its day is, because of its time limit; what the node's import has left
  behind is served, also when the cloud moved the checkpoint under it.
* `ChangesReachTheirUser == MonitorSpec => []ChangesAreAlerted`. `Watched` adds that a snapshot is dated
  when it is begun and when it is committed, no two the same, and that alerts are right while they are
  being written; the snapshot it was compared with is the newest on file before it was begun. From that the steps
  between neighbours on file are alerted, and what is shown follows where no failed job lies between.

### Gates, agents and metrics
`DecisionProofs`, for every case that is `WellFormed`, whatever `Cases` holds (`DecisionAssumption`):

| theorem | statement |
|---|---|
| `GatesStaySound` | `DecisionSpec => []GatesAreSound` |
| `ReportStaysSupported` | `DecisionSpec => []ReportIsSupported` |
| `ResultsStayStable` | `DecisionSpec => []ResultsAreStable` |

The induction over steps is easy: a case stays well-formed and is asked once, so a verdict
is that of the one action for what the case is about (`Asking...`). The work is in the rules, and each
conjunct of the three invariants has lemmas of its own.

* *Gates.* A file that is ready lacks only waivers and the keys the property names: each of the five gates is taken through
  its sections. A release that is ready has no first stage that fails, so none that fails at all
  (`NoFailedStage`, by `LeastOf`), and the stage of acceptance, with the minima its command has by
  default and the release gate leaves as they are, has counted five companies of four sectors.
* *Report.* What the validator lets through is followed claim by claim, each graded alone and then
  capped when it lost; of two claims that contradict each other one has lost or both are contested. What
  the agent computes and what the validator recomputes are quotients that are equal crosswise.
* *Scores and scenarios.* A unit of money cancels in every comparison of two products (`Tens` and its
  like hide them from the prover until an instance is needed). The order of the three scenarios is that of
  monotone integer division, method by method; a discounted sum is compared one year at a time.
* *Metrics.* A finite set of facts has one newest member (inclusion of finite sets is well-founded; no induction
  over data). A fact that is older than all others is loaded behind those of its name, so it changes
  `Latest` of a set only where it is the set's one member: a metric stays unless the old fact itself
  became a comparison, an earning or a number of shares, which is what the exceptions of
  `HistoryDoesNotRewrite` say.

The proofs corrected what the properties said, each time by a case that TLC's list had not held and that
the source allows: a bull case may lie below the base when the discount and the growth for ever are less than a point
apart, and negative growth for ever favours the bear (`Usual`; `agents/valuation_agent.py:263`); a
return on capital mixes units when its profit has none, because profit is compared with
interest first and with the balance sheet after it (`PeriodsReconcile`; `ingestion/derived_metrics.py:353`); an older
positive EPS brings a price-earnings ratio within reach, and an older number of shares ends the
book value of a bank (`HistoryDoesNotRewrite`; `ingestion/derived_metrics.py:462` and `:510`). These
exceptions are written into the properties, by name, and none is assumed away.

### What is only model-checked
Liveness under fairness, and with it `QueuedIsClaimed`, `RestartRecovers`, `JobSettles`, `Delivered`,
`VersionsArrive`, `ActiveIsStreamed`, `InactiveIsClosed`, `RunEnds`, `PreparationEnds` and
`RerunsCollect`: the prover does not reason about ENABLED. The disagreements of section 3 are
counterexamples and need no proof.

## 5. Not modelled

* Floating point and prose: technical indicators, texts of agents and of alerts, prompts. The
  runtime model treats an agent as a step that returns or raises; what its rules decide is in the
  modules of `Decisions`, on integers.
* Parsing, embedding, the resolver's scoring, HTTP and protobuf decoding: one atomic step, or left out.
* Ingestion of reference data and classifications, imports by an operator: idempotent
  upserts in one transaction each, whose order nothing depends on. The scripts of the universe, the
  mappings and the market context are one step of `CorpusBackfill`.
* Sessions and token checks, portfolio, comparison, calibration, exports, the values of a
  context, telemetry, routes that only read: single transactions or reads, and they keep no state that
  another component depends on.
* The rows of `official_ingestion_runs`, which no daemon reads, and the actual token usage in the
  gateway, which nothing tests.
* A second user of `LiveQuotes`, whose rows and connection have no part in the first one's; the
  leases of its socket are those of `UpstoxStream`.

## 6. Plan

Done, in this order: queue, its lifecycle and proofs; intake; dispatch; feeds; streams; gateway
and runtime; readiness and stock preparation; the rules of gates, agents and validator; corpus jobs;
daily refresh; monitoring; live quotes; evidence.

Proved since: all safety properties of the runs.

Next:

1. `LiveQuotes` and `UpstoxStream` composed, so that a lease that changes hands takes a socket's
   buffer with it.
2. Anonymous sessions (`principals.py`).
