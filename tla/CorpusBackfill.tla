---------------------------- MODULE CorpusBackfill ----------------------------
(***************************************************************************)
(* The jobs that fill the research corpus.  A job is a list of stages; a   *)
(* stage that pages over the universe is a driver process that starts one  *)
(* worker process per batch, in symbol order behind a cursor, stops at the *)
(* first batch in which a security failed, and afterwards measures the     *)
(* coverage of the whole universe.  Jobs of different concurrency groups   *)
(* run at the same time on one database; a job can be killed anywhere and  *)
(* is started again by an operator.  Securities are numbered in the order  *)
(* of their symbols, documents from the newest.                            *)
(***************************************************************************)
EXTENDS Integers, Sequences, FiniteSets, SequencesExt

CONSTANTS Jobs,            \* the workflows, one for each concurrency group
          MinCoverage,     \* of a job: --min-coverage-pct of its metric driver
          MaturePeriods,   \* 8, scaled down
          BatchSize, MaxBatches,
          MinMetrics,      \* MIN_COMPARABLE_METRICS
          Worlds,          \* the companies there may be, and the stages and start
                           \* cursors each workflow can be given
          MaxWorkerFaults  \* transient errors and killed jobs

ASSUME CorpusAssumption ==
  /\ MaturePeriods \in Nat \ {0} /\ BatchSize \in Nat \ {0} /\ MaxBatches \in Nat \ {0}
  /\ MinMetrics \in Nat \ {0} /\ MaxWorkerFaults \in Nat
  /\ \A w \in Worlds : \A s \in DOMAIN w.companies : LET c == w.companies[s] IN
       /\ c.exposes \in Nat /\ c.required \in 0..MaturePeriods
       /\ c.newest \in Int /\ c.lag \in Int

VARIABLES world,                            \* does not change
          mapped, bars, stored, metrics,    \* the database
          job, workerFaults

database == <<mapped, bars, stored, metrics>>
corpusVars == <<world, database, job, workerFaults>>

company == world.companies
Universe == DOMAIN company
Idle == [pc |-> "off", stages |-> <<>>, from |-> 0, cursor |-> 0, batches |-> 0, todo |-> <<>>,
         last |-> 0, short |-> FALSE, step |-> 0, rows |-> <<>>, bad |-> FALSE,
         done |-> FALSE, code |-> "none"]

CorpusInit ==
  /\ world \in Worlds
  /\ mapped = {}
  /\ bars = [s \in Universe |-> company[s].bars]
  /\ stored = [s \in Universe |-> [d \in 1..company[s].exposes |-> 0]]
  /\ metrics = [s \in Universe |-> {}]
  /\ job = [j \in Jobs |-> Idle]
  /\ workerFaults = 0

-----------------------------------------------------------------------------
(* What the rows say.  A document is stored in three transactions: its     *)
(* event, its facts, its evidence.                                         *)
Age(s, d) == company[s].newest + 91 * (d - 1)              \* of the period's end
Published(s, d) == Age(s, d) - company[s].lag
Sourced(s) == {d \in DOMAIN stored[s] : stored[s][d] >= 2}
Evident(s) == {d \in DOMAIN stored[s] : stored[s][d] = 3}

FilingReady(s) == \E d \in Evident(s) : Published(s, d) <= 400
EarningsReady(s) == \E d \in Evident(s) : Published(s, d) <= 220

(* The worker's own selection, which asks every security for the periods   *)
(* of a mature one.                                                        *)
IsFinancialTarget(s) ==
  \/ Cardinality(Sourced(s)) < MaturePeriods
  \/ ~FilingReady(s)
  \/ ~EarningsReady(s)

(* The postflight, which asks for the periods the listing age allows.      *)
HistoryComplete(s) ==
  /\ Cardinality(Sourced(s)) >= company[s].required
  /\ \E d \in Sourced(s) : Age(s, d) <= 200

FinancialCovered(s) == HistoryComplete(s) /\ FilingReady(s) /\ EarningsReady(s)

BarsCovered(s) == bars[s] # "none"

Counted(s) == {m[1] : m \in {r \in metrics[s] : r[2]}}     \* with approved inputs only
MetricsCovered(s) == Cardinality(Counted(s)) >= MinMetrics

-----------------------------------------------------------------------------
(* The targets of a worker: the stage decides which securities, the cursor *)
(* where to go on, the limit how many.                                     *)
Wanted(stage) ==
  CASE stage = "market_history" -> mapped
    [] stage = "financials"     -> {s \in Universe : IsFinancialTarget(s)}
    [] stage = "peer_metrics"   -> {s \in Universe : ~MetricsCovered(s)}

InOrder(S) == SetToSortSeq(S, <)

TargetsAll(stage, cursor) ==                           \* mutant: --refresh-all
  LET found == InOrder({s \in Universe : s > cursor})
  IN SubSeq(found, 1, IF Len(found) < BatchSize THEN Len(found) ELSE BatchSize)

Targets(stage, cursor) ==
  LET found == InOrder({s \in Wanted(stage) : s > cursor})
  IN SubSeq(found, 1, IF Len(found) < BatchSize THEN Len(found) ELSE BatchSize)

Drivers == {"market_history", "financials", "peer_metrics"}
Stage(j) == Head(job[j].stages)
At(j, pc) == job[j].pc = pc
In(j, stage) == At(j, "target") /\ job[j].todo # <<>> /\ Stage(j) = stage
Target(j) == Head(job[j].todo)

Set(j, r) == job' = [job EXCEPT ![j] = r]
Enter(j, stages, from) ==
  Set(j, [Idle EXCEPT !.pc = "stage", !.stages = stages, !.from = from])
FailWorkflow(j) == Set(j, [Idle EXCEPT !.code = "failed"])
Succeed(j) == Set(j, [Idle EXCEPT !.stages = job[j].stages, !.code = "ok"])

NextStage(j) ==
  IF Len(job[j].stages) = 1 THEN Succeed(j) ELSE Enter(j, Tail(job[j].stages), 0)

WorkerFault == workerFaults < MaxWorkerFaults /\ workerFaults' = workerFaults + 1

-----------------------------------------------------------------------------
StartWorkflow(j) ==
  /\ At(j, "off")
  /\ \E w \in world.workflows[j] :
       Enter(j, w.stages, w.from)
  /\ UNCHANGED <<world, database, workerFaults>>

(* The universe, the mappings and the market context are scripts of their  *)
(* own; all the corpus needs of them is that the mappings, at a required   *)
(* coverage of 100 per cent, leave no security without an instrument.      *)
PrepareMarket(j) ==
  /\ At(j, "stage") /\ Stage(j) \in {"universe", "mappings", "market_context"}
  /\ \/ FailWorkflow(j) /\ UNCHANGED mapped
     \/ NextStage(j) /\ mapped' = IF Stage(j) = "mappings" THEN Universe ELSE mapped
  /\ UNCHANGED <<world, bars, stored, metrics, workerFaults>>

StartDriver(j) ==
  /\ At(j, "stage") /\ Stage(j) \in Drivers
  /\ Set(j, [job[j] EXCEPT !.pc = "batch", !.cursor = job[j].from, !.batches = 0])
  /\ UNCHANGED <<world, database, workerFaults>>

(* A driver that has used its batches gives up: the one of the market      *)
(* history at once, the others after their postflight.                     *)
SelectBatch(j) ==
  /\ At(j, "batch")
  /\ IF job[j].batches = MaxBatches
     THEN IF Stage(j) = "market_history" THEN FailWorkflow(j)
          ELSE Set(j, [job[j] EXCEPT !.pc = "post", !.done = FALSE])
     ELSE LET found == Targets(Stage(j), job[j].cursor)
          IN IF found = <<>> THEN Set(j, [job[j] EXCEPT !.pc = "post", !.done = TRUE])
             ELSE Set(j, [job[j] EXCEPT !.pc = "target", !.todo = found, !.bad = FALSE,
                                        !.step = 0, !.batches = @ + 1,
                                        !.last = found[Len(found)],
                                        !.short = Len(found) < BatchSize])
  /\ UNCHANGED <<world, database, workerFaults>>

Processed(j, bad) ==
  [job[j] EXCEPT !.todo = Tail(@), !.step = 0, !.rows = <<>>, !.bad = @ \/ bad]

(* The worker exits with 1 when one of its securities failed, and the      *)
(* driver with it.  The history driver takes a short page for the last.    *)
EndBatch(j) ==
  /\ At(j, "target") /\ job[j].todo = <<>>
  /\ IF job[j].bad THEN FailWorkflow(j)
     ELSE Set(j, [job[j] EXCEPT !.cursor = job[j].last,
                                !.done = TRUE,
                                !.pc = IF Stage(j) = "market_history" /\ job[j].short
                                       THEN "post" ELSE "batch"])
  /\ UNCHANGED <<world, database, workerFaults>>

PassesBehind(j) ==                                     \* mutant: only what the run went over
  CASE Stage(j) = "market_history" -> \A s \in Universe : BarsCovered(s)
    [] Stage(j) = "financials"     -> \A s \in Universe : s > job[j].from => FinancialCovered(s)
    [] Stage(j) = "peer_metrics"   -> TRUE

Passes(j) ==
  CASE Stage(j) = "market_history" -> \A s \in Universe : BarsCovered(s)
    [] Stage(j) = "financials"     -> job[j].done /\ \A s \in Universe : FinancialCovered(s)
    [] Stage(j) = "peer_metrics"   ->
         100 * Cardinality({s \in Universe : MetricsCovered(s)})
           >= MinCoverage[j] * Cardinality(Universe)

Postflight(j) ==
  /\ At(j, "post")
  /\ IF Passes(j) THEN NextStage(j) ELSE FailWorkflow(j)
  /\ UNCHANGED <<world, database, workerFaults>>

GatePasses == \A s \in Universe : BarsCovered(s) /\ FinancialCovered(s) /\ MetricsCovered(s)
ReadinessGate(j) ==
  /\ At(j, "stage") /\ Stage(j) = "readiness"
  /\ IF GatePasses THEN NextStage(j) ELSE FailWorkflow(j)
  /\ UNCHANGED <<world, database, workerFaults>>

-----------------------------------------------------------------------------
(* One security of a market-history batch.  No candles is no failure.      *)
FetchCandles(j) ==
  /\ In(j, "market_history")
  /\ LET s == Target(j)
     IN \/ /\ Set(j, Processed(j, FALSE))
           /\ bars' = IF company[s].candles THEN [bars EXCEPT ![s] = "upstox"] ELSE bars
           /\ UNCHANGED workerFaults
        \/ WorkerFault /\ Set(j, Processed(j, TRUE)) /\ UNCHANGED bars
  /\ UNCHANGED <<world, mapped, stored, metrics>>

(* The daily job of the other concurrency group: its closes are newer than *)
(* the approved ones, and not approved for production.                     *)
DailyBars(s) ==
  /\ bars[s] = "upstox" /\ bars' = [bars EXCEPT ![s] = "yahoo"]
  /\ UNCHANGED <<world, mapped, stored, metrics, job, workerFaults>>

(* One security of a financial batch: the list of its results, which must  *)
(* hold the periods its listing age asks for, and then its documents.      *)
ListResults(j) ==
  /\ In(j, "financials") /\ job[j].step = 0
  /\ LET c == company[Target(j)]
     IN \/ /\ UNCHANGED workerFaults
           /\ IF c.exposes = 0 \/ c.exposes < c.required THEN Set(j, Processed(j, TRUE))
              ELSE Set(j, [job[j] EXCEPT !.step = 1])
        \/ WorkerFault /\ Set(j, Processed(j, TRUE))
  /\ UNCHANGED <<world, database>>

Document(s, step) == 1 + (step - 1) \div 3
Part(step) == 1 + ((step - 1) % 3)                      \* its event, its facts, its evidence

Upsert(level, part) == IF level < part THEN part ELSE level

(* A document that cannot be fetched or parsed ends its security, and one  *)
(* whose evidence is refused does too; what was committed stays.           *)
StoreDocument(j) ==
  /\ In(j, "financials") /\ job[j].step > 0
  /\ LET s == Target(j)  step == job[j].step
         d == Document(s, step)  part == Part(step)
     IN \/ /\ ~(part = 1 /\ company[s].broken = d)
           /\ stored' = [stored EXCEPT ![s][d] = Upsert(@, part)]
           /\ Set(j, IF step = 3 * company[s].exposes THEN Processed(j, FALSE)
                     ELSE [job[j] EXCEPT !.step = @ + 1])
           /\ UNCHANGED workerFaults
        \/ /\ part = 1 /\ company[s].broken = d
           /\ Set(j, Processed(j, TRUE)) /\ UNCHANGED <<stored, workerFaults>>
        \/ part # 2 /\ WorkerFault /\ Set(j, Processed(j, TRUE)) /\ UNCHANGED stored
  /\ UNCHANGED <<world, mapped, bars, metrics>>

(* One security of a metric batch: what its facts and its newest close     *)
(* give, each metric approved if and only if all its own inputs are, and   *)
(* stored in a transaction of its own.                                     *)
Derivable(s) ==
  (IF Cardinality(Sourced(s)) >= 2 THEN {"revenue_growth"} ELSE {})
  \cup (IF Sourced(s) # {} /\ company[s].kind # "bank" THEN {"ebitda_margin", "roce"} ELSE {})
  \cup (IF Sourced(s) # {} /\ bars[s] # "none" THEN {"pb", "pe"} ELSE {})

Partition(s) ==
  [m \in Derivable(s) |-> m \in {"pb", "pe"} => bars[s] = "upstox"]

ByName == <<"ebitda_margin", "pb", "pe", "revenue_growth", "roce">>
FirstName(names) ==
  CHOOSE m \in names :
    \E i \in DOMAIN ByName : ByName[i] = m /\ \A k \in 1..(i - 1) : ByName[k] \notin names

Derive(j) ==
  /\ In(j, "peer_metrics") /\ job[j].step = 0
  /\ LET s == Target(j)
     IN IF Cardinality(Derivable(s)) < MinMetrics THEN Set(j, Processed(j, TRUE))
        ELSE Set(j, [job[j] EXCEPT !.step = 1, !.rows = Partition(s)])
  /\ UNCHANGED <<world, database, workerFaults>>

StoreMetric(j) ==
  /\ In(j, "peer_metrics") /\ job[j].step > 0
  /\ LET s == Target(j)  rows == job[j].rows
         m == FirstName(DOMAIN rows)
     IN /\ metrics' = [metrics EXCEPT ![s] = @ \cup {<<m, rows[m]>>}]
        /\ Set(j, IF DOMAIN rows = {m} THEN Processed(j, FALSE)
                  ELSE [job[j] EXCEPT !.rows = Restrict(rows, DOMAIN rows \ {m})])
  /\ UNCHANGED <<world, mapped, bars, stored, workerFaults>>

(* The runner's time limit, an error of the database: no exit of its own.  *)
Kill(j) ==
  /\ ~At(j, "off") /\ WorkerFault
  /\ FailWorkflow(j)
  /\ UNCHANGED <<world, database>>

-----------------------------------------------------------------------------
JobStep(j) ==
  \/ PrepareMarket(j) \/ StartDriver(j) \/ SelectBatch(j) \/ EndBatch(j)
  \/ Postflight(j) \/ ReadinessGate(j)
  \/ FetchCandles(j) \/ ListResults(j) \/ StoreDocument(j)
  \/ Derive(j) \/ StoreMetric(j)

CorpusNext ==
  \/ \E j \in Jobs : StartWorkflow(j) \/ JobStep(j) \/ Kill(j)
  \/ \E s \in Universe : DailyBars(s)

CorpusFairness == \A j \in Jobs : WF_corpusVars(JobStep(j))
CorpusSpec == CorpusInit /\ [][CorpusNext]_corpusVars /\ CorpusFairness

-----------------------------------------------------------------------------
(* The selection of the financial worker and the postflight of its driver  *)
(* are written apart, one for mature securities and one by listing age.    *)
(* What the selection leaves aside the postflight accepts, unless the      *)
(* newest period stored is older than 200 days: that security is not       *)
(* collected again, and the driver cannot pass, until its earnings         *)
(* evidence is older than 220 days.                                        *)
SelectionLeavesOnlyStale ==
  \A s \in Universe :
    ~IsFinancialTarget(s) /\ ~FinancialCovered(s) => \A d \in Sourced(s) : Age(s, d) > 200

(* Documents come newest first, so a killed or failed worker leaves a      *)
(* document half stored behind the ones that count: when the security is   *)
(* no longer selected and nobody works on it, a half-stored document is    *)
(* not among its newest, those before the eighth.                          *)
CrashTearsOnlyOldDocuments ==
  \A s \in Universe : \A d \in DOMAIN stored[s] :
    /\ ~IsFinancialTarget(s)
    /\ stored[s][d] \in {1, 2}
    /\ \A j \in Jobs : ~(In(j, "financials") /\ Target(j) = s)
    => d >= MaturePeriods

(* A corpus job that exits cleanly leaves a complete corpus, whatever      *)
(* stage it was resumed at and whatever another job did meanwhile.         *)
CleanExitMeansCorpus ==
  \A j \in Jobs : job[j].code = "ok" /\ job[j].stages = <<"readiness">>
    => \A s \in Universe : BarsCovered(s) /\ FinancialCovered(s) /\ MetricsCovered(s)

(* A driver exits cleanly from the financial stage only when nobody lacks  *)
(* evidence, also when it was started behind a cursor.                     *)
CleanExitMeansFinancials ==
  \A j \in Jobs : job[j].code = "ok" /\ job[j].stages = <<"financials">>
                    => \A s \in Universe : FinancialCovered(s)

(* An unapproved close does not spoil the metrics it has no part in: a     *)
(* security whose facts give enough metrics is counted.                    *)
FactsAloneAreCounted ==
  \A s \in Universe :
    Cardinality({m[1] : m \in metrics[s]} \ {"pb", "pe"}) >= MinMetrics => MetricsCovered(s)

(* What the jobs say of the coverage is true, and what they leave aside is *)
(* covered and, where it counts, whole.                                    *)
CoverageIsTrue ==
  /\ SelectionLeavesOnlyStale /\ CrashTearsOnlyOldDocuments
  /\ CleanExitMeansCorpus /\ CleanExitMeansFinancials /\ FactsAloneAreCounted

-----------------------------------------------------------------------------
(* Securities no run collects, and those that are selected for ever: a     *)
(* recent listing never has the periods of a mature one, and who does not  *)
(* file any more has no recent earnings.                                   *)
Failing(s) ==
  LET c == company[s]
  IN c.exposes < c.required \/ c.exposes = 0 \/ c.broken \in 1..c.exposes
Perpetual(s) ==
  ~Failing(s) /\ (company[s].exposes < MaturePeriods \/ Published(s, 1) > 220)

Passable ==
  LET failing == Cardinality({s \in Universe : Failing(s)})
      perpetual == Cardinality({s \in Universe : Perpetual(s)})
  IN IF failing > 0 THEN failing + perpetual < BatchSize
     ELSE perpetual < BatchSize * MaxBatches

FromTheTop(j) ==
  At(j, "batch") /\ Stage(j) = "financials" /\ job[j].from = 0 /\ job[j].batches = 0

(* When the financial driver is rerun from the top for ever, every         *)
(* security that can be collected and goes on filing is, as long as those  *)
(* that fail and those that are always selected do not fill a batch.       *)
Collected(s) ==
  s \in Universe /\ ~Failing(s) /\ company[s].newest <= 200 => FinancialCovered(s)

RerunsCollect ==
  (\E j \in Jobs : []<>FromTheTop(j))
    => \A s \in UNION {DOMAIN w.companies : w \in Worlds} : <>[](Passable => Collected(s))
=============================================================================
