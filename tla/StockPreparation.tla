--------------------------- MODULE StockPreparation ---------------------------
(***************************************************************************)
(* What a worker does for a job before its agents run: it prepares the     *)
(* data of the job's security (prepare_security_bundle) and asks the       *)
(* readiness contract.  Classification and financial history are fetched   *)
(* side by side; when one of them raises, gather raises at once and the    *)
(* other goes on as an orphan of its process, without the lock of the      *)
(* bundle.  Calls of several processes, and calls of one process, overlap. *)
(* All of them are about one security, `stock`.                            *)
(***************************************************************************)
EXTENDS DataReadiness

CONSTANTS Procs, Jobs, None,
          Docs,        \* results documents, 1 is the newest
          CacheBar,    \* MIN_CACHED_PERIODS, scaled down with Docs
          Stocks,      \* the securities and settings to choose from
          MaxFaults    \* errors of the database and other unforeseen ones

ASSUME PreparationAssumption ==
  /\ CacheBar \in Nat \ {0} /\ MaxFaults \in Nat
  /\ None \notin Jobs \cup Procs \cup BOOLEAN
  /\ IsFiniteSet(Docs) /\ Docs \subseteq Nat \ {0}
  /\ \A s \in Stocks : /\ s.offered \in Nat /\ 1..s.offered \subseteq Docs
                        /\ s.listed \in Int /\ s.newest \in Int

VARIABLES stock,              \* what does not change while the calls run
          stored, class, peers, clean, prepared,        \* the database
          home, main, cls, fin, done, seen,              \* the calls
          bundleLock, fetchLock, faults                 \* the processes

data == <<stored, class, peers, clean, prepared>>
locks == <<bundleLock, fetchLock>>
prepVars == <<stock, data, home, main, cls, fin, done, seen, locks, faults>>

PrepInit ==
  /\ stock \in Stocks
  /\ stored = [d \in Docs |-> 0]
  /\ class \in {"none", "old"}
  /\ peers = FALSE /\ clean = TRUE /\ prepared = None
  /\ home = [j \in Jobs |-> None]
  /\ main = [j \in Jobs |-> "queued"]
  /\ cls = [j \in Jobs |-> "none"] /\ fin = [j \in Jobs |-> "none"]
  /\ done = [j \in Jobs |-> 0]
  /\ seen = [j \in Jobs |-> {}]
  /\ bundleLock = [p \in Procs |-> None] /\ fetchLock = [p \in Procs |-> None]
  /\ faults = 0

-----------------------------------------------------------------------------
(* What the stored rows say.  A document is stored in three transactions:  *)
(* its event, its facts, its evidence.                                     *)
Age(d) == stock.newest + 91 * (d - 1)
Sourced == {d \in Docs : stored[d] >= 2}
Evident == {d \in Docs : stored[d] = 3}

History ==
  [listed  |-> stock.listed,
   periods |-> Cardinality(Sourced),
   types   |-> IF Sourced = {} THEN 0 ELSE 6,
   latest  |-> IF Sourced = {} THEN Unknown ELSE Age(CHOOSE d \in Sourced : \A e \in Sourced : d <= e)]

IsCacheHit == Cardinality(Sourced) >= CacheBar

Security ==
  [sector |-> class # "none", industry |-> class # "none", official |-> TRUE,
   taxonomy |-> IF class = "none" THEN "" ELSE "NSE_INDICES_4_TIER",
   sourceApproved |-> TRUE, checksumMatches |-> TRUE]

-----------------------------------------------------------------------------
Settled == {"cached", "skipped", "fetched", "stale", "failed"}
Usable == {"cached", "fetched"}

Step(j, from, to) == main[j] = from /\ main' = [main EXCEPT ![j] = to]
Unlock(l, j) == [p \in Procs |-> IF l[p] = j THEN None ELSE l[p]]

Take(j, p) ==
  /\ Step(j, "queued", "waiting")
  /\ home' = [home EXCEPT ![j] = p]
  /\ UNCHANGED <<stock, data, cls, fin, done, seen, locks, faults>>

(* The lock, then the security: one that is not supported ends the bundle. *)
Enter(j) ==
  /\ main[j] = "waiting" /\ bundleLock[home[j]] = None
  /\ IF stock.supported
     THEN /\ main' = [main EXCEPT ![j] = "gather"]
          /\ bundleLock' = [bundleLock EXCEPT ![home[j]] = j]
          /\ cls' = [cls EXCEPT ![j] = "start"] /\ fin' = [fin EXCEPT ![j] = "start"]
     ELSE main' = [main EXCEPT ![j] = "assess"] /\ UNCHANGED <<cls, fin, bundleLock>>
  /\ UNCHANGED <<stock, data, home, done, seen, fetchLock, faults>>

ClsTo(j, s) == cls' = [cls EXCEPT ![j] = s] /\ UNCHANGED <<fin, done, fetchLock>>

ClassificationStep(j) ==
  /\ \/ /\ cls[j] = "start"
        /\ ClsTo(j, IF class = "new" THEN "cached"
                    ELSE IF stock.external THEN "asking" ELSE "skipped")
        /\ UNCHANGED <<class, faults>>
     \/ /\ cls[j] = "asking"
        /\ \/ ClsTo(j, "fetched") /\ class' = "new" /\ UNCHANGED faults
           \/ ClsTo(j, "failed") /\ UNCHANGED <<class, faults>>
           \/ faults < MaxFaults /\ faults' = faults + 1 /\ ClsTo(j, "raised") /\ UNCHANGED class
  /\ UNCHANGED <<stock, stored, peers, clean, prepared, home, main, seen, bundleLock>>

FinTo(j, s) == fin' = [fin EXCEPT ![j] = s] /\ UNCHANGED cls

(* The step asks the coverage, then ensure_financial_history, which asks   *)
(* again without its lock.                                                 *)
Covered(j) ==
  /\ fin[j] = "start"
  /\ FinTo(j, IF FinancialRaises(History) THEN "raised"
              ELSE IF FinancialComplete(History) THEN "cached"
              ELSE IF stock.external THEN "asking" ELSE "skipped")
  /\ UNCHANGED <<stored, done, fetchLock, faults>>

Ask(j) ==
  /\ fin[j] = "asking"
  /\ FinTo(j, IF IsCacheHit THEN "hit" ELSE "entering")
  /\ UNCHANGED <<stored, done, fetchLock, faults>>

EnterFetchUnasked(j) ==                             \* mutant: what came meanwhile is not asked
  /\ fin[j] = "entering" /\ fetchLock[home[j]] = None
  /\ FinTo(j, "fetching")
  /\ fetchLock' = [fetchLock EXCEPT ![home[j]] = j]
  /\ UNCHANGED <<stored, done, faults>>

EnterFetch(j) ==
  /\ fin[j] = "entering" /\ fetchLock[home[j]] = None
  /\ IF IsCacheHit THEN FinTo(j, "hit") /\ UNCHANGED fetchLock
     ELSE IF stock.offered < RequiredPeriods(stock.listed) THEN FinTo(j, "failed") /\ UNCHANGED fetchLock
     ELSE FinTo(j, "fetching") /\ fetchLock' = [fetchLock EXCEPT ![home[j]] = j]
  /\ UNCHANGED <<stored, done, faults>>

(* The transactions of a fetch, three for each document from the newest    *)
(* on.  The upserts of what is already stored change nothing.              *)
Ingest(j) ==
  LET d == done[j] \div 3 + 1  part == (done[j] % 3) + 1 IN
  /\ fin[j] = "fetching"
  /\ stored' = [stored EXCEPT ![d] = IF @ < part THEN part ELSE @]
  /\ IF done[j] + 1 < 3 * stock.offered
     THEN done' = [done EXCEPT ![j] = @ + 1] /\ UNCHANGED <<fin, fetchLock>>
     ELSE /\ done' = [done EXCEPT ![j] = 0]
          /\ fin' = [fin EXCEPT ![j] = "new"] /\ fetchLock' = Unlock(fetchLock, j)
  /\ UNCHANGED <<cls, faults>>

(* A timeout, a refused session, a document that does not parse: the rest  *)
(* is not fetched.  Any other error leaves through the lock as well.       *)
Abort(j) ==
  /\ fin[j] = "fetching"
  /\ \/ FinTo(j, "failed") /\ UNCHANGED faults
     \/ FinTo(j, "raised") /\ faults < MaxFaults /\ faults' = faults + 1
  /\ fetchLock' = Unlock(fetchLock, j)
  /\ done' = [done EXCEPT ![j] = 0]
  /\ UNCHANGED stored

ReviewTrusting(j) ==                                \* mutant: a hit is a complete history
  /\ fin[j] \in {"hit", "new"}
  /\ FinTo(j, IF fin[j] = "new" THEN "fetched" ELSE "cached")
  /\ UNCHANGED <<stored, done, fetchLock, faults>>

Review(j) ==
  /\ fin[j] \in {"hit", "new"}
  /\ FinTo(j, IF FinancialRaises(History) THEN "raised"
              ELSE IF ~FinancialComplete(History) THEN "stale"
              ELSE IF fin[j] = "new" THEN "fetched" ELSE "cached")
  /\ UNCHANGED <<stored, done, fetchLock, faults>>

FinancialStep(j) ==
  /\ Covered(j) \/ Ask(j) \/ EnterFetch(j) \/ Ingest(j) \/ Abort(j) \/ Review(j)
  /\ UNCHANGED <<stock, class, peers, clean, prepared, home, main, seen, bundleLock>>

GatheredPatiently(j) ==                             \* mutant: an exception is no result
  /\ main[j] = "gather" /\ cls[j] \in Settled /\ fin[j] \in Settled
  /\ main' = [main EXCEPT ![j] = "peers"]
  /\ UNCHANGED <<stock, data, home, cls, fin, done, seen, locks, faults>>

(* gather: both results, or the first exception.                           *)
Gathered(j) ==
  /\ main[j] = "gather"
  /\ \/ cls[j] \in Settled /\ fin[j] \in Settled
        /\ main' = [main EXCEPT ![j] = "peers"] /\ UNCHANGED bundleLock
     \/ "raised" \in {cls[j], fin[j]}
        /\ main' = [main EXCEPT ![j] = "raised"] /\ bundleLock' = Unlock(bundleLock, j)
  /\ UNCHANGED <<stock, data, home, cls, fin, done, seen, fetchLock, faults>>

PeerStep(j) ==
  /\ Step(j, "peers", "market")
  /\ \/ peers' = (peers \/ (Sourced # {} /\ stock.derivable))
     \/ UNCHANGED peers                             \* timed out, or could not be derived
  /\ UNCHANGED <<stock, stored, class, clean, prepared, home, cls, fin, done, seen, locks, faults>>

(* The last step only reads; the bundle is done.                           *)
MarketStep(j) ==
  /\ Step(j, "market", "assess")
  /\ bundleLock' = Unlock(bundleLock, j)
  /\ UNCHANGED <<stock, data, home, cls, fin, done, seen, fetchLock, faults>>

(* The database fails a step between gather and the end of the gate.       *)
Fault(j) ==
  /\ main[j] \in {"peers", "market", "assess", "corpus", "rows", "ready", "unready"}
  /\ faults < MaxFaults /\ faults' = faults + 1
  /\ main' = [main EXCEPT ![j] = "raised"]
  /\ bundleLock' = Unlock(bundleLock, j)
  /\ UNCHANGED <<stock, data, home, cls, fin, done, seen, fetchLock>>

-----------------------------------------------------------------------------
(* The gate reads the corpus, then the rows of the security, then its      *)
(* histories, each in a transaction of its own; `seen` keeps what is read. *)
ReadCorpus(j) ==
  /\ main[j] = "assess"
  /\ main' = [main EXCEPT ![j] = IF ~stock.production THEN "agents"
                                 ELSE IF ~stock.supported THEN "raised" ELSE "corpus"]
  /\ seen' = [seen EXCEPT ![j] = IF clean THEN {"clean"} ELSE {}]
  /\ UNCHANGED <<stock, data, home, cls, fin, done, locks, faults>>

ReadRowsByFacts(j) ==                               \* mutant: facts pass for a filing
  /\ Step(j, "corpus", "rows")
  /\ seen' = [seen EXCEPT ![j] = @
       \cup {r \in {"mapped"} : stock.mapped}
       \cup {r \in {"classified"} : Classified(Security, stock.policy)}
       \cup {r \in {"filing"} : \E d \in Sourced : Age(d) <= 400}
       \cup {r \in {"earnings"} : \E d \in Sourced : Age(d) <= 220}]
  /\ UNCHANGED <<stock, data, home, cls, fin, done, locks, faults>>

ReadRows(j) ==
  /\ Step(j, "corpus", "rows")
  /\ seen' = [seen EXCEPT ![j] = @
       \cup {r \in {"mapped"} : stock.mapped}
       \cup {r \in {"classified"} : Classified(Security, stock.policy)}
       \cup {r \in {"filing"} : \E d \in Evident : Age(d) <= 400}
       \cup {r \in {"earnings"} : \E d \in Evident : Age(d) <= 220}]
  /\ UNCHANGED <<stock, data, home, cls, fin, done, locks, faults>>

Coverage(j) ==
  LET now == seen[j] \cup {r \in {"financial"} : FinancialComplete(History)}
                     \cup {r \in {"technical"} : stock.bar <= 7} \cup {r \in {"peer"} : peers}
  IN [total |-> 1, covered |-> [r \in Universal |-> IF r \in now THEN 1 ELSE 0],
      benchmarks |-> TRUE, macro |-> TRUE, bar |-> stock.bar]

Corpus(j) ==
  [nonproduction |-> IF "clean" \in seen[j] THEN 0 ELSE 1, unapproved |-> 0,
   rows |-> [t \in Tables |-> 1], sourced |-> [t \in Tables |-> 1],
   latest |-> [t \in Tables |-> 1], sources |-> 1, chunks |-> 1]

Settings == [external |-> stock.external, tavily |-> TRUE]

ReadHistories(j) ==
  /\ main[j] = "rows"
  /\ \E a \in {Coverage(j)}, k \in {Corpus(j)} :
       main' = [main EXCEPT ![j] = IF FinancialRaises(History) THEN "raised"
                                   ELSE IF SecurityReady(a, k, Settings) THEN "ready" ELSE "unready"]
  /\ seen' = [seen EXCEPT ![j] = {}]
  /\ UNCHANGED <<stock, data, home, cls, fin, done, locks, faults>>

(* One transaction writes the rows of all agents over whatever is there.   *)
Persist(j) ==
  /\ main[j] \in {"ready", "unready"}
  /\ prepared' = (main[j] = "ready")
  /\ main' = [main EXCEPT ![j] = IF main[j] = "ready" THEN "agents" ELSE "not_ready"]
  /\ UNCHANGED <<stock, stored, class, peers, clean, home, cls, fin, done, seen, locks, faults>>

(* Some other ingestion brings in a source that looks synthetic.           *)
Taint ==
  /\ clean /\ clean' = FALSE
  /\ UNCHANGED <<stock, stored, class, peers, prepared, home, main, cls, fin, done, seen, locks, faults>>

CallStep(j) ==
  \/ Enter(j) \/ ClassificationStep(j) \/ FinancialStep(j) \/ Gathered(j)
  \/ PeerStep(j) \/ MarketStep(j) \/ ReadCorpus(j) \/ ReadRows(j) \/ ReadHistories(j) \/ Persist(j)

PrepNext ==
  \/ \E j \in Jobs, p \in Procs : Take(j, p)
  \/ \E j \in Jobs : CallStep(j) \/ Fault(j)
  \/ Taint

PrepSpec == PrepInit /\ [][PrepNext]_prepVars
FairPrepSpec == PrepSpec /\ \A j \in Jobs : WF_prepVars(CallStep(j))
-----------------------------------------------------------------------------
Over == {"agents", "not_ready", "raised"}

(* The shapes of the variables, and that a lock names a call that is in    *)
(* the part it protects.                                                   *)
PrepTypeOK ==
  /\ stored \in [Docs -> 0..3] /\ class \in {"none", "old", "new"}
  /\ peers \in BOOLEAN /\ clean \in BOOLEAN /\ prepared \in BOOLEAN \cup {None}
  /\ home \in [Jobs -> Procs \cup {None}]
  /\ main \in [Jobs -> {"queued", "waiting", "gather", "peers", "market", "assess", "corpus",
                         "rows", "ready", "unready"} \cup Over]
  /\ cls \in [Jobs -> {"none", "start", "asking", "raised"} \cup Settled]
  /\ fin \in [Jobs -> {"none", "start", "asking", "entering", "fetching", "hit", "new", "raised"}
                       \cup Settled]
  /\ done \in [Jobs -> Nat] /\ faults \in 0..MaxFaults
  /\ bundleLock \in [Procs -> Jobs \cup {None}] /\ fetchLock \in [Procs -> Jobs \cup {None}]
  /\ \A p \in Procs, j \in Jobs :
       bundleLock[p] = j => home[j] = p /\ main[j] \in {"gather", "peers", "market"}

(* In one process at most one financial history is being fetched, whatever *)
(* calls have raised and left an orphan behind: the lock of                *)
(* ensure_financial_history holds where the lock of the bundle does not.   *)
FetchIsExclusive ==
  \A p \in Procs : {j \in Jobs : home[j] = p /\ fin[j] = "fetching"} =
                     {j \in Jobs : fetchLock[p] = j}

(* Calls of one process share a fetch: of two, at most one has fetched the *)
(* history, unless the exchange exposes fewer periods than count as cached. *)
SharedFetch ==
  \A j, k \in Jobs : j # k /\ home[j] = home[k] /\ fin[j] = "fetched" /\ fin[k] = "fetched"
                       => stock.offered < CacheBar

(* Both, with the types: a lock of a bundle is that of a call at its steps.  *)
PrepInv == PrepTypeOK /\ FetchIsExclusive /\ SharedFetch

(* What the bundle reports of the financial history is what is stored: it  *)
(* calls usable only a history that meets the policy, a structural hit of  *)
(* ensure_financial_history notwithstanding.                               *)
ReportIsTrue == \A j \in Jobs : fin[j] \in Usable => FinancialComplete(History)

(* In production agents run, and a security is marked ready, only on a     *)
(* security whose latest results are there with their filing, and whose    *)
(* metrics, classification and prices are there, although the gate reads   *)
(* them one by one while other calls still write.                          *)
AgentsSawWholeData ==
  stock.production /\ ((\E j \in Jobs : main[j] = "agents") \/ prepared = TRUE) =>
    /\ \E d \in Evident : Age(d) <= 220
    /\ \E d \in Sourced : Age(d) \in 0..200
    /\ Cardinality(Sourced) >= RequiredPeriods(stock.listed)
    /\ peers /\ class # "none" /\ stock.bar <= 7 /\ stock.mapped

(* Every call that was taken ends: no exception, orphan or lost race       *)
(* leaves a lock behind for the calls that wait.                           *)
PreparationEnds == \A j \in Jobs : main[j] = "waiting" ~> main[j] \in Over
=============================================================================
