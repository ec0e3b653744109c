--------------------------- MODULE PreparationProofs ---------------------------
(***************************************************************************)
(* The preparation of a security, for every number of processes and calls, *)
(* all securities, documents and faults: locks exclude, a fetch is shared, *)
(* reports are true, and agents run on whole data.                         *)
(***************************************************************************)
EXTENDS StockPreparation, FiniteSetTheorems, WellFoundedInduction, TLAPS

-----------------------------------------------------------------------------
(* What is stored only grows, and a history that was complete stays so.    *)

StoredIs == stock \in Stocks /\ stored \in [Docs -> 0..3]

\* No document loses a part, no classification or metric its row.
Grows ==
  /\ stock' = stock
  /\ \A d \in Docs : stored[d] <= stored'[d]
  /\ (class # "none" => class' # "none")
  /\ (peers => peers')

LEMMA StockIs ==
  ASSUME stock \in Stocks
  PROVE  /\ stock.offered \in Nat /\ 1..stock.offered \subseteq Docs
         /\ stock.listed \in Int /\ stock.newest \in Int
BY PreparationAssumption

LEMMA PeriodsAre ==
  ASSUME NEW n \in Int
  PROVE  RequiredPeriods(n) \in Nat /\ RequiredPeriods(n) >= 1
<1>1. \A a \in Int : Clamp(1, 8, a) \in Nat /\ Clamp(1, 8, a) >= 1
  BY DEF Clamp
<1>2. Clamp(0, Unknown, n - 60) \in Int
  BY DEF Clamp, Unknown
<1>3. Clamp(0, Unknown, n - 60) \div 91 + 1 \in Int
  BY <1>2
<1> QED
  BY <1>1, <1>3 DEF RequiredPeriods

LEMMA SourcesAre ==
  ASSUME StoredIs
  PROVE  /\ Sourced \subseteq Docs /\ IsFiniteSet(Sourced)
         /\ Evident \subseteq Sourced
         /\ Cardinality(Sourced) \in Nat
<1>1. Sourced \subseteq Docs /\ Evident \subseteq Sourced
  BY DEF Sourced, Evident, StoredIs
<1>2. IsFiniteSet(Sourced)
  BY <1>1, FS_Subset, PreparationAssumption
<1> QED
  BY <1>1, <1>2, FS_CardinalityType

\* Of documents there is a newest one: initial segments are finite, and finite
\* sets are well-founded under inclusion.
LEMMA NewestOf ==
  ASSUME NEW T, T \subseteq Nat, T # {}
  PROVE  LET x == CHOOSE d \in T : \A e \in T : d <= e
         IN x \in T /\ \A e \in T : x <= e
<1> DEFINE R == StrictSubsetOrdering(Nat)
           F == FiniteSubsetsOf(Nat)
           Down == {0..x : x \in T}
<1>1. IsWellFoundedOn(R, F)
  BY FS_StrictSubsetOrderingWellFounded
<1>2. Down \subseteq F /\ Down # {}
  <2>1. \A x \in T : IsFiniteSet(0..x) /\ 0..x \subseteq Nat
    BY FS_Interval
  <2> QED
    BY <2>1 DEF FiniteSubsetsOf
<1>3. \E s \in Down : \A t \in Down : ~(<<t, s>> \in R)
  <2> HIDE DEF R, F, Down
  <2> QED
    BY <1>1, <1>2, WFMin
<1>4. PICK x \in T : \A y \in T : ~(<<0..y, 0..x>> \in R)
  BY <1>3
<1>5. ASSUME NEW y \in T, y < x PROVE FALSE
  <2>1. 0..y \subseteq 0..x /\ x \in 0..x /\ x \notin 0..y
    BY <1>5
  <2>2. <<0..y, 0..x>> \in (SUBSET Nat) \X (SUBSET Nat)
    OBVIOUS
  <2>3. <<0..y, 0..x>> \in R
    BY <2>1, <2>2 DEF StrictSubsetOrdering
  <2> QED
    BY <1>4, <2>3
<1>6. \A y \in T : x <= y
  BY <1>5
<1> QED
  BY <1>6

\* The age of the latest results: that of the newest document with facts.
LatestIsNewest ==
  Sourced # {} => \E d \in Sourced : History.latest = Age(d) /\ \A e \in Sourced : d <= e

LEMMA LatestIs == StoredIs => LatestIsNewest
<1> SUFFICES ASSUME StoredIs, Sourced # {}
             PROVE  \E d \in Sourced : History.latest = Age(d) /\ \A e \in Sourced : d <= e
  BY DEF LatestIsNewest
<1>1. Sourced \subseteq Nat
  BY SourcesAre, PreparationAssumption
<1> DEFINE x == CHOOSE d \in Sourced : \A e \in Sourced : d <= e
<1>2. x \in Sourced /\ \A e \in Sourced : x <= e
  BY <1>1, NewestOf
<1>3. History.latest = Age(x)
  BY DEF History
<1> QED
  BY <1>2, <1>3

\* What a complete history is.
LEMMA CompleteIs ==
  FinancialComplete(History) <=>
    /\ ~(Cardinality(Sourced) < RequiredPeriods(stock.listed))
    /\ ~((IF Sourced = {} THEN 0 ELSE 6) < 6)
    /\ ~(History.latest > 200)
<1>1. /\ History.periods = Cardinality(Sourced)
      /\ History.types = (IF Sourced = {} THEN 0 ELSE 6)
      /\ History.listed = stock.listed
  BY DEF History
<1>2. FinancialErrors(History) = {} <=>
        /\ ~(History.periods < RequiredPeriods(History.listed))
        /\ ~(History.types < 6)
        /\ ~(History.latest > 200)
  BY DEF FinancialErrors
<1> QED
  BY <1>1, <1>2 DEF FinancialComplete

\* The documents with facts and those with a filing grow with what is stored.
LEMMA SourcesGrow ==
  ASSUME StoredIs, StoredIs', Grows
  PROVE  /\ Sourced \subseteq Sourced' /\ Evident \subseteq Evident'
         /\ Cardinality(Sourced) <= Cardinality(Sourced')
         /\ \A d \in Docs : Age(d)' = Age(d)
<1>1. Sourced \subseteq Sourced'
  BY DEF Sourced, StoredIs, Grows
<1>2. Evident \subseteq Evident'
  BY DEF Evident, StoredIs, Grows
<1>3. IsFiniteSet(Sourced')
  <2>1. Sourced' \subseteq Docs
    BY DEF Sourced
  <2> QED
    BY <2>1, FS_Subset, PreparationAssumption
<1>4. Cardinality(Sourced) <= Cardinality(Sourced')
  BY <1>1, <1>3, FS_Subset
<1>5. \A d \in Docs : Age(d)' = Age(d)
  BY DEF Age, Grows
<1> QED
  BY <1>1, <1>2, <1>4, <1>5

LEMMA AgesAre ==
  ASSUME StoredIs, NEW d \in Docs
  PROVE  Age(d) \in Int /\ \A e \in Docs : d <= e => Age(d) <= Age(e)
BY StockIs, PreparationAssumption DEF Age, StoredIs

LEMMA LatestStays ==
  ASSUME StoredIs, StoredIs', Grows, Sourced # {}
  PROVE  Sourced' # {} /\ History.latest \in Int /\ History.latest' \in Int
         /\ History.latest' <= History.latest
<1>1. PICK d \in Sourced : History.latest = Age(d) /\ \A e \in Sourced : d <= e
  BY LatestIs DEF LatestIsNewest
<1>2. Sourced' # {}
  BY SourcesGrow
<1>3. \E c \in Sourced' : History.latest' = Age(c)' /\ \A e \in Sourced' : c <= e
  <2>1. LatestIsNewest'
    BY LatestIs, PTL
  <2> QED
    BY <2>1, <1>2 DEF LatestIsNewest
<1>4. PICK c \in Sourced' : History.latest' = Age(c)' /\ \A e \in Sourced' : c <= e
  BY <1>3
<1>5. d \in Sourced' /\ d \in Docs /\ c \in Docs
  BY SourcesGrow DEF Sourced
<1>6. Age(c)' = Age(c)
  BY <1>5, SourcesGrow
<1>7. c <= d
  BY <1>4, <1>5
<1>8. Age(c) \in Int /\ Age(d) \in Int /\ Age(c) <= Age(d)
  BY <1>5, <1>7, AgesAre
<1> QED
  BY <1>1, <1>2, <1>4, <1>6, <1>8

LEMMA CompleteStays ==
  ASSUME StoredIs, StoredIs', Grows, FinancialComplete(History)
  PROVE  FinancialComplete(History)'
<1>1. /\ ~(Cardinality(Sourced) < RequiredPeriods(stock.listed))
      /\ ~((IF Sourced = {} THEN 0 ELSE 6) < 6)
      /\ ~(History.latest > 200)
  BY CompleteIs
<1>2. Sourced # {}
  BY <1>1
<1>3. Sourced' # {} /\ History.latest \in Int /\ History.latest' \in Int
      /\ History.latest' <= History.latest
  BY <1>2, LatestStays
<1>4. RequiredPeriods(stock'.listed) = RequiredPeriods(stock.listed)
      /\ RequiredPeriods(stock.listed) \in Nat
  BY StockIs, PeriodsAre DEF Grows, StoredIs
<1>5. Cardinality(Sourced) \in Nat /\ Cardinality(Sourced') \in Nat
      /\ Cardinality(Sourced) <= Cardinality(Sourced')
  <2>1. (StoredIs => Cardinality(Sourced) \in Nat)'
    BY SourcesAre, PTL
  <2> QED
    BY <2>1, SourcesAre, SourcesGrow
<1>6. /\ ~(Cardinality(Sourced') < RequiredPeriods(stock'.listed))
      /\ ~((IF Sourced' = {} THEN 0 ELSE 6) < 6)
      /\ ~(History.latest' > 200)
  BY <1>1, <1>3, <1>4, <1>5
<1>7. (FinancialComplete(History) <=>
        /\ ~(Cardinality(Sourced) < RequiredPeriods(stock.listed))
        /\ ~((IF Sourced = {} THEN 0 ELSE 6) < 6)
        /\ ~(History.latest > 200))'
  BY CompleteIs, PTL
<1> QED
  BY <1>6, <1>7

-----------------------------------------------------------------------------
(* Types, and the lock of the bundle.                                      *)

Stages == {"queued", "waiting", "gather", "peers", "market", "assess", "corpus",
           "rows", "ready", "unready", "agents", "not_ready", "raised"}
ClsStates == {"none", "start", "asking", "raised", "cached", "skipped", "fetched", "stale", "failed"}
FinStates == ClsStates \cup {"entering", "fetching", "hit", "new"}

Types ==
  /\ stock \in Stocks
  /\ stored \in [Docs -> 0..3] /\ class \in {"none", "old", "new"}
  /\ peers \in BOOLEAN /\ clean \in BOOLEAN /\ prepared \in BOOLEAN \cup {None}
  /\ home \in [Jobs -> Procs \cup {None}] /\ main \in [Jobs -> Stages]
  /\ cls \in [Jobs -> ClsStates] /\ fin \in [Jobs -> FinStates]
  /\ done \in [Jobs -> Nat] /\ faults \in 0..MaxFaults
  /\ bundleLock \in [Procs -> Jobs \cup {None}] /\ fetchLock \in [Procs -> Jobs \cup {None}]

InBundle == {"gather", "peers", "market"}

BundleIsHeld ==
  \A p \in Procs, j \in Jobs : bundleLock[p] = j => home[j] = p /\ main[j] \in InBundle

\* What every step of the financial history leaves alone.
Aside == UNCHANGED <<stock, class, peers, clean, prepared, home, main, seen, bundleLock>>

LEMMA TypesAre == Types /\ BundleIsHeld <=> PrepTypeOK /\ stock \in Stocks
<1>1. Stages = {"queued", "waiting", "gather", "peers", "market", "assess", "corpus",
                "rows", "ready", "unready"} \cup Over
      /\ ClsStates = {"none", "start", "asking", "raised"} \cup Settled
      /\ FinStates = {"none", "start", "asking", "entering", "fetching", "hit", "new", "raised"}
                       \cup Settled
  BY DEF Stages, ClsStates, FinStates, Over, Settled
<1> QED
  BY <1>1 DEF Types, BundleIsHeld, PrepTypeOK, InBundle

LEMMA UnlockIs ==
  ASSUME NEW l \in [Procs -> Jobs \cup {None}], NEW j \in Jobs
  PROVE  /\ Unlock(l, j) \in [Procs -> Jobs \cup {None}]
         /\ \A p \in Procs, k \in Jobs : Unlock(l, j)[p] = k <=> l[p] = k /\ k # j
BY PreparationAssumption DEF Unlock

LEMMA TakeTypes ==
  ASSUME Types, NEW j \in Jobs, NEW p \in Procs, Take(j, p)
  PROVE  Types'
<1> USE DEF Types
<1> QED
  BY PreparationAssumption DEF Take, Step, data, locks, Stages, FinStates, ClsStates

LEMMA EnterTypes ==
  ASSUME Types, NEW j \in Jobs, Enter(j)
  PROVE  Types'
<1> USE DEF Types
<1> QED
  BY PreparationAssumption DEF Enter, data, locks, Stages, FinStates, ClsStates

LEMMA ClassificationStepTypes ==
  ASSUME Types, NEW j \in Jobs, ClassificationStep(j)
  PROVE  Types'
<1> USE DEF Types
<1> QED
  BY PreparationAssumption DEF ClassificationStep, ClsTo, data, locks, Stages, FinStates, ClsStates

LEMMA GatheredTypes ==
  ASSUME Types, NEW j \in Jobs, Gathered(j)
  PROVE  Types'
<1> USE DEF Types
<1>1. Unlock(bundleLock, j) \in [Procs -> Jobs \cup {None}]
  BY UnlockIs
<1> QED
  BY <1>1, PreparationAssumption DEF Gathered, data, locks, Stages, FinStates, ClsStates

LEMMA PeerStepTypes ==
  ASSUME Types, NEW j \in Jobs, PeerStep(j)
  PROVE  Types'
<1> USE DEF Types
<1> QED
  BY PreparationAssumption DEF PeerStep, Step, data, locks, Stages, FinStates, ClsStates

LEMMA MarketStepTypes ==
  ASSUME Types, NEW j \in Jobs, MarketStep(j)
  PROVE  Types'
<1> USE DEF Types
<1>1. Unlock(bundleLock, j) \in [Procs -> Jobs \cup {None}]
  BY UnlockIs
<1> QED
  BY <1>1, PreparationAssumption DEF MarketStep, Step, data, locks, Stages, FinStates, ClsStates

LEMMA ReadCorpusTypes ==
  ASSUME Types, NEW j \in Jobs, ReadCorpus(j)
  PROVE  Types'
<1> USE DEF Types
<1> QED
  BY PreparationAssumption DEF ReadCorpus, data, locks, Stages, FinStates, ClsStates

LEMMA ReadRowsTypes ==
  ASSUME Types, NEW j \in Jobs, ReadRows(j)
  PROVE  Types'
<1> USE DEF Types
<1> QED
  BY PreparationAssumption DEF ReadRows, Step, data, locks, Stages, FinStates, ClsStates

LEMMA ReadHistoriesTypes ==
  ASSUME Types, NEW j \in Jobs, ReadHistories(j)
  PROVE  Types'
<1> USE DEF Types
<1> QED
  BY PreparationAssumption DEF ReadHistories, data, locks, Stages, FinStates, ClsStates

LEMMA PersistTypes ==
  ASSUME Types, NEW j \in Jobs, Persist(j)
  PROVE  Types'
<1> USE DEF Types
<1> QED
  BY PreparationAssumption DEF Persist, data, locks, Stages, FinStates, ClsStates

LEMMA FaultTypes ==
  ASSUME Types, NEW j \in Jobs, Fault(j)
  PROVE  Types'
<1> USE DEF Types
<1>1. Unlock(bundleLock, j) \in [Procs -> Jobs \cup {None}]
  BY UnlockIs
<1> QED
  BY <1>1, PreparationAssumption DEF Fault, data, locks, Stages, FinStates, ClsStates

LEMMA CoveredTypes ==
  ASSUME Types, NEW j \in Jobs, Covered(j), Aside
  PROVE  Types'
<1> USE DEF Types
<1> QED
  BY PreparationAssumption DEF Covered, FinTo, Aside, data, locks, Stages, FinStates, ClsStates

LEMMA AskTypes ==
  ASSUME Types, NEW j \in Jobs, Ask(j), Aside
  PROVE  Types'
<1> USE DEF Types
<1> QED
  BY PreparationAssumption DEF Ask, FinTo, Aside, data, locks, Stages, FinStates, ClsStates

LEMMA EnterFetchTypes ==
  ASSUME Types, NEW j \in Jobs, EnterFetch(j), Aside
  PROVE  Types'
<1> USE DEF Types
<1> QED
  BY PreparationAssumption DEF EnterFetch, FinTo, Aside, data, locks, Stages, FinStates, ClsStates

LEMMA IngestTypes ==
  ASSUME Types, NEW j \in Jobs, Ingest(j), Aside
  PROVE  Types'
<1> USE DEF Types
<1>1. Unlock(fetchLock, j) \in [Procs -> Jobs \cup {None}]
  BY UnlockIs
<1> DEFINE d == done[j] \div 3 + 1
           part == (done[j] % 3) + 1
<1>2. done[j] \in Nat /\ part \in 1..3
  OBVIOUS
<1>3. stored' \in [Docs -> 0..3]
  <2>1. stored' = [stored EXCEPT ![d] = IF @ < part THEN part ELSE @]
    BY DEF Ingest
  <2>2. part \in 0..3 /\ \A e \in Docs : stored[e] \in 0..3
    BY <1>2
  <2> HIDE DEF d, part
  <2>3. \A e \in Docs : stored'[e] \in 0..3
    BY <2>1, <2>2
  <2>4. DOMAIN stored' = Docs /\ stored' = [e \in Docs |-> stored'[e]]
    BY <2>1
  <2> QED
    BY <2>3, <2>4
<1>4. done' \in [Jobs -> Nat] /\ fin' \in [Jobs -> FinStates]
      /\ fetchLock' \in [Procs -> Jobs \cup {None}]
  BY <1>1 DEF Ingest, FinStates
<1> QED
  BY <1>3, <1>4 DEF Ingest, Aside

LEMMA AbortTypes ==
  ASSUME Types, NEW j \in Jobs, Abort(j), Aside
  PROVE  Types'
<1> USE DEF Types
<1>1. Unlock(fetchLock, j) \in [Procs -> Jobs \cup {None}]
  BY UnlockIs
<1> QED
  BY <1>1, PreparationAssumption DEF Abort, FinTo, Aside, data, locks, Stages, FinStates, ClsStates

LEMMA ReviewTypes ==
  ASSUME Types, NEW j \in Jobs, Review(j), Aside
  PROVE  Types'
<1> USE DEF Types
<1> QED
  BY PreparationAssumption DEF Review, FinTo, Aside, data, locks, Stages, FinStates, ClsStates
\* A lock that nobody takes and whose holders stay in the bundle.
LEMMA BundleStays ==
  ASSUME BundleIsHeld, bundleLock' = bundleLock,
         \A k \in Jobs : main[k] \in InBundle => home'[k] = home[k] /\ main'[k] \in InBundle
  PROVE  BundleIsHeld'
BY DEF BundleIsHeld

\* A lock that its holder, or one that never had it, leaves.
LEMMA BundleIsLeft ==
  ASSUME Types, BundleIsHeld, NEW j \in Jobs, bundleLock' = Unlock(bundleLock, j),
         home' = home, \A k \in Jobs : k # j => main'[k] = main[k]
  PROVE  BundleIsHeld'
<1>1. \A p \in Procs, k \in Jobs : bundleLock'[p] = k => bundleLock[p] = k /\ k # j
  <2>1. \A p \in Procs, k \in Jobs : Unlock(bundleLock, j)[p] = k <=> bundleLock[p] = k /\ k # j
    <3>1. bundleLock \in [Procs -> Jobs \cup {None}]
      BY DEF Types
    <3> QED
      BY <3>1, UnlockIs
  <2> QED
    BY <2>1
<1> QED
  BY <1>1 DEF BundleIsHeld

LEMMA EnterHolds ==
  ASSUME Types, BundleIsHeld, NEW j \in Jobs, Enter(j)
  PROVE  BundleIsHeld'
<1>1. CASE stock.supported
  <2>1. \A p \in Procs, k \in Jobs :
          bundleLock'[p] = k => (bundleLock[p] = k /\ k # j) \/ (p = home[j] /\ k = j)
    <3>1. main[j] \notin InBundle
      BY DEF Enter, InBundle
    <3>2. bundleLock' = [bundleLock EXCEPT ![home[j]] = j]
      BY <1>1 DEF Enter
    <3> QED
      BY <3>1, <3>2 DEF BundleIsHeld, Types
  <2>2. home' = home /\ main'[j] = "gather" /\ \A k \in Jobs : k # j => main'[k] = main[k]
    BY <1>1 DEF Enter, Types
  <2> QED
    BY <2>1, <2>2 DEF BundleIsHeld, InBundle
<1>2. CASE ~stock.supported
  <2>1. bundleLock' = bundleLock /\ home' = home /\ main[j] = "waiting"
        /\ \A k \in Jobs : k # j => main'[k] = main[k]
    BY <1>2 DEF Enter, Types
  <2> QED
    BY <2>1, BundleStays DEF InBundle
<1> QED
  BY <1>1, <1>2

LEMMA BundleStep ==
  ASSUME Types, BundleIsHeld, [PrepNext]_prepVars
  PROVE  BundleIsHeld'
<1>1. ASSUME NEW j \in Jobs, NEW p \in Procs, Take(j, p) PROVE BundleIsHeld'
  BY <1>1, BundleStays DEF Take, Step, locks, InBundle, Types
<1>2. ASSUME NEW j \in Jobs, Enter(j) PROVE BundleIsHeld'
  BY <1>2, EnterHolds
<1>3. ASSUME NEW j \in Jobs, ClassificationStep(j) \/ FinancialStep(j) PROVE BundleIsHeld'
  BY <1>3 DEF ClassificationStep, FinancialStep, BundleIsHeld
<1>4. ASSUME NEW j \in Jobs, Gathered(j) PROVE BundleIsHeld'
  <2>1. CASE main' = [main EXCEPT ![j] = "peers"] /\ bundleLock' = bundleLock
    BY <1>4, <2>1, BundleStays DEF Gathered, InBundle, Types
  <2>2. CASE main' = [main EXCEPT ![j] = "raised"] /\ bundleLock' = Unlock(bundleLock, j)
    BY <1>4, <2>2, BundleIsLeft DEF Gathered, Types
  <2> QED
    BY <1>4, <2>1, <2>2 DEF Gathered
<1>5. ASSUME NEW j \in Jobs, PeerStep(j) PROVE BundleIsHeld'
  BY <1>5, BundleStays DEF PeerStep, Step, locks, InBundle, Types
<1>6. ASSUME NEW j \in Jobs, MarketStep(j) \/ Fault(j) PROVE BundleIsHeld'
  <2>1. bundleLock' = Unlock(bundleLock, j) /\ home' = home
        /\ \A k \in Jobs : k # j => main'[k] = main[k]
    BY <1>6 DEF MarketStep, Step, Fault, Types
  <2> QED
    BY <2>1, BundleIsLeft
<1>7. ASSUME NEW j \in Jobs, ReadCorpus(j) \/ ReadRows(j) \/ ReadHistories(j) \/ Persist(j)
      PROVE  BundleIsHeld'
  <2>1. bundleLock' = bundleLock /\ home' = home /\ main[j] \notin InBundle
        /\ \A k \in Jobs : k # j => main'[k] = main[k]
    BY <1>7 DEF ReadCorpus, ReadRows, ReadHistories, Persist, Step, locks, InBundle, Types
  <2> QED
    BY <2>1, BundleStays
<1>8. CASE Taint
  BY <1>8 DEF Taint, BundleIsHeld, locks
<1>9. CASE UNCHANGED prepVars
  BY <1>9 DEF prepVars, BundleIsHeld, locks
<1> QED
  BY <1>1, <1>2, <1>3, <1>4, <1>5, <1>6, <1>7, <1>8, <1>9 DEF PrepNext, CallStep

LEMMA TypesStep ==
  ASSUME Types, [PrepNext]_prepVars
  PROVE  Types'
<1>1. ASSUME NEW j \in Jobs, NEW p \in Procs, Take(j, p) PROVE Types'
  BY <1>1, TakeTypes
<1>2. ASSUME NEW j \in Jobs, FinancialStep(j) PROVE Types'
  <2>1. Aside
    BY <1>2 DEF FinancialStep, Aside
  <2> QED
    BY <1>2, <2>1, CoveredTypes, AskTypes, EnterFetchTypes, IngestTypes, AbortTypes, ReviewTypes
    DEF FinancialStep
<1>3. ASSUME NEW j \in Jobs, CallStep(j) PROVE Types'
  BY <1>2, <1>3, EnterTypes, ClassificationStepTypes, GatheredTypes, PeerStepTypes, MarketStepTypes,
     ReadCorpusTypes, ReadRowsTypes, ReadHistoriesTypes, PersistTypes DEF CallStep
<1>4. ASSUME NEW j \in Jobs, Fault(j) PROVE Types'
  BY <1>4, FaultTypes
<1>5. CASE Taint
  BY <1>5 DEF Taint, Types, locks
<1>6. CASE UNCHANGED prepVars
  BY <1>6 DEF prepVars, Types, data, locks
<1> QED
  BY <1>1, <1>3, <1>4, <1>5, <1>6 DEF PrepNext
LEMMA GrowsStep ==
  ASSUME Types, [PrepNext]_prepVars
  PROVE  StoredIs /\ StoredIs' /\ Grows
<1>1. StoredIs /\ StoredIs'
  BY TypesStep DEF StoredIs, Types
<1>2. \A d \in Docs : stored[d] \in Int
  BY <1>1 DEF StoredIs
<1>3. ASSUME NEW j \in Jobs, NEW p \in Procs, Take(j, p) PROVE Grows
  BY <1>2, <1>3 DEF Take, Grows, data
<1>4. ASSUME NEW j \in Jobs, FinancialStep(j) PROVE Grows
  <2>1. CASE Ingest(j)
    <3> DEFINE d == done[j] \div 3 + 1
               part == (done[j] % 3) + 1
    <3>1. part \in Int
      BY DEF Types
    <3>2. stored' = [stored EXCEPT ![d] = IF @ < part THEN part ELSE @]
      BY <2>1 DEF Ingest
    <3> HIDE DEF d, part
    <3>3. \A e \in Docs : stored[e] <= stored'[e]
      BY <1>1, <1>2, <3>1, <3>2 DEF StoredIs
    <3> QED
      BY <1>4, <3>3 DEF FinancialStep, Grows
  <2>2. CASE ~Ingest(j)
    BY <1>2, <1>4, <2>2 DEF FinancialStep, Covered, Ask, EnterFetch, Abort, Review, Grows
  <2> QED
    BY <2>1, <2>2
<1>5. ASSUME NEW j \in Jobs, CallStep(j) PROVE Grows
  <2>1. CASE Enter(j) \/ ClassificationStep(j)
    BY <1>2, <2>1 DEF Enter, ClassificationStep, ClsTo, Grows, data
  <2>2. CASE Gathered(j) \/ MarketStep(j)
    BY <1>2, <2>2 DEF Gathered, MarketStep, Grows, data
  <2>4. CASE PeerStep(j)
    <3>1. peers => peers'
      BY <2>4, Zenon DEF PeerStep
    <3>2. stock' = stock /\ stored' = stored /\ class' = class
      BY <2>4 DEF PeerStep
    <3> QED
      BY <1>2, <3>1, <3>2 DEF Grows
  <2>3. CASE ReadCorpus(j) \/ ReadRows(j) \/ ReadHistories(j) \/ Persist(j)
    BY <1>2, <2>3 DEF ReadCorpus, ReadRows, ReadHistories, Persist, Grows, data
  <2> QED
    BY <1>4, <1>5, <2>1, <2>2, <2>3, <2>4 DEF CallStep
<1>6. ASSUME NEW j \in Jobs, Fault(j) PROVE Grows
  BY <1>2, <1>6 DEF Fault, Grows, data
<1>7. CASE Taint \/ UNCHANGED prepVars
  <2>1. stock' = stock /\ stored' = stored /\ class' = class /\ peers' = peers
    BY <1>7 DEF Taint, prepVars, data
  <2>2. peers => peers'
    BY <2>1, Zenon
  <2> QED
    BY <1>1, <1>2, <2>1, <2>2 DEF Grows
<1> QED
  BY <1>1, <1>3, <1>5, <1>6, <1>7 DEF PrepNext

-----------------------------------------------------------------------------
(* Fetches: exclusive, complete and shared.                                *)

Fetching(j) == fin[j] = "fetching"
Fetched(j) == fin[j] \in {"new", "fetched"}

\* A call before its bundle has begun nothing; one that was taken has a process.
Early == {"queued", "waiting"}

Idle ==
  \A j \in Jobs : /\ main[j] \in Early => fin[j] = "none"
                  /\ main[j] # "queued" => home[j] \in Procs

LocksAreFetches ==
  \A p \in Procs, j \in Jobs : fetchLock[p] = j <=> home[j] = p /\ Fetching(j)

\* Everything that the exchange offers has its facts.
AllSourced == \A d \in 1..stock.offered : stored[d] >= 2

\* A fetch has stored what it went through, document by document.
Progress ==
  \A j \in Jobs : Fetching(j) =>
    /\ done[j] < 3 * stock.offered
    /\ \A d \in 1..(done[j] \div 3) : stored[d] >= 2
    /\ (done[j] % 3) = 2 => stored[done[j] \div 3 + 1] >= 2

\* A call fetches when nothing is cached, the lock held: whoever fetched in
\* this process before did not make the history count as cached.
Shared ==
  \A j, k \in Jobs : j # k /\ home[j] = home[k] /\ Fetched(j) /\ (Fetched(k) \/ Fetching(k))
                       => stock.offered < CacheBar

FetchInv ==
  /\ Idle /\ LocksAreFetches /\ Progress /\ Shared
  /\ \A j \in Jobs : (fin[j] # "fetching" => done[j] = 0) /\ (Fetched(j) => AllSourced)
LEMMA Digits ==
  ASSUME NEW n \in Nat
  PROVE  /\ n \div 3 \in Nat /\ (n % 3) \in 0..2 /\ n = 3 * (n \div 3) + (n % 3)
         /\ (n % 3) < 2 => (n + 1) \div 3 = n \div 3 /\ ((n + 1) % 3) = (n % 3) + 1
         /\ (n % 3) = 2 => (n + 1) \div 3 = n \div 3 + 1 /\ ((n + 1) % 3) = 0
OBVIOUS

LEMMA AllIsCounted ==
  ASSUME StoredIs, AllSourced
  PROVE  stock.offered <= Cardinality(Sourced)
<1>1. stock.offered \in Nat /\ 1..stock.offered \subseteq Docs
  BY StockIs DEF StoredIs
<1>2. 1..stock.offered \subseteq Sourced
  BY <1>1 DEF AllSourced, Sourced
<1>3. Cardinality(1..stock.offered) = stock.offered
  BY <1>1, FS_Interval
<1> QED
  BY <1>2, <1>3, SourcesAre, FS_Subset

LEMMA OfferedGrows ==
  ASSUME StoredIs, StoredIs', Grows
  PROVE  /\ stock' = stock /\ stock.offered \in Nat
         /\ \A d \in 1..stock.offered : stored[d] \in Nat /\ stored'[d] \in Nat /\ stored[d] <= stored'[d]
<1>1. stock.offered \in Nat /\ 1..stock.offered \subseteq Docs
  BY StockIs DEF StoredIs
<1> QED
  BY <1>1 DEF StoredIs, Grows

LEMMA AllStays ==
  ASSUME StoredIs, StoredIs', Grows, AllSourced
  PROVE  AllSourced'
BY OfferedGrows DEF AllSourced

\* A step in which no fetch begins, moves or ends.
LEMMA FetchStays ==
  ASSUME Types, StoredIs, StoredIs', Grows, FetchInv,
         home' = home, done' = done, fetchLock' = fetchLock,
         \A k \in Jobs : /\ Fetching(k)' <=> Fetching(k)
                         /\ Fetched(k)' => Fetched(k)
                         /\ main'[k] = "queued" <=> main[k] = "queued"
                         /\ main'[k] \in Early => main[k] \in Early /\ fin'[k] = fin[k]
  PROVE  FetchInv'
<1>1. Idle' /\ LocksAreFetches'
  BY DEF FetchInv, Idle, LocksAreFetches
<1>2. Progress'
  <2>1. ASSUME NEW j \in Jobs, Fetching(j) PROVE done[j] \div 3 \in Nat /\ done[j] \div 3 + 1 \in 1..stock.offered
    <3>1. done[j] \in Nat /\ done[j] < 3 * stock.offered
      BY <2>1 DEF Types, FetchInv, Progress
    <3> QED
      BY <3>1, OfferedGrows, Digits
  <2> QED
    BY <2>1, OfferedGrows DEF FetchInv, Progress
<1>3. Shared'
  BY DEF FetchInv, Shared, Grows
<1>4. \A j \in Jobs : (fin'[j] # "fetching" => done'[j] = 0) /\ (Fetched(j)' => AllSourced')
  BY AllStays DEF FetchInv, Fetching
<1> QED
  BY <1>1, <1>2, <1>3, <1>4 DEF FetchInv

LEMMA TakeFetches ==
  ASSUME Types, StoredIs, StoredIs', Grows, FetchInv, NEW j \in Jobs, NEW p \in Procs, Take(j, p)
  PROVE  FetchInv'
<1>1. fin[j] = "none" /\ stored' = stored /\ stock' = stock /\ fin' = fin /\ done' = done
      /\ fetchLock' = fetchLock /\ \A k \in Jobs : k # j => home'[k] = home[k] /\ main'[k] = main[k]
  BY DEF Take, Step, FetchInv, Idle, Early, data, locks, Types
<1>2. main'[j] = "waiting" /\ home'[j] = p
  BY DEF Take, Step, Types
<1>3. \A k \in Jobs : (Fetching(k)' <=> Fetching(k)) /\ (Fetched(k)' <=> Fetched(k))
  BY <1>1 DEF Fetching, Fetched
<1>4. ~Fetching(j) /\ ~Fetched(j)
  BY <1>1 DEF Fetching, Fetched
<1>5. Idle'
  BY <1>1, <1>2 DEF FetchInv, Idle
<1>6. LocksAreFetches'
  BY <1>1, <1>3, <1>4 DEF FetchInv, LocksAreFetches
<1>7. Progress'
  BY <1>1, <1>3 DEF FetchInv, Progress
<1>8. Shared'
  BY <1>1, <1>3, <1>4 DEF FetchInv, Shared
<1>9. \A k \in Jobs : (fin'[k] # "fetching" => done'[k] = 0) /\ (Fetched(k)' => AllSourced')
  BY <1>1, <1>3 DEF FetchInv, AllSourced
<1> QED
  BY <1>5, <1>6, <1>7, <1>8, <1>9 DEF FetchInv
\* Whoever has a step behind it, or before it, was taken by a process.
LEMMA TakenIs ==
  ASSUME Types, Idle, NEW j \in Jobs, fin[j] # "none"
  PROVE  main[j] \notin Early /\ main[j] # "queued" /\ home[j] \in Procs
BY DEF Idle, Early

LEMMA BeginFetches ==
  ASSUME Types, StoredIs, StoredIs', Grows, FetchInv, NEW j \in Jobs, Aside,
         fin[j] = "entering", fetchLock[home[j]] = None, ~IsCacheHit,
         ~(stock.offered < RequiredPeriods(stock.listed)),
         fin' = [fin EXCEPT ![j] = "fetching"], fetchLock' = [fetchLock EXCEPT ![home[j]] = j],
         stored' = stored, done' = done
  PROVE  FetchInv'
<1>1. /\ home' = home /\ main' = main /\ stock' = stock
      /\ \A k \in Jobs : k # j => fin'[k] = fin[k]
      /\ fin'[j] = "fetching" /\ main[j] \notin Early
  BY TakenIs DEF Aside, Types, FetchInv
<1>2. \A k \in Jobs : (Fetching(k)' <=> k = j \/ Fetching(k)) /\ (Fetched(k)' <=> Fetched(k))
  BY <1>1 DEF Fetching, Fetched
<1>3. ~Fetching(j) /\ ~Fetched(j)
  BY DEF Fetching, Fetched
<1>4. done[j] = 0 /\ stock.offered >= 1
  <2>1. done[j] = 0
    BY DEF FetchInv
  <2>2. stock.offered \in Nat /\ stock.listed \in Int
    BY StockIs DEF Types
  <2> QED
    BY <2>1, <2>2, PeriodsAre
<1>5. Idle'
  BY <1>1 DEF FetchInv, Idle
<1>6. LocksAreFetches'
  <2>1. ASSUME NEW p \in Procs, NEW k \in Jobs
        PROVE  fetchLock'[p] = k <=> (p = home[j] /\ k = j) \/ (p # home[j] /\ fetchLock[p] = k)
    BY <2>1 DEF Types
  <2>2. ASSUME NEW k \in Jobs, home[k] = home[j], home[j] \in Procs PROVE ~Fetching(k)
    BY <2>2, PreparationAssumption DEF FetchInv, LocksAreFetches
  <2> QED
    BY <1>1, <1>2, <1>3, <2>1, <2>2 DEF FetchInv, LocksAreFetches
<1>7. Progress'
  <2>1. /\ done[j] < 3 * stock.offered
        /\ \A d \in 1..(done[j] \div 3) : stored[d] >= 2
        /\ ~((done[j] % 3) = 2)
    <3>1. 0 \div 3 = 0 /\ (0 % 3) = 0
      BY Digits
    <3>2. stock.offered \in Nat
      BY StockIs DEF Types
    <3> QED
      BY <1>4, <3>1, <3>2
  <2> QED
    BY <1>1, <1>2, <2>1 DEF FetchInv, Progress
<1>8. Shared'
  <2>1. ASSUME NEW k \in Jobs, Fetched(k) PROVE stock.offered < CacheBar
    <3>1. stock.offered <= Cardinality(Sourced)
      BY <2>1, AllIsCounted DEF FetchInv
    <3>2. stock.offered \in Nat /\ Cardinality(Sourced) \in Nat
      BY StockIs, SourcesAre DEF Types
    <3> QED
      BY <3>1, <3>2, PreparationAssumption DEF IsCacheHit
  <2> QED
    BY <1>1, <1>2, <2>1 DEF Shared
<1>9. \A k \in Jobs : (fin'[k] # "fetching" => done'[k] = 0) /\ (Fetched(k)' => AllSourced')
  BY <1>1, <1>2 DEF FetchInv, AllSourced
<1> QED
  BY <1>5, <1>6, <1>7, <1>8, <1>9 DEF FetchInv

\* The lock that a fetch leaves is its own.
LEMMA LocksLeft ==
  ASSUME Types, FetchInv, NEW j \in Jobs, home' = home, fetchLock' = Unlock(fetchLock, j),
         ~Fetching(j)', \A k \in Jobs : k # j => (Fetching(k)' <=> Fetching(k))
  PROVE  LocksAreFetches'
<1>1. \A p \in Procs, k \in Jobs : Unlock(fetchLock, j)[p] = k <=> fetchLock[p] = k /\ k # j
  <2>1. fetchLock \in [Procs -> Jobs \cup {None}]
    BY DEF Types
  <2> QED
    BY <2>1, UnlockIs
<1> QED
  BY <1>1 DEF FetchInv, LocksAreFetches

LEMMA AbortFetches ==
  ASSUME Types, StoredIs, StoredIs', Grows, FetchInv, NEW j \in Jobs, Aside, Abort(j)
  PROVE  FetchInv'
<1>1. /\ home' = home /\ main' = main /\ stock' = stock /\ stored' = stored
      /\ fetchLock' = Unlock(fetchLock, j) /\ done'[j] = 0
      /\ \A k \in Jobs : k # j => fin'[k] = fin[k] /\ done'[k] = done[k]
      /\ fin'[j] \in {"failed", "raised"}
  BY DEF Abort, FinTo, Aside, Types
<1>2. main[j] \notin Early
  BY TakenIs DEF Abort, FetchInv
<1>3. ~Fetching(j)' /\ ~Fetched(j)'
      /\ \A k \in Jobs : k # j => (Fetching(k)' <=> Fetching(k)) /\ (Fetched(k)' <=> Fetched(k))
  BY <1>1 DEF Fetching, Fetched
<1>4. Idle'
  BY <1>1, <1>2 DEF FetchInv, Idle
<1>5. LocksAreFetches'
  BY <1>1, <1>3, LocksLeft
<1>6. Progress'
  BY <1>1, <1>3 DEF FetchInv, Progress
<1>7. Shared'
  BY <1>1, <1>3 DEF FetchInv, Shared
<1>8. \A k \in Jobs : (fin'[k] # "fetching" => done'[k] = 0) /\ (Fetched(k)' => AllSourced')
  BY <1>1, <1>3 DEF FetchInv, AllSourced
<1> QED
  BY <1>4, <1>5, <1>6, <1>7, <1>8 DEF FetchInv
\* What a transaction of a fetch writes: the next part of its document.
LEMMA PartIs ==
  ASSUME Types, Types', FetchInv, NEW j \in Jobs, Ingest(j)
  PROVE  /\ done[j] \in Nat /\ done[j] < 3 * stock.offered /\ stock.offered \in Nat
         /\ done[j] \div 3 + 1 \in 1..stock.offered
         /\ stored'[done[j] \div 3 + 1] >= (done[j] % 3) + 1
<1>1. done[j] \in Nat /\ done[j] < 3 * stock.offered
  BY DEF Types, FetchInv, Progress, Ingest, Fetching
<1>2. stock.offered \in Nat /\ 1..stock.offered \subseteq Docs
  BY StockIs DEF Types
<1> DEFINE d == done[j] \div 3 + 1
           part == (done[j] % 3) + 1
<1>3. d \in 1..stock.offered /\ part \in Int
  BY <1>1, <1>2, Digits
<1>4. stored'[d] >= part
  <2>1. stored' = [stored EXCEPT ![d] = IF @ < part THEN part ELSE @]
    BY DEF Ingest
  <2>2. d \in Docs /\ stored[d] \in Int
    BY <1>2, <1>3 DEF Types
  <2> HIDE DEF d, part
  <2> QED
    BY <1>3, <2>1, <2>2 DEF Types
<1> QED
  BY <1>1, <1>2, <1>3, <1>4

LEMMA IngestFetches ==
  ASSUME Types, Types', StoredIs, StoredIs', Grows, FetchInv, NEW j \in Jobs, Aside, Ingest(j)
  PROVE  FetchInv'
<1>1. /\ home' = home /\ main' = main /\ stock' = stock /\ fin[j] = "fetching"
      /\ \A k \in Jobs : k # j => fin'[k] = fin[k] /\ done'[k] = done[k]
  BY DEF Ingest, Aside, Types
<1>2. main[j] \notin Early /\ Fetching(j) /\ ~Fetched(j)
  BY <1>1, TakenIs DEF FetchInv, Fetching, Fetched
<1>3. \A d \in 1..stock.offered : stored[d] \in Nat /\ stored'[d] \in Nat /\ stored[d] <= stored'[d]
  BY OfferedGrows
<1>4. /\ done[j] \in Nat /\ done[j] < 3 * stock.offered /\ stock.offered \in Nat
      /\ done[j] \div 3 + 1 \in 1..stock.offered
      /\ stored'[done[j] \div 3 + 1] >= (done[j] % 3) + 1
  BY PartIs
<1>5. \A d \in 1..(done[j] \div 3) : stored'[d] >= 2
  <2>1. \A d \in 1..(done[j] \div 3) : d \in 1..stock.offered /\ stored[d] >= 2
    BY <1>2, <1>4, Digits DEF FetchInv, Progress
  <2> QED
    BY <1>3, <2>1
<1>6. (done[j] % 3) = 2 => stored'[done[j] \div 3 + 1] >= 2
  BY <1>3, <1>4
<1>7. ASSUME NEW k \in Jobs, k # j, Fetching(k)
      PROVE  /\ done[k] < 3 * stock.offered
             /\ \A d \in 1..(done[k] \div 3) : stored'[d] >= 2
             /\ (done[k] % 3) = 2 => stored'[done[k] \div 3 + 1] >= 2
  <2>1. done[k] \in Nat /\ done[k] < 3 * stock.offered
        /\ (\A d \in 1..(done[k] \div 3) : stored[d] >= 2)
        /\ ((done[k] % 3) = 2 => stored[done[k] \div 3 + 1] >= 2)
    BY <1>7 DEF FetchInv, Progress, Types
  <2>2. done[k] \div 3 \in Nat /\ done[k] \div 3 + 1 \in 1..stock.offered
    BY <1>4, <2>1, Digits
  <2>3. \A d \in 1..(done[k] \div 3) : d \in 1..stock.offered
    BY <1>4, <2>2
  <2> QED
    BY <1>3, <2>1, <2>2, <2>3
<1>8. Idle'
  BY <1>1, <1>2 DEF FetchInv, Idle
<1>9. CASE done[j] + 1 < 3 * stock.offered
  <2>1. fin' = fin /\ fetchLock' = fetchLock /\ done'[j] = done[j] + 1
    BY <1>9 DEF Ingest, Types
  <2>2. \A k \in Jobs : (Fetching(k)' <=> Fetching(k)) /\ (Fetched(k)' <=> Fetched(k))
    BY <2>1 DEF Fetching, Fetched
  <2>3. LocksAreFetches'
    BY <1>1, <2>1, <2>2 DEF FetchInv, LocksAreFetches
  <2>4. /\ \A d \in 1..(done'[j] \div 3) : stored'[d] >= 2
        /\ (done'[j] % 3) = 2 => stored'[done'[j] \div 3 + 1] >= 2
    <3>1. CASE (done[j] % 3) = 2
      <4>1. done'[j] \div 3 = done[j] \div 3 + 1 /\ (done'[j] % 3) = 0 /\ done[j] \div 3 \in Nat
        BY <1>4, <2>1, <3>1, Digits
      <4> QED
        BY <1>5, <1>6, <3>1, <4>1
    <3>2. CASE (done[j] % 3) # 2
      <4>1. done'[j] \div 3 = done[j] \div 3 /\ (done'[j] % 3) = (done[j] % 3) + 1
        BY <1>4, <2>1, <3>2, Digits
      <4>2. (done[j] % 3) \in 0..2
        BY <1>4, Digits
      <4> QED
        BY <1>4, <1>5, <4>1, <4>2
    <3> QED
      BY <3>1, <3>2
  <2>5. Progress'
    <3>1. ASSUME NEW k \in Jobs, Fetching(k)'
          PROVE  /\ done'[k] < 3 * stock.offered
                 /\ \A d \in 1..(done'[k] \div 3) : stored'[d] >= 2
                 /\ (done'[k] % 3) = 2 => stored'[done'[k] \div 3 + 1] >= 2
      <4>1. CASE k = j
        BY <1>9, <2>1, <2>4, <4>1
      <4>2. CASE k # j
        BY <1>1, <1>7, <2>2, <3>1, <4>2
      <4> QED
        BY <4>1, <4>2
    <3> QED
      BY <1>1, <3>1 DEF Progress
  <2>6. Shared'
    BY <1>1, <2>2 DEF FetchInv, Shared
  <2>7. \A k \in Jobs : (fin'[k] # "fetching" => done'[k] = 0) /\ (Fetched(k)' => AllSourced')
    BY <1>1, <2>1, <2>2, AllStays DEF FetchInv
  <2> QED
    BY <1>8, <2>3, <2>5, <2>6, <2>7 DEF FetchInv
<1>10. CASE ~(done[j] + 1 < 3 * stock.offered)
  <2>1. fin'[j] = "new" /\ fetchLock' = Unlock(fetchLock, j) /\ done'[j] = 0
    BY <1>10 DEF Ingest, Types
  <2>2. ~Fetching(j)' /\ Fetched(j)'
        /\ \A k \in Jobs : k # j => (Fetching(k)' <=> Fetching(k)) /\ (Fetched(k)' <=> Fetched(k))
    BY <1>1, <2>1 DEF Fetching, Fetched
  <2>3. LocksAreFetches'
    BY <1>1, <2>1, <2>2, LocksLeft
  <2>4. Progress'
    BY <1>1, <1>7, <2>2 DEF Progress
  <2>5. AllSourced'
    <3>1. (done[j] % 3) = 2 /\ stock.offered = done[j] \div 3 + 1
      BY <1>4, <1>10, Digits
    <3>2. \A d \in 1..stock.offered : d \in 1..(done[j] \div 3) \/ d = done[j] \div 3 + 1
      BY <1>4, <3>1
    <3> QED
      BY <1>1, <1>5, <1>6, <3>1, <3>2 DEF AllSourced
  <2>6. Shared'
    <3>1. ASSUME NEW k \in Jobs, k # j, home[k] = home[j] PROVE ~Fetching(k)
      <4>1. home[j] \in Procs
        BY <1>1, TakenIs DEF FetchInv
      <4> QED
        BY <1>2, <3>1, <4>1 DEF FetchInv, LocksAreFetches
    <3> QED
      BY <1>1, <1>2, <2>2, <3>1 DEF FetchInv, Shared
  <2>7. \A k \in Jobs : (fin'[k] # "fetching" => done'[k] = 0) /\ (Fetched(k)' => AllSourced')
    BY <1>1, <2>1, <2>5 DEF FetchInv
  <2> QED
    BY <1>8, <2>3, <2>4, <2>6, <2>7 DEF FetchInv
<1> QED
  BY <1>9, <1>10
LEMMA FinancialFetches ==
  ASSUME Types, Types', StoredIs, StoredIs', Grows, FetchInv, NEW j \in Jobs, FinancialStep(j)
  PROVE  FetchInv'
<1>1. Aside
  BY DEF FinancialStep, Aside
<1>2. CASE Ingest(j)
  BY <1>1, <1>2, IngestFetches
<1>3. CASE Abort(j)
  BY <1>1, <1>3, AbortFetches
<1>4. ASSUME NEW s \in FinStates \ {"fetching", "none"}, FinTo(j, s), stored' = stored, done' = done,
             fetchLock' = fetchLock, fin[j] # "fetching", fin[j] # "none",
             s \in {"new", "fetched"} => fin[j] = "new"
      PROVE  FetchInv'
  <2>1. home' = home /\ main' = main /\ main[j] \notin Early
    BY <1>1, <1>4, TakenIs DEF FetchInv, Aside
  <2>2. fin'[j] = s /\ \A k \in Jobs : k # j => fin'[k] = fin[k]
    BY <1>4 DEF FinTo, Types
  <2>3. \A k \in Jobs : (Fetching(k)' <=> Fetching(k)) /\ (Fetched(k)' => Fetched(k))
    BY <1>4, <2>2 DEF Fetching, Fetched
  <2> QED
    BY <1>4, <2>1, <2>2, <2>3, FetchStays
<1>5. CASE Covered(j)
  BY <1>4, <1>5 DEF Covered, FinStates, ClsStates
<1>6. CASE Ask(j)
  BY <1>4, <1>6 DEF Ask, FinStates, ClsStates
<1>7. CASE EnterFetch(j)
  <2>1. CASE IsCacheHit \/ stock.offered < RequiredPeriods(stock.listed)
    BY <1>4, <1>7, <2>1 DEF EnterFetch, FinStates, ClsStates
  <2>2. CASE ~IsCacheHit /\ ~(stock.offered < RequiredPeriods(stock.listed))
    BY <1>1, <1>7, <2>2, BeginFetches DEF EnterFetch, FinTo
  <2> QED
    BY <2>1, <2>2
<1>8. CASE Review(j)
  <2>1. CASE FinancialRaises(History)
    BY <1>4, <1>8, <2>1 DEF Review, FinStates, ClsStates
  <2>2. CASE ~FinancialRaises(History) /\ ~FinancialComplete(History)
    BY <1>4, <1>8, <2>2 DEF Review, FinStates, ClsStates
  <2>3. CASE ~FinancialRaises(History) /\ FinancialComplete(History) /\ fin[j] = "new"
    BY <1>4, <1>8, <2>3 DEF Review, FinStates, ClsStates
  <2>4. CASE ~FinancialRaises(History) /\ FinancialComplete(History) /\ fin[j] = "hit"
    BY <1>4, <1>8, <2>4 DEF Review, FinStates, ClsStates
  <2> QED
    BY <1>8, <2>1, <2>2, <2>3, <2>4 DEF Review
<1> QED
  BY <1>2, <1>3, <1>5, <1>6, <1>7, <1>8 DEF FinancialStep

LEMMA FetchStep ==
  ASSUME Types, FetchInv, [PrepNext]_prepVars
  PROVE  FetchInv'
<1>0. Types' /\ StoredIs /\ StoredIs' /\ Grows
  BY TypesStep, GrowsStep
<1>1. ASSUME NEW j \in Jobs, NEW p \in Procs, Take(j, p) PROVE FetchInv'
  BY <1>0, <1>1, TakeFetches
<1>2. ASSUME NEW j \in Jobs, FinancialStep(j) PROVE FetchInv'
  BY <1>0, <1>2, FinancialFetches
<1>3. ASSUME NEW j \in Jobs, NEW s \in Stages \ Early, main[j] # "queued",
             home' = home, done' = done, fetchLock' = fetchLock, fin' = fin,
             main' = [main EXCEPT ![j] = s]
      PROVE  FetchInv'
  <2>1. \A k \in Jobs : /\ main'[k] = "queued" <=> main[k] = "queued"
                        /\ main'[k] \in Early => main[k] \in Early
    BY <1>3 DEF Types, Early
  <2> QED
    BY <1>0, <1>3, <2>1, FetchStays DEF Fetching, Fetched
<1>4. ASSUME NEW j \in Jobs, Enter(j) PROVE FetchInv'
  <2>1. CASE stock.supported
    <3>1. /\ home' = home /\ done' = done /\ fetchLock' = fetchLock
          /\ main' = [main EXCEPT ![j] = "gather"] /\ fin' = [fin EXCEPT ![j] = "start"]
          /\ main[j] = "waiting"
      BY <1>4, <2>1 DEF Enter
    <3>2. \A k \in Jobs : /\ main'[k] = "queued" <=> main[k] = "queued"
                          /\ main'[k] \in Early => main[k] \in Early /\ fin'[k] = fin[k]
      BY <3>1 DEF Types, Early
    <3>3. fin'[j] = "start" /\ \A k \in Jobs : k # j => fin'[k] = fin[k]
      BY <3>1 DEF Types
    <3>4. ~Fetching(j)
      BY <3>1 DEF FetchInv, Idle, Early, Fetching
    <3> QED
      BY <1>0, <3>1, <3>2, <3>3, <3>4, FetchStays DEF Fetching, Fetched
  <2>2. CASE ~stock.supported
    BY <1>3, <1>4, <2>2 DEF Enter, Stages, Early
  <2> QED
    BY <2>1, <2>2
<1>5. ASSUME NEW j \in Jobs, ClassificationStep(j) PROVE FetchInv'
  <2>1. home' = home /\ done' = done /\ fetchLock' = fetchLock /\ fin' = fin /\ main' = main
    BY <1>5 DEF ClassificationStep, ClsTo
  <2> QED
    BY <1>0, <2>1, FetchStays DEF Fetching, Fetched
<1>6. ASSUME NEW j \in Jobs, Gathered(j) \/ PeerStep(j) \/ MarketStep(j) \/ Fault(j) PROVE FetchInv'
  BY <1>3, <1>6 DEF Gathered, PeerStep, MarketStep, Fault, Step, locks, Stages, Early
<1>7. ASSUME NEW j \in Jobs, ReadCorpus(j) \/ ReadRows(j) \/ ReadHistories(j) \/ Persist(j)
      PROVE  FetchInv'
  BY <1>3, <1>7 DEF ReadCorpus, ReadRows, ReadHistories, Persist, Step, locks, Stages, Early
<1>8. CASE Taint \/ UNCHANGED prepVars
  <2>1. home' = home /\ done' = done /\ fetchLock' = fetchLock /\ fin' = fin /\ main' = main
    BY <1>8 DEF Taint, prepVars, locks
  <2> QED
    BY <1>0, <2>1, FetchStays DEF Fetching, Fetched
<1> QED
  BY <1>1, <1>2, <1>4, <1>5, <1>6, <1>7, <1>8 DEF PrepNext, CallStep
LEMMA FetchesHold ==
  ASSUME Types, BundleIsHeld, FetchInv
  PROVE  PrepInv
<1>1. PrepTypeOK
  BY TypesAre
<1>2. FetchIsExclusive
  BY DEF FetchIsExclusive, FetchInv, LocksAreFetches, Fetching
<1>3. SharedFetch
  BY DEF SharedFetch, FetchInv, Shared, Fetched
<1> QED
  BY <1>1, <1>2, <1>3 DEF PrepInv

LEMMA PrepStarts ==
  ASSUME PrepInit
  PROVE  Types /\ BundleIsHeld /\ FetchInv
<1>1. Types
  <2>1. stock \in Stocks /\ stored \in [Docs -> 0..3] /\ class \in {"none", "old", "new"}
    BY DEF PrepInit
  <2>5. peers \in BOOLEAN /\ clean \in BOOLEAN /\ prepared \in BOOLEAN \cup {None}
    BY Zenon DEF PrepInit
  <2>2. home \in [Jobs -> Procs \cup {None}] /\ main \in [Jobs -> Stages]
        /\ done \in [Jobs -> Nat] /\ faults \in 0..MaxFaults
    BY PreparationAssumption DEF PrepInit, Stages
  <2>3. cls \in [Jobs -> ClsStates] /\ fin \in [Jobs -> FinStates]
    BY DEF PrepInit, ClsStates, FinStates
  <2>4. bundleLock \in [Procs -> Jobs \cup {None}] /\ fetchLock \in [Procs -> Jobs \cup {None}]
    BY DEF PrepInit
  <2> QED
    BY <2>1, <2>2, <2>3, <2>4, <2>5 DEF Types
<1>2. BundleIsHeld
  BY PreparationAssumption DEF PrepInit, BundleIsHeld
<1>3. \A j \in Jobs : ~Fetching(j) /\ ~Fetched(j)
  BY DEF PrepInit, Fetching, Fetched
<1>4. Idle /\ Progress /\ Shared
  BY <1>3 DEF PrepInit, Idle, Progress, Shared
<1>5. LocksAreFetches
  BY <1>3, PreparationAssumption DEF PrepInit, LocksAreFetches
<1> QED
  BY <1>1, <1>2, <1>3, <1>4, <1>5 DEF FetchInv, PrepInit

-----------------------------------------------------------------------------
(* Reports: a review reads the history, and what it read stays true.       *)

LEMMA ReportStep ==
  ASSUME Types, ReportIsTrue, [PrepNext]_prepVars
  PROVE  ReportIsTrue'
<1>1. StoredIs /\ StoredIs' /\ Grows
  BY GrowsStep
<1>2. ASSUME NEW k \in Jobs, fin'[k] \in Usable PROVE fin[k] \in Usable \/ FinancialComplete(History)
  <2>1. ASSUME NEW j \in Jobs, FinancialStep(j) PROVE fin[k] \in Usable \/ FinancialComplete(History)
    <3>1. CASE Covered(j) \/ Review(j)
      BY <1>2, <3>1 DEF Covered, Review, FinTo, Usable, Types
    <3>2. CASE Ask(j) \/ EnterFetch(j) \/ Ingest(j) \/ Abort(j)
      BY <1>2, <3>2 DEF Ask, EnterFetch, Ingest, Abort, FinTo, Usable, Types
    <3> QED
      BY <2>1, <3>1, <3>2 DEF FinancialStep
  <2>2. ASSUME NEW j \in Jobs, Enter(j) PROVE fin[k] \in Usable
    BY <1>2, <2>2 DEF Enter, Usable, Types
  <2>3. CASE fin' = fin
    BY <1>2, <2>3
  <2>4. ASSUME NEW j \in Jobs, NEW p \in Procs, Take(j, p) PROVE fin' = fin
    BY <2>4 DEF Take
  <2>5. ASSUME NEW j \in Jobs,
               Fault(j) \/ ClassificationStep(j) \/ Gathered(j) \/ PeerStep(j) \/ MarketStep(j)
        PROVE  fin' = fin
    BY <2>5 DEF Fault, ClassificationStep, ClsTo, Gathered, PeerStep, MarketStep
  <2>6. ASSUME NEW j \in Jobs, ReadCorpus(j) \/ ReadRows(j) \/ ReadHistories(j) \/ Persist(j)
        PROVE  fin' = fin
    BY <2>6 DEF ReadCorpus, ReadRows, ReadHistories, Persist
  <2>7. ASSUME Taint \/ UNCHANGED prepVars PROVE fin' = fin
    BY <2>7 DEF Taint, prepVars
  <2> QED
    BY <2>1, <2>2, <2>3, <2>4, <2>5, <2>6, <2>7 DEF PrepNext, CallStep
<1>3. FinancialComplete(History) => FinancialComplete(History)'
  BY <1>1, CompleteStays
<1> QED
  BY <1>2, <1>3 DEF ReportIsTrue

\* Locks hold whom they protect, a fetch is exclusive in its process and shared
\* by its calls, for all processes, calls, securities, documents and faults.
THEOREM PreparationsHold == PrepSpec => []PrepInv
<1>1. PrepInit => Types /\ BundleIsHeld /\ FetchInv
  BY PrepStarts
<1>2. Types /\ BundleIsHeld /\ FetchInv /\ [PrepNext]_prepVars => (Types /\ BundleIsHeld /\ FetchInv)'
  BY TypesStep, BundleStep, FetchStep
<1>3. Types /\ BundleIsHeld /\ FetchInv => PrepInv
  BY FetchesHold
<1> QED
  BY <1>1, <1>2, <1>3, PTL DEF PrepSpec

\* No bundle calls a history usable that does not meet the policy, whatever the
\* cache calls a hit and other calls store meanwhile.
THEOREM ReportsAreTrue == PrepSpec => []ReportIsTrue
<1>1. PrepInit => Types /\ ReportIsTrue
  BY PrepStarts DEF PrepInit, ReportIsTrue, Usable
<1>2. Types /\ ReportIsTrue /\ [PrepNext]_prepVars => (Types /\ ReportIsTrue)'
  BY TypesStep, ReportStep
<1> QED
  BY <1>1, <1>2, PTL DEF PrepSpec
-----------------------------------------------------------------------------
(* The gate: what it reads one by one was true when it was read, and stays *)
(* true, because rows are only added.                                      *)

Gated == {"mapped", "classified", "financial", "earnings", "technical", "peer"}

HasEarnings == \E d \in Evident : Age(d) <= 220
HasResults == \E d \in Sourced : Age(d) \in 0..200

Whole ==
  /\ HasEarnings /\ HasResults
  /\ Cardinality(Sourced) >= RequiredPeriods(stock.listed)
  /\ peers /\ class # "none" /\ stock.bar <= 7 /\ stock.mapped

SeenIs(j) ==
  /\ main[j] = "corpus" => seen[j] \subseteq {"clean"}
  /\ main[j] = "rows" =>
       /\ seen[j] \subseteq {"clean", "mapped", "classified", "filing", "earnings"}
       /\ "mapped" \in seen[j] => stock.mapped
       /\ "classified" \in seen[j] => class # "none"
       /\ "earnings" \in seen[j] => HasEarnings

Passed == stock.production /\ ((\E j \in Jobs : main[j] \in {"ready", "agents"}) \/ prepared = TRUE)

GateInv ==
  /\ seen \in [Jobs -> SUBSET (Universal \cup {"clean"})]
  /\ \A j \in Jobs : SeenIs(j)
  /\ Passed => Whole

\* The contract of the agents asks for each of these.
LEMMA ReadyCovers ==
  ASSUME NEW a, NEW k, NEW s, SecurityReady(a, k, s), NEW r \in Gated
  PROVE  a.covered[r] = a.total
<1>1. \E g \in Specialists : r \in Requirements[g]
  <2>1. "mapped" \in Requirements["entity"] /\ "entity" \in Specialists
    BY DEF Requirements, Specialists
  <2>2. {"classified", "peer"} \subseteq Requirements["industry"] /\ "industry" \in Specialists
    BY DEF Requirements, Specialists
  <2>3. "financial" \in Requirements["financials"] /\ "financials" \in Specialists
    BY DEF Requirements, Specialists
  <2>4. "earnings" \in Requirements["earnings"] /\ "earnings" \in Specialists
    BY DEF Requirements, Specialists
  <2>5. "technical" \in Requirements["technical"] /\ "technical" \in Specialists
    BY DEF Requirements, Specialists
  <2> QED
    BY <2>1, <2>2, <2>3, <2>4, <2>5 DEF Gated
<1>2. Holds(r, a, k, s, 1)
  BY <1>1 DEF SecurityReady, AgentsReady
<1>3. r \in Universal
  BY DEF Gated, Universal
<1>4. \A q \in Gated : q \notin {"universe", "benchmarks", "macro", "market_fresh",
                                "benchmark_fresh", "macro_fresh", "web", "sources", "chunks"}
  BY DEF Gated
<1>5. Holds(r, a, k, s, 1) = (a.total > 0 /\ a.covered[r] = a.total)
  BY <1>3, <1>4 DEF Holds
<1> QED
  BY <1>2, <1>5

LEMMA WholeStays ==
  ASSUME StoredIs, StoredIs', Grows
  PROVE  (HasEarnings => HasEarnings') /\ (Whole => Whole')
<1>1. HasEarnings => HasEarnings'
  <2>1. Evident \subseteq Docs
    BY DEF Evident
  <2> QED
    BY <2>1, SourcesGrow DEF HasEarnings
<1>2. HasResults => HasResults'
  <2>1. Sourced \subseteq Docs
    BY DEF Sourced
  <2> QED
    BY <2>1, SourcesGrow DEF HasResults
<1>3. Cardinality(Sourced) >= RequiredPeriods(stock.listed)
        => Cardinality(Sourced)' >= RequiredPeriods(stock.listed)'
  <2>1. RequiredPeriods(stock.listed)' = RequiredPeriods(stock.listed)
        /\ RequiredPeriods(stock.listed) \in Nat
    BY StockIs, PeriodsAre DEF Grows, StoredIs
  <2>2. Cardinality(Sourced) \in Nat /\ Cardinality(Sourced') \in Nat
        /\ Cardinality(Sourced) <= Cardinality(Sourced')
    <3>1. (StoredIs => Cardinality(Sourced) \in Nat)'
      BY SourcesAre, PTL
    <3> QED
      BY <3>1, SourcesAre, SourcesGrow
  <2> QED
    BY <2>1, <2>2
<1>4. (peers => peers') /\ (class # "none" => class' # "none") /\ stock' = stock
  BY DEF Grows
<1> QED
  BY <1>1, <1>2, <1>3, <1>4, Zenon DEF Whole

\* A verdict that is positive: each fact was seen, or is read now.
LEMMA ReadyIsWhole ==
  ASSUME Types, NEW j \in Jobs, SeenIs(j), main[j] = "rows", ~FinancialRaises(History),
         SecurityReady(Coverage(j), Corpus(j), Settings)
  PROVE  Whole
<1> DEFINE now == seen[j] \cup {r \in {"financial"} : FinancialComplete(History)}
                     \cup {r \in {"technical"} : stock.bar <= 7} \cup {r \in {"peer"} : peers}
<1>1. \A r \in Gated : Coverage(j).covered[r] = Coverage(j).total
  BY ReadyCovers
<1>2. Coverage(j).total = 1
      /\ \A r \in Universal : Coverage(j).covered[r] = IF r \in now THEN 1 ELSE 0
  BY DEF Coverage
<1>3. Gated \subseteq Universal
  BY DEF Gated, Universal
<1>4. Gated \subseteq now
  <2> HIDE DEF now
  <2> QED
    BY <1>1, <1>2, <1>3
<1>5. seen[j] \subseteq {"clean", "mapped", "classified", "filing", "earnings"}
  BY DEF SeenIs
<1>6. FinancialComplete(History) /\ stock.bar <= 7 /\ peers
  BY <1>4, <1>5, Zenon DEF Gated
<1>7. "mapped" \in seen[j] /\ "classified" \in seen[j] /\ "earnings" \in seen[j]
  BY <1>4 DEF Gated
<1>8. stock.mapped /\ class # "none" /\ HasEarnings
  BY <1>7 DEF SeenIs
<1>9. /\ ~(Cardinality(Sourced) < RequiredPeriods(stock.listed))
      /\ ~((IF Sourced = {} THEN 0 ELSE 6) < 6)
      /\ ~(History.latest > 200)
  BY <1>6, CompleteIs
<1>10. StoredIs
  BY DEF Types, StoredIs
<1>11. HasResults
  <2>1. PICK d \in Sourced : History.latest = Age(d)
    BY <1>9, <1>10, LatestIs DEF LatestIsNewest
  <2>2. Age(d) \in Int
    BY <1>10, SourcesAre, AgesAre
  <2> QED
    BY <1>9, <2>1, <2>2 DEF HasResults, FinancialRaises
<1>12. Cardinality(Sourced) >= RequiredPeriods(stock.listed)
  BY <1>9, <1>10, SourcesAre, StockIs, PeriodsAre DEF StoredIs
<1> QED
  BY <1>6, <1>8, <1>11, <1>12 DEF Whole
\* The stages of which GateInv says something.
Judged == {"corpus", "rows", "ready", "agents"}

LEMMA SeenStays ==
  ASSUME StoredIs, StoredIs', Grows, NEW k \in Jobs, SeenIs(k), seen'[k] = seen[k],
         main'[k] = main[k] \/ main'[k] \notin Judged
  PROVE  SeenIs(k)'
<1>1. HasEarnings => HasEarnings'
  BY WholeStays
<1>2. stock' = stock /\ (class # "none" => class' # "none")
  BY DEF Grows
<1> QED
  BY <1>1, <1>2 DEF SeenIs, Judged

LEMMA GateStays ==
  ASSUME StoredIs, StoredIs', Grows, GateInv, seen' = seen, prepared' = prepared,
         \A k \in Jobs : main'[k] = main[k] \/ main'[k] \notin Judged
  PROVE  GateInv'
<1>1. \A k \in Jobs : SeenIs(k)'
  BY SeenStays DEF GateInv
<1>2. Passed' => Passed
  <2>1. stock' = stock
    BY DEF Grows
  <2> QED
    BY <2>1 DEF Passed, Judged
<1>3. Whole => Whole'
  BY WholeStays
<1> QED
  BY <1>1, <1>2, <1>3 DEF GateInv

LEMMA ReadCorpusGate ==
  ASSUME Types, StoredIs, StoredIs', Grows, GateInv, NEW j \in Jobs, ReadCorpus(j)
  PROVE  GateInv'
<1>1. seen' = [seen EXCEPT ![j] = IF clean THEN {"clean"} ELSE {}] /\ prepared' = prepared
      /\ stock' = stock
  BY DEF ReadCorpus, data
<1>2. main' = [main EXCEPT ![j] = IF ~stock.production THEN "agents"
                                  ELSE IF ~stock.supported THEN "raised" ELSE "corpus"]
  BY DEF ReadCorpus
<1>3. seen' \in [Jobs -> SUBSET (Universal \cup {"clean"})]
  BY <1>1 DEF GateInv
<1>4. \A k \in Jobs : SeenIs(k)'
  <2>1. ASSUME NEW k \in Jobs, k # j PROVE SeenIs(k)'
    <3>1. seen'[k] = seen[k] /\ main'[k] = main[k]
      BY <1>1, <1>2, <2>1 DEF GateInv, Types
    <3> QED
      BY <3>1, SeenStays DEF GateInv
  <2>2. main'[j] # "rows" /\ seen'[j] \subseteq {"clean"}
    BY <1>1, <1>2 DEF GateInv, Types
  <2>3. SeenIs(j)'
    BY <2>2 DEF SeenIs
  <2> QED
    BY <2>1, <2>3
<1>5. Passed' => Passed
  BY <1>1, <1>2 DEF Passed, Types
<1>6. Whole => Whole'
  BY WholeStays
<1> QED
  BY <1>3, <1>4, <1>5, <1>6 DEF GateInv

LEMMA ReadRowsGate ==
  ASSUME Types, StoredIs, StoredIs', Grows, GateInv, NEW j \in Jobs, ReadRows(j)
  PROVE  GateInv'
<1> DEFINE mapped == {r \in {"mapped"} : stock.mapped}
           classified == {r \in {"classified"} : Classified(Security, stock.policy)}
           filing == {r \in {"filing"} : \E d \in Evident : Age(d) <= 400}
           earnings == {r \in {"earnings"} : \E d \in Evident : Age(d) <= 220}
<1>1. seen' = [seen EXCEPT ![j] = @ \cup mapped \cup classified \cup filing \cup earnings]
      /\ prepared' = prepared /\ stock' = stock
      /\ main[j] = "corpus" /\ main' = [main EXCEPT ![j] = "rows"]
  BY DEF ReadRows, Step, data
<1>2. /\ mapped \subseteq {"mapped"} /\ classified \subseteq {"classified"}
      /\ filing \subseteq {"filing"} /\ earnings \subseteq {"earnings"}
  OBVIOUS
<1>3. /\ "mapped" \in mapped => stock.mapped
      /\ "classified" \in classified => class # "none"
      /\ "earnings" \in earnings => HasEarnings
  <2>1. Classified(Security, stock.policy) => Security.sector
    BY Zenon DEF Classified
  <2>2. Security.sector = (class # "none")
    BY DEF Security
  <2>3. Classified(Security, stock.policy) => class # "none"
    BY <2>1, <2>2, Zenon
  <2> QED
    BY <2>3, Zenon DEF HasEarnings
<1> HIDE DEF mapped, classified, filing, earnings
<1>4. seen[j] \subseteq {"clean"}
  BY <1>1 DEF GateInv, SeenIs
<1>5. seen'[j] = seen[j] \cup mapped \cup classified \cup filing \cup earnings
      /\ main'[j] = "rows"
  BY <1>1 DEF GateInv, Types
<1>6. seen' \in [Jobs -> SUBSET (Universal \cup {"clean"})]
  <2>1. seen'[j] \in SUBSET (Universal \cup {"clean"})
    BY <1>2, <1>4, <1>5 DEF Universal
  <2> QED
    BY <1>1, <2>1 DEF GateInv
<1>7. \A k \in Jobs : SeenIs(k)'
  <2>1. ASSUME NEW k \in Jobs, k # j PROVE SeenIs(k)'
    <3>1. seen'[k] = seen[k] /\ main'[k] = main[k]
      BY <1>1, <2>1 DEF GateInv, Types
    <3> QED
      BY <3>1, SeenStays DEF GateInv
  <2>2. /\ seen'[j] \subseteq {"clean", "mapped", "classified", "filing", "earnings"}
        /\ "mapped" \in seen'[j] => stock.mapped
        /\ "classified" \in seen'[j] => class # "none"
        /\ "earnings" \in seen'[j] => HasEarnings
    BY <1>2, <1>3, <1>4, <1>5
  <2>3. SeenIs(j)'
    <3>1. HasEarnings => HasEarnings'
      BY WholeStays
    <3>2. stock' = stock /\ (class # "none" => class' # "none")
      BY DEF Grows
    <3> QED
      BY <1>5, <2>2, <3>1, <3>2 DEF SeenIs
  <2> QED
    BY <2>1, <2>3
<1>8. Passed' => Passed
  BY <1>1 DEF Passed, Types
<1>9. Whole => Whole'
  BY WholeStays
<1> QED
  BY <1>6, <1>7, <1>8, <1>9 DEF GateInv

LEMMA ReadHistoriesGate ==
  ASSUME Types, StoredIs, StoredIs', Grows, GateInv, NEW j \in Jobs, ReadHistories(j)
  PROVE  GateInv'
<1>1. /\ main[j] = "rows" /\ prepared' = prepared /\ stock' = stock
      /\ seen' = [seen EXCEPT ![j] = {}]
      /\ main' = [main EXCEPT ![j] = IF FinancialRaises(History) THEN "raised"
                    ELSE IF SecurityReady(Coverage(j), Corpus(j), Settings) THEN "ready" ELSE "unready"]
  BY DEF ReadHistories, data
<1>2. seen' \in [Jobs -> SUBSET (Universal \cup {"clean"})]
  BY <1>1 DEF GateInv
<1>3. \A k \in Jobs : SeenIs(k)'
  <2>1. ASSUME NEW k \in Jobs, k # j PROVE SeenIs(k)'
    <3>1. seen'[k] = seen[k] /\ main'[k] = main[k]
      BY <1>1, <2>1 DEF GateInv, Types
    <3> QED
      BY <3>1, SeenStays DEF GateInv
  <2>2. main'[j] \notin {"corpus", "rows"}
    BY <1>1 DEF Types
  <2>3. SeenIs(j)'
    BY <2>2 DEF SeenIs
  <2> QED
    BY <2>1, <2>3
<1>4. CASE main'[j] = "ready"
  <2>1. ~FinancialRaises(History) /\ SecurityReady(Coverage(j), Corpus(j), Settings)
    BY <1>1, <1>4 DEF Types
  <2>2. Whole
    BY <1>1, <2>1, ReadyIsWhole DEF GateInv
  <2> QED
    BY <1>2, <1>3, <2>2, WholeStays DEF GateInv
<1>5. CASE main'[j] # "ready"
  <2>1. main'[j] \notin {"ready", "agents"} /\ \A k \in Jobs : k # j => main'[k] = main[k]
    BY <1>1, <1>5 DEF Types
  <2>2. Passed' => Passed
    BY <1>1, <2>1 DEF Passed
  <2> QED
    BY <1>2, <1>3, <2>2, WholeStays DEF GateInv
<1> QED
  BY <1>4, <1>5

LEMMA PersistGate ==
  ASSUME Types, StoredIs, StoredIs', Grows, GateInv, NEW j \in Jobs, Persist(j)
  PROVE  GateInv'
<1>1. /\ prepared' = (main[j] = "ready") /\ stock' = stock /\ seen' = seen
      /\ main' = [main EXCEPT ![j] = IF main[j] = "ready" THEN "agents" ELSE "not_ready"]
  BY DEF Persist
<1>2. \A k \in Jobs : SeenIs(k)'
  <2>1. ASSUME NEW k \in Jobs, k # j PROVE SeenIs(k)'
    BY <1>1, <2>1, SeenStays DEF GateInv, Types
  <2>2. main'[j] \notin {"corpus", "rows"}
    BY <1>1 DEF Types
  <2> QED
    BY <2>1, <2>2 DEF SeenIs
<1>3. Passed' => Passed
  <2>1. ASSUME main[j] = "ready" PROVE Passed' => Passed
    BY <1>1, <2>1 DEF Passed
  <2>2. ASSUME main[j] # "ready" PROVE Passed' => Passed
    <3>1. prepared' = FALSE /\ main'[j] = "not_ready" /\ \A k \in Jobs : k # j => main'[k] = main[k]
      BY <1>1, <2>2 DEF Types
    <3> QED
      BY <1>1, <3>1 DEF Passed
  <2> QED
    BY <2>1, <2>2
<1>4. Whole => Whole'
  BY WholeStays
<1> QED
  BY <1>1, <1>2, <1>3, <1>4 DEF GateInv
LEMMA GateStep ==
  ASSUME Types, GateInv, [PrepNext]_prepVars
  PROVE  GateInv'
<1>0. StoredIs /\ StoredIs' /\ Grows
  BY GrowsStep
<1>1. ASSUME NEW j \in Jobs, NEW s \in Stages \ Judged, seen' = seen, prepared' = prepared,
             main' = [main EXCEPT ![j] = s]
      PROVE  GateInv'
  <2>1. \A k \in Jobs : main'[k] = main[k] \/ main'[k] \notin Judged
    BY <1>1 DEF Types
  <2> QED
    BY <1>0, <1>1, <2>1, GateStays
<1>2. ASSUME NEW j \in Jobs, NEW p \in Procs, Take(j, p) PROVE GateInv'
  BY <1>1, <1>2 DEF Take, Step, data, Stages, Judged
<1>3. ASSUME NEW j \in Jobs, Enter(j) PROVE GateInv'
  BY <1>1, <1>3 DEF Enter, data, Stages, Judged
<1>4. ASSUME NEW j \in Jobs, ClassificationStep(j) \/ FinancialStep(j) PROVE GateInv'
  <2>1. seen' = seen /\ prepared' = prepared /\ main' = main
    BY <1>4 DEF ClassificationStep, FinancialStep
  <2> QED
    BY <1>0, <2>1, GateStays
<1>5. ASSUME NEW j \in Jobs, Gathered(j) \/ PeerStep(j) \/ MarketStep(j) \/ Fault(j) PROVE GateInv'
  BY <1>1, <1>5 DEF Gathered, PeerStep, MarketStep, Fault, Step, data, Stages, Judged
<1>6. ASSUME NEW j \in Jobs, ReadCorpus(j) \/ ReadRows(j) \/ ReadHistories(j) \/ Persist(j)
      PROVE  GateInv'
  BY <1>0, <1>6, ReadCorpusGate, ReadRowsGate, ReadHistoriesGate, PersistGate
<1>7. CASE Taint \/ UNCHANGED prepVars
  <2>1. seen' = seen /\ prepared' = prepared /\ main' = main
    BY <1>7 DEF Taint, prepVars, data
  <2> QED
    BY <1>0, <2>1, GateStays
<1> QED
  BY <1>2, <1>3, <1>4, <1>5, <1>6, <1>7 DEF PrepNext, CallStep

LEMMA GateStarts ==
  ASSUME PrepInit
  PROVE  GateInv
<1>1. seen \in [Jobs -> SUBSET (Universal \cup {"clean"})]
  BY DEF PrepInit
<1>2. \A j \in Jobs : main[j] = "queued"
  BY DEF PrepInit
<1>3. ~(prepared = TRUE)
  BY PreparationAssumption, Zenon DEF PrepInit
<1> QED
  BY <1>1, <1>2, <1>3 DEF GateInv, SeenIs, Passed

LEMMA GateHolds ==
  ASSUME GateInv
  PROVE  AgentsSawWholeData
BY DEF GateInv, Passed, Whole, HasEarnings, HasResults, AgentsSawWholeData

\* In production nobody runs agents, or marks a security ready, before its data
\* are whole, although the gate reads them in transactions of its own while any
\* number of other calls write.
THEOREM AgentsRunOnWholeData == PrepSpec => []AgentsSawWholeData
<1>1. PrepInit => Types /\ GateInv
  BY PrepStarts, GateStarts
<1>2. Types /\ GateInv /\ [PrepNext]_prepVars => (Types /\ GateInv)'
  BY TypesStep, GateStep
<1>3. GateInv => AgentsSawWholeData
  BY GateHolds
<1> QED
  BY <1>1, <1>2, <1>3, PTL DEF PrepSpec
=============================================================================
