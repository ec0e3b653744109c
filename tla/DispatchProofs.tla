---------------------------- MODULE DispatchProofs ----------------------------
(* What intake and dispatch are proved to do for every number of callers,     *)
(* owners, events, days and failures, in two parts: the books of the daily    *)
(* quotas balance but for the releases that slip, and a run of an event       *)
(* passes nobody over.                                                        *)
EXTENDS EventDispatch, Integers, FiniteSetTheorems, TLAPS

-----------------------------------------------------------------------------
\* A call that has a unit of the owner's quota and no job to show for it yet.
Weighs(c, u, d, k) ==
  /\ call[c].at = "create" \/ (call[c].at = "release" /\ ~call[c].inserted)
  /\ call[c].user = u /\ call[c].day = d /\ k \in KindsOf(call[c])
Pending(u, d, k) == {c \in Callers : Weighs(c, u, d, k)}

\* What weighs on a counter: jobs, and units under way.
Load(u, d, k) == Cardinality(Charged(u, d, k)) + Cardinality(Pending(u, d, k))
Weight(c, u, d, k) == IF Weighs(c, u, d, k) THEN 1 ELSE 0

\* What a call says of itself.
CallOK(x) ==
  /\ x \in Call
  /\ x.day <= today
  /\ x.at \in {"reserve", "create"} => ~x.inserted
  /\ x.at # "idle" => x.user \in Users
  /\ x.at = "release" => x.why \in {"duplicate", "failed"}

\* The jobs are numbered in the order of their insertion.
Numbered == IsFiniteSet(jobs) /\ \A j \in jobs : j.id \in 1..Cardinality(jobs)

\* A counter is within its limit, and covers the jobs that weigh on it and the
\* units under way, but for the units that slipped.
Covered ==
  \A u \in Users, d \in Days, k \in Kinds :
    /\ used[u][d][k] <= Limit[k]
    /\ Load(u, d, k) <= used[u][d][k] + slips[u][d]

\* While nothing goes wrong it counts them exactly.
Quiet == faults = 0 /\ crashes = 0 /\ today = 1
Exact ==
  Quiet => /\ \A c \in Callers : ~call[c].inserted
           /\ \A u \in Users, k \in Kinds : used[u][1][k] = Load(u, 1, k)

\* The inductive invariant.  The units under way belong to the balance: between
\* the reservation and the insert a counter is ahead of the jobs.
Books ==
  /\ IntakeTypeOK
  /\ \A c \in Callers : CallOK(call[c])
  /\ Numbered
  /\ Covered
  /\ Exact

-----------------------------------------------------------------------------
\* Cardinalities are numbers: the callers are finitely many, and so are the jobs.
LEMMA PendingFinite ==
  ASSUME NEW u, NEW d, NEW k
  PROVE  IsFiniteSet(Pending(u, d, k)) /\ Cardinality(Pending(u, d, k)) \in Nat
BY IntakeAssumption, FS_Subset, FS_CardinalityType DEF Pending

LEMMA ChargedFinite ==
  ASSUME Numbered, NEW u, NEW d, NEW k
  PROVE  IsFiniteSet(Charged(u, d, k)) /\ Cardinality(Charged(u, d, k)) \in Nat
BY FS_Subset, FS_CardinalityType DEF Charged, Numbered

\* A step of one call adds it to the units under way or takes it from them.
LEMMA PendingStep ==
  ASSUME IntakeTypeOK, NEW c \in Callers, call' = [call EXCEPT ![c] = call'[c]],
         NEW u, NEW d, NEW k
  PROVE  Cardinality(Pending(u, d, k)') =
           Cardinality(Pending(u, d, k)) + Weight(c, u, d, k)' - Weight(c, u, d, k)
<1> DEFINE others == Pending(u, d, k) \ {c}
<1>1. IsFiniteSet(others) /\ Cardinality(others) \in Nat /\ c \notin others
  BY PendingFinite, FS_RemoveElement, FS_CardinalityType
<1>2. Pending(u, d, k) = IF Weighs(c, u, d, k) THEN others \cup {c} ELSE others
  BY DEF Pending
<1>3. Pending(u, d, k)' = IF Weighs(c, u, d, k)' THEN others \cup {c} ELSE others
  <2>1. \A b \in Callers : b # c => call'[b] = call[b]
    BY DEF IntakeTypeOK
  <2>2. \A b \in Callers : b # c => (Weighs(b, u, d, k)' <=> Weighs(b, u, d, k))
    BY <2>1 DEF Weighs, KindsOf
  <2> QED
    BY <2>2 DEF Pending
<1> HIDE DEF others
<1>4. Cardinality(others \cup {c}) = Cardinality(others) + 1
  BY <1>1, FS_AddElement
<1>5. Cardinality(Pending(u, d, k)) = Cardinality(others) + Weight(c, u, d, k)
  BY <1>1, <1>2, <1>4 DEF Weight
<1>6. Cardinality(Pending(u, d, k)') = Cardinality(others) + Weight(c, u, d, k)'
  BY <1>1, <1>3, <1>4 DEF Weight
<1>7. Weight(c, u, d, k) \in 0..1 /\ Weight(c, u, d, k)' \in 0..1
  BY DEF Weight
<1> QED
  BY <1>1, <1>5, <1>6, <1>7

\* A job is inserted under a number of its own.
LEMMA InsertStep ==
  ASSUME Numbered, NEW j, j.id = Cardinality(jobs) + 1, jobs' = jobs \cup {j}
  PROVE  /\ Numbered'
         /\ \A u, d, k :
              Cardinality(Charged(u, d, k)') =
                Cardinality(Charged(u, d, k))
                  + (IF j.user = u /\ j.day = d /\ k \in KindsOf(j) THEN 1 ELSE 0)
<1>1. Cardinality(jobs) \in Nat
  BY FS_CardinalityType DEF Numbered
<1>2. j \notin jobs
  BY <1>1 DEF Numbered
<1>3. IsFiniteSet(jobs') /\ Cardinality(jobs') = Cardinality(jobs) + 1
  BY <1>2, FS_AddElement DEF Numbered
<1>4. ASSUME NEW i \in jobs' PROVE i.id \in 1..Cardinality(jobs')
  <2>1. CASE i = j
    BY <1>1, <1>3, <2>1
  <2>2. CASE i \in jobs
    <3>1. i.id \in 1..Cardinality(jobs)
      BY <2>2 DEF Numbered
    <3> QED
      BY <1>1, <1>3, <3>1
  <2> QED
    BY <1>4, <2>1, <2>2
<1>5. ASSUME NEW u, NEW d, NEW k
      PROVE  Cardinality(Charged(u, d, k)') =
               Cardinality(Charged(u, d, k))
                 + (IF j.user = u /\ j.day = d /\ k \in KindsOf(j) THEN 1 ELSE 0)
  <2>1. Charged(u, d, k)' =
          IF j.user = u /\ j.day = d /\ k \in KindsOf(j) THEN Charged(u, d, k) \cup {j} ELSE Charged(u, d, k)
    BY DEF Charged, KindsOf
  <2>2. j \notin Charged(u, d, k)
    BY <1>2 DEF Charged
  <2> QED
    BY <2>1, <2>2, ChargedFinite, FS_AddElement
<1> QED
  BY <1>3, <1>4, <1>5 DEF Numbered

\* What reserve adds, and what release takes away.
LEMMA ChargeStep ==
  ASSUME IntakeTypeOK, NEW c \in Callers, call[c].user \in Users
  PROVE  /\ Charge(c) \in [Users -> [Days -> [Kinds -> Nat]]]
         /\ \A u \in Users, d \in Days, k \in Kinds :
              Charge(c)[u][d][k] =
                used[u][d][k] + (IF call[c].user = u /\ today = d /\ k \in KindsOf(call[c]) THEN 1 ELSE 0)
<1> DEFINE row == used[call[c].user][today]
           more == [k \in Kinds |-> IF k \in KindsOf(call[c]) THEN row[k] + 1 ELSE row[k]]
<1>1. /\ row \in [Kinds -> Nat] /\ today \in Days
      /\ used \in [Users -> [Days -> [Kinds -> Nat]]]
  BY DEF IntakeTypeOK
<1>2. Charge(c) = [used EXCEPT ![call[c].user][today] = more]
  BY DEF Charge
<1>3. more \in [Kinds -> Nat]
  BY <1>1
<1>4. \A k \in Kinds : more[k] = row[k] + (IF k \in KindsOf(call[c]) THEN 1 ELSE 0)
  BY <1>1
<1> HIDE DEF more
<1>5. Charge(c) \in [Users -> [Days -> [Kinds -> Nat]]]
  BY <1>1, <1>2, <1>3
<1>6. ASSUME NEW u \in Users, NEW d \in Days, NEW k \in Kinds
      PROVE  Charge(c)[u][d][k] =
               used[u][d][k] + (IF call[c].user = u /\ today = d /\ k \in KindsOf(call[c]) THEN 1 ELSE 0)
  <2>1. CASE call[c].user = u /\ today = d
    BY <1>1, <1>2, <1>4, <2>1
  <2>2. CASE ~(call[c].user = u /\ today = d)
    <3>1. Charge(c)[u][d] = used[u][d]
      BY <1>1, <1>2, <2>2
    <3>2. used[u][d][k] \in Nat
      BY <1>1
    <3> QED
      BY <2>2, <3>1, <3>2
  <2> QED
    BY <2>1, <2>2
<1> QED
  BY <1>5, <1>6

LEMMA RefundStep ==
  ASSUME IntakeTypeOK, NEW c \in Callers, call[c].user \in Users
  PROVE  /\ Refund(c) \in [Users -> [Days -> [Kinds -> Nat]]]
         /\ \A u \in Users, d \in Days, k \in Kinds :
              Refund(c)[u][d][k] =
                IF call[c].user = u /\ today = d /\ k \in KindsOf(call[c]) /\ used[u][d][k] > 0
                THEN used[u][d][k] - 1 ELSE used[u][d][k]
<1> DEFINE row == used[call[c].user][today]
           less == [k \in Kinds |-> IF k \in KindsOf(call[c]) /\ row[k] > 0 THEN row[k] - 1 ELSE row[k]]
<1>1. /\ row \in [Kinds -> Nat] /\ today \in Days
      /\ used \in [Users -> [Days -> [Kinds -> Nat]]]
  BY DEF IntakeTypeOK
<1>2. Refund(c) = [used EXCEPT ![call[c].user][today] = less]
  BY DEF Refund
<1>3. less \in [Kinds -> Nat]
  BY <1>1
<1>4. \A k \in Kinds : less[k] = IF k \in KindsOf(call[c]) /\ row[k] > 0 THEN row[k] - 1 ELSE row[k]
  BY <1>1
<1> HIDE DEF less
<1>5. Refund(c) \in [Users -> [Days -> [Kinds -> Nat]]]
  BY <1>1, <1>2, <1>3
<1>6. ASSUME NEW u \in Users, NEW d \in Days, NEW k \in Kinds
      PROVE  Refund(c)[u][d][k] =
               IF call[c].user = u /\ today = d /\ k \in KindsOf(call[c]) /\ used[u][d][k] > 0
               THEN used[u][d][k] - 1 ELSE used[u][d][k]
  <2>1. CASE call[c].user = u /\ today = d
    BY <1>1, <1>2, <1>4, <2>1
  <2>2. CASE ~(call[c].user = u /\ today = d)
    <3>1. Refund(c)[u][d] = used[u][d]
      BY <1>1, <1>2, <2>2
    <3> QED
      BY <2>2, <3>1
  <2> QED
    BY <2>1, <2>2
<1> QED
  BY <1>5, <1>6


\* One call moves, and every counter stays within its limit and covered: what
\* weighs on it grows no more than it does, with the units that slip.
LEMMA BooksStep ==
  ASSUME Books, IntakeTypeOK', Numbered', NEW c \in Callers, CallOK(call[c])',
         call' = [call EXCEPT ![c] = call'[c]], today' = today,
         \A u \in Users, d \in Days, k \in Kinds :
           /\ used'[u][d][k] <= Limit[k]
           /\ Load(u, d, k)' - Load(u, d, k) <= used'[u][d][k] + slips'[u][d] - (used[u][d][k] + slips[u][d])
           /\ Quiet' /\ d = 1 => Load(u, d, k)' - Load(u, d, k) = used'[u][d][k] - used[u][d][k],
         Quiet' => Quiet /\ ~call'[c].inserted
  PROVE  Books'
<1>1. Numbered /\ IntakeTypeOK /\ Covered /\ Exact /\ \A b \in Callers : CallOK(call[b])
  BY DEF Books
<1>2. \A b \in Callers : CallOK(call[b])'
  <2>1. \A b \in Callers : b # c => call'[b] = call[b]
    BY <1>1 DEF IntakeTypeOK
  <2> QED
    BY <1>1, <2>1 DEF CallOK
<1>3. ASSUME NEW u \in Users, NEW d \in Days, NEW k \in Kinds
      PROVE  /\ Load(u, d, k) \in Nat /\ Load(u, d, k)' \in Nat
             /\ used[u][d][k] \in Nat /\ used'[u][d][k] \in Nat
             /\ slips[u][d] \in Nat /\ slips'[u][d] \in Nat
  <2>1. Load(u, d, k) \in Nat
    BY <1>1, ChargedFinite, PendingFinite DEF Load
  <2>2. Cardinality(Charged(u, d, k)') \in Nat /\ Cardinality(Pending(u, d, k)') \in Nat
    BY IntakeAssumption, FS_Subset, FS_CardinalityType DEF Charged, Pending, Numbered
  <2> QED
    BY <1>1, <2>1, <2>2 DEF Load, IntakeTypeOK
<1>4. Covered'
  <2>1. ASSUME NEW u \in Users, NEW d \in Days, NEW k \in Kinds
        PROVE  Load(u, d, k)' <= used'[u][d][k] + slips'[u][d]
    <3>1. Load(u, d, k) <= used[u][d][k] + slips[u][d]
      BY <1>1 DEF Covered
    <3>2. Load(u, d, k)' - Load(u, d, k) <= used'[u][d][k] + slips'[u][d] - (used[u][d][k] + slips[u][d])
      OBVIOUS
    <3> QED
      BY <1>3, <3>1, <3>2
  <2> QED
    BY <2>1 DEF Covered
<1>5. Exact'
  <2> SUFFICES ASSUME Quiet'
               PROVE  /\ \A b \in Callers : ~call'[b].inserted
                      /\ \A u \in Users, k \in Kinds : used'[u][1][k] = Load(u, 1, k)'
    BY DEF Exact
  <2>1. \A b \in Callers : ~call'[b].inserted
    BY <1>1 DEF Exact, IntakeTypeOK
  <2>2. ASSUME NEW u \in Users, NEW k \in Kinds PROVE used'[u][1][k] = Load(u, 1, k)'
    <3>1. 1 \in Days
      BY IntakeAssumption DEF Days
    <3>2. used[u][1][k] = Load(u, 1, k)
      BY <1>1 DEF Exact
    <3>3. Load(u, 1, k)' - Load(u, 1, k) = used'[u][1][k] - used[u][1][k]
      BY <3>1
    <3> QED
      BY <1>3, <3>1, <3>2, <3>3
  <2> QED
    BY <2>1, <2>2
<1> QED
  BY <1>2, <1>4, <1>5 DEF Books

\* What weighs on a counter, after a step of one call.
LEMMA LoadStep ==
  ASSUME IntakeTypeOK, Numbered, NEW c \in Callers, call' = [call EXCEPT ![c] = call'[c]],
         NEW u, NEW d, NEW k
  PROVE  /\ jobs' = jobs =>
              /\ Numbered'
              /\ Load(u, d, k)' - Load(u, d, k) = Weight(c, u, d, k)' - Weight(c, u, d, k)
         /\ jobs' = jobs \cup {JobOf(c)} =>
              /\ Numbered'
              /\ Load(u, d, k)' - Load(u, d, k) =
                   Weight(c, u, d, k)' - Weight(c, u, d, k)
                     + (IF call[c].user = u /\ call[c].day = d /\ k \in KindsOf(call[c]) THEN 1 ELSE 0)
<1>1. /\ Cardinality(Charged(u, d, k)) \in Nat /\ Cardinality(Pending(u, d, k)) \in Nat
      /\ Weight(c, u, d, k) \in 0..1 /\ Weight(c, u, d, k)' \in 0..1
  BY ChargedFinite, PendingFinite DEF Weight
<1>2. Cardinality(Pending(u, d, k)') =
        Cardinality(Pending(u, d, k)) + Weight(c, u, d, k)' - Weight(c, u, d, k)
  BY PendingStep
<1>3. CASE jobs' = jobs
  <2>1. Numbered' /\ Charged(u, d, k)' = Charged(u, d, k)
    BY <1>3 DEF Numbered, Charged, KindsOf
  <2>2. jobs' # jobs \cup {JobOf(c)}
    <3>1. Cardinality(jobs) \in Nat /\ JobOf(c).id = Cardinality(jobs) + 1
      BY FS_CardinalityType DEF Numbered, JobOf
    <3>2. JobOf(c) \notin jobs
      BY <3>1 DEF Numbered
    <3> QED
      BY <1>3, <3>2
  <2> QED
    BY <1>1, <1>2, <2>1, <2>2 DEF Load
<1>4. CASE jobs' = jobs \cup {JobOf(c)}
  <2>1. JobOf(c).id = Cardinality(jobs) + 1
    BY DEF JobOf
  <2>2. JobOf(c).user = call[c].user /\ JobOf(c).day = call[c].day
        /\ KindsOf(JobOf(c)) = KindsOf(call[c])
    BY DEF JobOf, KindsOf
  <2>3. Numbered' /\ Cardinality(Charged(u, d, k)') =
                       Cardinality(Charged(u, d, k))
                         + (IF call[c].user = u /\ call[c].day = d /\ k \in KindsOf(call[c]) THEN 1 ELSE 0)
    BY <1>4, <2>1, <2>2, InsertStep
  <2>4. jobs' # jobs
    <3>1. JobOf(c) \notin jobs
      <4>1. Cardinality(jobs) \in Nat
        BY FS_CardinalityType DEF Numbered
      <4> QED
        BY <2>1, <4>1 DEF Numbered
    <3> QED
      BY <1>4, <3>1
  <2> QED
    BY <1>1, <1>2, <2>3, <2>4 DEF Load
<1> QED
  BY <1>3, <1>4

\* While nothing goes wrong, a unit under way is on its counter.
LEMMA QuietUnit ==
  ASSUME Books, Quiet, NEW c \in Callers, NEW u \in Users, NEW k \in Kinds,
         Weighs(c, u, 1, k)
  PROVE  used[u][1][k] >= 1
<1>1. used[u][1][k] = Cardinality(Charged(u, 1, k)) + Cardinality(Pending(u, 1, k))
  BY DEF Books, Exact, Load
<1>2. c \in Pending(u, 1, k)
  BY DEF Pending
<1>3. Cardinality(Pending(u, 1, k)) # 0
  BY <1>2, PendingFinite, FS_EmptySet
<1> QED
  BY <1>1, <1>3, ChargedFinite, PendingFinite DEF Books

\* The limits are numbers.
LEMMA LimitType == \A k \in Kinds : Limit[k] \in Nat
BY IntakeAssumption DEF Kinds, Limit

-----------------------------------------------------------------------------
\* A call enters, ends or is cut off: no unit is under way for it, or the books
\* of a day on which something went wrong are over by one.
LEMMA IdleStep ==
  ASSUME Books, NEW c \in Callers, call' = [call EXCEPT ![c] = call'[c]],
         CallOK(call[c])', call'[c].at \in {"idle", "reserve"}, ~call'[c].inserted,
         UNCHANGED <<today, used, jobs, slips, faults>>,
         crashes' \in 0..MaxCrashes, crashes' >= crashes,
         call[c].at \in {"idle"} \cup Results \/ crashes' > crashes
  PROVE  Books'
<1>1. IntakeTypeOK /\ Numbered /\ Covered
  BY DEF Books
<1>2. IntakeTypeOK'
  BY <1>1 DEF IntakeTypeOK, CallOK
<1>3. Quiet' => Quiet /\ call[c].at \in {"idle"} \cup Results
  BY <1>1, IntakeAssumption DEF Quiet, IntakeTypeOK
<1>4. ASSUME NEW u \in Users, NEW d \in Days, NEW k \in Kinds
      PROVE  /\ used'[u][d][k] <= Limit[k]
             /\ Numbered'
             /\ Load(u, d, k)' - Load(u, d, k) <= used'[u][d][k] + slips'[u][d] - (used[u][d][k] + slips[u][d])
             /\ Quiet' /\ d = 1 => Load(u, d, k)' - Load(u, d, k) = used'[u][d][k] - used[u][d][k]
  <2>1. Weight(c, u, d, k)' = 0 /\ Weight(c, u, d, k) \in 0..1
    BY DEF Weight, Weighs
  <2>2. Quiet' => Weight(c, u, d, k) = 0
    BY <1>3 DEF Weight, Weighs, Results
  <2>3. Numbered' /\ Load(u, d, k)' - Load(u, d, k) = Weight(c, u, d, k)' - Weight(c, u, d, k)
    BY <1>1, LoadStep
  <2>4. used[u][d][k] \in Nat /\ slips[u][d] \in Nat
    BY <1>1 DEF IntakeTypeOK
  <2> QED
    BY <1>1, <2>1, <2>2, <2>3, <2>4 DEF Covered
<1>5. Numbered'
  BY <1>1 DEF Numbered
<1> QED
  BY <1>2, <1>3, <1>4, <1>5, BooksStep

\* A reservation adds to the counter what comes to weigh on it.
LEMMA ReserveBooks == ASSUME Books, NEW c \in Callers, Reserve(c) PROVE Books'
<1>0. IntakeTypeOK /\ Numbered /\ Covered /\ CallOK(call[c]) /\ call[c].at = "reserve"
  BY DEF Books, Reserve
<1>1. /\ call[c] \in Call /\ call[c].user \in Users /\ today \in Days /\ ~call[c].inserted
      /\ today' = today /\ jobs' = jobs /\ slips' = slips /\ crashes' = crashes
      /\ call \in [Callers -> Call]
  BY <1>0 DEF CallOK, IntakeTypeOK, Reserve
<1>2. call' = [call EXCEPT ![c] = call'[c]] /\ CallOK(call[c])' /\ ~call'[c].inserted
      /\ call'[c].user = call[c].user /\ KindsOf(call'[c]) = KindsOf(call[c])
  <2>1. CASE \E r \in {"limited", "failed"} : call' = [call EXCEPT ![c].at = r]
    BY <1>0, <1>1, <2>1 DEF CallOK, Call, KindsOf, Results
  <2>2. CASE call' = [call EXCEPT ![c].at = "create", ![c].day = today]
    <3>1. today <= today
      BY <1>1 DEF Days
    <3> QED
      BY <1>0, <1>1, <2>2, <3>1 DEF CallOK, Call, KindsOf
  <2> QED
    BY <2>1, <2>2 DEF Reserve
<1>3. /\ used' = used \/ (~Exhausted(c) /\ used' = Charge(c))
      /\ faults' \in 0..MaxFaults /\ (faults' = 0 => faults = 0 /\ UNCHANGED faults)
      /\ \/ /\ call'[c].at = "create" /\ call'[c].day = today
            /\ ~Exhausted(c) /\ used' = Charge(c)
         \/ /\ call'[c].at \in {"limited", "failed"}
            /\ faults' = faults => used' = used
  BY <1>0, <1>1, IntakeAssumption DEF Reserve, Fault, IntakeTypeOK, Call
<1>4. IntakeTypeOK'
  BY <1>0, <1>1, <1>2, <1>3, ChargeStep DEF IntakeTypeOK, CallOK
<1>5. Numbered'
  BY <1>0, <1>1 DEF Numbered
<1>6. Quiet' => Quiet /\ UNCHANGED faults
  BY <1>1, <1>3 DEF Quiet
<1>7. ASSUME NEW u \in Users, NEW d \in Days, NEW k \in Kinds
      PROVE  /\ used'[u][d][k] <= Limit[k]
             /\ Load(u, d, k)' - Load(u, d, k) <= used'[u][d][k] + slips'[u][d] - (used[u][d][k] + slips[u][d])
             /\ Quiet' /\ d = 1 => Load(u, d, k)' - Load(u, d, k) = used'[u][d][k] - used[u][d][k]
  <2> DEFINE hit == call[c].user = u /\ today = d /\ k \in KindsOf(call[c])
  <2>1. Load(u, d, k)' - Load(u, d, k) = Weight(c, u, d, k)' /\ Weight(c, u, d, k)' \in 0..1
    <3>1. Weight(c, u, d, k) = 0 /\ Weight(c, u, d, k)' \in 0..1
      BY <1>0 DEF Weight, Weighs
    <3> QED
      BY <1>0, <1>1, <1>2, <3>1, LoadStep
  <2>2. used[u][d][k] \in Nat /\ slips[u][d] \in Nat /\ used[u][d][k] <= Limit[k] /\ Limit[k] \in Nat
    BY <1>0, LimitType DEF IntakeTypeOK, Covered
  <2>3. Charge(c)[u][d][k] = used[u][d][k] + (IF hit THEN 1 ELSE 0)
    BY <1>0, <1>1, ChargeStep
  <2>4. ~Exhausted(c) /\ hit => used[u][d][k] < Limit[k]
    BY <2>2 DEF Exhausted
  <2>5. used'[u][d][k] <= Limit[k] /\ used'[u][d][k] >= used[u][d][k]
    BY <1>3, <2>2, <2>3, <2>4
  <2>6. CASE call'[c].at = "create" /\ call'[c].day = today /\ used' = Charge(c)
    <3>1. Weight(c, u, d, k)' = IF hit THEN 1 ELSE 0
      BY <1>2, <2>6 DEF Weight, Weighs
    <3> QED
      BY <1>1, <2>1, <2>2, <2>3, <2>5, <2>6, <3>1
  <2>7. CASE call'[c].at \in {"limited", "failed"} /\ (faults' = faults => used' = used)
    <3>1. Weight(c, u, d, k)' = 0
      BY <2>7 DEF Weight, Weighs
    <3> HIDE DEF hit
    <3> QED
      BY <1>1, <1>3, <1>6, <2>1, <2>2, <2>3, <2>5, <2>7, <3>1
  <2> QED
    BY <1>3, <2>6, <2>7
<1> QED
  BY <1>1, <1>2, <1>4, <1>5, <1>6, <1>7, BooksStep

\* An insert turns the unit under way into a job.
LEMMA CreateBooks == ASSUME Books, NEW c \in Callers, CreateJob(c) PROVE Books'
<1>0. IntakeTypeOK /\ Numbered /\ Covered /\ CallOK(call[c]) /\ call[c].at = "create"
  BY DEF Books, CreateJob
<1>1. /\ call[c] \in Call /\ call[c].user \in Users /\ ~call[c].inserted
      /\ today' = today /\ used' = used /\ slips' = slips /\ crashes' = crashes
      /\ call \in [Callers -> Call]
  BY <1>0 DEF CallOK, IntakeTypeOK, CreateJob
<1>2. /\ faults' \in 0..MaxFaults /\ (faults' = 0 => faults = 0 /\ UNCHANGED faults)
      /\ \/ /\ jobs' = jobs \cup {JobOf(c)}
            /\ \/ call' = [call EXCEPT ![c].at = "queued"]
               \/ /\ faults' # faults
                  /\ call' = [call EXCEPT ![c].at = "release", ![c].why = "failed", ![c].inserted = TRUE]
         \/ /\ jobs' = jobs
            /\ \/ call' = [call EXCEPT ![c].at = "release", ![c].why = "duplicate"]
               \/ call' = [call EXCEPT ![c].at = "release", ![c].why = "failed", ![c].inserted = FALSE]
  <2>1. CASE UNCHANGED faults
    BY <1>0, <2>1, IntakeAssumption DEF CreateJob, Fault, IntakeTypeOK
  <2>2. CASE Fault
    <3>0. faults' # faults /\ faults' \in 0..MaxFaults /\ faults' # 0
      BY <1>0, <2>2, IntakeAssumption DEF Fault, IntakeTypeOK
    <3>1. PICK inserted \in BOOLEAN :
            /\ jobs' = IF inserted THEN jobs \cup {JobOf(c)} ELSE jobs
            /\ call' = [call EXCEPT ![c].at = "release", ![c].why = "failed", ![c].inserted = inserted]
      BY <3>0 DEF CreateJob
    <3>3. CASE inserted = TRUE
      BY <3>0, <3>1, <3>3
    <3>4. CASE inserted = FALSE
      BY <3>0, <3>1, <3>4
    <3> QED
      BY <3>3, <3>4
  <2> QED
    BY <2>1, <2>2 DEF CreateJob
<1>3. /\ call' = [call EXCEPT ![c] = call'[c]] /\ CallOK(call[c])'
      /\ call'[c].user = call[c].user /\ call'[c].day = call[c].day
      /\ KindsOf(call'[c]) = KindsOf(call[c])
      /\ call'[c].at \in {"queued", "release"}
      /\ call'[c].inserted => faults' # faults
  BY <1>0, <1>1, <1>2 DEF CallOK, Call, KindsOf, Results
<1>4. jobs' = jobs => call'[c].at = "release" /\ ~call'[c].inserted
  <2>1. JobOf(c) \notin jobs
    <3>1. Cardinality(jobs) \in Nat /\ JobOf(c).id = Cardinality(jobs) + 1
      BY <1>0, FS_CardinalityType DEF Numbered, JobOf
    <3> QED
      BY <1>0, <3>1 DEF Numbered
  <2> QED
    BY <1>0, <1>1, <1>2, <2>1 DEF Call
<1>5. jobs' # jobs => jobs' = jobs \cup {JobOf(c)} /\ (call'[c].at = "queued" \/ call'[c].inserted)
  BY <1>1, <1>2 DEF Call
<1>6. JobOf(c) \in Job
  <2>1. Cardinality(jobs) + 1 \in Nat
    BY <1>0, FS_CardinalityType DEF Numbered
  <2> QED
    BY <1>1, <2>1 DEF JobOf, Job, Call
<1>7. IntakeTypeOK'
  BY <1>0, <1>1, <1>2, <1>3, <1>6 DEF IntakeTypeOK, CallOK
<1>8. Numbered'
  BY <1>0, <1>2, <1>3, LoadStep
<1>9. ASSUME NEW u \in Users, NEW d \in Days, NEW k \in Kinds
      PROVE  Load(u, d, k)' - Load(u, d, k) = 0
  <2> DEFINE w == IF call[c].user = u /\ call[c].day = d /\ k \in KindsOf(call[c]) THEN 1 ELSE 0
  <2>1. Weight(c, u, d, k) = w
    BY <1>0, <1>1 DEF Weight, Weighs
  <2>2. Weight(c, u, d, k)' = IF jobs' = jobs THEN w ELSE 0
    BY <1>3, <1>4, <1>5 DEF Weight, Weighs
  <2>3. /\ jobs' = jobs => Load(u, d, k)' - Load(u, d, k) = Weight(c, u, d, k)' - Weight(c, u, d, k)
        /\ jobs' # jobs => Load(u, d, k)' - Load(u, d, k) = Weight(c, u, d, k)' - Weight(c, u, d, k) + w
    BY <1>0, <1>3, <1>5, LoadStep
  <2>4. w \in 0..1
    OBVIOUS
  <2> HIDE DEF w
  <2> QED
    BY <2>1, <2>2, <2>3, <2>4
<1>10. ASSUME NEW u \in Users, NEW d \in Days, NEW k \in Kinds
       PROVE  /\ used'[u][d][k] <= Limit[k]
              /\ Load(u, d, k)' - Load(u, d, k) <= used'[u][d][k] + slips'[u][d] - (used[u][d][k] + slips[u][d])
              /\ Quiet' /\ d = 1 => Load(u, d, k)' - Load(u, d, k) = used'[u][d][k] - used[u][d][k]
  <2>1. used[u][d][k] \in Nat /\ slips[u][d] \in Nat /\ used[u][d][k] <= Limit[k]
    BY <1>0 DEF IntakeTypeOK, Covered
  <2> QED
    BY <1>1, <1>9, <2>1
<1>11. Quiet' => Quiet /\ ~call'[c].inserted
  BY <1>1, <1>2, <1>3 DEF Quiet
<1> QED
  BY <1>1, <1>3, <1>7, <1>8, <1>10, <1>11, BooksStep

\* A release takes the unit under way from its counter, or slips.
LEMMA ReleaseBooks == ASSUME Books, NEW c \in Callers, Release(c) PROVE Books'
<1>0. IntakeTypeOK /\ Numbered /\ Covered /\ CallOK(call[c]) /\ call[c].at = "release"
  BY DEF Books, Release
<1>1. /\ call[c] \in Call /\ call[c].user \in Users /\ call[c].why \in {"duplicate", "failed"}
      /\ call[c].day \in Days /\ today \in Days /\ call[c].day <= today
      /\ today' = today /\ jobs' = jobs /\ crashes' = crashes
      /\ call \in [Callers -> Call]
  BY <1>0 DEF CallOK, IntakeTypeOK, Release, Call
<1>2. /\ faults' \in 0..MaxFaults /\ (faults' = 0 => faults = 0 /\ UNCHANGED faults)
      /\ \/ /\ used' = Refund(c)
            /\ slips' = IF Slips(c) THEN [slips EXCEPT ![call[c].user][today] = @ + 1] ELSE slips
         \/ used' = used /\ slips' = slips /\ faults' # faults
      /\ \E r \in {"duplicate", "failed"} : call' = [call EXCEPT ![c].at = r]
  BY <1>0, <1>1, IntakeAssumption DEF Release, Fault, IntakeTypeOK
<1>3. /\ call' = [call EXCEPT ![c] = call'[c]] /\ CallOK(call[c])'
      /\ call'[c].at \in {"duplicate", "failed"} /\ call'[c].inserted = call[c].inserted
  BY <1>0, <1>1, <1>2 DEF CallOK, Call, Results
<1>4. slips' \in [Users -> [Days -> Nat]]
  <2>1. slips \in [Users -> [Days -> Nat]]
    BY <1>0 DEF IntakeTypeOK
  <2>2. [slips EXCEPT ![call[c].user][today] = @ + 1] \in [Users -> [Days -> Nat]]
    BY <1>1, <2>1
  <2> QED
    BY <1>2, <2>1, <2>2
<1>5. IntakeTypeOK'
  BY <1>0, <1>1, <1>2, <1>3, <1>4, RefundStep DEF IntakeTypeOK, CallOK
<1>6. Numbered'
  BY <1>0, <1>1 DEF Numbered
<1>7. Quiet' => Quiet /\ ~call[c].inserted /\ faults' = faults
  BY <1>1, <1>2 DEF Quiet, Books, Exact
<1>8. ASSUME NEW u \in Users, NEW d \in Days, NEW k \in Kinds
      PROVE  /\ used'[u][d][k] <= Limit[k]
             /\ Load(u, d, k)' - Load(u, d, k) <= used'[u][d][k] + slips'[u][d] - (used[u][d][k] + slips[u][d])
             /\ Quiet' /\ d = 1 => Load(u, d, k)' - Load(u, d, k) = used'[u][d][k] - used[u][d][k]
  <2> DEFINE mine == call[c].user = u /\ k \in KindsOf(call[c])
             w == Weight(c, u, d, k)
  <2>1. /\ used[u][d][k] \in Nat /\ slips[u][d] \in Nat /\ slips'[u][d] \in Nat
        /\ used[u][d][k] <= Limit[k] /\ Limit[k] \in Nat
    BY <1>0, <1>4, LimitType DEF IntakeTypeOK, Covered
  <2>2. Load(u, d, k)' - Load(u, d, k) = 0 - w /\ w \in 0..1
    <3>1. Weight(c, u, d, k)' = 0 /\ w \in 0..1
      BY <1>3 DEF Weight, Weighs
    <3> QED
      BY <1>0, <1>1, <1>3, <3>1, LoadStep
  <2>3. w = IF mine /\ call[c].day = d /\ ~call[c].inserted THEN 1 ELSE 0
    BY <1>0 DEF Weight, Weighs
  <2>4. CASE /\ used' = Refund(c)
             /\ slips' = IF Slips(c) THEN [slips EXCEPT ![call[c].user][today] = @ + 1] ELSE slips
    <3>1. used'[u][d][k] = IF mine /\ today = d /\ used[u][d][k] > 0
                           THEN used[u][d][k] - 1 ELSE used[u][d][k]
      BY <1>0, <1>1, <2>4, RefundStep
    <3>2. slips'[u][d] = IF call[c].user = u /\ today = d /\ Slips(c) THEN slips[u][d] + 1 ELSE slips[u][d]
      BY <1>0, <1>1, <2>4 DEF IntakeTypeOK
    <3>3. Slips(c) <=> call[c].inserted \/ call[c].day # today
      BY DEF Slips
    <3>4. Quiet' /\ d = 1 => /\ call[c].day = 1 /\ today = 1 /\ ~call[c].inserted
                             /\ mine => used[u][d][k] >= 1
      <4> SUFFICES ASSUME Quiet', d = 1
                   PROVE  /\ call[c].day = 1 /\ today = 1 /\ ~call[c].inserted
                          /\ mine => used[u][d][k] >= 1
        OBVIOUS
      <4>1. call[c].day = 1 /\ today = 1 /\ ~call[c].inserted
        BY <1>1, <1>7, IntakeAssumption DEF Quiet, Days
      <4>2. mine => Weighs(c, u, 1, k)
        BY <1>0, <4>1 DEF Weighs
      <4> QED
        BY <1>7, <4>1, <4>2, QuietUnit
    <3> HIDE DEF mine, w
    <3>5. CASE d = today
      BY <1>1, <2>1, <2>2, <2>3, <3>1, <3>2, <3>3, <3>4, <3>5 DEF mine
    <3>6. CASE d # today
      BY <1>1, <2>1, <2>2, <2>3, <3>1, <3>2, <3>3, <3>4, <3>6
    <3> QED
      BY <3>5, <3>6
  <2>5. CASE used' = used /\ slips' = slips /\ faults' # faults
    BY <1>7, <2>1, <2>2, <2>5
  <2> QED
    BY <1>2, <2>4, <2>5
<1>9. Quiet' => Quiet /\ ~call'[c].inserted
  BY <1>3, <1>7
<1> QED
  BY <1>1, <1>3, <1>5, <1>6, <1>8, <1>9, BooksStep

\* A call enters with no unit under way.
LEMMA SubmitBooks ==
  ASSUME Books, NEW c \in Callers, NEW u \in Users, NEW deep \in BOOLEAN,
         NEW e \in Events \cup {None}, Submit(c, u, deep, e)
  PROVE  Books'
<1> DEFINE x == [Idle EXCEPT !.at = "reserve", !.user = u, !.deep = deep, !.event = e]
<1>1. call \in [Callers -> Call] /\ today \in Days
  BY DEF Books, IntakeTypeOK
<1>2. x \in Call /\ x.day = 1 /\ ~x.inserted /\ x.at = "reserve" /\ x.user = u
  <2>1. Idle \in Call /\ Idle.day = 1 /\ ~Idle.inserted
    BY IntakeAssumption DEF Idle, Call, Results, Days
  <2> QED
    BY <2>1 DEF Call
<1>3. call' = [call EXCEPT ![c] = x] /\ call'[c] = x /\ today' = today
  BY <1>1 DEF Submit
<1>4. CallOK(call[c])'
  BY <1>1, <1>2, <1>3 DEF CallOK, Days
<1>5. crashes' \in 0..MaxCrashes /\ crashes' >= crashes
  BY IntakeAssumption DEF Submit, Books, IntakeTypeOK
<1> HIDE DEF x
<1> QED
  BY <1>2, <1>3, <1>4, <1>5, IdleStep DEF Submit

\* A caller forgets its call: it has its answer, or it is cut off.
LEMMA ForgetBooks ==
  ASSUME Books, NEW c \in Callers, call' = [call EXCEPT ![c] = Idle],
         UNCHANGED <<today, used, jobs, slips, faults>>,
         \/ UNCHANGED crashes /\ call[c].at \in Results
         \/ crashes < MaxCrashes /\ crashes' = crashes + 1
  PROVE  Books'
<1>1. call \in [Callers -> Call] /\ today \in Days /\ crashes \in 0..MaxCrashes
  BY DEF Books, IntakeTypeOK
<1>2. Idle \in Call /\ Idle.day = 1 /\ ~Idle.inserted /\ Idle.at = "idle"
  BY IntakeAssumption DEF Idle, Call, Results, Days
<1>3. call'[c] = Idle /\ CallOK(call[c])'
  BY <1>1, <1>2 DEF CallOK, Days
<1>4. crashes' \in 0..MaxCrashes /\ crashes' >= crashes
  BY <1>1, IntakeAssumption
<1>5. call[c].at \in {"idle"} \cup Results \/ crashes' > crashes
  BY <1>1, IntakeAssumption
<1> QED
  BY <1>2, <1>3, <1>4, <1>5, IdleStep

\* A new day leaves the books of the others as they are.
LEMMA MidnightBooks == ASSUME Books, Midnight PROVE Books'
<1>1. IntakeTypeOK'
  BY IntakeAssumption DEF Books, IntakeTypeOK, Midnight, Days
<1>2. \A c \in Callers : CallOK(call[c])'
  <2> SUFFICES ASSUME NEW c \in Callers PROVE CallOK(call[c])'
    OBVIOUS
  <2>1. CallOK(call[c]) /\ call[c].day \in Days
    BY DEF Books, IntakeTypeOK, Call
  <2> QED
    BY <2>1 DEF Books, IntakeTypeOK, Midnight, CallOK, Days
<1>3. Numbered'
  BY DEF Books, Midnight, Numbered
<1>4. Covered'
  <2> SUFFICES ASSUME NEW u \in Users, NEW d \in Days, NEW k \in Kinds
               PROVE  used'[u][d][k] <= Limit[k] /\ Load(u, d, k)' <= used'[u][d][k] + slips'[u][d]
    BY DEF Covered
  <2>1. Load(u, d, k)' = Load(u, d, k)
    BY DEF Midnight, Load, Charged, Pending, Weighs, KindsOf
  <2> QED
    BY <2>1 DEF Midnight, Books, Covered
<1>5. Exact'
  BY DEF Books, IntakeTypeOK, Midnight, Exact, Quiet, Days
<1> QED
  BY <1>1, <1>2, <1>3, <1>4, <1>5 DEF Books

LEMMA EnqueueBooks == ASSUME Books, NEW c \in Callers, Enqueue(c) PROVE Books'
BY ReserveBooks, CreateBooks, ReleaseBooks DEF Enqueue

LEMMA StutterBooks == ASSUME Books, UNCHANGED intakeVars PROVE Books'
<1>1. IntakeTypeOK' /\ Numbered'
  BY DEF intakeVars, Books, IntakeTypeOK, Numbered
<1>2. \A c \in Callers : CallOK(call[c])'
  BY DEF intakeVars, Books, CallOK
<1>3. \A u, d, k : Load(u, d, k)' = Load(u, d, k)
  BY DEF intakeVars, Load, Charged, Pending, Weighs, KindsOf
<1>4. Covered' /\ Exact'
  BY <1>3 DEF intakeVars, Books, Covered, Exact, Quiet
<1> QED
  BY <1>1, <1>2, <1>4 DEF Books

\* The invariant is inductive for intake alone.
LEMMA BooksNext == Books /\ [IntakeNext]_intakeVars => Books'
<1> SUFFICES ASSUME Books, [IntakeNext]_intakeVars PROVE Books'
  OBVIOUS
<1>1. ASSUME NEW c \in Callers, NEW u \in Users,
             (\E deep \in BOOLEAN : Submit(c, u, deep, None)) \/ \E e \in Events : Submit(c, u, FALSE, e)
      PROVE  Books'
  BY <1>1, SubmitBooks
<1>2. ASSUME NEW c \in Callers, Enqueue(c) PROVE Books'
  BY <1>2, EnqueueBooks
<1>3. ASSUME NEW c \in Callers, Return(c) PROVE Books'
  BY <1>3, ForgetBooks DEF Return
<1>4. ASSUME NEW c \in Callers, CutOff(c) PROVE Books'
  BY <1>4, ForgetBooks DEF CutOff
<1>5. CASE Midnight
  BY <1>5, MidnightBooks
<1>6. CASE UNCHANGED intakeVars
  BY <1>6, StutterBooks
<1> QED
  BY <1>1, <1>2, <1>3, <1>4, <1>5, <1>6 DEF IntakeNext

-----------------------------------------------------------------------------
\* The jobs the owners of Busy begin the day with: one each, under numbers of
\* their own.
LEMMA BusyJobs ==
  ASSUME IntakeInit
  PROVE  /\ jobs \subseteq Job /\ Numbered
         /\ \A u, d, k :
              Cardinality(Charged(u, d, k)) = IF u \in Busy /\ d = 1 /\ k = "all" THEN 1 ELSE 0
<1> DEFINE N == Cardinality(Busy)
           busy == SetToSeq(Busy)
           job == [i \in 1..N |-> [id |-> i, user |-> busy[i], day |-> 1, deep |-> FALSE, event |-> None]]
<1>1. N \in Nat /\ ExistsBijection(1..N, Busy)
  BY IntakeAssumption, FS_CardinalityType
<1>2. \E f \in [1..N -> Busy] : IsInjective(f)
  BY <1>1 DEF ExistsBijection, Bijection, Injection
<1>3. busy \in [1..N -> Busy] /\ IsInjective(busy)
  BY <1>2 DEF SetToSeq
<1>4. \A u \in Busy : \E i \in 1..N : busy[i] = u
  <2>1. IsFiniteSet(1..N) /\ Cardinality(1..N) = N
    BY <1>1, FS_Interval
  <2>2. busy \in Injection(1..N, Busy)
    BY <1>3 DEF Injection
  <2>3. busy \in Surjection(1..N, Busy)
    BY <2>1, <2>2, IntakeAssumption, FS_Injection
  <2> QED
    BY <2>3 DEF Surjection
<1> HIDE DEF N, busy
<1>5. jobs = {job[i] : i \in 1..N}
  <2>1. DOMAIN busy = 1..N
    BY <1>3
  <2> QED
    BY <2>1 DEF IntakeInit, busy
<1>6. IsFiniteSet(jobs) /\ Cardinality(jobs) = N
  <2>1. job \in Bijection(1..N, jobs)
    <3>1. job \in [1..N -> jobs] /\ \A s \in jobs : \E i \in 1..N : job[i] = s
      BY <1>5
    <3>2. \A i, j \in 1..N : job[i] = job[j] => i = j
      OBVIOUS
    <3> HIDE DEF job
    <3> QED
      BY <3>1, <3>2 DEF Bijection, Injection, Surjection, IsInjective
  <2>2. IsFiniteSet(1..N) /\ Cardinality(1..N) = N
    BY <1>1, FS_Interval
  <2> HIDE DEF job
  <2> QED
    BY <2>1, <2>2, FS_Bijection DEF ExistsBijection
<1>7. \A i \in 1..N : job[i] \in Job /\ job[i].id = i /\ job[i].user = busy[i] /\ job[i].day = 1
                      /\ \A k : k \in KindsOf(job[i]) <=> k = "all"
  BY <1>1, <1>3, IntakeAssumption DEF Job, KindsOf, Days
<1> HIDE DEF job
<1>8. jobs \subseteq Job /\ Numbered
  BY <1>1, <1>5, <1>6, <1>7 DEF Numbered
<1>9. ASSUME NEW u, NEW d, NEW k
      PROVE  Cardinality(Charged(u, d, k)) = IF u \in Busy /\ d = 1 /\ k = "all" THEN 1 ELSE 0
  <2>1. CASE u \in Busy /\ d = 1 /\ k = "all"
    <3>1. PICK i \in 1..N : busy[i] = u
      BY <1>4, <2>1
    <3>2. \A j \in 1..N : busy[j] = u => j = i
      BY <1>3, <3>1 DEF IsInjective
    <3>3. Charged(u, d, k) = {job[i]}
      BY <1>5, <1>7, <2>1, <3>1, <3>2 DEF Charged
    <3> QED
      BY <2>1, <3>3, FS_Singleton
  <2>2. CASE ~(u \in Busy /\ d = 1 /\ k = "all")
    <3>1. ASSUME NEW j \in jobs, j.user = u, j.day = d, k \in KindsOf(j) PROVE FALSE
      <4>1. PICK i \in 1..N : j = job[i]
        BY <1>5
      <4>2. j.user = busy[i] /\ j.day = 1 /\ k = "all"
        BY <1>7, <3>1, <4>1
      <4> QED
        BY <1>3, <2>2, <3>1, <4>2
    <3>2. Charged(u, d, k) = {}
      BY <3>1 DEF Charged
    <3> QED
      BY <2>2, <3>2, FS_EmptySet
  <2> QED
    BY <2>1, <2>2
<1> QED
  BY <1>8, <1>9

\* It holds at the beginning.
LEMMA BooksInit == IntakeInit => Books
<1> SUFFICES ASSUME IntakeInit PROVE Books
  OBVIOUS
<1>1. /\ jobs \subseteq Job /\ Numbered
      /\ \A u, d, k :
           Cardinality(Charged(u, d, k)) = IF u \in Busy /\ d = 1 /\ k = "all" THEN 1 ELSE 0
  BY BusyJobs
<1>2. Idle \in Call /\ Idle.day = 1 /\ ~Idle.inserted /\ Idle.at = "idle" /\ 1 \in Days
  BY IntakeAssumption DEF Idle, Call, Results, Days
<1>3. IntakeTypeOK
  BY <1>1, <1>2, IntakeAssumption DEF IntakeInit, IntakeTypeOK
<1>4. \A c \in Callers : CallOK(call[c]) /\ ~call[c].inserted
  BY <1>2 DEF IntakeInit, CallOK
<1>5. ASSUME NEW u \in Users, NEW d \in Days, NEW k \in Kinds
      PROVE  Load(u, d, k) = used[u][d][k] /\ used[u][d][k] <= Limit[k] /\ slips[u][d] = 0
  <2>1. Pending(u, d, k) = {}
    BY <1>2 DEF IntakeInit, Pending, Weighs
  <2>2. Load(u, d, k) = IF u \in Busy /\ d = 1 /\ k = "all" THEN 1 ELSE 0
    BY <1>1, <2>1, FS_EmptySet DEF Load
  <2>3. used[u][d][k] = (IF u \in Busy /\ d = 1 /\ k = "all" THEN 1 ELSE 0) /\ slips[u][d] = 0
    BY DEF IntakeInit
  <2>4. Limit[k] \in Nat /\ (Busy # {} => Limit["all"] >= 1)
    BY LimitType, IntakeAssumption DEF Limit
  <2> QED
    BY <2>2, <2>3, <2>4
<1>6. Covered
  <2> SUFFICES ASSUME NEW u \in Users, NEW d \in Days, NEW k \in Kinds
               PROVE  used[u][d][k] <= Limit[k] /\ Load(u, d, k) <= used[u][d][k] + slips[u][d]
    BY DEF Covered
  <2>1. used[u][d][k] \in Nat
    BY <1>3 DEF IntakeTypeOK
  <2> QED
    BY <1>5, <2>1
<1>7. Exact
  BY <1>2, <1>4, <1>5 DEF Exact
<1> QED
  BY <1>1, <1>3, <1>4, <1>6, <1>7 DEF Books

\* Books says what the runs check.
LEMMA BooksAreKept == Books => IntakeTypeOK /\ OverrunsAreSlips /\ OnlyJobsAreCharged
<1> SUFFICES ASSUME Books PROVE OverrunsAreSlips /\ OnlyJobsAreCharged
  BY DEF Books
<1>1. Numbered /\ IntakeTypeOK /\ Covered /\ Exact
  BY DEF Books
<1>2. OverrunsAreSlips
  <2> SUFFICES ASSUME NEW u \in Users, NEW d \in Days, NEW k \in Kinds
               PROVE  Cardinality(Charged(u, d, k)) <= Limit[k] + slips[u][d]
    BY DEF OverrunsAreSlips
  <2>1. /\ used[u][d][k] \in Nat /\ slips[u][d] \in Nat /\ Limit[k] \in Nat
        /\ used[u][d][k] <= Limit[k] /\ Load(u, d, k) <= used[u][d][k] + slips[u][d]
    BY <1>1, LimitType DEF IntakeTypeOK, Covered
  <2> QED
    BY <1>1, <2>1, ChargedFinite, PendingFinite DEF Load
<1>3. OnlyJobsAreCharged
  <2> SUFFICES ASSUME Quiet, \A c \in Callers : call[c].at \notin {"create", "release"},
                      NEW u \in Users, NEW k \in Kinds
               PROVE  used[u][1][k] = Cardinality(Charged(u, 1, k))
    BY DEF OnlyJobsAreCharged, Quiet
  <2>1. Pending(u, 1, k) = {}
    BY DEF Pending, Weighs
  <2>2. used[u][1][k] = Load(u, 1, k)
    BY <1>1 DEF Exact
  <2> QED
    BY <1>1, <2>1, <2>2, ChargedFinite, FS_EmptySet DEF Load
<1> QED
  BY <1>2, <1>3

\* ResearchUsageGate: whatever calls race, transactions fail, acknowledgements
\* are lost and processes die, a job over a daily limit was let in by a release
\* that gave back a unit of another job or another day; and while nothing of
\* the kind happens, an owner is charged for its jobs and nothing else.
THEOREM QuotasHold == IntakeSpec => [](IntakeTypeOK /\ OverrunsAreSlips /\ OnlyJobsAreCharged)
<1> QED
  BY BooksInit, BooksNext, BooksAreKept, PTL DEF IntakeSpec

-----------------------------------------------------------------------------
\* A set of numbers that is not empty has a least one: the initial segments of
\* the numbers are finite, and finite sets are well-founded under inclusion.
LEMMA LeastOf ==
  ASSUME NEW T, T \subseteq Nat, T # {}
  PROVE  \E x \in T : \A y \in T : x <= y
<1> DEFINE R == StrictSubsetOrdering(Nat)
           F == FiniteSubsetsOf(Nat)
           Up == {0..x : x \in T}
<1>1. IsWellFoundedOn(R, F)
  BY FS_StrictSubsetOrderingWellFounded
<1>2. Up \subseteq F /\ Up # {}
  <2>1. \A x \in T : IsFiniteSet(0..x) /\ 0..x \subseteq Nat
    BY FS_Interval
  <2> QED
    BY <2>1 DEF FiniteSubsetsOf
<1>3. \E s \in Up : \A t \in Up : ~(<<t, s>> \in R)
  <2> HIDE DEF R, F, Up
  <2> QED
    BY <1>1, <1>2, WFMin
<1>4. PICK x \in T : \A y \in T : ~(<<0..y, 0..x>> \in R)
  BY <1>3
<1>5. ASSUME NEW y \in T, y < x PROVE FALSE
  <2>1. 0..y \subseteq 0..x /\ x \in 0..x /\ x \notin 0..y
    BY <1>5
  <2>2. <<0..y, 0..x>> \in (SUBSET Nat) \X (SUBSET Nat)
    OBVIOUS
  <2>3. <<0..y, 0..x>> \in R
    BY <2>1, <2>2 DEF StrictSubsetOrdering
  <2> QED
    BY <1>4, <2>3
<1> QED
  BY <1>5

\* The loop over the subscribers is at one of those that are left.
LEMMA FirstIsOne ==
  ASSUME NEW owners, owners \subseteq Users, owners # {}
  PROVE  First(owners) \in owners
<1> DEFINE T == {i \in DOMAIN Order : Order[i] \in owners}
<1>1. Order \in Seq(Users) /\ DOMAIN Order \subseteq Nat
  BY OrderAssumption
<1>2. T \subseteq Nat /\ T # {}
  BY <1>1, OrderAssumption
<1> HIDE DEF T
<1>3. PICK i \in T : \A k \in T : i <= k
  BY <1>2, LeastOf
<1>4. Order[i] \in owners /\ \A k \in 1..(i - 1) : Order[k] \notin owners
  <2>1. i \in 1..Len(Order) /\ Order[i] \in owners
    BY <1>1, <1>3 DEF T
  <2>2. ASSUME NEW k \in 1..(i - 1), Order[k] \in owners PROVE FALSE
    <3>1. k \in DOMAIN Order /\ k < i
      BY <1>1, <2>1
    <3> QED
      BY <1>2, <1>3, <2>2, <3>1 DEF T
  <2> QED
    BY <2>1, <2>2
<1> QED
  BY <1>3, <1>4 DEF First, T

\* What a run of an event knows of the subscribers it is through with, and of
\* the call it waits for.
Through(c, u) == Enqueued(run[c].event, u) \/ u \in run[c].limited
Reported(x) == x.at \in {"queued", "duplicate"} \/ (x.at = "release" /\ x.why = "duplicate")
RunOK(c) ==
  /\ run[c].at # "idle" =>
       /\ run[c].event \in Events
       /\ \A u \in run[c].subscribers \ run[c].left : Through(c, u)
  /\ run[c].at = "corpus" => run[c].left = run[c].subscribers
  /\ run[c].at = "enqueue" =>
       /\ run[c].left # {}
       /\ call[c].user = Owner(c) /\ call[c].event = run[c].event
       /\ Reported(call[c]) => Enqueued(run[c].event, Owner(c))

\* The inductive invariant of the dispatch.
Runs == DispatchInv /\ \A c \in Callers : RunOK(c)

\* Jobs stay, so what a run knows of them stays true.
LEMMA OtherRuns ==
  ASSUME NEW c, RunOK(c), run'[c] = run[c], jobs \subseteq jobs',
         call'[c] = call[c]
  PROVE  RunOK(c)'
BY DEF RunOK, Through, Enqueued, Owner, Reported

\* What leaves runs, calls and jobs alone leaves them right.
LEMMA SameRuns ==
  ASSUME Runs, IntakeTypeOK', UNCHANGED <<run, call, jobs>>,
         watch' \in [Events -> SUBSET Users], settled' \subseteq Events, blocked' \subseteq settled'
  PROVE  Runs'
<1>1. \A c \in Callers : RunOK(c)'
  BY OtherRuns DEF Runs
<1>2. DispatchTypeOK'
  BY DEF Runs, DispatchInv, DispatchTypeOK
<1>3. OneJobPerEvent'
  BY DEF Runs, DispatchInv, OneJobPerEvent
<1> QED
  BY <1>1, <1>2, <1>3 DEF Runs, DispatchInv

\* A step of one run that inserts no job.
LEMMA RunStep ==
  ASSUME Runs, IntakeTypeOK', NEW c \in Callers, NEW r \in Run,
         run' = [run EXCEPT ![c] = r], r.left \cup r.limited \subseteq r.subscribers,
         \A b \in Callers : b # c => call'[b] = call[b],
         r.at = "enqueue" => call'[c].at # "idle",
         RunOK(c)', UNCHANGED <<watch, jobs>>, settled' \subseteq Events, blocked' \subseteq settled'
  PROVE  Runs'
<1>1. run \in [Callers -> Run] /\ \A b \in Callers : RunOK(b)
  BY DEF Runs, DispatchInv, DispatchTypeOK
<1>2. run'[c] = r /\ run' \in [Callers -> Run] /\ \A b \in Callers : b # c => run'[b] = run[b]
  BY <1>1
<1>3. \A b \in Callers : RunOK(b)'
  BY <1>1, <1>2, OtherRuns
<1>4. DispatchTypeOK'
  BY <1>2 DEF Runs, DispatchInv, DispatchTypeOK
<1>5. OneJobPerEvent'
  BY DEF Runs, DispatchInv, OneJobPerEvent
<1> QED
  BY <1>3, <1>4, <1>5 DEF Runs, DispatchInv

-----------------------------------------------------------------------------
\* What a step of enqueue answers about its event and owner is so: "duplicate"
\* and "queued" are said only when the job is there.
LEMMA EnqueueTells ==
  ASSUME Books, NEW c \in Callers, Enqueue(c)
  PROVE  /\ call' = [call EXCEPT ![c] = call'[c]] /\ jobs \subseteq jobs'
         /\ call[c].at # "idle" /\ call'[c].at # "idle"
         /\ call'[c].user = call[c].user /\ call'[c].event = call[c].event
         /\ call[c].event # None /\ Reported(call'[c])
              => Reported(call[c]) \/ Enqueued(call[c].event, call[c].user)'
         /\ jobs' = jobs \/ (jobs' = jobs \cup {JobOf(c)} /\ ~Conflicts(c))
<1>1. call \in [Callers -> Call] /\ CallOK(call[c]) /\ call[c] \in Call
  BY DEF Books, IntakeTypeOK
<1>2. CASE Reserve(c)
  <2>1. \E x \in {"limited", "create", "failed"}, d \in Days :
          call' = [call EXCEPT ![c].at = x, ![c].day = d]
    <3>1. call[c].day \in Days /\ today \in Days
      BY <1>1 DEF Call, Books, IntakeTypeOK
    <3>2. \A x : [call EXCEPT ![c].at = x] = [call EXCEPT ![c].at = x, ![c].day = call[c].day]
      BY <1>1 DEF Call
    <3> QED
      BY <1>2, <3>1, <3>2 DEF Reserve
  <2>2. jobs' = jobs /\ call[c].at = "reserve"
    BY <1>2 DEF Reserve
  <2>3. PICK x \in {"limited", "create", "failed"}, d \in Days :
          call' = [call EXCEPT ![c].at = x, ![c].day = d]
    BY <2>1
  <2>4. /\ call' = [call EXCEPT ![c] = call'[c]] /\ call'[c].at = x
        /\ call'[c].user = call[c].user /\ call'[c].event = call[c].event
    BY <1>1, <2>3 DEF Call
  <2> QED
    BY <2>2, <2>4 DEF Reported
<1>3. CASE CreateJob(c)
  <2>1. JobOf(c).event = call[c].event /\ JobOf(c).user = call[c].user
    BY DEF JobOf
  <2>2. CASE ~Conflicts(c) /\ jobs' = jobs \cup {JobOf(c)} /\ call' = [call EXCEPT ![c].at = "queued"]
    <3>1. Enqueued(call[c].event, call[c].user)'
      BY <1>1, <2>1, <2>2 DEF Enqueued, Call
    <3>2. call[c].at = "create"
      BY <1>3 DEF CreateJob
    <3> QED
      BY <1>1, <2>2, <3>1, <3>2 DEF Call
  <2>3. CASE Conflicts(c) /\ jobs' = jobs /\ call' = [call EXCEPT ![c].at = "release", ![c].why = "duplicate"]
    <3>1. \E j \in jobs' : j.event = call[c].event /\ j.user = call[c].user
      BY <2>3 DEF Enqueued, Conflicts
    <3>2. call[c].at = "create"
      BY <1>3 DEF CreateJob
    <3> QED
      BY <1>1, <2>3, <3>1, <3>2 DEF Call, Enqueued
  <2>4. ASSUME NEW inserted \in BOOLEAN, inserted => ~Conflicts(c),
               jobs' = IF inserted THEN jobs \cup {JobOf(c)} ELSE jobs,
               call' = [call EXCEPT ![c].at = "release", ![c].why = "failed", ![c].inserted = inserted]
        PROVE  /\ call' = [call EXCEPT ![c] = call'[c]] /\ jobs \subseteq jobs'
               /\ call'[c].at # "idle" /\ ~Reported(call'[c])
               /\ call'[c].user = call[c].user /\ call'[c].event = call[c].event
               /\ jobs' = jobs \/ (jobs' = jobs \cup {JobOf(c)} /\ ~Conflicts(c))
    BY <1>1, <2>4 DEF Call, Reported
  <2>5. call[c].at = "create"
    BY <1>3 DEF CreateJob
  <2> QED
    BY <1>3, <2>2, <2>3, <2>4, <2>5 DEF CreateJob
<1>4. CASE Release(c)
  <2>1. call[c].at = "release" /\ call[c].why \in {"duplicate", "failed"} /\ jobs' = jobs
    BY <1>1, <1>4 DEF Release, CallOK
  <2>2. call' = [call EXCEPT ![c].at = call[c].why] \/ call' = [call EXCEPT ![c].at = "failed"]
    BY <1>4 DEF Release
  <2> QED
    BY <1>1, <2>1, <2>2 DEF Call, Reported
<1> QED
  BY <1>2, <1>3, <1>4 DEF Enqueue

\* A step of enqueue leaves every run right about its call.
LEMMA EnqueueRuns ==
  ASSUME Books, Runs, NEW c \in Callers, EnqueueFor(c)
  PROVE  Runs'
<1>1. Enqueue(c) /\ UNCHANGED <<watch, run, settled, blocked>>
  BY DEF EnqueueFor
<1>2. /\ call' = [call EXCEPT ![c] = call'[c]] /\ jobs \subseteq jobs'
      /\ call'[c].at # "idle"
      /\ call'[c].user = call[c].user /\ call'[c].event = call[c].event
      /\ call[c].event # None /\ Reported(call'[c])
           => Reported(call[c]) \/ Enqueued(call[c].event, call[c].user)'
      /\ jobs' = jobs \/ (jobs' = jobs \cup {JobOf(c)} /\ ~Conflicts(c))
  BY <1>1, EnqueueTells
<1>3. IntakeTypeOK' /\ call \in [Callers -> Call]
  BY <1>1, EnqueueBooks DEF Books, IntakeTypeOK
<1>4. \A b \in Callers : b # c => call'[b] = call[b]
  BY <1>2, <1>3
<1>5. RunOK(c)'
  <2>1. RunOK(c) /\ run'[c] = run[c]
    BY <1>1 DEF Runs
  <2>2. \A e, u : Enqueued(e, u) => Enqueued(e, u)'
    BY <1>2 DEF Enqueued
  <2>3. run[c].at # "idle" =>
          /\ run[c].event \in Events
          /\ \A u \in run[c].subscribers \ run[c].left : Through(c, u)'
    BY <2>1, <2>2 DEF RunOK, Through
  <2>4. ASSUME run[c].at = "enqueue", Reported(call'[c])
        PROVE  Enqueued(run[c].event, Owner(c))'
    <3>1. call[c].user = Owner(c) /\ call[c].event = run[c].event /\ run[c].event # None
      BY <2>1, <2>4, IntakeAssumption DEF RunOK
    <3>2. Reported(call[c]) => Enqueued(run[c].event, Owner(c))
      BY <2>1, <2>4 DEF RunOK
    <3>3. \E e, u : e = run[c].event /\ u = Owner(c) /\ Enqueued(e, u)'
      BY <1>2, <2>2, <2>4, <3>1, <3>2
    <3> QED
      BY <2>1, <3>3 DEF Owner, Enqueued
  <2> QED
    BY <1>2, <2>1, <2>3, <2>4 DEF RunOK, Owner
<1>6. \A b \in Callers : RunOK(b)'
  BY <1>1, <1>2, <1>4, <1>5, OtherRuns DEF Runs
<1>7. DispatchTypeOK'
  BY <1>1, <1>2, <1>3, <1>4 DEF Runs, DispatchInv, DispatchTypeOK
<1>8. OneJobPerEvent'
  <2>1. OneJobPerEvent
    BY DEF Runs, DispatchInv
  <2>2. CASE jobs' = jobs
    BY <2>1, <2>2 DEF OneJobPerEvent
  <2>3. CASE jobs' = jobs \cup {JobOf(c)} /\ ~Conflicts(c)
    <3>1. \A j \in jobs : ~(j.event # None /\ j.event = JobOf(c).event /\ j.user = JobOf(c).user)
      BY <2>3 DEF Conflicts, Enqueued, JobOf
    <3> QED
      BY <2>1, <2>3, <3>1 DEF OneJobPerEvent
  <2> QED
    BY <1>2, <2>2, <2>3
<1> QED
  BY <1>6, <1>7, <1>8 DEF Runs, DispatchInv

-----------------------------------------------------------------------------
LEMMA RunTypes ==
  /\ NoRun \in Run
  /\ \A r \in Run, x \in {"idle", "corpus", "subscriber", "enqueue"} : [r EXCEPT !.at = x] \in Run
<1>1. NoRun \in Run
  BY DEF NoRun, Run
<1>2. ASSUME NEW r \in Run, NEW x \in {"idle", "corpus", "subscriber", "enqueue"}
      PROVE  [r EXCEPT !.at = x] \in Run
  BY DEF Run
<1> QED
  BY <1>1, <1>2

\* A run ends; an event is settled only when a run of it was under way.
LEMMA EndOfRun ==
  ASSUME Books, Runs, Books', NEW c \in Callers, run[c].at # "idle",
         run' = [run EXCEPT ![c] = NoRun],
         \A b \in Callers : b # c => call'[b] = call[b],
         UNCHANGED <<watch, jobs>>,
         settled' \in {settled, settled \cup {run[c].event}},
         blocked' \subseteq settled'
  PROVE  Runs'
<1>1. run[c].event \in Events /\ settled' \subseteq Events
  BY DEF Runs, RunOK, DispatchInv, DispatchTypeOK
<1>2. run'[c] = NoRun
  BY DEF Runs, DispatchInv, DispatchTypeOK
<1>3. RunOK(c)'
  BY <1>2 DEF RunOK, NoRun
<1>4. IntakeTypeOK' /\ NoRun.left \cup NoRun.limited \subseteq NoRun.subscribers /\ NoRun.at = "idle"
  BY DEF Books, NoRun
<1> QED
  BY <1>1, <1>3, <1>4, RunTypes, RunStep

\* The steps of a run, one by one: it begins with all of its subscribers left.
LEMMA DispatchRuns ==
  ASSUME Books, Runs, NEW c \in Callers, NEW e \in Events, Dispatch(c, e)
  PROVE  Books' /\ Runs'
<1>1. Books' /\ IntakeTypeOK'
  BY StutterBooks DEF Dispatch, Books
<1>2. UNCHANGED <<jobs, call, watch, blocked>>
  BY DEF Dispatch, intakeVars
<1>3. DispatchTypeOK
  BY DEF Runs, DispatchInv
<1>4. CASE settled' = settled \cup {e} /\ run' = run
  BY <1>1, <1>2, <1>3, <1>4, SameRuns DEF DispatchTypeOK
<1>5. CASE /\ run' = [run EXCEPT ![c] = [at |-> "corpus", event |-> e, subscribers |-> watch[e],
                                         left |-> watch[e], limited |-> {}]]
           /\ settled' = settled
  <2> DEFINE r == [at |-> "corpus", event |-> e, subscribers |-> watch[e], left |-> watch[e], limited |-> {}]
  <2>1. r \in Run
    BY <1>3 DEF DispatchTypeOK, Run
  <2>2. run'[c] = r
    BY <1>3, <1>5 DEF DispatchTypeOK
  <2>3. RunOK(c)'
    BY <2>2 DEF RunOK
  <2>4. r.left \cup r.limited \subseteq r.subscribers /\ r.at = "corpus"
    OBVIOUS
  <2>5. run' = [run EXCEPT ![c] = r]
    BY <1>5
  <2> HIDE DEF r
  <2> QED
    BY <1>1, <1>2, <1>3, <1>5, <2>1, <2>3, <2>4, <2>5, RunStep DEF DispatchTypeOK
<1> QED
  BY <1>1, <1>4, <1>5 DEF Dispatch

\* The gate opens, or ends the run.
LEMMA CorpusGateRuns ==
  ASSUME Books, Runs, NEW c \in Callers, CorpusGate(c)
  PROVE  Books' /\ Runs'
<1>1. Books' /\ IntakeTypeOK'
  BY StutterBooks DEF CorpusGate, Books
<1>2. UNCHANGED <<jobs, call, watch>> /\ run[c].at = "corpus"
  BY DEF CorpusGate, intakeVars
<1>3. DispatchTypeOK /\ run \in [Callers -> Run] /\ RunOK(c)
  BY DEF Runs, DispatchInv, DispatchTypeOK
<1>4. CASE run' = [run EXCEPT ![c].at = "subscriber"] /\ UNCHANGED <<settled, blocked>>
  <2> DEFINE r == [run[c] EXCEPT !.at = "subscriber"]
  <2>1. r \in Run /\ run' = [run EXCEPT ![c] = r] /\ run'[c] = r
    BY <1>3, <1>4, RunTypes
  <2>2. /\ r.at = "subscriber" /\ r.event = run[c].event /\ r.subscribers = run[c].subscribers
        /\ r.left = run[c].left /\ r.limited = run[c].limited
    BY <1>3 DEF Run
  <2> HIDE DEF r
  <2>3. RunOK(c)'
    BY <1>2, <1>3, <2>1, <2>2 DEF RunOK, Through
  <2> QED
    BY <1>1, <1>2, <1>3, <1>4, <2>1, <2>2, <2>3, RunStep DEF DispatchTypeOK
<1>5. CASE Completes(c) /\ blocked' = blocked \cup {run[c].event}
  BY <1>1, <1>2, <1>3, <1>5, EndOfRun DEF Completes, DispatchTypeOK
<1> QED
  BY <1>1, <1>4, <1>5 DEF CorpusGate

\* An owner who has the job is through; for another one enqueue is called.
LEMMA NextSubscriberRuns ==
  ASSUME Books, Runs, NEW c \in Callers, NextSubscriber(c)
  PROVE  Books' /\ Runs'
<1>1. /\ run[c].at = "subscriber" /\ run[c].left # {}
      /\ UNCHANGED <<watch, settled, blocked>>
  BY DEF NextSubscriber
<1>2. DispatchTypeOK /\ run \in [Callers -> Run] /\ run[c] \in Run /\ RunOK(c)
  BY DEF Runs, DispatchInv, DispatchTypeOK
<1>3. Owner(c) \in run[c].left /\ Owner(c) \in Users /\ run[c].event \in Events
  BY <1>1, <1>2, FirstIsOne DEF Run, Owner, RunOK
<1>4. run[c].left \subseteq run[c].subscribers /\ run[c].limited \subseteq run[c].subscribers
  BY <1>2 DEF DispatchTypeOK
<1>5. CASE /\ Enqueued(run[c].event, Owner(c))
           /\ run' = [run EXCEPT ![c].left = @ \ {Owner(c)}]
           /\ UNCHANGED intakeVars
  <2> DEFINE r == [run[c] EXCEPT !.left = @ \ {Owner(c)}]
  <2>1. r \in Run /\ run' = [run EXCEPT ![c] = r] /\ run'[c] = r
    BY <1>2, <1>5 DEF Run
  <2>2. /\ r.at = "subscriber" /\ r.event = run[c].event /\ r.subscribers = run[c].subscribers
        /\ r.left = run[c].left \ {Owner(c)} /\ r.limited = run[c].limited
    BY <1>1, <1>2 DEF Run
  <2> HIDE DEF r
  <2>3. UNCHANGED <<jobs, call>>
    BY <1>5 DEF intakeVars
  <2>4. RunOK(c)'
    <3>1. \A u \in run[c].subscribers \ (run[c].left \ {Owner(c)}) : Through(c, u)
      BY <1>1, <1>2, <1>5 DEF RunOK, Through
    <3> QED
      BY <1>3, <2>1, <2>2, <2>3, <3>1 DEF RunOK, Through, Enqueued
  <2>5. Books' /\ IntakeTypeOK'
    BY <1>5, StutterBooks DEF Books
  <2>6. r.left \cup r.limited \subseteq r.subscribers /\ r.at = "subscriber"
    BY <1>4, <2>2
  <2> QED
    BY <1>1, <1>2, <2>1, <2>3, <2>4, <2>5, <2>6, RunStep DEF DispatchTypeOK
<1>6. CASE /\ Submit(c, Owner(c), FALSE, run[c].event)
           /\ run' = [run EXCEPT ![c].at = "enqueue"]
  <2> DEFINE r == [run[c] EXCEPT !.at = "enqueue"]
  <2>1. r \in Run /\ run' = [run EXCEPT ![c] = r] /\ run'[c] = r
    BY <1>2, <1>6, RunTypes
  <2>2. /\ r.at = "enqueue" /\ r.event = run[c].event /\ r.subscribers = run[c].subscribers
        /\ r.left = run[c].left /\ r.limited = run[c].limited
    BY <1>2 DEF Run
  <2> HIDE DEF r
  <2>3. Books' /\ IntakeTypeOK'
    BY <1>3, <1>6, SubmitBooks DEF Books
  <2>4. /\ \A b \in Callers : b # c => call'[b] = call[b]
        /\ call'[c].at = "reserve" /\ call'[c].user = Owner(c) /\ call'[c].event = run[c].event
        /\ jobs' = jobs
    BY <1>6 DEF Submit, Books, IntakeTypeOK, Idle
  <2>5. Owner(c)' = Owner(c)
    BY <2>1, <2>2 DEF Owner
  <2>6. RunOK(c)'
    <3>1. \A u \in run[c].subscribers \ run[c].left : Through(c, u)
      BY <1>1, <1>2 DEF RunOK
    <3>2. \A u \in run[c].subscribers \ run[c].left : Through(c, u)'
      BY <2>1, <2>2, <2>4, <3>1 DEF Through, Enqueued
    <3> QED
      BY <1>1, <1>3, <2>1, <2>2, <2>4, <2>5, <3>2 DEF RunOK, Reported
  <2>7. r.left \cup r.limited \subseteq r.subscribers
    BY <1>4, <2>2
  <2> QED
    BY <1>1, <1>2, <2>1, <2>2, <2>3, <2>4, <2>6, <2>7, RunStep DEF DispatchTypeOK
<1> QED
  BY <1>5, <1>6 DEF NextSubscriber

\* enqueue answers that the owner has the job, or is over its quota, or the run ends.
LEMMA AnswerRuns ==
  ASSUME Books, Runs, NEW c \in Callers, Answer(c)
  PROVE  Books' /\ Runs'
<1>1. /\ run[c].at = "enqueue" /\ Return(c)
      /\ UNCHANGED <<watch, blocked, jobs>>
  BY DEF Answer, Return
<1>2. DispatchTypeOK /\ run \in [Callers -> Run] /\ run[c] \in Run /\ RunOK(c)
  BY DEF Runs, DispatchInv, DispatchTypeOK
<1>3. Books' /\ IntakeTypeOK' /\ call \in [Callers -> Call]
  BY <1>1, ForgetBooks DEF Return, Books, IntakeTypeOK
<1>4. \A b \in Callers : b # c => call'[b] = call[b]
  BY <1>1, <1>3 DEF Return
<1>5. Owner(c) \in run[c].left /\ run[c].event \in Events
  BY <1>1, <1>2, FirstIsOne DEF Run, Owner, RunOK
<1>6. run[c].left \subseteq run[c].subscribers /\ run[c].limited \subseteq run[c].subscribers
  BY <1>2 DEF DispatchTypeOK
<1>7. CASE /\ call[c].at \in {"queued", "limited", "duplicate"}
           /\ run' = [run EXCEPT ![c].at = "subscriber", ![c].left = @ \ {Owner(c)},
                        ![c].limited = IF call[c].at = "limited" THEN @ \cup {Owner(c)} ELSE @]
           /\ settled' = settled
  <2> DEFINE l == IF call[c].at = "limited" THEN run[c].limited \cup {Owner(c)} ELSE run[c].limited
             r == [run[c] EXCEPT !.at = "subscriber", !.left = run[c].left \ {Owner(c)}, !.limited = l]
  <2>0. l \in SUBSET Users /\ run[c].left \ {Owner(c)} \in SUBSET Users /\ l \subseteq run[c].subscribers
    BY <1>2, <1>5, <1>6 DEF Run
  <2>1. r \in Run /\ run' = [run EXCEPT ![c] = r] /\ run'[c] = r
    <3>1. r \in Run
      BY <1>2, <2>0 DEF Run
    <3>2. run' = [run EXCEPT ![c] = r]
      BY <1>2, <1>7 DEF Run
    <3> QED
      BY <1>2, <3>1, <3>2
  <2>2. /\ r.at = "subscriber" /\ r.event = run[c].event /\ r.subscribers = run[c].subscribers
        /\ r.left = run[c].left \ {Owner(c)} /\ r.limited = l
    BY <1>2 DEF Run
  <2> HIDE DEF r
  <2>3. ASSUME NEW u \in run[c].subscribers \ (run[c].left \ {Owner(c)})
        PROVE  Enqueued(run[c].event, u) \/ u \in l
    <3>1. CASE u = Owner(c)
      BY <1>1, <1>2, <1>7, <3>1 DEF RunOK, Reported
    <3>2. CASE u # Owner(c)
      BY <1>1, <1>2, <3>2 DEF RunOK, Through
    <3> QED
      BY <3>1, <3>2
  <2> HIDE DEF l
  <2>4. RunOK(c)'
    BY <1>1, <1>5, <2>1, <2>2, <2>3 DEF RunOK, Through, Enqueued
  <2>5. r.left \cup r.limited \subseteq r.subscribers
    BY <1>6, <2>0, <2>2
  <2> QED
    BY <1>1, <1>2, <1>3, <1>4, <1>7, <2>1, <2>2, <2>4, <2>5, RunStep DEF DispatchTypeOK
<1>8. CASE call[c].at = "failed" /\ Fails(c)
  BY <1>1, <1>2, <1>3, <1>4, <1>8, EndOfRun DEF Fails, DispatchTypeOK
<1> QED
  BY <1>3, <1>7, <1>8 DEF Answer

LEMMA DieRuns ==
  ASSUME Books, Runs, NEW c \in Callers, Die(c)
  PROVE  Books' /\ Runs'
<1>1. Books' /\ call \in [Callers -> Call]
  BY ForgetBooks DEF Die, Books, IntakeTypeOK
<1>2. \A b \in Callers : b # c => call'[b] = call[b]
  BY <1>1 DEF Die
<1>3. blocked' \subseteq settled'
  BY DEF Die, Fails, Runs, DispatchInv, DispatchTypeOK
<1> QED
  BY <1>1, <1>2, <1>3, EndOfRun DEF Die, Fails

LEMMA FinishRuns ==
  ASSUME Books, Runs, NEW c \in Callers, Finish(c)
  PROVE  Books' /\ Runs'
<1>1. Books' /\ UNCHANGED <<jobs, call>>
  BY StutterBooks DEF Finish, intakeVars
<1>2. blocked' \subseteq settled'
  BY DEF Finish, Completes, Runs, DispatchInv, DispatchTypeOK
<1> QED
  BY <1>1, <1>2, EndOfRun DEF Finish, Completes

\* Books and runs are inductive for the dispatch.
LEMMA RunsNext == Books /\ Runs /\ [DispatchNext]_dispatchVars => Books' /\ Runs'
<1> SUFFICES ASSUME Books, Runs, [DispatchNext]_dispatchVars PROVE Books' /\ Runs'
  OBVIOUS
<1>1. ASSUME NEW e \in Events, NEW u \in Users, OptIn(e, u) PROVE Books' /\ Runs'
  <2>1. Books' /\ IntakeTypeOK' /\ UNCHANGED <<run, call, jobs, settled, blocked>>
    BY <1>1, StutterBooks DEF OptIn, intakeVars, Books
  <2>2. watch \in [Events -> SUBSET Users] /\ settled \subseteq Events /\ blocked \subseteq settled
    BY DEF Runs, DispatchInv, DispatchTypeOK
  <2>3. watch' \in [Events -> SUBSET Users]
    BY <1>1, <2>2 DEF OptIn
  <2> QED
    BY <2>1, <2>2, <2>3, SameRuns
<1>2. ASSUME NEW c \in Callers, Loop(c) PROVE Books' /\ Runs'
  BY <1>2, CorpusGateRuns, NextSubscriberRuns, AnswerRuns, FinishRuns DEF Loop
<1>3. ASSUME NEW c \in Callers, EnqueueFor(c) PROVE Books' /\ Runs'
  BY <1>3, EnqueueBooks, EnqueueRuns DEF EnqueueFor
<1>4. CASE UNCHANGED dispatchVars
  <2>1. Books' /\ IntakeTypeOK' /\ UNCHANGED <<run, call, jobs, watch, settled, blocked>>
    BY <1>4, StutterBooks DEF dispatchVars, intakeVars, Books
  <2> QED
    BY <2>1, SameRuns DEF Runs, DispatchInv, DispatchTypeOK
<1> QED
  BY <1>1, <1>2, <1>3, <1>4, DispatchRuns, DieRuns DEF DispatchNext

\* Both hold at the beginning.
LEMMA RunsInit == DispatchInit => Books /\ Runs
<1> SUFFICES ASSUME DispatchInit PROVE Books /\ Runs
  OBVIOUS
<1>1. Books /\ IntakeTypeOK
  BY BooksInit DEF DispatchInit, Books
<1>2. \A c \in Callers : run[c] = NoRun
  BY DEF DispatchInit
<1>3. \A c \in Callers : RunOK(c)
  BY <1>2 DEF RunOK, NoRun
<1>4. DispatchTypeOK
  BY <1>1, <1>2, RunTypes DEF DispatchInit, DispatchTypeOK, NoRun
<1>5. OneJobPerEvent
  BY DEF DispatchInit, IntakeInit, OneJobPerEvent
<1> QED
  BY <1>1, <1>3, <1>4, <1>5 DEF Runs, DispatchInv

\* Runs that overlap, fail, die and are repeated leave an owner one job of an
\* event: by the unique index, however long ago _already_enqueued was asked.
THEOREM DispatchIsIdempotent == DispatchSpec => []DispatchInv
<1>1. Runs => DispatchInv
  BY DEF Runs
<1> QED
  BY <1>1, RunsInit, RunsNext, PTL DEF DispatchSpec

\* The books of the quotas are kept under the dispatch too: its duplicates are
\* free, its jobs are charged, and one over a limit follows a release that
\* slipped.
THEOREM DispatchIsCharged == DispatchSpec => [](OnlyJobsAreCharged /\ OverrunsAreSlips)
<1> QED
  BY RunsInit, RunsNext, BooksAreKept, PTL DEF DispatchSpec

\* When a run of an event is through, every subscriber it read has its job or
\* was refused for its own quota: an owner over its quota, a duplicate, a
\* concurrent run or a retry costs no other owner its job.
THEOREM RunsReachEverybody == DispatchSpec => []NobodyIsSuppressed
<1>1. Runs => NobodyIsSuppressed
  BY DEF Runs, RunOK, Through, NobodyIsSuppressed
<1> QED
  BY <1>1, RunsInit, RunsNext, PTL DEF DispatchSpec
=============================================================================
