------------------------------ MODULE RecordsProofs ------------------------------
(* What the records beside the queue owe their readers: the alerts of the    *)
(* monitoring, the coverage that the corpus jobs report, and the bars that   *)
(* the daily refresh of the prices must not lose.                            *)
EXTENDS Monitoring, CorpusBackfill, MarketRefresh, FiniteSetTheorems, TLAPS

-----------------------------------------------------------------------------
(* Whoever looks at the newest delta of a security has been alerted to it,   *)
(* for any number of executions and users and whatever the analyses find.    *)

Present(e) == Writing(e) \/ e \in OnFile

\* The fields that a snapshot has from when it is inserted.
Fields(s) ==
  s = [step |-> s.step, user |-> s.user, at |-> s.at, done |-> s.done, report |-> s.report,
       hash |-> s.hash, risks |-> s.risks, catalysts |-> s.catalysts, confidence |-> s.confidence,
       metrics |-> s.metrics, alert |-> s.alert]

\* What no later step changes, and what a comparison depends on.
Data(s) == <<s.user, s.at, s.hash, s.risks, s.catalysts, s.confidence, s.metrics>>

\* A snapshot is dated when it is begun and when it is committed, and no two are
\* begun at the same time.
Times ==
  /\ ticks \in Nat
  /\ \A e \in Executions : Present(e) =>
       snapshots[e].at \in 1..ticks /\ Fields(snapshots[e])
  /\ \A e \in OnFile : snapshots[e].done \in 1..ticks /\ snapshots[e].at < snapshots[e].done
  /\ \A e, f \in Executions : Present(e) /\ Present(f) /\ snapshots[e].at = snapshots[f].at => e = f

AlertsOf(e) == IF e \in OnFile THEN alerts[e] ELSE snapshots[e].alert
Of(p, e) == Delta(snapshots[p], snapshots[e])
AlertOf(p, e, read) ==
  [prior |-> p, delta |-> Of(p, e), severity |-> Severity(Of(p, e)), read |-> read]

\* An alert names a snapshot of the same user that was on file, and what changed.
Sound(e) == \A a \in AlertsOf(e) : \E p \in OnFile, read \in BOOLEAN :
  snapshots[p].user = snapshots[e].user /\ a = AlertOf(p, e, read)

\* p was on file before e was begun, and nothing of the user's is between them.
Before(p, e) ==
  /\ p # e /\ snapshots[p].user = snapshots[e].user /\ snapshots[p].done < snapshots[e].at
  /\ \A f \in OnFile \ {e} :
       snapshots[f].user = snapshots[e].user /\ snapshots[f].at <= snapshots[e].at =>
         snapshots[f].at <= snapshots[p].at
Complete(e) == \A p \in OnFile :
  Before(p, e) /\ Changed(Of(p, e)) => \E a \in AlertsOf(e) : a.prior = p /\ a.delta = Of(p, e)

\* The inductive invariant: the alerts are right while they are written, too.
Watched ==
  /\ DOMAIN snapshots = Executions /\ DOMAIN alerts = Executions
  /\ Times
  /\ \A e \in Executions : snapshots[e].step \in {"none", "saved", "compared", "committed", "failed"}
  /\ \A e \in Executions : e \notin OnFile => alerts[e] = {}
  /\ \A e \in Executions : Present(e) => Sound(e)
  /\ \A e \in Executions : Reached(e, "compared") \/ e \in OnFile => Complete(e)

-----------------------------------------------------------------------------
LEMMA SameDelta ==
  ASSUME NEW s, NEW t, NEW s2, NEW t2, Data(s2) = Data(s), Data(t2) = Data(t)
  PROVE  Delta(s2, t2) = Delta(s, t)
BY DEF Data, Delta

\* What a step does not undo: a snapshot on file stays as it is, one that is
\* being written keeps its data, and one that comes to file is dated then.
Steady ==
  /\ \A e \in OnFile : e \in OnFile' /\ snapshots'[e] = snapshots[e]
  /\ \A e \in Executions : Present(e) /\ Present(e)' => Data(snapshots'[e]) = Data(snapshots[e])
  /\ \A e \in OnFile' \ OnFile : Reached(e, "compared") /\ snapshots'[e].done = ticks + 1

\* The alerts of an execution stay, but for the mark that they were read.
SameAlerts(e) ==
  \/ AlertsOf(e)' = AlertsOf(e)
  \/ AlertsOf(e)' = {[a EXCEPT !.read = TRUE] : a \in AlertsOf(e)}

LEMMA AlertsStay ==
  ASSUME Watched, Steady, NEW e \in Executions, Present(e), Present(e)', SameAlerts(e)
  PROVE  /\ Sound(e)'
         /\ Reached(e, "compared") \/ e \in OnFile => Complete(e)'
<1>1. Data(snapshots'[e]) = Data(snapshots[e])  BY DEF Steady
<1>2. snapshots'[e].user = snapshots[e].user /\ snapshots'[e].at = snapshots[e].at  BY <1>1 DEF Data
<1>3. \A p \in OnFile : p \in OnFile' /\ snapshots'[p] = snapshots[p]  BY DEF Steady
<1>4. \A p \in OnFile : Of(p, e)' = Of(p, e)
  <2> TAKE p \in OnFile
  <2>1. snapshots'[p] = snapshots[p] /\ Data(snapshots'[p]) = Data(snapshots[p])  BY <1>3
  <2> QED  BY <2>1, <1>1, SameDelta DEF Of
<1>5. Sound(e)  BY DEF Watched
<1>6. Sound(e)'
  <2> SUFFICES ASSUME NEW b \in AlertsOf(e)'
               PROVE  \E p \in OnFile', read \in BOOLEAN :
                        (snapshots[p].user = snapshots[e].user)' /\ b = AlertOf(p, e, read)'
      BY DEF Sound
  <2>1. PICK a \in AlertsOf(e) : b = a \/ b = [a EXCEPT !.read = TRUE]  BY DEF SameAlerts
  <2>2. PICK p \in OnFile, read \in BOOLEAN :
          snapshots[p].user = snapshots[e].user /\ a = AlertOf(p, e, read)  BY <1>5 DEF Sound
  <2>3. (snapshots[p].user = snapshots[e].user)' /\ p \in OnFile'  BY <2>2, <1>2, <1>3
  <2>4. \A r : AlertOf(p, e, r)' = AlertOf(p, e, r)  BY <1>4 DEF AlertOf
  <2>5. b = AlertOf(p, e, read) \/ b = AlertOf(p, e, TRUE)  BY <2>1, <2>2 DEF AlertOf
  <2> QED  BY <2>3, <2>4, <2>5
<1>7. ASSUME Reached(e, "compared") \/ e \in OnFile  PROVE Complete(e)'
  <2>1. Complete(e)  BY <1>7 DEF Watched
  <2> SUFFICES ASSUME NEW p \in OnFile', Before(p, e)', Changed(Of(p, e)')
               PROVE  \E a \in AlertsOf(e)' : a.prior = p /\ a.delta = Of(p, e)'
      BY DEF Complete
  <2>2. p \in OnFile
    <3>1. SUFFICES ASSUME p \notin OnFile PROVE FALSE  OBVIOUS
    <3>2. snapshots'[p].done = ticks + 1  BY <3>1 DEF Steady
    <3>3. snapshots[e].at \in 1..ticks /\ ticks \in Nat  BY DEF Watched, Times
    <3>4. snapshots'[p].done < snapshots'[e].at  BY DEF Before
    <3> QED  BY <3>2, <3>3, <3>4, <1>2
  <2>3. Before(p, e)  BY <2>2, <1>2, <1>3 DEF Before
  <2>4. PICK a \in AlertsOf(e) : a.prior = p /\ a.delta = Of(p, e)  BY <2>1, <2>2, <2>3, <1>4 DEF Complete
  <2>5. PICK q \in OnFile, read \in BOOLEAN : a = AlertOf(q, e, read)  BY <1>5 DEF Sound
  <2>6. [a EXCEPT !.read = TRUE].prior = a.prior /\ [a EXCEPT !.read = TRUE].delta = a.delta
        BY <2>5 DEF AlertOf
  <2>7. a \in AlertsOf(e)' \/ [a EXCEPT !.read = TRUE] \in AlertsOf(e)'  BY DEF SameAlerts
  <2> QED  BY <2>2, <2>4, <2>6, <2>7, <1>4
<1> QED  BY <1>6, <1>7

-----------------------------------------------------------------------------
\* What is left after an action: the dates, and the alerts of e, which alone
\* may be new.
LEMMA Others ==
  ASSUME Watched, Steady, NEW g \in Executions,
         \A e \in Executions \ {g} :
           snapshots'[e] = snapshots[e] /\ (e \in OnFile' <=> e \in OnFile) /\ alerts'[e] = alerts[e]
  PROVE  \A e \in Executions \ {g} :
           /\ Present(e)' => Sound(e)'
           /\ Reached(e, "compared")' \/ e \in OnFile' => Complete(e)'
<1> TAKE e \in Executions \ {g}
<1>1. AlertsOf(e)' = AlertsOf(e)  BY DEF AlertsOf
<1>2. Present(e)' <=> Present(e)  BY DEF Present, Writing
<1>3. Reached(e, "compared")' <=> Reached(e, "compared")  BY DEF Reached
<1>4. Reached(e, "compared") \/ e \in OnFile => Present(e)  BY DEF Reached, Present, Writing
<1> QED  BY <1>1, <1>2, <1>3, <1>4, AlertsStay DEF SameAlerts

LEMMA Saving ==
  ASSUME Watched, NEW g \in Executions, InsertSnapshot(g)
  PROVE  Watched'
<1> USE DEF Reached
<1>1. PICK u \in Users, r \in Reports :
        snapshots' = [snapshots EXCEPT ![g] =
          [step |-> "saved", user |-> u, at |-> ticks + 1, done |-> 0, report |-> r, hash |-> ThesisHash(g, r),
           risks |-> ClaimsOf(g, r.risks), catalysts |-> ClaimsOf(g, r.catalysts),
           confidence |-> r.confidence, metrics |-> r.metrics, alert |-> {}]]
      BY DEF InsertSnapshot
<1>2. /\ snapshots[g].step = "none" /\ ticks' = ticks + 1 /\ alerts' = alerts
      /\ DOMAIN snapshots = Executions /\ ticks \in Nat
      BY DEF InsertSnapshot, Watched, Times
<1>3. /\ snapshots'[g].step = "saved" /\ snapshots'[g].at = ticks + 1 /\ snapshots'[g].alert = {}
      /\ Fields(snapshots'[g])
      BY <1>1, <1>2 DEF Fields
<1>4. /\ DOMAIN snapshots' = Executions
      /\ \A e \in Executions \ {g} : snapshots'[e] = snapshots[e]  BY <1>1, <1>2
<1>5. OnFile' = OnFile /\ g \notin OnFile /\ ~Present(g) /\ Present(g)'
      BY <1>2, <1>3, <1>4 DEF OnFile, Present, Writing
<1>6. \A e \in Executions \ {g} : Present(e)' <=> Present(e)
      BY <1>4, <1>5 DEF Present, Writing
<1>7. Steady  BY <1>4, <1>5 DEF Steady, OnFile
<1>8. Times'
  <2>1. \A e \in Executions : Present(e)' => snapshots'[e].at \in 1..ticks' /\ Fields(snapshots'[e])
        BY <1>2, <1>3, <1>4, <1>6 DEF Watched, Times
  <2>2. \A e \in OnFile' : snapshots'[e].done \in 1..ticks' /\ snapshots'[e].at < snapshots'[e].done
        BY <1>2, <1>4, <1>5 DEF Watched, Times, OnFile
  <2>3. \A e \in Executions \ {g} : Present(e)' => snapshots'[e].at < snapshots'[g].at
        BY <1>2, <1>3, <1>4, <1>6 DEF Watched, Times
  <2>4. \A e, f \in Executions : Present(e)' /\ Present(f)' /\ snapshots'[e].at = snapshots'[f].at => e = f
    <3> TAKE e, f \in Executions
    <3>1. CASE e # g /\ f # g  BY <3>1, <1>4, <1>6 DEF Watched, Times
    <3>2. CASE e = g /\ f # g  BY <3>2, <2>1, <2>3, <1>2
    <3>3. CASE e # g /\ f = g  BY <3>3, <2>1, <2>3, <1>2
    <3> QED  BY <3>1, <3>2, <3>3
  <2> QED  BY <2>1, <2>2, <2>4, <1>2 DEF Times
<1>9. Sound(g)'  BY <1>3, <1>5 DEF Sound, AlertsOf
<1>10. \A e \in Executions \ {g} :
         /\ Present(e)' => Sound(e)'
         /\ Reached(e, "compared")' \/ e \in OnFile' => Complete(e)'
       BY <1>2, <1>4, <1>5, <1>7, Others
<1>11. \A e \in Executions : Present(e)' => Sound(e)'  BY <1>9, <1>10
<1>12. \A e \in Executions : (Reached(e, "compared") \/ e \in OnFile)' => Complete(e)'
       BY <1>3, <1>5, <1>10
<1>13. /\ \A e \in Executions : snapshots'[e].step \in {"none", "saved", "compared", "committed", "failed"}
       /\ \A e \in Executions : e \notin OnFile' => alerts'[e] = {}
       BY <1>2, <1>3, <1>4, <1>5 DEF Watched
<1> QED  BY <1>2, <1>4, <1>8, <1>11, <1>12, <1>13 DEF Watched

LEMMA Rolling ==
  ASSUME Watched, NEW g \in Executions, RollBack(g)
  PROVE  Watched'
<1> USE DEF Reached
<1>1. /\ snapshots' = [snapshots EXCEPT ![g] = [step |-> "failed"]]
      /\ snapshots[g].step \in {"saved", "compared"} /\ ticks' = ticks /\ alerts' = alerts
      /\ DOMAIN snapshots = Executions /\ ticks \in Nat
      BY DEF RollBack, Writing, Watched, Times
<1>2. /\ snapshots'[g].step = "failed" /\ DOMAIN snapshots' = Executions
      /\ \A e \in Executions \ {g} : snapshots'[e] = snapshots[e]  BY <1>1
<1>3. OnFile' = OnFile /\ g \notin OnFile /\ ~Present(g)'
      BY <1>1, <1>2 DEF OnFile, Present, Writing
<1>4. \A e \in Executions \ {g} : Present(e)' <=> Present(e)
      BY <1>2, <1>3 DEF Present, Writing
<1>5. Steady  BY <1>2, <1>3 DEF Steady, OnFile
<1>6. Times'  BY <1>1, <1>2, <1>3, <1>4 DEF Watched, Times, OnFile
<1>7. \A e \in Executions \ {g} :
         /\ Present(e)' => Sound(e)'
         /\ Reached(e, "compared")' \/ e \in OnFile' => Complete(e)'
      BY <1>1, <1>2, <1>3, <1>5, Others
<1>8. /\ \A e \in Executions : Present(e)' => Sound(e)'
      /\ \A e \in Executions : (Reached(e, "compared") \/ e \in OnFile)' => Complete(e)'
      BY <1>2, <1>3, <1>7
<1>9. /\ \A e \in Executions : snapshots'[e].step \in {"none", "saved", "compared", "committed", "failed"}
      /\ \A e \in Executions : e \notin OnFile' => alerts'[e] = {}
      BY <1>1, <1>2, <1>3 DEF Watched
<1> QED  BY <1>1, <1>2, <1>6, <1>8, <1>9 DEF Watched

LEMMA Committing ==
  ASSUME Watched, NEW g \in Executions, PutOnFile(g)
  PROVE  Watched'
<1> USE DEF Reached
<1>1. /\ snapshots' = [snapshots EXCEPT ![g].step = "committed", ![g].done = ticks + 1, ![g].alert = {}]
      /\ alerts' = [alerts EXCEPT ![g] = snapshots[g].alert]
      /\ snapshots[g].step = "compared" /\ ticks' = ticks + 1
      /\ DOMAIN snapshots = Executions /\ DOMAIN alerts = Executions /\ ticks \in Nat
      BY DEF PutOnFile, Watched, Times
<1>2. Present(g) /\ g \notin OnFile  BY <1>1 DEF Present, Writing, OnFile
<1>3. snapshots[g].at \in 1..ticks /\ Fields(snapshots[g])  BY <1>2 DEF Watched, Times
<1>4. snapshots'[g] = [snapshots[g] EXCEPT !.step = "committed", !.done = ticks + 1, !.alert = {}]
      BY <1>1
<1>5. /\ snapshots'[g].step = "committed" /\ snapshots'[g].done = ticks + 1
      /\ Fields(snapshots'[g]) /\ Data(snapshots'[g]) = Data(snapshots[g])
  <2> DEFINE s == snapshots[g]
             t == snapshots'[g]
             d == ticks + 1
  <2>1. Fields(s) /\ t = [s EXCEPT !.step = "committed", !.done = d, !.alert = {}]  BY <1>3, <1>4
  <2> HIDE DEF s, t, d
  <2>2. t.step = "committed" /\ t.done = d /\ Fields(t) /\ Data(t) = Data(s)
        BY ONLY <2>1 DEF Fields, Data
  <2> QED  BY <2>2 DEF s, t, d
<1>6. snapshots'[g].at = snapshots[g].at  BY <1>5 DEF Data
<1>7. /\ DOMAIN snapshots' = Executions /\ DOMAIN alerts' = Executions
      /\ \A e \in Executions \ {g} : snapshots'[e] = snapshots[e] /\ alerts'[e] = alerts[e]
      /\ alerts'[g] = snapshots[g].alert
      BY <1>1
<1>8. OnFile' = OnFile \cup {g} /\ Present(g)'
      BY <1>5, <1>7 DEF OnFile, Present
<1>9. \A e \in Executions : Present(e)' <=> Present(e)
      BY <1>2, <1>7, <1>8 DEF Present, Writing
<1>10. Steady  BY <1>1, <1>2, <1>5, <1>7, <1>8 DEF Steady, OnFile
<1>11. Times'
  <2>1. \A e \in Executions : Present(e)' => snapshots'[e].at \in 1..ticks' /\ Fields(snapshots'[e])
        BY <1>1, <1>3, <1>5, <1>6, <1>7, <1>9 DEF Watched, Times
  <2>2. \A e \in OnFile' : snapshots'[e].done \in 1..ticks' /\ snapshots'[e].at < snapshots'[e].done
    <3> TAKE e \in OnFile'
    <3>1. CASE e = g  BY <3>1, <1>1, <1>3, <1>5, <1>6
    <3>2. CASE e # g
      <4>1. e \in OnFile /\ snapshots'[e] = snapshots[e]  BY <3>2, <1>7, <1>8 DEF OnFile
      <4> QED  BY <4>1, <1>1 DEF Watched, Times
    <3> QED  BY <3>1, <3>2
  <2>3. \A e \in Executions : snapshots'[e].at = snapshots[e].at  BY <1>6, <1>7
  <2>4. \A e, f \in Executions : Present(e) /\ Present(f) /\ snapshots[e].at = snapshots[f].at => e = f
        BY DEF Watched, Times
  <2>5. \A e, f \in Executions : Present(e)' /\ Present(f)' /\ snapshots'[e].at = snapshots'[f].at => e = f
        BY <2>3, <2>4, <1>9
  <2>6. ticks' \in Nat  BY <1>1
  <2> QED  BY <2>1, <2>2, <2>5, <2>6 DEF Times
<1>12. AlertsOf(g)' = AlertsOf(g)  BY <1>2, <1>7, <1>8 DEF AlertsOf
<1>13. Sound(g)' /\ Complete(g)'  BY <1>1, <1>2, <1>8, <1>10, <1>12, AlertsStay DEF SameAlerts
<1>14. \A e \in Executions \ {g} :
         /\ Present(e)' => Sound(e)'
         /\ Reached(e, "compared")' \/ e \in OnFile' => Complete(e)'
       BY <1>7, <1>8, <1>10, Others
<1>15. /\ \A e \in Executions : Present(e)' => Sound(e)'
       /\ \A e \in Executions : (Reached(e, "compared") \/ e \in OnFile)' => Complete(e)'
       BY <1>13, <1>14
<1>16. /\ \A e \in Executions : snapshots'[e].step \in {"none", "saved", "compared", "committed", "failed"}
       /\ \A e \in Executions : e \notin OnFile' => alerts'[e] = {}
       BY <1>5, <1>7, <1>8 DEF Watched
<1> QED  BY <1>7, <1>11, <1>15, <1>16 DEF Watched

LEMMA Comparing ==
  ASSUME Watched, NEW g \in Executions, CreateAlert(g)
  PROVE  Watched'
<1> USE DEF Reached
<1> DEFINE found == {p \in Prior(g) : Changed(Of(p, g))}
           new == {AlertOf(p, g, FALSE) : p \in found}
<1>1. /\ snapshots' = [snapshots EXCEPT ![g].step = "compared", ![g].alert = new]
      /\ snapshots[g].step = "saved" /\ ticks' = ticks /\ alerts' = alerts
      /\ DOMAIN snapshots = Executions /\ DOMAIN alerts = Executions /\ ticks \in Nat
      BY DEF CreateAlert, Watched, Times, AlertOf, Of
<1>2. Present(g) /\ g \notin OnFile  BY <1>1 DEF Present, Writing, OnFile
<1>3. snapshots[g].at \in 1..ticks /\ Fields(snapshots[g])  BY <1>2 DEF Watched, Times
<1>4. /\ snapshots'[g].step = "compared" /\ snapshots'[g].alert = new
      /\ Fields(snapshots'[g]) /\ Data(snapshots'[g]) = Data(snapshots[g])
  <2> DEFINE s == snapshots[g]
             t == snapshots'[g]
  <2>1. Fields(s) /\ t = [s EXCEPT !.step = "compared", !.alert = new]  BY <1>1, <1>3
  <2> HIDE DEF s, t, new
  <2>2. t.step = "compared" /\ t.alert = new /\ Fields(t) /\ Data(t) = Data(s)
        BY ONLY <2>1 DEF Fields, Data
  <2> QED  BY <2>2 DEF s, t
<1>5. snapshots'[g].at = snapshots[g].at /\ snapshots'[g].user = snapshots[g].user
      BY <1>4 DEF Data
<1>6. /\ DOMAIN snapshots' = Executions
      /\ \A e \in Executions \ {g} : snapshots'[e] = snapshots[e]  BY <1>1
<1>7. OnFile' = OnFile /\ Present(g)'
      BY <1>1, <1>4, <1>6 DEF OnFile, Present, Writing
<1>8. \A e \in Executions : Present(e)' <=> Present(e)
      BY <1>2, <1>6, <1>7 DEF Present, Writing
<1>9. Steady  BY <1>2, <1>4, <1>6, <1>7 DEF Steady, OnFile
<1>10. Times'
  <2>1. \A e \in Executions : Present(e)' => snapshots'[e].at \in 1..ticks' /\ Fields(snapshots'[e])
        BY <1>1, <1>3, <1>4, <1>5, <1>6, <1>8 DEF Watched, Times
  <2>2. \A e \in OnFile' : snapshots'[e].done \in 1..ticks' /\ snapshots'[e].at < snapshots'[e].done
    <3>1. \A e \in OnFile : snapshots[e].done \in 1..ticks /\ snapshots[e].at < snapshots[e].done
          BY DEF Watched, Times
    <3>2. \A e \in OnFile : snapshots'[e] = snapshots[e]  BY <1>9 DEF Steady
    <3>3. ticks' = ticks  BY <1>1
    <3> QED  BY <3>1, <3>2, <3>3, <1>7
  <2>3. \A e \in Executions : snapshots'[e].at = snapshots[e].at  BY <1>5, <1>6
  <2>4. \A e, f \in Executions : Present(e) /\ Present(f) /\ snapshots[e].at = snapshots[f].at => e = f
        BY DEF Watched, Times
  <2>5. \A e, f \in Executions : Present(e)' /\ Present(f)' /\ snapshots'[e].at = snapshots'[f].at => e = f
        BY <2>3, <2>4, <1>8
  <2>6. ticks' \in Nat  BY <1>1
  <2> QED  BY <2>1, <2>2, <2>5, <2>6 DEF Times
<1>11. AlertsOf(g)' = new  BY <1>2, <1>4, <1>7 DEF AlertsOf
<1>12. \A p \in OnFile : snapshots'[p] = snapshots[p] /\ Of(p, g)' = Of(p, g)
  <2> TAKE p \in OnFile
  <2>1. snapshots'[p] = snapshots[p]  BY <1>9 DEF Steady
  <2> QED  BY <2>1, <1>4, SameDelta DEF Of
<1>13. \A p \in OnFile, r \in BOOLEAN : AlertOf(p, g, r)' = AlertOf(p, g, r)  BY <1>12 DEF AlertOf
<1>14. Sound(g)'
  <2> SUFFICES ASSUME NEW p \in found
               PROVE  /\ p \in OnFile /\ snapshots'[p].user = snapshots'[g].user
                      /\ AlertOf(p, g, FALSE) = AlertOf(p, g, FALSE)'
      BY <1>7, <1>11 DEF Sound
  <2>1. p \in OnFile /\ snapshots[p].user = snapshots[g].user  BY DEF Prior, Newest
  <2> QED  BY <2>1, <1>5, <1>12, <1>13
<1>15. Complete(g)'
  <2> SUFFICES ASSUME NEW p \in OnFile, Before(p, g)', Changed(Of(p, g)')
               PROVE  \E a \in new : a.prior = p /\ a.delta = Of(p, g)'
      BY <1>7, <1>11 DEF Complete
  <2>1. Before(p, g)  BY <1>5, <1>7, <1>12 DEF Before
  <2>2. snapshots[p].at <= snapshots[g].at
    <3>1. snapshots[p].done \in 1..ticks /\ snapshots[p].at < snapshots[p].done
          BY DEF Watched, Times
    <3>2. Present(p) /\ p \in Executions  BY DEF Present, OnFile
    <3>3. snapshots[p].at \in 1..ticks  BY <3>2 DEF Watched, Times
    <3> QED  BY <3>1, <3>3, <2>1, <1>1, <1>3 DEF Before
  <2>3. p \in Prior(g)  BY <2>1, <2>2, <1>2 DEF Before, Prior, Newest
  <2>4. p \in found  BY <2>3, <1>12
  <2>5. AlertOf(p, g, FALSE).prior = p /\ AlertOf(p, g, FALSE).delta = Of(p, g)  BY DEF AlertOf
  <2> QED  BY <2>4, <2>5, <1>12
<1>16. \A e \in Executions \ {g} :
         /\ Present(e)' => Sound(e)'
         /\ Reached(e, "compared")' \/ e \in OnFile' => Complete(e)'
  <2>1. alerts' = alerts  BY <1>1
  <2> QED  BY <2>1, <1>6, <1>7, <1>9, Others
<1>17. /\ \A e \in Executions : Present(e)' => Sound(e)'
       /\ \A e \in Executions : (Reached(e, "compared") \/ e \in OnFile)' => Complete(e)'
       BY <1>14, <1>15, <1>16
<1>18. /\ \A e \in Executions : snapshots'[e].step \in {"none", "saved", "compared", "committed", "failed"}
       /\ \A e \in Executions : e \notin OnFile' => alerts'[e] = {}
       BY <1>1, <1>4, <1>6, <1>7 DEF Watched
<1> QED  BY <1>1, <1>6, <1>10, <1>17, <1>18 DEF Watched

LEMMA Reading ==
  ASSUME Watched, NEW u \in Users, NEW g \in Executions, MarkRead(u, g)
  PROVE  Watched'
<1> USE DEF Reached
<1>1. /\ alerts' = [alerts EXCEPT ![g] = {[a EXCEPT !.read = TRUE] : a \in alerts[g]}]
      /\ g \in OnFile /\ snapshots' = snapshots /\ ticks' = ticks
      /\ DOMAIN alerts = Executions
      BY DEF MarkRead, Watched
<1>2. /\ DOMAIN alerts' = Executions
      /\ \A e \in Executions \ {g} : alerts'[e] = alerts[e]
      /\ alerts'[g] = {[a EXCEPT !.read = TRUE] : a \in alerts[g]}
      BY <1>1
<1>3. OnFile' = OnFile /\ \A e \in Executions : Present(e)' <=> Present(e)
      BY <1>1 DEF OnFile, Present, Writing
<1>4. Steady  BY <1>1, <1>3 DEF Steady
<1>5. Times'  BY <1>1, <1>3 DEF Watched, Times
<1>6. \A e \in Executions : SameAlerts(e)  BY <1>1, <1>2, <1>3 DEF SameAlerts, AlertsOf
<1>7. \A e \in Executions : Reached(e, "compared") \/ e \in OnFile => Present(e)
      BY DEF Present, Writing
<1>8. /\ \A e \in Executions : Present(e)' => Sound(e)'
      /\ \A e \in Executions : (Reached(e, "compared") \/ e \in OnFile)' => Complete(e)'
      BY <1>1, <1>3, <1>4, <1>6, <1>7, AlertsStay
<1>9. /\ \A e \in Executions : snapshots'[e].step \in {"none", "saved", "compared", "committed", "failed"}
      /\ \A e \in Executions : e \notin OnFile' => alerts'[e] = {}
      BY <1>1, <1>2, <1>3 DEF Watched
<1> QED  BY <1>1, <1>2, <1>5, <1>8, <1>9 DEF Watched

-----------------------------------------------------------------------------
LEMMA MonitorStep == Watched /\ [MonitorNext]_monitorVars => Watched'
<1> SUFFICES ASSUME Watched, [MonitorNext]_monitorVars PROVE Watched'  OBVIOUS
<1>1. CASE UNCHANGED <<snapshots, alerts, ticks>>
      BY <1>1 DEF Watched, Times, Present, Writing, OnFile, Reached, Sound, Complete,
                  Before, AlertsOf, AlertOf, Of
<1>2. CASE \E e \in Executions : InsertSnapshot(e)  BY <1>2, Saving
<1>3. CASE \E e \in Executions : CreateAlert(e)  BY <1>3, Comparing
<1>4. CASE \E e \in Executions : CommitSnapshot(e) \/ CommitUnacknowledged(e)
      BY <1>4, Committing DEF CommitSnapshot, CommitUnacknowledged
<1>5. CASE \E e \in Executions : RollBack(e)  BY <1>5, Rolling
<1>6. CASE \E u \in Users, e \in Executions : MarkRead(u, e)  BY <1>6, Reading
<1>7. CASE \E e \in Executions : FailJob(e)  BY <1>1, <1>7 DEF FailJob
<1> QED  BY <1>1, <1>2, <1>3, <1>4, <1>5, <1>6, <1>7 DEF MonitorNext, monitorVars

\* Two snapshots on file were begun at different times.
LEMMA Dated ==
  ASSUME Watched, NEW e \in OnFile, NEW f \in OnFile
  PROVE  /\ snapshots[e].at \in Nat /\ snapshots[f].at \in Nat
         /\ snapshots[e].at = snapshots[f].at => e = f
<1>1. Present(e) /\ Present(f) /\ e \in Executions /\ f \in Executions  BY DEF Present, OnFile
<1> QED  BY <1>1 DEF Watched, Times

LEMMA StepsWatched == Watched => StepsAreAlerted
<1> SUFFICES ASSUME Watched, NEW e \in OnFile, NEW p \in Newest(Earlier(e)),
                    Apart(p, e), Changed(Delta(snapshots[p], snapshots[e]))
             PROVE  AlertedTo(p, e)
    BY DEF StepsAreAlerted
<1>1. /\ p \in OnFile /\ snapshots[p].user = snapshots[e].user /\ snapshots[p].at < snapshots[e].at
      /\ \A f \in Earlier(e) : snapshots[f].at <= snapshots[p].at
      BY DEF Newest, Earlier
<1>2. p # e  BY <1>1, Dated
<1>3. ASSUME NEW f \in OnFile \ {e}, snapshots[f].user = snapshots[e].user, snapshots[f].at <= snapshots[e].at
      PROVE  snapshots[f].at <= snapshots[p].at
  <2>1. snapshots[f].at < snapshots[e].at  BY <1>3, Dated
  <2> QED  BY <2>1, <1>1, <1>3 DEF Earlier
<1>4. Before(p, e)  BY <1>1, <1>2, <1>3 DEF Before, Apart
<1>5. Complete(e) /\ AlertsOf(e) = alerts[e]  BY DEF Watched, AlertsOf, OnFile
<1> QED  BY <1>1, <1>4, <1>5 DEF Complete, AlertedTo, Of

LEMMA ShownWatched == Watched => ShownIsAlerted
<1> SUFFICES ASSUME Watched, NEW u \in Users, NEW shown \in LatestDelta(u),
                    Changed(shown.delta), Apart(shown.prior, shown.current),
                    \A f \in Earlier(shown.current) :
                      status[f] = "failed" => snapshots[f].at < snapshots[shown.prior].at
             PROVE  AlertedTo(shown.prior, shown.current)
    BY DEF ShownIsAlerted
<1> DEFINE own == Own(u)
           current == Newest(own)
           older == Newest(own \ current)
<1>1. \E e \in current, p \in older : shown = [current |-> e, prior |-> p, delta |-> Of(p, e)]
  <2>1. shown \in {[current |-> e, prior |-> p, delta |-> Of(p, e)] : e \in current, p \in older}
        BY DEF LatestDelta, Of
  <2> HIDE DEF current, older
  <2> QED  BY <2>1
<1> PICK e \in current, p \in older : shown = [current |-> e, prior |-> p, delta |-> Of(p, e)]
    BY <1>1
<1>2. /\ e \in own /\ p \in own \ current
      /\ \A f \in own : snapshots[f].at <= snapshots[e].at
      /\ \A f \in own \ current : snapshots[f].at <= snapshots[p].at
      BY DEF Newest, Own
<1>3. own \subseteq OnFile /\ \A f \in own : snapshots[f].user = u  BY DEF Own
<1>4. \A f \in current \ {e} : FALSE
  <2> SUFFICES ASSUME NEW f \in current, f # e PROVE FALSE  OBVIOUS
  <2>1. f \in own /\ snapshots[e].at <= snapshots[f].at /\ snapshots[f].at <= snapshots[e].at
        BY <1>2 DEF Newest
  <2> QED  BY <2>1, <1>2, <1>3, Dated
<1>5. e \in OnFile /\ p \in OnFile /\ p # e /\ snapshots[p].user = u /\ snapshots[e].user = u
      BY <1>2, <1>3
<1>6. ASSUME NEW f \in OnFile \ {e}, snapshots[f].user = snapshots[e].user, snapshots[f].at <= snapshots[e].at
      PROVE  snapshots[f].at <= snapshots[p].at
  <2>1. snapshots[f].at < snapshots[e].at  BY <1>5, <1>6, Dated
  <2>2. CASE status[f] = "failed"
    <3>1. f \in Earlier(e)  BY <2>1, <1>6 DEF Earlier
    <3>2. snapshots[f].at < snapshots[p].at  BY <3>1, <2>2
    <3>3. snapshots[f].at \in Nat /\ snapshots[p].at \in Nat  BY <1>5, <1>6, Dated
    <3> QED  BY <3>2, <3>3
  <2>3. CASE status[f] # "failed"
    <3>1. f \in own  BY <2>3, <1>5, <1>6 DEF Own
    <3>2. f \notin current  BY <1>4, <1>6
    <3> QED  BY <3>1, <3>2, <1>2
  <2> QED  BY <2>2, <2>3
<1>7. Before(p, e)  BY <1>5, <1>6 DEF Before, Apart
<1>8. Complete(e) /\ AlertsOf(e) = alerts[e]  BY <1>5 DEF Watched, AlertsOf, OnFile
<1>9. \E a \in alerts[e] : a.prior = p /\ a.delta = Of(p, e)  BY <1>5, <1>7, <1>8 DEF Complete
<1> QED  BY <1>9 DEF AlertedTo, Of

LEMMA WatchedIsEnough == Watched => ChangesAreAlerted
<1> SUFFICES ASSUME Watched PROVE ChangesAreAlerted  OBVIOUS
<1>1. ASSUME NEW e \in Executions, NEW a \in alerts[e]
      PROVE  snapshots[a.prior].user = snapshots[e].user
  <2>1. e \in OnFile  BY <1>1 DEF Watched
  <2>2. Sound(e) /\ AlertsOf(e) = alerts[e]  BY <2>1 DEF Watched, Present, AlertsOf
  <2>3. PICK p \in OnFile, read \in BOOLEAN :
          snapshots[p].user = snapshots[e].user /\ a = AlertOf(p, e, read)  BY <1>1, <2>2 DEF Sound
  <2> QED  BY <2>3 DEF AlertOf
<1> QED  BY <1>1, StepsWatched, ShownWatched DEF ChangesAreAlerted

\* monitoring.py: every change from one snapshot of a user to the next on file,
\* of a completed job or of a failed one, is in the alert of the next when it was
\* begun with the older on file; whoever looks at the delta of the two newest
\* snapshots of jobs that did not fail has been alerted to just this change unless
\* that of a failed job lies between them; and no alert names another user's.
THEOREM ChangesReachTheirUser == MonitorSpec => []ChangesAreAlerted
<1>1. MonitorInit => Watched
      BY DEF MonitorInit, Watched, Times, Present, Writing, OnFile, Reached, NoSnapshot
<1> QED  BY <1>1, MonitorStep, WatchedIsEnough, PTL DEF MonitorSpec

-----------------------------------------------------------------------------
(* What the corpus jobs say of their coverage is true, for any number of     *)
(* jobs and companies, any documents, faults and kills.                      *)

JobFields == {"pc", "stages", "from", "cursor", "batches", "todo", "last", "short", "step",
              "rows", "bad", "done", "code"}
MetricNames == {"ebitda_margin", "pb", "pe", "revenue_growth", "roce"}

\* A metric without a price in it is approved.
WellApproved(row) == row[1] \in {"pb", "pe"} \/ row[2]

\* Documents are stored from the newest on, each completely before the next.
InOrderStored(s) ==
  \A d, e \in DOMAIN stored[s] : d < e /\ stored[s][e] > 0 => stored[s][d] = 3

RowsAre ==
  /\ world \in Worlds
  /\ DOMAIN bars = Universe
  /\ stored = [s \in Universe |-> stored[s]] /\ metrics = [s \in Universe |-> metrics[s]]
  /\ \A s \in Universe :
       /\ stored[s] \in [1..company[s].exposes -> 0..3] /\ InOrderStored(s)
       /\ metrics[s] \subseteq MetricNames \X BOOLEAN
       /\ \A row \in metrics[s] : WellApproved(row)

\* A worker that is about to store a part has stored those before.
Ingesting(j) == In(j, "financials") /\ job[j].step > 0
Ingested(j) == Target(j) \in Universe =>
  LET s == Target(j)  d == Document(s, job[j].step) IN
  /\ job[j].step \in 1..(3 * company[s].exposes)
  /\ stored[s][d] >= Part(job[j].step) - 1
  /\ \A e \in 1..(d - 1) : stored[s][e] = 3

\* The metrics it is about to store are approved in the same way.
Deriving(j) == In(j, "peer_metrics") /\ job[j].step > 0
Derived(j) ==
  /\ DOMAIN job[j].rows \subseteq MetricNames /\ DOMAIN job[j].rows # {}
  /\ \A m \in DOMAIN job[j].rows :
       job[j].rows[m] \in BOOLEAN /\ WellApproved(<<m, job[j].rows[m]>>)

\* What a clean exit says holds from then on.
Covered(s) == BarsCovered(s) /\ FinancialCovered(s) /\ MetricsCovered(s)
Clean(j) == job[j].code = "ok" =>
  /\ job[j].stages = <<"readiness">> => \A s \in Universe : Covered(s)
  /\ job[j].stages = <<"financials">> => \A s \in Universe : FinancialCovered(s)

JobIs(j) ==
  /\ DOMAIN job[j] = JobFields /\ job[j].step \in Nat
  /\ job[j].pc \in {"batch", "target", "post"} => Stage(j) \in Drivers
  /\ job[j].code = "ok" => job[j].pc = "off"
  /\ Ingesting(j) => Ingested(j)
  /\ Deriving(j) => Derived(j)
  /\ Clean(j)

\* The inductive invariant.
CorpusInv == RowsAre /\ DOMAIN job = Jobs /\ \A j \in Jobs : JobIs(j)

-----------------------------------------------------------------------------
LEMMA CompanyIs ==
  ASSUME world \in Worlds, NEW s \in Universe
  PROVE  /\ company[s].exposes \in Nat /\ company[s].required \in 0..MaturePeriods
         /\ company[s].newest \in Int /\ company[s].lag \in Int
BY CorpusAssumption DEF company, Universe

LEMMA NamesAreFinite == IsFiniteSet(MetricNames)
<1>1. IsFiniteSet({})  BY FS_EmptySet
<1> DEFINE A == {} \cup {"ebitda_margin"}
           B == A \cup {"pb"}
           C == B \cup {"pe"}
           D == C \cup {"revenue_growth"}
<1>2. IsFiniteSet(A)  BY <1>1, FS_AddElement
<1>3. IsFiniteSet(B)  BY <1>2, FS_AddElement
<1>4. IsFiniteSet(C)  BY <1>3, FS_AddElement
<1>5. IsFiniteSet(D)  BY <1>4, FS_AddElement
<1>6. IsFiniteSet(D \cup {"roce"})  BY <1>5, FS_AddElement
<1>7. D \cup {"roce"} = MetricNames  BY DEF MetricNames
<1> QED  BY <1>6, <1>7

\* The database only gains.
Gains ==
  /\ world' = world
  /\ \A s \in Universe :
       /\ bars[s] # "none" => bars'[s] # "none"
       /\ DOMAIN stored'[s] = DOMAIN stored[s]
       /\ \A d \in DOMAIN stored[s] : stored'[s][d] >= stored[s][d]
       /\ metrics[s] \subseteq metrics'[s]

LEMMA GainsCover ==
  ASSUME RowsAre, RowsAre', Gains, NEW s \in Universe
  PROVE  /\ BarsCovered(s) => BarsCovered(s)'
         /\ FinancialCovered(s) => FinancialCovered(s)'
         /\ MetricsCovered(s) => MetricsCovered(s)'
<1>1. company' = company /\ Universe' = Universe  BY DEF Gains, company, Universe
<1>2. company[s].exposes \in Nat /\ company[s].required \in Nat
      BY CompanyIs, CorpusAssumption DEF RowsAre
<1>3. /\ stored[s] \in [1..company[s].exposes -> 0..3] /\ stored'[s] \in [1..company[s].exposes -> 0..3]
      /\ \A d \in 1..company[s].exposes : stored'[s][d] >= stored[s][d]
      BY <1>1 DEF RowsAre, Gains
<1>4. BarsCovered(s) => BarsCovered(s)'  BY DEF BarsCovered, Gains
<1>5. Sourced(s) \subseteq Sourced(s)' /\ Evident(s) \subseteq Evident(s)'
  <2>1. \A d \in 1..company[s].exposes :
          /\ stored[s][d] >= 2 => stored'[s][d] >= 2
          /\ stored[s][d] = 3 => stored'[s][d] = 3
    <3> TAKE d \in 1..company[s].exposes
    <3>1. stored[s][d] \in 0..3 /\ stored'[s][d] \in 0..3 /\ stored'[s][d] >= stored[s][d]
          BY <1>3
    <3> QED  BY <3>1
  <2>2. DOMAIN stored[s] = 1..company[s].exposes /\ DOMAIN stored'[s] = 1..company[s].exposes
        BY <1>3
  <2>3. Sourced(s) \subseteq Sourced(s)'  BY <2>1, <2>2 DEF Sourced
  <2>4. Evident(s) \subseteq Evident(s)'  BY <2>1, <2>2 DEF Evident
  <2> QED  BY <2>3, <2>4
<1>6. \A d : Age(s, d)' = Age(s, d) /\ Published(s, d)' = Published(s, d)
      BY <1>1 DEF Age, Published
<1>7. (FilingReady(s) => FilingReady(s)') /\ (EarningsReady(s) => EarningsReady(s)')
      BY <1>5, <1>6 DEF FilingReady, EarningsReady
<1>8. HistoryComplete(s) => HistoryComplete(s)'
  <2>1. IsFiniteSet(Sourced(s)')
    <3>1. IsFiniteSet(1..company[s].exposes)
      <4>1. \A n \in Nat : IsFiniteSet(1..n)  BY FS_Interval
      <4> QED  BY <4>1, <1>2
    <3>2. Sourced(s)' \subseteq 1..company[s].exposes  BY <1>3 DEF Sourced
    <3> QED  BY <3>1, <3>2, FS_Subset
  <2>2. /\ Cardinality(Sourced(s)) <= Cardinality(Sourced(s)')
        /\ Cardinality(Sourced(s)) \in Nat /\ Cardinality(Sourced(s)') \in Nat
        BY <2>1, <1>5, FS_Subset, FS_CardinalityType
  <2> QED  BY <1>1, <1>2, <1>5, <1>6, <2>2 DEF HistoryComplete
<1>9. MetricsCovered(s) => MetricsCovered(s)'
  <2>1. Counted(s) \subseteq Counted(s)'  BY DEF Counted, Gains
  <2>2. Counted(s)' \subseteq MetricNames
    <3>1. metrics'[s] \subseteq MetricNames \X BOOLEAN  BY <1>1 DEF RowsAre
    <3> QED  BY <3>1 DEF Counted
  <2>4. IsFiniteSet(Counted(s)')  BY <2>2, NamesAreFinite, FS_Subset
  <2>5. /\ Cardinality(Counted(s)) <= Cardinality(Counted(s)')
        /\ Cardinality(Counted(s)) \in Nat /\ Cardinality(Counted(s)') \in Nat
        BY <2>1, <2>4, FS_Subset, FS_CardinalityType
  <2> QED  BY <2>5, CorpusAssumption DEF MetricsCovered
<1> QED  BY <1>4, <1>7, <1>8, <1>9 DEF FinancialCovered

\* What another job knows stays true.
LEMMA JobStays ==
  ASSUME CorpusInv, RowsAre', Gains, NEW j \in Jobs, job'[j] = job[j]
  PROVE  JobIs(j)'
<1>1. company' = company /\ Universe' = Universe  BY DEF Gains, company, Universe
<1>2. JobIs(j) /\ RowsAre  BY DEF CorpusInv
<1>3. /\ Target(j)' = Target(j) /\ Stage(j)' = Stage(j)
      /\ Ingesting(j)' = Ingesting(j) /\ Deriving(j)' = Deriving(j)
      BY DEF Target, Stage, Ingesting, Deriving, In, At
<1>4. ASSUME Ingesting(j), Ingested(j) PROVE Ingested(j)'
  <2> SUFFICES ASSUME Target(j) \in Universe
               PROVE  LET s == Target(j)  d == Document(s, job[j].step) IN
                        /\ job[j].step \in 1..(3 * company[s].exposes)
                        /\ stored'[s][d] >= Part(job[j].step) - 1
                        /\ \A e \in 1..(d - 1) : stored'[s][e] = 3
      BY <1>1, <1>3 DEF Ingested, Document, Part
  <2> DEFINE s == Target(j)
             d == Document(s, job[j].step)
             n == company[s].exposes
  <2>1. /\ job[j].step \in 1..(3 * n) /\ stored[s][d] >= Part(job[j].step) - 1
        /\ \A e \in 1..(d - 1) : stored[s][e] = 3
        BY <1>4 DEF Ingested
  <2>2. n \in Nat  BY <1>2, CompanyIs DEF RowsAre
  <2>3. d \in 1..n /\ Part(job[j].step) \in 1..3  BY <2>1, <2>2 DEF Document, Part
  <2>4. /\ stored[s] \in [1..n -> 0..3] /\ stored'[s] \in [1..n -> 0..3]
        /\ \A e \in 1..n : stored'[s][e] >= stored[s][e]
        BY <1>1, <1>2 DEF RowsAre, Gains
  <2> HIDE DEF s, d, n
  <2> DEFINE before(e) == stored[s][e]
             after(e) == stored'[s][e]
  <2>8. \A e \in 1..n : before(e) \in 0..3 /\ after(e) \in 0..3 /\ after(e) >= before(e)  BY <2>4
  <2>9. before(d) >= Part(job[j].step) - 1  BY <2>1
  <2> HIDE DEF before, after
  <2>10. after(d) >= Part(job[j].step) - 1  BY <2>3, <2>8, <2>9
  <2>11. \A e \in 1..n : before(e) = 3 => after(e) = 3  BY <2>8
  <2>5. \A e \in 1..n : stored[s][e] = 3 => stored'[s][e] = 3  BY <2>11 DEF before, after
  <2>6. stored'[s][d] >= Part(job[j].step) - 1  BY <2>10 DEF after
  <2>7. \A e \in 1..(d - 1) : stored'[s][e] = 3  BY <2>1, <2>2, <2>3, <2>5
  <2> QED  BY <2>1, <2>6, <2>7 DEF s, d, n
<1>5. Derived(j) => Derived(j)'  BY DEF Derived, WellApproved
<1>6. Clean(j)'
  <2>1. \A s \in Universe : (Covered(s) => Covered(s)') /\ (FinancialCovered(s) => FinancialCovered(s)')
        BY <1>2, GainsCover DEF Covered
  <2> QED  BY <1>1, <1>2, <2>1 DEF JobIs, Clean
<1> QED  BY <1>2, <1>3, <1>4, <1>5, <1>6 DEF JobIs

\* A step of a job that is neither storing nor done.
Quiet(j) ==
  /\ DOMAIN job'[j] = JobFields /\ job'[j].step \in Nat
  /\ job'[j].pc \in {"batch", "target", "post"} => Stage(j)' \in Drivers
  /\ job'[j].pc = "target" => job'[j].step = 0
  /\ job'[j].code # "ok"

LEMMA QuietIs == ASSUME NEW j \in Jobs, Quiet(j) PROVE JobIs(j)'
<1>1. ~Ingesting(j)' /\ ~Deriving(j)'  BY DEF Quiet, Ingesting, Deriving, In, At
<1> QED  BY <1>1 DEF Quiet, JobIs, Clean

LEMMA OneJob ==
  ASSUME CorpusInv, RowsAre', Gains, NEW j \in Jobs, JobIs(j)',
         NEW r, Set(j, r)
  PROVE  CorpusInv'
<1>1. DOMAIN job' = Jobs /\ \A i \in Jobs \ {j} : job'[i] = job[i]  BY DEF Set, CorpusInv
<1>2. \A i \in Jobs \ {j} : JobIs(i)'  BY <1>1, JobStays
<1> QED  BY <1>1, <1>2 DEF CorpusInv

\* The rows stay as they are.
LEMMA NothingGained ==
  ASSUME CorpusInv, UNCHANGED <<world, bars, stored, metrics>>
  PROVE  RowsAre' /\ Gains
<1>1. company' = company /\ Universe' = Universe  BY DEF company, Universe
<1>2. RowsAre'  BY <1>1 DEF CorpusInv, RowsAre, InOrderStored
<1>3. \A s \in Universe : \A d \in DOMAIN stored[s] : stored[s][d] >= stored[s][d]
  <2> TAKE s \in Universe
  <2> TAKE d \in DOMAIN stored[s]
  <2>1. stored[s] \in [1..company[s].exposes -> 0..3]  BY DEF CorpusInv, RowsAre
  <2>2. stored[s][d] \in 0..3  BY <2>1
  <2> QED  BY <2>2
<1> QED  BY <1>2, <1>3 DEF Gains

\* What the jobs' own operators make of a job.
LEMMA SetIs ==
  ASSUME CorpusInv, NEW j \in Jobs, NEW r, Set(j, r)
  PROVE  job'[j] = r /\ DOMAIN job[j] = JobFields /\ job[j].step \in Nat
BY DEF Set, CorpusInv, JobIs

LEMMA FailIs == ASSUME CorpusInv, NEW j \in Jobs, FailWorkflow(j) PROVE Quiet(j)
<1>1. job'[j] = [Idle EXCEPT !.code = "failed"]  BY SetIs DEF FailWorkflow
<1> QED  BY <1>1 DEF Idle, Quiet, JobFields

LEMMA EnterIs ==
  ASSUME CorpusInv, NEW j \in Jobs, NEW st, NEW f, Enter(j, st, f) PROVE Quiet(j)
<1>1. job'[j] = [Idle EXCEPT !.pc = "stage", !.stages = st, !.from = f]  BY SetIs DEF Enter
<1> QED  BY <1>1 DEF Idle, Quiet, JobFields

\* Only a job that is off has an exit code.
LEMMA FinishedIs ==
  ASSUME CorpusInv, NEW j \in Jobs, NEW b, Set(j, Processed(j, b)), At(j, "target")
  PROVE  Quiet(j)
<1>1. job'[j] = Processed(j, b) /\ DOMAIN job[j] = JobFields  BY SetIs
<1>2. job[j].code # "ok" /\ Stage(j) \in Drivers  BY DEF CorpusInv, JobIs, At
<1> DEFINE r == Processed(j, b)
<1>3. /\ DOMAIN r = JobFields /\ r.step = 0 /\ r.pc = "target" /\ r.code = job[j].code
      /\ r.stages = job[j].stages
      BY <1>1 DEF Processed, JobFields, At
<1> HIDE DEF r
<1>4. job'[j] = r  BY <1>1 DEF r
<1>5. Stage(j)' = Stage(j)  BY <1>3, <1>4 DEF Stage
<1> QED  BY <1>2, <1>3, <1>4, <1>5 DEF Quiet

-----------------------------------------------------------------------------
LEMMA QuietStep ==
  ASSUME CorpusInv, NEW j \in Jobs, Set(j, job'[j]), Quiet(j),
         UNCHANGED <<world, bars, stored, metrics>>
  PROVE  CorpusInv'
<1>1. RowsAre' /\ Gains  BY NothingGained
<1> QED  BY <1>1, QuietIs, OneJob

LEMMA FailStep ==
  ASSUME CorpusInv, NEW j \in Jobs, FailWorkflow(j), UNCHANGED <<world, bars, stored, metrics>>
  PROVE  CorpusInv'
<1>1. Set(j, job'[j])  BY SetIs DEF FailWorkflow
<1> QED  BY <1>1, FailIs, QuietStep

\* A job that goes on, or that is done: what its last stage found is so.
LEMMA NextStageStep ==
  ASSUME CorpusInv, NEW j \in Jobs, NextStage(j), UNCHANGED <<world, bars, stored, metrics>>,
         Stage(j) = "readiness" => \A s \in Universe : Covered(s),
         Stage(j) = "financials" => \A s \in Universe : FinancialCovered(s)
  PROVE  CorpusInv'
<1>1. RowsAre' /\ Gains  BY NothingGained
<1>2. CASE Succeed(j)
  <2>1. job'[j] = [Idle EXCEPT !.stages = job[j].stages, !.code = "ok"]  BY <1>2, SetIs DEF Succeed
  <2>2. Set(j, job'[j])  BY <1>2, <2>1 DEF Succeed
  <2>3. /\ DOMAIN job'[j] = JobFields /\ job'[j].step = 0 /\ job'[j].pc = "off"
        /\ job'[j].stages = job[j].stages
        BY <2>1 DEF Idle, JobFields
  <2>4. company' = company /\ Universe' = Universe  BY <1>1 DEF Gains, company, Universe
  <2>5. \A s \in Universe : (Covered(s) => Covered(s)') /\ (FinancialCovered(s) => FinancialCovered(s)')
        BY <1>1, GainsCover DEF Covered, CorpusInv
  <2>6. Clean(j)'
    <3>1. job'[j].stages = <<"readiness">> => Stage(j) = "readiness"  BY <2>3 DEF Stage
    <3>2. job'[j].stages = <<"financials">> => Stage(j) = "financials"  BY <2>3 DEF Stage
    <3> QED  BY <3>1, <3>2, <2>4, <2>5 DEF Clean
  <2>7. JobIs(j)'  BY <2>3, <2>6 DEF JobIs, Ingesting, Deriving, In, At
  <2> QED  BY <1>1, <2>2, <2>7, OneJob
<1>3. CASE Enter(j, Tail(job[j].stages), 0)
  <2>1. Set(j, job'[j])  BY <1>3, SetIs DEF Enter
  <2> QED  BY <1>3, <2>1, EnterIs, QuietStep
<1> QED  BY <1>2, <1>3 DEF NextStage

LEMMA StartStep == ASSUME CorpusInv, NEW j \in Jobs, StartWorkflow(j) PROVE CorpusInv'
<1>1. PICK w \in world.workflows[j] : Enter(j, w.stages, w.from)  BY DEF StartWorkflow
<1>2. Set(j, job'[j])  BY <1>1, SetIs DEF Enter
<1>3. UNCHANGED <<world, bars, stored, metrics>>  BY DEF StartWorkflow, database
<1> QED  BY <1>1, <1>2, <1>3, EnterIs, QuietStep

LEMMA PrepareStep == ASSUME CorpusInv, NEW j \in Jobs, PrepareMarket(j) PROVE CorpusInv'
<1>1. UNCHANGED <<world, bars, stored, metrics>> /\ (FailWorkflow(j) \/ NextStage(j))  BY DEF PrepareMarket
<1>2. Stage(j) # "readiness" /\ Stage(j) # "financials"  BY DEF PrepareMarket
<1> QED  BY <1>1, <1>2, FailStep, NextStageStep

LEMMA RunningIs ==
  ASSUME CorpusInv, NEW j \in Jobs, job[j].pc # "off"
  PROVE  job[j].code # "ok" /\ DOMAIN job[j] = JobFields /\ job[j].step \in Nat
BY DEF CorpusInv, JobIs

LEMMA DriverStep == ASSUME CorpusInv, NEW j \in Jobs, StartDriver(j) PROVE CorpusInv'
<1> DEFINE r == [job[j] EXCEPT !.pc = "batch", !.cursor = job[j].from, !.batches = 0]
<1>1. Set(j, r) /\ UNCHANGED <<world, bars, stored, metrics>>  BY DEF StartDriver, database
<1>2. job'[j] = r  BY <1>1, SetIs
<1>3. job[j].code # "ok" /\ DOMAIN job[j] = JobFields /\ job[j].step \in Nat
      BY RunningIs DEF StartDriver, At
<1>4. r.pc = "batch" /\ r.code # "ok" /\ r.stages = job[j].stages /\ DOMAIN r = JobFields
      /\ r.step = job[j].step
      BY <1>3 DEF JobFields
<1>5. Quiet(j)
  <2>1. Stage(j)' \in Drivers  BY <1>2, <1>4 DEF StartDriver, Stage
  <2> QED  BY <2>1, <1>2, <1>3, <1>4 DEF Quiet
<1> QED  BY <1>1, <1>2, <1>5, QuietStep

LEMMA SelectStep == ASSUME CorpusInv, NEW j \in Jobs, SelectBatch(j) PROVE CorpusInv'
<1>1. UNCHANGED <<world, bars, stored, metrics>>  BY DEF SelectBatch, database
<1>2. /\ job[j].code # "ok" /\ DOMAIN job[j] = JobFields /\ job[j].step \in Nat
      /\ Stage(j) \in Drivers
      BY RunningIs DEF SelectBatch, At, CorpusInv, JobIs
<1>3. CASE FailWorkflow(j)  BY <1>1, <1>3, FailStep
<1>4. ASSUME NEW r, Set(j, r), r.pc \in {"post", "target"}, r.pc = "target" => r.step = 0,
             r.step \in {0, job[j].step}, r.code = job[j].code, r.stages = job[j].stages,
             DOMAIN r = JobFields
      PROVE  CorpusInv'
  <2>1. job'[j] = r  BY <1>4, SetIs
  <2>2. Stage(j)' \in Drivers  BY <1>2, <1>4, <2>1 DEF Stage
  <2>3. Quiet(j)  BY <1>2, <1>4, <2>1, <2>2 DEF Quiet
  <2> QED  BY <1>1, <1>4, <2>1, <2>3, QuietStep
<1> DEFINE found == Targets(Stage(j), job[j].cursor)
           over(b) == [job[j] EXCEPT !.pc = "post", !.done = b]
           on == [job[j] EXCEPT !.pc = "target", !.todo = found, !.bad = FALSE,
                                !.step = 0, !.batches = @ + 1, !.last = found[Len(found)],
                                !.short = Len(found) < BatchSize]
<1>5. FailWorkflow(j) \/ Set(j, over(FALSE)) \/ Set(j, over(TRUE)) \/ Set(j, on)  BY DEF SelectBatch
<1>6. ASSUME NEW b
      PROVE  /\ over(b).pc = "post" /\ over(b).step = job[j].step /\ over(b).code = job[j].code
             /\ over(b).stages = job[j].stages /\ DOMAIN over(b) = JobFields
      BY <1>2 DEF JobFields
<1>7. /\ on.pc = "target" /\ on.code = job[j].code /\ DOMAIN on = JobFields /\ on.step = 0
      /\ on.stages = job[j].stages
  <2> HIDE DEF found
  <2> QED  BY <1>2 DEF JobFields
<1> HIDE DEF over, on
<1>8. CASE Set(j, on)  BY <1>4, <1>7, <1>8
<1>9. ASSUME NEW b, Set(j, over(b)) PROVE CorpusInv'  BY <1>4, <1>6, <1>9
<1> QED  BY <1>3, <1>5, <1>8, <1>9

LEMMA EndStep == ASSUME CorpusInv, NEW j \in Jobs, EndBatch(j) PROVE CorpusInv'
<1>1. UNCHANGED <<world, bars, stored, metrics>>  BY DEF EndBatch, database
<1>2. /\ job[j].code # "ok" /\ DOMAIN job[j] = JobFields /\ job[j].step \in Nat
      /\ Stage(j) \in Drivers
      BY RunningIs DEF EndBatch, At, CorpusInv, JobIs
<1>3. CASE FailWorkflow(j)  BY <1>1, <1>3, FailStep
<1>4. CASE ~FailWorkflow(j)
  <2> DEFINE r == [job[j] EXCEPT !.cursor = job[j].last, !.done = TRUE,
                                 !.pc = IF Stage(j) = "market_history" /\ job[j].short
                                        THEN "post" ELSE "batch"]
  <2>1. Set(j, r)  BY <1>4 DEF EndBatch
  <2>2. /\ r.pc \in {"post", "batch"} /\ r.code = job[j].code /\ DOMAIN r = JobFields
        /\ r.step = job[j].step /\ r.stages = job[j].stages
        BY <1>2 DEF JobFields
  <2> HIDE DEF r
  <2>3. job'[j] = r  BY <2>1, SetIs
  <2>4. Stage(j)' \in Drivers  BY <1>2, <2>2, <2>3 DEF Stage
  <2>5. Quiet(j)  BY <1>2, <2>2, <2>3, <2>4 DEF Quiet
  <2> QED  BY <1>1, <2>1, <2>3, <2>5, QuietStep
<1> QED  BY <1>3, <1>4

LEMMA PostStep == ASSUME CorpusInv, NEW j \in Jobs, Postflight(j) PROVE CorpusInv'
<1>1. UNCHANGED <<world, bars, stored, metrics>>  BY DEF Postflight, database
<1>2. Stage(j) \in Drivers  BY DEF Postflight, At, CorpusInv, JobIs
<1>3. Stage(j) # "readiness"  BY <1>2 DEF Drivers
<1>4. CASE Passes(j)
  <2>1. Stage(j) = "financials" => \A s \in Universe : FinancialCovered(s)  BY <1>4 DEF Passes
  <2>2. NextStage(j)  BY <1>4 DEF Postflight
  <2> QED  BY <1>1, <1>3, <2>1, <2>2, NextStageStep
<1>5. CASE ~Passes(j)
  <2>1. FailWorkflow(j)  BY <1>5 DEF Postflight
  <2> QED  BY <1>1, <2>1, FailStep
<1> QED  BY <1>4, <1>5

LEMMA GateStep == ASSUME CorpusInv, NEW j \in Jobs, ReadinessGate(j) PROVE CorpusInv'
<1>1. UNCHANGED <<world, bars, stored, metrics>>  BY DEF ReadinessGate, database
<1>2. Stage(j) # "financials"  BY DEF ReadinessGate
<1>3. CASE GatePasses
  <2>1. \A s \in Universe : Covered(s)  BY <1>3 DEF GatePasses, Covered
  <2>2. NextStage(j)  BY <1>3 DEF ReadinessGate
  <2> QED  BY <1>1, <1>2, <2>1, <2>2, NextStageStep
<1>4. CASE ~GatePasses
  <2>1. FailWorkflow(j)  BY <1>4 DEF ReadinessGate
  <2> QED  BY <1>1, <2>1, FailStep
<1> QED  BY <1>3, <1>4

\* Bars are replaced by bars.
LEMMA BarsGain ==
  ASSUME CorpusInv, UNCHANGED <<world, stored, metrics>>, DOMAIN bars' = DOMAIN bars,
         \A s \in Universe : bars[s] # "none" => bars'[s] # "none"
  PROVE  RowsAre' /\ Gains
<1>1. company' = company /\ Universe' = Universe  BY DEF company, Universe
<1>2. RowsAre'  BY <1>1 DEF CorpusInv, RowsAre, InOrderStored
<1>3. \A s \in Universe : \A d \in DOMAIN stored[s] : stored[s][d] >= stored[s][d]
  <2> TAKE s \in Universe
  <2> TAKE d \in DOMAIN stored[s]
  <2>1. stored[s] \in [1..company[s].exposes -> 0..3]  BY DEF CorpusInv, RowsAre
  <2>2. stored[s][d] \in 0..3  BY <2>1
  <2> QED  BY <2>2
<1> QED  BY <1>2, <1>3 DEF Gains

LEMMA CandlesStep == ASSUME CorpusInv, NEW j \in Jobs, FetchCandles(j) PROVE CorpusInv'
<1>1. UNCHANGED <<world, stored, metrics>> /\ At(j, "target")  BY DEF FetchCandles, In
<1>2. /\ DOMAIN bars' = DOMAIN bars
      /\ \A s \in Universe : bars[s] # "none" => bars'[s] # "none"
  <2>1. bars' = bars \/ bars' = [bars EXCEPT ![Target(j)] = "upstox"]  BY DEF FetchCandles
  <2>2. DOMAIN bars = Universe  BY DEF CorpusInv, RowsAre
  <2> QED  BY <2>1, <2>2
<1>3. PICK b : Set(j, Processed(j, b))  BY DEF FetchCandles
<1>4. Quiet(j) /\ Set(j, job'[j])  BY <1>1, <1>3, FinishedIs, SetIs
<1> QED  BY <1>1, <1>2, <1>4, BarsGain, QuietIs, OneJob

LEMMA DailyStep == ASSUME CorpusInv, NEW s \in Universe, DailyBars(s) PROVE CorpusInv'
<1>1. /\ UNCHANGED <<world, stored, metrics, job>>
      /\ bars' = [bars EXCEPT ![s] = "yahoo"]
      BY DEF DailyBars
<1>2. RowsAre' /\ Gains
  <2>1. DOMAIN bars = Universe  BY DEF CorpusInv, RowsAre
  <2> QED  BY <1>1, <2>1, BarsGain
<1>3. \A j \in Jobs : JobIs(j)'  BY <1>1, <1>2, JobStays
<1> QED  BY <1>1, <1>2, <1>3 DEF CorpusInv

LEMMA KillStep == ASSUME CorpusInv, NEW j \in Jobs, Kill(j) PROVE CorpusInv'
BY FailStep DEF Kill, database

LEMMA ListStep == ASSUME CorpusInv, NEW j \in Jobs, ListResults(j) PROVE CorpusInv'
<1>1. /\ UNCHANGED <<world, bars, stored, metrics>> /\ At(j, "target")
      /\ Stage(j) = "financials"
      BY DEF ListResults, database, In
<1>2. ASSUME NEW b, Set(j, Processed(j, b)) PROVE CorpusInv'
  <2>1. Quiet(j) /\ Set(j, job'[j])  BY <1>1, <1>2, FinishedIs, SetIs
  <2> QED  BY <1>1, <2>1, QuietStep
<1>3. CASE /\ Set(j, [job[j] EXCEPT !.step = 1])
           /\ company[Target(j)].exposes # 0
  <2> DEFINE r == [job[j] EXCEPT !.step = 1]
  <2>1. job'[j] = r /\ DOMAIN job[j] = JobFields  BY <1>3, SetIs
  <2>2. job[j].code # "ok" /\ Stage(j) \in Drivers  BY <1>1, RunningIs DEF At, CorpusInv, JobIs
  <2>3. /\ DOMAIN r = JobFields /\ r.step = 1 /\ r.pc = job[j].pc /\ r.stages = job[j].stages
        /\ r.code = job[j].code /\ r.todo = job[j].todo
        BY <2>1 DEF JobFields
  <2> HIDE DEF r
  <2>4. Stage(j)' = Stage(j) /\ Target(j)' = Target(j)  BY <2>1, <2>3 DEF Stage, Target
  <2>5. RowsAre' /\ Gains  BY <1>1, NothingGained
  <2>6. company' = company /\ Universe' = Universe  BY <2>5 DEF Gains, company, Universe
  <2>7. Ingested(j)'
    <3> SUFFICES ASSUME Target(j) \in Universe
                 PROVE  /\ 1 \in 1..(3 * company[Target(j)].exposes)
                        /\ stored[Target(j)][1] >= 0
        BY <1>1, <2>1, <2>3, <2>4, <2>6 DEF Ingested, Document, Part
    <3>1. company[Target(j)].exposes \in Nat \ {0}  BY <1>3, CompanyIs DEF CorpusInv, RowsAre
    <3>2. stored[Target(j)] \in [1..company[Target(j)].exposes -> 0..3]  BY DEF CorpusInv, RowsAre
    <3>3. stored[Target(j)][1] \in 0..3  BY <3>1, <3>2
    <3> QED  BY <3>1, <3>3
  <2>8. ~Deriving(j)'  BY <1>1, <2>4 DEF Deriving, In
  <2>9. JobIs(j)'  BY <2>1, <2>2, <2>3, <2>4, <2>7, <2>8 DEF JobIs, Clean
  <2> QED  BY <1>3, <2>1, <2>5, <2>9, OneJob DEF r
<1> QED  BY <1>2, <1>3 DEF ListResults

-----------------------------------------------------------------------------
LEMMA PartIs ==
  ASSUME NEW s, NEW k \in Nat \ {0}
  PROVE  /\ Document(s, k) \in Nat \ {0} /\ Part(k) \in 1..3
         /\ k = 3 * (Document(s, k) - 1) + Part(k)
BY DEF Document, Part

LEMMA NextPart ==
  ASSUME NEW s, NEW k \in Nat \ {0}
  PROVE  \/ /\ Part(k) = 3
            /\ Document(s, k + 1) = Document(s, k) + 1 /\ Part(k + 1) = 1
         \/ /\ Part(k) < 3
            /\ Document(s, k + 1) = Document(s, k) /\ Part(k + 1) = Part(k) + 1
<1> DEFINE d == Document(s, k)
           p == Part(k)
           e == Document(s, k + 1)
           q == Part(k + 1)
<1>1. d \in Nat /\ p \in 1..3 /\ k = 3 * (d - 1) + p  BY PartIs
<1>2. e \in Nat /\ q \in 1..3 /\ k + 1 = 3 * (e - 1) + q  BY PartIs
<1> HIDE DEF d, p, e, q
<1>3. \/ p = 3 /\ e = d + 1 /\ q = 1
      \/ p < 3 /\ e = d /\ q = p + 1
      BY <1>1, <1>2
<1> QED  BY <1>3 DEF d, p, e, q

\* A part that is stored is the next one of its document, whose newer ones are
\* complete.
LEMMA PartStored ==
  ASSUME CorpusInv, NEW j \in Jobs, Ingesting(j), UNCHANGED <<world, bars, metrics>>,
         NEW s, s = Target(j), NEW d, d = Document(s, job[j].step),
         NEW part, part = Part(job[j].step),
         stored' = [stored EXCEPT ![s][d] = Upsert(@, part)]
  PROVE  /\ RowsAre' /\ Gains
         /\ s \in Universe => stored'[s][d] >= part
<1>1. company' = company /\ Universe' = Universe  BY DEF company, Universe
<1>2. RowsAre /\ JobIs(j)  BY DEF CorpusInv
<1>3. DOMAIN stored = Universe  BY <1>2 DEF RowsAre
<1>4. CASE s \notin Universe
  <2>1. stored = [t \in Universe |-> stored[t]]  BY <1>2 DEF RowsAre
  <2>2. stored' = [t \in Universe |-> stored[t]]
    <3> DEFINE new == [stored[s] EXCEPT ![d] = Upsert(@, part)]
    <3>1. stored' = [stored EXCEPT ![s] = new]  OBVIOUS
    <3> HIDE DEF new
    <3> QED  BY <3>1, <1>3, <1>4
  <2>3. stored' = stored  BY <2>1, <2>2
  <2> QED  BY <2>3, <1>4, NothingGained
<1>5. CASE s \in Universe
  <2> DEFINE n == company[s].exposes
             old == stored[s]
             level == old[d]
             v == Upsert(level, part)
             new == [old EXCEPT ![d] = v]
  <2>1. n \in Nat /\ job[j].step \in Nat  BY <1>2, <1>5, CompanyIs DEF RowsAre, JobIs
  <2>2. Ingested(j)  BY <1>2 DEF JobIs
  <2>3. /\ job[j].step \in 1..(3 * n) /\ old[d] >= part - 1
        /\ \A e \in 1..(d - 1) : old[e] = 3
        BY <1>5, <2>2 DEF Ingested
  <2>4. d \in 1..n /\ part \in 1..3  BY <2>1, <2>3 DEF Document, Part
  <2>5. old \in [1..n -> 0..3] /\ InOrderStored(s)  BY <1>2, <1>5 DEF RowsAre
  <2>6. level \in 0..3  BY <2>4, <2>5
  <2> HIDE DEF level
  <2>7. v \in 0..3 /\ v >= level /\ v >= part /\ v > 0  BY <2>4, <2>6 DEF Upsert
  <2> HIDE DEF v, n, old
  <2>8. new \in [1..n -> 0..3] /\ new[d] = v /\ \A e \in (1..n) \ {d} : new[e] = old[e]
        BY <2>4, <2>5, <2>7
  <2>9. stored' = [stored EXCEPT ![s] = new]  BY DEF v, level, old
  <2>10. stored'[s] = new /\ DOMAIN stored' = Universe /\ \A t \in Universe \ {s} : stored'[t] = stored[t]
         BY <2>9, <1>3, <1>5
  <2>11. \A e \in 1..n : new[e] \in 0..3 /\ old[e] \in 0..3 /\ new[e] >= old[e]
    <3> TAKE e \in 1..n
    <3>1. new[e] \in 0..3 /\ old[e] \in 0..3  BY <2>5, <2>8
    <3>2. CASE e = d  BY <3>1, <3>2, <2>7, <2>8 DEF level
    <3>3. CASE e # d  BY <3>1, <3>3, <2>8
    <3> QED  BY <3>2, <3>3, <3>1
  <2>12. \A a, e \in 1..n : a < e /\ new[e] > 0 => new[a] = 3
    <3> SUFFICES ASSUME NEW a \in 1..n, NEW e \in 1..n, a < e, new[e] > 0 PROVE new[a] = 3  OBVIOUS
    <3>1. old[a] = 3
      <4>1. CASE e = d  BY <4>1, <2>1, <2>3, <2>4 DEF n
      <4>2. CASE e # d
        <5>1. old[e] > 0  BY <4>2, <2>8
        <5>2. DOMAIN stored[s] = 1..n  BY <2>5 DEF old
        <5> QED  BY <5>1, <5>2, <2>5 DEF InOrderStored, old
      <4> QED  BY <4>1, <4>2
    <3> QED  BY <3>1, <2>11
  <2>13. DOMAIN new = 1..n /\ DOMAIN old = 1..n  BY <2>5, <2>8
  <2>14. InOrderStored(s)'  BY <2>10, <2>12, <2>13 DEF InOrderStored
  <2>15. \A t \in Universe \ {s} : InOrderStored(t)'
         BY <1>2, <2>10 DEF RowsAre, InOrderStored
  <2>16. \A t \in Universe : stored'[t] \in [1..company[t].exposes -> 0..3]
    <3> TAKE t \in Universe
    <3>1. CASE t = s  BY <3>1, <2>8, <2>10 DEF n
    <3>2. CASE t # s  BY <3>2, <1>2, <2>10 DEF RowsAre
    <3> QED  BY <3>1, <3>2
  <2>17. RowsAre'
         BY <1>1, <1>2, <2>10, <2>14, <2>15, <2>16 DEF RowsAre, WellApproved
  <2>18. \A t \in Universe : /\ DOMAIN stored'[t] = DOMAIN stored[t]
                             /\ \A e \in DOMAIN stored[t] : stored'[t][e] >= stored[t][e]
    <3> TAKE t \in Universe
    <3>1. CASE t = s  BY <3>1, <2>10, <2>11, <2>13 DEF old
    <3>2. CASE t # s
      <4> SUFFICES ASSUME NEW e \in DOMAIN stored[t] PROVE stored[t][e] >= stored[t][e]
          BY <3>2, <2>10
      <4>1. stored[t] \in [1..company[t].exposes -> 0..3]  BY <1>2 DEF RowsAre
      <4>2. stored[t][e] \in 0..3  BY <4>1
      <4> QED  BY <4>2
    <3> QED  BY <3>1, <3>2
  <2>19. Gains  BY <2>18 DEF Gains
  <2>20. stored'[s][d] >= part  BY <2>7, <2>8, <2>10
  <2> QED  BY <2>17, <2>19, <2>20
<1> QED  BY <1>4, <1>5

LEMMA DocumentStep == ASSUME CorpusInv, NEW j \in Jobs, StoreDocument(j) PROVE CorpusInv'
<1> DEFINE s == Target(j)
           step == job[j].step
           d == Document(s, step)
           part == Part(step)
<1>1. /\ UNCHANGED <<world, bars, metrics>> /\ At(j, "target") /\ Stage(j) = "financials"
      /\ Ingesting(j) /\ step > 0
      BY DEF StoreDocument, In, Ingesting
<1>2. job[j].code # "ok" /\ Stage(j) \in Drivers /\ JobIs(j) /\ DOMAIN job[j] = JobFields /\ step \in Nat
      BY <1>1, RunningIs DEF At, CorpusInv, JobIs
<1>3. ASSUME NEW b, Set(j, Processed(j, b)), RowsAre', Gains PROVE CorpusInv'
  <2>1. Quiet(j) /\ Set(j, job'[j])  BY <1>1, <1>3, FinishedIs, SetIs
  <2> QED  BY <1>3, <2>1, QuietIs, OneJob
<1>4. CASE stored' = stored /\ \E b : Set(j, Processed(j, b))
  <2>1. RowsAre' /\ Gains  BY <1>1, <1>4, NothingGained
  <2> QED  BY <1>3, <1>4, <2>1
<1>5. CASE stored' = [stored EXCEPT ![s][d] = Upsert(@, part)]
           /\ Set(j, IF step = 3 * company[s].exposes THEN Processed(j, FALSE)
                     ELSE [job[j] EXCEPT !.step = @ + 1])
  <2>1. RowsAre' /\ Gains /\ (s \in Universe => stored'[s][d] >= part)
        BY <1>1, <1>5, PartStored
  <2>2. CASE step = 3 * company[s].exposes
    <3>1. Set(j, Processed(j, FALSE))  BY <1>5, <2>2
    <3> QED  BY <3>1, <2>1, <1>3
  <2>3. CASE step # 3 * company[s].exposes
    <3> DEFINE r == [job[j] EXCEPT !.step = step + 1]
    <3>1. Set(j, r)  BY <1>5, <2>3
    <3>2. /\ DOMAIN r = JobFields /\ r.step = step + 1 /\ r.pc = job[j].pc /\ r.stages = job[j].stages
          /\ r.code = job[j].code /\ r.todo = job[j].todo
          BY <1>2 DEF JobFields
    <3> HIDE DEF r
    <3>3. job'[j] = r  BY <3>1, SetIs
    <3>4. Stage(j)' = Stage(j) /\ Target(j)' = Target(j)  BY <3>2, <3>3 DEF Stage, Target
    <3>5. company' = company /\ Universe' = Universe  BY <2>1 DEF Gains, company, Universe
    <3>6. Ingested(j)'
      <4> SUFFICES ASSUME s \in Universe
                   PROVE  /\ step + 1 \in 1..(3 * company[s].exposes)
                          /\ stored'[s][Document(s, step + 1)] >= Part(step + 1) - 1
                          /\ \A e \in 1..(Document(s, step + 1) - 1) : stored'[s][e] = 3
        <5>1. job'[j].step = step + 1  BY <3>2, <3>3
        <5> QED  BY <5>1, <3>4, <3>5 DEF Ingested, Document, Part
      <4> DEFINE n == company[s].exposes
                 after(e) == stored'[s][e]
      <4>1. n \in Nat  BY <1>2, CompanyIs DEF CorpusInv, RowsAre
      <4>2. /\ step \in 1..(3 * n) /\ \A e \in 1..(d - 1) : stored[s][e] = 3
            BY <1>1, <1>2 DEF JobIs, Ingested
      <4>3. stored[s] \in [1..n -> 0..3] /\ stored'[s] \in [1..n -> 0..3]
            BY <2>1, <3>5 DEF CorpusInv, RowsAre
      <4>4. \A e \in 1..n : stored'[s][e] >= stored[s][e]  BY <2>1, <4>3 DEF Gains
      <4>5. \A e \in 1..n : after(e) \in 0..3  BY <4>3
      <4>6. \A e \in 1..n : stored[s][e] = 3 => after(e) = 3
        <5> TAKE e \in 1..n
        <5>1. stored'[s][e] \in 0..3 /\ stored'[s][e] >= stored[s][e]  BY <4>3, <4>4
        <5> QED  BY <5>1
      <4>7. step # 3 * n  BY <2>3
      <4>8. d \in 1..n /\ part \in 1..3 /\ step = 3 * (d - 1) + part
            BY <4>1, <4>2 DEF Document, Part
      <4>9. \A e \in 1..(d - 1) : after(e) = 3
        <5> TAKE e \in 1..(d - 1)
        <5>1. stored[s][e] = 3  BY <4>2
        <5>2. e \in 1..n  BY <4>1, <4>8
        <5> QED  BY <5>1, <5>2, <4>6
      <4>10. after(d) >= part  BY <2>1
      <4>11. \/ part = 3 /\ d + 1 \in 1..n /\ Document(s, step + 1) = d + 1 /\ Part(step + 1) = 1
             \/ part < 3 /\ Document(s, step + 1) = d /\ Part(step + 1) = part + 1
        <5>1. step \in Nat \ {0}  BY <4>1, <4>2
        <5>2. part = 3 => d + 1 \in 1..n
          <6> HIDE DEF n, d, part, step
          <6> QED  BY <4>1, <4>2, <4>7, <4>8
        <5> QED  BY <5>1, <5>2, NextPart
      <4>12. step + 1 \in 1..(3 * n)  BY <4>1, <4>2, <4>7
      <4> HIDE DEF n, after, d, part, step
      <4>13. CASE part = 3 /\ d + 1 \in 1..n /\ Document(s, step + 1) = d + 1 /\ Part(step + 1) = 1
        <5>1. after(d + 1) >= 0  BY <4>5, <4>13
        <5>2. after(d) = 3  BY <4>5, <4>8, <4>10, <4>13
        <5>3. \A e \in 1..d : after(e) = 3  BY <4>8, <4>9, <5>2
        <5> QED  BY <4>8, <4>12, <4>13, <5>1, <5>3 DEF after, n
      <4>14. CASE part < 3 /\ Document(s, step + 1) = d /\ Part(step + 1) = part + 1
        <5>1. part + 1 - 1 = part  BY <4>8
        <5>2. after(d) >= part + 1 - 1  BY <4>10, <5>1
        <5>3. stored'[s][d] >= part + 1 - 1 /\ \A e \in 1..(d - 1) : stored'[s][e] = 3
              BY <4>9, <5>2 DEF after
        <5>4. step + 1 \in 1..(3 * company[s].exposes)  BY <4>12 DEF n
        <5>5. Part(step + 1) - 1 = part + 1 - 1 /\ Document(s, step + 1) - 1 = d - 1  BY <4>8, <4>14
        <5>6. stored'[s][Document(s, step + 1)] >= Part(step + 1) - 1  BY <4>14, <5>3, <5>5
        <5>7. \A e \in 1..(Document(s, step + 1) - 1) : stored'[s][e] = 3  BY <5>3, <5>5
        <5> QED  BY <5>4, <5>6, <5>7
      <4> QED  BY <4>11, <4>13, <4>14
    <3>7. ~Deriving(j)'  BY <1>1, <3>4 DEF Deriving, In
    <3>8. JobIs(j)'  BY <1>2, <3>2, <3>3, <3>4, <3>6, <3>7 DEF JobIs, Clean
    <3> QED  BY <2>1, <3>1, <3>8, OneJob
  <2> QED  BY <2>2, <2>3
<1> QED  BY <1>4, <1>5 DEF StoreDocument

-----------------------------------------------------------------------------
LEMMA FirstNameIs ==
  ASSUME NEW names, names \subseteq MetricNames, names # {}
  PROVE  FirstName(names) \in names
<1> DEFINE Leads(i) == ByName[i] \in names /\ \A k \in 1..(i - 1) : ByName[k] \notin names
<1>1. /\ DOMAIN ByName = 1..5 /\ ByName[1] = "ebitda_margin" /\ ByName[2] = "pb" /\ ByName[3] = "pe"
      /\ ByName[4] = "revenue_growth" /\ ByName[5] = "roce"
      BY DEF ByName
<1>2. \E i \in 1..5 : ByName[i] \in names
  <2>1. PICK m \in names : m \in MetricNames  OBVIOUS
  <2>2. 1 \in 1..5 /\ 2 \in 1..5 /\ 3 \in 1..5 /\ 4 \in 1..5 /\ 5 \in 1..5  OBVIOUS
  <2>3. \/ m = ByName[1] \/ m = ByName[2] \/ m = ByName[3] \/ m = ByName[4] \/ m = ByName[5]
        BY <1>1, <2>1 DEF MetricNames
  <2> QED  BY <2>2, <2>3
<1>3. \E i \in 1..5 : Leads(i)
  <2>1. CASE ByName[1] \in names
    <3>1. \A k \in 1..(1 - 1) : FALSE  OBVIOUS
    <3> QED  BY <2>1, <3>1
  <2>2. CASE ByName[1] \notin names /\ ByName[2] \in names
    <3>1. \A k \in 1..(2 - 1) : k = 1  OBVIOUS
    <3> QED  BY <2>2, <3>1
  <2>3. CASE ByName[1] \notin names /\ ByName[2] \notin names /\ ByName[3] \in names
    <3>1. \A k \in 1..(3 - 1) : k = 1 \/ k = 2  OBVIOUS
    <3> QED  BY <2>3, <3>1
  <2>4. CASE ByName[1] \notin names /\ ByName[2] \notin names /\ ByName[3] \notin names /\ ByName[4] \in names
    <3>1. \A k \in 1..(4 - 1) : k = 1 \/ k = 2 \/ k = 3  OBVIOUS
    <3> QED  BY <2>4, <3>1
  <2>5. CASE \A i \in 1..4 : ByName[i] \notin names
    <3>1. ByName[5] \in names
      <4>1. \A i \in 1..5 : i \in 1..4 \/ i = 5  OBVIOUS
      <4> QED  BY <4>1, <2>5, <1>2
    <3>2. \A k \in 1..(5 - 1) : k \in 1..4  OBVIOUS
    <3> QED  BY <2>5, <3>1, <3>2
  <2>6. \A i \in 1..4 : i = 1 \/ i = 2 \/ i = 3 \/ i = 4  OBVIOUS
  <2> QED  BY <2>1, <2>2, <2>3, <2>4, <2>5, <2>6
<1> QED  BY <1>1, <1>3 DEF FirstName

LEMMA DeriveStep == ASSUME CorpusInv, NEW j \in Jobs, Derive(j) PROVE CorpusInv'
<1> DEFINE s == Target(j)
<1>1. /\ UNCHANGED <<world, bars, stored, metrics>> /\ At(j, "target")
      /\ Stage(j) = "peer_metrics"
      BY DEF Derive, database, In
<1>2. CASE Set(j, Processed(j, TRUE))
  <2>1. Quiet(j) /\ Set(j, job'[j])  BY <1>1, <1>2, FinishedIs, SetIs
  <2> QED  BY <1>1, <2>1, QuietStep
<1>3. CASE /\ Set(j, [job[j] EXCEPT !.step = 1, !.rows = Partition(s)])
           /\ ~(Cardinality(Derivable(s)) < MinMetrics)
  <2> DEFINE rows == Partition(s)
             r == [job[j] EXCEPT !.step = 1, !.rows = rows]
  <2>1. Set(j, r) /\ DOMAIN job[j] = JobFields  BY <1>3, SetIs
  <2>2. job[j].code # "ok" /\ Stage(j) \in Drivers  BY <1>1, RunningIs DEF At, CorpusInv, JobIs
  <2>3. /\ DOMAIN rows \subseteq MetricNames /\ DOMAIN rows # {}
        /\ \A m \in DOMAIN rows : rows[m] \in BOOLEAN /\ WellApproved(<<m, rows[m]>>)
    <3>1. DOMAIN rows = Derivable(s) /\ Derivable(s) \subseteq MetricNames
          BY DEF Partition, Derivable, MetricNames
    <3>2. Derivable(s) # {}
      <4>1. Cardinality({}) = 0  BY FS_EmptySet
      <4> QED  BY <4>1, <1>3, CorpusAssumption
    <3>3. \A m \in DOMAIN rows : rows[m] = (m \in {"pb", "pe"} => bars[s] = "upstox")
          BY <3>1 DEF Partition
    <3>4. \A m \in DOMAIN rows : rows[m] \in BOOLEAN /\ (m \in {"pb", "pe"} \/ rows[m])
          BY <3>3
    <3>5. \A m, x : <<m, x>>[1] = m /\ <<m, x>>[2] = x  OBVIOUS
    <3> QED  BY <3>1, <3>2, <3>4, <3>5 DEF WellApproved
  <2> HIDE DEF rows
  <2>4. /\ DOMAIN r = JobFields /\ r.step = 1 /\ r.rows = rows /\ r.pc = job[j].pc
        /\ r.stages = job[j].stages /\ r.code = job[j].code
        BY <2>1 DEF JobFields
  <2> HIDE DEF r
  <2>5. job'[j] = r  BY <2>1, SetIs
  <2>6. Stage(j)' = Stage(j)  BY <2>4, <2>5 DEF Stage
  <2>7. Derived(j)'  BY <2>3, <2>4, <2>5 DEF Derived, WellApproved
  <2>8. ~Ingesting(j)'  BY <1>1, <2>6 DEF Ingesting, In
  <2>9. JobIs(j)'  BY <2>2, <2>4, <2>5, <2>6, <2>7, <2>8 DEF JobIs, Clean
  <2>10. RowsAre' /\ Gains  BY <1>1, NothingGained
  <2> QED  BY <2>1, <2>9, <2>10, OneJob
<1> QED  BY <1>2, <1>3 DEF Derive

LEMMA MetricsGain ==
  ASSUME CorpusInv, UNCHANGED <<world, bars, stored>>, NEW s, NEW row,
         row \in MetricNames \X BOOLEAN, WellApproved(row),
         metrics' = [metrics EXCEPT ![s] = @ \cup {row}]
  PROVE  RowsAre' /\ Gains
<1>1. company' = company /\ Universe' = Universe  BY DEF company, Universe
<1>2. RowsAre  BY DEF CorpusInv
<1>3. metrics = [t \in Universe |-> metrics[t]]  BY <1>2 DEF RowsAre
<1>4. metrics' = [t \in Universe |-> IF t = s THEN metrics[t] \cup {row} ELSE metrics[t]]  BY <1>3
<1>5. metrics' = [t \in Universe |-> metrics'[t]]
      /\ \A t \in Universe : metrics'[t] = metrics[t] \/ metrics'[t] = metrics[t] \cup {row}
      BY <1>4
<1>6. \A t \in Universe : /\ metrics'[t] \subseteq MetricNames \X BOOLEAN
                          /\ \A x \in metrics'[t] : WellApproved(x)
  <2> TAKE t \in Universe
  <2>1. metrics[t] \subseteq MetricNames \X BOOLEAN /\ \A x \in metrics[t] : WellApproved(x)
        BY <1>2 DEF RowsAre
  <2> QED  BY <1>5, <2>1
<1>7. \A t \in Universe : stored'[t] \in [1..company'[t].exposes -> 0..3] /\ InOrderStored(t)'
      BY <1>1, <1>2 DEF RowsAre, InOrderStored
<1>8. RowsAre'  BY <1>1, <1>2, <1>5, <1>6, <1>7 DEF RowsAre, WellApproved
<1>9. \A t \in Universe : \A d \in DOMAIN stored[t] : stored[t][d] >= stored[t][d]
  <2> TAKE t \in Universe
  <2> TAKE d \in DOMAIN stored[t]
  <2>1. stored[t] \in [1..company[t].exposes -> 0..3]  BY <1>2 DEF RowsAre
  <2>2. stored[t][d] \in 0..3  BY <2>1
  <2> QED  BY <2>2
<1> QED  BY <1>5, <1>8, <1>9 DEF Gains

LEMMA MetricStep == ASSUME CorpusInv, NEW j \in Jobs, StoreMetric(j) PROVE CorpusInv'
<1> DEFINE rows == job[j].rows
           m == FirstName(DOMAIN rows)
           row == <<m, rows[m]>>
<1>1. /\ UNCHANGED <<world, bars, stored>> /\ At(j, "target") /\ Stage(j) = "peer_metrics"
      /\ Deriving(j)
      BY DEF StoreMetric, In, Deriving
<1>2. /\ job[j].code # "ok" /\ Stage(j) \in Drivers /\ DOMAIN job[j] = JobFields /\ job[j].step \in Nat
      /\ Derived(j)
      BY <1>1, RunningIs DEF At, CorpusInv, JobIs
<1>3. /\ DOMAIN rows \subseteq MetricNames /\ DOMAIN rows # {}
      /\ \A n \in DOMAIN rows : rows[n] \in BOOLEAN /\ WellApproved(<<n, rows[n]>>)
      BY <1>2 DEF Derived
<1>4. m \in DOMAIN rows  BY <1>3, FirstNameIs
<1>5. row \in MetricNames \X BOOLEAN /\ WellApproved(row)  BY <1>3, <1>4
<1>6. RowsAre' /\ Gains
  <2>1. metrics' = [metrics EXCEPT ![Target(j)] = @ \cup {row}]  BY DEF StoreMetric
  <2> HIDE DEF row
  <2> QED  BY <1>1, <1>5, <2>1, MetricsGain
<1>7. CASE Set(j, Processed(j, FALSE))
  <2>1. Quiet(j) /\ Set(j, job'[j])  BY <1>1, <1>7, FinishedIs, SetIs
  <2> QED  BY <1>6, <2>1, QuietIs, OneJob
<1>8. CASE /\ Set(j, [job[j] EXCEPT !.rows = Restrict(rows, DOMAIN rows \ {m})])
           /\ DOMAIN rows # {m}
  <2> DEFINE left == Restrict(rows, DOMAIN rows \ {m})
             r == [job[j] EXCEPT !.rows = left]
  <2>1. /\ DOMAIN left = DOMAIN rows \ {m} /\ \A n \in DOMAIN left : left[n] = rows[n]
        BY DEF Restrict
  <2> HIDE DEF left
  <2>2. Set(j, r)  BY <1>8 DEF left
  <2>3. /\ DOMAIN r = JobFields /\ r.step = job[j].step /\ r.rows = left /\ r.pc = job[j].pc
        /\ r.stages = job[j].stages /\ r.code = job[j].code
        BY <1>2 DEF JobFields
  <2> HIDE DEF r
  <2>4. job'[j] = r  BY <2>2, SetIs
  <2>5. Stage(j)' = Stage(j)  BY <2>3, <2>4 DEF Stage
  <2>6. Derived(j)'
    <3> SUFFICES /\ DOMAIN left \subseteq MetricNames /\ DOMAIN left # {}
                 /\ \A n \in DOMAIN left : left[n] \in BOOLEAN /\ WellApproved(<<n, left[n]>>)
        BY <2>3, <2>4 DEF Derived, WellApproved
    <3> QED  BY <1>3, <1>4, <1>8, <2>1
  <2>7. ~Ingesting(j)'  BY <1>1, <2>5 DEF Ingesting, In
  <2>8. JobIs(j)'  BY <1>2, <2>3, <2>4, <2>5, <2>6, <2>7 DEF JobIs, Clean
  <2> QED  BY <1>6, <2>2, <2>8, OneJob
<1> QED  BY <1>7, <1>8 DEF StoreMetric

-----------------------------------------------------------------------------
LEMMA CorpusStep == CorpusInv /\ [CorpusNext]_corpusVars => CorpusInv'
<1> SUFFICES ASSUME CorpusInv, [CorpusNext]_corpusVars PROVE CorpusInv'  OBVIOUS
<1>1. CASE UNCHANGED corpusVars
  <2>1. UNCHANGED <<world, bars, stored, metrics, job>>  BY <1>1 DEF corpusVars, database
  <2>2. RowsAre' /\ Gains  BY <2>1, NothingGained
  <2>3. \A j \in Jobs : JobIs(j)'  BY <2>1, <2>2, JobStays
  <2> QED  BY <2>1, <2>2, <2>3 DEF CorpusInv
<1>2. ASSUME NEW j \in Jobs, StartWorkflow(j) \/ JobStep(j) \/ Kill(j) PROVE CorpusInv'
  BY <1>2, StartStep, PrepareStep, DriverStep, SelectStep, EndStep, PostStep, GateStep, CandlesStep,
     ListStep, DocumentStep, DeriveStep, MetricStep, KillStep DEF JobStep
<1>3. ASSUME NEW s \in Universe, DailyBars(s) PROVE CorpusInv'  BY <1>3, DailyStep
<1> QED  BY <1>1, <1>2, <1>3 DEF CorpusNext

LEMMA CorpusStarts == CorpusInit => CorpusInv
<1> SUFFICES ASSUME CorpusInit PROVE CorpusInv  OBVIOUS
<1>1. /\ world \in Worlds /\ bars = [s \in Universe |-> company[s].bars]
      /\ stored = [s \in Universe |-> [d \in 1..company[s].exposes |-> 0]]
      /\ metrics = [s \in Universe |-> {}] /\ job = [j \in Jobs |-> Idle]
      BY DEF CorpusInit
<1>2. RowsAre
  <2>1. \A s \in Universe : stored[s] = [d \in 1..company[s].exposes |-> 0] /\ metrics[s] = {}  BY <1>1
  <2>2. \A s \in Universe : stored[s] \in [1..company[s].exposes -> 0..3] /\ InOrderStored(s)
    <3> TAKE s \in Universe
    <3>1. DOMAIN stored[s] = 1..company[s].exposes /\ \A d \in DOMAIN stored[s] : stored[s][d] = 0
          BY <2>1
    <3>2. stored[s] \in [1..company[s].exposes -> 0..3]
      <4> DEFINE n == company[s].exposes
      <4>1. stored[s] = [d \in 1..n |-> 0] /\ 0 \in 0..3  BY <2>1
      <4> HIDE DEF n
      <4>2. [d \in 1..n |-> 0] \in [1..n -> 0..3]  BY <4>1
      <4> QED  BY <4>1, <4>2 DEF n
    <3>3. \A d \in DOMAIN stored[s] : ~(stored[s][d] > 0)  BY <3>1
    <3> QED  BY <3>2, <3>3 DEF InOrderStored
  <2> QED  BY <1>1, <2>1, <2>2 DEF RowsAre
<1>4. \A j \in Jobs : JobIs(j)
  <2> TAKE j \in Jobs
  <2>1. /\ DOMAIN job[j] = JobFields /\ job[j].step = 0 /\ job[j].pc = "off" /\ job[j].code = "none"
        BY <1>1 DEF Idle, JobFields
  <2> QED  BY <2>1 DEF JobIs, Ingesting, Deriving, In, At, Clean
<1> QED  BY <1>1, <1>2, <1>4 DEF CorpusInv

-----------------------------------------------------------------------------
LEMMA InvCovers == CorpusInv => CoverageIsTrue
<1> SUFFICES ASSUME CorpusInv PROVE CoverageIsTrue  OBVIOUS
<1> USE DEF CorpusInv
<1>1. \A s \in Universe : /\ company[s].exposes \in Nat /\ company[s].required \in 0..MaturePeriods
                          /\ company[s].newest \in Int
      BY CompanyIs DEF RowsAre
<1>2. \A s \in Universe : /\ DOMAIN stored[s] = 1..company[s].exposes
                          /\ stored[s] \in [1..company[s].exposes -> 0..3] /\ InOrderStored(s)
      BY DEF RowsAre
<1>3. \A s \in Universe : /\ Sourced(s) \subseteq 1..company[s].exposes
                          /\ IsFiniteSet(Sourced(s)) /\ Cardinality(Sourced(s)) \in Nat
  <2> TAKE s \in Universe
  <2>1. Sourced(s) \subseteq 1..company[s].exposes  BY <1>2 DEF Sourced
  <2>2. IsFiniteSet(1..company[s].exposes)  BY <1>1, FS_Interval
  <2> QED  BY <2>1, <2>2, FS_Subset, FS_CardinalityType
<1>4. SelectionLeavesOnlyStale
  <2> SUFFICES ASSUME NEW s \in Universe, ~IsFinancialTarget(s), ~FinancialCovered(s), NEW d \in Sourced(s)
               PROVE  Age(s, d) > 200
      BY DEF SelectionLeavesOnlyStale
  <2>1. Cardinality(Sourced(s)) >= MaturePeriods /\ FilingReady(s) /\ EarningsReady(s)
        BY <1>3, CorpusAssumption DEF IsFinancialTarget
  <2>2. Cardinality(Sourced(s)) >= company[s].required  BY <2>1, <1>1, <1>3, CorpusAssumption
  <2>3. ~(Age(s, d) <= 200)  BY <2>1, <2>2 DEF FinancialCovered, HistoryComplete
  <2>4. Age(s, d) \in Int  BY <1>1, <1>3 DEF Age
  <2> QED  BY <2>3, <2>4
<1>5. CrashTearsOnlyOldDocuments
  <2> SUFFICES ASSUME NEW s \in Universe, NEW d \in DOMAIN stored[s], ~IsFinancialTarget(s),
                      stored[s][d] \in {1, 2}
               PROVE  d >= MaturePeriods
      BY DEF CrashTearsOnlyOldDocuments
  <2>1. Cardinality(Sourced(s)) >= MaturePeriods
        BY <1>3, CorpusAssumption DEF IsFinancialTarget
  <2>2. Sourced(s) \subseteq 1..d
    <3>5. Sourced(s) \subseteq 1..company[s].exposes /\ d \in 1..company[s].exposes
          /\ company[s].exposes \in Nat
          BY <1>1, <1>2, <1>3
    <3> SUFFICES ASSUME NEW e \in Sourced(s), e > d PROVE FALSE
      <4> SUFFICES ASSUME NEW e \in Sourced(s) PROVE e \in 1..d  OBVIOUS
      <4>1. e \in 1..company[s].exposes /\ ~(e > d)  BY <3>5
      <4> QED  BY <3>5, <4>1
    <3>1. e \in DOMAIN stored[s] /\ stored[s][e] >= 2  BY DEF Sourced
    <3>2. stored[s][e] \in 0..3  BY <1>2, <3>1
    <3>3. stored[s][e] > 0  BY <3>1, <3>2
    <3>4. d < e  BY <1>2, <3>1
    <3> QED  BY <1>2, <3>1, <3>3, <3>4 DEF InOrderStored
  <2>3. d \in Nat /\ IsFiniteSet(1..d) /\ Cardinality(1..d) = d
    <3>1. d \in 1..company[s].exposes /\ company[s].exposes \in Nat  BY <1>1, <1>2
    <3>2. d \in Nat /\ d >= 1  BY <3>1
    <3>3. IsFiniteSet(1..d) /\ Cardinality(1..d) = IF 1 > d THEN 0 ELSE d - 1 + 1  BY <3>2, FS_Interval
    <3> QED  BY <3>2, <3>3
  <2>4. Cardinality(Sourced(s)) <= d  BY <2>2, <2>3, FS_Subset
  <2> QED  BY <1>3, <2>1, <2>3, <2>4, CorpusAssumption
<1>6. CleanExitMeansCorpus /\ CleanExitMeansFinancials
      BY DEF CleanExitMeansCorpus, CleanExitMeansFinancials, JobIs, Clean, Covered
<1>7. FactsAloneAreCounted
  <2> SUFFICES ASSUME NEW s \in Universe,
                      Cardinality({m[1] : m \in metrics[s]} \ {"pb", "pe"}) >= MinMetrics
               PROVE  MetricsCovered(s)
      BY DEF FactsAloneAreCounted
  <2> DEFINE facts == {m[1] : m \in metrics[s]} \ {"pb", "pe"}
  <2>1. metrics[s] \subseteq MetricNames \X BOOLEAN /\ \A row \in metrics[s] : WellApproved(row)
        BY DEF RowsAre
  <2>2. facts \subseteq Counted(s)  BY <2>1 DEF Counted, WellApproved
  <2>3. IsFiniteSet(Counted(s))
    <3>1. Counted(s) \subseteq MetricNames  BY <2>1 DEF Counted
    <3> QED  BY <3>1, NamesAreFinite, FS_Subset
  <2>4. Cardinality(facts) <= Cardinality(Counted(s)) /\ Cardinality(facts) \in Nat
        /\ Cardinality(Counted(s)) \in Nat
        BY <2>2, <2>3, FS_Subset, FS_CardinalityType
  <2> QED  BY <2>4, CorpusAssumption DEF MetricsCovered
<1> QED  BY <1>4, <1>5, <1>6, <1>7 DEF CoverageIsTrue

\* bootstrap_production_research_corpus.py and its workers: for any jobs and
\* companies, a clean exit means coverage, also afterwards; what the financial
\* worker leaves aside the postflight accepts or is stale; a crash tears no
\* document but those after the ones that count; facts alone are counted.
THEOREM CorpusIsCovered == CorpusSpec => []CoverageIsTrue
BY CorpusStarts, CorpusStep, InvCovers, PTL DEF CorpusSpec

-----------------------------------------------------------------------------
(* No bar of the window gets out of the reach of the daily refresh, for any  *)
(* securities, calendars, faults and kills, over any stretch of time.        *)

\* A bar of the window that came in time and that the database lacks is
\* within the overlap of the date.
Missing(s) == published[s] \ (held[s] \cup overdue[s])
Reaches(date, day, missing) ==
  /\ date \in Int /\ date <= day
  /\ \A d \in missing : d >= day - Window => date - Overlap <= d
InReach(s, date) == Reaches(date, Today, Missing(s))

\* The inductive invariant: the dates an importer has read, and the one it is
\* about to write, are as good as the checkpoint's own.
Importing(m) ==
  /\ \A s \in importer[m].todo : s \in Supported /\ InReach(s, importer[m].seen[s])
  /\ importer[m].to \in Int /\ importer[m].to <= Today
  /\ Is(m, "save") =>
       importer[m].target \in Supported /\ InReach(importer[m].target, importer[m].last)

ImporterFields == {"pc", "since", "todo", "newest", "seen", "to", "target", "last", "total", "failures"}
CheckpointFields == {"checked", "last", "retry"}

PricesInv ==
  /\ now \in 0..LastHour
  /\ DOMAIN held = Securities /\ DOMAIN published = Securities /\ DOMAIN overdue = Securities
  /\ DOMAIN checkpoint = Securities /\ DOMAIN importer = Machines
  /\ \A s \in Securities : DOMAIN checkpoint[s] = CheckpointFields
  /\ \A s \in Securities : \A d \in published[s] : d \in Sessions /\ d <= Today
  /\ \A s \in Supported : InReach(s, checkpoint[s].last)
  /\ \A m \in Machines : DOMAIN importer[m] = ImporterFields /\ (~Is(m, "off") => Importing(m))

-----------------------------------------------------------------------------
\* A bounded set of numbers that is not empty has a greatest one: the final
\* segments are finite, and finite sets are well-founded under inclusion.
LEMMA GreatestOf ==
  ASSUME NEW T, T \subseteq Nat, T # {}, NEW b \in Nat, \A y \in T : y <= b
  PROVE  Max(T) \in T /\ \A y \in T : y <= Max(T)
<1> DEFINE R == StrictSubsetOrdering(Nat)
           F == FiniteSubsetsOf(Nat)
           Down == {x..b : x \in T}
<1>1. IsWellFoundedOn(R, F)
  BY FS_StrictSubsetOrderingWellFounded
<1>2. Down \subseteq F /\ Down # {}
  <2>1. \A x \in T : IsFiniteSet(x..b) /\ x..b \subseteq Nat
    BY FS_Interval
  <2> QED
    BY <2>1 DEF FiniteSubsetsOf
<1>3. \E s \in Down : \A t \in Down : ~(<<t, s>> \in R)
  <2> HIDE DEF R, F, Down
  <2> QED
    BY <1>1, <1>2, WFMin
<1>4. PICK x \in T : \A y \in T : ~(<<y..b, x..b>> \in R)
  BY <1>3
<1>5. ASSUME NEW y \in T, y > x PROVE FALSE
  <2>1. y..b \subseteq x..b /\ x \in x..b /\ x \notin y..b
    BY <1>5
  <2>2. <<y..b, x..b>> \in (SUBSET Nat) \X (SUBSET Nat)
    OBVIOUS
  <2>3. <<y..b, x..b>> \in R
    BY <2>1, <2>2 DEF StrictSubsetOrdering
  <2> QED
    BY <1>4, <2>3
<1>6. \A y \in T : x >= y
  BY <1>5
<1>7. Max(T) \in T /\ \A y \in T : Max(T) >= y
  BY <1>6 DEF Max
<1> QED
  BY <1>7

LEMMA MaxOfTwo ==
  ASSUME NEW a \in Int, NEW b \in Int
  PROVE  Max({a, b}) \in {a, b} /\ Max({a, b}) >= a /\ Max({a, b}) >= b
<1>1. \E x \in {a, b} : \A y \in {a, b} : x >= y
  <2>1. CASE a >= b
    BY <2>1
  <2>2. CASE b >= a
    BY <2>2
  <2> QED
    BY <2>1, <2>2
<1> QED
  BY <1>1 DEF Max

\* What a window of n days covers on a later day, it has covered before.
LEMMA LaterFloor ==
  ASSUME NEW before \in Nat, NEW after \in Nat, before <= after, NEW n \in Nat, NEW d \in Nat, d >= after - n
  PROVE  d >= before - n
OBVIOUS

LEMMA Days ==
  /\ LastHour \in Nat /\ Overlap \in Nat /\ Window \in Nat
  /\ \A n \in Nat : n \div 4 \in Nat
  /\ \A n, k \in Nat : n <= k => n \div 4 <= k \div 4
  /\ Sessions \subseteq Nat
  /\ PricesInv => now \in Nat /\ Today \in Nat /\ Today <= LastHour \div 4
BY RefreshAssumption DEF Sessions, PricesInv, Today

\* What a step may do to the bars: those that come are recent, or overdue.
Recent ==
  /\ now' \in 0..LastHour /\ now' >= now /\ Supported' = Supported
  /\ \A s \in Supported : \A d \in Missing(s)' : d \in Missing(s) \/ (d \in Nat /\ d >= Today - Overlap)

LEMMA ReachStays ==
  ASSUME PricesInv, Recent
  PROVE  /\ Today' \in Nat /\ Today <= Today'
         /\ \A s \in Supported : \A date : InReach(s, date) => Reaches(date, Today', Missing(s)')
<1>1. Today \in Nat /\ Today' \in Nat /\ Today <= Today'
  <2>1. now' \in Nat /\ now \in Nat /\ now <= now'
    BY Days DEF Recent
  <2> QED
    BY <2>1, Days DEF Today
<1>2. ASSUME NEW s \in Supported, NEW date, InReach(s, date)
      PROVE  Reaches(date, Today', Missing(s)')
  <2>1. date \in Int /\ date <= Today'
    BY <1>1, <1>2 DEF InReach, Reaches
  <2>2. ASSUME NEW d \in Missing(s)', d >= Today' - Window PROVE date - Overlap <= d
    <3>1. CASE d \in Missing(s)
      <4>1. d \in Nat
        BY <3>1, Days DEF Missing, PricesInv, Supported
      <4>2. d >= Today - Window
        BY <1>1, <2>2, <4>1, Days, LaterFloor
      <4> QED
        BY <1>2, <3>1, <4>2 DEF InReach, Reaches
    <3>2. CASE d \in Nat /\ d >= Today - Overlap
      BY <3>2, <1>1, <1>2, Days DEF InReach, Reaches
    <3> QED
      BY <3>1, <3>2, <2>2 DEF Recent
  <2> QED
    BY <2>1, <2>2 DEF Reaches
<1> QED
  BY <1>1, <1>2

\* An importer goes on as it was, ends, or has read dates in reach.
LEMMA Kept ==
  ASSUME PricesInv, Recent, DOMAIN held' = Securities, DOMAIN published' = Securities,
         DOMAIN overdue' = Securities,
         \A s \in Securities : \A d \in published'[s] : d \in Sessions /\ d <= Today',
         DOMAIN checkpoint' = Securities,
         \A s \in Securities :
           DOMAIN checkpoint'[s] = CheckpointFields
           /\ (s \in Supported => InReach(s, checkpoint'[s].last)),
         DOMAIN importer' = Machines,
         \A m \in Machines :
           DOMAIN importer'[m] = ImporterFields
           /\ (importer'[m].pc # "off" => importer'[m] = importer[m] \/ Importing(m)')
  PROVE  PricesInv'
<1>1. Today' \in Nat /\ Today <= Today' /\ Today \in Nat
      /\ \A s \in Supported : \A date : InReach(s, date) => Reaches(date, Today', Missing(s)')
  BY ReachStays, Days
<1>2. Supported' = Supported /\ now' \in 0..LastHour
  BY DEF Recent
<1>3. \A s \in Supported' : Reaches(checkpoint'[s].last, Today', Missing(s)')
  BY <1>1, <1>2 DEF Supported
<1>4. ASSUME NEW m \in Machines, importer'[m].pc # "off", importer'[m] = importer[m]
      PROVE  Importing(m)'
  <2>1. Importing(m)
    BY <1>4 DEF PricesInv, Is
  <2>2. \A s \in importer'[m].todo : s \in Supported' /\ Reaches(importer'[m].seen[s], Today', Missing(s)')
    BY <1>4, <2>1, <1>1, <1>2 DEF Importing
  <2>3. importer'[m].to \in Int /\ importer'[m].to <= Today'
    BY <1>4, <2>1, <1>1 DEF Importing
  <2>4. importer'[m].pc = "save" =>
          importer'[m].target \in Supported'
          /\ LET s == importer'[m].target
             IN  Reaches(importer'[m].last, Today', published'[s] \ (held'[s] \cup overdue'[s]))
    <3> DEFINE s == importer[m].target
    <3>1. ASSUME importer[m].pc = "save"
          PROVE  s \in Supported
                 /\ Reaches(importer[m].last, Today', published'[s] \ (held'[s] \cup overdue'[s]))
      BY <2>1, <3>1, <1>1 DEF Importing, Is, Missing
    <3> QED
      BY <1>4, <3>1, <1>2
  <2> QED
    BY <2>2, <2>3, <2>4 DEF Importing, Is, InReach, Missing
<1>5. \A m \in Machines : DOMAIN importer'[m] = ImporterFields /\ (~Is(m, "off")' => Importing(m)')
  BY <1>4 DEF Is
<1> QED
  BY <1>2, <1>3, <1>5 DEF PricesInv, InReach

\* A step that leaves the bars and the clock alone.
LEMMA BarsStay ==
  ASSUME PricesInv, UNCHANGED <<now, published, overdue, held>>
  PROVE  /\ Recent /\ DOMAIN held' = Securities /\ DOMAIN published' = Securities
         /\ DOMAIN overdue' = Securities
         /\ \A s \in Securities : \A d \in published'[s] : d \in Sessions /\ d <= Today'
         /\ Supported' = Supported /\ Today' = Today
         /\ \A s : \A date : Reaches(date, Today', Missing(s)') <=> InReach(s, date)
BY Days DEF PricesInv, Recent, Supported, Missing, Today, InReach

LEMMA SameMarks ==
  ASSUME PricesInv, checkpoint' = checkpoint
  PROVE  DOMAIN checkpoint' = Securities
         /\ \A s \in Securities : DOMAIN checkpoint'[s] = CheckpointFields
                                  /\ (s \in Supported => InReach(s, checkpoint'[s].last))
BY DEF PricesInv

\* An import begins from the checkpoints as they are.
LEMMA ImportBegins ==
  ASSUME PricesInv, NEW m \in Machines, Import(m), UNCHANGED <<now, published, overdue, held>>
  PROVE  /\ DOMAIN importer' = Machines
         /\ \A k \in Machines : k # m => importer'[k] = importer[k]
         /\ DOMAIN importer'[m] = ImporterFields /\ Importing(m)'
<1> DEFINE due == Due(EndDay)
           r == [NoImport EXCEPT !.pc = "target", !.since = now, !.todo = due, !.to = EndDay,
                                  !.total = Cardinality(due),
                                  !.newest = [s \in due |-> Max(held[s])],
                                  !.seen = [s \in due |-> checkpoint[s].last]]
<1>1. importer' = [importer EXCEPT ![m] = r]
  BY DEF Import
<1>2. DOMAIN r = ImporterFields
  BY DEF NoImport, ImporterFields
<1>3. r.pc = "target" /\ r.todo = due /\ r.to = EndDay
  BY DEF NoImport
<1>4. \A s \in due : r.seen[s] = checkpoint[s].last
  BY DEF NoImport
<1> HIDE DEF r
<1>5. importer'[m] = r /\ DOMAIN importer' = Machines
      /\ \A k \in Machines : k # m => importer'[k] = importer[k]
  BY <1>1 DEF PricesInv
<1>6. EndDay \in Int /\ EndDay <= Today
  BY Days DEF EndDay
<1>7. \A s \in due : s \in Supported /\ InReach(s, r.seen[s])
  BY <1>4 DEF PricesInv, Due
<1> HIDE DEF due
<1> QED
  BY <1>2, <1>3, <1>5, <1>6, <1>7, BarsStay DEF Importing, Is, InReach

-----------------------------------------------------------------------------
\* The actions that leave bars, clock and checkpoints alone.
LEMMA SchedulesKeep ==
  ASSUME PricesInv, StartCloud \/ StartNode \/ Refresh \/ FinishAttempt \/ StopNode
  PROVE  PricesInv'
<1>1. UNCHANGED <<now, published, overdue, held, checkpoint>>
  BY DEF StartCloud, StartNode, Refresh, FinishAttempt, StopNode
<1>2. ASSUME NEW m \in Machines, Import(m) PROVE PricesInv'
  <2>1. \A k \in Machines :
          DOMAIN importer'[k] = ImporterFields
          /\ (importer'[k].pc # "off" => importer'[k] = importer[k] \/ Importing(k)')
    BY <1>1, <1>2, ImportBegins DEF PricesInv
  <2>2. DOMAIN importer' = Machines
    BY <1>1, <1>2, ImportBegins
  <2> QED
    BY <1>1, <2>1, <2>2, BarsStay, SameMarks, Kept
<1>3. CASE importer' = importer
  BY <1>1, <1>3, BarsStay, SameMarks, Kept DEF PricesInv
<1>4. CASE importer' = [importer EXCEPT !["node"] = NoImport]
  <2>1. \A k \in Machines :
          DOMAIN importer'[k] = ImporterFields
          /\ (importer'[k].pc # "off" => importer'[k] = importer[k])
    BY <1>4 DEF PricesInv, NoImport, ImporterFields
  <2>2. DOMAIN importer' = Machines
    BY <1>4 DEF PricesInv
  <2> QED
    BY <1>1, <2>1, <2>2, BarsStay, SameMarks, Kept
<1> QED
  BY <1>2, <1>3, <1>4 DEF StartCloud, StartNode, Refresh, FinishAttempt, StopNode, NewAttempt, Machines

LEMMA EndsKeep ==
  ASSUME PricesInv, NEW m \in Machines, Exit(m) \/ KillImport(m)
  PROVE  PricesInv'
<1>1. UNCHANGED <<now, published, overdue, held, checkpoint>>
  BY DEF Exit, KillImport
<1>2. importer' = [importer EXCEPT ![m] = Ended(m)]
  BY DEF Exit, KillImport
<1>3. Ended(m).pc = "off" /\ DOMAIN Ended(m) = ImporterFields
  BY DEF Ended, NoImport, ImporterFields
<1>4. DOMAIN importer' = Machines /\ importer'[m] = Ended(m)
      /\ \A k \in Machines : k # m => importer'[k] = importer[k]
  BY <1>2 DEF PricesInv
<1>5. \A k \in Machines :
        DOMAIN importer'[k] = ImporterFields
        /\ (importer'[k].pc # "off" => importer'[k] = importer[k])
  BY <1>3, <1>4 DEF PricesInv
<1> QED
  BY <1>1, <1>4, <1>5, BarsStay, SameMarks, Kept

\* The checkpoint that is written is the last bar of what was stored before.
LEMMA SaveKeeps ==
  ASSUME PricesInv, NEW m \in Machines, SaveCheckpoint(m)
  PROVE  PricesInv'
<1> DEFINE t == importer[m].target
           c == [checked |-> importer[m].to, last |-> importer[m].last, retry |-> Never]
           r == Onward(m, t)
<1>1. UNCHANGED <<now, published, overdue, held>>
      /\ checkpoint' = [checkpoint EXCEPT ![t] = c] /\ importer' = [importer EXCEPT ![m] = r]
  BY DEF SaveCheckpoint
<1>2. Importing(m) /\ t \in Supported /\ InReach(t, importer[m].last)
  BY DEF SaveCheckpoint, PricesInv, Importing, Is
<1>3. DOMAIN c = CheckpointFields /\ c.last = importer[m].last
  BY DEF CheckpointFields
<1>4. DOMAIN r = ImporterFields /\ r.pc = "target" /\ r.todo \subseteq importer[m].todo
      /\ r.seen = importer[m].seen /\ r.to = importer[m].to
  BY DEF Onward, PricesInv, ImporterFields
<1> HIDE DEF c, r
<1>5. importer'[m] = r /\ DOMAIN importer' = Machines
      /\ \A k \in Machines : k # m => importer'[k] = importer[k]
  BY <1>1 DEF PricesInv
<1>6. DOMAIN checkpoint' = Securities
      /\ \A s \in Securities : DOMAIN checkpoint'[s] = CheckpointFields
                               /\ (s \in Supported => InReach(s, checkpoint'[s].last))
  BY <1>1, <1>2, <1>3 DEF PricesInv
<1>7. Importing(m)'
  BY <1>1, <1>2, <1>4, <1>5, BarsStay DEF Importing, Is, InReach
<1>8. \A k \in Machines :
        DOMAIN importer'[k] = ImporterFields
        /\ (importer'[k].pc # "off" => importer'[k] = importer[k] \/ Importing(k)')
  BY <1>4, <1>5, <1>7 DEF PricesInv
<1> QED
  BY <1>1, <1>5, <1>6, <1>8, BarsStay, Kept

\* A download asks for everything of the window since the overlap before the
\* date it read.
LEMMA DownloadReaches ==
  ASSUME PricesInv, NEW s \in Supported,
         NEW seen, InReach(s, seen), NEW to \in Int, to <= Today,
         NEW got, got = published[s] \cap StartDay(s, seen, to)..to, got # {}
  PROVE  /\ Max(got) \in Int /\ Max(got) <= to
         /\ \A d \in Missing(s) \ got : d >= Today - Window => Max(got) <= d
<1>1. s \in Securities /\ seen \in Int /\ published[s] \subseteq Nat
      /\ \A d \in Missing(s) : d \in Nat /\ (d >= Today - Window => seen - Overlap <= d)
  BY Days DEF Supported, InReach, Reaches, PricesInv, Missing
<1>2. StartDay(s, seen, to) \in {to - Window, seen - Overlap}
  <2>1. to - Window \in Int /\ seen - Overlap \in Int
    BY <1>1, Days
  <2> QED
    BY <2>1, MaxOfTwo DEF StartDay
<1>3. got \subseteq Nat /\ \A d \in got : d <= to
  BY <1>1
<1>4. Max(got) \in got
  <2>1. PICK d \in got : TRUE
    OBVIOUS
  <2>2. to \in Nat
    BY <1>3, <2>1
  <2> QED
    BY <1>3, <2>2, GreatestOf
<1>5. ASSUME NEW d \in Missing(s) \ got, d >= Today - Window PROVE Max(got) <= d
  <2>1. d \in Nat /\ seen - Overlap <= d /\ d \in published[s]
    BY <1>1, <1>5 DEF Missing
  <2>2. Max(got) \in Nat /\ Max(got) <= to
    BY <1>3, <1>4
  <2>3. to - Window <= d
    BY <1>5, <2>1, Days
  <2>4. StartDay(s, seen, to) \in Int /\ StartDay(s, seen, to) <= d
    BY <1>1, <1>2, <2>1, <2>3, Days
  <2>5. d > to
    BY <2>1, <2>4
  <2> QED
    BY <2>1, <2>2, <2>5
<1> QED
  BY <1>3, <1>4, <1>5

LEMMA DownloadKeeps ==
  ASSUME PricesInv, NEW m \in Machines, Download(m)
  PROVE  PricesInv'
<1> DEFINE to == importer[m].to
<1>1. PICK s \in Securities : IsNext(m, s) /\ (Stored(m, s) \/ HeldBack(m, s))
  BY DEF Download
<1> DEFINE got == Provided(m, s)
<1>2. Importing(m) /\ s \in Supported /\ InReach(s, importer[m].seen[s])
  BY <1>1 DEF Download, PricesInv, Importing, Is, IsNext
<1>3. to \in Int /\ to <= Today /\ UNCHANGED <<now, published, overdue>>
  BY <1>2 DEF Importing, Download
<1>4. CASE Stored(m, s)
  <2> DEFINE last == Max(got)
             r == [importer[m] EXCEPT !.pc = "save", !.target = s, !.last = last]
  <2>1. /\ last \in Int /\ last <= to
        /\ \A d \in Missing(s) \ got : d >= Today - Window => last <= d
    BY <1>2, <1>3, <1>4, DownloadReaches DEF Stored, Provided
  <2> HIDE DEF last
  <2>2. importer' = [importer EXCEPT ![m] = r]
    BY <1>4 DEF last, PricesInv, Stored
  <2>3. DOMAIN r = ImporterFields /\ r.pc = "save" /\ r.target = s /\ r.last = last
        /\ r.todo = importer[m].todo /\ r.seen = importer[m].seen /\ r.to = to
    BY DEF PricesInv, ImporterFields
  <2> HIDE DEF r
  <2>4. importer'[m] = r /\ DOMAIN importer' = Machines
        /\ \A k \in Machines : k # m => importer'[k] = importer[k]
    BY <2>2 DEF PricesInv
  <2>5. DOMAIN held' = Securities /\ held'[s] = held[s] \cup got
        /\ \A t \in Securities : t # s => held'[t] = held[t]
    BY <1>4 DEF PricesInv, Stored
  <2>6. Supported' = Supported
    BY <2>5, <1>2 DEF Supported
  <2>7. \A t \in Supported : Missing(t)' \subseteq Missing(t)
    BY <2>5, <1>3 DEF Missing, Supported
  <2>8. Missing(s)' \subseteq Missing(s) \ got
    BY <2>5, <1>3 DEF Missing
  <2>9. Today' = Today /\ now' \in 0..LastHour /\ now' >= now
    BY <1>3, Days DEF Today, PricesInv
  <2>10. Recent
    BY <2>6, <2>7, <2>9 DEF Recent
  <2>11. \A t \in Supported : \A date : InReach(t, date) => Reaches(date, Today', Missing(t)')
    BY <2>10, ReachStays
  <2>12. Reaches(last, Today', Missing(s)')
    <3>1. \A d \in Missing(s)' : d \in Nat
      BY <2>7, <1>2, Days DEF Missing, PricesInv, Supported
    <3>2. ASSUME NEW d \in Missing(s)', d >= Today' - Window PROVE last - Overlap <= d
      <4>1. last <= d /\ d \in Nat /\ last \in Int
        BY <2>1, <2>8, <2>9, <3>1, <3>2
      <4> QED
        BY <4>1, Days
    <3>3. last <= Today'
      BY <2>1, <1>3, <2>9, Days DEF PricesInv
    <3> QED
      BY <2>1, <3>2, <3>3 DEF Reaches
  <2>13. Importing(m)'
    <3>1. \A t \in importer'[m].todo :
            /\ t \in Supported'
            /\ Reaches(importer'[m].seen[t], Today', published'[t] \ (held'[t] \cup overdue'[t]))
      BY <1>2, <2>3, <2>4, <2>6, <2>11 DEF Importing, Missing
    <3>2. importer'[m].target \in Supported'
          /\ LET t == importer'[m].target
             IN  Reaches(importer'[m].last, Today', published'[t] \ (held'[t] \cup overdue'[t]))
      BY <1>2, <2>3, <2>4, <2>6, <2>12 DEF Missing
    <3> QED
      BY <3>1, <3>2, <1>3, <2>3, <2>4, <2>9 DEF Importing, Is, InReach, Missing
  <2>14. \A t \in Securities : \A d \in published'[t] : d \in Sessions /\ d <= Today'
    BY <1>3, <2>9 DEF PricesInv
  <2>15. DOMAIN published' = Securities /\ DOMAIN overdue' = Securities
    BY <1>3 DEF PricesInv
  <2>16. \A k \in Machines :
           DOMAIN importer'[k] = ImporterFields
           /\ (importer'[k].pc # "off" => importer'[k] = importer[k] \/ Importing(k)')
    BY <2>3, <2>4, <2>13 DEF PricesInv
  <2> QED
    BY <1>4, <2>4, <2>5, <2>10, <2>14, <2>15, <2>16, SameMarks, Kept DEF Stored
<1>5. CASE HeldBack(m, s)
  <2> DEFINE r == [Onward(m, s) EXCEPT !.failures = @ + 1]
             c == [checkpoint[s] EXCEPT !.retry = now + ADay]
  <2>1. checkpoint' = [checkpoint EXCEPT ![s] = c] /\ importer' = [importer EXCEPT ![m] = r]
    BY <1>5 DEF PricesInv, HeldBack
  <2>2. DOMAIN c = CheckpointFields /\ c.last = checkpoint[s].last
    BY DEF PricesInv, CheckpointFields
  <2>3. DOMAIN r = ImporterFields /\ r.pc = "target" /\ r.todo \subseteq importer[m].todo
        /\ r.seen = importer[m].seen /\ r.to = to
    BY DEF Onward, PricesInv, ImporterFields
  <2> HIDE DEF c, r
  <2>4. importer'[m] = r /\ DOMAIN importer' = Machines
        /\ \A k \in Machines : k # m => importer'[k] = importer[k]
    BY <2>1 DEF PricesInv
  <2>5. DOMAIN checkpoint' = Securities
        /\ \A t \in Securities : DOMAIN checkpoint'[t] = CheckpointFields
                                 /\ (t \in Supported => InReach(t, checkpoint'[t].last))
    BY <2>1, <2>2 DEF PricesInv
  <2>6. UNCHANGED <<now, published, overdue, held>>
    BY <1>3, <1>5 DEF HeldBack
  <2>7. Importing(m)'
    BY <1>2, <2>3, <2>4, <2>6, BarsStay DEF Importing, Is, InReach
  <2>8. \A k \in Machines :
          DOMAIN importer'[k] = ImporterFields
          /\ (importer'[k].pc # "off" => importer'[k] = importer[k] \/ Importing(k)')
    BY <2>3, <2>4, <2>7 DEF PricesInv
  <2> QED
    BY <2>4, <2>5, <2>6, <2>8, BarsStay, Kept
<1> QED
  BY <1>1, <1>4, <1>5

\* Bars that come, at the close or late, are no older than the overlap, or
\* are on record as overdue.
LEMMA BarsKeep ==
  ASSUME PricesInv, Tick \/ \E s \in Supported : PublishLate(s)
  PROVE  PricesInv'
<1>1. UNCHANGED <<held, checkpoint, importer>> /\ Supported' = Supported
  BY DEF Tick, PublishLate, Supported
<1>2. now \in Nat /\ Today \in Nat /\ LastHour \in Nat /\ Overlap \in Nat
  BY Days
<1>3. /\ now' \in 0..LastHour /\ now' >= now
      /\ DOMAIN published' = Securities /\ DOMAIN overdue' = Securities
      /\ \A s \in Securities : overdue[s] \subseteq overdue'[s]
      /\ \A s \in Securities : \A d \in published'[s] :
           \/ d \in published[s]
           \/ d \in Sessions /\ d <= Today /\ (d >= Today - Overlap \/ d \in overdue'[s])
  <2>1. CASE Tick
    <3>1. now' = now + 1 /\ now < LastHour /\ overdue' = overdue
      BY <2>1 DEF Tick
    <3>2. DOMAIN published' = Securities
          /\ \A s \in Securities : published'[s] \subseteq published[s] \cup (Sessions \cap {Today})
      BY <2>1 DEF Tick, Close, PricesInv
    <3> QED
      BY <1>2, <3>1, <3>2 DEF PricesInv
  <2>2. CASE \E s \in Supported : PublishLate(s)
    <3> PICK s \in Supported : PublishLate(s)
      BY <2>2
    <3>1. PICK d \in Sessions \ published[s] :
            /\ d < Today \/ (d = Today /\ Moment > 0)
            /\ published' = [published EXCEPT ![s] = @ \cup {d}]
            /\ overdue' = [overdue EXCEPT ![s] = IF d < Today - Overlap THEN @ \cup {d} ELSE @]
      BY DEF PublishLate
    <3>2. now' = now /\ now \in 0..LastHour /\ s \in Securities
      BY DEF PublishLate, PricesInv, Supported
    <3>3. d \in Nat /\ d <= Today
      BY <1>2, <3>1, Days
    <3>4. DOMAIN published' = Securities /\ published'[s] = published[s] \cup {d}
          /\ \A t \in Securities : t # s => published'[t] = published[t]
      BY <3>1, <3>2 DEF PricesInv
    <3>5. /\ DOMAIN overdue' = Securities
          /\ \A t \in Securities : overdue[t] \subseteq overdue'[t]
          /\ (d < Today - Overlap => d \in overdue'[s])
      BY <3>1, <3>2 DEF PricesInv
    <3>6. d \in Sessions /\ (d >= Today - Overlap \/ d \in overdue'[s])
      <4>1. d < Today - Overlap => d \in overdue'[s]
        BY <3>5
      <4> QED
        BY <1>2, <3>1, <3>3, <4>1
    <3> QED
      BY <1>2, <3>2, <3>3, <3>4, <3>5, <3>6
  <2> QED
    BY <2>1, <2>2
<1>4. Today' \in Nat /\ Today <= Today'
  <2>1. now' \in Nat /\ now <= now'
    BY <1>2, <1>3
  <2> QED
    BY <1>2, <2>1, Days DEF Today
<1>5. \A s \in Securities : \A d \in published'[s] : d \in Sessions /\ d <= Today'
  <2>1. ASSUME NEW s \in Securities, NEW d \in published'[s]
        PROVE  d \in Sessions /\ d \in Nat /\ d <= Today
    BY <1>3, Days DEF PricesInv
  <2> QED
    BY <1>2, <1>4, <2>1
<1>6. Recent
  BY <1>1, <1>2, <1>3, Days DEF Recent, Missing, Supported
<1>7. \A m \in Machines :
        DOMAIN importer'[m] = ImporterFields
        /\ (importer'[m].pc # "off" => importer'[m] = importer[m])
  BY <1>1 DEF PricesInv
<1> QED
  BY <1>1, <1>3, <1>5, <1>6, <1>7, SameMarks, Kept DEF PricesInv

\* At the start the last bar is that of the day before, and only the day's
\* own can be missing.
LEMMA StartsInReach == RefreshInit => PricesInv
<1> SUFFICES ASSUME RefreshInit PROVE PricesInv
  OBVIOUS
<1>1. PICK start \in NodeStarts : LET day == start.hour \div 4 IN
        /\ now = start.hour
        /\ published \in {[s \in Securities |-> Past(IF s \in late THEN day - 1 ELSE day)] :
                             late \in SUBSET start.supported}
        /\ held = [s \in Securities |-> IF s \in start.supported THEN Past(day - 1) ELSE {}]
        /\ checkpoint = [s \in Securities |->
                            [checked |-> day - 1, last |-> Max(Past(day - 1)), retry |-> Never]]
  BY DEF RefreshInit
<1> DEFINE day == start.hour \div 4
<1>2. now \in 0..LastHour /\ now \in Nat /\ day \in Nat /\ Today = day
  BY <1>1, RefreshAssumption, Days DEF Today
<1>3. importer = [m \in Machines |-> NoImport] /\ DOMAIN overdue = Securities
  BY DEF RefreshInit, Parked
<1>4. \A m \in Machines : DOMAIN importer[m] = ImporterFields /\ Is(m, "off")
  BY <1>3 DEF NoImport, ImporterFields, Is
<1>5. PICK late \in SUBSET start.supported :
        published = [s \in Securities |-> Past(IF s \in late THEN day - 1 ELSE day)]
  BY <1>1
<1>6. \A s \in Securities : published[s] = Past(day - 1) \/ published[s] = Past(day)
  BY <1>5
<1>7. \A d \in Past(day - 1) : d \in Sessions /\ d \in Nat /\ d <= day - 1 /\ d <= day
  BY <1>2 DEF Past
<1>8. \A d \in Past(day) : d \in Sessions /\ d \in Nat /\ d <= day
  BY <1>2 DEF Past
<1>9. \A d \in Past(day) \ Past(day - 1) : d = day
  BY <1>2 DEF Past
<1>10. \A s \in Securities : \A d \in published[s] : d \in Sessions /\ d <= Today
  BY <1>2, <1>6, <1>7, <1>8
<1>11. ASSUME NEW s \in Supported PROVE InReach(s, checkpoint[s].last)
  <2>1. s \in Securities /\ held[s] = Past(day - 1) /\ Past(day - 1) # {}
    BY <1>1 DEF Supported
  <2>2. checkpoint[s].last = Max(Past(day - 1))
    BY <1>1, <2>1
  <2>3. Max(Past(day - 1)) \in Past(day - 1)
    <3>1. Past(day - 1) \subseteq Nat /\ \A d \in Past(day - 1) : d <= day
      BY <1>7
    <3> QED
      BY <1>2, <2>1, <3>1, GreatestOf
  <2>4. checkpoint[s].last \in Nat /\ checkpoint[s].last <= day - 1
    BY <1>7, <2>2, <2>3
  <2>5. \A d \in Missing(s) : d = day
    BY <1>6, <1>9, <2>1 DEF Missing
  <2>6. checkpoint[s].last - Overlap <= day /\ checkpoint[s].last <= day
    BY <2>4, <1>2, Days
  <2> QED
    BY <1>2, <2>4, <2>5, <2>6 DEF InReach, Reaches
<1>12. \A s \in Securities : DOMAIN checkpoint[s] = CheckpointFields
  BY <1>1 DEF CheckpointFields
<1> QED
  BY <1>1, <1>2, <1>3, <1>4, <1>5, <1>10, <1>11, <1>12 DEF PricesInv

\* NothingIsOutOfReach of the daily refresh: whatever the importers of the two
\* machines do to each other and whenever they are killed, a bar of the window
\* that came within the overlap and that the database lacks is asked for by
\* the next refresh.  Of the bars that come later it says nothing.
THEOREM NoBarIsOutOfReach == RefreshSpec => []NothingIsOutOfReach
<1>1. PricesInv /\ [RefreshNext]_refreshVars => PricesInv'
  <2> SUFFICES ASSUME PricesInv, [RefreshNext]_refreshVars PROVE PricesInv'
    OBVIOUS
  <2>1. CASE RefreshNext
    BY <2>1, DownloadKeeps, SaveKeeps, EndsKeep, SchedulesKeep, BarsKeep DEF RefreshNext
  <2>2. CASE UNCHANGED refreshVars
    <3>1. UNCHANGED <<now, published, overdue, held, checkpoint, importer>>
      BY <2>2 DEF refreshVars
    <3>2. \A m \in Machines :
            DOMAIN importer'[m] = ImporterFields
            /\ (importer'[m].pc # "off" => importer'[m] = importer[m])
      BY <3>1 DEF PricesInv
    <3> QED
      BY <3>1, <3>2, BarsStay, SameMarks, Kept DEF PricesInv
  <2> QED
    BY <2>1, <2>2
<1>2. PricesInv => NothingIsOutOfReach
  BY DEF PricesInv, NothingIsOutOfReach, InReach, Reaches, Missing
<1> QED
  BY <1>1, <1>2, StartsInReach, PTL DEF RefreshSpec

-----------------------------------------------------------------------------
(* A session goes on file as refreshed only when every security was asked    *)
(* for or is held back, for any securities, calendars, faults and kills.     *)

StateFields == {"success", "session", "attempts", "at"}

\* Asked for its bars up to the session of the attempt, or held back since.
Served(s) == checkpoint[s].checked >= state.session \/ checkpoint[s].retry >= state.at

AttemptsAre ==
  /\ now \in 0..LastHour
  /\ DOMAIN held = Securities /\ DOMAIN checkpoint = Securities
  /\ DOMAIN importer = Machines /\ DOMAIN state = StateFields
  /\ \A s \in Securities :
       /\ DOMAIN checkpoint[s] = CheckpointFields
       /\ checkpoint[s].checked \in Int /\ checkpoint[s].retry \in Int
  /\ \A m \in Machines :
       /\ DOMAIN importer[m] = ImporterFields
       /\ ~Is(m, "off") => importer[m].todo \subseteq Supported /\ importer[m].to \in Int
  /\ state.session \in Int /\ state.session <= Today
  /\ state.at \in Int /\ state.at <= now

\* The scheduled import is over before the day is: the time limit sees to it.
CloudIsPrompt ==
  ~Is("cloud", "off") =>
    LET c == importer["cloud"]
    IN  /\ c.since \in Nat /\ c.since % 4 = 1 /\ c.since <= now /\ now <= c.since + 1
        /\ c.to = c.since \div 4

\* What the node's import has left behind is served.
NodeIsThorough ==
  /\ ~Is("node", "off") <=> node = "refreshing"
  /\ node = "refreshing" =>
       /\ state.session <= importer["node"].to
       /\ \A s \in Supported : s \in importer["node"].todo \/ Served(s)
  /\ node = "refreshed" => \A s \in Supported : Served(s)

AttemptInv == AttemptsAre /\ CloudIsPrompt /\ NodeIsThorough

LEMMA Hours ==
  ASSUME AttemptsAre
  PROVE  now \in Nat /\ Today \in Nat /\ Sessions \subseteq Nat /\ LastHour \in Nat
BY RefreshAssumption DEF AttemptsAre, Today, Sessions

LEMMA LatestIsBefore ==
  ASSUME AttemptsAre
  PROVE  LatestDue \in Int /\ LatestDue <= EndDay /\ LatestDue <= Today /\ EndDay \in Int
<1> DEFINE D == {d \in Sessions \cup {Never} : d < Today \/ (d = Today /\ Moment >= 2)}
<1>1. Never \in Int /\ Never < 0
  BY DEF Never
<1>2. D \subseteq Nat \cup {Never} /\ Never \in D /\ \A d \in D : d <= Today /\ d \in Int
  BY Hours, <1>1
<1>3. \E x \in D : \A y \in D : x >= y
  <2>1. CASE D \cap Nat = {}
    BY <1>1, <1>2, <2>1
  <2>2. CASE D \cap Nat # {}
    <3>1. PICK x \in D \cap Nat : \A y \in D \cap Nat : y <= x
      BY <1>2, <2>2, Hours, GreatestOf
    <3> QED
      BY <1>1, <1>2, <3>1
  <2> QED
    BY <2>1, <2>2
<1>4. Max(D) \in D
  BY <1>3 DEF Max
<1>5. LatestDue \in D
  BY <1>4 DEF LatestDue
<1>6. Moment >= 2 => Moment >= 1
  BY Hours DEF Moment
<1>7. EndDay \in Int
  BY Hours DEF EndDay
<1>8. LatestDue <= EndDay
  <2>1. CASE LatestDue < Today
    BY <1>2, <1>5, <2>1, Hours DEF EndDay
  <2>2. CASE LatestDue = Today /\ Moment >= 2
    <3>1. Today \in Sessions
      BY <1>1, <1>5, <2>2, Hours
    <3> QED
      BY <1>6, <2>2, <3>1, Hours DEF EndDay
  <2> QED
    BY <1>5, <2>1, <2>2
<1> QED
  BY <1>2, <1>5, <1>7, <1>8

\* An import leaves out only whom the session no longer needs.
LEMMA ImportIsThorough ==
  ASSUME AttemptsAre, NEW m \in Machines, Import(m)
  PROVE  /\ DOMAIN importer' = Machines
         /\ \A k \in Machines : k # m => importer'[k] = importer[k]
         /\ DOMAIN importer'[m] = ImporterFields /\ importer'[m].pc = "target"
         /\ importer'[m].since = now /\ importer'[m].to = EndDay
         /\ importer'[m].todo \subseteq Supported
         /\ \A s \in Supported :
              s \in importer'[m].todo \/ checkpoint[s].checked >= EndDay \/ checkpoint[s].retry >= now
<1> DEFINE due == Due(EndDay)
           r == [NoImport EXCEPT !.pc = "target", !.since = now, !.todo = due, !.to = EndDay,
                                  !.total = Cardinality(due),
                                  !.newest = [s \in due |-> Max(held[s])],
                                  !.seen = [s \in due |-> checkpoint[s].last]]
<1>1. importer' = [importer EXCEPT ![m] = r]
  BY DEF Import
<1>2. DOMAIN r = ImporterFields
  BY DEF NoImport, ImporterFields
<1>3. r.pc = "target" /\ r.since = now /\ r.todo = due /\ r.to = EndDay
  BY DEF NoImport
<1> HIDE DEF r
<1>4. importer'[m] = r /\ DOMAIN importer' = Machines
      /\ \A k \in Machines : k # m => importer'[k] = importer[k]
  BY <1>1 DEF AttemptsAre
<1>5. due \subseteq Supported
      /\ \A s \in Supported : s \in due \/ checkpoint[s].checked >= EndDay \/ checkpoint[s].retry >= now
  BY Hours, LatestIsBefore DEF Due, AttemptsAre, Supported
<1> HIDE DEF due
<1> QED
  BY <1>2, <1>3, <1>4, <1>5

LEMMA StartCloudServes ==
  ASSUME AttemptInv, StartCloud
  PROVE  AttemptInv'
<1>1. /\ Today \in Sessions /\ Moment = 1 /\ Is("cloud", "off") /\ Import("cloud")
      /\ UNCHANGED <<now, published, held, checkpoint, node, state, slips>>
  BY DEF StartCloud
<1>2. AttemptsAre /\ "cloud" \in Machines /\ "node" \in Machines
  BY DEF AttemptInv, Machines
<1> DEFINE c == importer'["cloud"]
<1>3. /\ DOMAIN importer' = Machines /\ importer'["node"] = importer["node"]
      /\ DOMAIN c = ImporterFields /\ c.pc = "target" /\ c.since = now /\ c.to = EndDay
      /\ c.todo \subseteq Supported
  BY <1>1, <1>2, ImportIsThorough
<1>4. Supported' = Supported /\ Today' = Today
  BY <1>1 DEF Supported, Today
<1>5. EndDay = now \div 4 /\ now \in Nat /\ now % 4 = 1
  BY <1>1, <1>2, Hours DEF EndDay, Moment, Today
<1>6. CloudIsPrompt'
  BY <1>1, <1>3, <1>5 DEF CloudIsPrompt
<1>7. NodeIsThorough'
  BY <1>1, <1>3, <1>4 DEF AttemptInv, NodeIsThorough, Is, Served
<1>8. AttemptsAre'
  BY <1>1, <1>2, <1>3, <1>4, LatestIsBefore DEF AttemptsAre, Is, Machines
<1> QED
  BY <1>6, <1>7, <1>8 DEF AttemptInv

LEMMA AttemptServes ==
  ASSUME AttemptInv, NewAttempt, UNCHANGED <<now, published, held, checkpoint, slips>>
  PROVE  AttemptInv'
<1>1. AttemptsAre /\ "cloud" \in Machines /\ "node" \in Machines
  BY DEF AttemptInv, Machines
<1> DEFINE n == importer'["node"]
<1>2. /\ DOMAIN importer' = Machines /\ importer'["cloud"] = importer["cloud"]
      /\ DOMAIN n = ImporterFields /\ n.pc = "target" /\ n.to = EndDay /\ n.todo \subseteq Supported
      /\ \A s \in Supported :
           s \in n.todo \/ checkpoint[s].checked >= EndDay \/ checkpoint[s].retry >= now
  BY <1>1, ImportIsThorough DEF NewAttempt
<1>3. /\ DOMAIN state' = StateFields /\ state'.session = LatestDue /\ state'.at = now
      /\ node' = "refreshing"
  BY <1>1 DEF NewAttempt, AttemptsAre, StateFields
<1>4. Supported' = Supported /\ Today' = Today /\ now' = now /\ checkpoint' = checkpoint
  BY DEF Supported, Today
<1>5. LatestDue \in Int /\ LatestDue <= EndDay /\ LatestDue <= Today /\ EndDay \in Int
      /\ now \in Nat /\ Today \in Nat
  BY <1>1, LatestIsBefore, Hours
<1>6. \A s \in Supported : s \in n.todo \/ Served(s)'
  BY <1>1, <1>2, <1>3, <1>4, <1>5 DEF Served, AttemptsAre, Supported
<1>7. NodeIsThorough'
  BY <1>2, <1>3, <1>4, <1>5, <1>6 DEF NodeIsThorough, Is
<1>8. CloudIsPrompt'
  BY <1>2, <1>4 DEF AttemptInv, CloudIsPrompt, Is
<1>9. AttemptsAre'
  BY <1>1, <1>2, <1>3, <1>4, <1>5 DEF AttemptsAre, Is, Machines
<1> QED
  BY <1>7, <1>8, <1>9 DEF AttemptInv

LEMMA StoreServes ==
  ASSUME AttemptInv, NEW m \in Machines, Is(m, "target"), NEW s \in Securities, IsNext(m, s),
         Stored(m, s), UNCHANGED <<now, published, node, state>>
  PROVE  AttemptInv'
<1> DEFINE last == Max(Provided(m, s))
           r == [importer[m] EXCEPT !.pc = "save", !.target = s, !.last = last]
<1> HIDE DEF last
<1>1. /\ importer' = [importer EXCEPT ![m] = r] /\ UNCHANGED checkpoint
      /\ held' = [held EXCEPT ![s] = @ \cup Provided(m, s)]
  BY DEF Stored, AttemptInv, AttemptsAre, last
<1>2. AttemptsAre /\ s \in Supported
  BY DEF AttemptInv, AttemptsAre, IsNext, Is
<1>3. /\ DOMAIN r = ImporterFields /\ r.pc = "save" /\ r.todo = importer[m].todo
      /\ r.to = importer[m].to /\ r.since = importer[m].since
  BY <1>2 DEF AttemptsAre, ImporterFields
<1> HIDE DEF r
<1>4. importer'[m] = r /\ DOMAIN importer' = Machines
      /\ \A k \in Machines : k # m => importer'[k] = importer[k]
  BY <1>1, <1>2 DEF AttemptsAre
<1>5. DOMAIN held' = Securities /\ Supported' = Supported
  BY <1>1, <1>2 DEF AttemptsAre, Supported
<1>6. Today' = Today /\ (\A k \in Machines : Is(k, "off")' <=> Is(k, "off"))
  BY <1>3, <1>4 DEF Today, Is
<1>7. \A k \in Machines : importer'[k].todo = importer[k].todo
        /\ importer'[k].to = importer[k].to /\ importer'[k].since = importer[k].since
  BY <1>3, <1>4
<1>8. "node" \in Machines /\ "cloud" \in Machines
  BY DEF Machines
<1>9. NodeIsThorough'
  BY <1>1, <1>5, <1>6, <1>7, <1>8 DEF AttemptInv, NodeIsThorough, Served
<1>10. CloudIsPrompt'
  BY <1>6, <1>7, <1>8 DEF AttemptInv, CloudIsPrompt
<1>11. AttemptsAre'
  BY <1>1, <1>2, <1>3, <1>4, <1>5, <1>6, <1>7 DEF AttemptsAre
<1> QED
  BY <1>9, <1>10, <1>11 DEF AttemptInv

\* A step on the checkpoint of one security that serves it, whoever's it is.
LEMMA OnwardServes ==
  ASSUME AttemptInv, NEW m \in Machines, ~Is(m, "off"), NEW s, NEW c, NEW r,
         checkpoint' = [checkpoint EXCEPT ![s] = c], importer' = [importer EXCEPT ![m] = r],
         UNCHANGED <<now, published, held, node, state>>,
         s \in Securities => DOMAIN c = CheckpointFields /\ c.checked \in Int /\ c.retry \in Int
                             /\ (c.checked >= state.session \/ c.retry >= state.at),
         DOMAIN r = ImporterFields, r.pc = "target", r.todo = importer[m].todo \ {s},
         r.to = importer[m].to, r.since = importer[m].since
  PROVE  AttemptInv'
<1>1. AttemptsAre
  BY DEF AttemptInv
<1>2. importer'[m] = r /\ DOMAIN importer' = Machines
      /\ \A k \in Machines : k # m => importer'[k] = importer[k]
  BY <1>1 DEF AttemptsAre
<1>3. DOMAIN checkpoint' = Securities /\ (s \in Securities => checkpoint'[s] = c)
      /\ \A t \in Securities : t # s => checkpoint'[t] = checkpoint[t]
  BY <1>1 DEF AttemptsAre
<1>4. Supported' = Supported /\ Today' = Today /\ (\A k \in Machines : Is(k, "off")' <=> Is(k, "off"))
  BY <1>2 DEF Supported, Today, Is
<1>5. \A k \in Machines : importer'[k].to = importer[k].to /\ importer'[k].since = importer[k].since
        /\ importer'[k].todo \subseteq importer[k].todo
        /\ importer[k].todo \ {s} \subseteq importer'[k].todo
  BY <1>2
<1>6. \A t \in Supported : t = s \/ Served(t) => Served(t)'
  BY <1>3 DEF Served, Supported
<1>7. "node" \in Machines /\ "cloud" \in Machines
  BY DEF Machines
<1>8. NodeIsThorough'
  BY <1>4, <1>5, <1>6, <1>7 DEF AttemptInv, NodeIsThorough
<1>9. CloudIsPrompt'
  BY <1>4, <1>5, <1>7 DEF AttemptInv, CloudIsPrompt
<1>10. AttemptsAre'
  BY <1>1, <1>2, <1>3, <1>4, <1>5 DEF AttemptsAre
<1> QED
  BY <1>8, <1>9, <1>10 DEF AttemptInv

LEMMA HoldBackServes ==
  ASSUME AttemptInv, NEW m \in Machines, Is(m, "target"), NEW s \in Securities, IsNext(m, s),
         HeldBack(m, s), UNCHANGED <<now, published, node, state>>
  PROVE  AttemptInv'
<1> DEFINE r == [Onward(m, s) EXCEPT !.failures = @ + 1]
           c == [checkpoint[s] EXCEPT !.retry = now + ADay]
<1>1. /\ checkpoint' = [checkpoint EXCEPT ![s] = c] /\ importer' = [importer EXCEPT ![m] = r]
      /\ UNCHANGED held
  BY DEF HeldBack, AttemptInv, AttemptsAre
<1>2. AttemptsAre /\ now \in Nat
  BY Hours DEF AttemptInv
<1>3. DOMAIN c = CheckpointFields /\ c.checked = checkpoint[s].checked /\ c.retry = now + ADay
  BY <1>2 DEF AttemptsAre, CheckpointFields
<1>4. c.checked \in Int /\ c.retry \in Int /\ c.retry >= state.at
  BY <1>2, <1>3 DEF AttemptsAre, ADay
<1>5. DOMAIN r = ImporterFields /\ r.pc = "target" /\ r.todo = importer[m].todo \ {s}
      /\ r.to = importer[m].to /\ r.since = importer[m].since
  BY <1>2 DEF AttemptsAre, Onward, ImporterFields
<1>6. ~Is(m, "off")
  BY DEF Is
<1> HIDE DEF c, r
<1> QED
  BY <1>1, <1>3, <1>4, <1>5, <1>6, OnwardServes

LEMMA SaveServes ==
  ASSUME AttemptInv, NEW m \in Machines, SaveCheckpoint(m)
  PROVE  AttemptInv'
<1> DEFINE s == importer[m].target
           r == Onward(m, s)
           c == [checked |-> importer[m].to, last |-> importer[m].last, retry |-> Never]
<1>1. /\ checkpoint' = [checkpoint EXCEPT ![s] = c] /\ importer' = [importer EXCEPT ![m] = r]
      /\ UNCHANGED <<now, published, held, node, state>> /\ ~Is(m, "off")
  BY DEF SaveCheckpoint, Is
<1>2. AttemptsAre /\ now \in Nat /\ Today \in Nat
  BY Hours DEF AttemptInv
<1>3. DOMAIN c = CheckpointFields /\ c.checked = importer[m].to /\ c.retry = Never
  BY DEF CheckpointFields
<1>4. c.checked \in Int /\ c.retry \in Int
  BY <1>1, <1>2, <1>3 DEF AttemptsAre, Never
<1>5. importer[m].to >= state.session
  <2>1. CASE m = "node"
    BY <1>1, <1>2, <2>1 DEF AttemptInv, NodeIsThorough, AttemptsAre
  <2>2. CASE m = "cloud"
    <3>1. importer[m].to = now \div 4
      <4> DEFINE n == importer[m].since
      <4>1. n \in Nat /\ n % 4 = 1 /\ n <= now /\ now <= n + 1 /\ importer[m].to = n \div 4
        BY <1>1, <2>2 DEF AttemptInv, CloudIsPrompt
      <4> QED
        BY <4>1, <1>2
    <3> QED
      BY <1>2, <3>1 DEF AttemptsAre, Today
  <2> QED
    BY <2>1, <2>2 DEF Machines
<1>6. DOMAIN r = ImporterFields /\ r.pc = "target" /\ r.todo = importer[m].todo \ {s}
      /\ r.to = importer[m].to /\ r.since = importer[m].since
  BY <1>2 DEF AttemptsAre, Onward, ImporterFields
<1> HIDE DEF c, r, s
<1> QED
  BY <1>1, <1>3, <1>4, <1>5, <1>6, OnwardServes

LEMMA EndsServe ==
  ASSUME AttemptInv, NEW m \in Machines, Exit(m) \/ KillImport(m)
  PROVE  AttemptInv'
<1>1. UNCHANGED <<now, published, held, checkpoint, state>>
      /\ importer' = [importer EXCEPT ![m] = Ended(m)] /\ ~Is(m, "off")
  BY DEF Exit, KillImport, Is
<1>2. Ended(m).pc = "off" /\ DOMAIN Ended(m) = ImporterFields
  BY DEF Ended, NoImport, ImporterFields
<1>3. AttemptsAre
  BY DEF AttemptInv
<1>4. importer'[m] = Ended(m) /\ DOMAIN importer' = Machines
      /\ \A k \in Machines : k # m => importer'[k] = importer[k]
  BY <1>1, <1>3 DEF AttemptsAre
<1>5. Supported' = Supported /\ Today' = Today
  BY <1>1 DEF Supported, Today
<1>6. AttemptsAre'
  BY <1>1, <1>2, <1>3, <1>4, <1>5 DEF AttemptsAre, Is
<1>7. CASE m = "cloud"
  <2>1. node' = node /\ importer'["node"] = importer["node"]
    BY <1>4, <1>7 DEF Exit, KillImport, Machines
  <2>2. NodeIsThorough'
    BY <1>1, <1>5, <2>1 DEF AttemptInv, NodeIsThorough, Is, Served
  <2>3. CloudIsPrompt'
    BY <1>2, <1>4, <1>7 DEF CloudIsPrompt, Is
  <2> QED
    BY <1>6, <2>2, <2>3 DEF AttemptInv
<1>8. CASE m = "node"
  <2>1. CloudIsPrompt'
    BY <1>1, <1>4, <1>8 DEF AttemptInv, CloudIsPrompt, Is, Machines
  <2>2. node = "refreshing" /\ \A s \in Supported : s \in importer["node"].todo \/ Served(s)
    BY <1>1, <1>8 DEF AttemptInv, NodeIsThorough
  <2>3. node' = "failed" \/ (node' = "refreshed" /\ importer["node"].todo = {})
    BY <1>8 DEF Exit, KillImport, AfterKill
  <2>4. \A s \in Supported : Served(s)' <=> Served(s)
    BY <1>1 DEF Served
  <2>5. NodeIsThorough'
    BY <1>2, <1>4, <1>5, <1>8, <2>2, <2>3, <2>4 DEF NodeIsThorough, Is
  <2> QED
    BY <1>6, <2>1, <2>5 DEF AttemptInv
<1> QED
  BY <1>7, <1>8 DEF Machines

\* The steps of the node that begin no import, and the clock.
LEMMA OthersServe ==
  ASSUME AttemptInv, FinishAttempt \/ StopNode \/ Tick \/ (\E s \in Supported : PublishLate(s))
                     \/ (StartNode /\ node' = "waiting") \/ UNCHANGED refreshVars
  PROVE  AttemptInv'
<1>1. AttemptsAre /\ "node" \in Machines /\ "cloud" \in Machines
  BY DEF AttemptInv, Machines
<1>2. now \in Nat /\ Today \in Nat /\ LastHour \in Nat
  BY <1>1, Hours
<1>3. UNCHANGED <<held, checkpoint>> /\ Supported' = Supported
  BY DEF FinishAttempt, StopNode, Tick, PublishLate, StartNode, refreshVars, Supported
<1>4. CASE Tick
  <2>1. now' = now + 1 /\ now < LastHour /\ ~TimedOut("cloud") /\ UNCHANGED <<importer, node, state>>
    BY <1>1, <1>4 DEF Tick
  <2>2. Today' \in Nat /\ Today <= Today'
    BY <1>2, <2>1 DEF Today
  <2>3. AttemptsAre'
    BY <1>1, <1>2, <1>3, <2>1, <2>2 DEF AttemptsAre, Is
  <2>4. CloudIsPrompt'
    BY <1>2, <2>1 DEF AttemptInv, CloudIsPrompt, Is, TimedOut
  <2>5. NodeIsThorough'
    BY <1>3, <2>1 DEF AttemptInv, NodeIsThorough, Is, Served
  <2> QED
    BY <2>3, <2>4, <2>5 DEF AttemptInv
<1>5. CASE FinishAttempt
  <2>1. /\ UNCHANGED <<now, importer>> /\ node \in {"refreshed", "failed"} /\ node' = "waiting"
        /\ state' = state \/ state' = [state EXCEPT !.success = state.session]
    BY <1>5 DEF FinishAttempt
  <2>2. DOMAIN state' = StateFields /\ state'.session = state.session /\ state'.at = state.at
    BY <1>1, <2>1 DEF AttemptsAre, StateFields
  <2>3. AttemptsAre' /\ CloudIsPrompt' /\ NodeIsThorough'
    BY <1>1, <1>3, <2>1, <2>2 DEF AttemptInv, AttemptsAre, CloudIsPrompt, NodeIsThorough, Is, Today
  <2> QED
    BY <2>3 DEF AttemptInv
<1>6. CASE StopNode
  <2>1. /\ now' = now /\ node' = "off" /\ state' \in {state, NoState}
        /\ importer' = [importer EXCEPT !["node"] = NoImport]
    BY <1>6 DEF StopNode
  <2>2. /\ DOMAIN importer' = Machines /\ importer'["cloud"] = importer["cloud"]
        /\ importer'["node"] = NoImport
    BY <1>1, <2>1 DEF AttemptsAre
  <2>3. NoImport.pc = "off" /\ DOMAIN NoImport = ImporterFields
    BY DEF NoImport, ImporterFields
  <2>4. DOMAIN state' = StateFields /\ state'.session \in Int /\ state'.session <= Today
        /\ state'.at \in Int /\ state'.at <= now
    BY <1>1, <1>2, <2>1 DEF AttemptsAre, NoState, StateFields, Never
  <2>5. Today' = Today
    BY <2>1 DEF Today
  <2>6. AttemptsAre'
    BY <1>1, <1>3, <2>1, <2>2, <2>3, <2>4, <2>5 DEF AttemptsAre, Is, Machines
  <2>7. CloudIsPrompt' /\ NodeIsThorough'
    BY <2>1, <2>2, <2>3 DEF AttemptInv, CloudIsPrompt, NodeIsThorough, Is
  <2> QED
    BY <2>6, <2>7 DEF AttemptInv
<1>7. CASE (\E s \in Supported : PublishLate(s)) \/ UNCHANGED refreshVars
           \/ (StartNode /\ node' = "waiting")
  <2>1. /\ UNCHANGED <<now, importer, state>>
        /\ node' = node \/ (node = "off" /\ node' = "waiting")
    BY <1>7 DEF PublishLate, StartNode, refreshVars, NewAttempt
  <2>2. Today' = Today /\ \A s : Served(s)' <=> Served(s)
    BY <1>3, <2>1 DEF Today, Served
  <2>3. AttemptsAre' /\ CloudIsPrompt'
    BY <1>1, <1>3, <2>1, <2>2 DEF AttemptInv, AttemptsAre, CloudIsPrompt, Is
  <2>4. NodeIsThorough'
    BY <1>3, <2>1, <2>2 DEF AttemptInv, NodeIsThorough, Is
  <2> QED
    BY <2>3, <2>4 DEF AttemptInv
<1> QED
  BY <1>4, <1>5, <1>6, <1>7

LEMMA StartsServed == RefreshInit => AttemptInv
<1> SUFFICES ASSUME RefreshInit PROVE AttemptInv
  OBVIOUS
<1>1. PICK start \in NodeStarts : LET day == start.hour \div 4 IN
        /\ now = start.hour
        /\ held = [s \in Securities |-> IF s \in start.supported THEN Past(day - 1) ELSE {}]
        /\ checkpoint = [s \in Securities |->
                            [checked |-> day - 1, last |-> Max(Past(day - 1)), retry |-> Never]]
  BY DEF RefreshInit
<1> DEFINE day == start.hour \div 4
<1>2. now \in 0..LastHour /\ now \in Nat /\ day \in Nat /\ Today = day
  BY <1>1, RefreshAssumption DEF Today
<1>3. /\ importer = [m \in Machines |-> NoImport]
      /\ node = "off" /\ state = NoState
  BY DEF RefreshInit, Parked
<1>4. \A m \in Machines : DOMAIN importer[m] = ImporterFields /\ Is(m, "off")
  BY <1>3 DEF NoImport, ImporterFields, Is
<1>5. DOMAIN state = StateFields /\ state.session = -1 /\ state.at = -1
  BY <1>3 DEF NoState, StateFields, Never
<1>6. \A s \in Securities : /\ DOMAIN checkpoint[s] = CheckpointFields
                            /\ checkpoint[s].checked = day - 1 /\ checkpoint[s].retry = -1
  BY <1>1 DEF CheckpointFields, Never
<1>7. DOMAIN importer = Machines /\ DOMAIN held = Securities /\ DOMAIN checkpoint = Securities
  BY <1>1, <1>3
<1>8. AttemptsAre
  BY <1>2, <1>4, <1>5, <1>6, <1>7 DEF AttemptsAre
<1> QED
  BY <1>3, <1>4, <1>8 DEF AttemptInv, CloudIsPrompt, NodeIsThorough, Machines

LEMMA StepServes ==
  ASSUME AttemptInv, [RefreshNext]_refreshVars
  PROVE  AttemptInv'
<1>1. ASSUME NEW m \in Machines, Download(m) PROVE AttemptInv'
  <2> PICK s \in Securities : IsNext(m, s) /\ (Stored(m, s) \/ HeldBack(m, s))
    BY <1>1 DEF Download
  <2>1. Is(m, "target") /\ UNCHANGED <<now, published, node, state>>
    BY <1>1 DEF Download
  <2> QED
    BY <2>1, StoreServes, HoldBackServes
<1>2. CASE StartNode
  <2>1. CASE node' = "waiting"
    BY <1>2, <2>1, OthersServe
  <2>2. CASE NewAttempt
    BY <1>2, <2>2, AttemptServes DEF StartNode
  <2> QED
    BY <1>2, <2>1, <2>2 DEF StartNode
<1>3. CASE Refresh
  BY <1>3, AttemptServes DEF Refresh
<1> QED
  BY <1>1, <1>2, <1>3, SaveServes, EndsServe, StartCloudServes, OthersServe DEF RefreshNext

\* Only the end of an attempt changes what is on file as refreshed.
LEMMA SuccessIsOfTheAttempt ==
  ASSUME AttemptInv, [RefreshNext]_refreshVars, state'.success \notin {state.success, Never}
  PROVE  node = "refreshed" /\ state'.success = state.session /\ state'.at = state.at
<1>1. DOMAIN state = StateFields
  BY DEF AttemptInv, AttemptsAre
<1>2. ~NewAttempt
  BY <1>1 DEF NewAttempt, StateFields
<1>3. ~StopNode
  BY DEF StopNode, NoState
<1>4. state' # state
  OBVIOUS
<1>5. FinishAttempt
  BY <1>2, <1>3, <1>4
     DEF RefreshNext, refreshVars, Download, SaveCheckpoint, Exit, KillImport, StartCloud,
         StartNode, Refresh, Tick, PublishLate
<1> QED
  BY <1>1, <1>4, <1>5 DEF FinishAttempt, StateFields

\* SuccessIsTrue of the daily refresh: what is on file as refreshed was asked
\* for, although the cloud job writes the same checkpoints, the node is switched
\* off and its attempts are killed.
THEOREM SessionsAreRefreshed == RefreshSpec => SuccessIsTrue
<1>1. AttemptInv /\ [RefreshNext]_refreshVars => AttemptInv'
  BY StepServes
<1>2. AttemptInv /\ [RefreshNext]_refreshVars =>
        [state'.success \notin {state.success, Never} =>
           \A s \in Supported :
             checkpoint[s].checked >= state'.success \/ checkpoint[s].retry >= state.at]_refreshVars
  BY SuccessIsOfTheAttempt DEF AttemptInv, NodeIsThorough, Served
<1> QED
  BY <1>1, <1>2, StartsServed, PTL DEF RefreshSpec, SuccessIsTrue
=============================================================================
