---------------------------- MODULE MarketRefresh ----------------------------
(***************************************************************************)
(* The daily refresh of the prices.  Two machines run the same importer on *)
(* one database: a scheduled job in the cloud a quarter past six, and the  *)
(* local node, which owes every session a refresh from seven o'clock on    *)
(* and tries up to three times.  The importer keeps a checkpoint for each  *)
(* security; bars and checkpoint are two transactions.  A day has four     *)
(* moments: before six, from six, from seven, from eight o'clock on.       *)
(***************************************************************************)
EXTENDS Integers, FiniteSets, FiniteSetsExt

CONSTANTS Securities,      \* numbered in the order of their symbols
          Weekend,         \* days without a session
          NodeStarts,      \* the first hour, and the securities with bars
          LastHour,        \* where the model stops the clock
          Window, Overlap, \* 400 and 7 days, scaled down
          MaxAttempts,     \* MAX_ATTEMPTS_PER_SESSION
          MaxRefreshFaults \* failed downloads, killed processes, late bars

ASSUME RefreshAssumption ==
  /\ Securities \subseteq Nat /\ LastHour \in Nat /\ Weekend \subseteq Nat
  /\ Window \in Nat /\ Overlap \in Nat /\ MaxAttempts \in Nat /\ MaxRefreshFaults \in Nat
  /\ \A start \in NodeStarts : start.hour \in 0..LastHour /\ start.supported \subseteq Securities

VARIABLES now, published,       \* the clock, the bars the provider has
          held, checkpoint,     \* the database
          importer,             \* of the node and of the cloud
          node, state,          \* the local node and its state file
          slips,
          overdue               \* auxiliary: the bars that came after the overlap

refreshVars == <<now, published, overdue, held, checkpoint, importer, node, state, slips>>
Machines == {"node", "cloud"}

Never == -1
Moment == now % 4
Today == now \div 4
Sessions == (0..(LastHour \div 4)) \ Weekend
ADay == 4
Past(day) == (0..day) \cap Sessions

\* latest_due_session, refresh_end_day
LatestDue == Max({d \in Sessions \cup {Never} : d < Today \/ (d = Today /\ Moment >= 2)})
EndDay == IF Today \in Sessions /\ Moment >= 1 THEN Today ELSE Today - 1

NoImport == [pc |-> "off", since |-> 0, todo |-> {}, newest |-> <<>>, seen |-> <<>>, to |-> 0,
             target |-> 0, last |-> 0, total |-> 0, failures |-> 0]
NoState == [success |-> Never, session |-> Never, attempts |-> 0, at |-> Never]

Parked ==
  /\ importer = [m \in Machines |-> NoImport]
  /\ node = "off"
  /\ state = NoState
  /\ slips = 0
  /\ overdue = [s \in Securities |-> {}]

(* It starts at some hour after the close of a session, without the bars   *)
(* of that day and with a node that is off.  A security that has no bar is *)
(* not supported.                                                          *)
RefreshInit ==
  \E start \in NodeStarts : LET day == start.hour \div 4 IN
    /\ now = start.hour
    /\ published \in {[s \in Securities |-> Past(IF s \in late THEN day - 1 ELSE day)] :
                         late \in SUBSET start.supported}
    /\ held = [s \in Securities |-> IF s \in start.supported THEN Past(day - 1) ELSE {}]
    /\ checkpoint = [s \in Securities |->
                        [checked |-> day - 1, last |-> Max(Past(day - 1)), retry |-> Never]]
    /\ Parked

Supported == {s \in Securities : held[s] # {}}
Slip == slips < MaxRefreshFaults /\ slips' = slips + 1

-----------------------------------------------------------------------------
(* The importer.                                                           *)

\* refresh_start_day, with a recent window
StartAtChecked(s, last, to) == Max({to - Window, checkpoint[s].checked + 1})  \* mutant
StartDay(s, last, to) == Max({to - Window, last - Overlap})

(* Who lacks the day and is not held back after a failure; those without   *)
(* a bar are not supported.                                                *)
Due(to) == {s \in Supported : checkpoint[s].checked < to /\ checkpoint[s].retry < now}

Import(m) ==
  LET due == Due(EndDay) IN
  importer' = [importer EXCEPT ![m] =
                 [NoImport EXCEPT !.pc = "target", !.since = now, !.todo = due, !.to = EndDay,
                                  !.total = Cardinality(due),
                                  !.newest = [s \in due |-> Max(held[s])],
                                  !.seen = [s \in due |-> checkpoint[s].last]]]

Is(m, pc) == importer[m].pc = pc
Onward(m, s) == [importer[m] EXCEPT !.todo = @ \ {s}, !.pc = "target"]

(* The one whose bars were oldest when the run began comes first.          *)
Older(m, s, t) ==
  LET bar == importer[m].newest IN bar[s] < bar[t] \/ (bar[s] = bar[t] /\ s < t)
IsNext(m, s) == s \in importer[m].todo /\ \A t \in importer[m].todo \ {s} : Older(m, s, t)

(* One security: what the provider has of the days asked for is stored;    *)
(* nothing at all, or an error, holds the security back for a day.         *)
Provided(m, s) ==
  published[s] \cap StartDay(s, importer[m].seen[s], importer[m].to)..importer[m].to

Stored(m, s) ==
  /\ Provided(m, s) # {}
  /\ held' = [held EXCEPT ![s] = @ \cup Provided(m, s)]
  /\ importer' = [importer EXCEPT ![m].pc = "save", ![m].target = s, ![m].last = Max(Provided(m, s))]
  /\ UNCHANGED <<checkpoint, slips>>

HeldBack(m, s) ==
  /\ IF Provided(m, s) = {} THEN UNCHANGED slips ELSE Slip
  /\ checkpoint' = [checkpoint EXCEPT ![s].retry = now + ADay]
  /\ importer' = [importer EXCEPT ![m] = [Onward(m, s) EXCEPT !.failures = @ + 1]]
  /\ UNCHANGED held

Download(m) ==
  /\ Is(m, "target")
  /\ \E s \in Securities : IsNext(m, s) /\ (Stored(m, s) \/ HeldBack(m, s))
  /\ UNCHANGED <<now, published, overdue, node, state>>

SaveCheckpoint(m) ==
  /\ Is(m, "save")
  /\ checkpoint' = [checkpoint EXCEPT ![importer[m].target] =
                      [checked |-> importer[m].to, last |-> importer[m].last, retry |-> Never]]
  /\ importer' = [importer EXCEPT ![m] = Onward(m, importer[m].target)]
  /\ UNCHANGED <<now, published, overdue, held, node, state, slips>>

Ended(m) == [NoImport EXCEPT !.since = IF m = "cloud" THEN importer[m].since ELSE 0]

(* Only a run in which every security failed exits with an error.          *)
Failed(m) == importer[m].failures > 0 /\ importer[m].failures = importer[m].total

Exit(m) ==
  /\ Is(m, "target") /\ importer[m].todo = {}
  /\ importer' = [importer EXCEPT ![m] = Ended(m)]
  /\ node' = IF m = "cloud" THEN node ELSE IF Failed(m) THEN "failed" ELSE "refreshed"
  /\ UNCHANGED <<now, published, overdue, held, checkpoint, state, slips>>

AfterKillRefreshed == "refreshed"                      \* mutant: a time-out is no failure
AfterKill == "failed"

(* A time limit, 150 minutes of the node and 170 of the runner, or a full  *)
(* database.                                                               *)
TimedOut(m) == ~Is(m, "off") /\ now > importer[m].since
KillImport(m) ==
  /\ ~Is(m, "off")
  /\ IF TimedOut(m) THEN UNCHANGED slips ELSE Slip
  /\ importer' = [importer EXCEPT ![m] = Ended(m)]
  /\ node' = IF m = "cloud" THEN node ELSE AfterKill
  /\ UNCHANGED <<now, published, overdue, held, checkpoint, state>>

-----------------------------------------------------------------------------
(* The cloud's schedule and the loop of the node.                          *)
StartCloud ==
  /\ Today \in Sessions /\ Moment = 1 /\ Is("cloud", "off") /\ importer["cloud"].since # now
  /\ Import("cloud")
  /\ UNCHANGED <<now, published, overdue, held, checkpoint, node, state, slips>>

RefreshIsDue ==
  LET again == state.session = LatestDue IN
  /\ state.success < LatestDue
  /\ again => state.attempts < MaxAttempts /\ now > state.at

(* run_daily_refresh: the attempt is on file before its first step.        *)
NewAttempt ==
  /\ state' = [state EXCEPT !.session = LatestDue, !.at = now,
                            !.attempts = IF state.session = LatestDue THEN @ + 1 ELSE 1]
  /\ node' = "refreshing"
  /\ Import("node")

StartNode ==
  /\ node = "off" /\ now < LastHour
  /\ \/ node' = "waiting" /\ UNCHANGED <<state, importer>>
     \/ NewAttempt                                     \* --refresh-now
  /\ UNCHANGED <<now, published, overdue, held, checkpoint, slips>>

Refresh ==
  /\ node = "waiting" /\ RefreshIsDue
  /\ NewAttempt
  /\ UNCHANGED <<now, published, overdue, held, checkpoint, slips>>

(* The benchmarks and the index follow whatever became of the prices.      *)
FinishAttempt ==
  /\ node \in {"refreshed", "failed"}
  /\ \E others \in BOOLEAN :
       /\ IF others THEN UNCHANGED slips ELSE Slip
       /\ state' = IF others /\ node = "refreshed" THEN [state EXCEPT !.success = state.session] ELSE state
  /\ node' = "waiting"
  /\ UNCHANGED <<now, published, overdue, held, checkpoint, importer>>

(* The computer goes off, perhaps while the file is written: a file that   *)
(* cannot be read is a fresh start.                                        *)
StopNode ==
  /\ node # "off" /\ Slip
  /\ node' = "off"
  /\ importer' = [importer EXCEPT !["node"] = NoImport]
  /\ state' \in IF node \in {"refreshing", "refreshed", "failed"} THEN {state, NoState} ELSE {state}
  /\ UNCHANGED <<now, published, overdue, held, checkpoint>>

-----------------------------------------------------------------------------
(* The close of a session brings its bars, except some that come late.     *)
Close(s) == published[s] \cup {Today}
Tick ==
  /\ now < LastHour
  /\ \A m \in Machines : ~TimedOut(m)
  /\ ~(node = "waiting" /\ RefreshIsDue)               \* the loop looks every ten minutes
  /\ now' = now + 1
  /\ \E late \in SUBSET Supported :
       /\ IF late = {} THEN UNCHANGED slips ELSE Slip /\ Moment = 0 /\ Today \in Sessions
       /\ published' = IF Moment = 0 /\ Today \in Sessions
                       THEN [s \in Securities |-> IF s \in late THEN published[s] ELSE Close(s)]
                       ELSE published
  /\ UNCHANGED <<overdue, held, checkpoint, importer, node, state>>

(* A bar that is late comes whenever it comes: within the overlap after    *)
(* its day, or when the refresh no longer has to look for it (overdue).    *)
PublishLate(s) ==
  /\ \E d \in Sessions \ published[s] :
       /\ d < Today \/ (d = Today /\ Moment > 0)
       /\ published' = [published EXCEPT ![s] = @ \cup {d}]
       /\ overdue' = [overdue EXCEPT ![s] = IF d < Today - Overlap THEN @ \cup {d} ELSE @]
  /\ UNCHANGED <<now, held, checkpoint, importer, node, state, slips>>

RefreshNext ==
  \/ \E m \in Machines : Download(m) \/ SaveCheckpoint(m) \/ Exit(m) \/ KillImport(m)
  \/ StartCloud \/ StartNode \/ Refresh \/ FinishAttempt \/ StopNode
  \/ Tick \/ \E s \in Supported : PublishLate(s)

RefreshSpec == RefreshInit /\ [][RefreshNext]_refreshVars
-----------------------------------------------------------------------------
(* A bar of the window that the provider has and the database lacks is     *)
(* still within the days the next refresh asks for: an import that is      *)
(* killed between the bars and their checkpoint, two importers that        *)
(* overtake each other and bars that come late leave no hole that nobody   *)
(* looks at again.  Only bars that come after the overlap may be one.      *)
NothingIsOutOfReach ==
  \A s \in Supported : \A d \in published[s] \ (held[s] \cup overdue[s]) :
    d >= Today - Window => checkpoint[s].last - Overlap <= d

(* A session goes on file as refreshed when every security was asked for   *)
(* its bars up to that session, or failed within the day before the        *)
(* attempt, which then did not ask for it again.                           *)
SuccessIsTrue ==
  [][state'.success \notin {state.success, Never} =>
       \A s \in Supported :
         checkpoint[s].checked >= state'.success \/ checkpoint[s].retry >= state.at]_refreshVars
=============================================================================
