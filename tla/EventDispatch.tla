---------------------------- MODULE EventDispatch ----------------------------
(***************************************************************************)
(* research/event_dispatch.py on top of ResearchIntake: feed runs translate *)
(* a corporate event into one research job for every owner whose watchlist *)
(* asks for it.  Runs of the same event overlap (an exchange lists an      *)
(* event on every poll, and a run that failed or died is repeated), owners *)
(* opt in and out while a run is under way, and each enqueue is the        *)
(* several transactions of ResearchIntake.  The runs of an event fall on   *)
(* one day here: the change of the date is a matter of ResearchIntake.     *)
(***************************************************************************)
EXTENDS ResearchIntake

CONSTANT Order   \* owners in the order of their ids

ASSUME OrderAssumption ==
  Order \in Seq(Users) /\ \A u \in Users : \E i \in DOMAIN Order : Order[i] = u

VARIABLES
  watch,     \* watchlist_items: the owners who opted in, by event
  run,       \* where a dispatcher's run of an event stands
  settled,   \* events whose feed run completed, so that nothing repeats it
  blocked    \* events of which a run was answered "blocked" by the corpus gate

dispatchVars == <<intakeVars, watch, run, settled, blocked>>

Run == [at : {"idle", "corpus", "subscriber", "enqueue"}, event : Events \cup {None},
        subscribers : SUBSET Users, left : SUBSET Users, limited : SUBSET Users]
NoRun == [at |-> "idle", event |-> None, subscribers |-> {}, left |-> {}, limited |-> {}]

DispatchTypeOK ==
  /\ IntakeTypeOK
  /\ watch \in [Events -> SUBSET Users]
  /\ run \in [Callers -> Run]
  /\ \A c \in Callers : /\ run[c].at = "enqueue" => call[c].at # "idle"
                        /\ run[c].left \cup run[c].limited \subseteq run[c].subscribers
  /\ settled \subseteq Events
  /\ blocked \subseteq settled

DispatchInit ==
  /\ IntakeInit
  /\ watch \in [Events -> SUBSET Users]
  /\ run = [c \in Callers |-> NoRun]
  /\ settled = {}
  /\ blocked = {}

-----------------------------------------------------------------------------
\* The owner the loop over the subscribers is at.
First(owners) ==
  Order[CHOOSE i \in DOMAIN Order :
          Order[i] \in owners /\ \A k \in 1..(i - 1) : Order[k] \notin owners]
Owner(c) == First(run[c].left)

\* The run is over, and the feed run it belongs to completes or fails.
Completes(c) ==
  /\ run' = [run EXCEPT ![c] = NoRun]
  /\ settled' = settled \cup {run[c].event}
Fails(c) ==
  /\ run' = [run EXCEPT ![c] = NoRun]
  /\ UNCHANGED settled

\* add_item and remove_item: an owner opts in or out.
OptIn(e, u) ==
  /\ watch' = [watch EXCEPT ![e] = IF u \in @ THEN @ \ {u} ELSE @ \cup {u}]
  /\ UNCHANGED <<intakeVars, run, settled, blocked>>

\* A material event is dispatched: event_subscribers.
Dispatch(c, e) ==
  /\ run[c].at = "idle" /\ call[c].at = "idle"
  /\ \/ /\ watch[e] = {}
        /\ settled' = settled \cup {e}
        /\ UNCHANGED run
     \/ /\ watch[e] # {}
        /\ run' = [run EXCEPT ![c] = [at |-> "corpus", event |-> e, subscribers |-> watch[e],
                                      left |-> watch[e], limited |-> {}]]
        /\ UNCHANGED settled
  /\ UNCHANGED <<intakeVars, watch, blocked>>

\* enforce_research_corpus_ready: a closed gate blocks the run, not the feed.
CorpusGate(c) ==
  /\ run[c].at = "corpus"
  /\ \/ /\ run' = [run EXCEPT ![c].at = "subscriber"]
        /\ UNCHANGED <<settled, blocked>>
     \/ /\ Completes(c)
        /\ blocked' = blocked \cup {run[c].event}
  /\ UNCHANGED <<intakeVars, watch>>

\* _already_enqueued, then the call of enqueue.
NextSubscriber(c) ==
  /\ run[c].at = "subscriber" /\ run[c].left # {}
  /\ \/ /\ Enqueued(run[c].event, Owner(c))
        /\ run' = [run EXCEPT ![c].left = @ \ {Owner(c)}]
        /\ UNCHANGED intakeVars
     \/ /\ ~Enqueued(run[c].event, Owner(c))
        /\ Submit(c, Owner(c), FALSE, run[c].event)
        /\ run' = [run EXCEPT ![c].at = "enqueue"]
  /\ UNCHANGED <<watch, settled, blocked>>

\* Mutation: the first owner over its quota ends the loop.
AnswerStopsAtLimit(c) ==
  /\ run[c].at = "enqueue"
  /\ Return(c)
  /\ \/ /\ call[c].at = "limited"
        /\ run' = [run EXCEPT ![c].at = "subscriber", ![c].left = {}, ![c].limited = @ \cup {Owner(c)}]
        /\ UNCHANGED settled
     \/ /\ call[c].at \in {"queued", "duplicate"}
        /\ run' = [run EXCEPT ![c].at = "subscriber", ![c].left = @ \ {Owner(c)}]
        /\ UNCHANGED settled
     \/ call[c].at = "failed" /\ Fails(c)
  /\ UNCHANGED <<watch, blocked>>

\* enqueue answers: a duplicate or an owner over its quota is passed over, any
\* other exception ends the run.
Answer(c) ==
  /\ run[c].at = "enqueue"
  /\ Return(c)
  /\ \/ /\ call[c].at \in {"queued", "limited", "duplicate"}
        /\ run' = [run EXCEPT ![c].at = "subscriber", ![c].left = @ \ {Owner(c)},
                     ![c].limited = IF call[c].at = "limited" THEN @ \cup {Owner(c)} ELSE @]
        /\ UNCHANGED settled
     \/ call[c].at = "failed" /\ Fails(c)
  /\ UNCHANGED <<watch, blocked>>

Finish(c) ==
  /\ run[c].at = "subscriber" /\ run[c].left = {}
  /\ Completes(c)
  /\ UNCHANGED <<intakeVars, watch, blocked>>

\* The feed worker dies in the middle of a run.
Die(c) ==
  /\ run[c].at # "idle" /\ crashes < MaxCrashes
  /\ crashes' = crashes + 1
  /\ call' = [call EXCEPT ![c] = Idle]
  /\ Fails(c)
  /\ UNCHANGED <<today, used, jobs, slips, faults, watch, blocked>>

-----------------------------------------------------------------------------
Loop(c) == CorpusGate(c) \/ NextSubscriber(c) \/ Answer(c) \/ Finish(c)

EnqueueFor(c) == Enqueue(c) /\ UNCHANGED <<watch, run, settled, blocked>>

DispatchNext ==
  \/ \E e \in Events, u \in Users : OptIn(e, u)
  \/ \E c \in Callers, e \in Events : Dispatch(c, e)
  \/ \E c \in Callers : Loop(c) \/ EnqueueFor(c) \/ Die(c)

DispatchSpec == DispatchInit /\ [][DispatchNext]_dispatchVars

\* The daemon polls for ever and is restarted, so an event whose run failed is
\* dispatched again; every await of a run returns.
DispatchFairness ==
  \A c \in Callers :
    /\ WF_dispatchVars(Loop(c)) /\ WF_dispatchVars(EnqueueFor(c))
    /\ \A e \in Events : WF_dispatchVars(e \notin settled /\ Dispatch(c, e))
FairDispatchSpec == DispatchSpec /\ DispatchFairness

-----------------------------------------------------------------------------
\* Overlapping and repeated runs leave an owner one job of an event, though
\* _already_enqueued is asked long before the job is inserted.
OneJobPerEvent ==
  \A i, j \in jobs : i.event # None /\ i.event = j.event /\ i.user = j.user => i = j

\* The same, with the types.
DispatchInv == DispatchTypeOK /\ OneJobPerEvent

\* An owner over its quota, a duplicate or a retry never suppresses another
\* owner: when a run is through, every subscriber it read has its job or was
\* refused for its own quota.
NobodyIsSuppressed ==
  \A c \in Callers :
    run[c].at = "subscriber" /\ run[c].left = {}
      => \A u \in run[c].subscribers : Enqueued(run[c].event, u) \/ u \in run[c].limited

\* An owner who stays opted in gets the event's job, whatever crashes and
\* failed transactions the runs go through, unless a run is blocked by the
\* corpus gate or the owner refused for its quota.
Delivered ==
  \A e \in Events, u \in Users :
    [](u \in watch[e])
      => <>(Enqueued(e, u) \/ e \in blocked \/ \E c \in Callers : u \in run[c].limited)
=============================================================================
