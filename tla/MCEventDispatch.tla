--------------------------- MODULE MCEventDispatch ---------------------------
(* EventDispatch for TLC, in one of two scenes: a day on which dispatchers *)
(* run an event for two owners, and two days on which the same callers are *)
(* requests of one owner, for an event or for themselves.                  *)
EXTENDS EventDispatch, TLC

CONSTANTS u1, u2,
          MaxRequested   \* bound: jobs after which no request comes
OrderOfTwo == <<u1, u2>>

VARIABLE scene

SceneInit ==
  /\ DispatchInit
  /\ scene \in {"events", "requests"}
  /\ scene = "requests" => \A e \in Events : watch[e] = {}

SceneNext ==
  /\ UNCHANGED scene
  /\ \/ scene = "events" /\ DispatchNext
     \/ /\ scene = "requests" /\ IntakeNext
        /\ \A c \in Callers : /\ call'[c].user # u2
                              /\ call'[c].at = "reserve" => Cardinality(jobs) < MaxRequested
        /\ UNCHANGED <<watch, run, settled, blocked>>

SceneSpec == SceneInit /\ [][SceneNext]_<<dispatchVars, scene>> /\ DispatchFairness
=============================================================================
