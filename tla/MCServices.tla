------------------------------ MODULE MCServices ------------------------------
(***************************************************************************)
(* Video jobs, reserve-and-refund services and endpoint scaling for TLC,   *)
(* where the question is what they reach in the end.  Apart from the       *)
(* database connection they share nothing, so a behaviour is of one of     *)
(* them, chosen at the start; the others rest in an initial state.         *)
(***************************************************************************)
EXTENDS MCVideoJobs, CreditHold, H3Scale

CONSTANTS s1, s2, h1

VARIABLE system

serviceVars == <<system, vars, holdVars, scaleVars>>

MCPrice == [h \in Holds |-> 2]

--------------------------------------------------------------------------------
ServicesInit ==
  /\ HoldInit
  /\ system \in {"video", "hold", "scale"}
  /\ system # "hold" => service[h1] = "sync"
  /\ Init /\ ScaleInit

ServicesNext ==
  \/ system = "video" /\ Next /\ UNCHANGED <<system, holdVars, scaleVars>>
  \/ system = "hold" /\ HoldNext /\ UNCHANGED <<system, vars, scaleVars>>
  \/ system = "scale" /\ ScaleNext /\ UNCHANGED <<system, vars, holdVars>>

\* The fairness of each system's own specification, for the one that runs.
ServicesFairness ==
  /\ \A w \in Watchers : WF_vars(system = "video" /\ (WatchStep(w) \/ FallbackStep(w)))
  /\ \A c \in Calls : WF_vars(system = "video" /\ CallStep(c))
  /\ \A h \in Holds :
       /\ WF_holdVars(system = "hold" /\ RequestStep(h) /\ UNCHANGED service)
       /\ WF_holdVars(system = "hold" /\ WorkStep(h) /\ UNCHANGED service)
       /\ WF_holdVars(system = "hold" /\ PollHold(h) /\ UNCHANGED service)
  /\ WF_scaleVars(system = "scale" /\ \E c \in Callers : SubmitStep(c))
  /\ WF_scaleVars(system = "scale" /\ \E c \in Callers : JobEnds(c))
  /\ WF_scaleVars(system = "scale" /\ ReaperStep)

ServicesSpec == ServicesInit /\ [][ServicesNext]_serviceVars /\ ServicesFairness

\* The inductive invariants: every program counter stands where the rows and the
\* locks allow it.
ServicesInv == HInv /\ SInv
================================================================================
