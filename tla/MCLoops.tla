------------------------------- MODULE MCLoops -------------------------------
(***************************************************************************)
(* Background loops, checked side by side: an agent renewing its           *)
(* certificate, the replicas of the evaluation runner, the silence workers *)
(* and the notification planner.  They share no state; a behaviour is      *)
(* about one of them, chosen in the initial state, and the others stand    *)
(* still.  The fairness is that of the modules that state one, each        *)
(* conjunct for the behaviours of its own loop.                            *)
(***************************************************************************)
EXTENDS CertRenewal, EvaluationRunner, Silences, NotificationPlanner

VARIABLE part   \* the loop this behaviour is about

loopsVars == <<part, renewalVars, runnerVars, silenceVars, plannerVars>>

LoopsInit ==
    /\ part \in {"renewal", "runner", "silences", "planner"}
    /\ RenewalInit
    /\ RunnerInit
    /\ due # {} => part = "runner"
    /\ SilenceInit
    /\ PlannerInit

LoopsNext ==
    /\ UNCHANGED part
    /\ \/ /\ part = "renewal" /\ RenewalNext
          /\ UNCHANGED <<runnerVars, silenceVars, plannerVars>>
       \/ /\ part = "runner" /\ RunnerNext
          /\ UNCHANGED <<renewalVars, silenceVars, plannerVars>>
       \/ /\ part = "silences" /\ SilenceNext
          /\ UNCHANGED <<renewalVars, runnerVars, plannerVars>>
       \/ /\ part = "planner" /\ PlannerNext
          /\ UNCHANGED <<renewalVars, runnerVars, silenceVars>>

LoopsFairness ==
    /\ WF_renewalVars(part = "renewal" /\ AgentStep)
    /\ WF_renewalVars(/\ part = "renewal"
                      /\ \E m \in prepares :
                            m.renewal = attempt /\ Authenticate(m))
    /\ WF_renewalVars(part = "renewal" /\ PrepareTxn(attempt))
    /\ WF_renewalVars(part = "renewal" /\ ActivateTxn(attempt))
    /\ WF_runnerVars(part = "runner" /\ ExpireLease)
    /\ WF_runnerVars(part = "runner" /\ \E r \in Replicas : AcquireLease(r))
    /\ \A r \in Replicas :
          /\ WF_runnerVars(part = "runner" /\ (ReadPage(r) \/ FinishCycle(r)))
          /\ \A b \in Bindings :
                WF_runnerVars(part = "runner" /\ Evaluate(r, b))
    /\ \A w \in Workers : WF_silenceVars(part = "silences" /\ WorkerStep(w))
    /\ \A r \in Requests : WF_silenceVars(part = "silences" /\ ClaimLapses(r))

LoopsSpec == LoopsInit /\ [][LoopsNext]_loopsVars /\ LoopsFairness
=============================================================================
