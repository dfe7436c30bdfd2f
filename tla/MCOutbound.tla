----------------------------- MODULE MCOutbound -----------------------------
(***************************************************************************)
(* Two workers that carry what the database queues to somebody else's      *)
(* system, checked side by side: webhook deliveries and the pull requests  *)
(* of onboarding.  They share no state; a behaviour is about one of them,  *)
(* chosen in the initial state, and the other stands still.  The fairness  *)
(* is that of the two modules, each conjunct for the behaviours of its own *)
(* worker.                                                                 *)
(***************************************************************************)
EXTENDS WebhookDelivery, GitOpsRequests

VARIABLE part   \* the worker this behaviour is about

outboundVars == <<part, hookVars, onboardingVars>>

\* The gate closes only where nothing is pushed.
GateInQuiet == gated' => repo'.head = 1

\* No commit has a manifest here: the dispatcher does not look into plans.
OutboundInit ==
    /\ part \in {"delivery", "gitops"}
    /\ HookInit
    /\ registry # [w \in Senders |-> {}] => part = "delivery"
    /\ GitOpsInit
    /\ repo.manifests = [c \in Commits |-> "none"]

OutboundNext ==
    /\ UNCHANGED part
    /\ \/ part = "delivery" /\ HookNext /\ UNCHANGED onboardingVars
       \/ part = "gitops" /\ GitOpsNext /\ GateInQuiet /\ UNCHANGED hookVars

OutboundFairness ==
    /\ \A d \in Deliveries :
          /\ WF_hookVars(part = "delivery" /\ BecomeDue(d))
          /\ WF_hookVars(part = "delivery" /\ ClaimExpires(d))
          /\ SF_hookVars(part = "delivery" /\ ClaimOf(d))
    /\ \A w \in Senders, d \in Deliveries :
          WF_hookVars(/\ part = "delivery"
                      /\ Send(w, d) \/ RecordAttempt(w, d) \/ Suppress(w, d))
    /\ \A w \in Pushers : WF_onboardingVars(part = "gitops" /\ PusherStep(w))
    /\ \A k \in RequestKeys :
          WF_onboardingVars(part = "gitops" /\ TimePasses(k))

OutboundSpec == OutboundInit /\ [][OutboundNext]_outboundVars /\ OutboundFairness
=============================================================================
