---------------------------- MODULE CertRenewal ----------------------------
(***************************************************************************)
(* The two-phase certificate renewal of a cluster agent (ADR-0016):        *)
(*   - the agent: engine/renewal.go (renewOnce, tryActivatePending,        *)
(*     settlePending, RenewalLoop) over identity/store.go, with crashes;   *)
(*   - the server: agents/router_internal.py (renew_certificate,           *)
(*     activate_certificate) and identity.py (authenticate_agent).         *)
(*                                                                         *)
(* A renewal is a number: renewOnce draws a fresh renewal id and a fresh   *)
(* key together, so number n stands for renewal id n, key pair n, its CSR, *)
(* its certificate and its bundle.  Number 0 is the enrolled identity.     *)
(* Since id and CSR go together, "same id, different CSR" does not arise.  *)
(*                                                                         *)
(* authenticate_agent reads the key on a connection of its own, BEFORE the *)
(* transaction of renew_certificate: two steps.                            *)
(***************************************************************************)
EXTENDS Integers, FiniteSets

CONSTANTS
    None,
    MaxRenewals,      \* bound: renewals the agent starts
    MaxFaults,        \* bound: lost answers, crashes, disk errors
    MaxKeptBundles,   \* maxKeptBundles
    LatePrepares      \* may a prepare the agent gave up on still be processed

ASSUME RenewalAssumption ==
    /\ MaxRenewals \in Nat
    /\ MaxFaults \in Nat
    /\ MaxKeptBundles \in Nat \ {0}
    /\ LatePrepares \in BOOLEAN
    /\ None \notin Nat

VARIABLES
    \* cluster_agents: the trusted key and the pending slot
    public_key, certificate_expired,
    pending_renewal_id, pending_public_key, pending_expired,
    \* the state directory: complete bundles and the two pointer files
    bundles, current, pending,
    \* the agent process: where it is, the key it signs with, the newest
    \* renewal started, the answer to its outstanding request
    pc, identity, attempt, answer,
    \* requests sent: prepares (with the signing key) and activations
    prepares, activations,
    \* prepares that passed authenticate_agent and wait for their transaction
    authenticated,
    faults

serverVars == <<public_key, certificate_expired, pending_renewal_id,
                pending_public_key, pending_expired>>
diskVars   == <<bundles, current, pending>>
netVars    == <<prepares, activations, authenticated>>
renewalVars == <<serverVars, diskVars, pc, identity, attempt, answer,
                netVars, faults>>

Renewals == 0..MaxRenewals

RenewalInit ==
    /\ public_key = 0
    /\ certificate_expired = FALSE
    /\ pending_renewal_id = None
    /\ pending_public_key = None
    /\ pending_expired = FALSE
    /\ bundles = {0}
    /\ current = 0
    /\ pending = None
    /\ pc = "settle"
    /\ identity = 0
    /\ attempt = 0
    /\ answer = "none"
    /\ prepares = {}
    /\ activations = {}
    /\ authenticated = {}
    /\ faults = 0

----------------------------------------------------------------------------
(* The agent.                                                              *)

Goto(label) == pc' = label

\* main: load the current bundle; then tryActivatePending, at startup
\* (ReconcilePendingRenewal) as in the loop (settlePending).
Start ==
    /\ pc = "down"
    /\ identity' = current
    /\ Goto("settle")
    /\ UNCHANGED <<serverVars, diskVars, attempt, answer, netVars, faults>>

\* activate(): sign with the pending key.
PostActivate(n) ==
    /\ activations' = activations \cup {n}
    /\ answer' = "none"
    /\ Goto("activating")

SettlePending ==
    /\ pc = "settle"
    /\ pending # None
    /\ attempt' = pending
    /\ PostActivate(pending)
    /\ UNCHANGED <<serverVars, diskVars, identity, prepares, authenticated,
                   faults>>

\* Nothing to settle, the delay is over: renewOnce prepares a fresh key.
Renew ==
    /\ pc = "settle"
    /\ pending = None
    /\ attempt < MaxRenewals
    /\ attempt' = attempt + 1
    /\ prepares' = prepares \cup {[renewal |-> attempt + 1, key |-> identity]}
    /\ answer' = "none"
    /\ Goto("preparing")
    /\ UNCHANGED <<serverVars, diskVars, identity, activations, authenticated,
                   faults>>

\* The prepare is answered: a certificate, or a refusal.
Prepared ==
    /\ pc = "preparing"
    /\ \/ answer = "ok" /\ Goto("save")
       \/ answer = "refused" /\ Goto("settle")
    /\ UNCHANGED <<serverVars, diskVars, identity, attempt, answer, netVars,
                   faults>>

\* SaveBundle: an inert directory until a pointer names it.
SaveBundle ==
    /\ pc = "save"
    /\ bundles' = bundles \cup {attempt}
    /\ Goto("point")
    /\ UNCHANGED <<serverVars, current, pending, identity, attempt, answer,
                   netVars, faults>>

\* SetPending, then activate.
SetPending ==
    /\ pc = "point"
    /\ pending' = attempt
    /\ PostActivate(attempt)
    /\ UNCHANGED <<serverVars, bundles, current, identity, attempt, prepares,
                   authenticated, faults>>

Activated ==
    /\ pc = "activating"
    /\ \/ answer = "ok" /\ Goto("promote")
       \/ answer = "refused" /\ Goto("discard")
    /\ UNCHANGED <<serverVars, diskVars, identity, attempt, answer, netVars,
                   faults>>

\* pruneBundles: the oldest bundles no pointer names go, down to the limit.
Pruned(cur) ==
    LET candidates == bundles \ {cur, pending}
        excess     == Cardinality(bundles) - MaxKeptBundles
    IN  {b \in candidates :
            Cardinality({c \in candidates : c < b}) < excess}

\* Promote: the current pointer moves, then old bundles are pruned.
Promote ==
    /\ pc = "promote"
    /\ current' = attempt
    /\ bundles' = bundles \ Pruned(attempt)
    /\ Goto("clear")
    /\ UNCHANGED <<serverVars, pending, identity, attempt, answer, netVars,
                   faults>>

\* ClearPending after the promotion: the agent now signs with the new key.
FinishRenewal ==
    /\ pc = "clear"
    /\ pending' = None
    /\ identity' = attempt
    /\ Goto("settle")
    /\ UNCHANGED <<serverVars, bundles, current, attempt, answer, netVars,
                   faults>>

\* ClearPending after an explicit refusal: the new key is never assumed.
Discard ==
    /\ pc = "discard"
    /\ pending' = None
    /\ Goto("settle")
    /\ UNCHANGED <<serverVars, bundles, current, identity, attempt, answer,
                   netVars, faults>>

----------------------------------------------------------------------------
(* The server.                                                             *)

\* authenticate_agent for /certificates/renew.
Authenticate(m) ==
    /\ m \in prepares
    /\ LatePrepares \/ (pc = "preparing" /\ attempt = m.renewal)
    /\ \/ /\ m.key = public_key
          /\ ~certificate_expired
          /\ authenticated' = authenticated \cup {m.renewal}
          /\ UNCHANGED answer
       \/ /\ m.key # public_key \/ certificate_expired
          /\ pc = "preparing" /\ attempt = m.renewal /\ answer = "none"
          /\ answer' = "refused"
          /\ UNCHANGED authenticated
    /\ UNCHANGED <<serverVars, diskVars, pc, identity, attempt, prepares,
                   activations, faults>>

PendingLive == pending_public_key # None /\ ~pending_expired

\* The transaction of renew_certificate: a live slot of the same renewal is
\* answered again; anything else is replaced, the trusted key never is.
PrepareTxn(n) ==
    /\ n \in authenticated
    /\ LatePrepares \/ (pc = "preparing" /\ attempt = n)
    /\ authenticated' = authenticated \ {n}
    /\ IF PendingLive /\ pending_renewal_id = n
       THEN UNCHANGED <<pending_renewal_id, pending_public_key,
                        pending_expired>>
       ELSE /\ pending_renewal_id' = n
            /\ pending_public_key' = n
            /\ pending_expired' = FALSE
    /\ answer' = IF pc = "preparing" /\ attempt = n /\ answer = "none"
                 THEN "ok" ELSE answer
    /\ UNCHANGED <<public_key, certificate_expired, diskVars, pc, identity,
                   attempt, prepares, activations, faults>>

\* Wrong variant: the renewal id is not compared.
ActivateResultAnyId(n) ==
    IF PendingLive THEN "promoted"
    ELSE IF pending_public_key = None /\ public_key = n THEN "acknowledged"
    ELSE "refused"

\* activate_certificate, one transaction; the request is signed with key n.
ActivateResult(n) ==
    IF pending_renewal_id # n THEN "refused"
    ELSE IF PendingLive
         THEN IF pending_public_key = n THEN "promoted" ELSE "refused"
    ELSE IF pending_public_key = None /\ public_key = n THEN "acknowledged"
    ELSE "refused"

\* Wrong variant: the promotion clears the renewal id with the other columns.
ActivateTxnForgetsId(n) ==
    /\ n \in activations
    /\ IF ActivateResult(n) = "promoted"
       THEN /\ public_key' = n
            /\ certificate_expired' = FALSE
            /\ pending_public_key' = None
            /\ pending_renewal_id' = None
            /\ UNCHANGED pending_expired
       ELSE UNCHANGED serverVars
    /\ answer' = IF pc = "activating" /\ attempt = n /\ answer = "none"
                 THEN IF ActivateResult(n) = "refused" THEN "refused" ELSE "ok"
                 ELSE answer
    /\ UNCHANGED <<diskVars, pc, identity, attempt, netVars, faults>>

ActivateTxn(n) ==
    /\ n \in activations
    /\ IF ActivateResult(n) = "promoted"
       THEN /\ public_key' = n
            /\ certificate_expired' = FALSE
            /\ pending_public_key' = None
            /\ UNCHANGED <<pending_renewal_id, pending_expired>>
       ELSE UNCHANGED serverVars
    /\ answer' = IF pc = "activating" /\ attempt = n /\ answer = "none"
                 THEN IF ActivateResult(n) = "refused" THEN "refused" ELSE "ok"
                 ELSE answer
    /\ UNCHANGED <<diskVars, pc, identity, attempt, netVars, faults>>

\* _PENDING_RENEWAL_TTL_SECONDS pass without an activation.  By then no
\* prepare of that renewal is in flight: its signature is fresh for 120 s.
ExpirePending ==
    /\ PendingLive
    /\ ~(pc = "preparing" /\ attempt = pending_renewal_id)
    /\ pending_expired' = TRUE
    /\ prepares' = {m \in prepares : m.renewal # pending_renewal_id}
    /\ authenticated' = authenticated \ {pending_renewal_id}
    /\ UNCHANGED <<public_key, certificate_expired, pending_renewal_id,
                   pending_public_key, diskVars, pc, identity, attempt, answer,
                   activations, faults>>

----------------------------------------------------------------------------
(* What goes wrong.                                                        *)

Fault == faults < MaxFaults /\ faults' = faults + 1

\* An answer is lost; the transport sends the same request again.
LoseAnswer ==
    /\ Fault
    /\ pc \in {"preparing", "activating"}
    /\ answer # "none"
    /\ answer' = "none"
    /\ UNCHANGED <<serverVars, diskVars, pc, identity, attempt, netVars>>

\* Wrong variant: an ambiguous activation is taken for a refusal.
GiveUpDiscards ==
    /\ Fault
    /\ pc \in {"preparing", "activating"}
    /\ answer' = "none"
    /\ pending' = None
    /\ Goto("settle")
    /\ UNCHANGED <<serverVars, bundles, current, identity, attempt, netVars>>

\* Every attempt failed (no answer, or 5xx): ambiguous.  What is pending on
\* disk stays, a prepare leaves nothing behind.
GiveUp ==
    /\ Fault
    /\ pc \in {"preparing", "activating"}
    /\ answer' = "none"
    /\ Goto("settle")
    /\ UNCHANGED <<serverVars, diskVars, identity, attempt, netVars>>

\* A disk error before the pointer moved: the renewal is dropped (save,
\* SetPending) or settled later (Promote).
DiskError ==
    /\ Fault
    /\ pc \in {"save", "point", "promote"}
    /\ Goto("settle")
    /\ UNCHANGED <<serverVars, diskVars, identity, attempt, answer, netVars>>

\* certificate_not_after passes: authenticate_agent refuses the current key.
ExpireCertificate ==
    /\ Fault
    /\ ~certificate_expired
    /\ certificate_expired' = TRUE
    /\ UNCHANGED <<public_key, pending_renewal_id, pending_public_key,
                   pending_expired, diskVars, pc, identity, attempt, answer,
                   netVars>>

Crash ==
    /\ Fault
    /\ pc # "down"
    /\ Goto("down")
    /\ answer' = "none"
    /\ UNCHANGED <<serverVars, diskVars, identity, attempt, netVars>>

----------------------------------------------------------------------------
AgentStep ==
    \/ Start
    \/ SettlePending
    \/ Renew
    \/ Prepared
    \/ SaveBundle
    \/ SetPending
    \/ Activated
    \/ Promote
    \/ FinishRenewal
    \/ Discard

ServerStep ==
    \/ \E m \in prepares : Authenticate(m)
    \/ \E n \in authenticated : PrepareTxn(n)
    \/ \E n \in activations : ActivateTxn(n)

RenewalNext ==
    \/ AgentStep
    \/ ServerStep
    \/ ExpirePending
    \/ LoseAnswer
    \/ GiveUp
    \/ DiskError
    \/ ExpireCertificate
    \/ Crash

RenewalSpec == RenewalInit /\ [][RenewalNext]_renewalVars

\* The agent's goroutine runs on, and the API handles the request the agent
\* is waiting for (the transport retries until it gives up).
FairRenewal ==
    /\ RenewalSpec
    /\ WF_renewalVars(AgentStep)
    /\ WF_renewalVars(\E m \in prepares :
                         m.renewal = attempt /\ Authenticate(m))
    /\ WF_renewalVars(PrepareTxn(attempt))
    /\ WF_renewalVars(ActivateTxn(attempt))

----------------------------------------------------------------------------
(* Properties.                                                             *)

\* The columns, the files and the process variables keep their types.
RenewalTypeOK ==
    /\ public_key \in Renewals
    /\ certificate_expired \in BOOLEAN
    /\ pending_renewal_id \in Renewals \cup {None}
    /\ pending_public_key \in Renewals \cup {None}
    /\ pending_expired \in BOOLEAN
    /\ bundles \subseteq Renewals
    /\ current \in Renewals
    /\ pending \in Renewals \cup {None}
    /\ pc \in {"down", "settle", "preparing", "save", "point", "activating",
               "promote", "clear", "discard"}
    /\ identity \in Renewals
    /\ attempt \in Renewals
    /\ answer \in {"none", "ok", "refused"}
    /\ prepares \subseteq [renewal : Renewals, key : Renewals]
    /\ activations \subseteq Renewals
    /\ authenticated \subseteq Renewals
    /\ faults \in 0..MaxFaults

\* ADR-0016: "a lost response at any step can never strand the agent".  The
\* key the server trusts is always on the agent's disk, as the current
\* identity or as the pending one.
NeverStranded == public_key \in {current, pending}

\* What keeps the agent from being stranded when the key is only pending: the
\* server still acknowledges the activation of that renewal, so the next
\* attempt (in process or after a restart) promotes it; crashes, retries,
\* expiry and late activations included.
LostAnswerRecoverable ==
    \/ public_key = current
    \/ public_key = pending /\ ActivateResult(pending) # "refused"

\* The pointer files always name complete bundles: no crash, failed step or
\* pruning leaves the agent without a loadable identity (store.go).
PointersLoad == current \in bundles /\ pending \in bundles \cup {None}

\* At every moment a restart finds a loadable identity with which the agent
\* reaches the key the server trusts.
AlwaysRecoverable == LostAnswerRecoverable /\ PointersLoad

\* The trusted key never goes back to an older one: a late activation of an
\* abandoned renewal cannot replace a newer key.
ForwardStep == public_key' >= public_key
KeysMoveForward == [][ForwardStep]_renewalVars

\* When the faults are over the agent ends up signing with the key the
\* server trusts, and no renewal stays pending (settlePending).
EndsTrusted ==
    <>[](public_key = current /\ identity = current /\ pending = None)
============================================================================
