------------------------- MODULE OnboardingSession --------------------------
(***************************************************************************)
(* The life of an onboarding session (onboarding/service.py): who may      *)
(* analyse, approve, apply and cancel, and what happens when those         *)
(* requests, pushes to the repository and crashes interleave.              *)
(*                                                                         *)
(* One repository; at most one live session at a time, by the partial      *)
(* unique index.  A request that talks to GitHub is a caller with several  *)
(* steps: the transactions around the provider calls are separate, and     *)
(* anything may commit between them.  A request that is refused changes    *)
(* nothing and is not a step.  approve and cancel carry the version the    *)
(* client read; one that is not refused acts on the state it read, so the  *)
(* version column itself is left out.                                      *)
(***************************************************************************)
EXTENDS Integers, Sequences, FiniteSets

CONSTANTS
    Sessions,    \* sessions that may be opened on the repository
    Callers,     \* requests in progress at one time
    IdemKeys,    \* idempotency keys clients send
    MaxCommit,   \* the default branch moves through commits 1..MaxCommit
    MaxPlans,    \* bound on plan versions per session
    NoCall       \* a caller with nothing in progress

ASSUME SessionAssumption ==
    MaxCommit \in Nat \ {0} /\ MaxPlans \in Nat

VARIABLES
    sessions,   \* onboarding_sessions: state and approved plan version
    plans,      \* onboarding_plans: per session, by version
    receipts,   \* onboarding_applies: per session and key, the plan applied
    repo,       \* GitHub: the head commit, and what planning each manifest gives
    calls,      \* requests in progress
    imports     \* history: every import that committed

sessionVars == <<sessions, plans, receipts, repo, calls, imports>>

Commits == 1..MaxCommit
SessionStates == {"none", "draft", "analyzing", "needs_review", "ready", "approved",
                  "imported", "cancelled", "stale", "provider_unavailable"}
Terminal == {"imported", "cancelled"}
PlanStates == {"ready", "needs_review", "superseded", "stale", "applied"}

ALLOWED_STATES ==
    [analyze |-> {"draft", "needs_review", "ready", "provider_unavailable", "stale"},
     approve |-> {"ready"},
     apply   |-> {"approved"},
     cancel  |-> {"draft", "needs_review", "ready", "approved", "provider_unavailable", "stale"},
     gitops  |-> {"needs_review", "ready", "approved"}]

Calls == [op : {"analyze"}, session : Sessions, commit : 0..MaxCommit]
         \cup [op : {"apply"}, session : Sessions, plan : 1..MaxPlans, key : IdemKeys,
               fresh : BOOLEAN]

SessionTypeOK ==
    /\ sessions \in [Sessions -> [state : SessionStates, approved : 0..MaxPlans,
                                  commit : 0..MaxCommit]]
    /\ \A s \in Sessions :
         /\ Len(plans[s]) <= MaxPlans
         /\ \A v \in DOMAIN plans[s] :
              plans[s][v] \in [commit : Commits, state : PlanStates, blocking : BOOLEAN]
    /\ receipts \in [Sessions -> [IdemKeys -> 0..MaxPlans]]
    /\ repo \in [head : Commits, manifests : [Commits -> {"none", "blocked", "ready"}]]
    /\ calls \in [Callers -> Calls \cup {NoCall}]

-----------------------------------------------------------------------------
Live(s) == sessions[s].state \notin Terminal \cup {"none"}

(* uq_onboarding_session_active: an update that would make a second live   *)
(* session fails, and its transaction rolls back.                          *)
IndexAllows(s) == Live(s) \/ \A t \in Sessions \ {s} : ~Live(t)

_set_state(s, state) == sessions' = [sessions EXCEPT ![s].state = state]

SessionInit ==
    /\ sessions = [s \in Sessions |-> [state |-> "none", approved |-> 0, commit |-> 0]]
    /\ plans = [s \in Sessions |-> << >>]
    /\ receipts = [s \in Sessions |-> [k \in IdemKeys |-> 0]]
    /\ repo \in [head : {1}, manifests : [Commits -> {"none", "blocked", "ready"}]]
    /\ calls = [c \in Callers |-> NoCall]
    /\ imports = << >>

(* POST /sessions: with the repository row locked, a new draft - or the    *)
(* live session there already is, which changes nothing.                   *)
create_session(s) ==
    /\ sessions[s].state = "none"
    /\ \A t \in Sessions : ~Live(t)
    /\ _set_state(s, "draft")
    /\ UNCHANGED <<plans, receipts, repo, calls, imports>>

-----------------------------------------------------------------------------
(* Analysis.                                                               *)

(* The claim: under the row lock, the session becomes `analyzing`.         *)
analyze(c, s) ==
    /\ calls[c] = NoCall
    /\ sessions[s].state \in ALLOWED_STATES["analyze"]
    /\ _set_state(s, "analyzing")
    /\ calls' = [calls EXCEPT ![c] = [op |-> "analyze", session |-> s, commit |-> 0]]
    /\ UNCHANGED <<plans, receipts, repo, imports>>

Analyzing(c) == calls[c] # NoCall /\ calls[c].op = "analyze"

(* The scan resolves the head once and reads everything at that commit.    *)
Scan(c) ==
    /\ Analyzing(c) /\ calls[c].commit = 0
    /\ calls' = [calls EXCEPT ![c].commit = repo.head]
    /\ UNCHANGED <<sessions, plans, receipts, repo, imports>>

(* GitHub cannot be read: the session is set, whatever state it is in.     *)
ScanUnavailable(c) ==
    /\ Analyzing(c)
    /\ IF IndexAllows(calls[c].session)
       THEN _set_state(calls[c].session, "provider_unavailable")
       ELSE UNCHANGED sessions
    /\ calls' = [calls EXCEPT ![c] = NoCall]
    /\ UNCHANGED <<plans, receipts, repo, imports>>

(* Supersede what is under review and append the new version.              *)
_store_plan(s, commit, blocking) ==
    plans' = [plans EXCEPT ![s] =
        Append([v \in DOMAIN @ |->
                  IF @[v].state \in {"ready", "needs_review"}
                  THEN [@[v] EXCEPT !.state = "superseded"] ELSE @[v]],
               [commit |-> commit, state |-> IF blocking THEN "needs_review" ELSE "ready",
                blocking |-> blocking])]

(* The result is written over whatever state the session is in by now.     *)
_record_analysis(c) ==
    LET s == calls[c].session
        found == repo.manifests[calls[c].commit]
        state == IF found = "ready" THEN "ready" ELSE "needs_review"
    IN  /\ Analyzing(c) /\ calls[c].commit # 0
        /\ Len(plans[s]) < MaxPlans
        /\ IF ~IndexAllows(s) THEN UNCHANGED <<sessions, plans>>
           ELSE /\ sessions' = [sessions EXCEPT ![s].state = state,
                                                ![s].commit = calls[c].commit]
                /\ IF found = "none" THEN UNCHANGED plans
                   ELSE _store_plan(s, calls[c].commit, found = "blocked")
        /\ calls' = [calls EXCEPT ![c] = NoCall]
        /\ UNCHANGED <<receipts, repo, imports>>

(* The process dies, the client gives up, the granted permissions fall     *)
(* short, a handler raises: the request ends and writes nothing more.      *)
CallLost(c) ==
    /\ calls[c] # NoCall
    /\ calls' = [calls EXCEPT ![c] = NoCall]
    /\ UNCHANGED <<sessions, plans, receipts, repo, imports>>

-----------------------------------------------------------------------------
(* Approval and apply.                                                     *)

approve(s, v) ==
    /\ sessions[s].state \in ALLOWED_STATES["approve"]
    /\ v \in DOMAIN plans[s]
    /\ plans[s][v].state \notin {"superseded", "stale"} /\ ~plans[s][v].blocking
    /\ sessions' = [sessions EXCEPT ![s].state = "approved", ![s].approved = v]
    /\ UNCHANGED <<plans, receipts, repo, calls, imports>>

(* The checks apply makes before it talks to GitHub, on rows it does not   *)
(* lock: no receipt for the key, the session approved, for this version.   *)
apply(c, s, v, k) ==
    /\ calls[c] = NoCall
    /\ v \in DOMAIN plans[s]
    /\ receipts[s][k] = 0
    /\ sessions[s].state = "approved" /\ sessions[s].approved = v
    /\ ~plans[s][v].blocking
    /\ calls' = [calls EXCEPT ![c] = [op |-> "apply", session |-> s, plan |-> v, key |-> k,
                                      fresh |-> FALSE]]
    /\ UNCHANGED <<sessions, plans, receipts, repo, imports>>

Applying(c) == calls[c] # NoCall /\ calls[c].op = "apply"
ItsPlan(c) == plans[calls[c].session][calls[c].plan]

(* The freshness check.  A moved branch makes plan and session stale, in a *)
(* transaction that looks at neither first.                                *)
ApplyChecksHead(c) ==
    /\ Applying(c) /\ ~calls[c].fresh
    /\ IF repo.head = ItsPlan(c).commit
       THEN /\ calls' = [calls EXCEPT ![c].fresh = TRUE]
            /\ UNCHANGED <<sessions, plans>>
       ELSE /\ calls' = [calls EXCEPT ![c] = NoCall]
            /\ IF IndexAllows(calls[c].session)
               THEN /\ plans' = [plans EXCEPT ![calls[c].session][calls[c].plan].state = "stale"]
                    /\ _set_state(calls[c].session, "stale")
               ELSE UNCHANGED <<sessions, plans>>
    /\ UNCHANGED <<receipts, repo, imports>>

(* Wrong variant: the claim trusts the check made before the provider      *)
(* round trip and does not look at the session's state again.              *)
MayMaterialiseUnlocked(s, k) == receipts[s][k] = 0

(* Wrong variant: everything was checked before the round trip.            *)
MayMaterialiseOnTrust(s, k) == s \in Sessions /\ k \in IdemKeys

(* claim_apply and lock_session_for: the key is free, the session is       *)
(* approved - which version it is approved for is not asked again.         *)
MayMaterialise(s, k) ==
    /\ receipts[s][k] = 0
    /\ sessions[s].state \in ALLOWED_STATES["apply"]

(* One transaction: claim, state check under the lock, every handler, the  *)
(* receipt, the plan and the session.  A held key is replayed or refused,  *)
(* and a session that moved on is refused: neither changes anything.       *)
_materialise_session(c) ==
    LET s == calls[c].session
        v == calls[c].plan
    IN  /\ Applying(c) /\ calls[c].fresh
        /\ IF MayMaterialise(s, calls[c].key)
           THEN /\ receipts' = [receipts EXCEPT ![s][calls[c].key] = v]
                /\ plans' = [plans EXCEPT ![s][v].state = "applied"]
                /\ _set_state(s, "imported")
                /\ imports' = Append(imports,
                     [session |-> s, plan |-> v, key |-> calls[c].key,
                      approved |-> sessions[s].approved])
           ELSE UNCHANGED <<receipts, plans, sessions, imports>>
        /\ calls' = [calls EXCEPT ![c] = NoCall]
        /\ UNCHANGED repo

-----------------------------------------------------------------------------
(* What ends or outdates a session.                                        *)

(* The session's own part of cancel; GitOpsRequests adds the cascade.      *)
cancel_session(s) ==
    /\ sessions[s].state \in ALLOWED_STATES["cancel"]
    /\ _set_state(s, "cancelled")
    /\ UNCHANGED <<plans, receipts, repo, calls, imports>>

(* Somebody pushes to the default branch.                                  *)
Push ==
    /\ repo.head < MaxCommit
    /\ repo' = [repo EXCEPT !.head = @ + 1]
    /\ UNCHANGED <<sessions, plans, receipts, calls, imports>>

(* What the push webhook is written to do.  As the router stands no push   *)
(* reaches it (GitHubApp); here it may run at any time, twice or never.    *)
mark_stale_for_commit(commit) ==
    LET outdated(s, v) == /\ Live(s) /\ plans[s][v].commit # commit
                          /\ plans[s][v].state \in {"ready", "needs_review"}
    IN  /\ commit \in 2..repo.head
        /\ \E s \in Sessions : \E v \in DOMAIN plans[s] : outdated(s, v)
        /\ plans' = [s \in Sessions |-> [v \in DOMAIN plans[s] |->
                       IF outdated(s, v) THEN [plans[s][v] EXCEPT !.state = "stale"]
                       ELSE plans[s][v]]]
        /\ sessions' = [s \in Sessions |->
                          IF sessions[s].state \in {"needs_review", "ready", "approved"}
                          THEN [sessions[s] EXCEPT !.state = "stale"] ELSE sessions[s]]
        /\ UNCHANGED <<receipts, repo, calls, imports>>

CallerStep(c) ==
    \/ \E s \in Sessions : analyze(c, s)
    \/ Scan(c) \/ ScanUnavailable(c) \/ _record_analysis(c)
    \/ \E s \in Sessions, v \in 1..MaxPlans, k \in IdemKeys : apply(c, s, v, k)
    \/ ApplyChecksHead(c) \/ _materialise_session(c)
    \/ CallLost(c)

(* Everything but cancel, which reaches beyond the session's own rows.     *)
SessionStep ==
    \/ \E s \in Sessions : create_session(s)
    \/ \E s \in Sessions, v \in 1..MaxPlans : approve(s, v)
    \/ \E c \in Callers : CallerStep(c)
    \/ Push
    \/ \E commit \in Commits : mark_stale_for_commit(commit)

SessionNext == SessionStep \/ \E s \in Sessions : cancel_session(s)

SessionSpec == SessionInit /\ [][SessionNext]_sessionVars

-----------------------------------------------------------------------------
(* Properties.                                                             *)

Contract == INSTANCE OnboardingContract WITH
    standing <- {s \in Sessions : sessions[s].state = "approved"},
    imported <- [s \in Sessions |->
                   Cardinality({i \in DOMAIN imports : imports[i].session = s})]

(* The session protocol implements the contract: whatever retries,         *)
(* concurrent applies under other keys, pushes, cancels and late requests  *)
(* do, the catalog changes only while an approval stands, and uses it up   *)
(* (service.py _materialise: the state check under the row lock).          *)
ImportsFollowApproval == Contract!ContractSpec

(* A key stands for one import: whatever was committed under it is what    *)
(* its receipt names, and is committed once (service.py claim_apply).      *)
ReceiptIsTheImport ==
    SessionTypeOK /\ \A s \in Sessions, k \in IdemKeys :
      LET mine == {i \in DOMAIN imports : imports[i].session = s /\ imports[i].key = k}
      IN  /\ Cardinality(mine) <= 1
          /\ \A i \in mine : receipts[s][k] = imports[i].plan
          /\ receipts[s][k] # 0 => mine # {}

-----------------------------------------------------------------------------
(* Stated by the documents, and not kept by the code: TLC refutes what     *)
(* follows (README, section 6).                                            *)

(* What is applied is what was approved: "Approving one version and        *)
(* applying another is exactly the failure a plan version exists to        *)
(* prevent" (service.py apply).                                            *)
AppliedWasApproved == \A i \in DOMAIN imports : imports[i].plan = imports[i].approved

(* imported and cancelled "are terminal, and the way to revisit a          *)
(* repository is a NEW session" (service.py ALLOWED_STATES).               *)
TerminalSessionsStay ==
    [][\A s \in Sessions :
         sessions[s].state \in Terminal => sessions'[s].state = sessions[s].state]_sessionVars
=============================================================================
