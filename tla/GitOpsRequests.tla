--------------------------- MODULE GitOpsRequests ---------------------------
(***************************************************************************)
(* Proposing a manifest to the repository (onboarding/gitops.py and        *)
(* github_provider.py), composed with the session it belongs to.           *)
(*                                                                         *)
(* A request row is an outbox entry: workers lease it, re-check it, mark   *)
(* it in flight, talk to GitHub outside any transaction, and write the     *)
(* outcome only if the row is still the one they marked.  The row's        *)
(* version is a fencing token; here `holder` says whose version it is.     *)
(* A worker leases a batch and sends it one call after another; the model  *)
(* gives each leased row a worker of its own, and lets a lease run out at  *)
(* any moment, also during the call it protects.                           *)
(***************************************************************************)
EXTENDS OnboardingSession

CONSTANTS
    Pushers,        \* GitOps workers
    MAX_ATTEMPTS,   \* times a request may be sent
    Idle            \* a pusher with no row, a row with no holder

ASSUME GitOpsAssumption == MAX_ATTEMPTS \in Nat \ {0}

VARIABLES
    requests,   \* gitops_requests, by session and base commit (the idempotency key)
    pushers,    \* what each worker is doing
    gated,      \* the repository is closed by a security gate
    branches    \* GitHub: Drake's branch for the session, and its pull request

gitopsVars == <<requests, pushers, gated, branches>>
onboardingVars == <<sessionVars, gitopsVars>>

RequestKeys == Sessions \X Commits
CLAIMABLE_SESSION_STATES == ALLOWED_STATES["gitops"]

Timers == {"none", "due", "leased", "backoff"}
Rows == [state : {"none", "pending", "active", "failed", "cancelled"},
         marker : BOOLEAN, timer : Timers, attempts : 0..MAX_ATTEMPTS,
         holder : Pushers \cup {Idle}]
CallSteps == {"claimed", "inspect", "reuse", "branch", "file", "open", "answered"}
Answers == {"none", "exists", "retryable", "terminal"}
BranchStates == {"none", "absent", "at_base", "ready", "conflict"}

GitOpsTypeOK ==
    /\ requests \in [RequestKeys -> Rows]
    /\ pushers \in [Pushers -> {Idle} \cup
         [key : RequestKeys, step : CallSteps, draft : Commits, seen : BranchStates,
          answer : Answers, late : BOOLEAN]]
    /\ gated \in BOOLEAN
    /\ branches \in [Sessions -> [base : 0..MaxCommit, file : BOOLEAN, pr : BOOLEAN]]

GitOpsInit ==
    /\ SessionInit
    /\ requests = [k \in RequestKeys |-> [state |-> "none", marker |-> FALSE, timer |-> "none",
                                   attempts |-> 0, holder |-> Idle]]
    /\ pushers = [w \in Pushers |-> Idle]
    /\ gated = FALSE
    /\ branches = [s \in Sessions |-> [base |-> 0, file |-> FALSE, pr |-> FALSE]]

-----------------------------------------------------------------------------
(* Asking for a proposal, and withdrawing it.                              *)

(* One transaction under the session's row lock.  Asking again for the     *)
(* same commit finds the row there already, whatever its state.            *)
request_pull_request(s) ==
    LET k == <<s, sessions[s].commit>>
    IN  /\ sessions[s].state \in ALLOWED_STATES["gitops"]
        /\ sessions[s].commit # 0 /\ ~gated
        /\ requests[k].state = "none"
        /\ requests' = [requests EXCEPT ![k].state = "pending", ![k].timer = "due"]
        /\ UNCHANGED <<sessionVars, pushers, gated, branches>>

(* A row whose attempts nobody will read again.                            *)
Closed(state) ==
    [state |-> state, marker |-> FALSE, timer |-> "none", attempts |-> 0, holder |-> Idle]

(* A row that is due again after the backoff, and may be cancelled.        *)
Rearmed(row) == [row EXCEPT !.marker = FALSE, !.timer = "backoff", !.holder = Idle]

(* The cascade leaves alone what a worker has marked in flight.            *)
MayCascade(row) == row.state = "pending" /\ ~row.marker

cancel_pending_for_session(s) ==
    requests' = [k \in RequestKeys |-> IF k[1] = s /\ MayCascade(requests[k])
                                THEN Closed("cancelled") ELSE requests[k]]

(* Cancel: the session and its requests, in one transaction.               *)
cancel(s) ==
    /\ cancel_session(s)
    /\ cancel_pending_for_session(s)
    /\ UNCHANGED <<pushers, gated, branches>>

(* An operator closes the repository by a security gate.                   *)
CloseByGate ==
    /\ ~gated /\ gated' = TRUE
    /\ UNCHANGED <<sessionVars, requests, pushers, branches>>

-----------------------------------------------------------------------------
(* The worker.                                                             *)

Sending(w, step) == pushers[w] # Idle /\ pushers[w].step = step
Proceed(w, step) ==
    pushers' = [pushers EXCEPT ![w].step = step, ![w].seen = "none"]
Answer(w, answer) ==
    pushers' = [pushers EXCEPT ![w].step = "answered", ![w].seen = "none", ![w].answer = answer]
InCall(w, k) == pushers[w] # Idle /\ pushers[w].key = k /\ pushers[w].step # "claimed"

(* Wrong variant: the ceiling is only looked at when an answer arrives.    *)
ExhaustedNever(row) == row.attempts < 0

Exhausted(row) == row.attempts >= MAX_ATTEMPTS

(* Counting stops at the ceiling, which Exhausted keeps a claim from       *)
(* passing.                                                                *)
NextAttempt(n) == IF n < MAX_ATTEMPTS THEN n + 1 ELSE n

(* A due row is closed if it may not be sent any more, and leased if it    *)
(* may.  Leasing clears no marker.  The draft is regenerated from the      *)
(* session's newest analysis.                                              *)
_claim(w, k) ==
    LET row == requests[k]
        close(state) == /\ requests' = [requests EXCEPT ![k] = Closed(state)]
                        /\ UNCHANGED pushers
    IN  /\ pushers[w] = Idle
        /\ row.state = "pending" /\ row.timer = "due"
        /\ IF gated \/ Exhausted(row) THEN close("failed")
           ELSE IF sessions[k[1]].state \notin CLAIMABLE_SESSION_STATES THEN close("cancelled")
           ELSE /\ requests' = [requests EXCEPT ![k].attempts = NextAttempt(@),
                                               ![k].timer = "leased", ![k].holder = w]
                /\ pushers' = [pushers EXCEPT ![w] =
                     [key |-> k, step |-> "claimed", draft |-> sessions[k[1]].commit,
                      seen |-> "none", answer |-> "none", late |-> FALSE]]
        /\ UNCHANGED <<sessionVars, gated, branches>>

Leased(w, k) ==
    requests[k].holder = w /\ requests[k].state = "pending"

(* Wrong variant: a claim is authority enough, and nothing is re-checked.  *)
MayDispatchOnClaim(w, k) == pushers[w].key = k

MayDispatch(w, k) ==
    /\ Leased(w, k) /\ requests[k].timer = "leased"
    /\ sessions[k[1]].state \in CLAIMABLE_SESSION_STATES
    /\ ~gated

(* Everything the claim checked is checked again, the row is marked in     *)
(* flight, and a draft that is not the audited one is not sent.  A gate    *)
(* that closed meanwhile fails the request; anything else drops it.        *)
_begin_dispatch(w) ==
    LET k == pushers[w].key
    IN  /\ pushers[w] # Idle /\ pushers[w].step = "claimed"
        /\ IF MayDispatch(w, k)
           THEN /\ requests' = [requests EXCEPT ![k].marker = TRUE, ![k].holder = w]
                /\ IF pushers[w].draft = k[2]
                   THEN Proceed(w, "inspect") ELSE Answer(w, "terminal")
           ELSE /\ pushers' = [pushers EXCEPT ![w] = Idle]
                /\ requests' = IF gated /\ Leased(w, k)
                               THEN [requests EXCEPT ![k] = Closed("failed")] ELSE requests
        /\ UNCHANGED <<sessionVars, gated, branches>>

(* The outcome, only over the row this worker took in flight.              *)
_finish(w) ==
    LET k == pushers[w].key
        row == requests[k]
        again == pushers[w].answer = "retryable" /\ row.attempts < MAX_ATTEMPTS
    IN  /\ pushers[w] # Idle /\ pushers[w].step = "answered"
        /\ requests' =
             IF ~(Leased(w, k) /\ row.marker) THEN requests
             ELSE [requests EXCEPT ![k] =
                     IF pushers[w].answer = "exists" THEN Closed("active")
                     ELSE IF again THEN Rearmed(row)
                     ELSE Closed("failed")]
        /\ pushers' = [pushers EXCEPT ![w] = Idle]
        /\ UNCHANGED <<sessionVars, gated, branches>>

(* The process dies; its rows stay as they are until the lease runs out.   *)
PusherDies(w) ==
    /\ pushers[w] # Idle
    /\ pushers' = [pushers EXCEPT ![w] = Idle]
    /\ UNCHANGED <<sessionVars, requests, gated, branches>>

(* A lease runs out, a backoff passes.  A call is cut off after 120 s and  *)
(* a lease lasts 600 s, so one call sees at most one lease end.            *)
TimePasses(k) ==
    /\ requests[k].timer \in {"leased", "backoff"}
    /\ \A w \in Pushers : InCall(w, k) => ~pushers[w].late
    /\ requests' = [requests EXCEPT ![k].timer = "due"]
    /\ pushers' = [w \in Pushers |-> IF InCall(w, k) THEN [pushers[w] EXCEPT !.late = TRUE]
                                     ELSE pushers[w]]
    /\ UNCHANGED <<sessionVars, gated, branches>>

-----------------------------------------------------------------------------
(* The provider call: create or reuse, one request to GitHub at a time.    *)

(* Drake's branch as the request for key k sees it.                        *)
_inspect_branch(k) ==
    LET branch == branches[k[1]]
    IN  IF branch.base = 0 THEN "absent"
        ELSE IF branch.base # k[2] THEN "conflict"
        ELSE IF branch.file THEN "ready" ELSE "at_base"

(* The base must still be what was reviewed; then the branch is read.      *)
InspectStep(w) ==
    /\ Sending(w, "inspect")
    /\ IF repo.head # pushers[w].key[2] THEN Answer(w, "terminal")
       ELSE pushers' = [pushers EXCEPT ![w].step = "reuse",
                                       ![w].seen = _inspect_branch(pushers[w].key)]
    /\ UNCHANGED <<sessionVars, requests, gated, branches>>

(* An open pull request is reused only over a branch that is the proposal. *)
Reuse(w) ==
    IF branches[pushers[w].key[1]].pr
    THEN Answer(w, IF pushers[w].seen = "ready" THEN "exists" ELSE "terminal")
    ELSE IF pushers[w].seen = "conflict" THEN Answer(w, "terminal")
    ELSE Proceed(w, IF pushers[w].seen = "absent" THEN "branch"
                    ELSE IF pushers[w].seen = "ready" THEN "open" ELSE "file")

ReuseStep(w) ==
    /\ Sending(w, "reuse")
    /\ Reuse(w)
    /\ UNCHANGED <<sessionVars, requests, gated, branches>>

(* A write lands and its answer arrives, or lands and the answer is lost.  *)
Landed(w, next) == next \/ Answer(w, "retryable")

(* The branch is created from the reviewed commit; one that appeared       *)
(* meanwhile is read again.                                                *)
CreateBranch(w) ==
    LET k == pushers[w].key
        found == _inspect_branch(k)
    IN  /\ Sending(w, "branch")
        /\ IF found = "absent"
           THEN /\ branches' = [branches EXCEPT ![k[1]].base = k[2]]
                /\ Landed(w, Proceed(w, "file"))
           ELSE /\ UNCHANGED branches
                /\ IF found = "conflict" THEN Answer(w, "terminal")
                   ELSE Proceed(w, IF found = "ready" THEN "open" ELSE "file")
        /\ UNCHANGED <<sessionVars, requests, gated>>

(* The manifest, unless it is there already.                               *)
_write_file(w) ==
    /\ Sending(w, "file")
    /\ branches' = [branches EXCEPT ![pushers[w].key[1]].file = TRUE]
    /\ Landed(w, Proceed(w, "open"))
    /\ UNCHANGED <<sessionVars, requests, gated>>

(* Look once more, then open.  GitHub keeps one open pull request per head *)
(* and base.                                                               *)
OpenPullRequest(w) ==
    /\ Sending(w, "open")
    /\ branches' = [branches EXCEPT ![pushers[w].key[1]].pr = TRUE]
    /\ Landed(w, Answer(w, "exists"))
    /\ UNCHANGED <<sessionVars, requests, gated>>

(* GitHub refuses, fails or is too slow, and the write did not land.       *)
CallFails(w) ==
    /\ pushers[w] # Idle /\ pushers[w].step \notin {"claimed", "answered"}
    /\ \E answer \in {"retryable", "terminal"} : Answer(w, answer)
    /\ UNCHANGED <<sessionVars, requests, gated, branches>>

PusherStep(w) ==
    \/ \E k \in RequestKeys : _claim(w, k)
    \/ _begin_dispatch(w) \/ _finish(w)
    \/ InspectStep(w) \/ ReuseStep(w) \/ CreateBranch(w) \/ _write_file(w)
    \/ OpenPullRequest(w) \/ CallFails(w)

GitOpsNext ==
    \/ SessionStep /\ UNCHANGED gitopsVars
    \/ \E s \in Sessions : cancel(s) \/ request_pull_request(s)
    \/ CloseByGate
    \/ \E w \in Pushers : PusherStep(w) \/ PusherDies(w)
    \/ \E k \in RequestKeys : TimePasses(k)

(* The workers loop for ever and time passes; nothing is assumed of the    *)
(* operators, of GitHub's answers or of how often a worker dies.           *)
GitOpsFairness ==
    /\ \A w \in Pushers : WF_onboardingVars(PusherStep(w))
    /\ \A k \in RequestKeys : WF_onboardingVars(TimePasses(k))

GitOpsSpec == GitOpsInit /\ [][GitOpsNext]_onboardingVars /\ GitOpsFairness

-----------------------------------------------------------------------------
(* Properties.                                                             *)

(* `active` is a fact about the repository: there is a pull request, over  *)
(* a branch that holds this proposal and is based on this commit, whatever *)
(* retries, lost answers and other workers did (github_provider.py         *)
(* _reconcile, gitops.py _finish).                                         *)
ActiveIsReal ==
    \A k \in RequestKeys : requests[k].state = "active" =>
      branches[k[1]] = [base |-> k[2], file |-> TRUE, pr |-> TRUE]

(* A request is not closed as cancelled while a worker talks to GitHub     *)
(* about it, unless that call has outlived its lease (gitops.py            *)
(* cancel_pending_for_session against _begin_dispatch).                    *)
CancelledNotInFlight ==
    \A k \in RequestKeys, w \in Pushers :
      requests[k].state = "cancelled" /\ InCall(w, k) /\ pushers[w].step # "answered"
      => pushers[w].late

(* The row of a request tells the truth about GitHub: active when there is *)
(* a pull request, cancelled when nobody is working on it any more.        *)
RequestRowsAreTrue == GitOpsTypeOK /\ ActiveIsReal /\ CancelledNotInFlight

(* Every request ends - active, failed or cancelled - even if workers die  *)
(* at every attempt (gitops.py _claim: "a row that sits in the queue for   *)
(* ever").                                                                 *)
RequestSettles ==
    \A k \in RequestKeys : requests[k].state = "pending" ~> requests[k].state # "pending"

-----------------------------------------------------------------------------
(* Stated by the documents, and not kept by the code: TLC refutes what     *)
(* follows (README, section 6).                                            *)

(* A cancelled request left nothing behind: "nothing was created, so there *)
(* is nothing in flight to protect" (gitops.py process_pending).           *)
CancelledLeftNothing ==
    \A k \in RequestKeys : requests[k].state = "cancelled" => branches[k[1]].base # k[2]
=============================================================================
