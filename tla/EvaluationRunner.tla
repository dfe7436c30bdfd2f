-------------------------- MODULE EvaluationRunner --------------------------
(***************************************************************************)
(* The periodic sweep that evaluates bindings (incidents/runner.py): every *)
(* replica runs the loop, a Redis lease with a unique token admits a cycle,*)
(* and a cycle walks the due bindings by id, at most CycleBatch of them.   *)
(* What an evaluation does is IncidentLifecycle; here it only counts that  *)
(* it was made.                                                            *)
(***************************************************************************)
EXTENDS Naturals, FiniteSets, FiniteSetsExt

CONSTANTS
    Replicas,       \* processes running EvaluationRunner
    BindingCount,   \* bindings are their ids, 1..BindingCount, in id order
    CycleBatch,     \* batch_size, also the page limit
    MaxAborts,      \* bound on the cycles that fail, are cancelled or die
    Tokens,         \* uuid4 tokens: as many as cycles that run at once
    NoToken

Bindings == 1..BindingCount

ASSUME RunnerAssumption ==
    /\ BindingCount \in Nat \ {0}
    /\ CycleBatch \in Nat \ {0}
    /\ MaxAborts \in Nat
    /\ NoToken \notin Tokens

VARIABLES
    due,        \* the active, resolved bindings
    lease,      \* Redis: the token stored under LEASE_KEY
    token,      \* [Replicas -> the token of its cycle, NoToken between cycles]
    cursor,     \* [Replicas -> id of the last binding of the last page]
    remaining,  \* [Replicas -> what is left of the batch]; locals of a cycle
    page,       \* [Replicas -> the bindings of the page still to evaluate]
    aborts,     \* how many cycles did not end well
    evaluated   \* ghost: the due bindings evaluated since they became due

cycleVars == <<token, cursor, remaining, page>>
runnerVars == <<due, lease, cycleVars, aborts, evaluated>>

RunnerInit ==
    /\ due \in SUBSET Bindings
    /\ lease = NoToken
    /\ token = [r \in Replicas |-> NoToken]
    /\ cursor = [r \in Replicas |-> 0]
    /\ remaining = [r \in Replicas |-> 0]
    /\ page = [r \in Replicas |-> {}]
    /\ aborts = 0
    /\ evaluated = {}

----------------------------------------------------------------------------
\* A binding is disabled, enabled or resolved.  Ghost: being due again, it is
\* to be evaluated again.
Toggle(b) ==
    /\ due' = IF b \in due THEN due \ {b} ELSE due \cup {b}
    /\ evaluated' = evaluated \ {b}
    /\ UNCHANGED <<lease, cycleVars, aborts>>

\* SET LEASE_KEY token NX EX: the cycle starts before the first binding.  A
\* held lease, or an unreachable Redis, skips the cycle.
AcquireLease(r) ==
    /\ token[r] = NoToken
    /\ lease = NoToken
    /\ \E t \in Tokens :
          /\ \A q \in Replicas : token[q] # t
          /\ lease' = t
          /\ token' = [token EXCEPT ![r] = t]
    /\ cursor' = [cursor EXCEPT ![r] = 0]
    /\ remaining' = [remaining EXCEPT ![r] = CycleBatch]
    /\ page' = [page EXCEPT ![r] = {}]
    /\ UNCHANGED <<due, aborts, evaluated>>

\* _due_bindings(limit, after): the first `limit` due ids above the cursor.
DueBindings(limit, after) ==
    LET above == {b \in due : b > after}
    IN  {b \in above : Cardinality({c \in above : c <= b}) <= limit}

\* The previous page is done: read the next one.  cursor and remaining move
\* when the page is complete; nobody reads them before.
ReadPage(r) ==
    LET next == DueBindings(remaining[r], cursor[r]) IN
    /\ token[r] # NoToken
    /\ page[r] = {}
    /\ next # {}
    /\ page' = [page EXCEPT ![r] = next]
    /\ cursor' = [cursor EXCEPT ![r] = Max(next)]
    /\ remaining' = [remaining EXCEPT ![r] = @ - Cardinality(next)]
    /\ UNCHANGED <<due, lease, token, aborts, evaluated>>

\* One of the page's evaluations ends, in any order; a binding that raises
\* is logged and skipped, which ends its evaluation too.
Evaluate(r, b) ==
    /\ b \in page[r]
    /\ page' = [page EXCEPT ![r] = @ \ {b}]
    /\ evaluated' = evaluated \cup ({b} \cap due)
    /\ UNCHANGED <<due, lease, token, cursor, remaining, aborts>>

\* Wrong variant: a blind DEL.
ReleaseBlindly(t) == lease' = NoToken

\* _RELEASE: delete the lease only if it still carries our token.
Release(t) == lease' = IF lease = t THEN NoToken ELSE lease

\* run_cycle returns, and its locals are gone.
EndCycle(r) ==
    /\ token' = [token EXCEPT ![r] = NoToken]
    /\ cursor' = [cursor EXCEPT ![r] = 0]
    /\ remaining' = [remaining EXCEPT ![r] = 0]
    /\ page' = [page EXCEPT ![r] = {}]

\* The sweep is over: the batch is used up or no binding is left.
FinishCycle(r) ==
    /\ token[r] # NoToken
    /\ page[r] = {}
    /\ remaining[r] = 0 \/ DueBindings(remaining[r], cursor[r]) = {}
    /\ Release(token[r])
    /\ EndCycle(r)
    /\ UNCHANGED <<due, aborts, evaluated>>

\* The cycle fails or is cancelled: the finally clause releases.  The
\* release itself may fail, and a replica that dies releases nothing.
AbortCycle(r) ==
    /\ token[r] # NoToken
    /\ aborts < MaxAborts
    /\ aborts' = aborts + 1
    /\ Release(token[r]) \/ UNCHANGED lease
    /\ EndCycle(r)
    /\ UNCHANGED <<due, evaluated>>

\* Wrong variant: the key has no TTL.
ExpireLeaseNever ==
    /\ lease = NoToken
    /\ FALSE
    /\ UNCHANGED runnerVars

\* lease_seconds pass.  The cycle that holds the lease does not notice: it
\* never renews it and never checks it again.
ExpireLease ==
    /\ lease # NoToken
    /\ lease' = NoToken
    /\ UNCHANGED <<due, cycleVars, aborts, evaluated>>

RunnerNext ==
    \/ \E b \in Bindings : Toggle(b)
    \/ \E r \in Replicas :
          \/ AcquireLease(r)
          \/ ReadPage(r)
          \/ \E b \in Bindings : Evaluate(r, b)
          \/ FinishCycle(r)
          \/ AbortCycle(r)
    \/ ExpireLease

RunnerSpec == RunnerInit /\ [][RunnerNext]_runnerVars

\* Redis expires a key it was given a TTL for; a cycle goes on (its next
\* page or its end, whichever the query finds) until it ends; the loops tick
\* forever, so a free lease is taken by some replica (no replica is promised
\* to be the one).  Nothing is assumed of the bindings.
RunnerFairness ==
    /\ WF_runnerVars(ExpireLease)
    /\ WF_runnerVars(\E r \in Replicas : AcquireLease(r))
    /\ \A r \in Replicas :
          /\ WF_runnerVars(ReadPage(r) \/ FinishCycle(r))
          /\ \A b \in Bindings : WF_runnerVars(Evaluate(r, b))

FairRunner == RunnerInit /\ [][RunnerNext]_runnerVars /\ RunnerFairness

----------------------------------------------------------------------------
\* A cycle deletes only the lease it holds: one that outlived its own lease
\* does not free the lease a faster replica took since (_RELEASE compares
\* the token).
ReleasesOnlyItsOwn ==
    [][lease # NoToken /\ lease' # lease /\ token' # token
       => \E r \in Replicas : token[r] = lease /\ token'[r] = NoToken]_runnerVars

\* A cycle always starts with the lowest ids and stops at the batch size
\* (run_cycle): these are the due bindings it gets to.
InReach(b) ==
    /\ b \in due
    /\ Cardinality({c \in due : c < b}) < CycleBatch

\* A due binding that the batch reaches is evaluated, unless the batch ceases
\* to reach it, whatever bindings come and go behind and before it and
\* whatever replicas crash with the lease in hand.  Of a binding behind a full
\* batch the code promises nothing (runner.py:1 says "every active binding").
EveryReachedBindingIsEvaluated ==
    \A b \in Bindings : InReach(b) ~> (b \in evaluated \/ ~InReach(b))

----------------------------------------------------------------------------
(* Stated by the source, and not kept by the code: TLC refutes it when     *)
(* there are more bindings than a batch (README, section 6).               *)

\* "Periodic, bounded evaluation of every active binding" (runner.py:1): each
\* cycle starts again with the lowest ids, so those behind a full batch wait
\* for ever.
EveryDueBindingIsEvaluated ==
    \A b \in Bindings : b \in due ~> (b \in evaluated \/ b \notin due)
====
