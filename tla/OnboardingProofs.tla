-------------------------- MODULE OnboardingProofs --------------------------
(***************************************************************************)
(* Proofs about bringing a repository in.                                  *)
(*                                                                         *)
(* OnboardingSession, for any number of sessions, requests, keys, commits  *)
(* and plan versions: an idempotency key stands for one import, and the    *)
(* protocol implements OnboardingContract.                                 *)
(*                                                                         *)
(* GitOpsRequests, for any number of workers, attempts and lost answers:   *)
(* the row of a pull request request is true of what GitHub holds.         *)
(*                                                                         *)
(* GitHubApp, for any number of repositories, webhooks, sweepers and       *)
(* operators: a repository is ready only when nothing stands against it,   *)
(* and what is recorded as done was done.                                  *)
(*                                                                         *)
(* PolicyRules, for any repository: no pass rests on what was not read.    *)
(*                                                                         *)
(* OnboardingPlan, for any manifests and any edits around them, bindings   *)
(* made by hand among them: an import gives no service a second workload   *)
(* of its own accord, a binding finds its workload in the step that brings *)
(* them together, and importing what fits a plan twice leaves nothing to   *)
(* import.                                                                 *)
(***************************************************************************)
EXTENDS OnboardingPlan, GitOpsRequests, GitHubApp, PolicyRules, FiniteSetTheorems,
        WellFoundedInduction, TLAPS

PlanRow == [commit : Commits, state : PlanStates, blocking : BOOLEAN]
SessionRow == [state : SessionStates, approved : 0..MaxPlans, commit : 0..MaxCommit]
ImportRow == [session : Sessions, plan : 1..MaxPlans, key : IdemKeys, approved : 0..MaxPlans]
AnalyzeCall == [op : {"analyze"}, session : Sessions, commit : 0..MaxCommit]
ApplyCall == [op : {"apply"}, session : Sessions, plan : 1..MaxPlans, key : IdemKeys,
              fresh : BOOLEAN]

(* SessionTypeOK says of the plans only what TLC can evaluate; the proofs  *)
(* need that they are sequences of rows, and the type of the history.      *)
SessionTypes ==
    /\ sessions \in [Sessions -> SessionRow]
    /\ plans \in [Sessions -> Seq(PlanRow)]
    /\ \A s \in Sessions : Len(plans[s]) <= MaxPlans
    /\ receipts \in [Sessions -> [IdemKeys -> 0..MaxPlans]]
    /\ repo \in [head : Commits, manifests : [Commits -> {"none", "blocked", "ready"}]]
    /\ calls \in [Callers -> AnalyzeCall \cup ApplyCall \cup {NoCall}]
    /\ imports \in Seq(ImportRow)

(* Receipts and imports determine each other.                              *)
KeysAgree ==
    /\ \A i, j \in DOMAIN imports :
         /\ imports[i].session = imports[j].session
         /\ imports[i].key = imports[j].key
         => i = j
    /\ \A i \in DOMAIN imports :
         receipts[imports[i].session][imports[i].key] = imports[i].plan
    /\ \A s \in Sessions, k \in IdemKeys :
         receipts[s][k] # 0 =>
            \E i \in DOMAIN imports : imports[i].session = s /\ imports[i].key = k

\* The inductive invariant of the session protocol.
SessionInv == SessionTypes /\ KeysAgree

----------------------------------------------------------------------------
(* Types.                                                                  *)

\* The initial state is well typed.
LEMMA TypesInit == SessionInit => SessionTypes
<1> SUFFICES ASSUME SessionInit
             PROVE  SessionTypes
  OBVIOUS
<1>1. 1 \in Commits /\ 0 \in 0..MaxPlans /\ 0 \in 0..MaxCommit
  BY SessionAssumption DEF SessionAssumption, Commits
<1>2. << >> \in Seq(PlanRow) /\ << >> \in Seq(ImportRow) /\ Len(<< >>) = 0
  OBVIOUS
<1> QED
  BY <1>1, <1>2, SessionAssumption
  DEF SessionAssumption, SessionInit, SessionTypes, SessionRow, SessionStates

\* What an analysis and an approval make of a session row is a row.
LEMMA RowType ==
    ASSUME NEW row \in SessionRow, NEW state \in SessionStates
    PROVE  /\ \A commit \in 0..MaxCommit :
                [row EXCEPT !.state = state, !.commit = commit] \in SessionRow
           /\ \A v \in 0..MaxPlans :
                [row EXCEPT !.state = state, !.approved = v] \in SessionRow
BY DEF SessionRow

\* Setting a state keeps the type of the session rows.
LEMMA SetStateType ==
    ASSUME SessionTypes, NEW s \in Sessions, NEW state \in SessionStates,
           _set_state(s, state)
    PROVE  sessions' \in [Sessions -> SessionRow]
BY DEF SessionTypes, SessionRow, _set_state

\* Setting the state of one row keeps a sequence of rows and its length.
LEMMA RowStateType ==
    ASSUME NEW shown \in Seq(PlanRow), NEW v, NEW state \in PlanStates
    PROVE  LET after == [shown EXCEPT ![v].state = state]
           IN  after \in Seq(PlanRow) /\ Len(after) = Len(shown)
<1> DEFINE after == [shown EXCEPT ![v].state = state]
<1>1. shown \in [1..Len(shown) -> PlanRow] /\ Len(shown) \in Nat
  OBVIOUS
<1>2. ASSUME NEW i \in 1..Len(shown)
      PROVE  [shown[i] EXCEPT !.state = state] \in PlanRow
  BY <1>1, <1>2 DEF PlanRow
<1>3. after \in [1..Len(shown) -> PlanRow]
  BY <1>1, <1>2
<1> HIDE DEF after
<1>4. after \in Seq(PlanRow) /\ Len(after) = Len(shown)
  BY <1>1, <1>3
<1> QED
  BY <1>4 DEF after

\* Setting the state of one version keeps the type of the plans.
LEMMA PlanStateType ==
    ASSUME SessionTypes, NEW s \in Sessions, NEW v, NEW state \in PlanStates,
           plans' = [plans EXCEPT ![s][v].state = state]
    PROVE  /\ plans' \in [Sessions -> Seq(PlanRow)]
           /\ \A t \in Sessions : Len(plans'[t]) <= MaxPlans
<1> DEFINE after == [plans[s] EXCEPT ![v].state = state]
<1>1. plans[s] \in Seq(PlanRow) /\ Len(plans[s]) <= MaxPlans
  BY DEF SessionTypes
<1>2. after \in Seq(PlanRow) /\ Len(after) = Len(plans[s])
  BY <1>1, RowStateType
<1>3. plans' = [plans EXCEPT ![s] = after]
  OBVIOUS
<1> HIDE DEF after
<1> QED
  BY <1>1, <1>2, <1>3 DEF SessionTypes

\* A new version is appended to versions that keep their number.
LEMMA StorePlanType ==
    ASSUME SessionTypes, NEW s \in Sessions, NEW commit \in Commits, NEW blocking \in BOOLEAN,
           Len(plans[s]) < MaxPlans, _store_plan(s, commit, blocking)
    PROVE  /\ plans' \in [Sessions -> Seq(PlanRow)]
           /\ \A t \in Sessions : Len(plans'[t]) <= MaxPlans
<1> DEFINE kept == [v \in DOMAIN plans[s] |->
                      IF plans[s][v].state \in {"ready", "needs_review"}
                      THEN [plans[s][v] EXCEPT !.state = "superseded"] ELSE plans[s][v]]
           row == [commit |-> commit, state |-> IF blocking THEN "needs_review" ELSE "ready",
                   blocking |-> blocking]
<1>1. /\ plans[s] \in [1..Len(plans[s]) -> PlanRow]
      /\ Len(plans[s]) < MaxPlans /\ Len(plans[s]) \in Nat
  BY DEF SessionTypes
<1>2. row \in PlanRow
  BY DEF PlanRow, PlanStates
<1>3. ASSUME NEW v \in 1..Len(plans[s])
      PROVE  [plans[s][v] EXCEPT !.state = "superseded"] \in PlanRow
  BY <1>1, <1>3 DEF PlanRow, PlanStates
<1>4. kept \in [1..Len(plans[s]) -> PlanRow]
  BY <1>1, <1>3
<1>5. plans' = [plans EXCEPT ![s] = Append(kept, row)]
  BY DEF _store_plan
<1> HIDE DEF kept, row
<1>6. kept \in Seq(PlanRow) /\ Len(kept) = Len(plans[s])
  BY <1>1, <1>4
<1>7. Append(kept, row) \in Seq(PlanRow) /\ Len(Append(kept, row)) = Len(plans[s]) + 1
  BY <1>2, <1>6
<1> QED
  BY <1>1, <1>5, <1>7, SessionAssumption DEF SessionTypes, SessionAssumption

\* A push that outdates plans leaves every version in its place.
LEMMA OutdatedType ==
    ASSUME SessionTypes, NEW commit \in Commits, mark_stale_for_commit(commit)
    PROVE  /\ plans' \in [Sessions -> Seq(PlanRow)]
           /\ \A t \in Sessions : Len(plans'[t]) <= MaxPlans
           /\ sessions' \in [Sessions -> SessionRow]
<1> DEFINE outdated(s, v) == /\ Live(s) /\ plans[s][v].commit # commit
                             /\ plans[s][v].state \in {"ready", "needs_review"}
           marked(s) == [v \in DOMAIN plans[s] |->
                           IF outdated(s, v) THEN [plans[s][v] EXCEPT !.state = "stale"]
                           ELSE plans[s][v]]
<1>1. ASSUME NEW s \in Sessions
      PROVE  marked(s) \in Seq(PlanRow) /\ Len(marked(s)) <= MaxPlans
  <2>1. /\ plans[s] \in [1..Len(plans[s]) -> PlanRow]
        /\ Len(plans[s]) <= MaxPlans /\ Len(plans[s]) \in Nat
    BY DEF SessionTypes
  <2>2. ASSUME NEW v \in 1..Len(plans[s])
        PROVE  [plans[s][v] EXCEPT !.state = "stale"] \in PlanRow
    BY <2>1, <2>2 DEF PlanRow, PlanStates
  <2> HIDE DEF outdated
  <2>3. marked(s) \in [1..Len(plans[s]) -> PlanRow]
    BY <2>1, <2>2
  <2> HIDE DEF marked
  <2> QED
    BY <2>1, <2>3
<1>2. plans' = [s \in Sessions |-> marked(s)]
  BY DEF mark_stale_for_commit
<1>3. sessions' \in [Sessions -> SessionRow]
  <2>1. sessions \in [Sessions -> SessionRow]
    BY DEF SessionTypes
  <2>2. ASSUME NEW s \in Sessions
        PROVE  [sessions[s] EXCEPT !.state = "stale"] \in SessionRow
    BY <2>1, <2>2 DEF SessionRow, SessionStates
  <2> QED
    BY <2>1, <2>2 DEF mark_stale_for_commit
<1> HIDE DEF marked
<1> QED
  BY <1>1, <1>2, <1>3

\* The steps of a request keep the types.
LEMMA TypesCaller ==
    ASSUME SessionTypes, NEW c \in Callers, CallerStep(c)
    PROVE  SessionTypes'
<1> USE SessionAssumption DEF SessionAssumption
<1>1. ASSUME NEW s \in Sessions, analyze(c, s)
      PROVE  SessionTypes'
  <2>1. sessions' \in [Sessions -> SessionRow]
    BY <1>1, SetStateType DEF analyze, SessionStates
  <2>2. [op |-> "analyze", session |-> s, commit |-> 0] \in AnalyzeCall
    BY DEF AnalyzeCall
  <2> QED
    BY <1>1, <2>1, <2>2 DEF analyze, SessionTypes
<1>2. CASE Scan(c)
  <2>1. calls[c] \in AnalyzeCall /\ repo.head \in 0..MaxCommit
    BY <1>2 DEF Scan, Analyzing, SessionTypes, AnalyzeCall, ApplyCall, Commits
  <2>2. [calls[c] EXCEPT !.commit = repo.head] \in AnalyzeCall
    BY <2>1 DEF AnalyzeCall
  <2> QED
    BY <1>2, <2>2 DEF Scan, SessionTypes
<1>3. CASE ScanUnavailable(c)
  <2>1. calls[c].session \in Sessions
    BY <1>3 DEF ScanUnavailable, Analyzing, SessionTypes, AnalyzeCall, ApplyCall
  <2>2. sessions' \in [Sessions -> SessionRow]
    BY <1>3, <2>1, SetStateType DEF ScanUnavailable, SessionStates, SessionTypes
  <2> QED
    BY <1>3, <2>2 DEF ScanUnavailable, SessionTypes
<1>4. CASE _record_analysis(c)
  <2> DEFINE s == calls[c].session
             found == repo.manifests[calls[c].commit]
             state == IF found = "ready" THEN "ready" ELSE "needs_review"
  <2>1. s \in Sessions /\ calls[c].commit \in Commits
    BY <1>4 DEF _record_analysis, Analyzing, SessionTypes, AnalyzeCall, ApplyCall, Commits
  <2>2. sessions' \in [Sessions -> SessionRow]
    <3>1. CASE UNCHANGED sessions
      BY <3>1 DEF SessionTypes
    <3>2. CASE sessions' = [sessions EXCEPT ![s].state = state, ![s].commit = calls[c].commit]
      <4>1. sessions \in [Sessions -> SessionRow]
        BY DEF SessionTypes
      <4>2. calls[c].commit \in 0..MaxCommit /\ state \in SessionStates
        BY <2>1 DEF Commits, SessionStates
      <4> HIDE DEF state
      <4>3. [sessions[s] EXCEPT !.state = state, !.commit = calls[c].commit] \in SessionRow
        BY <2>1, <4>1, <4>2, RowType
      <4> QED
        BY <2>1, <3>2, <4>1, <4>3
    <3> QED
      BY <1>4, <3>1, <3>2 DEF _record_analysis
  <2>3. /\ plans' \in [Sessions -> Seq(PlanRow)]
        /\ \A t \in Sessions : Len(plans'[t]) <= MaxPlans
    <3>1. CASE UNCHANGED plans
      BY <3>1 DEF SessionTypes
    <3>2. CASE _store_plan(s, calls[c].commit, found = "blocked")
      BY <1>4, <2>1, <3>2, StorePlanType DEF _record_analysis
    <3> QED
      BY <1>4, <3>1, <3>2 DEF _record_analysis
  <2> QED
    BY <1>4, <2>2, <2>3 DEF _record_analysis, SessionTypes
<1>5. ASSUME NEW s \in Sessions, NEW v \in 1..MaxPlans, NEW k \in IdemKeys, apply(c, s, v, k)
      PROVE  SessionTypes'
  <2>1. [op |-> "apply", session |-> s, plan |-> v, key |-> k, fresh |-> FALSE] \in ApplyCall
    BY DEF ApplyCall
  <2> QED
    BY <1>5, <2>1 DEF apply, SessionTypes
<1>6. CASE ApplyChecksHead(c)
  <2>1. calls[c] \in ApplyCall
    BY <1>6 DEF ApplyChecksHead, Applying, SessionTypes, AnalyzeCall
  <2>2. [calls[c] EXCEPT !.fresh = TRUE] \in ApplyCall
    BY <2>1 DEF ApplyCall
  <2>3. /\ calls' \in [Callers -> AnalyzeCall \cup ApplyCall \cup {NoCall}]
        /\ UNCHANGED <<receipts, repo, imports>>
    BY <1>6, <2>2 DEF ApplyChecksHead, SessionTypes
  <2>4. CASE UNCHANGED <<sessions, plans>>
    BY <2>3, <2>4 DEF SessionTypes
  <2>5. CASE /\ plans' = [plans EXCEPT ![calls[c].session][calls[c].plan].state = "stale"]
             /\ _set_state(calls[c].session, "stale")
    <3>1. /\ calls[c].session \in Sessions
          /\ "stale" \in PlanStates /\ "stale" \in SessionStates
      BY <2>1 DEF ApplyCall, PlanStates, SessionStates
    <3>2. sessions' \in [Sessions -> SessionRow]
      BY <2>5, <3>1, SetStateType
    <3>3. /\ plans' \in [Sessions -> Seq(PlanRow)]
          /\ \A t \in Sessions : Len(plans'[t]) <= MaxPlans
      BY <2>5, <3>1, PlanStateType
    <3> QED
      BY <2>3, <3>2, <3>3 DEF SessionTypes
  <2> QED
    BY <1>6, <2>4, <2>5 DEF ApplyChecksHead
<1>7. CASE _materialise_session(c)
  <2> DEFINE s == calls[c].session
             v == calls[c].plan
             k == calls[c].key
             row == [session |-> s, plan |-> v, key |-> k, approved |-> sessions[s].approved]
  <2>1. s \in Sessions /\ v \in 1..MaxPlans /\ k \in IdemKeys
    BY <1>7 DEF _materialise_session, Applying, SessionTypes, AnalyzeCall, ApplyCall
  <2>2. calls' \in [Callers -> AnalyzeCall \cup ApplyCall \cup {NoCall}] /\ UNCHANGED repo
    BY <1>7 DEF _materialise_session, SessionTypes
  <2>3. CASE ~MayMaterialise(s, k)
    BY <1>7, <2>2, <2>3 DEF _materialise_session, SessionTypes
  <2>4. CASE MayMaterialise(s, k)
    <3>1. "applied" \in PlanStates /\ "imported" \in SessionStates
      BY DEF PlanStates, SessionStates
    <3>2. sessions' \in [Sessions -> SessionRow]
      BY <1>7, <2>1, <2>4, <3>1, SetStateType DEF _materialise_session
    <3>3. /\ plans' \in [Sessions -> Seq(PlanRow)]
          /\ \A t \in Sessions : Len(plans'[t]) <= MaxPlans
      <4>1. plans' = [plans EXCEPT ![s][v].state = "applied"]
        BY <1>7, <2>4 DEF _materialise_session
      <4> QED
        BY <2>1, <3>1, <4>1, PlanStateType
    <3>4. receipts' \in [Sessions -> [IdemKeys -> 0..MaxPlans]]
      <4>1. receipts' = [receipts EXCEPT ![s][k] = v]
        BY <1>7, <2>4 DEF _materialise_session
      <4> QED
        BY <2>1, <4>1 DEF SessionTypes
    <3>5. row \in ImportRow
      BY <2>1 DEF ImportRow, SessionTypes, SessionRow
    <3>6. imports' = Append(imports, row)
      BY <1>7, <2>4 DEF _materialise_session
    <3> HIDE DEF row
    <3>7. imports' \in Seq(ImportRow)
      BY <3>5, <3>6 DEF SessionTypes
    <3> QED
      BY <2>2, <3>2, <3>3, <3>4, <3>7 DEF SessionTypes
  <2> QED
    BY <2>3, <2>4
<1>8. CASE CallLost(c)
  BY <1>8 DEF CallLost, SessionTypes
<1> QED
  BY <1>1, <1>2, <1>3, <1>4, <1>5, <1>6, <1>7, <1>8 DEF CallerStep

\* Every step of the protocol keeps the types.
LEMMA TypesNext == SessionTypes /\ [SessionNext]_sessionVars => SessionTypes'
<1> SUFFICES ASSUME SessionTypes, [SessionNext]_sessionVars
             PROVE  SessionTypes'
  OBVIOUS
<1> USE SessionAssumption DEF SessionAssumption
<1>1. ASSUME NEW s \in Sessions, create_session(s)
      PROVE  SessionTypes'
  <2>1. sessions' \in [Sessions -> SessionRow]
    BY <1>1, SetStateType DEF create_session, SessionStates
  <2> QED
    BY <1>1, <2>1 DEF create_session, SessionTypes
<1>2. ASSUME NEW s \in Sessions, NEW v \in 1..MaxPlans, approve(s, v)
      PROVE  SessionTypes'
  <2>1. [sessions[s] EXCEPT !.state = "approved", !.approved = v] \in SessionRow
    <3>1. sessions[s] \in SessionRow /\ v \in 0..MaxPlans
      BY DEF SessionTypes
    <3>2. "approved" \in SessionStates
      BY DEF SessionStates
    <3> QED
      BY <3>1, <3>2, RowType
  <2> QED
    BY <1>2, <2>1 DEF approve, SessionTypes
<1>3. ASSUME NEW s \in Sessions, cancel_session(s)
      PROVE  SessionTypes'
  <2>1. sessions' \in [Sessions -> SessionRow]
    BY <1>3, SetStateType DEF cancel_session, SessionStates
  <2> QED
    BY <1>3, <2>1 DEF cancel_session, SessionTypes
<1>4. CASE Push
  <2>1. [repo EXCEPT !.head = @ + 1]
           \in [head : Commits, manifests : [Commits -> {"none", "blocked", "ready"}]]
    <3>1. repo \in [head : Commits, manifests : [Commits -> {"none", "blocked", "ready"}]]
      BY DEF SessionTypes
    <3>2. repo.head + 1 \in Commits
      BY <1>4, <3>1 DEF Push, Commits
    <3> QED
      BY <3>1, <3>2
  <2> QED
    BY <1>4, <2>1 DEF Push, SessionTypes
<1>5. ASSUME NEW commit \in Commits, mark_stale_for_commit(commit)
      PROVE  SessionTypes'
  <2>1. UNCHANGED <<receipts, repo, calls, imports>>
    BY <1>5 DEF mark_stale_for_commit
  <2> QED
    BY <1>5, <2>1, OutdatedType DEF SessionTypes
<1>6. CASE UNCHANGED sessionVars
  BY <1>6 DEF sessionVars, SessionTypes
<1> QED
  BY <1>1, <1>2, <1>3, <1>4, <1>5, <1>6, TypesCaller DEF SessionNext, SessionStep

\* The types the proofs use imply the type invariant of the runs.
LEMMA TypesSuffice == SessionTypes => SessionTypeOK
<1> SUFFICES ASSUME SessionTypes
             PROVE  SessionTypeOK
  OBVIOUS
<1>1. sessions \in [Sessions -> [state : SessionStates, approved : 0..MaxPlans,
                                 commit : 0..MaxCommit]]
  BY DEF SessionTypes, SessionRow
<1>2. ASSUME NEW s \in Sessions
      PROVE  /\ Len(plans[s]) <= MaxPlans
             /\ \A v \in DOMAIN plans[s] :
                  plans[s][v] \in [commit : Commits, state : PlanStates, blocking : BOOLEAN]
  <2>1. plans[s] \in Seq(PlanRow) /\ Len(plans[s]) <= MaxPlans
    BY DEF SessionTypes
  <2>2. ASSUME NEW v \in DOMAIN plans[s]
        PROVE  plans[s][v] \in PlanRow
    BY <2>1, <2>2
  <2> QED
    BY <2>1, <2>2 DEF PlanRow
<1>3. calls \in [Callers -> Calls \cup {NoCall}]
  BY DEF SessionTypes, AnalyzeCall, ApplyCall, Calls
<1> QED
  BY <1>1, <1>2, <1>3 DEF SessionTypes, SessionTypeOK

----------------------------------------------------------------------------
(* A key stands for one import.                                            *)

\* The steps that import nothing touch neither receipts nor the history.
LEMMA OnlyImportsImport ==
    ASSUME [SessionNext]_sessionVars,
           ~ \E c \in Callers : /\ _materialise_session(c)
                               /\ MayMaterialise(calls[c].session, calls[c].key)
    PROVE  UNCHANGED <<receipts, imports>>
<1>1. CASE \E c \in Callers : CallerStep(c)
  <2> PICK c \in Callers : CallerStep(c)
    BY <1>1
  <2>1. CASE _materialise_session(c)
    BY <2>1 DEF _materialise_session
  <2>2. CASE ~_materialise_session(c)
    BY <2>2 DEF CallerStep, analyze, Scan, ScanUnavailable, _record_analysis, apply,
                ApplyChecksHead, CallLost
  <2> QED
    BY <2>1, <2>2
<1>2. CASE \/ \E s \in Sessions : create_session(s) \/ cancel_session(s)
           \/ \E s \in Sessions, v \in 1..MaxPlans : approve(s, v)
           \/ Push
           \/ \E commit \in Commits : mark_stale_for_commit(commit)
  BY <1>2 DEF create_session, cancel_session, approve, Push, mark_stale_for_commit
<1> QED
  BY <1>1, <1>2 DEF SessionNext, SessionStep, sessionVars

\* What an import does to the rows of its session and to the history.
LEMMA ImportEffect ==
    ASSUME SessionTypes, NEW c \in Callers, _materialise_session(c),
           MayMaterialise(calls[c].session, calls[c].key)
    PROVE  \E s \in Sessions, k \in IdemKeys, row \in ImportRow :
             /\ receipts[s][k] = 0 /\ sessions[s].state = "approved"
             /\ row.session = s /\ row.key = k
             /\ receipts' = [receipts EXCEPT ![s][k] = row.plan]
             /\ sessions' = [sessions EXCEPT ![s].state = "imported"]
             /\ imports' = Append(imports, row)
<1> DEFINE s == calls[c].session
           v == calls[c].plan
           k == calls[c].key
           row == [session |-> s, plan |-> v, key |-> k, approved |-> sessions[s].approved]
<1>1. s \in Sessions /\ v \in 1..MaxPlans /\ k \in IdemKeys
  BY DEF _materialise_session, Applying, SessionTypes, AnalyzeCall, ApplyCall
<1>2. row \in ImportRow
  BY <1>1 DEF ImportRow, SessionTypes, SessionRow
<1>3. receipts[s][k] = 0 /\ sessions[s].state = "approved"
  BY DEF MayMaterialise, ALLOWED_STATES
<1>4. /\ receipts' = [receipts EXCEPT ![s][k] = v]
      /\ sessions' = [sessions EXCEPT ![s].state = "imported"]
      /\ imports' = Append(imports, row)
  BY DEF _materialise_session, _set_state
<1>5. row.session = s /\ row.key = k /\ row.plan = v
  OBVIOUS
<1> HIDE DEF s, v, k, row
<1> QED
  BY <1>1, <1>2, <1>3, <1>4, <1>5

\* An import under a key without a receipt keeps receipts and history in step.
LEMMA KeysAgreeAfterImport ==
    ASSUME SessionInv, NEW s \in Sessions, NEW k \in IdemKeys, NEW row \in ImportRow,
           receipts[s][k] = 0, row.session = s, row.key = k,
           receipts' = [receipts EXCEPT ![s][k] = row.plan],
           imports' = Append(imports, row)
    PROVE  KeysAgree'
<1> DEFINE n == Len(imports) + 1
<1>1. /\ imports \in Seq(ImportRow) /\ Len(imports) \in Nat
      /\ receipts \in [Sessions -> [IdemKeys -> 0..MaxPlans]]
  BY DEF SessionInv, SessionTypes
<1>2. /\ DOMAIN imports = 1..Len(imports) /\ DOMAIN imports' = 1..n
      /\ imports'[n] = row
      /\ \A i \in 1..Len(imports) : imports'[i] = imports[i]
  BY <1>1
<1>3. \A i \in 1..Len(imports) : imports[i].session \in Sessions /\ imports[i].key \in IdemKeys
                                 /\ imports[i].plan \in 1..MaxPlans
  <2>1. \A i \in 1..Len(imports) : imports[i] \in ImportRow
    BY <1>1
  <2> QED
    BY <2>1 DEF ImportRow
<1>4. /\ row.plan \in 1..MaxPlans
      /\ receipts'[s][k] = row.plan
      /\ \A t \in Sessions, l \in IdemKeys :
           ~(t = s /\ l = k) => receipts'[t][l] = receipts[t][l]
  BY <1>1 DEF ImportRow
<1>5. \A i \in 1..Len(imports) : ~(imports[i].session = s /\ imports[i].key = k)
  BY <1>2, <1>3 DEF SessionInv, KeysAgree
<1>6. \A i \in DOMAIN imports' : i \in 1..Len(imports) \/ i = n
  BY <1>1, <1>2
<1>7. \A i, j \in DOMAIN imports' :
        /\ imports'[i].session = imports'[j].session
        /\ imports'[i].key = imports'[j].key
        => i = j
  BY <1>2, <1>5, <1>6 DEF SessionInv, KeysAgree
<1>8. \A i \in DOMAIN imports' :
        receipts'[imports'[i].session][imports'[i].key] = imports'[i].plan
  BY <1>2, <1>3, <1>4, <1>5, <1>6 DEF SessionInv, KeysAgree
<1>9. ASSUME NEW t \in Sessions, NEW l \in IdemKeys, receipts'[t][l] # 0
      PROVE  \E i \in DOMAIN imports' : imports'[i].session = t /\ imports'[i].key = l
  <2>1. CASE t = s /\ l = k
    <3>1. n \in DOMAIN imports'
      BY <1>1, <1>2
    <3> QED
      BY <1>2, <2>1, <3>1
  <2>2. CASE ~(t = s /\ l = k)
    <3>1. receipts[t][l] # 0
      BY <1>4, <1>9, <2>2
    <3>2. PICK i \in DOMAIN imports : imports[i].session = t /\ imports[i].key = l
      BY <3>1 DEF SessionInv, KeysAgree
    <3>3. i \in DOMAIN imports'
      BY <1>1, <1>2
    <3> QED
      BY <1>2, <3>2, <3>3
  <2> QED
    BY <2>1, <2>2
<1> QED
  BY <1>7, <1>8, <1>9 DEF KeysAgree

\* The invariant holds initially.
LEMMA SessionInvInit == SessionInit => SessionInv
<1> SUFFICES ASSUME SessionInit
             PROVE  SessionInv
  OBVIOUS
<1>1. DOMAIN imports = {} /\ \A s \in Sessions, k \in IdemKeys : receipts[s][k] = 0
  BY DEF SessionInit
<1> QED
  BY <1>1, TypesInit DEF SessionInv, KeysAgree

\* Every step keeps the invariant.
LEMMA SessionInvNext == SessionInv /\ [SessionNext]_sessionVars => SessionInv'
<1> SUFFICES ASSUME SessionInv, [SessionNext]_sessionVars
             PROVE  SessionInv'
  OBVIOUS
<1>1. SessionTypes'
  BY TypesNext DEF SessionInv
<1>2. CASE \E c \in Callers : /\ _materialise_session(c)
                             /\ MayMaterialise(calls[c].session, calls[c].key)
  BY <1>1, <1>2, ImportEffect, KeysAgreeAfterImport DEF SessionInv
<1>3. CASE ~ \E c \in Callers : /\ _materialise_session(c)
                               /\ MayMaterialise(calls[c].session, calls[c].key)
  <2>1. UNCHANGED <<receipts, imports>>
    BY <1>3, OnlyImportsImport
  <2> QED
    BY <1>1, <2>1 DEF SessionInv, KeysAgree
<1> QED
  BY <1>2, <1>3

\* The inductive invariant is an invariant.
LEMMA SessionInvariant == SessionSpec => []SessionInv
BY SessionInvInit, SessionInvNext, PTL DEF SessionSpec

\* A set in which all elements are equal has at most one.
LEMMA AtMostOne ==
    ASSUME NEW S, \A x, y \in S : x = y
    PROVE  Cardinality(S) <= 1
<1>1. CASE S = {}
  BY <1>1, FS_EmptySet
<1>2. CASE S # {}
  <2> PICK x \in S : TRUE
    BY <1>2
  <2>1. S = {x}
    OBVIOUS
  <2> QED
    BY <2>1, FS_Singleton
<1> QED
  BY <1>1, <1>2

\* Retries and concurrent requests under one idempotency key import at most
\* once, and the receipt of a key names what was imported under it
\* (onboarding/service.py claim_apply).
THEOREM AKeyImportsOnce == SessionSpec => []ReceiptIsTheImport
<1>1. SessionInv => ReceiptIsTheImport
  <2> SUFFICES ASSUME SessionInv, NEW s \in Sessions, NEW k \in IdemKeys
               PROVE  LET mine == {i \in DOMAIN imports :
                                     imports[i].session = s /\ imports[i].key = k}
                      IN  /\ Cardinality(mine) <= 1
                          /\ \A i \in mine : receipts[s][k] = imports[i].plan
                          /\ receipts[s][k] # 0 => mine # {}
    BY TypesSuffice DEF ReceiptIsTheImport, SessionInv
  <2> DEFINE mine == {i \in DOMAIN imports :
                        imports[i].session = s /\ imports[i].key = k}
  <2>1. \A i, j \in mine : i = j
    BY DEF SessionInv, KeysAgree
  <2>2. /\ \A i \in mine : receipts[s][k] = imports[i].plan
        /\ receipts[s][k] # 0 => mine # {}
    BY DEF SessionInv, KeysAgree
  <2> HIDE DEF mine
  <2>3. Cardinality(mine) <= 1
    BY <2>1, AtMostOne
  <2> QED
    BY <2>2, <2>3 DEF mine
<1> QED
  BY <1>1, SessionInvariant, PTL

----------------------------------------------------------------------------
(* The refinement of OnboardingContract.                                   *)

\* The refinement mapping of OnboardingSession: sessions with an approval
\* that stands, and how many imports of a session committed.
Standing == {s \in Sessions : sessions[s].state = "approved"}
ImportsOf(s) == {i \in DOMAIN imports : imports[i].session = s}
Imported == [s \in Sessions |-> Cardinality(ImportsOf(s))]

\* The initial states map to initial states.
LEMMA ContractInitially == SessionInit => Contract!ContractInit
<1> SUFFICES ASSUME SessionInit
             PROVE  Contract!ContractInit
  OBVIOUS
<1>1. Standing = {}
  BY DEF SessionInit, Standing
<1>2. ASSUME NEW s \in Sessions
      PROVE  Cardinality(ImportsOf(s)) = 0
  <2>1. ImportsOf(s) = {}
    BY DEF SessionInit, ImportsOf
  <2> QED
    BY <2>1, FS_EmptySet
<1>3. Imported = [s \in Sessions |-> 0]
  BY <1>2 DEF Imported
<1> QED
  BY <1>1, <1>3 DEF Contract!ContractInit, Standing, Imported, ImportsOf

\* An import, and no other step, adds to the imports of its session, by one.
LEMMA ImportCounts ==
    ASSUME SessionTypes, NEW s \in Sessions, NEW row \in ImportRow, row.session = s,
           imports' = Append(imports, row)
    PROVE  Imported' = [Imported EXCEPT ![s] = @ + 1]
<1> DEFINE n == Len(imports) + 1
<1>1. imports \in Seq(ImportRow) /\ Len(imports) \in Nat
  BY DEF SessionTypes
<1>2. /\ DOMAIN imports = 1..Len(imports) /\ DOMAIN imports' = 1..n
      /\ imports'[n] = row
      /\ \A i \in 1..Len(imports) : imports'[i] = imports[i]
  BY <1>1
<1>3. n \notin DOMAIN imports /\ DOMAIN imports' = DOMAIN imports \cup {n}
  BY <1>1, <1>2
<1>4. \A t \in Sessions \ {s} : ImportsOf(t)' = ImportsOf(t)
  BY <1>2, <1>3 DEF ImportsOf
<1>5. ImportsOf(s)' = ImportsOf(s) \cup {n} /\ n \notin ImportsOf(s)
  BY <1>2, <1>3 DEF ImportsOf
<1>6. IsFiniteSet(ImportsOf(s))
  <2>1. IsFiniteSet(1..Len(imports))
    BY <1>1, FS_Interval
  <2>2. ImportsOf(s) \in SUBSET (1..Len(imports))
    BY <1>2 DEF ImportsOf
  <2> QED
    BY <2>1, <2>2, FS_Subset
<1>7. Cardinality(ImportsOf(s)') = Cardinality(ImportsOf(s)) + 1
  BY <1>5, <1>6, FS_AddElement
<1> QED
  BY <1>4, <1>7 DEF Imported

\* A session that is given another state may lose its approval; none gains one.
LEMMA OtherStatesWithdraw ==
    ASSUME SessionTypes, NEW s \in Sessions,
           \/ \E state \in SessionStates \ {"approved"} : _set_state(s, state)
           \/ \E state \in SessionStates \ {"approved"}, commit \in Commits :
                sessions' = [sessions EXCEPT ![s].state = state, ![s].commit = commit]
    PROVE  Standing' \subseteq Standing
<1>1. sessions \in [Sessions -> SessionRow]
  BY DEF SessionTypes
<1>2. sessions'[s].state # "approved"
  BY <1>1 DEF _set_state, SessionRow
<1>3. \A t \in Sessions \ {s} : sessions'[t] = sessions[t]
  BY <1>1 DEF _set_state
<1> QED
  BY <1>2, <1>3 DEF Standing

\* Every step maps to a step of the contract or a stutter.
LEMMA ContractStep ==
    SessionInv /\ [SessionNext]_sessionVars =>
        [Contract!ContractNext]_(Contract!contractVars)
<1> SUFFICES ASSUME SessionInv, [SessionNext]_sessionVars
             PROVE  [Contract!ContractNext]_(Contract!contractVars)
  OBVIOUS
<1> USE DEF SessionInv
<1>1. CASE \E c \in Callers : /\ _materialise_session(c)
                             /\ MayMaterialise(calls[c].session, calls[c].key)
  <2>1. PICK s \in Sessions, k \in IdemKeys, row \in ImportRow :
          /\ sessions[s].state = "approved" /\ row.session = s
          /\ sessions' = [sessions EXCEPT ![s].state = "imported"]
          /\ imports' = Append(imports, row)
    BY <1>1, ImportEffect
  <2>2. s \in Standing /\ Standing' = Standing \ {s}
    BY <2>1 DEF Standing, SessionTypes, SessionRow
  <2>3. Imported' = [Imported EXCEPT ![s] = @ + 1]
    BY <2>1, ImportCounts
  <2>4. Contract!Import(s)
    BY <2>2, <2>3 DEF Contract!Import, Standing, Imported, ImportsOf
  <2> QED
    BY <2>4 DEF Contract!ContractNext
<1>2. CASE ~ \E c \in Callers : /\ _materialise_session(c)
                               /\ MayMaterialise(calls[c].session, calls[c].key)
  <2>1. Imported' = Imported
    BY <1>2, OnlyImportsImport DEF Imported, ImportsOf
  <2>2. CASE Standing' \subseteq Standing
    <3>1. Contract!Withdraw
      BY <2>1, <2>2 DEF Contract!Withdraw, Standing, Imported, ImportsOf
    <3> QED
      BY <3>1 DEF Contract!ContractNext
  <2>3. ASSUME NEW s \in Sessions, NEW v \in 1..MaxPlans, approve(s, v)
        PROVE  Contract!ContractNext
    <3>1. s \notin Standing /\ Standing' = Standing \cup {s}
      BY <2>3 DEF approve, ALLOWED_STATES, Standing, SessionTypes, SessionRow
    <3>2. Contract!Approve(s)
      BY <2>1, <3>1 DEF Contract!Approve, Standing, Imported, ImportsOf
    <3> QED
      BY <3>2 DEF Contract!ContractNext
  <2>4. CASE \E s \in Sessions : create_session(s) \/ cancel_session(s)
    <3>1. Standing' \subseteq Standing
      BY <2>4, OtherStatesWithdraw DEF create_session, cancel_session, SessionStates
    <3> QED
      BY <2>2, <3>1
  <2>5. CASE \E c \in Callers : CallerStep(c)
    <3> PICK c \in Callers : CallerStep(c)
      BY <2>5
    <3>1. CASE \E s \in Sessions : analyze(c, s)
      BY <2>2, <3>1, OtherStatesWithdraw DEF analyze, SessionStates
    <3>2. CASE UNCHANGED sessions
      BY <2>2, <3>2 DEF Standing
    <3>3. Applying(c) \/ Analyzing(c) => calls[c].session \in Sessions
      BY DEF Applying, Analyzing, SessionTypes, AnalyzeCall, ApplyCall
    <3>4. CASE ScanUnavailable(c)
      BY <2>2, <3>2, <3>3, <3>4, OtherStatesWithdraw DEF ScanUnavailable, SessionStates
    <3>5. CASE _record_analysis(c)
      <4> DEFINE s == calls[c].session
                 state == IF repo.manifests[calls[c].commit] = "ready" THEN "ready"
                          ELSE "needs_review"
      <4>1. s \in Sessions /\ state \in SessionStates \ {"approved"}
        BY <3>3, <3>5 DEF _record_analysis, SessionStates
      <4>2. calls[c].commit \in Commits
        BY <3>5 DEF _record_analysis, Analyzing, SessionTypes, AnalyzeCall, ApplyCall, Commits
      <4>3. CASE sessions' = [sessions EXCEPT ![s].state = state, ![s].commit = calls[c].commit]
        <5> HIDE DEF s, state
        <5> QED
          BY <2>2, <4>1, <4>2, <4>3, OtherStatesWithdraw
      <4> QED
        BY <3>2, <3>5, <4>3 DEF _record_analysis
    <3>6. CASE ApplyChecksHead(c)
      BY <2>2, <3>2, <3>3, <3>6, OtherStatesWithdraw DEF ApplyChecksHead, SessionStates
    <3>7. CASE _materialise_session(c)
      BY <1>2, <3>2, <3>7 DEF _materialise_session
    <3>8. CASE \/ Scan(c) \/ CallLost(c)
               \/ \E s \in Sessions, v \in 1..MaxPlans, k \in IdemKeys : apply(c, s, v, k)
      BY <3>2, <3>8 DEF Scan, CallLost, apply
    <3> QED
      BY <3>1, <3>4, <3>5, <3>6, <3>7, <3>8 DEF CallerStep
  <2>6. CASE Push
    BY <2>2, <2>6 DEF Push, Standing
  <2>7. CASE \E commit \in Commits : mark_stale_for_commit(commit)
    <3>1. Standing' \subseteq Standing
      <4>1. \A s \in Sessions : sessions'[s] = sessions[s] \/ sessions'[s].state = "stale"
        BY <2>7 DEF mark_stale_for_commit, SessionTypes, SessionRow
      <4> QED
        BY <4>1 DEF Standing
    <3> QED
      BY <2>2, <3>1
  <2>8. CASE UNCHANGED sessionVars
    BY <2>2, <2>8 DEF sessionVars, Standing
  <2> QED
    BY <2>3, <2>4, <2>5, <2>6, <2>7, <2>8 DEF SessionNext, SessionStep
<1> QED
  BY <1>1, <1>2

\* The session protocol implements the contract: the catalog changes only
\* while an approval stands, by one import at a time, and each uses the
\* approval up, whatever requests, retries, pushes and crashes interleave
\* (onboarding/service.py _materialise).
THEOREM SessionImplementsContract == SessionSpec => ImportsFollowApproval
<1>1. SessionInit => Contract!ContractInit
  BY ContractInitially
<1>2. SessionInv /\ [SessionNext]_sessionVars =>
          [Contract!ContractNext]_(Contract!contractVars)
  BY ContractStep
<1> QED
  BY <1>1, <1>2, SessionInvariant, PTL
  DEF SessionSpec, ImportsFollowApproval, Contract!ContractSpec

-----------------------------------------------------------------------------
(* The GitHub App.                                                         *)

Apps == {"active", "suspended", "deleted"}
HubRec == [app : Apps, members : SUBSET Repos, names : [Repos -> Names]]
JobRow == [status : {"pending", "processed", "failed"}, attempts : Nat,
           owner : Sweepers \cup {Nobody}, live : BOOLEAN, synced : BOOLEAN]
Listing == UNION {[S -> Names] : S \in SUBSET Repos}
SweeperRow == [pc : {"idle", "claimed", "gone", "detail", "listed", "committed"},
               app : {"active", "suspended"}, seen : Listing]
OperatorRow == [pc : {"idle", "open", "short", "validating", "read"},
                repo : Repos \cup {Nobody}, answer : Names \cup {"none", "other"}]
ReviewStates == {"none", "current", "outdated", "stale"}

(* A row that is ready has earned it under installation state app.         *)
GoodRow(row, app) ==
  /\ row \in Row
  /\ row.state = "ready" =>
       /\ ~row.gate /\ ~row.error
       /\ app = "active" /\ row.access = "accessible"
       /\ row.evidence = "complete"

GoodRows(table, app) ==
  /\ DOMAIN table \subseteq Repos /\ app \in Apps
  /\ \A r \in DOMAIN table : GoodRow(table[r], app)

(* Attempts are spent by runs that were counted; what may still be counted *)
(* is bounded.                                                             *)
Bounded(d) ==
  /\ d.status = "sent" => d.attempts = 0 /\ d.rolled = 0
  /\ d.status = "pending" => d.attempts < MAX_DELIVERY_ATTEMPTS
  /\ d.status = "processed" => d.attempts <= MAX_DELIVERY_ATTEMPTS
  /\ d.status = "failed" => d.attempts + d.rolled <= MAX_DELIVERY_ATTEMPTS + 1

(* Recorded deliveries, with what was applied of each.                     *)
GoodDeliveries(recorded, known, counts) ==
  /\ \E n \in 0..MaxEvents : DOMAIN recorded = 1..n
  /\ counts \in [Events -> Nat]
  /\ \A e \in DOMAIN recorded :
       /\ recorded[e] \in Delivery /\ Bounded(recorded[e])
       /\ recorded[e].status # "sent" =>
            \A r \in DOMAIN recorded[e].says :
              recorded[e].says[r] = "foreign" => r \in known
  /\ \A e \in Events :
       counts[e] = IF e \in DOMAIN recorded
                     THEN IF recorded[e].status = "processed" THEN 1 ELSE 0 ELSE 0

GoodJob ==
  /\ job \in JobRow
  /\ sweepers \in [Sweepers -> SweeperRow]
  /\ job.status = "processed" => job.synced
  /\ \A s \in Sweepers :
       sweepers[s].pc = "committed" /\ job.owner = s /\ job.status = "pending" => job.synced

GoodRequests(calling, known) ==
  /\ calling \in [Operators -> OperatorRow]
  /\ \A o \in Operators :
       /\ calling[o].pc # "idle" => calling[o].repo \in known
       /\ calling[o].pc = "read" => calling[o].answer # "none"

HubInv ==
  /\ hub \in HubRec /\ reviews \in [Repos -> ReviewStates]
  /\ GoodRows(rows, installation)
  /\ GoodDeliveries(deliveries, DOMAIN rows, applied)
  /\ GoodJob
  /\ GoodRequests(operators, DOMAIN rows)

-----------------------------------------------------------------------------
(* Rows.                                                                   *)

\* What a ready repository may become, and what it is meant to be.
LEMMA FromReady ==
  \A row : row.state = "ready" =>
     \A target \in {"validating", "degraded", "blocked", "disabled", "ready"} :
        can_transition(row, target)
<1>1. Allowed["ready"] = {"validating", "degraded", "blocked", "disabled", "ready"}
  BY DEF Allowed
<1> QED
  BY <1>1 DEF can_transition

\* A transition keeps the rest of the row.
LEMMA TransitionType ==
  ASSUME NEW row \in Row, NEW target \in States
  PROVE  LET after == apply_state(row, target) IN
         /\ after \in Row
         /\ after.access = row.access /\ after.evidence = row.evidence
         /\ after.gate = row.gate /\ after.error = row.error
         /\ after.state = IF can_transition(row, target) THEN target ELSE row.state
  BY DEF apply_state, Row

\* What the precedence chain aims at.
LEMMA TargetIs ==
  ASSUME NEW row \in Row, NEW app
  PROVE  LET target == announced_target(row, app) IN
         /\ target \in {"blocked", "disabled", "degraded", "ready", "discovered"}
         /\ target = "ready" =>
              /\ ~row.gate /\ ~row.error
              /\ app = "active" /\ row.access = "accessible" /\ row.evidence = "complete"
         /\ target = "discovered" => ~row.gate /\ row.evidence = "never"
<1>1. /\ row.gate \in BOOLEAN /\ row.error \in BOOLEAN
      /\ row.evidence \in {"never", "partial", "stale", "complete", "failed"}
  BY DEF Row
<1>2. CASE row.gate
  BY <1>1, <1>2 DEF announced_target, resolve_effective
<1>3. CASE ~row.gate /\ (app # "active" \/ row.access # "accessible")
  BY <1>1, <1>3 DEF announced_target, resolve_effective
<1>4. CASE /\ ~row.gate /\ app = "active" /\ row.access = "accessible"
           /\ row.error \/ row.evidence \in {"failed", "partial", "stale"}
  BY <1>1, <1>4 DEF announced_target, resolve_effective
<1>5. CASE /\ ~row.gate /\ app = "active" /\ row.access = "accessible"
           /\ ~(row.error \/ row.evidence \in {"failed", "partial", "stale"})
  BY <1>1, <1>5 DEF announced_target, resolve_effective
<1> QED
  BY <1>1, <1>2, <1>3, <1>4, <1>5

\* A row brought in line with the chain is ready only if it has earned it.
LEMMA AnnouncedGood ==
  ASSUME NEW row \in Row, NEW app,
         row.state = "ready" /\ row.evidence = "never" => row.gate
  PROVE  GoodRow(apply_announced_state(row, app), app)
<1> DEFINE target == announced_target(row, app)
           after == apply_state(row, target)
<1>1. /\ target \in {"blocked", "disabled", "degraded", "ready", "discovered"}
      /\ target = "ready" =>
           /\ ~row.gate /\ ~row.error
           /\ app = "active" /\ row.access = "accessible" /\ row.evidence = "complete"
      /\ target = "discovered" => ~row.gate /\ row.evidence = "never"
  BY TargetIs
<1>2. target \in States
  BY <1>1 DEF States
<1>3. /\ after \in Row
      /\ after.access = row.access /\ after.evidence = row.evidence
      /\ after.gate = row.gate /\ after.error = row.error
      /\ after.state = IF can_transition(row, target) THEN target ELSE row.state
  BY <1>2, TransitionType
<1>4. row.state = "ready" => can_transition(row, target)
  BY <1>1, FromReady
<1>5. apply_announced_state(row, app) = after
  BY DEF apply_announced_state
<1> HIDE DEF after, target
<1> QED
  BY <1>1, <1>3, <1>4, <1>5 DEF GoodRow

\* A row whose access is gone is not ready.
LEMMA RemovedGood ==
  ASSUME NEW row \in Row, NEW access \in {"removed", "suspended"}, NEW app
  PROVE  /\ GoodRow(mark_access_removed(row, access), app)
         /\ mark_access_removed(row, access).state # "ready"
  BY DEF mark_access_removed, GoodRow, Row, States

LEMMA NewRowType ==
  ASSUME NEW name \in Names
  PROVE  NewRow(name) \in Row /\ NewRow(name).state # "ready"
  BY DEF NewRow, Row, States, security_gate_for, Names

-----------------------------------------------------------------------------
(* Webhooks.                                                               *)

\* The plans, as far as rows and the installation are concerned.
LEMMA PlanOf ==
  ASSUME NEW k \in Kinds
  PROVE  LET plan == plan_for[k] IN
         /\ plan.app \in Apps \cup {"unchanged"}
         /\ plan.target \in {"announced", "all", "none"}
         /\ plan.target = "all" =>
              \/ plan.outcome \in {"removed", "suspended"}
              \/ plan.outcome = "restored" /\ plan.app = "active"
         /\ plan.target # "all" => plan.app \in {"active", "unchanged"}
<1>1. k \in {"installed", "suspend", "unsuspend", "uninstalled", "permissions", "added",
             "removed", "deleted", "transferred", "metadata", "push"}
  BY DEF Kinds, plan_for
<1> QED
  BY <1>1 DEF plan_for, Plan, Apps

\* The row an announced repository gets.
LEMMA AnnouncedRow ==
  ASSUME HubInv, NEW d \in Delivery, NEW r \in DOMAIN d.says, NEW app \in Apps,
         r \in DOMAIN rows \/ (plan_for[d.kind].outcome = "present" /\ d.says[r] # "foreign")
  PROVE  GoodRow(Announced(d, r, app), app)
<1> DEFINE known == restore_access(d.kind, app)
           row == upsert_repository(known, r, d.says[r])
<1>1. d.says[r] \in Names /\ r \in Repos
  BY DEF Delivery
<1>2. ASSUME r \in DOMAIN rows
      PROVE  /\ r \in DOMAIN known /\ known[r] \in Row
             /\ known[r].state = "ready" => known[r].evidence = "complete"
  <2>1. GoodRow(rows[r], installation)
    BY <1>2 DEF HubInv, GoodRows
  <2>2. known[r] = rows[r] \/ known[r] = [rows[r] EXCEPT !.access = "accessible"]
    BY <1>2 DEF restore_access
  <2>3. r \in DOMAIN known
    BY <1>2 DEF restore_access
  <2> HIDE DEF known
  <2> QED
    BY <2>1, <2>2, <2>3 DEF GoodRow, Row
<1>3. CASE plan_for[d.kind].outcome = "removed" \/ d.says[r] = "foreign"
  <2>1. r \in DOMAIN rows
    BY <1>3
  <2> QED
    BY <1>2, <1>3, <2>1, RemovedGood DEF Announced
<1>4. CASE ~(plan_for[d.kind].outcome = "removed" \/ d.says[r] = "foreign")
  <2>1. CASE r \in DOMAIN rows
    <3>1. row = [known[r] EXCEPT !.name = d.says[r],
                                 !.gate = @ \/ security_gate_for(d.says[r])]
      BY <1>2, <2>1 DEF upsert_repository
    <3>2. security_gate_for(d.says[r]) \in BOOLEAN
      BY DEF security_gate_for
    <3>3. /\ row \in Row
          /\ row.state = "ready" => row.evidence = "complete"
      <4> HIDE DEF known, row
      <4> QED
        BY <1>1, <1>2, <2>1, <3>1, <3>2 DEF Row
    <3>4. /\ Outdate(row) \in Row
          /\ ~(Outdate(row).state = "ready" /\ Outdate(row).evidence = "never")
      <4> HIDE DEF row
      <4> QED
        BY <3>3 DEF Outdate, Row
    <3>5. Announced(d, r, app) = apply_announced_state(Outdate(row), app)
      BY <1>4, <2>1 DEF Announced
    <3> HIDE DEF row
    <3> QED
      BY <3>4, <3>5, AnnouncedGood
  <2>2. CASE r \notin DOMAIN rows
    <3>1. row = NewRow(d.says[r])
      BY <2>2 DEF upsert_repository, restore_access
    <3>2. Announced(d, r, app) = apply_announced_state(NewRow(d.says[r]), app)
      BY <1>4, <2>2, <3>1 DEF Announced
    <3> QED
      BY <1>1, <3>2, NewRowType, AnnouncedGood
  <2> QED
    BY <2>1, <2>2
<1> QED
  BY <1>3, <1>4

\* What a delivery makes of the rows.
LEMMA RowsAfterGood ==
  ASSUME HubInv, NEW d \in Delivery,
         \A r \in DOMAIN d.says : d.says[r] = "foreign" => r \in DOMAIN rows
  PROVE  /\ GoodRows(RowsAfter(d), AppAfter(d))
         /\ DOMAIN rows \subseteq DOMAIN RowsAfter(d)
<1> DEFINE plan == plan_for[d.kind]
           app == AppAfter(d)
           about == IF plan.target # "announced" \/ (d.cut /\ plan.outcome = "removed")
                      THEN {} ELSE DOMAIN d.says
           fresh == {r \in about \ DOMAIN rows : plan.outcome = "present"}
           after == RowsAfter(d)
<1>1. /\ plan.app \in Apps \cup {"unchanged"}
      /\ plan.target \in {"announced", "all", "none"}
      /\ plan.target = "all" =>
           \/ plan.outcome \in {"removed", "suspended"}
           \/ plan.outcome = "restored" /\ plan.app = "active"
      /\ plan.target # "all" => plan.app \in {"active", "unchanged"}
  <2>1. d.kind \in Kinds
    BY DEF Delivery
  <2> QED
    BY <2>1, PlanOf
<1>2. installation \in Apps /\ \A r \in DOMAIN rows : GoodRow(rows[r], installation)
  BY DEF HubInv, GoodRows
<1>3. app \in Apps
  BY <1>1, <1>2 DEF AppAfter, Apps
<1>4. plan.target # "all" => \A r \in DOMAIN rows : GoodRow(rows[r], app)
  BY <1>1, <1>2 DEF AppAfter, GoodRow
<1>5. /\ DOMAIN after = DOMAIN rows \cup fresh
      /\ \A r \in DOMAIN rows \cup fresh :
           after[r] = IF plan.target = "all" THEN AllOfInstallation(rows[r], plan.outcome, app)
                      ELSE IF r \in about THEN Announced(d, r, app) ELSE rows[r]
  BY DEF RowsAfter
<1>6. about \subseteq DOMAIN d.says /\ DOMAIN d.says \subseteq Repos
  BY DEF Delivery
<1> HIDE DEF after, app
<1>7. ASSUME NEW r \in DOMAIN rows \cup fresh
      PROVE  GoodRow(after[r], app)
  <2>1. CASE plan.target = "all"
    <3>1. r \in DOMAIN rows /\ rows[r] \in Row
      BY <1>2, <2>1 DEF GoodRow
    <3>2. after[r] = AllOfInstallation(rows[r], plan.outcome, app)
      BY <1>5, <2>1
    <3>3. CASE plan.outcome = "removed"
      BY <3>1, <3>2, <3>3, RemovedGood DEF AllOfInstallation
    <3>4. CASE plan.outcome = "suspended"
      BY <3>1, <3>2, <3>4, RemovedGood DEF AllOfInstallation
    <3>5. CASE plan.outcome = "restored"
      <4> DEFINE row == [rows[r] EXCEPT !.access = "accessible"]
      <4>1. row \in Row /\ ~(row.state = "ready" /\ row.evidence = "never")
        BY <1>2, <3>1 DEF Row, GoodRow
      <4>2. after[r] = apply_announced_state(row, app)
        BY <3>2, <3>5 DEF AllOfInstallation
      <4> HIDE DEF row
      <4> QED
        BY <4>1, <4>2, AnnouncedGood
    <3> QED
      BY <1>1, <2>1, <3>3, <3>4, <3>5
  <2>2. CASE plan.target # "all" /\ r \in about
    <3>1. r \in DOMAIN rows \/ (plan.outcome = "present" /\ d.says[r] # "foreign")
      BY <1>6, <2>2
    <3>2. after[r] = Announced(d, r, app)
      BY <1>5, <2>2
    <3> QED
      BY <1>3, <1>6, <2>2, <3>1, <3>2, AnnouncedRow
  <2>3. CASE plan.target # "all" /\ r \notin about
    <3>1. r \in DOMAIN rows /\ after[r] = rows[r]
      BY <1>5, <2>3
    <3> QED
      BY <1>4, <2>3, <3>1
  <2> QED
    BY <2>1, <2>2, <2>3
<1>8. DOMAIN after \subseteq Repos
  BY <1>5, <1>6 DEF HubInv, GoodRows
<1>9. GoodRows(after, app) /\ DOMAIN rows \subseteq DOMAIN after
  BY <1>3, <1>5, <1>7, <1>8 DEF GoodRows
<1> QED
  BY <1>9 DEF after, app

\* More known repositories disturb neither deliveries nor requests.
LEMMA MoreKnown ==
  ASSUME NEW known, NEW more, known \subseteq more,
         NEW recorded, NEW counts, NEW calling
  PROVE  /\ GoodDeliveries(recorded, known, counts) => GoodDeliveries(recorded, more, counts)
         /\ GoodRequests(calling, known) => GoodRequests(calling, more)
<1>1. ASSUME GoodDeliveries(recorded, known, counts)
      PROVE  GoodDeliveries(recorded, more, counts)
  BY <1>1 DEF GoodDeliveries
<1>2. ASSUME GoodRequests(calling, known)
      PROVE  GoodRequests(calling, more)
  BY <1>2 DEF GoodRequests
<1> QED
  BY <1>1, <1>2

\* GitHub tells of one more change.
LEMMA SendGood ==
  ASSUME HubInv, HubAssumption, NEW kind \in Kinds, NEW listed \in SUBSET Repos,
         hub' \in HubRec, UNCHANGED <<rows, applied>>, Send(kind, listed)
  PROVE  GoodDeliveries(deliveries', DOMAIN rows', applied')
<1>1. PICK kept \in SUBSET listed :
        deliveries' = [e \in DOMAIN deliveries \cup {NextEvent} |->
          IF e = NextEvent
            THEN [kind |-> kind, says |-> [r \in kept |-> hub'.names[r]],
                  cut |-> kept # listed, status |-> "sent", attempts |-> 0, rolled |-> 0]
            ELSE deliveries[e]]
  BY DEF Send
<1> DEFINE d == [kind |-> kind, says |-> [r \in kept |-> hub'.names[r]],
                 cut |-> kept # listed, status |-> "sent", attempts |-> 0, rolled |-> 0]
<1>2. PICK n \in 0..MaxEvents : DOMAIN deliveries = 1..n
  BY DEF HubInv, GoodDeliveries
<1>3. NextEvent = n + 1 /\ NextEvent \in Events
  <2>1. Cardinality(1..n) = n
    BY <1>2, FS_Interval, HubAssumption DEF HubAssumption
  <2> QED
    BY <1>2, <2>1 DEF NextEvent, Send
<1>4. /\ DOMAIN deliveries' = 1..(n + 1)
      /\ deliveries'[n + 1] = d
      /\ \A e \in 1..n : deliveries'[e] = deliveries[e]
  <2> HIDE DEF d
  <2> QED
    BY <1>1, <1>2, <1>3 DEF d
<1>5. n + 1 \in 0..MaxEvents
  BY <1>2, <1>3, HubAssumption DEF Events, HubAssumption
<1>6. d \in Delivery
  <2>1. [r \in kept |-> hub'.names[r]] \in [kept -> Names] /\ kept \in SUBSET Repos
    BY DEF HubRec
  <2>2. [r \in kept |-> hub'.names[r]] \in UNION {[S -> Names] : S \in SUBSET Repos}
    BY <2>1
  <2>3. 0 \in 0..(MAX_DELIVERY_ATTEMPTS + 2) /\ 0 \in 0..2
    BY HubAssumption DEF HubAssumption
  <2> QED
    BY <2>2, <2>3 DEF Delivery
<1>7. Bounded(d) /\ d.status = "sent"
  BY DEF Bounded
<1> HIDE DEF d
<1>8. /\ applied' \in [Events -> Nat]
      /\ \A e \in Events : applied'[e] =
           IF e \in 1..n THEN IF deliveries[e].status = "processed" THEN 1 ELSE 0 ELSE 0
  BY <1>2 DEF HubInv, GoodDeliveries
<1>9. ASSUME NEW e \in 1..(n + 1)
      PROVE  /\ deliveries'[e] \in Delivery /\ Bounded(deliveries'[e])
             /\ deliveries'[e].status # "sent" =>
                  \A r \in DOMAIN deliveries'[e].says :
                    deliveries'[e].says[r] = "foreign" => r \in DOMAIN rows
  <2>1. CASE e = n + 1
    BY <1>4, <1>6, <1>7, <2>1
  <2>2. CASE e # n + 1
    <3>1. e \in 1..n
      BY <1>2, <2>2
    <3> QED
      BY <1>2, <1>4, <3>1 DEF HubInv, GoodDeliveries
  <2> QED
    BY <2>1, <2>2
<1>10. ASSUME NEW e \in Events
       PROVE  applied'[e] = IF e \in 1..(n + 1)
                              THEN IF deliveries'[e].status = "processed" THEN 1 ELSE 0 ELSE 0
  <2>1. CASE e = n + 1
    BY <1>2, <1>4, <1>7, <1>8, <2>1
  <2>2. CASE e # n + 1
    <3>1. e \in 1..(n + 1) <=> e \in 1..n
      BY <1>2, <2>2 DEF Events
    <3> QED
      BY <1>4, <1>8, <3>1
  <2> QED
    BY <2>1, <2>2
<1>11. DOMAIN rows' = DOMAIN rows
  OBVIOUS
<1> QED
  BY <1>4, <1>5, <1>8, <1>9, <1>10, <1>11 DEF GoodDeliveries

\* GitHub's own steps.
LEMMA HubStep ==
  ASSUME HubInv, HubAssumption, HubNext
  PROVE  HubInv'
<1>1. hub \in HubRec /\ reviews \in [Repos -> ReviewStates]
  BY DEF HubInv
<1>2. /\ DrakeIdle /\ hub' \in HubRec /\ reviews' \in [Repos -> ReviewStates]
      /\ \E kind \in Kinds, listed \in SUBSET Repos : Send(kind, listed)
  <2> USE <1>1 DEF HubRec, Apps, Kinds, plan_for, ReviewStates
  <2>1. CASE HubInstalls
    BY <2>1 DEF HubInstalls
  <2>2. CASE HubSuspends
    BY <2>2 DEF HubSuspends
  <2>3. CASE HubUninstalls
    BY <2>3 DEF HubUninstalls
  <2>4. CASE HubGrants
    BY <2>4 DEF HubGrants
  <2>5. CASE HubMembership
    <3>1. PICK S \in SUBSET Repos \ {{}} :
            /\ \/ hub' = [hub EXCEPT !.members = @ \cup S]
               \/ hub' = [hub EXCEPT !.members = @ \ S]
            /\ Send("added", S) \/ Send("removed", S) \/ Send("deleted", S)
      BY <2>5 DEF HubMembership
    <3>2. hub' \in HubRec
      BY <3>1
    <3>3. \E kind \in Kinds, listed \in SUBSET Repos : Send(kind, listed)
      BY <3>1
    <3> QED
      BY <2>5, <3>2, <3>3 DEF HubMembership
  <2>6. CASE HubRenames
    <3>1. PICK r \in hub.members, name \in Names :
            /\ hub' = [hub EXCEPT !.names[r] = name,
                                  !.members = IF name = "foreign" THEN @ \ {r} ELSE @]
            /\ Send(IF name = "foreign" THEN "transferred" ELSE "metadata", {r})
      BY <2>6 DEF HubRenames
    <3>2. hub' \in HubRec
      <4> DEFINE N == [hub.names EXCEPT ![r] = name]
                 M == IF name = "foreign" THEN hub.members \ {r} ELSE hub.members
      <4>1. hub' = [hub EXCEPT !.names = N, !.members = M]
        BY <3>1
      <4>2. N \in [Repos -> Names] /\ M \in SUBSET Repos
        OBVIOUS
      <4> HIDE DEF N, M
      <4> QED
        BY <4>1, <4>2
    <3>3. \E kind \in Kinds, listed \in SUBSET Repos : Send(kind, listed)
      BY <3>1
    <3> QED
      BY <2>6, <3>2, <3>3 DEF HubRenames
  <2>7. CASE HubPush
    BY <2>7 DEF HubPush
  <2> QED
    BY <2>1, <2>2, <2>3, <2>4, <2>5, <2>6, <2>7 DEF HubNext
<1>3. UNCHANGED <<installation, rows, job, sweepers, operators, applied, faults>>
  BY <1>2 DEF DrakeIdle
<1>4. GoodDeliveries(deliveries', DOMAIN rows', applied')
  BY <1>2, <1>3, SendGood
<1> QED
  BY <1>2, <1>3, <1>4 DEF HubInv, GoodJob

\* One delivery moves.
LEMMA DeliveryMoves ==
  ASSUME HubInv, NEW e \in DOMAIN deliveries, NEW d \in Delivery,
         deliveries' = [deliveries EXCEPT ![e] = d], DOMAIN rows \subseteq DOMAIN rows',
         Bounded(d),
         d.status # "sent" =>
           \A r \in DOMAIN d.says : d.says[r] = "foreign" => r \in DOMAIN rows',
         applied' \in [Events -> Nat],
         \A f \in Events \ {e} : applied'[f] = applied[f],
         applied'[e] = IF d.status = "processed" THEN 1 ELSE 0
  PROVE  GoodDeliveries(deliveries', DOMAIN rows', applied')
<1>1. /\ DOMAIN deliveries' = DOMAIN deliveries
      /\ deliveries'[e] = d
      /\ \A f \in DOMAIN deliveries \ {e} : deliveries'[f] = deliveries[f]
  OBVIOUS
<1>2. GoodDeliveries(deliveries, DOMAIN rows, applied)
  BY DEF HubInv
<1>3. ASSUME NEW f \in DOMAIN deliveries
      PROVE  /\ deliveries'[f] \in Delivery /\ Bounded(deliveries'[f])
             /\ deliveries'[f].status # "sent" =>
                  \A r \in DOMAIN deliveries'[f].says :
                    deliveries'[f].says[r] = "foreign" => r \in DOMAIN rows'
  <2>1. CASE f = e
    BY <1>1, <2>1
  <2>2. CASE f # e
    BY <1>1, <1>2, <2>2 DEF GoodDeliveries
  <2> QED
    BY <2>1, <2>2
<1>4. ASSUME NEW f \in Events
      PROVE  applied'[f] = IF f \in DOMAIN deliveries'
                             THEN IF deliveries'[f].status = "processed" THEN 1 ELSE 0 ELSE 0
  <2>1. CASE f = e
    BY <1>1, <2>1
  <2>2. CASE f # e
    BY <1>1, <1>2, <2>2 DEF GoodDeliveries
  <2> QED
    BY <2>1, <2>2
<1> QED
  BY <1>1, <1>2, <1>3, <1>4 DEF GoodDeliveries

\* What is known of a recorded delivery.
LEMMA DeliveryIs ==
  ASSUME HubInv, HubAssumption, NEW e \in DOMAIN deliveries
  PROVE  LET d == deliveries[e] IN
         /\ e \in Events /\ d \in Delivery /\ Bounded(d)
         /\ d.attempts \in Nat /\ d.rolled \in 0..2
         /\ d.status \in {"sent", "pending", "processed", "failed"}
         /\ d.status # "sent" =>
              \A r \in DOMAIN d.says : d.says[r] = "foreign" => r \in DOMAIN rows
         /\ applied \in [Events -> Nat]
         /\ applied[e] = IF d.status = "processed" THEN 1 ELSE 0
<1>1. e \in Events
  BY DEF HubInv, GoodDeliveries, Events, HubAssumption
<1>2. GoodDeliveries(deliveries, DOMAIN rows, applied)
  BY DEF HubInv
<1>3. deliveries[e] \in Delivery
  BY <1>2 DEF GoodDeliveries
<1>4. /\ deliveries[e].attempts \in Nat /\ deliveries[e].rolled \in 0..2
      /\ deliveries[e].status \in {"sent", "pending", "processed", "failed"}
  BY <1>3, HubAssumption DEF Delivery, HubAssumption
<1> QED
  BY <1>1, <1>2, <1>3, <1>4 DEF GoodDeliveries

\* A delivery whose status and counters move is still one.
Moved(d, status, attempts, rolled) ==
  [d EXCEPT !.status = status, !.attempts = attempts, !.rolled = rolled]

Attempts == 0..(MAX_DELIVERY_ATTEMPTS + 2)
Rolled == 0..2

LEMMA DeliveryType ==
  ASSUME NEW d \in Delivery, NEW status \in {"sent", "pending", "processed", "failed"},
         NEW attempts \in Attempts, NEW rolled \in Rolled
  PROVE  LET after == Moved(d, status, attempts, rolled) IN
         /\ after \in Delivery /\ after.says = d.says
         /\ after.status = status /\ after.attempts = attempts /\ after.rolled = rolled
<1> DEFINE after == Moved(d, status, attempts, rolled)
<1>1. after \in Delivery
  BY DEF Delivery, Moved, Attempts, Rolled
<1>2. /\ after.says = d.says /\ after.status = status
      /\ after.attempts = attempts /\ after.rolled = rolled
  BY DEF Delivery, Moved
<1> QED
  BY <1>1, <1>2

LEMMA RecordStep ==
  ASSUME HubInv, HubAssumption, NEW e \in DOMAIN deliveries, record_delivery(e)
  PROVE  HubInv'
<1> DEFINE d == deliveries[e]
           after == Moved(d, "pending", 0, 0)
<1>1. /\ d \in Delivery /\ Bounded(d) /\ d.status = "sent" /\ d.attempts = 0 /\ d.rolled = 0
      /\ applied \in [Events -> Nat] /\ applied[e] = 0
  BY DeliveryIs DEF record_delivery, Bounded
<1>2. 0 \in 0..(MAX_DELIVERY_ATTEMPTS + 2) /\ 0 \in 0..2 /\ 0 < MAX_DELIVERY_ATTEMPTS
  BY HubAssumption DEF HubAssumption
<1>3. /\ after \in Delivery /\ after.says = d.says
      /\ after.status = "pending" /\ after.attempts = 0 /\ after.rolled = 0
  <2>1. 0 \in Attempts /\ 0 \in Rolled
    BY <1>2 DEF Attempts, Rolled
  <2> QED
    BY <1>1, <2>1, DeliveryType
<1>4. deliveries' = [deliveries EXCEPT ![e] = after]
  <2>1. after = [d EXCEPT !.status = "pending"]
    BY <1>1 DEF Delivery, Moved
  <2> HIDE DEF after
  <2> QED
    BY <2>1 DEF record_delivery
<1>5. UNCHANGED <<hub, installation, rows, job, sweepers, operators, reviews, applied>>
  BY DEF record_delivery
<1>6. \A r \in DOMAIN d.says : d.says[r] = "foreign" => r \in DOMAIN rows
  BY DEF record_delivery
<1> HIDE DEF after, d
<1>7. Bounded(after)
  BY <1>2, <1>3 DEF Bounded
<1>8. GoodDeliveries(deliveries', DOMAIN rows', applied')
  BY <1>1, <1>3, <1>4, <1>5, <1>6, <1>7, DeliveryMoves
<1> QED
  BY <1>5, <1>8 DEF HubInv, GoodJob

\* A run of a delivery commits.
LEMMA ProcessStep ==
  ASSUME HubInv, HubAssumption, NEW e \in DOMAIN deliveries, process_delivery(e)
  PROVE  HubInv'
<1> DEFINE d == deliveries[e]
           n == d.attempts + 1
           k == d.rolled
           after == Moved(d, "processed", n, k)
<1>1. /\ e \in Events /\ d \in Delivery /\ Bounded(d) /\ d.status = "pending"
      /\ d.attempts \in Nat /\ d.rolled \in 0..2
      /\ \A r \in DOMAIN d.says : d.says[r] = "foreign" => r \in DOMAIN rows
      /\ applied \in [Events -> Nat] /\ applied[e] = 0
  BY DeliveryIs DEF process_delivery, Unfinished
<1>2. /\ n \in 0..(MAX_DELIVERY_ATTEMPTS + 2) /\ n <= MAX_DELIVERY_ATTEMPTS /\ k \in 0..2
  BY <1>1, HubAssumption DEF HubAssumption, Bounded
<1>3. deliveries' = [deliveries EXCEPT ![e] = after]
  <2>1. after = [d EXCEPT !.status = "processed", !.attempts = d.attempts + 1]
    BY <1>1 DEF Delivery, Moved
  <2>2. deliveries' = [deliveries EXCEPT ![e] =
                         [d EXCEPT !.status = "processed", !.attempts = d.attempts + 1]]
    BY DEF process_delivery
  <2> HIDE DEF after
  <2> QED
    BY <2>1, <2>2
<1>4. /\ GoodRows(rows', installation') /\ DOMAIN rows \subseteq DOMAIN rows'
      /\ job' = job \/ job' = FreshJob
  <2>1. CASE plan_for[d.kind].supported
    <3>1. installation' = AppAfter(d) /\ rows' = RowsAfter(d) /\ job' = JobAfter(d)
      BY <2>1 DEF process_delivery
    <3>2. job' = job \/ job' = FreshJob
      BY <3>1 DEF JobAfter, queue_installation_reconciliation
    <3> QED
      BY <1>1, <3>1, <3>2, RowsAfterGood
  <2>2. CASE ~plan_for[d.kind].supported
    BY <2>2 DEF process_delivery, HubInv
  <2> QED
    BY <2>1, <2>2
<1>5. /\ applied' = [applied EXCEPT ![e] = @ + 1] /\ reviews' = mark_plans_stale(d)
      /\ UNCHANGED <<hub, sweepers, operators, faults>>
  BY DEF process_delivery
<1>6. /\ after \in Delivery /\ after.says = d.says
      /\ after.status = "processed" /\ after.attempts = n
  <2>1. n \in Attempts /\ k \in Rolled
    BY <1>2 DEF Attempts, Rolled
  <2> HIDE DEF d, n, k
  <2> QED
    BY <1>1, <2>1, DeliveryType
<1> HIDE DEF after, d, n, k
<1>7. Bounded(after)
  BY <1>2, <1>6 DEF Bounded
<1>8. /\ applied' \in [Events -> Nat] /\ applied'[e] = 1
      /\ \A f \in Events \ {e} : applied'[f] = applied[f]
  BY <1>1, <1>5
<1>9. \A r \in DOMAIN after.says : after.says[r] = "foreign" => r \in DOMAIN rows'
  BY <1>1, <1>4, <1>6
<1>10. GoodDeliveries(deliveries', DOMAIN rows', applied')
  BY <1>3, <1>4, <1>6, <1>7, <1>8, <1>9, DeliveryMoves
<1>11. reviews' \in [Repos -> ReviewStates]
  BY <1>5 DEF mark_plans_stale, HubInv, ReviewStates
<1>12. GoodJob'
  <2>1. Nobody \notin Sweepers
    BY DEF HubAssumption
  <2>2. FreshJob \in JobRow /\ FreshJob.status = "pending" /\ FreshJob.owner = Nobody
    BY DEF FreshJob, JobRow
  <2> QED
    BY <1>4, <1>5, <2>1, <2>2 DEF HubInv, GoodJob
<1>13. GoodRequests(operators', DOMAIN rows')
  BY <1>4, <1>5, MoreKnown DEF HubInv
<1> QED
  BY <1>4, <1>5, <1>10, <1>11, <1>12, <1>13 DEF HubInv

\* A run rolls back, or the attempt of one that did is counted.
LEMMA FailedStep ==
  ASSUME HubInv, HubAssumption, NEW e \in DOMAIN deliveries,
         ProcessingFails(e) \/ record_failed_attempt(e)
  PROVE  HubInv'
<1> DEFINE d == deliveries[e]
<1>1. /\ e \in Events /\ d \in Delivery /\ Bounded(d)
      /\ d.attempts \in Nat /\ d.rolled \in 0..2
      /\ d.status \in {"sent", "pending", "processed", "failed"}
      /\ d.status # "sent" =>
           \A r \in DOMAIN d.says : d.says[r] = "foreign" => r \in DOMAIN rows
      /\ applied \in [Events -> Nat]
      /\ applied[e] = IF d.status = "processed" THEN 1 ELSE 0
  BY DeliveryIs
<1>2. UNCHANGED <<hub, installation, rows, job, sweepers, operators, reviews, applied>>
  BY DEF ProcessingFails, record_failed_attempt
<1>3. d.attempts \in 0..(MAX_DELIVERY_ATTEMPTS + 2)
  BY <1>1 DEF Delivery
<1>4. \E status \in {"pending", "processed", "failed"},
         attempts \in 0..(MAX_DELIVERY_ATTEMPTS + 2), rolled \in 0..2 :
        /\ deliveries' = [deliveries EXCEPT ![e] =
             Moved(d, status, attempts, rolled)]
        /\ status = "processed" <=> d.status = "processed"
        /\ d.status # "sent"
        /\ status = "pending" => attempts < MAX_DELIVERY_ATTEMPTS
        /\ status = "processed" => attempts <= MAX_DELIVERY_ATTEMPTS
        /\ status = "failed" => attempts + rolled <= MAX_DELIVERY_ATTEMPTS + 1
  <2>1. CASE ProcessingFails(e)
    <3> DEFINE k == d.rolled + 1
    <3>1. d.status = "pending" /\ k \in 0..2
      BY <1>1, <2>1 DEF ProcessingFails, Unfinished
    <3>2. d.attempts < MAX_DELIVERY_ATTEMPTS
      BY <1>1, <3>1 DEF Bounded
    <3>3. Moved(d, "pending", d.attempts, k)
             = [d EXCEPT !.rolled = k]
      BY <1>1, <3>1 DEF Delivery, Moved
    <3>4. deliveries' = [deliveries EXCEPT ![e] = [d EXCEPT !.rolled = k]]
      BY <2>1 DEF ProcessingFails
    <3>5. deliveries' = [deliveries EXCEPT ![e] =
             Moved(d, "pending", d.attempts, k)]
      BY <3>3, <3>4
    <3> HIDE DEF d, k
    <3> QED
      BY <1>3, <3>1, <3>2, <3>5
  <2>2. CASE record_failed_attempt(e) /\ d.status = "processed"
    <3> DEFINE k == d.rolled - 1
    <3>1. k \in 0..2 /\ d.attempts <= MAX_DELIVERY_ATTEMPTS
      BY <1>1, <2>2 DEF record_failed_attempt, Bounded
    <3>2. Moved(d, "processed", d.attempts, k)
             = [d EXCEPT !.rolled = k]
      BY <1>1, <2>2 DEF Delivery, Moved
    <3>3. deliveries' = [deliveries EXCEPT ![e] = [d EXCEPT !.rolled = k]]
      BY <2>2 DEF record_failed_attempt
    <3>4. deliveries' = [deliveries EXCEPT ![e] =
             Moved(d, "processed", d.attempts, k)]
      BY <3>2, <3>3
    <3> HIDE DEF d, k
    <3> QED
      BY <1>3, <2>2, <3>1, <3>4
  <2>3. CASE record_failed_attempt(e) /\ d.status # "processed"
    <3> DEFINE k == d.rolled - 1
               n == d.attempts + 1
               status == IF n >= MAX_DELIVERY_ATTEMPTS THEN "failed" ELSE d.status
    <3>1. d.rolled > 0 /\ k \in 0..2
      BY <1>1, <2>3 DEF record_failed_attempt
    <3>2. d.status \in {"pending", "failed"}
      BY <1>1, <2>3, <3>1 DEF Bounded
    <3>3. /\ n \in 0..(MAX_DELIVERY_ATTEMPTS + 2)
          /\ n >= MAX_DELIVERY_ATTEMPTS => n + k <= MAX_DELIVERY_ATTEMPTS + 1
          /\ d.status = "failed" => n + k <= MAX_DELIVERY_ATTEMPTS + 1
      BY <1>1, <3>1, <3>2, HubAssumption DEF Bounded, HubAssumption
    <3>4. deliveries' = [deliveries EXCEPT ![e] =
             [d EXCEPT !.rolled = k, !.attempts = n, !.status = status]]
      BY <2>3 DEF record_failed_attempt
    <3>5. Moved(d, status, n, k)
             = [d EXCEPT !.rolled = k, !.attempts = n, !.status = status]
      BY <1>1 DEF Delivery, Moved
    <3>6. /\ status \in {"pending", "failed"}
          /\ status = "pending" => n < MAX_DELIVERY_ATTEMPTS
          /\ status = "failed" => n + k <= MAX_DELIVERY_ATTEMPTS + 1
      BY <1>1, <3>2, <3>3, HubAssumption DEF HubAssumption
    <3>7. deliveries' = [deliveries EXCEPT ![e] =
             Moved(d, status, n, k)]
      BY <3>4, <3>5
    <3> HIDE DEF d, k, n, status
    <3> QED
      BY <2>3, <3>1, <3>2, <3>3, <3>6, <3>7
  <2> QED
    BY <2>1, <2>2, <2>3
<1>5. PICK status \in {"pending", "processed", "failed"},
           attempts \in 0..(MAX_DELIVERY_ATTEMPTS + 2), rolled \in 0..2 :
        /\ deliveries' = [deliveries EXCEPT ![e] =
             Moved(d, status, attempts, rolled)]
        /\ status = "processed" <=> d.status = "processed"
        /\ d.status # "sent"
        /\ status = "pending" => attempts < MAX_DELIVERY_ATTEMPTS
        /\ status = "processed" => attempts <= MAX_DELIVERY_ATTEMPTS
        /\ status = "failed" => attempts + rolled <= MAX_DELIVERY_ATTEMPTS + 1
  BY <1>4
<1> DEFINE after == Moved(d, status, attempts, rolled)
<1>6. /\ after \in Delivery /\ after.says = d.says
      /\ after.status = status /\ after.attempts = attempts /\ after.rolled = rolled
  <2> HIDE DEF d
  <2>1. /\ status \in {"sent", "pending", "processed", "failed"}
        /\ attempts \in Attempts /\ rolled \in Rolled
    BY DEF Attempts, Rolled
  <2> QED
    BY <1>1, <2>1, DeliveryType
<1> HIDE DEF after, d
<1>7. Bounded(after)
  BY <1>5, <1>6 DEF Bounded
<1>8. deliveries' = [deliveries EXCEPT ![e] = after]
  BY <1>5 DEF after
<1>9. GoodDeliveries(deliveries', DOMAIN rows', applied')
  BY <1>1, <1>2, <1>5, <1>6, <1>7, <1>8, DeliveryMoves
<1> QED
  BY <1>2, <1>9 DEF HubInv, GoodJob

-----------------------------------------------------------------------------
(* The reconciliation job.                                                 *)

\* What a sync that read `seen` makes of the rows.
SyncedRows(seen, app) ==
  [r \in DOMAIN rows \cup DOMAIN seen |->
     IF r \in DOMAIN seen THEN apply_announced_state(settle_membership_evidence(r, seen[r]), app)
                          ELSE mark_access_removed(rows[r], "removed")]

LEMMA SyncGood ==
  ASSUME HubInv, NEW seen \in Listing, NEW app \in Apps
  PROVE  /\ GoodRows(SyncedRows(seen, app), app)
         /\ DOMAIN rows \subseteq DOMAIN SyncedRows(seen, app)
<1> DEFINE after == SyncedRows(seen, app)
<1>1. PICK S \in SUBSET Repos : seen \in [S -> Names]
  BY DEF Listing
<1>2. /\ DOMAIN after = DOMAIN rows \cup S
      /\ \A r \in DOMAIN rows \cup S :
           after[r] = IF r \in S
                        THEN apply_announced_state(settle_membership_evidence(r, seen[r]), app)
                        ELSE mark_access_removed(rows[r], "removed")
  BY <1>1 DEF SyncedRows
<1>3. DOMAIN rows \subseteq Repos /\ \A r \in DOMAIN rows : GoodRow(rows[r], installation)
  BY DEF HubInv, GoodRows
<1> HIDE DEF after
<1>4. ASSUME NEW r \in DOMAIN rows \cup S
      PROVE  GoodRow(after[r], app)
  <2>1. CASE r \in S
    <3> DEFINE name == seen[r]
               row == upsert_repository(rows, r, name)
               settled == settle_membership_evidence(r, name)
    <3>1. name \in Names /\ security_gate_for(name) \in BOOLEAN
      BY <1>1, <2>1 DEF security_gate_for
    <3>2. CASE r \in DOMAIN rows
      <4>1. rows[r] \in Row /\ (rows[r].state = "ready" => rows[r].evidence = "complete")
        BY <1>3, <3>2 DEF GoodRow
      <4>2. row = [rows[r] EXCEPT !.name = name, !.gate = @ \/ security_gate_for(name)]
        BY <3>2 DEF upsert_repository
      <4> DEFINE g == rows[r].gate \/ security_gate_for(name)
      <4>3. /\ row \in Row /\ row.state = rows[r].state /\ row.evidence = rows[r].evidence
            /\ row.gate = g
        <5>1. g \in BOOLEAN
          OBVIOUS
        <5>2. row = [rows[r] EXCEPT !.name = name, !.gate = g]
          BY <4>2
        <5> HIDE DEF row, name, g
        <5> QED
          BY <3>1, <4>1, <5>1, <5>2 DEF Row
      <4> DEFINE ev == IF security_gate_for(name) THEN "never"
                       ELSE IF rows[r].name # name THEN "stale" ELSE row.evidence
      <4>4. settled = [row EXCEPT !.evidence = ev]
        BY <3>2 DEF settle_membership_evidence
      <4>5. ev \in {"never", "partial", "stale", "complete", "failed"}
        BY <4>3 DEF Row
      <4>6. row.state = "ready" /\ ev = "never" => row.gate
        BY <4>1, <4>3
      <4> HIDE DEF row, ev, settled
      <4>7. settled \in Row /\ (settled.state = "ready" /\ settled.evidence = "never" => settled.gate)
        BY <4>3, <4>4, <4>5, <4>6 DEF Row
      <4> QED
        BY <1>2, <2>1, <4>7, AnnouncedGood DEF settled
    <3>3. CASE r \notin DOMAIN rows
      <4>1. row = NewRow(name)
        BY <3>3 DEF upsert_repository
      <4>2. settled = [row EXCEPT !.evidence = "never"]
        BY <3>3 DEF settle_membership_evidence
      <4>3. row \in Row /\ row.state # "ready"
        BY <3>1, <4>1, NewRowType
      <4> HIDE DEF row, settled
      <4>4. settled \in Row /\ settled.state # "ready"
        BY <4>2, <4>3 DEF Row
      <4> QED
        BY <1>2, <2>1, <4>4, AnnouncedGood DEF settled
    <3> QED
      BY <3>2, <3>3
  <2>2. CASE r \notin S
    <3>1. rows[r] \in Row /\ after[r] = mark_access_removed(rows[r], "removed")
      BY <1>2, <1>3, <2>2 DEF GoodRow
    <3> QED
      BY <3>1, RemovedGood
  <2> QED
    BY <2>1, <2>2
<1>5. GoodRows(after, app) /\ DOMAIN rows \subseteq DOMAIN after
  BY <1>2, <1>3, <1>4 DEF GoodRows
<1> QED
  BY <1>5 DEF after

\* A sweeper at rest.
LEMMA RestType == AtRest \in SweeperRow
<1>1. <<>> \in [{} -> Names] /\ {} \in SUBSET Repos
  OBVIOUS
<1>2. <<>> \in Listing
  BY <1>1 DEF Listing
<1> QED
  BY <1>2 DEF AtRest, SweeperRow

\* A sweeper that committed moves to rest, having noted it if the job is its own.
LEMMA CommitGood ==
  ASSUME HubInv, NEW s \in Sweepers,
         job' = IF job.owner = s THEN [job EXCEPT !.synced = TRUE] ELSE job,
         sweepers' = [sweepers EXCEPT ![s] = [AtRest EXCEPT !.pc = "committed"]]
  PROVE  GoodJob'
<1>1. AtRest \in SweeperRow
  BY RestType
<1> DEFINE c == [AtRest EXCEPT !.pc = "committed"]
<1>2. c \in SweeperRow /\ c.pc = "committed"
  BY <1>1 DEF SweeperRow
<1>3. /\ job' \in JobRow /\ job'.status = job.status /\ job'.owner = job.owner
      /\ job'.synced = (job.synced \/ job.owner = s)
  <2>1. job \in JobRow
    BY DEF HubInv, GoodJob
  <2>2. CASE job.owner = s
    BY <2>1, <2>2 DEF JobRow
  <2>3. CASE job.owner # s
    BY <2>1, <2>3 DEF JobRow
  <2> QED
    BY <2>2, <2>3
<1>4. /\ sweepers' \in [Sweepers -> SweeperRow]
      /\ \A t \in Sweepers \ {s} : sweepers'[t] = sweepers[t]
  <2> HIDE DEF c
  <2> QED
    BY <1>2 DEF HubInv, GoodJob, c
<1>5. job'.status = "processed" => job'.synced
  BY <1>3 DEF HubInv, GoodJob
<1>6. ASSUME NEW t \in Sweepers, sweepers'[t].pc = "committed", job'.owner = t,
             job'.status = "pending"
      PROVE  job'.synced
  <2>1. CASE t = s
    BY <1>3, <1>6, <2>1
  <2>2. CASE t # s
    BY <1>3, <1>4, <1>6, <2>2 DEF HubInv, GoodJob
  <2> QED
    BY <2>1, <2>2
<1> QED
  BY <1>3, <1>4, <1>5, <1>6 DEF GoodJob

\* A sweeper moves without committing, and the job's owner is not set to one that had.
LEMMA JobMoves ==
  ASSUME HubInv, NEW s \in Sweepers, NEW c \in SweeperRow, c.pc # "committed",
         sweepers' = [sweepers EXCEPT ![s] = c],
         job' \in JobRow, job'.status = "processed" => job'.synced,
         \/ job'.owner = s
         \/ job'.owner = job.owner /\ job'.synced = job.synced /\ job'.status = job.status
         \/ job'.status # "pending"
  PROVE  GoodJob'
<1>1. /\ sweepers' \in [Sweepers -> SweeperRow] /\ sweepers'[s] = c
      /\ \A t \in Sweepers \ {s} : sweepers'[t] = sweepers[t]
  BY DEF HubInv, GoodJob
<1>2. ASSUME NEW t \in Sweepers, sweepers'[t].pc = "committed", job'.owner = t,
             job'.status = "pending"
      PROVE  job'.synced
  <2>1. t # s /\ sweepers'[t] = sweepers[t]
    BY <1>1, <1>2
  <2> QED
    BY <1>2, <2>1 DEF HubInv, GoodJob
<1> QED
  BY <1>1, <1>2 DEF GoodJob

\* Steps of the job and its sweepers that leave the rows alone.
LEMMA SweeperGood ==
  ASSUME HubInv, HubAssumption, NEW s \in Sweepers,
         \/ claim_next_job(s) \/ renew_lease(s) \/ ReadInstallation(s) \/ ReadMembers(s)
         \/ CloseJob(s) \/ record_job_failure(s) \/ SweeperDies(s)
  PROVE  GoodJob'
<1>1. /\ job \in JobRow /\ sweepers \in [Sweepers -> SweeperRow] /\ sweepers[s] \in SweeperRow
      /\ job.status = "processed" => job.synced
      /\ hub \in HubRec
  BY DEF HubInv, GoodJob
<1>2. AtRest \in SweeperRow /\ AtRest.pc = "idle"
  BY RestType DEF AtRest
<1>3. CASE claim_next_job(s)
  <2> DEFINE c == [sweepers[s] EXCEPT !.pc = "claimed"]
             j == [job EXCEPT !.owner = s, !.live = TRUE, !.attempts = @ + 1, !.synced = FALSE]
  <2>1. c \in SweeperRow /\ c.pc = "claimed"
    BY <1>1 DEF SweeperRow
  <2>2. j \in JobRow /\ j.owner = s /\ j.status = "pending"
    <3>1. job.attempts + 1 \in Nat
      BY <1>1 DEF JobRow
    <3>2. job.status = "pending"
      BY <1>3 DEF claim_next_job
    <3>3. j \in JobRow
      BY <1>1, <3>1 DEF JobRow
    <3>4. j.owner = s /\ j.status = job.status
      BY <1>1 DEF JobRow
    <3> QED
      BY <3>2, <3>3, <3>4
  <2>3. job' = j /\ sweepers' = [sweepers EXCEPT ![s] = c]
    BY <1>3 DEF claim_next_job
  <2> HIDE DEF c, j
  <2> QED
    BY <2>1, <2>2, <2>3, JobMoves
<1>4. CASE renew_lease(s)
  <2>1. job' = [job EXCEPT !.live = TRUE] /\ sweepers' = sweepers
    BY <1>4 DEF renew_lease
  <2>2. /\ job' \in JobRow /\ job'.status = job.status /\ job'.owner = job.owner
        /\ job'.synced = job.synced
    BY <1>1, <2>1 DEF JobRow
  <2> QED
    BY <2>1, <2>2 DEF HubInv, GoodJob
<1>5. CASE ReadInstallation(s)
  <2> DEFINE c == IF hub.app = "deleted" THEN [sweepers[s] EXCEPT !.pc = "gone"]
                  ELSE [sweepers[s] EXCEPT !.pc = "detail", !.app = hub.app]
  <2>1. c \in SweeperRow /\ c.pc # "committed"
    <3>1. CASE hub.app = "deleted"
      BY <1>1, <3>1 DEF SweeperRow
    <3>2. CASE hub.app # "deleted"
      <4>1. hub.app \in {"active", "suspended"}
        BY <1>1, <3>2 DEF HubRec, Apps
      <4>2. [sweepers[s] EXCEPT !.pc = "detail", !.app = hub.app] \in SweeperRow
        BY <1>1, <4>1 DEF SweeperRow
      <4>3. [sweepers[s] EXCEPT !.pc = "detail", !.app = hub.app].pc = "detail"
        BY <1>1 DEF SweeperRow
      <4> QED
        BY <3>2, <4>2, <4>3
    <3> QED
      BY <3>1, <3>2
  <2>2. sweepers' = [sweepers EXCEPT ![s] = c] /\ job' = job
    BY <1>5 DEF ReadInstallation
  <2> HIDE DEF c
  <2> QED
    BY <1>1, <2>1, <2>2, JobMoves
<1>6. CASE ReadMembers(s)
  <2> DEFINE L == [r \in hub.members |-> hub.names[r]]
             c == [sweepers[s] EXCEPT !.pc = "listed", !.seen = L]
  <2>1. L \in [hub.members -> Names] /\ hub.members \in SUBSET Repos
    BY <1>1 DEF HubRec
  <2>2. L \in Listing
    BY <2>1 DEF Listing
  <2>3. sweepers' = [sweepers EXCEPT ![s] = c] /\ job' = job
    BY <1>1, <1>6 DEF ReadMembers
  <2> HIDE DEF L
  <2>4. c \in SweeperRow
    BY <1>1, <2>2 DEF SweeperRow
  <2>5. c.pc = "listed"
    BY <1>1 DEF SweeperRow
  <2> HIDE DEF c
  <2> QED
    BY <1>1, <2>3, <2>4, <2>5, JobMoves
<1>7. CASE CloseJob(s)
  <2>1. sweepers' = [sweepers EXCEPT ![s] = AtRest]
    BY <1>7 DEF CloseJob
  <2>2. CASE Fenced(s)
    <3> DEFINE j == [job EXCEPT !.status = "processed", !.owner = Nobody, !.live = FALSE]
    <3>1. job' = j
      BY <1>7, <2>2 DEF CloseJob
    <3>2. j \in JobRow
      BY <1>1 DEF JobRow
    <3>3. j.status = "processed" /\ j.synced = job.synced
      BY <1>1 DEF JobRow
    <3>4. job.synced
      BY <1>7, <2>2 DEF CloseJob, Fenced, HubInv, GoodJob
    <3> HIDE DEF j
    <3> QED
      BY <1>2, <2>1, <3>1, <3>2, <3>3, <3>4, JobMoves
  <2>3. CASE ~Fenced(s)
    <3>1. job' = job
      BY <1>7, <2>3 DEF CloseJob
    <3> QED
      BY <1>1, <1>2, <2>1, <3>1, JobMoves
  <2> QED
    BY <2>2, <2>3
<1>8. CASE record_job_failure(s)
  <2>1. sweepers' = [sweepers EXCEPT ![s] = AtRest]
    BY <1>8 DEF record_job_failure
  <2>2. job' = job \/ job' = [job EXCEPT !.status = "failed"]
    BY <1>8 DEF record_job_failure
  <2>3. job' = job \/ (job' \in JobRow /\ job'.status = "failed")
    BY <1>1, <2>2 DEF JobRow
  <2> QED
    BY <1>1, <1>2, <2>1, <2>3, JobMoves
<1>9. CASE SweeperDies(s)
  <2>1. sweepers' = [sweepers EXCEPT ![s] = AtRest] /\ job' = job
    BY <1>9 DEF SweeperDies
  <2> QED
    BY <1>1, <1>2, <2>1, JobMoves
<1> QED
  BY <1>3, <1>4, <1>5, <1>6, <1>7, <1>8, <1>9

\* Every step of a sweeper.
LEMMA SweeperStep ==
  ASSUME HubInv, HubAssumption, SweeperNext
  PROVE  HubInv'
<1>1. UNCHANGED <<hub, deliveries, operators, reviews, applied>>
  BY DEF SweeperNext, SweeperOnly, LeaseLapses, claim_next_job, renew_lease,
         ReadInstallation, ReadMembers, SyncCommits, close_uninstalled, CloseJob,
         record_job_failure, SweeperDies
<1>2. ASSUME GoodJob', GoodRows(rows', installation'), DOMAIN rows \subseteq DOMAIN rows'
      PROVE  HubInv'
  <2>1. GoodDeliveries(deliveries', DOMAIN rows', applied')
    BY <1>1, <1>2, MoreKnown DEF HubInv
  <2>2. GoodRequests(operators', DOMAIN rows')
    BY <1>1, <1>2, MoreKnown DEF HubInv
  <2> QED
    BY <1>1, <1>2, <2>1, <2>2 DEF HubInv
<1>3. CASE LeaseLapses
  <2>1. /\ job' = [job EXCEPT !.live = FALSE]
        /\ UNCHANGED <<installation, rows, sweepers>>
    BY <1>3 DEF LeaseLapses
  <2>2. /\ job' \in JobRow /\ job'.status = job.status /\ job'.owner = job.owner
        /\ job'.synced = job.synced
    BY <2>1 DEF HubInv, GoodJob, JobRow
  <2>3. GoodJob'
    BY <2>1, <2>2 DEF HubInv, GoodJob
  <2> QED
    BY <1>2, <2>1, <2>3 DEF HubInv
<1>4. ASSUME NEW s \in Sweepers,
             \/ claim_next_job(s) \/ renew_lease(s) \/ ReadInstallation(s) \/ ReadMembers(s)
             \/ CloseJob(s) \/ record_job_failure(s) \/ SweeperDies(s)
      PROVE  HubInv'
  <2>1. UNCHANGED <<installation, rows>>
    BY <1>4 DEF claim_next_job, renew_lease, ReadInstallation, ReadMembers, CloseJob,
                record_job_failure, SweeperDies
  <2> QED
    BY <1>2, <1>4, <2>1, SweeperGood DEF HubInv
<1>5. ASSUME NEW s \in Sweepers, SyncCommits(s)
      PROVE  HubInv'
  <2> DEFINE seen == sweepers[s].seen
             app == sweepers[s].app
  <2>1. seen \in Listing /\ app \in Apps
    BY DEF HubInv, GoodJob, SweeperRow, Apps
  <2>2. rows' = SyncedRows(seen, app) /\ installation' = app
    BY <1>5 DEF SyncCommits, SyncedRows
  <2>3. GoodRows(rows', installation') /\ DOMAIN rows \subseteq DOMAIN rows'
    BY <2>1, <2>2, SyncGood
  <2>4. GoodJob'
    BY <1>5, CommitGood DEF SyncCommits
  <2> QED
    BY <1>2, <2>3, <2>4
<1>6. ASSUME NEW s \in Sweepers, close_uninstalled(s)
      PROVE  HubInv'
  <2>1. GoodRows(rows', installation') /\ DOMAIN rows \subseteq DOMAIN rows'
    <3>1. /\ installation' = "deleted"
          /\ rows' = [r \in DOMAIN rows |-> mark_access_removed(rows[r], "removed")]
      BY <1>6 DEF close_uninstalled
    <3>2. DOMAIN rows \subseteq Repos /\ \A r \in DOMAIN rows : rows[r] \in Row
      BY DEF HubInv, GoodRows, GoodRow
    <3>3. \A r \in DOMAIN rows : GoodRow(rows'[r], installation')
      BY <3>1, <3>2, RemovedGood
    <3> QED
      BY <3>1, <3>2, <3>3 DEF GoodRows, Apps
  <2>2. GoodJob'
    BY <1>6, CommitGood DEF close_uninstalled
  <2> QED
    BY <1>2, <2>1, <2>2
<1> QED
  BY <1>3, <1>4, <1>5, <1>6 DEF SweeperNext
-----------------------------------------------------------------------------
(* Operators.                                                              *)

\* One known row is rewritten.
LEMMA RowWritten ==
  ASSUME HubInv, NEW r \in DOMAIN rows, NEW row, GoodRow(row, installation),
         rows' = [rows EXCEPT ![r] = row], UNCHANGED installation
  PROVE  GoodRows(rows', installation') /\ DOMAIN rows' = DOMAIN rows
<1>1. /\ DOMAIN rows' = DOMAIN rows
      /\ \A q \in DOMAIN rows : rows'[q] = IF q = r THEN row ELSE rows[q]
  OBVIOUS
<1> QED
  BY <1>1 DEF HubInv, GoodRows

\* One request moves, about a repository that is known.
LEMMA OperatorMoves ==
  ASSUME HubInv, NEW o \in Operators, NEW c \in OperatorRow,
         c.pc # "idle" => c.repo \in DOMAIN rows, c.pc = "read" => c.answer # "none",
         operators' = [operators EXCEPT ![o] = c], DOMAIN rows' = DOMAIN rows
  PROVE  GoodRequests(operators', DOMAIN rows')
<1>1. operators \in [Operators -> OperatorRow]
  BY DEF HubInv, GoodRequests
<1>2. /\ operators' \in [Operators -> OperatorRow] /\ operators'[o] = c
      /\ \A p \in Operators \ {o} : operators'[p] = operators[p]
  BY <1>1
<1> QED
  BY <1>2 DEF HubInv, GoodRequests

\* A transition away from ready is never refused to a ready row, so that the row
\* is not ready afterwards whether it was refused or not.
LEMMA LeavesReady ==
  ASSUME NEW row \in Row, NEW app, NEW target \in {"validating", "blocked", "degraded"}
  PROVE  GoodRow(apply_state(row, target), app)
<1>1. target \in States /\ target # "ready"
  BY DEF States
<1>2. row.state = "ready" => can_transition(row, target)
  BY FromReady
<1>3. LET after == apply_state(row, target) IN
      after \in Row /\ after.state = IF can_transition(row, target) THEN target ELSE row.state
  BY <1>1, TransitionType
<1> QED
  BY <1>1, <1>2, <1>3 DEF GoodRow

\* The same of a write that raises when it is refused.
LEMMA RaiseLeavesReady ==
  ASSUME NEW row \in Row, NEW app, NEW target \in {"blocked", "degraded"},
         NEW after \in Row, after.state # "ready"
  PROVE  GoodRow(OrRaise(row, target, after), app)
<1>1. row.state = "ready" => can_transition(row, target)
  BY FromReady
<1> QED
  BY <1>1 DEF OrRaise, GoodRow

\* Every step of an operator's request but its death.
LEMMA RequestGood ==
  ASSUME HubInv, NEW o \in Operators,
         \/ mark_incomplete(o) \/ BlockOnShortfall(o) \/ Validate(o) \/ GetRepository(o)
         \/ verify_repository_identity(o) \/ ReconcileCommits(o) \/ ReconcileErrs(o)
  PROVE  HubInv'
<1> DEFINE q == operators[o]
           r == operators[o].repo
           row == rows[operators[o].repo]
<1>1. UNCHANGED <<hub, deliveries, installation, job, sweepers, reviews, applied>>
  BY DEF OperatorOnly, mark_incomplete, BlockOnShortfall, Validate, GetRepository,
         verify_repository_identity, ReconcileCommits, ReconcileErrs
<1>2. /\ q \in OperatorRow /\ r \in DOMAIN rows
      /\ row \in Row /\ GoodRow(row, installation)
  <2>1. q \in OperatorRow /\ q.pc # "idle"
    BY DEF mark_incomplete, BlockOnShortfall, Validate, GetRepository,
           verify_repository_identity, ReconcileCommits, ReconcileErrs, HubInv, GoodRequests
  <2>2. r \in DOMAIN rows
    BY <2>1 DEF HubInv, GoodRequests
  <2>3. GoodRow(rows[r], installation)
    BY <2>2 DEF HubInv, GoodRows
  <2> QED
    BY <2>1, <2>2, <2>3 DEF GoodRow
<1>3. NoRequest \in OperatorRow /\ NoRequest.pc = "idle"
  BY DEF NoRequest, OperatorRow
<1>4. ASSUME NEW c \in OperatorRow, c.pc # "idle" => c.repo \in DOMAIN rows,
             c.pc = "read" => c.answer # "none",
             operators' = [operators EXCEPT ![o] = c],
             \/ rows' = rows
             \/ \E new : GoodRow(new, installation) /\ rows' = [rows EXCEPT ![r] = new]
      PROVE  HubInv'
  <2>1. GoodRows(rows', installation') /\ DOMAIN rows' = DOMAIN rows
    <3>1. CASE rows' = rows
      BY <1>1, <3>1 DEF HubInv
    <3>2. ASSUME NEW new, GoodRow(new, installation), rows' = [rows EXCEPT ![r] = new]
          PROVE  GoodRows(rows', installation') /\ DOMAIN rows' = DOMAIN rows
      <4> HIDE DEF r, q, row
      <4> QED
        BY <1>1, <1>2, <3>2, RowWritten
    <3> QED
      BY <1>4, <3>1, <3>2
  <2>2. GoodRequests(operators', DOMAIN rows')
    BY <1>4, <2>1, OperatorMoves
  <2> QED
    BY <1>1, <2>1, <2>2 DEF HubInv, GoodJob
<1>5. ASSUME NEW pc \in {"short", "validating"}
      PROVE  LET c == [q EXCEPT !.pc = pc] IN
             c \in OperatorRow /\ c.repo = r /\ c.pc = pc
  BY <1>2, <1>5 DEF OperatorRow
<1> HIDE DEF q, r, row
<1>6. CASE mark_incomplete(o)
  <2> DEFINE failed == [row EXCEPT !.evidence = "failed", !.error = TRUE]
             new == apply_announced_state(failed, installation)
  <2>1. failed \in Row /\ failed.evidence # "never"
    BY <1>2 DEF Row
  <2>2. GoodRow(new, installation)
    <3> HIDE DEF failed
    <3> QED
      BY <2>1, AnnouncedGood
  <2>3. rows' = [rows EXCEPT ![r] = new] /\ operators' = [operators EXCEPT ![o] = [q EXCEPT !.pc = "short"]]
    BY <1>6 DEF mark_incomplete, Write, Step, q, r, row
  <2> HIDE DEF new
  <2> QED
    BY <1>2, <1>4, <1>5, <2>2, <2>3
<1>7. CASE BlockOnShortfall(o)
  <2>1. GoodRow(apply_state(row, "blocked"), installation)
    BY <1>2, LeavesReady
  <2>2. rows' = [rows EXCEPT ![r] = apply_state(row, "blocked")]
        /\ operators' = [operators EXCEPT ![o] = NoRequest]
    BY <1>7 DEF BlockOnShortfall, Write, Done, r, row
  <2> QED
    BY <1>3, <1>4, <2>1, <2>2
<1>8. CASE Validate(o)
  <2>1. GoodRow(apply_state(row, "validating"), installation)
    BY <1>2, LeavesReady
  <2>2. rows' = [rows EXCEPT ![r] = apply_state(row, "validating")]
        /\ operators' = [operators EXCEPT ![o] = [q EXCEPT !.pc = "validating"]]
    BY <1>8 DEF Validate, Write, Step, q, r, row
  <2> QED
    BY <1>2, <1>4, <1>5, <2>1, <2>2
<1>9. CASE GetRepository(o)
  <2>1. PICK answer \in Names \cup {"other"} :
          operators' = [operators EXCEPT ![o].pc = "read", ![o].answer = answer]
    <3>1. hub.names[r] = "foreign" \/ r \in hub.members => hub.names[r] \in Names
      BY <1>2 DEF HubInv, HubRec, GoodRows
    <3>2. "foreign" \in Names
      BY DEF Names
    <3> QED
      BY <1>9, <3>1, <3>2 DEF GetRepository, r
  <2> DEFINE c == [q EXCEPT !.pc = "read", !.answer = answer]
  <2>2. c \in OperatorRow /\ c.repo = r /\ c.answer # "none"
    BY <1>2 DEF OperatorRow, Names, q, r
  <2>3. rows' = rows
    BY <1>9 DEF GetRepository
  <2>4. operators' = [operators EXCEPT ![o] = c]
    BY <1>2, <2>1 DEF q
  <2> HIDE DEF c
  <2> QED
    BY <1>2, <1>4, <2>2, <2>3, <2>4
<1>10. CASE verify_repository_identity(o)
  <2>1. operators' = [operators EXCEPT ![o] = NoRequest]
    BY <1>10 DEF verify_repository_identity, Done
  <2>2. q.answer \in {"other", "foreign", "gated"}
    BY <1>2, <1>10 DEF verify_repository_identity, OperatorRow, Names, q, HubInv, GoodRequests
  <2>3. CASE q.answer = "other"
    <3> DEFINE after == [row EXCEPT !.evidence = "failed", !.error = TRUE, !.state = "blocked"]
    <3>1. after \in Row /\ after.state # "ready"
      BY <1>2 DEF Row, States
    <3>2. rows' = [rows EXCEPT ![r] = OrRaise(row, "blocked", after)]
      BY <1>10, <2>3 DEF verify_repository_identity, Write, q, r, row
    <3> HIDE DEF after
    <3>3. GoodRow(OrRaise(row, "blocked", after), installation)
      BY <1>2, <3>1, RaiseLeavesReady
    <3> QED
      BY <1>3, <1>4, <2>1, <3>2, <3>3
  <2>4. CASE q.answer = "foreign"
    <3> DEFINE gone == mark_access_removed(row, "removed")
               new == [gone EXCEPT !.evidence = "stale"]
    <3>1. gone \in Row /\ gone.state # "ready"
      BY <1>2, RemovedGood DEF GoodRow
    <3>2. rows' = [rows EXCEPT ![r] = new]
      BY <1>10, <2>4 DEF verify_repository_identity, Write, q, r, row
    <3> HIDE DEF gone
    <3>3. GoodRow(new, installation)
      BY <3>1 DEF GoodRow, Row
    <3> HIDE DEF new
    <3> QED
      BY <1>3, <1>4, <2>1, <3>2, <3>3
  <2>5. CASE q.answer = "gated"
    <3> DEFINE after == [row EXCEPT !.name = "gated", !.gate = TRUE,
                                    !.evidence = "never", !.state = "blocked"]
    <3>1. after \in Row /\ after.state # "ready"
      BY <1>2 DEF Row, States, Names
    <3>2. rows' = [rows EXCEPT ![r] = OrRaise(row, "blocked", after)]
      BY <1>10, <2>5 DEF verify_repository_identity, Write, q, r, row
    <3> HIDE DEF after
    <3>3. GoodRow(OrRaise(row, "blocked", after), installation)
      BY <1>2, <3>1, RaiseLeavesReady
    <3> QED
      BY <1>3, <1>4, <2>1, <3>2, <3>3
  <2> QED
    BY <2>2, <2>3, <2>4, <2>5
<1>11. CASE ReconcileCommits(o)
  <2>1. PICK complete \in BOOLEAN :
          rows' = [rows EXCEPT ![r] = apply_announced_state(
            [row EXCEPT !.name = "plain", !.error = @ /\ ~complete,
                        !.evidence = IF complete THEN "complete" ELSE "partial"], installation)]
    BY <1>11 DEF ReconcileCommits, Write, r, row
  <2> DEFINE error == row.error /\ ~complete
             evidence == IF complete THEN "complete" ELSE "partial"
             read == [row EXCEPT !.name = "plain", !.error = error, !.evidence = evidence]
             new == apply_announced_state(read, installation)
  <2>2. rows' = [rows EXCEPT ![r] = new]
    BY <2>1
  <2>3. read \in Row /\ read.evidence # "never"
    <3>1. error \in BOOLEAN /\ evidence \in {"complete", "partial"}
      OBVIOUS
    <3> HIDE DEF error, evidence
    <3> QED
      BY <1>2, <3>1 DEF Row, Names
  <2> HIDE DEF read
  <2>4. GoodRow(new, installation)
    BY <2>3, AnnouncedGood
  <2>5. operators' = [operators EXCEPT ![o] = NoRequest]
    BY <1>11 DEF ReconcileCommits, Done
  <2> HIDE DEF new
  <2> QED
    BY <1>3, <1>4, <2>2, <2>4, <2>5
<1>12. CASE ReconcileErrs(o)
  <2> DEFINE after == [row EXCEPT !.state = "degraded", !.error = TRUE]
  <2>1. after \in Row /\ after.state # "ready"
    BY <1>2 DEF Row, States
  <2>2. /\ rows' = [rows EXCEPT ![r] = OrRaise(row, "degraded", after)]
        /\ operators' = [operators EXCEPT ![o] = NoRequest]
    BY <1>12 DEF ReconcileErrs, Write, Done, r, row
  <2> HIDE DEF after
  <2>3. GoodRow(OrRaise(row, "degraded", after), installation)
    BY <1>2, <2>1, RaiseLeavesReady
  <2> QED
    BY <1>3, <1>4, <2>2, <2>3
<1> QED
  BY <1>6, <1>7, <1>8, <1>9, <1>10, <1>11, <1>12
\* Every step of an operator.
LEMMA OperatorStep ==
  ASSUME HubInv, OperatorNext
  PROVE  HubInv'
<1>1. ASSUME NEW o \in Operators, NEW r \in Repos, StartReconcile(o, r)
      PROVE  HubInv'
  <2>1. /\ r \in DOMAIN rows /\ operators[o] \in OperatorRow
        /\ UNCHANGED <<hub, deliveries, installation, job, sweepers, reviews, applied>>
    BY <1>1 DEF StartReconcile, OperatorOnly, HubInv, GoodRequests
  <2>2. CASE operators' = operators /\ rows' = rows
    BY <2>1, <2>2 DEF HubInv, GoodJob
  <2>3. CASE operators' = operators /\ rows' = [rows EXCEPT ![r] = apply_state(rows[r], "blocked")]
    <3>1. rows[r] \in Row
      BY <2>1 DEF HubInv, GoodRows, GoodRow
    <3>2. GoodRow(apply_state(rows[r], "blocked"), installation)
      BY <3>1, LeavesReady
    <3>3. GoodRows(rows', installation') /\ DOMAIN rows' = DOMAIN rows
      BY <2>1, <2>3, <3>2, RowWritten
    <3> QED
      BY <2>1, <2>3, <3>3 DEF HubInv, GoodJob
  <2>4. CASE operators' = [operators EXCEPT ![o] = [operators[o] EXCEPT !.pc = "open", !.repo = r]]
             /\ rows' = rows
    <3> DEFINE c == [operators[o] EXCEPT !.pc = "open", !.repo = r]
    <3>1. c \in OperatorRow /\ c.pc = "open" /\ c.repo = r
      BY <2>1 DEF OperatorRow
    <3>2. operators' = [operators EXCEPT ![o] = c]
      BY <2>4
    <3> HIDE DEF c
    <3>3. GoodRequests(operators', DOMAIN rows')
      BY <2>1, <2>4, <3>1, <3>2, OperatorMoves
    <3> QED
      BY <2>1, <2>4, <3>3 DEF HubInv, GoodJob
  <2> QED
    BY <1>1, <2>2, <2>3, <2>4 DEF StartReconcile
<1>2. ASSUME NEW o \in Operators, RequestDies(o)
      PROVE  HubInv'
  <2>1. NoRequest \in OperatorRow /\ NoRequest.pc = "idle"
    BY DEF NoRequest, OperatorRow
  <2>2. /\ operators' = [operators EXCEPT ![o] = NoRequest]
        /\ UNCHANGED <<hub, deliveries, installation, rows, job, sweepers, reviews, applied>>
    BY <1>2 DEF RequestDies, Done
  <2>3. GoodRequests(operators', DOMAIN rows')
    BY <2>1, <2>2, OperatorMoves
  <2> QED
    BY <2>2, <2>3 DEF HubInv, GoodJob
<1> QED
  BY <1>1, <1>2, RequestGood DEF OperatorNext

-----------------------------------------------------------------------------
(* The specification.                                                      *)

LEMMA HubStarts ==
  ASSUME HubInit, HubAssumption
  PROVE  HubInv
<1>1. PICK known \in SUBSET Repos :
       /\ hub = [app |-> "active", members |-> known, names |-> [r \in Repos |-> "plain"]]
       /\ rows \in [known -> {NewRow("plain"),
                              [NewRow("plain") EXCEPT !.evidence = "complete", !.state = "ready"]}]
       /\ reviews \in {f \in [Repos -> {"none", "current"}] :
                         \A r \in Repos \ known : f[r] = "none"}
  BY DEF HubInit
<1>2. /\ deliveries = <<>> /\ installation = "active"
      /\ job = [FreshJob EXCEPT !.status = "processed", !.synced = TRUE]
      /\ sweepers = [s \in Sweepers |-> AtRest]
      /\ operators = [o \in Operators |-> NoRequest]
      /\ applied = [e \in Events |-> 0]
  BY DEF HubInit
<1>3. hub \in HubRec
  BY <1>1 DEF HubRec, Apps, Names
<1>4. reviews \in [Repos -> ReviewStates]
  BY <1>1 DEF ReviewStates
<1>5. GoodRows(rows, installation)
  <2> DEFINE ready == [NewRow("plain") EXCEPT !.evidence = "complete", !.state = "ready"]
  <2>1. NewRow("plain") \in Row /\ NewRow("plain").state # "ready"
    BY NewRowType DEF Names
  <2>2. /\ NewRow("plain").access = "accessible" /\ NewRow("plain").error = FALSE
        /\ NewRow("plain").gate = FALSE
    BY DEF NewRow, security_gate_for
  <2>3. GoodRow(NewRow("plain"), installation)
    BY <2>1 DEF GoodRow
  <2>4. GoodRow(ready, installation)
    <3>1. /\ ready \in Row /\ ready.evidence = "complete" /\ ready.access = "accessible"
          /\ ready.error = FALSE /\ ready.gate = FALSE
      BY <2>1, <2>2 DEF Row, States
    <3> HIDE DEF ready
    <3> QED
      BY <1>2, <3>1 DEF GoodRow
  <2> HIDE DEF ready
  <2> QED
    BY <1>1, <1>2, <2>3, <2>4 DEF GoodRows, Apps, ready
<1>6. GoodDeliveries(deliveries, DOMAIN rows, applied)
  <2>1. DOMAIN deliveries = 1..0 /\ 0 \in 0..MaxEvents
    BY <1>2 DEF HubAssumption
  <2>2. DOMAIN deliveries = {}
    BY <1>2
  <2> QED
    BY <1>2, <2>1, <2>2 DEF GoodDeliveries
<1>7. GoodJob
  <2>1. AtRest \in SweeperRow /\ AtRest.pc = "idle"
    BY RestType DEF AtRest
  <2>2. job \in JobRow /\ job.status = "processed" /\ job.synced = TRUE
    BY <1>2 DEF FreshJob, JobRow
  <2> QED
    BY <1>2, <2>1, <2>2 DEF GoodJob
<1>8. GoodRequests(operators, DOMAIN rows)
  <2>1. NoRequest \in OperatorRow /\ NoRequest.pc = "idle"
    BY DEF NoRequest, OperatorRow
  <2> QED
    BY <1>2, <2>1 DEF GoodRequests
<1> QED
  BY <1>3, <1>4, <1>5, <1>6, <1>7, <1>8 DEF HubInv

LEMMA HubInductive ==
  ASSUME HubInv, HubAssumption, [GitHubNext]_hubVars
  PROVE  HubInv'
<1>1. CASE HubNext
  BY <1>1, HubStep
<1>2. CASE DeliveryNext
  BY <1>2, RecordStep, ProcessStep, FailedStep DEF DeliveryNext
<1>3. CASE SweeperNext
  BY <1>3, SweeperStep
<1>4. CASE OperatorNext
  BY <1>4, OperatorStep
<1>5. CASE UNCHANGED hubVars
  BY <1>5 DEF hubVars, HubInv, GoodJob
<1> QED
  BY <1>1, <1>2, <1>3, <1>4, <1>5 DEF GitHubNext

LEMMA HubInvHolds == GitHubSpec => []HubInv
<1>1. HubInit => HubInv
  BY HubStarts, HubAssumption
<1>2. HubInv /\ [GitHubNext]_hubVars => HubInv'
  BY HubInductive, HubAssumption
<1> QED
  BY <1>1, <1>2, PTL DEF GitHubSpec

\* A repository is shown as ready only while no gate, no error, no loss of access
\* and no gap in its evidence stands against it, in whatever order webhooks, the
\* sync and an operator's read of it commit.
THEOREM ReadyIsAlwaysEarned == GitHubSpec => []ReadyIsEarned
<1>1. HubInv => ReadyIsEarned
  BY DEF HubInv, GoodRows, GoodRow, ReadyIsEarned
<1> QED
  BY <1>1, HubInvHolds, PTL

\* A webhook recorded as processed changed the projection exactly once, a failed or
\* unfinished one never, and a reconciliation job is closed only by a run of its
\* current claim that committed a listing.
THEOREM DoneWorkWasDone == GitHubSpec => []DoneMeansDone
<1>1. ASSUME HubInv
      PROVE  HubTypeOK
  <2>1. /\ hub.app \in Apps /\ hub.members \subseteq Repos /\ hub.names \in [Repos -> Names]
    BY <1>1 DEF HubInv, HubRec
  <2>2. DOMAIN deliveries \subseteq Events /\ \A e \in DOMAIN deliveries : deliveries[e] \in Delivery
    <3>1. PICK n \in 0..MaxEvents : DOMAIN deliveries = 1..n
      BY <1>1 DEF HubInv, GoodDeliveries
    <3>2. DOMAIN deliveries \subseteq Events
      BY <3>1, HubAssumption DEF HubAssumption, Events
    <3> QED
      BY <1>1, <3>2 DEF HubInv, GoodDeliveries
  <2>3. /\ installation \in Apps /\ DOMAIN rows \subseteq Repos
        /\ \A r \in DOMAIN rows : rows[r] \in Row
    BY <1>1 DEF HubInv, GoodRows, GoodRow
  <2>4. job.status \in {"pending", "processed", "failed"} /\ job.owner \in Sweepers \cup {Nobody}
    BY <1>1 DEF HubInv, GoodJob, JobRow
  <2>5. \A r \in Repos : reviews[r] \in {"none", "current", "outdated", "stale"}
    BY <1>1 DEF HubInv, ReviewStates
  <2> QED
    BY <2>1, <2>2, <2>3, <2>4, <2>5 DEF HubTypeOK, Apps
<1>2. ASSUME HubInv
      PROVE  HandledOnce
  <2>1. PICK n \in 0..MaxEvents : DOMAIN deliveries = 1..n
    BY <1>2 DEF HubInv, GoodDeliveries
  <2>2. DOMAIN deliveries \subseteq Events
    BY <2>1, HubAssumption DEF HubAssumption, Events
  <2> QED
    BY <1>2, <2>2 DEF HubInv, GoodDeliveries, HandledOnce
<1>3. HubInv => ClosedMeansSynced
  BY DEF HubInv, GoodJob, ClosedMeansSynced
<1>4. HubInv => DoneMeansDone
  BY <1>1, <1>2, <1>3 DEF DoneMeansDone
<1> QED
  BY <1>4, HubInvHolds, PTL

-----------------------------------------------------------------------------
(* The pull request that proposes a manifest.                              *)

PusherRow == [key : RequestKeys, step : CallSteps, draft : Commits, seen : BranchStates,
              answer : Answers, late : BOOLEAN]
BranchRow == [base : 0..MaxCommit, file : BOOLEAN, pr : BOOLEAN]

ProposalTypes ==
  /\ requests \in [RequestKeys -> Rows]
  /\ pushers \in [Pushers -> {Idle} \cup PusherRow]
  /\ gated \in BOOLEAN
  /\ branches \in [Sessions -> BranchRow]

(* A call that has left the claim and has not been answered.               *)
Flying(call) == call.step \notin {"claimed", "answered"}

(* What a call has learnt of GitHub's branch is still so.                  *)
Holds(call, branch) ==
  /\ call.seen \in {"at_base", "ready"} => branch.base = call.key[2]
  /\ call.seen = "ready" => branch.file
  /\ call.step = "reuse" => call.seen # "none"
  /\ call.step \in {"file", "open"} => branch.base = call.key[2]
  /\ call.step = "open" => branch.file
  /\ call.step = "answered" /\ call.answer = "exists" =>
       branch.base = call.key[2] /\ branch.file /\ branch.pr

(* A row marked in flight, whose lease has not run out.                    *)
InFlight(row, w) ==
  row.state = "pending" /\ row.marker /\ row.timer = "leased" /\ row.holder = w

GoodCall(call, w, table, at) ==
  /\ Holds(call, at[call.key[1]])
  /\ Flying(call) /\ ~call.late => InFlight(table[call.key], w)

GoodCalls(doing, table, at) ==
  \A w \in Pushers : doing[w] # Idle => GoodCall(doing[w], w, table, at)

RowsHold(table, at, life) ==
  \A k \in RequestKeys :
    /\ table[k].state # "none" => life[k[1]].commit # 0
    /\ table[k].state = "active" => at[k[1]] = [base |-> k[2], file |-> TRUE, pr |-> TRUE]

ProposalInv ==
  /\ SessionInv /\ ProposalTypes
  /\ GoodCalls(pushers, requests, branches)
  /\ RowsHold(requests, branches, sessions)

\* A session that has been analysed keeps a commit.
LEMMA CommitsStay ==
  ASSUME SessionTypes, [SessionNext]_sessionVars, NEW s \in Sessions, sessions[s].commit # 0
  PROVE  sessions'[s].commit # 0
<1>1. sessions \in [Sessions -> SessionRow]
  BY DEF SessionTypes
<1>2. ASSUME NEW t, NEW state, _set_state(t, state)
      PROVE  sessions'[s].commit # 0
  BY <1>1, <1>2 DEF _set_state, SessionRow
<1>3. CASE UNCHANGED sessions
  BY <1>3
<1>4. CASE \E t \in Sessions : create_session(t) \/ cancel_session(t)
  BY <1>2, <1>4 DEF create_session, cancel_session
<1>5. CASE \E t \in Sessions, v \in 1..MaxPlans : approve(t, v)
  BY <1>1, <1>5 DEF approve, SessionRow
<1>6. ASSUME NEW c \in Callers, CallerStep(c)
      PROVE  sessions'[s].commit # 0
  <2>1. CASE \E t \in Sessions : analyze(c, t)
    BY <1>2, <2>1 DEF analyze
  <2>2. CASE Scan(c) \/ CallLost(c)
    BY <1>3, <2>2 DEF Scan, CallLost
  <2>3. CASE ScanUnavailable(c)
    BY <1>2, <1>3, <2>3 DEF ScanUnavailable
  <2>4. CASE _record_analysis(c)
    <3>1. \/ UNCHANGED sessions
          \/ \E state : /\ calls[c].commit # 0
                        /\ sessions' = [sessions EXCEPT ![calls[c].session].state = state,
                                                        ![calls[c].session].commit = calls[c].commit]
      BY <2>4 DEF _record_analysis
    <3> QED
      BY <1>1, <1>3, <3>1 DEF SessionRow
  <2>5. CASE \E t \in Sessions, v \in 1..MaxPlans, k \in IdemKeys : apply(c, t, v, k)
    BY <1>3, <2>5 DEF apply
  <2>6. CASE ApplyChecksHead(c)
    BY <1>2, <1>3, <2>6 DEF ApplyChecksHead
  <2>7. CASE _materialise_session(c)
    BY <1>2, <1>3, <2>7 DEF _materialise_session
  <2> QED
    BY <1>6, <2>1, <2>2, <2>3, <2>4, <2>5, <2>6, <2>7 DEF CallerStep
<1>7. CASE Push
  BY <1>3, <1>7 DEF Push
<1>8. CASE \E commit \in Commits : mark_stale_for_commit(commit)
  BY <1>1, <1>8 DEF mark_stale_for_commit, SessionRow
<1> QED
  BY <1>3, <1>4, <1>5, <1>6, <1>7, <1>8 DEF SessionNext, SessionStep, sessionVars

\* A branch only gains: a base once, then its file and its pull request.
Gains(branch, after) ==
  /\ branch.base # 0 => after.base = branch.base
  /\ branch.file => after.file
  /\ branch.pr => after.pr

\* What was learnt of a branch stays true of it.
LEMMA HoldsStays ==
  ASSUME NEW call \in PusherRow, NEW branch \in BranchRow, NEW after \in BranchRow,
         Holds(call, branch), Gains(branch, after)
  PROVE  Holds(call, after)
<1>1. call.key[2] # 0
  <2>1. call.key \in Sessions \X Commits
    BY DEF PusherRow, RequestKeys
  <2> QED
    BY <2>1 DEF Commits
<1> QED
  BY <1>1 DEF Holds, Gains, BranchRow

\* Active rows stay real.
LEMMA RowsStay ==
  ASSUME ProposalInv, [SessionNext]_sessionVars, branches' \in [Sessions -> BranchRow],
         \A s \in Sessions : Gains(branches[s], branches'[s]), UNCHANGED requests
  PROVE  RowsHold(requests', branches', sessions')
<1> SUFFICES ASSUME NEW k \in RequestKeys
             PROVE  /\ requests[k].state # "none" => sessions'[k[1]].commit # 0
                    /\ requests[k].state = "active" =>
                         branches'[k[1]] = [base |-> k[2], file |-> TRUE, pr |-> TRUE]
  BY DEF RowsHold
<1>1. k[1] \in Sessions /\ k[2] # 0
  BY DEF RequestKeys, Commits
<1>2. SessionTypes /\ RowsHold(requests, branches, sessions)
  BY DEF ProposalInv, SessionInv
<1>3. requests[k].state # "none" => sessions'[k[1]].commit # 0
  BY <1>1, <1>2, CommitsStay DEF RowsHold
<1>4. ASSUME requests[k].state = "active"
      PROVE  branches'[k[1]] = [base |-> k[2], file |-> TRUE, pr |-> TRUE]
  <2>1. branches[k[1]] = [base |-> k[2], file |-> TRUE, pr |-> TRUE]
    BY <1>2, <1>4 DEF RowsHold
  <2>2. Gains(branches[k[1]], branches'[k[1]]) /\ branches'[k[1]] \in BranchRow
    BY <1>1
  <2> DEFINE b == branches'[k[1]]
  <2>3. b.base = k[2] /\ b.file = TRUE /\ b.pr = TRUE /\ b \in BranchRow
    BY <1>1, <2>1, <2>2 DEF Gains, BranchRow
  <2> HIDE DEF b
  <2>4. b = [base |-> k[2], file |-> TRUE, pr |-> TRUE]
    BY <2>3 DEF BranchRow
  <2> QED
    BY <2>4 DEF b
<1> QED
  BY <1>3, <1>4

\* A call under way takes one step towards GitHub.
LEMMA CallMoves ==
  ASSUME ProposalInv, NEW w \in Pushers, pushers[w] # Idle, Flying(pushers[w]),
         NEW c \in PusherRow, c.key = pushers[w].key, c.late = pushers[w].late,
         pushers' = [pushers EXCEPT ![w] = c],
         branches' \in [Sessions -> BranchRow],
         \A s \in Sessions : Gains(branches[s], branches'[s]),
         Holds(c, branches'[c.key[1]]),
         UNCHANGED <<sessionVars, requests, gated>>
  PROVE  ProposalInv'
<1>1. ProposalTypes'
  BY DEF ProposalInv, ProposalTypes
<1>2. SessionInv'
  BY SessionInvNext DEF ProposalInv
<1>3. RowsHold(requests', branches', sessions')
  BY RowsStay
<1>4. ASSUME NEW v \in Pushers, pushers'[v] # Idle
      PROVE  GoodCall(pushers'[v], v, requests', branches')
  <2>1. CASE v = w
    <3>1. pushers'[v] = c
      BY <2>1 DEF ProposalInv, ProposalTypes
    <3>2. ~c.late => InFlight(requests[c.key], w)
      BY DEF ProposalInv, GoodCalls, GoodCall
    <3> QED
      BY <2>1, <3>1, <3>2 DEF GoodCall
  <2>2. CASE v # w
    <3>1. pushers'[v] = pushers[v] /\ pushers[v] \in PusherRow
      BY <1>4, <2>2 DEF ProposalInv, ProposalTypes
    <3>2. GoodCall(pushers[v], v, requests, branches)
      BY <1>4, <3>1 DEF ProposalInv, GoodCalls
    <3>3. pushers[v].key[1] \in Sessions
      BY <3>1 DEF PusherRow, RequestKeys
    <3>4. Holds(pushers[v], branches'[pushers[v].key[1]])
      BY <3>1, <3>2, <3>3, HoldsStays DEF GoodCall, ProposalInv, ProposalTypes
    <3> QED
      BY <3>1, <3>2, <3>4 DEF GoodCall
  <2> QED
    BY <2>1, <2>2
<1> QED
  BY <1>1, <1>2, <1>3, <1>4 DEF ProposalInv, GoodCalls

\* GitHub's branch in the state that follows, for a call about it.
BranchKept ==
  /\ branches' \in [Sessions -> BranchRow]
  /\ \A s \in Sessions : Gains(branches[s], branches'[s])

\* A call proceeds.
LEMMA ProceedGood ==
  ASSUME ProposalInv, NEW w \in Pushers, pushers[w] # Idle, Flying(pushers[w]),
         NEW step \in {"branch", "file", "open"}, Proceed(w, step), BranchKept,
         LET branch == branches'[pushers[w].key[1]] IN
         /\ step \in {"file", "open"} => branch.base = pushers[w].key[2]
         /\ step = "open" => branch.file,
         UNCHANGED <<sessionVars, requests, gated>>
  PROVE  ProposalInv'
<1> DEFINE c == [pushers[w] EXCEPT !.step = step, !.seen = "none"]
<1>1. pushers[w] \in PusherRow
  BY DEF ProposalInv, ProposalTypes
<1>2. pushers' = [pushers EXCEPT ![w] = c]
  BY <1>1 DEF Proceed
<1>3. /\ c \in PusherRow /\ c.key = pushers[w].key /\ c.late = pushers[w].late
      /\ c.step = step /\ c.seen = "none"
  BY <1>1 DEF PusherRow, CallSteps, BranchStates
<1> HIDE DEF c
<1>4. Holds(c, branches'[c.key[1]])
  BY <1>3 DEF Holds
<1> QED
  BY <1>2, <1>3, <1>4, CallMoves DEF BranchKept

\* A call is answered; `exists` is said only of a pull request that is there.
LEMMA AnswerGood ==
  ASSUME ProposalInv, NEW w \in Pushers, pushers[w] # Idle, Flying(pushers[w]),
         NEW answer \in Answers, Answer(w, answer), BranchKept,
         LET branch == branches'[pushers[w].key[1]] IN
         answer = "exists" => branch.base = pushers[w].key[2] /\ branch.file /\ branch.pr,
         UNCHANGED <<sessionVars, requests, gated>>
  PROVE  ProposalInv'
<1> DEFINE c == [pushers[w] EXCEPT !.step = "answered", !.seen = "none", !.answer = answer]
<1>1. pushers[w] \in PusherRow
  BY DEF ProposalInv, ProposalTypes
<1>2. pushers' = [pushers EXCEPT ![w] = c]
  BY <1>1 DEF Answer
<1>3. /\ c \in PusherRow /\ c.key = pushers[w].key /\ c.late = pushers[w].late
      /\ c.step = "answered" /\ c.seen = "none" /\ c.answer = answer
  BY <1>1 DEF PusherRow, CallSteps, BranchStates
<1> HIDE DEF c
<1>4. Holds(c, branches'[c.key[1]])
  BY <1>3 DEF Holds
<1> QED
  BY <1>2, <1>3, <1>4, CallMoves DEF BranchKept

\* Drake's branch as a request sees it.
LEMMA Inspected ==
  ASSUME NEW k \in RequestKeys
  PROVE  LET branch == branches[k[1]]  found == _inspect_branch(k) IN
         /\ found \in {"absent", "conflict", "ready", "at_base"}
         /\ found = "absent" => branch.base = 0
         /\ found \in {"at_base", "ready"} => branch.base = k[2]
         /\ found = "ready" => branch.file
BY DEF _inspect_branch

\* Every step of a call to GitHub.
LEMMA ProviderStep ==
  ASSUME ProposalInv, NEW w \in Pushers,
         \/ InspectStep(w) \/ ReuseStep(w) \/ CreateBranch(w) \/ _write_file(w)
         \/ OpenPullRequest(w) \/ CallFails(w)
  PROVE  ProposalInv'
<1> DEFINE k == pushers[w].key
<1>1. pushers[w] # Idle /\ Flying(pushers[w]) /\ UNCHANGED <<sessionVars, requests, gated>>
  BY DEF InspectStep, ReuseStep, CreateBranch, _write_file, OpenPullRequest, CallFails,
         Sending, Flying
<1>2. /\ pushers[w] \in PusherRow /\ k \in RequestKeys /\ k[1] \in Sessions /\ k[2] \in Commits
      /\ branches \in [Sessions -> BranchRow] /\ branches[k[1]] \in BranchRow
      /\ Holds(pushers[w], branches[k[1]])
  <2>1. pushers[w] \in PusherRow /\ branches \in [Sessions -> BranchRow]
    BY <1>1 DEF ProposalInv, ProposalTypes
  <2>2. k \in RequestKeys
    BY <2>1 DEF PusherRow
  <2> QED
    BY <1>1, <2>1, <2>2 DEF RequestKeys, ProposalInv, GoodCalls, GoodCall
<1>3. UNCHANGED branches => BranchKept
  BY <1>2 DEF BranchKept, Gains
<1>4. "retryable" \in Answers /\ "terminal" \in Answers /\ "exists" \in Answers
  BY DEF Answers
<1> HIDE DEF k
<1>5. CASE InspectStep(w)
  <2>1. UNCHANGED branches
    BY <1>5 DEF InspectStep
  <2>2. CASE Answer(w, "terminal")
    BY <1>1, <1>3, <1>4, <2>1, <2>2, AnswerGood
  <2>3. CASE pushers' = [pushers EXCEPT ![w].step = "reuse", ![w].seen = _inspect_branch(pushers[w].key)]
    <3> DEFINE seen == _inspect_branch(k)
               c == [pushers[w] EXCEPT !.step = "reuse", !.seen = seen]
    <3>1. /\ seen \in {"absent", "conflict", "ready", "at_base"}
          /\ seen \in {"at_base", "ready"} => branches[k[1]].base = k[2]
          /\ seen = "ready" => branches[k[1]].file
      BY <1>2, Inspected
    <3>2. pushers' = [pushers EXCEPT ![w] = c]
      BY <1>2, <2>3 DEF k
    <3> HIDE DEF seen
    <3>3. /\ c \in PusherRow /\ c.key = k /\ c.late = pushers[w].late
          /\ c.step = "reuse" /\ c.seen = seen
      BY <1>2, <3>1 DEF PusherRow, CallSteps, BranchStates, k
    <3> HIDE DEF c
    <3>4. Holds(c, branches'[c.key[1]])
      BY <2>1, <3>1, <3>3 DEF Holds
    <3> QED
      BY <1>1, <1>3, <2>1, <3>2, <3>3, <3>4, CallMoves DEF BranchKept, k
  <2> QED
    BY <1>5, <2>2, <2>3 DEF InspectStep
<1>6. CASE ReuseStep(w)
  <2> DEFINE seen == pushers[w].seen
  <2>1. /\ UNCHANGED branches /\ seen # "none" /\ seen \in BranchStates
        /\ seen \in {"at_base", "ready"} => branches[k[1]].base = k[2]
        /\ seen = "ready" => branches[k[1]].file
    BY <1>2, <1>6 DEF ReuseStep, Sending, Holds, PusherRow, k
  <2>2. CASE Answer(w, "terminal")
    BY <1>1, <1>3, <1>4, <2>1, <2>2, AnswerGood
  <2>3. CASE Answer(w, "exists") /\ branches[k[1]].pr /\ seen = "ready"
    BY <1>1, <1>3, <1>4, <2>1, <2>3, AnswerGood DEF k
  <2>4. ASSUME NEW step \in {"branch", "file", "open"}, Proceed(w, step),
               step = "file" => seen = "at_base", step = "open" => seen = "ready"
        PROVE  ProposalInv'
    BY <1>1, <1>3, <2>1, <2>4, ProceedGood DEF k
  <2>5. \/ Answer(w, "terminal")
        \/ Answer(w, "exists") /\ branches[k[1]].pr /\ seen = "ready"
        \/ \E step \in {"branch", "file", "open"} :
             Proceed(w, step) /\ (step = "file" => seen = "at_base") /\ (step = "open" => seen = "ready")
    <3>1. seen \in {"absent", "at_base", "ready", "conflict"}
      BY <2>1 DEF BranchStates
    <3>2. Reuse(w)
      BY <1>6 DEF ReuseStep
    <3>3. CASE branches[k[1]].pr
      BY <3>2, <3>3 DEF Reuse, k
    <3>4. CASE ~branches[k[1]].pr /\ seen = "conflict"
      BY <3>2, <3>4 DEF Reuse, k
    <3>5. CASE ~branches[k[1]].pr /\ seen = "absent"
      BY <3>2, <3>5 DEF Reuse, k
    <3>6. CASE ~branches[k[1]].pr /\ seen = "ready"
      BY <3>2, <3>6 DEF Reuse, k
    <3>7. CASE ~branches[k[1]].pr /\ seen = "at_base"
      BY <3>2, <3>7 DEF Reuse, k
    <3> QED
      BY <3>1, <3>3, <3>4, <3>5, <3>6, <3>7
  <2> QED
    BY <2>2, <2>3, <2>4, <2>5
<1>7. CASE CreateBranch(w)
  <2> DEFINE found == _inspect_branch(k)
  <2>1. /\ found \in {"absent", "conflict", "ready", "at_base"}
        /\ found = "absent" => branches[k[1]].base = 0
        /\ found \in {"at_base", "ready"} => branches[k[1]].base = k[2]
        /\ found = "ready" => branches[k[1]].file
    BY <1>2, Inspected
  <2>2. CASE found = "absent"
    <3>1. branches' = [branches EXCEPT ![k[1]].base = k[2]]
      BY <1>7, <2>2 DEF CreateBranch, k
    <3>2. k[2] \in 0..MaxCommit
      BY <1>2, SessionAssumption DEF Commits, SessionAssumption
    <3>3. branches' \in [Sessions -> BranchRow] /\ branches'[k[1]].base = k[2]
      BY <1>2, <3>1, <3>2 DEF BranchRow
    <3>4. \A s \in Sessions : Gains(branches[s], branches'[s])
      BY <1>2, <2>1, <2>2, <3>1 DEF BranchRow, Gains
    <3>5. BranchKept
      BY <3>3, <3>4 DEF BranchKept
    <3>6. Proceed(w, "file") \/ Answer(w, "retryable")
      BY <1>7, <2>2 DEF CreateBranch, Landed, k
    <3> QED
      BY <1>1, <1>4, <3>3, <3>5, <3>6, ProceedGood, AnswerGood DEF k
  <2>3. CASE found # "absent"
    <3>1. UNCHANGED branches
      BY <1>7, <2>3 DEF CreateBranch, k
    <3>2. \/ Answer(w, "terminal")
          \/ found = "ready" /\ Proceed(w, "open")
          \/ found = "at_base" /\ Proceed(w, "file")
      BY <1>7, <2>1, <2>3 DEF CreateBranch, k
    <3> HIDE DEF found
    <3> QED
      BY <1>1, <1>3, <1>4, <2>1, <3>1, <3>2, ProceedGood, AnswerGood DEF k
  <2> QED
    BY <2>2, <2>3
<1>8. CASE _write_file(w)
  <2>1. branches' = [branches EXCEPT ![k[1]].file = TRUE] /\ branches[k[1]].base = k[2]
    BY <1>2, <1>8 DEF _write_file, Sending, Holds, k
  <2>2. /\ branches' \in [Sessions -> BranchRow]
        /\ branches'[k[1]].base = k[2] /\ branches'[k[1]].file = TRUE
    BY <1>2, <2>1 DEF BranchRow
  <2>3. \A s \in Sessions : Gains(branches[s], branches'[s])
    BY <1>2, <2>1 DEF BranchRow, Gains
  <2>4. BranchKept
    BY <2>2, <2>3 DEF BranchKept
  <2>5. Proceed(w, "open") \/ Answer(w, "retryable")
    BY <1>8 DEF _write_file, Landed
  <2> QED
    BY <1>1, <1>4, <2>2, <2>4, <2>5, ProceedGood, AnswerGood DEF k
<1>9. CASE OpenPullRequest(w)
  <2>1. /\ branches' = [branches EXCEPT ![k[1]].pr = TRUE]
        /\ branches[k[1]].base = k[2] /\ branches[k[1]].file
    BY <1>2, <1>9 DEF OpenPullRequest, Sending, Holds, k
  <2>2. /\ branches' \in [Sessions -> BranchRow]
        /\ branches'[k[1]].base = k[2] /\ branches'[k[1]].file /\ branches'[k[1]].pr = TRUE
    BY <1>2, <2>1 DEF BranchRow
  <2>3. \A s \in Sessions : Gains(branches[s], branches'[s])
    BY <1>2, <2>1 DEF BranchRow, Gains
  <2>4. BranchKept
    BY <2>2, <2>3 DEF BranchKept
  <2>5. Answer(w, "exists") \/ Answer(w, "retryable")
    BY <1>9 DEF OpenPullRequest, Landed
  <2> QED
    BY <1>1, <1>4, <2>2, <2>4, <2>5, AnswerGood DEF k
<1>10. CASE CallFails(w)
  <2>1. UNCHANGED branches /\ \E answer \in {"retryable", "terminal"} : Answer(w, answer)
    BY <1>10 DEF CallFails
  <2> QED
    BY <1>1, <1>3, <1>4, <2>1, AnswerGood
<1> QED
  BY <1>5, <1>6, <1>7, <1>8, <1>9, <1>10

\* One row changes, and no call in flight about it is left behind.
LEMMA RowChanges ==
  ASSUME ProposalInv, NEW k \in RequestKeys, NEW row \in Rows,
         requests' = [requests EXCEPT ![k] = row], UNCHANGED <<sessionVars, branches>>,
         pushers' \in [Pushers -> {Idle} \cup PusherRow], gated' \in BOOLEAN,
         row.state # "none" => sessions[k[1]].commit # 0,
         row.state = "active" => branches[k[1]] = [base |-> k[2], file |-> TRUE, pr |-> TRUE],
         \A w \in Pushers : pushers'[w] # Idle =>
           \/ GoodCall(pushers'[w], w, requests', branches)
           \/ /\ pushers'[w] = pushers[w]
              /\ \/ ~InFlight(requests[k], w)
                 \/ ~Flying(pushers[w]) \/ pushers[w].key # k
  PROVE  ProposalInv'
<1>1. ProposalTypes'
  BY DEF ProposalInv, ProposalTypes
<1>2. SessionInv'
  BY SessionInvNext DEF ProposalInv
<1>3. \A q \in RequestKeys : requests'[q] = IF q = k THEN row ELSE requests[q]
  BY DEF ProposalInv, ProposalTypes
<1>4. RowsHold(requests', branches', sessions')
  <2>1. RowsHold(requests, branches, sessions) /\ branches' = branches /\ sessions' = sessions
    BY DEF ProposalInv, sessionVars
  <2>2. ASSUME NEW q \in RequestKeys
        PROVE  /\ requests'[q].state # "none" => sessions[q[1]].commit # 0
               /\ requests'[q].state = "active" =>
                    branches[q[1]] = [base |-> q[2], file |-> TRUE, pr |-> TRUE]
    <3>1. CASE q = k
      BY <1>3, <3>1
    <3>2. CASE q # k
      BY <1>3, <2>1, <3>2 DEF RowsHold
    <3> QED
      BY <3>1, <3>2
  <2> QED
    BY <2>1, <2>2 DEF RowsHold
<1>5. ASSUME NEW w \in Pushers, pushers'[w] # Idle
      PROVE  GoodCall(pushers'[w], w, requests', branches')
  <2>1. CASE GoodCall(pushers'[w], w, requests', branches)
    BY <2>1
  <2>2. CASE /\ pushers'[w] = pushers[w]
             /\ \/ ~InFlight(requests[k], w)
                \/ ~Flying(pushers[w]) \/ pushers[w].key # k
    <3>1. GoodCall(pushers[w], w, requests, branches) /\ pushers[w].key \in RequestKeys
      BY <1>5, <2>2 DEF ProposalInv, GoodCalls, ProposalTypes, PusherRow
    <3> QED
      BY <1>3, <2>2, <3>1 DEF GoodCall
  <2> QED
    BY <1>5, <2>1, <2>2
<1> QED
  BY <1>1, <1>2, <1>4, <1>5 DEF ProposalInv, GoodCalls

\* A row that was closed.
LEMMA ClosedRow ==
  ASSUME NEW state \in {"active", "failed", "cancelled"}
  PROVE  Closed(state) \in Rows /\ Closed(state).state = state
BY GitOpsAssumption DEF Closed, Rows, Timers, GitOpsAssumption

\* A proposal is asked for, a session cancelled, the gate closed.
LEMMA AskingStep ==
  ASSUME ProposalInv,
         CloseByGate \/ \E s \in Sessions : cancel(s) \/ request_pull_request(s)
  PROVE  ProposalInv'
<1>1. CASE CloseByGate
  <2>1. gated' = TRUE /\ UNCHANGED <<sessionVars, requests, pushers, branches>>
    BY <1>1 DEF CloseByGate
  <2>2. SessionInv'
    BY <2>1, SessionInvNext DEF ProposalInv
  <2> QED
    BY <2>1, <2>2 DEF ProposalInv, ProposalTypes, GoodCalls, RowsHold, sessionVars
<1>2. ASSUME NEW s \in Sessions, request_pull_request(s)
      PROVE  ProposalInv'
  <2> DEFINE k == <<s, sessions[s].commit>>
             row == [requests[k] EXCEPT !.state = "pending", !.timer = "due"]
  <2>1. k \in RequestKeys /\ k[1] = s
    <3>1. sessions[s].commit \in 0..MaxCommit /\ sessions[s].commit # 0
      BY <1>2 DEF request_pull_request, ProposalInv, SessionInv, SessionTypes, SessionRow
    <3> QED
      BY <3>1, SessionAssumption DEF RequestKeys, Commits, SessionAssumption
  <2>2. requests[k] \in Rows /\ requests[k].state = "none" /\ sessions[s].commit # 0
    BY <1>2, <2>1 DEF request_pull_request, ProposalInv, ProposalTypes
  <2>3. requests' = [requests EXCEPT ![k] = row]
    BY <1>2, <2>1 DEF request_pull_request, ProposalInv, ProposalTypes
  <2>4. row \in Rows /\ row.state = "pending"
    BY <2>2 DEF Rows, Timers
  <2>5. UNCHANGED <<sessionVars, pushers, gated, branches>>
    BY <1>2 DEF request_pull_request
  <2>6. \A w \in Pushers : ~InFlight(requests[k], w)
    BY <2>2 DEF InFlight
  <2> HIDE DEF k, row
  <2> QED
    BY <2>1, <2>2, <2>3, <2>4, <2>5, <2>6, RowChanges DEF ProposalInv, ProposalTypes
<1>3. ASSUME NEW s \in Sessions, cancel(s)
      PROVE  ProposalInv'
  <2>1. /\ requests' = [k \in RequestKeys |-> IF k[1] = s /\ MayCascade(requests[k])
                                              THEN Closed("cancelled") ELSE requests[k]]
        /\ UNCHANGED <<pushers, gated, branches>> /\ cancel_session(s)
    BY <1>3 DEF cancel, cancel_pending_for_session
  <2>2. [SessionNext]_sessionVars
    BY <2>1 DEF SessionNext
  <2>3. SessionInv'
    BY <2>2, SessionInvNext DEF ProposalInv
  <2>4. \A k \in RequestKeys :
          \/ requests'[k] = requests[k]
          \/ /\ requests'[k] = Closed("cancelled") /\ requests[k].state # "none"
             /\ \A w \in Pushers : ~InFlight(requests[k], w)
    BY <2>1 DEF MayCascade, InFlight
  <2>5. ProposalTypes'
    BY <2>1, ClosedRow DEF ProposalInv, ProposalTypes
  <2>6. GoodCalls(pushers', requests', branches')
    <3>1. ASSUME NEW w \in Pushers, pushers[w] # Idle
          PROVE  GoodCall(pushers[w], w, requests', branches)
      <4>1. GoodCall(pushers[w], w, requests, branches) /\ pushers[w].key \in RequestKeys
        BY <3>1 DEF ProposalInv, GoodCalls, ProposalTypes, PusherRow
      <4> QED
        BY <2>4, <4>1 DEF GoodCall
    <3> QED
      BY <2>1, <3>1 DEF GoodCalls
  <2>7. RowsHold(requests', branches', sessions')
    <3>1. ASSUME NEW k \in RequestKeys
          PROVE  /\ requests'[k].state # "none" => sessions'[k[1]].commit # 0
                 /\ requests'[k].state = "active" =>
                      branches'[k[1]] = [base |-> k[2], file |-> TRUE, pr |-> TRUE]
      <4>1. k[1] \in Sessions
        BY DEF RequestKeys
      <4>2. requests'[k].state # "none" => requests[k].state # "none"
        BY <2>4
      <4>3. requests'[k].state = "active" => requests[k].state = "active"
        BY <2>4, ClosedRow
      <4>4. requests[k].state # "none" => sessions'[k[1]].commit # 0
        BY <2>2, <4>1, CommitsStay DEF ProposalInv, SessionInv, RowsHold
      <4> QED
        BY <2>1, <4>2, <4>3, <4>4 DEF ProposalInv, RowsHold
    <3> QED
      BY <3>1 DEF RowsHold
  <2> QED
    BY <2>3, <2>5, <2>6, <2>7 DEF ProposalInv
<1> QED
  BY <1>1, <1>2, <1>3

Sendings == 0..MAX_ATTEMPTS

\* Counting attempts stops at the ceiling.
LEMMA AttemptBounded ==
  ASSUME NEW n \in Sendings
  PROVE  NextAttempt(n) \in Sendings
<1>1. MAX_ATTEMPTS \in Nat
  BY GitOpsAssumption DEF GitOpsAssumption
<1> QED
  BY <1>1 DEF NextAttempt, Sendings

\* A worker claims a due row, or closes it.
LEMMA ClaimStep ==
  ASSUME ProposalInv, NEW w \in Pushers, NEW k \in RequestKeys, _claim(w, k)
  PROVE  ProposalInv'
<1> DEFINE row == requests[k]
<1>1. /\ row \in Rows /\ row.state = "pending" /\ row.timer = "due" /\ pushers[w] = Idle
      /\ sessions[k[1]].commit # 0 /\ k[1] \in Sessions
      /\ UNCHANGED <<sessionVars, gated, branches>>
  BY DEF _claim, ProposalInv, ProposalTypes, RowsHold, RequestKeys
<1>2. \A v \in Pushers : ~InFlight(requests[k], v)
  BY <1>1 DEF InFlight
<1>3. pushers \in [Pushers -> {Idle} \cup PusherRow] /\ gated \in BOOLEAN
  BY DEF ProposalInv, ProposalTypes
<1>4. CASE /\ \E state \in {"failed", "cancelled"} : requests' = [requests EXCEPT ![k] = Closed(state)]
           /\ UNCHANGED pushers
  BY <1>1, <1>2, <1>3, <1>4, ClosedRow, RowChanges
<1>5. CASE /\ requests' = [requests EXCEPT ![k].attempts = NextAttempt(@),
                                               ![k].timer = "leased", ![k].holder = w]
           /\ pushers' = [pushers EXCEPT ![w] =
                [key |-> k, step |-> "claimed", draft |-> sessions[k[1]].commit,
                 seen |-> "none", answer |-> "none", late |-> FALSE]]
  <2> DEFINE n == NextAttempt(row.attempts)
             leased == [row EXCEPT !.attempts = n, !.timer = "leased", !.holder = w]
             call == [key |-> k, step |-> "claimed", draft |-> sessions[k[1]].commit,
                      seen |-> "none", answer |-> "none", late |-> FALSE]
  <2>1. n \in Sendings
    <3>1. row.attempts \in Sendings
      BY <1>1 DEF Rows, Sendings
    <3> QED
      BY <3>1, AttemptBounded
  <2>2. requests' = [requests EXCEPT ![k] = leased]
    <3>1. /\ requests \in [RequestKeys -> Rows] /\ row \in Rows
      BY <1>1 DEF ProposalInv, ProposalTypes
    <3>2. leased = [requests[k] EXCEPT !.attempts = NextAttempt(@), !.timer = "leased", !.holder = w]
      BY <3>1 DEF Rows
    <3> QED
      BY <1>5, <3>2
  <2>3. leased \in Rows /\ leased.state = "pending"
    <3> HIDE DEF n
    <3> QED
      BY <1>1, <2>1 DEF Rows, Timers, Sendings
  <2>4. sessions[k[1]].commit \in Commits
    BY <1>1, SessionAssumption
    DEF ProposalInv, SessionInv, SessionTypes, SessionRow, Commits, SessionAssumption
  <2>5. call \in PusherRow
    BY <2>4 DEF PusherRow, CallSteps, BranchStates, Answers
  <2>6. Holds(call, branches[k[1]]) /\ ~Flying(call) /\ call.key = k
    BY DEF Holds, Flying
  <2>7. pushers' = [pushers EXCEPT ![w] = call]
    BY <1>5
  <2> HIDE DEF leased, call, row, n
  <2>8. \A v \in Pushers :
          \/ v = w /\ pushers'[v] = call
          \/ pushers'[v] = pushers[v]
    BY <1>3, <2>7
  <2>9. GoodCall(call, w, requests', branches)
    BY <2>6 DEF GoodCall
  <2>10. pushers' \in [Pushers -> {Idle} \cup PusherRow]
    BY <1>3, <2>5, <2>7
  <2> QED
    BY <1>1, <1>2, <1>3, <2>2, <2>3, <2>8, <2>9, <2>10, RowChanges
<1> QED
  BY <1>4, <1>5 DEF _claim

\* A worker checks again and marks its row in flight, or lets it go.
LEMMA DispatchStep ==
  ASSUME ProposalInv, NEW w \in Pushers, _begin_dispatch(w)
  PROVE  ProposalInv'
<1> DEFINE k == pushers[w].key
           row == requests[k]
<1>1. /\ pushers[w] # Idle /\ pushers[w].step = "claimed"
      /\ UNCHANGED <<sessionVars, gated, branches>>
      /\ pushers \in [Pushers -> {Idle} \cup PusherRow] /\ gated \in BOOLEAN
  BY DEF _begin_dispatch, ProposalInv, ProposalTypes
<1>2. pushers[w] \in PusherRow /\ k \in RequestKeys /\ row \in Rows
  <2>1. pushers[w] \in PusherRow
    BY <1>1
  <2>2. k \in RequestKeys
    BY <2>1 DEF PusherRow
  <2> QED
    BY <2>1, <2>2 DEF ProposalInv, ProposalTypes
<1>3. row.state = "pending" => sessions[k[1]].commit # 0
  BY <1>2 DEF ProposalInv, RowsHold
<1> HIDE DEF k
<1>4. CASE MayDispatch(w, k)
  <2> DEFINE marked == [row EXCEPT !.marker = TRUE, !.holder = w]
  <2>1. row.state = "pending" /\ row.holder = w /\ row.timer = "leased"
    BY <1>4 DEF MayDispatch, Leased
  <2>2. requests' = [requests EXCEPT ![k] = marked]
    BY <1>2, <1>4 DEF _begin_dispatch, k
  <2>3. marked \in Rows /\ InFlight(marked, w) /\ marked.state = "pending"
    BY <1>2, <2>1 DEF Rows, InFlight
  <2>4. \A v \in Pushers \ {w} : ~InFlight(row, v)
    BY <2>1 DEF InFlight
  <2>5. requests'[k] = marked
    BY <1>2, <2>2 DEF ProposalInv, ProposalTypes
  <2>6. ASSUME NEW call \in PusherRow, pushers' = [pushers EXCEPT ![w] = call],
               call.key = k, Holds(call, branches[k[1]])
        PROVE  ProposalInv'
    <3> HIDE DEF marked
    <3>1. GoodCall(call, w, requests', branches)
      BY <2>3, <2>5, <2>6 DEF GoodCall
    <3>2. \A v \in Pushers :
            \/ v = w /\ pushers'[v] = call
            \/ v \in Pushers \ {w} /\ pushers'[v] = pushers[v]
      BY <1>1, <2>6
    <3>3. pushers' \in [Pushers -> {Idle} \cup PusherRow]
      BY <1>1, <2>6
    <3> QED
      BY <1>1, <1>2, <1>3, <2>1, <2>2, <2>3, <2>4, <3>1, <3>2, <3>3, RowChanges
  <2>7. CASE Proceed(w, "inspect")
    <3> DEFINE c == [pushers[w] EXCEPT !.step = "inspect", !.seen = "none"]
    <3>1. pushers' = [pushers EXCEPT ![w] = c]
      BY <1>1, <2>7 DEF Proceed
    <3>2. c \in PusherRow /\ c.key = k /\ c.step = "inspect" /\ c.seen = "none"
      BY <1>2 DEF PusherRow, CallSteps, BranchStates, k
    <3> HIDE DEF c
    <3>3. Holds(c, branches[k[1]])
      BY <3>2 DEF Holds
    <3> QED
      BY <2>6, <3>1, <3>2, <3>3
  <2>8. CASE Answer(w, "terminal")
    <3> DEFINE c == [pushers[w] EXCEPT !.step = "answered", !.seen = "none", !.answer = "terminal"]
    <3>1. pushers' = [pushers EXCEPT ![w] = c]
      BY <1>1, <2>8 DEF Answer
    <3>2. c \in PusherRow /\ c.key = k /\ c.step = "answered" /\ c.seen = "none" /\ c.answer = "terminal"
      BY <1>2 DEF PusherRow, CallSteps, BranchStates, Answers, k
    <3> HIDE DEF c
    <3>3. Holds(c, branches[k[1]])
      BY <3>2 DEF Holds
    <3> QED
      BY <2>6, <3>1, <3>2, <3>3
  <2> QED
    BY <1>4, <2>7, <2>8 DEF _begin_dispatch, k
<1>5. CASE ~MayDispatch(w, k)
  <2>1. pushers' = [pushers EXCEPT ![w] = Idle]
    BY <1>5 DEF _begin_dispatch, k
  <2>2. /\ pushers' \in [Pushers -> {Idle} \cup PusherRow] /\ pushers'[w] = Idle
        /\ \A v \in Pushers \ {w} : pushers'[v] = pushers[v]
    BY <1>1, <2>1
  <2>3. CASE Leased(w, k) /\ requests' = [requests EXCEPT ![k] = Closed("failed")]
    <3>1. \A v \in Pushers \ {w} : ~InFlight(requests[k], v)
      BY <2>3 DEF InFlight, Leased
    <3> QED
      BY <1>1, <1>2, <1>3, <2>2, <2>3, <3>1, ClosedRow, RowChanges DEF Leased
  <2>4. CASE requests' = requests
    <3>1. requests' = [requests EXCEPT ![k] = row]
      BY <1>2, <2>4 DEF ProposalInv, ProposalTypes
    <3>2. row.state = "active" => branches[k[1]] = [base |-> k[2], file |-> TRUE, pr |-> TRUE]
      BY <1>2 DEF ProposalInv, RowsHold
    <3>3. row.state # "none" => sessions[k[1]].commit # 0
      BY <1>2 DEF ProposalInv, RowsHold
    <3>4. \A v \in Pushers : pushers'[v] # Idle => GoodCall(pushers'[v], v, requests', branches)
      BY <2>2, <2>4 DEF ProposalInv, GoodCalls
    <3> HIDE DEF row
    <3> QED
      BY <1>1, <1>2, <2>2, <3>1, <3>2, <3>3, <3>4, RowChanges
  <2> QED
    BY <1>5, <2>3, <2>4 DEF _begin_dispatch, k
<1> QED
  BY <1>4, <1>5

\* A worker writes the outcome over the row it took in flight.
LEMMA FinishStep ==
  ASSUME ProposalInv, NEW w \in Pushers, _finish(w)
  PROVE  ProposalInv'
<1> DEFINE k == pushers[w].key
           row == requests[k]
<1>1. /\ pushers[w] # Idle /\ pushers[w].step = "answered"
      /\ UNCHANGED <<sessionVars, gated, branches>>
      /\ pushers' = [pushers EXCEPT ![w] = Idle]
      /\ pushers \in [Pushers -> {Idle} \cup PusherRow] /\ gated \in BOOLEAN
  BY DEF _finish, ProposalInv, ProposalTypes
<1>2. pushers[w] \in PusherRow /\ k \in RequestKeys /\ row \in Rows
  <2>1. pushers[w] \in PusherRow
    BY <1>1
  <2>2. k \in RequestKeys
    BY <2>1 DEF PusherRow
  <2> QED
    BY <2>1, <2>2 DEF ProposalInv, ProposalTypes
<1>3. /\ row.state # "none" => sessions[k[1]].commit # 0
      /\ row.state = "active" => branches[k[1]] = [base |-> k[2], file |-> TRUE, pr |-> TRUE]
  BY <1>2 DEF ProposalInv, RowsHold
<1>4. /\ pushers' \in [Pushers -> {Idle} \cup PusherRow] /\ pushers'[w] = Idle
      /\ \A v \in Pushers \ {w} : pushers'[v] = pushers[v]
  BY <1>1
<1>5. CASE Leased(w, k) /\ row.marker
  <2>1. row.state = "pending" /\ \A v \in Pushers \ {w} : ~InFlight(row, v)
    BY <1>5 DEF Leased, InFlight
  <2>2. ASSUME NEW new \in Rows, requests' = [requests EXCEPT ![k] = new],
               new.state = "active" => pushers[w].answer = "exists"
        PROVE  ProposalInv'
    <3>1. new.state = "active" => branches[k[1]] = [base |-> k[2], file |-> TRUE, pr |-> TRUE]
      <4> SUFFICES ASSUME new.state = "active"
                   PROVE  branches[k[1]] = [base |-> k[2], file |-> TRUE, pr |-> TRUE]
        OBVIOUS
      <4> DEFINE b == branches[k[1]]
      <4>1. Holds(pushers[w], b) /\ pushers[w].answer = "exists"
        BY <1>1, <2>2 DEF ProposalInv, GoodCalls, GoodCall
      <4>2. b \in BranchRow
        BY <1>2 DEF ProposalInv, ProposalTypes, RequestKeys
      <4> HIDE DEF b
      <4>3. b.base = k[2] /\ b.file = TRUE /\ b.pr = TRUE
        BY <1>1, <4>1, <4>2 DEF Holds, BranchRow
      <4>4. b = [base |-> k[2], file |-> TRUE, pr |-> TRUE]
        BY <4>2, <4>3 DEF BranchRow
      <4> QED
        BY <4>4 DEF b
    <3> HIDE DEF k
    <3> QED
      BY <1>1, <1>2, <1>3, <1>4, <2>1, <2>2, <3>1, RowChanges
  <2>3. CASE pushers[w].answer = "exists"
    <3>1. requests' = [requests EXCEPT ![k] = Closed("active")]
      BY <1>5, <2>3 DEF _finish
    <3> QED
      BY <2>2, <2>3, <3>1, ClosedRow
  <2>4. CASE pushers[w].answer # "exists"
    <3>1. \/ requests' = [requests EXCEPT ![k] = Closed("failed")]
          \/ requests' = [requests EXCEPT ![k] = Rearmed(row)]
      BY <1>5, <2>4 DEF _finish
    <3>2. Rearmed(row) \in Rows /\ Rearmed(row).state = "pending"
      <4> HIDE DEF row
      <4> QED
        BY <1>2, <2>1 DEF Rearmed, Rows, Timers
    <3> QED
      BY <2>2, <3>1, <3>2, ClosedRow
  <2> QED
    BY <2>3, <2>4
<1>6. CASE ~(Leased(w, k) /\ row.marker)
  <2>1. requests' = requests
    BY <1>6 DEF _finish
  <2>2. requests' = [requests EXCEPT ![k] = row]
    BY <1>2, <2>1 DEF ProposalInv, ProposalTypes
  <2>3. \A v \in Pushers : pushers'[v] # Idle => GoodCall(pushers'[v], v, requests', branches)
    BY <1>4, <2>1 DEF ProposalInv, GoodCalls
  <2> HIDE DEF row, k
  <2> QED
    BY <1>1, <1>2, <1>3, <1>4, <2>2, <2>3, RowChanges
<1> QED
  BY <1>5, <1>6

\* Time passes for a row, and for the calls about it.
LEMMA TimeStep ==
  ASSUME ProposalInv, NEW k \in RequestKeys, TimePasses(k)
  PROVE  ProposalInv'
<1> DEFINE row == [requests[k] EXCEPT !.timer = "due"]
<1>1. /\ UNCHANGED <<sessionVars, gated, branches>>
      /\ pushers \in [Pushers -> {Idle} \cup PusherRow] /\ gated \in BOOLEAN
      /\ requests[k] \in Rows
      /\ requests[k].state # "none" => sessions[k[1]].commit # 0
      /\ requests[k].state = "active" => branches[k[1]] = [base |-> k[2], file |-> TRUE, pr |-> TRUE]
  BY DEF TimePasses, ProposalInv, ProposalTypes, RowsHold
<1>2. requests' = [requests EXCEPT ![k] = row]
  BY <1>1 DEF TimePasses
<1>3. row \in Rows /\ row.state = requests[k].state
  BY <1>1 DEF Rows, Timers
<1>4. \A w \in Pushers :
        pushers'[w] = IF InCall(w, k) THEN [pushers[w] EXCEPT !.late = TRUE] ELSE pushers[w]
  BY DEF TimePasses
<1>5. ASSUME NEW w \in Pushers, InCall(w, k)
      PROVE  pushers'[w] \in PusherRow /\ GoodCall(pushers'[w], w, requests', branches)
  <2>1. pushers[w] \in PusherRow /\ Holds(pushers[w], branches[pushers[w].key[1]])
    BY <1>1, <1>5 DEF InCall, ProposalInv, GoodCalls, GoodCall
  <2> DEFINE c == [pushers[w] EXCEPT !.late = TRUE]
  <2>2. /\ c \in PusherRow /\ c.late = TRUE /\ c.key = pushers[w].key /\ c.step = pushers[w].step
        /\ c.seen = pushers[w].seen /\ c.answer = pushers[w].answer
    BY <2>1 DEF PusherRow
  <2>3. pushers'[w] = c
    BY <1>4, <1>5
  <2> HIDE DEF c
  <2>4. Holds(c, branches[c.key[1]])
    BY <2>1, <2>2 DEF Holds
  <2> QED
    BY <2>2, <2>3, <2>4 DEF GoodCall
<1>6. ASSUME NEW w \in Pushers, ~InCall(w, k)
      PROVE  /\ pushers'[w] = pushers[w]
             /\ pushers[w] = Idle \/ ~Flying(pushers[w]) \/ pushers[w].key # k
  BY <1>4, <1>6 DEF InCall, Flying
<1>7. pushers' \in [Pushers -> {Idle} \cup PusherRow]
  <2>1. \A w \in Pushers : pushers'[w] \in {Idle} \cup PusherRow
    BY <1>1, <1>5, <1>6
  <2>2. pushers' = [w \in Pushers |-> pushers'[w]]
    BY DEF TimePasses
  <2> QED
    BY <2>1, <2>2
<1> HIDE DEF row
<1> QED
  BY <1>1, <1>2, <1>3, <1>5, <1>6, <1>7, RowChanges

\* The session takes a step of its own.
LEMMA SessionMoves ==
  ASSUME ProposalInv, [SessionNext]_sessionVars, UNCHANGED <<requests, gated, branches>>,
         pushers' \in [Pushers -> {Idle} \cup PusherRow],
         \A w \in Pushers : pushers'[w] # Idle => pushers'[w] = pushers[w]
  PROVE  ProposalInv'
<1>1. SessionInv'
  BY SessionInvNext DEF ProposalInv
<1>2. ProposalTypes'
  BY DEF ProposalInv, ProposalTypes
<1>3. GoodCalls(pushers', requests', branches')
  BY DEF ProposalInv, GoodCalls
<1>4. RowsHold(requests', branches', sessions')
  <2>1. branches' \in [Sessions -> BranchRow] /\ \A s \in Sessions : Gains(branches[s], branches'[s])
    BY DEF ProposalInv, ProposalTypes, Gains
  <2> QED
    BY <2>1, RowsStay
<1> QED
  BY <1>1, <1>2, <1>3, <1>4 DEF ProposalInv

LEMMA ProposalStarts == GitOpsInit => ProposalInv
<1> SUFFICES ASSUME GitOpsInit
             PROVE  ProposalInv
  OBVIOUS
<1>1. SessionInv
  BY SessionInvInit DEF GitOpsInit
<1>2. ProposalTypes
  <2>1. 0 \in 0..MAX_ATTEMPTS /\ 0 \in 0..MaxCommit
    BY GitOpsAssumption, SessionAssumption DEF GitOpsAssumption, SessionAssumption
  <2>2. requests \in [RequestKeys -> Rows]
    BY <2>1 DEF GitOpsInit, Rows, Timers
  <2>3. branches \in [Sessions -> BranchRow]
    BY <2>1 DEF GitOpsInit, BranchRow
  <2> QED
    BY <2>2, <2>3 DEF ProposalTypes, GitOpsInit
<1>3. GoodCalls(pushers, requests, branches) /\ RowsHold(requests, branches, sessions)
  BY DEF GitOpsInit, GoodCalls, RowsHold
<1> QED
  BY <1>1, <1>2, <1>3 DEF ProposalInv

LEMMA ProposalInductive == ProposalInv /\ [GitOpsNext]_onboardingVars => ProposalInv'
<1> SUFFICES ASSUME ProposalInv, [GitOpsNext]_onboardingVars
             PROVE  ProposalInv'
  OBVIOUS
<1>1. pushers \in [Pushers -> {Idle} \cup PusherRow]
  BY DEF ProposalInv, ProposalTypes
<1>2. CASE SessionStep /\ UNCHANGED gitopsVars
  BY <1>1, <1>2, SessionMoves DEF SessionNext, gitopsVars
<1>3. CASE CloseByGate \/ \E s \in Sessions : cancel(s) \/ request_pull_request(s)
  BY <1>3, AskingStep
<1>4. CASE \E w \in Pushers : PusherStep(w)
  BY <1>4, ClaimStep, DispatchStep, FinishStep, ProviderStep DEF PusherStep
<1>5. ASSUME NEW w \in Pushers, PusherDies(w)
      PROVE  ProposalInv'
  <2>1. /\ pushers' = [pushers EXCEPT ![w] = Idle]
        /\ UNCHANGED <<sessionVars, requests, gated, branches>>
    BY <1>5 DEF PusherDies
  <2>2. /\ pushers' \in [Pushers -> {Idle} \cup PusherRow]
        /\ \A v \in Pushers : pushers'[v] # Idle => pushers'[v] = pushers[v]
    BY <1>1, <2>1
  <2> QED
    BY <2>1, <2>2, SessionMoves
<1>6. CASE \E k \in RequestKeys : TimePasses(k)
  BY <1>6, TimeStep
<1>7. CASE UNCHANGED onboardingVars
  BY <1>1, <1>7, SessionMoves DEF onboardingVars, gitopsVars
<1> QED
  BY <1>2, <1>3, <1>4, <1>5, <1>6, <1>7 DEF GitOpsNext

\* A request recorded as active is a pull request on GitHub, over a branch that
\* holds this proposal and is based on its commit; and no request is closed as
\* cancelled under a call whose lease has not run out (gitops.py _finish,
\* _begin_dispatch, cancel_pending_for_session).
THEOREM ProposalRowsAreTrue == GitOpsSpec => []RequestRowsAreTrue
<1>1. GitOpsInit => ProposalInv
  BY ProposalStarts
<1>2. ProposalInv /\ [GitOpsNext]_onboardingVars => ProposalInv'
  BY ProposalInductive
<1>3. ProposalInv => RequestRowsAreTrue
  <2>1. ProposalInv => GitOpsTypeOK
    BY DEF ProposalInv, ProposalTypes, GitOpsTypeOK, PusherRow, BranchRow
  <2>2. ProposalInv => ActiveIsReal
    BY DEF ProposalInv, RowsHold, ActiveIsReal
  <2>3. ASSUME ProposalInv, NEW k \in RequestKeys, NEW w \in Pushers,
               requests[k].state = "cancelled", InCall(w, k), pushers[w].step # "answered"
        PROVE  pushers[w].late
    <3>1. GoodCall(pushers[w], w, requests, branches) /\ pushers[w] \in PusherRow
      BY <2>3 DEF ProposalInv, GoodCalls, InCall, ProposalTypes
    <3> QED
      BY <2>3, <3>1 DEF InCall, GoodCall, Flying, InFlight, PusherRow
  <2> QED
    BY <2>1, <2>2, <2>3 DEF RequestRowsAreTrue, CancelledNotInFlight
<1> QED
  BY <1>1, <1>2, <1>3, PTL DEF GitOpsSpec

----------------------------------------------------------------------------
(* PolicyRules.                                                            *)

Grades == {"pass", "fail", "unknown", "warn"}

\* The types the rules rest on: what a repository can be configured as.
PolicyInv ==
  /\ settings \in PolicySettings
  /\ unread \in [sources : SUBSET Sources, envs : SUBSET Environments]

\* More can be read than before: a source, or an environment.
MoreIsRead ==
  /\ settings' = settings /\ service' = service
  /\ unread'.sources \subseteq unread.sources
  /\ unread'.envs \subseteq unread.envs

\* What was readable stays so.
LEMMA ReadableStays ==
  ASSUME MoreIsRead
  PROVE  \A source : Readable(source) => Readable(source)'
BY DEF MoreIsRead, Readable

\* So does what was seen of the branch: classic protection, or rules in effect.
LEMMA SeenStays ==
  ASSUME MoreIsRead
  PROVE  (SawClassic => SawClassic') /\ (SawRules => SawRules')
BY ReadableStays DEF MoreIsRead, SawClassic, SawRules

\* A boolean rule passes on a reported "yes" only.
LEMMA BooleanRulePasses ==
  ASSUME NEW fact \in Reported
  PROVE  boolean_rule(fact) \in Grades /\ (boolean_rule(fact) = "pass" <=> fact = "yes")
BY DEF boolean_rule, Reported, Grades

\* What the gates on an environment conclude, once pass, stays so.
LEMMA ProductionGatesStay ==
  ASSUME MoreIsRead, NEW compliant \in [DOMAIN settings.envs -> BOOLEAN]
  PROVE  /\ rule_production_gates(compliant) \in Grades
         /\ rule_production_gates(compliant)' \in Grades
         /\ rule_production_gates(compliant) = "pass" => rule_production_gates(compliant)' = "pass"
<1>1. settings' = settings /\ service' = service /\ unread'.envs \subseteq unread.envs
  BY DEF MoreIsRead
<1>2. Readable("environments") => Readable("environments")'
  BY ReadableStays
<1>3. Aggregate(compliant) \in Grades /\ Aggregate(compliant)' \in Grades
  BY DEF Aggregate, Grades
<1>4. Aggregate(compliant) = "pass" => Aggregate(compliant)' = "pass"
  BY <1>1 DEF Aggregate
<1> QED
  BY <1>1, <1>2, <1>3, <1>4 DEF rule_production_gates, Grades

\* Every rule gives one of four grades, and a pass stays a pass.
LEMMA RulesStay ==
  ASSUME PolicyInv, MoreIsRead
  PROVE  \A rule \in RULE_CATALOG :
           results[rule] \in Grades /\ (results[rule] = "pass" => results'[rule] = "pass")
<1>1. settings' = settings /\ service' = service
  BY DEF MoreIsRead
<1>2. /\ settings.force \in Reported /\ settings.deletion \in Reported
      /\ settings.admin \in Reported /\ settings.secrets \in Reported
      /\ settings.updates \in Reported
      /\ settings.reviews \in BOOLEAN /\ settings.branch \in BOOLEAN
      /\ settings.checks \in {"none", "lax", "strict"}
      /\ settings.ruleChecks \in {"none", "empty", "lax", "strict"}
  BY DEF PolicyInv, PolicySettings
<1>3. \A e \in DOMAIN settings.envs :
         settings.envs[e].reviewers \in BOOLEAN /\ settings.envs[e].mapped \in BOOLEAN
  BY DEF PolicyInv, PolicySettings, EnvironmentSettings
<1> DEFINE Keeps(old, new) == old \in Grades /\ (old = "pass" => new = "pass")
<1>4. \A old \in Reported, new \in Reported :
         (old = "yes" => new = "yes") => Keeps(boolean_rule(old), boolean_rule(new))
  BY BooleanRulePasses
<1>5. Keeps(IF settings.branch THEN "pass" ELSE "unknown",
            IF settings'.branch THEN "pass" ELSE "unknown")
  BY <1>1 DEF Grades
<1>6. Keeps(rule_protection_present, rule_protection_present')
  BY SeenStays DEF rule_protection_present, Grades
<1>7. Keeps(boolean_rule(protection_fact(YesNo(settings.reviews), "pull_request")),
            boolean_rule(protection_fact(YesNo(settings.reviews), "pull_request"))')
  <2>1. YesNo(settings.reviews) \in Reported /\ YesNo(settings.reviews)' = YesNo(settings.reviews)
    BY <1>1 DEF YesNo, Reported
  <2> QED
    BY <2>1, SeenStays, <1>1, <1>4 DEF protection_fact, Reported
<1>8. Keeps(boolean_rule(protection_fact(settings.force, "non_fast_forward")),
            boolean_rule(protection_fact(settings.force, "non_fast_forward"))')
  BY <1>1, <1>2, SeenStays, <1>4 DEF protection_fact, Reported
<1>9. Keeps(boolean_rule(protection_fact(settings.deletion, "deletion")),
            boolean_rule(protection_fact(settings.deletion, "deletion"))')
  BY <1>1, <1>2, SeenStays, <1>4 DEF protection_fact, Reported
<1>10. Keeps(boolean_rule(required_checks_fact), boolean_rule(required_checks_fact)')
  <2>1. required_checks_fact \in Reported /\ required_checks_fact' \in Reported
    BY DEF required_checks_fact, Reported
  <2>2. required_checks_fact = "yes" => required_checks_fact' = "yes"
    BY <1>1, SeenStays DEF required_checks_fact
  <2> QED
    BY <2>1, <2>2, <1>4
<1>11. Keeps(boolean_rule(strict_checks_fact), boolean_rule(strict_checks_fact)')
  <2>1. strict_checks_fact \in Reported /\ strict_checks_fact' \in Reported
    BY DEF strict_checks_fact, YesNo, Reported
  <2>2. strict_checks_fact = "yes" => strict_checks_fact' = "yes"
    BY <1>1, SeenStays DEF strict_checks_fact, YesNo
  <2> QED
    BY <2>1, <2>2, <1>4
<1>12. Keeps(boolean_rule(IF SawClassic THEN settings.admin ELSE "absent"),
             boolean_rule(IF SawClassic THEN settings.admin ELSE "absent")')
  BY <1>1, <1>2, SeenStays, <1>4 DEF Reported
<1>13. ASSUME NEW hint, NEW otherwise \in {"warn", "fail"}
       PROVE  Keeps(workflow_gate(hint, otherwise), workflow_gate(hint, otherwise)')
  BY <1>1, ReadableStays DEF workflow_gate, Grades
<1>14. /\ Keeps(security_analysis_rule(settings.secrets), security_analysis_rule(settings.secrets)')
       /\ Keeps(security_analysis_rule(settings.updates), security_analysis_rule(settings.updates)')
  BY <1>1, <1>2, ReadableStays, BooleanRulePasses DEF security_analysis_rule, Grades
<1> DEFINE approval == [e \in DOMAIN settings.envs |-> settings.envs[e].reviewers]
           mapping == [e \in DOMAIN settings.envs |-> settings.envs[e].mapped]
<1>15. /\ Keeps(rule_production_gates(approval), rule_production_gates(approval)')
       /\ Keeps(rule_production_gates(mapping), rule_production_gates(mapping)')
  BY <1>1, <1>3, ProductionGatesStay
<1>16. Keeps(workflow_gate("build", "warn"), workflow_gate("build", "warn")')
  BY <1>13
<1>17. \A hint : Keeps(workflow_gate(hint, "fail"), workflow_gate(hint, "fail")')
  BY <1>13
<1> HIDE DEF Keeps
<1>18. RULE_CATALOG' = RULE_CATALOG
  BY DEF RULE_CATALOG, results
<1>19. ASSUME NEW rule \in RULE_CATALOG
       PROVE  Keeps(results[rule], results'[rule])
  BY <1>5, <1>6, <1>7, <1>8, <1>9, <1>10, <1>11, <1>12, <1>14, <1>15, <1>16, <1>17
  DEF RULE_CATALOG, results
<1> QED
  BY <1>18, <1>19 DEF Keeps

\* A pass, of a rule or of the whole evaluation, is never taken back by reading
\* what could not be read before (policy.py evaluate over gather_policy_inputs).
THEOREM PassesStand == PolicySpec => PassIsNeverTakenBack
<1>1. PolicyInit => PolicyInv
  BY PolicyAssumption DEF PolicyInit, PolicyInv, PolicyAssumption
<1>2. PolicyInv /\ [Reevaluate]_policyVars => PolicyInv'
  BY DEF PolicyInv, Reevaluate, policyVars
<1>3. ASSUME PolicyInv, Reevaluate
      PROVE  MoreIsRead
  BY <1>3 DEF PolicyInv, Reevaluate, MoreIsRead
<1>4. ASSUME PolicyInv, MoreIsRead
      PROVE  /\ \A rule \in RULE_CATALOG : results[rule] = "pass" => results'[rule] = "pass"
             /\ overall = "pass" => overall' = "pass"
  <2>1. RULE_CATALOG' = RULE_CATALOG
    BY DEF RULE_CATALOG, results
  <2>2. \A rule \in RULE_CATALOG :
           results[rule] \in Grades /\ (results[rule] = "pass" => results'[rule] = "pass")
    BY <1>4, RulesStay
  <2>3. overall = "pass" => \A rule \in RULE_CATALOG : results[rule] = "pass"
    BY <2>2 DEF overall, Grades
  <2>4. (\A rule \in RULE_CATALOG' : results'[rule] = "pass") => overall' = "pass"
    BY DEF overall
  <2> QED
    BY <2>1, <2>2, <2>3, <2>4
<1> QED
  BY <1>1, <1>2, <1>3, <1>4, PTL DEF PolicySpec, PassIsNeverTakenBack

----------------------------------------------------------------------------
(* Sequences.                                                              *)

\* A set of numbers that is not empty has a least.
LEMMA LeastNumber ==
    ASSUME NEW S, S \subseteq Nat, S # {}
    PROVE  \E m \in S : \A n \in S : m <= n
<1> DEFINE R == {p \in Nat \X Nat : p[1] < p[2]}
<1>1. IsWellFoundedOn(R, Nat)
  <2>1. R = OpToRel(<, Nat)
    BY DEF OpToRel
  <2> QED
    BY <2>1, NatLessThanWellFounded
<1>2. PICK m \in S : \A n \in S : ~(<<n, m>> \in R)
  <2> HIDE DEF R
  <2> QED
    BY <1>1, WFMin
<1>3. ASSUME NEW n \in S PROVE m <= n
  <2>1. ~(n < m)
    BY <1>2
  <2> QED
    BY <2>1
<1> QED
  BY <1>3

IsSeq(s) == s \in Seq(Range(s))

\* A function on an initial segment of the numbers is a sequence.
LEMMA FunctionIsSeq ==
    ASSUME NEW n \in Nat, NEW f, f = [i \in 1..n |-> f[i]]
    PROVE  IsSeq(f) /\ Len(f) = n /\ DOMAIN f = 1..n
<1>1. f \in [1..n -> Range(f)]
  BY DEF Range
<1>2. f \in Seq(Range(f)) /\ Len(f) = n
  BY <1>1
<1> QED
  BY <1>2 DEF IsSeq

LEMMA SeqFacts ==
    ASSUME NEW s, IsSeq(s)
    PROVE  /\ Len(s) \in Nat /\ DOMAIN s = 1..Len(s) /\ s = [i \in 1..Len(s) |-> s[i]]
           /\ \A i \in 1..Len(s) : s[i] \in Range(s)
           /\ \A x \in Range(s) : \E i \in 1..Len(s) : x = s[i]
<1>1. s \in Seq(Range(s))
  BY DEF IsSeq
<1>2. Len(s) \in Nat /\ DOMAIN s = 1..Len(s) /\ s = [i \in 1..Len(s) |-> s[i]]
  BY <1>1
<1> QED
  BY <1>2 DEF Range

LEMMA ConcatIs ==
    ASSUME NEW s, NEW t, IsSeq(s), IsSeq(t)
    PROVE  /\ IsSeq(s \o t) /\ Len(s \o t) = Len(s) + Len(t)
           /\ Range(s \o t) = Range(s) \cup Range(t)
<1> DEFINE n == Len(s) m == Len(t)
<1>1. n \in Nat /\ m \in Nat /\ DOMAIN s = 1..n /\ DOMAIN t = 1..m
  BY SeqFacts
<1>2. s \o t = [i \in 1..(n + m) |-> IF i <= n THEN s[i] ELSE t[i - n]]
  <2> DEFINE S == Range(s) \cup Range(t)
  <2>1. s \in Seq(Range(s)) /\ t \in Seq(Range(t))
    BY DEF IsSeq
  <2>2. s \in Seq(S) /\ t \in Seq(S)
    BY <2>1
  <2> HIDE DEF S
  <2>3. s \o t \in Seq(S) /\ Len(s \o t) = n + m
    BY <2>2
  <2>4. DOMAIN (s \o t) = 1..(n + m) /\ s \o t = [i \in 1..(n + m) |-> (s \o t)[i]]
    <3>1. \A q \in Seq(S) : DOMAIN q = 1..Len(q) /\ q = [i \in 1..Len(q) |-> q[i]]
      OBVIOUS
    <3> QED
      BY <2>3, <3>1
  <2>5. ASSUME NEW i \in 1..(n + m)
        PROVE  (s \o t)[i] = IF i <= n THEN s[i] ELSE t[i - n]
    BY <1>1, <2>2
  <2> QED
    BY <2>4, <2>5
<1> DEFINE st == s \o t
<1>3. st = [i \in 1..(n + m) |-> st[i]]
  BY <1>2
<1>4. IsSeq(st) /\ Len(st) = n + m /\ DOMAIN st = 1..(n + m)
  <2> n + m \in Nat
    BY <1>1
  <2> HIDE DEF st
  <2> QED
    BY <1>3, FunctionIsSeq
<1>5. ASSUME NEW x \in Range(st) PROVE x \in Range(s) \cup Range(t)
  <2>1. PICK i \in 1..(n + m) : x = st[i]
    BY <1>4 DEF Range
  <2>2. CASE i <= n
    <3>1. x = s[i] /\ i \in 1..n
      BY <1>1, <1>2, <2>1, <2>2
    <3> QED
      BY <1>1, <3>1 DEF Range
  <2>3. CASE ~(i <= n)
    <3>1. x = t[i - n] /\ i - n \in 1..m
      BY <1>1, <1>2, <2>1, <2>3
    <3> QED
      BY <1>1, <3>1 DEF Range
  <2> QED
    BY <2>2, <2>3
<1>6. ASSUME NEW x \in Range(s) PROVE x \in Range(st)
  <2>1. PICK i \in 1..n : x = s[i]
    BY <1>1 DEF Range
  <2>2. i \in 1..(n + m) /\ st[i] = x
    BY <1>1, <1>2, <2>1
  <2> QED
    BY <1>4, <2>2 DEF Range
<1>7. ASSUME NEW x \in Range(t) PROVE x \in Range(st)
  <2>1. PICK i \in 1..m : x = t[i]
    BY <1>1 DEF Range
  <2>2. n + i \in 1..(n + m) /\ st[n + i] = x
    <3>1. n + i \in 1..(n + m) /\ ~(n + i <= n) /\ (n + i) - n = i
      BY <1>1
    <3> QED
      BY <1>2, <2>1, <3>1
  <2> QED
    BY <1>4, <2>2 DEF Range
<1> QED
  BY <1>4, <1>5, <1>6, <1>7

LEMMA ConcatElement ==
    ASSUME NEW s, NEW t, IsSeq(s), IsSeq(t), NEW i \in 1..Len(s \o t)
    PROVE  (s \o t)[i] = IF i <= Len(s) THEN s[i] ELSE t[i - Len(s)]
<1> DEFINE S == Range(s) \cup Range(t)
<1>1. s \in Seq(Range(s)) /\ t \in Seq(Range(t))
  BY DEF IsSeq
<1>2. s \in Seq(S) /\ t \in Seq(S)
  BY <1>1
<1>3. Len(s \o t) = Len(s) + Len(t) /\ Len(s) \in Nat /\ Len(t) \in Nat
  BY ConcatIs, SeqFacts
<1> HIDE DEF S
<1> QED
  BY <1>2, <1>3

\* The function FlattenSeq is defined with exists.
LEMMA FlattenExists ==
    ASSUME NEW ss, NEW n \in Nat
    PROVE  \E f : f = [i \in 1..n |-> IF i = 1 THEN ss[i] ELSE f[i - 1] \o ss[i]]
<1> DEFINE Solves(f, k) == f = [i \in 1..k |-> IF i = 1 THEN ss[i] ELSE f[i - 1] \o ss[i]]
           bad == {k \in Nat : ~\E f : Solves(f, k)}
<1>1. bad = {}
  <2> SUFFICES ASSUME bad # {} PROVE FALSE
    OBVIOUS
  <2>1. PICK k \in bad : \A j \in bad : k <= j
    <3>1. bad \subseteq Nat
      OBVIOUS
    <3> HIDE DEF bad
    <3> QED
      BY <3>1, LeastNumber
  <2>2. Solves(<< >>, 0)
    <3>1. 1..0 = {}
      OBVIOUS
    <3> QED
      BY <3>1
  <2>3. k # 0
    <3> HIDE DEF Solves
    <3> QED
      BY <2>1, <2>2
  <2>4. k \in Nat /\ k - 1 \in Nat /\ ~(k <= k - 1)
    BY <2>1, <2>3
  <2>5. PICK f : Solves(f, k - 1)
    <3> HIDE DEF Solves
    <3> QED
      BY <2>1, <2>4
  <2> DEFINE g == [i \in 1..k |-> IF i = 1 THEN ss[i] ELSE f[i - 1] \o ss[i]]
  <2>6. ASSUME NEW i \in 1..(k - 1) PROVE f[i] = g[i]
    <3>1. i \in 1..k
      BY <2>4
    <3>2. f[i] = IF i = 1 THEN ss[i] ELSE f[i - 1] \o ss[i]
      BY <2>5
    <3>3. g[i] = IF i = 1 THEN ss[i] ELSE f[i - 1] \o ss[i]
      BY <3>1
    <3> QED
      BY <3>2, <3>3
  <2>7. Solves(g, k)
    <3>1. ASSUME NEW i \in 1..k
          PROVE  g[i] = IF i = 1 THEN ss[i] ELSE g[i - 1] \o ss[i]
      <4>1. CASE i = 1
        BY <4>1
      <4>2. CASE i # 1
        <5>1. i - 1 \in 1..(k - 1)
          BY <2>4, <4>2
        <5>2. f[i - 1] = g[i - 1]
          <6> HIDE DEF g
          <6> QED
            BY <2>6, <5>1
        <5>3. g[i] = f[i - 1] \o ss[i]
          BY <4>2
        <5> HIDE DEF g
        <5> QED
          BY <4>2, <5>2, <5>3
      <4> QED
        BY <4>1, <4>2
    <3>2. g = [i \in 1..k |-> g[i]]
      OBVIOUS
    <3> HIDE DEF g
    <3> QED
      BY <3>1, <3>2
  <2> HIDE DEF Solves
  <2> QED
    BY <2>1, <2>4, <2>7
<1> QED
  BY <1>1

\* A flattened sequence has the elements of its parts, and no more of them.
LEMMA FlattenIs ==
    ASSUME NEW ss, IsSeq(ss), NEW k \in Nat,
           \A i \in DOMAIN ss : IsSeq(ss[i]) /\ Len(ss[i]) <= k
    PROVE  /\ IsSeq(FlattenSeq(ss)) /\ Len(FlattenSeq(ss)) <= k * Len(ss)
           /\ Range(FlattenSeq(ss)) = UNION {Range(ss[i]) : i \in DOMAIN ss}
<1> DEFINE n == Len(ss)
           P(f) == f = [i \in 1..n |-> IF i = 1 THEN ss[i] ELSE f[i - 1] \o ss[i]]
           flat == CHOOSE f : P(f)
<1>1. n \in Nat /\ DOMAIN ss = 1..n
  BY SeqFacts
<1>2. CASE n = 0
  <2>1. FlattenSeq(ss) = ss
    BY <1>2 DEF FlattenSeq
  <2>2. 1..0 = {} /\ k * 0 = 0
    OBVIOUS
  <2>3. Range(ss) = {} /\ DOMAIN ss = {}
    BY <1>1, <1>2, <2>2 DEF Range
  <2>4. UNION {Range(ss[i]) : i \in DOMAIN ss} = {}
    BY <2>3
  <2> QED
    BY <1>2, <2>1, <2>2, <2>3, <2>4
<1>3. CASE n # 0
  <2>1. FlattenSeq(ss) = flat[n]
    BY <1>3 DEF FlattenSeq
  <2>2. P(flat)
    <3>1. \E f : P(f)
      BY <1>1, FlattenExists
    <3> HIDE DEF P
    <3> QED
      BY <3>1
  <2>3. /\ flat[1] = ss[1]
        /\ \A i \in 1..n : i # 1 => flat[i] = flat[i - 1] \o ss[i]
    <3> HIDE DEF flat
    <3> SUFFICES ASSUME NEW i \in 1..n
                 PROVE  flat[i] = IF i = 1 THEN ss[i] ELSE flat[i - 1] \o ss[i]
      <4>1. 1 \in 1..n
        BY <1>1, <1>3
      <4> QED
        BY <4>1
    <3> QED
      BY <2>2
  <2> HIDE DEF flat
  <2> DEFINE Good(i) == /\ IsSeq(flat[i]) /\ Len(flat[i]) <= k * i
                        /\ Range(flat[i]) = UNION {Range(ss[j]) : j \in 1..i}
             bad == {i \in 1..n : ~Good(i)}
  <2>4. bad = {}
    <3> SUFFICES ASSUME bad # {} PROVE FALSE
      OBVIOUS
    <3>1. PICK i \in bad : \A j \in bad : i <= j
      <4>1. bad \subseteq Nat
        OBVIOUS
      <4> HIDE DEF bad
      <4> QED
        BY <4>1, LeastNumber
    <3>2. i \in 1..n /\ ~Good(i)
      BY <3>1
    <3>3. IsSeq(ss[i]) /\ Len(ss[i]) <= k /\ Len(ss[i]) \in Nat
      BY <1>1, <3>2, SeqFacts
    <3>4. CASE i = 1
      <4>1. 1..1 = {1} /\ k * 1 = k
        OBVIOUS
      <4>2. UNION {Range(ss[j]) : j \in 1..1} = Range(ss[1])
        BY <4>1
      <4> QED
        BY <2>3, <3>2, <3>3, <3>4, <4>1, <4>2
    <3>5. CASE i # 1
      <4>1. i - 1 \in 1..n /\ ~(i <= i - 1)
        BY <1>1, <3>2, <3>5
      <4>2. Good(i - 1)
        <5>1. i - 1 \notin bad
          BY <3>1, <4>1
        <5> QED
          BY <4>1, <5>1
      <4>3. flat[i] = flat[i - 1] \o ss[i]
        BY <2>3, <3>2, <3>5
      <4>4. /\ IsSeq(flat[i]) /\ Len(flat[i]) = Len(flat[i - 1]) + Len(ss[i])
            /\ Range(flat[i]) = Range(flat[i - 1]) \cup Range(ss[i])
        BY <3>3, <4>2, <4>3, ConcatIs
      <4>5. Len(flat[i]) <= k * i
        <5>1. Len(flat[i - 1]) \in Nat /\ Len(flat[i - 1]) <= k * (i - 1)
          BY <4>2, SeqFacts
        <5>2. k * i = k * (i - 1) + k
          BY <3>2
        <5>3. k * (i - 1) \in Nat
          BY <4>1
        <5>4. Len(flat[i - 1]) + Len(ss[i]) <= k * (i - 1) + k
          <6> SUFFICES ASSUME NEW a \in Nat, NEW b \in Nat, NEW m \in Nat, a <= m, b <= k
                       PROVE  a + b <= m + k
            BY <3>3, <5>1, <5>3
          <6> QED
            OBVIOUS
        <5> QED
          BY <4>4, <5>2, <5>4
      <4>6. Range(flat[i]) = UNION {Range(ss[j]) : j \in 1..i}
        <5>1. \A j : j \in 1..i <=> j \in 1..(i - 1) \/ j = i
          BY <3>2, <4>1
        <5>2. Range(flat[i - 1]) = UNION {Range(ss[j]) : j \in 1..(i - 1)}
          BY <4>2
        <5> QED
          BY <4>4, <5>1, <5>2
      <4> QED
        BY <3>2, <4>4, <4>5, <4>6
    <3> QED
      BY <3>4, <3>5
  <2>5. Good(n)
    <3>1. n \in 1..n
      BY <1>1, <1>3
    <3> QED
      BY <2>4, <3>1
  <2> QED
    BY <1>1, <2>1, <2>5
<1> QED
  BY <1>2, <1>3

\* A list built row by row from another.
LEMMA EachIs ==
    ASSUME NEW S, NEW list \in Seq(S), NEW f, f = [i \in DOMAIN list |-> f[i]]
    PROVE  /\ IsSeq(f) /\ Len(f) = Len(list) /\ DOMAIN f = DOMAIN list
           /\ Range(f) = {f[i] : i \in DOMAIN list}
<1>1. Len(list) \in Nat /\ DOMAIN list = 1..Len(list)
  OBVIOUS
<1>2. f = [i \in 1..Len(list) |-> f[i]]
  BY <1>1
<1>3. IsSeq(f) /\ Len(f) = Len(list) /\ DOMAIN f = 1..Len(list)
  BY <1>1, <1>2, FunctionIsSeq
<1> QED
  BY <1>1, <1>3 DEF Range

\* The beginning of a sequence.
LEMMA Beginning ==
    ASSUME NEW s, IsSeq(s), NEW m \in 0..Len(s)
    PROVE  /\ IsSeq(SubSeq(s, 1, m)) /\ Len(SubSeq(s, 1, m)) = m
           /\ \A i \in 1..m : SubSeq(s, 1, m)[i] = s[i]
           /\ Range(SubSeq(s, 1, m)) \subseteq Range(s)
           /\ m = Len(s) => SubSeq(s, 1, m) = s
<1>1. Len(s) \in Nat /\ DOMAIN s = 1..Len(s) /\ s = [i \in 1..Len(s) |-> s[i]]
  BY SeqFacts
<1>2. m \in Nat /\ m <= Len(s)
  BY <1>1
<1> DEFINE t == SubSeq(s, 1, m)
<1>3. t = [i \in 1..m |-> s[i]]
  <2>1. s \in Seq(Range(s))
    BY DEF IsSeq
  <2>2. t \in Seq(Range(s)) /\ Len(t) = m
    BY <1>2, <2>1
  <2>3. \A i \in 1..m : t[i] = s[i]
    BY <1>2, <2>1
  <2> HIDE DEF t
  <2>4. DOMAIN t = 1..m /\ t = [i \in 1..m |-> t[i]]
    BY <2>2
  <2> QED
    BY <2>3, <2>4
<1> HIDE DEF t
<1>4. IsSeq(t) /\ Len(t) = m /\ DOMAIN t = 1..m
  <2>1. t = [i \in 1..m |-> t[i]]
    BY <1>3
  <2> QED
    BY <1>2, <2>1, FunctionIsSeq
<1>5. \A i \in 1..m : t[i] = s[i] /\ i \in DOMAIN s
  BY <1>1, <1>2, <1>3
<1>6. Range(t) \subseteq Range(s)
  BY <1>4, <1>5 DEF Range
<1>7. m = Len(s) => t = s
  BY <1>1, <1>3
<1> QED
  BY <1>4, <1>5, <1>6, <1>7 DEF t

\* The elements of a finite set, one after the other.
LEMMA SetListed ==
    ASSUME NEW S, IsFiniteSet(S)
    PROVE  /\ IsSeq(SetToSeq(S)) /\ Range(SetToSeq(S)) = S
<1> DEFINE n == Cardinality(S)
           f == SetToSeq(S)
<1>1. n \in Nat /\ ExistsBijection(1..n, S)
  BY FS_CardinalityType
<1>2. \E g \in [1..n -> S] : IsInjective(g)
  BY <1>1 DEF ExistsBijection, Bijection, Injection
<1>3. f \in [1..n -> S] /\ IsInjective(f)
  BY <1>2 DEF SetToSeq
<1>4. IsFiniteSet(1..n) /\ Cardinality(1..n) = n
  <2>1. 1 \in Int /\ n \in Int
    BY <1>1
  <2>2. /\ IsFiniteSet(1..n)
        /\ Cardinality(1..n) = IF 1 > n THEN 0 ELSE n - 1 + 1
    BY <2>1, FS_Interval
  <2> HIDE DEF n
  <2> QED
    BY <1>1, <2>2
<1>5. f \in Injection(1..n, S)
  BY <1>3 DEF Injection
<1>6. f \in Surjection(1..n, S)
  <2> HIDE DEF f
  <2>1. Cardinality(1..n) = Cardinality(S)
    BY <1>4
  <2> QED
    BY <1>5, <2>1, FS_Injection
<1> HIDE DEF f, n
<1>7. IsSeq(f) /\ DOMAIN f = 1..n
  <2>1. f = [i \in 1..n |-> f[i]]
    BY <1>3
  <2> QED
    BY <1>1, <2>1, FunctionIsSeq
<1>8. Range(f) = S
  BY <1>3, <1>6, <1>7 DEF Surjection, Range
<1> QED
  BY <1>7, <1>8 DEF f

\* A sequence has finitely many elements.
LEMMA RangeIsFinite ==
    ASSUME NEW s, IsSeq(s)
    PROVE  IsFiniteSet(Range(s))
<1>1. Len(s) \in Nat /\ DOMAIN s = 1..Len(s) /\ s = [i \in 1..Len(s) |-> s[i]]
  BY SeqFacts
<1>2. IsFiniteSet(1..Len(s))
  <2>1. 1 \in Int /\ Len(s) \in Int
    BY <1>1
  <2> QED
    BY <2>1, FS_Interval
<1>3. s \in Surjection(1..Len(s), Range(s))
  BY <1>1 DEF Surjection, Range
<1> QED
  BY <1>2, <1>3, FS_Surjection

LEMMA ShortLists ==
    /\ IsSeq(<< >>) /\ Len(<< >>) = 0 /\ Range(<< >>) = {}
    /\ \A x : IsSeq(<<x>>) /\ Len(<<x>>) = 1 /\ Range(<<x>>) = {x}
    /\ \A x, y : IsSeq(<<x, y>>) /\ Len(<<x, y>>) = 2 /\ Range(<<x, y>>) = {x, y}
<1>1. IsSeq(<< >>) /\ Len(<< >>) = 0 /\ Range(<< >>) = {}
  BY DEF IsSeq, Range
<1>2. ASSUME NEW x PROVE IsSeq(<<x>>) /\ Len(<<x>>) = 1 /\ Range(<<x>>) = {x}
  BY DEF IsSeq, Range
<1>3. ASSUME NEW x, NEW y
      PROVE  IsSeq(<<x, y>>) /\ Len(<<x, y>>) = 2 /\ Range(<<x, y>>) = {x, y}
  BY DEF IsSeq, Range
<1> QED
  BY <1>1, <1>2, <1>3

----------------------------------------------------------------------------
(* The items of a plan.                                                    *)

PlainRowItem(kind, key, existing, proposed, mutable, immutable) ==
    _row_item(kind, key, existing, proposed, mutable, immutable, FALSE)
Occupied(e, c) ==
    \E k \in EnvKeys \ {e.key} :
        /\ c.environments[k] # Absent
        /\ c.environments[k].cluster_ref = e.meta.cluster_ref
        /\ c.environments[k].namespace = e.meta.namespace
EnvironmentItem(e, c) ==
    IF c.environments[e.key] = Absent THEN Item("environment", "create", e.key, e.meta)
    ELSE PlainRowItem("environment", e.key, c.environments[e.key], e.meta,
                      MUTABLE_ENVIRONMENT_FIELDS, IMMUTABLE_ENVIRONMENT_FIELDS)
ClusterItem(e, c) ==
    Item("cluster_binding", IF e.meta.cluster_ref \in c.clusters THEN "no_change" ELSE "unmapped",
         e.key, NoPayload)
NamespaceItem(e, c) ==
    Item("namespace_binding", IF Occupied(e, c) THEN "conflict" ELSE "no_change",
         e.key, NoPayload)
InCluster(e) == e.meta.runtime = "kubernetes"

LEMMA EnvironmentItemsAre ==
    ASSUME NEW e, NEW c
    PROVE  /\ IsSeq(EnvironmentItems(e, c)) /\ Len(EnvironmentItems(e, c)) <= 3
           /\ Range(EnvironmentItems(e, c)) =
                {EnvironmentItem(e, c)}
                \cup IF InCluster(e) THEN {ClusterItem(e, c), NamespaceItem(e, c)} ELSE {}
<1> DEFINE rest == IF ~InCluster(e) THEN << >> ELSE <<ClusterItem(e, c), NamespaceItem(e, c)>>
<1>1. EnvironmentItems(e, c) = <<EnvironmentItem(e, c)>> \o rest
  BY Zenon DEF EnvironmentItems, EnvironmentItem, ClusterItem, NamespaceItem, InCluster,
               Occupied, PlainRowItem
<1>2. \A x : IsSeq(<<x>>) /\ Len(<<x>>) = 1 /\ Range(<<x>>) = {x}
  BY ShortLists
<1>3. \A x, y : IsSeq(<<x, y>>) /\ Len(<<x, y>>) = 2 /\ Range(<<x, y>>) = {x, y}
  BY ShortLists
<1>4. IsSeq(<< >>) /\ Len(<< >>) = 0 /\ Range(<< >>) = {}
  BY ShortLists
<1>5. /\ IsSeq(rest) /\ Len(rest) <= 2
      /\ Range(rest) = IF InCluster(e) THEN {ClusterItem(e, c), NamespaceItem(e, c)} ELSE {}
  <2>1. CASE InCluster(e)
    <3>1. rest = <<ClusterItem(e, c), NamespaceItem(e, c)>>
      BY <2>1
    <3> HIDE DEF rest
    <3> QED
      BY <1>3, <2>1, <3>1
  <2>2. CASE ~InCluster(e)
    <3>1. rest = << >>
      BY <2>2
    <3> HIDE DEF rest
    <3> QED
      BY <1>4, <2>2, <3>1
  <2> QED
    BY <2>1, <2>2
<1> HIDE DEF rest
<1>6. LET s == <<EnvironmentItem(e, c)>> \o rest
      IN  /\ IsSeq(s) /\ Len(s) = Len(<<EnvironmentItem(e, c)>>) + Len(rest)
          /\ Range(s) = Range(<<EnvironmentItem(e, c)>>) \cup Range(rest)
  BY <1>2, <1>5, ConcatIs
<1>7. Len(rest) \in Nat
  BY <1>5, SeqFacts
<1> QED
  BY <1>1, <1>2, <1>5, <1>6, <1>7

ServiceItem(s, c) ==
    IF c.services[s.key] = Absent THEN Item("service", "create", s.key, s.meta)
    ELSE PlainRowItem("service", s.key, c.services[s.key], s.meta, MUTABLE_SERVICE_FIELDS, {})
ProfileItem(s) ==
    Item("metric_profile",
         IF s.meta.metrics_profile = "" \/ s.meta.metrics_profile \in KnownProfiles
         THEN "no_change" ELSE "unmapped",
         s.key, NoPayload)

LEMMA ServiceItemsAre ==
    ASSUME NEW s, NEW c
    PROVE  /\ IsSeq(ServiceItems(s, c)) /\ Len(ServiceItems(s, c)) <= 2
           /\ Range(ServiceItems(s, c)) = {ServiceItem(s, c), ProfileItem(s)}
<1>1. ServiceItems(s, c) = <<ServiceItem(s, c), ProfileItem(s)>>
  BY Zenon DEF ServiceItems, ServiceItem, ProfileItem, PlainRowItem
<1>2. Len(<<ServiceItem(s, c), ProfileItem(s)>>) <= 2
  BY ShortLists
<1> QED
  BY <1>1, <1>2, ShortLists

LEMMA BindingItemsAre ==
    ASSUME NEW e, NEW d \in ManifestDocuments, NEW c, NEW seen
    PROVE  /\ IsSeq(BindingItems(e, d, c, seen))
           /\ Len(BindingItems(e, d, c, seen)) <= Len(d.services)
           /\ Range(BindingItems(e, d, c, seen)) =
                IF InCluster(e)
                THEN {_binding_item(e, d.services[i], c, seen) : i \in DOMAIN d.services}
                ELSE {}
<1>1. d.services \in Seq([key : STRING, selector : BOOLEAN, meta : ServiceRows])
  BY DEF ManifestDocuments
<1>2. Len(d.services) \in Nat
  BY <1>1
<1>3. CASE InCluster(e)
  <2> DEFINE f == [i \in DOMAIN d.services |-> _binding_item(e, d.services[i], c, seen)]
  <2>1. BindingItems(e, d, c, seen) = f
    BY <1>3 DEF BindingItems, InCluster
  <2>2. f = [i \in DOMAIN d.services |-> f[i]]
    OBVIOUS
  <2>3. {f[i] : i \in DOMAIN d.services} =
          {_binding_item(e, d.services[i], c, seen) : i \in DOMAIN d.services}
    OBVIOUS
  <2> HIDE DEF f
  <2>4. IsSeq(f) /\ Len(f) = Len(d.services) /\ Range(f) = {f[i] : i \in DOMAIN d.services}
    BY <1>1, <2>2, EachIs
  <2>5. Len(f) <= Len(d.services)
    BY <1>2, <2>4
  <2> QED
    BY <1>3, <2>1, <2>3, <2>4, <2>5, Zenon
<1>4. CASE ~InCluster(e)
  <2>1. BindingItems(e, d, c, seen) = << >>
    BY <1>4 DEF BindingItems, InCluster
  <2>2. Len(<< >>) <= Len(d.services)
    BY <1>2, ShortLists
  <2> QED
    BY <1>4, <2>1, <2>2, ShortLists
<1> QED
  BY <1>3, <1>4

\* What the catalog holds and the manifest does not, and what is said of it.
OnlyStores(d, c) == {x \in DepKeys \ Keys(d.dataStores) : c.dependencies[x] # Absent}
OnlyServices(d, c) == {x \in SvcKeys \ Keys(d.services) : c.services[x] # Absent}
CatalogOnly(kind, X) == {Item(kind, "unmapped", k, NoPayload) : k \in X}

LEMMA ReportedIsFinite ==
    ASSUME NEW kind, NEW X, IsFiniteSet(X)
    PROVE  IsFiniteSet(CatalogOnly(kind, X))
<1> DEFINE f == [k \in X |-> Item(kind, "unmapped", k, NoPayload)]
<1>1. f \in Surjection(X, CatalogOnly(kind, X))
  BY DEF Surjection, CatalogOnly
<1> HIDE DEF f
<1> QED
  BY <1>1, FS_Surjection

LEMMA CatalogOnlyItemsAre ==
    ASSUME NEW d, NEW c, IsFiniteSet(OnlyStores(d, c)), IsFiniteSet(OnlyServices(d, c))
    PROVE  /\ IsSeq(CatalogOnlyItems(d, c))
           /\ Range(CatalogOnlyItems(d, c)) =
                CatalogOnly("dependency", OnlyStores(d, c)) \cup CatalogOnly("service", OnlyServices(d, c))
<1> DEFINE A == CatalogOnly("dependency", OnlyStores(d, c))
           B == CatalogOnly("service", OnlyServices(d, c))
<1>1. CatalogOnlyItems(d, c) = SetToSeq(A) \o SetToSeq(B)
  BY Zenon DEF CatalogOnlyItems, CatalogOnly, OnlyStores, OnlyServices
<1>2. IsFiniteSet(A) /\ IsFiniteSet(B)
  BY ReportedIsFinite
<1> HIDE DEF A, B
<1>3. /\ IsSeq(SetToSeq(A)) /\ Range(SetToSeq(A)) = A
      /\ IsSeq(SetToSeq(B)) /\ Range(SetToSeq(B)) = B
  BY <1>2, SetListed
<1>4. /\ IsSeq(SetToSeq(A) \o SetToSeq(B))
      /\ Range(SetToSeq(A) \o SetToSeq(B)) = A \cup B
  BY <1>3, ConcatIs
<1> QED
  BY <1>1, <1>4 DEF A, B

\* The whole list, before it is cut: what comes before the entries the
\* catalog alone has, those entries, and what comes after them.
ItemsBefore(d, c) ==
    << ProjectItem(d, c), RepositoryItem(c) >>
    \o [i \in DOMAIN d.owners |-> OwnerItem(d.owners[i], c)]
    \o FlattenSeq([i \in DOMAIN d.environments |-> EnvironmentItems(d.environments[i], c)])
    \o FlattenSeq([i \in DOMAIN d.services |-> ServiceItems(d.services[i], c)])
    \o [i \in DOMAIN d.dataStores |-> DependencyItem(d.dataStores[i], c)]
SloItems(d, c) == [i \in DOMAIN d.slos |-> SloItem(d.slos[i], d, c)]
AllBindingItems(d, c, seen) ==
    FlattenSeq([i \in DOMAIN d.environments |-> BindingItems(d.environments[i], d, c, seen)])
TruncatedItems(d) ==
    IF d.truncated THEN << Item("project", "unsupported", "truncated", NoPayload) >> ELSE << >>
PlanList(d, c, seen) ==
    ItemsBefore(d, c) \o CatalogOnlyItems(d, c) \o SloItems(d, c)
    \o AllBindingItems(d, c, seen) \o TruncatedItems(d)

LEMMA PlanIsCutList ==
    ASSUME NEW d, NEW c, NEW seen
    PROVE  LET n == Len(PlanList(d, c, seen))
           IN  build_plan(d, c, seen) =
                 SubSeq(PlanList(d, c, seen), 1, IF n < MaxPlanItems THEN n ELSE MaxPlanItems)
BY Zenon DEF build_plan, PlanList, ItemsBefore, SloItems, AllBindingItems, TruncatedItems

LEMMA DocumentLists ==
    ASSUME NEW d \in ManifestDocuments
    PROVE  /\ d.owners \in Seq(STRING)
           /\ d.environments \in Seq([key : STRING, meta : EnvironmentRows])
           /\ d.services \in Seq([key : STRING, selector : BOOLEAN, meta : ServiceRows])
           /\ d.dataStores \in Seq([key : STRING, class : STRING, engine : STRING,
                                    scope : STRING, provider : STRING])
           /\ d.slos \in Seq([key : STRING, service_ref : STRING,
                              meta : [objective_ratio : Nat, window_seconds : Nat]])
           /\ d.truncated \in BOOLEAN
           /\ Len(d.owners) \in Nat /\ Len(d.environments) \in Nat /\ Len(d.services) \in Nat
           /\ Len(d.dataStores) \in Nat /\ Len(d.slos) \in Nat
<1>1. /\ d.owners \in Seq(STRING)
      /\ d.environments \in Seq([key : STRING, meta : EnvironmentRows])
      /\ d.services \in Seq([key : STRING, selector : BOOLEAN, meta : ServiceRows])
      /\ d.dataStores \in Seq([key : STRING, class : STRING, engine : STRING,
                               scope : STRING, provider : STRING])
      /\ d.slos \in Seq([key : STRING, service_ref : STRING,
                         meta : [objective_ratio : Nat, window_seconds : Nat]])
      /\ d.truncated \in BOOLEAN
  BY DEF ManifestDocuments
<1> QED
  BY <1>1

\* Two lists of lists, each flattened.
LEMMA FlatEnvironments ==
    ASSUME NEW d \in ManifestDocuments, NEW c
    PROVE  LET f == FlattenSeq([i \in DOMAIN d.environments |->
                                  EnvironmentItems(d.environments[i], c)])
           IN  /\ IsSeq(f) /\ Len(f) <= 3 * Len(d.environments)
               /\ Range(f) = UNION {Range(EnvironmentItems(d.environments[i], c)) :
                                      i \in DOMAIN d.environments}
<1> DEFINE ss == [i \in DOMAIN d.environments |-> EnvironmentItems(d.environments[i], c)]
<1>1. \A i \in DOMAIN d.environments : IsSeq(ss[i]) /\ Len(ss[i]) <= 3
  BY EnvironmentItemsAre
<1>2. ss = [i \in DOMAIN d.environments |-> ss[i]]
  OBVIOUS
<1>3. UNION {Range(ss[i]) : i \in DOMAIN d.environments} =
        UNION {Range(EnvironmentItems(d.environments[i], c)) : i \in DOMAIN d.environments}
  OBVIOUS
<1> HIDE DEF ss
<1>4. IsSeq(ss) /\ Len(ss) = Len(d.environments) /\ DOMAIN ss = DOMAIN d.environments
  BY <1>2, DocumentLists, EachIs
<1>5. /\ IsSeq(FlattenSeq(ss)) /\ Len(FlattenSeq(ss)) <= 3 * Len(ss)
      /\ Range(FlattenSeq(ss)) = UNION {Range(ss[i]) : i \in DOMAIN ss}
  BY <1>1, <1>4, FlattenIs
<1>6. /\ IsSeq(FlattenSeq(ss)) /\ Len(FlattenSeq(ss)) <= 3 * Len(d.environments)
      /\ Range(FlattenSeq(ss)) = UNION {Range(EnvironmentItems(d.environments[i], c)) :
                                          i \in DOMAIN d.environments}
  BY <1>3, <1>4, <1>5
<1> QED
  BY <1>6 DEF ss

LEMMA FlatServices ==
    ASSUME NEW d \in ManifestDocuments, NEW c
    PROVE  LET f == FlattenSeq([i \in DOMAIN d.services |-> ServiceItems(d.services[i], c)])
           IN  /\ IsSeq(f) /\ Len(f) <= 2 * Len(d.services)
               /\ Range(f) = UNION {Range(ServiceItems(d.services[i], c)) :
                                      i \in DOMAIN d.services}
<1> DEFINE ss == [i \in DOMAIN d.services |-> ServiceItems(d.services[i], c)]
<1>1. \A i \in DOMAIN d.services : IsSeq(ss[i]) /\ Len(ss[i]) <= 2
  BY ServiceItemsAre
<1>2. ss = [i \in DOMAIN d.services |-> ss[i]]
  OBVIOUS
<1>3. UNION {Range(ss[i]) : i \in DOMAIN d.services} =
        UNION {Range(ServiceItems(d.services[i], c)) : i \in DOMAIN d.services}
  OBVIOUS
<1> HIDE DEF ss
<1>4. IsSeq(ss) /\ Len(ss) = Len(d.services) /\ DOMAIN ss = DOMAIN d.services
  BY <1>2, DocumentLists, EachIs
<1>5. /\ IsSeq(FlattenSeq(ss)) /\ Len(FlattenSeq(ss)) <= 2 * Len(ss)
      /\ Range(FlattenSeq(ss)) = UNION {Range(ss[i]) : i \in DOMAIN ss}
  BY <1>1, <1>4, FlattenIs
<1>6. /\ IsSeq(FlattenSeq(ss)) /\ Len(FlattenSeq(ss)) <= 2 * Len(d.services)
      /\ Range(FlattenSeq(ss)) = UNION {Range(ServiceItems(d.services[i], c)) :
                                          i \in DOMAIN d.services}
  BY <1>3, <1>4, <1>5
<1> QED
  BY <1>6 DEF ss

LEMMA FlatBindings ==
    ASSUME NEW d \in ManifestDocuments, NEW c, NEW seen
    PROVE  /\ IsSeq(AllBindingItems(d, c, seen))
           /\ Len(AllBindingItems(d, c, seen)) <= Len(d.services) * Len(d.environments)
           /\ Range(AllBindingItems(d, c, seen)) =
                UNION {Range(BindingItems(d.environments[i], d, c, seen)) :
                         i \in DOMAIN d.environments}
<1> DEFINE ss == [i \in DOMAIN d.environments |-> BindingItems(d.environments[i], d, c, seen)]
<1>1. \A i \in DOMAIN d.environments : IsSeq(ss[i]) /\ Len(ss[i]) <= Len(d.services)
  BY BindingItemsAre
<1>2. ss = [i \in DOMAIN d.environments |-> ss[i]]
  OBVIOUS
<1>3. UNION {Range(ss[i]) : i \in DOMAIN d.environments} =
        UNION {Range(BindingItems(d.environments[i], d, c, seen)) : i \in DOMAIN d.environments}
  OBVIOUS
<1>7. AllBindingItems(d, c, seen) = FlattenSeq(ss)
  BY Zenon DEF AllBindingItems
<1> HIDE DEF ss
<1>4. IsSeq(ss) /\ Len(ss) = Len(d.environments) /\ DOMAIN ss = DOMAIN d.environments
  BY <1>2, DocumentLists, EachIs
<1>5. /\ IsSeq(FlattenSeq(ss)) /\ Len(FlattenSeq(ss)) <= Len(d.services) * Len(ss)
      /\ Range(FlattenSeq(ss)) = UNION {Range(ss[i]) : i \in DOMAIN ss}
  BY <1>1, <1>4, FlattenIs, DocumentLists
<1> QED
  BY <1>3, <1>4, <1>5, <1>7

\* The items before the ones the catalog alone has, and after them.
BeforeSet(d, c) ==
    {ProjectItem(d, c), RepositoryItem(c)}
    \cup {OwnerItem(d.owners[i], c) : i \in DOMAIN d.owners}
    \cup (UNION {Range(EnvironmentItems(d.environments[i], c)) : i \in DOMAIN d.environments})
    \cup (UNION {Range(ServiceItems(d.services[i], c)) : i \in DOMAIN d.services})
    \cup {DependencyItem(d.dataStores[i], c) : i \in DOMAIN d.dataStores}
AfterSet(d, c, seen) ==
    {SloItem(d.slos[i], d, c) : i \in DOMAIN d.slos}
    \cup (UNION {Range(BindingItems(d.environments[i], d, c, seen)) : i \in DOMAIN d.environments})
    \cup Range(TruncatedItems(d))

LEMMA BoundBefore ==
    ASSUME NEW o \in Nat, NEW n \in Nat, NEW m \in Nat, NEW t \in Nat
    PROVE  /\ 2 + o + 3 * n + 2 * m + t \in Nat
           /\ \A e, s \in Nat : e <= 3 * n /\ s <= 2 * m =>
                2 + o + e + s + t <= 2 + o + 3 * n + 2 * m + t
OBVIOUS

LEMMA ProductIsNumber ==
    ASSUME NEW n \in Nat, NEW m \in Nat
    PROVE  n * m \in Nat
OBVIOUS

LEMMA BoundAfter ==
    ASSUME NEW s \in Nat, NEW m \in Nat, NEW w \in Nat, NEW t \in Nat, w <= m, t <= 1
    PROVE  s + w + t <= s + m + 1 /\ s + m + 1 \in Nat
OBVIOUS

LEMMA ItemsBeforeAre ==
    ASSUME NEW d \in ManifestDocuments, NEW c
    PROVE  /\ IsSeq(ItemsBefore(d, c)) /\ Len(ItemsBefore(d, c)) <= LengthBefore(d)
           /\ Range(ItemsBefore(d, c)) = BeforeSet(d, c)
<1> DEFINE a == << ProjectItem(d, c), RepositoryItem(c) >>
           b == [i \in DOMAIN d.owners |-> OwnerItem(d.owners[i], c)]
           e == FlattenSeq([i \in DOMAIN d.environments |->
                              EnvironmentItems(d.environments[i], c)])
           s == FlattenSeq([i \in DOMAIN d.services |-> ServiceItems(d.services[i], c)])
           t == [i \in DOMAIN d.dataStores |-> DependencyItem(d.dataStores[i], c)]
<1>1. ItemsBefore(d, c) = a \o b \o e \o s \o t
  BY Zenon DEF ItemsBefore
<1>2. IsSeq(a) /\ Len(a) = 2 /\ Range(a) = {ProjectItem(d, c), RepositoryItem(c)}
  BY ShortLists
<1>3. /\ IsSeq(b) /\ Len(b) = Len(d.owners)
      /\ Range(b) = {OwnerItem(d.owners[i], c) : i \in DOMAIN d.owners}
  <2>1. b = [i \in DOMAIN d.owners |-> b[i]]
    OBVIOUS
  <2>2. {b[i] : i \in DOMAIN d.owners} = {OwnerItem(d.owners[i], c) : i \in DOMAIN d.owners}
    OBVIOUS
  <2> HIDE DEF b
  <2>3. \E S : d.owners \in Seq(S)
    BY DocumentLists
  <2>4. IsSeq(b) /\ Len(b) = Len(d.owners) /\ Range(b) = {b[i] : i \in DOMAIN d.owners}
    BY <2>1, <2>3, EachIs
  <2> QED
    BY <2>2, <2>4, Zenon
<1>4. /\ IsSeq(e) /\ Len(e) <= 3 * Len(d.environments)
      /\ Range(e) = UNION {Range(EnvironmentItems(d.environments[i], c)) :
                             i \in DOMAIN d.environments}
  BY FlatEnvironments
<1>5. /\ IsSeq(s) /\ Len(s) <= 2 * Len(d.services)
      /\ Range(s) = UNION {Range(ServiceItems(d.services[i], c)) : i \in DOMAIN d.services}
  BY FlatServices
<1>6. /\ IsSeq(t) /\ Len(t) = Len(d.dataStores)
      /\ Range(t) = {DependencyItem(d.dataStores[i], c) : i \in DOMAIN d.dataStores}
  <2>1. t = [i \in DOMAIN d.dataStores |-> t[i]]
    OBVIOUS
  <2>2. {t[i] : i \in DOMAIN d.dataStores} =
          {DependencyItem(d.dataStores[i], c) : i \in DOMAIN d.dataStores}
    OBVIOUS
  <2> HIDE DEF t
  <2>3. \E S : d.dataStores \in Seq(S)
    BY DocumentLists
  <2>4. IsSeq(t) /\ Len(t) = Len(d.dataStores) /\ Range(t) = {t[i] : i \in DOMAIN d.dataStores}
    BY <2>1, <2>3, EachIs
  <2> QED
    BY <2>2, <2>4, Zenon
<1> HIDE DEF a, b, e, s, t
<1>7. IsSeq(a \o b) /\ Len(a \o b) = Len(a) + Len(b) /\ Range(a \o b) = Range(a) \cup Range(b)
  BY <1>2, <1>3, ConcatIs
<1>8. /\ IsSeq(a \o b \o e) /\ Len(a \o b \o e) = Len(a \o b) + Len(e)
      /\ Range(a \o b \o e) = Range(a \o b) \cup Range(e)
  BY <1>4, <1>7, ConcatIs
<1>9. /\ IsSeq(a \o b \o e \o s) /\ Len(a \o b \o e \o s) = Len(a \o b \o e) + Len(s)
      /\ Range(a \o b \o e \o s) = Range(a \o b \o e) \cup Range(s)
  BY <1>5, <1>8, ConcatIs
<1>10. /\ IsSeq(a \o b \o e \o s \o t)
       /\ Len(a \o b \o e \o s \o t) = Len(a \o b \o e \o s) + Len(t)
       /\ Range(a \o b \o e \o s \o t) = Range(a \o b \o e \o s) \cup Range(t)
  BY <1>6, <1>9, ConcatIs
<1>11. Len(a \o b \o e \o s \o t) <= LengthBefore(d)
  <2>1. Len(e) \in Nat /\ Len(s) \in Nat
    BY <1>4, <1>5, SeqFacts
  <2>2. Len(a \o b \o e \o s \o t) = 2 + Len(d.owners) + Len(e) + Len(s) + Len(d.dataStores)
    <3>1. Len(a \o b) = 2 + Len(d.owners)
      BY <1>2, <1>3, <1>7, Zenon
    <3>2. Len(a \o b \o e) = 2 + Len(d.owners) + Len(e)
      BY <1>8, <3>1, Zenon
    <3>3. Len(a \o b \o e \o s) = 2 + Len(d.owners) + Len(e) + Len(s)
      BY <1>9, <3>2, Zenon
    <3> QED
      BY <1>6, <1>10, <3>3, Zenon
  <2> QED
    <3>1. /\ Len(d.owners) \in Nat /\ Len(d.environments) \in Nat
          /\ Len(d.services) \in Nat /\ Len(d.dataStores) \in Nat
      BY DocumentLists
    <3>2. Len(e) <= 3 * Len(d.environments) /\ Len(s) <= 2 * Len(d.services)
      BY <1>4, <1>5
    <3>3. 2 + Len(d.owners) + Len(e) + Len(s) + Len(d.dataStores) <= LengthBefore(d)
      BY <2>1, <3>1, <3>2, BoundBefore, Zenon DEF LengthBefore
    <3> QED
      BY <2>2, <3>3, Zenon
<1>12. Range(a \o b \o e \o s \o t) = Range(a) \cup Range(b) \cup Range(e) \cup Range(s) \cup Range(t)
  <2>1. Range(a \o b \o e) = Range(a) \cup Range(b) \cup Range(e)
    BY <1>7, <1>8, Zenon
  <2>2. Range(a \o b \o e \o s) = Range(a) \cup Range(b) \cup Range(e) \cup Range(s)
    BY <1>9, <2>1, Zenon
  <2> QED
    BY <1>10, <2>2, Zenon
<1>13. Range(a) \cup Range(b) \cup Range(e) \cup Range(s) \cup Range(t) = BeforeSet(d, c)
  <2> DEFINE A == {ProjectItem(d, c), RepositoryItem(c)}
             B == {OwnerItem(d.owners[i], c) : i \in DOMAIN d.owners}
             E == UNION {Range(EnvironmentItems(d.environments[i], c)) :
                           i \in DOMAIN d.environments}
             S == UNION {Range(ServiceItems(d.services[i], c)) : i \in DOMAIN d.services}
             T == {DependencyItem(d.dataStores[i], c) : i \in DOMAIN d.dataStores}
  <2>1. Range(a) = A /\ Range(b) = B /\ Range(t) = T
    BY <1>2, <1>3, <1>6, Zenon
  <2>2. Range(e) = E /\ Range(s) = S
    BY <1>4, <1>5, Zenon
  <2>3. BeforeSet(d, c) = A \cup B \cup E \cup S \cup T
    BY Zenon DEF BeforeSet
  <2> HIDE DEF A, B, E, S, T
  <2> QED
    BY <2>1, <2>2, <2>3
<1> QED
  BY <1>1, <1>10, <1>11, <1>12, <1>13, Zenon

LEMMA SloItemsAre ==
    ASSUME NEW d \in ManifestDocuments, NEW c
    PROVE  /\ IsSeq(SloItems(d, c)) /\ Len(SloItems(d, c)) = Len(d.slos)
           /\ Range(SloItems(d, c)) = {SloItem(d.slos[i], d, c) : i \in DOMAIN d.slos}
<1> DEFINE t == [i \in DOMAIN d.slos |-> SloItem(d.slos[i], d, c)]
<1>1. SloItems(d, c) = t
  BY DEF SloItems
<1>2. t = [i \in DOMAIN d.slos |-> t[i]]
  OBVIOUS
<1>3. {t[i] : i \in DOMAIN d.slos} = {SloItem(d.slos[i], d, c) : i \in DOMAIN d.slos}
  OBVIOUS
<1> HIDE DEF t
<1>4. \E S : d.slos \in Seq(S)
  BY DocumentLists
<1>5. IsSeq(t) /\ Len(t) = Len(d.slos) /\ Range(t) = {t[i] : i \in DOMAIN d.slos}
  BY <1>2, <1>4, EachIs
<1> QED
  BY <1>1, <1>3, <1>5, Zenon

LEMMA TruncatedItemsAre ==
    ASSUME NEW d \in ManifestDocuments
    PROVE  /\ IsSeq(TruncatedItems(d)) /\ Len(TruncatedItems(d)) <= 1
           /\ Range(TruncatedItems(d)) \subseteq
                {Item("project", "unsupported", "truncated", NoPayload)}
           /\ ~d.truncated => Range(TruncatedItems(d)) = {}
<1> DEFINE i == Item("project", "unsupported", "truncated", NoPayload)
<1>1. CASE d.truncated
  <2>1. TruncatedItems(d) = <<i>>
    BY <1>1 DEF TruncatedItems
  <2> HIDE DEF i
  <2>2. IsSeq(<<i>>) /\ Len(<<i>>) = 1 /\ Range(<<i>>) = {i}
    BY ShortLists
  <2>3. Len(<<i>>) <= 1
    BY <2>2
  <2> QED
    BY <1>1, <2>1, <2>2, <2>3 DEF i
<1>2. CASE ~d.truncated
  <2>1. TruncatedItems(d) = << >>
    BY <1>2 DEF TruncatedItems
  <2>2. Len(<< >>) <= 1
    BY ShortLists
  <2> QED
    BY <2>1, <2>2, ShortLists
<1> QED
  BY <1>1, <1>2

\* What a plan may contain, and what it does contain as far as it reaches.
LEMMA PlanListIs ==
    ASSUME NEW d \in ManifestDocuments, NEW c, NEW seen,
           IsFiniteSet(OnlyStores(d, c)), IsFiniteSet(OnlyServices(d, c))
    PROVE  LET list == PlanList(d, c, seen)
               only == CatalogOnlyItems(d, c)
           IN  /\ IsSeq(list) /\ IsSeq(only)
               /\ Range(list) = BeforeSet(d, c) \cup Range(only) \cup AfterSet(d, c, seen)
               /\ Len(list) <= LengthBefore(d) + Len(only) + LengthAfter(d)
               /\ Len(only) # 0 =>
                    /\ Len(ItemsBefore(d, c)) + 1 \in 1..Len(list)
                    /\ list[Len(ItemsBefore(d, c)) + 1] \in Range(only)
<1> DEFINE a == ItemsBefore(d, c)
           b == CatalogOnlyItems(d, c)
           s == SloItems(d, c)
           w == AllBindingItems(d, c, seen)
           t == TruncatedItems(d)
<1>1. PlanList(d, c, seen) = a \o b \o s \o w \o t
  BY Zenon DEF PlanList
<1>2. IsSeq(a) /\ Len(a) <= LengthBefore(d) /\ Range(a) = BeforeSet(d, c)
  BY ItemsBeforeAre
<1>3. IsSeq(b)
  BY CatalogOnlyItemsAre
<1>4. /\ IsSeq(s) /\ Len(s) = Len(d.slos)
      /\ Range(s) = {SloItem(d.slos[i], d, c) : i \in DOMAIN d.slos}
  BY SloItemsAre
<1>5. /\ IsSeq(w) /\ Len(w) <= Len(d.services) * Len(d.environments)
      /\ Range(w) = UNION {Range(BindingItems(d.environments[i], d, c, seen)) :
                             i \in DOMAIN d.environments}
  BY FlatBindings
<1>6. IsSeq(t) /\ Len(t) <= 1
  BY TruncatedItemsAre
<1>7. AfterSet(d, c, seen) = Range(s) \cup Range(w) \cup Range(t)
  <2> DEFINE S == {SloItem(d.slos[i], d, c) : i \in DOMAIN d.slos}
             W == UNION {Range(BindingItems(d.environments[i], d, c, seen)) :
                           i \in DOMAIN d.environments}
  <2>1. Range(s) = S /\ Range(w) = W
    BY <1>4, <1>5, Zenon
  <2>2. AfterSet(d, c, seen) = S \cup W \cup Range(t)
    BY Zenon DEF AfterSet
  <2> HIDE DEF S, W, t
  <2> QED
    BY <2>1, <2>2
<1> HIDE DEF a, b, s, w, t
<1>8. /\ IsSeq(a \o b) /\ Len(a \o b) = Len(a) + Len(b)
      /\ Range(a \o b) = Range(a) \cup Range(b)
  BY <1>2, <1>3, ConcatIs
<1>9. /\ IsSeq(a \o b \o s) /\ Len(a \o b \o s) = Len(a \o b) + Len(s)
      /\ Range(a \o b \o s) = Range(a \o b) \cup Range(s)
  BY <1>4, <1>8, ConcatIs
<1>10. /\ IsSeq(a \o b \o s \o w) /\ Len(a \o b \o s \o w) = Len(a \o b \o s) + Len(w)
       /\ Range(a \o b \o s \o w) = Range(a \o b \o s) \cup Range(w)
  BY <1>5, <1>9, ConcatIs
<1> DEFINE list == a \o b \o s \o w \o t
<1>11. /\ IsSeq(list) /\ Len(list) = Len(a \o b \o s \o w) + Len(t)
       /\ Range(list) = Range(a \o b \o s \o w) \cup Range(t)
  BY <1>6, <1>10, ConcatIs
<1>12. Range(list) = BeforeSet(d, c) \cup Range(b) \cup AfterSet(d, c, seen)
  <2>1. Range(list) = Range(a) \cup Range(b) \cup Range(s) \cup Range(w) \cup Range(t)
    BY <1>8, <1>9, <1>10, <1>11, Zenon
  <2> QED
    BY <1>2, <1>7, <2>1
<1>13. /\ Len(a) \in Nat /\ Len(b) \in Nat /\ Len(s) \in Nat /\ Len(w) \in Nat /\ Len(t) \in Nat
  BY <1>2, <1>3, <1>4, <1>5, <1>6, SeqFacts
<1>14. Len(list) = Len(a) + Len(b) + Len(s) + Len(w) + Len(t)
  <2>1. Len(a \o b \o s) = Len(a) + Len(b) + Len(s)
    BY <1>8, <1>9, Zenon
  <2>2. Len(a \o b \o s \o w) = Len(a) + Len(b) + Len(s) + Len(w)
    BY <1>10, <2>1, Zenon
  <2> QED
    BY <1>11, <2>2, Zenon
<1>15. Len(list) <= LengthBefore(d) + Len(b) + LengthAfter(d)
  <2>1. LengthBefore(d) \in Nat
    <3> SUFFICES ASSUME NEW o \in Nat, NEW n \in Nat, NEW m \in Nat, NEW k \in Nat
                 PROVE  2 + o + 3 * n + 2 * m + k \in Nat
      BY DocumentLists DEF LengthBefore
    <3> QED
      BY BoundBefore
  <2>2. Len(d.services) * Len(d.environments) \in Nat
    BY DocumentLists, ProductIsNumber
  <2>3. Len(s) + Len(w) + Len(t) <= LengthAfter(d) /\ LengthAfter(d) \in Nat
    BY <1>4, <1>5, <1>6, <1>13, <2>2, BoundAfter DEF LengthAfter
  <2> HIDE DEF list
  <2> QED
    BY <1>2, <1>13, <1>14, <2>1, <2>3
<1>16. ASSUME Len(b) # 0
       PROVE  Len(a) + 1 \in 1..Len(list) /\ list[Len(a) + 1] \in Range(b)
  <2> DEFINE k == Len(a) + 1
  <2>1. 1 \in 1..Len(b) /\ k - Len(a) = 1 /\ ~(k <= Len(a))
    BY <1>13, <1>16
  <2>2. k \in 1..Len(a \o b) /\ k \in 1..Len(a \o b \o s) /\ k \in 1..Len(a \o b \o s \o w)
        /\ k \in 1..Len(list)
    <3>1. Len(a \o b) = Len(a) + Len(b)
      BY <1>8
    <3>2. Len(a \o b \o s) = Len(a) + Len(b) + Len(s)
      BY <1>9, <3>1, Zenon
    <3>3. Len(a \o b \o s \o w) = Len(a) + Len(b) + Len(s) + Len(w)
      BY <1>10, <3>2, Zenon
    <3> HIDE DEF list
    <3> QED
      BY <1>13, <1>14, <1>16, <3>1, <3>2, <3>3
  <2>3. (a \o b)[k] = b[1]
    BY <1>2, <1>3, <2>1, <2>2, <1>8, ConcatElement
  <2>4. (a \o b \o s)[k] = (a \o b)[k]
    BY <1>4, <1>8, <2>2, <1>9, ConcatElement
  <2>5. (a \o b \o s \o w)[k] = (a \o b \o s)[k]
    BY <1>5, <1>9, <2>2, <1>10, ConcatElement
  <2>6. list[k] = (a \o b \o s \o w)[k]
    BY <1>6, <1>10, <2>2, <1>11, ConcatElement
  <2>7. b[1] \in Range(b)
    BY <1>3, <2>1, SeqFacts
  <2> HIDE DEF list
  <2> QED
    BY <2>2, <2>3, <2>4, <2>5, <2>6, <2>7
<1> HIDE DEF list
<1>17. list = PlanList(d, c, seen)
  BY <1>1 DEF list
<1> QED
  BY <1>3, <1>11, <1>12, <1>15, <1>16, <1>17 DEF a, b

----------------------------------------------------------------------------
(* The catalog, and what an apply does to each of its tables.              *)

Tables(c) ==
    /\ c = [project |-> c.project, link |-> c.link, owners |-> c.owners,
            environments |-> c.environments, services |-> c.services,
            dependencies |-> c.dependencies, slos |-> c.slos,
            attached |-> c.attached, bindings |-> c.bindings, disabled |-> c.disabled,
            clusters |-> c.clusters]
    /\ DOMAIN c.environments = EnvKeys /\ DOMAIN c.services = SvcKeys
    /\ DOMAIN c.dependencies = DepKeys /\ DOMAIN c.slos = SloKeys

NewProject(plan, c) ==
    LET created == Items(plan, "project", "create")
        updated == Items(plan, "project", "update_metadata")
    IN  IF created # {} THEN (CHOOSE i \in created : TRUE).payload
        ELSE IF updated # {} THEN Merge(c.project, (CHOOSE i \in updated : TRUE).payload)
        ELSE c.project
NewOwners(plan, d, c) ==
    (c.owners \cup (IF Items(plan, "project", "create") # {} THEN Range(d.owners) ELSE {}))
    \cup {i.key : i \in Items(plan, "owner_team", "create")}
CreatedRows(plan, kind, table) ==
    Upsert(table, [i \in Items(plan, kind, "create") |-> i.payload])
UpdatedRows(plan, kind, table) ==
    Upsert(table, [i \in Items(plan, kind, "update_metadata") |-> Merge(table[i.key], i.payload)])
NewEnvironments(plan, c) ==
    UpdatedRows(plan, "environment", CreatedRows(plan, "environment", c.environments))
NamedRows(plan, table) ==
    Upsert(table, [i \in Items(plan, "service", "create") |->
                     [i.payload EXCEPT !.display_name = i.key]])
NewServices(plan, c) == UpdatedRows(plan, "service", NamedRows(plan, c.services))
Touched(plan, kind) ==
    {i \in Range(plan) : i.kind = kind /\ i.action \in ACTIONABLE_ACTIONS}
NewAttached(plan, c) ==
    c.attached \cup
      {<<e.key, s.key>> : e \in Touched(plan, "environment"), s \in Touched(plan, "service")}
NewBindings(plan, c) ==
    c.bindings \cup
      ({Bound(i) : i \in Items(plan, "workload_binding", "create")} \ c.disabled)
SloWritten(plan) ==
    Items(plan, "slo_profile", "create") \cup Items(plan, "slo_profile", "update_metadata")
NewSlo(i, c) ==
    [objective_ratio |-> i.payload.meta.objective_ratio,
     window_seconds |-> i.payload.meta.window_seconds,
     service_ref |-> i.payload.service_ref,
     version |-> IF c.slos[i.key] = Absent THEN 1
                 ELSE IF Differs(c.slos[i.key], i.payload.meta, MUTABLE_SLO_FIELDS) # {}
                 THEN c.slos[i.key].version + 1 ELSE c.slos[i.key].version]
NewSlos(plan, c) == Upsert(c.slos, [i \in SloWritten(plan) |-> NewSlo(i, c)])
NewLink(plan, c) ==
    IF c.link = Absent /\ Items(plan, "repository", "link") # {} THEN "ours" ELSE c.link

LEMMA UpsertDomain ==
    ASSUME NEW table, NEW W
    PROVE  DOMAIN Upsert(table, W) = DOMAIN table
BY DEF Upsert

\* Each handler writes the tables it is about, and leaves the others alone.
LEMMA Materialised ==
    ASSUME NEW plan, NEW d, NEW c, Tables(c), NEW r, r = _materialise(plan, d, c)
    PROVE  /\ Tables(r)
           /\ r.project = NewProject(plan, c) /\ r.link = NewLink(plan, c)
           /\ r.owners = NewOwners(plan, d, c)
           /\ r.environments = NewEnvironments(plan, c)
           /\ r.services = NewServices(plan, c) /\ r.slos = NewSlos(plan, c)
           /\ r.attached = NewAttached(plan, c) /\ r.bindings = NewBindings(plan, c)
           /\ r.clusters = c.clusters /\ r.disabled = c.disabled
           /\ \A k \in DepKeys : r.dependencies[k] # Absent /\ c.dependencies[k] = Absent =>
                \E i \in Range(plan) : i.key = k
<1> DEFINE c1 == _apply_project(plan, d, c)
           c2 == _apply_owner_team_create(plan, c1)
           c3 == _apply_environments(plan, c2)
           c4 == _apply_services(plan, c3)
           c5 == _bind_to_environments(plan, c4)
           c6 == _apply_binding_create(plan, c5)
           c7 == _write_slo(plan, c6)
           c8 == _apply_repository_link(plan, c7)
           c9 == _apply_dependency_create(plan, c8)
           c10 == _apply_dependency_update(plan, c9)
<1>0. r = c10
  BY Zenon DEF _materialise
<1>1. /\ Tables(c1)
      /\ c1.project = NewProject(plan, c)
      /\ c1.link = c.link
      /\ c1.owners = c.owners \cup (IF Items(plan, "project", "create") # {} THEN Range(d.owners) ELSE {})
      /\ c1.environments = c.environments
      /\ c1.services = c.services
      /\ c1.dependencies = c.dependencies
      /\ c1.slos = c.slos
      /\ c1.attached = c.attached
      /\ c1.bindings = c.bindings
      /\ c1.clusters = c.clusters /\ c1.disabled = c.disabled
  <2>1. c1 = [c EXCEPT !.project = NewProject(plan, c),
                       !.owners = c.owners \cup (IF Items(plan, "project", "create") # {}
                                                 THEN Range(d.owners) ELSE {})]
    BY DEF _apply_project, NewProject
  <2> HIDE DEF c1
  <2>3. Tables(c)
    OBVIOUS
  <2> QED
    BY <2>1, <2>3 DEF Tables
<1>2. /\ Tables(c2)
      /\ c2.project = c1.project
      /\ c2.link = c1.link
      /\ c2.owners = c1.owners \cup {i.key : i \in Items(plan, "owner_team", "create")}
      /\ c2.environments = c1.environments
      /\ c2.services = c1.services
      /\ c2.dependencies = c1.dependencies
      /\ c2.slos = c1.slos
      /\ c2.attached = c1.attached
      /\ c2.bindings = c1.bindings
      /\ c2.clusters = c1.clusters /\ c2.disabled = c1.disabled
  <2> HIDE DEF c1
  <2>1. c2 = [c1 EXCEPT !.owners = c1.owners \cup {i.key : i \in Items(plan, "owner_team", "create")}]
    BY DEF _apply_owner_team_create
  <2> HIDE DEF c2
  <2>3. Tables(c1)
    BY <1>1
  <2> QED
    BY <2>1, <2>3 DEF Tables
<1>3. /\ Tables(c3)
      /\ c3.project = c2.project
      /\ c3.link = c2.link
      /\ c3.owners = c2.owners
      /\ c3.environments = NewEnvironments(plan, c2)
      /\ c3.services = c2.services
      /\ c3.dependencies = c2.dependencies
      /\ c3.slos = c2.slos
      /\ c3.attached = c2.attached
      /\ c3.bindings = c2.bindings
      /\ c3.clusters = c2.clusters /\ c3.disabled = c2.disabled
  <2> HIDE DEF c2
  <2>1. c3 = [c2 EXCEPT !.environments = NewEnvironments(plan, c2)]
    BY Zenon DEF _apply_environments, NewEnvironments, CreatedRows, UpdatedRows
  <2>2. DOMAIN NewEnvironments(plan, c2) = DOMAIN c2.environments
    BY UpsertDomain DEF NewEnvironments, CreatedRows, UpdatedRows
  <2> HIDE DEF c3
  <2>3. Tables(c2)
    BY <1>2
  <2> QED
    BY <2>1, <2>2, <2>3 DEF Tables
<1>4. /\ Tables(c4)
      /\ c4.project = c3.project
      /\ c4.link = c3.link
      /\ c4.owners = c3.owners
      /\ c4.environments = c3.environments
      /\ c4.services = NewServices(plan, c3)
      /\ c4.dependencies = c3.dependencies
      /\ c4.slos = c3.slos
      /\ c4.attached = c3.attached
      /\ c4.bindings = c3.bindings
      /\ c4.clusters = c3.clusters /\ c4.disabled = c3.disabled
  <2> HIDE DEF c3
  <2>1. c4 = [c3 EXCEPT !.services = NewServices(plan, c3)]
    BY Zenon DEF _apply_services, NewServices, NamedRows, UpdatedRows
  <2>2. DOMAIN NewServices(plan, c3) = DOMAIN c3.services
    BY UpsertDomain DEF NewServices, NamedRows, UpdatedRows
  <2> HIDE DEF c4
  <2>3. Tables(c3)
    BY <1>3
  <2> QED
    BY <2>1, <2>2, <2>3 DEF Tables
<1>5. /\ Tables(c5)
      /\ c5.project = c4.project
      /\ c5.link = c4.link
      /\ c5.owners = c4.owners
      /\ c5.environments = c4.environments
      /\ c5.services = c4.services
      /\ c5.dependencies = c4.dependencies
      /\ c5.slos = c4.slos
      /\ c5.attached = NewAttached(plan, c4)
      /\ c5.bindings = c4.bindings
      /\ c5.clusters = c4.clusters /\ c5.disabled = c4.disabled
  <2> HIDE DEF c4
  <2>1. c5 = [c4 EXCEPT !.attached = NewAttached(plan, c4)]
    BY DEF _bind_to_environments, NewAttached, Touched
  <2> HIDE DEF c5
  <2>3. Tables(c4)
    BY <1>4
  <2> QED
    BY <2>1, <2>3 DEF Tables
<1>6. /\ Tables(c6)
      /\ c6.project = c5.project
      /\ c6.link = c5.link
      /\ c6.owners = c5.owners
      /\ c6.environments = c5.environments
      /\ c6.services = c5.services
      /\ c6.dependencies = c5.dependencies
      /\ c6.slos = c5.slos
      /\ c6.attached = c5.attached
      /\ c6.bindings = NewBindings(plan, c5)
      /\ c6.clusters = c5.clusters /\ c6.disabled = c5.disabled
  <2> HIDE DEF c5
  <2>1. c6 = [c5 EXCEPT !.bindings = NewBindings(plan, c5)]
    BY DEF _apply_binding_create, NewBindings
  <2> HIDE DEF c6
  <2>3. Tables(c5)
    BY <1>5
  <2> QED
    BY <2>1, <2>3 DEF Tables
<1>7. /\ Tables(c7)
      /\ c7.project = c6.project
      /\ c7.link = c6.link
      /\ c7.owners = c6.owners
      /\ c7.environments = c6.environments
      /\ c7.services = c6.services
      /\ c7.dependencies = c6.dependencies
      /\ c7.slos = NewSlos(plan, c6)
      /\ c7.attached = c6.attached
      /\ c7.bindings = c6.bindings
      /\ c7.clusters = c6.clusters /\ c7.disabled = c6.disabled
  <2> HIDE DEF c6
  <2>1. c7 = [c6 EXCEPT !.slos = NewSlos(plan, c6)]
    BY Zenon DEF _write_slo, NewSlos, NewSlo, SloWritten
  <2>2. DOMAIN NewSlos(plan, c6) = DOMAIN c6.slos
    BY UpsertDomain DEF NewSlos
  <2> HIDE DEF c7
  <2>3. Tables(c6)
    BY <1>6
  <2> QED
    BY <2>1, <2>2, <2>3 DEF Tables
<1>8. /\ Tables(c8)
      /\ c8.project = c7.project
      /\ c8.link = NewLink(plan, c7)
      /\ c8.owners = c7.owners
      /\ c8.environments = c7.environments
      /\ c8.services = c7.services
      /\ c8.dependencies = c7.dependencies
      /\ c8.slos = c7.slos
      /\ c8.attached = c7.attached
      /\ c8.bindings = c7.bindings
      /\ c8.clusters = c7.clusters /\ c8.disabled = c7.disabled
  <2> HIDE DEF c7
  <2>1. c8 = [c7 EXCEPT !.link = NewLink(plan, c7)]
    BY DEF _apply_repository_link, NewLink
  <2> HIDE DEF c8
  <2>3. Tables(c7)
    BY <1>7
  <2> QED
    BY <2>1, <2>3 DEF Tables
<1>9. /\ Tables(c10)
      /\ c10.project = c8.project
      /\ c10.link = c8.link
      /\ c10.owners = c8.owners
      /\ c10.environments = c8.environments
      /\ c10.services = c8.services
      /\ c10.slos = c8.slos
      /\ c10.attached = c8.attached
      /\ c10.bindings = c8.bindings
      /\ c10.clusters = c8.clusters /\ c10.disabled = c8.disabled
      /\ \A k \in DepKeys : c10.dependencies[k] # Absent /\ c8.dependencies[k] = Absent =>
           \E i \in Range(plan) : i.key = k
  <2> HIDE DEF c8
  <2> DEFINE W == [i \in Items(plan, "dependency", "create") |-> i.payload]
             given(i, field, default) ==
               IF field \in DOMAIN i.payload THEN i.payload[field] ELSE default
             V == [i \in Items(plan, "dependency", "update_metadata") |->
                     Merge(c9.dependencies[i.key],
                           [display_name |-> given(i, "display_name", ""),
                            store_scope |-> i.payload["store_scope"],
                            provider |-> given(i, "provider", ""),
                            verification |-> given(i, "verification", "repository_intent")])]
  <2>1. c9 = [c8 EXCEPT !.dependencies = Upsert(c8.dependencies, W)]
    BY DEF _apply_dependency_create
  <2>2. Tables(c8)
    BY <1>8
  <2>3. DOMAIN W = Items(plan, "dependency", "create")
    OBVIOUS
  <2> HIDE DEF c9, W
  <2>4. /\ Tables(c9) /\ c9.dependencies = Upsert(c8.dependencies, W)
        /\ c9.project = c8.project
        /\ c9.link = c8.link
        /\ c9.owners = c8.owners
        /\ c9.environments = c8.environments
        /\ c9.services = c8.services
        /\ c9.slos = c8.slos
        /\ c9.attached = c8.attached
        /\ c9.bindings = c8.bindings
        /\ c9.clusters = c8.clusters /\ c9.disabled = c8.disabled
    BY <2>1, <2>2, UpsertDomain DEF Tables
  <2>5. c10 = [c9 EXCEPT !.dependencies = Upsert(c9.dependencies, V)]
    BY Zenon DEF _apply_dependency_update
  <2>6. DOMAIN V = Items(plan, "dependency", "update_metadata")
    OBVIOUS
  <2> HIDE DEF c10, V
  <2>7. /\ Tables(c10) /\ c10.dependencies = Upsert(c9.dependencies, V)
        /\ c10.project = c9.project
        /\ c10.link = c9.link
        /\ c10.owners = c9.owners
        /\ c10.environments = c9.environments
        /\ c10.services = c9.services
        /\ c10.slos = c9.slos
        /\ c10.attached = c9.attached
        /\ c10.bindings = c9.bindings
        /\ c10.clusters = c9.clusters /\ c10.disabled = c9.disabled
    BY <2>4, <2>5, UpsertDomain DEF Tables
  <2>8. ASSUME NEW k \in DepKeys, c10.dependencies[k] # Absent, c8.dependencies[k] = Absent
        PROVE  \E i \in Range(plan) : i.key = k
    <3> SUFFICES ASSUME \A i \in Range(plan) : i.key # k PROVE FALSE
      OBVIOUS
    <3>1. /\ \A i \in DOMAIN W : i.key # k
          /\ \A i \in DOMAIN V : i.key # k
      BY <2>3, <2>6 DEF Items
    <3>2. c9.dependencies[k] = c8.dependencies[k]
      BY <2>2, <2>4, <3>1 DEF Upsert, Tables
    <3>3. c10.dependencies[k] = c9.dependencies[k]
      BY <2>4, <2>7, <3>1 DEF Upsert, Tables
    <3> QED
      BY <2>8, <3>2, <3>3
  <2> QED
    BY <2>4, <2>7, <2>8
<1> HIDE DEF c1, c2, c3, c4, c5, c6, c7, c8, c9, c10
<1>10. /\ c8.project = NewProject(plan, c) /\ c8.link = NewLink(plan, c)
       /\ c8.owners = NewOwners(plan, d, c)
       /\ c8.environments = NewEnvironments(plan, c)
       /\ c8.services = NewServices(plan, c)
       /\ c8.slos = NewSlos(plan, c)
       /\ c8.attached = NewAttached(plan, c) /\ c8.bindings = NewBindings(plan, c)
       /\ c8.clusters = c.clusters /\ c8.dependencies = c.dependencies
       /\ c8.disabled = c.disabled
  <2>1. /\ c8.disabled = c.disabled /\ c8.project = NewProject(plan, c)
        /\ c8.clusters = c.clusters /\ c8.dependencies = c.dependencies
    BY <1>1, <1>2, <1>3, <1>4, <1>5, <1>6, <1>7, <1>8
  <2>2. c8.owners = NewOwners(plan, d, c)
    <3>1. c8.owners = c2.owners
      BY <1>3, <1>4, <1>5, <1>6, <1>7, <1>8
    <3> QED
      BY <1>1, <1>2, <3>1 DEF NewOwners
  <2>3. c8.environments = NewEnvironments(plan, c)
    <3>1. c8.environments = NewEnvironments(plan, c2) /\ c2.environments = c.environments
      BY <1>1, <1>2, <1>3, <1>4, <1>5, <1>6, <1>7, <1>8
    <3> QED
      BY <3>1, Zenon DEF NewEnvironments
  <2>4. c8.services = NewServices(plan, c)
    <3>1. c8.services = NewServices(plan, c3) /\ c3.services = c.services
      BY <1>1, <1>2, <1>3, <1>4, <1>5, <1>6, <1>7, <1>8
    <3> QED
      BY <3>1, Zenon DEF NewServices
  <2>5. c8.slos = NewSlos(plan, c)
    <3>1. c8.slos = NewSlos(plan, c6) /\ c6.slos = c.slos
      BY <1>1, <1>2, <1>3, <1>4, <1>5, <1>6, <1>7, <1>8
    <3> QED
      BY <3>1, Zenon DEF NewSlos, NewSlo
  <2>6. c8.attached = NewAttached(plan, c)
    <3>1. c8.attached = NewAttached(plan, c4) /\ c4.attached = c.attached
      BY <1>1, <1>2, <1>3, <1>4, <1>5, <1>6, <1>7, <1>8
    <3> DEFINE X == {<<e.key, s.key>> : e \in Touched(plan, "environment"),
                                        s \in Touched(plan, "service")}
    <3>2. NewAttached(plan, c4) = c4.attached \cup X /\ NewAttached(plan, c) = c.attached \cup X
      BY DEF NewAttached
    <3> HIDE DEF X
    <3> QED
      BY <3>1, <3>2
  <2>7. c8.bindings = NewBindings(plan, c)
    <3>1. /\ c8.bindings = NewBindings(plan, c5) /\ c5.bindings = c.bindings
          /\ c5.disabled = c.disabled
      BY <1>1, <1>2, <1>3, <1>4, <1>5, <1>6, <1>7, <1>8
    <3> QED
      BY <3>1, Zenon DEF NewBindings
  <2>8. c8.link = NewLink(plan, c)
    <3>1. c8.link = NewLink(plan, c7) /\ c7.link = c.link
      BY <1>1, <1>2, <1>3, <1>4, <1>5, <1>6, <1>7, <1>8
    <3> QED
      BY <3>1, Zenon DEF NewLink
  <2> QED
    BY <2>1, <2>2, <2>3, <2>4, <2>5, <2>6, <2>7, <2>8
<1> QED
  BY <1>0, <1>9, <1>10

----------------------------------------------------------------------------
(* Where an item comes from, and how its kind tells.                       *)

HasRow(table, K) == {x \in K : table[x] # Absent}
FewRows(c) ==
    /\ IsFiniteSet(HasRow(c.dependencies, DepKeys))
    /\ IsFiniteSet(HasRow(c.services, SvcKeys))

DeployedItem == Item("deployment_source", "no_change", "primary", NoPayload)
FromEnvironment(x, e, c) ==
    \/ x = EnvironmentItem(e, c)
    \/ InCluster(e) /\ (x = ClusterItem(e, c) \/ x = NamespaceItem(e, c))
Origin(x, d, c, seen) ==
    \/ x = ProjectItem(d, c)
    \/ x = RepositoryItem(c)
    \/ \E i \in DOMAIN d.owners : x = OwnerItem(d.owners[i], c)
    \/ \E i \in DOMAIN d.environments : FromEnvironment(x, d.environments[i], c)
    \/ \E i \in DOMAIN d.services :
          x = ServiceItem(d.services[i], c) \/ x = ProfileItem(d.services[i])
    \/ \E i \in DOMAIN d.dataStores : x = DependencyItem(d.dataStores[i], c)
    \/ x \in CatalogOnly("dependency", OnlyStores(d, c))
    \/ x \in CatalogOnly("service", OnlyServices(d, c))
    \/ \E i \in DOMAIN d.slos : x = SloItem(d.slos[i], d, c)
    \/ \E i \in DOMAIN d.environments, j \in DOMAIN d.services :
          /\ InCluster(d.environments[i])
          /\ x = _binding_item(d.environments[i], d.services[j], c, seen)
    \/ d.truncated /\ x = Item("project", "unsupported", "truncated", NoPayload)
    \/ x = DeployedItem

LEMMA OnlyIsFinite ==
    ASSUME NEW d, NEW c, FewRows(c)
    PROVE  IsFiniteSet(OnlyStores(d, c)) /\ IsFiniteSet(OnlyServices(d, c))
<1>1. /\ OnlyStores(d, c) \in SUBSET HasRow(c.dependencies, DepKeys)
      /\ OnlyServices(d, c) \in SUBSET HasRow(c.services, SvcKeys)
  BY DEF OnlyStores, OnlyServices, HasRow
<1> QED
  BY <1>1, FS_Subset DEF FewRows

LEMMA BeforeOrigin ==
    ASSUME NEW d \in ManifestDocuments, NEW c, NEW seen, NEW x \in BeforeSet(d, c)
    PROVE  Origin(x, d, c, seen)
<1>1. ASSUME NEW i \in DOMAIN d.environments, x \in Range(EnvironmentItems(d.environments[i], c))
      PROVE  FromEnvironment(x, d.environments[i], c)
  <2> DEFINE e == d.environments[i]
  <2>1. x \in {EnvironmentItem(e, c)}
              \cup IF InCluster(e) THEN {ClusterItem(e, c), NamespaceItem(e, c)} ELSE {}
    BY <1>1, EnvironmentItemsAre
  <2> HIDE DEF e
  <2>2. FromEnvironment(x, e, c)
    BY <2>1 DEF FromEnvironment
  <2> QED
    BY <2>2 DEF e
<1>2. ASSUME NEW i \in DOMAIN d.services, x \in Range(ServiceItems(d.services[i], c))
      PROVE  x = ServiceItem(d.services[i], c) \/ x = ProfileItem(d.services[i])
  BY <1>2, ServiceItemsAre
<1> QED
  BY <1>1, <1>2, Zenon DEF BeforeSet, Origin

LEMMA AfterOrigin ==
    ASSUME NEW d \in ManifestDocuments, NEW c, NEW seen, NEW x \in AfterSet(d, c, seen)
    PROVE  Origin(x, d, c, seen)
<1>1. ASSUME NEW i \in DOMAIN d.environments,
             x \in Range(BindingItems(d.environments[i], d, c, seen))
      PROVE  /\ InCluster(d.environments[i])
             /\ \E j \in DOMAIN d.services :
                  x = _binding_item(d.environments[i], d.services[j], c, seen)
  <2>1. x \in IF InCluster(d.environments[i])
              THEN {_binding_item(d.environments[i], d.services[j], c, seen) :
                      j \in DOMAIN d.services}
              ELSE {}
    BY <1>1, BindingItemsAre
  <2> QED
    BY <2>1
<1>2. ASSUME x \in Range(TruncatedItems(d))
      PROVE  d.truncated /\ x = Item("project", "unsupported", "truncated", NoPayload)
  BY <1>2, TruncatedItemsAre
<1> QED
  BY <1>1, <1>2, Zenon DEF AfterSet, Origin

LEMMA BuiltElements ==
    ASSUME NEW d \in ManifestDocuments, NEW c, NEW seen, FewRows(c)
    PROVE  /\ IsSeq(build_plan(d, c, seen))
           /\ \A x \in Range(build_plan(d, c, seen)) : Origin(x, d, c, seen)
<1> DEFINE list == PlanList(d, c, seen)
           n == Len(list)
           m == IF n < MaxPlanItems THEN n ELSE MaxPlanItems
<1>1. IsFiniteSet(OnlyStores(d, c)) /\ IsFiniteSet(OnlyServices(d, c))
  BY OnlyIsFinite
<1>2. /\ IsSeq(list)
      /\ Range(list) = BeforeSet(d, c) \cup Range(CatalogOnlyItems(d, c)) \cup AfterSet(d, c, seen)
  BY <1>1, PlanListIs, Zenon
<1>3. build_plan(d, c, seen) = SubSeq(list, 1, m)
  BY PlanIsCutList, Zenon
<1> HIDE DEF list
<1>4. m \in 0..Len(list)
  BY <1>2, SeqFacts, PlanAssumption
<1> HIDE DEF m
<1>5. IsSeq(SubSeq(list, 1, m)) /\ Range(SubSeq(list, 1, m)) \subseteq Range(list)
  BY <1>2, <1>4, Beginning
<1>6. ASSUME NEW x \in Range(CatalogOnlyItems(d, c)) PROVE Origin(x, d, c, seen)
  BY <1>1, CatalogOnlyItemsAre, Zenon DEF Origin
<1> QED
  BY <1>2, <1>3, <1>5, <1>6, BeforeOrigin, AfterOrigin, Zenon

LEMMA PlanForIs ==
    ASSUME NEW d, NEW c, NEW seen, IsSeq(build_plan(d, c, seen))
    PROVE  /\ IsSeq(PlanFor(d, c, seen))
           /\ Range(PlanFor(d, c, seen)) =
                Range(build_plan(d, c, seen)) \cup (IF d.deployed THEN {DeployedItem} ELSE {})
<1> DEFINE p == build_plan(d, c, seen)
           t == deployment_source_item(d)
<1>1. PlanFor(d, c, seen) = p \o t
  BY DEF PlanFor
<1>2. IsSeq(t) /\ Range(t) = IF d.deployed THEN {DeployedItem} ELSE {}
  <2> HIDE DEF DeployedItem
  <2>1. t = IF d.deployed THEN <<DeployedItem>> ELSE << >>
    BY DEF deployment_source_item, DeployedItem
  <2> HIDE DEF t
  <2> QED
    BY <2>1, ShortLists, Zenon
<1> HIDE DEF p, t
<1>3. IsSeq(p \o t) /\ Range(p \o t) = Range(p) \cup Range(t)
  BY <1>2, ConcatIs DEF p
<1> QED
  BY <1>1, <1>2, <1>3 DEF p

LEMMA PlanElements ==
    ASSUME NEW d \in ManifestDocuments, NEW c, NEW seen, FewRows(c)
    PROVE  /\ IsSeq(PlanFor(d, c, seen))
           /\ \A x \in Range(PlanFor(d, c, seen)) : Origin(x, d, c, seen)
<1> DEFINE p == build_plan(d, c, seen)
           q == PlanFor(d, c, seen)
<1>1. IsSeq(p) /\ \A x \in Range(p) : Origin(x, d, c, seen)
  BY BuiltElements
<1>2. IsSeq(q) /\ Range(q) = Range(p) \cup (IF d.deployed THEN {DeployedItem} ELSE {})
  BY <1>1, PlanForIs
<1>3. Origin(DeployedItem, d, c, seen)
  BY Zenon DEF Origin
<1> HIDE DEF p, q
<1>4. \A x \in Range(q) : Origin(x, d, c, seen)
  BY <1>1, <1>2, <1>3
<1> QED
  BY <1>2, <1>4 DEF q

LEMMA RowItemIs ==
    ASSUME NEW kind, NEW key, NEW existing, NEW proposed, NEW mutable, NEW immutable,
           NEW linked, NEW x,
           x = _row_item(kind, key, existing, proposed, mutable, immutable, linked)
    PROVE  /\ x.kind = kind /\ x.key = key
           /\ x.action \in {"conflict", "update_metadata", "no_change", "link"}
<1> DEFINE moved == Differs(existing, proposed, immutable)
           changed == Differs(existing, proposed, mutable)
<1>1. CASE moved # {}
  <2>1. x = Item(kind, "conflict", key, NoPayload)
    BY <1>1 DEF _row_item
  <2> QED
    BY <2>1 DEF Item
<1>2. CASE moved = {} /\ changed # {}
  <2>1. x = Item(kind, "update_metadata", key, Restricted(proposed, changed))
    BY <1>2 DEF _row_item
  <2> QED
    BY <2>1 DEF Item
<1>3. CASE moved = {} /\ changed = {}
  <2>1. x = Item(kind, IF linked THEN "no_change" ELSE "link", key, NoPayload)
    BY <1>3 DEF _row_item
  <2> QED
    BY <2>1 DEF Item
<1> QED
  BY <1>1, <1>2, <1>3

LEMMA PlainRowItemIs ==
    ASSUME NEW kind, NEW key, NEW existing, NEW proposed, NEW mutable, NEW immutable, NEW x,
           x = PlainRowItem(kind, key, existing, proposed, mutable, immutable)
    PROVE  /\ x.kind = kind /\ x.key = key
           /\ x.action \in {"conflict", "update_metadata", "link"}
<1> DEFINE moved == Differs(existing, proposed, immutable)
           changed == Differs(existing, proposed, mutable)
<1>1. x = CASE moved # {} -> Item(kind, "conflict", key, NoPayload)
            [] moved = {} /\ changed # {} ->
                 Item(kind, "update_metadata", key, Restricted(proposed, changed))
            [] OTHER -> Item(kind, "link", key, NoPayload)
  BY DEF PlainRowItem, _row_item
<1>2. CASE moved # {}
  BY <1>1, <1>2 DEF Item
<1>3. CASE moved = {} /\ changed # {}
  BY <1>1, <1>3 DEF Item
<1>4. CASE moved = {} /\ changed = {}
  BY <1>1, <1>4 DEF Item
<1> QED
  BY <1>2, <1>3, <1>4

\* The kind of each item, and the key it is about.
LEMMA ProjectKind ==
    ASSUME NEW d, NEW c
    PROVE  ProjectItem(d, c).kind = "project"
<1>1. CASE c.project = Absent
  BY <1>1 DEF ProjectItem, Item
<1>2. CASE c.project # Absent /\ c.link \notin {"ours", Absent}
  BY <1>2 DEF ProjectItem, Item
<1>3. CASE c.project # Absent /\ c.link \in {"ours", Absent}
  <2>1. ProjectItem(d, c) =
          _row_item("project", "project", c.project, _project_metadata(d),
                    MUTABLE_PROJECT_FIELDS, IMMUTABLE_PROJECT_FIELDS, c.link = "ours")
    BY <1>3 DEF ProjectItem
  <2> QED
    BY <2>1, RowItemIs
<1> QED
  BY <1>1, <1>2, <1>3

LEMMA ClusterKind ==
    ASSUME NEW e, NEW c
    PROVE  ClusterItem(e, c).kind = "cluster_binding" /\ NamespaceItem(e, c).kind = "namespace_binding"
BY DEF ClusterItem, NamespaceItem, Item

LEMMA RepositoryKind ==
    ASSUME NEW c
    PROVE  RepositoryItem(c).kind = "repository"
BY DEF RepositoryItem, Item

LEMMA OwnerKind ==
    ASSUME NEW o, NEW c
    PROVE  OwnerItem(o, c).kind = "owner_team" /\ OwnerItem(o, c).key = o
BY DEF OwnerItem, Item

LEMMA EnvironmentKind ==
    ASSUME NEW e, NEW c
    PROVE  EnvironmentItem(e, c).kind = "environment" /\ EnvironmentItem(e, c).key = e.key
<1>1. CASE c.environments[e.key] = Absent
  BY <1>1 DEF EnvironmentItem, Item
<1>2. CASE c.environments[e.key] # Absent
  <2>1. EnvironmentItem(e, c) =
          PlainRowItem("environment", e.key, c.environments[e.key], e.meta,
                    MUTABLE_ENVIRONMENT_FIELDS, IMMUTABLE_ENVIRONMENT_FIELDS)
    BY <1>2 DEF EnvironmentItem
  <2> QED
    BY <2>1, PlainRowItemIs
<1> QED
  BY <1>1, <1>2

LEMMA ServiceKind ==
    ASSUME NEW s, NEW c
    PROVE  ServiceItem(s, c).kind = "service" /\ ServiceItem(s, c).key = s.key
<1>1. CASE c.services[s.key] = Absent
  BY <1>1 DEF ServiceItem, Item
<1>2. CASE c.services[s.key] # Absent
  <2>1. ServiceItem(s, c) =
          PlainRowItem("service", s.key, c.services[s.key], s.meta,
                    MUTABLE_SERVICE_FIELDS, {})
    BY <1>2 DEF ServiceItem
  <2> QED
    BY <2>1, PlainRowItemIs
<1> QED
  BY <1>1, <1>2

LEMMA DependencyKind ==
    ASSUME NEW s, NEW c
    PROVE  DependencyItem(s, c).kind = "dependency"
<1> DEFINE row == c.dependencies[s.key]
           proposed == dependency_metadata(s, row)
<1>1. \/ DependencyItem(s, c) = Item("dependency", "create", s.key, proposed)
      \/ DependencyItem(s, c) = Item("dependency", "conflict", s.key, NoPayload)
      \/ DependencyItem(s, c) =
           PlainRowItem("dependency", s.key, row, proposed, MUTABLE_DEPENDENCY_FIELDS,
                     IMMUTABLE_DEPENDENCY_FIELDS)
  <2> HIDE DEF proposed
  <2>1. DependencyItem(s, c) =
          CASE row = Absent -> Item("dependency", "create", s.key, proposed)
            [] row # Absent /\ row.provider # proposed.provider
                  /\ is_above_repository_intent(row.verification) ->
                  Item("dependency", "conflict", s.key, NoPayload)
            [] OTHER ->
                  PlainRowItem("dependency", s.key, row, proposed, MUTABLE_DEPENDENCY_FIELDS,
                            IMMUTABLE_DEPENDENCY_FIELDS)
    BY Zenon DEF DependencyItem, proposed, PlainRowItem
  <2> HIDE DEF row
  <2> QED
    BY <2>1
<1> HIDE DEF row, proposed
<1>2. CASE DependencyItem(s, c) = Item("dependency", "create", s.key, proposed)
  BY <1>2 DEF Item
<1>3. CASE DependencyItem(s, c) = Item("dependency", "conflict", s.key, NoPayload)
  BY <1>3 DEF Item
<1>4. CASE DependencyItem(s, c) =
             PlainRowItem("dependency", s.key, row, proposed, MUTABLE_DEPENDENCY_FIELDS,
                       IMMUTABLE_DEPENDENCY_FIELDS)
  BY <1>4, PlainRowItemIs
<1> QED
  BY <1>1, <1>2, <1>3, <1>4

LEMMA SloKind ==
    ASSUME NEW s, NEW d, NEW c
    PROVE  SloItem(s, d, c).kind = "slo_profile" /\ SloItem(s, d, c).key = s.key
BY DEF SloItem, Item

LEMMA BindingKind ==
    ASSUME NEW e, NEW s, NEW c, NEW seen
    PROVE  /\ _binding_item(e, s, c, seen).kind = "workload_binding"
           /\ _binding_item(e, s, c, seen).key = e.key
           /\ _binding_item(e, s, c, seen).payload.service = s.key
BY DEF _binding_item, Item

LEMMA ProfileKind ==
    ASSUME NEW s
    PROVE  ProfileItem(s).kind = "metric_profile"
BY DEF ProfileItem, Item

LEMMA ReportedKinds ==
    ASSUME NEW X, NEW x
    PROVE  /\ x \in CatalogOnly("dependency", X) => x.kind = "dependency" /\ x.action = "unmapped"
           /\ x \in CatalogOnly("service", X) => x.kind = "service" /\ x.action = "unmapped"
BY DEF CatalogOnly, Item

----------------------------------------------------------------------------
(* One workload for a service in an environment.                           *)

\* What a plan would bind is one workload for a pair, and a pair that has
\* none, unless its bindings were changed since.
BindsOneEach(plan, c, changed) ==
    \A x \in Items(plan, "workload_binding", "create") :
      /\ <<x.key, x.payload.service>> \in Pairs /\ x.payload.workload \in Workloads
      /\ \A b \in c.bindings : b[1] = x.key /\ b[2] = x.payload.service =>
           <<x.key, x.payload.service>> \in changed
      /\ \A y \in Items(plan, "workload_binding", "create") :
           y.key = x.key /\ y.payload.service = x.payload.service =>
             y.payload.workload = x.payload.workload

BindingRows(B) ==
    \A b \in B : /\ b = <<b[1], b[2], b[3]>>
                 /\ <<b[1], b[2]>> \in Pairs /\ b[3] \in Workloads

PlanBase ==
    /\ Tables(catalog) /\ FewRows(catalog)
    /\ manifest \in Documents
    /\ workloads \in [Pairs -> SUBSET Workloads]
    /\ BindingRows(catalog.bindings) /\ BindingRows(catalog.disabled)
    /\ review # Absent => IsSeq(review) /\ BindsOneEach(review, catalog, meanwhile)

LEMMA ByKind ==
    ASSUME NEW d, NEW c, NEW seen, NEW x, Origin(x, d, c, seen)
    PROVE  /\ x.kind = "project" =>
                x = ProjectItem(d, c) \/ (d.truncated /\ x.action = "unsupported")
           /\ x.kind = "repository" =>
                x = RepositoryItem(c)
           /\ x.kind = "owner_team" =>
                \E i \in DOMAIN d.owners : x = OwnerItem(d.owners[i], c)
           /\ x.kind = "environment" =>
                \E i \in DOMAIN d.environments : x = EnvironmentItem(d.environments[i], c)
           /\ x.kind = "service" =>
                (\E i \in DOMAIN d.services : x = ServiceItem(d.services[i], c))
                \/ x.action = "unmapped"
           /\ x.kind = "slo_profile" =>
                \E i \in DOMAIN d.slos : x = SloItem(d.slos[i], d, c)
           /\ x.kind = "workload_binding" =>
                \E i \in DOMAIN d.environments, j \in DOMAIN d.services :
                  /\ InCluster(d.environments[i])
                  /\ x = _binding_item(d.environments[i], d.services[j], c, seen)
<1>0. /\ ProjectItem(d, c).kind = "project" /\ RepositoryItem(c).kind = "repository"
      /\ \A o : OwnerItem(o, c).kind = "owner_team"
      /\ \A e : EnvironmentItem(e, c).kind = "environment"
      /\ \A e : ClusterItem(e, c).kind = "cluster_binding"
      /\ \A e : NamespaceItem(e, c).kind = "namespace_binding"
      /\ \A s : ServiceItem(s, c).kind = "service"
      /\ \A s : ProfileItem(s).kind = "metric_profile"
      /\ \A s : DependencyItem(s, c).kind = "dependency"
      /\ \A s : SloItem(s, d, c).kind = "slo_profile"
      /\ \A e, s : _binding_item(e, s, c, seen).kind = "workload_binding"
  <2>1. ProjectItem(d, c).kind = "project" /\ RepositoryItem(c).kind = "repository"
    BY ProjectKind, RepositoryKind
  <2>2. \A o : OwnerItem(o, c).kind = "owner_team"
    BY OwnerKind
  <2>3. \A e : EnvironmentItem(e, c).kind = "environment"
    BY EnvironmentKind
  <2>4. \A e : ClusterItem(e, c).kind = "cluster_binding"
    BY ClusterKind
  <2>5. \A e : NamespaceItem(e, c).kind = "namespace_binding"
    BY ClusterKind
  <2>6. \A s : ServiceItem(s, c).kind = "service"
    BY ServiceKind
  <2>7. \A s : ProfileItem(s).kind = "metric_profile"
    BY ProfileKind
  <2>8. \A s : DependencyItem(s, c).kind = "dependency"
    BY DependencyKind
  <2>9. \A s : SloItem(s, d, c).kind = "slo_profile"
    BY SloKind
  <2>10. \A e, s : _binding_item(e, s, c, seen).kind = "workload_binding"
    BY BindingKind
  <2> QED
    BY <2>1, <2>2, <2>3, <2>4, <2>5, <2>6, <2>7, <2>8, <2>9, <2>10
<1>1. CASE x = ProjectItem(d, c)
  <2>1. x.kind = "project"
    BY <1>1, <1>0
  <2> QED
    BY <1>1, <2>1
<1>2. CASE x = RepositoryItem(c)
  <2>1. x.kind = "repository"
    BY <1>2, <1>0
  <2> QED
    BY <1>2, <2>1
<1>3. CASE \E i \in DOMAIN d.owners : x = OwnerItem(d.owners[i], c)
  <2>1. x.kind = "owner_team"
    BY <1>3, <1>0
  <2> QED
    BY <1>3, <2>1
<1>4. CASE \E i \in DOMAIN d.environments : x = EnvironmentItem(d.environments[i], c)
  <2>1. x.kind = "environment"
    BY <1>4, <1>0
  <2> QED
    BY <1>4, <2>1
<1>5. CASE \E e : x = ClusterItem(e, c)
  <2>1. x.kind = "cluster_binding"
    BY <1>5, <1>0
  <2> QED
    BY <1>5, <2>1
<1>6. CASE \E e : x = NamespaceItem(e, c)
  <2>1. x.kind = "namespace_binding"
    BY <1>6, <1>0
  <2> QED
    BY <1>6, <2>1
<1>7. CASE \E i \in DOMAIN d.services : x = ServiceItem(d.services[i], c)
  <2>1. x.kind = "service"
    BY <1>7, <1>0
  <2> QED
    BY <1>7, <2>1
<1>8. CASE \E s : x = ProfileItem(s)
  <2>1. x.kind = "metric_profile"
    BY <1>8, <1>0
  <2> QED
    BY <1>8, <2>1
<1>9. CASE \E s : x = DependencyItem(s, c)
  <2>1. x.kind = "dependency"
    BY <1>9, <1>0
  <2> QED
    BY <1>9, <2>1
<1>10. CASE x \in CatalogOnly("dependency", OnlyStores(d, c))
  <2>1. x.kind = "dependency"
    BY <1>10, ReportedKinds
  <2> QED
    BY <1>10, <2>1
<1>11. CASE x \in CatalogOnly("service", OnlyServices(d, c))
  <2>1. x.kind = "service" /\ x.action = "unmapped"
    BY <1>11, ReportedKinds
  <2> QED
    BY <1>11, <2>1
<1>12. CASE \E i \in DOMAIN d.slos : x = SloItem(d.slos[i], d, c)
  <2>1. x.kind = "slo_profile"
    BY <1>12, <1>0
  <2> QED
    BY <1>12, <2>1
<1>13. CASE \E i \in DOMAIN d.environments, j \in DOMAIN d.services :
           /\ InCluster(d.environments[i])
           /\ x = _binding_item(d.environments[i], d.services[j], c, seen)
  <2>1. x.kind = "workload_binding"
    BY <1>13, <1>0
  <2> QED
    BY <1>13, <2>1
<1>14. CASE d.truncated /\ x = Item("project", "unsupported", "truncated", NoPayload)
  <2>1. x.kind = "project" /\ x.action = "unsupported"
    BY <1>14 DEF Item
  <2> QED
    BY <1>14, <2>1
<1>15. CASE x = DeployedItem
  <2>1. x.kind = "deployment_source"
    BY <1>15 DEF DeployedItem, Item
  <2> QED
    BY <2>1
<1> QED
  BY <1>1, <1>2, <1>3, <1>4, <1>5, <1>6, <1>7, <1>8, <1>9, <1>10, <1>11, <1>12, <1>13, <1>14,
     <1>15, Zenon DEF Origin, FromEnvironment

LEMMA BindingOrigin ==
    ASSUME NEW d \in ManifestDocuments, NEW c, NEW seen, FewRows(c),
           NEW x \in Range(PlanFor(d, c, seen)), x.kind = "workload_binding"
    PROVE  \E i \in DOMAIN d.environments, j \in DOMAIN d.services :
             /\ InCluster(d.environments[i])
             /\ x = _binding_item(d.environments[i], d.services[j], c, seen)
<1>1. Origin(x, d, c, seen)
  BY PlanElements
<1> QED
  BY <1>1, ByKind

LEMMA ProposedBinding ==
    ASSUME NEW e, NEW s, NEW c, NEW seen, NEW x, x = _binding_item(e, s, c, seen),
           x.action = "create", seen[<<e.key, s.key>>] \subseteq Workloads
    PROVE  /\ \A w \in Workloads : <<e.key, s.key, w>> \notin c.bindings
           /\ x.key = e.key /\ x.payload.service = s.key
           /\ x.payload.workload = CHOOSE w \in seen[<<e.key, s.key>>] : TRUE
           /\ x.payload.workload \in Workloads
<1> DEFINE bound == \E w \in Workloads : <<e.key, s.key, w>> \in c.bindings
           found == IF s.selector THEN seen[<<e.key, s.key>>] ELSE {}
           action == CASE bound \/ found = {} -> "no_change"
                       [] ~bound /\ Cardinality(found) > 1 -> "unmapped"
                       [] OTHER -> "create"
<1>1. x = Item("workload_binding", action, e.key,
               [service |-> s.key,
                workload |-> IF action = "create" THEN CHOOSE w \in found : TRUE ELSE Absent])
  BY Zenon DEF _binding_item
<1>2. action = "create"
  <2> HIDE DEF action
  <2> QED
    BY <1>1 DEF Item
<1>3. ~bound /\ found # {}
  <2> HIDE DEF bound, found
  <2> QED
    BY <1>2
<1>4. found = seen[<<e.key, s.key>>]
  BY <1>3
<1> HIDE DEF action, found
<1>5. x.key = e.key /\ x.payload.service = s.key /\ x.payload.workload = CHOOSE w \in found : TRUE
  BY <1>1, <1>2 DEF Item
<1>6. (CHOOSE w \in found : TRUE) \in found
  BY <1>3
<1> QED
  BY <1>3, <1>4, <1>5, <1>6

LEMMA ReviewBindsOneEach ==
    ASSUME PlanBase
    PROVE  BindsOneEach(PlanFor(manifest, catalog, workloads), catalog, meanwhile)
<1> DEFINE plan == PlanFor(manifest, catalog, workloads)
<1>1. manifest \in Documents /\ manifest \in ManifestDocuments
  BY PlanAssumption DEF PlanBase
<1>2. ASSUME NEW x \in Items(plan, "workload_binding", "create")
      PROVE  /\ <<x.key, x.payload.service>> \in Pairs /\ x.payload.workload \in Workloads
             /\ x.payload.workload = CHOOSE w \in workloads[<<x.key, x.payload.service>>] : TRUE
             /\ \A w \in Workloads : <<x.key, x.payload.service, w>> \notin catalog.bindings
  <2>1. x \in Range(plan) /\ x.kind = "workload_binding" /\ x.action = "create"
    BY DEF Items
  <2>2. PICK i \in DOMAIN manifest.environments, j \in DOMAIN manifest.services :
          x = _binding_item(manifest.environments[i], manifest.services[j], catalog, workloads)
    BY <1>1, <2>1, BindingOrigin DEF PlanBase
  <2> DEFINE e == manifest.environments[i]
             s == manifest.services[j]
  <2>3. e.key \in EnvKeys /\ s.key \in SvcKeys
    BY <1>1 DEF EnvKeys, SvcKeys, Keys
  <2>4. workloads[<<e.key, s.key>>] \subseteq Workloads
    BY <2>3 DEF PlanBase, Pairs
  <2>5. x = _binding_item(e, s, catalog, workloads)
    BY <2>2
  <2> HIDE DEF e, s, plan
  <2>6. /\ \A w \in Workloads : <<e.key, s.key, w>> \notin catalog.bindings
        /\ x.key = e.key /\ x.payload.service = s.key
        /\ x.payload.workload = CHOOSE w \in workloads[<<e.key, s.key>>] : TRUE
        /\ x.payload.workload \in Workloads
    BY <2>1, <2>4, <2>5, ProposedBinding
  <2>7. <<x.key, x.payload.service>> \in Pairs
    BY <2>3, <2>6 DEF Pairs
  <2> QED
    BY <2>6, <2>7
<1> HIDE DEF plan
<1>3. ASSUME NEW x \in Items(plan, "workload_binding", "create"), NEW b \in catalog.bindings,
             b[1] = x.key, b[2] = x.payload.service
      PROVE  FALSE
  <2>1. b = <<x.key, x.payload.service, b[3]>> /\ b[3] \in Workloads
    BY <1>3 DEF PlanBase, BindingRows
  <2> QED
    BY <1>2, <2>1
<1>4. ASSUME NEW x \in Items(plan, "workload_binding", "create"),
             NEW y \in Items(plan, "workload_binding", "create"),
             y.key = x.key, y.payload.service = x.payload.service
      PROVE  y.payload.workload = x.payload.workload
  <2>1. /\ x.payload.workload = CHOOSE w \in workloads[<<x.key, x.payload.service>>] : TRUE
        /\ y.payload.workload = CHOOSE w \in workloads[<<y.key, y.payload.service>>] : TRUE
    BY <1>2
  <2> QED
    BY <1>4, <2>1
<1>5. BindsOneEach(plan, catalog, meanwhile)
  BY <1>2, <1>3, <1>4 DEF BindsOneEach
<1> QED
  BY <1>5 DEF plan

LEMMA NewBindingsAre ==
    ASSUME NEW plan, NEW c, NEW changed, BindsOneEach(plan, c, changed),
           BindingRows(c.bindings)
    PROVE  /\ BindingRows(NewBindings(plan, c))
           /\ c.bindings \subseteq NewBindings(plan, c)
           /\ \A b \in NewBindings(plan, c) \ c.bindings :
                \E x \in Items(plan, "workload_binding", "create") :
                  b = <<x.key, x.payload.service, x.payload.workload>>
<1> DEFINE B == c.bindings
           X == Items(plan, "workload_binding", "create")
           N == {Bound(i) : i \in X} \ c.disabled
<1>1. NewBindings(plan, c) = B \cup N
  BY Zenon DEF NewBindings
<1>2. ASSUME NEW b \in N
      PROVE  \E x \in X : b = <<x.key, x.payload.service, x.payload.workload>>
  BY DEF Bound
<1>3. ASSUME NEW b \in N
      PROVE  b = <<b[1], b[2], b[3]>> /\ <<b[1], b[2]>> \in Pairs /\ b[3] \in Workloads
  <2>1. PICK x \in X : b = <<x.key, x.payload.service, x.payload.workload>>
    BY <1>2
  <2>2. <<x.key, x.payload.service>> \in Pairs /\ x.payload.workload \in Workloads
    BY DEF BindsOneEach
  <2> QED
    BY <2>1, <2>2
<1> HIDE DEF N
<1>4. BindingRows(B \cup N)
  BY <1>3 DEF BindingRows
<1> QED
  BY <1>1, <1>2, <1>4

LEMMA UpsertIs ==
    ASSUME NEW table, NEW W, NEW k \in DOMAIN table
    PROVE  /\ (\A i \in DOMAIN W : i.key # k) => Upsert(table, W)[k] = table[k]
           /\ (\E i \in DOMAIN W : i.key = k) =>
                \E i \in DOMAIN W : i.key = k /\ Upsert(table, W)[k] = W[i]
<1>1. Upsert(table, W)[k] = IF \E i \in DOMAIN W : i.key = k
                            THEN W[CHOOSE i \in DOMAIN W : i.key = k] ELSE table[k]
  BY DEF Upsert
<1>2. ASSUME \E i \in DOMAIN W : i.key = k
      PROVE  \E i \in DOMAIN W : i.key = k /\ Upsert(table, W)[k] = W[i]
  <2> DEFINE j == CHOOSE i \in DOMAIN W : i.key = k
  <2>1. j \in DOMAIN W /\ j.key = k
    BY <1>2
  <2>2. Upsert(table, W)[k] = W[j]
    BY <1>1, <1>2
  <2> HIDE DEF j
  <2> QED
    BY <2>1, <2>2
<1> QED
  BY <1>1, <1>2

LEMMA ServiceRowsCome ==
    ASSUME NEW plan, NEW c, Tables(c), NEW k \in SvcKeys,
           NewServices(plan, c)[k] # Absent, c.services[k] = Absent
    PROVE  \E i \in Range(plan) : i.key = k
<1> SUFFICES ASSUME \A i \in Range(plan) : i.key # k PROVE FALSE
  OBVIOUS
<1> DEFINE W == [i \in Items(plan, "service", "create") |->
                   [i.payload EXCEPT !.display_name = i.key]]
           named == Upsert(c.services, W)
           V == [i \in Items(plan, "service", "update_metadata") |->
                   Merge(named[i.key], i.payload)]
<1>1. NewServices(plan, c) = Upsert(named, V)
  BY Zenon DEF NewServices, NamedRows, UpdatedRows
<1>2. (\A i \in DOMAIN W : i.key # k) /\ (\A i \in DOMAIN V : i.key # k)
  <2>1. DOMAIN W = Items(plan, "service", "create")
    OBVIOUS
  <2>2. DOMAIN V = Items(plan, "service", "update_metadata")
    OBVIOUS
  <2> HIDE DEF W, V
  <2> QED
    BY <2>1, <2>2 DEF Items
<1> HIDE DEF W, V
<1>3. k \in DOMAIN c.services
  BY DEF Tables
<1>4. named[k] = c.services[k] /\ k \in DOMAIN named
  BY <1>2, <1>3, UpsertIs, UpsertDomain
<1> HIDE DEF named
<1>5. Upsert(named, V)[k] = named[k]
  BY <1>2, <1>4, UpsertIs
<1> QED
  BY <1>1, <1>4, <1>5

LEMMA FewRowsStay ==
    ASSUME NEW plan, IsSeq(plan), NEW d, NEW c, Tables(c), FewRows(c)
    PROVE  FewRows(_materialise(plan, d, c))
<1> DEFINE r == _materialise(plan, d, c)
           f == [i \in Range(plan) |-> i.key]
           K == {i.key : i \in Range(plan)}
<1>1. IsFiniteSet(K)
  <2>1. f \in Surjection(Range(plan), K)
    BY DEF Surjection
  <2> HIDE DEF f, K
  <2> QED
    BY <2>1, RangeIsFinite, FS_Surjection
<1>2. /\ r.services = NewServices(plan, c)
      /\ \A k \in DepKeys : r.dependencies[k] # Absent /\ c.dependencies[k] = Absent =>
           \E i \in Range(plan) : i.key = k
  BY Materialised
<1> HIDE DEF r
<1>3. HasRow(r.dependencies, DepKeys) \subseteq HasRow(c.dependencies, DepKeys) \cup K
  BY <1>2 DEF HasRow
<1>4. HasRow(r.services, SvcKeys) \subseteq HasRow(c.services, SvcKeys) \cup K
  BY <1>2, ServiceRowsCome DEF HasRow
<1> HIDE DEF K
<1>5. /\ IsFiniteSet(HasRow(c.dependencies, DepKeys) \cup K)
      /\ IsFiniteSet(HasRow(c.services, SvcKeys) \cup K)
  BY <1>1, FS_Union DEF FewRows
<1>6. FewRows(r)
  BY <1>3, <1>4, <1>5, FS_Subset DEF FewRows
<1> QED
  BY <1>6 DEF r

LEMMA PlanBaseInit == PlanInit => PlanBase
<1> SUFFICES ASSUME PlanInit PROVE PlanBase
  OBVIOUS
<1> DEFINE c == EmptyCatalog
<1>1. /\ c.project = Absent /\ c.link = Absent /\ c.owners = {}
      /\ c.bindings = {} /\ c.disabled = {}
      /\ c.environments = [k \in EnvKeys |-> Absent] /\ c.services = [k \in SvcKeys |-> Absent]
      /\ c.dependencies = [k \in DepKeys |-> Absent] /\ c.slos = [k \in SloKeys |-> Absent]
      /\ c.attached = {} /\ c.clusters = ClusterRefs
  BY DEF EmptyCatalog
<1>2. Tables(c)
  <2>1. c = [project |-> c.project, link |-> c.link, owners |-> c.owners,
             environments |-> c.environments, services |-> c.services,
             dependencies |-> c.dependencies, slos |-> c.slos,
             attached |-> c.attached, bindings |-> c.bindings, disabled |-> c.disabled,
             clusters |-> c.clusters]
    BY DEF EmptyCatalog
  <2> HIDE DEF c
  <2>2. /\ DOMAIN c.environments = EnvKeys /\ DOMAIN c.services = SvcKeys
        /\ DOMAIN c.dependencies = DepKeys /\ DOMAIN c.slos = SloKeys
    BY <1>1
  <2> QED
    BY <2>1, <2>2 DEF Tables
<1>3. FewRows(c)
  <2> HIDE DEF c
  <2>1. HasRow(c.dependencies, DepKeys) = {} /\ HasRow(c.services, SvcKeys) = {}
    BY <1>1 DEF HasRow
  <2> QED
    BY <2>1, FS_EmptySet DEF FewRows
<1>4. BindingRows(c.bindings) /\ BindingRows(c.disabled)
  <2> HIDE DEF c
  <2> QED
    BY <1>1 DEF BindingRows
<1>5. /\ catalog = c /\ review = Absent /\ manifest \in Documents
      /\ workloads \in [Pairs -> SUBSET Workloads]
  BY DEF PlanInit
<1> HIDE DEF c
<1> QED
  BY <1>2, <1>3, <1>4, <1>5 DEF PlanBase

\* The tables an import compares with the manifest are as they were.
SameRows(c, c2) ==
    /\ c2.link = c.link /\ c2.project = c.project /\ c2.slos = c.slos
    /\ c2.environments = c.environments /\ c2.services = c.services

\* Changes made out of band leave the bindings alone, and add no rows.
LEMMA OutOfBand ==
    ASSUME Tables(catalog), FewRows(catalog),
           \/ \E k \in DepKeys, level \in Range(Verifications) : ConfirmDependency(k, level)
           \/ \E ref \in ClusterRefs : ChangeCluster(ref)
    PROVE  /\ Tables(catalog') /\ FewRows(catalog') /\ SameRows(catalog, catalog')
           /\ catalog'.bindings = catalog.bindings /\ catalog'.disabled = catalog.disabled
           /\ UNCHANGED <<workloads, resolved, manifest, review, meanwhile>> /\ rounds' = 0
<1>1. ASSUME NEW k \in DepKeys, NEW level, ConfirmDependency(k, level)
      PROVE  /\ Tables(catalog') /\ FewRows(catalog') /\ SameRows(catalog, catalog')
             /\ catalog'.bindings = catalog.bindings /\ catalog'.disabled = catalog.disabled
             /\ UNCHANGED <<workloads, resolved, manifest, review, meanwhile>> /\ rounds' = 0
  <2>1. /\ catalog.dependencies[k] # Absent
        /\ UNCHANGED <<workloads, resolved, manifest, review, meanwhile>> /\ rounds' = 0
    BY <1>1 DEF ConfirmDependency, Outside
  <2> DEFINE t == [catalog.dependencies EXCEPT ![k].verification = level]
  <2>2. catalog' = [catalog EXCEPT !.dependencies = t]
    BY <1>1 DEF ConfirmDependency
  <2>3. DOMAIN t = DOMAIN catalog.dependencies
    OBVIOUS
  <2>4. \A x \in DepKeys : t[x] # Absent => catalog.dependencies[x] # Absent
    BY <2>1 DEF Tables
  <2> HIDE DEF t
  <2>5. /\ Tables(catalog') /\ catalog'.dependencies = t
        /\ catalog'.bindings = catalog.bindings /\ catalog'.disabled = catalog.disabled
    BY <2>2, <2>3 DEF Tables
  <2>6. SameRows(catalog, catalog') /\ catalog'.services = catalog.services
    BY <2>2 DEF Tables, SameRows
  <2>7. HasRow(catalog'.dependencies, DepKeys) \in SUBSET HasRow(catalog.dependencies, DepKeys)
    BY <2>4, <2>5 DEF HasRow
  <2>8. FewRows(catalog')
    BY <2>6, <2>7, FS_Subset DEF FewRows
  <2> QED
    BY <2>1, <2>5, <2>6, <2>8
<1>2. ASSUME NEW ref, ChangeCluster(ref)
      PROVE  /\ Tables(catalog') /\ FewRows(catalog') /\ SameRows(catalog, catalog')
             /\ catalog'.bindings = catalog.bindings /\ catalog'.disabled = catalog.disabled
             /\ UNCHANGED <<workloads, resolved, manifest, review, meanwhile>> /\ rounds' = 0
  <2>1. UNCHANGED <<workloads, resolved, manifest, review, meanwhile>> /\ rounds' = 0
    BY <1>2 DEF ChangeCluster, Outside
  <2> DEFINE t == IF ref \in catalog.clusters THEN catalog.clusters \ {ref}
                  ELSE catalog.clusters \cup {ref}
  <2>2. catalog' = [catalog EXCEPT !.clusters = t]
    BY <1>2 DEF ChangeCluster
  <2> HIDE DEF t
  <2>3. /\ Tables(catalog') /\ catalog'.dependencies = catalog.dependencies
        /\ catalog'.bindings = catalog.bindings /\ catalog'.disabled = catalog.disabled
        /\ catalog'.services = catalog.services
    BY <2>2 DEF Tables
  <2>4. SameRows(catalog, catalog')
    BY <2>2 DEF Tables, SameRows
  <2>5. FewRows(catalog')
    BY <2>3 DEF FewRows
  <2> QED
    BY <2>1, <2>3, <2>4, <2>5
<1> QED
  BY <1>1, <1>2

\* An operator changes the bindings of one pair, and nothing else; during a
\* review the pair is noted.
OnlyPair(p, B, B2) ==
    \A b \in B2 : b \notin B => b[1] = p[1] /\ b[2] = p[2]
SwitchedOrBound ==
    \/ \E p \in Pairs, w \in Workloads : bind_by_hand(p, w)
    \/ \E b \in catalog.bindings \cup catalog.disabled : switch_binding(b)

LEMMA OperatorEffect ==
    ASSUME Tables(catalog), FewRows(catalog), NEW B, NEW D,
           catalog' = [catalog EXCEPT !.bindings = B, !.disabled = D]
    PROVE  /\ Tables(catalog') /\ FewRows(catalog') /\ SameRows(catalog, catalog')
           /\ catalog'.bindings = B /\ catalog'.disabled = D
<1>1. /\ Tables(catalog') /\ catalog'.bindings = B /\ catalog'.disabled = D
      /\ catalog'.dependencies = catalog.dependencies /\ catalog'.services = catalog.services
  BY DEF Tables
<1>2. SameRows(catalog, catalog')
  BY DEF Tables, SameRows
<1>3. FewRows(catalog')
  BY <1>1 DEF FewRows
<1> QED
  BY <1>1, <1>2, <1>3

LEMMA BoundByHand ==
    ASSUME PlanBase, NEW p \in Pairs, NEW w \in Workloads, bind_by_hand(p, w)
    PROVE  /\ Tables(catalog') /\ FewRows(catalog') /\ SameRows(catalog, catalog')
           /\ catalog'.bindings = catalog.bindings \cup {<<p[1], p[2], w>>}
           /\ catalog'.disabled = catalog.disabled
<1> DEFINE b == <<p[1], p[2], w>>
           B == catalog.bindings \cup {b}
<1>1. catalog' = [catalog EXCEPT !.bindings = B]
  BY Zenon DEF bind_by_hand
<1> HIDE DEF B
<1>2. catalog' = [catalog EXCEPT !.bindings = B, !.disabled = catalog.disabled]
  BY <1>1 DEF PlanBase, Tables
<1>3. /\ Tables(catalog') /\ FewRows(catalog') /\ SameRows(catalog, catalog')
      /\ catalog'.bindings = B /\ catalog'.disabled = catalog.disabled
  BY <1>2, OperatorEffect DEF PlanBase
<1> QED
  BY <1>3 DEF B

LEMMA Switched ==
    ASSUME PlanBase, NEW b \in catalog.bindings \cup catalog.disabled, switch_binding(b)
    PROVE  /\ Tables(catalog') /\ FewRows(catalog') /\ SameRows(catalog, catalog')
           /\ catalog'.bindings \subseteq catalog.bindings \cup {b}
           /\ catalog'.disabled \subseteq catalog.disabled \cup {b}
           /\ b \in catalog'.bindings => b \in catalog.disabled
<1>1. CASE b \in catalog.bindings
  <2> DEFINE B == catalog.bindings \ {b}
             D == catalog.disabled \cup {b}
  <2>1. catalog' = [catalog EXCEPT !.bindings = B, !.disabled = D]
    BY <1>1 DEF switch_binding, PlanBase, Tables
  <2> HIDE DEF B, D
  <2>2. /\ Tables(catalog') /\ FewRows(catalog') /\ SameRows(catalog, catalog')
        /\ catalog'.bindings = B /\ catalog'.disabled = D
    BY <2>1, OperatorEffect DEF PlanBase
  <2> QED
    BY <2>2 DEF B, D
<1>2. CASE b \notin catalog.bindings
  <2> DEFINE B == catalog.bindings \cup {b}
             D == catalog.disabled \ {b}
  <2>1. catalog' = [catalog EXCEPT !.bindings = B, !.disabled = D]
    BY <1>2 DEF switch_binding, PlanBase, Tables
  <2> HIDE DEF B, D
  <2>2. /\ Tables(catalog') /\ FewRows(catalog') /\ SameRows(catalog, catalog')
        /\ catalog'.bindings = B /\ catalog'.disabled = D
    BY <2>1, OperatorEffect DEF PlanBase
  <2> QED
    BY <1>2, <2>2 DEF B, D
<1> QED
  BY <1>1, <1>2

LEMMA BindingsChanged ==
    ASSUME PlanBase, SwitchedOrBound
    PROVE  /\ Tables(catalog') /\ FewRows(catalog') /\ SameRows(catalog, catalog')
           /\ BindingRows(catalog'.bindings) /\ BindingRows(catalog'.disabled)
           /\ \E p \in Pairs :
                /\ review # Absent => meanwhile' = meanwhile \cup {p}
                /\ OnlyPair(p, catalog.bindings, catalog'.bindings)
           /\ UNCHANGED <<workloads, manifest, review>> /\ rounds' = 0
<1>1. ASSUME NEW p \in Pairs, NEW w \in Workloads, bind_by_hand(p, w)
      PROVE  /\ Tables(catalog') /\ FewRows(catalog') /\ SameRows(catalog, catalog')
             /\ BindingRows(catalog'.bindings) /\ BindingRows(catalog'.disabled)
             /\ review # Absent => meanwhile' = meanwhile \cup {p}
             /\ OnlyPair(p, catalog.bindings, catalog'.bindings)
             /\ UNCHANGED <<workloads, manifest, review>> /\ rounds' = 0
  <2> DEFINE b == <<p[1], p[2], w>>
  <2>1. /\ Tables(catalog') /\ FewRows(catalog') /\ SameRows(catalog, catalog')
        /\ catalog'.bindings = catalog.bindings \cup {b}
        /\ catalog'.disabled = catalog.disabled
    BY <1>1, BoundByHand
  <2>2. /\ review # Absent => meanwhile' = meanwhile \cup {p}
        /\ UNCHANGED <<workloads, manifest, review>> /\ rounds' = 0
    BY <1>1 DEF bind_by_hand, ByHand, Outside
  <2>3. b[1] = p[1] /\ b[2] = p[2] /\ b[3] = w /\ p = <<p[1], p[2]>>
    BY DEF Pairs
  <2> HIDE DEF b
  <2>4. b = <<b[1], b[2], b[3]>>
    BY <2>3 DEF b
  <2>5. BindingRows(catalog'.bindings) /\ BindingRows(catalog'.disabled)
    BY <2>1, <2>3, <2>4 DEF PlanBase, BindingRows
  <2>6. OnlyPair(p, catalog.bindings, catalog'.bindings)
    BY <2>1, <2>3 DEF OnlyPair
  <2> QED
    BY <2>1, <2>2, <2>5, <2>6
<1>2. ASSUME NEW b \in catalog.bindings \cup catalog.disabled, switch_binding(b)
      PROVE  /\ Tables(catalog') /\ FewRows(catalog') /\ SameRows(catalog, catalog')
             /\ BindingRows(catalog'.bindings) /\ BindingRows(catalog'.disabled)
             /\ <<b[1], b[2]>> \in Pairs
             /\ review # Absent => meanwhile' = meanwhile \cup {<<b[1], b[2]>>}
             /\ OnlyPair(<<b[1], b[2]>>, catalog.bindings, catalog'.bindings)
             /\ UNCHANGED <<workloads, manifest, review>> /\ rounds' = 0
  <2>1. /\ Tables(catalog') /\ FewRows(catalog') /\ SameRows(catalog, catalog')
        /\ catalog'.bindings \subseteq catalog.bindings \cup {b}
        /\ catalog'.disabled \subseteq catalog.disabled \cup {b}
    BY <1>2, Switched
  <2>2. /\ review # Absent => meanwhile' = meanwhile \cup {<<b[1], b[2]>>}
        /\ UNCHANGED <<workloads, manifest, review>> /\ rounds' = 0
    BY <1>2 DEF switch_binding, ByHand, Outside
  <2>3. b = <<b[1], b[2], b[3]>> /\ <<b[1], b[2]>> \in Pairs /\ b[3] \in Workloads
    BY DEF PlanBase, BindingRows
  <2>4. BindingRows(catalog'.bindings) /\ BindingRows(catalog'.disabled)
    BY <2>1, <2>3 DEF PlanBase, BindingRows
  <2>5. OnlyPair(<<b[1], b[2]>>, catalog.bindings, catalog'.bindings)
    BY <2>1 DEF OnlyPair
  <2> QED
    BY <2>1, <2>2, <2>3, <2>4, <2>5
<1> QED
  BY <1>1, <1>2 DEF SwitchedOrBound

\* A pair whose bindings an operator changed is noted, so that what a plan
\* under review would bind is still said truly.
LEMMA StillBindsOneEach ==
    ASSUME NEW plan, NEW c, NEW c2, NEW changed, NEW p \in Pairs,
           BindsOneEach(plan, c, changed), OnlyPair(p, c.bindings, c2.bindings)
    PROVE  BindsOneEach(plan, c2, changed \cup {p})
<1> DEFINE X == Items(plan, "workload_binding", "create")
<1>1. ASSUME NEW x \in X, NEW b \in c2.bindings, b[1] = x.key, b[2] = x.payload.service
      PROVE  <<x.key, x.payload.service>> \in changed \cup {p}
  <2>1. CASE b \in c.bindings
    BY <1>1, <2>1 DEF BindsOneEach
  <2>2. CASE b \notin c.bindings
    <3>1. p = <<p[1], p[2]>>
      BY DEF Pairs
    <3>2. b[1] = p[1] /\ b[2] = p[2]
      BY <2>2 DEF OnlyPair
    <3> QED
      BY <1>1, <3>1, <3>2
  <2> QED
    BY <2>1, <2>2
<1>2. ASSUME NEW x \in X
      PROVE  /\ <<x.key, x.payload.service>> \in Pairs /\ x.payload.workload \in Workloads
             /\ \A y \in X : y.key = x.key /\ y.payload.service = x.payload.service =>
                  y.payload.workload = x.payload.workload
  BY DEF BindsOneEach
<1> HIDE DEF X
<1>3. \A x \in X :
        /\ <<x.key, x.payload.service>> \in Pairs /\ x.payload.workload \in Workloads
        /\ \A b \in c2.bindings : b[1] = x.key /\ b[2] = x.payload.service =>
             <<x.key, x.payload.service>> \in changed \cup {p}
        /\ \A y \in X : y.key = x.key /\ y.payload.service = x.payload.service =>
             y.payload.workload = x.payload.workload
  BY <1>1, <1>2
<1> QED
  BY <1>3, Zenon DEF BindsOneEach, X

LEMMA PlanBaseNext == PlanBase /\ [PlanNext]_planVars => PlanBase'
<1> SUFFICES ASSUME PlanBase, [PlanNext]_planVars PROVE PlanBase'
  OBVIOUS
<1>1. CASE UNCHANGED planVars
  BY <1>1, Zenon DEF PlanBase, planVars
<1>2. CASE AnalyzeManifest
  <2>1. /\ review' = PlanFor(manifest, catalog, workloads)
        /\ UNCHANGED <<catalog, workloads, manifest, meanwhile>>
    BY <1>2 DEF AnalyzeManifest
  <2>2. IsSeq(PlanFor(manifest, catalog, workloads))
    BY PlanElements, PlanAssumption DEF PlanBase
  <2>3. BindsOneEach(PlanFor(manifest, catalog, workloads), catalog, meanwhile)
    BY ReviewBindsOneEach
  <2> QED
    BY <2>1, <2>2, <2>3, Zenon DEF PlanBase
<1>3. CASE ApplyPlan
  <2>1. /\ review # Absent /\ review' = Absent
        /\ catalog' = _materialise(review, manifest, catalog)
        /\ UNCHANGED <<workloads, manifest>>
    BY <1>3 DEF ApplyPlan
  <2>2. /\ Tables(catalog') /\ catalog'.bindings = NewBindings(review, catalog)
        /\ catalog'.disabled = catalog.disabled
    BY <2>1, Materialised DEF PlanBase
  <2>3. IsSeq(review) /\ BindsOneEach(review, catalog, meanwhile)
    BY <2>1 DEF PlanBase
  <2>4. FewRows(catalog')
    BY <2>1, <2>3, FewRowsStay DEF PlanBase
  <2>5. BindingRows(catalog'.bindings) /\ BindingRows(catalog'.disabled)
    BY <2>2, <2>3, NewBindingsAre DEF PlanBase
  <2> QED
    BY <2>1, <2>2, <2>4, <2>5, Zenon DEF PlanBase
<1>4. CASE DropPlan
  BY <1>4, Zenon DEF DropPlan, PlanBase
<1>5. CASE \E d \in Documents : EditManifest(d)
  BY <1>5, Zenon DEF EditManifest, PlanBase
<1>6. CASE \/ \E k \in DepKeys, level \in Range(Verifications) : ConfirmDependency(k, level)
           \/ \E ref \in ClusterRefs : ChangeCluster(ref)
  <2>1. /\ Tables(catalog') /\ FewRows(catalog')
        /\ catalog'.bindings = catalog.bindings /\ catalog'.disabled = catalog.disabled
        /\ UNCHANGED <<workloads, manifest, review, meanwhile>>
    BY <1>6, OutOfBand DEF PlanBase
  <2>2. review # Absent => BindsOneEach(review, catalog', meanwhile)
    BY <2>1 DEF PlanBase, BindsOneEach
  <2>3. BindingRows(catalog'.bindings) /\ BindingRows(catalog'.disabled)
    BY <2>1 DEF PlanBase
  <2> QED
    BY <2>1, <2>2, <2>3, Zenon DEF PlanBase
<1>7. CASE \E p \in Pairs, found \in SUBSET Workloads : ObserveWorkloads(p, found)
  <2>1. PICK p \in Pairs, found \in SUBSET Workloads : ObserveWorkloads(p, found)
    BY <1>7
  <2>2. /\ workloads' = [workloads EXCEPT ![p] = found]
        /\ UNCHANGED <<catalog, manifest, review, meanwhile>>
    BY <2>1 DEF ObserveWorkloads
  <2>3. workloads' \in [Pairs -> SUBSET Workloads]
    BY <2>2 DEF PlanBase
  <2> QED
    BY <2>2, <2>3, Zenon DEF PlanBase
<1>8. CASE SwitchedOrBound
  <2>1. /\ Tables(catalog') /\ FewRows(catalog')
        /\ BindingRows(catalog'.bindings) /\ BindingRows(catalog'.disabled)
        /\ UNCHANGED <<workloads, manifest, review>>
    BY <1>8, BindingsChanged
  <2>2. PICK p \in Pairs : /\ review # Absent => meanwhile' = meanwhile \cup {p}
                           /\ OnlyPair(p, catalog.bindings, catalog'.bindings)
    BY <1>8, BindingsChanged
  <2>3. ASSUME review # Absent PROVE BindsOneEach(review, catalog', meanwhile')
    <3>1. BindsOneEach(review, catalog, meanwhile)
      BY <2>3 DEF PlanBase
    <3>2. BindsOneEach(review, catalog', meanwhile \cup {p})
      BY <2>2, <3>1, StillBindsOneEach
    <3> QED
      BY <2>2, <2>3, <3>2, Zenon
  <2> QED
    BY <2>1, <2>3, Zenon DEF PlanBase
<1> QED
  BY <1>1, <1>2, <1>3, <1>4, <1>5, <1>6, <1>7, <1>8, Zenon DEF PlanNext, SwitchedOrBound

LEMMA PlanBaseHolds == PlanSpec => []PlanBase
BY PlanBaseInit, PlanBaseNext, PTL DEF PlanSpec

----------------------------------------------------------------------------
(* What an import binds, and what is resolved.                             *)

LEMMA AppliesAttributeOnce ==
    ASSUME PlanBase, ApplyPlan, NEW p \in Pairs, NEW added,
           added = BindingsOf(p, catalog'.bindings) \ catalog.bindings
    PROVE  /\ Cardinality(added) <= 1
           /\ added # {} => BindingsOf(p, catalog.bindings) = {} \/ p \in meanwhile
<1> DEFINE X == Items(review, "workload_binding", "create")
<1>1. /\ review # Absent /\ catalog' = _materialise(review, manifest, catalog)
      /\ BindsOneEach(review, catalog, meanwhile) /\ BindingRows(catalog.bindings)
  BY DEF ApplyPlan, PlanBase
<1>2. catalog'.bindings = NewBindings(review, catalog)
  BY <1>1, Materialised DEF PlanBase
<1>3. ASSUME NEW b \in added
      PROVE  \E x \in X : /\ b = <<x.key, x.payload.service, x.payload.workload>>
                          /\ p = <<x.key, x.payload.service>>
  <2>1. b \in NewBindings(review, catalog) \ catalog.bindings /\ <<b[1], b[2]>> = p
    BY <1>2 DEF BindingsOf
  <2>2. PICK x \in X : b = <<x.key, x.payload.service, x.payload.workload>>
    BY <1>1, <2>1, NewBindingsAre
  <2>3. b[1] = x.key /\ b[2] = x.payload.service
    BY <2>2
  <2> QED
    BY <2>1, <2>2, <2>3
<1>4. ASSUME NEW a \in added, NEW b \in added PROVE a = b
  <2>1. PICK x \in X : /\ a = <<x.key, x.payload.service, x.payload.workload>>
                       /\ p = <<x.key, x.payload.service>>
    BY <1>3
  <2>2. PICK y \in X : /\ b = <<y.key, y.payload.service, y.payload.workload>>
                       /\ p = <<y.key, y.payload.service>>
    BY <1>3
  <2>3. y.key = x.key /\ y.payload.service = x.payload.service
    BY <2>1, <2>2
  <2>4. y.payload.workload = x.payload.workload
    BY <1>1, <2>3 DEF BindsOneEach
  <2> QED
    BY <2>1, <2>2, <2>3, <2>4
<1>5. ASSUME added # {}, BindingsOf(p, catalog.bindings) # {} PROVE p \in meanwhile
  <2>1. PICK b \in added : TRUE
    BY <1>5
  <2>2. PICK x \in X : p = <<x.key, x.payload.service>>
    BY <1>3, <2>1
  <2>3. PICK a \in BindingsOf(p, catalog.bindings) : TRUE
    BY <1>5
  <2>4. a \in catalog.bindings /\ <<a[1], a[2]>> = p
    BY <2>3 DEF BindingsOf
  <2>5. a[1] = x.key /\ a[2] = x.payload.service
    BY <2>2, <2>4
  <2> QED
    BY <1>1, <2>2, <2>4, <2>5 DEF BindsOneEach
<1>6. added = {} \/ \E a \in added : added = {a}
  BY <1>4
<1>7. ASSUME added = {} PROVE Cardinality(added) <= 1
  <2>1. Cardinality({}) = 0
    BY FS_EmptySet
  <2>2. Cardinality(added) = 0
    BY <1>7, <2>1, Zenon
  <2> QED
    BY <2>2
<1>8. ASSUME NEW a \in added, added = {a} PROVE Cardinality(added) <= 1
  <2>1. Cardinality({a}) = 1
    BY FS_Singleton
  <2>2. Cardinality(added) = 1
    BY <1>8, <2>1, Zenon
  <2> QED
    BY <2>2
<1>9. Cardinality(added) <= 1
  BY <1>6, <1>7, <1>8
<1> QED
  BY <1>5, <1>9

(* _binding_item and _apply_binding_create, with operators who bind a      *)
(* service again or switch its bindings on and off (bindings.py), with     *)
(* workloads that come and go and plans applied late: an import gives a    *)
(* service at most one workload in an environment, and a further one only  *)
(* where an operator changed its bindings while the plan was under review. *)
THEOREM ImportsBindOnce == PlanSpec => ImportsAttributeOnce
<1>1. PlanBase /\ [PlanNext]_planVars => [AttributesOnce]_planVars
  BY AppliesAttributeOnce, Zenon DEF AttributesOnce
<1> QED
  BY <1>1, PlanBaseHolds, PTL DEF PlanSpec, ImportsAttributeOnce

\* A binding that inventory explains has just been resolved, unless inventory
\* explained it before or it was switched off.
LEMMA ResolvedWhenExplained ==
    ASSUME PlanBase, [PlanNext]_planVars, NEW b \in catalog'.bindings \ catalog.disabled,
           IsExplained(b, catalog', workloads'), ~IsExplained(b, catalog, workloads)
    PROVE  b \in resolved'
<1>1. b \in catalog'.bindings /\ resolve_workload(b, workloads') /\ b \notin catalog.disabled
  BY DEF IsExplained
<1>2. b \notin catalog.bindings \/ ~resolve_workload(b, workloads)
  BY DEF IsExplained
<1>3. \/ UNCHANGED planVars \/ AnalyzeManifest \/ DropPlan
      \/ \E d \in Documents : EditManifest(d)
      \/ \E k \in DepKeys, level \in Range(Verifications) : ConfirmDependency(k, level)
      \/ \E ref \in ClusterRefs : ChangeCluster(ref)
      => catalog'.bindings = catalog.bindings /\ workloads' = workloads
  <2>1. \/ UNCHANGED planVars \/ AnalyzeManifest \/ DropPlan
        \/ \E d \in Documents : EditManifest(d)
        => catalog' = catalog /\ workloads' = workloads
    BY Zenon DEF planVars, AnalyzeManifest, DropPlan, EditManifest
  <2>2. \/ \E k \in DepKeys, level \in Range(Verifications) : ConfirmDependency(k, level)
        \/ \E ref \in ClusterRefs : ChangeCluster(ref)
        => catalog'.bindings = catalog.bindings /\ workloads' = workloads
    BY OutOfBand DEF PlanBase
  <2> QED
    BY <2>1, <2>2, Zenon
<1>4. CASE ApplyPlan
  <2> DEFINE X == Items(review, "workload_binding", "create")
             explained == {Explicable(catalog', workloads, i.key) : i \in X}
  <2>1. /\ review # Absent /\ catalog' = _materialise(review, manifest, catalog)
        /\ workloads' = workloads /\ resolved' = resolved \cup UNION explained
    BY <1>4, Zenon DEF ApplyPlan
  <2>2. catalog'.bindings = NewBindings(review, catalog)
    BY <2>1, Materialised DEF PlanBase
  <2>3. b \notin catalog.bindings
    BY <1>1, <1>2, <2>1
  <2>4. PICK x \in X : b = <<x.key, x.payload.service, x.payload.workload>>
    BY <1>1, <2>1, <2>2, <2>3, NewBindingsAre DEF PlanBase
  <2>5. b[1] = x.key
    BY <2>4
  <2>6. b \in Explicable(catalog', workloads, x.key)
    BY <1>1, <2>1, <2>5 DEF Explicable, SameCluster
  <2> HIDE DEF X
  <2> QED
    BY <2>1, <2>6
<1>5. CASE \E p \in Pairs, found \in SUBSET Workloads : ObserveWorkloads(p, found)
  <2>1. PICK p \in Pairs, found \in SUBSET Workloads : ObserveWorkloads(p, found)
    BY <1>5
  <2>2. /\ workloads' = [workloads EXCEPT ![p] = found] /\ catalog' = catalog
        /\ resolved' = resolved \cup Explicable(catalog, workloads', p[1])
    BY <2>1 DEF ObserveWorkloads
  <2>3. b \in catalog.bindings /\ ~resolve_workload(b, workloads) /\ <<b[1], b[2]>> \in Pairs
    BY <1>1, <1>2, <2>2 DEF PlanBase, BindingRows
  <2>4. PICK s \in SvcKeys : b[3] \in workloads'[<<b[1], s>>]
    BY <1>1 DEF resolve_workload
  <2>5. <<b[1], s>> \in Pairs
    BY <2>3 DEF Pairs
  <2>6. b[3] \notin workloads[<<b[1], s>>]
    BY <2>3 DEF resolve_workload
  <2>7. p = <<b[1], s>>
    BY <2>2, <2>4, <2>5, <2>6 DEF PlanBase
  <2>8. b \in Explicable(catalog, workloads', p[1])
    BY <1>1, <2>3, <2>7 DEF Explicable, SameCluster
  <2> QED
    BY <2>2, <2>8
<1>6. ASSUME NEW p \in Pairs, NEW w \in Workloads, bind_by_hand(p, w) PROVE b \in resolved'
  <2> DEFINE made == <<p[1], p[2], w>>
  <2>1. catalog'.bindings = catalog.bindings \cup {made}
    BY <1>6, BoundByHand
  <2>2. /\ workloads' = workloads
        /\ resolved' = resolved \cup {x \in {made} : resolve_workload(x, workloads)}
    BY <1>6, Zenon DEF bind_by_hand, ByHand
  <2>3. b = made
    BY <1>1, <1>2, <2>1, <2>2
  <2> HIDE DEF made
  <2> QED
    BY <1>1, <2>2, <2>3
<1>7. ASSUME NEW a \in catalog.bindings \cup catalog.disabled, switch_binding(a) PROVE FALSE
  <2>1. /\ catalog'.bindings \subseteq catalog.bindings \cup {a}
        /\ a \in catalog'.bindings => a \in catalog.disabled
    BY <1>7, Switched
  <2>2. workloads' = workloads
    BY <1>7 DEF switch_binding, ByHand
  <2> QED
    BY <1>1, <1>2, <2>1, <2>2
<1> QED
  BY <1>1, <1>2, <1>3, <1>4, <1>5, <1>6, <1>7, Zenon DEF PlanNext

LEMMA BindingsAreFound == PlanSpec => BindingsFindTheirWorkload
<1>1. PlanBase /\ [PlanNext]_planVars => [FindsTheirWorkload]_planVars
  BY ResolvedWhenExplained, Zenon DEF FindsTheirWorkload
<1> QED
  BY <1>1, PlanBaseHolds, PTL DEF PlanSpec, BindingsFindTheirWorkload

----------------------------------------------------------------------------
(* A plan that is not blocked is whole.                                    *)

LEMMA LengthsAreNumbers ==
    ASSUME NEW d \in ManifestDocuments
    PROVE  LengthBefore(d) \in Nat /\ LengthAfter(d) \in Nat /\ 1 <= LengthAfter(d)
<1>1. LengthBefore(d) \in Nat
  <2> SUFFICES ASSUME NEW o \in Nat, NEW n \in Nat, NEW m \in Nat, NEW k \in Nat
               PROVE  2 + o + 3 * n + 2 * m + k \in Nat
    BY DocumentLists DEF LengthBefore
  <2> QED
    BY BoundBefore
<1>2. LengthAfter(d) \in Nat /\ 1 <= LengthAfter(d)
  <2>1. Len(d.services) * Len(d.environments) \in Nat /\ Len(d.slos) \in Nat
    BY DocumentLists, ProductIsNumber
  <2> SUFFICES ASSUME NEW a \in Nat, NEW b \in Nat
               PROVE  a + b + 1 \in Nat /\ 1 <= a + b + 1
    BY <2>1 DEF LengthAfter
  <2> QED
    OBVIOUS
<1> QED
  BY <1>1, <1>2

LEMMA NoRowsNoItems ==
    ASSUME NEW kind, NEW X, CatalogOnly(kind, X) = {}
    PROVE  X = {}
<1>1. \A k \in X : Item(kind, "unmapped", k, NoPayload) \in CatalogOnly(kind, X)
  BY DEF CatalogOnly
<1> QED
  BY <1>1

LEMMA EmptyRange ==
    ASSUME NEW s, IsSeq(s), Len(s) = 0
    PROVE  Range(s) = {}
<1>1. 1..0 = {}
  OBVIOUS
<1> QED
  BY <1>1, SeqFacts

LEMMA WholeBuild ==
    ASSUME NEW d \in ManifestDocuments, Fits(d), NEW c, FewRows(c), NEW seen,
           NEW plan, plan = build_plan(d, c, seen), ~Blocked(plan)
    PROVE  /\ IsSeq(plan) /\ Range(plan) = BeforeSet(d, c) \cup AfterSet(d, c, seen)
           /\ OnlyServices(d, c) = {} /\ ~d.truncated
<1> DEFINE list == PlanList(d, c, seen)
           only == CatalogOnlyItems(d, c)
           n == Len(list)
           k == Len(ItemsBefore(d, c)) + 1
<1>1. IsFiniteSet(OnlyStores(d, c)) /\ IsFiniteSet(OnlyServices(d, c))
  BY OnlyIsFinite
<1>2. /\ IsSeq(list) /\ IsSeq(only)
      /\ Range(list) = BeforeSet(d, c) \cup Range(only) \cup AfterSet(d, c, seen)
      /\ n <= LengthBefore(d) + Len(only) + LengthAfter(d)
      /\ Len(only) # 0 => k \in 1..n /\ list[k] \in Range(only)
  BY <1>1, PlanListIs
<1>3. Range(only) = CatalogOnly("dependency", OnlyStores(d, c))
                      \cup CatalogOnly("service", OnlyServices(d, c))
  BY <1>1, CatalogOnlyItemsAre
<1>4. plan = SubSeq(list, 1, IF n < MaxPlanItems THEN n ELSE MaxPlanItems)
  BY PlanIsCutList
<1>5. /\ IsSeq(ItemsBefore(d, c)) /\ Len(ItemsBefore(d, c)) <= LengthBefore(d)
  BY ItemsBeforeAre
<1>6. /\ LengthBefore(d) \in Nat /\ LengthAfter(d) \in Nat /\ 1 <= LengthAfter(d)
      /\ LengthBefore(d) + LengthAfter(d) <= MaxPlanItems /\ MaxPlanItems \in Nat
  BY LengthsAreNumbers, PlanAssumption DEF Fits
<1>7. n \in Nat /\ Len(only) \in Nat /\ Len(ItemsBefore(d, c)) \in Nat
  BY <1>2, <1>5, SeqFacts
<1>8. k <= MaxPlanItems
  BY <1>5, <1>6, <1>7
<1> DEFINE m == IF n < MaxPlanItems THEN n ELSE MaxPlanItems
<1>9. m \in 0..n /\ (k <= n => k <= m)
  BY <1>6, <1>7, <1>8
<1> HIDE DEF list, only, n, k
<1>10. n = Len(list)
  BY DEF n
<1>11. plan = SubSeq(list, 1, m)
  BY <1>4 DEF m
<1>12. /\ IsSeq(plan) /\ Len(plan) = m /\ (\A i \in 1..m : plan[i] = list[i])
       /\ m = Len(list) => plan = list
  BY <1>2, <1>9, <1>10, <1>11, Beginning
<1>13. ASSUME NEW x \in Range(only) PROVE x.action = "unmapped"
  BY <1>3, ReportedKinds
<1>14. Len(only) = 0
  <2> SUFFICES ASSUME Len(only) # 0 PROVE FALSE
    OBVIOUS
  <2>1. k \in 1..n /\ list[k] \in Range(only)
    BY <1>2
  <2>2. k \in 1..m
    BY <1>7, <1>9, <2>1
  <2>3. plan[k] = list[k] /\ plan[k] \in Range(plan)
    BY <1>12, <2>2, SeqFacts
  <2>4. plan[k].action = "unmapped"
    BY <1>13, <2>1, <2>3
  <2> QED
    BY <2>3, <2>4 DEF Blocked, BLOCKING_ACTIONS
<1>15. Range(only) = {}
  BY <1>2, <1>14, EmptyRange
<1>16. n <= MaxPlanItems
  BY <1>2, <1>6, <1>7, <1>14
<1>17. m = n
  BY <1>6, <1>7, <1>16
<1>18. plan = list
  BY <1>10, <1>12, <1>17
<1>19. OnlyServices(d, c) = {}
  BY <1>3, <1>15, NoRowsNoItems
<1>20. Range(plan) = BeforeSet(d, c) \cup AfterSet(d, c, seen)
  BY <1>2, <1>15, <1>18
<1>21. ~d.truncated
  <2> DEFINE i == Item("project", "unsupported", "truncated", NoPayload)
  <2> SUFFICES ASSUME d.truncated PROVE FALSE
    OBVIOUS
  <2>1. TruncatedItems(d) = <<i>> /\ i.action = "unsupported"
    BY DEF TruncatedItems, Item
  <2> HIDE DEF i
  <2>2. Range(TruncatedItems(d)) = {i}
    BY <2>1, ShortLists
  <2>3. Range(TruncatedItems(d)) \subseteq AfterSet(d, c, seen)
    <3> DEFINE R == Range(TruncatedItems(d))
    <3> HIDE DEF R
    <3> QED
      BY DEF AfterSet, R
  <2>4. i \in Range(plan)
    BY <1>20, <2>2, <2>3
  <2> QED
    BY <2>1, <2>4 DEF Blocked, BLOCKING_ACTIONS
<1> QED
  BY <1>12, <1>19, <1>20, <1>21

LEMMA WholePlan ==
    ASSUME NEW d \in ManifestDocuments, Fits(d), NEW c, FewRows(c), NEW seen,
           NEW plan, plan = PlanFor(d, c, seen), ~Blocked(plan)
    PROVE  /\ IsSeq(plan) /\ OnlyServices(d, c) = {} /\ ~d.truncated
           /\ Range(plan) = BeforeSet(d, c) \cup AfterSet(d, c, seen)
                              \cup (IF d.deployed THEN {DeployedItem} ELSE {})
<1> DEFINE built == build_plan(d, c, seen)
<1>1. IsSeq(built)
  BY BuiltElements
<1> HIDE DEF built
<1>2. /\ IsSeq(plan)
      /\ Range(plan) = Range(built) \cup (IF d.deployed THEN {DeployedItem} ELSE {})
  BY <1>1, PlanForIs DEF built
<1>3. ~Blocked(built)
  BY <1>2 DEF Blocked
<1>4. /\ Range(built) = BeforeSet(d, c) \cup AfterSet(d, c, seen)
      /\ OnlyServices(d, c) = {} /\ ~d.truncated
  BY <1>3, WholeBuild DEF built
<1> QED
  BY <1>2, <1>4

\* An approved plan has one item for a row; a service may have several
\* bindings.
OneKeyEach(plan) ==
    \A x, y \in Range(plan) :
      x.kind # "workload_binding" /\ y.kind = x.kind /\ y.key = x.key => y = x

LEMMA IntegrityMeansOneKey ==
    ASSUME NEW plan, verify_plan_integrity(plan)
    PROVE  OneKeyEach(plan)
<1> SUFFICES ASSUME NEW i \in DOMAIN plan, NEW j \in DOMAIN plan,
                    plan[i].kind # "workload_binding", plan[j].kind = plan[i].kind,
                    plan[j].key = plan[i].key
             PROVE  plan[j] = plan[i]
  BY DEF OneKeyEach, Range
<1> DEFINE f == [n \in DOMAIN plan |-> item_key(plan[n])]
<1>1. item_key(plan[i]) = item_key(plan[j])
  BY DEF item_key
<1>2. DOMAIN f = DOMAIN plan /\ f[i] = f[j]
  BY <1>1
<1>3. \A a, b \in DOMAIN f : f[a] = f[b] => a = b
  BY DEF verify_plan_integrity, IsInjective
<1> HIDE DEF f
<1>4. i = j
  BY <1>2, <1>3
<1> QED
  BY <1>4

LEMMA Includes ==
    ASSUME NEW d \in ManifestDocuments, NEW c, NEW seen
    PROVE  /\ ProjectItem(d, c) \in BeforeSet(d, c) /\ RepositoryItem(c) \in BeforeSet(d, c)
           /\ \A i \in DOMAIN d.owners : OwnerItem(d.owners[i], c) \in BeforeSet(d, c)
           /\ \A i \in DOMAIN d.environments :
                /\ EnvironmentItem(d.environments[i], c) \in BeforeSet(d, c)
                /\ InCluster(d.environments[i]) =>
                     /\ ClusterItem(d.environments[i], c) \in BeforeSet(d, c)
                     /\ NamespaceItem(d.environments[i], c) \in BeforeSet(d, c)
           /\ \A i \in DOMAIN d.services :
                /\ ServiceItem(d.services[i], c) \in BeforeSet(d, c)
                /\ ProfileItem(d.services[i]) \in BeforeSet(d, c)
           /\ \A i \in DOMAIN d.slos : SloItem(d.slos[i], d, c) \in AfterSet(d, c, seen)
           /\ \A i \in DOMAIN d.environments, j \in DOMAIN d.services :
                InCluster(d.environments[i]) =>
                  _binding_item(d.environments[i], d.services[j], c, seen)
                    \in AfterSet(d, c, seen)
<1> DEFINE A == {ProjectItem(d, c), RepositoryItem(c)}
           B == {OwnerItem(d.owners[i], c) : i \in DOMAIN d.owners}
           E == UNION {Range(EnvironmentItems(d.environments[i], c)) :
                         i \in DOMAIN d.environments}
           S == UNION {Range(ServiceItems(d.services[i], c)) : i \in DOMAIN d.services}
           T == {DependencyItem(d.dataStores[i], c) : i \in DOMAIN d.dataStores}
           L == {SloItem(d.slos[i], d, c) : i \in DOMAIN d.slos}
           W == UNION {Range(BindingItems(d.environments[i], d, c, seen)) :
                         i \in DOMAIN d.environments}
<1>1. BeforeSet(d, c) = A \cup B \cup E \cup S \cup T
  BY Zenon DEF BeforeSet
<1>2. AfterSet(d, c, seen) = L \cup W \cup Range(TruncatedItems(d))
  BY Zenon DEF AfterSet
<1>3. ASSUME NEW i \in DOMAIN d.environments, NEW x \in Range(EnvironmentItems(d.environments[i], c))
      PROVE  x \in E
  BY <1>3
<1>4. ASSUME NEW i \in DOMAIN d.services, NEW x \in Range(ServiceItems(d.services[i], c))
      PROVE  x \in S
  BY <1>4
<1>5. ASSUME NEW i \in DOMAIN d.environments,
             NEW x \in Range(BindingItems(d.environments[i], d, c, seen))
      PROVE  x \in W
  BY <1>5
<1>6. A \subseteq BeforeSet(d, c) /\ B \subseteq BeforeSet(d, c) /\ E \subseteq BeforeSet(d, c)
      /\ S \subseteq BeforeSet(d, c)
  <2> HIDE DEF A, B, E, S, T
  <2> QED
    BY <1>1
<1>7. L \subseteq AfterSet(d, c, seen) /\ W \subseteq AfterSet(d, c, seen)
  <2> HIDE DEF L, W
  <2> QED
    BY <1>2
<1>8. ProjectItem(d, c) \in A /\ RepositoryItem(c) \in A
  OBVIOUS
<1>9. \A i \in DOMAIN d.owners : OwnerItem(d.owners[i], c) \in B
  OBVIOUS
<1>10. \A i \in DOMAIN d.slos : SloItem(d.slos[i], d, c) \in L
  OBVIOUS
<1> HIDE DEF A, B, E, S, T, L, W
<1>11. ASSUME NEW i \in DOMAIN d.environments
       PROVE  /\ EnvironmentItem(d.environments[i], c) \in BeforeSet(d, c)
              /\ InCluster(d.environments[i]) =>
                   /\ ClusterItem(d.environments[i], c) \in BeforeSet(d, c)
                   /\ NamespaceItem(d.environments[i], c) \in BeforeSet(d, c)
  <2> DEFINE e == d.environments[i]
  <2>1. Range(EnvironmentItems(e, c)) =
          {EnvironmentItem(e, c)}
          \cup IF InCluster(e) THEN {ClusterItem(e, c), NamespaceItem(e, c)} ELSE {}
    BY EnvironmentItemsAre
  <2>2. Range(EnvironmentItems(e, c)) \subseteq BeforeSet(d, c)
    BY <1>3, <1>6
  <2> HIDE DEF e
  <2>3. EnvironmentItem(e, c) \in BeforeSet(d, c)
        /\ (InCluster(e) => ClusterItem(e, c) \in BeforeSet(d, c)
                            /\ NamespaceItem(e, c) \in BeforeSet(d, c))
    BY <2>1, <2>2
  <2> QED
    BY <2>3 DEF e
<1>12. ASSUME NEW i \in DOMAIN d.services
       PROVE  /\ ServiceItem(d.services[i], c) \in BeforeSet(d, c)
              /\ ProfileItem(d.services[i]) \in BeforeSet(d, c)
  <2>1. Range(ServiceItems(d.services[i], c)) =
          {ServiceItem(d.services[i], c), ProfileItem(d.services[i])}
    BY ServiceItemsAre
  <2>2. Range(ServiceItems(d.services[i], c)) \subseteq BeforeSet(d, c)
    BY <1>4, <1>6
  <2> QED
    BY <2>1, <2>2
<1>13. ASSUME NEW i \in DOMAIN d.environments, NEW j \in DOMAIN d.services,
              InCluster(d.environments[i])
       PROVE  _binding_item(d.environments[i], d.services[j], c, seen) \in AfterSet(d, c, seen)
  <2> DEFINE e == d.environments[i]
  <2>1. Range(BindingItems(e, d, c, seen)) =
          IF InCluster(e)
          THEN {_binding_item(e, d.services[k], c, seen) : k \in DOMAIN d.services}
          ELSE {}
    BY BindingItemsAre
  <2>2. Range(BindingItems(e, d, c, seen)) \subseteq AfterSet(d, c, seen)
    BY <1>5, <1>7
  <2>3. InCluster(e)
    BY <1>13
  <2> HIDE DEF e
  <2>4. _binding_item(e, d.services[j], c, seen) \in AfterSet(d, c, seen)
    BY <2>1, <2>2, <2>3
  <2> QED
    BY <2>4 DEF e
<1>14. \A i \in DOMAIN d.owners : OwnerItem(d.owners[i], c) \in BeforeSet(d, c)
  BY <1>6, <1>9
<1>15. \A i \in DOMAIN d.slos : SloItem(d.slos[i], d, c) \in AfterSet(d, c, seen)
  BY <1>7, <1>10
<1>16. ProjectItem(d, c) \in BeforeSet(d, c) /\ RepositoryItem(c) \in BeforeSet(d, c)
  BY <1>6, <1>8
<1> QED
  BY <1>11, <1>12, <1>13, <1>14, <1>15, <1>16

----------------------------------------------------------------------------
(* A row that is compared, and what is made of it.                         *)

RowOutcome(x, existing, proposed, mutable, immutable) ==
    \/ Differs(existing, proposed, immutable) # {} /\ x.action = "conflict"
    \/ /\ Differs(existing, proposed, immutable) = {}
       /\ Differs(existing, proposed, mutable) # {}
       /\ x.action = "update_metadata"
       /\ x.payload = Restricted(proposed, Differs(existing, proposed, mutable))
    \/ /\ Differs(existing, proposed, immutable) = {}
       /\ Differs(existing, proposed, mutable) = {}
       /\ x.action \in {"no_change", "link"}

LEMMA RowOutcomeIs ==
    ASSUME NEW kind, NEW key, NEW existing, NEW proposed, NEW mutable, NEW immutable,
           NEW linked, NEW x,
           x = _row_item(kind, key, existing, proposed, mutable, immutable, linked)
    PROVE  RowOutcome(x, existing, proposed, mutable, immutable)
<1> DEFINE moved == Differs(existing, proposed, immutable)
           changed == Differs(existing, proposed, mutable)
           payload == Restricted(proposed, changed)
<1>1. x = CASE moved # {} -> Item(kind, "conflict", key, NoPayload)
            [] moved = {} /\ changed # {} -> Item(kind, "update_metadata", key, payload)
            [] OTHER -> Item(kind, IF linked THEN "no_change" ELSE "link", key, NoPayload)
  BY DEF _row_item
<1> HIDE DEF moved, changed, payload
<1>2. CASE moved # {}
  BY <1>1, <1>2 DEF RowOutcome, Item, moved
<1>3. CASE moved = {} /\ changed # {}
  <2>1. x.action = "update_metadata" /\ x.payload = payload
    BY <1>1, <1>3 DEF Item
  <2> QED
    BY <1>3, <2>1 DEF RowOutcome, moved, changed, payload
<1>4. CASE moved = {} /\ changed = {}
  <2>1. x.action \in {"no_change", "link"}
    BY <1>1, <1>4 DEF Item
  <2> QED
    BY <1>4, <2>1 DEF RowOutcome, moved, changed
<1> QED
  BY <1>2, <1>3, <1>4

LEMMA PlainOutcomeIs ==
    ASSUME NEW kind, NEW key, NEW existing, NEW proposed, NEW mutable, NEW immutable, NEW x,
           x = PlainRowItem(kind, key, existing, proposed, mutable, immutable)
    PROVE  RowOutcome(x, existing, proposed, mutable, immutable)
<1> DEFINE moved == Differs(existing, proposed, immutable)
           changed == Differs(existing, proposed, mutable)
           payload == Restricted(proposed, changed)
<1>1. x = CASE moved # {} -> Item(kind, "conflict", key, NoPayload)
            [] moved = {} /\ changed # {} -> Item(kind, "update_metadata", key, payload)
            [] OTHER -> Item(kind, "link", key, NoPayload)
  BY DEF _row_item, PlainRowItem
<1> HIDE DEF moved, changed, payload
<1>2. CASE moved # {}
  BY <1>1, <1>2 DEF RowOutcome, Item, moved
<1>3. CASE moved = {} /\ changed # {}
  <2>1. x.action = "update_metadata" /\ x.payload = payload
    BY <1>1, <1>3 DEF Item
  <2> QED
    BY <1>3, <2>1 DEF RowOutcome, moved, changed, payload
<1>4. CASE moved = {} /\ changed = {}
  <2>1. x.action \in {"no_change", "link"}
    BY <1>1, <1>4 DEF Item
  <2> QED
    BY <1>4, <2>1 DEF RowOutcome, moved, changed
<1> QED
  BY <1>2, <1>3, <1>4

MergedRow(x, existing) ==
    IF x.action = "update_metadata" THEN Merge(existing, x.payload) ELSE existing

LEMMA MergeIs ==
    ASSUME NEW row, NEW proposed, NEW F
    PROVE  /\ DOMAIN Merge(row, Restricted(proposed, F)) = DOMAIN row
           /\ Merge(row, Restricted(proposed, F))
                = [f \in DOMAIN row |-> IF f \in F THEN proposed[f] ELSE row[f]]
<1> DEFINE p == Restricted(proposed, F)
<1>1. DOMAIN p = F /\ \A f \in F : p[f] = proposed[f]
  BY DEF Restricted
<1> HIDE DEF p
<1>2. Merge(row, p) = [f \in DOMAIN row |-> IF f \in F THEN proposed[f] ELSE row[f]]
  BY <1>1 DEF Merge
<1>3. DOMAIN Merge(row, p) = DOMAIN row
  BY DEF Merge
<1> QED
  BY <1>2, <1>3 DEF p

\* What a row becomes agrees with what was proposed, and its identity stays.
LEMMA RowSettles ==
    ASSUME NEW existing, NEW proposed, NEW mutable, NEW immutable, NEW x, NEW new,
           mutable \subseteq DOMAIN existing, immutable \subseteq DOMAIN existing,
           mutable \cap immutable = {},
           RowOutcome(x, existing, proposed, mutable, immutable), x.action # "conflict",
           new = MergedRow(x, existing)
    PROVE  /\ Differs(new, proposed, mutable) = {}
           /\ Differs(new, proposed, immutable) = {}
           /\ \A f \in immutable : new[f] = existing[f]
<1> DEFINE changed == Differs(existing, proposed, mutable)
<1>1. \A f \in immutable : existing[f] = proposed[f]
  <2>1. Differs(existing, proposed, immutable) = {}
    BY DEF RowOutcome
  <2> QED
    BY <2>1 DEF Differs
<1>2. CASE x.action = "update_metadata"
  <2>1. new = Merge(existing, Restricted(proposed, changed))
    BY <1>2 DEF RowOutcome, MergedRow
  <2>2. new = [f \in DOMAIN existing |-> IF f \in changed THEN proposed[f] ELSE existing[f]]
    BY <2>1, MergeIs
  <2>3. \A f \in mutable : f \notin changed => existing[f] = proposed[f]
    BY DEF Differs
  <2>4. \A f \in immutable : f \notin changed
    BY DEF Differs
  <2> HIDE DEF changed
  <2>5. \A f \in mutable : new[f] = proposed[f]
    BY <2>2, <2>3
  <2>6. \A f \in immutable : new[f] = existing[f]
    BY <2>2, <2>4
  <2> QED
    BY <1>1, <2>5, <2>6 DEF Differs
<1>3. CASE x.action # "update_metadata"
  <2>1. new = existing /\ Differs(existing, proposed, mutable) = {}
    BY <1>3 DEF RowOutcome, MergedRow
  <2> QED
    BY <1>1, <2>1 DEF Differs
<1> QED
  BY <1>2, <1>3

\* A row that agrees with what is proposed is left alone.
LEMMA SettledRow ==
    ASSUME NEW existing, NEW proposed, NEW mutable, NEW immutable, NEW x,
           RowOutcome(x, existing, proposed, mutable, immutable),
           Differs(existing, proposed, mutable) = {},
           Differs(existing, proposed, immutable) = {}
    PROVE  x.action \in {"no_change", "link"}
BY DEF RowOutcome

LEMMA CreatedRowIs ==
    ASSUME NEW plan, NEW kind, NEW table, NEW k \in DOMAIN table
    PROVE  /\ (\A i \in Items(plan, kind, "create") : i.key # k) =>
                CreatedRows(plan, kind, table)[k] = table[k]
           /\ (\E i \in Items(plan, kind, "create") : i.key = k) =>
                \E i \in Items(plan, kind, "create") :
                  i.key = k /\ CreatedRows(plan, kind, table)[k] = i.payload
<1> DEFINE I == Items(plan, kind, "create")
           W == [i \in I |-> i.payload]
<1>1. DOMAIN W = I /\ \A i \in I : W[i] = i.payload
  OBVIOUS
<1>2. CreatedRows(plan, kind, table) = Upsert(table, W)
  BY DEF CreatedRows
<1> HIDE DEF W, I
<1>3. /\ (\A i \in DOMAIN W : i.key # k) => Upsert(table, W)[k] = table[k]
      /\ (\E i \in DOMAIN W : i.key = k) =>
           \E i \in DOMAIN W : i.key = k /\ Upsert(table, W)[k] = W[i]
  BY UpsertIs
<1>4. /\ (\A i \in I : i.key # k) => CreatedRows(plan, kind, table)[k] = table[k]
      /\ (\E i \in I : i.key = k) =>
           \E i \in I : i.key = k /\ CreatedRows(plan, kind, table)[k] = i.payload
  BY <1>1, <1>2, <1>3
<1> QED
  BY <1>4 DEF I

LEMMA UpdatedRowIs ==
    ASSUME NEW plan, NEW kind, NEW table, NEW k \in DOMAIN table
    PROVE  /\ (\A i \in Items(plan, kind, "update_metadata") : i.key # k) =>
                UpdatedRows(plan, kind, table)[k] = table[k]
           /\ (\E i \in Items(plan, kind, "update_metadata") : i.key = k) =>
                \E i \in Items(plan, kind, "update_metadata") :
                  i.key = k /\ UpdatedRows(plan, kind, table)[k] = Merge(table[k], i.payload)
<1> DEFINE I == Items(plan, kind, "update_metadata")
           W == [i \in I |-> Merge(table[i.key], i.payload)]
<1>1. DOMAIN W = I /\ \A i \in I : W[i] = Merge(table[i.key], i.payload)
  OBVIOUS
<1>2. UpdatedRows(plan, kind, table) = Upsert(table, W)
  BY DEF UpdatedRows
<1> HIDE DEF W, I
<1>3. /\ (\A i \in DOMAIN W : i.key # k) => Upsert(table, W)[k] = table[k]
      /\ (\E i \in DOMAIN W : i.key = k) =>
           \E i \in DOMAIN W : i.key = k /\ Upsert(table, W)[k] = W[i]
  BY UpsertIs
<1>4. /\ (\A i \in I : i.key # k) => UpdatedRows(plan, kind, table)[k] = table[k]
      /\ (\E i \in I : i.key = k) =>
           \E i \in I : i.key = k /\ UpdatedRows(plan, kind, table)[k] = Merge(table[k], i.payload)
  BY <1>1, <1>2, <1>3
<1> QED
  BY <1>4 DEF I

NamedRow(i) == [i.payload EXCEPT !.display_name = i.key]

LEMMA NamedRowIs ==
    ASSUME NEW plan, NEW table, NEW k \in DOMAIN table
    PROVE  /\ (\A i \in Items(plan, "service", "create") : i.key # k) =>
                NamedRows(plan, table)[k] = table[k]
           /\ (\E i \in Items(plan, "service", "create") : i.key = k) =>
                \E i \in Items(plan, "service", "create") :
                  i.key = k /\ NamedRows(plan, table)[k] = NamedRow(i)
<1> DEFINE I == Items(plan, "service", "create")
           W == [i \in I |-> NamedRow(i)]
<1>1. DOMAIN W = I /\ \A i \in I : W[i] = NamedRow(i)
  OBVIOUS
<1>2. NamedRows(plan, table) = Upsert(table, W)
  BY Zenon DEF NamedRows, NamedRow
<1> HIDE DEF W, I
<1>3. /\ (\A i \in DOMAIN W : i.key # k) => Upsert(table, W)[k] = table[k]
      /\ (\E i \in DOMAIN W : i.key = k) =>
           \E i \in DOMAIN W : i.key = k /\ Upsert(table, W)[k] = W[i]
  BY UpsertIs
<1>4. /\ (\A i \in I : i.key # k) => NamedRows(plan, table)[k] = table[k]
      /\ (\E i \in I : i.key = k) =>
           \E i \in I : i.key = k /\ NamedRows(plan, table)[k] = NamedRow(i)
  BY <1>1, <1>2, <1>3
<1> QED
  BY <1>4 DEF I

----------------------------------------------------------------------------
(* The rows a second import finds, and what it makes of them.              *)

LEMMA KeyIsKnown ==
    ASSUME NEW d \in Documents
    PROVE  /\ \A i \in DOMAIN d.environments : d.environments[i].key \in EnvKeys
           /\ \A i \in DOMAIN d.services : d.services[i].key \in SvcKeys
           /\ \A i \in DOMAIN d.slos : d.slos[i].key \in SloKeys
BY DEF EnvKeys, SvcKeys, SloKeys, Keys

LEMMA EnvironmentOutcome ==
    ASSUME NEW e, NEW c, c.environments[e.key] # Absent
    PROVE  /\ RowOutcome(EnvironmentItem(e, c), c.environments[e.key], e.meta,
                         MUTABLE_ENVIRONMENT_FIELDS, IMMUTABLE_ENVIRONMENT_FIELDS)
           /\ EnvironmentItem(e, c).action \in {"conflict", "update_metadata", "link"}
<1>1. EnvironmentItem(e, c) =
        PlainRowItem("environment", e.key, c.environments[e.key], e.meta,
                     MUTABLE_ENVIRONMENT_FIELDS, IMMUTABLE_ENVIRONMENT_FIELDS)
  BY DEF EnvironmentItem
<1>2. EnvironmentItem(e, c).action \in {"conflict", "update_metadata", "link"}
  BY <1>1, PlainRowItemIs
<1>3. RowOutcome(EnvironmentItem(e, c), c.environments[e.key], e.meta,
                 MUTABLE_ENVIRONMENT_FIELDS, IMMUTABLE_ENVIRONMENT_FIELDS)
  BY <1>1, PlainOutcomeIs
<1> QED
  BY <1>2, <1>3

LEMMA ServiceOutcome ==
    ASSUME NEW s, NEW c, c.services[s.key] # Absent
    PROVE  /\ RowOutcome(ServiceItem(s, c), c.services[s.key], s.meta, MUTABLE_SERVICE_FIELDS, {})
           /\ ServiceItem(s, c).action \in {"conflict", "update_metadata", "link"}
<1>1. ServiceItem(s, c) =
        PlainRowItem("service", s.key, c.services[s.key], s.meta, MUTABLE_SERVICE_FIELDS, {})
  BY DEF ServiceItem
<1>2. ServiceItem(s, c).action \in {"conflict", "update_metadata", "link"}
  BY <1>1, PlainRowItemIs
<1>3. RowOutcome(ServiceItem(s, c), c.services[s.key], s.meta, MUTABLE_SERVICE_FIELDS, {})
  BY <1>1, PlainOutcomeIs
<1> QED
  BY <1>2, <1>3

\* The catalog has a row for the project and for all that is declared.
HasRows(d, c) ==
    /\ c.project # Absent
    /\ \A i \in DOMAIN d.environments : c.environments[d.environments[i].key] # Absent
    /\ \A i \in DOMAIN d.services : c.services[d.services[i].key] # Absent

LEMMA EnvironmentsAfter ==
    ASSUME NEW d \in Documents, NEW c, Tables(c), NEW seen, NEW plan,
           \A x \in Range(plan) : Origin(x, d, c, seen),
           OneKeyEach(plan), HasRows(d, c)
    PROVE  /\ \A i \in DOMAIN d.environments :
                EnvironmentItem(d.environments[i], c) \in Range(plan) =>
                  NewEnvironments(plan, c)[d.environments[i].key]
                    = MergedRow(EnvironmentItem(d.environments[i], c),
                                c.environments[d.environments[i].key])
           /\ \A k \in EnvKeys \ Keys(d.environments) :
                NewEnvironments(plan, c)[k] = c.environments[k]
<1> DEFINE created == CreatedRows(plan, "environment", c.environments)
<1>1. ASSUME NEW x \in Range(plan), x.kind = "environment"
      PROVE  \E i \in DOMAIN d.environments : x = EnvironmentItem(d.environments[i], c)
  <2>1. Origin(x, d, c, seen)
    OBVIOUS
  <2> QED
    BY <1>1, <2>1, ByKind
<1>2. ASSUME NEW x \in Items(plan, "environment", "create") PROVE FALSE
  <2>1. x \in Range(plan) /\ x.kind = "environment" /\ x.action = "create"
    BY DEF Items
  <2>2. PICK i \in DOMAIN d.environments : x = EnvironmentItem(d.environments[i], c)
    BY <1>1, <2>1
  <2>3. x.action \in {"conflict", "update_metadata", "link"}
    BY <2>2, EnvironmentOutcome DEF HasRows
  <2> QED
    BY <2>1, <2>3
<1>3. DOMAIN c.environments = EnvKeys /\ DOMAIN created = EnvKeys
  BY UpsertDomain DEF Tables, CreatedRows
<1>4. \A k \in EnvKeys : created[k] = c.environments[k]
  BY <1>2, <1>3, CreatedRowIs
<1>5. NewEnvironments(plan, c) = UpdatedRows(plan, "environment", created)
  BY DEF NewEnvironments
<1> HIDE DEF created
<1>6. ASSUME NEW i \in DOMAIN d.environments,
             EnvironmentItem(d.environments[i], c) \in Range(plan)
      PROVE  NewEnvironments(plan, c)[d.environments[i].key]
               = MergedRow(EnvironmentItem(d.environments[i], c),
                           c.environments[d.environments[i].key])
  <2> DEFINE k == d.environments[i].key
             x == EnvironmentItem(d.environments[i], c)
  <2>1. k \in EnvKeys
    BY KeyIsKnown
  <2>2. x.kind = "environment" /\ x.key = k
    BY EnvironmentKind
  <2>3. ASSUME NEW y \in Items(plan, "environment", "update_metadata"), y.key = k
        PROVE  y = x
    <3>1. y \in Range(plan) /\ y.kind = "environment" /\ x \in Range(plan)
      BY <1>6 DEF Items
    <3> HIDE DEF x, k
    <3> QED
      BY <2>2, <2>3, <3>1 DEF OneKeyEach
  <2>4. x \in Range(plan)
    BY <1>6
  <2>5. UpdatedRows(plan, "environment", created)[k] = MergedRow(x, created[k])
    <3> HIDE DEF x, k
    <3>1. CASE x.action = "update_metadata"
      <4>1. x \in Items(plan, "environment", "update_metadata")
        BY <2>2, <2>4, <3>1 DEF Items
      <4>2. \E y \in Items(plan, "environment", "update_metadata") :
              y.key = k
              /\ UpdatedRows(plan, "environment", created)[k] = Merge(created[k], y.payload)
        BY <1>3, <2>1, <2>2, <4>1, UpdatedRowIs
      <4>3. UpdatedRows(plan, "environment", created)[k] = Merge(created[k], x.payload)
        BY <2>3, <4>2
      <4> QED
        BY <3>1, <4>3 DEF MergedRow
    <3>2. CASE x.action # "update_metadata"
      <4>1. ASSUME NEW y \in Items(plan, "environment", "update_metadata") PROVE y.key # k
        BY <2>3, <3>2 DEF Items
      <4>2. UpdatedRows(plan, "environment", created)[k] = created[k]
        BY <1>3, <2>1, <4>1, UpdatedRowIs
      <4> QED
        BY <3>2, <4>2 DEF MergedRow
    <3> QED
      BY <3>1, <3>2
  <2>6. created[k] = c.environments[k]
    BY <1>4, <2>1
  <2> QED
    BY <1>5, <2>5, <2>6
<1>7. ASSUME NEW k \in EnvKeys \ Keys(d.environments)
      PROVE  NewEnvironments(plan, c)[k] = c.environments[k]
  <2>1. ASSUME NEW y \in Items(plan, "environment", "update_metadata") PROVE y.key # k
    <3>1. y \in Range(plan) /\ y.kind = "environment"
      BY DEF Items
    <3>2. PICK j \in DOMAIN d.environments : y = EnvironmentItem(d.environments[j], c)
      BY <1>1, <3>1
    <3>3. y.key = d.environments[j].key
      BY <3>2, EnvironmentKind
    <3> QED
      BY <3>3 DEF Keys
  <2>2. UpdatedRows(plan, "environment", created)[k] = created[k]
    BY <1>3, <2>1, UpdatedRowIs
  <2> QED
    BY <1>4, <1>5, <2>2
<1> QED
  BY <1>6, <1>7

LEMMA ServicesAfter ==
    ASSUME NEW d \in Documents, NEW c, Tables(c), NEW seen, NEW plan, ~Blocked(plan),
           \A x \in Range(plan) : Origin(x, d, c, seen),
           OneKeyEach(plan), HasRows(d, c)
    PROVE  /\ \A i \in DOMAIN d.services :
                ServiceItem(d.services[i], c) \in Range(plan) =>
                  NewServices(plan, c)[d.services[i].key]
                    = MergedRow(ServiceItem(d.services[i], c), c.services[d.services[i].key])
           /\ \A k \in SvcKeys \ Keys(d.services) : NewServices(plan, c)[k] = c.services[k]
<1> DEFINE created == NamedRows(plan, c.services)
<1>1. ASSUME NEW x \in Range(plan), x.kind = "service"
      PROVE  \E i \in DOMAIN d.services : x = ServiceItem(d.services[i], c)
  <2>1. Origin(x, d, c, seen)
    OBVIOUS
  <2>2. x.action # "unmapped"
    BY DEF Blocked, BLOCKING_ACTIONS
  <2> QED
    BY <1>1, <2>1, <2>2, ByKind
<1>2. ASSUME NEW x \in Items(plan, "service", "create") PROVE FALSE
  <2>1. x \in Range(plan) /\ x.kind = "service" /\ x.action = "create"
    BY DEF Items
  <2>2. PICK i \in DOMAIN d.services : x = ServiceItem(d.services[i], c)
    BY <1>1, <2>1
  <2>3. x.action \in {"conflict", "update_metadata", "link"}
    BY <2>2, ServiceOutcome DEF HasRows
  <2> QED
    BY <2>1, <2>3
<1>3. DOMAIN c.services = SvcKeys /\ DOMAIN created = SvcKeys
  BY UpsertDomain DEF Tables, NamedRows
<1>4. \A k \in SvcKeys : created[k] = c.services[k]
  BY <1>2, <1>3, NamedRowIs
<1>5. NewServices(plan, c) = UpdatedRows(plan, "service", created)
  BY DEF NewServices
<1> HIDE DEF created
<1>6. ASSUME NEW i \in DOMAIN d.services,
             ServiceItem(d.services[i], c) \in Range(plan)
      PROVE  NewServices(plan, c)[d.services[i].key]
               = MergedRow(ServiceItem(d.services[i], c),
                           c.services[d.services[i].key])
  <2> DEFINE k == d.services[i].key
             x == ServiceItem(d.services[i], c)
  <2>1. k \in SvcKeys
    BY KeyIsKnown
  <2>2. x.kind = "service" /\ x.key = k
    BY ServiceKind
  <2>3. ASSUME NEW y \in Items(plan, "service", "update_metadata"), y.key = k
        PROVE  y = x
    <3>1. y \in Range(plan) /\ y.kind = "service" /\ x \in Range(plan)
      BY <1>6 DEF Items
    <3> HIDE DEF x, k
    <3> QED
      BY <2>2, <2>3, <3>1 DEF OneKeyEach
  <2>4. x \in Range(plan)
    BY <1>6
  <2>5. UpdatedRows(plan, "service", created)[k] = MergedRow(x, created[k])
    <3> HIDE DEF x, k
    <3>1. CASE x.action = "update_metadata"
      <4>1. x \in Items(plan, "service", "update_metadata")
        BY <2>2, <2>4, <3>1 DEF Items
      <4>2. \E y \in Items(plan, "service", "update_metadata") :
              y.key = k
              /\ UpdatedRows(plan, "service", created)[k] = Merge(created[k], y.payload)
        BY <1>3, <2>1, <2>2, <4>1, UpdatedRowIs
      <4>3. UpdatedRows(plan, "service", created)[k] = Merge(created[k], x.payload)
        BY <2>3, <4>2
      <4> QED
        BY <3>1, <4>3 DEF MergedRow
    <3>2. CASE x.action # "update_metadata"
      <4>1. ASSUME NEW y \in Items(plan, "service", "update_metadata") PROVE y.key # k
        BY <2>3, <3>2 DEF Items
      <4>2. UpdatedRows(plan, "service", created)[k] = created[k]
        BY <1>3, <2>1, <4>1, UpdatedRowIs
      <4> QED
        BY <3>2, <4>2 DEF MergedRow
    <3> QED
      BY <3>1, <3>2
  <2>6. created[k] = c.services[k]
    BY <1>4, <2>1
  <2> QED
    BY <1>5, <2>5, <2>6
<1>7. ASSUME NEW k \in SvcKeys \ Keys(d.services)
      PROVE  NewServices(plan, c)[k] = c.services[k]
  <2>1. ASSUME NEW y \in Items(plan, "service", "update_metadata") PROVE y.key # k
    <3>1. y \in Range(plan) /\ y.kind = "service"
      BY DEF Items
    <3>2. PICK j \in DOMAIN d.services : y = ServiceItem(d.services[j], c)
      BY <1>1, <3>1
    <3>3. y.key = d.services[j].key
      BY <3>2, ServiceKind
    <3> QED
      BY <3>3 DEF Keys
  <2>2. UpdatedRows(plan, "service", created)[k] = created[k]
    BY <1>3, <2>1, UpdatedRowIs
  <2> QED
    BY <1>4, <1>5, <2>2
<1> QED
  BY <1>6, <1>7

----------------------------------------------------------------------------
(* The rows keep their types.                                              *)

LEMMA EnvironmentRowIs ==
    ASSUME NEW row \in EnvironmentRows
    PROVE  /\ DOMAIN row = {"runtime", "branch", "criticality", "cluster_ref", "namespace"}
           /\ row["runtime"] \in STRING
           /\ row["branch"] \in STRING
           /\ row["criticality"] \in Range(Criticality)
           /\ row["cluster_ref"] \in STRING
           /\ row["namespace"] \in STRING
<1> DEFINE C == Range(Criticality)
<1>1. row \in [runtime : STRING, branch : STRING, criticality : C, cluster_ref : STRING, namespace : STRING]
  BY DEF EnvironmentRows
<1> HIDE DEF C
<1>2. row["criticality"] \in C
  BY <1>1
<1>3. /\ DOMAIN row = {"runtime", "branch", "criticality", "cluster_ref", "namespace"}
      /\ row["runtime"] \in STRING
      /\ row["branch"] \in STRING
      /\ row["cluster_ref"] \in STRING
      /\ row["namespace"] \in STRING
  BY <1>1
<1> QED
  BY <1>2, <1>3 DEF C

LEMMA EnvironmentRowMade ==
    ASSUME NEW r, DOMAIN r = {"runtime", "branch", "criticality", "cluster_ref", "namespace"},
           r = [f \in DOMAIN r |-> r[f]],
           r["runtime"] \in STRING,
           r["branch"] \in STRING,
           r["criticality"] \in Range(Criticality),
           r["cluster_ref"] \in STRING,
           r["namespace"] \in STRING
    PROVE  r \in EnvironmentRows
<1> DEFINE C == Range(Criticality)
<1> HIDE DEF C
<1>1. r["criticality"] \in C
  BY DEF C
<1>2. r \in [runtime : STRING, branch : STRING, criticality : C, cluster_ref : STRING, namespace : STRING]
  BY <1>1
<1> QED
  BY <1>2 DEF EnvironmentRows, C

LEMMA ServiceRowIs ==
    ASSUME NEW row \in ServiceRows
    PROVE  /\ DOMAIN row = {"display_name", "component", "metrics_profile"}
           /\ row["display_name"] \in STRING
           /\ row["component"] \in STRING
           /\ row["metrics_profile"] \in STRING
<1> DEFINE C == Range(Criticality)
<1>1. row \in [display_name : STRING, component : STRING, metrics_profile : STRING]
  BY DEF ServiceRows
<1> HIDE DEF C
<1>2. row["display_name"] \in STRING
  BY <1>1
<1>3. /\ DOMAIN row = {"display_name", "component", "metrics_profile"}
      /\ row["display_name"] \in STRING
      /\ row["component"] \in STRING
      /\ row["metrics_profile"] \in STRING
  BY <1>1
<1> QED
  BY <1>2, <1>3 DEF C

LEMMA ServiceRowMade ==
    ASSUME NEW r, DOMAIN r = {"display_name", "component", "metrics_profile"},
           r = [f \in DOMAIN r |-> r[f]],
           r["display_name"] \in STRING,
           r["component"] \in STRING,
           r["metrics_profile"] \in STRING
    PROVE  r \in ServiceRows
<1> DEFINE C == Range(Criticality)
<1> HIDE DEF C
<1>1. r["display_name"] \in STRING
  BY DEF C
<1>2. r \in [display_name : STRING, component : STRING, metrics_profile : STRING]
  BY <1>1
<1> QED
  BY <1>2 DEF ServiceRows, C

LEMMA ProjectRowIs ==
    ASSUME NEW row \in ProjectRows
    PROVE  /\ DOMAIN row = {"display_name", "tenant_model", "criticality"}
           /\ row["display_name"] \in STRING
           /\ row["tenant_model"] \in STRING
           /\ row["criticality"] \in Range(Criticality)
<1> DEFINE C == Range(Criticality)
<1>1. row \in [display_name : STRING, tenant_model : STRING, criticality : C]
  BY DEF ProjectRows
<1> HIDE DEF C
<1>2. row["criticality"] \in C
  BY <1>1
<1>3. /\ DOMAIN row = {"display_name", "tenant_model", "criticality"}
      /\ row["display_name"] \in STRING
      /\ row["tenant_model"] \in STRING
  BY <1>1
<1> QED
  BY <1>2, <1>3 DEF C

LEMMA ProjectRowMade ==
    ASSUME NEW r, DOMAIN r = {"display_name", "tenant_model", "criticality"},
           r = [f \in DOMAIN r |-> r[f]],
           r["display_name"] \in STRING,
           r["tenant_model"] \in STRING,
           r["criticality"] \in Range(Criticality)
    PROVE  r \in ProjectRows
<1> DEFINE C == Range(Criticality)
<1> HIDE DEF C
<1>1. r["criticality"] \in C
  BY DEF C
<1>2. r \in [display_name : STRING, tenant_model : STRING, criticality : C]
  BY <1>1
<1> QED
  BY <1>2 DEF ProjectRows, C

\* A payload that may be written over a row of a table.
Patches(Table, payload) == \A row \in Table : Merge(row, payload) \in Table

LEMMA EnvironmentPatch ==
    ASSUME NEW p \in EnvironmentRows, NEW F
    PROVE  Patches(EnvironmentRows, Restricted(p, F))
<1> SUFFICES ASSUME NEW row \in EnvironmentRows
             PROVE  Merge(row, Restricted(p, F)) \in EnvironmentRows
  BY DEF Patches
<1> DEFINE r == Merge(row, Restricted(p, F))
<1>1. /\ DOMAIN r = DOMAIN row
      /\ r = [f \in DOMAIN row |-> IF f \in F THEN p[f] ELSE row[f]]
  BY MergeIs
<1> HIDE DEF r
<1>2. r = [f \in DOMAIN r |-> r[f]]
  BY <1>1
<1>3. /\ DOMAIN row = {"runtime", "branch", "criticality", "cluster_ref", "namespace"}
      /\ row["runtime"] \in STRING /\ row["branch"] \in STRING
      /\ row["criticality"] \in Range(Criticality)
      /\ row["cluster_ref"] \in STRING /\ row["namespace"] \in STRING
  BY EnvironmentRowIs
<1>4. /\ p["runtime"] \in STRING /\ p["branch"] \in STRING
      /\ p["criticality"] \in Range(Criticality)
      /\ p["cluster_ref"] \in STRING /\ p["namespace"] \in STRING
  BY EnvironmentRowIs
<1>5. \A f \in DOMAIN row : r[f] = p[f] \/ r[f] = row[f]
  BY <1>1
<1>6. /\ r["runtime"] \in STRING /\ r["branch"] \in STRING
      /\ r["criticality"] \in Range(Criticality)
      /\ r["cluster_ref"] \in STRING /\ r["namespace"] \in STRING
  BY <1>3, <1>4, <1>5
<1>7. r \in EnvironmentRows
  BY <1>1, <1>2, <1>3, <1>6, EnvironmentRowMade
<1> QED
  BY <1>7 DEF r

LEMMA ServicePatch ==
    ASSUME NEW p \in ServiceRows, NEW F
    PROVE  Patches(ServiceRows, Restricted(p, F))
<1> SUFFICES ASSUME NEW row \in ServiceRows
             PROVE  Merge(row, Restricted(p, F)) \in ServiceRows
  BY DEF Patches
<1> DEFINE r == Merge(row, Restricted(p, F))
<1>1. /\ DOMAIN r = DOMAIN row
      /\ r = [f \in DOMAIN row |-> IF f \in F THEN p[f] ELSE row[f]]
  BY MergeIs
<1> HIDE DEF r
<1>2. r = [f \in DOMAIN r |-> r[f]]
  BY <1>1
<1>3. /\ DOMAIN row = {"display_name", "component", "metrics_profile"}
      /\ row["display_name"] \in STRING /\ row["component"] \in STRING
      /\ row["metrics_profile"] \in STRING
  BY ServiceRowIs
<1>4. /\ p["display_name"] \in STRING /\ p["component"] \in STRING
      /\ p["metrics_profile"] \in STRING
  BY ServiceRowIs
<1>5. \A f \in DOMAIN row : r[f] = p[f] \/ r[f] = row[f]
  BY <1>1
<1>6. /\ r["display_name"] \in STRING /\ r["component"] \in STRING
      /\ r["metrics_profile"] \in STRING
  BY <1>3, <1>4, <1>5
<1>7. r \in ServiceRows
  BY <1>1, <1>2, <1>3, <1>6, ServiceRowMade
<1> QED
  BY <1>7 DEF r

LEMMA ProjectPatch ==
    ASSUME NEW p \in ProjectRows, NEW F
    PROVE  Patches(ProjectRows, Restricted(p, F))
<1> SUFFICES ASSUME NEW row \in ProjectRows
             PROVE  Merge(row, Restricted(p, F)) \in ProjectRows
  BY DEF Patches
<1> DEFINE r == Merge(row, Restricted(p, F))
<1>1. /\ DOMAIN r = DOMAIN row
      /\ r = [f \in DOMAIN row |-> IF f \in F THEN p[f] ELSE row[f]]
  BY MergeIs
<1> HIDE DEF r
<1>2. r = [f \in DOMAIN r |-> r[f]]
  BY <1>1
<1>3. /\ DOMAIN row = {"display_name", "tenant_model", "criticality"}
      /\ row["display_name"] \in STRING /\ row["tenant_model"] \in STRING
      /\ row["criticality"] \in Range(Criticality)
  BY ProjectRowIs
<1>4. /\ p["display_name"] \in STRING /\ p["tenant_model"] \in STRING
      /\ p["criticality"] \in Range(Criticality)
  BY ProjectRowIs
<1>5. \A f \in DOMAIN row : r[f] = p[f] \/ r[f] = row[f]
  BY <1>1
<1>6. /\ r["display_name"] \in STRING /\ r["tenant_model"] \in STRING
      /\ r["criticality"] \in Range(Criticality)
  BY <1>3, <1>4, <1>5
<1>7. r \in ProjectRows
  BY <1>1, <1>2, <1>3, <1>6, ProjectRowMade
<1> QED
  BY <1>7 DEF r

LEMMA ListElement ==
    ASSUME NEW S, NEW q \in Seq(S), NEW i \in DOMAIN q
    PROVE  q[i] \in S
OBVIOUS

LEMMA DocumentElements ==
    ASSUME NEW d \in ManifestDocuments
    PROVE  /\ \A i \in DOMAIN d.environments : d.environments[i].meta \in EnvironmentRows
           /\ \A i \in DOMAIN d.services :
                d.services[i].meta \in ServiceRows /\ d.services[i].key \in STRING
           /\ \A i \in DOMAIN d.slos :
                /\ d.slos[i].meta.objective_ratio \in Nat /\ d.slos[i].meta.window_seconds \in Nat
                /\ d.slos[i].service_ref \in STRING
<1> DEFINE E == [key : STRING, meta : EnvironmentRows]
           S == [key : STRING, selector : BOOLEAN, meta : ServiceRows]
           L == [key : STRING, service_ref : STRING,
                 meta : [objective_ratio : Nat, window_seconds : Nat]]
<1>1. d.environments \in Seq(E) /\ d.services \in Seq(S) /\ d.slos \in Seq(L)
  BY DocumentLists
<1>2. \A e \in E : e.meta \in EnvironmentRows
  OBVIOUS
<1>3. \A s \in S : s.meta \in ServiceRows /\ s.key \in STRING
  OBVIOUS
<1>4. \A s \in L : /\ s.meta.objective_ratio \in Nat /\ s.meta.window_seconds \in Nat
                  /\ s.service_ref \in STRING
  OBVIOUS
<1> HIDE DEF E, S, L
<1>5. ASSUME NEW i \in DOMAIN d.environments PROVE d.environments[i] \in E
  BY <1>1, ListElement
<1>6. ASSUME NEW i \in DOMAIN d.services PROVE d.services[i] \in S
  BY <1>1, ListElement
<1>7. ASSUME NEW i \in DOMAIN d.slos PROVE d.slos[i] \in L
  BY <1>1, ListElement
<1> QED
  BY <1>2, <1>3, <1>4, <1>5, <1>6, <1>7

\* The project inherits one of the criticalities.
LEMMA ProjectIsRow ==
    ASSUME NEW d \in ManifestDocuments
    PROVE  _project_metadata(d) \in ProjectRows
<1> DEFINE C == Range(Criticality)
           S == {1} \cup {Severity(d.environments[i].meta.criticality) : i \in DOMAIN d.environments}
<1>1. /\ DOMAIN Criticality = 1..4
      /\ \A x \in C : \E i \in 1..4 : Criticality[i] = x
      /\ \A i \in 1..4 : Criticality[i] \in C
  <2>1. DOMAIN Criticality = 1..4
    BY DEF Criticality
  <2> QED
    BY <2>1 DEF Range
<1>2. \A x \in C : Severity(x) \in 1..4
  BY <1>1 DEF Severity
<1>3. ASSUME NEW i \in DOMAIN d.environments
      PROVE  d.environments[i].meta.criticality \in C
  <2>3. d.environments[i].meta \in EnvironmentRows
    BY DocumentElements
  <2> DEFINE row == d.environments[i].meta
  <2> HIDE DEF row
  <2>4. row \in EnvironmentRows
    BY <2>3 DEF row
  <2>5. row.criticality = row["criticality"] /\ row["criticality"] \in Range(Criticality)
    BY <2>4, EnvironmentRowIs
  <2> QED
    BY <2>5 DEF row
<1>4. 1 \in S /\ S \subseteq 1..4
  <2> HIDE DEF C
  <2> QED
    BY <1>2, <1>3
<1> HIDE DEF S
<1>5. Max(S) \in S
  <2> SUFFICES \E x \in S : \A y \in S : x >= y
    BY DEF Max
  <2>1. CASE 4 \in S
    BY <1>4, <2>1
  <2>2. CASE 4 \notin S /\ 3 \in S
    BY <1>4, <2>2
  <2>3. CASE 4 \notin S /\ 3 \notin S /\ 2 \in S
    BY <1>4, <2>3
  <2>4. CASE 4 \notin S /\ 3 \notin S /\ 2 \notin S
    BY <1>4, <2>4
  <2> QED
    BY <2>1, <2>2, <2>3, <2>4
<1>6. Criticality[Max(S)] \in C
  BY <1>1, <1>4, <1>5
<1> DEFINE p == _project_metadata(d)
<1>7. p = [display_name |-> d.displayName, tenant_model |-> d.tenantModel,
           criticality |-> Criticality[Max(S)]]
  BY DEF _project_metadata, S
<1>8. d.displayName \in STRING /\ d.tenantModel \in STRING
  BY DEF ManifestDocuments
<1> HIDE DEF C, p
<1>9. p \in [display_name : STRING, tenant_model : STRING, criticality : C]
  BY <1>6, <1>7, <1>8
<1> QED
  BY <1>9 DEF ProjectRows, C, p

----------------------------------------------------------------------------
(* A second import of what the catalog already has.                        *)

TypedRows(c) ==
    /\ c.link \in {"ours", Absent}
    /\ c.project \in ProjectRows \cup {Absent}
    /\ \A k \in EnvKeys : c.environments[k] \in EnvironmentRows \cup {Absent}
    /\ \A k \in SvcKeys : c.services[k] \in ServiceRows \cup {Absent}
    /\ \A k \in SloKeys : c.slos[k] \in SloRows \cup {Absent}

\* The plan of a document the catalog has rows for is applied.
Again(d, c, seen, plan, r) ==
    /\ d \in Documents /\ Fits(d)
    /\ Tables(c) /\ FewRows(c) /\ TypedRows(c) /\ HasRows(d, c)
    /\ plan = PlanFor(d, c, seen) /\ ~Blocked(plan) /\ OneKeyEach(plan)
    /\ r = _materialise(plan, d, c)

LEMMA AgainPlan ==
    ASSUME NEW d, NEW c, NEW seen, NEW plan, NEW r, Again(d, c, seen, plan, r)
    PROVE  /\ d \in Documents /\ d \in ManifestDocuments
           /\ \A x \in Range(plan) : Origin(x, d, c, seen)
           /\ \A x \in BeforeSet(d, c) : x \in Range(plan) /\ x.action \notin BLOCKING_ACTIONS
           /\ \A x \in AfterSet(d, c, seen) : x \in Range(plan) /\ x.action \notin BLOCKING_ACTIONS
           /\ OnlyServices(d, c) = {} /\ ~d.truncated /\ IsSeq(plan)
<1>1. d \in Documents /\ d \in ManifestDocuments
  BY PlanAssumption DEF Again
<1>2. Fits(d) /\ FewRows(c) /\ plan = PlanFor(d, c, seen) /\ ~Blocked(plan)
  BY DEF Again
<1>3. /\ IsSeq(plan) /\ BeforeSet(d, c) \cup AfterSet(d, c, seen) \subseteq Range(plan)
      /\ OnlyServices(d, c) = {} /\ ~d.truncated
  BY <1>1, <1>2, WholePlan
<1>4. \A x \in Range(plan) : Origin(x, d, c, seen)
  BY <1>1, <1>2, PlanElements
<1>5. \A x \in Range(plan) : x.action \notin BLOCKING_ACTIONS
  BY <1>2 DEF Blocked
<1> QED
  BY <1>1, <1>3, <1>4, <1>5

LEMMA AgainCatalog ==
    ASSUME NEW d, NEW c, NEW seen, NEW plan, NEW r, Again(d, c, seen, plan, r)
    PROVE  /\ Tables(r) /\ r.project = NewProject(plan, c) /\ r.link = NewLink(plan, c)
           /\ r.owners = NewOwners(plan, d, c)
           /\ r.environments = NewEnvironments(plan, c)
           /\ r.services = NewServices(plan, c) /\ r.slos = NewSlos(plan, c)
           /\ r.attached = NewAttached(plan, c) /\ r.bindings = NewBindings(plan, c)
           /\ r.clusters = c.clusters /\ r.disabled = c.disabled /\ FewRows(r)
<1>1. Tables(c) /\ FewRows(c) /\ r = _materialise(plan, d, c)
  BY DEF Again
<1>2. IsSeq(plan)
  BY AgainPlan
<1>3. FewRows(r)
  BY <1>1, <1>2, FewRowsStay
<1> QED
  BY <1>1, <1>3, Materialised

LEMMA AgainEnvironment ==
    ASSUME NEW d, NEW c, NEW seen, NEW plan, NEW r, Again(d, c, seen, plan, r),
           NEW i \in DOMAIN d.environments
    PROVE  /\ EnvironmentItem(d.environments[i], r).action \in {"no_change", "link"}
           /\ r.environments[d.environments[i].key] # Absent
           /\ r.environments[d.environments[i].key]["cluster_ref"]
                = c.environments[d.environments[i].key]["cluster_ref"]
           /\ r.environments[d.environments[i].key]["namespace"]
                = c.environments[d.environments[i].key]["namespace"]
<1> DEFINE e == d.environments[i]
           row == c.environments[e.key]
           new == r.environments[e.key]
           x == EnvironmentItem(e, c)
           mutable == MUTABLE_ENVIRONMENT_FIELDS
           immutable == IMMUTABLE_ENVIRONMENT_FIELDS
<1>1. /\ d \in Documents /\ d \in ManifestDocuments
      /\ \A y \in Range(plan) : Origin(y, d, c, seen)
      /\ \A y \in BeforeSet(d, c) : y \in Range(plan) /\ y.action \notin BLOCKING_ACTIONS
  BY AgainPlan
<1>2. e.key \in EnvKeys /\ e.meta \in EnvironmentRows
  BY <1>1, KeyIsKnown, DocumentElements
<1>3. row # Absent /\ row \in EnvironmentRows
  BY <1>2 DEF Again, HasRows, TypedRows
<1>4. x \in Range(plan) /\ x.action # "conflict"
  <2>1. x \in BeforeSet(d, c)
    BY <1>1, Includes
  <2> QED
    BY <1>1, <2>1 DEF BLOCKING_ACTIONS
<1>5. RowOutcome(x, row, e.meta, mutable, immutable)
  BY <1>3, EnvironmentOutcome
<1>6. new = MergedRow(x, row)
  <2>1. Tables(c) /\ OneKeyEach(plan) /\ HasRows(d, c)
    BY DEF Again
  <2>2. NewEnvironments(plan, c)[e.key] = MergedRow(x, row)
    BY <1>1, <1>4, <2>1, EnvironmentsAfter
  <2> QED
    BY <2>2, AgainCatalog
<1> HIDE DEF row, new, x
<1>7. /\ DOMAIN row = {"runtime", "branch", "criticality", "cluster_ref", "namespace"}
      /\ mutable \subseteq DOMAIN row /\ immutable \subseteq DOMAIN row
      /\ mutable \cap immutable = {} /\ "cluster_ref" \in immutable /\ "namespace" \in immutable
  <2>1. DOMAIN row = {"runtime", "branch", "criticality", "cluster_ref", "namespace"}
    BY <1>3, EnvironmentRowIs
  <2> QED
    BY <2>1 DEF MUTABLE_ENVIRONMENT_FIELDS, IMMUTABLE_ENVIRONMENT_FIELDS
<1> HIDE DEF mutable, immutable
<1>8. /\ Differs(new, e.meta, mutable) = {} /\ Differs(new, e.meta, immutable) = {}
      /\ \A f \in immutable : new[f] = row[f]
  BY <1>4, <1>5, <1>6, <1>7, RowSettles
<1>9. new \in EnvironmentRows
  <2>1. CASE x.action = "update_metadata"
    <3>1. x.payload = Restricted(e.meta, Differs(row, e.meta, mutable))
      BY <1>5, <2>1 DEF RowOutcome
    <3>2. Patches(EnvironmentRows, x.payload)
      BY <1>2, <3>1, EnvironmentPatch
    <3> QED
      BY <1>3, <1>6, <2>1, <3>2 DEF MergedRow, Patches
  <2>2. CASE x.action # "update_metadata"
    BY <1>3, <1>6, <2>2 DEF MergedRow
  <2> QED
    BY <2>1, <2>2
<1>10. new # Absent
  BY <1>9, PlanAssumption
<1>11. RowOutcome(EnvironmentItem(e, r), new, e.meta, mutable, immutable)
  BY <1>10, EnvironmentOutcome DEF new, mutable, immutable
<1>12. EnvironmentItem(e, r).action \in {"no_change", "link"}
  BY <1>8, <1>11, SettledRow
<1>13. new["cluster_ref"] = row["cluster_ref"] /\ new["namespace"] = row["namespace"]
  BY <1>7, <1>8
<1> QED
  BY <1>10, <1>12, <1>13 DEF new, row

LEMMA AgainService ==
    ASSUME NEW d, NEW c, NEW seen, NEW plan, NEW r, Again(d, c, seen, plan, r),
           NEW i \in DOMAIN d.services
    PROVE  /\ ServiceItem(d.services[i], r).action \in {"no_change", "link"}
           /\ r.services[d.services[i].key] # Absent
<1> DEFINE s == d.services[i]
           row == c.services[s.key]
           new == r.services[s.key]
           x == ServiceItem(s, c)
           mutable == MUTABLE_SERVICE_FIELDS
<1>1. /\ d \in Documents /\ d \in ManifestDocuments
      /\ \A y \in Range(plan) : Origin(y, d, c, seen)
      /\ \A y \in BeforeSet(d, c) : y \in Range(plan) /\ y.action \notin BLOCKING_ACTIONS
  BY AgainPlan
<1>2. s.key \in SvcKeys /\ s.meta \in ServiceRows
  BY <1>1, KeyIsKnown, DocumentElements
<1>3. row # Absent /\ row \in ServiceRows
  BY <1>2 DEF Again, HasRows, TypedRows
<1>4. x \in Range(plan) /\ x.action # "conflict"
  <2>1. x \in BeforeSet(d, c)
    BY <1>1, Includes
  <2> QED
    BY <1>1, <2>1 DEF BLOCKING_ACTIONS
<1>5. RowOutcome(x, row, s.meta, mutable, {})
  BY <1>3, ServiceOutcome
<1>6. new = MergedRow(x, row)
  <2>1. Tables(c) /\ OneKeyEach(plan) /\ HasRows(d, c) /\ ~Blocked(plan)
    BY DEF Again
  <2>2. NewServices(plan, c)[s.key] = MergedRow(x, row)
    BY <1>1, <1>4, <2>1, ServicesAfter
  <2> QED
    BY <2>2, AgainCatalog
<1> HIDE DEF row, new, x
<1>7. mutable \subseteq DOMAIN row
  <2>1. DOMAIN row = {"display_name", "component", "metrics_profile"}
    BY <1>3, ServiceRowIs
  <2> QED
    BY <2>1 DEF MUTABLE_SERVICE_FIELDS
<1> HIDE DEF mutable
<1>8. Differs(new, s.meta, mutable) = {} /\ Differs(new, s.meta, {}) = {}
  BY <1>4, <1>5, <1>6, <1>7, RowSettles
<1>9. new \in ServiceRows
  <2>1. CASE x.action = "update_metadata"
    <3>1. x.payload = Restricted(s.meta, Differs(row, s.meta, mutable))
      BY <1>5, <2>1 DEF RowOutcome
    <3>2. Patches(ServiceRows, x.payload)
      BY <1>2, <3>1, ServicePatch
    <3> QED
      BY <1>3, <1>6, <2>1, <3>2 DEF MergedRow, Patches
  <2>2. CASE x.action # "update_metadata"
    BY <1>3, <1>6, <2>2 DEF MergedRow
  <2> QED
    BY <2>1, <2>2
<1>10. new # Absent
  BY <1>9, PlanAssumption
<1>11. RowOutcome(ServiceItem(s, r), new, s.meta, mutable, {})
  BY <1>10, ServiceOutcome DEF new, mutable
<1>12. ServiceItem(s, r).action \in {"no_change", "link"}
  BY <1>8, <1>11, SettledRow
<1> QED
  BY <1>10, <1>12 DEF new

\* No environment moves: a namespace is as free as it was.
LEMMA AgainOccupied ==
    ASSUME NEW d, NEW c, NEW seen, NEW plan, NEW r, Again(d, c, seen, plan, r), NEW e,
           Occupied(e, r)
    PROVE  Occupied(e, c)
<1>1. PICK k \in EnvKeys \ {e.key} :
        /\ r.environments[k] # Absent
        /\ r.environments[k].cluster_ref = e.meta.cluster_ref
        /\ r.environments[k].namespace = e.meta.namespace
  BY DEF Occupied
<1>2. CASE k \in Keys(d.environments)
  <2>1. PICK i \in DOMAIN d.environments : k = d.environments[i].key
    BY <1>2 DEF Keys
  <2>2. /\ r.environments[k]["cluster_ref"] = c.environments[k]["cluster_ref"]
        /\ r.environments[k]["namespace"] = c.environments[k]["namespace"]
    BY <2>1, AgainEnvironment
  <2>3. c.environments[k] # Absent
    BY <2>1 DEF Again, HasRows
  <2> QED
    BY <1>1, <2>2, <2>3 DEF Occupied
<1>3. CASE k \notin Keys(d.environments)
  <2>1. /\ d \in Documents /\ \A y \in Range(plan) : Origin(y, d, c, seen)
    BY AgainPlan
  <2>2. Tables(c) /\ OneKeyEach(plan) /\ HasRows(d, c)
    BY DEF Again
  <2>3. NewEnvironments(plan, c)[k] = c.environments[k]
    BY <1>1, <1>3, <2>1, <2>2, EnvironmentsAfter
  <2>4. r.environments[k] = c.environments[k]
    BY <2>3, AgainCatalog
  <2> QED
    BY <1>1, <2>4 DEF Occupied
<1> QED
  BY <1>2, <1>3

LEMMA ProjectOutcome ==
    ASSUME NEW d, NEW c, c.project # Absent, c.link \in {"ours", Absent}
    PROVE  /\ RowOutcome(ProjectItem(d, c), c.project, _project_metadata(d),
                         MUTABLE_PROJECT_FIELDS, IMMUTABLE_PROJECT_FIELDS)
           /\ ProjectItem(d, c).action \in {"conflict", "update_metadata", "no_change", "link"}
<1>1. ProjectItem(d, c) =
        _row_item("project", "project", c.project, _project_metadata(d),
                  MUTABLE_PROJECT_FIELDS, IMMUTABLE_PROJECT_FIELDS, c.link = "ours")
  BY DEF ProjectItem
<1>2. ProjectItem(d, c).action \in {"conflict", "update_metadata", "no_change", "link"}
  BY <1>1, RowItemIs
<1>3. RowOutcome(ProjectItem(d, c), c.project, _project_metadata(d),
                 MUTABLE_PROJECT_FIELDS, IMMUTABLE_PROJECT_FIELDS)
  BY <1>1, RowOutcomeIs
<1> QED
  BY <1>2, <1>3

\* The repository is linked, whether it was or not.
LEMMA AgainLinked ==
    ASSUME NEW d, NEW c, NEW seen, NEW plan, NEW r, Again(d, c, seen, plan, r)
    PROVE  r.link = "ours"
<1>1. c.link \in {"ours", Absent} /\ r.link = NewLink(plan, c)
  BY AgainCatalog DEF Again, TypedRows
<1>2. CASE c.link = "ours"
  BY <1>1, <1>2, PlanAssumption DEF NewLink
<1>3. CASE c.link # "ours"
  <2>1. RepositoryItem(c) \in Range(plan)
    <3>1. d \in ManifestDocuments
      BY AgainPlan
    <3>2. RepositoryItem(c) \in BeforeSet(d, c)
      BY <3>1, Includes
    <3> QED
      BY <3>2, AgainPlan
  <2>2. RepositoryItem(c).kind = "repository" /\ RepositoryItem(c).action = "link"
    BY <1>3 DEF RepositoryItem, Item
  <2>3. Items(plan, "repository", "link") # {}
    BY <2>1, <2>2 DEF Items
  <2> QED
    BY <1>1, <1>3, <2>3 DEF NewLink
<1> QED
  BY <1>2, <1>3

LEMMA AgainProject ==
    ASSUME NEW d, NEW c, NEW seen, NEW plan, NEW r, Again(d, c, seen, plan, r)
    PROVE  /\ ProjectItem(d, r).action \in {"no_change", "link"}
           /\ r.project # Absent
<1> DEFINE p == _project_metadata(d)
           row == c.project
           new == r.project
           x == ProjectItem(d, c)
           mutable == MUTABLE_PROJECT_FIELDS
           immutable == IMMUTABLE_PROJECT_FIELDS
<1>1. /\ d \in Documents /\ d \in ManifestDocuments /\ ~d.truncated
      /\ \A y \in Range(plan) : Origin(y, d, c, seen)
      /\ \A y \in BeforeSet(d, c) : y \in Range(plan) /\ y.action \notin BLOCKING_ACTIONS
  BY AgainPlan
<1>2. p \in ProjectRows
  BY <1>1, ProjectIsRow
<1>3. row # Absent /\ row \in ProjectRows /\ c.link \in {"ours", Absent}
  BY DEF Again, HasRows, TypedRows
<1>4. x \in Range(plan) /\ x.action # "conflict" /\ x.kind = "project"
  <2>1. x \in BeforeSet(d, c)
    BY <1>1, Includes
  <2>2. x.kind = "project"
    BY ProjectKind
  <2> QED
    BY <1>1, <2>1, <2>2 DEF BLOCKING_ACTIONS
<1>5. /\ RowOutcome(x, row, p, mutable, immutable)
      /\ x.action \in {"conflict", "update_metadata", "no_change", "link"}
  BY <1>3, ProjectOutcome
<1>6. ASSUME NEW y \in Range(plan), y.kind = "project" PROVE y = x
  <2>1. Origin(y, d, c, seen)
    BY <1>1
  <2> QED
    BY <1>1, <1>6, <2>1, ByKind
<1> HIDE DEF x
<1>7. Items(plan, "project", "create") = {}
  <2>1. ASSUME NEW y \in Items(plan, "project", "create") PROVE FALSE
    BY <1>5, <1>6 DEF Items
  <2> QED
    BY <2>1
<1>8. Items(plan, "project", "update_metadata") = IF x.action = "update_metadata" THEN {x} ELSE {}
  <2>1. ASSUME NEW y \in Items(plan, "project", "update_metadata")
        PROVE  y = x /\ x.action = "update_metadata"
    BY <1>6 DEF Items
  <2>2. x.action = "update_metadata" => x \in Items(plan, "project", "update_metadata")
    BY <1>4 DEF Items
  <2> QED
    BY <2>1, <2>2
<1>9. new = MergedRow(x, row)
  <2>1. new = NewProject(plan, c)
    BY AgainCatalog
  <2>2. CASE x.action = "update_metadata"
    <3>1. Items(plan, "project", "update_metadata") = {x}
      BY <1>8, <2>2
    <3>2. (CHOOSE i \in {x} : TRUE) = x
      OBVIOUS
    <3>3. NewProject(plan, c) = Merge(row, (CHOOSE i \in {x} : TRUE).payload)
      BY <1>7, <3>1 DEF NewProject
    <3> QED
      BY <2>1, <2>2, <3>2, <3>3 DEF MergedRow
  <2>3. CASE x.action # "update_metadata"
    BY <1>7, <1>8, <2>1, <2>3 DEF NewProject, MergedRow
  <2> QED
    BY <2>2, <2>3
<1> HIDE DEF row, new, p
<1>10. /\ mutable \subseteq DOMAIN row /\ immutable \subseteq DOMAIN row
       /\ mutable \cap immutable = {}
  <2>1. DOMAIN row = {"display_name", "tenant_model", "criticality"}
    BY <1>3, ProjectRowIs
  <2> QED
    BY <2>1 DEF MUTABLE_PROJECT_FIELDS, IMMUTABLE_PROJECT_FIELDS
<1> HIDE DEF mutable, immutable
<1>11. Differs(new, p, mutable) = {} /\ Differs(new, p, immutable) = {}
  BY <1>4, <1>5, <1>9, <1>10, RowSettles
<1>12. new \in ProjectRows
  <2>1. CASE x.action = "update_metadata"
    <3>1. x.payload = Restricted(p, Differs(row, p, mutable))
      BY <1>5, <2>1 DEF RowOutcome
    <3>2. Patches(ProjectRows, x.payload)
      BY <1>2, <3>1, ProjectPatch
    <3> QED
      BY <1>3, <1>9, <2>1, <3>2 DEF MergedRow, Patches
  <2>2. CASE x.action # "update_metadata"
    BY <1>3, <1>9, <2>2 DEF MergedRow
  <2> QED
    BY <2>1, <2>2
<1>13. new # Absent
  BY <1>12, PlanAssumption
<1>14. RowOutcome(ProjectItem(d, r), new, p, mutable, immutable)
  <2>1. r.link \in {"ours", Absent}
    BY AgainLinked
  <2> QED
    BY <1>13, <2>1, ProjectOutcome DEF new, p, mutable, immutable
<1>15. ProjectItem(d, r).action \in {"no_change", "link"}
  BY <1>11, <1>14, SettledRow
<1> QED
  BY <1>13, <1>15 DEF new

LEMMA AgainOwner ==
    ASSUME NEW d, NEW c, NEW seen, NEW plan, NEW r, Again(d, c, seen, plan, r),
           NEW i \in DOMAIN d.owners
    PROVE  OwnerItem(d.owners[i], r).action = "no_change"
<1> DEFINE o == d.owners[i]
           x == OwnerItem(o, c)
<1>1. x \in Range(plan)
  <2>1. d \in ManifestDocuments
    BY AgainPlan
  <2>2. x \in BeforeSet(d, c)
    BY <2>1, Includes
  <2> QED
    BY <2>2, AgainPlan
<1>2. c.project # Absent
  BY DEF Again, HasRows
<1>3. o \in NewOwners(plan, d, c)
  <2>1. CASE o \in c.owners
    BY <2>1 DEF NewOwners
  <2>2. CASE o \notin c.owners
    <3>1. x.kind = "owner_team" /\ x.action = "create" /\ x.key = o
      BY <1>2, <2>2 DEF OwnerItem, Item
    <3> HIDE DEF x
    <3>2. x \in Items(plan, "owner_team", "create")
      BY <1>1, <3>1 DEF Items
    <3> QED
      BY <3>1, <3>2 DEF NewOwners
  <2> QED
    BY <2>1, <2>2
<1>4. o \in r.owners
  BY <1>3, AgainCatalog
<1> QED
  BY <1>4 DEF OwnerItem, Item

LEMMA AgainCluster ==
    ASSUME NEW d, NEW c, NEW seen, NEW plan, NEW r, Again(d, c, seen, plan, r),
           NEW i \in DOMAIN d.environments, InCluster(d.environments[i])
    PROVE  /\ ClusterItem(d.environments[i], r).action = "no_change"
           /\ NamespaceItem(d.environments[i], r).action = "no_change"
<1> DEFINE e == d.environments[i]
<1>1. /\ ClusterItem(e, c).action \notin BLOCKING_ACTIONS
      /\ NamespaceItem(e, c).action \notin BLOCKING_ACTIONS
  <2>1. d \in ManifestDocuments
    BY AgainPlan
  <2>2. ClusterItem(e, c) \in BeforeSet(d, c) /\ NamespaceItem(e, c) \in BeforeSet(d, c)
    BY <2>1, Includes
  <2> QED
    BY <2>2, AgainPlan
<1> HIDE DEF e
<1>2. e.meta.cluster_ref \in c.clusters
  BY <1>1 DEF ClusterItem, Item, BLOCKING_ACTIONS
<1>3. r.clusters = c.clusters
  BY AgainCatalog
<1>4. ClusterItem(e, r).action = "no_change"
  BY <1>2, <1>3 DEF ClusterItem, Item
<1>5. ~Occupied(e, c)
  BY <1>1 DEF NamespaceItem, Item, BLOCKING_ACTIONS
<1>6. ~Occupied(e, r)
  BY <1>5, AgainOccupied
<1>7. NamespaceItem(e, r).action = "no_change"
  BY <1>6 DEF NamespaceItem, Item
<1> QED
  BY <1>4, <1>7 DEF e

LEMMA AgainProfile ==
    ASSUME NEW d, NEW c, NEW seen, NEW plan, NEW r, Again(d, c, seen, plan, r),
           NEW i \in DOMAIN d.services
    PROVE  ProfileItem(d.services[i]).action = "no_change"
<1> DEFINE x == ProfileItem(d.services[i])
<1>1. d \in ManifestDocuments
  BY AgainPlan
<1>2. x \in BeforeSet(d, c)
  BY <1>1, Includes
<1>3. x.action \notin BLOCKING_ACTIONS
  BY <1>2, AgainPlan
<1>4. x.action \in {"no_change", "unmapped"}
  BY DEF ProfileItem, Item
<1> QED
  BY <1>3, <1>4 DEF BLOCKING_ACTIONS

LEMMA AgainOnlyDeclared ==
    ASSUME NEW d, NEW c, NEW seen, NEW plan, NEW r, Again(d, c, seen, plan, r)
    PROVE  OnlyServices(d, r) = {}
<1> SUFFICES ASSUME NEW k \in SvcKeys \ Keys(d.services), r.services[k] # Absent
             PROVE  FALSE
  BY DEF OnlyServices
<1>1. /\ d \in Documents /\ \A y \in Range(plan) : Origin(y, d, c, seen)
      /\ OnlyServices(d, c) = {}
  BY AgainPlan
<1>2. Tables(c) /\ OneKeyEach(plan) /\ HasRows(d, c) /\ ~Blocked(plan)
  BY DEF Again
<1>3. NewServices(plan, c)[k] = c.services[k]
  BY <1>1, <1>2, ServicesAfter
<1>4. r.services[k] = c.services[k]
  BY <1>3, AgainCatalog
<1> QED
  BY <1>1, <1>4 DEF OnlyServices

\* Every declared service is attached to every declared environment.
LEMMA AgainAttached ==
    ASSUME NEW d, NEW c, NEW seen, NEW plan, NEW r, Again(d, c, seen, plan, r)
    PROVE  Keys(d.environments) \X Keys(d.services) \subseteq r.attached
<1>1. d \in ManifestDocuments
  BY AgainPlan
<1>2. ASSUME NEW i \in DOMAIN d.environments
      PROVE  \E x \in Touched(plan, "environment") : x.key = d.environments[i].key
  <2> DEFINE x == EnvironmentItem(d.environments[i], c)
  <2>1. x \in Range(plan) /\ x.action \notin BLOCKING_ACTIONS
    BY <1>1, AgainPlan, Includes
  <2>2. x.kind = "environment" /\ x.key = d.environments[i].key
    BY EnvironmentKind
  <2>3. x.action \in {"conflict", "update_metadata", "link"}
    BY EnvironmentOutcome DEF Again, HasRows
  <2> HIDE DEF x
  <2>4. x \in Touched(plan, "environment")
    BY <2>1, <2>2, <2>3 DEF Touched, ACTIONABLE_ACTIONS, BLOCKING_ACTIONS
  <2> QED
    BY <2>2, <2>4
<1>3. ASSUME NEW i \in DOMAIN d.services
      PROVE  \E x \in Touched(plan, "service") : x.key = d.services[i].key
  <2> DEFINE x == ServiceItem(d.services[i], c)
  <2>1. x \in Range(plan) /\ x.action \notin BLOCKING_ACTIONS
    BY <1>1, AgainPlan, Includes
  <2>2. x.kind = "service" /\ x.key = d.services[i].key
    BY ServiceKind
  <2>3. x.action \in {"conflict", "update_metadata", "link"}
    BY ServiceOutcome DEF Again, HasRows
  <2> HIDE DEF x
  <2>4. x \in Touched(plan, "service")
    BY <2>1, <2>2, <2>3 DEF Touched, ACTIONABLE_ACTIONS, BLOCKING_ACTIONS
  <2> QED
    BY <2>2, <2>4
<1>4. \A k \in Keys(d.environments) : \E x \in Touched(plan, "environment") : x.key = k
  BY <1>2 DEF Keys
<1>5. \A k \in Keys(d.services) : \E x \in Touched(plan, "service") : x.key = k
  BY <1>3 DEF Keys
<1> DEFINE N == {<<e.key, s.key>> : e \in Touched(plan, "environment"),
                                    s \in Touched(plan, "service")}
<1>6. ASSUME NEW x \in Touched(plan, "environment"), NEW y \in Touched(plan, "service")
      PROVE  <<x.key, y.key>> \in N
  OBVIOUS
<1>7. r.attached = c.attached \cup N
  BY AgainCatalog DEF NewAttached
<1> HIDE DEF N
<1>8. ASSUME NEW j \in Keys(d.environments), NEW k \in Keys(d.services)
      PROVE  <<j, k>> \in N
  BY <1>4, <1>5, <1>6
<1> QED
  BY <1>7, <1>8

SloAction(slo, d, c) ==
    IF slo.meta.objective_ratio = 0 \/ slo.meta.window_seconds = 0 THEN "conflict"
    ELSE IF slo.service_ref \notin Keys(d.services) \cup {""} THEN "unmapped"
    ELSE IF c.slos[slo.key] = Absent THEN "create"
    ELSE IF Differs(c.slos[slo.key], slo.meta, MUTABLE_SLO_FIELDS) = {} THEN "no_change"
    ELSE "update_metadata"

LEMMA SloOutcome ==
    ASSUME NEW slo, NEW d, NEW c
    PROVE  /\ SloItem(slo, d, c).kind = "slo_profile" /\ SloItem(slo, d, c).key = slo.key
           /\ SloItem(slo, d, c).action = SloAction(slo, d, c)
           /\ SloAction(slo, d, c) \in ACTIONABLE_ACTIONS => SloItem(slo, d, c).payload = slo
<1> DEFINE action == SloAction(slo, d, c)
<1>1. SloItem(slo, d, c) = Item("slo_profile", action, slo.key,
                                IF action \in ACTIONABLE_ACTIONS THEN slo ELSE NoPayload)
  BY Zenon DEF SloItem, SloAction
<1> HIDE DEF action
<1>2. /\ SloItem(slo, d, c).kind = "slo_profile" /\ SloItem(slo, d, c).key = slo.key
      /\ SloItem(slo, d, c).action = action
      /\ action \in ACTIONABLE_ACTIONS => SloItem(slo, d, c).payload = slo
  BY <1>1 DEF Item
<1> QED
  BY <1>2 DEF action

\* A definition that may be written, and what is done about it.
LEMMA SloUnblocked ==
    ASSUME NEW slo, NEW d, NEW c, SloAction(slo, d, c) \notin BLOCKING_ACTIONS
    PROVE  /\ SloAction(slo, d, c) \in {"create", "no_change", "update_metadata"}
           /\ SloAction(slo, d, c) = "no_change" =>
                /\ c.slos[slo.key] # Absent
                /\ Differs(c.slos[slo.key], slo.meta, MUTABLE_SLO_FIELDS) = {}
           /\ ~(slo.meta.objective_ratio = 0 \/ slo.meta.window_seconds = 0)
           /\ ~(slo.service_ref \notin Keys(d.services) \cup {""})
<1> DEFINE row == c.slos[slo.key]
           empty == slo.meta.objective_ratio = 0 \/ slo.meta.window_seconds = 0
           strange == slo.service_ref \notin Keys(d.services) \cup {""}
           same == Differs(row, slo.meta, MUTABLE_SLO_FIELDS) = {}
           action == SloAction(slo, d, c)
<1>1. action = IF empty THEN "conflict" ELSE IF strange THEN "unmapped"
               ELSE IF row = Absent THEN "create" ELSE IF same THEN "no_change"
               ELSE "update_metadata"
  BY Zenon DEF SloAction
<1>2. action \notin BLOCKING_ACTIONS
  OBVIOUS
<1> HIDE DEF row, empty, strange, same, action
<1>3. ~empty /\ ~strange
  BY <1>1, <1>2 DEF BLOCKING_ACTIONS
<1>4. /\ action \in {"create", "no_change", "update_metadata"}
      /\ action = "no_change" => row # Absent /\ same
  BY <1>1, <1>3
<1> QED
  BY <1>3, <1>4 DEF row, empty, strange, same, action

LEMMA SloReviewed ==
    ASSUME NEW slo, NEW d, NEW c, NEW r,
           ~(slo.meta.objective_ratio = 0 \/ slo.meta.window_seconds = 0),
           ~(slo.service_ref \notin Keys(d.services) \cup {""}),
           r.slos[slo.key] # Absent, Differs(r.slos[slo.key], slo.meta, MUTABLE_SLO_FIELDS) = {}
    PROVE  SloItem(slo, d, r).action = "no_change"
<1>1. SloAction(slo, d, r) = "no_change"
  BY Zenon DEF SloAction
<1> QED
  BY <1>1, SloOutcome

LEMMA WrittenSlo ==
    ASSUME NEW x, NEW c, NEW k, k = x.key, c.slos[k] \in SloRows \cup {Absent},
           x.payload.meta.objective_ratio \in Nat, x.payload.meta.window_seconds \in Nat,
           x.payload.service_ref \in STRING
    PROVE  /\ NewSlo(x, c) \in SloRows
           /\ Differs(NewSlo(x, c), x.payload.meta, MUTABLE_SLO_FIELDS) = {}
<1> DEFINE row == c.slos[x.key]
           v == IF row = Absent THEN 1
                ELSE IF Differs(row, x.payload.meta, MUTABLE_SLO_FIELDS) # {}
                THEN row.version + 1 ELSE row.version
           new == NewSlo(x, c)
<1>1. new = [objective_ratio |-> x.payload.meta.objective_ratio,
             window_seconds |-> x.payload.meta.window_seconds,
             service_ref |-> x.payload.service_ref, version |-> v]
  BY DEF NewSlo
<1>2. v \in Nat
  <2>1. row \in SloRows \/ row = Absent
    OBVIOUS
  <2>2. row \in SloRows => row.version \in Nat
    BY DEF SloRows
  <2> DEFINE same == Differs(row, x.payload.meta, MUTABLE_SLO_FIELDS) # {}
  <2> HIDE DEF row, same
  <2>3. (IF row = Absent THEN 1 ELSE IF same THEN row.version + 1 ELSE row.version) \in Nat
    BY <2>1, <2>2
  <2> QED
    BY <2>3 DEF same
<1> HIDE DEF new, v
<1>3. new \in SloRows
  BY <1>1, <1>2 DEF SloRows
<1>4. /\ new["objective_ratio"] = x.payload.meta["objective_ratio"]
      /\ new["window_seconds"] = x.payload.meta["window_seconds"]
  BY <1>1
<1>5. Differs(new, x.payload.meta, MUTABLE_SLO_FIELDS) = {}
  BY <1>4 DEF Differs, MUTABLE_SLO_FIELDS
<1> QED
  BY <1>3, <1>5 DEF new

LEMMA SloRowIs ==
    ASSUME NEW plan, NEW c, NEW k \in DOMAIN c.slos
    PROVE  /\ (\A i \in SloWritten(plan) : i.key # k) => NewSlos(plan, c)[k] = c.slos[k]
           /\ (\E i \in SloWritten(plan) : i.key = k) =>
                \E i \in SloWritten(plan) : i.key = k /\ NewSlos(plan, c)[k] = NewSlo(i, c)
<1> DEFINE I == SloWritten(plan)
           W == [i \in I |-> NewSlo(i, c)]
<1>1. DOMAIN W = I /\ \A i \in I : W[i] = NewSlo(i, c)
  OBVIOUS
<1>2. NewSlos(plan, c) = Upsert(c.slos, W)
  BY DEF NewSlos
<1> HIDE DEF W, I
<1>3. /\ (\A i \in DOMAIN W : i.key # k) => Upsert(c.slos, W)[k] = c.slos[k]
      /\ (\E i \in DOMAIN W : i.key = k) =>
           \E i \in DOMAIN W : i.key = k /\ Upsert(c.slos, W)[k] = W[i]
  BY UpsertIs
<1>4. /\ (\A i \in I : i.key # k) => NewSlos(plan, c)[k] = c.slos[k]
      /\ (\E i \in I : i.key = k) => \E i \in I : i.key = k /\ NewSlos(plan, c)[k] = NewSlo(i, c)
  BY <1>1, <1>2, <1>3
<1> QED
  BY <1>4 DEF I

LEMMA AgainSlo ==
    ASSUME NEW d, NEW c, NEW seen, NEW plan, NEW r, Again(d, c, seen, plan, r),
           NEW i \in DOMAIN d.slos
    PROVE  SloItem(d.slos[i], d, r).action = "no_change"
<1> DEFINE slo == d.slos[i]
           k == slo.key
           x == SloItem(slo, d, c)
           action == SloAction(slo, d, c)
<1>1. /\ d \in Documents /\ d \in ManifestDocuments
      /\ \A y \in Range(plan) : Origin(y, d, c, seen)
  BY AgainPlan
<1>2. x \in Range(plan) /\ x.action \notin BLOCKING_ACTIONS
  <2>1. x \in AfterSet(d, c, seen)
    BY <1>1, Includes
  <2> QED
    BY <2>1, AgainPlan
<1>3. /\ x.kind = "slo_profile" /\ x.key = k /\ x.action = action
      /\ action \in ACTIONABLE_ACTIONS => x.payload = slo
  BY SloOutcome
<1>4. /\ action \in {"create", "no_change", "update_metadata"}
      /\ action = "no_change" =>
           c.slos[k] # Absent /\ Differs(c.slos[k], slo.meta, MUTABLE_SLO_FIELDS) = {}
      /\ ~(slo.meta.objective_ratio = 0 \/ slo.meta.window_seconds = 0)
      /\ ~(slo.service_ref \notin Keys(d.services) \cup {""})
  <2>1. SloAction(slo, d, c) \notin BLOCKING_ACTIONS
    BY <1>2, <1>3
  <2> HIDE DEF slo
  <2> QED
    BY <2>1, SloUnblocked
<1>5. /\ k \in SloKeys /\ c.slos[k] \in SloRows \cup {Absent} /\ k \in DOMAIN c.slos
      /\ r.slos = NewSlos(plan, c)
  BY <1>1, KeyIsKnown, AgainCatalog DEF Again, TypedRows, Tables
<1>6. /\ slo.meta.objective_ratio \in Nat /\ slo.meta.window_seconds \in Nat
      /\ slo.service_ref \in STRING
  BY <1>1, DocumentElements
<1>7. ASSUME NEW y \in SloWritten(plan), y.key = k PROVE y = x
  <2>1. y \in Range(plan) /\ y.kind = "slo_profile"
    BY DEF SloWritten, Items
  <2>2. OneKeyEach(plan)
    BY DEF Again
  <2> HIDE DEF x, k
  <2> QED
    BY <1>2, <1>3, <1>7, <2>1, <2>2 DEF OneKeyEach
<1> HIDE DEF x, k, action
<1>8. r.slos[k] # Absent /\ Differs(r.slos[k], slo.meta, MUTABLE_SLO_FIELDS) = {}
  <2>1. CASE action = "no_change"
    <3>1. ASSUME NEW y \in SloWritten(plan) PROVE y.key # k
      <4>1. y.action \in {"create", "update_metadata"}
        BY DEF SloWritten, Items
      <4> QED
        BY <1>3, <1>7, <2>1, <4>1
    <3>2. r.slos[k] = c.slos[k]
      BY <1>5, <3>1, SloRowIs
    <3> QED
      BY <1>4, <2>1, <3>2
  <2>2. CASE action # "no_change"
    <3>1. x \in SloWritten(plan)
      BY <1>2, <1>3, <1>4, <2>2 DEF SloWritten, Items
    <3>2. r.slos[k] = NewSlo(x, c)
      BY <1>3, <1>5, <1>7, <3>1, SloRowIs
    <3>3. x.payload = slo
      BY <1>3, <1>4, <2>2 DEF ACTIONABLE_ACTIONS
    <3> HIDE DEF slo
    <3>4. /\ NewSlo(x, c) \in SloRows
          /\ Differs(NewSlo(x, c), x.payload.meta, MUTABLE_SLO_FIELDS) = {}
      BY <1>3, <1>5, <1>6, <3>3, WrittenSlo
    <3> QED
      BY <3>2, <3>3, <3>4, PlanAssumption
  <2> QED
    BY <2>1, <2>2
<1>9. SloItem(slo, d, r).action = "no_change"
  BY <1>4, <1>8, SloReviewed DEF k
<1> QED
  BY <1>9

\* A binding that was made or was there is no work for the next import, and
\* where there was nothing to bind there is nothing still.
LEMMA BindingAction ==
    ASSUME NEW e, NEW s, NEW c, NEW seen, NEW x, x = _binding_item(e, s, c, seen)
    PROVE  /\ (\E w \in Workloads : <<e.key, s.key, w>> \in c.bindings)
                \/ (IF s.selector THEN seen[<<e.key, s.key>>] ELSE {}) = {}
                => x.action = "no_change"
           /\ x.action = "no_change" =>
                (\E w \in Workloads : <<e.key, s.key, w>> \in c.bindings)
                \/ (IF s.selector THEN seen[<<e.key, s.key>>] ELSE {}) = {}
           /\ x.action \in {"no_change", "unmapped", "create"}
<1> DEFINE bound == \E w \in Workloads : <<e.key, s.key, w>> \in c.bindings
           found == IF s.selector THEN seen[<<e.key, s.key>>] ELSE {}
           several == Cardinality(found) > 1
           action == CASE bound \/ found = {} -> "no_change"
                       [] ~bound /\ several -> "unmapped"
                       [] OTHER -> "create"
<1>1. x = Item("workload_binding", action, e.key,
               [service |-> s.key,
                workload |-> IF action = "create" THEN CHOOSE w \in found : TRUE ELSE Absent])
  BY Zenon DEF _binding_item
<1>2. found = {} => ~several
  <2>1. Cardinality({}) = 0
    BY FS_EmptySet
  <2> SUFFICES ASSUME found = {} PROVE ~(Cardinality(found) > 1)
    OBVIOUS
  <2>2. Cardinality(found) = 0
    BY <2>1, Zenon
  <2> QED
    BY <2>2
<1> HIDE DEF bound, found, several, action
<1>3. x.action = action
  BY <1>1 DEF Item
<1>4. /\ (bound \/ found = {}) => action = "no_change"
      /\ action = "no_change" => (bound \/ found = {})
      /\ action \in {"no_change", "unmapped", "create"}
  <2> HIDE DEF bound, found, several
  <2> QED
    BY <1>2 DEF action
<1> QED
  BY <1>3, <1>4 DEF bound, found

LEMMA SameBindingItem ==
    ASSUME NEW e, NEW s, NEW c, NEW r, NEW seen,
           (\E w \in Workloads : <<e.key, s.key, w>> \in c.bindings)
             <=> (\E w \in Workloads : <<e.key, s.key, w>> \in r.bindings)
    PROVE  _binding_item(e, s, r, seen) = _binding_item(e, s, c, seen)
BY Zenon DEF _binding_item

\* What is proposed again is what an operator switched off.
LEMMA AgainBinding ==
    ASSUME NEW d, NEW c, NEW seen \in [Pairs -> SUBSET Workloads], NEW plan, NEW r,
           Again(d, c, seen, plan, r),
           NEW i \in DOMAIN d.environments, NEW j \in DOMAIN d.services,
           InCluster(d.environments[i])
    PROVE  Settles(_binding_item(d.environments[i], d.services[j], r, seen), r)
<1> DEFINE e == d.environments[i]
           s == d.services[j]
           x == _binding_item(e, s, c, seen)
<1>1. x \in Range(plan) /\ x.action \notin BLOCKING_ACTIONS
  <2>1. d \in ManifestDocuments
    BY AgainPlan
  <2>2. x \in AfterSet(d, c, seen)
    BY <2>1, Includes
  <2> QED
    BY <2>2, AgainPlan
<1>2. seen[<<e.key, s.key>>] \subseteq Workloads
  <2>1. e.key \in EnvKeys /\ s.key \in SvcKeys
    BY AgainPlan, KeyIsKnown
  <2>2. <<e.key, s.key>> \in Pairs
    BY <2>1 DEF Pairs
  <2> HIDE DEF e, s
  <2> QED
    BY <2>2
<1> HIDE DEF e, s, x
<1>3. x.action \in {"no_change", "create"}
  BY <1>1, BindingAction DEF x, BLOCKING_ACTIONS
<1>4. r.bindings = NewBindings(plan, c) /\ r.disabled = c.disabled
  BY AgainCatalog
<1>5. CASE x.action = "no_change"
  <2>1. (\E w \in Workloads : <<e.key, s.key, w>> \in c.bindings)
        \/ (IF s.selector THEN seen[<<e.key, s.key>>] ELSE {}) = {}
    BY <1>5, BindingAction DEF x
  <2>2. c.bindings \subseteq r.bindings
    BY <1>4 DEF NewBindings
  <2>3. (\E w \in Workloads : <<e.key, s.key, w>> \in r.bindings)
        \/ (IF s.selector THEN seen[<<e.key, s.key>>] ELSE {}) = {}
    BY <2>1, <2>2
  <2>4. _binding_item(e, s, r, seen).action = "no_change"
    BY <2>3, BindingAction
  <2> QED
    BY <2>4 DEF e, s, Settles
<1>6. CASE x.action = "create"
  <2>1. /\ x.key = e.key /\ x.payload.service = s.key /\ x.payload.workload \in Workloads
    BY <1>2, <1>6, ProposedBinding DEF x
  <2>2. x.kind = "workload_binding"
    BY BindingKind DEF x
  <2>3. x \in Items(plan, "workload_binding", "create")
    BY <1>1, <1>6, <2>2 DEF Items
  <2>4. Bound(x) \in r.bindings \/ Bound(x) \in r.disabled
    BY <1>4, <2>3 DEF NewBindings
  <2>5. Bound(x) = <<e.key, s.key, x.payload.workload>>
    BY <2>1 DEF Bound
  <2>6. CASE \E w \in Workloads : <<e.key, s.key, w>> \in r.bindings
    <3>1. _binding_item(e, s, r, seen).action = "no_change"
      BY <2>6, BindingAction
    <3> QED
      BY <3>1 DEF e, s, Settles
  <2>7. CASE ~\E w \in Workloads : <<e.key, s.key, w>> \in r.bindings
    <3>1. c.bindings \subseteq r.bindings
      BY <1>4 DEF NewBindings
    <3>2. _binding_item(e, s, r, seen) = x
      BY <2>7, <3>1, SameBindingItem DEF x
    <3>3. Bound(x) \in r.disabled
      BY <2>1, <2>4, <2>5, <2>7
    <3>4. Settles(x, r)
      BY <1>6, <2>2, <3>3 DEF Settles
    <3> QED
      BY <3>2, <3>4 DEF e, s
  <2> QED
    BY <2>6, <2>7
<1> QED
  BY <1>3, <1>5, <1>6

\* What is left to say about an import that has come to rest.
Settled(d, c, seen) ==
    /\ \A x \in Range(PlanFor(d, c, seen)) : Settles(x, c)
    /\ Keys(d.environments) \X Keys(d.services) \subseteq c.attached

LEMMA AgainSettles ==
    ASSUME NEW d, NEW c, NEW seen \in [Pairs -> SUBSET Workloads], NEW plan, NEW r,
           Again(d, c, seen, plan, r)
    PROVE  Settled(d, r, seen) /\ HasRows(d, r)
<1>1. d \in Documents /\ d \in ManifestDocuments /\ ~d.truncated
  BY AgainPlan
<1>2. FewRows(r)
  BY AgainCatalog
<1>3. ASSUME NEW x \in Range(PlanFor(d, r, seen))
      PROVE  Settles(x, r)
  <2>1. Origin(x, d, r, seen)
    BY <1>1, <1>2, PlanElements
  <2> USE DEF Settles
  <2>2. CASE x = ProjectItem(d, r)
    BY <2>2, AgainProject
  <2>3. CASE x = RepositoryItem(r)
    <3>1. r.link = "ours"
      BY AgainLinked
    <3> QED
      BY <2>3, <3>1 DEF RepositoryItem, Item
  <2>4. CASE \E i \in DOMAIN d.owners : x = OwnerItem(d.owners[i], r)
    BY <2>4, AgainOwner
  <2>5. CASE \E i \in DOMAIN d.environments : FromEnvironment(x, d.environments[i], r)
    <3>1. PICK i \in DOMAIN d.environments : FromEnvironment(x, d.environments[i], r)
      BY <2>5
    <3>2. CASE x = EnvironmentItem(d.environments[i], r)
      BY <3>2, AgainEnvironment
    <3>3. CASE /\ InCluster(d.environments[i])
               /\ x = ClusterItem(d.environments[i], r) \/ x = NamespaceItem(d.environments[i], r)
      BY <3>3, AgainCluster
    <3> QED
      BY <3>1, <3>2, <3>3 DEF FromEnvironment
  <2>6. CASE \E i \in DOMAIN d.services :
               x = ServiceItem(d.services[i], r) \/ x = ProfileItem(d.services[i])
    BY <2>6, AgainService, AgainProfile
  <2>7. CASE \E i \in DOMAIN d.dataStores : x = DependencyItem(d.dataStores[i], r)
    BY <2>7, DependencyKind
  <2>8. CASE x \in CatalogOnly("dependency", OnlyStores(d, r))
    BY <2>8, ReportedKinds
  <2>9. CASE x \in CatalogOnly("service", OnlyServices(d, r))
    <3>1. OnlyServices(d, r) = {}
      BY AgainOnlyDeclared
    <3> QED
      BY <2>9, <3>1 DEF CatalogOnly
  <2>10. CASE \E i \in DOMAIN d.slos : x = SloItem(d.slos[i], d, r)
    BY <2>10, AgainSlo
  <2>11. CASE \E i \in DOMAIN d.environments, j \in DOMAIN d.services :
                /\ InCluster(d.environments[i])
                /\ x = _binding_item(d.environments[i], d.services[j], r, seen)
    <3>1. PICK i \in DOMAIN d.environments, j \in DOMAIN d.services :
            /\ InCluster(d.environments[i])
            /\ x = _binding_item(d.environments[i], d.services[j], r, seen)
      BY <2>11
    <3>2. Settles(_binding_item(d.environments[i], d.services[j], r, seen), r)
      BY <3>1, AgainBinding
    <3> QED
      BY <3>1, <3>2
  <2>12. CASE d.truncated /\ x = Item("project", "unsupported", "truncated", NoPayload)
    BY <1>1, <2>12
  <2>13. CASE x = DeployedItem
    BY <2>13 DEF DeployedItem, Item
  <2> HIDE DEF Settles
  <2> QED
    BY <2>1, <2>2, <2>3, <2>4, <2>5, <2>6, <2>7, <2>8, <2>9, <2>10, <2>11, <2>12, <2>13
       DEF Origin
<1>4. Keys(d.environments) \X Keys(d.services) \subseteq r.attached
  BY AgainAttached
<1>5. HasRows(d, r)
  BY AgainProject, AgainEnvironment, AgainService DEF HasRows
<1> QED
  BY <1>3, <1>4, <1>5 DEF Settled

----------------------------------------------------------------------------
(* What a reviewed plan may write, and what it promises.                   *)

Proposes(plan, c) ==
    /\ \A x \in Items(plan, "project", "create") : x.payload \in ProjectRows
    /\ \A x \in Items(plan, "project", "update_metadata") :
         c.project # Absent /\ Patches(ProjectRows, x.payload)
    /\ \A x \in Items(plan, "environment", "create") : x.payload \in EnvironmentRows
    /\ \A x \in Items(plan, "environment", "update_metadata") :
         c.environments[x.key] # Absent /\ Patches(EnvironmentRows, x.payload)
    /\ \A x \in Items(plan, "service", "create") : x.payload \in ServiceRows /\ x.key \in STRING
    /\ \A x \in Items(plan, "service", "update_metadata") :
         c.services[x.key] # Absent /\ Patches(ServiceRows, x.payload)
    /\ \A x \in SloWritten(plan) :
         /\ x.payload.meta.objective_ratio \in Nat /\ x.payload.meta.window_seconds \in Nat
         /\ x.payload.service_ref \in STRING

Promises(plan, d, c) ==
    /\ c.project # Absent \/ Items(plan, "project", "create") # {}
    /\ \A i \in DOMAIN d.environments :
         \/ c.environments[d.environments[i].key] # Absent
         \/ \E x \in Items(plan, "environment", "create") : x.key = d.environments[i].key
    /\ \A i \in DOMAIN d.services :
         \/ c.services[d.services[i].key] # Absent
         \/ \E x \in Items(plan, "service", "create") : x.key = d.services[i].key

LEMMA ReviewPromises ==
    ASSUME NEW d \in ManifestDocuments, Fits(d), NEW c, FewRows(c), NEW seen,
           NEW plan, plan = PlanFor(d, c, seen), ~Blocked(plan)
    PROVE  Promises(plan, d, c)
<1>1. \A x \in BeforeSet(d, c) : x \in Range(plan)
  <2>1. BeforeSet(d, c) \subseteq Range(plan)
    BY WholePlan
  <2> QED
    BY <2>1
<1>2. ASSUME c.project = Absent PROVE Items(plan, "project", "create") # {}
  <2> DEFINE x == ProjectItem(d, c)
  <2>1. x \in Range(plan)
    BY <1>1, Includes
  <2>2. x.kind = "project" /\ x.action = "create"
    BY <1>2 DEF ProjectItem, Item
  <2> HIDE DEF x
  <2> QED
    BY <2>1, <2>2 DEF Items
<1>3. ASSUME NEW i \in DOMAIN d.environments, c.environments[d.environments[i].key] = Absent
      PROVE  \E x \in Items(plan, "environment", "create") : x.key = d.environments[i].key
  <2> DEFINE e == d.environments[i]
             x == EnvironmentItem(e, c)
  <2>1. x \in Range(plan)
    BY <1>1, Includes
  <2>2. x.kind = "environment" /\ x.action = "create" /\ x.key = e.key
    BY <1>3 DEF EnvironmentItem, Item
  <2> HIDE DEF x
  <2>3. x \in Items(plan, "environment", "create")
    BY <2>1, <2>2 DEF Items
  <2> QED
    BY <2>2, <2>3
<1>4. ASSUME NEW i \in DOMAIN d.services, c.services[d.services[i].key] = Absent
      PROVE  \E x \in Items(plan, "service", "create") : x.key = d.services[i].key
  <2> DEFINE s == d.services[i]
             x == ServiceItem(s, c)
  <2>1. x \in Range(plan)
    BY <1>1, Includes
  <2>2. x.kind = "service" /\ x.action = "create" /\ x.key = s.key
    BY <1>4 DEF ServiceItem, Item
  <2> HIDE DEF x
  <2>3. x \in Items(plan, "service", "create")
    BY <2>1, <2>2 DEF Items
  <2> QED
    BY <2>2, <2>3
<1> QED
  BY <1>2, <1>3, <1>4 DEF Promises

LEMMA ReviewProposes ==
    ASSUME NEW d \in Documents, NEW c, FewRows(c), TypedRows(c), NEW seen,
           NEW plan, plan = PlanFor(d, c, seen)
    PROVE  Proposes(plan, c)
<1>1. d \in ManifestDocuments
  BY PlanAssumption
<1>2. \A x \in Range(plan) : Origin(x, d, c, seen)
  BY <1>1, PlanElements
<1>3. c.link \in {"ours", Absent}
  BY DEF TypedRows
<1>4. _project_metadata(d) \in ProjectRows
  BY <1>1, ProjectIsRow
<1>5. ASSUME NEW x \in Range(plan), x.kind = "project"
      PROVE  /\ x.action = "create" => x.payload \in ProjectRows
             /\ x.action = "update_metadata" =>
                  c.project # Absent /\ Patches(ProjectRows, x.payload)
  <2>1. Origin(x, d, c, seen)
    BY <1>2
  <2>2. x = ProjectItem(d, c) \/ x.action = "unsupported"
    BY <1>5, <2>1, ByKind
  <2>3. CASE x.action = "unsupported"
    BY <2>3
  <2>4. CASE x = ProjectItem(d, c) /\ c.project = Absent
    <3>1. x.action = "create" /\ x.payload = _project_metadata(d)
      BY <2>4 DEF ProjectItem, Item
    <3> QED
      BY <1>4, <3>1
  <2>5. CASE x = ProjectItem(d, c) /\ c.project # Absent
    <3>1. /\ RowOutcome(x, c.project, _project_metadata(d), MUTABLE_PROJECT_FIELDS,
                        IMMUTABLE_PROJECT_FIELDS)
          /\ x.action \in {"conflict", "update_metadata", "no_change", "link"}
      BY <1>3, <2>5, ProjectOutcome
    <3>2. ASSUME x.action = "update_metadata" PROVE Patches(ProjectRows, x.payload)
      <4>1. x.payload = Restricted(_project_metadata(d),
                                   Differs(c.project, _project_metadata(d), MUTABLE_PROJECT_FIELDS))
        BY <3>1, <3>2 DEF RowOutcome
      <4> QED
        BY <1>4, <4>1, ProjectPatch
    <3> QED
      BY <2>5, <3>1, <3>2
  <2> QED
    BY <2>2, <2>3, <2>4, <2>5
<1>6. ASSUME NEW x \in Range(plan), x.kind = "environment"
      PROVE  /\ x.action = "create" => x.payload \in EnvironmentRows
             /\ x.action = "update_metadata" =>
                  c.environments[x.key] # Absent /\ Patches(EnvironmentRows, x.payload)
  <2>1. Origin(x, d, c, seen)
    BY <1>2
  <2>2. PICK i \in DOMAIN d.environments : x = EnvironmentItem(d.environments[i], c)
    BY <1>6, <2>1, ByKind
  <2> DEFINE e == d.environments[i]
             row == c.environments[e.key]
  <2>3. e.meta \in EnvironmentRows /\ x.key = e.key
    BY <1>1, <2>2, DocumentElements, EnvironmentKind
  <2>4. CASE row = Absent
    <3>1. x.action = "create" /\ x.payload = e.meta
      BY <2>2, <2>4 DEF EnvironmentItem, Item
    <3> QED
      BY <2>3, <3>1
  <2>5. CASE row # Absent
    <3>1. /\ RowOutcome(x, row, e.meta, MUTABLE_ENVIRONMENT_FIELDS, IMMUTABLE_ENVIRONMENT_FIELDS)
          /\ x.action \in {"conflict", "update_metadata", "link"}
      BY <2>2, <2>5, EnvironmentOutcome
    <3>2. ASSUME x.action = "update_metadata" PROVE Patches(EnvironmentRows, x.payload)
      <4>1. x.payload = Restricted(e.meta, Differs(row, e.meta, MUTABLE_ENVIRONMENT_FIELDS))
        BY <3>1, <3>2 DEF RowOutcome
      <4> QED
        BY <2>3, <4>1, EnvironmentPatch
    <3> QED
      BY <2>3, <2>5, <3>1, <3>2
  <2> QED
    BY <2>4, <2>5
<1>7. ASSUME NEW x \in Range(plan), x.kind = "service"
      PROVE  /\ x.action = "create" => x.payload \in ServiceRows /\ x.key \in STRING
             /\ x.action = "update_metadata" =>
                  c.services[x.key] # Absent /\ Patches(ServiceRows, x.payload)
  <2>1. Origin(x, d, c, seen)
    BY <1>2
  <2>2. CASE x.action = "unmapped"
    BY <2>2
  <2>3. CASE \E i \in DOMAIN d.services : x = ServiceItem(d.services[i], c)
    <3>1. PICK i \in DOMAIN d.services : x = ServiceItem(d.services[i], c)
      BY <2>3
    <3> DEFINE s == d.services[i]
               row == c.services[s.key]
    <3>2. s.meta \in ServiceRows /\ s.key \in STRING /\ x.key = s.key
      BY <1>1, <3>1, DocumentElements, ServiceKind
    <3>3. CASE row = Absent
      <4>1. x.action = "create" /\ x.payload = s.meta
        BY <3>1, <3>3 DEF ServiceItem, Item
      <4> QED
        BY <3>2, <4>1
    <3>4. CASE row # Absent
      <4>1. /\ RowOutcome(x, row, s.meta, MUTABLE_SERVICE_FIELDS, {})
            /\ x.action \in {"conflict", "update_metadata", "link"}
        BY <3>1, <3>4, ServiceOutcome
      <4>2. ASSUME x.action = "update_metadata" PROVE Patches(ServiceRows, x.payload)
        <5>1. x.payload = Restricted(s.meta, Differs(row, s.meta, MUTABLE_SERVICE_FIELDS))
          BY <4>1, <4>2 DEF RowOutcome
        <5> QED
          BY <3>2, <5>1, ServicePatch
      <4> QED
        BY <3>2, <3>4, <4>1, <4>2
    <3> QED
      BY <3>3, <3>4
  <2> QED
    BY <1>7, <2>1, <2>2, <2>3, ByKind
<1>8. ASSUME NEW x \in SloWritten(plan)
      PROVE  /\ x.payload.meta.objective_ratio \in Nat /\ x.payload.meta.window_seconds \in Nat
             /\ x.payload.service_ref \in STRING
  <2>1. x \in Range(plan) /\ x.kind = "slo_profile" /\ x.action \in ACTIONABLE_ACTIONS
    BY DEF SloWritten, Items, ACTIONABLE_ACTIONS
  <2>2. Origin(x, d, c, seen)
    BY <1>2, <2>1
  <2>3. PICK i \in DOMAIN d.slos : x = SloItem(d.slos[i], d, c)
    BY <2>1, <2>2, ByKind
  <2>4. x.payload = d.slos[i]
    BY <2>1, <2>3, SloOutcome
  <2> QED
    BY <1>1, <2>4, DocumentElements
<1> QED
  BY <1>5, <1>6, <1>7, <1>8 DEF Proposes, Items

\* An apply keeps the rows it finds, and writes rows.
LEMMA WrittenEnvironments ==
    ASSUME NEW plan, NEW c, Tables(c), TypedRows(c), Proposes(plan, c), NEW k \in EnvKeys
    PROVE  /\ NewEnvironments(plan, c)[k] \in EnvironmentRows \cup {Absent}
           /\ (c.environments[k] # Absent
               \/ \E x \in Items(plan, "environment", "create") : x.key = k)
                => NewEnvironments(plan, c)[k] # Absent
<1> DEFINE created == CreatedRows(plan, "environment", c.environments)
<1>1. DOMAIN c.environments = EnvKeys /\ DOMAIN created = EnvKeys
  BY UpsertDomain DEF Tables, CreatedRows
<1>2. NewEnvironments(plan, c) = UpdatedRows(plan, "environment", created)
  BY DEF NewEnvironments
<1>3. /\ created[k] \in EnvironmentRows \cup {Absent}
      /\ (c.environments[k] # Absent
          \/ \E x \in Items(plan, "environment", "create") : x.key = k)
           => created[k] \in EnvironmentRows
  <2>1. CASE \E x \in Items(plan, "environment", "create") : x.key = k
    <3>1. \E x \in Items(plan, "environment", "create") : x.key = k /\ created[k] = x.payload
      BY <1>1, <2>1, CreatedRowIs
    <3> QED
      BY <3>1 DEF Proposes
  <2>2. CASE \A x \in Items(plan, "environment", "create") : x.key # k
    <3>1. created[k] = c.environments[k]
      BY <1>1, <2>2, CreatedRowIs
    <3> QED
      BY <2>2, <3>1 DEF TypedRows
  <2> QED
    BY <2>1, <2>2
<1> HIDE DEF created
<1>4. CASE \E x \in Items(plan, "environment", "update_metadata") : x.key = k
  <2>1. PICK x \in Items(plan, "environment", "update_metadata") :
          x.key = k /\ UpdatedRows(plan, "environment", created)[k] = Merge(created[k], x.payload)
    BY <1>1, <1>4, UpdatedRowIs
  <2>2. c.environments[k] # Absent /\ Patches(EnvironmentRows, x.payload)
    BY <2>1 DEF Proposes
  <2>3. Merge(created[k], x.payload) \in EnvironmentRows
    BY <1>3, <2>2 DEF Patches
  <2> QED
    BY <1>2, <2>1, <2>3, PlanAssumption
<1>5. CASE \A x \in Items(plan, "environment", "update_metadata") : x.key # k
  <2>1. UpdatedRows(plan, "environment", created)[k] = created[k]
    BY <1>1, <1>5, UpdatedRowIs
  <2> QED
    BY <1>2, <1>3, <2>1, PlanAssumption
<1> QED
  BY <1>4, <1>5

LEMMA NamedRowTyped ==
    ASSUME NEW x, x.payload \in ServiceRows, x.key \in STRING
    PROVE  NamedRow(x) \in ServiceRows
<1> DEFINE p == x.payload
<1>1. p \in ServiceRows
  OBVIOUS
<1>2. NamedRow(x) = [p EXCEPT !.display_name = x.key]
  BY DEF NamedRow
<1> HIDE DEF p
<1> QED
  BY <1>1, <1>2 DEF ServiceRows

LEMMA WrittenServices ==
    ASSUME NEW plan, NEW c, Tables(c), TypedRows(c), Proposes(plan, c), NEW k \in SvcKeys
    PROVE  /\ NewServices(plan, c)[k] \in ServiceRows \cup {Absent}
           /\ (c.services[k] # Absent
               \/ \E x \in Items(plan, "service", "create") : x.key = k)
                => NewServices(plan, c)[k] # Absent
<1> DEFINE created == NamedRows(plan, c.services)
<1>1. DOMAIN c.services = SvcKeys /\ DOMAIN created = SvcKeys
  BY UpsertDomain DEF Tables, NamedRows
<1>2. NewServices(plan, c) = UpdatedRows(plan, "service", created)
  BY DEF NewServices
<1>3. /\ created[k] \in ServiceRows \cup {Absent}
      /\ (c.services[k] # Absent
          \/ \E x \in Items(plan, "service", "create") : x.key = k)
           => created[k] \in ServiceRows
  <2>1. CASE \E x \in Items(plan, "service", "create") : x.key = k
    <3>1. PICK x \in Items(plan, "service", "create") : x.key = k /\ created[k] = NamedRow(x)
      BY <1>1, <2>1, NamedRowIs
    <3>2. NamedRow(x) \in ServiceRows
      BY <3>1, NamedRowTyped DEF Proposes
    <3> QED
      BY <3>1, <3>2
  <2>2. CASE \A x \in Items(plan, "service", "create") : x.key # k
    <3>1. created[k] = c.services[k]
      BY <1>1, <2>2, NamedRowIs
    <3> QED
      BY <2>2, <3>1 DEF TypedRows
  <2> QED
    BY <2>1, <2>2
<1> HIDE DEF created
<1>4. CASE \E x \in Items(plan, "service", "update_metadata") : x.key = k
  <2>1. PICK x \in Items(plan, "service", "update_metadata") :
          x.key = k /\ UpdatedRows(plan, "service", created)[k] = Merge(created[k], x.payload)
    BY <1>1, <1>4, UpdatedRowIs
  <2>2. c.services[k] # Absent /\ Patches(ServiceRows, x.payload)
    BY <2>1 DEF Proposes
  <2>3. Merge(created[k], x.payload) \in ServiceRows
    BY <1>3, <2>2 DEF Patches
  <2> QED
    BY <1>2, <2>1, <2>3, PlanAssumption
<1>5. CASE \A x \in Items(plan, "service", "update_metadata") : x.key # k
  <2>1. UpdatedRows(plan, "service", created)[k] = created[k]
    BY <1>1, <1>5, UpdatedRowIs
  <2> QED
    BY <1>2, <1>3, <2>1, PlanAssumption
<1> QED
  BY <1>4, <1>5

LEMMA WrittenProject ==
    ASSUME NEW plan, NEW c, TypedRows(c), Proposes(plan, c)
    PROVE  /\ NewProject(plan, c) \in ProjectRows \cup {Absent}
           /\ (c.project # Absent \/ Items(plan, "project", "create") # {})
                => NewProject(plan, c) # Absent
<1> DEFINE created == Items(plan, "project", "create")
           updated == Items(plan, "project", "update_metadata")
<1>1. NewProject(plan, c) =
        IF created # {} THEN (CHOOSE i \in created : TRUE).payload
        ELSE IF updated # {} THEN Merge(c.project, (CHOOSE i \in updated : TRUE).payload)
        ELSE c.project
  BY DEF NewProject
<1>2. /\ \A x \in created : x.payload \in ProjectRows
      /\ \A x \in updated : c.project # Absent /\ Patches(ProjectRows, x.payload)
  BY DEF Proposes
<1>3. c.project \in ProjectRows \cup {Absent}
  BY DEF TypedRows
<1> HIDE DEF created, updated
<1>4. CASE created # {}
  <2>1. (CHOOSE i \in created : TRUE) \in created
    BY <1>4
  <2> QED
    BY <1>1, <1>2, <1>4, <2>1, PlanAssumption
<1>5. CASE created = {} /\ updated # {}
  <2>1. (CHOOSE i \in updated : TRUE) \in updated
    BY <1>5
  <2>2. Merge(c.project, (CHOOSE i \in updated : TRUE).payload) \in ProjectRows
    BY <1>2, <1>3, <2>1 DEF Patches
  <2> QED
    BY <1>1, <1>5, <2>2, PlanAssumption
<1>6. CASE created = {} /\ updated = {}
  BY <1>1, <1>3, <1>6 DEF created
<1> QED
  BY <1>4, <1>5, <1>6

LEMMA WrittenSlos ==
    ASSUME NEW plan, NEW c, Tables(c), TypedRows(c), Proposes(plan, c), NEW k \in SloKeys
    PROVE  NewSlos(plan, c)[k] \in SloRows \cup {Absent}
<1>1. k \in DOMAIN c.slos /\ c.slos[k] \in SloRows \cup {Absent}
  BY DEF Tables, TypedRows
<1>2. CASE \E x \in SloWritten(plan) : x.key = k
  <2>1. PICK x \in SloWritten(plan) : x.key = k /\ NewSlos(plan, c)[k] = NewSlo(x, c)
    BY <1>1, <1>2, SloRowIs
  <2>2. /\ x.payload.meta.objective_ratio \in Nat /\ x.payload.meta.window_seconds \in Nat
        /\ x.payload.service_ref \in STRING
    BY DEF Proposes
  <2>3. NewSlo(x, c) \in SloRows
    BY <1>1, <2>1, <2>2, WrittenSlo
  <2> QED
    BY <2>1, <2>3
<1>3. CASE \A x \in SloWritten(plan) : x.key # k
  BY <1>1, <1>3, SloRowIs
<1> QED
  BY <1>2, <1>3

LEMMA WrittenRows ==
    ASSUME NEW plan, NEW d \in Documents, NEW c, Tables(c), TypedRows(c), Proposes(plan, c),
           NEW r, r = _materialise(plan, d, c)
    PROVE  /\ TypedRows(r)
           /\ Promises(plan, d, c) => HasRows(d, r)
<1>1. /\ r.project = NewProject(plan, c) /\ r.link = NewLink(plan, c)
      /\ r.environments = NewEnvironments(plan, c)
      /\ r.services = NewServices(plan, c) /\ r.slos = NewSlos(plan, c)
  BY Materialised
<1>2. r.link \in {"ours", Absent}
  BY <1>1 DEF NewLink, TypedRows
<1>3. \A k \in EnvKeys : r.environments[k] \in EnvironmentRows \cup {Absent}
  BY <1>1, WrittenEnvironments
<1>4. \A k \in SvcKeys : r.services[k] \in ServiceRows \cup {Absent}
  BY <1>1, WrittenServices
<1>5. \A k \in SloKeys : r.slos[k] \in SloRows \cup {Absent}
  BY <1>1, WrittenSlos
<1>6. r.project \in ProjectRows \cup {Absent}
  BY <1>1, WrittenProject
<1>7. TypedRows(r)
  BY <1>2, <1>3, <1>4, <1>5, <1>6 DEF TypedRows
<1>8. ASSUME Promises(plan, d, c) PROVE HasRows(d, r)
  <2>1. r.project # Absent
    BY <1>1, <1>8, WrittenProject DEF Promises
  <2>2. ASSUME NEW i \in DOMAIN d.environments
        PROVE  r.environments[d.environments[i].key] # Absent
    <3>1. d.environments[i].key \in EnvKeys
      BY KeyIsKnown
    <3>2. \/ c.environments[d.environments[i].key] # Absent
          \/ \E x \in Items(plan, "environment", "create") : x.key = d.environments[i].key
      BY <1>8 DEF Promises
    <3> QED
      BY <1>1, <3>1, <3>2, WrittenEnvironments
  <2>3. ASSUME NEW i \in DOMAIN d.services
        PROVE  r.services[d.services[i].key] # Absent
    <3>1. d.services[i].key \in SvcKeys
      BY KeyIsKnown
    <3>2. \/ c.services[d.services[i].key] # Absent
          \/ \E x \in Items(plan, "service", "create") : x.key = d.services[i].key
      BY <1>8 DEF Promises
    <3> QED
      BY <1>1, <3>1, <3>2, WrittenServices
  <2> QED
    BY <2>1, <2>2, <2>3 DEF HasRows
<1> QED
  BY <1>7, <1>8

----------------------------------------------------------------------------
(* Imports come to rest.                                                   *)

ImportBase ==
    /\ PlanBase /\ TypedRows(catalog) /\ rounds \in Nat
    /\ review # Absent => Proposes(review, catalog)
    /\ review # Absent /\ ~Blocked(review) /\ Fits(manifest) =>
         Promises(review, manifest, catalog)
    /\ rounds >= 1 =>
         /\ Fits(manifest) => HasRows(manifest, catalog)
         /\ review # Absent => review = PlanFor(manifest, catalog, workloads)
    /\ rounds >= 2 /\ Fits(manifest) => Settled(manifest, catalog, workloads)

LEMMA ImportBaseInit == PlanInit => ImportBase
<1> SUFFICES ASSUME PlanInit PROVE ImportBase
  OBVIOUS
<1>1. PlanBase
  BY PlanBaseInit
<1>2. /\ catalog = EmptyCatalog /\ review = Absent /\ rounds = 0
  BY DEF PlanInit
<1> DEFINE c == EmptyCatalog
<1>3. /\ c.project = Absent /\ c.link = Absent
      /\ \A k \in EnvKeys : c.environments[k] = Absent
      /\ \A k \in SvcKeys : c.services[k] = Absent
      /\ \A k \in SloKeys : c.slos[k] = Absent
  BY DEF EmptyCatalog
<1> HIDE DEF c
<1>4. TypedRows(c)
  BY <1>3 DEF TypedRows
<1>5. rounds \in Nat /\ ~(rounds >= 1) /\ ~(rounds >= 2)
  BY <1>2
<1> QED
  BY <1>1, <1>2, <1>4, <1>5 DEF ImportBase, c

LEMMA RowsUntouched ==
    ASSUME NEW c, NEW c2, SameRows(c, c2)
    PROVE  /\ TypedRows(c) => TypedRows(c2)
           /\ \A plan : Proposes(plan, c) => Proposes(plan, c2)
           /\ \A plan, d : Promises(plan, d, c) => Promises(plan, d, c2)
<1>1. TypedRows(c) => TypedRows(c2)
  BY DEF TypedRows, SameRows
<1>2. ASSUME NEW plan, Proposes(plan, c) PROVE Proposes(plan, c2)
  BY <1>2 DEF Proposes, SameRows
<1>3. ASSUME NEW plan, NEW d, Promises(plan, d, c) PROVE Promises(plan, d, c2)
  BY <1>3 DEF Promises, SameRows
<1> QED
  BY <1>1, <1>2, <1>3

LEMMA FirstRounds ==
    /\ 0 \in Nat /\ ~(0 >= 1) /\ ~(0 >= 2)
    /\ \A n \in Nat : /\ n + 1 \in Nat /\ n + 1 >= 1
                      /\ n + 1 >= 2 => n >= 1
OBVIOUS

LEMMA ImportBaseNext ==
    ASSUME ImportBase, [PlanNext]_planVars
    PROVE  ImportBase'
<1>1. PlanBase'
  BY PlanBaseNext DEF ImportBase
<1>2. /\ PlanBase /\ TypedRows(catalog) /\ rounds \in Nat
      /\ Tables(catalog) /\ FewRows(catalog)
      /\ manifest \in Documents /\ manifest \in ManifestDocuments
      /\ workloads \in [Pairs -> SUBSET Workloads]
  BY PlanAssumption DEF ImportBase, PlanBase
<1>3. CASE UNCHANGED planVars
  <2>1. UNCHANGED <<catalog, workloads, manifest, review, rounds>>
    BY <1>3 DEF planVars
  <2> QED
    BY <1>1, <2>1, Zenon DEF ImportBase
<1>4. CASE AnalyzeManifest
  <2> DEFINE plan == PlanFor(manifest, catalog, workloads)
  <2>1. review' = plan /\ UNCHANGED <<catalog, workloads, manifest, rounds>>
    BY <1>4 DEF AnalyzeManifest
  <2>2. Proposes(plan, catalog)
    BY <1>2, ReviewProposes
  <2>3. ~Blocked(plan) /\ Fits(manifest) => Promises(plan, manifest, catalog)
    BY <1>2, ReviewPromises
  <2>4. /\ TypedRows(catalog)' /\ rounds' \in Nat
        /\ (review # Absent => Proposes(review, catalog))'
        /\ (review # Absent /\ ~Blocked(review) /\ Fits(manifest) =>
              Promises(review, manifest, catalog))'
    BY <1>2, <2>1, <2>2, <2>3, Zenon
  <2>5. (rounds >= 1 =>
           /\ Fits(manifest) => HasRows(manifest, catalog)
           /\ review # Absent => review = PlanFor(manifest, catalog, workloads))'
    BY <2>1, Zenon DEF ImportBase
  <2>6. (rounds >= 2 /\ Fits(manifest) => Settled(manifest, catalog, workloads))'
    BY <2>1, Zenon DEF ImportBase
  <2> QED
    BY <1>1, <2>4, <2>5, <2>6, Zenon DEF ImportBase
<1>5. CASE ApplyPlan
  <2>1. /\ review # Absent /\ ~Blocked(review) /\ verify_plan_integrity(review)
        /\ review' = Absent /\ catalog' = _materialise(review, manifest, catalog)
        /\ UNCHANGED <<workloads, manifest>> /\ rounds' = rounds + 1
    BY <1>5 DEF ApplyPlan
  <2>2. /\ Proposes(review, catalog)
        /\ Fits(manifest) => Promises(review, manifest, catalog)
    BY <2>1 DEF ImportBase
  <2>3. /\ TypedRows(catalog')
        /\ Fits(manifest) => HasRows(manifest, catalog')
    BY <1>2, <2>1, <2>2, WrittenRows
  <2>4. ASSUME rounds >= 1, Fits(manifest) PROVE Settled(manifest, catalog', workloads)
    <3>1. HasRows(manifest, catalog) /\ review = PlanFor(manifest, catalog, workloads)
      BY <2>1, <2>4 DEF ImportBase
    <3>2. Again(manifest, catalog, workloads, review, catalog')
      BY <1>2, <2>1, <2>4, <3>1, IntegrityMeansOneKey DEF Again
    <3> QED
      BY <1>2, <3>2, AgainSettles
  <2>5. rounds' \in Nat /\ rounds' >= 1 /\ (rounds' >= 2 => rounds >= 1)
    BY <1>2, <2>1, FirstRounds
  <2>6. TypedRows(catalog)' /\ (Fits(manifest) => HasRows(manifest, catalog))'
    BY <2>1, <2>3, Zenon
  <2>7. (rounds >= 2 /\ Fits(manifest) => Settled(manifest, catalog, workloads))'
    BY <2>1, <2>4, <2>5, Zenon
  <2>8. (review = Absent)'
    BY <2>1
  <2> QED
    BY <1>1, <2>5, <2>6, <2>7, <2>8, Zenon DEF ImportBase
<1>6. CASE DropPlan
  <2>1. review' = Absent /\ UNCHANGED <<catalog, workloads, manifest, rounds>>
    BY <1>6 DEF DropPlan
  <2> QED
    BY <1>1, <2>1, Zenon DEF ImportBase
<1>7. CASE \E d \in Documents : EditManifest(d)
  <2>1. review' = Absent /\ rounds' = 0 /\ UNCHANGED catalog
    BY <1>7 DEF EditManifest, Outside
  <2>2. rounds' \in Nat /\ ~(rounds' >= 1) /\ ~(rounds' >= 2)
    BY <2>1, FirstRounds
  <2>3. TypedRows(catalog)'
    BY <1>2, <2>1, Zenon
  <2> QED
    BY <1>1, <2>1, <2>2, <2>3, Zenon DEF ImportBase
<1>8. CASE \/ \E k \in DepKeys, level \in Range(Verifications) : ConfirmDependency(k, level)
           \/ \E ref \in ClusterRefs : ChangeCluster(ref)
           \/ SwitchedOrBound
  <2>1. /\ SameRows(catalog, catalog') /\ UNCHANGED <<workloads, manifest, review>>
        /\ rounds' = 0
    BY <1>2, <1>8, OutOfBand, BindingsChanged
  <2>2. rounds' \in Nat /\ ~(rounds' >= 1) /\ ~(rounds' >= 2)
    BY <2>1, FirstRounds
  <2>3. /\ TypedRows(catalog')
        /\ \A plan : Proposes(plan, catalog) => Proposes(plan, catalog')
        /\ \A plan, d : Promises(plan, d, catalog) => Promises(plan, d, catalog')
    BY <1>2, <2>1, RowsUntouched
  <2>4. TypedRows(catalog)'
    BY <2>3, Zenon
  <2>5. (review # Absent => Proposes(review, catalog))'
    BY <2>1, <2>3, Zenon DEF ImportBase
  <2>6. (review # Absent /\ ~Blocked(review) /\ Fits(manifest) =>
           Promises(review, manifest, catalog))'
    BY <2>1, <2>3, Zenon DEF ImportBase
  <2> QED
    BY <1>1, <2>2, <2>4, <2>5, <2>6, Zenon DEF ImportBase
<1>9. CASE \E p \in Pairs, found \in SUBSET Workloads : ObserveWorkloads(p, found)
  <2>1. UNCHANGED <<catalog, manifest, review>> /\ rounds' = 0
    BY <1>9 DEF ObserveWorkloads, Outside
  <2>2. rounds' \in Nat /\ ~(rounds' >= 1) /\ ~(rounds' >= 2)
    BY <2>1, FirstRounds
  <2>3. /\ TypedRows(catalog)' /\ (review # Absent => Proposes(review, catalog))'
        /\ (review # Absent /\ ~Blocked(review) /\ Fits(manifest) =>
              Promises(review, manifest, catalog))'
    BY <2>1, Zenon DEF ImportBase
  <2> QED
    BY <1>1, <2>2, <2>3, Zenon DEF ImportBase
<1> QED
  BY <1>3, <1>4, <1>5, <1>6, <1>7, <1>8, <1>9, Zenon DEF PlanNext, SwitchedOrBound

(* Importing comes to rest (onboarding/model.py, service.py): two imports  *)
(* of a manifest that fits a plan, with nothing in between, leave nothing  *)
(* to do but the bindings an operator switched off, and every declared     *)
(* service attached to every declared environment; an import attributes no *)
(* service twice of its own accord; and a binding is resolved in the step  *)
(* that brings it and its workload together.                               *)
THEOREM ImportsComeToRest == PlanSpec => ImportsSettleSafely
<1>1. PlanInit => ImportBase
  BY ImportBaseInit
<1>2. ImportBase /\ [PlanNext]_planVars => ImportBase'
  BY ImportBaseNext
<1>3. ImportBase => ImportSettles
  BY DEF ImportBase, Settled, ImportSettles
<1>4. PlanSpec => []ImportSettles
  BY <1>1, <1>2, <1>3, PTL DEF PlanSpec
<1>5. /\ PlanSpec => [][AttributesOnce]_planVars
      /\ PlanSpec => [][FindsTheirWorkload]_planVars
  BY ImportsBindOnce, BindingsAreFound, Zenon DEF ImportsAttributeOnce, BindingsFindTheirWorkload
<1> QED
  BY <1>4, <1>5, PTL DEF ImportsSettleSafely
=============================================================================
