------------------------ MODULE PlanExecution_proofs ------------------------
(***************************************************************************)
(* The execution of a Plan for any plan, any policies and any number of    *)
(* workers.                                                                *)
(*                                                                         *)
(* A worker appends what the reducer makes of its own copy of the Plan,    *)
(* so the first thing to know is that a copy with the head of the journal  *)
(* is the Plan of the journal (Synced).  Every change of the stored Plan   *)
(* is then one accepted event of the reducer, and what the reducer keeps   *)
(* of a Plan (PlanOK) holds of the stored one.  The claim plays no part in *)
(* this: the compare and set of the head alone keeps a "never" step from   *)
(* being dispatched twice.                                                 *)
(***************************************************************************)
EXTENDS PlanExecution, FiniteSetTheorems, SequenceTheorems, TLAPS

\* What every accepted event keeps of a Plan with the dependencies d.
PlanOK(d, st) ==
    /\ \A s \in Never :
          /\ st.steps[s].attempts <= 1
          /\ st.steps[s].status \in {"pending", "waiting_approval"} => st.steps[s].attempts = 0
    /\ \A s \in StatusIn(st, {"running"}) : DependenciesMet(d, st, s)

\* The copy of a worker is stale, which its head shows, or the stored Plan.
Synced(r, x) == x.head <= r.head /\ (x.head = r.head => x.mem = r.st)

\* What a worker is about to tell, or told, of the envelope it has read: if
\* that envelope is still the stored one and belongs to the stored Plan, the
\* Plan it told of is the stored one too.
Telling(r, t, x) ==
    /\ x.pc \in {"telling", "told"} =>
          /\ x.env.gen <= r.env.gen
          /\ x.env = r.env /\ Phase(r.st) \in Deliverable => x.given = r.st.version
    /\ x.pc = "told" => x.given \in t

\* Only an execution has tasks.
Delivering == {"idle", "claim", "claimed", "telling", "told"}
NoStrayTasks(x) == x.pc \in Delivering => x.tasks = NoTasks

WorkerOK(r, t, x) == Synced(r, x) /\ Telling(r, t, x) /\ NoStrayTasks(x)

\* The types of the variables that play no part in the argument.
OthersOK ==
    /\ prep \in [Steps -> Preparations]
    /\ exec \in ClaimRowStates /\ compl \in ClaimRowStates
    /\ backend \in [Steps -> BackendStates] /\ expired \in SUBSET Steps
    /\ faults \in Nat

Inv ==
    /\ OthersOK
    /\ deps \in [Steps -> SUBSET Steps] /\ \E h \in Hints : deps = BoundDependencies(h)
    /\ rec \in PlanRecords /\ rec.head >= 1 /\ PlanOK(deps, rec.st)
    /\ ran \in [Steps -> Nat] /\ \A s \in Steps : ran[s] = rec.st.steps[s].attempts
    /\ worker \in [Workers -> WorkerStates]
    /\ \A w \in Workers : WorkerOK(rec, told, worker[w])
    /\ told \in SUBSET Nat
    /\ AcknowledgedStateWasTold

-----------------------------------------------------------------------------
(* The reducer *)

EventTypes ==
    ApprovalTypes \cup EndTypes \cup
    {"step_started", "step_recovered", "step_validation_passed", "step_validation_failed",
     "step_succeeded", "step_failed", "step_outcome_unknown"}

Events == [type : EventTypes, step : Steps, appr : {"none", "request", "id"}, version : Nat]

\* What one accepted event does to the state of its step.
LEMMA UpdatedFacts ==
  ASSUME NEW d, NEW exp, NEW st \in PlanStates, NEW e \in Events, Accepts(d, st, e, exp)
  PROVE  LET cur == st.steps[e.step]
             new == Updated(cur, e)
         IN  /\ new \in StepStates
             /\ cur.status \in {"pending", "waiting_approval", "running"}
             /\ IF e.type = "step_started"
                THEN /\ cur.status = "pending" /\ new.attempts = cur.attempts + 1
                     /\ DependenciesMet(d, st, e.step) /\ new.status = "running"
                ELSE /\ new.attempts = cur.attempts
                     /\ new.status = "running" => cur.status = "running"
             /\ e.step \in Never /\ new.status \in {"pending", "waiting_approval"} =>
                   cur.status \in {"pending", "waiting_approval"}
<1> DEFINE cur == st.steps[e.step]
<1>1. cur \in StepStates /\ e.step \in Steps /\ e.type \in EventTypes
      /\ e.appr \in {"none", "request", "id"}
  BY DEF PlanStates, Events
<1>2. CASE e.type = "step_waiting_approval"
  BY <1>1, <1>2 DEF Accepts, AcceptsApproval, Approved, Updated, ApprovalTypes, EndTypes, StepStates, Statuses
<1>3. CASE e.type = "step_approval_granted"
  BY <1>1, <1>3 DEF Accepts, AcceptsApproval, Approved, Updated, ApprovalTypes, EndTypes, StepStates, Statuses
<1>4. CASE e.type = "step_approval_denied"
  BY <1>1, <1>4 DEF Accepts, AcceptsApproval, Approved, Updated, ApprovalTypes, EndTypes, StepStates, Statuses
<1>5. CASE e.type = "step_skipped"
  BY <1>1, <1>5 DEF Accepts, AcceptsEnd, Ended, Updated, ApprovalTypes, EndTypes, StepStates, Statuses
<1>6. CASE e.type = "step_arguments_invalid"
  BY <1>1, <1>6 DEF Accepts, AcceptsEnd, Ended, Updated, ApprovalTypes, EndTypes, StepStates, Statuses
<1>7. CASE e.type = "step_precondition_failed"
  BY <1>1, <1>7 DEF Accepts, AcceptsEnd, Ended, Updated, ApprovalTypes, EndTypes, StepStates, Statuses
<1>8. CASE e.type = "step_not_applicable"
  <2> DEFINE id == IF ~cur.receipt THEN "none" ELSE cur.appr
  <2>1. cur.status \in {"pending", "waiting_approval"}
    BY <1>8 DEF Accepts, AcceptsEnd, ApprovalTypes, EndTypes
  <2>2. Updated(cur, e) = [cur EXCEPT !.status = "not_applicable", !.appr = id, !.error = TRUE]
    BY <1>1, <1>8 DEF Updated, Ended, ApprovalTypes, EndTypes, StepStates
  <2>3. id \in {"none", "request", "id"}
    BY <1>1 DEF StepStates
  <2> HIDE DEF id
  <2> QED
    BY <1>1, <1>8, <2>1, <2>2, <2>3 DEF StepStates, Statuses
<1>9. CASE e.type = "step_started"
  <2>1. AcceptsStart(d, st, e.step, exp)
    BY <1>9 DEF Accepts, ApprovalTypes, EndTypes
  <2>2. Updated(cur, e) = [cur EXCEPT !.status = "running", !.attempts = @ + 1,
                                      !.error = FALSE, !.valid = "none"]
    BY <1>9 DEF Updated, ApprovalTypes, EndTypes
  <2>3. cur.attempts + 1 \in Nat
    BY <1>1 DEF StepStates
  <2>4. Updated(cur, e) \in StepStates
    BY <1>1, <2>2, <2>3 DEF StepStates, Statuses
  <2>5. Updated(cur, e).status = "running" /\ Updated(cur, e).attempts = cur.attempts + 1
    BY <1>1, <2>2 DEF StepStates
  <2>6. cur.status = "pending" /\ DependenciesMet(d, st, e.step)
    BY <2>1 DEF AcceptsStart
  <2> QED
    BY <1>9, <2>4, <2>5, <2>6
<1>10. CASE e.type = "step_recovered"
  <2>1. cur.status = "running" /\ Updated(cur, e) = Recovered(cur, e.step)
    BY <1>10 DEF Accepts, AcceptsOutcome, Updated, ApprovalTypes, EndTypes
  <2> DEFINE status == IF e.step \in Never THEN "manual_intervention" ELSE "pending"
             error == e.step \in Never
  <2>2. Updated(cur, e) = [cur EXCEPT !.status = status, !.valid = "none", !.error = error]
    BY <2>1 DEF Recovered
  <2>3. /\ status \in Statuses /\ status # "running" /\ error \in BOOLEAN
        /\ e.step \in Never => status \notin {"pending", "waiting_approval"}
    BY DEF Statuses
  <2> HIDE DEF status, error
  <2>4. Updated(cur, e) \in StepStates
    BY <1>1, <2>2, <2>3 DEF StepStates
  <2>5. Updated(cur, e).status = status /\ Updated(cur, e).attempts = cur.attempts
    BY <1>1, <2>2 DEF StepStates
  <2> QED
    BY <1>10, <2>1, <2>3, <2>4, <2>5
<1>11. CASE e.type = "step_validation_passed"
  BY <1>1, <1>11 DEF Accepts, AcceptsOutcome, Outcome, Updated, ApprovalTypes, EndTypes, StepStates, Statuses
<1>12. CASE e.type = "step_validation_failed"
  BY <1>1, <1>12 DEF Accepts, AcceptsOutcome, Outcome, Updated, ApprovalTypes, EndTypes, StepStates, Statuses
<1>13. CASE e.type = "step_succeeded"
  BY <1>1, <1>13 DEF Accepts, AcceptsOutcome, Outcome, Updated, ApprovalTypes, EndTypes, StepStates, Statuses
<1>14. CASE e.type = "step_failed"
  BY <1>1, <1>14 DEF Accepts, AcceptsOutcome, Outcome, Updated, ApprovalTypes, EndTypes, StepStates, Statuses
<1>15. CASE e.type = "step_outcome_unknown"
  BY <1>1, <1>15 DEF Accepts, AcceptsOutcome, Outcome, Updated, ApprovalTypes, EndTypes, StepStates, Statuses
<1> QED
  BY <1>1, <1>2, <1>3, <1>4, <1>5, <1>6, <1>7, <1>8, <1>9, <1>10, <1>11, <1>12, <1>13, <1>14, <1>15
     DEF EventTypes, ApprovalTypes, EndTypes

\* One accepted event keeps what is known of a Plan, and counts the attempt
\* of a step that it starts.
LEMMA ApplyKeeps ==
  ASSUME NEW d, NEW exp, NEW st \in PlanStates, NEW e \in Events, Accepts(d, st, e, exp),
         PlanOK(d, st)
  PROVE  /\ Apply(st, e) \in PlanStates
         /\ PlanOK(d, Apply(st, e))
         /\ \A s \in Steps :
               Apply(st, e).steps[s].attempts =
                  IF s = e.step /\ e.type = "step_started" THEN st.steps[s].attempts + 1
                                                           ELSE st.steps[s].attempts
<1> DEFINE cur == st.steps[e.step]
           new == Updated(cur, e)
           after == Apply(st, e)
<1>1. /\ new \in StepStates
      /\ cur.status \in {"pending", "waiting_approval", "running"}
      /\ IF e.type = "step_started"
         THEN /\ cur.status = "pending" /\ new.attempts = cur.attempts + 1
              /\ DependenciesMet(d, st, e.step) /\ new.status = "running"
         ELSE /\ new.attempts = cur.attempts
              /\ new.status = "running" => cur.status = "running"
      /\ e.step \in Never /\ new.status \in {"pending", "waiting_approval"} =>
            cur.status \in {"pending", "waiting_approval"}
  BY UpdatedFacts
<1>2. st.steps \in [Steps -> StepStates] /\ st.version \in Nat /\ e.step \in Steps
      /\ cur \in StepStates
  BY DEF PlanStates, Events
<1> HIDE DEF new
<1>3. /\ after \in PlanStates
      /\ \A s \in Steps : after.steps[s] = IF s = e.step THEN new ELSE st.steps[s]
  BY <1>1, <1>2 DEF PlanStates, Apply, new
<1> HIDE DEF after
<1>4. \A s \in Steps : after.steps[s].attempts =
         IF s = e.step /\ e.type = "step_started" THEN st.steps[s].attempts + 1
                                                  ELSE st.steps[s].attempts
  BY <1>1, <1>3
<1>5. ASSUME NEW s \in Never
      PROVE  /\ after.steps[s].attempts <= 1
             /\ after.steps[s].status \in {"pending", "waiting_approval"} =>
                   after.steps[s].attempts = 0
  <2>1. s \in Steps
    BY PolicyAssumption
  <2>2. /\ st.steps[s].attempts <= 1
        /\ st.steps[s].status \in {"pending", "waiting_approval"} => st.steps[s].attempts = 0
    BY DEF PlanOK
  <2>3. CASE s # e.step
    BY <1>3, <2>1, <2>2, <2>3
  <2>4. CASE s = e.step
    BY <1>1, <1>3, <2>1, <2>2, <2>4
  <2> QED
    BY <2>3, <2>4
<1>6. StatusIn(st, {"succeeded"}) \subseteq StatusIn(after, {"succeeded"})
  BY <1>1, <1>3 DEF StatusIn
<1>7. ASSUME NEW s \in StatusIn(after, {"running"})
      PROVE  DependenciesMet(d, after, s)
  <2>1. DependenciesMet(d, st, s)
    BY <1>1, <1>3, <1>7 DEF PlanOK, StatusIn
  <2> QED
    BY <1>6, <2>1 DEF DependenciesMet
<1> QED
  BY <1>3, <1>4, <1>5, <1>7 DEF PlanOK, after

-----------------------------------------------------------------------------
(* The steps of the workers *)

\* A step that leaves the stored Plan and the history of dispatches alone.
LEMMA WorkerKeeps ==
  ASSUME Inv, NEW w \in Workers, NEW x \in WorkerStates, WorkerOK(rec, told', x),
         worker' = [worker EXCEPT ![w] = x], UNCHANGED <<deps, rec, ran>>,
         told \subseteq told', told' \in SUBSET Nat, OthersOK'
  PROVE  Inv'
<1>1. worker' \in [Workers -> WorkerStates]
  BY DEF Inv
<1>2. \A v \in Workers : WorkerOK(rec', told', worker'[v])
  BY DEF Inv, WorkerOK, Synced, Telling
<1>3. AcknowledgedStateWasTold'
  BY DEF Inv, AcknowledgedStateWasTold
<1> QED
  BY <1>1, <1>2, <1>3 DEF Inv

\* A worker that gives up, or is done, is as good as new.
LEMMA IdleFacts ==
  ASSUME NEW r, NEW t, r.head \in Nat, r.head >= 1
  PROVE  Idle \in WorkerStates /\ WorkerOK(r, t, Idle)
<1>1. InitialState \in PlanStates
  BY DEF InitialState, PlanStates, NewStep, StepStates, Statuses
<1>2. NoTasks \in [Steps -> {"none", "queued", "dispatched", "checked", "done"}]
  BY DEF NoTasks
<1>3. NoEnvelope \in Envelopes
  BY DEF NoEnvelope, Envelopes
<1>4. Idle \in WorkerStates
  BY <1>1, <1>2, <1>3 DEF Idle, WorkerStates
<1>5. Idle.pc = "idle" /\ Idle.head = 0 /\ Idle.tasks = NoTasks
  BY DEF Idle
<1> QED
  BY <1>4, <1>5 DEF WorkerOK, Synced, Telling, NoStrayTasks

\* The fenced append of one accepted event.
LEMMA AppendKeeps ==
  ASSUME Inv, NEW w \in Workers, NEW e \in Events,
         Accepts(deps, worker[w].mem, e, expired), MayAppend(w),
         rec' = Recorded(rec, Apply(worker[w].mem, e)),
         NEW x \in WorkerStates, WorkerOK(rec', told, x),
         worker' = [worker EXCEPT ![w] = x], UNCHANGED <<deps, told>>,
         ran' = IF e.type = "step_started" THEN [ran EXCEPT ![e.step] = @ + 1] ELSE ran,
         OthersOK'
  PROVE  Inv'
<1> DEFINE st == Apply(rec.st, e)
           new == Phase(st) \in Deliverable
<1>1. /\ rec \in PlanRecords /\ rec.st \in PlanStates /\ rec.head \in Nat
      /\ rec.env \in Envelopes /\ rec.env.gen \in Nat /\ rec.pending \in BOOLEAN
  BY DEF Inv, PlanRecords, Envelopes
<1>2. worker[w].mem = rec.st
  BY DEF Inv, WorkerOK, Synced, MayAppend
<1>3. /\ st \in PlanStates /\ PlanOK(deps, st)
      /\ \A s \in Steps : st.steps[s].attempts =
            IF s = e.step /\ e.type = "step_started" THEN rec.st.steps[s].attempts + 1
                                                     ELSE rec.st.steps[s].attempts
  BY <1>1, <1>2, ApplyKeeps DEF Inv
<1>4. rec' = Recorded(rec, st)
  BY <1>2
<1> HIDE DEF st
<1>5. /\ rec' \in PlanRecords /\ rec'.st = st /\ rec'.head = rec.head + 1
      /\ new => rec'.pending /\ rec'.env.gen = rec.env.gen + 1
      /\ ~new => rec'.env = rec.env
  <2>1. rec.head + 1 \in Nat /\ rec.env.gen + 1 \in Nat /\ st.version \in Nat
    BY <1>1, <1>3 DEF PlanStates
  <2>2. CASE new
    <3>1. rec' = [rec EXCEPT !.st = st, !.head = rec.head + 1, !.pending = TRUE,
                             !.env = [gen |-> rec.env.gen + 1, version |-> st.version]]
      BY <1>1, <1>4, <2>2 DEF Recorded, PlanRecords
    <3>2. [gen |-> rec.env.gen + 1, version |-> st.version] \in Envelopes
      BY <2>1 DEF Envelopes
    <3>3. rec' \in PlanRecords
      BY <1>1, <1>3, <2>1, <3>1, <3>2 DEF PlanRecords
    <3>4. /\ rec'.st = st /\ rec'.head = rec.head + 1 /\ rec'.pending
          /\ rec'.env = [gen |-> rec.env.gen + 1, version |-> st.version]
      BY <1>1, <3>1 DEF PlanRecords
    <3> QED
      BY <2>2, <3>3, <3>4
  <2>3. CASE ~new
    <3>1. rec' = [rec EXCEPT !.st = st, !.head = rec.head + 1]
      BY <1>1, <1>4, <2>3 DEF Recorded, PlanRecords
    <3> QED
      BY <1>1, <1>3, <2>1, <2>3, <3>1 DEF PlanRecords
  <2> QED
    BY <2>2, <2>3
<1>6. ran' \in [Steps -> Nat] /\ \A s \in Steps : ran'[s] = rec'.st.steps[s].attempts
  BY <1>3, <1>5 DEF Inv, Events
<1>7. worker' \in [Workers -> WorkerStates]
  BY DEF Inv
<1>8. ASSUME NEW v \in Workers
      PROVE  WorkerOK(rec', told', worker'[v])
  <2>1. CASE v = w
    BY <2>1 DEF Inv
  <2>2. CASE v # w
    <3>1. worker'[v] = worker[v] /\ WorkerOK(rec, told, worker[v]) /\ worker[v] \in WorkerStates
      BY <2>2 DEF Inv
    <3>2. worker[v].head \in Nat /\ worker[v].env.gen \in Nat
      BY <3>1 DEF WorkerStates, Envelopes
    <3>3. Synced(rec', worker[v])
      BY <1>1, <1>5, <3>1, <3>2 DEF WorkerOK, Synced
    <3>4. Telling(rec', told', worker[v])
      <4>1. CASE new
        BY <1>1, <1>5, <3>1, <3>2, <4>1 DEF WorkerOK, Telling
      <4>2. CASE ~new
        BY <1>1, <1>5, <3>1, <3>2, <4>2 DEF WorkerOK, Telling
      <4> QED
        BY <4>1, <4>2
    <3> QED
      BY <3>1, <3>3, <3>4 DEF WorkerOK
  <2> QED
    BY <2>1, <2>2
<1>9. AcknowledgedStateWasTold'
  BY <1>5 DEF AcknowledgedStateWasTold
<1>10. rec'.head >= 1
  BY <1>1, <1>5 DEF Inv
<1> QED
  BY <1>3, <1>5, <1>6, <1>7, <1>8, <1>9, <1>10 DEF Inv

\* An execution that raises or ends.
LEMMA AbortKeeps ==
  ASSUME Inv, NEW w \in Workers, Abort(w), UNCHANGED <<deps, ran, told, prep, compl, expired>>,
         backend' \in [Steps -> BackendStates], faults' \in Nat
  PROVE  Inv'
<1>1. exec' \in ClaimRowStates
  BY DEF Abort, Inv, OthersOK, ClaimRowStates, ReleasedRow
<1>2. OthersOK'
  BY <1>1 DEF Inv, OthersOK
<1>3. Idle \in WorkerStates /\ WorkerOK(rec, told, Idle)
  BY IdleFacts DEF Inv, PlanRecords
<1> QED
  BY <1>2, <1>3, WorkerKeeps DEF Abort, Inv

\* A transition of an executing worker: appended, or the execution raises.
LEMMA TransitionKeeps ==
  ASSUME Inv, NEW w \in Workers, NEW e \in Events, NEW next \in WorkerStates,
         next.pc \notin Delivering, Transition(w, e, next),
         UNCHANGED <<deps, told, prep, compl, expired>>,
         backend' \in [Steps -> BackendStates], faults' \in Nat,
         ran' = IF /\ e.type = "step_started"
                   /\ Accepts(deps, worker[w].mem, e, expired) /\ MayAppend(w)
                THEN [ran EXCEPT ![e.step] = @ + 1] ELSE ran
  PROVE  Inv'
<1>1. CASE Accepts(deps, worker[w].mem, e, expired) /\ MayAppend(w)
  <2> DEFINE st == Apply(worker[w].mem, e)
             x == [next EXCEPT !.mem = st, !.head = rec.head + 1]
  <2>1. /\ rec' = Recorded(rec, st) /\ worker' = [worker EXCEPT ![w] = x]
        /\ UNCHANGED exec
    BY <1>1 DEF Transition
  <2>2. worker[w].mem = rec.st /\ rec \in PlanRecords /\ rec.st \in PlanStates
        /\ rec.head \in Nat /\ PlanOK(deps, rec.st)
    BY <1>1 DEF Inv, WorkerOK, Synced, MayAppend, PlanRecords
  <2>3. st \in PlanStates
    BY <1>1, <2>2, ApplyKeeps
  <2> HIDE DEF st
  <2>4. rec'.st = st /\ rec'.head = rec.head + 1
    BY <2>1, <2>2 DEF Recorded, PlanRecords
  <2>5. x \in WorkerStates
    <3>1. rec.head + 1 \in Nat
      BY <2>2
    <3> QED
      BY <2>3, <3>1 DEF WorkerStates
  <2>6. x.pc = next.pc /\ x.mem = st /\ x.head = rec.head + 1
    BY DEF WorkerStates
  <2>7. WorkerOK(rec', told, x)
    <3> HIDE DEF x
    <3>1. rec.head + 1 <= rec.head + 1
      BY <2>2
    <3> QED
      BY <2>4, <2>6, <3>1 DEF WorkerOK, Synced, Telling, NoStrayTasks, Delivering
  <2>8. OthersOK'
    BY <2>1 DEF Inv, OthersOK
  <2> HIDE DEF x
  <2> QED
    BY <1>1, <2>1, <2>5, <2>7, <2>8, AppendKeeps DEF st
<1>2. CASE ~(Accepts(deps, worker[w].mem, e, expired) /\ MayAppend(w))
  BY <1>2, AbortKeeps DEF Transition
<1> QED
  BY <1>1, <1>2

\* A step of an execution that appends nothing.
LEMMA ExecutingKeeps ==
  ASSUME Inv, NEW w \in Workers, NEW x \in WorkerStates, x.pc \notin Delivering,
         x.mem = worker[w].mem, x.head = worker[w].head,
         worker' = [worker EXCEPT ![w] = x], UNCHANGED <<deps, rec, ran, told>>, OthersOK'
  PROVE  Inv'
<1>1. WorkerOK(rec, told, x)
  BY DEF Inv, WorkerOK, Synced, Telling, NoStrayTasks, Delivering
<1> QED
  BY <1>1, WorkerKeeps DEF Inv

\* A task of a worker moves on.
LEMMA TaskFacts ==
  ASSUME Inv, NEW w \in Workers, NEW s \in Steps,
         NEW task \in {"none", "queued", "dispatched", "checked", "done"}
  PROVE  TaskAt(w, s, task) \in WorkerStates /\ TaskAt(w, s, task).pc = worker[w].pc
<1>1. worker[w] \in WorkerStates
  BY DEF Inv
<1>2. [worker[w].tasks EXCEPT ![s] = task]
         \in [Steps -> {"none", "queued", "dispatched", "checked", "done"}]
  BY <1>1 DEF WorkerStates
<1>3. TaskAt(w, s, task) = [worker[w] EXCEPT !.tasks = [worker[w].tasks EXCEPT ![s] = task]]
  BY <1>1 DEF TaskAt, WorkerStates
<1> QED
  BY <1>1, <1>2, <1>3 DEF WorkerStates

\* A worker with a task under way is executing.
LEMMA TasksExecute ==
  ASSUME Inv, NEW w \in Workers, NEW s \in Steps, worker[w].tasks[s] # "none"
  PROVE  worker[w].pc \notin Delivering
  BY DEF Inv, WorkerOK, NoStrayTasks, NoTasks

\* A step of the outside.
LEMMA OutsideKeeps ==
  ASSUME Inv, UNCHANGED <<deps, rec, worker, ran, told>>, OthersOK'
  PROVE  Inv'
  BY DEF Inv, AcknowledgedStateWasTold

\* The events of the executor are events.
LEMMA EventFacts ==
  ASSUME NEW s \in Steps, NEW type \in EventTypes,
         NEW appr \in {"none", "request", "id"}, NEW version \in Nat
  PROVE  /\ Event(type, s) \in Events /\ Event(type, s).type = type
         /\ Event(type, s).step = s
         /\ ApprovalEvent(type, s, appr, version) \in Events
         /\ ApprovalEvent(type, s, appr, version).type = type
  BY DEF Event, ApprovalEvent, Events

-----------------------------------------------------------------------------
LEMMA InvInit == Init => Inv
<1> SUFFICES ASSUME Init PROVE Inv
  OBVIOUS
<1>1. NewRecord \in PlanRecords /\ NewRecord.st = InitialState /\ NewRecord.head = 1
      /\ NewRecord.env.gen = 0
  BY DEF NewRecord, PlanRecords, Envelopes, NoEnvelope, InitialState, PlanStates, NewStep,
         StepStates, Statuses
<1>2. PlanOK(deps, InitialState)
  BY PolicyAssumption DEF PlanOK, InitialState, NewStep, StatusIn
<1>3. OthersOK
  BY DEF Init, OthersOK, AbsentRow, ClaimRowStates
<1>4. deps \in [Steps -> SUBSET Steps] /\ \E h \in Hints : deps = BoundDependencies(h)
  BY PolicyAssumption, ExecutionAssumption DEF Init, Planned, BoundDependencies, PolicyOK
<1>5. \A s \in Steps : ran[s] = rec.st.steps[s].attempts
  BY <1>1 DEF Init, InitialState, NewStep
<1>6. worker \in [Workers -> WorkerStates] /\ \A w \in Workers : WorkerOK(rec, told, worker[w])
  BY <1>1, IdleFacts DEF Init
<1>7. AcknowledgedStateWasTold
  BY <1>1 DEF Init, AcknowledgedStateWasTold
<1> QED
  BY <1>1, <1>2, <1>3, <1>4, <1>5, <1>6, <1>7 DEF Init, Inv

LEMMA InvNext == Inv /\ [Next]_vars => Inv'
<1> SUFFICES ASSUME Inv, [Next]_vars PROVE Inv'
  OBVIOUS
<1>t. /\ OthersOK /\ rec \in PlanRecords /\ rec.st \in PlanStates /\ rec.head \in Nat
      /\ rec.head >= 1 /\ rec.env \in Envelopes /\ rec.env.gen \in Nat /\ rec.st.version \in Nat
      /\ worker \in [Workers -> WorkerStates] /\ told \in SUBSET Nat
      /\ \A w \in Workers : WorkerOK(rec, told, worker[w])
  BY DEF Inv, PlanRecords, Envelopes, PlanStates
<1>idle. Idle \in WorkerStates /\ WorkerOK(rec, told, Idle)
  BY <1>t, IdleFacts
<1>1. CASE MarkDispatchable
  <2>1. rec' = [rec EXCEPT !.dispatchable = TRUE, !.head = rec.head + 1]
        /\ UNCHANGED <<deps, prep, exec, compl, worker, backend, expired, ran, told, faults>>
    BY <1>1 DEF MarkDispatchable
  <2>2. rec.head + 1 \in Nat
    BY <1>t
  <2>3. rec' \in PlanRecords
    BY <1>t, <2>1, <2>2 DEF PlanRecords
  <2>4. /\ rec'.st = rec.st /\ rec'.head = rec.head + 1 /\ rec'.env = rec.env
        /\ rec'.pending = rec.pending
    BY <1>t, <2>1 DEF PlanRecords
  <2>5. ASSUME NEW w \in Workers PROVE WorkerOK(rec', told', worker'[w])
    <3>1. worker[w].head \in Nat /\ WorkerOK(rec, told, worker[w])
      BY <1>t DEF WorkerStates
    <3> QED
      BY <1>t, <2>1, <2>4, <3>1 DEF WorkerOK, Synced, Telling
  <2>6. AcknowledgedStateWasTold'
    BY <2>1, <2>4 DEF Inv, AcknowledgedStateWasTold
  <2>7. rec'.head >= 1
    BY <1>t, <2>4
  <2> QED
    BY <2>1, <2>3, <2>4, <2>5, <2>6, <2>7 DEF Inv, OthersOK
<1>2. CASE Lapse
  <2>1. OthersOK'
    BY <1>t, <1>2 DEF Lapse, OthersOK, ClaimRowStates, Abandoned
  <2> QED
    BY <1>2, <2>1, OutsideKeeps DEF Lapse
<1>3. ASSUME NEW s \in Steps, Decide(s) \/ ReceiptExpires(s) PROVE Inv'
  <2>1. OthersOK'
    BY <1>t, <1>3 DEF Decide, ReceiptExpires, OthersOK, BackendStates
  <2> QED
    BY <1>3, <2>1, OutsideKeeps DEF Decide, ReceiptExpires
<1>4. ASSUME NEW w \in Workers, Load(w) PROVE Inv'
  <2> DEFINE x == [Idle EXCEPT !.pc = "loaded", !.mem = rec.st, !.head = rec.head]
  <2>1. x \in WorkerStates
    BY <1>t, <1>idle DEF WorkerStates
  <2>2. x.pc = "loaded" /\ x.mem = rec.st /\ x.head = rec.head
    BY <1>idle DEF WorkerStates
  <2>3. worker' = [worker EXCEPT ![w] = x]
    BY <1>4 DEF Load
  <2> HIDE DEF x
  <2>4. WorkerOK(rec, told, x)
    BY <1>t, <2>2 DEF WorkerOK, Synced, Telling, NoStrayTasks, Delivering
  <2> QED
    BY <1>4, <1>t, <2>1, <2>3, <2>4, WorkerKeeps DEF Load, OthersOK
<1>5. ASSUME NEW w \in Workers, AcquireExecution(w) PROVE Inv'
  <2> DEFINE row == AcquiredRow(exec, w, 0, 1)
             x == [worker[w] EXCEPT !.pc = "recover", !.lease = row.gen]
  <2>1. row \in ClaimRowStates /\ ReleasedRow(row) \in ClaimRowStates
    BY <1>t DEF OthersOK, ClaimRowStates, AcquiredRow, ReleasedRow, Held
  <2>2. \/ worker' = [worker EXCEPT ![w] = Idle] /\ exec' \in {exec, ReleasedRow(row)}
        \/ worker' = [worker EXCEPT ![w] = x] /\ exec' = row
    BY <1>5, <1>t DEF AcquireExecution
  <2>3. OthersOK'
    BY <1>5, <1>t, <2>1, <2>2 DEF AcquireExecution, OthersOK
  <2>4. row.gen \in Nat /\ worker[w] \in WorkerStates
    BY <1>t, <2>1 DEF ClaimRowStates
  <2> HIDE DEF row
  <2>5. x \in WorkerStates
    BY <2>4 DEF WorkerStates
  <2>6. x.pc = "recover" /\ x.mem = worker[w].mem /\ x.head = worker[w].head
    BY <2>4 DEF WorkerStates
  <2> HIDE DEF x
  <2>7. UNCHANGED <<deps, rec, ran, told>>
    BY <1>5 DEF AcquireExecution
  <2>8. CASE worker' = [worker EXCEPT ![w] = Idle]
    BY <1>t, <1>idle, <2>3, <2>7, <2>8, WorkerKeeps
  <2>9. CASE worker' = [worker EXCEPT ![w] = x]
    BY <2>3, <2>5, <2>6, <2>7, <2>9, ExecutingKeeps DEF Delivering
  <2> QED
    BY <2>2, <2>8, <2>9
<1>6. ASSUME NEW w \in Workers, NoticeLostLease(w) \/ FinishExecution(w) \/ ExecutionStops(w)
      PROVE  Inv'
  <2>1. Abort(w) /\ UNCHANGED <<deps, ran, told, prep, compl, expired, backend>> /\ faults' \in Nat
    BY <1>6, <1>t DEF NoticeLostLease, FinishExecution, ExecutionStops, OthersOK
  <2> QED
    BY <1>t, <2>1, AbortKeeps DEF OthersOK
<1>7. ASSUME NEW w \in Workers, RecoverStep(w) PROVE Inv'
  <2>1. /\ worker[w] \in WorkerStates /\ worker[w].pc = "recover"
        /\ UNCHANGED <<deps, prep, compl, backend, expired, ran, told, faults>>
    BY <1>7, <1>t DEF RecoverStep
  <2>2. CASE StatusIn(worker[w].mem, {"running"}) = {}
    <3> DEFINE x == [worker[w] EXCEPT !.pc = "loop"]
    <3>1. worker' = [worker EXCEPT ![w] = x] /\ UNCHANGED <<rec, exec>>
      BY <1>7, <1>t, <2>2 DEF RecoverStep
    <3>2. x \in WorkerStates /\ x.pc = "loop" /\ x.mem = worker[w].mem /\ x.head = worker[w].head
      BY <2>1 DEF WorkerStates
    <3> HIDE DEF x
    <3> QED
      BY <1>t, <2>1, <3>1, <3>2, ExecutingKeeps DEF OthersOK, Delivering
  <2>3. CASE StatusIn(worker[w].mem, {"running"}) # {}
    <3>1. PICK s \in Steps : Transition(w, Event("step_recovered", s), worker[w])
      BY <1>7, <2>3 DEF RecoverStep, StatusIn, Same
    <3>2. Event("step_recovered", s) \in Events /\ Event("step_recovered", s).type = "step_recovered"
      BY EventFacts DEF EventTypes
    <3> QED
      BY <1>t, <2>1, <3>1, <3>2, TransitionKeeps DEF OthersOK, Delivering
  <2> QED
    BY <2>2, <2>3
<1>8. ASSUME NEW w \in Workers, SkipBlocked(w) PROVE Inv'
  <2>1. PICK s \in Steps : Transition(w, Event("step_skipped", s), worker[w])
    BY <1>8 DEF SkipBlocked, BlockedSteps, StatusIn, Same
  <2>2. Event("step_skipped", s) \in Events /\ Event("step_skipped", s).type = "step_skipped"
    BY EventFacts DEF EventTypes, EndTypes
  <2>3. /\ worker[w] \in WorkerStates /\ worker[w].pc = "loop"
        /\ UNCHANGED <<deps, prep, compl, backend, expired, ran, told, faults>>
    BY <1>8, <1>t DEF SkipBlocked
  <2> QED
    BY <1>t, <2>1, <2>2, <2>3, TransitionKeeps DEF OthersOK, Delivering
<1>9. ASSUME NEW w \in Workers, RecordGrant(w) PROVE Inv'
  <2> DEFINE version == worker[w].mem.version
             next == [worker[w] EXCEPT !.pc = "loop", !.tasks = NoTasks]
  <2>1. PICK s \in Steps :
           Transition(w, ApprovalEvent("step_approval_granted", s, "id", version), next)
    BY <1>9 DEF RecordGrant
  <2>2. worker[w] \in WorkerStates /\ version \in Nat
    BY <1>t DEF WorkerStates, PlanStates
  <2>3. next \in WorkerStates /\ next.pc = "loop"
    BY <2>2 DEF WorkerStates, NoTasks
  <2>4. UNCHANGED <<deps, prep, compl, backend, expired, ran, told, faults>>
    BY <1>9 DEF RecordGrant
  <2> HIDE DEF next, version
  <2>5. /\ ApprovalEvent("step_approval_granted", s, "id", version) \in Events
        /\ ApprovalEvent("step_approval_granted", s, "id", version).type = "step_approval_granted"
    BY <2>2, EventFacts DEF EventTypes, ApprovalTypes
  <2> QED
    BY <1>t, <2>1, <2>3, <2>4, <2>5, TransitionKeeps DEF OthersOK, Delivering
<1>10. ASSUME NEW w \in Workers, StartBatch(w) \/ BatchDone(w) PROVE Inv'
  <2>1. /\ worker[w] \in WorkerStates
        /\ UNCHANGED <<deps, prep, rec, exec, compl, backend, expired, ran, told, faults>>
    BY <1>10, <1>t DEF StartBatch, BatchDone
  <2>2. PICK pc \in {"loop", "batch"},
             tasks \in [Steps -> {"none", "queued", "dispatched", "checked", "done"}] :
          worker' = [worker EXCEPT ![w] = [worker[w] EXCEPT !.pc = pc, !.tasks = tasks]]
    <3>1. CASE StartBatch(w)
      <4>1. PICK B : worker' = [worker EXCEPT ![w].pc = "batch",
                     ![w].tasks = [s \in Steps |-> IF s \in B THEN "queued" ELSE "none"]]
        BY <3>1 DEF StartBatch
      <4> DEFINE tasks == [s \in Steps |-> IF s \in B THEN "queued" ELSE "none"]
      <4>2. tasks \in [Steps -> {"none", "queued", "dispatched", "checked", "done"}]
        OBVIOUS
      <4>3. worker' = [worker EXCEPT ![w] = [worker[w] EXCEPT !.pc = "batch", !.tasks = tasks]]
        BY <1>t, <4>1
      <4> HIDE DEF tasks
      <4> QED
        BY <4>2, <4>3
    <3>2. CASE BatchDone(w)
      <4>1. worker' = [worker EXCEPT ![w] = [worker[w] EXCEPT !.pc = "loop", !.tasks = NoTasks]]
        BY <1>t, <3>2 DEF BatchDone
      <4>2. NoTasks \in [Steps -> {"none", "queued", "dispatched", "checked", "done"}]
        BY DEF NoTasks
      <4> QED
        BY <4>1, <4>2
    <3> QED
      BY <1>10, <3>1, <3>2
  <2> DEFINE x == [worker[w] EXCEPT !.pc = pc, !.tasks = tasks]
  <2>3. x \in WorkerStates
    BY <2>1 DEF WorkerStates
  <2>4. x.pc = pc /\ x.mem = worker[w].mem /\ x.head = worker[w].head
    BY <2>1 DEF WorkerStates
  <2> HIDE DEF x
  <2>5. worker' = [worker EXCEPT ![w] = x]
    BY <2>2 DEF x
  <2> QED
    BY <1>t, <2>1, <2>3, <2>4, <2>5, ExecutingKeeps DEF OthersOK, Delivering
<1>11. ASSUME NEW w \in Workers, FindCompletion(w) PROVE Inv'
  <2> DEFINE x == [worker[w] EXCEPT !.pc = "claim"]
  <2>1. worker[w] \in WorkerStates /\ worker[w].pc = "idle" /\ WorkerOK(rec, told, worker[w])
    BY <1>11, <1>t DEF FindCompletion
  <2>2. /\ x \in WorkerStates /\ x.pc = "claim" /\ x.mem = worker[w].mem
        /\ x.head = worker[w].head /\ x.tasks = worker[w].tasks
    BY <2>1 DEF WorkerStates
  <2>3. worker' = [worker EXCEPT ![w] = x]
    BY <1>11, <1>t DEF FindCompletion
  <2> HIDE DEF x
  <2>4. WorkerOK(rec, told, x)
    BY <2>1, <2>2 DEF WorkerOK, Synced, Telling, NoStrayTasks, Delivering
  <2> QED
    BY <1>11, <1>t, <2>2, <2>3, <2>4, WorkerKeeps DEF FindCompletion, OthersOK
<1>12. ASSUME NEW w \in Workers, AcquireCompletion(w) PROVE Inv'
  <2> DEFINE row == AcquiredRow(compl, w, 0, 1)
             x == [worker[w] EXCEPT !.pc = "claimed", !.lease = row.gen]
  <2>1. row \in ClaimRowStates
    BY <1>t DEF OthersOK, ClaimRowStates, AcquiredRow, Held
  <2>2. \/ worker' = [worker EXCEPT ![w] = Idle] /\ UNCHANGED compl
        \/ worker' = [worker EXCEPT ![w] = x] /\ compl' = row
    BY <1>12, <1>t DEF AcquireCompletion
  <2>3. OthersOK' /\ UNCHANGED <<deps, rec, ran, told>>
    BY <1>12, <1>t, <2>1, <2>2 DEF AcquireCompletion, OthersOK
  <2>4. /\ row.gen \in Nat /\ worker[w] \in WorkerStates /\ worker[w].pc = "claim"
        /\ WorkerOK(rec, told, worker[w])
    BY <1>12, <1>t, <2>1 DEF ClaimRowStates, AcquireCompletion
  <2> HIDE DEF row
  <2>5. x \in WorkerStates
    BY <2>4 DEF WorkerStates
  <2>6. /\ x.pc = "claimed" /\ x.mem = worker[w].mem /\ x.head = worker[w].head
        /\ x.tasks = worker[w].tasks
    BY <2>4 DEF WorkerStates
  <2> HIDE DEF x
  <2>7. WorkerOK(rec, told, x)
    BY <2>4, <2>6 DEF WorkerOK, Synced, Telling, NoStrayTasks, Delivering
  <2>8. CASE worker' = [worker EXCEPT ![w] = Idle]
    BY <1>t, <1>idle, <2>3, <2>8, WorkerKeeps
  <2>9. CASE worker' = [worker EXCEPT ![w] = x]
    BY <1>t, <2>3, <2>5, <2>7, <2>9, WorkerKeeps
  <2> QED
    BY <2>2, <2>8, <2>9
<1>release. ASSUME NEW w \in Workers, ReleaseCompletion(w), UNCHANGED <<prep, exec, backend, expired>>,
                 faults' \in Nat
            PROVE  OthersOK'
  <2>1. compl' \in ClaimRowStates
    BY <1>release, <1>t DEF ReleaseCompletion, OthersOK, ClaimRowStates, ReleasedRow
  <2> QED
    BY <1>release, <1>t, <2>1 DEF OthersOK
<1>13. ASSUME NEW w \in Workers, LoadCompletion(w) PROVE Inv'
  <2>1. UNCHANGED <<deps, prep, rec, exec, backend, expired, ran, told, faults>>
    BY <1>13 DEF LoadCompletion
  <2>2. CASE rec.pending
    <3> DEFINE x == [worker[w] EXCEPT !.pc = "telling", !.env = rec.env, !.given = rec.st.version]
    <3>1. worker[w] \in WorkerStates /\ worker[w].pc = "claimed" /\ WorkerOK(rec, told, worker[w])
      BY <1>13, <1>t DEF LoadCompletion
    <3>2. worker' = [worker EXCEPT ![w] = x] /\ UNCHANGED compl
      BY <1>13, <1>t, <2>2 DEF LoadCompletion
    <3>3. x \in WorkerStates
      BY <1>t, <3>1 DEF WorkerStates
    <3>4. /\ x.pc = "telling" /\ x.mem = worker[w].mem /\ x.head = worker[w].head
          /\ x.tasks = worker[w].tasks /\ x.env = rec.env /\ x.given = rec.st.version
      BY <3>1 DEF WorkerStates
    <3> HIDE DEF x
    <3>5. WorkerOK(rec, told, x)
      BY <1>t, <3>1, <3>4 DEF WorkerOK, Synced, Telling, NoStrayTasks, Delivering
    <3> QED
      BY <1>t, <2>1, <3>2, <3>3, <3>5, WorkerKeeps DEF OthersOK
  <2>3. CASE ~rec.pending
    <3>1. ReleaseCompletion(w)
      BY <1>13, <2>3 DEF LoadCompletion
    <3>2. OthersOK'
      BY <1>release, <1>t, <2>1, <3>1 DEF OthersOK
    <3> QED
      BY <1>t, <1>idle, <2>1, <3>1, <3>2, WorkerKeeps DEF ReleaseCompletion
  <2> QED
    BY <2>2, <2>3
<1>14. ASSUME NEW w \in Workers, InvokeHandler(w) PROVE Inv'
  <2>1. UNCHANGED <<deps, prep, rec, exec, backend, expired, ran>>
    BY <1>14 DEF InvokeHandler
  <2>2. CASE /\ told' = told \cup {worker[w].given}
             /\ worker' = [worker EXCEPT ![w].pc = "told"]
             /\ UNCHANGED <<compl, faults>>
    <3> DEFINE x == [worker[w] EXCEPT !.pc = "told"]
    <3>1. worker[w] \in WorkerStates /\ worker[w].pc = "telling" /\ WorkerOK(rec, told, worker[w])
      BY <1>14, <1>t DEF InvokeHandler
    <3>2. worker' = [worker EXCEPT ![w] = x]
      BY <1>t, <2>2
    <3>3. x \in WorkerStates
      BY <3>1 DEF WorkerStates
    <3>4. /\ x.pc = "told" /\ x.mem = worker[w].mem /\ x.head = worker[w].head
          /\ x.tasks = worker[w].tasks /\ x.env = worker[w].env /\ x.given = worker[w].given
      BY <3>1 DEF WorkerStates
    <3>5. told \subseteq told' /\ told' \in SUBSET Nat /\ x.given \in told'
      BY <1>t, <2>2, <3>1, <3>4 DEF WorkerStates
    <3> HIDE DEF x
    <3>6. WorkerOK(rec, told', x)
      BY <3>1, <3>4, <3>5 DEF WorkerOK, Synced, Telling, NoStrayTasks, Delivering
    <3>7. OthersOK'
      BY <1>t, <2>1, <2>2 DEF OthersOK
    <3> QED
      BY <2>1, <3>2, <3>3, <3>5, <3>6, <3>7, WorkerKeeps
  <2>3. CASE faults' = faults + 1 /\ ReleaseCompletion(w) /\ UNCHANGED told
    <3>1. OthersOK'
      BY <1>release, <1>t, <2>1, <2>3 DEF OthersOK
    <3> QED
      BY <1>t, <1>idle, <2>1, <2>3, <3>1, WorkerKeeps DEF ReleaseCompletion
  <2> QED
    BY <1>14, <2>2, <2>3 DEF InvokeHandler
<1>15. ASSUME NEW w \in Workers, AckCompletion(w) PROVE Inv'
  <2>1. /\ UNCHANGED <<deps, prep, exec, backend, expired, ran, told, faults>>
        /\ worker' = [worker EXCEPT ![w] = Idle]
    BY <1>15 DEF AckCompletion, ReleaseCompletion
  <2>2. OthersOK'
    BY <1>15, <1>release, <1>t, <2>1 DEF OthersOK, AckCompletion
  <2>3. CASE rec' = rec
    BY <1>t, <1>idle, <2>1, <2>2, <2>3, WorkerKeeps
  <2>4. CASE rec' # rec
    <3>1. /\ rec' = [rec EXCEPT !.pending = FALSE, !.head = rec.head + 1]
          /\ rec.env = worker[w].env /\ worker[w].pc = "told"
      BY <1>15, <2>4 DEF AckCompletion
    <3>2. rec.head + 1 \in Nat
      BY <1>t
    <3>3. rec' \in PlanRecords
      BY <1>t, <3>1, <3>2 DEF PlanRecords
    <3>4. rec'.st = rec.st /\ rec'.head = rec.head + 1 /\ rec'.env = rec.env
      BY <1>t, <3>1 DEF PlanRecords
    <3>5. rec'.head \in Nat /\ rec'.head >= 1
      BY <1>t, <3>4
    <3>6. Phase(rec.st) \in Deliverable => rec.st.version \in told
      BY <1>t, <3>1 DEF WorkerOK, Telling
    <3>7. AcknowledgedStateWasTold'
      BY <2>1, <3>4, <3>6 DEF AcknowledgedStateWasTold
    <3>8. worker' \in [Workers -> WorkerStates]
      BY <1>t, <1>idle, <2>1
    <3>9. ASSUME NEW v \in Workers PROVE WorkerOK(rec', told', worker'[v])
      <4>1. CASE v = w
        BY <1>t, <2>1, <3>5, <4>1, IdleFacts
      <4>2. CASE v # w
        <5>1. worker'[v] = worker[v] /\ worker[v].head \in Nat /\ WorkerOK(rec, told, worker[v])
          BY <1>t, <2>1, <4>2 DEF WorkerStates
        <5> QED
          BY <1>t, <2>1, <3>4, <5>1 DEF WorkerOK, Synced, Telling
      <4> QED
        BY <4>1, <4>2
    <3> QED
      BY <2>1, <2>2, <3>3, <3>4, <3>5, <3>7, <3>8, <3>9 DEF Inv
  <2> QED
    BY <2>3, <2>4
<1>16. ASSUME NEW w \in Workers, Crash(w) PROVE Inv'
  <2>1. OthersOK'
    BY <1>16, <1>t DEF Crash, OthersOK
  <2> QED
    BY <1>16, <1>t, <1>idle, <2>1, WorkerKeeps DEF Crash
<1>asking. ASSUME NEW w \in Workers, NEW s \in Steps, Asking(w, s)
           PROVE  /\ worker[w] \in WorkerStates /\ worker[w].pc = "loop"
                  /\ Asked(w, s) \in WorkerStates /\ Asked(w, s).pc = "loop"
                  /\ Asked(w, s).mem = worker[w].mem /\ Asked(w, s).head = worker[w].head
  BY <1>asking, <1>t DEF Asking, Asked, WorkerStates
<1>17. ASSUME NEW w \in Workers, NEW s \in Steps, PrepareFails(w, s) PROVE Inv'
  <2>1. PICK type \in EndTypes : Transition(w, Event(type, s), worker[w])
    BY <1>17, <1>t DEF PrepareFails, OthersOK, Preparations, EndTypes, Same
  <2>2. Event(type, s) \in Events /\ Event(type, s).type = type
    BY EventFacts DEF EventTypes
  <2>3. /\ worker[w] \in WorkerStates /\ worker[w].pc = "loop"
        /\ UNCHANGED <<deps, prep, compl, backend, expired, ran, told, faults>>
    BY <1>17, <1>asking DEF PrepareFails
  <2> QED
    BY <1>t, <2>1, <2>2, <2>3, TransitionKeeps DEF OthersOK, Delivering, EndTypes
<1>18. ASSUME NEW w \in Workers, NEW s \in Steps, AskPending(w, s) PROVE Inv'
  <2>1. /\ backend' \in [Steps -> BackendStates]
        /\ UNCHANGED <<deps, prep, compl, expired, ran, told, faults>>
    BY <1>18, <1>t DEF AskPending, OthersOK, BackendStates
  <2>2. Asking(w, s)
    BY <1>18 DEF AskPending
  <2>3. CASE worker' = [worker EXCEPT ![w] = Asked(w, s)] /\ UNCHANGED <<rec, exec>>
    BY <1>asking, <1>t, <2>1, <2>2, <2>3, ExecutingKeeps DEF OthersOK, Delivering
  <2>4. CASE Transition(w, ApprovalEvent("step_waiting_approval", s, "id", 0), Asked(w, s))
    <3>1. /\ ApprovalEvent("step_waiting_approval", s, "id", 0) \in Events
          /\ ApprovalEvent("step_waiting_approval", s, "id", 0).type = "step_waiting_approval"
      BY EventFacts DEF EventTypes, ApprovalTypes
    <3> QED
      BY <1>asking, <1>t, <2>1, <2>2, <2>4, <3>1, TransitionKeeps DEF OthersOK, Delivering
  <2> QED
    BY <1>18, <2>3, <2>4 DEF AskPending
<1>19. ASSUME NEW w \in Workers, NEW s \in Steps, AskDenied(w, s) PROVE Inv'
  <2>1. PICK id \in DenialIds :
           Transition(w, ApprovalEvent("step_approval_denied", s, id, 0), Asked(w, s))
    BY <1>19 DEF AskDenied
  <2>2. /\ ApprovalEvent("step_approval_denied", s, id, 0) \in Events
        /\ ApprovalEvent("step_approval_denied", s, id, 0).type = "step_approval_denied"
    BY ExecutionAssumption, EventFacts DEF EventTypes, ApprovalTypes
  <2>3. Asking(w, s) /\ UNCHANGED <<deps, prep, compl, backend, expired, ran, told, faults>>
    BY <1>19 DEF AskDenied
  <2> QED
    BY <1>asking, <1>t, <2>1, <2>2, <2>3, TransitionKeeps DEF OthersOK, Delivering
<1>20. ASSUME NEW w \in Workers, NEW s \in Steps, ConsumeReceipt(w, s) PROVE Inv'
  <2> DEFINE tasks == [worker[w].tasks EXCEPT ![s] = "queued"]
             x == [Asked(w, s) EXCEPT !.pc = "consumed", !.tasks = tasks]
  <2>1. Asking(w, s) /\ backend' = [backend EXCEPT ![s] = "consumed"]
        /\ UNCHANGED <<deps, prep, rec, exec, compl, expired, ran, told, faults>>
    BY <1>20 DEF ConsumeReceipt
  <2>2. /\ Asked(w, s) \in WorkerStates /\ worker[w] \in WorkerStates
        /\ Asked(w, s).tasks = worker[w].tasks
        /\ Asked(w, s).mem = worker[w].mem /\ Asked(w, s).head = worker[w].head
    BY <1>asking, <2>1 DEF Asked, WorkerStates
  <2>3. tasks \in [Steps -> {"none", "queued", "dispatched", "checked", "done"}]
    BY <2>2 DEF WorkerStates
  <2>4. worker' = [worker EXCEPT ![w] = x]
    BY <1>20, <2>2 DEF ConsumeReceipt, WorkerStates
  <2> HIDE DEF tasks
  <2>5. x \in WorkerStates
    BY <2>2, <2>3 DEF WorkerStates
  <2>6. x.pc = "consumed" /\ x.mem = worker[w].mem /\ x.head = worker[w].head
    BY <2>2 DEF WorkerStates
  <2>7. OthersOK'
    BY <1>t, <2>1 DEF OthersOK, BackendStates
  <2> HIDE DEF x
  <2> QED
    BY <2>1, <2>4, <2>5, <2>6, <2>7, ExecutingKeeps DEF Delivering
<1>21. ASSUME NEW w \in Workers, NEW s \in Steps, AskRaises(w, s) PROVE Inv'
  <2> DEFINE e == ApprovalEvent("step_waiting_approval", s, "request", 0)
  <2>1. /\ Asking(w, s) /\ UNCHANGED <<deps, prep, compl, backend, expired, ran, told>>
        /\ faults' \in Nat
    BY <1>21, <1>t DEF AskRaises, OthersOK
  <2>2. CASE worker[w].mem.steps[s].status = "pending" /\ MayAppend(w)
    <3>1. /\ rec' = Recorded(rec, Apply(worker[w].mem, e))
          /\ exec' = ReleasedRow(exec) /\ worker' = [worker EXCEPT ![w] = Idle]
      BY <1>21, <2>2 DEF AskRaises
    <3>2. e \in Events /\ e.type = "step_waiting_approval" /\ e.step = s
      BY EventFacts DEF EventTypes, ApprovalTypes, ApprovalEvent
    <3>3. s \in NeedsApproval /\ ~worker[w].mem.steps[s].receipt
      BY <2>1, <2>2 DEF Asking, ToAsk, StatusIn
    <3> HIDE DEF e
    <3>4. Accepts(deps, worker[w].mem, e, expired)
      BY <2>2, <3>2, <3>3 DEF Accepts, AcceptsApproval, ApprovalTypes
    <3>5. OthersOK'
      BY <1>t, <2>1, <3>1 DEF OthersOK, ClaimRowStates, ReleasedRow
    <3>6. rec'.head = rec.head + 1
      BY <1>t, <3>1 DEF Recorded, PlanRecords
    <3>7. WorkerOK(rec', told, Idle)
      BY <1>t, <3>6, IdleFacts
    <3> QED
      BY <1>idle, <2>1, <2>2, <3>1, <3>2, <3>4, <3>5, <3>7, AppendKeeps
  <2>3. CASE ~(worker[w].mem.steps[s].status = "pending" /\ MayAppend(w))
    BY <1>21, <1>t, <2>1, <2>3, AbortKeeps DEF AskRaises, OthersOK
  <2> QED
    BY <2>2, <2>3
<1>task. ASSUME NEW w \in Workers, NEW s \in Steps, worker[w].tasks[s] # "none",
                NEW type \in EventTypes \ {"step_started"},
                NEW task \in {"none", "queued", "dispatched", "checked", "done"},
                Transition(w, Event(type, s), TaskAt(w, s, task)),
                UNCHANGED <<deps, prep, compl, backend, expired, ran, told, faults>>
         PROVE  Inv'
  <2>1. Event(type, s) \in Events /\ Event(type, s).type = type
    BY EventFacts
  <2>2. TaskAt(w, s, task) \in WorkerStates /\ TaskAt(w, s, task).pc \notin Delivering
    BY <1>task, TaskFacts, TasksExecute
  <2> QED
    BY <1>t, <1>task, <2>1, <2>2, TransitionKeeps DEF OthersOK
<1>22. ASSUME NEW w \in Workers, NEW s \in Steps, StepNotDispatched(w, s) PROVE Inv'
  <2>1. PICK type \in Preparations \ {"ok"} :
           Transition(w, Event(type, s), TaskAt(w, s, "done"))
    BY <1>22 DEF StepNotDispatched
  <2>2. type \in EventTypes \ {"step_started"}
    BY DEF Preparations, EventTypes, EndTypes
  <2> QED
    BY <1>22, <1>task, <2>1, <2>2 DEF StepNotDispatched
<1>23. ASSUME NEW w \in Workers, NEW s \in Steps, Dispatch(w, s) PROVE Inv'
  <2>1. /\ Event("step_started", s) \in Events /\ Event("step_started", s).type = "step_started"
        /\ Event("step_started", s).step = s
    BY EventFacts DEF EventTypes
  <2>2. TaskAt(w, s, "dispatched") \in WorkerStates
        /\ TaskAt(w, s, "dispatched").pc \notin Delivering
    BY <1>23, TaskFacts, TasksExecute DEF Dispatch
  <2> QED
    BY <1>23, <1>t, <2>1, <2>2, TransitionKeeps DEF Dispatch, OthersOK
<1>24. ASSUME NEW w \in Workers, NEW s \in Steps, HandlerRaises(w, s) PROVE Inv'
  <2>1. PICK type \in {"step_failed", "step_outcome_unknown"} :
           Transition(w, Event(type, s), TaskAt(w, s, "done"))
    BY <1>24 DEF HandlerRaises
  <2>2. type \in EventTypes \ {"step_started"}
    BY DEF EventTypes
  <2> QED
    BY <1>24, <1>task, <2>1, <2>2 DEF HandlerRaises
<1>25. ASSUME NEW w \in Workers, NEW s \in Steps, ValidateResult(w, s) PROVE Inv'
  <2>1. /\ "step_validation_passed" \in EventTypes \ {"step_started"}
        /\ "step_validation_failed" \in EventTypes \ {"step_started"}
    BY DEF EventTypes
  <2>2. CASE Transition(w, Event("step_validation_passed", s), TaskAt(w, s, "checked"))
    BY <1>25, <1>task, <2>1, <2>2 DEF ValidateResult
  <2>3. CASE Transition(w, Event("step_validation_failed", s), TaskAt(w, s, "done"))
    BY <1>25, <1>task, <2>1, <2>3 DEF ValidateResult
  <2> QED
    BY <1>25, <2>2, <2>3 DEF ValidateResult
<1>26. ASSUME NEW w \in Workers, NEW s \in Steps, Succeed(w, s) PROVE Inv'
  <2>1. "step_succeeded" \in EventTypes \ {"step_started"}
    BY DEF EventTypes
  <2> QED
    BY <1>26, <1>task, <2>1 DEF Succeed
<1>27. CASE UNCHANGED vars
  BY <1>27, <1>t, OutsideKeeps DEF vars, OthersOK
<1> QED
  BY <1>1, <1>2, <1>3, <1>4, <1>5, <1>6, <1>7, <1>8, <1>9, <1>10, <1>11, <1>12, <1>13, <1>14,
     <1>15, <1>16, <1>17, <1>18, <1>19, <1>20, <1>21, <1>22, <1>23, <1>24, <1>25, <1>26, <1>27
     DEF Next

-----------------------------------------------------------------------------
(* The theorems *)

\* The stored Plan, the claims, the workers and the histories keep their types.
THEOREM TypeCorrect == Spec => []TypeOK
<1>1. Inv => TypeOK
  BY DEF Inv, OthersOK, TypeOK
<1> QED
  BY <1>1, InvInit, InvNext, PTL DEF Spec

\* A step that may not be replayed is dispatched at most once, however many
\* workers load, crash, lose their claims and take the Plan over: the append
\* of step_started compares the head of the journal, and step_recovered sends
\* the step to a person (PlanExecutor._transition, TaskStateMachine.apply).
THEOREM NeverStepOnceHolds == Spec => []NeverStepOnce
<1>1. Inv => NeverStepOnce
  BY PolicyAssumption DEF Inv, PlanOK, NeverStepOnce
<1> QED
  BY <1>1, InvInit, InvNext, PTL DEF Spec

\* For every plan and every hint of the planner, two steps with side effects
\* are under way together only if both policies allow it
\* (bind_trusted_dependencies and the check of step_started).
THEOREM SideEffectsInOrderHolds == Spec => []SideEffectsInOrder
<1>1. Inv => SideEffectsInOrder
  <2> SUFFICES ASSUME Inv, NEW a \in StatusIn(rec.st, {"running"}) \cap Never,
                      NEW b \in StatusIn(rec.st, {"running"}) \cap Never, a # b
               PROVE  {a, b} \subseteq ParallelOk
    BY DEF SideEffectsInOrder
  <2>1. DependenciesMet(deps, rec.st, a) /\ DependenciesMet(deps, rec.st, b)
    BY DEF Inv, PlanOK
  <2>2. a \notin deps[b] /\ b \notin deps[a]
    BY <2>1 DEF DependenciesMet, StatusIn
  <2>3. PICK i \in 1..Len(SourceOrder), j \in 1..Len(SourceOrder) :
          SourceOrder[i] = a /\ SourceOrder[j] = b
    BY DEF StatusIn, Steps
  <2>4. i < j \/ j < i
    BY <2>3, PolicyAssumption
  <2>5. Before(a, b) \/ Before(b, a)
    BY <2>3, <2>4 DEF Before
  <2>6. a \in Steps /\ b \in Steps
    BY DEF StatusIn
  <2> QED
    BY <2>2, <2>5, <2>6 DEF Inv, BoundDependencies
<1> QED
  BY <1>1, InvInit, InvNext, PTL DEF Spec

\* Whatever execution, crash or newer envelope comes between a delivery and
\* its acknowledgement, an acknowledged Plan at rest was told as it is
\* (_deliver_completion, ack_completion).
THEOREM AcknowledgedStateWasToldHolds == Spec => []AcknowledgedStateWasTold
<1>1. Inv => AcknowledgedStateWasTold
  BY DEF Inv
<1> QED
  BY <1>1, InvInit, InvNext, PTL DEF Spec

=============================================================================
