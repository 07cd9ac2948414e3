-------------------------- MODULE Autonomous_proofs --------------------------
(***************************************************************************)
(* What holds of an autonomous Run for any number of Hosts, any budget and *)
(* any number of crashes and lost leases: the ledger covers what was spent *)
(* and stays readable, the answer is one and true, a write is dispatched   *)
(* once, and nothing runs beside a Write of unknown outcome.               *)
(***************************************************************************)
EXTENDS Autonomous, FiniteSetTheorems, SequenceTheorems, WellFoundedInduction, TLAPS

-----------------------------------------------------------------------------
(* The inductive invariant *)

Stages == {"router", "planner"} \cup ControllerStages
StagePcs == {"reserve", "dispatch", "settle"}
StepPcs == {"step_reserve", "step_start", "step_end"}
LoopPcs == {"action", "execute", "validate", "result_validator", "replanner", "register", "registered"}
           \cup StepPcs
AnswerPcs == {"synthesizer", "segment", "finalize"}
Pcs == {"down", "inspect", "recover", "idle", "blocked", "prepare", "router", "planner", "bootstrap", "acquire", "claim",
        "reload", "project", "ack"} \cup StagePcs \cup LoopPcs \cup AnswerPcs
Answers == {"completed", "failed", "manual_intervention"}
Texts == {"default", "model"}
Tickets == {"model"} \X Nat

HostStates ==
    [ pc : Pcs, via : {"none", "prompt", "submit", "startup"}, writes : BOOLEAN, controls : BOOLEAN,
      holds : BOOLEAN, stage : Stages \cup {"none"}, ticket : Tickets \cup {<< >>}, size : Nat,
      calls : Nat, outcome : {"none", "returned", "raised", "unknown"}, plan : Nat, draft : Nat,
      phase : Deliverable, round : Nat, rounds : Nat, actions : Nat,
      status : Deliverable \cup {NoStatus}, text : Texts \cup {NoStatus} ]

PlanStates ==
    [ unsafe : BOOLEAN, approved : BOOLEAN, phase : {"draft", "pending", "running"} \cup Deliverable,
      attempts : Nat, lease : Hosts \cup {NoHost}, generation : Nat, pending : BOOLEAN ]

\* The reservations have no common type; Reservations says what they are.
RunShape(r) ==
    r \in [ exists : BOOLEAN, ok : BOOLEAN, bound : BOOLEAN, linked : BOOLEAN, dispatchable : BOOLEAN,
            closed : BOOLEAN, status : Answers \cup {NoStatus}, text : Texts \cup {NoStatus},
            plan_ids : Seq(Nat), settled : [Resources -> Nat], active : {r.active}, rounds : Nat,
            actions : Nat ]

ConvShape(c) ==
    c \in [ phase : {"none", "running", "completed"}, shown : {c.shown},
            status : Deliverable \cup {NoStatus}, text : Texts \cup {NoStatus} ]

\* What a Host is about: it admits the task, controls the Run, has loaded it
\* as the controller, works on a Plan, or words the answer.
InAdmission(x) == x.pc \in {"router", "planner", "prepare", "bootstrap"} \/ x.stage \in {"router", "planner"}
OnPlan(x) == x.pc \in LoopPcs \/ x.stage \in {"result_validator", "replanner"}
Answering(x) == x.pc \in AnswerPcs \/ x.stage = "synthesizer"
Loaded(x) == OnPlan(x) \/ Answering(x)
InControl(x) == x.pc \in {"acquire", "claim", "reload", "project", "ack"} \/ Loaded(x)
HasTicket(x) == x.pc \in {"dispatch", "settle"}

HostShape(x) ==
    /\ x \in HostStates
    /\ x.stage # "none" <=> x.pc \in StagePcs
    /\ x.holds => x.pc \in StepPcs
    /\ x.controls => x.pc = "reload" \/ Loaded(x)

\* One Plan of ps has completed.
SomeCompleted(ps) == \E p \in DOMAIN ps : ps[p].phase = "completed"

\* What a Host has in its locals fits the ledger r and the Plans ps.
HostOK(x, r, ps, mode) ==
    /\ x.via = "prompt" => r.exists /\ mode = "prompt"
    /\ InAdmission(x) => x.via = mode /\ ~r.closed /\ (x.pc = "prepare" \/ r.exists)
    /\ x.stage = "router" \/ x.pc = "router" => x.via = "prompt"
    /\ InControl(x) => r.bound
    /\ OnPlan(x) => x.plan \in ToSet(r.plan_ids)
    /\ x.pc = "bootstrap" => x.draft \in DOMAIN ps
    /\ x.pc = "register" => x.draft \in DOMAIN ps /\ x.draft \notin ToSet(r.plan_ids)
    /\ x.pc = "registered" => x.draft \in ToSet(r.plan_ids)
    /\ Answering(x) => x.status \in Deliverable
    /\ x.pc \in {"segment", "finalize"} => x.text \in Texts
    /\ x.pc = "finalize" => x.status # "waiting_approval"
    /\ x.pc = "project" /\ x.status # "waiting_approval" =>
          r.status # NoStatus /\ x.status = r.status /\ x.text = r.text
    /\ x.phase = "completed" \/ x.status = "completed" => SomeCompleted(ps)
    /\ HasTicket(x) => /\ x.ticket \in Tickets /\ x.ticket \in Reserved(r)
                       /\ r.active[x.ticket] = Usage("model_calls", x.size)
                       /\ x.pc = "settle" => x.calls <= x.size

\* What a Host may rely on while its claims are good.
PlanHeld(x, r, q) ==
    /\ q.phase \in {"pending", "waiting_approval", "running"}
    /\ q.unsafe /\ x.pc # "step_end" => q.phase # "running"
    /\ x.pc = "step_start" => <<"step", x.plan, q.attempts + 1>> \in Reserved(r)
\* A Write that began since the Host last inspected the Session is open.
Barred(h, unc) == unc.open /\ h \notin unc.beside
LeaseOK(h, x, r, ps, ctl, unc) ==
    /\ x.controls /\ ctl = h /\ Loaded(x) => r.status = NoStatus
    /\ x.holds /\ ps[x.plan].lease = h => PlanHeld(x, r, ps[x.plan])
    /\ Barred(h, unc) => x.pc \in {"down", "inspect", "recover", "blocked"}

\* Two Hosts never share an admission, a correction or a ticket.
ApartOK(x, y) ==
    /\ ~(x.via = "prompt" /\ y.via = "prompt")
    /\ x.pc = "register" /\ y.pc = "register" => x.draft # y.draft
    /\ HasTicket(x) /\ HasTicket(y) => x.ticket # y.ticket

PlanOK(p, x, r) ==
    /\ x \in PlanStates
    /\ x.phase # "draft" <=> p \in ToSet(r.plan_ids)
    /\ x.unsafe => /\ x.attempts <= 1
                   /\ x.phase \in {"draft", "pending", "waiting_approval"} => x.attempts = 0

LedgerOK(r, c, ps) ==
    /\ RunShape(r) /\ ConvShape(c)
    /\ r.ok
    /\ r.linked = r.bound /\ r.dispatchable = r.bound
    /\ c.phase # "none" <=> r.bound
    /\ r.bound => r.exists /\ r.plan_ids # << >>
    /\ ~r.bound => r.plan_ids = << >>
    /\ r.status # NoStatus => r.bound
    /\ r.closed => r.exists /\ ~r.bound
    /\ ToSet(r.plan_ids) \subseteq DOMAIN ps
    /\ c.phase = "completed" => r.status # NoStatus /\ c.text = r.text /\ c.status = r.status
    /\ r.status = "completed" => SomeCompleted(ps)

\* The reservations: model tickets, the steps of a Plan, an attempt of a step.
Reservations(r, ps, budget) ==
    /\ IsFiniteSet(Reserved(r))
    /\ \A id \in Reserved(r) : r.active[id] \in [Resources -> Nat]
    /\ \A n \in Nat : <<"steps", n>> \in Reserved(r) => n \in DOMAIN ps
    /\ \A p, k \in Nat : <<"step", p, k>> \in Reserved(r) =>
          p \in DOMAIN ps /\ r.active[<<"step", p, k>>]["step_attempts"] = 1
    /\ AtMost(ResourceUsage(r), budget)

\* used is what was spent under each reservation that is still open.
ModelUse(used, s, r, hs) ==
    /\ used \in [Reserved(r) -> Nat]
    /\ \A id \in Reserved(r) : used[id] <= r.active[id]["model_calls"]
    /\ \A h \in Hosts : /\ hs[h].pc = "dispatch" => used[hs[h].ticket] = 0
                        /\ hs[h].pc = "settle" => used[hs[h].ticket] <= hs[h].calls
    /\ s["model_calls"] <= r.settled["model_calls"] + SumFunction(used)

StepUse(used, s, r, ps) ==
    /\ used \in [Reserved(r) -> Nat]
    /\ \A id \in Reserved(r) : used[id] <= r.active[id]["step_attempts"]
    /\ \A p, k \in Nat : <<"step", p, k>> \in Reserved(r) /\ k > ps[p].attempts => used[<<"step", p, k>>] = 0
    /\ s["step_attempts"] <= SumFunction(used)

SpentOK(s, r, ps, hs) ==
    /\ s \in [Resources -> Nat] /\ s["plan_steps"] = 0
    /\ \E used : ModelUse(used, s, r, hs)
    /\ \E used : StepUse(used, s, r, ps)

PlansOK(ps, r) == ps \in Seq(PlanStates) /\ \A p \in DOMAIN ps : PlanOK(p, ps[p], r)
HostsOK(hs, r, ps, mode) ==
    /\ hs \in [Hosts -> HostStates]
    /\ \A h \in Hosts : HostShape(hs[h]) /\ HostOK(hs[h], r, ps, mode)
LeasesOK(hs, r, ps, ctl, unc) == \A h \in Hosts : LeaseOK(h, hs[h], r, ps, ctl, unc)
ApartsOK(hs) == \A g, h \in Hosts : g # h => ApartOK(hs[g], hs[h])

\* The invariant, as a predicate of the state's parts, so that a step can be
\* taken apart into changes of one part at a time.
InvAt(d, r, ps, c, ctl, unc, hs, s) ==
    /\ d \in Deployments
    /\ r.closed => d.mode = "prompt"
    /\ LedgerOK(r, c, ps)
    /\ PlansOK(ps, r)
    /\ HostsOK(hs, r, ps, d.mode)
    /\ LeasesOK(hs, r, ps, ctl, unc)
    /\ ApartsOK(hs)
    /\ Reservations(r, ps, d.budget)
    /\ SpentOK(s, r, ps, hs)

Inv == InvAt(dep, run, plans, conv, controller, uncertain, hosts, spent)

-----------------------------------------------------------------------------
(* Sums over the reservations *)

\* Induction on the natural numbers, for a set.
LEMMA SetInduction ==
  ASSUME NEW T \in SUBSET Nat, 0 \in T, \A n \in T : n + 1 \in T
  PROVE  T = Nat
<1> SUFFICES ASSUME Nat \ T # {} PROVE FALSE
  OBVIOUS
<1> DEFINE less == OpToRel(<, Nat)
           rest == Nat \ T
<1>1. IsWellFoundedOn(less, Nat)
  BY NatLessThanWellFounded
<1>2. \A x \in Nat, y \in Nat : <<x, y>> \in less <=> x < y
  BY DEF OpToRel
<1>3. rest \subseteq Nat /\ rest # {}
  OBVIOUS
<1> HIDE DEF less, rest
<1>4. PICK m \in rest : \A y \in rest : <<y, m>> \notin less
  BY <1>1, <1>3, WFMin
<1>5. m \in Nat /\ m - 1 \in Nat /\ m - 1 < m
  BY <1>4 DEF rest
<1>6. m - 1 \in rest
  <2>1. (m - 1) + 1 = m
    BY <1>5
  <2> QED
    BY <1>4, <1>5, <2>1 DEF rest
<1>7. <<m - 1, m>> \in less
  BY <1>2, <1>5
<1> QED
  BY <1>4, <1>6, <1>7

\* The element the fold takes out of a set, and what one step of it adds.
Taken(s) == CHOOSE x \in s : TRUE
Added(f, it, s) == IF s = {} THEN 0 ELSE f[Taken(s)] + it[s \ {Taken(s)}]
\* it is the fold that SumFunction makes of f.
Sums(f, it) == it = [s \in SUBSET DOMAIN f |-> Added(f, it, s)]

LEMMA TakenFacts ==
  ASSUME NEW s, s # {}
  PROVE  Taken(s) \in s
  BY DEF Taken

\* The subsets of a finite set, by their number of elements.
LEMMA SubsetFacts ==
  ASSUME NEW D, IsFiniteSet(D), NEW s \in SUBSET D
  PROVE  /\ IsFiniteSet(s) /\ Cardinality(s) \in Nat /\ Cardinality(s) <= Cardinality(D)
         /\ Cardinality(s) = 0 <=> s = {}
         /\ \A y \in s : /\ s \ {y} \in SUBSET D /\ Cardinality(s \ {y}) \in Nat
                         /\ Cardinality(s \ {y}) + 1 = Cardinality(s)
<1>1. IsFiniteSet(s) /\ Cardinality(s) <= Cardinality(D)
  BY FS_Subset
<1>2. Cardinality(s) \in Nat
  BY <1>1, FS_CardinalityType
<1>3. Cardinality(s) = 0 <=> s = {}
  BY <1>1, FS_EmptySet
<1>4. ASSUME NEW y \in s
      PROVE  /\ s \ {y} \in SUBSET D /\ Cardinality(s \ {y}) \in Nat
             /\ Cardinality(s \ {y}) + 1 = Cardinality(s)
  <2>1. IsFiniteSet(s \ {y}) /\ Cardinality(s \ {y}) = Cardinality(s) - 1
    BY <1>1, FS_RemoveElement
  <2>2. Cardinality(s \ {y}) \in Nat
    BY <2>1, FS_CardinalityType
  <2> QED
    BY <1>2, <2>1, <2>2
<1> QED
  BY <1>1, <1>2, <1>3, <1>4

\* The recursion of the fold has a solution.
LEMMA SumsExist ==
  ASSUME NEW f, IsFiniteSet(DOMAIN f)
  PROVE  \E it : Sums(f, it)
<1> DEFINE D == DOMAIN f
           Upto(n, it) == /\ it = [s \in SUBSET D |-> it[s]]
                          /\ \A s \in SUBSET D : Cardinality(s) <= n => it[s] = Added(f, it, s)
           T == {n \in Nat : \E it : Upto(n, it)}
<1>1. 0 \in T
  <2> DEFINE it == [s \in SUBSET D |-> 0]
  <2>1. \A s \in SUBSET D : Cardinality(s) <= 0 => s = {}
    BY SubsetFacts
  <2>2. \A s \in SUBSET D : Cardinality(s) <= 0 => it[s] = Added(f, it, s)
    BY <2>1 DEF Added
  <2> QED
    BY <2>2
<1>2. ASSUME NEW n \in T PROVE n + 1 \in T
  <2>1. PICK it : Upto(n, it)
    OBVIOUS
  <2>2. n \in Nat
    OBVIOUS
  <2> DEFINE next == [s \in SUBSET D |-> IF Cardinality(s) <= n THEN it[s] ELSE Added(f, it, s)]
  <2>3. ASSUME NEW s \in SUBSET D, Cardinality(s) <= n + 1 PROVE next[s] = Added(f, next, s)
    <3>1. next[s] = Added(f, it, s)
      BY <2>1
    <3>2. CASE s = {}
      BY <3>1, <3>2 DEF Added
    <3>3. CASE s # {}
      <4> DEFINE x == Taken(s)
                 rest == s \ {x}
      <4>1. x \in s
        BY <3>3, TakenFacts
      <4>2. rest \in SUBSET D /\ Cardinality(rest) <= n
        BY <2>2, <2>3, <4>1, SubsetFacts
      <4>3. next[rest] = it[rest]
        BY <4>2
      <4>4. Added(f, next, s) = f[x] + next[rest] /\ Added(f, it, s) = f[x] + it[rest]
        BY <3>3 DEF Added
      <4> QED
        BY <3>1, <4>3, <4>4
    <3> QED
      BY <3>2, <3>3
  <2> HIDE DEF Upto
  <2>4. next = [s \in SUBSET D |-> next[s]]
    OBVIOUS
  <2> HIDE DEF next
  <2>5. Upto(n + 1, next)
    BY <2>3, <2>4 DEF Upto
  <2> QED
    BY <2>2, <2>5
<1>3. Cardinality(D) \in T
  <2>1. T = Nat
    <3>1. T \in SUBSET Nat
      OBVIOUS
    <3> HIDE DEF T
    <3> QED
      BY <1>1, <1>2, <3>1, SetInduction
  <2> QED
    BY <2>1, FS_CardinalityType
<1>4. PICK it : Upto(Cardinality(D), it)
  BY <1>3
<1>5. \A s \in SUBSET D : it[s] = Added(f, it, s)
  BY <1>4, SubsetFacts
<1>6. it = [s \in SUBSET D |-> it[s]]
  BY <1>4
<1> HIDE DEF Upto, T
<1>7. Sums(f, it)
  BY <1>5, <1>6 DEF Sums
<1> QED
  BY <1>7

LEMMA SumIsSums ==
  ASSUME NEW f, IsFiniteSet(DOMAIN f)
  PROVE  \E it : Sums(f, it) /\ SumFunction(f) = it[DOMAIN f]
<1> DEFINE it == CHOOSE it : Sums(f, it)
<1>1. Sums(f, it)
  BY SumsExist
<1>2. SumFunction(f) = it[DOMAIN f]
  BY DEF SumFunction, SumFunctionOnSet, FoldFunctionOnSet, MapThenFoldSet, Sums, Added, Taken
<1> QED
  BY <1>1, <1>2
\* The order in which the fold takes the elements does not matter.
LEMMA SumsFacts ==
  ASSUME NEW f, IsFiniteSet(DOMAIN f), f \in [DOMAIN f -> Nat], NEW it, Sums(f, it)
  PROVE  \A s \in SUBSET DOMAIN f :
            it[s] \in Nat /\ \A y \in s : it[s] = f[y] + it[s \ {y}]
<1> DEFINE D == DOMAIN f
           Good(s) == it[s] \in Nat /\ \A y \in s : it[s] = f[y] + it[s \ {y}]
           T == {n \in Nat : \A s \in SUBSET D : Cardinality(s) <= n => Good(s)}
<1>1. \A s \in SUBSET D : it[s] = Added(f, it, s)
  BY DEF Sums
<1>2. 0 \in T
  <2>1. ASSUME NEW s \in SUBSET D, Cardinality(s) <= 0 PROVE Good(s)
    <3>1. s = {}
      BY <2>1, SubsetFacts
    <3>2. it[s] = 0
      BY <1>1, <3>1 DEF Added
    <3> QED
      BY <3>1, <3>2
  <2> QED
    BY <2>1
<1>3. ASSUME NEW n \in T PROVE n + 1 \in T
  <2>1. n \in Nat /\ \A s \in SUBSET D : Cardinality(s) <= n => Good(s)
    OBVIOUS
  <2>2. ASSUME NEW s \in SUBSET D, Cardinality(s) <= n + 1, s # {} PROVE Good(s)
    <3> DEFINE x == Taken(s)
    <3>1. x \in s
      BY <2>2, TakenFacts
    <3>2. it[s] = f[x] + it[s \ {x}]
      BY <1>1, <2>2 DEF Added
    <3>3. ASSUME NEW y \in s PROVE s \ {y} \in SUBSET D /\ Good(s \ {y})
      <4>1. s \ {y} \in SUBSET D /\ Cardinality(s \ {y}) <= n
        BY <2>1, <2>2, SubsetFacts
      <4> QED
        BY <2>1, <4>1
    <3>4. \A y \in s : f[y] \in Nat /\ it[s \ {y}] \in Nat
      BY <3>3
    <3>5. ASSUME NEW y \in s, y # x PROVE it[s] = f[y] + it[s \ {y}]
      <4> DEFINE both == s \ {x, y}
      <4>1. (s \ {x}) \ {y} = both /\ (s \ {y}) \ {x} = both
        OBVIOUS
      <4>2. it[s \ {x}] = f[y] + it[both]
        BY <3>1, <3>3, <3>5, <4>1
      <4>3. it[s \ {y}] = f[x] + it[both]
        BY <3>1, <3>3, <3>5, <4>1
      <4>4. it[both] \in Nat
        <5>1. both \in SUBSET D /\ Cardinality(both) <= n
          <6>1. s \ {x} \in SUBSET D /\ Cardinality(s \ {x}) <= n /\ Cardinality(s \ {x}) \in Nat /\ y \in s \ {x}
            BY <2>1, <2>2, <3>1, <3>5, SubsetFacts
          <6>2. (s \ {x}) \ {y} \in SUBSET D /\ Cardinality((s \ {x}) \ {y}) + 1 = Cardinality(s \ {x})
                /\ Cardinality((s \ {x}) \ {y}) \in Nat
            BY <6>1, SubsetFacts
          <6>3. Cardinality((s \ {x}) \ {y}) <= n
            <7> DEFINE one == Cardinality(s \ {x})
                       two == Cardinality((s \ {x}) \ {y})
            <7>1. one \in Nat /\ two \in Nat /\ two + 1 = one /\ one <= n
              BY <6>1, <6>2
            <7> HIDE DEF one, two
            <7>2. two <= n
              BY <2>1, <7>1
            <7> QED
              BY <7>2 DEF two
          <6> QED
            BY <4>1, <6>2, <6>3, Zenon
        <5> QED
          BY <2>1, <5>1
      <4> HIDE DEF both, x
      <4>5. f[x] \in Nat /\ f[y] \in Nat
        BY <3>1, <3>4
      <4> QED
        BY <3>2, <4>2, <4>3, <4>4, <4>5
    <3> HIDE DEF x
    <3>6. it[s] \in Nat
      BY <3>1, <3>2, <3>4
    <3>7. \A y \in s : it[s] = f[y] + it[s \ {y}]
      BY <3>2, <3>5
    <3> QED
      BY <3>6, <3>7
  <2>3. Good({})
    <3>1. it[{}] = 0
      BY <1>1 DEF Added
    <3> QED
      BY <3>1
  <2> HIDE DEF Good
  <2> QED
    BY <2>1, <2>2, <2>3
<1>4. T = Nat
  <2>1. T \in SUBSET Nat
    OBVIOUS
  <2> HIDE DEF T
  <2> QED
    BY <1>2, <1>3, <2>1, SetInduction
<1>5. \A s \in SUBSET D : Good(s)
  <2> SUFFICES ASSUME NEW s \in SUBSET D PROVE Good(s)
    OBVIOUS
  <2>1. Cardinality(s) \in T
    BY <1>4, SubsetFacts
  <2> HIDE DEF Good
  <2>2. Cardinality(s) \in Nat
    BY SubsetFacts
  <2> QED
    BY <2>1, <2>2
<1> QED
  BY <1>5

\* A sum over part of two functions.
LEMMA SumsLeq ==
  ASSUME NEW f, IsFiniteSet(DOMAIN f), f \in [DOMAIN f -> Nat], NEW it, Sums(f, it),
         NEW g, IsFiniteSet(DOMAIN g), g \in [DOMAIN g -> Nat], NEW jt, Sums(g, jt),
         NEW S, S \subseteq DOMAIN f, S \subseteq DOMAIN g, \A x \in S : f[x] <= g[x]
  PROVE  it[S] <= jt[S]
<1> DEFINE T == {n \in Nat : \A s \in SUBSET S : Cardinality(s) <= n => it[s] <= jt[s]}
<1>1. /\ \A s \in SUBSET DOMAIN f : it[s] \in Nat /\ \A y \in s : it[s] = f[y] + it[s \ {y}]
      /\ \A s \in SUBSET DOMAIN g : jt[s] \in Nat /\ \A y \in s : jt[s] = g[y] + jt[s \ {y}]
  <2>1. \A s \in SUBSET DOMAIN f : it[s] \in Nat /\ \A y \in s : it[s] = f[y] + it[s \ {y}]
    BY SumsFacts
  <2>2. \A s \in SUBSET DOMAIN g : jt[s] \in Nat /\ \A y \in s : jt[s] = g[y] + jt[s \ {y}]
    BY ONLY SumsFacts, IsFiniteSet(DOMAIN g), g \in [DOMAIN g -> Nat], Sums(g, jt)
  <2> QED
    BY <2>1, <2>2
<1>2. IsFiniteSet(S)
  BY FS_Subset
<1>3. it[{}] = 0 /\ jt[{}] = 0
  BY DEF Sums, Added
<1>4. 0 \in T
  <2>1. \A s \in SUBSET S : Cardinality(s) <= 0 => s = {}
    BY <1>2, SubsetFacts
  <2> QED
    BY <1>3, <2>1
<1>5. ASSUME NEW n \in T PROVE n + 1 \in T
  <2>1. n \in Nat /\ \A s \in SUBSET S : Cardinality(s) <= n => it[s] <= jt[s]
    OBVIOUS
  <2>2. ASSUME NEW s \in SUBSET S, Cardinality(s) <= n + 1, s # {} PROVE it[s] <= jt[s]
    <3>1. PICK y \in s : TRUE
      BY <2>2
    <3>2. s \ {y} \in SUBSET S /\ Cardinality(s \ {y}) <= n
      BY <1>2, <2>1, <2>2, SubsetFacts
    <3>3. it[s \ {y}] <= jt[s \ {y}]
      BY <2>1, <3>2
    <3>4. it[s] = f[y] + it[s \ {y}] /\ jt[s] = g[y] + jt[s \ {y}]
      BY <1>1, <2>2
    <3>5. it[s \ {y}] \in Nat /\ jt[s \ {y}] \in Nat /\ f[y] \in Nat /\ g[y] \in Nat /\ f[y] <= g[y]
      BY <1>1, <2>2, <3>2
    <3> QED
      BY <3>3, <3>4, <3>5
  <2>3. ASSUME NEW s \in SUBSET S, s = {} PROVE it[s] <= jt[s]
    BY <1>3, <2>3
  <2> QED
    BY <2>1, <2>2, <2>3
<1>6. T = Nat
  <2>1. T \in SUBSET Nat
    OBVIOUS
  <2> HIDE DEF T
  <2> QED
    BY <1>4, <1>5, <2>1, SetInduction
<1>7. Cardinality(S) \in T
  BY <1>2, <1>6, FS_CardinalityType
<1>8. Cardinality(S) \in Nat
  BY <1>2, FS_CardinalityType
<1> QED
  BY <1>7, <1>8

LEMMA SumNat ==
  ASSUME NEW f, IsFiniteSet(DOMAIN f), f \in [DOMAIN f -> Nat]
  PROVE  SumFunction(f) \in Nat
<1>1. PICK it : Sums(f, it) /\ SumFunction(f) = it[DOMAIN f]
  BY SumIsSums
<1> QED
  BY <1>1, SumsFacts

LEMMA SumLeq ==
  ASSUME NEW D, IsFiniteSet(D), NEW f \in [D -> Nat], NEW g \in [D -> Nat],
         \A x \in D : f[x] <= g[x]
  PROVE  SumFunction(f) <= SumFunction(g)
<1>1. DOMAIN f = D /\ DOMAIN g = D
  OBVIOUS
<1>2. PICK it : Sums(f, it) /\ SumFunction(f) = it[D]
  BY <1>1, SumIsSums
<1>3. PICK jt : Sums(g, jt) /\ SumFunction(g) = jt[D]
  BY <1>1, SumIsSums
<1> QED
  BY <1>1, <1>2, <1>3, SumsLeq

\* One element taken out of a sum.
LEMMA SumSplit ==
  ASSUME NEW f, NEW g, NEW y, IsFiniteSet(DOMAIN f), y \in DOMAIN f, DOMAIN g = DOMAIN f \ {y},
         f \in [DOMAIN f -> Nat], g \in [DOMAIN g -> Nat], \A x \in DOMAIN g : g[x] = f[x]
  PROVE  /\ SumFunction(f) = f[y] + SumFunction(g)
         /\ SumFunction(f) \in Nat /\ SumFunction(g) \in Nat
<1> DEFINE D == DOMAIN f
<1>1. DOMAIN g = D \ {y} /\ IsFiniteSet(D \ {y})
  BY FS_RemoveElement
<1>2. PICK it : Sums(f, it) /\ SumFunction(f) = it[D]
  BY <1>1, SumIsSums
<1>3. PICK jt : Sums(g, jt) /\ SumFunction(g) = jt[D \ {y}]
  BY <1>1, SumIsSums
<1>4. it[D] = f[y] + it[D \ {y}] /\ it[D \ {y}] \in Nat /\ it[D] \in Nat
  <2>1. \A s \in SUBSET D : it[s] \in Nat /\ \A x \in s : it[s] = f[x] + it[s \ {x}]
    BY <1>1, <1>2, SumsFacts
  <2>2. D \in SUBSET D /\ D \ {y} \in SUBSET D
    OBVIOUS
  <2> QED
    BY <2>1, <2>2
<1>5. jt[D \ {y}] \in Nat
  BY <1>1, <1>3, SumsFacts
<1>6. \A x \in D \ {y} : f[x] <= g[x] /\ g[x] <= f[x]
  OBVIOUS
<1>7. it[D \ {y}] <= jt[D \ {y}] /\ jt[D \ {y}] <= it[D \ {y}]
  BY <1>1, <1>2, <1>3, <1>6, SumsLeq
<1> QED
  BY <1>2, <1>3, <1>4, <1>5, <1>7
-----------------------------------------------------------------------------
(* The ledger *)

Funded(r) ==
    /\ IsFiniteSet(Reserved(r)) /\ r.settled \in [Resources -> Nat]
    /\ \A id \in Reserved(r) : r.active[id] \in [Resources -> Nat]

LEMMA UsageNat ==
  ASSUME NEW r, Funded(r), NEW x \in Resources
  PROVE  ResourceUsage(r)[x] \in Nat
<1> DEFINE f == [id \in Reserved(r) |-> r.active[id][x]]
<1>1. DOMAIN f = Reserved(r) /\ f \in [DOMAIN f -> Nat]
  BY DEF Funded
<1> HIDE DEF f
<1>2. SumFunction(f) \in Nat
  BY <1>1, SumNat DEF Funded
<1>3. ResourceUsage(r)[x] = r.settled[x] + SumFunction(f)
  BY DEF ResourceUsage, f
<1> QED
  BY <1>2, <1>3 DEF Funded

\* Every other open reservation is kept.
KeepsBut(r2, r, id) == \A i \in Reserved(r) \ {id} : i \in Reserved(r2) /\ r2.active[i] = r.active[i]

LEMMA WithFacts ==
  ASSUME NEW r, NEW id, NEW amount, NEW r2, r2.active = With(r.active, id, amount)
  PROVE  /\ Reserved(r2) = Reserved(r) \cup {id} /\ r2.active[id] = amount
         /\ KeepsBut(r2, r, id)
  BY DEF With, Reserved, KeepsBut

LEMMA WithoutFacts ==
  ASSUME NEW r, NEW id, NEW r2, r2.active = Without(r.active, id)
  PROVE  /\ Reserved(r2) = Reserved(r) \ {id}
         /\ KeepsBut(r2, r, id)
  BY DEF Without, Reserved, KeepsBut

\* A new reservation is charged in full.
LEMMA ReserveUsage ==
  ASSUME NEW r, Funded(r), NEW id, id \notin Reserved(r), NEW amount \in [Resources -> Nat],
         NEW r2, r2.active = With(r.active, id, amount), r2.settled = r.settled
  PROVE  /\ Funded(r2)
         /\ \A x \in Resources : ResourceUsage(r2)[x] = ResourceUsage(r)[x] + amount[x]
<1>1. /\ Reserved(r2) = Reserved(r) \cup {id} /\ r2.active[id] = amount
      /\ KeepsBut(r2, r, id)
  BY WithFacts
<1>2. Funded(r2)
  <2>1. IsFiniteSet(Reserved(r2))
    BY <1>1, FS_AddElement DEF Funded
  <2> QED
    BY <1>1, <2>1 DEF Funded, KeepsBut
<1>3. ASSUME NEW x \in Resources PROVE ResourceUsage(r2)[x] = ResourceUsage(r)[x] + amount[x]
  <2> DEFINE f == [i \in Reserved(r) |-> r.active[i][x]]
             f2 == [i \in Reserved(r2) |-> r2.active[i][x]]
  <2>1. f2 \in [Reserved(r2) -> Nat] /\ f \in [Reserved(r2) \ {id} -> Nat] /\ id \in Reserved(r2)
    BY <1>1, <1>2 DEF Funded
  <2>2. f2[id] = amount[x] /\ \A i \in Reserved(r2) \ {id} : f[i] = f2[i]
    BY <1>1 DEF KeepsBut
  <2>3. ResourceUsage(r2)[x] = r2.settled[x] + SumFunction(f2)
        /\ ResourceUsage(r)[x] = r.settled[x] + SumFunction(f)
    BY DEF ResourceUsage
  <2> HIDE DEF f, f2
  <2>4. SumFunction(f2) = f2[id] + SumFunction(f) /\ SumFunction(f) \in Nat
    <3>1. IsFiniteSet(Reserved(r2))
      BY <1>2 DEF Funded
    <3>2. DOMAIN f2 = Reserved(r2) /\ DOMAIN f = DOMAIN f2 \ {id}
      BY <2>1
    <3>3. /\ IsFiniteSet(DOMAIN f2) /\ id \in DOMAIN f2
          /\ f2 \in [DOMAIN f2 -> Nat] /\ f \in [DOMAIN f -> Nat] /\ \A i \in DOMAIN f : f[i] = f2[i]
      BY <2>1, <2>2, <3>1, <3>2
    <3> QED
      BY ONLY <3>2, <3>3, SumSplit
  <2>5. r.settled[x] \in Nat /\ amount[x] \in Nat
    BY DEF Funded
  <2> QED
    BY <2>2, <2>3, <2>4, <2>5
<1> QED
  BY <1>2, <1>3

\* A settled reservation is replaced by the actual usage.
LEMMA SettleUsage ==
  ASSUME NEW r, Funded(r), NEW id \in Reserved(r), NEW actual \in [Resources -> Nat],
         NEW r2, r2.active = Without(r.active, id), r2.settled = Plus(r.settled, actual)
  PROVE  /\ Funded(r2)
         /\ \A x \in Resources :
               ResourceUsage(r2)[x] + r.active[id][x] = ResourceUsage(r)[x] + actual[x]
<1>1. /\ Reserved(r2) = Reserved(r) \ {id} /\ KeepsBut(r2, r, id)
  BY WithoutFacts
<1>2. r2.settled \in [Resources -> Nat] /\ \A x \in Resources : r2.settled[x] = r.settled[x] + actual[x]
  BY DEF Plus, Funded
<1>3. Funded(r2)
  <2>1. IsFiniteSet(Reserved(r2))
    BY <1>1, FS_RemoveElement DEF Funded
  <2> QED
    BY <1>1, <1>2, <2>1 DEF Funded, KeepsBut
<1>4. ASSUME NEW x \in Resources
      PROVE ResourceUsage(r2)[x] + r.active[id][x] = ResourceUsage(r)[x] + actual[x]
  <2> DEFINE f == [i \in Reserved(r) |-> r.active[i][x]]
             f2 == [i \in Reserved(r2) |-> r2.active[i][x]]
  <2>1. f \in [Reserved(r) -> Nat] /\ f2 \in [Reserved(r) \ {id} -> Nat]
    BY <1>1, <1>3 DEF Funded
  <2>2. f[id] = r.active[id][x] /\ \A i \in Reserved(r) \ {id} : f2[i] = f[i]
    BY <1>1 DEF KeepsBut
  <2>3. ResourceUsage(r2)[x] = r2.settled[x] + SumFunction(f2)
        /\ ResourceUsage(r)[x] = r.settled[x] + SumFunction(f)
    BY DEF ResourceUsage
  <2> HIDE DEF f, f2
  <2>4. SumFunction(f) = f[id] + SumFunction(f2) /\ SumFunction(f2) \in Nat
    <3>1. IsFiniteSet(Reserved(r))
      BY DEF Funded
    <3>2. DOMAIN f = Reserved(r) /\ DOMAIN f2 = DOMAIN f \ {id}
      BY <2>1
    <3>3. /\ IsFiniteSet(DOMAIN f) /\ id \in DOMAIN f
          /\ f \in [DOMAIN f -> Nat] /\ f2 \in [DOMAIN f2 -> Nat] /\ \A i \in DOMAIN f2 : f2[i] = f[i]
      BY <2>1, <2>2, <3>1, <3>2
    <3> QED
      BY ONLY <3>2, <3>3, SumSplit
  <2>5. r.settled[x] \in Nat /\ actual[x] \in Nat /\ r.active[id][x] \in Nat
    BY DEF Funded
  <2> QED
    BY <1>2, <2>2, <2>3, <2>4, <2>5
<1> QED
  BY <1>3, <1>4
-----------------------------------------------------------------------------
(* Changes of one part of the state *)

\* Nothing but the counters of the closed loop differs.
Alike(r2, r) ==
    /\ RunShape(r2)
    /\ r2.exists = r.exists /\ r2.ok = r.ok /\ r2.bound = r.bound /\ r2.linked = r.linked
    /\ r2.dispatchable = r.dispatchable /\ r2.closed = r.closed /\ r2.status = r.status
    /\ r2.text = r.text /\ r2.plan_ids = r.plan_ids /\ r2.settled = r.settled /\ r2.active = r.active

\* An event of the closed loop, or the end of a segment.
LEMMA LoopTouched ==
  ASSUME NEW d, NEW r, NEW ps, NEW c, NEW ctl, NEW unc, NEW hs, NEW s,
         InvAt(d, r, ps, c, ctl, unc, hs, s), NEW r2, Alike(r2, r)
  PROVE  InvAt(d, r2, ps, c, ctl, unc, hs, s)
<1>1. LedgerOK(r2, c, ps)
  BY DEF InvAt, Alike, LedgerOK
<1>2. PlansOK(ps, r2)
  BY DEF InvAt, Alike, PlansOK, PlanOK
<1>3. HostsOK(hs, r2, ps, d.mode)
  BY DEF InvAt, Alike, HostsOK, HostOK, Reserved
<1>4. LeasesOK(hs, r2, ps, ctl, unc)
  BY DEF InvAt, Alike, LeasesOK, LeaseOK, PlanHeld, Reserved
<1>5. Reserved(r2) = Reserved(r) /\ ResourceUsage(r2) = ResourceUsage(r)
  BY DEF Alike, Reserved, ResourceUsage
<1>6. Reservations(r2, ps, d.budget)
  BY <1>5 DEF InvAt, Alike, Reservations
<1>7. SpentOK(s, r2, ps, hs)
  <2>1. PICK m : ModelUse(m, s, r, hs)
    BY DEF InvAt, SpentOK
  <2>2. PICK t : StepUse(t, s, r, ps)
    BY DEF InvAt, SpentOK
  <2>3. ModelUse(m, s, r2, hs)
    BY <1>5, <2>1 DEF ModelUse, Alike
  <2>4. StepUse(t, s, r2, ps)
    BY <1>5, <2>2 DEF StepUse, Alike
  <2> QED
    BY <2>3, <2>4 DEF InvAt, SpentOK
<1> QED
  BY <1>1, <1>2, <1>3, <1>4, <1>6, <1>7 DEF InvAt, Alike

\* The Conversation's record fits the ledger.
ConvOK(c, r) ==
    /\ ConvShape(c)
    /\ c.phase # "none" <=> r.bound
    /\ c.phase = "completed" => r.status # NoStatus /\ c.text = r.text /\ c.status = r.status

LEMMA ConvTouched ==
  ASSUME NEW d, NEW r, NEW ps, NEW c, NEW ctl, NEW unc, NEW hs, NEW s,
         InvAt(d, r, ps, c, ctl, unc, hs, s), NEW c2, ConvOK(c2, r)
  PROVE  InvAt(d, r, ps, c2, ctl, unc, hs, s)
<1>1. LedgerOK(r, c2, ps)
  BY DEF InvAt, ConvOK, LedgerOK
<1> QED
  BY <1>1 DEF InvAt

\* The claims of the Session and of the Run, and the uncertain Write.
LEMMA ClaimsTouched ==
  ASSUME NEW d, NEW r, NEW ps, NEW c, NEW ctl, NEW unc, NEW hs, NEW s,
         InvAt(d, r, ps, c, ctl, unc, hs, s), NEW ctl2, NEW unc2,
         \A h \in Hosts : hs[h].controls /\ ctl2 = h => ctl = h,
         \A h \in Hosts : Barred(h, unc2) => Barred(h, unc) \/ hs[h].pc \in {"down", "inspect", "recover", "blocked"}
  PROVE  InvAt(d, r, ps, c, ctl2, unc2, hs, s)
<1>1. LeasesOK(hs, r, ps, ctl2, unc2)
  BY DEF InvAt, LeasesOK, LeaseOK
<1> QED
  BY <1>1 DEF InvAt

\* A Plan's lease, approval and completion envelope; a new lease names a Host
\* that does not use it yet.
PlanTouched(q, p, hs) ==
    /\ q \in PlanStates
    /\ q.unsafe = p.unsafe /\ q.phase = p.phase /\ q.attempts = p.attempts
    /\ q.lease = p.lease \/ q.lease = NoHost \/ ~hs[q.lease].holds

LEMMA PlansTouched ==
  ASSUME NEW d, NEW r, NEW ps, NEW c, NEW ctl, NEW unc, NEW hs, NEW s,
         InvAt(d, r, ps, c, ctl, unc, hs, s),
         NEW ps2, ps2 \in Seq(PlanStates), DOMAIN ps2 = DOMAIN ps,
         \A p \in DOMAIN ps : PlanTouched(ps2[p], ps[p], hs)
  PROVE  InvAt(d, r, ps2, c, ctl, unc, hs, s)
<1>1. SomeCompleted(ps2) <=> SomeCompleted(ps)
  BY DEF SomeCompleted, PlanTouched
<1>2. LedgerOK(r, c, ps2)
  BY <1>1 DEF InvAt, LedgerOK
<1>3. PlansOK(ps2, r)
  BY DEF InvAt, PlansOK, PlanOK, PlanTouched
<1>4. HostsOK(hs, r, ps2, d.mode)
  BY <1>1 DEF InvAt, HostsOK, HostOK
<1>5. LeasesOK(hs, r, ps2, ctl, unc)
  <2> SUFFICES ASSUME NEW h \in Hosts PROVE LeaseOK(h, hs[h], r, ps2, ctl, unc)
    BY DEF LeasesOK
  <2>1. LeaseOK(h, hs[h], r, ps, ctl, unc) /\ HostShape(hs[h]) /\ HostOK(hs[h], r, ps, d.mode)
    BY DEF InvAt, LeasesOK, HostsOK
  <2>2. ASSUME hs[h].holds, ps2[hs[h].plan].lease = h PROVE PlanHeld(hs[h], r, ps2[hs[h].plan])
    <3>1. hs[h].plan \in DOMAIN ps
      BY <2>1, <2>2 DEF HostShape, HostOK, OnPlan, LoopPcs, StepPcs, InvAt, LedgerOK
    <3>2. PlanTouched(ps2[hs[h].plan], ps[hs[h].plan], hs)
      BY <3>1
    <3>3. h # NoHost
      BY AutonomousAssumption
    <3>4. ps[hs[h].plan].lease = h
      BY <2>2, <3>2, <3>3 DEF PlanTouched
    <3> QED
      BY <2>1, <2>2, <3>2, <3>4 DEF LeaseOK, PlanHeld, PlanTouched
  <2> QED
    BY <2>1, <2>2 DEF LeaseOK
<1>6. Reservations(r, ps2, d.budget)
  BY DEF InvAt, Reservations
<1>7. SpentOK(s, r, ps2, hs)
  <2>1. PICK t : StepUse(t, s, r, ps)
    BY DEF InvAt, SpentOK
  <2>2. \A p, k \in Nat : <<"step", p, k>> \in Reserved(r) => ps2[p].attempts = ps[p].attempts
    BY DEF InvAt, Reservations, PlanTouched
  <2>3. StepUse(t, s, r, ps2)
    BY <2>1, <2>2 DEF StepUse
  <2> QED
    BY <2>3 DEF InvAt, SpentOK
<1> QED
  BY <1>2, <1>3, <1>4, <1>5, <1>6, <1>7 DEF InvAt

\* A step within one Host that takes no ticket.
LEMMA HostTouched ==
  ASSUME NEW d, NEW r, NEW ps, NEW c, NEW ctl, NEW unc, NEW hs, NEW s,
         InvAt(d, r, ps, c, ctl, unc, hs, s), NEW h \in Hosts, NEW x,
         HostShape(x), HostOK(x, r, ps, d.mode), LeaseOK(h, x, r, ps, ctl, unc), ~HasTicket(x),
         \A g \in Hosts \ {h} : /\ ~(x.via = "prompt" /\ hs[g].via = "prompt")
                                /\ x.pc = "register" /\ hs[g].pc = "register" => x.draft # hs[g].draft
  PROVE  InvAt(d, r, ps, c, ctl, unc, [hs EXCEPT ![h] = x], s)
<1> DEFINE hs2 == [hs EXCEPT ![h] = x]
<1>1. hs \in [Hosts -> HostStates] /\ x \in HostStates
  BY DEF InvAt, HostsOK, HostShape
<1>2. hs2 \in [Hosts -> HostStates] /\ hs2[h] = x /\ \A g \in Hosts : g # h => hs2[g] = hs[g]
  BY <1>1
<1> HIDE DEF hs2
<1>3. HostsOK(hs2, r, ps, d.mode)
  BY <1>2 DEF InvAt, HostsOK
<1>4. LeasesOK(hs2, r, ps, ctl, unc)
  BY <1>2 DEF InvAt, LeasesOK
<1>5. ApartsOK(hs2)
  BY <1>2 DEF InvAt, ApartsOK, ApartOK
<1>6. SpentOK(s, r, ps, hs2)
  <2>1. PICK m : ModelUse(m, s, r, hs)
    BY DEF InvAt, SpentOK
  <2>2. ModelUse(m, s, r, hs2)
    BY <1>2, <2>1 DEF ModelUse, HasTicket
  <2> QED
    BY <2>2 DEF InvAt, SpentOK
<1>7. InvAt(d, r, ps, c, ctl, unc, hs2, s)
  BY <1>3, <1>4, <1>5, <1>6 DEF InvAt
<1> QED
  BY <1>7 DEF hs2

\* The ids of the Plans of a Run, as a set.
LEMMA ToSetFacts ==
  /\ ToSet(<< >>) = {}
  /\ \A p : ToSet(<<p>>) = {p}
  /\ \A q \in Seq(Nat), p \in Nat : ToSet(Append(q, p)) = ToSet(q) \cup {p}
<1>1. ToSet(<< >>) = {}
  BY DEF ToSet
<1>2. ASSUME NEW p PROVE ToSet(<<p>>) = {p}
  <2>1. DOMAIN <<p>> = {1} /\ <<p>>[1] = p
    OBVIOUS
  <2> QED
    BY <2>1 DEF ToSet
<1>3. ASSUME NEW q \in Seq(Nat), NEW p \in Nat PROVE ToSet(Append(q, p)) = ToSet(q) \cup {p}
  <2>1. Len(q) \in Nat /\ DOMAIN q = 1..Len(q) /\ DOMAIN Append(q, p) = 1..(Len(q) + 1)
    OBVIOUS
  <2>2. \A i \in 1..Len(q) : Append(q, p)[i] = q[i]
    OBVIOUS
  <2>3. Append(q, p)[Len(q) + 1] = p
    OBVIOUS
  <2>4. ASSUME NEW v \in ToSet(Append(q, p)) PROVE v \in ToSet(q) \cup {p}
    <3>1. PICK i \in 1..(Len(q) + 1) : v = Append(q, p)[i]
      BY <2>1 DEF ToSet
    <3>2. i \in 1..Len(q) \/ i = Len(q) + 1
      BY <2>1, <3>1
    <3> QED
      BY <2>1, <2>2, <2>3, <3>1, <3>2 DEF ToSet
  <2>5. ASSUME NEW v \in ToSet(q) \cup {p} PROVE v \in ToSet(Append(q, p))
    <3>1. CASE v = p
      <4>1. Len(q) + 1 \in 1..(Len(q) + 1)
        BY <2>1
      <4> QED
        BY <2>1, <2>3, <3>1, <4>1 DEF ToSet
    <3>2. CASE v \in ToSet(q)
      <4>1. PICK i \in 1..Len(q) : v = q[i]
        BY <2>1, <3>2 DEF ToSet
      <4>2. i \in 1..(Len(q) + 1)
        BY <2>1
      <4> QED
        BY <2>1, <2>2, <4>1, <4>2 DEF ToSet
    <3> QED
      BY <3>1, <3>2
  <2> QED
    BY <2>4, <2>5
<1> QED
  BY <1>1, <1>2, <1>3

\* What was reserved and spent does not depend on the rest of the ledger.
LEMMA FundsKept ==
  ASSUME NEW b, NEW r, NEW ps, NEW hs, NEW s, Reservations(r, ps, b), SpentOK(s, r, ps, hs),
         NEW r2, r2.settled = r.settled, r2.active = r.active,
         NEW ps2, \A p \in DOMAIN ps : p \in DOMAIN ps2 /\ ps2[p].attempts = ps[p].attempts
  PROVE  Reservations(r2, ps2, b) /\ SpentOK(s, r2, ps2, hs)
<1>1. Reserved(r2) = Reserved(r) /\ ResourceUsage(r2) = ResourceUsage(r)
  BY DEF Reserved, ResourceUsage
<1>2. Reservations(r2, ps2, b)
  BY <1>1 DEF Reservations
<1>3. SpentOK(s, r2, ps2, hs)
  <2>1. PICK m : ModelUse(m, s, r, hs)
    BY DEF SpentOK
  <2>2. PICK t : StepUse(t, s, r, ps)
    BY DEF SpentOK
  <2>3. ModelUse(m, s, r2, hs)
    BY <1>1, <2>1 DEF ModelUse
  <2>4. \A p, k \in Nat : <<"step", p, k>> \in Reserved(r) => ps2[p].attempts = ps[p].attempts
    BY DEF Reservations
  <2>5. StepUse(t, s, r2, ps2)
    BY <1>1, <2>2, <2>4 DEF StepUse
  <2> QED
    BY <2>3, <2>5 DEF SpentOK
<1> QED
  BY <1>2, <1>3

\* The facts a ledger event leaves alone, apart from the ones named by its lemma.
SameFunds(r2, r) ==
    r2.settled = r.settled /\ r2.active = r.active /\ r2.rounds = r.rounds /\ r2.actions = r.actions
SameAnswer(r2, r) == r2.status = r.status /\ r2.text = r.text /\ r2.ok = r.ok
SameBinding(r2, r) ==
    /\ r2.bound = r.bound /\ r2.linked = r.linked /\ r2.dispatchable = r.dispatchable
    /\ r2.plan_ids = r.plan_ids

\* The Run is opened.
LEMMA InitTouched ==
  ASSUME NEW d, NEW r, NEW ps, NEW c, NEW ctl, NEW unc, NEW hs, NEW s,
         InvAt(d, r, ps, c, ctl, unc, hs, s),
         NEW r2, RunShape(r2), r2.exists, r2.closed = r.closed,
         SameFunds(r2, r), SameAnswer(r2, r), SameBinding(r2, r)
  PROVE  InvAt(d, r2, ps, c, ctl, unc, hs, s)
<1>1. LedgerOK(r2, c, ps)
  BY DEF InvAt, SameAnswer, SameBinding, LedgerOK
<1>2. PlansOK(ps, r2)
  BY DEF InvAt, SameBinding, PlansOK, PlanOK
<1>3. HostsOK(hs, r2, ps, d.mode)
  BY DEF InvAt, SameFunds, SameAnswer, SameBinding, HostsOK, HostOK, Reserved
<1>4. LeasesOK(hs, r2, ps, ctl, unc)
  BY DEF InvAt, SameFunds, SameAnswer, LeasesOK, LeaseOK, PlanHeld, Reserved
<1>5. Reservations(r2, ps, d.budget) /\ SpentOK(s, r2, ps, hs)
  BY FundsKept DEF InvAt, SameFunds
<1> QED
  BY <1>1, <1>2, <1>3, <1>4, <1>5 DEF InvAt

\* The admission is closed.
LEMMA CloseTouched ==
  ASSUME NEW d, NEW r, NEW ps, NEW c, NEW ctl, NEW unc, NEW hs, NEW s,
         InvAt(d, r, ps, c, ctl, unc, hs, s), r.exists, ~r.bound, d.mode = "prompt",
         \A g \in Hosts : ~InAdmission(hs[g]),
         NEW r2, RunShape(r2), r2.exists = r.exists, r2.closed = TRUE,
         SameFunds(r2, r), SameAnswer(r2, r), SameBinding(r2, r)
  PROVE  InvAt(d, r2, ps, c, ctl, unc, hs, s)
<1>1. LedgerOK(r2, c, ps)
  BY DEF InvAt, SameAnswer, SameBinding, LedgerOK
<1>2. PlansOK(ps, r2)
  BY DEF InvAt, SameBinding, PlansOK, PlanOK
<1>3. HostsOK(hs, r2, ps, d.mode)
  BY DEF InvAt, SameFunds, SameAnswer, SameBinding, HostsOK, HostOK, Reserved
<1>4. LeasesOK(hs, r2, ps, ctl, unc)
  BY DEF InvAt, SameFunds, SameAnswer, LeasesOK, LeaseOK, PlanHeld, Reserved
<1>5. Reservations(r2, ps, d.budget) /\ SpentOK(s, r2, ps, hs)
  BY FundsKept DEF InvAt, SameFunds
<1> QED
  BY <1>1, <1>2, <1>3, <1>4, <1>5 DEF InvAt

\* The Run gets its answer; no controller of it is left in the closed loop.
LEMMA AnswerTouched ==
  ASSUME NEW d, NEW r, NEW ps, NEW c, NEW ctl, NEW unc, NEW hs, NEW s,
         InvAt(d, r, ps, c, ctl, unc, hs, s), r.bound, r.status = NoStatus,
         \A g \in Hosts : ~(hs[g].controls /\ ctl = g),
         NEW r2, RunShape(r2), r2.ok, r2.exists = r.exists, r2.closed = r.closed,
         SameFunds(r2, r), SameBinding(r2, r), r2.status \in Answers,
         r2.status = "completed" => SomeCompleted(ps)
  PROVE  InvAt(d, r2, ps, c, ctl, unc, hs, s)
<1>1. LedgerOK(r2, c, ps)
  BY DEF InvAt, SameBinding, LedgerOK
<1>2. PlansOK(ps, r2)
  BY DEF InvAt, SameBinding, PlansOK, PlanOK
<1>3. HostsOK(hs, r2, ps, d.mode)
  BY DEF InvAt, SameFunds, SameBinding, HostsOK, HostOK, Reserved
<1>4. LeasesOK(hs, r2, ps, ctl, unc)
  BY DEF InvAt, SameFunds, LeasesOK, LeaseOK, PlanHeld, Reserved
<1>5. Reservations(r2, ps, d.budget) /\ SpentOK(s, r2, ps, hs)
  BY FundsKept DEF InvAt, SameFunds
<1> QED
  BY <1>1, <1>2, <1>3, <1>4, <1>5 DEF InvAt

\* The Plan in a Host's hands while it holds it.
LEMMA HeldPlan ==
  ASSUME NEW hs, NEW r, NEW ps, NEW c, NEW mode, HostsOK(hs, r, ps, mode), LedgerOK(r, c, ps),
         NEW h \in Hosts, hs[h].holds
  PROVE  /\ r.bound /\ hs[h].plan \in ToSet(r.plan_ids) /\ hs[h].plan \in DOMAIN ps
         /\ hs[h].plan \in Nat
<1>1. HostShape(hs[h]) /\ HostOK(hs[h], r, ps, mode)
  BY DEF HostsOK
<1>2. OnPlan(hs[h]) /\ InControl(hs[h])
  BY <1>1 DEF HostShape, OnPlan, InControl, Loaded, LoopPcs, StepPcs
<1>3. hs[h].plan \in Nat
  BY <1>1 DEF HostShape, HostStates
<1> QED
  BY <1>1, <1>2, <1>3 DEF HostOK, LedgerOK

\* A Plan is made; its maker alone knows it.
LEMMA PlanAdded ==
  ASSUME NEW d, NEW r, NEW ps, NEW c, NEW ctl, NEW unc, NEW hs, NEW s,
         InvAt(d, r, ps, c, ctl, unc, hs, s), NEW w \in BOOLEAN
  PROVE  InvAt(d, r, Append(ps, Draft(w)), c, ctl, unc, hs, s)
<1> DEFINE ps2 == Append(ps, Draft(w))
           n == Len(ps) + 1
<1>1. /\ ps \in Seq(PlanStates) /\ Draft(w) \in PlanStates
      /\ Draft(w).phase = "draft" /\ Draft(w).attempts = 0
  BY DEF InvAt, PlansOK, PlanStates, Draft
<1>2. /\ ps2 \in Seq(PlanStates) /\ DOMAIN ps2 = DOMAIN ps \cup {n} /\ n \notin DOMAIN ps
      /\ ps2[n] = Draft(w) /\ \A p \in DOMAIN ps : ps2[p] = ps[p]
  BY <1>1
<1> HIDE DEF ps2, n
<1>3. SomeCompleted(ps2) <=> SomeCompleted(ps)
  BY <1>1, <1>2 DEF SomeCompleted
<1>4. LedgerOK(r, c, ps2)
  BY <1>2, <1>3 DEF InvAt, LedgerOK
<1>5. PlansOK(ps2, r)
  <2>1. n \notin ToSet(r.plan_ids)
    BY <1>2 DEF InvAt, LedgerOK
  <2>2. PlanOK(n, ps2[n], r)
    BY <1>1, <1>2, <2>1 DEF PlanOK
  <2> QED
    BY <1>2, <2>2 DEF InvAt, PlansOK
<1>6. HostsOK(hs, r, ps2, d.mode)
  BY <1>2, <1>3 DEF InvAt, HostsOK, HostOK
<1>7. LeasesOK(hs, r, ps2, ctl, unc)
  <2> SUFFICES ASSUME NEW h \in Hosts PROVE LeaseOK(h, hs[h], r, ps2, ctl, unc)
    BY DEF LeasesOK
  <2>1. LeaseOK(h, hs[h], r, ps, ctl, unc)
    BY DEF InvAt, LeasesOK
  <2>2. hs[h].holds => hs[h].plan \in DOMAIN ps
    BY HeldPlan DEF InvAt
  <2> QED
    BY <1>2, <2>1, <2>2 DEF LeaseOK
<1>8. Reservations(r, ps2, d.budget) /\ SpentOK(s, r, ps2, hs)
  BY <1>2, FundsKept DEF InvAt
<1>9. InvAt(d, r, ps2, c, ctl, unc, hs, s)
  BY <1>4, <1>5, <1>6, <1>7, <1>8 DEF InvAt
<1> QED
  BY <1>9 DEF ps2

\* The execution of a Plan moves it on; no Host goes on holding it.
LEMMA PlanMoved ==
  ASSUME NEW d, NEW r, NEW ps, NEW c, NEW ctl, NEW unc, NEW hs, NEW s,
         InvAt(d, r, ps, c, ctl, unc, hs, s), NEW p \in ToSet(r.plan_ids), NEW q \in PlanStates,
         q.unsafe = ps[p].unsafe, q.attempts = ps[p].attempts, q.phase # "draft",
         ps[p].phase = "completed" => q.phase = "completed",
         q.unsafe /\ q.phase \in {"pending", "waiting_approval"} => q.attempts = 0,
         \A h \in Hosts : ~(hs[h].holds /\ hs[h].plan = p /\ q.lease = h)
  PROVE  InvAt(d, r, [ps EXCEPT ![p] = q], c, ctl, unc, hs, s)
<1> DEFINE ps2 == [ps EXCEPT ![p] = q]
<1>1. ps \in Seq(PlanStates) /\ p \in DOMAIN ps
  BY DEF InvAt, PlansOK, LedgerOK
<1>2. /\ ps2 \in Seq(PlanStates) /\ DOMAIN ps2 = DOMAIN ps
      /\ ps2[p] = q /\ \A i \in DOMAIN ps : i # p => ps2[i] = ps[i]
  BY <1>1
<1> HIDE DEF ps2
<1>3. SomeCompleted(ps) => SomeCompleted(ps2)
  BY <1>1, <1>2 DEF SomeCompleted
<1>4. LedgerOK(r, c, ps2)
  BY <1>2, <1>3 DEF InvAt, LedgerOK
<1>5. PlansOK(ps2, r)
  <2>1. PlanOK(p, ps[p], r)
    BY <1>1 DEF InvAt, PlansOK
  <2>2. PlanOK(p, q, r)
    BY <2>1 DEF PlanOK
  <2> QED
    BY <1>2, <2>2 DEF InvAt, PlansOK
<1>6. HostsOK(hs, r, ps2, d.mode)
  BY <1>2, <1>3 DEF InvAt, HostsOK, HostOK
<1>7. LeasesOK(hs, r, ps2, ctl, unc)
  <2> SUFFICES ASSUME NEW h \in Hosts PROVE LeaseOK(h, hs[h], r, ps2, ctl, unc)
    BY DEF LeasesOK
  <2>1. LeaseOK(h, hs[h], r, ps, ctl, unc)
    BY DEF InvAt, LeasesOK
  <2>2. hs[h].holds => hs[h].plan \in DOMAIN ps
    BY HeldPlan DEF InvAt
  <2> QED
    BY <1>2, <2>1, <2>2 DEF LeaseOK
<1>8. Reservations(r, ps2, d.budget) /\ SpentOK(s, r, ps2, hs)
  BY <1>2, FundsKept DEF InvAt
<1>9. InvAt(d, r, ps2, c, ctl, unc, hs, s)
  BY <1>4, <1>5, <1>6, <1>7, <1>8 DEF InvAt
<1> QED
  BY <1>9 DEF ps2

\* A draft is published: Run and Plan appear together, and for the first Plan the
\* Conversation with them.
LEMMA PlanPublished ==
  ASSUME NEW d, NEW r, NEW ps, NEW c, NEW ctl, NEW unc, NEW hs, NEW s,
         InvAt(d, r, ps, c, ctl, unc, hs, s),
         NEW p \in DOMAIN ps, p \notin ToSet(r.plan_ids),
         \A g \in Hosts : ~(hs[g].pc = "register" /\ hs[g].draft = p),
         r.exists, ~r.closed,
         NEW r2, RunShape(r2), r2.exists, ~r2.closed, r2.bound, r2.linked, r2.dispatchable,
         SameFunds(r2, r), SameAnswer(r2, r),
         ToSet(r2.plan_ids) = ToSet(r.plan_ids) \cup {p},
         NEW c2, ConvOK(c2, r2)
  PROVE  InvAt(d, r2, [ps EXCEPT ![p].phase = "pending"], c2, ctl, unc, hs, s)
<1> DEFINE ps2 == [ps EXCEPT ![p].phase = "pending"]
           q == [ps[p] EXCEPT !.phase = "pending"]
<1>1. ps \in Seq(PlanStates) /\ ps[p] \in PlanStates /\ PlanOK(p, ps[p], r)
  BY DEF InvAt, PlansOK
<1>2. q \in PlanStates /\ q.phase = "pending" /\ q.unsafe = ps[p].unsafe /\ q.attempts = ps[p].attempts
  BY <1>1 DEF PlanStates
<1>3. ps2 = [ps EXCEPT ![p] = q]
  OBVIOUS
<1> HIDE DEF q
<1>4. /\ ps2 \in Seq(PlanStates) /\ DOMAIN ps2 = DOMAIN ps
      /\ ps2[p] = q /\ \A i \in DOMAIN ps : i # p => ps2[i] = ps[i]
  BY <1>1, <1>2, <1>3
<1> HIDE DEF ps2
<1>5. ps[p].phase = "draft"
  BY <1>1 DEF PlanOK
<1>6. SomeCompleted(ps) => SomeCompleted(ps2)
  BY <1>4, <1>5 DEF SomeCompleted
<1>7. LedgerOK(r2, c2, ps2)
  <2>1. r2.plan_ids # << >>
    BY ToSetFacts
  <2> QED
    BY <1>4, <1>6, <2>1 DEF InvAt, LedgerOK, ConvOK, SameAnswer
<1>8. PlansOK(ps2, r2)
  <2>1. PlanOK(p, q, r2)
    BY <1>1, <1>2, <1>5 DEF PlanOK
  <2>2. ASSUME NEW i \in DOMAIN ps, i # p PROVE PlanOK(i, ps[i], r2)
    BY <2>2 DEF InvAt, PlansOK, PlanOK
  <2> QED
    BY <1>4, <2>1, <2>2 DEF PlansOK
<1>9. HostsOK(hs, r2, ps2, d.mode)
  BY <1>4, <1>6 DEF InvAt, HostsOK, HostOK, SameFunds, SameAnswer, Reserved
<1>10. LeasesOK(hs, r2, ps2, ctl, unc)
  <2> SUFFICES ASSUME NEW h \in Hosts PROVE LeaseOK(h, hs[h], r2, ps2, ctl, unc)
    BY DEF LeasesOK
  <2>1. LeaseOK(h, hs[h], r, ps, ctl, unc)
    BY DEF InvAt, LeasesOK
  <2>2. hs[h].holds => hs[h].plan \in DOMAIN ps /\ hs[h].plan # p
    BY HeldPlan DEF InvAt
  <2> QED
    BY <1>4, <2>1, <2>2 DEF LeaseOK, PlanHeld, SameFunds, SameAnswer, Reserved
<1>11. Reservations(r2, ps2, d.budget) /\ SpentOK(s, r2, ps2, hs)
  BY <1>2, <1>4, FundsKept DEF InvAt, SameFunds
<1>12. InvAt(d, r2, ps2, c2, ctl, unc, hs, s)
  BY <1>7, <1>8, <1>9, <1>10, <1>11 DEF InvAt
<1> QED
  BY <1>12 DEF ps2
-----------------------------------------------------------------------------
(* Changes of what is reserved and spent *)

LEMMA SumRemove ==
  ASSUME NEW D, IsFiniteSet(D), NEW f \in [D -> Nat], NEW y \in D,
         NEW g, g = [i \in D \ {y} |-> f[i]]
  PROVE  /\ g \in [D \ {y} -> Nat] /\ SumFunction(f) = f[y] + SumFunction(g)
         /\ SumFunction(f) \in Nat /\ SumFunction(g) \in Nat /\ f[y] \in Nat
<1>1. g \in [D \ {y} -> Nat]
  OBVIOUS
<1>2. DOMAIN f = D /\ DOMAIN g = DOMAIN f \ {y} /\ IsFiniteSet(DOMAIN f) /\ y \in DOMAIN f
  OBVIOUS
<1>3. f \in [DOMAIN f -> Nat] /\ g \in [DOMAIN g -> Nat] /\ \A i \in DOMAIN g : g[i] = f[i]
  OBVIOUS
<1>4. SumFunction(f) = f[y] + SumFunction(g) /\ SumFunction(f) \in Nat /\ SumFunction(g) \in Nat
  BY ONLY <1>2, <1>3, SumSplit
<1> QED
  BY <1>1, <1>4

LEMMA SumAdd ==
  ASSUME NEW D, IsFiniteSet(D), NEW f \in [D -> Nat], NEW y, y \notin D, NEW v \in Nat,
         NEW g, g = [i \in D \cup {y} |-> IF i = y THEN v ELSE f[i]]
  PROVE  /\ g \in [D \cup {y} -> Nat] /\ SumFunction(g) = v + SumFunction(f)
         /\ SumFunction(f) \in Nat /\ SumFunction(g) \in Nat
<1>1. g \in [D \cup {y} -> Nat] /\ g[y] = v
  OBVIOUS
<1>2. DOMAIN g = D \cup {y} /\ DOMAIN f = DOMAIN g \ {y} /\ y \in DOMAIN g
  OBVIOUS
<1>3. IsFiniteSet(DOMAIN g)
  BY <1>2, FS_AddElement
<1>4. g \in [DOMAIN g -> Nat] /\ f \in [DOMAIN f -> Nat] /\ \A i \in DOMAIN f : f[i] = g[i]
  OBVIOUS
<1>5. SumFunction(g) = g[y] + SumFunction(f) /\ SumFunction(f) \in Nat /\ SumFunction(g) \in Nat
  BY ONLY <1>2, <1>3, <1>4, SumSplit
<1> QED
  BY <1>1, <1>5

LEMMA SumUpdate ==
  ASSUME NEW D, IsFiniteSet(D), NEW f \in [D -> Nat], NEW g \in [D -> Nat],
         NEW y \in D, \A i \in D : i # y => g[i] = f[i]
  PROVE  /\ SumFunction(g) + f[y] = SumFunction(f) + g[y]
         /\ SumFunction(g) \in Nat /\ SumFunction(f) \in Nat
<1> DEFINE rest == [i \in D \ {y} |-> f[i]]
<1>1. /\ DOMAIN rest = DOMAIN f \ {y} /\ DOMAIN rest = DOMAIN g \ {y} /\ rest \in [DOMAIN rest -> Nat]
      /\ \A i \in DOMAIN rest : rest[i] = f[i] /\ rest[i] = g[i]
      /\ f[y] \in Nat /\ g[y] \in Nat
  OBVIOUS
<1> HIDE DEF rest
<1>2. SumFunction(f) = f[y] + SumFunction(rest) /\ SumFunction(f) \in Nat /\ SumFunction(rest) \in Nat
  <2>1. f \in [DOMAIN f -> Nat] /\ IsFiniteSet(DOMAIN f) /\ y \in DOMAIN f
    OBVIOUS
  <2> QED
    BY ONLY <1>1, <2>1, SumSplit
<1>3. SumFunction(g) = g[y] + SumFunction(rest) /\ SumFunction(g) \in Nat
  <2>1. g \in [DOMAIN g -> Nat] /\ IsFiniteSet(DOMAIN g) /\ y \in DOMAIN g
    OBVIOUS
  <2> QED
    BY ONLY <1>1, <2>1, SumSplit
<1>5. SumFunction(g) + f[y] = SumFunction(f) + g[y]
  BY <1>1, <1>2, <1>3
<1> QED
  BY <1>2, <1>3, <1>5

\* A reservation is added: nothing has been spent under it yet.
LEMMA FundsReserved ==
  ASSUME NEW b, NEW r, NEW ps, NEW hs, NEW s, Reservations(r, ps, b), SpentOK(s, r, ps, hs),
         r.settled \in [Resources -> Nat],
         NEW id, id \notin Reserved(r), NEW amount \in [Resources -> Nat],
         NEW r2, r2.active = With(r.active, id, amount), r2.settled = r.settled,
         AtMost(Plus(ResourceUsage(r), amount), b),
         \A n \in Nat : id = <<"steps", n>> => n \in DOMAIN ps,
         \A p, k \in Nat : id = <<"step", p, k>> => p \in DOMAIN ps /\ amount["step_attempts"] = 1,
         NEW hs2, \A g \in Hosts : hs2[g].pc \in {"dispatch", "settle"} =>
                     \/ hs2[g] = hs[g] /\ hs[g].ticket \in Reserved(r)
                     \/ hs2[g].pc = "dispatch" /\ hs2[g].ticket = id
  PROVE  Reservations(r2, ps, b) /\ SpentOK(s, r2, ps, hs2)
<1>1. Reserved(r2) = Reserved(r) \cup {id} /\ r2.active[id] = amount /\ KeepsBut(r2, r, id)
  BY WithFacts
<1>2. \A i \in Reserved(r) : i # id /\ i \in Reserved(r2) /\ r2.active[i] = r.active[i]
  BY <1>1 DEF KeepsBut
<1>3. Funded(r)
  BY DEF Funded, Reservations
<1>4. Funded(r2) /\ \A x \in Resources : ResourceUsage(r2)[x] = ResourceUsage(r)[x] + amount[x]
  BY <1>3, ReserveUsage
<1>5. Reservations(r2, ps, b)
  <2>1. AtMost(ResourceUsage(r2), b)
    BY <1>4 DEF AtMost, Plus
  <2>2. \A n \in Nat : <<"steps", n>> \in Reserved(r2) => n \in DOMAIN ps
    BY <1>1 DEF Reservations
  <2>3. ASSUME NEW p \in Nat, NEW k \in Nat, <<"step", p, k>> \in Reserved(r2)
        PROVE  p \in DOMAIN ps /\ r2.active[<<"step", p, k>>]["step_attempts"] = 1
    <3>1. CASE <<"step", p, k>> = id
      BY <1>1, <3>1
    <3>2. CASE <<"step", p, k>> \in Reserved(r)
      BY <1>2, <3>2 DEF Reservations
    <3> QED
      BY <1>1, <2>3, <3>1, <3>2
  <2> QED
    BY <1>4, <2>1, <2>2, <2>3 DEF Reservations, Funded
<1>6. IsFiniteSet(Reserved(r))
  BY DEF Reservations
<1>7. SpentOK(s, r2, ps, hs2)
  <2>1. PICK m : ModelUse(m, s, r, hs)
    BY DEF SpentOK
  <2>2. PICK t : StepUse(t, s, r, ps)
    BY DEF SpentOK
  <2> DEFINE m2 == [i \in Reserved(r) \cup {id} |-> IF i = id THEN 0 ELSE m[i]]
             t2 == [i \in Reserved(r) \cup {id} |-> IF i = id THEN 0 ELSE t[i]]
  <2>3. m \in [Reserved(r) -> Nat] /\ t \in [Reserved(r) -> Nat]
    BY <2>1, <2>2 DEF ModelUse, StepUse
  <2>4. m2 \in [Reserved(r2) -> Nat] /\ SumFunction(m2) = 0 + SumFunction(m) /\ SumFunction(m) \in Nat
    <3>1. m2 = [i \in Reserved(r) \cup {id} |-> IF i = id THEN 0 ELSE m[i]] /\ 0 \in Nat
          /\ m \in [Reserved(r) -> Nat]
      BY <2>3
    <3> HIDE DEF m2
    <3> QED
      BY ONLY <1>1, <1>6, <3>1, id \notin Reserved(r), SumAdd
  <2>5. t2 \in [Reserved(r2) -> Nat] /\ SumFunction(t2) = 0 + SumFunction(t) /\ SumFunction(t) \in Nat
    <3>1. t2 = [i \in Reserved(r) \cup {id} |-> IF i = id THEN 0 ELSE t[i]] /\ 0 \in Nat
          /\ t \in [Reserved(r) -> Nat]
      BY <2>3
    <3> HIDE DEF t2
    <3> QED
      BY ONLY <1>1, <1>6, <3>1, id \notin Reserved(r), SumAdd
  <2>6. m2[id] = 0 /\ t2[id] = 0 /\ \A i \in Reserved(r) : m2[i] = m[i] /\ t2[i] = t[i]
    BY <1>2
  <2> HIDE DEF m2, t2
  <2>7. amount["model_calls"] \in Nat /\ amount["step_attempts"] \in Nat
    BY DEF Resources
  <2>8. \A i \in Reserved(r2) : m2[i] <= r2.active[i]["model_calls"] /\ t2[i] <= r2.active[i]["step_attempts"]
    BY <1>1, <1>2, <2>1, <2>2, <2>6, <2>7 DEF ModelUse, StepUse
  <2>9. \A g \in Hosts : /\ hs2[g].pc = "dispatch" => m2[hs2[g].ticket] = 0
                         /\ hs2[g].pc = "settle" => m2[hs2[g].ticket] <= hs2[g].calls
    BY <2>1, <2>6 DEF ModelUse
  <2>10. ModelUse(m2, s, r2, hs2)
    BY <2>1, <2>4, <2>8, <2>9 DEF ModelUse
  <2>11. \A p, k \in Nat : <<"step", p, k>> \in Reserved(r2) /\ k > ps[p].attempts => t2[<<"step", p, k>>] = 0
    BY <1>1, <2>2, <2>6 DEF StepUse
  <2>12. StepUse(t2, s, r2, ps)
    BY <2>2, <2>5, <2>8, <2>11 DEF StepUse
  <2> QED
    BY <2>10, <2>12 DEF SpentOK
<1> QED
  BY <1>5, <1>7

\* The ledger apart from its reservations.
SameHead(r2, r) ==
    r2.exists = r.exists /\ r2.closed = r.closed /\ SameAnswer(r2, r) /\ SameBinding(r2, r)

\* The steps of a Plan or an attempt of a step are reserved.
LEMMA ReserveTouched ==
  ASSUME NEW d, NEW r, NEW ps, NEW c, NEW ctl, NEW unc, NEW hs, NEW s,
         InvAt(d, r, ps, c, ctl, unc, hs, s),
         NEW id, id \notin Reserved(r), NEW amount \in [Resources -> Nat],
         NEW r2, RunShape(r2), SameHead(r2, r),
         r2.active = With(r.active, id, amount), r2.settled = r.settled,
         AtMost(Plus(ResourceUsage(r), amount), d.budget),
         \A n \in Nat : id = <<"steps", n>> => n \in DOMAIN ps,
         \A p, k \in Nat : id = <<"step", p, k>> => p \in DOMAIN ps /\ amount["step_attempts"] = 1
  PROVE  InvAt(d, r2, ps, c, ctl, unc, hs, s)
<1>1. Reserved(r2) = Reserved(r) \cup {id} /\ r2.active[id] = amount /\ KeepsBut(r2, r, id)
  BY WithFacts
<1>2. \A i \in Reserved(r) : i \in Reserved(r2) /\ r2.active[i] = r.active[i]
  BY <1>1 DEF KeepsBut
<1>3. LedgerOK(r2, c, ps)
  BY DEF InvAt, SameHead, SameAnswer, SameBinding, LedgerOK
<1>4. PlansOK(ps, r2)
  BY DEF InvAt, SameHead, SameBinding, PlansOK, PlanOK
<1>5. HostsOK(hs, r2, ps, d.mode)
  BY <1>2 DEF InvAt, SameHead, SameAnswer, SameBinding, HostsOK, HostOK
<1>6. LeasesOK(hs, r2, ps, ctl, unc)
  BY <1>2 DEF InvAt, SameHead, SameAnswer, LeasesOK, LeaseOK, PlanHeld
<1>7. Reservations(r2, ps, d.budget) /\ SpentOK(s, r2, ps, hs)
  <2>1. \A g \in Hosts : hs[g].pc \in {"dispatch", "settle"} => hs[g].ticket \in Reserved(r)
    BY DEF InvAt, HostsOK, HostOK, HasTicket
  <2>2. r.settled \in [Resources -> Nat]
    BY DEF InvAt, LedgerOK, RunShape
  <2> QED
    BY <2>1, <2>2, FundsReserved DEF InvAt
<1> QED
  BY <1>3, <1>4, <1>5, <1>6, <1>7 DEF InvAt, SameHead

\* A Host takes a ticket for a model stage.
LEMMA TicketTouched ==
  ASSUME NEW d, NEW r, NEW ps, NEW c, NEW ctl, NEW unc, NEW hs, NEW s,
         InvAt(d, r, ps, c, ctl, unc, hs, s),
         NEW id \in Tickets, id \notin Reserved(r), NEW amount \in [Resources -> Nat],
         NEW r2, RunShape(r2), SameHead(r2, r),
         r2.active = With(r.active, id, amount), r2.settled = r.settled,
         AtMost(Plus(ResourceUsage(r), amount), d.budget),
         NEW h \in Hosts, NEW x, x.pc = "dispatch", x.ticket = id, x.via = hs[h].via,
         HostShape(x), HostOK(x, r2, ps, d.mode), LeaseOK(h, x, r2, ps, ctl, unc)
  PROVE  InvAt(d, r2, ps, c, ctl, unc, [hs EXCEPT ![h] = x], s)
<1> DEFINE hs2 == [hs EXCEPT ![h] = x]
<1>1. Reserved(r2) = Reserved(r) \cup {id} /\ r2.active[id] = amount /\ KeepsBut(r2, r, id)
  BY ONLY r2.active = With(r.active, id, amount), WithFacts
<1>2. \A i \in Reserved(r) : i \in Reserved(r2) /\ r2.active[i] = r.active[i]
  BY <1>1 DEF KeepsBut
<1>3. /\ hs2 \in [Hosts -> HostStates] /\ hs2[h] = x
      /\ \A g \in Hosts : g # h => hs2[g] = hs[g]
  BY DEF InvAt, HostsOK, HostShape
<1> HIDE DEF hs2
<1>4. LedgerOK(r2, c, ps)
  BY DEF InvAt, SameHead, SameAnswer, SameBinding, LedgerOK
<1>5. PlansOK(ps, r2)
  BY DEF InvAt, SameHead, SameBinding, PlansOK, PlanOK
<1>6. ASSUME NEW g \in Hosts PROVE HostOK(hs[g], r2, ps, d.mode) \/ g = h
  BY <1>2 DEF InvAt, SameHead, SameAnswer, SameBinding, HostsOK, HostOK
<1>7. HostsOK(hs2, r2, ps, d.mode)
  BY <1>3, <1>6 DEF InvAt, HostsOK
<1>8. LeasesOK(hs2, r2, ps, ctl, unc)
  <2>1. ASSUME NEW g \in Hosts PROVE LeaseOK(g, hs[g], r2, ps, ctl, unc) \/ g = h
    BY <1>2 DEF InvAt, SameHead, SameAnswer, LeasesOK, LeaseOK, PlanHeld
  <2> QED
    BY <1>3, <2>1 DEF LeasesOK
<1>9. \A g \in Hosts : hs[g].pc \in {"dispatch", "settle"} => hs[g].ticket \in Reserved(r)
  BY DEF InvAt, HostsOK, HostOK, HasTicket
<1>10. ApartsOK(hs2)
  <2>1. ASSUME NEW g \in Hosts, g # h PROVE ApartOK(x, hs[g]) /\ ApartOK(hs[g], x)
    <3>1. ApartOK(hs[h], hs[g]) /\ ApartOK(hs[g], hs[h])
      BY <2>1 DEF InvAt, ApartsOK
    <3> QED
      BY <1>9, <3>1 DEF ApartOK, HasTicket
  <2> QED
    BY <1>3, <2>1 DEF InvAt, ApartsOK
<1>11. Reservations(r2, ps, d.budget) /\ SpentOK(s, r2, ps, hs2)
  <2>1. r.settled \in [Resources -> Nat]
    BY DEF InvAt, LedgerOK, RunShape
  <2>2. \A g \in Hosts : hs2[g].pc \in {"dispatch", "settle"} =>
           \/ hs2[g] = hs[g] /\ hs[g].ticket \in Reserved(r)
           \/ hs2[g].pc = "dispatch" /\ hs2[g].ticket = id
    BY <1>3, <1>9
  <2>3. id[1] = "model"
    BY DEF Tickets
  <2>4. /\ \A n \in Nat : id # <<"steps", n>>
        /\ \A p, k \in Nat : id # <<"step", p, k>>
    BY <2>3
  <2> QED
    BY <2>1, <2>2, <2>4, FundsReserved DEF InvAt
<1>12. InvAt(d, r2, ps, c, ctl, unc, hs2, s)
  BY <1>4, <1>5, <1>7, <1>8, <1>10, <1>11 DEF InvAt, SameHead
<1> QED
  BY <1>12 DEF hs2

\* A ticket is settled or released, and its Host goes on without it.
LEMMA SettleTouched ==
  ASSUME NEW d, NEW r, NEW ps, NEW c, NEW ctl, NEW unc, NEW hs, NEW s,
         InvAt(d, r, ps, c, ctl, unc, hs, s),
         NEW h \in Hosts, hs[h].pc = "settle", NEW n \in Nat, hs[h].calls <= n, n <= hs[h].size,
         NEW r2, RunShape(r2), SameHead(r2, r), r2.active = Without(r.active, hs[h].ticket),
         r2.settled = Plus(r.settled, Usage("model_calls", n)),
         NEW x, ~HasTicket(x), x.pc # "register", x.via = hs[h].via,
         HostShape(x), HostOK(x, r2, ps, d.mode), LeaseOK(h, x, r2, ps, ctl, unc)
  PROVE  InvAt(d, r2, ps, c, ctl, unc, [hs EXCEPT ![h] = x], s)
<1> DEFINE hs2 == [hs EXCEPT ![h] = x]
           id == hs[h].ticket
           actual == Usage("model_calls", n)
<1>1. Reserved(r2) = Reserved(r) \ {id} /\ KeepsBut(r2, r, id)
  BY WithoutFacts
<1>2. \A i \in Reserved(r) : i # id => i \in Reserved(r2) /\ r2.active[i] = r.active[i]
  BY <1>1 DEF KeepsBut
<1>3. /\ hs2 \in [Hosts -> HostStates] /\ hs2[h] = x
      /\ \A g \in Hosts : g # h => hs2[g] = hs[g]
  BY DEF InvAt, HostsOK, HostShape
<1> HIDE DEF hs2
<1>4. /\ id \in Tickets /\ id \in Reserved(r) /\ r.active[id] = Usage("model_calls", hs[h].size)
      /\ hs[h].size \in Nat /\ hs[h].calls \in Nat
  BY DEF InvAt, HostsOK, HostOK, HasTicket, HostStates
<1>5. \A g \in Hosts : g # h /\ HasTicket(hs[g]) => hs[g].ticket \in Reserved(r) /\ hs[g].ticket # id
  BY DEF InvAt, HostsOK, HostOK, ApartsOK, ApartOK, HasTicket
<1>6. \A p, k \in Nat : <<"step", p, k>> # id
  <2>1. id[1] = "model"
    BY <1>4 DEF Tickets
  <2> QED
    BY <2>1
<1>7. /\ actual \in [Resources -> Nat] /\ actual["model_calls"] = n /\ actual["step_attempts"] = 0
      /\ r.active[id]["step_attempts"] = 0
      /\ \A y \in Resources : actual[y] <= r.active[id][y]
  BY <1>4 DEF Usage, NoUsage, Resources
<1> HIDE DEF id, actual
<1>8. LedgerOK(r2, c, ps)
  BY DEF InvAt, SameHead, SameAnswer, SameBinding, LedgerOK
<1>9. PlansOK(ps, r2)
  BY DEF InvAt, SameHead, SameBinding, PlansOK, PlanOK
<1>10. HostsOK(hs2, r2, ps, d.mode)
  <2>1. ASSUME NEW g \in Hosts, g # h PROVE HostShape(hs[g]) /\ HostOK(hs[g], r2, ps, d.mode)
    BY <1>2, <1>5, <2>1 DEF InvAt, SameHead, SameAnswer, SameBinding, HostsOK, HostOK
  <2> QED
    BY <1>3, <2>1 DEF HostsOK
<1>11. LeasesOK(hs2, r2, ps, ctl, unc)
  <2>1. ASSUME NEW g \in Hosts, g # h PROVE LeaseOK(g, hs[g], r2, ps, ctl, unc)
    <3>1. LeaseOK(g, hs[g], r, ps, ctl, unc)
      BY DEF InvAt, LeasesOK
    <3>2. ASSUME hs[g].holds, ps[hs[g].plan].lease = g PROVE PlanHeld(hs[g], r2, ps[hs[g].plan])
      <4>1. hs[g].plan \in Nat /\ hs[g].plan \in DOMAIN ps
        BY <3>2, HeldPlan DEF InvAt
      <4>2. ps[hs[g].plan].attempts + 1 \in Nat
        <5>1. ps[hs[g].plan] \in PlanStates
          BY <4>1 DEF InvAt, PlansOK, PlanOK
        <5> QED
          BY <5>1 DEF PlanStates
      <4>3. PlanHeld(hs[g], r, ps[hs[g].plan])
        BY <3>1, <3>2 DEF LeaseOK
      <4> QED
        BY <1>2, <1>6, <4>1, <4>2, <4>3 DEF PlanHeld
    <3> QED
      BY <3>1, <3>2 DEF LeaseOK, SameHead, SameAnswer
  <2> QED
    BY <1>3, <2>1 DEF LeasesOK
<1>12. ApartsOK(hs2)
  <2>1. ASSUME NEW g \in Hosts, g # h PROVE ApartOK(x, hs[g]) /\ ApartOK(hs[g], x)
    <3>1. ApartOK(hs[h], hs[g]) /\ ApartOK(hs[g], hs[h])
      BY <2>1 DEF InvAt, ApartsOK
    <3> QED
      BY <3>1 DEF ApartOK
  <2> QED
    BY <1>3, <2>1 DEF InvAt, ApartsOK
<1>13. r.settled \in [Resources -> Nat] /\ Funded(r) /\ IsFiniteSet(Reserved(r))
  BY DEF InvAt, LedgerOK, RunShape, Funded, Reservations
<1>14. Funded(r2) /\ \A y \in Resources :
           ResourceUsage(r2)[y] + r.active[id][y] = ResourceUsage(r)[y] + actual[y]
  BY <1>4, <1>7, <1>13, SettleUsage DEF id, actual
<1>15. Reservations(r2, ps, d.budget)
  <2>1. AtMost(ResourceUsage(r2), d.budget)
    <3> SUFFICES ASSUME NEW y \in Resources PROVE ResourceUsage(r2)[y] <= d.budget[y]
      BY DEF AtMost
    <3>1. ResourceUsage(r)[y] <= d.budget[y] /\ d.budget[y] \in Nat
      BY AutonomousAssumption DEF InvAt, Reservations, AtMost
    <3>2. ResourceUsage(r)[y] \in Nat
      BY <1>13, UsageNat
    <3>3. ResourceUsage(r2)[y] \in Nat
      BY ONLY <1>14, y \in Resources, UsageNat
    <3>4. actual[y] \in Nat /\ r.active[id][y] \in Nat /\ actual[y] <= r.active[id][y]
      BY <1>4, <1>7, <1>13 DEF Funded
    <3> QED
      BY <1>14, <3>1, <3>2, <3>3, <3>4
  <2>2. \A i \in Reserved(r2) : i \in Reserved(r) /\ r2.active[i] = r.active[i]
    BY <1>1, <1>2
  <2> QED
    BY <1>14, <2>1, <2>2 DEF InvAt, Reservations, Funded
<1>16. SpentOK(s, r2, ps, hs2)
  <2>1. PICK m : ModelUse(m, s, r, hs)
    BY DEF InvAt, SpentOK
  <2>2. PICK t : StepUse(t, s, r, ps)
    BY DEF InvAt, SpentOK
  <2> DEFINE m2 == [i \in Reserved(r) \ {id} |-> m[i]]
             t2 == [i \in Reserved(r) \ {id} |-> t[i]]
  <2>3. m \in [Reserved(r) -> Nat]
    BY <2>1 DEF ModelUse
  <2>4. t \in [Reserved(r) -> Nat]
    BY <2>2 DEF StepUse
  <2>5. \A i \in Reserved(r2) : i \in Reserved(r) /\ m2[i] = m[i] /\ t2[i] = t[i] /\ r2.active[i] = r.active[i]
    BY <1>1, <1>2
  <2>6. m2 = [i \in Reserved(r) \ {id} |-> m[i]] /\ t2 = [i \in Reserved(r) \ {id} |-> t[i]]
    OBVIOUS
  <2> HIDE DEF m2, t2
  <2>7. /\ m2 \in [Reserved(r2) -> Nat] /\ SumFunction(m) = m[id] + SumFunction(m2)
        /\ SumFunction(m) \in Nat /\ SumFunction(m2) \in Nat /\ m[id] \in Nat
    <3>1. m2 = [i \in Reserved(r) \ {id} |-> m[i]] /\ IsFiniteSet(Reserved(r)) /\ id \in Reserved(r)
      BY <1>4, <1>13, <2>6
    <3>2. /\ m2 \in [Reserved(r) \ {id} -> Nat] /\ SumFunction(m) = m[id] + SumFunction(m2)
          /\ SumFunction(m) \in Nat /\ SumFunction(m2) \in Nat /\ m[id] \in Nat
      BY ONLY <2>3, <3>1, SumRemove
    <3> QED
      BY ONLY <1>1, <3>2
  <2>8. /\ t2 \in [Reserved(r2) -> Nat] /\ SumFunction(t) = t[id] + SumFunction(t2)
        /\ SumFunction(t) \in Nat /\ SumFunction(t2) \in Nat /\ t[id] \in Nat
    <3>1. t2 = [i \in Reserved(r) \ {id} |-> t[i]] /\ IsFiniteSet(Reserved(r)) /\ id \in Reserved(r)
      BY <1>4, <1>13, <2>6
    <3>2. /\ t2 \in [Reserved(r) \ {id} -> Nat] /\ SumFunction(t) = t[id] + SumFunction(t2)
          /\ SumFunction(t) \in Nat /\ SumFunction(t2) \in Nat /\ t[id] \in Nat
      BY ONLY <2>4, <3>1, SumRemove
    <3> QED
      BY ONLY <1>1, <3>2
  <2>9. m[id] <= n /\ t[id] <= 0
    <3>1. m[id] <= hs[h].calls
      BY <2>1 DEF ModelUse, id
    <3>2. t[id] <= r.active[id]["step_attempts"]
      BY <1>4, <2>2 DEF StepUse
    <3> QED
      BY <1>4, <1>7, <2>7, <3>1, <3>2
  <2>10. r2.settled["model_calls"] = r.settled["model_calls"] + n /\ r.settled["model_calls"] \in Nat
    BY <1>7, <1>13 DEF Plus, Resources, actual
  <2>11. \A g \in Hosts : /\ hs2[g].pc = "dispatch" => m2[hs2[g].ticket] = 0
                          /\ hs2[g].pc = "settle" => m2[hs2[g].ticket] <= hs2[g].calls
    <3> SUFFICES ASSUME NEW g \in Hosts, g # h, HasTicket(hs[g])
                 PROVE  /\ hs[g].pc = "dispatch" => m2[hs[g].ticket] = 0
                        /\ hs[g].pc = "settle" => m2[hs[g].ticket] <= hs[g].calls
      BY <1>3 DEF HasTicket
    <3>1. hs[g].ticket \in Reserved(r2)
      BY <1>1, <1>5
    <3> QED
      BY <2>1, <2>5, <3>1 DEF ModelUse
  <2>12. s["model_calls"] <= r2.settled["model_calls"] + SumFunction(m2)
    <3>1. s["model_calls"] <= r.settled["model_calls"] + SumFunction(m) /\ s["model_calls"] \in Nat
      BY <2>1 DEF ModelUse, InvAt, SpentOK, Resources
    <3> QED
      BY <2>7, <2>9, <2>10, <3>1
  <2>13. ModelUse(m2, s, r2, hs2)
    BY <2>1, <2>5, <2>7, <2>11, <2>12 DEF ModelUse
  <2>14. s["step_attempts"] <= SumFunction(t2)
    <3>1. s["step_attempts"] <= SumFunction(t) /\ s["step_attempts"] \in Nat
      BY <2>2 DEF StepUse, InvAt, SpentOK, Resources
    <3> QED
      BY <2>8, <2>9, <3>1
  <2>15. StepUse(t2, s, r2, ps)
    BY <2>2, <2>5, <2>8, <2>14 DEF StepUse
  <2> QED
    BY <2>13, <2>15 DEF InvAt, SpentOK
<1>17. InvAt(d, r2, ps, c, ctl, unc, hs2, s)
  BY <1>8, <1>9, <1>10, <1>11, <1>12, <1>15, <1>16 DEF InvAt, SameHead
<1> QED
  BY <1>17 DEF hs2

\* The callback of a stage makes up to size model attempts.
LEMMA DispatchTouched ==
  ASSUME NEW d, NEW r, NEW ps, NEW c, NEW ctl, NEW unc, NEW hs, NEW s,
         InvAt(d, r, ps, c, ctl, unc, hs, s),
         NEW h \in Hosts, hs[h].pc = "dispatch", NEW n \in Nat, n <= hs[h].size,
         NEW x, x.pc = "settle", x.ticket = hs[h].ticket, x.via = hs[h].via, x.calls \in Nat, n <= x.calls,
         HostShape(x), HostOK(x, r, ps, d.mode), LeaseOK(h, x, r, ps, ctl, unc)
  PROVE  InvAt(d, r, ps, c, ctl, unc, [hs EXCEPT ![h] = x],
               [s EXCEPT !["model_calls"] = @ + n])
<1> DEFINE hs2 == [hs EXCEPT ![h] = x]
           s2 == [s EXCEPT !["model_calls"] = @ + n]
           id == hs[h].ticket
<1>1. /\ hs2 \in [Hosts -> HostStates] /\ hs2[h] = x
      /\ \A g \in Hosts : g # h => hs2[g] = hs[g]
  BY DEF InvAt, HostsOK, HostShape
<1>2. /\ s2 \in [Resources -> Nat] /\ s2["model_calls"] = s["model_calls"] + n /\ s["model_calls"] \in Nat
      /\ s2["step_attempts"] = s["step_attempts"] /\ s2["plan_steps"] = 0
  BY DEF InvAt, SpentOK, Resources
<1> HIDE DEF hs2, s2
<1>3. /\ id \in Reserved(r) /\ r.active[id] = Usage("model_calls", hs[h].size)
      /\ hs[h].size \in Nat
  BY DEF InvAt, HostsOK, HostOK, HasTicket, HostStates
<1>4. r.active[id]["model_calls"] = hs[h].size
  BY <1>3 DEF Usage, NoUsage, Resources
<1>5. \A g \in Hosts : g # h /\ HasTicket(hs[g]) => hs[g].ticket \in Reserved(r) /\ hs[g].ticket # id
  BY DEF InvAt, HostsOK, HostOK, ApartsOK, ApartOK, HasTicket
<1>6. HostsOK(hs2, r, ps, d.mode)
  BY <1>1 DEF InvAt, HostsOK
<1>7. LeasesOK(hs2, r, ps, ctl, unc)
  BY <1>1 DEF InvAt, LeasesOK
<1>8. ApartsOK(hs2)
  <2>1. ASSUME NEW g \in Hosts, g # h PROVE ApartOK(x, hs[g]) /\ ApartOK(hs[g], x)
    <3>1. ApartOK(hs[h], hs[g]) /\ ApartOK(hs[g], hs[h])
      BY <2>1 DEF InvAt, ApartsOK
    <3> QED
      BY <3>1 DEF ApartOK, HasTicket
  <2> QED
    BY <1>1, <2>1 DEF InvAt, ApartsOK
<1>9. SpentOK(s2, r, ps, hs2)
  <2>1. PICK m : ModelUse(m, s, r, hs)
    BY DEF InvAt, SpentOK
  <2>2. PICK t : StepUse(t, s, r, ps)
    BY DEF InvAt, SpentOK
  <2>3. m \in [Reserved(r) -> Nat] /\ m[id] = 0 /\ IsFiniteSet(Reserved(r))
    BY <2>1 DEF ModelUse, InvAt, Reservations
  <2> DEFINE m2 == [m EXCEPT ![id] = n]
  <2>4. m2 \in [Reserved(r) -> Nat] /\ m2[id] = n /\ \A i \in Reserved(r) : i # id => m2[i] = m[i]
    BY <1>3, <2>3
  <2> HIDE DEF m2
  <2> HIDE DEF id
  <2>5. /\ m2 \in [Reserved(r) -> Nat] /\ m2[id] = n /\ \A i \in Reserved(r) : i # id => m2[i] = m[i]
        /\ SumFunction(m2) + m[id] = SumFunction(m) + n /\ SumFunction(m2) \in Nat /\ SumFunction(m) \in Nat
    <3>1. SumFunction(m2) + m[id] = SumFunction(m) + m2[id] /\ SumFunction(m2) \in Nat /\ SumFunction(m) \in Nat
      BY ONLY <1>3, <2>3, <2>4, SumUpdate
    <3> QED
      BY <2>4, <3>1
  <2>6. \A i \in Reserved(r) : m2[i] <= r.active[i]["model_calls"]
    BY <1>4, <2>1, <2>5 DEF ModelUse
  <2>7. \A g \in Hosts : /\ hs2[g].pc = "dispatch" => m2[hs2[g].ticket] = 0
                         /\ hs2[g].pc = "settle" => m2[hs2[g].ticket] <= hs2[g].calls
    <3>1. ASSUME NEW g \in Hosts, g # h, HasTicket(hs[g])
          PROVE  /\ hs[g].pc = "dispatch" => m2[hs[g].ticket] = 0
                 /\ hs[g].pc = "settle" => m2[hs[g].ticket] <= hs[g].calls
      BY <1>5, <2>1, <2>5, <3>1 DEF ModelUse
    <3>2. m2[x.ticket] <= x.calls
      BY <2>5 DEF id
    <3> QED
      BY <1>1, <3>1, <3>2 DEF HasTicket
  <2>8. r.settled["model_calls"] \in Nat
    BY DEF InvAt, LedgerOK, RunShape, Resources
  <2>9. s2["model_calls"] <= r.settled["model_calls"] + SumFunction(m2)
    <3>1. s["model_calls"] <= r.settled["model_calls"] + SumFunction(m)
      BY <2>1 DEF ModelUse
    <3> QED
      BY <1>2, <2>3, <2>5, <2>8, <3>1
  <2>10. ModelUse(m2, s2, r, hs2)
    BY <2>5, <2>6, <2>7, <2>9 DEF ModelUse
  <2>11. StepUse(t, s2, r, ps)
    BY <1>2, <2>2 DEF StepUse
  <2> QED
    BY <1>2, <2>10, <2>11 DEF SpentOK
<1>10. InvAt(d, r, ps, c, ctl, unc, hs2, s2)
  BY <1>6, <1>7, <1>8, <1>9 DEF InvAt
<1> QED
  BY <1>10 DEF hs2, s2

\* An attempt of a Plan's step starts under its reservation.
LEMMA StartTouched ==
  ASSUME NEW d, NEW r, NEW ps, NEW c, NEW ctl, NEW unc, NEW hs, NEW s,
         InvAt(d, r, ps, c, ctl, unc, hs, s),
         NEW h \in Hosts, hs[h].pc = "step_start", hs[h].holds, ps[hs[h].plan].lease = h,
         NEW q, q = [ps[hs[h].plan] EXCEPT !.phase = "running", !.attempts = @ + 1],
         NEW x, x = [hs[h] EXCEPT !.pc = "step_end"]
  PROVE  InvAt(d, r, [ps EXCEPT ![hs[h].plan] = q], c, ctl, unc, [hs EXCEPT ![h] = x],
               [s EXCEPT !["step_attempts"] = @ + 1])
<1> DEFINE p == hs[h].plan
           ps2 == [ps EXCEPT ![p] = q]
           hs2 == [hs EXCEPT ![h] = x]
           s2 == [s EXCEPT !["step_attempts"] = @ + 1]
           k == ps[p].attempts + 1
           id == <<"step", p, k>>
<1>1. r.bound /\ p \in ToSet(r.plan_ids) /\ p \in DOMAIN ps /\ p \in Nat
  BY HeldPlan DEF InvAt
<1>2. ps \in Seq(PlanStates) /\ PlanOK(p, ps[p], r) /\ ps[p] \in PlanStates
  BY <1>1 DEF InvAt, PlansOK, PlanOK
<1>3. HostShape(hs[h]) /\ HostOK(hs[h], r, ps, d.mode) /\ LeaseOK(h, hs[h], r, ps, ctl, unc) /\ hs[h] \in HostStates
  BY DEF InvAt, HostsOK, LeasesOK, HostShape
<1>4. PlanHeld(hs[h], r, ps[p])
  BY <1>3 DEF LeaseOK
<1>5. /\ q \in PlanStates /\ q.phase = "running" /\ q.attempts = k /\ q.unsafe = ps[p].unsafe
      /\ q.lease = h /\ k \in Nat /\ ps[p].attempts \in Nat
  <2>1. ps[p].attempts \in Nat /\ k \in Nat
    BY <1>2 DEF PlanStates
  <2>2. q \in PlanStates
    BY <1>2, <2>1 DEF PlanStates
  <2>3. q.phase = "running" /\ q.attempts = k /\ q.unsafe = ps[p].unsafe /\ q.lease = h
    BY <1>2 DEF PlanStates
  <2> QED
    BY <2>1, <2>2, <2>3
<1>6. /\ x \in HostStates /\ x.pc = "step_end" /\ x.via = hs[h].via /\ x.holds = hs[h].holds
      /\ x.controls = hs[h].controls /\ x.plan = p /\ x.writes = hs[h].writes /\ x.stage = hs[h].stage
      /\ x.status = hs[h].status /\ x.phase = hs[h].phase
  BY <1>3 DEF HostStates, Pcs, LoopPcs, StepPcs
<1>7. /\ ps2 \in Seq(PlanStates) /\ DOMAIN ps2 = DOMAIN ps
      /\ ps2[p] = q /\ \A i \in DOMAIN ps : i # p => ps2[i] = ps[i]
  BY <1>1, <1>2, <1>5
<1>8. /\ hs2 \in [Hosts -> HostStates] /\ hs2[h] = x
      /\ \A g \in Hosts : g # h => hs2[g] = hs[g]
  BY <1>6 DEF InvAt, HostsOK
<1>9. /\ s2 \in [Resources -> Nat] /\ s2["step_attempts"] = s["step_attempts"] + 1
      /\ s["step_attempts"] \in Nat
      /\ s2["model_calls"] = s["model_calls"] /\ s2["plan_steps"] = 0
  BY DEF InvAt, SpentOK, Resources
<1> HIDE DEF ps2, hs2, s2, p, k
<1>10. ps[p].phase \in {"pending", "waiting_approval", "running"} /\ id \in Reserved(r)
       /\ (ps[p].unsafe => ps[p].phase # "running")
  BY <1>4 DEF PlanHeld, p, k
<1>11. SomeCompleted(ps) => SomeCompleted(ps2)
  BY <1>1, <1>7, <1>10 DEF SomeCompleted
<1>12. LedgerOK(r, c, ps2)
  BY <1>7, <1>11 DEF InvAt, LedgerOK
<1>13. PlansOK(ps2, r)
  <2>1. PlanOK(p, q, r)
    <3>1. q.unsafe => ps[p].attempts = 0
      BY <1>2, <1>5, <1>10 DEF PlanOK
    <3> QED
      BY <1>1, <1>5, <3>1 DEF PlanOK, k
  <2> QED
    BY <1>7, <2>1 DEF InvAt, PlansOK
<1>14. HostsOK(hs2, r, ps2, d.mode)
  <2>1. ASSUME NEW g \in Hosts, g # h PROVE HostShape(hs[g]) /\ HostOK(hs[g], r, ps2, d.mode)
    BY <1>7, <1>11 DEF InvAt, HostsOK, HostOK
  <2>2. hs[h].stage = "none" /\ x.stage = "none"
    BY <1>3, <1>6 DEF HostShape, StagePcs
  <2>3. HostShape(x)
    BY <1>3, <1>6, <2>2 DEF HostShape, Loaded, OnPlan, LoopPcs, StepPcs, StagePcs
  <2>4. HostOK(x, r, ps2, d.mode)
    <3>1. ~InAdmission(x) /\ ~Answering(x) /\ OnPlan(x) /\ ~HasTicket(x)
      BY <1>6, <2>2 DEF InAdmission, Answering, OnPlan, HasTicket, LoopPcs, StepPcs, AnswerPcs
    <3> QED
      BY <1>1, <1>3, <1>6, <1>11, <2>2, <3>1 DEF HostOK
  <2> QED
    BY <1>8, <2>1, <2>3, <2>4 DEF HostsOK
<1>15. LeasesOK(hs2, r, ps2, ctl, unc)
  <2>1. ASSUME NEW g \in Hosts, g # h PROVE LeaseOK(g, hs[g], r, ps2, ctl, unc)
    <3>1. LeaseOK(g, hs[g], r, ps, ctl, unc)
      BY DEF InvAt, LeasesOK
    <3>2. hs[g].holds => hs[g].plan \in DOMAIN ps
      BY HeldPlan DEF InvAt
    <3>3. hs[g].holds /\ ps2[hs[g].plan].lease = g => hs[g].plan # p /\ ps2[hs[g].plan] = ps[hs[g].plan]
      BY <1>5, <1>7, <2>1, <3>2
    <3> QED
      BY <3>1, <3>3 DEF LeaseOK
  <2>2. LeaseOK(h, x, r, ps2, ctl, unc)
    <3>1. Loaded(hs[h])
      BY DEF Loaded, OnPlan, LoopPcs, StepPcs
    <3> QED
      BY <1>3, <1>5, <1>6, <1>7, <3>1 DEF LeaseOK, PlanHeld
  <2> QED
    BY <1>8, <2>1, <2>2 DEF LeasesOK
<1>16. ApartsOK(hs2)
  <2>1. ASSUME NEW g \in Hosts, g # h PROVE ApartOK(x, hs[g]) /\ ApartOK(hs[g], x)
    <3>1. ApartOK(hs[h], hs[g]) /\ ApartOK(hs[g], hs[h])
      BY <2>1 DEF InvAt, ApartsOK
    <3> QED
      BY <1>6, <3>1 DEF ApartOK, HasTicket
  <2> QED
    BY <1>8, <2>1 DEF InvAt, ApartsOK
<1>17. Reservations(r, ps2, d.budget)
  BY <1>7 DEF InvAt, Reservations
<1>18. SpentOK(s2, r, ps2, hs2)
  <2>1. PICK m : ModelUse(m, s, r, hs)
    BY DEF InvAt, SpentOK
  <2>2. PICK t : StepUse(t, s, r, ps)
    BY DEF InvAt, SpentOK
  <2>3. ModelUse(m, s2, r, hs2)
    <3>1. \A g \in Hosts : hs2[g].pc \in {"dispatch", "settle"} => hs2[g] = hs[g]
      BY <1>6, <1>8
    <3> QED
      BY <1>9, <2>1, <3>1 DEF ModelUse
  <2>4. t \in [Reserved(r) -> Nat] /\ IsFiniteSet(Reserved(r))
    BY <2>2 DEF StepUse, InvAt, Reservations
  <2>5. t[id] = 0 /\ r.active[id]["step_attempts"] = 1
    <3>1. k > ps[p].attempts
      BY <1>5 DEF k
    <3> QED
      BY <1>1, <1>5, <1>10, <2>2, <3>1 DEF StepUse, InvAt, Reservations
  <2> DEFINE t2 == [t EXCEPT ![id] = 1]
  <2>6. t2 \in [Reserved(r) -> Nat] /\ t2[id] = 1 /\ \A i \in Reserved(r) : i # id => t2[i] = t[i]
    BY <1>10, <2>4
  <2> HIDE DEF t2
  <2>7. id \in Reserved(r)
    BY <1>10
  <2>8. \A pp, kk \in Nat : <<"step", pp, kk>> \in Reserved(r) /\ kk > ps2[pp].attempts => t2[<<"step", pp, kk>>] = 0
    <3> SUFFICES ASSUME NEW pp \in Nat, NEW kk \in Nat, <<"step", pp, kk>> \in Reserved(r), kk > ps2[pp].attempts
                 PROVE  t2[<<"step", pp, kk>>] = 0
      OBVIOUS
    <3>1. pp \in DOMAIN ps
      BY DEF InvAt, Reservations
    <3>2. CASE pp = p
      <4>1. kk > k /\ kk > ps[p].attempts
        <5>1. kk > k
          BY <1>5, <1>7, <3>2
        <5>2. k > ps[p].attempts
          BY <1>5 DEF k
        <5> QED
          BY <1>5, <5>1, <5>2
      <4>2. <<"step", pp, kk>> # id
        BY <1>5, <4>1
      <4> QED
        BY <2>2, <2>6, <3>2, <4>1, <4>2 DEF StepUse
    <3>3. CASE pp # p
      <4>1. kk > ps[pp].attempts
        BY <1>7, <3>1, <3>3
      <4>2. <<"step", pp, kk>> # id
        BY <3>3
      <4> QED
        BY <2>2, <2>6, <4>1, <4>2 DEF StepUse
    <3> QED
      BY <3>2, <3>3
  <2> HIDE DEF id
  <2>9. SumFunction(t2) + t[id] = SumFunction(t) + t2[id] /\ SumFunction(t2) \in Nat /\ SumFunction(t) \in Nat
    BY ONLY <2>4, <2>6, <2>7, SumUpdate
  <2>10. \A i \in Reserved(r) : t2[i] <= r.active[i]["step_attempts"]
    BY <2>2, <2>5, <2>6 DEF StepUse
  <2>11. s2["step_attempts"] <= SumFunction(t2)
    <3>1. s["step_attempts"] <= SumFunction(t)
      BY <2>2 DEF StepUse
    <3> QED
      BY <1>9, <2>5, <2>6, <2>9, <3>1
  <2>12. StepUse(t2, s2, r, ps2)
    BY <2>6, <2>8, <2>10, <2>11 DEF StepUse
  <2> QED
    BY <1>9, <2>3, <2>12 DEF SpentOK
<1>19. InvAt(d, r, ps2, c, ctl, unc, hs2, s2)
  BY <1>12, <1>13, <1>14, <1>15, <1>16, <1>17, <1>18 DEF InvAt
<1> QED
  BY <1>19 DEF hs2, s2, ps2, p
-----------------------------------------------------------------------------
(* The events of the ledger *)

\* A Run that takes events.
Live(r) == RunShape(r) /\ r.ok /\ r.exists /\ ~Terminal(r)

LEMMA ApplyInitialized ==
  ASSUME NEW r, RunShape(r), r.ok, ~r.exists, ~Terminal(r), NEW b, NEW r2, r2 = Apply(r, Initialized, b)
  PROVE  /\ RunShape(r2) /\ r2.exists /\ r2.closed = r.closed
         /\ SameFunds(r2, r) /\ SameAnswer(r2, r) /\ SameBinding(r2, r)
<1> DEFINE e == Initialized
<1>1. e.type = "initialized"
  BY DEF Initialized
<1> HIDE DEF e
<1>2. Accepts(r, e, b)
  BY <1>1 DEF Accepts, RunShape
<1>3. Fold(r, e) = [r EXCEPT !.exists = TRUE]
  BY <1>1 DEF Fold
<1>4. r2 = [r EXCEPT !.exists = TRUE]
  BY <1>2, <1>3 DEF Apply, e
<1>5. r2.active = r.active
  BY <1>4 DEF RunShape
<1>6. RunShape(r2)
  BY <1>4, <1>5 DEF RunShape
<1> QED
  BY <1>4, <1>6 DEF RunShape, SameFunds, SameAnswer, SameBinding

LEMMA ApplyClosed ==
  ASSUME NEW r, Live(r), ~r.bound, ~r.linked, ~r.dispatchable, NEW b, NEW r2, r2 = Apply(r, AdmissionClosed, b)
  PROVE  /\ RunShape(r2) /\ r2.exists = r.exists /\ r2.closed = TRUE
         /\ SameFunds(r2, r) /\ SameAnswer(r2, r) /\ SameBinding(r2, r)
<1> DEFINE e == AdmissionClosed
<1>1. e.type = "closed"
  BY DEF AdmissionClosed
<1> HIDE DEF e
<1>2. Accepts(r, e, b)
  BY <1>1 DEF Accepts, Live, RunShape
<1>3. Fold(r, e) = [r EXCEPT !.closed = TRUE]
  BY <1>1 DEF Fold
<1>4. r2 = [r EXCEPT !.closed = TRUE]
  BY <1>2, <1>3 DEF Apply, e, Live
<1>5. r2.active = r.active
  BY <1>4 DEF Live, RunShape
<1>6. RunShape(r2)
  BY <1>4, <1>5 DEF Live, RunShape
<1> QED
  BY <1>4, <1>6 DEF Live, RunShape, SameFunds, SameAnswer, SameBinding

LEMMA ApplyReserved ==
  ASSUME NEW r, Live(r), NEW b, NEW id, id \notin Reserved(r), NEW amount,
         AtMost(Plus(ResourceUsage(r), amount), b), NEW r2, r2 = Apply(r, ResourceReserved(id, amount), b)
  PROVE  /\ RunShape(r2) /\ SameHead(r2, r)
         /\ r2.active = With(r.active, id, amount) /\ r2.settled = r.settled
<1> DEFINE e == ResourceReserved(id, amount)
<1>1. e.type = "reserved" /\ e.id = id /\ e.amount = amount
  BY DEF ResourceReserved
<1> HIDE DEF e
<1>2. Accepts(r, e, b)
  BY <1>1 DEF Accepts, Live, RunShape
<1>3. Fold(r, e) = [r EXCEPT !.active = With(r.active, id, amount)]
  BY <1>1 DEF Fold
<1>4. r2 = [r EXCEPT !.active = With(r.active, id, amount)]
  BY <1>2, <1>3 DEF Apply, e, Live
<1>5. r2.active = With(r.active, id, amount)
  BY <1>4 DEF Live, RunShape
<1>6. RunShape(r2)
  BY <1>4, <1>5 DEF Live, RunShape
<1> QED
  BY <1>4, <1>5, <1>6 DEF Live, RunShape, SameHead, SameAnswer, SameBinding

LEMMA ApplySettled ==
  ASSUME NEW r, Live(r), NEW b, NEW id \in Reserved(r), NEW actual \in [Resources -> Nat],
         AtMost(actual, r.active[id]), NEW r2, r2 = Apply(r, ResourceSettled(id, actual), b)
  PROVE  /\ RunShape(r2) /\ SameHead(r2, r)
         /\ r2.active = Without(r.active, id) /\ r2.settled = Plus(r.settled, actual)
<1> DEFINE e == ResourceSettled(id, actual)
<1>1. e.type = "settled" /\ e.id = id /\ e.amount = actual
  BY DEF ResourceSettled
<1> HIDE DEF e
<1>2. Accepts(r, e, b)
  BY <1>1 DEF Accepts, Live, RunShape
<1>3. Fold(r, e) = [r EXCEPT !.active = Without(r.active, id), !.settled = Plus(r.settled, actual)]
  BY <1>1 DEF Fold, Live, RunShape
<1>4. r2 = [r EXCEPT !.active = Without(r.active, id), !.settled = Plus(r.settled, actual)]
  BY <1>2, <1>3 DEF Apply, e, Live
<1>5. r2.active = Without(r.active, id)
  BY <1>4 DEF Live, RunShape
<1>6. Plus(r.settled, actual) \in [Resources -> Nat]
  BY DEF Plus, Live, RunShape
<1>7. RunShape(r2)
  BY <1>4, <1>5, <1>6 DEF Live, RunShape
<1> QED
  BY <1>4, <1>5, <1>7 DEF Live, RunShape, SameHead, SameAnswer, SameBinding

LEMMA ApplyReleased ==
  ASSUME NEW r, Live(r), NEW b, NEW id \in Reserved(r), NEW r2, r2 = Apply(r, ResourceReleased(id), b)
  PROVE  /\ RunShape(r2) /\ SameHead(r2, r)
         /\ r2.active = Without(r.active, id) /\ r2.settled = r.settled
<1> DEFINE e == ResourceReleased(id)
<1>1. e.type = "released" /\ e.id = id
  BY DEF ResourceReleased
<1> HIDE DEF e
<1>2. Accepts(r, e, b)
  BY <1>1 DEF Accepts, Live, RunShape
<1>3. Fold(r, e) = [r EXCEPT !.active = Without(r.active, id)]
  BY <1>1 DEF Fold
<1>4. r2 = [r EXCEPT !.active = Without(r.active, id)]
  BY <1>2, <1>3 DEF Apply, e, Live
<1>5. r2.active = Without(r.active, id)
  BY <1>4 DEF Live, RunShape
<1>6. RunShape(r2)
  BY <1>4, <1>5 DEF Live, RunShape
<1> QED
  BY <1>4, <1>5, <1>6 DEF Live, RunShape, SameHead, SameAnswer, SameBinding

LEMMA ApplyLoop ==
  ASSUME NEW r, Live(r), NEW b, NEW kind, NEW round \in Nat, NEW r2, r2 = Apply(r, LoopEvent(kind, round), b)
  PROVE  Alike(r2, r)
<1> DEFINE e == LoopEvent(kind, round)
           dr == IF e.kind = "correction_planned" THEN 1 ELSE 0
           da == IF e.kind = "action_started" /\ e.round > 0 THEN 1 ELSE 0
<1>1. e.type = "loop"
  BY DEF LoopEvent
<1>2. dr \in Nat /\ da \in Nat
  OBVIOUS
<1> HIDE DEF e
<1>3. Accepts(r, e, b)
  BY <1>1 DEF Accepts, Live, RunShape
<1>4. Fold(r, e) = [r EXCEPT !.rounds = r.rounds + dr, !.actions = r.actions + da]
  BY <1>1 DEF Fold, Live, RunShape
<1> HIDE DEF dr, da
<1>5. r2 = [r EXCEPT !.rounds = r.rounds + dr, !.actions = r.actions + da]
  BY <1>3, <1>4 DEF Apply, e, Live
<1>6. r2.active = r.active
  BY <1>5 DEF Live, RunShape
<1>7. r.rounds + dr \in Nat /\ r.actions + da \in Nat
  BY <1>2 DEF Live, RunShape
<1>8. RunShape(r2)
  BY <1>5, <1>6, <1>7 DEF Live, RunShape
<1> QED
  BY <1>5, <1>6, <1>8 DEF Live, RunShape, Alike

LEMMA ApplySegment ==
  ASSUME NEW r, Live(r), NEW b
  PROVE  Apply(r, SegmentFinished, b) = r
<1> DEFINE e == SegmentFinished
<1>1. e.type = "segment"
  BY DEF SegmentFinished
<1> HIDE DEF e
<1>2. Accepts(r, e, b)
  BY <1>1 DEF Accepts, Live, RunShape
<1>3. Fold(r, e) = r
  BY <1>1 DEF Fold
<1> QED
  BY <1>2, <1>3 DEF Apply, e, Live

LEMMA ApplyFinalized ==
  ASSUME NEW r, Live(r), r.bound, NEW b, NEW status \in Answers, NEW text \in Texts,
         NEW r2, r2 = Apply(r, Finalized(status, text), b)
  PROVE  /\ RunShape(r2) /\ r2.ok /\ r2.exists = r.exists /\ r2.closed = r.closed
         /\ SameFunds(r2, r) /\ SameBinding(r2, r) /\ r2.status = status /\ r2.text = text
<1> DEFINE e == Finalized(status, text)
<1>1. e.type = "finalized" /\ e.status = status /\ e.text = text
  BY DEF Finalized
<1> HIDE DEF e
<1>2. Accepts(r, e, b)
  BY <1>1 DEF Accepts, Live, RunShape
<1>3. Fold(r, e) = [r EXCEPT !.status = status, !.text = text]
  BY <1>1 DEF Fold
<1>4. r2 = [r EXCEPT !.status = status, !.text = text]
  BY <1>2, <1>3 DEF Apply, e, Live
<1>5. r2.active = r.active
  BY <1>4 DEF Live, RunShape
<1>6. RunShape(r2)
  BY <1>4, <1>5 DEF Live, RunShape
<1> QED
  BY <1>4, <1>5, <1>6 DEF Live, RunShape, SameFunds, SameBinding

LEMMA ApplyRegistered ==
  ASSUME NEW r, Live(r), NEW b, NEW p \in Nat, p \notin ToSet(r.plan_ids),
         NEW r2, r2 = Apply(r, PlanRegistered(p), b)
  PROVE  /\ RunShape(r2) /\ r2.exists = r.exists /\ r2.closed = r.closed
         /\ SameFunds(r2, r) /\ SameAnswer(r2, r)
         /\ r2.bound = r.bound /\ r2.linked = r.linked /\ r2.dispatchable = r.dispatchable
         /\ ToSet(r2.plan_ids) = ToSet(r.plan_ids) \cup {p}
<1> DEFINE e == PlanRegistered(p)
<1>1. e.type = "registered" /\ e.plan = p
  BY DEF PlanRegistered
<1> HIDE DEF e
<1>2. Accepts(r, e, b)
  BY <1>1 DEF Accepts, Live, RunShape
<1>3. Fold(r, e) = [r EXCEPT !.plan_ids = Append(r.plan_ids, p)]
  BY <1>1 DEF Fold
<1>4. r2 = [r EXCEPT !.plan_ids = Append(r.plan_ids, p)]
  BY <1>2, <1>3 DEF Apply, e, Live
<1>5. r2.active = r.active
  BY <1>4 DEF Live, RunShape
<1>6. r.plan_ids \in Seq(Nat) /\ Append(r.plan_ids, p) \in Seq(Nat)
  BY DEF Live, RunShape
<1>7. RunShape(r2)
  BY <1>4, <1>5, <1>6 DEF Live, RunShape
<1>8. r2.plan_ids = Append(r.plan_ids, p)
  BY <1>4 DEF Live, RunShape
<1>9. ToSet(r2.plan_ids) = ToSet(r.plan_ids) \cup {p}
  BY <1>6, <1>8, ToSetFacts
<1> QED
  BY <1>4, <1>5, <1>7, <1>9 DEF Live, RunShape, SameFunds, SameAnswer

LEMMA PublishedFacts ==
  ASSUME NEW r, Live(r), ~r.bound, ~r.linked, ~r.dispatchable, r.plan_ids = << >>,
         NEW b, NEW p \in Nat, NEW r2, r2 = Published(r, p, b)
  PROVE  /\ RunShape(r2) /\ r2.exists = r.exists /\ r2.closed = r.closed
         /\ SameFunds(r2, r) /\ SameAnswer(r2, r)
         /\ r2.bound /\ r2.linked /\ r2.dispatchable /\ r2.plan_ids = <<p>>
<1> DEFINE e1 == PlanBound(p)
           e2 == Linked
           e3 == Dispatchable
           u == [r EXCEPT !.bound = TRUE, !.plan_ids = <<p>>]
           v == [u EXCEPT !.linked = TRUE]
           w == [v EXCEPT !.dispatchable = TRUE]
<1>1. e1.type = "bound" /\ e1.plan = p /\ e2.type = "linked" /\ e3.type = "dispatchable"
  BY DEF PlanBound, Linked, Dispatchable
<1> HIDE DEF e1, e2, e3
<1>2. Apply(r, e1, b) = u
  <2>1. Accepts(r, e1, b)
    BY <1>1 DEF Accepts, Live, RunShape
  <2>2. Fold(r, e1) = u
    BY <1>1 DEF Fold
  <2> QED
    BY <2>1, <2>2 DEF Apply, Live
<1>3. /\ u.exists = r.exists /\ u.closed = r.closed /\ SameFunds(u, r) /\ SameAnswer(u, r)
      /\ u.bound = TRUE /\ u.linked = r.linked /\ u.dispatchable = r.dispatchable /\ u.plan_ids = <<p>>
  BY DEF Live, RunShape, SameFunds, SameAnswer
<1>4. RunShape(u)
  <2>1. <<p>> \in Seq(Nat) /\ u.active = r.active
    BY DEF Live, RunShape
  <2> QED
    BY <2>1 DEF Live, RunShape
<1> HIDE DEF u
<1>5. Apply(u, e2, b) = v
  <2>1. ~Terminal(u) /\ u.ok /\ u.exists
    BY <1>3 DEF Live, Terminal, SameAnswer
  <2>2. Accepts(u, e2, b)
    BY <1>1, <1>3, <2>1 DEF Accepts
  <2>3. Fold(u, e2) = v
    BY <1>1 DEF Fold
  <2> QED
    BY <2>1, <2>2, <2>3 DEF Apply
<1>6. /\ v.exists = r.exists /\ v.closed = r.closed /\ SameFunds(v, r) /\ SameAnswer(v, r)
      /\ v.bound = TRUE /\ v.linked = TRUE /\ v.dispatchable = r.dispatchable /\ v.plan_ids = <<p>>
  BY <1>3, <1>4 DEF RunShape, SameFunds, SameAnswer
<1>7. RunShape(v)
  <2>1. v.active = u.active
    BY <1>4 DEF RunShape
  <2> QED
    BY <1>4, <2>1 DEF RunShape
<1> HIDE DEF v
<1>8. Apply(v, e3, b) = w
  <2>1. ~Terminal(v) /\ v.ok /\ v.exists
    BY <1>6 DEF Live, Terminal, SameAnswer
  <2>2. Accepts(v, e3, b)
    BY <1>1, <1>6, <2>1 DEF Accepts
  <2>3. Fold(v, e3) = w
    BY <1>1 DEF Fold
  <2> QED
    BY <2>1, <2>2, <2>3 DEF Apply
<1>9. /\ w.exists = r.exists /\ w.closed = r.closed /\ SameFunds(w, r) /\ SameAnswer(w, r)
      /\ w.bound = TRUE /\ w.linked = TRUE /\ w.dispatchable = TRUE /\ w.plan_ids = <<p>>
  BY <1>6, <1>7 DEF RunShape, SameFunds, SameAnswer
<1>10. RunShape(w)
  <2>1. w.active = v.active
    BY <1>7 DEF RunShape
  <2> QED
    BY <1>7, <2>1 DEF RunShape
<1> HIDE DEF w
<1>11. r2 = w
  BY <1>2, <1>5, <1>8 DEF Published, e1, e2, e3
<1> QED
  BY <1>9, <1>10, <1>11
-----------------------------------------------------------------------------
(* Steps of one Host *)

LEMMA HostFacts ==
  ASSUME NEW d, NEW r, NEW ps, NEW c, NEW ctl, NEW unc, NEW hs, NEW s,
         InvAt(d, r, ps, c, ctl, unc, hs, s), NEW h \in Hosts
  PROVE  /\ hs \in [Hosts -> HostStates] /\ hs[h] \in HostStates /\ HostShape(hs[h])
         /\ HostOK(hs[h], r, ps, d.mode) /\ LeaseOK(h, hs[h], r, ps, ctl, unc)
  BY DEF InvAt, HostsOK, LeasesOK, HostShape

LEMMA RunFacts ==
  ASSUME NEW d, NEW r, NEW ps, NEW c, NEW ctl, NEW unc, NEW hs, NEW s,
         InvAt(d, r, ps, c, ctl, unc, hs, s)
  PROVE  /\ d \in Deployments /\ d.budget \in [Resources -> Nat]
         /\ LedgerOK(r, c, ps) /\ RunShape(r) /\ r.ok /\ Funded(r)
         /\ ps \in Seq(PlanStates) /\ ToSet(r.plan_ids) \subseteq DOMAIN ps
         /\ \A p \in DOMAIN ps : p \in Nat /\ ps[p] \in PlanStates
         /\ r.exists /\ ~Terminal(r) => Live(r)
         /\ r.bound => r.exists /\ ~r.closed
<1>1. d \in Deployments /\ d.budget \in [Resources -> Nat]
  BY AutonomousAssumption DEF InvAt
<1>2. LedgerOK(r, c, ps) /\ RunShape(r) /\ r.ok /\ (r.bound => r.exists /\ ~r.closed)
  BY DEF InvAt, LedgerOK
<1>3. Funded(r)
  BY <1>2 DEF InvAt, Reservations, Funded, RunShape
<1>4. ps \in Seq(PlanStates) /\ ToSet(r.plan_ids) \subseteq DOMAIN ps
  BY <1>2 DEF InvAt, PlansOK, LedgerOK
<1>5. \A p \in DOMAIN ps : p \in Nat /\ ps[p] \in PlanStates
  BY <1>4
<1>6. r.exists /\ ~Terminal(r) => Live(r)
  BY <1>2 DEF Live
<1> QED
  BY <1>1, <1>2, <1>3, <1>4, <1>5, <1>6

\* Two Hosts' locals are the same, but for the program counter and the stage.
SameRest(x, y) ==
    /\ x.via = y.via /\ x.writes = y.writes /\ x.controls = y.controls /\ x.holds = y.holds
    /\ x.plan = y.plan /\ x.draft = y.draft /\ x.phase = y.phase /\ x.round = y.round
    /\ x.rounds = y.rounds /\ x.actions = y.actions /\ x.status = y.status /\ x.text = y.text

\* What Go and GoStage make of a Host's locals.
Gone(y, pc) == [y EXCEPT !.pc = pc]
Staged(y, stage) == [y EXCEPT !.pc = "reserve", !.stage = stage]

LEMMA GoFacts ==
  ASSUME NEW y \in HostStates, NEW pc \in Pcs, NEW x, x = Gone(y, pc)
  PROVE  /\ x \in HostStates /\ x.pc = pc /\ SameRest(x, y)
         /\ x.stage = y.stage /\ x.ticket = y.ticket /\ x.size = y.size /\ x.calls = y.calls
         /\ x.outcome = y.outcome
<1>1. x \in HostStates
  BY DEF HostStates, Gone
<1>2. x.pc = pc /\ x.via = y.via /\ x.writes = y.writes /\ x.controls = y.controls /\ x.holds = y.holds
  BY DEF HostStates, Gone
<1>3. /\ x.plan = y.plan /\ x.draft = y.draft /\ x.phase = y.phase /\ x.round = y.round
      /\ x.rounds = y.rounds /\ x.actions = y.actions /\ x.status = y.status /\ x.text = y.text
  BY DEF HostStates, Gone
<1>4. x.stage = y.stage /\ x.ticket = y.ticket /\ x.size = y.size /\ x.calls = y.calls /\ x.outcome = y.outcome
  BY DEF HostStates, Gone
<1> QED
  BY <1>1, <1>2, <1>3, <1>4 DEF SameRest

LEMMA GoStageFacts ==
  ASSUME NEW y \in HostStates, NEW stage \in Stages, NEW x, x = Staged(y, stage)
  PROVE  x \in HostStates /\ x.pc = "reserve" /\ x.stage = stage /\ SameRest(x, y)
<1>1. x \in HostStates
  BY DEF HostStates, Staged, Pcs, StagePcs
<1>2. x.pc = "reserve" /\ x.stage = stage /\ x.via = y.via /\ x.writes = y.writes
  BY DEF HostStates, Staged
<1>3. x.controls = y.controls /\ x.holds = y.holds /\ x.plan = y.plan /\ x.draft = y.draft
  BY DEF HostStates, Staged
<1>4. /\ x.phase = y.phase /\ x.round = y.round
      /\ x.rounds = y.rounds /\ x.actions = y.actions /\ x.status = y.status /\ x.text = y.text
  BY DEF HostStates, Staged
<1> QED
  BY <1>1, <1>2, <1>3, <1>4 DEF SameRest

\* A step that keeps the writer claim's memory, takes no ticket and holds no Plan.
LEMMA LocalStep ==
  ASSUME NEW d, NEW r, NEW ps, NEW c, NEW ctl, NEW unc, NEW hs, NEW s,
         InvAt(d, r, ps, c, ctl, unc, hs, s), NEW h \in Hosts, hs[h].pc \notin {"down", "inspect", "recover", "blocked"}, NEW x,
         HostShape(x), HostOK(x, r, ps, d.mode), ~HasTicket(x), x.pc # "register", ~x.holds,
         x.writes = hs[h].writes, x.via = "prompt" => hs[h].via = "prompt",
         x.controls => hs[h].controls /\ (Loaded(x) => Loaded(hs[h]) \/ r.status = NoStatus)
  PROVE  InvAt(d, r, ps, c, ctl, unc, [hs EXCEPT ![h] = x], s)
<1>1. LeaseOK(h, hs[h], r, ps, ctl, unc)
  BY HostFacts
<1>2. LeaseOK(h, x, r, ps, ctl, unc)
  BY <1>1 DEF LeaseOK
<1>3. \A g \in Hosts \ {h} : ~(x.via = "prompt" /\ hs[g].via = "prompt")
  BY DEF InvAt, ApartsOK, ApartOK
<1> QED
  BY <1>2, <1>3, HostTouched

\* A Host whose call has ended.
Quiet(pc, w) == [Down EXCEPT !.pc = pc, !.writes = w]

LEMMA QuietTouched ==
  ASSUME NEW d, NEW r, NEW ps, NEW c, NEW ctl, NEW unc, NEW hs, NEW s,
         InvAt(d, r, ps, c, ctl, unc, hs, s), NEW h \in Hosts,
         NEW pc \in {"down", "inspect", "idle", "blocked"}, NEW w \in BOOLEAN,
         NEW x, x = Quiet(pc, w), Barred(h, unc) => pc # "idle"
  PROVE  /\ InvAt(d, r, ps, c, ctl, unc, [hs EXCEPT ![h] = x], s)
         /\ ~InAdmission(x) /\ ~InControl(x)
<1>1. /\ x.pc = pc /\ x.via = "none" /\ x.writes = w /\ x.controls = FALSE /\ x.holds = FALSE /\ x.stage = "none"
      /\ x.phase = "failed" /\ x.status = NoStatus
  BY DEF Down, Quiet
<1>2. x \in HostStates
  BY DEF Down, Quiet, HostStates, Pcs, Deliverable, NoStatus, StagePcs
<1>3. HostShape(x)
  BY <1>1, <1>2 DEF HostShape, StagePcs
<1>4. ~InAdmission(x) /\ ~InControl(x) /\ ~HasTicket(x) /\ ~Answering(x) /\ ~OnPlan(x)
  BY <1>1 DEF InAdmission, InControl, Loaded, OnPlan, Answering, HasTicket, LoopPcs, StepPcs, AnswerPcs
<1>5. HostOK(x, r, ps, d.mode)
  BY <1>1, <1>4 DEF HostOK, NoStatus
<1>6. LeaseOK(h, x, r, ps, ctl, unc)
  BY <1>1 DEF LeaseOK
<1>7. InvAt(d, r, ps, c, ctl, unc, [hs EXCEPT ![h] = x], s)
  BY <1>1, <1>3, <1>4, <1>5, <1>6, HostTouched
<1> QED
  BY <1>4, <1>7

\* The lease of a Plan is given up.
Freed(ps2, ps) == ps2 = ps \/ \E p \in DOMAIN ps : ps2 = [ps EXCEPT ![p] = [ps[p] EXCEPT !.lease = NoHost]]

LEMMA FreedTouched ==
  ASSUME NEW d, NEW r, NEW ps, NEW c, NEW ctl, NEW unc, NEW hs, NEW s,
         InvAt(d, r, ps, c, ctl, unc, hs, s), NEW ps2, Freed(ps2, ps)
  PROVE  InvAt(d, r, ps2, c, ctl, unc, hs, s)
<1>1. CASE ps2 = ps
  BY <1>1
<1>2. ASSUME NEW p \in DOMAIN ps, ps2 = [ps EXCEPT ![p] = [ps[p] EXCEPT !.lease = NoHost]]
      PROVE  InvAt(d, r, ps2, c, ctl, unc, hs, s)
  <2> DEFINE q == [ps[p] EXCEPT !.lease = NoHost]
  <2>1. ps \in Seq(PlanStates) /\ \A i \in DOMAIN ps : ps[i] \in PlanStates
    BY RunFacts
  <2>2. q \in PlanStates /\ q.unsafe = ps[p].unsafe /\ q.phase = ps[p].phase /\ q.attempts = ps[p].attempts
        /\ q.lease = NoHost
    BY <2>1 DEF PlanStates
  <2> HIDE DEF q
  <2>3. /\ ps2 \in Seq(PlanStates) /\ DOMAIN ps2 = DOMAIN ps
        /\ ps2[p] = q /\ \A i \in DOMAIN ps : i # p => ps2[i] = ps[i]
    BY <1>2, <2>1, <2>2 DEF q
  <2>4. \A i \in DOMAIN ps : PlanTouched(ps2[i], ps[i], hs)
    BY <2>1, <2>2, <2>3 DEF PlanTouched
  <2> QED
    BY <2>3, <2>4, PlansTouched
<1> QED
  BY <1>1, <1>2 DEF Freed

LEMMA ReleaseFacts ==
  ASSUME NEW h, ReleasePlan(h), plans \in Seq(PlanStates),
         hosts[h].holds => hosts[h].plan \in DOMAIN plans
  PROVE  Freed(plans', plans)
  BY DEF ReleasePlan, HoldsPlan, Unleased, Freed

\* A call of a Host raises or returns in the ledger r.
LEMMA RaisedTouched ==
  ASSUME NEW d, NEW r, NEW ps, NEW c, NEW ctl, NEW unc, NEW hs, NEW s,
         InvAt(d, r, ps, c, ctl, unc, hs, s), NEW h \in Hosts, hs[h].pc \notin {"down", "inspect", "recover", "blocked"},
         NEW pc \in {"idle", "blocked"}, NEW x, x = Quiet(pc, hs[h].writes),
         NEW ps2, Freed(ps2, ps), NEW ctl2 \in {ctl, NoHost}
  PROVE  InvAt(d, r, ps2, c, ctl2, unc, [hs EXCEPT ![h] = x], s) /\ ~InAdmission(x) /\ ~InControl(x)
<1> DEFINE w == hs[h].writes
<1>1. w \in BOOLEAN /\ (Barred(h, unc) => pc # "idle") /\ pc \in {"down", "inspect", "idle", "blocked"}
  BY HostFacts DEF HostStates, LeaseOK
<1> HIDE DEF w
<1>2. InvAt(d, r, ps, c, ctl, unc, [hs EXCEPT ![h] = x], s) /\ ~InAdmission(x) /\ ~InControl(x)
  <2>1. x = Quiet(pc, w)
    BY DEF w
  <2> QED
    BY <1>1, <2>1, QuietTouched
<1> DEFINE hs2 == [hs EXCEPT ![h] = x]
<1> HIDE DEF hs2
<1>3. InvAt(d, r, ps2, c, ctl, unc, hs2, s)
  BY <1>2, FreedTouched DEF hs2
<1>4. \A g \in Hosts : ctl2 = g => ctl = g
  BY AutonomousAssumption
<1>5. InvAt(d, r, ps2, c, ctl2, unc, hs2, s)
  BY ONLY <1>3, <1>4, ClaimsTouched
<1> QED
  BY <1>2, <1>5 DEF hs2
-----------------------------------------------------------------------------
(* Opening a Host, and the task's admission *)

\* The Write of another Operation begins or ends, or a Host starts to inspect.
LEMMA WriteTouched ==
  ASSUME NEW d, NEW r, NEW ps, NEW c, NEW ctl, NEW unc, NEW hs, NEW s,
         InvAt(d, r, ps, c, ctl, unc, hs, s), NEW unc2,
         \A h \in Hosts : Barred(h, unc2) => Barred(h, unc) \/ hs[h].pc \in {"down", "inspect", "recover", "blocked"}
  PROVE  InvAt(d, r, ps, c, ctl, unc2, hs, s)
  BY ClaimsTouched

LEMMA InspectingBars ==
  ASSUME NEW h \in Hosts, uncertain' = [open |-> uncertain.open, beside |-> uncertain.beside \ {h}],
         NEW g \in Hosts, Barred(g, uncertain')
  PROVE  Barred(g, uncertain) \/ g = h
  BY DEF Barred

LEMMA OpenKeeps ==
  ASSUME Inv, NEW h \in Hosts, Open(h)
  PROVE  Inv'
<1> DEFINE x == Quiet("inspect", TRUE)
           hs2 == [hosts EXCEPT ![h] = x]
<1>1. /\ hosts' = hs2 /\ dep' = dep /\ run' = run /\ plans' = plans /\ conv' = conv /\ controller' = controller
      /\ spent' = spent /\ uncertain' = [open |-> uncertain.open, beside |-> uncertain.beside \ {h}]
  BY DEF Open, Inspecting, Local, Quiet
<1>2. "inspect" \in {"down", "inspect", "idle", "blocked"} /\ TRUE \in BOOLEAN /\ "inspect" # "idle"
  OBVIOUS
<1>3. InvAt(dep, run, plans, conv, controller, uncertain, hs2, spent)
  <2> HIDE DEF x
  <2>1. x = Quiet("inspect", TRUE)
    BY DEF x
  <2> QED
    BY <1>2, <2>1, QuietTouched DEF Inv
<1>4. hs2[h].pc = "inspect"
  BY HostFacts DEF Inv, Quiet, Down
<1> HIDE DEF hs2, x
<1>5. \A g \in Hosts : Barred(g, uncertain') =>
         Barred(g, uncertain) \/ hs2[g].pc \in {"down", "inspect", "recover", "blocked"}
  BY <1>1, <1>4, InspectingBars
<1>6. InvAt(dep, run, plans, conv, controller, uncertain', hs2, spent)
  BY <1>3, <1>5, WriteTouched
<1> QED
  BY <1>1, <1>6 DEF Inv

\* A Host that inspects the Session, is blocked, or is found safe.
Waking(h) == RetryRecovery(h) \/ InspectAll(h) \/ RecoverAll(h)

LEMMA WakingFacts ==
  ASSUME Inv, NEW h \in Hosts, Waking(h), NEW y, y = hosts[h]
  PROVE  \E x \in HostStates :
            /\ hosts' = [hosts EXCEPT ![h] = x] /\ y \in HostStates /\ y.pc \in {"inspect", "recover", "blocked"}
            /\ x.pc \in {"inspect", "recover", "blocked", "idle", "acquire"} /\ x.via \in {y.via, "startup"}
            /\ x.stage = y.stage /\ x.controls = y.controls /\ x.holds = y.holds /\ x.phase = y.phase
            /\ x.status = y.status /\ (x.pc = "acquire" => conv.phase = "running")
            /\ (x.pc \in {"idle", "acquire"} => ~uncertain.open)
            /\ (RetryRecovery(h) => x.pc = "inspect")
<1>1. y \in HostStates
  BY HostFacts DEF Inv
<1>2. ASSUME NEW pc \in {"inspect", "recover", "blocked", "idle"}, hosts' = [hosts EXCEPT ![h] = [y EXCEPT !.pc = pc]],
             y.pc \in {"inspect", "recover", "blocked"}, pc = "idle" => ~uncertain.open,
             RetryRecovery(h) => pc = "inspect"
      PROVE  \E x \in HostStates :
            /\ hosts' = [hosts EXCEPT ![h] = x] /\ y \in HostStates /\ y.pc \in {"inspect", "recover", "blocked"}
            /\ x.pc \in {"inspect", "recover", "blocked", "idle", "acquire"} /\ x.via \in {y.via, "startup"}
            /\ x.stage = y.stage /\ x.controls = y.controls /\ x.holds = y.holds /\ x.phase = y.phase
            /\ x.status = y.status /\ (x.pc = "acquire" => conv.phase = "running")
            /\ (x.pc \in {"idle", "acquire"} => ~uncertain.open)
            /\ (RetryRecovery(h) => x.pc = "inspect")
  <2> DEFINE x == [y EXCEPT !.pc = pc]
  <2>1. pc \in Pcs
    BY DEF Pcs
  <2>2. x \in HostStates
    BY <1>1, <2>1 DEF HostStates
  <2>3. x.pc = pc /\ x.via = y.via
    BY <1>1 DEF HostStates
  <2>4. x.stage = y.stage /\ x.controls = y.controls /\ x.holds = y.holds /\ x.phase = y.phase /\ x.status = y.status
    BY <1>1 DEF HostStates
  <2>5. hosts' = [hosts EXCEPT ![h] = x]
    BY <1>2
  <2> HIDE DEF x
  <2> QED
    BY <1>1, <1>2, <2>2, <2>3, <2>4, <2>5
<1>3. CASE RetryRecovery(h)
  BY <1>2, <1>3 DEF RetryRecovery, Inspecting, Local, At
<1>4. CASE InspectAll(h)
  <2>1. y.pc = "inspect" /\ ~RetryRecovery(h)
    BY <1>4 DEF InspectAll, RetryRecovery, At
  <2>2. \E pc \in {"recover", "blocked"} : hosts' = [hosts EXCEPT ![h] = [y EXCEPT !.pc = pc]]
    BY <1>4 DEF InspectAll, Go, Local
  <2> QED
    BY <1>2, <2>1, <2>2
<1>5. CASE RecoverAll(h)
  <2>1. y.pc = "recover" /\ ~RetryRecovery(h)
    BY <1>5 DEF RecoverAll, RetryRecovery, At
  <2>2. CASE uncertain.open
    <3>1. hosts' = [hosts EXCEPT ![h] = [y EXCEPT !.pc = "blocked"]]
      BY <1>5, <2>2 DEF RecoverAll, Local
    <3> QED
      BY <1>2, <2>1, <3>1
  <2>3. CASE ~uncertain.open /\ conv.phase # "running"
    <3>1. hosts' = [hosts EXCEPT ![h] = [y EXCEPT !.pc = "idle"]]
      BY <1>5, <2>3 DEF RecoverAll, Resumption, Local
    <3> QED
      BY <1>2, <2>1, <2>3, <3>1
  <2>4. CASE ~uncertain.open /\ conv.phase = "running"
    <3> DEFINE x == [y EXCEPT !.pc = "acquire", !.via = "startup"]
    <3>1. hosts' = [hosts EXCEPT ![h] = x]
      BY <1>5, <2>4 DEF RecoverAll, Resumption, Local
    <3>5. "acquire" \in Pcs
      BY DEF Pcs
    <3>6. [y EXCEPT !.pc = "acquire"] \in HostStates
      BY <1>1, <3>5 DEF HostStates
    <3>2. x \in HostStates
      BY <3>6 DEF HostStates
    <3>3. x.pc = "acquire" /\ x.via = "startup"
      BY <1>1 DEF HostStates
    <3>4. x.stage = y.stage /\ x.controls = y.controls /\ x.holds = y.holds /\ x.phase = y.phase /\ x.status = y.status
      BY <1>1 DEF HostStates
    <3> HIDE DEF x
    <3> QED
      BY <1>1, <2>1, <2>4, <3>1, <3>2, <3>3, <3>4
  <2> QED
    BY <2>2, <2>3, <2>4
<1> QED
  BY <1>3, <1>4, <1>5 DEF Waking

LEMMA WakingKeeps ==
  ASSUME Inv, NEW h \in Hosts, Waking(h)
  PROVE  Inv'
<1> DEFINE y == hosts[h]
<1>1. HostShape(y) /\ HostOK(y, run, plans, dep.mode)
  BY HostFacts DEF Inv
<1>2. PICK x \in HostStates :
            /\ hosts' = [hosts EXCEPT ![h] = x] /\ y \in HostStates /\ y.pc \in {"inspect", "recover", "blocked"}
            /\ x.pc \in {"inspect", "recover", "blocked", "idle", "acquire"} /\ x.via \in {y.via, "startup"}
            /\ x.stage = y.stage /\ x.controls = y.controls /\ x.holds = y.holds /\ x.phase = y.phase
            /\ x.status = y.status /\ (x.pc = "acquire" => conv.phase = "running")
            /\ (x.pc \in {"idle", "acquire"} => ~uncertain.open)
            /\ (RetryRecovery(h) => x.pc = "inspect")
  BY WakingFacts
<1>3. y.stage = "none" /\ ~y.controls /\ ~y.holds
  BY <1>1, <1>2 DEF HostShape, StagePcs, StepPcs, Loaded, OnPlan, Answering, LoopPcs, AnswerPcs
<1>4. ~InAdmission(x) /\ ~HasTicket(x) /\ ~Answering(x) /\ ~OnPlan(x) /\ ~Loaded(x)
  BY <1>2, <1>3 DEF InAdmission, Loaded, OnPlan, Answering, HasTicket, LoopPcs, StepPcs, AnswerPcs
<1>5. HostShape(x)
  BY <1>2, <1>3 DEF HostShape, StagePcs
<1>6. InControl(x) => run.bound
  <2>1. conv.phase = "running" => run.bound
    BY RunFacts DEF Inv, LedgerOK
  <2> QED
    BY <1>2, <1>4, <2>1 DEF InControl
<1>7. HostOK(x, run, plans, dep.mode)
  BY <1>1, <1>2, <1>3, <1>4, <1>6 DEF HostOK
<1>8. LeaseOK(h, x, run, plans, controller, uncertain)
  BY <1>2, <1>3, <1>4 DEF LeaseOK, Barred
<1>9. \A g \in Hosts \ {h} : ~(x.via = "prompt" /\ hosts[g].via = "prompt")
  BY <1>2 DEF Inv, InvAt, ApartsOK, ApartOK
<1> DEFINE hs2 == [hosts EXCEPT ![h] = x]
<1>10. InvAt(dep, run, plans, conv, controller, uncertain, hs2, spent)
  BY <1>2, <1>4, <1>5, <1>7, <1>8, <1>9, HostTouched DEF Inv
<1>11. hs2[h] = x
  BY HostFacts DEF Inv
<1> HIDE DEF hs2
<1>12. UNCHANGED <<dep, run, plans, conv, controller, spent>>
  BY DEF Waking, RetryRecovery, InspectAll, RecoverAll, Inspecting, env
<1>13. InvAt(dep, run, plans, conv, controller, uncertain', hs2, spent)
  <2>1. CASE RetryRecovery(h)
    <3>1. uncertain' = [open |-> uncertain.open, beside |-> uncertain.beside \ {h}]
      BY <2>1 DEF RetryRecovery, Inspecting
    <3>2. \A g \in Hosts : Barred(g, uncertain') =>
             Barred(g, uncertain) \/ hs2[g].pc \in {"down", "inspect", "recover", "blocked"}
      BY <1>2, <1>11, <2>1, <3>1, InspectingBars
    <3> QED
      BY <1>10, <3>2, WriteTouched
  <2>2. CASE InspectAll(h) \/ RecoverAll(h)
    BY <1>10, <2>2 DEF InspectAll, RecoverAll, env
  <2> QED
    BY <2>1, <2>2 DEF Waking
<1> QED
  BY <1>2, <1>12, <1>13 DEF Inv, hs2

LEMMA WriteKeeps ==
  ASSUME Inv, (\E h \in Hosts : BeginWrite(h)) \/ SettleWrite
  PROVE  Inv'
<1>1. /\ UNCHANGED <<dep, run, plans, conv, controller, hosts, spent>>
      /\ \/ uncertain' = [open |-> TRUE, beside |-> {g \in Hosts : Recovered(g)}]
         \/ uncertain' = [open |-> FALSE, beside |-> {}]
  BY DEF BeginWrite, SettleWrite
<1>2. \A g \in Hosts : Barred(g, uncertain') =>
         Barred(g, uncertain) \/ hosts[g].pc \in {"down", "inspect", "recover", "blocked"}
  BY <1>1 DEF Barred, Recovered
<1>3. InvAt(dep, run, plans, conv, controller, uncertain', hosts, spent)
  BY <1>2, WriteTouched DEF Inv
<1> QED
  BY <1>1, <1>3 DEF Inv

\* An idle Host controls nothing, and no Write bars it.
LEMMA IdleFacts ==
  ASSUME Inv, NEW h \in Hosts, At(h, "idle")
  PROVE  /\ hosts[h] \in HostStates /\ hosts[h].stage = "none" /\ ~hosts[h].controls /\ ~hosts[h].holds
         /\ ~Barred(h, uncertain)
  BY HostFacts DEF Inv, At, HostShape, LeaseOK, Loaded, OnPlan, Answering, LoopPcs, StepPcs, AnswerPcs,
                   StagePcs

LEMMA PromptKeeps ==
  ASSUME Inv, NEW h \in Hosts, Prompt(h)
  PROVE  Inv'
<1> DEFINE y == hosts[h]
           x == [y EXCEPT !.pc = "reserve", !.via = "prompt", !.stage = "router"]
<1>1. /\ y \in HostStates /\ y.stage = "none" /\ ~y.controls /\ ~y.holds
      /\ ~Barred(h, uncertain)
  BY IdleFacts DEF Prompt
<1>2. HostOK(y, run, plans, dep.mode)
  BY HostFacts DEF Inv
<1>3. /\ RunShape(run) /\ run.ok /\ ~run.exists /\ ~Terminal(run) /\ ~run.closed
  BY RunFacts DEF Inv, Prompt, LedgerOK, Terminal
<1>4. /\ RunShape(run') /\ run'.exists /\ run'.closed = run.closed
      /\ SameFunds(run', run) /\ SameAnswer(run', run) /\ SameBinding(run', run)
  BY <1>3, ApplyInitialized DEF Prompt, Append1
<1>5. InvAt(dep, run', plans, conv, controller, uncertain, hosts, spent)
  BY <1>4, InitTouched DEF Inv
<1>6. x \in HostStates
  BY <1>1 DEF HostStates, Pcs, StagePcs, Stages
<1>7. /\ x.pc = "reserve" /\ x.via = "prompt" /\ x.stage = "router" /\ x.controls = y.controls
      /\ x.holds = y.holds /\ x.writes = y.writes /\ x.phase = y.phase /\ x.status = y.status
  BY <1>1 DEF HostStates
<1> HIDE DEF x
<1>8. HostShape(x) /\ ~HasTicket(x)
  BY <1>1, <1>6, <1>7 DEF HostShape, StagePcs, HasTicket
<1>9. InAdmission(x) /\ ~InControl(x) /\ ~OnPlan(x) /\ ~Answering(x)
  BY <1>7 DEF InAdmission, InControl, Loaded, OnPlan, Answering, LoopPcs, StepPcs, AnswerPcs
<1>10. dep.mode = "prompt"
  BY DEF Prompt
<1>11. HostOK(x, run', plans, dep.mode)
  BY <1>2, <1>3, <1>4, <1>7, <1>8, <1>9, <1>10 DEF HostOK
<1>12. LeaseOK(h, x, run', plans, controller, uncertain)
  BY <1>1, <1>7 DEF LeaseOK
<1>13. \A g \in Hosts : hosts[g].via # "prompt"
  BY <1>3, HostFacts DEF Inv, HostOK
<1>14. InvAt(dep, run', plans, conv, controller, uncertain, [hosts EXCEPT ![h] = x], spent)
  BY <1>5, <1>7, <1>8, <1>11, <1>12, <1>13, HostTouched
<1>15. hosts' = [hosts EXCEPT ![h] = x]
  BY DEF Prompt, Local, x
<1> QED
  BY <1>14, <1>15 DEF Inv, Prompt, env

LEMMA SubmitKeeps ==
  ASSUME Inv, NEW h \in Hosts, Submit(h) \/ Resume(h)
  PROVE  Inv'
<1> DEFINE y == hosts[h]
<1>1. /\ y \in HostStates /\ y.stage = "none" /\ ~y.controls /\ ~y.holds
      /\ ~Barred(h, uncertain) /\ y.pc = "idle"
  BY IdleFacts DEF Submit, Resume, At
<1>2. HostOK(y, run, plans, dep.mode)
  BY HostFacts DEF Inv
<1>3. PICK pc \in {"acquire", "prepare"} :
         /\ hosts' = [hosts EXCEPT ![h] = [hosts[h] EXCEPT !.pc = pc, !.via = "submit"]]
         /\ pc = "prepare" => dep.mode = "submit"
         /\ pc = "acquire" => run.linked \/ conv.phase = "running"
  BY DEF Submit, Resume, Local
<1> DEFINE x == [y EXCEPT !.pc = pc, !.via = "submit"]
<1>4. x \in HostStates
  BY <1>1 DEF HostStates, Pcs
<1>5. /\ x.pc = pc /\ x.via = "submit" /\ x.stage = y.stage /\ x.controls = y.controls
      /\ x.holds = y.holds /\ x.writes = y.writes /\ x.phase = y.phase /\ x.status = y.status
  BY <1>1 DEF HostStates
<1>6. hosts' = [hosts EXCEPT ![h] = x]
  BY <1>3
<1> HIDE DEF x
<1>7. HostShape(x) /\ ~HasTicket(x)
  BY <1>1, <1>4, <1>5 DEF HostShape, StagePcs, HasTicket
<1>8. /\ InAdmission(x) <=> pc = "prepare"
      /\ InControl(x) <=> pc = "acquire"
      /\ ~OnPlan(x) /\ ~Answering(x) /\ ~Loaded(x)
  BY <1>1, <1>5 DEF InAdmission, InControl, Loaded, OnPlan, Answering, LoopPcs, StepPcs, AnswerPcs
<1>9. (run.closed => dep.mode = "prompt") /\ (conv.phase = "running" => run.bound) /\ (run.linked => run.bound)
  BY DEF Inv, InvAt, LedgerOK
<1>10. HostOK(x, run, plans, dep.mode)
  BY <1>1, <1>2, <1>3, <1>5, <1>7, <1>8, <1>9 DEF HostOK
<1>11. InvAt(dep, run, plans, conv, controller, uncertain, [hosts EXCEPT ![h] = x], spent)
  BY <1>1, <1>5, <1>7, <1>10, LocalStep DEF Inv
<1> QED
  BY <1>6, <1>11 DEF Inv, Submit, Resume, env

LEMMA PrepareKeeps ==
  ASSUME Inv, NEW h \in Hosts, Prepare(h)
  PROVE  Inv'
<1> DEFINE y == hosts[h]
<1>1. y \in HostStates /\ HostShape(y) /\ HostOK(y, run, plans, dep.mode) /\ y.pc = "prepare"
  BY HostFacts DEF Inv, Prepare, At
<1>2. y.stage = "none" /\ ~y.controls /\ ~y.holds /\ InAdmission(y)
  BY <1>1 DEF HostShape, InAdmission, Loaded, OnPlan, Answering, LoopPcs, StepPcs, AnswerPcs, StagePcs
<1>3. y.via = dep.mode /\ ~run.closed
  BY <1>1, <1>2 DEF HostOK
<1>4. LedgerOK(run, conv, plans) /\ RunShape(run) /\ run.ok
  BY RunFacts DEF Inv
<1>5. CASE run.bound
  <2> DEFINE x == [y EXCEPT !.pc = "bootstrap", !.draft = Head(run.plan_ids)]
  <2>1. run.plan_ids \in Seq(Nat) /\ run.plan_ids # << >> /\ ToSet(run.plan_ids) \subseteq DOMAIN plans
    BY <1>4, <1>5 DEF LedgerOK, RunShape
  <2>2. Head(run.plan_ids) \in Nat /\ Head(run.plan_ids) \in ToSet(run.plan_ids)
    <3>1. 1 \in DOMAIN run.plan_ids /\ Head(run.plan_ids) = run.plan_ids[1]
      BY <2>1
    <3> QED
      BY <2>1, <3>1 DEF ToSet
  <2>3. x \in HostStates
    BY <1>1, <2>2 DEF HostStates, Pcs
  <2>4. /\ x.pc = "bootstrap" /\ x.via = y.via /\ x.stage = y.stage /\ x.controls = y.controls
        /\ x.holds = y.holds /\ x.writes = y.writes /\ x.phase = y.phase /\ x.status = y.status
        /\ x.draft = Head(run.plan_ids)
    BY <1>1 DEF HostStates
  <2>5. hosts' = [hosts EXCEPT ![h] = x] /\ run' = run
    BY <1>5 DEF Prepare, Local
  <2> HIDE DEF x
  <2>6. HostShape(x) /\ ~HasTicket(x)
    BY <1>2, <2>3, <2>4 DEF HostShape, StagePcs, HasTicket
  <2>7. InAdmission(x) /\ ~InControl(x) /\ ~OnPlan(x) /\ ~Answering(x)
    BY <1>2, <2>4 DEF InAdmission, InControl, Loaded, OnPlan, Answering, LoopPcs, StepPcs, AnswerPcs
  <2>8. run.exists
    BY <1>4, <1>5 DEF LedgerOK
  <2>9. HostOK(x, run, plans, dep.mode)
    BY <1>1, <1>2, <1>3, <2>1, <2>2, <2>4, <2>6, <2>7, <2>8 DEF HostOK
  <2>10. InvAt(dep, run, plans, conv, controller, uncertain, [hosts EXCEPT ![h] = x], spent)
    BY <1>1, <1>2, <2>4, <2>6, <2>9, LocalStep DEF Inv
  <2> QED
    BY <2>5, <2>10 DEF Inv, Prepare, env
<1>6. CASE ~run.bound
  <2> DEFINE x == Staged(y, "planner")
  <2>1. ~Terminal(run)
    BY <1>3, <1>4, <1>6 DEF LedgerOK, Terminal
  <2>2. InvAt(dep, run', plans, conv, controller, uncertain, hosts, spent)
        /\ run'.exists /\ run'.closed = run.closed
    <3>1. CASE run.exists
      BY <1>6, <3>1 DEF Prepare, Inv
    <3>2. CASE ~run.exists
      <4>1. run' = Apply(run, Initialized, dep.budget)
        BY <1>6, <3>2 DEF Prepare
      <4>2. /\ RunShape(run') /\ run'.exists /\ run'.closed = run.closed
            /\ SameFunds(run', run) /\ SameAnswer(run', run) /\ SameBinding(run', run)
        BY <1>4, <2>1, <3>2, <4>1, ApplyInitialized
      <4> QED
        BY <4>2, InitTouched DEF Inv
    <3> QED
      BY <3>1, <3>2
  <2>3. "planner" \in Stages
    BY DEF Stages
  <2>4. x \in HostStates /\ x.pc = "reserve" /\ x.stage = "planner" /\ SameRest(x, y)
    BY <1>1, <2>3, GoStageFacts
  <2>5. hosts' = [hosts EXCEPT ![h] = x]
    BY <1>6 DEF Prepare, GoStage, Local, Staged
  <2> HIDE DEF x
  <2>6. HostShape(x) /\ ~HasTicket(x)
    BY <1>2, <2>4 DEF HostShape, StagePcs, HasTicket, SameRest
  <2>7. InAdmission(x) /\ ~InControl(x) /\ ~OnPlan(x) /\ ~Answering(x)
    BY <2>4 DEF InAdmission, InControl, Loaded, OnPlan, Answering, LoopPcs, StepPcs, AnswerPcs
  <2>8. HostOK(y, run', plans, dep.mode)
    BY <2>2, HostFacts
  <2>9. HostOK(x, run', plans, dep.mode)
    BY <1>2, <1>3, <2>2, <2>4, <2>6, <2>7, <2>8 DEF HostOK, SameRest
  <2>10. InvAt(dep, run', plans, conv, controller, uncertain, [hosts EXCEPT ![h] = x], spent)
    BY <1>1, <1>2, <2>2, <2>4, <2>6, <2>9, LocalStep DEF SameRest
  <2> QED
    BY <2>5, <2>10 DEF Inv, Prepare, env
<1> QED
  BY <1>5, <1>6
-----------------------------------------------------------------------------
(* A model stage *)

\* The id of a new ticket is not in use.
LEMMA TicketFresh ==
  ASSUME NEW r, IsFiniteSet(Reserved(r))
  PROVE  TicketId(r) \in Tickets /\ TicketId(r) \notin Reserved(r)
<1> DEFINE S == 1..(Cardinality(Reserved(r)) + 1)
           free == {n \in S : <<"model", n>> \notin Reserved(r)}
           less == OpToRel(<, Nat)
<1>1. Cardinality(Reserved(r)) \in Nat
  BY FS_CardinalityType
<1>2. IsFiniteSet(S) /\ Cardinality(S) = Cardinality(Reserved(r)) + 1 /\ S \subseteq Nat
  BY <1>1, FS_Interval
<1>3. free # {}
  <2> SUFFICES ASSUME free = {} PROVE FALSE
    OBVIOUS
  <2> DEFINE f == [n \in S |-> <<"model", n>>]
  <2>1. f \in [S -> Reserved(r)]
    OBVIOUS
  <2>2. \A x, y \in S : x # y => f[x] # f[y]
    OBVIOUS
  <2>3. Cardinality(Reserved(r)) < Cardinality(S)
    BY <1>1, <1>2
  <2> HIDE DEF f, S
  <2>4. \E x, y \in S : x # y /\ f[x] = f[y]
    BY ONLY <1>2, <2>1, <2>3, IsFiniteSet(Reserved(r)), FS_PigeonHole
  <2> QED
    BY <2>2, <2>4
<1>4. free \subseteq Nat
  BY <1>2
<1>5. \A x \in Nat, y \in Nat : <<x, y>> \in less <=> x < y
  BY DEF OpToRel
<1> HIDE DEF less
<1>6. IsWellFoundedOn(less, Nat)
  BY NatLessThanWellFounded DEF less
<1>7. PICK m \in free : \A y \in free : <<y, m>> \notin less
  <2> HIDE DEF free
  <2> QED
    BY <1>3, <1>4, <1>6, WFMin
<1>8. m \in S /\ m \in Nat /\ <<"model", m>> \notin Reserved(r)
  BY <1>4, <1>7
<1>9. \A k \in 1..(m - 1) : <<"model", k>> \in Reserved(r)
  <2> SUFFICES ASSUME NEW k \in 1..(m - 1), <<"model", k>> \notin Reserved(r) PROVE FALSE
    OBVIOUS
  <2>1. k \in S /\ k < m /\ k \in Nat
    BY <1>1, <1>8
  <2>2. k \in free
    BY <2>1
  <2> QED
    BY <1>5, <1>7, <1>8, <2>1, <2>2
<1> DEFINE P(n) == <<"model", n>> \notin Reserved(r) /\ \A k \in 1..(n - 1) : <<"model", k>> \in Reserved(r)
           t == CHOOSE n \in S : P(n)
<1>10. \E n \in S : P(n)
  BY <1>8, <1>9
<1>11. t \in S /\ P(t)
  BY <1>10
<1>12. TicketId(r) = <<"model", t>>
  BY DEF TicketId
<1>13. t \in Nat /\ <<"model", t>> \notin Reserved(r)
  BY <1>2, <1>11
<1> HIDE DEF t
<1> QED
  BY <1>12, <1>13 DEF Tickets

\* What is left of a resource can be reserved.
LEMMA Spare ==
  ASSUME NEW r, Funded(r), NEW b \in [Resources -> Nat], AtMost(ResourceUsage(r), b),
         NEW x \in Resources, NEW k \in Nat, k >= 1, k <= Remaining(r, b, x)
  PROVE  Usage(x, k) \in [Resources -> Nat] /\ AtMost(Plus(ResourceUsage(r), Usage(x, k)), b)
<1> DEFINE u == ResourceUsage(r)
<1>1. \A y \in Resources : u[y] \in Nat /\ b[y] \in Nat /\ u[y] <= b[y]
  BY UsageNat DEF AtMost
<1>2. u[x] + k <= b[x]
  <2>1. Remaining(r, b, x) = IF u[x] >= b[x] THEN 0 ELSE b[x] - u[x]
    BY DEF Remaining
  <2> HIDE DEF u
  <2> QED
    BY <1>1, <2>1
<1>3. /\ Usage(x, k) \in [Resources -> Nat] /\ Usage(x, k)[x] = k
      /\ \A y \in Resources : y # x => Usage(x, k)[y] = 0
  BY DEF Usage, NoUsage
<1> HIDE DEF u
<1>4. ASSUME NEW y \in Resources PROVE u[y] + Usage(x, k)[y] <= b[y]
  BY <1>1, <1>2, <1>3
<1> QED
  BY <1>3, <1>4 DEF AtMost, Plus, u

\* A Host that has loaded the Run under the controller lease.
LoadedFits(x, r, ps) ==
    /\ x \in HostStates /\ Loaded(x) /\ ~x.holds
    /\ x.stage # "none" <=> x.pc \in StagePcs
    /\ ~HasTicket(x) /\ x.pc # "register"
    /\ OnPlan(x) => x.plan \in ToSet(r.plan_ids)
    /\ x.pc = "registered" => x.draft \in ToSet(r.plan_ids)
    /\ Answering(x) => x.status \in Deliverable
    /\ x.pc \in {"segment", "finalize"} => x.text \in Texts
    /\ x.pc = "finalize" => x.status # "waiting_approval"
    /\ x.phase = "completed" \/ x.status = "completed" => SomeCompleted(ps)

LEMMA LoadedOK ==
  ASSUME NEW x, NEW r, NEW ps, NEW mode, LoadedFits(x, r, ps), r.bound,
         x.via = "prompt" => r.exists /\ mode = "prompt"
  PROVE  HostShape(x) /\ HostOK(x, r, ps, mode)
<1>1. HostShape(x)
  BY DEF HostShape, LoadedFits
<1>2. ~InAdmission(x) /\ x.pc # "bootstrap" /\ x.pc # "router" /\ x.pc # "project" /\ x.stage # "router"
  BY DEF LoadedFits, Loaded, OnPlan, Answering, InAdmission, LoopPcs, StepPcs, AnswerPcs, StagePcs
<1>3. HostOK(x, r, ps, mode)
  BY <1>2 DEF HostOK, LoadedFits
<1> QED
  BY <1>1, <1>3

\* A step of the closed loop or of the answer that changes the Host's locals only.
SameOwner(x, y) == x.via = y.via /\ x.writes = y.writes /\ x.controls = y.controls

LEMMA LoadedStep ==
  ASSUME NEW d, NEW r, NEW ps, NEW c, NEW ctl, NEW unc, NEW hs, NEW s,
         InvAt(d, r, ps, c, ctl, unc, hs, s), NEW h \in Hosts, Loaded(hs[h]),
         NEW x, LoadedFits(x, r, ps), SameOwner(x, hs[h])
  PROVE  InvAt(d, r, ps, c, ctl, unc, [hs EXCEPT ![h] = x], s)
<1>1. HostShape(hs[h]) /\ HostOK(hs[h], r, ps, d.mode)
  BY HostFacts
<1>2. hs[h].pc \notin {"down", "inspect", "recover", "blocked"}
  BY <1>1 DEF Loaded, OnPlan, Answering, HostShape, LoopPcs, StepPcs, AnswerPcs, StagePcs
<1>3. r.bound /\ (x.via = "prompt" => r.exists /\ d.mode = "prompt")
  BY <1>1 DEF HostOK, InControl, SameOwner
<1>4. HostShape(x) /\ HostOK(x, r, ps, d.mode)
  BY <1>3, LoadedOK
<1> QED
  BY <1>2, <1>4, LocalStep DEF LoadedFits, SameOwner

\* The facts of a Host that concludes the closed loop.
LEMMA ConcludedFacts ==
  ASSUME NEW h, hosts[h] \in HostStates, NEW status \in Deliverable, NEW x, x = Concluded(h, status)
  PROVE  /\ x \in HostStates /\ x.pc = "reserve" /\ x.stage = "synthesizer" /\ x.status = status
         /\ x.phase = "failed" /\ SameOwner(x, hosts[h]) /\ x.holds = hosts[h].holds
         /\ x.plan = hosts[h].plan
<1> DEFINE y == hosts[h]
<1>1. x = [y EXCEPT !.pc = "reserve", !.stage = "synthesizer", !.status = status,
                     !.ticket = << >>, !.size = 0, !.calls = 0, !.outcome = "none",
                     !.draft = 0, !.phase = "failed", !.round = 0, !.rounds = 0, !.actions = 0]
  BY DEF Concluded
<1> HIDE DEF y
<1>2. y \in HostStates
  BY DEF y
<1>3. x \in HostStates
  <2> DEFINE z == [y EXCEPT !.pc = "reserve", !.stage = "synthesizer", !.status = status, !.ticket = << >>]
             v == [z EXCEPT !.size = 0, !.calls = 0, !.outcome = "none", !.draft = 0]
             w == [v EXCEPT !.phase = "failed", !.round = 0, !.rounds = 0, !.actions = 0]
  <2>1. "reserve" \in Pcs /\ "synthesizer" \in Stages /\ "failed" \in Deliverable
    BY DEF Pcs, StagePcs, Stages, ControllerStages, Deliverable
  <2>2. z \in HostStates
    BY <1>2, <2>1 DEF HostStates
  <2>3. v \in HostStates
    <3> HIDE DEF z
    <3> QED
      BY <2>2 DEF HostStates
  <2>4. w \in HostStates
    <3> HIDE DEF z, v
    <3> QED
      BY <2>1, <2>3 DEF HostStates
  <2>5. x = w
    BY ONLY <1>1 DEF z, v, w
  <2> QED
    BY <2>4, <2>5
<1>4. x.pc = "reserve" /\ x.stage = "synthesizer" /\ x.status = status /\ x.phase = "failed"
  BY <1>1, <1>2 DEF HostStates
<1>5. x.via = y.via /\ x.writes = y.writes /\ x.controls = y.controls /\ x.holds = y.holds /\ x.plan = y.plan
  BY <1>1, <1>2 DEF HostStates
<1> QED
  BY <1>3, <1>4, <1>5 DEF y, SameOwner

LEMMA ConcludedFits ==
  ASSUME NEW x \in HostStates, NEW r, NEW ps, x.pc = "reserve", x.stage = "synthesizer", ~x.holds,
         x.status \in Deliverable, x.phase = "failed", x.status = "completed" => SomeCompleted(ps)
  PROVE  LoadedFits(x, r, ps)
  BY DEF LoadedFits, Loaded, OnPlan, Answering, HasTicket, StagePcs, LoopPcs, StepPcs, AnswerPcs

\* A Host in a model stage: what it is about is told by the stage alone.
StageKind(x) ==
    /\ InAdmission(x) <=> x.stage \in {"router", "planner"}
    /\ OnPlan(x) <=> x.stage \in {"result_validator", "replanner"}
    /\ Answering(x) <=> x.stage = "synthesizer"
    /\ Loaded(x) <=> x.stage \in ControllerStages
    /\ InControl(x) <=> x.stage \in ControllerStages
    /\ x.pc \notin {"prepare", "router", "bootstrap", "register", "registered", "segment", "finalize",
                    "project", "blocked"}

LEMMA StagePcKind ==
  ASSUME NEW x, x.pc \in StagePcs
  PROVE  StageKind(x)
  BY DEF StageKind, InAdmission, OnPlan, Answering, Loaded, InControl, ControllerStages, StagePcs, LoopPcs,
         StepPcs, AnswerPcs

LEMMA StageHost ==
  ASSUME NEW d, NEW r, NEW ps, NEW c, NEW ctl, NEW unc, NEW hs, NEW s,
         InvAt(d, r, ps, c, ctl, unc, hs, s), NEW h \in Hosts, hs[h].pc \in StagePcs
  PROVE  /\ StageKind(hs[h]) /\ hs[h].stage \in Stages /\ ~hs[h].holds /\ r.exists
         /\ ~InAdmission(hs[h]) => r.bound
<1>1. hs[h] \in HostStates /\ HostShape(hs[h]) /\ HostOK(hs[h], r, ps, d.mode)
  BY HostFacts
<1>2. StageKind(hs[h])
  BY StagePcKind
<1>3. hs[h].stage \in Stages /\ ~hs[h].holds
  BY <1>1 DEF HostStates, HostShape, StagePcs, StepPcs
<1>4. r.bound => r.exists
  BY RunFacts
<1> QED
  BY <1>1, <1>2, <1>3, <1>4 DEF HostOK, StageKind, Stages

LEMMA ReserveStageKeeps ==
  ASSUME Inv, NEW h \in Hosts, ReserveStage(h)
  PROVE  Inv'
<1> DEFINE y == hosts[h]
           id == TicketId(run)
<1>1. y \in HostStates /\ HostShape(y) /\ HostOK(y, run, plans, dep.mode) /\ y.pc = "reserve"
      /\ LeaseOK(h, y, run, plans, controller, uncertain) /\ hosts \in [Hosts -> HostStates]
  BY HostFacts DEF Inv, ReserveStage, At
<1>2. StageKind(y) /\ y.stage \in Stages /\ ~y.holds /\ run.exists
  BY <1>1, StageHost DEF Inv, StagePcs
<1>3. Live(run) /\ Funded(run) /\ dep.budget \in [Resources -> Nat]
  BY <1>2, RunFacts DEF Inv, ReserveStage, Reservable
<1>4. PICK k \in 1..dep.ticket :
         /\ k <= Remaining(run, dep.budget, "model_calls")
         /\ run' = Apply(run, ResourceReserved(id, Usage("model_calls", k)), dep.budget)
         /\ hosts' = [hosts EXCEPT ![h] = [y EXCEPT !.pc = "dispatch", !.ticket = id, !.size = k]]
  BY DEF ReserveStage, Append1, Local
<1>5. k \in Nat /\ k >= 1
  <2>1. dep.ticket \in Nat
    BY AutonomousAssumption, RunFacts DEF Inv
  <2> QED
    BY <1>4, <2>1
<1>6. id \in Tickets /\ id \notin Reserved(run)
  BY <1>3, TicketFresh DEF Funded
<1> HIDE DEF id
<1> DEFINE amount == Usage("model_calls", k)
<1>7. amount \in [Resources -> Nat] /\ AtMost(Plus(ResourceUsage(run), amount), dep.budget)
  <2>1. "model_calls" \in Resources /\ AtMost(ResourceUsage(run), dep.budget)
    BY DEF Resources, Inv, InvAt, Reservations
  <2> QED
    BY <1>3, <1>4, <1>5, <2>1, Spare
<1>8. run' = Apply(run, ResourceReserved(id, amount), dep.budget)
  BY <1>4
<1> HIDE DEF amount
<1>9. /\ RunShape(run') /\ SameHead(run', run)
      /\ run'.active = With(run.active, id, amount) /\ run'.settled = run.settled
  BY <1>3, <1>6, <1>7, <1>8, ApplyReserved
<1>10. Reserved(run') = Reserved(run) \cup {id} /\ run'.active[id] = amount
  <2>1. run'.active = With(run.active, id, amount)
    BY <1>9
  <2> QED
    BY ONLY <2>1 DEF With, Reserved
<1> DEFINE x == [y EXCEPT !.pc = "dispatch", !.ticket = id, !.size = k]
<1>11. x \in HostStates
  BY <1>1, <1>5, <1>6 DEF HostStates, Pcs, StagePcs
<1>12. x.pc = "dispatch" /\ x.ticket = id /\ x.size = k /\ x.stage = y.stage /\ SameRest(x, y)
  <2>1. x.pc = "dispatch" /\ x.ticket = id /\ x.size = k /\ x.stage = y.stage
    BY <1>1 DEF HostStates
  <2>2. /\ x.via = y.via /\ x.writes = y.writes /\ x.controls = y.controls /\ x.holds = y.holds
        /\ x.plan = y.plan /\ x.draft = y.draft /\ x.phase = y.phase /\ x.round = y.round
    BY <1>1 DEF HostStates
  <2>3. x.rounds = y.rounds /\ x.actions = y.actions /\ x.status = y.status /\ x.text = y.text
    BY <1>1 DEF HostStates
  <2> QED
    BY <2>1, <2>2, <2>3 DEF SameRest
<1>13. hosts' = [hosts EXCEPT ![h] = x]
  BY <1>4
<1> HIDE DEF x
<1>14. StageKind(x)
  BY <1>12, StagePcKind DEF StagePcs
<1>15. HostShape(x)
  BY <1>1, <1>2, <1>11, <1>12, <1>14 DEF HostShape, StagePcs, StageKind, SameRest
<1>16. HostOK(x, run', plans, dep.mode)
  <2>1. HasTicket(x) => /\ x.ticket \in Tickets /\ x.ticket \in Reserved(run')
                        /\ run'.active[x.ticket] = Usage("model_calls", x.size)
                        /\ x.pc = "settle" => x.calls <= x.size
    BY <1>6, <1>10, <1>12 DEF amount
  <2> QED
    BY <1>1, <1>2, <1>9, <1>12, <1>14, <2>1 DEF HostOK, StageKind, SameRest, SameHead, SameBinding
<1>17. LeaseOK(h, x, run', plans, controller, uncertain)
  BY <1>1, <1>2, <1>9, <1>12, <1>14 DEF LeaseOK, StageKind, SameRest, SameHead, SameAnswer
<1>18. InvAt(dep, run', plans, conv, controller, uncertain, [hosts EXCEPT ![h] = x], spent)
  <2>1. x.via = y.via
    BY <1>12 DEF SameRest
  <2>2. InvAt(dep, run, plans, conv, controller, uncertain, hosts, spent)
    BY DEF Inv
  <2> QED
    BY <1>6, <1>7, <1>9, <1>12, <1>15, <1>16, <1>17, <2>1, <2>2, TicketTouched
<1> QED
  BY <1>13, <1>18 DEF Inv, ReserveStage, env

\* A call that raises or returns leaves nothing of the Host's work but its writer claim.
LEMMA RaiseSteps ==
  ASSUME Inv, NEW h \in Hosts, NEW now, NEW y,
         InvAt(dep, now, plans, conv, controller, uncertain, [hosts EXCEPT ![h] = y], spent),
         y.pc \notin {"down", "inspect", "recover", "blocked"}, y.writes = hosts[h].writes,
         NEW pc \in {"idle", "blocked"}, Returned(h, pc), ReleasePlan(h) \/ UNCHANGED plans,
         UNCHANGED <<env, conv, writer, spent>>
  PROVE  /\ InvAt(dep', now, plans', conv', controller', uncertain', hosts', spent')
         /\ ~InAdmission(hosts'[h]) /\ \A g \in Hosts : g # h => hosts'[g] = hosts[g]
<1> DEFINE x == Quiet(pc, hosts[h].writes)
           hs == [hosts EXCEPT ![h] = y]
           hs2 == [hosts EXCEPT ![h] = x]
<1>1. hosts \in [Hosts -> HostStates] /\ plans \in Seq(PlanStates)
  BY HostFacts, RunFacts DEF Inv
<1>2. hosts[h].holds => hosts[h].plan \in DOMAIN plans
  BY HeldPlan DEF Inv, InvAt
<1>3. Freed(plans', plans)
  BY <1>1, <1>2, ReleaseFacts DEF Freed
<1>4. hosts' = hs2
  BY DEF Returned, Local, Quiet
<1>5. hs[h] = y /\ hs2 = [hs EXCEPT ![h] = x] /\ hs2[h] = x /\ \A g \in Hosts : g # h => hs2[g] = hosts[g]
  BY <1>1
<1>6. controller' \in {controller, NoHost}
  BY DEF Returned
<1>7. x = Quiet(pc, hs[h].writes)
  BY <1>5
<1> HIDE DEF x, hs, hs2
<1>8. InvAt(dep, now, plans, conv, controller, uncertain, hs, spent)
  BY DEF hs
<1>9. InvAt(dep, now, plans', conv, controller', uncertain, [hs EXCEPT ![h] = x], spent) /\ ~InAdmission(x)
  <2>1. hs[h].pc \notin {"down", "inspect", "recover", "blocked"}
    BY <1>5
  <2> QED
    BY ONLY <1>3, <1>6, <1>7, <1>8, <2>1, h \in Hosts, pc \in {"idle", "blocked"}, RaisedTouched
<1>10. InvAt(dep, now, plans', conv, controller', uncertain, hs2, spent)
  BY <1>5, <1>9
<1> QED
  BY <1>4, <1>5, <1>9, <1>10 DEF env

\* The Host that serves the routed prompt is alone in the admission.
LEMMA Alone ==
  ASSUME NEW d, NEW r, NEW ps, NEW c, NEW ctl, NEW unc, NEW hs, NEW s,
         InvAt(d, r, ps, c, ctl, unc, hs, s), NEW h \in Hosts, hs[h].via = "prompt"
  PROVE  d.mode = "prompt" /\ r.exists /\ \A g \in Hosts : g # h => ~InAdmission(hs[g])
<1>1. d.mode = "prompt" /\ r.exists
  BY HostFacts DEF HostOK
<1>2. ASSUME NEW g \in Hosts, g # h, InAdmission(hs[g]) PROVE FALSE
  <2>1. hs[g].via = "prompt"
    BY <1>1, <1>2, HostFacts DEF HostOK
  <2> QED
    BY <1>2, <2>1 DEF InvAt, ApartsOK, ApartOK
<1> QED
  BY <1>1, <1>2

LEMMA CloseAdmissionTouched ==
  ASSUME NEW r, NEW ps, NEW c, NEW ctl, NEW unc, NEW hs, NEW s,
         InvAt(dep, r, ps, c, ctl, unc, hs, s), dep.mode = "prompt", r.exists,
         \A g \in Hosts : ~InAdmission(hs[g]), NEW r2, r2 = CloseAdmission(r)
  PROVE  InvAt(dep, r2, ps, c, ctl, unc, hs, s)
<1>1. CASE r.bound \/ Terminal(r)
  BY <1>1 DEF CloseAdmission
<1>2. CASE ~r.bound /\ ~Terminal(r)
  <2>1. Live(r) /\ ~r.linked /\ ~r.dispatchable
    BY <1>2, RunFacts DEF LedgerOK
  <2>2. r2 = Apply(r, AdmissionClosed, dep.budget)
    BY <1>2 DEF CloseAdmission
  <2>3. /\ RunShape(r2) /\ r2.exists = r.exists /\ r2.closed = TRUE
        /\ SameFunds(r2, r) /\ SameAnswer(r2, r) /\ SameBinding(r2, r)
    BY <1>2, <2>1, <2>2, ApplyClosed
  <2> QED
    BY <1>2, <2>3, CloseTouched
<1> QED
  BY <1>1, <1>2

\* The Host raises out of the admission of a routed prompt, which closes it.
LEMMA RaiseCloses ==
  ASSUME Inv, NEW h \in Hosts, NEW now, NEW y,
         InvAt(dep, now, plans, conv, controller, uncertain, [hosts EXCEPT ![h] = y], spent),
         y.pc \notin {"down", "inspect", "recover", "blocked"}, y.writes = hosts[h].writes, y.via = hosts[h].via, now.exists,
         NEW pc \in {"idle", "blocked"}, Returned(h, pc), ReleasePlan(h) \/ UNCHANGED plans,
         UNCHANGED <<env, conv, writer, spent>>,
         run' = IF hosts[h].via = "prompt" THEN CloseAdmission(now) ELSE now
  PROVE  Inv'
<1>1. /\ InvAt(dep', now, plans', conv', controller', uncertain', hosts', spent')
      /\ ~InAdmission(hosts'[h]) /\ \A g \in Hosts : g # h => hosts'[g] = hosts[g]
  BY RaiseSteps
<1>2. CASE hosts[h].via # "prompt"
  BY <1>1, <1>2 DEF Inv
<1>3. CASE hosts[h].via = "prompt"
  <2>1. dep.mode = "prompt" /\ \A g \in Hosts : g # h => ~InAdmission(hosts[g])
    BY <1>3, Alone DEF Inv
  <2>2. \A g \in Hosts : ~InAdmission(hosts'[g])
    BY <1>1, <2>1
  <2>3. dep' = dep
    BY DEF env
  <2>4. InvAt(dep, now, plans', conv', controller', uncertain', hosts', spent')
    BY <1>1, <2>3
  <2>5. run' = CloseAdmission(now)
    BY <1>3
  <2>6. InvAt(dep, run', plans', conv', controller', uncertain', hosts', spent')
    BY ONLY <2>1, <2>2, <2>4, <2>5, now.exists, CloseAdmissionTouched
  <2> QED
    BY <2>3, <2>6 DEF Inv
<1> QED
  BY <1>2, <1>3

\* A Host that goes on in the answer without the model's words.
Worded(y) == [y EXCEPT !.stage = "none", !.ticket = << >>, !.size = 0, !.calls = 0, !.outcome = "none",
                       !.pc = "segment", !.text = "default"]

LEMMA WordedFacts ==
  ASSUME NEW y \in HostStates, NEW x, x = Worded(y)
  PROVE  /\ x \in HostStates /\ x.pc = "segment" /\ x.stage = "none" /\ x.text = "default"
         /\ SameOwner(x, y) /\ x.holds = y.holds /\ x.status = y.status /\ x.phase = y.phase
<1>1. "segment" \in Pcs /\ "default" \in Texts
  BY DEF Pcs, AnswerPcs, Texts
<1>2. x \in HostStates
  <2> DEFINE z == [y EXCEPT !.stage = "none", !.ticket = << >>, !.size = 0, !.calls = 0]
             w == [z EXCEPT !.outcome = "none", !.pc = "segment", !.text = "default"]
  <2>1. z \in HostStates
    BY DEF HostStates
  <2>2. w \in HostStates
    <3> HIDE DEF z
    <3> QED
      BY <1>1, <2>1 DEF HostStates
  <2>3. x = w
    BY DEF z, w, Worded
  <2> QED
    BY <2>2, <2>3
<1>3. x.pc = "segment" /\ x.stage = "none" /\ x.text = "default" /\ x.holds = y.holds
  BY DEF HostStates, Worded
<1>4. x.via = y.via /\ x.writes = y.writes /\ x.controls = y.controls /\ x.status = y.status /\ x.phase = y.phase
  BY DEF HostStates, Worded
<1> QED
  BY <1>2, <1>3, <1>4 DEF SameOwner

\* The exception of a stage, with its ticket kept (y = hosts[h]) or settled.
LEMMA StageFailsKeeps ==
  ASSUME Inv, NEW h \in Hosts, hosts[h].pc \in StagePcs, NEW now, NEW y,
         InvAt(dep, now, plans, conv, controller, uncertain, [hosts EXCEPT ![h] = y], spent),
         SameHead(now, run), SameRest(y, hosts[h]),
         y = hosts[h] \/ (y.stage = "none" /\ y.pc = hosts[h].stage),
         NEW why, StageFails(h, why, now)
  PROVE  Inv'
<1> DEFINE o == hosts[h]
           hs == [hosts EXCEPT ![h] = y]
<1>1. o \in HostStates /\ HostShape(o) /\ HostOK(o, run, plans, dep.mode) /\ hosts \in [Hosts -> HostStates]
  BY HostFacts DEF Inv
<1>2. StageKind(o) /\ o.stage \in Stages /\ ~o.holds /\ run.exists
  BY StageHost DEF Inv
<1>3. y.pc \notin {"down", "inspect", "recover", "blocked"} /\ y.writes = o.writes /\ y.via = o.via /\ y.controls = o.controls /\ now.exists
  BY <1>2 DEF SameRest, SameHead, Stages, ControllerStages, StageKind, StagePcs
<1>4. o.stage \in ControllerStages => Loaded(y)
  BY <1>2 DEF StageKind, Loaded, OnPlan, Answering, ControllerStages, LoopPcs, AnswerPcs
<1>5. hs[h] = y /\ \A x : [hs EXCEPT ![h] = x] = [hosts EXCEPT ![h] = x]
  BY <1>1
<1>6. InvAt(dep, now, plans, conv, controller, uncertain, hs, spent)
  OBVIOUS
<1> HIDE DEF hs
<1> DEFINE pc == IF o.via = "startup" THEN "blocked" ELSE "idle"
<1>7. pc \in {"idle", "blocked"}
  OBVIOUS
<1>8. Raise(h) => Returned(h, pc) /\ ReleasePlan(h) /\ UNCHANGED <<env, conv, writer, spent>>
  BY DEF Raise, env
<1> HIDE DEF pc
<1>9. CASE o.stage = "router"
  <2>1. o.via = "prompt"
    BY <1>1, <1>9 DEF HostOK
  <2>2. run' = CloseAdmission(now) /\ Raise(h)
    BY <1>9 DEF StageFails
  <2>3. run' = IF hosts[h].via = "prompt" THEN CloseAdmission(now) ELSE now
    BY <2>1, <2>2
  <2> QED
    BY <1>3, <1>7, <1>8, <2>2, <2>3, RaiseCloses
<1>10. CASE o.stage = "planner"
  <2>1. run' = (IF hosts[h].via = "prompt" THEN CloseAdmission(now) ELSE now) /\ Raise(h)
    BY <1>10 DEF StageFails
  <2> QED
    BY <1>3, <1>7, <1>8, <2>1, RaiseCloses
<1>11. ASSUME o.stage = "synthesizer", Raise(h), run' = now PROVE Inv'
  <2>1. InvAt(dep', now, plans', conv', controller', uncertain', hosts', spent')
    BY <1>3, <1>7, <1>8, <1>11, RaiseSteps
  <2> QED
    BY <1>11, <2>1 DEF Inv
<1>12. ASSUME NEW x, LoadedFits(x, now, plans), SameOwner(x, o), o.stage \in ControllerStages,
              hosts' = [hosts EXCEPT ![h] = x], run' = now,
              UNCHANGED <<env, plans, conv, writer, controller, spent>>
       PROVE  Inv'
  <2>1. Loaded(hs[h]) /\ SameOwner(x, hs[h])
    BY <1>3, <1>4, <1>5, <1>12 DEF SameOwner
  <2>2. InvAt(dep, now, plans, conv, controller, uncertain, [hs EXCEPT ![h] = x], spent)
    BY ONLY <1>6, <1>12, <2>1, h \in Hosts, LoadedStep
  <2>3. InvAt(dep, now, plans, conv, controller, uncertain, [hosts EXCEPT ![h] = x], spent)
    BY <1>5, <2>2
  <2> QED
    BY <1>12, <2>3 DEF Inv, env
<1>13. CASE o.stage \in {"result_validator", "replanner"}
  <2> DEFINE x == Concluded(h, GiveUp(h))
  <2>1. run' = now /\ hosts' = [hosts EXCEPT ![h] = x] /\ UNCHANGED <<env, plans, conv, writer, controller, spent>>
    BY <1>13 DEF StageFails, Conclude, Local
  <2>2. GiveUp(h) \in Deliverable /\ GiveUp(h) # "completed"
    BY DEF GiveUp, Deliverable
  <2>3. /\ x \in HostStates /\ x.pc = "reserve" /\ x.stage = "synthesizer" /\ x.status = GiveUp(h)
        /\ x.phase = "failed" /\ SameOwner(x, o) /\ x.holds = o.holds
    BY <1>1, <2>2, ConcludedFacts
  <2> HIDE DEF x
  <2>4. LoadedFits(x, now, plans)
    BY <1>2, <2>2, <2>3, ConcludedFits
  <2> QED
    BY <1>12, <1>13, <2>1, <2>3, <2>4 DEF ControllerStages
<1>14. CASE o.stage = "synthesizer" /\ ~Raise(h)
  <2> DEFINE x == Worded(o)
  <2>1. run' = now /\ hosts' = [hosts EXCEPT ![h] = x] /\ UNCHANGED <<env, plans, conv, writer, controller, spent>>
    BY <1>14 DEF StageFails, Local, Settled, Worded
  <2>2. /\ x \in HostStates /\ x.pc = "segment" /\ x.stage = "none" /\ x.text = "default"
        /\ SameOwner(x, o) /\ x.holds = o.holds /\ x.status = o.status /\ x.phase = o.phase
    BY <1>1, WordedFacts
  <2> HIDE DEF x
  <2>3. o.status \in Deliverable /\ (o.phase = "completed" \/ o.status = "completed" => SomeCompleted(plans))
    BY <1>1, <1>2, <1>14 DEF HostOK, StageKind
  <2>4. LoadedFits(x, now, plans)
    BY <1>2, <2>2, <2>3 DEF LoadedFits, Loaded, OnPlan, Answering, HasTicket, StagePcs, LoopPcs, StepPcs, AnswerPcs, Texts
  <2> QED
    BY <1>12, <1>14, <2>1, <2>2, <2>4 DEF ControllerStages
<1>15. CASE o.stage = "synthesizer" /\ Raise(h)
  <2>1. run' = now
    BY <1>15 DEF StageFails
  <2> QED
    BY <1>11, <1>15, <2>1
<1> QED
  BY <1>2, <1>9, <1>10, <1>13, <1>14, <1>15 DEF Stages, ControllerStages

LEMMA ReserveRefusedKeeps ==
  ASSUME Inv, NEW h \in Hosts, ReserveRefused(h) \/ SettleFails(h)
  PROVE  Inv'
<1> DEFINE y == hosts[h]
<1>1. hosts[h].pc \in StagePcs
  BY DEF ReserveRefused, SettleFails, At, StagePcs
<1>2. PICK why : StageFails(h, why, run)
  BY DEF ReserveRefused, SettleFails
<1>3. [hosts EXCEPT ![h] = y] = hosts
  BY HostFacts DEF Inv
<1>4. InvAt(dep, run, plans, conv, controller, uncertain, [hosts EXCEPT ![h] = y], spent)
  BY <1>3 DEF Inv
<1>5. SameHead(run, run) /\ SameRest(y, hosts[h])
  BY DEF SameHead, SameRest, SameAnswer, SameBinding
<1> QED
  BY <1>1, <1>2, <1>4, <1>5, StageFailsKeeps

\* The locals after the callback, and after the settlement of its ticket.
Dispatched(y, n, outcome) == [y EXCEPT !.pc = "settle", !.calls = n, !.outcome = outcome]
Paid(y) == [y EXCEPT !.stage = "none", !.ticket = << >>, !.size = 0, !.calls = 0, !.outcome = "none",
                     !.pc = y.stage]

LEMMA DispatchedFacts ==
  ASSUME NEW y \in HostStates, NEW n \in Nat, NEW outcome \in {"returned", "raised", "unknown"},
         NEW x, x = Dispatched(y, n, outcome)
  PROVE  /\ x \in HostStates /\ x.pc = "settle" /\ x.calls = n /\ x.stage = y.stage /\ x.ticket = y.ticket
         /\ x.size = y.size /\ SameRest(x, y)
<1>1. x \in HostStates
  BY DEF HostStates, Pcs, StagePcs, Dispatched
<1>2. x.pc = "settle" /\ x.calls = n /\ x.stage = y.stage /\ x.ticket = y.ticket /\ x.size = y.size
  BY DEF HostStates, Dispatched
<1>3. /\ x.via = y.via /\ x.writes = y.writes /\ x.controls = y.controls /\ x.holds = y.holds
      /\ x.plan = y.plan /\ x.draft = y.draft /\ x.phase = y.phase /\ x.round = y.round
  BY DEF HostStates, Dispatched
<1>4. x.rounds = y.rounds /\ x.actions = y.actions /\ x.status = y.status /\ x.text = y.text
  BY DEF HostStates, Dispatched
<1> QED
  BY <1>1, <1>2, <1>3, <1>4 DEF SameRest

LEMMA DispatchSteps ==
  ASSUME Inv, NEW h \in Hosts, At(h, "dispatch"), NEW n \in Nat, n <= hosts[h].size,
         NEW outcome \in {"returned", "raised", "unknown"}, NEW x, x = Dispatched(hosts[h], n, outcome)
  PROVE  InvAt(dep, run, plans, conv, controller, uncertain, [hosts EXCEPT ![h] = x],
               [spent EXCEPT !["model_calls"] = @ + n])
<1> DEFINE y == hosts[h]
<1>1. y \in HostStates /\ HostShape(y) /\ HostOK(y, run, plans, dep.mode) /\ y.pc = "dispatch"
      /\ LeaseOK(h, y, run, plans, controller, uncertain)
  BY HostFacts DEF Inv, At
<1>2. StageKind(y) /\ y.stage \in Stages /\ ~y.holds /\ run.exists
  BY <1>1, StageHost DEF Inv, StagePcs
<1>3. /\ x \in HostStates /\ x.pc = "settle" /\ x.calls = n /\ x.stage = y.stage /\ x.ticket = y.ticket
      /\ x.size = y.size /\ SameRest(x, y)
  <2>1. x = Dispatched(y, n, outcome) /\ y \in HostStates
    BY <1>1
  <2> HIDE DEF y
  <2> QED
    BY <2>1, DispatchedFacts
<1>4. StageKind(x)
  BY <1>3, StagePcKind DEF StagePcs
<1>5. HostShape(x)
  BY <1>1, <1>2, <1>3, <1>4 DEF HostShape, StagePcs, StageKind, SameRest
<1>6. HostOK(x, run, plans, dep.mode)
  BY <1>1, <1>2, <1>3, <1>4 DEF HostOK, StageKind, SameRest, HasTicket
<1>7. LeaseOK(h, x, run, plans, controller, uncertain)
  BY <1>1, <1>2, <1>3, <1>4 DEF LeaseOK, StageKind, SameRest
<1>8. x.via = y.via /\ x.calls \in Nat /\ n <= x.calls
  BY <1>3 DEF SameRest
<1> QED
  BY <1>1, <1>3, <1>5, <1>6, <1>7, <1>8, DispatchTouched DEF Inv

LEMMA DispatchKeeps ==
  ASSUME Inv, NEW h \in Hosts, DispatchStage(h) \/ DispatchLate(h)
  PROVE  Inv'
<1>1. hosts[h].size \in Nat /\ spent \in [Resources -> Nat]
  BY HostFacts DEF Inv, HostStates, InvAt, SpentOK
<1>2. CASE DispatchStage(h)
  <2>1. PICK n \in 0..hosts[h].size, outcome \in {"returned", "raised", "unknown"} :
           /\ spent' = [spent EXCEPT !["model_calls"] = @ + n]
           /\ hosts' = [hosts EXCEPT ![h] = [hosts[h] EXCEPT !.pc = "settle", !.calls = n, !.outcome = outcome]]
    BY <1>2 DEF DispatchStage, Local
  <2> DEFINE x == Dispatched(hosts[h], n, outcome)
  <2>2. hosts' = [hosts EXCEPT ![h] = x]
    BY <2>1 DEF Dispatched
  <2>3. n \in Nat /\ n <= hosts[h].size /\ At(h, "dispatch")
    <3>1. At(h, "dispatch")
      BY <1>2 DEF DispatchStage
    <3>2. n \in 0..hosts[h].size
      OBVIOUS
    <3> QED
      BY ONLY <1>1, <3>1, <3>2
  <2> HIDE DEF x
  <2>4. InvAt(dep, run, plans, conv, controller, uncertain, [hosts EXCEPT ![h] = x],
              [spent EXCEPT !["model_calls"] = @ + n])
    BY <2>3, DispatchSteps DEF x
  <2> QED
    BY <1>2, <2>1, <2>2, <2>4 DEF Inv, DispatchStage, env
<1>3. CASE DispatchLate(h)
  <2>1. PICK outcome \in {"returned", "raised", "unknown"} :
           hosts' = [hosts EXCEPT ![h] = [hosts[h] EXCEPT !.pc = "settle", !.calls = 0, !.outcome = outcome]]
    BY <1>3 DEF DispatchLate, Local
  <2> DEFINE x == Dispatched(hosts[h], 0, outcome)
  <2>2. hosts' = [hosts EXCEPT ![h] = x]
    BY <2>1 DEF Dispatched
  <2>3. 0 \in Nat /\ 0 <= hosts[h].size /\ At(h, "dispatch")
    BY <1>1, <1>3 DEF DispatchLate
  <2> HIDE DEF x
  <2>4. InvAt(dep, run, plans, conv, controller, uncertain, [hosts EXCEPT ![h] = x],
              [spent EXCEPT !["model_calls"] = @ + 0])
    BY <2>3, DispatchSteps DEF x
  <2>5. [spent EXCEPT !["model_calls"] = @ + 0] = spent
    BY <1>1 DEF Resources
  <2> QED
    BY <1>3, <2>2, <2>4, <2>5 DEF Inv, DispatchLate, env
<1> QED
  BY <1>2, <1>3

LEMMA PaidFacts ==
  ASSUME NEW y \in HostStates, y.stage \in Stages, NEW x, x = Paid(y)
  PROVE  x \in HostStates /\ x.pc = y.stage /\ x.stage = "none" /\ SameRest(x, y)
<1>1. y.stage \in Pcs
  BY DEF Stages, ControllerStages, Pcs, LoopPcs, AnswerPcs
<1>2. x \in HostStates
  <2> DEFINE z == [y EXCEPT !.stage = "none", !.ticket = << >>, !.size = 0, !.calls = 0]
             st == y.stage
             w == [z EXCEPT !.outcome = "none", !.pc = st]
  <2>1. z \in HostStates
    BY DEF HostStates
  <2>2. w \in HostStates
    <3>1. st \in Pcs
      BY <1>1
    <3> HIDE DEF z, st
    <3> QED
      BY <2>1, <3>1 DEF HostStates
  <2>3. x = w
    BY DEF z, w, Paid
  <2> QED
    BY <2>2, <2>3
<1>3. x.pc = y.stage /\ x.stage = "none" /\ x.via = y.via /\ x.writes = y.writes
  BY DEF HostStates, Paid
<1>4. x.controls = y.controls /\ x.holds = y.holds /\ x.plan = y.plan /\ x.draft = y.draft
  BY DEF HostStates, Paid
<1>5. x.phase = y.phase /\ x.round = y.round /\ x.rounds = y.rounds
  BY DEF HostStates, Paid
<1>6. x.actions = y.actions /\ x.status = y.status /\ x.text = y.text
  BY DEF HostStates, Paid
<1> QED
  BY <1>2, <1>3, <1>4, <1>5, <1>6 DEF SameRest

\* The ticket is settled or released, and the Host goes on with the stage's result.
LEMMA PaidSteps ==
  ASSUME Inv, NEW h \in Hosts, At(h, "settle"), Settleable(h), NEW actual \in Actual(h),
         NEW now, now = Apply(run, Settlement(h, actual), dep.budget), NEW x, x = Paid(hosts[h])
  PROVE  /\ InvAt(dep, now, plans, conv, controller, uncertain, [hosts EXCEPT ![h] = x], spent)
         /\ SameHead(now, run) /\ SameRest(x, hosts[h]) /\ x.stage = "none" /\ x.pc = hosts[h].stage
<1> DEFINE y == hosts[h]
           id == y.ticket
<1>1. y \in HostStates /\ HostShape(y) /\ HostOK(y, run, plans, dep.mode) /\ y.pc = "settle"
      /\ LeaseOK(h, y, run, plans, controller, uncertain)
  BY HostFacts DEF Inv, At
<1>2. StageKind(y) /\ y.stage \in Stages /\ ~y.holds /\ run.exists
  BY <1>1, StageHost DEF Inv, StagePcs
<1>3. Live(run) /\ run.settled \in [Resources -> Nat]
  BY <1>2, RunFacts DEF Inv, Settleable, Funded
<1>4. id \in Reserved(run) /\ run.active[id] = Usage("model_calls", y.size)
  BY <1>1 DEF HostOK, HasTicket
<1>5. y.size \in Nat /\ y.calls \in Nat /\ actual \in Nat /\ y.calls <= actual /\ actual <= y.size
  <2>1. y.size \in Nat /\ y.calls \in Nat
    BY <1>1 DEF HostStates
  <2>2. actual \in y.calls..y.size
    BY DEF Actual
  <2> QED
    BY ONLY <2>1, <2>2
<1>6. x \in HostStates /\ x.pc = y.stage /\ x.stage = "none" /\ SameRest(x, y)
  <2>1. x = Paid(y) /\ y \in HostStates
    BY <1>1
  <2> HIDE DEF y
  <2> QED
    BY <1>2, <2>1, PaidFacts
<1>7. PICK n \in Nat : /\ y.calls <= n /\ n <= y.size /\ RunShape(now) /\ SameHead(now, run)
                       /\ now.active = Without(run.active, id)
                       /\ now.settled = Plus(run.settled, Usage("model_calls", n))
  <2>1. CASE y.stage = "router" /\ y.calls = 0
    <3>1. now = Apply(run, ResourceReleased(id), dep.budget)
      BY <2>1 DEF Settlement
    <3>2. /\ RunShape(now) /\ SameHead(now, run)
          /\ now.active = Without(run.active, id) /\ now.settled = run.settled
      BY <1>3, <1>4, <3>1, ApplyReleased
    <3>3. Plus(run.settled, Usage("model_calls", 0)) = run.settled
      <4> DEFINE u == Usage("model_calls", 0)
                 v == Plus(run.settled, u)
      <4>1. \A z \in Resources : u[z] = 0
        BY DEF Usage, NoUsage
      <4> HIDE DEF u
      <4>2. v = [z \in Resources |-> run.settled[z] + u[z]]
        BY DEF Plus
      <4>3. \A z \in Resources : v[z] = run.settled[z]
        BY <1>3, <4>1, <4>2
      <4>4. DOMAIN v = Resources /\ v = [z \in Resources |-> v[z]]
        BY <4>2
      <4> HIDE DEF v
      <4>5. run.settled = [z \in Resources |-> run.settled[z]]
        BY <1>3
      <4>6. v = run.settled
        BY <4>3, <4>4, <4>5
      <4> QED
        BY <4>6 DEF u, v
    <3> QED
      BY <1>5, <2>1, <3>2, <3>3
  <2>2. CASE ~(y.stage = "router" /\ y.calls = 0)
    <3> DEFINE paid == Usage("model_calls", actual)
    <3>1. paid \in [Resources -> Nat] /\ AtMost(paid, run.active[id])
      <4>1. \A z \in Resources : Usage("model_calls", actual)[z] <= Usage("model_calls", y.size)[z]
        BY <1>5 DEF Usage, NoUsage, Resources
      <4>2. paid \in [Resources -> Nat]
        BY <1>5 DEF Usage, NoUsage, Resources
      <4> QED
        BY <1>4, <4>1, <4>2 DEF AtMost
    <3>2. now = Apply(run, ResourceSettled(id, paid), dep.budget)
      BY <2>2 DEF Settlement
    <3> HIDE DEF paid
    <3>3. /\ RunShape(now) /\ SameHead(now, run)
          /\ now.active = Without(run.active, id) /\ now.settled = Plus(run.settled, paid)
      BY <1>3, <1>4, <3>1, <3>2, ApplySettled
    <3> QED
      BY <1>5, <3>3 DEF paid
  <2> QED
    BY <2>1, <2>2
<1>8. /\ InAdmission(x) <=> InAdmission(y)
      /\ OnPlan(x) <=> OnPlan(y)
      /\ Answering(x) <=> Answering(y)
      /\ Loaded(x) <=> Loaded(y)
      /\ InControl(x) <=> InControl(y)
  BY <1>2, <1>6 DEF StageKind, Stages, ControllerStages, InAdmission, OnPlan, Answering, Loaded, InControl,
                    LoopPcs, StepPcs, AnswerPcs
<1>9. ~HasTicket(x) /\ x.pc \in Stages /\ x.pc \notin StagePcs /\ x.pc # "register"
  BY <1>2, <1>6 DEF HasTicket, Stages, ControllerStages, StagePcs
<1>10. HostShape(x)
  BY <1>1, <1>2, <1>6, <1>8, <1>9 DEF HostShape, SameRest, StagePcs, StepPcs
<1>11. HostOK(x, now, plans, dep.mode)
  <2>1. x.pc \notin {"prepare", "bootstrap", "register", "registered", "segment", "finalize", "project"}
    BY <1>9 DEF Stages, ControllerStages
  <2> QED
    BY <1>1, <1>2, <1>6, <1>7, <1>8, <1>9, <2>1 DEF HostOK, StageKind, SameRest, SameHead, SameBinding
<1>12. LeaseOK(h, x, now, plans, controller, uncertain)
  BY <1>1, <1>2, <1>6, <1>7, <1>8 DEF LeaseOK, SameRest, SameHead, SameAnswer
<1>13. InvAt(dep, now, plans, conv, controller, uncertain, [hosts EXCEPT ![h] = x], spent)
  <2>1. x.via = y.via
    BY <1>6 DEF SameRest
  <2>2. InvAt(dep, run, plans, conv, controller, uncertain, hosts, spent)
    BY DEF Inv
  <2> QED
    BY <1>1, <1>7, <1>9, <1>10, <1>11, <1>12, <2>1, <2>2, SettleTouched
<1> QED
  BY <1>6, <1>7, <1>13

LEMMA SettleKeeps ==
  ASSUME Inv, NEW h \in Hosts, SettleRaised(h) \/ SettleStage(h)
  PROVE  Inv'
<1> DEFINE x == Paid(hosts[h])
<1>1. At(h, "settle") /\ Settleable(h) /\ hosts[h].pc \in StagePcs
  BY DEF SettleRaised, SettleStage, At, StagePcs
<1>2. CASE SettleRaised(h)
  <2>1. PICK actual \in Actual(h) : StageFails(h, "raised", Apply(run, Settlement(h, actual), dep.budget))
    BY <1>2 DEF SettleRaised
  <2> DEFINE now == Apply(run, Settlement(h, actual), dep.budget)
  <2>2. StageFails(h, "raised", now)
    BY <2>1
  <2> HIDE DEF x, now
  <2>3. /\ InvAt(dep, now, plans, conv, controller, uncertain, [hosts EXCEPT ![h] = x], spent)
        /\ SameHead(now, run) /\ SameRest(x, hosts[h]) /\ x.stage = "none" /\ x.pc = hosts[h].stage
    BY <1>1, PaidSteps DEF x, now
  <2> QED
    BY <1>1, <2>2, <2>3, StageFailsKeeps
<1>3. CASE SettleStage(h)
  <2>1. PICK actual \in Actual(h) : run' = Apply(run, Settlement(h, actual), dep.budget)
    BY <1>3 DEF SettleStage, Append1
  <2>2. hosts' = [hosts EXCEPT ![h] = x]
    BY <1>3 DEF SettleStage, Settled, Local, Paid
  <2> HIDE DEF x
  <2>3. InvAt(dep, run', plans, conv, controller, uncertain, [hosts EXCEPT ![h] = x], spent)
    BY <1>1, <2>1, PaidSteps DEF x
  <2> QED
    BY <1>3, <2>2, <2>3 DEF Inv, SettleStage, env
<1> QED
  BY <1>2, <1>3
-----------------------------------------------------------------------------
(* Route, plan and publish *)

LEMMA RaiseKeeps ==
  ASSUME Inv, NEW h \in Hosts, hosts[h].pc \notin {"down", "inspect", "recover", "blocked"}, run' = run, Raise(h)
  PROVE  Inv'
<1> DEFINE y == hosts[h]
           pc == IF hosts[h].via = "startup" THEN "blocked" ELSE "idle"
<1>1. [hosts EXCEPT ![h] = y] = hosts
  BY HostFacts DEF Inv
<1>2. InvAt(dep, run, plans, conv, controller, uncertain, [hosts EXCEPT ![h] = y], spent)
  BY <1>1 DEF Inv
<1>3. pc \in {"idle", "blocked"}
  OBVIOUS
<1>4. Returned(h, pc) /\ ReleasePlan(h) /\ UNCHANGED <<env, conv, writer, spent>>
  BY DEF Raise, env
<1> HIDE DEF pc
<1>5. InvAt(dep', run, plans', conv', controller', uncertain', hosts', spent')
  BY <1>2, <1>3, <1>4, RaiseSteps
<1> QED
  BY <1>5 DEF Inv

\* The same, and the admission of a routed prompt is closed.
LEMMA RefusalKeeps ==
  ASSUME Inv, NEW h \in Hosts, hosts[h].pc \notin {"down", "inspect", "recover", "blocked"}, run.exists,
         NEW pc \in {"idle", "blocked"}, Returned(h, pc), ReleasePlan(h) \/ UNCHANGED plans,
         UNCHANGED <<env, conv, writer, spent>>,
         run' = IF hosts[h].via = "prompt" THEN CloseAdmission(run) ELSE run
  PROVE  Inv'
<1> DEFINE y == hosts[h]
<1>1. [hosts EXCEPT ![h] = y] = hosts
  BY HostFacts DEF Inv
<1>2. InvAt(dep, run, plans, conv, controller, uncertain, [hosts EXCEPT ![h] = y], spent)
  BY <1>1 DEF Inv
<1> QED
  BY <1>2, RaiseCloses

\* A Host in the admission, outside a model stage.
LEMMA AdmissionHost ==
  ASSUME NEW d, NEW r, NEW ps, NEW c, NEW ctl, NEW unc, NEW hs, NEW s,
         InvAt(d, r, ps, c, ctl, unc, hs, s), NEW h \in Hosts,
         hs[h].pc \in {"router", "planner", "bootstrap"}
  PROVE  /\ hs[h] \in HostStates /\ hs[h].stage = "none" /\ ~hs[h].controls /\ ~hs[h].holds
         /\ hs[h].via = d.mode /\ ~r.closed /\ r.exists
<1>1. hs[h] \in HostStates /\ HostShape(hs[h]) /\ HostOK(hs[h], r, ps, d.mode)
  BY HostFacts
<1>2. hs[h].stage = "none" /\ ~hs[h].controls /\ ~hs[h].holds
  BY <1>1 DEF HostShape, StagePcs, Loaded, OnPlan, Answering, LoopPcs, StepPcs, AnswerPcs
<1> QED
  BY <1>1, <1>2 DEF HostOK, InAdmission

\* A Host that goes on in the admission, or from there to the controller.
LEMMA AdmissionStep ==
  ASSUME NEW d, NEW r, NEW ps, NEW c, NEW ctl, NEW unc, NEW hs, NEW s,
         InvAt(d, r, ps, c, ctl, unc, hs, s), NEW h \in Hosts,
         hs[h].pc \in {"router", "planner", "bootstrap"},
         NEW x \in HostStates, x.pc \in {"prepare", "bootstrap", "acquire"}, SameOwner(x, hs[h]),
         x.holds = hs[h].holds, x.stage = hs[h].stage, x.phase = hs[h].phase, x.status = hs[h].status,
         x.pc = "bootstrap" => x.draft \in DOMAIN ps,
         x.pc = "acquire" => r.bound
  PROVE  InvAt(d, r, ps, c, ctl, unc, [hs EXCEPT ![h] = x], s)
<1>1. /\ hs[h] \in HostStates /\ hs[h].stage = "none" /\ ~hs[h].controls /\ ~hs[h].holds
      /\ hs[h].via = d.mode /\ ~r.closed /\ r.exists
  BY AdmissionHost
<1>2. HostOK(hs[h], r, ps, d.mode)
  BY HostFacts
<1>3. HostShape(x) /\ ~HasTicket(x)
  BY <1>1 DEF HostShape, HasTicket, StagePcs, SameOwner
<1>4. ~OnPlan(x) /\ ~Answering(x) /\ ~Loaded(x) /\ (InControl(x) <=> x.pc = "acquire")
  BY <1>1 DEF InControl, Loaded, OnPlan, Answering, LoopPcs, StepPcs, AnswerPcs
<1>5. HostOK(x, r, ps, d.mode)
  BY <1>1, <1>2, <1>3, <1>4 DEF HostOK, SameOwner, InAdmission
<1> QED
  BY <1>1, <1>3, <1>5, LocalStep DEF SameOwner

LEMMA RouteDecidedKeeps ==
  ASSUME Inv, NEW h \in Hosts, RouteDecided(h)
  PROVE  Inv'
<1> DEFINE y == hosts[h]
           x == Gone(y, "prepare")
<1>1. /\ y \in HostStates /\ y.stage = "none" /\ ~y.controls /\ ~y.holds /\ run.exists /\ y.pc = "router"
  BY AdmissionHost DEF Inv, RouteDecided, At
<1>2. CASE hosts' = [hosts EXCEPT ![h] = x] /\ UNCHANGED <<run, controller>>
  <2>1. "prepare" \in Pcs
    BY DEF Pcs
  <2>2. x \in HostStates /\ x.pc = "prepare" /\ SameRest(x, y) /\ x.stage = y.stage
    BY <1>1, <2>1, GoFacts
  <2> HIDE DEF x
  <2>3. InvAt(dep, run, plans, conv, controller, uncertain, [hosts EXCEPT ![h] = x], spent)
    BY <1>1, <2>2, AdmissionStep DEF Inv, SameRest, SameOwner
  <2> QED
    BY <1>2, <2>3 DEF Inv, RouteDecided, env
<1>3. CASE run' = CloseAdmission(run) /\ Returned(h, "idle")
  <2>1. y.via = "prompt"
    BY <1>1, HostFacts DEF Inv, HostOK
  <2>2. run' = IF y.via = "prompt" THEN CloseAdmission(run) ELSE run
    BY <1>3, <2>1
  <2>3. UNCHANGED plans /\ UNCHANGED <<env, conv, writer, spent>>
    BY DEF RouteDecided, env
  <2> QED
    BY <1>1, <1>3, <2>2, <2>3, RefusalKeeps
<1> QED
  BY <1>2, <1>3 DEF RouteDecided, Go, Local, Gone

\* A new Plan, and the reservation of its steps.
LEMMA StepsReserved ==
  ASSUME Inv, NEW w \in dep.unsafe, plans' = Append(plans, Draft(w)),
         run.exists, ~Terminal(run), Remaining(run, dep.budget, "plan_steps") >= 1,
         Append1(ResourceReserved(<<"steps", Len(plans) + 1>>, Usage("plan_steps", 1)))
  PROVE  /\ InvAt(dep, run', plans', conv, controller, uncertain, hosts, spent)
         /\ SameHead(run', run)
         /\ Len(plans) + 1 \in DOMAIN plans' /\ Len(plans) + 1 \notin DOMAIN plans /\ Len(plans) + 1 \in Nat
<1> DEFINE n == Len(plans) + 1
           id == <<"steps", n>>
           amount == Usage("plan_steps", 1)
<1>1. Live(run) /\ Funded(run) /\ dep.budget \in [Resources -> Nat] /\ plans \in Seq(PlanStates)
      /\ dep \in Deployments
  BY RunFacts DEF Inv
<1>2. w \in BOOLEAN
  BY <1>1, AutonomousAssumption
<1>3. InvAt(dep, run, plans', conv, controller, uncertain, hosts, spent)
  BY <1>2, PlanAdded DEF Inv
<1>4. n \in DOMAIN plans' /\ n \notin DOMAIN plans /\ n \in Nat
  BY <1>1
<1> HIDE DEF n
<1>5. id \notin Reserved(run)
  BY <1>4 DEF Inv, InvAt, Reservations
<1>6. amount \in [Resources -> Nat] /\ AtMost(Plus(ResourceUsage(run), amount), dep.budget)
  <2>1. "plan_steps" \in Resources /\ AtMost(ResourceUsage(run), dep.budget)
    BY DEF Resources, Inv, InvAt, Reservations
  <2>2. 1 <= Remaining(run, dep.budget, "plan_steps") /\ 1 \in Nat /\ 1 >= 1
    <3>1. ResourceUsage(run)["plan_steps"] \in Nat
      BY <1>1, <2>1, UsageNat
    <3>2. Remaining(run, dep.budget, "plan_steps") \in Int
      BY <1>1, <2>1, <3>1 DEF Remaining
    <3> QED
      BY <3>2
  <2> QED
    BY <1>1, <2>1, <2>2, Spare
<1>7. run' = Apply(run, ResourceReserved(id, amount), dep.budget)
  BY DEF Append1, n
<1> HIDE DEF amount
<1>8. /\ RunShape(run') /\ SameHead(run', run)
      /\ run'.active = With(run.active, id, amount) /\ run'.settled = run.settled
  <2> HIDE DEF id
  <2> QED
    BY <1>1, <1>5, <1>6, <1>7, ApplyReserved
<1>9. /\ \A i \in Nat : id = <<"steps", i>> => i \in DOMAIN plans'
      /\ \A p, k \in Nat : id # <<"step", p, k>>
  BY <1>4
<1>10. InvAt(dep, run', plans', conv, controller, uncertain, hosts, spent)
  <2> HIDE DEF id
  <2> QED
    BY <1>3, <1>5, <1>6, <1>8, <1>9, ReserveTouched
<1> QED
  BY <1>4, <1>8, <1>10 DEF n

LEMMA PlanMadeKeeps ==
  ASSUME Inv, NEW h \in Hosts, PlanMade(h)
  PROVE  Inv'
<1> DEFINE y == hosts[h]
           n == Len(plans) + 1
           x == [y EXCEPT !.pc = "bootstrap", !.draft = n]
<1>1. /\ y \in HostStates /\ y.stage = "none" /\ ~y.controls /\ ~y.holds /\ run.exists /\ y.pc = "planner"
  BY AdmissionHost DEF Inv, PlanMade, At
<1>2. PICK w \in dep.unsafe : plans' = Append(plans, Draft(w))
  BY DEF PlanMade
<1>3. /\ InvAt(dep, run', plans', conv, controller, uncertain, hosts, spent)
      /\ n \in DOMAIN plans' /\ n \in Nat
  BY <1>1, <1>2, StepsReserved DEF PlanMade
<1>4. hosts' = [hosts EXCEPT ![h] = x]
  BY DEF PlanMade, Local
<1> HIDE DEF n
<1>5. x \in HostStates
  BY <1>1, <1>3 DEF HostStates, Pcs
<1>6. /\ x.pc = "bootstrap" /\ x.draft = n /\ SameOwner(x, y) /\ x.holds = y.holds /\ x.stage = y.stage
      /\ x.phase = y.phase /\ x.status = y.status
  BY <1>1 DEF HostStates, SameOwner
<1> HIDE DEF x
<1>7. InvAt(dep, run', plans', conv, controller, uncertain, [hosts EXCEPT ![h] = x], spent)
  BY <1>1, <1>3, <1>5, <1>6, AdmissionStep
<1> QED
  BY <1>4, <1>7 DEF Inv, PlanMade, env

LEMMA PlanRefusedKeeps ==
  ASSUME Inv, NEW h \in Hosts, PlanRefused(h)
  PROVE  Inv'
<1> DEFINE pc == IF hosts[h].via = "startup" THEN "blocked" ELSE "idle"
<1>1. run.exists /\ hosts[h].pc = "planner"
  BY AdmissionHost DEF Inv, PlanRefused, At
<1>2. pc \in {"idle", "blocked"}
  OBVIOUS
<1>3. Returned(h, pc) /\ ReleasePlan(h) /\ UNCHANGED <<env, conv, writer, spent>>
  BY DEF PlanRefused, Raise, env
<1>4. run' = IF hosts[h].via = "prompt" THEN CloseAdmission(run) ELSE run
  BY DEF PlanRefused
<1> HIDE DEF pc
<1> QED
  BY <1>1, <1>2, <1>3, <1>4, RefusalKeeps

LEMMA BootstrapKeeps ==
  ASSUME Inv, NEW h \in Hosts, Bootstrap(h)
  PROVE  Inv'
<1> DEFINE y == hosts[h]
           p == y.draft
           x == [y EXCEPT !.pc = "acquire", !.draft = 0]
<1>1. /\ y \in HostStates /\ y.stage = "none" /\ ~y.controls /\ ~y.holds /\ run.exists /\ ~run.closed
      /\ y.pc = "bootstrap"
  BY AdmissionHost DEF Inv, Bootstrap, At
<1>2. p \in DOMAIN plans /\ p \in Nat
  BY <1>1, HostFacts DEF Inv, HostOK, HostStates
<1>3. LedgerOK(run, conv, plans) /\ ~run.bound
  BY RunFacts DEF Inv, Bootstrap
<1>4. Live(run) /\ ~run.linked /\ ~run.dispatchable /\ run.plan_ids = << >>
  BY <1>1, <1>3, RunFacts DEF Inv, LedgerOK, Terminal
<1>5. run' = Published(run, p, dep.budget) /\ plans' = [plans EXCEPT ![p].phase = "pending"]
      /\ conv' = [conv EXCEPT !.phase = "running"]
  BY DEF Bootstrap
<1>6. /\ RunShape(run') /\ run'.exists = run.exists /\ run'.closed = run.closed
      /\ SameFunds(run', run) /\ SameAnswer(run', run)
      /\ run'.bound /\ run'.linked /\ run'.dispatchable /\ run'.plan_ids = <<p>>
  <2> HIDE DEF p
  <2> QED
    BY <1>2, <1>3, <1>4, <1>5, PublishedFacts
<1>7. ToSet(run'.plan_ids) = ToSet(run.plan_ids) \cup {p} /\ p \notin ToSet(run.plan_ids)
  BY <1>4, <1>6, ToSetFacts
<1>8. ConvOK(conv', run')
  BY <1>3, <1>5, <1>6 DEF ConvOK, ConvShape, LedgerOK
<1>9. \A g \in Hosts : ~(hosts[g].pc = "register" /\ hosts[g].draft = p)
  BY <1>3, HostFacts DEF Inv, HostOK, InControl, Loaded, OnPlan, LoopPcs
<1>10. InvAt(dep, run', plans', conv', controller, uncertain, hosts, spent)
  <2>1. InvAt(dep, run', [plans EXCEPT ![p].phase = "pending"], conv', controller, uncertain, hosts, spent)
    <3> HIDE DEF p
    <3> QED
      BY <1>1, <1>2, <1>6, <1>7, <1>8, <1>9, PlanPublished DEF Inv
  <2> QED
    BY <1>5, <2>1
<1>11. x \in HostStates
  BY <1>1 DEF HostStates, Pcs
<1>12. /\ x.pc = "acquire" /\ SameOwner(x, y) /\ x.holds = y.holds /\ x.stage = y.stage
       /\ x.phase = y.phase /\ x.status = y.status
  BY <1>1 DEF HostStates, SameOwner
<1>13. hosts' = [hosts EXCEPT ![h] = x]
  BY DEF Bootstrap, Local
<1> HIDE DEF x
<1>14. InvAt(dep, run', plans', conv', controller, uncertain, [hosts EXCEPT ![h] = x], spent)
  BY <1>1, <1>6, <1>10, <1>11, <1>12, AdmissionStep
<1> QED
  BY <1>13, <1>14 DEF Inv, Bootstrap, env

LEMMA BootstrapEndKeeps ==
  ASSUME Inv, NEW h \in Hosts, BootstrapAgain(h) \/ BootstrapFails(h)
  PROVE  Inv'
<1> DEFINE y == hosts[h]
           x == [y EXCEPT !.pc = "acquire", !.draft = 0]
<1>1. y \in HostStates /\ y.pc = "bootstrap"
  BY HostFacts DEF Inv, BootstrapAgain, BootstrapFails, At
<1>2. CASE BootstrapFails(h)
  BY <1>1, <1>2, RaiseKeeps DEF BootstrapFails
<1>3. CASE BootstrapAgain(h)
  <2>1. x \in HostStates
    BY <1>1 DEF HostStates, Pcs
  <2>2. /\ x.pc = "acquire" /\ SameOwner(x, y) /\ x.holds = y.holds /\ x.stage = y.stage
        /\ x.phase = y.phase /\ x.status = y.status
    BY <1>1 DEF HostStates, SameOwner
  <2>3. hosts' = [hosts EXCEPT ![h] = x] /\ run.bound
    BY <1>3 DEF BootstrapAgain, Local
  <2> HIDE DEF x
  <2>4. InvAt(dep, run, plans, conv, controller, uncertain, [hosts EXCEPT ![h] = x], spent)
    BY <1>1, <2>1, <2>2, <2>3, AdmissionStep DEF Inv
  <2> QED
    BY <1>3, <2>3, <2>4 DEF Inv, BootstrapAgain, env
<1> QED
  BY <1>2, <1>3
-----------------------------------------------------------------------------
(* The Run Controller *)

WaitPcs == {"acquire", "claim", "reload", "project", "ack"}

\* A Host that has the Run but is not in the closed loop or the answer.
LEMMA WaitingHost ==
  ASSUME NEW d, NEW r, NEW ps, NEW c, NEW ctl, NEW unc, NEW hs, NEW s,
         InvAt(d, r, ps, c, ctl, unc, hs, s), NEW h \in Hosts, hs[h].pc \in WaitPcs
  PROVE  /\ hs[h] \in HostStates /\ hs[h].stage = "none" /\ ~hs[h].holds /\ r.bound
         /\ hs[h].controls => hs[h].pc = "reload"
<1>1. hs[h] \in HostStates /\ HostShape(hs[h]) /\ HostOK(hs[h], r, ps, d.mode)
  BY HostFacts
<1>2. hs[h].stage = "none" /\ ~hs[h].holds /\ (hs[h].controls => hs[h].pc = "reload")
  BY <1>1 DEF HostShape, WaitPcs, StagePcs, StepPcs, Loaded, OnPlan, Answering, LoopPcs, AnswerPcs
<1> QED
  BY <1>1, <1>2 DEF HostOK, InControl, WaitPcs

WaitingFits(x, r, ps) ==
    /\ x \in HostStates /\ x.pc \in WaitPcs /\ x.stage = "none" /\ ~x.holds
    /\ x.controls => x.pc = "reload"
    /\ x.pc = "project" /\ x.status # "waiting_approval" =>
          r.status # NoStatus /\ x.status = r.status /\ x.text = r.text
    /\ x.phase = "completed" \/ x.status = "completed" => SomeCompleted(ps)

LEMMA WaitingOK ==
  ASSUME NEW x, NEW r, NEW ps, NEW mode, WaitingFits(x, r, ps), r.bound,
         x.via = "prompt" => r.exists /\ mode = "prompt"
  PROVE  HostShape(x) /\ HostOK(x, r, ps, mode) /\ ~HasTicket(x) /\ ~Loaded(x) /\ x.pc # "register"
<1>1. ~InAdmission(x) /\ ~OnPlan(x) /\ ~Answering(x) /\ ~Loaded(x) /\ ~HasTicket(x)
      /\ x.pc \notin {"router", "bootstrap", "register", "registered", "segment", "finalize"}
      /\ x.stage # "router" /\ x.pc \notin StagePcs
  BY DEF WaitingFits, WaitPcs, InAdmission, OnPlan, Answering, Loaded, HasTicket, LoopPcs, StepPcs, AnswerPcs,
         StagePcs
<1>2. HostShape(x)
  BY <1>1 DEF HostShape, WaitingFits
<1>3. HostOK(x, r, ps, mode)
  BY <1>1 DEF HostOK, WaitingFits
<1> QED
  BY <1>1, <1>2, <1>3

\* A step of such a Host, or one that hands the answer of the controller over.
LEMMA WaitingStep ==
  ASSUME NEW d, NEW r, NEW ps, NEW c, NEW ctl, NEW unc, NEW hs, NEW s,
         InvAt(d, r, ps, c, ctl, unc, hs, s), NEW h \in Hosts, InControl(hs[h]),
         NEW x, WaitingFits(x, r, ps), x.via = hs[h].via, x.writes = hs[h].writes,
         x.controls => hs[h].controls
  PROVE  InvAt(d, r, ps, c, ctl, unc, [hs EXCEPT ![h] = x], s)
<1>1. HostShape(hs[h]) /\ HostOK(hs[h], r, ps, d.mode)
  BY HostFacts
<1>2. hs[h].pc \notin {"down", "inspect", "recover", "blocked"}
  BY <1>1 DEF InControl, Loaded, OnPlan, Answering, HostShape, LoopPcs, StepPcs, AnswerPcs, StagePcs
<1>3. r.bound /\ (x.via = "prompt" => r.exists /\ d.mode = "prompt")
  BY <1>1 DEF HostOK
<1>4. HostShape(x) /\ HostOK(x, r, ps, d.mode) /\ ~HasTicket(x) /\ ~Loaded(x) /\ x.pc # "register"
  BY <1>3, WaitingOK
<1> QED
  BY <1>2, <1>4, LocalStep DEF WaitingFits

LEMMA LoadRunKeeps ==
  ASSUME Inv, NEW h \in Hosts, LoadRun(h)
  PROVE  Inv'
<1> DEFINE y == hosts[h]
           x == Gone(y, "claim")
<1>1. y \in HostStates /\ y.stage = "none" /\ ~y.holds /\ ~y.controls /\ y.pc = "acquire"
  BY WaitingHost DEF Inv, LoadRun, At, WaitPcs
<1>2. "claim" \in Pcs
  BY DEF Pcs
<1>3. x \in HostStates /\ x.pc = "claim" /\ SameRest(x, y) /\ x.stage = y.stage
  BY <1>1, <1>2, GoFacts
<1>4. hosts' = [hosts EXCEPT ![h] = x]
  BY DEF LoadRun, Go, Local, Gone
<1> HIDE DEF x
<1>5. y.phase = "completed" \/ y.status = "completed" => SomeCompleted(plans)
  BY HostFacts DEF Inv, HostOK
<1>6. WaitingFits(x, run, plans) /\ InControl(y)
  BY <1>1, <1>3, <1>5 DEF WaitingFits, WaitPcs, SameRest, InControl
<1>7. InvAt(dep, run, plans, conv, controller, uncertain, [hosts EXCEPT ![h] = x], spent)
  BY <1>1, <1>3, <1>6, WaitingStep DEF Inv, SameRest
<1> QED
  BY <1>4, <1>7 DEF Inv, LoadRun, env

LEMMA AcquireControllerKeeps ==
  ASSUME Inv, NEW h \in Hosts, AcquireController(h)
  PROVE  Inv'
<1> DEFINE y == hosts[h]
           x == [y EXCEPT !.pc = "reload", !.controls = TRUE]
<1>1. y \in HostStates /\ y.stage = "none" /\ ~y.holds /\ ~y.controls /\ y.pc = "claim" /\ run.bound
  BY WaitingHost DEF Inv, AcquireController, At, WaitPcs
<1>2. HostOK(y, run, plans, dep.mode) /\ LeaseOK(h, y, run, plans, controller, uncertain)
  BY HostFacts DEF Inv
<1>3. InvAt(dep, run, plans, conv, h, uncertain, hosts, spent)
  <2>1. \A g \in Hosts : hosts[g].controls /\ h = g => controller = g
    BY <1>1
  <2> QED
    BY <2>1, ClaimsTouched DEF Inv
<1>4. x \in HostStates
  BY <1>1 DEF HostStates, Pcs
<1>5. /\ x.pc = "reload" /\ x.controls = TRUE /\ x.via = y.via /\ x.writes = y.writes /\ x.holds = y.holds
      /\ x.stage = y.stage /\ x.phase = y.phase /\ x.status = y.status
  BY <1>1 DEF HostStates
<1>6. hosts' = [hosts EXCEPT ![h] = x]
  BY DEF AcquireController, Local
<1> HIDE DEF x
<1>7. WaitingFits(x, run, plans)
  BY <1>1, <1>2, <1>4, <1>5 DEF WaitingFits, WaitPcs, HostOK
<1>8. HostShape(x) /\ HostOK(x, run, plans, dep.mode) /\ ~HasTicket(x) /\ ~Loaded(x) /\ x.pc # "register"
  BY <1>1, <1>2, <1>5, <1>7, WaitingOK DEF HostOK
<1>9. LeaseOK(h, x, run, plans, h, uncertain)
  BY <1>1, <1>2, <1>5, <1>8 DEF LeaseOK
<1>10. \A g \in Hosts \ {h} : ~(x.via = "prompt" /\ hosts[g].via = "prompt")
  BY <1>5 DEF Inv, InvAt, ApartsOK, ApartOK
<1>11. InvAt(dep, run, plans, conv, h, uncertain, [hosts EXCEPT ![h] = x], spent)
  BY <1>3, <1>8, <1>9, <1>10, HostTouched
<1> QED
  BY <1>6, <1>11 DEF Inv, AcquireController, env

\* The locals with the answer the Run has.
Answered(y, r, controls) ==
    [y EXCEPT !.pc = "project", !.status = r.status, !.text = r.text, !.controls = controls]

LEMMA AnsweredFits ==
  ASSUME NEW y \in HostStates, ~y.holds, y.stage = "none", NEW r, NEW ps, NEW c, LedgerOK(r, c, ps),
         r.status # NoStatus, y.phase = "completed" => SomeCompleted(ps), NEW x, x = Answered(y, r, FALSE)
  PROVE  WaitingFits(x, r, ps) /\ x.via = y.via /\ x.writes = y.writes /\ ~x.controls
<1>1. r.status \in Answers /\ r.text \in Texts \cup {NoStatus} /\ (r.status = "completed" => SomeCompleted(ps))
  BY DEF LedgerOK, RunShape
<1>2. x \in HostStates
  BY <1>1 DEF HostStates, Pcs, Answers, Deliverable, Answered
<1>3. /\ x.pc = "project" /\ x.status = r.status /\ x.text = r.text /\ x.controls = FALSE
      /\ x.via = y.via /\ x.writes = y.writes /\ x.holds = y.holds /\ x.stage = y.stage /\ x.phase = y.phase
  BY DEF HostStates, Answered
<1> QED
  BY <1>1, <1>2, <1>3 DEF WaitingFits, WaitPcs

LEMMA RestoreAnswerKeeps ==
  ASSUME Inv, NEW h \in Hosts, RestoreAnswer(h)
  PROVE  Inv'
<1> DEFINE y == hosts[h]
           x == Answered(y, run, FALSE)
<1>1. y \in HostStates /\ y.stage = "none" /\ ~y.holds /\ y.controls = FALSE /\ y.pc = "acquire" /\ InControl(y)
  BY WaitingHost DEF Inv, RestoreAnswer, At, WaitPcs, HostStates, InControl
<1>2. hosts' = [hosts EXCEPT ![h] = x]
  <2>1. [y EXCEPT !.pc = "project", !.status = run.status, !.text = run.text] = x
    BY <1>1 DEF Answered, HostStates
  <2> QED
    BY <2>1 DEF RestoreAnswer, Restored, Local
<1>3. LedgerOK(run, conv, plans) /\ run.status # NoStatus /\ (y.phase = "completed" => SomeCompleted(plans))
  BY RunFacts, HostFacts DEF Inv, HostOK, RestoreAnswer
<1> HIDE DEF x
<1>4. WaitingFits(x, run, plans) /\ x.via = y.via /\ x.writes = y.writes /\ ~x.controls
  <2>1. x = Answered(y, run, FALSE)
    BY DEF x
  <2> HIDE DEF y
  <2> QED
    BY <1>1, <1>3, <2>1, AnsweredFits
<1>5. InvAt(dep, run, plans, conv, controller, uncertain, [hosts EXCEPT ![h] = x], spent)
  BY <1>1, <1>4, WaitingStep DEF Inv
<1> QED
  BY <1>2, <1>5 DEF Inv, RestoreAnswer, env

LEMMA AcquireFailsKeeps ==
  ASSUME Inv, NEW h \in Hosts, AcquireFails(h) \/ ReloadFails(h)
  PROVE  Inv'
<1>1. hosts[h].pc \notin {"down", "inspect", "recover", "blocked"} /\ run' = run /\ Raise(h)
  BY DEF AcquireFails, ReloadFails, At
<1> QED
  BY <1>1, RaiseKeeps

LEMMA ReloadKeeps ==
  ASSUME Inv, NEW h \in Hosts, Reload(h)
  PROVE  Inv'
<1> DEFINE y == hosts[h]
<1>1. y \in HostStates /\ y.stage = "none" /\ ~y.holds /\ y.pc = "reload" /\ run.bound /\ InControl(y)
  BY WaitingHost DEF Inv, Reload, At, WaitPcs, InControl
<1>2. LedgerOK(run, conv, plans) /\ RunShape(run) /\ (y.phase = "completed" \/ y.status = "completed" => SomeCompleted(plans))
      /\ (y.via = "prompt" => run.exists /\ dep.mode = "prompt")
  BY RunFacts, HostFacts DEF Inv, HostOK
<1>3. CASE run.status # NoStatus
  <2> DEFINE x == Answered(y, run, FALSE)
             hs == [hosts EXCEPT ![h] = x]
  <2>1. hosts' = hs /\ controller' = NoHost
    <3>1. hosts' = [hosts EXCEPT ![h] = [Restored(h) EXCEPT !.controls = FALSE]] /\ controller' = NoHost
      BY <1>3 DEF Reload, Local
    <3>2. [Restored(h) EXCEPT !.controls = FALSE] = x
      BY DEF Restored, Answered
    <3> QED
      BY <3>1, <3>2
  <2> HIDE DEF x
  <2>2. WaitingFits(x, run, plans) /\ x.via = y.via /\ x.writes = y.writes /\ ~x.controls
    <3>1. x = Answered(y, run, FALSE)
      BY DEF x
    <3> HIDE DEF y
    <3> QED
      BY <1>1, <1>2, <1>3, <3>1, AnsweredFits
  <2>3. InvAt(dep, run, plans, conv, controller, uncertain, hs, spent)
    BY <1>1, <2>2, WaitingStep DEF Inv
  <2> HIDE DEF hs
  <2>4. InvAt(dep, run, plans, conv, NoHost, uncertain, hs, spent)
    BY <2>3, ClaimsTouched, AutonomousAssumption
  <2> QED
    BY <2>1, <2>4 DEF Inv, Reload, env
<1>4. CASE run.status = NoStatus
  <2> DEFINE p == LatestPlan(run)
             a == RoundsLeft(run, MaxRounds)
             b == ActionsLeft(run, MaxActions)
             x == [y EXCEPT !.pc = "action", !.plan = p, !.rounds = a, !.actions = b]
  <2>1. hosts' = [hosts EXCEPT ![h] = x] /\ controller' = controller
    BY <1>4 DEF Reload, Local
  <2>2. a \in Nat /\ b \in Nat
    BY <1>2, AutonomousAssumption DEF RunShape, RoundsLeft, ActionsLeft
  <2>3. p \in Nat /\ p \in ToSet(run.plan_ids)
    <3>1. run.plan_ids \in Seq(Nat) /\ run.plan_ids # << >>
      BY <1>1, <1>2 DEF LedgerOK, RunShape
    <3>2. Len(run.plan_ids) \in DOMAIN run.plan_ids
      BY <3>1
    <3>3. p = run.plan_ids[Len(run.plan_ids)]
      BY DEF LatestPlan, Last
    <3> QED
      BY <3>1, <3>2, <3>3 DEF ToSet
  <2> HIDE DEF a, b, p
  <2>4. x \in HostStates
    BY <1>1, <2>2, <2>3 DEF HostStates, Pcs, LoopPcs
  <2>5. /\ x.pc = "action" /\ x.plan = p /\ SameOwner(x, y) /\ x.holds = y.holds /\ x.stage = y.stage
        /\ x.phase = y.phase /\ x.status = y.status
    BY <1>1 DEF HostStates, SameOwner
  <2> HIDE DEF x
  <2>6. LoadedFits(x, run, plans)
    BY <1>1, <1>2, <2>3, <2>4, <2>5 DEF LoadedFits, Loaded, OnPlan, Answering, HasTicket, LoopPcs, AnswerPcs, StagePcs
  <2>7. HostShape(x) /\ HostOK(x, run, plans, dep.mode)
    BY <1>1, <1>2, <2>5, <2>6, LoadedOK DEF SameOwner
  <2>8. InvAt(dep, run, plans, conv, controller, uncertain, [hosts EXCEPT ![h] = x], spent)
    BY <1>1, <1>4, <2>5, <2>6, <2>7, LocalStep DEF Inv, SameOwner, LoadedFits
  <2> QED
    BY <2>1, <2>8 DEF Inv, Reload, env
<1> QED
  BY <1>3, <1>4
-----------------------------------------------------------------------------
(* The closed loop: execute a Plan *)

\* A Host at work on a Plan, outside a model stage.
LEMMA LoopHost ==
  ASSUME NEW d, NEW r, NEW ps, NEW c, NEW ctl, NEW unc, NEW hs, NEW s,
         InvAt(d, r, ps, c, ctl, unc, hs, s), NEW h \in Hosts, hs[h].pc \in LoopPcs
  PROVE  /\ hs[h] \in HostStates /\ hs[h].stage = "none" /\ Loaded(hs[h]) /\ OnPlan(hs[h]) /\ r.bound
         /\ hs[h].holds => hs[h].pc \in StepPcs
         /\ hs[h].plan \in ToSet(r.plan_ids) /\ hs[h].plan \in DOMAIN ps /\ hs[h].plan \in Nat
         /\ ps[hs[h].plan] \in PlanStates /\ PlanOK(hs[h].plan, ps[hs[h].plan], r)
         /\ hs[h].phase = "completed" \/ hs[h].status = "completed" => SomeCompleted(ps)
<1>1. hs[h] \in HostStates /\ HostShape(hs[h]) /\ HostOK(hs[h], r, ps, d.mode)
  BY HostFacts
<1>2. hs[h].stage = "none" /\ (hs[h].holds => hs[h].pc \in StepPcs)
  BY <1>1 DEF HostShape, LoopPcs, StepPcs, StagePcs
<1>3. Loaded(hs[h]) /\ OnPlan(hs[h]) /\ InControl(hs[h])
  BY DEF Loaded, OnPlan, InControl
<1>4. r.bound /\ hs[h].plan \in ToSet(r.plan_ids) /\ hs[h].plan \in Nat
      /\ (hs[h].phase = "completed" \/ hs[h].status = "completed" => SomeCompleted(ps))
  BY <1>1, <1>3 DEF HostOK, HostStates
<1>5. hs[h].plan \in DOMAIN ps
  BY <1>4, RunFacts
<1>6. ps[hs[h].plan] \in PlanStates /\ PlanOK(hs[h].plan, ps[hs[h].plan], r)
  BY <1>5 DEF InvAt, PlansOK
<1> QED
  BY <1>1, <1>2, <1>3, <1>4, <1>5, <1>6

\* An event of the closed loop, if the controller lease is still good.
LEMMA EmittedTouched ==
  ASSUME Inv, NEW h \in Hosts, Loaded(hosts[h]), NEW kind, NEW round \in Nat, Emitted(h, kind, round)
  PROVE  /\ InvAt(dep, run', plans, conv, controller, uncertain, hosts, spent)
         /\ run'.plan_ids = run.plan_ids
<1>1. CASE ~Controls(h)
  BY <1>1 DEF Emitted, Inv
<1>2. CASE Controls(h)
  <2>1. run.status = NoStatus
    BY <1>2, HostFacts DEF Inv, LeaseOK, Controls
  <2>2. run.bound
    BY HostFacts DEF Inv, HostOK, InControl
  <2>3. Live(run)
    BY <2>1, <2>2, RunFacts DEF Inv, Terminal
  <2>4. run' = Apply(run, LoopEvent(kind, round), dep.budget)
    BY <1>2 DEF Emitted
  <2>5. Alike(run', run)
    BY <2>3, <2>4, ApplyLoop
  <2> QED
    BY <2>5, LoopTouched DEF Inv, Alike
<1> QED
  BY <1>1, <1>2

LEMMA StartActionKeeps ==
  ASSUME Inv, NEW h \in Hosts, StartAction(h)
  PROVE  Inv'
<1> DEFINE y == hosts[h]
           x == Gone(y, "execute")
<1>1. /\ y.pc = "action" /\ y \in HostStates /\ y.stage = "none" /\ Loaded(y) /\ ~y.holds
      /\ y.plan \in ToSet(run.plan_ids) /\ (y.phase = "completed" \/ y.status = "completed" => SomeCompleted(plans))
  BY LoopHost DEF Inv, StartAction, At, LoopPcs, StepPcs
<1>2. y.round \in Nat
  BY <1>1 DEF HostStates
<1>3. /\ InvAt(dep, run', plans, conv, controller, uncertain, hosts, spent)
      /\ run'.plan_ids = run.plan_ids
  BY <1>1, <1>2, EmittedTouched DEF StartAction
<1>4. "execute" \in Pcs
  BY DEF Pcs, LoopPcs
<1>5. x \in HostStates /\ x.pc = "execute" /\ SameRest(x, y) /\ x.stage = y.stage
  BY <1>1, <1>4, GoFacts
<1>6. hosts' = [hosts EXCEPT ![h] = x]
  BY DEF StartAction, Go, Local, Gone
<1> HIDE DEF x
<1>7. LoadedFits(x, run', plans) /\ SameOwner(x, y)
  BY <1>1, <1>3, <1>5 DEF LoadedFits, Loaded, OnPlan, Answering, HasTicket, LoopPcs, StepPcs, AnswerPcs, StagePcs,
                          SameRest, SameOwner
<1>8. InvAt(dep, run', plans, conv, controller, uncertain, [hosts EXCEPT ![h] = x], spent)
  BY <1>1, <1>3, <1>7, LoadedStep
<1> QED
  BY <1>6, <1>8 DEF Inv, StartAction, env

\* The locals when the executor returns: with the phase it reports.
Reported(y, phase) == [y EXCEPT !.pc = "validate", !.phase = phase, !.holds = FALSE]

LEMMA ReportedIn ==
  ASSUME NEW y \in HostStates, NEW phase \in Deliverable
  PROVE  Reported(y, phase) \in HostStates
<1>1. "validate" \in Pcs
  BY DEF Pcs, LoopPcs
<1> QED
  BY <1>1 DEF HostStates, Reported

LEMMA ReportedRest ==
  ASSUME NEW y \in HostStates, NEW phase \in Deliverable
  PROVE  LET x == Reported(y, phase)
         IN /\ x.pc = "validate" /\ x.phase = phase /\ x.holds = FALSE /\ SameOwner(x, y)
            /\ x.stage = y.stage /\ x.plan = y.plan /\ x.status = y.status
  BY DEF HostStates, SameOwner, Reported

LEMMA ReportedFits ==
  ASSUME NEW x \in HostStates, NEW r, NEW ps, x.pc = "validate", x.stage = "none", x.holds = FALSE,
         x.plan \in ToSet(r.plan_ids), x.phase = "completed" \/ x.status = "completed" => SomeCompleted(ps)
  PROVE  LoadedFits(x, r, ps)
  BY DEF LoadedFits, Loaded, OnPlan, Answering, HasTicket, LoopPcs, StepPcs, AnswerPcs, StagePcs

\* The locals without the Plan's lease.
Idled(y) == [y EXCEPT !.holds = FALSE]

LEMMA IdledFacts ==
  ASSUME NEW y \in HostStates, NEW x, x = Idled(y)
  PROVE  /\ x \in HostStates /\ x.pc = y.pc /\ x.stage = y.stage /\ x.status = y.status /\ x.phase = y.phase
         /\ x.holds = FALSE /\ SameOwner(x, y) /\ x.plan = y.plan
<1>1. x \in HostStates
  BY DEF HostStates, Idled
<1>2. /\ x.pc = y.pc /\ x.stage = y.stage /\ x.status = y.status /\ x.phase = y.phase
      /\ x.holds = FALSE /\ SameOwner(x, y) /\ x.plan = y.plan
  BY DEF HostStates, SameOwner, Idled
<1> QED
  BY <1>1, <1>2

LEMMA ActionFailsKeeps ==
  ASSUME Inv, NEW h \in Hosts, hosts[h].pc \in LoopPcs, ActionFails(h), UNCHANGED spent
  PROVE  Inv'
<1> DEFINE y == hosts[h]
           z == IF Unsafe(y.plan) THEN Concluded(h, "manual_intervention") ELSE Gone(y, "validate")
           x == Idled(z)
           hs == [hosts EXCEPT ![h] = x]
<1>1. /\ y \in HostStates /\ y.stage = "none" /\ Loaded(y)
      /\ y.plan \in ToSet(run.plan_ids) /\ (y.phase = "completed" \/ y.status = "completed" => SomeCompleted(plans))
  BY LoopHost DEF Inv
<1>2. hosts' = hs
  BY DEF ActionFails, Local, Idled, Gone
<1>3. z \in HostStates /\ SameOwner(z, y) /\ z.plan = y.plan
      /\ \/ z.pc = "reserve" /\ z.stage = "synthesizer" /\ z.status = "manual_intervention" /\ z.phase = "failed"
         \/ z.pc = "validate" /\ z.stage = "none" /\ z.status = y.status /\ z.phase = y.phase
  <2>1. CASE Unsafe(y.plan)
    <3>1. z = Concluded(h, "manual_intervention") /\ "manual_intervention" \in Deliverable
      BY <2>1 DEF Deliverable
    <3> HIDE DEF z
    <3> QED
      BY <1>1, <3>1, ConcludedFacts
  <2>2. CASE ~Unsafe(y.plan)
    <3>1. z = Gone(y, "validate") /\ "validate" \in Pcs
      BY <2>2 DEF Pcs, LoopPcs
    <3> HIDE DEF z, y
    <3> QED
      BY <1>1, <3>1, GoFacts DEF SameRest, SameOwner
  <2> QED
    BY <2>1, <2>2
<1> HIDE DEF z
<1>4. /\ x \in HostStates /\ x.pc = z.pc /\ x.stage = z.stage /\ x.status = z.status /\ x.phase = z.phase
      /\ x.holds = FALSE /\ SameOwner(x, z) /\ x.plan = z.plan
  BY <1>3, IdledFacts
<1> HIDE DEF x
<1>5. LoadedFits(x, run, plans) /\ SameOwner(x, y)
  <2>1. CASE z.pc = "reserve"
    <3>1. x.pc = "reserve" /\ x.stage = "synthesizer" /\ ~x.holds /\ x.status \in Deliverable /\ x.phase = "failed"
          /\ x.status # "completed"
      BY <1>3, <1>4, <2>1 DEF Deliverable
    <3> QED
      BY <1>3, <1>4, <3>1, ConcludedFits DEF SameOwner
  <2>2. CASE z.pc = "validate"
    BY <1>1, <1>3, <1>4, <2>2, ReportedFits DEF SameOwner
  <2> QED
    BY <1>3, <2>1, <2>2
<1>6. InvAt(dep, run, plans, conv, controller, uncertain, hs, spent)
  BY <1>1, <1>5, LoadedStep DEF Inv
<1> HIDE DEF hs
<1>7. Freed(plans', plans)
  <2>1. plans \in Seq(PlanStates) /\ (hosts[h].holds => hosts[h].plan \in DOMAIN plans)
    BY LoopHost, RunFacts DEF Inv
  <2> QED
    BY <2>1, ReleaseFacts DEF ActionFails
<1>8. InvAt(dep, run, plans', conv, controller, uncertain, hs, spent)
  BY <1>6, <1>7, FreedTouched
<1> QED
  BY <1>2, <1>8 DEF Inv, ActionFails, env

LEMMA ActionErrorKeeps ==
  ASSUME Inv, NEW h \in Hosts, ExecuteConflicts(h) \/ ReserveStepFails(h) \/ StepLosesLease(h)
  PROVE  Inv'
<1>1. hosts[h].pc \in LoopPcs /\ ActionFails(h) /\ UNCHANGED spent
  BY DEF ExecuteConflicts, ReserveStepFails, StepLosesLease, At, LoopPcs, StepPcs
<1> QED
  BY <1>1, ActionFailsKeeps

LEMMA MovedFacts ==
  ASSUME NEW plan \in PlanStates, NEW phase \in Deliverable, NEW q, q = Moved(plan, phase)
  PROVE  /\ q \in PlanStates /\ q.phase = phase /\ q.unsafe = plan.unsafe /\ q.attempts = plan.attempts
         /\ q.lease = plan.lease
<1>1. q = [plan EXCEPT !.phase = phase, !.generation = @ + 1, !.pending = TRUE]
  BY DEF Moved
<1>2. q \in PlanStates
  <2>1. phase \in {"draft", "pending", "running"} \cup Deliverable /\ plan.generation + 1 \in Nat
    BY DEF PlanStates
  <2> QED
    BY <1>1, <2>1 DEF PlanStates
<1>3. q.phase = phase /\ q.unsafe = plan.unsafe /\ q.attempts = plan.attempts /\ q.lease = plan.lease
  BY <1>1 DEF PlanStates
<1> QED
  BY <1>2, <1>3

LEMMA ExecuteSettledKeeps ==
  ASSUME Inv, NEW h \in Hosts, ExecuteSettled(h)
  PROVE  Inv'
<1> DEFINE y == hosts[h]
           p == y.plan
<1>1. /\ y.pc = "execute" /\ y \in HostStates /\ y.stage = "none" /\ Loaded(y) /\ ~y.holds
      /\ p \in ToSet(run.plan_ids) /\ p \in DOMAIN plans /\ p \in Nat /\ plans[p] \in PlanStates
      /\ PlanOK(p, plans[p], run)
      /\ (y.phase = "completed" \/ y.status = "completed" => SomeCompleted(plans))
  BY LoopHost DEF Inv, ExecuteSettled, At, LoopPcs, StepPcs
<1>2. PICK phase \in Deliverable :
         /\ plans[p].lease = NoHost
         /\ plans' = IF phase = plans[p].phase THEN plans ELSE [plans EXCEPT ![p] = Moved(plans[p], phase)]
         /\ hosts' = [hosts EXCEPT ![h] = [y EXCEPT !.pc = "validate", !.phase = phase, !.holds = FALSE]]
         /\ phase # plans[p].phase => plans[p].phase \in {"running", "pending", "waiting_approval"}
         /\ phase = "waiting_approval" => plans[p].phase \in {"pending", "waiting_approval"}
  <2>1. PICK f \in Settles(p) :
           /\ plans[p].lease = NoHost
           /\ plans' = IF f = plans[p].phase THEN plans ELSE [plans EXCEPT ![p] = Moved(plans[p], f)]
           /\ hosts' = [hosts EXCEPT ![h] = [y EXCEPT !.pc = "validate", !.phase = f, !.holds = FALSE]]
    BY DEF ExecuteSettled, Local, ActionReturns
  <2>2. /\ f \in Deliverable
        /\ f # plans[p].phase => plans[p].phase \in {"running", "pending", "waiting_approval"}
        /\ f = "waiting_approval" => plans[p].phase \in {"pending", "waiting_approval"}
    BY DEF Settles, Deliverable
  <2> QED
    BY <2>1, <2>2
<1> DEFINE q == Moved(plans[p], phase)
           x == Reported(y, phase)
<1>3. phase # "pending" /\ phase # "draft"
  BY <1>2 DEF Deliverable
<1>4. hosts' = [hosts EXCEPT ![h] = x]
  BY <1>2 DEF Reported
<1>5. /\ q \in PlanStates /\ q.phase = phase /\ q.unsafe = plans[p].unsafe /\ q.attempts = plans[p].attempts
      /\ q.lease = plans[p].lease
  BY <1>1, MovedFacts
<1>6. /\ x \in HostStates /\ x.pc = "validate" /\ x.phase = phase /\ x.holds = FALSE /\ SameOwner(x, y)
      /\ x.stage = y.stage /\ x.plan = y.plan /\ x.status = y.status
  <2>1. y \in HostStates /\ phase \in Deliverable /\ x = Reported(y, phase)
    BY <1>1
  <2>2. x \in HostStates
    <3>1. "validate" \in Pcs
      BY DEF Pcs, LoopPcs
    <3> HIDE DEF y
    <3> QED
      BY ONLY <2>1, <3>1 DEF HostStates, Reported
  <2>3. x.pc = "validate" /\ x.phase = phase /\ x.holds = FALSE
    BY <2>1 DEF HostStates, Reported
  <2>4. SameOwner(x, y) /\ x.stage = y.stage /\ x.plan = y.plan /\ x.status = y.status
    BY <2>1 DEF HostStates, SameOwner, Reported
  <2> HIDE DEF y, x
  <2> QED
    BY <2>2, <2>3, <2>4
<1> HIDE DEF x, q
<1>7. /\ InvAt(dep, run, plans', conv, controller, uncertain, hosts, spent)
      /\ p \in DOMAIN plans' /\ plans'[p].phase = phase /\ (SomeCompleted(plans) => SomeCompleted(plans'))
  <2>1. CASE phase = plans[p].phase
    BY <1>1, <1>2, <2>1 DEF Inv
  <2>2. CASE phase # plans[p].phase
    <3>1. plans' = [plans EXCEPT ![p] = q]
      BY <1>2, <2>2 DEF q
    <3>2. q.unsafe /\ q.phase \in {"pending", "waiting_approval"} => q.attempts = 0
      BY <1>1, <1>2, <1>3, <1>5 DEF PlanOK
    <3>3. \A g \in Hosts : ~(hosts[g].holds /\ hosts[g].plan = p /\ q.lease = g)
      BY <1>2, <1>5, AutonomousAssumption
    <3>4. /\ q.phase # "draft" /\ (plans[p].phase = "completed" => q.phase = "completed")
      BY <1>2, <1>3, <1>5, <2>2
    <3>5. InvAt(dep, run, [plans EXCEPT ![p] = q], conv, controller, uncertain, hosts, spent)
      <4> HIDE DEF p
      <4> QED
        BY <1>1, <1>5, <3>2, <3>3, <3>4, PlanMoved DEF Inv
    <3>6. DOMAIN plans' = DOMAIN plans /\ plans'[p] = q /\ \A i \in DOMAIN plans : i # p => plans'[i] = plans[i]
      BY <1>1, <3>1
    <3>7. SomeCompleted(plans) => SomeCompleted(plans')
      BY <1>2, <2>2, <3>6 DEF SomeCompleted
    <3> QED
      BY <1>1, <1>5, <3>1, <3>5, <3>6, <3>7
  <2> QED
    BY <2>1, <2>2
<1>8. phase = "completed" => SomeCompleted(plans')
  BY <1>7 DEF SomeCompleted
<1>9. LoadedFits(x, run, plans')
  BY <1>1, <1>6, <1>7, <1>8, ReportedFits
<1>10. InvAt(dep, run, plans', conv, controller, uncertain, [hosts EXCEPT ![h] = x], spent)
  BY <1>1, <1>6, <1>7, <1>9, LoadedStep
<1> QED
  BY <1>4, <1>10 DEF Inv, ExecuteSettled, env

\* A Host at a step of its Plan.
LEMMA StepOK ==
  ASSUME NEW x \in HostStates, NEW r, NEW ps, NEW mode, x.pc \in StepPcs, x.stage = "none",
         x.plan \in ToSet(r.plan_ids), r.bound, x.via = "prompt" => r.exists /\ mode = "prompt",
         x.phase = "completed" \/ x.status = "completed" => SomeCompleted(ps)
  PROVE  HostShape(x) /\ HostOK(x, r, ps, mode) /\ ~HasTicket(x) /\ x.pc # "register" /\ Loaded(x)
<1>1. /\ ~InAdmission(x) /\ OnPlan(x) /\ ~Answering(x) /\ Loaded(x) /\ ~HasTicket(x)
      /\ x.pc \notin {"router", "bootstrap", "register", "registered", "segment", "finalize", "project"}
      /\ x.stage # "router" /\ x.pc \notin StagePcs
  BY DEF InAdmission, OnPlan, Answering, Loaded, HasTicket, LoopPcs, StepPcs, AnswerPcs, StagePcs
<1>2. HostShape(x)
  BY <1>1 DEF HostShape
<1>3. HostOK(x, r, ps, mode)
  BY <1>1 DEF HostOK
<1> QED
  BY <1>1, <1>2, <1>3

LEMMA ExecutePlanKeeps ==
  ASSUME Inv, NEW h \in Hosts, ExecutePlan(h)
  PROVE  Inv'
<1> DEFINE y == hosts[h]
           p == y.plan
           q == [plans[p] EXCEPT !.lease = h]
           x == [y EXCEPT !.pc = "step_reserve", !.holds = TRUE]
<1>1. /\ y.pc = "execute" /\ y \in HostStates /\ y.stage = "none" /\ Loaded(y) /\ ~y.holds /\ run.bound
      /\ p \in ToSet(run.plan_ids) /\ p \in DOMAIN plans /\ p \in Nat /\ plans[p] \in PlanStates
      /\ (y.phase = "completed" \/ y.status = "completed" => SomeCompleted(plans))
  BY LoopHost DEF Inv, ExecutePlan, At, LoopPcs, StepPcs
<1>2. /\ plans' = [plans EXCEPT ![p].lease = h]
      /\ plans[p].phase \in {"pending", "waiting_approval", "running"}
      /\ plans[p].unsafe => plans[p].phase # "running"
      /\ hosts' = [hosts EXCEPT ![h] = x]
  BY DEF ExecutePlan, Unsafe, Local
<1>3. q \in PlanStates /\ q.unsafe = plans[p].unsafe /\ q.phase = plans[p].phase /\ q.attempts = plans[p].attempts
      /\ q.lease = h
  BY <1>1 DEF PlanStates
<1>4. plans \in Seq(PlanStates) /\ (\A i \in DOMAIN plans : plans[i] \in PlanStates)
  BY RunFacts DEF Inv
<1>5. plans' = [plans EXCEPT ![p] = q]
  BY <1>2
<1> HIDE DEF q
<1>6. /\ plans' \in Seq(PlanStates) /\ DOMAIN plans' = DOMAIN plans
      /\ plans'[p] = q /\ \A i \in DOMAIN plans : i # p => plans'[i] = plans[i]
  BY <1>1, <1>3, <1>4, <1>5
<1>7. \A i \in DOMAIN plans : PlanTouched(plans'[i], plans[i], hosts)
  BY <1>1, <1>3, <1>4, <1>6 DEF PlanTouched
<1>8. InvAt(dep, run, plans', conv, controller, uncertain, hosts, spent)
  BY <1>6, <1>7, PlansTouched DEF Inv
<1>9. x \in HostStates
  BY <1>1 DEF HostStates, Pcs, LoopPcs, StepPcs
<1>10. /\ x.pc = "step_reserve" /\ x.holds = TRUE /\ SameOwner(x, y) /\ x.plan = p
       /\ x.stage = y.stage /\ x.phase = y.phase /\ x.status = y.status
  BY <1>1 DEF HostStates, SameOwner
<1> HIDE DEF x
<1>11. HostOK(y, run, plans', dep.mode) /\ LeaseOK(h, y, run, plans', controller, uncertain)
  BY <1>8, HostFacts
<1>12. HostShape(x) /\ HostOK(x, run, plans', dep.mode) /\ ~HasTicket(x) /\ x.pc # "register" /\ Loaded(x)
  <2>1. /\ y.via = "prompt" => run.exists /\ dep.mode = "prompt"
        /\ y.phase = "completed" \/ y.status = "completed" => SomeCompleted(plans')
    BY ONLY <1>11 DEF HostOK
  <2>2. x.pc \in StepPcs /\ x.via = y.via
    BY <1>10 DEF SameOwner, StepPcs
  <2> QED
    BY <1>1, <1>9, <1>10, <2>1, <2>2, StepOK
<1>13. LeaseOK(h, x, run, plans', controller, uncertain)
  BY <1>1, <1>2, <1>3, <1>6, <1>10, <1>11 DEF LeaseOK, PlanHeld, SameOwner
<1>14. \A g \in Hosts \ {h} : ~(x.via = "prompt" /\ hosts[g].via = "prompt")
  BY <1>10 DEF Inv, InvAt, ApartsOK, ApartOK, SameOwner
<1>15. InvAt(dep, run, plans', conv, controller, uncertain, [hosts EXCEPT ![h] = x], spent)
  BY <1>8, <1>12, <1>13, <1>14, HostTouched
<1> QED
  BY <1>2, <1>15 DEF Inv, ExecutePlan, env

LEMMA ReserveStepKeeps ==
  ASSUME Inv, NEW h \in Hosts, ReserveStep(h)
  PROVE  Inv'
<1> DEFINE y == hosts[h]
           p == y.plan
           k == plans[p].attempts + 1
           id == <<"step", p, k>>
           amount == Usage("step_attempts", 1)
           x == Gone(y, "step_start")
<1>1. /\ y.pc = "step_reserve" /\ y \in HostStates /\ y.stage = "none" /\ Loaded(y) /\ run.bound
      /\ p \in ToSet(run.plan_ids) /\ p \in DOMAIN plans /\ p \in Nat /\ plans[p] \in PlanStates
      /\ (y.phase = "completed" \/ y.status = "completed" => SomeCompleted(plans))
  BY LoopHost DEF Inv, ReserveStep, At, LoopPcs, StepPcs
<1>2. k \in Nat
  BY <1>1 DEF PlanStates
<1>3. HostOK(y, run, plans, dep.mode) /\ LeaseOK(h, y, run, plans, controller, uncertain)
  BY HostFacts DEF Inv
<1>4. id = AttemptId(h) /\ AttemptAdmitted(h)
  BY DEF AttemptId, ReserveStep
<1>5. /\ InvAt(dep, run', plans, conv, controller, uncertain, hosts, spent)
      /\ id \in Reserved(run') /\ SameHead(run', run)
  <2>1. CASE id \in Reserved(run)
    <3>1. run' = run
      BY <1>4, <2>1 DEF ReserveStep
    <3> QED
      BY <2>1, <3>1 DEF Inv, SameHead, SameAnswer, SameBinding
  <2>2. CASE id \notin Reserved(run)
    <3>1. run.status = NoStatus /\ Remaining(run, dep.budget, "step_attempts") >= 1
      BY <1>4, <2>2 DEF AttemptAdmitted
    <3>2. run' = Apply(run, ResourceReserved(id, amount), dep.budget)
      BY <1>4, <2>2 DEF ReserveStep
    <3>3. Live(run) /\ Funded(run) /\ dep.budget \in [Resources -> Nat]
      BY <1>1, <3>1, RunFacts DEF Inv, Terminal
    <3>4. amount \in [Resources -> Nat] /\ AtMost(Plus(ResourceUsage(run), amount), dep.budget)
      <4>1. "step_attempts" \in Resources /\ AtMost(ResourceUsage(run), dep.budget)
        BY DEF Resources, Inv, InvAt, Reservations
      <4>2. 1 <= Remaining(run, dep.budget, "step_attempts") /\ 1 \in Nat /\ 1 >= 1
        <5>1. ResourceUsage(run)["step_attempts"] \in Nat
          BY <3>3, <4>1, UsageNat
        <5>2. Remaining(run, dep.budget, "step_attempts") \in Int
          BY <3>3, <4>1, <5>1 DEF Remaining
        <5> QED
          BY <3>1, <5>2
      <4> QED
        BY <3>3, <4>1, <4>2, Spare
    <3>5. amount["step_attempts"] = 1
      BY DEF Usage, NoUsage, Resources
    <3> HIDE DEF amount, k
    <3>6. /\ \A i \in Nat : id # <<"steps", i>>
          /\ \A i, j \in Nat : id = <<"step", i, j>> => i \in DOMAIN plans /\ amount["step_attempts"] = 1
      BY <1>1, <3>5
    <3> HIDE DEF id
    <3>7. /\ RunShape(run') /\ SameHead(run', run)
          /\ run'.active = With(run.active, id, amount) /\ run'.settled = run.settled
      BY <2>2, <3>2, <3>3, <3>4, ApplyReserved
    <3>8. Reserved(run') = Reserved(run) \cup {id}
      BY ONLY <3>7 DEF With, Reserved
    <3>9. InvAt(dep, run', plans, conv, controller, uncertain, hosts, spent)
      BY <2>2, <3>4, <3>6, <3>7, ReserveTouched DEF Inv
    <3> QED
      BY <3>7, <3>8, <3>9
  <2> QED
    BY <2>1, <2>2
<1>6. "step_start" \in Pcs
  BY DEF Pcs, LoopPcs, StepPcs
<1>7. x \in HostStates /\ x.pc = "step_start" /\ SameRest(x, y) /\ x.stage = y.stage
  <2>1. x = Gone(y, "step_start")
    OBVIOUS
  <2> HIDE DEF x, y
  <2> QED
    BY <1>1, <1>6, <2>1, GoFacts
<1>8. hosts' = [hosts EXCEPT ![h] = x]
  BY DEF ReserveStep, Go, Local, Gone
<1> HIDE DEF x
<1>9. HostOK(y, run', plans, dep.mode) /\ LeaseOK(h, y, run', plans, controller, uncertain)
  BY <1>5, HostFacts
<1>10. run'.bound /\ x.plan \in ToSet(run'.plan_ids)
  BY <1>1, <1>5, <1>7 DEF SameHead, SameBinding, SameRest
<1>11. HostShape(x) /\ HostOK(x, run', plans, dep.mode) /\ ~HasTicket(x) /\ x.pc # "register" /\ Loaded(x)
  <2>1. x \in HostStates /\ x.pc \in StepPcs /\ x.stage = "none"
    BY <1>1, <1>7 DEF StepPcs
  <2>2. x.via = "prompt" => run'.exists /\ dep.mode = "prompt"
    BY <1>7, <1>9 DEF HostOK, SameRest
  <2>3. x.phase = "completed" \/ x.status = "completed" => SomeCompleted(plans)
    BY <1>1, <1>7 DEF SameRest
  <2> QED
    BY ONLY <1>10, <2>1, <2>2, <2>3, StepOK
<1>12. LeaseOK(h, x, run', plans, controller, uncertain)
  BY <1>1, <1>5, <1>7, <1>9 DEF LeaseOK, PlanHeld, SameRest
<1>13. \A g \in Hosts \ {h} : ~(x.via = "prompt" /\ hosts[g].via = "prompt")
  BY <1>7 DEF Inv, InvAt, ApartsOK, ApartOK, SameRest
<1>14. InvAt(dep, run', plans, conv, controller, uncertain, [hosts EXCEPT ![h] = x], spent)
  BY <1>5, <1>11, <1>12, <1>13, HostTouched
<1> QED
  BY <1>8, <1>14 DEF Inv, ReserveStep, env

LEMMA StartStepKeeps ==
  ASSUME Inv, NEW h \in Hosts, StartStep(h)
  PROVE  Inv'
<1> DEFINE y == hosts[h]
           p == y.plan
           q == [plans[p] EXCEPT !.phase = "running", !.attempts = @ + 1]
           x == [y EXCEPT !.pc = "step_end"]
<1>1. y.pc = "step_start" /\ y.holds /\ plans[p].lease = h
  BY DEF StartStep, At, HoldsPlan
<1>2. plans \in Seq(PlanStates) /\ p \in DOMAIN plans
  BY <1>1, LoopHost, RunFacts DEF Inv, LoopPcs, StepPcs
<1>3. plans' = [plans EXCEPT ![p] = q]
  BY <1>2 DEF StartStep
<1>4. hosts' = [hosts EXCEPT ![h] = x] /\ spent' = [spent EXCEPT !["step_attempts"] = @ + 1]
  BY DEF StartStep, Go, Local
<1>5. InvAt(dep, run, [plans EXCEPT ![p] = q], conv, controller, uncertain, [hosts EXCEPT ![h] = x],
            [spent EXCEPT !["step_attempts"] = @ + 1])
  BY <1>1, StartTouched DEF Inv
<1> QED
  BY <1>3, <1>4, <1>5 DEF Inv, StartStep, env

\* The Plan ends and is released.
Ended(plan, phase) == [Moved(plan, phase) EXCEPT !.lease = NoHost]

LEMMA EndedFacts ==
  ASSUME NEW plan \in PlanStates, NEW phase \in Deliverable, NEW q, q = Ended(plan, phase)
  PROVE  /\ q \in PlanStates /\ q.phase = phase /\ q.unsafe = plan.unsafe /\ q.attempts = plan.attempts
         /\ q.lease = NoHost
<1> DEFINE m == Moved(plan, phase)
<1>1. m \in PlanStates /\ m.phase = phase /\ m.unsafe = plan.unsafe /\ m.attempts = plan.attempts
  BY MovedFacts
<1>2. q = [m EXCEPT !.lease = NoHost]
  BY DEF Ended
<1> HIDE DEF m
<1>3. q \in PlanStates
  BY <1>1, <1>2 DEF PlanStates
<1>4. q.phase = m.phase /\ q.unsafe = m.unsafe /\ q.attempts = m.attempts /\ q.lease = NoHost
  BY <1>1, <1>2 DEF PlanStates
<1> QED
  BY <1>1, <1>3, <1>4

LEMMA EndStepKeeps ==
  ASSUME Inv, NEW h \in Hosts, EndStep(h)
  PROVE  Inv'
<1> DEFINE y == hosts[h]
           p == y.plan
<1>1. /\ y.pc = "step_end" /\ y \in HostStates /\ y.stage = "none" /\ Loaded(y) /\ y.holds
      /\ p \in ToSet(run.plan_ids) /\ p \in DOMAIN plans /\ p \in Nat /\ plans[p] \in PlanStates
      /\ plans[p].lease = h
      /\ (y.phase = "completed" \/ y.status = "completed" => SomeCompleted(plans))
  BY LoopHost DEF Inv, EndStep, At, HoldsPlan, LoopPcs, StepPcs
<1>2. plans[p].phase \in {"pending", "waiting_approval", "running"}
  <2>1. LeaseOK(h, hosts[h], run, plans, controller, uncertain)
    BY HostFacts DEF Inv
  <2>2. PlanHeld(hosts[h], run, plans[p])
    BY ONLY <1>1, <2>1 DEF LeaseOK
  <2> QED
    BY ONLY <2>2 DEF PlanHeld
<1>3. PICK phase \in {"completed", "failed", "manual_intervention"} :
         /\ plans' = [plans EXCEPT ![p] = Unleased(h, Moved(plans[p], phase))]
         /\ hosts' = [hosts EXCEPT ![h] = Reported(y, phase)]
  BY DEF EndStep, Local, ActionReturns, Reported
<1>4. phase \in Deliverable /\ y.phase \in Deliverable
  BY <1>1 DEF Deliverable, HostStates
<1> DEFINE q == Ended(plans[p], phase)
           z == Reported(y, y.phase)
           x == Reported(y, phase)
           hz == [hosts EXCEPT ![h] = z]
           ps == [plans EXCEPT ![p] = q]
<1>5. plans' = ps
  <2>1. Moved(plans[p], phase).lease = h
    BY <1>1, <1>4, MovedFacts
  <2>2. Unleased(h, Moved(plans[p], phase)) = q
    BY <1>1, <2>1 DEF Unleased, Ended
  <2> QED
    BY <1>3, <2>2
<1>6. /\ q \in PlanStates /\ q.phase = phase /\ q.unsafe = plans[p].unsafe /\ q.attempts = plans[p].attempts
      /\ q.lease = NoHost
  BY <1>1, <1>4, EndedFacts
<1>7. /\ z \in HostStates /\ z.pc = "validate" /\ z.phase = y.phase /\ z.holds = FALSE /\ SameOwner(z, y)
      /\ z.stage = y.stage /\ z.plan = y.plan /\ z.status = y.status
  <2>1. y \in HostStates /\ y.phase \in Deliverable
    BY <1>1, <1>4
  <2> HIDE DEF y
  <2> QED
    BY ONLY <2>1, ReportedIn, ReportedRest
<1>8. /\ x \in HostStates /\ x.pc = "validate" /\ x.phase = phase /\ x.holds = FALSE /\ SameOwner(x, y)
      /\ x.stage = y.stage /\ x.plan = y.plan /\ x.status = y.status
  <2>1. y \in HostStates /\ phase \in Deliverable
    BY <1>1, <1>4
  <2> HIDE DEF y
  <2> QED
    BY ONLY <2>1, ReportedIn, ReportedRest
<1> HIDE DEF q, z, x
<1>9. LoadedFits(z, run, plans)
  BY <1>1, <1>7, ReportedFits
<1>10. InvAt(dep, run, plans, conv, controller, uncertain, hz, spent)
  BY <1>1, <1>7, <1>9, LoadedStep DEF Inv
<1>11. hz[h] = z /\ \A g \in Hosts : ~(hz[g].holds /\ hz[g].plan = p /\ q.lease = g)
  BY <1>6, <1>7, HostFacts, AutonomousAssumption DEF Inv
<1>12. InvAt(dep, run, ps, conv, controller, uncertain, hz, spent)
  <2>1. q.phase # "draft" /\ q.phase \notin {"pending", "waiting_approval"} /\ plans[p].phase # "completed"
    BY <1>2, <1>3, <1>6
  <2> HIDE DEF p, hz
  <2> QED
    BY <1>1, <1>6, <1>10, <1>11, <2>1, PlanMoved
<1>13. x.phase = "completed" \/ x.status = "completed" => SomeCompleted(ps)
  <2>1. DOMAIN ps = DOMAIN plans /\ ps[p] = q /\ \A i \in DOMAIN plans : i # p => ps[i] = plans[i]
    BY <1>1
  <2> HIDE DEF ps
  <2>2. SomeCompleted(plans) => SomeCompleted(ps)
    BY <1>2, <2>1 DEF SomeCompleted
  <2>3. phase = "completed" => SomeCompleted(ps)
    BY <1>1, <1>6, <2>1 DEF SomeCompleted
  <2> QED
    BY <1>1, <1>8, <2>2, <2>3
<1> HIDE DEF ps
<1>14. LoadedFits(x, run, ps)
  BY <1>1, <1>8, <1>13, ReportedFits
<1>15. InvAt(dep, run, ps, conv, controller, uncertain, [hz EXCEPT ![h] = x], spent)
  <2>1. Loaded(hz[h]) /\ SameOwner(x, hz[h])
    BY <1>7, <1>8, <1>9, <1>11 DEF LoadedFits, SameOwner
  <2> HIDE DEF hz
  <2> QED
    BY <1>12, <1>14, <2>1, LoadedStep
<1>16. hosts' = [hz EXCEPT ![h] = x]
  BY <1>3, HostFacts DEF Inv, x
<1> QED
  BY <1>5, <1>15, <1>16 DEF Inv, EndStep, env

\* The closed loop goes on to the answer, or to a stage of its own.
LEMMA ConcludeSteps ==
  ASSUME Inv, NEW h \in Hosts, hosts[h].pc \in LoopPcs, hosts[h].pc \notin StepPcs,
         NEW status \in Deliverable, status = "completed" => SomeCompleted(plans)
  PROVE  InvAt(dep, run, plans, conv, controller, uncertain,
               [hosts EXCEPT ![h] = Concluded(h, status)], spent)
<1> DEFINE x == Concluded(h, status)
<1>1. hosts[h] \in HostStates /\ Loaded(hosts[h]) /\ ~hosts[h].holds
  BY LoopHost DEF Inv
<1>2. /\ x \in HostStates /\ x.pc = "reserve" /\ x.stage = "synthesizer" /\ x.status = status
      /\ x.phase = "failed" /\ SameOwner(x, hosts[h]) /\ x.holds = hosts[h].holds
  BY <1>1, ConcludedFacts
<1> HIDE DEF x
<1>3. LoadedFits(x, run, plans)
  BY <1>1, <1>2, ConcludedFits
<1>4. InvAt(dep, run, plans, conv, controller, uncertain, [hosts EXCEPT ![h] = x], spent)
  BY <1>1, <1>2, <1>3, LoadedStep DEF Inv
<1> QED
  BY <1>4 DEF x

LEMMA StageSteps ==
  ASSUME Inv, NEW h \in Hosts, hosts[h].pc \in LoopPcs, hosts[h].pc \notin StepPcs,
         NEW stage \in {"result_validator", "replanner"}
  PROVE  InvAt(dep, run, plans, conv, controller, uncertain,
               [hosts EXCEPT ![h] = Staged(hosts[h], stage)], spent)
<1> DEFINE x == Staged(hosts[h], stage)
<1>1. /\ hosts[h] \in HostStates /\ Loaded(hosts[h]) /\ ~hosts[h].holds
      /\ hosts[h].plan \in ToSet(run.plan_ids)
      /\ (hosts[h].phase = "completed" \/ hosts[h].status = "completed" => SomeCompleted(plans))
  BY LoopHost DEF Inv
<1>2. x \in HostStates /\ x.pc = "reserve" /\ x.stage = stage /\ SameRest(x, hosts[h])
  <2>1. stage \in Stages
    BY DEF Stages, ControllerStages
  <2> QED
    BY <1>1, <2>1, GoStageFacts
<1> HIDE DEF x
<1>3. LoadedFits(x, run, plans)
  BY <1>1, <1>2 DEF LoadedFits, Loaded, OnPlan, Answering, HasTicket, StagePcs, LoopPcs, StepPcs, AnswerPcs, SameRest
<1>4. SameOwner(x, hosts[h])
  BY <1>2 DEF SameOwner, SameRest
<1>5. InvAt(dep, run, plans, conv, controller, uncertain, [hosts EXCEPT ![h] = x], spent)
  BY <1>1, <1>3, <1>4, LoadedStep DEF Inv
<1> QED
  BY <1>5 DEF x

LEMMA GiveUpFacts ==
  ASSUME NEW h
  PROVE  GiveUp(h) \in Deliverable /\ GiveUp(h) # "completed"
  BY DEF GiveUp, Deliverable

LEMMA ValidateKeeps ==
  ASSUME Inv, NEW h \in Hosts, Validate(h) \/ ResultValidated(h) \/ NoCorrection(h)
  PROVE  Inv'
<1>1. /\ hosts[h].pc \in LoopPcs /\ hosts[h].pc \notin StepPcs
      /\ UNCHANGED <<dep, run, plans, conv, controller, uncertain, spent>>
  BY DEF Validate, ResultValidated, NoCorrection, At, LoopPcs, StepPcs, Unchanged, env
<1>2. /\ hosts[h] \in HostStates /\ (hosts[h].phase = "completed" => SomeCompleted(plans))
  BY <1>1, LoopHost DEF Inv
<1>3. \/ \E status \in Deliverable : /\ status = "completed" => SomeCompleted(plans)
                                     /\ hosts' = [hosts EXCEPT ![h] = Concluded(h, status)]
      \/ \E stage \in {"result_validator", "replanner"} : hosts' = [hosts EXCEPT ![h] = Staged(hosts[h], stage)]
  <2>1. CASE Validate(h)
    BY <2>1 DEF Validate, Conclude, Local, GoStage, Staged, Deliverable
  <2>2. CASE ResultValidated(h)
    <3>1. \A s \in {"completed", "manual_intervention"} : s \in Deliverable
      BY DEF Deliverable
    <3> QED
      BY <1>2, <2>2, <3>1, GiveUpFacts DEF ResultValidated, Conclude, Local, GoStage, Staged
  <2>3. CASE NoCorrection(h)
    BY <2>3 DEF NoCorrection, Conclude, Local, Deliverable
  <2> QED
    BY <2>1, <2>2, <2>3
<1>4. InvAt(dep, run, plans, conv, controller, uncertain, hosts', spent)
  BY <1>1, <1>3, ConcludeSteps, StageSteps
<1> QED
  BY <1>1, <1>4 DEF Inv

LEMMA ReserveCorrectionKeeps ==
  ASSUME Inv, NEW h \in Hosts, ReserveCorrection(h)
  PROVE  Inv'
<1> DEFINE y == hosts[h]
           n == Len(plans) + 1
           x == [y EXCEPT !.pc = "register", !.draft = n]
<1>1. /\ y \in HostStates /\ y.stage = "none" /\ Loaded(y) /\ ~y.holds /\ run.bound
      /\ y.plan \in ToSet(run.plan_ids) /\ y.pc = "replanner"
      /\ (y.phase = "completed" \/ y.status = "completed" => SomeCompleted(plans))
  BY LoopHost DEF Inv, ReserveCorrection, At, LoopPcs, StepPcs
<1>2. hosts' = [hosts EXCEPT ![h] = x]
  BY DEF ReserveCorrection, Local
<1>3. /\ InvAt(dep, run', plans', conv, controller, uncertain, hosts, spent)
      /\ SameHead(run', run)
      /\ n \in DOMAIN plans' /\ n \notin DOMAIN plans /\ n \in Nat
  <2>1. PICK w \in dep.unsafe : plans' = Append(plans, Draft(w))
    BY DEF ReserveCorrection
  <2>2. run.exists
    BY <1>1, RunFacts DEF Inv
  <2> QED
    BY <2>1, <2>2, StepsReserved DEF ReserveCorrection
<1>4. x \in HostStates
  <2>1. "register" \in Pcs
    BY DEF Pcs, LoopPcs
  <2> HIDE DEF y, n
  <2> QED
    BY <1>1, <1>3, <2>1 DEF HostStates
<1>5. /\ x.pc = "register" /\ x.draft = n /\ SameOwner(x, y) /\ x.stage = y.stage /\ x.holds = y.holds
      /\ x.plan = y.plan /\ x.phase = y.phase /\ x.status = y.status
  <2> HIDE DEF y, n
  <2> QED
    BY <1>1 DEF HostStates, SameOwner
<1>6. SomeCompleted(plans) => SomeCompleted(plans')
  <2>1. PICK w \in dep.unsafe : plans' = Append(plans, Draft(w))
    BY DEF ReserveCorrection
  <2>2. plans \in Seq(PlanStates)
    BY RunFacts DEF Inv
  <2>3. \A p \in DOMAIN plans : p \in DOMAIN plans' /\ plans'[p] = plans[p]
    BY <2>1, <2>2
  <2> QED
    BY <2>3 DEF SomeCompleted
<1>7. ToSet(run.plan_ids) \subseteq DOMAIN plans /\ run'.plan_ids = run.plan_ids /\ run'.bound /\ run'.status = run.status
  BY <1>1, <1>3, RunFacts DEF Inv, SameHead, SameBinding, SameAnswer
<1> HIDE DEF x
<1>8. HostShape(x)
  BY <1>1, <1>4, <1>5 DEF HostShape, Loaded, OnPlan, LoopPcs, StepPcs, StagePcs, SameOwner
<1>9. HostOK(x, run', plans', dep.mode)
  <2>1. x.via = "prompt" => run'.exists /\ dep.mode = "prompt"
    <3>1. HostOK(y, run', plans', dep.mode)
      BY <1>3, HostFacts
    <3> QED
      BY ONLY <1>5, <3>1 DEF HostOK, SameOwner
  <2>2. x.draft \in DOMAIN plans' /\ x.draft \notin ToSet(run'.plan_ids)
    BY <1>3, <1>5, <1>7
  <2>3. x.plan \in ToSet(run'.plan_ids) /\ (x.phase = "completed" \/ x.status = "completed" => SomeCompleted(plans'))
    BY <1>1, <1>5, <1>6, <1>7
  <2>4. x.pc = "register" /\ x.stage = "none"
    BY <1>1, <1>5
  <2> QED
    BY ONLY <1>7, <2>1, <2>2, <2>3, <2>4 DEF HostOK, InAdmission, InControl, Loaded, OnPlan, Answering, HasTicket, AnswerPcs, LoopPcs, StepPcs
<1>10. LeaseOK(h, x, run', plans', controller, uncertain)
  <2>1. LeaseOK(h, y, run', plans', controller, uncertain)
    BY <1>3, HostFacts
  <2>2. y.pc \notin {"down", "inspect", "recover", "blocked"} /\ ~x.holds
    BY <1>1, <1>5
  <2> HIDE DEF y
  <2> QED
    BY ONLY <1>1, <1>5, <2>1, <2>2 DEF LeaseOK, SameOwner
<1>11. \A g \in Hosts \ {h} : /\ ~(x.via = "prompt" /\ hosts[g].via = "prompt")
                              /\ x.pc = "register" /\ hosts[g].pc = "register" => x.draft # hosts[g].draft
  <2> SUFFICES ASSUME NEW g \in Hosts, g # h
               PROVE  /\ ~(x.via = "prompt" /\ hosts[g].via = "prompt")
                      /\ hosts[g].pc = "register" => x.draft # hosts[g].draft
    OBVIOUS
  <2>1. HostOK(hosts[g], run, plans, dep.mode)
    BY HostFacts DEF Inv
  <2>2. hosts[g].pc = "register" => hosts[g].draft \in DOMAIN plans
    BY ONLY <2>1 DEF HostOK
  <2>3. ApartOK(y, hosts[g])
    BY DEF Inv, InvAt, ApartsOK
  <2>4. ~(y.via = "prompt" /\ hosts[g].via = "prompt")
    BY ONLY <2>3 DEF ApartOK
  <2> QED
    BY <1>3, <1>5, <2>2, <2>4 DEF SameOwner
<1>12. ~HasTicket(x)
  BY <1>5 DEF HasTicket
<1>13. InvAt(dep, run', plans', conv, controller, uncertain, [hosts EXCEPT ![h] = x], spent)
  BY <1>3, <1>8, <1>9, <1>10, <1>11, <1>12, HostTouched
<1> QED
  BY <1>2, <1>13 DEF Inv, ReserveCorrection, Unchanged, env

\* The Run with one more Plan.
Grown(r2, r, p) ==
    /\ RunShape(r2) /\ r2.exists = r.exists /\ r2.closed = r.closed
    /\ SameFunds(r2, r) /\ SameAnswer(r2, r)
    /\ r2.bound = r.bound /\ r2.linked = r.linked /\ r2.dispatchable = r.dispatchable
    /\ ToSet(r2.plan_ids) = ToSet(r.plan_ids) \cup {p}

LEMMA ApplyGrown ==
  ASSUME NEW r, Live(r), NEW b, NEW p \in Nat, p \notin ToSet(r.plan_ids),
         NEW r2, r2 = Apply(r, PlanRegistered(p), b)
  PROVE  Grown(r2, r, p)
  BY ApplyRegistered DEF Grown

LEMMA RegisterCorrectionKeeps ==
  ASSUME Inv, NEW h \in Hosts, RegisterCorrection(h)
  PROVE  Inv'
<1> DEFINE y == hosts[h]
           p == y.draft
<1>1. /\ y \in HostStates /\ y.stage = "none" /\ Loaded(y) /\ ~y.holds /\ run.bound
      /\ y.plan \in ToSet(run.plan_ids) /\ y.pc = "register" /\ y.pc \in LoopPcs /\ y.pc \notin StepPcs
      /\ (y.phase = "completed" \/ y.status = "completed" => SomeCompleted(plans))
  BY LoopHost DEF Inv, RegisterCorrection, At, LoopPcs, StepPcs
<1>2. p \in DOMAIN plans /\ p \notin ToSet(run.plan_ids) /\ p \in Nat
  <2>1. HostOK(hosts[h], run, plans, dep.mode)
    BY HostFacts DEF Inv
  <2>2. p \in DOMAIN plans /\ p \notin ToSet(run.plan_ids)
    BY ONLY <1>1, <2>1 DEF HostOK
  <2> QED
    BY <2>2, RunFacts DEF Inv
<1>3. CASE ~(Controls(h) /\ run.dispatchable)
  <2>1. UNCHANGED <<run, plans>> /\ hosts' = [hosts EXCEPT ![h] = Concluded(h, "failed")]
    BY <1>3 DEF RegisterCorrection, Conclude, Local
  <2>2. "failed" \in Deliverable
    BY DEF Deliverable
  <2>3. InvAt(dep, run, plans, conv, controller, uncertain, hosts', spent)
    BY <1>1, <2>1, <2>2, ConcludeSteps
  <2> QED
    BY <2>1, <2>3 DEF Inv, RegisterCorrection, Unchanged, env
<1>4. CASE Controls(h) /\ run.dispatchable
  <2> DEFINE z == Gone(y, "validate")
             x == Gone(y, "registered")
             hz == [hosts EXCEPT ![h] = z]
  <2>1. /\ plans' = [plans EXCEPT ![p].phase = "pending"] /\ run' = Apply(run, PlanRegistered(p), dep.budget)
        /\ hosts' = [hosts EXCEPT ![h] = x]
    BY <1>4 DEF RegisterCorrection, Append1, Go, Local, Gone
  <2>2. z \in HostStates /\ z.pc = "validate" /\ SameRest(z, y) /\ z.stage = y.stage
    <3>1. "validate" \in Pcs
      BY DEF Pcs, LoopPcs
    <3> QED
      BY <1>1, <3>1, GoFacts
  <2>3. x \in HostStates /\ x.pc = "registered" /\ SameRest(x, y) /\ x.stage = y.stage
    <3>1. "registered" \in Pcs
      BY DEF Pcs, LoopPcs
    <3> QED
      BY <1>1, <3>1, GoFacts
  <2> HIDE DEF z, x
  <2>4. LoadedFits(z, run, plans) /\ SameOwner(z, y)
    <3>1. z.holds = FALSE /\ z.plan = y.plan /\ z.phase = y.phase /\ z.status = y.status
      BY <1>1, <2>2 DEF SameRest, HostStates
    <3> QED
      BY <1>1, <2>2, <3>1, ReportedFits DEF SameRest, SameOwner
  <2>5. InvAt(dep, run, plans, conv, controller, uncertain, hz, spent)
    BY <1>1, <2>4, LoadedStep DEF Inv
  <2>6. Live(run) /\ run.exists /\ ~run.closed
    <3>1. LeaseOK(h, hosts[h], run, plans, controller, uncertain)
      BY HostFacts DEF Inv
    <3>2. run.status = NoStatus
      BY ONLY <1>1, <1>4, <3>1 DEF LeaseOK, Controls
    <3> QED
      BY <1>1, <3>2, RunFacts DEF Inv, Terminal
  <2>7. /\ RunShape(run') /\ run'.exists = run.exists /\ run'.closed = run.closed
        /\ SameFunds(run', run) /\ SameAnswer(run', run)
        /\ run'.bound = run.bound /\ run'.linked = run.linked /\ run'.dispatchable = run.dispatchable
        /\ ToSet(run'.plan_ids) = ToSet(run.plan_ids) \cup {p}
    <3>1. run' = Apply(run, PlanRegistered(p), dep.budget)
      BY <2>1
    <3> HIDE DEF p
    <3>2. Grown(run', run, p)
      BY ONLY <1>2, <2>6, <3>1, ApplyGrown
    <3> QED
      BY ONLY <3>2 DEF Grown
  <2>8. run.linked /\ run.dispatchable /\ ConvOK(conv, run')
    <3>1. LedgerOK(run, conv, plans)
      BY RunFacts DEF Inv
    <3>2. run.linked /\ run.dispatchable /\ ConvOK(conv, run)
      BY <1>1, <3>1 DEF LedgerOK, ConvOK, RunShape
    <3> QED
      BY <2>7, <3>2 DEF ConvOK, SameAnswer
  <2>9. \A g \in Hosts : ~(hz[g].pc = "register" /\ hz[g].draft = p)
    <3> SUFFICES ASSUME NEW g \in Hosts PROVE ~(hz[g].pc = "register" /\ hz[g].draft = p)
      OBVIOUS
    <3>1. CASE g = h
      BY <2>2, <3>1, HostFacts DEF Inv
    <3>2. CASE g # h
      <4>1. hz[g] = hosts[g]
        BY <3>2, HostFacts DEF Inv
      <4>2. ApartOK(hosts[h], hosts[g])
        BY <3>2 DEF Inv, InvAt, ApartsOK
      <4> QED
        BY ONLY <1>1, <4>1, <4>2 DEF ApartOK
    <3> QED
      BY <3>1, <3>2
  <2>10. hz[h] = z
    BY HostFacts DEF Inv
  <2>11. InvAt(dep, run', plans', conv, controller, uncertain, hz, spent)
    <3>1. run'.exists /\ ~run'.closed /\ run'.bound /\ run'.linked /\ run'.dispatchable
      BY <1>1, <2>6, <2>7, <2>8
    <3> HIDE DEF hz, p
    <3>2. InvAt(dep, run', [plans EXCEPT ![p].phase = "pending"], conv, controller, uncertain, hz, spent)
      BY <1>2, <2>5, <2>6, <2>7, <2>8, <2>9, <3>1, PlanPublished
    <3> QED
      BY <2>1, <3>2
  <2>12. LoadedFits(x, run', plans') /\ SameOwner(x, z)
    <3>1. HostOK(z, run', plans', dep.mode)
      BY <2>10, <2>11, HostFacts
    <3>2. z.phase = "completed" \/ z.status = "completed" => SomeCompleted(plans')
      BY ONLY <3>1 DEF HostOK
    <3>3. /\ x.phase = z.phase /\ x.status = z.status /\ x.draft \in ToSet(run'.plan_ids)
          /\ x.plan \in ToSet(run'.plan_ids) /\ ~x.holds /\ SameOwner(x, z) /\ x.stage = "none"
      BY <1>1, <2>2, <2>3, <2>7 DEF SameRest, SameOwner
    <3> QED
      BY ONLY <2>3, <3>2, <3>3 DEF LoadedFits, Loaded, OnPlan, Answering, HasTicket, LoopPcs, StepPcs, AnswerPcs, StagePcs
  <2>13. InvAt(dep, run', plans', conv, controller, uncertain, [hz EXCEPT ![h] = x], spent)
    <3>1. Loaded(hz[h]) /\ SameOwner(x, hz[h])
      BY <2>4, <2>10, <2>12 DEF LoadedFits
    <3> HIDE DEF hz
    <3> QED
      BY <2>11, <2>12, <3>1, LoadedStep
  <2>14. hosts' = [hz EXCEPT ![h] = x]
    BY <2>1, HostFacts DEF Inv
  <2> QED
    BY <2>13, <2>14 DEF Inv, RegisterCorrection, Unchanged, env
<1> QED
  BY <1>3, <1>4

\* The Host goes on with the Plan it registered.
Corrected(y) == [y EXCEPT !.pc = "action", !.round = @ + 1, !.plan = y.draft, !.draft = 0]

LEMMA CorrectedFacts ==
  ASSUME NEW y \in HostStates, NEW x, x = Corrected(y)
  PROVE  /\ x \in HostStates /\ x.pc = "action" /\ x.plan = y.draft /\ x.stage = y.stage /\ x.holds = y.holds
         /\ SameOwner(x, y) /\ x.phase = y.phase /\ x.status = y.status
<1>1. x \in HostStates
  <2> DEFINE z == [y EXCEPT !.pc = "action", !.round = @ + 1]
  <2>1. "action" \in Pcs /\ y.round + 1 \in Nat /\ y.draft \in Nat
    BY DEF Pcs, LoopPcs, HostStates
  <2>2. z \in HostStates
    BY <2>1 DEF HostStates
  <2> DEFINE w == [z EXCEPT !.plan = y.draft]
  <2>3. x = [w EXCEPT !.draft = 0]
    BY DEF Corrected
  <2> HIDE DEF z
  <2>4. w \in HostStates
    BY <2>1, <2>2 DEF HostStates
  <2> HIDE DEF w
  <2>5. 0 \in Nat
    OBVIOUS
  <2>6. [w EXCEPT !.draft = 0] \in HostStates
    BY ONLY <2>4, <2>5 DEF HostStates
  <2> QED
    BY ONLY <2>3, <2>6
<1>2. /\ x.pc = "action" /\ x.plan = y.draft /\ x.stage = y.stage /\ x.holds = y.holds
      /\ SameOwner(x, y) /\ x.phase = y.phase /\ x.status = y.status
  BY DEF HostStates, SameOwner, Corrected
<1> QED
  BY <1>1, <1>2

LEMMA CheckCorrectionKeeps ==
  ASSUME Inv, NEW h \in Hosts, CheckCorrection(h)
  PROVE  Inv'
<1> DEFINE y == hosts[h]
<1>1. /\ y \in HostStates /\ y.stage = "none" /\ Loaded(y) /\ ~y.holds
      /\ y.pc = "registered" /\ y.pc \in LoopPcs /\ y.pc \notin StepPcs
      /\ (y.phase = "completed" \/ y.status = "completed" => SomeCompleted(plans))
  BY LoopHost DEF Inv, CheckCorrection, At, LoopPcs, StepPcs
<1>2. \/ \E status \in {"manual_intervention", "failed"} :
            UNCHANGED run /\ hosts' = [hosts EXCEPT ![h] = Concluded(h, status)]
      \/ Emitted(h, "correction_planned", y.round + 1) /\ hosts' = [hosts EXCEPT ![h] = Corrected(y)]
  BY DEF CheckCorrection, Conclude, Local, Corrected
<1>3. CASE \E status \in {"manual_intervention", "failed"} :
              UNCHANGED run /\ hosts' = [hosts EXCEPT ![h] = Concluded(h, status)]
  <2>1. PICK status \in {"manual_intervention", "failed"} :
           UNCHANGED run /\ hosts' = [hosts EXCEPT ![h] = Concluded(h, status)]
    BY <1>3
  <2>2. status \in Deliverable /\ status # "completed"
    BY DEF Deliverable
  <2>3. InvAt(dep, run, plans, conv, controller, uncertain, hosts', spent)
    BY <1>1, <2>1, <2>2, ConcludeSteps
  <2> QED
    BY <2>1, <2>3 DEF Inv, CheckCorrection, Unchanged, env
<1>4. CASE Emitted(h, "correction_planned", y.round + 1) /\ hosts' = [hosts EXCEPT ![h] = Corrected(y)]
  <2> DEFINE x == Corrected(y)
  <2>1. y.round + 1 \in Nat
    BY <1>1 DEF HostStates
  <2>2. /\ InvAt(dep, run', plans, conv, controller, uncertain, hosts, spent)
        /\ run'.plan_ids = run.plan_ids
    BY <1>1, <1>4, <2>1, EmittedTouched
  <2>3. y.draft \in ToSet(run.plan_ids)
    <3>1. HostOK(y, run, plans, dep.mode)
      BY HostFacts DEF Inv
    <3> QED
      BY ONLY <1>1, <3>1 DEF HostOK
  <2>4. /\ x \in HostStates /\ x.pc = "action" /\ x.plan = y.draft /\ x.stage = y.stage /\ x.holds = y.holds
        /\ SameOwner(x, y) /\ x.phase = y.phase /\ x.status = y.status
    BY <1>1, CorrectedFacts
  <2>5. hosts' = [hosts EXCEPT ![h] = x]
    BY <1>4
  <2> HIDE DEF x
  <2>6. LoadedFits(x, run', plans)
    BY <1>1, <2>2, <2>3, <2>4 DEF LoadedFits, Loaded, OnPlan, Answering, HasTicket, LoopPcs, StepPcs, AnswerPcs, StagePcs
  <2>7. InvAt(dep, run', plans, conv, controller, uncertain, [hosts EXCEPT ![h] = x], spent)
    BY <1>1, <2>2, <2>4, <2>6, LoadedStep
  <2> QED
    BY <2>5, <2>7 DEF Inv, CheckCorrection, Unchanged, env
<1> QED
  BY <1>2, <1>3, <1>4

-----------------------------------------------------------------------------
(* The answer *)

LEMMA AnswerHost ==
  ASSUME Inv, NEW h \in Hosts, hosts[h].pc \in AnswerPcs
  PROVE  /\ hosts[h] \in HostStates /\ hosts[h].stage = "none" /\ ~hosts[h].holds /\ run.bound
         /\ Loaded(hosts[h]) /\ InControl(hosts[h]) /\ hosts[h].status \in Deliverable
         /\ hosts[h].pc \in {"segment", "finalize"} => hosts[h].text \in Texts
         /\ hosts[h].pc = "finalize" => hosts[h].status # "waiting_approval"
         /\ hosts[h].phase = "completed" \/ hosts[h].status = "completed" => SomeCompleted(plans)
         /\ Controls(h) => Live(run)
<1> DEFINE y == hosts[h]
<1>1. HostShape(y) /\ HostOK(y, run, plans, dep.mode) /\ LeaseOK(h, y, run, plans, controller, uncertain)
  BY HostFacts DEF Inv
<1>2. Answering(y) /\ Loaded(y) /\ InControl(y)
  BY DEF Answering, Loaded, InControl
<1> HIDE DEF y
<1>3. y \in HostStates /\ y.stage = "none" /\ ~y.holds
  BY <1>1 DEF HostShape, StagePcs, StepPcs, AnswerPcs, y
<1>4. /\ run.bound /\ y.status \in Deliverable
      /\ y.pc \in {"segment", "finalize"} => y.text \in Texts
      /\ y.pc = "finalize" => y.status # "waiting_approval"
      /\ y.phase = "completed" \/ y.status = "completed" => SomeCompleted(plans)
  BY ONLY <1>1, <1>2 DEF HostOK
<1>5. Controls(h) => run.status = NoStatus
  BY ONLY <1>1, <1>2 DEF LeaseOK, Controls, y
<1>6. Controls(h) => Live(run)
  BY <1>4, <1>5, RunFacts DEF Inv, Terminal
<1> QED
  BY <1>2, <1>3, <1>4, <1>6 DEF y

Spoken(y) == [y EXCEPT !.pc = "segment", !.text = "model"]

LEMMA SpokenFacts ==
  ASSUME NEW y \in HostStates, NEW x, x = Spoken(y)
  PROVE  /\ x \in HostStates /\ x.pc = "segment" /\ x.text = "model" /\ x.stage = y.stage
         /\ x.holds = y.holds /\ SameOwner(x, y) /\ x.phase = y.phase /\ x.status = y.status
<1>1. x \in HostStates
  <2>1. "segment" \in Pcs /\ "model" \in Texts
    BY DEF Pcs, AnswerPcs, Texts
  <2> QED
    BY <2>1 DEF HostStates, Spoken
<1>2. /\ x.pc = "segment" /\ x.text = "model" /\ x.stage = y.stage
      /\ x.holds = y.holds /\ SameOwner(x, y) /\ x.phase = y.phase /\ x.status = y.status
  BY DEF HostStates, SameOwner, Spoken
<1> QED
  BY <1>1, <1>2

LEMMA SynthesizedKeeps ==
  ASSUME Inv, NEW h \in Hosts, Synthesized(h)
  PROVE  Inv'
<1> DEFINE x == Spoken(hosts[h])
<1>1. hosts[h].pc \in AnswerPcs /\ hosts' = [hosts EXCEPT ![h] = x]
  BY DEF Synthesized, At, AnswerPcs, Local, Spoken
<1>2. /\ hosts[h] \in HostStates /\ hosts[h].stage = "none" /\ ~hosts[h].holds /\ Loaded(hosts[h])
      /\ hosts[h].status \in Deliverable
      /\ (hosts[h].phase = "completed" \/ hosts[h].status = "completed" => SomeCompleted(plans))
  BY <1>1, AnswerHost
<1>3. /\ x \in HostStates /\ x.pc = "segment" /\ x.text = "model" /\ x.stage = hosts[h].stage
      /\ x.holds = hosts[h].holds /\ SameOwner(x, hosts[h]) /\ x.phase = hosts[h].phase
      /\ x.status = hosts[h].status
  BY <1>2, SpokenFacts
<1> HIDE DEF x
<1>4. LoadedFits(x, run, plans)
  <2>1. x.text \in Texts
    BY <1>3 DEF Texts
  <2> QED
    BY <1>2, <1>3, <2>1 DEF LoadedFits, Loaded, OnPlan, Answering, HasTicket, LoopPcs, StepPcs, AnswerPcs, StagePcs
<1>5. InvAt(dep, run, plans, conv, controller, uncertain, [hosts EXCEPT ![h] = x], spent)
  BY <1>2, <1>3, <1>4, LoadedStep DEF Inv
<1> QED
  BY <1>1, <1>5 DEF Inv, Synthesized, Unchanged, env

\* The call of the controller is over, and its result goes to pc.
Projected(y, pc) == [y EXCEPT !.pc = pc, !.controls = FALSE]

LEMMA ProjectedFits ==
  ASSUME NEW y \in HostStates, y.stage = "none", ~y.holds, NEW r, NEW ps,
         y.phase = "completed" \/ y.status = "completed" => SomeCompleted(ps),
         NEW pc \in {"project", "ack"}, NEW x, x = Projected(y, pc),
         pc = "project" /\ y.status # "waiting_approval" =>
             r.status # NoStatus /\ y.status = r.status /\ y.text = r.text
  PROVE  WaitingFits(x, r, ps) /\ x.via = y.via /\ x.writes = y.writes /\ ~x.controls
<1>1. /\ x \in HostStates /\ x.pc = pc /\ x.controls = FALSE /\ x.via = y.via /\ x.writes = y.writes
      /\ x.stage = y.stage /\ x.holds = y.holds /\ x.phase = y.phase /\ x.status = y.status
      /\ x.text = y.text
  <2>1. pc \in Pcs
    BY DEF Pcs
  <2>2. x \in HostStates
    BY <2>1 DEF HostStates, Projected
  <2> QED
    BY <2>2 DEF HostStates, Projected
<1> QED
  BY <1>1 DEF WaitingFits, WaitPcs

LEMMA FinishSegmentKeeps ==
  ASSUME Inv, NEW h \in Hosts, FinishSegment(h)
  PROVE  Inv'
<1> DEFINE y == hosts[h]
<1>1. y.pc = "segment" /\ y.pc \in AnswerPcs /\ Controls(h)
  BY DEF FinishSegment, At, AnswerPcs
<1>2. /\ y \in HostStates /\ y.stage = "none" /\ ~y.holds /\ run.bound
      /\ Loaded(y) /\ InControl(y) /\ y.status \in Deliverable /\ y.text \in Texts
      /\ (y.phase = "completed" \/ y.status = "completed" => SomeCompleted(plans))
      /\ Live(run)
  BY <1>1, AnswerHost
<1>3. run' = run
  BY <1>2, ApplySegment DEF FinishSegment, Append1
<1>4. CASE y.status = "waiting_approval"
  <2> DEFINE x == Projected(y, "project")
             hs == [hosts EXCEPT ![h] = x]
  <2>1. hosts' = hs /\ controller' = NoHost /\ UNCHANGED <<env, plans, conv, writer, spent>>
    BY <1>1, <1>4 DEF FinishSegment, ToProjection, Local, Projected
  <2>2. WaitingFits(x, run, plans) /\ x.via = y.via /\ x.writes = y.writes /\ ~x.controls
    <3> HIDE DEF y
    <3> QED
      BY <1>2, <1>4, ProjectedFits
  <2> HIDE DEF x
  <2>3. InvAt(dep, run, plans, conv, controller, uncertain, hs, spent)
    BY <1>2, <2>2, WaitingStep DEF Inv
  <2> HIDE DEF hs
  <2>4. InvAt(dep, run, plans, conv, NoHost, uncertain, hs, spent)
    BY <2>3, ClaimsTouched, AutonomousAssumption
  <2> QED
    BY <1>3, <2>1, <2>4 DEF Inv, env
<1>5. CASE y.status # "waiting_approval"
  <2> DEFINE x == Gone(y, "finalize")
  <2>1. hosts' = [hosts EXCEPT ![h] = x] /\ UNCHANGED plans /\ Unchanged
    BY <1>5 DEF FinishSegment, Go, Local, Gone
  <2>2. x \in HostStates /\ x.pc = "finalize" /\ SameRest(x, y) /\ x.stage = y.stage
    <3>1. "finalize" \in Pcs
      BY DEF Pcs, AnswerPcs
    <3> QED
      BY <1>2, <3>1, GoFacts
  <2> HIDE DEF x
  <2>3. LoadedFits(x, run, plans) /\ SameOwner(x, y)
    BY <1>2, <1>5, <2>2 DEF LoadedFits, Loaded, OnPlan, Answering, HasTicket, LoopPcs, StepPcs, AnswerPcs, StagePcs,
                            SameRest, SameOwner
  <2>4. InvAt(dep, run, plans, conv, controller, uncertain, [hosts EXCEPT ![h] = x], spent)
    BY <1>2, <2>3, LoadedStep DEF Inv
  <2> QED
    BY <1>3, <2>1, <2>4 DEF Inv, Unchanged, env
<1> QED
  BY <1>4, <1>5

LEMMA FinalizeRunKeeps ==
  ASSUME Inv, NEW h \in Hosts, FinalizeRun(h)
  PROVE  Inv'
<1> DEFINE y == hosts[h]
           z == Projected(y, "ack")
           x == Projected(y, "project")
           hz == [hosts EXCEPT ![h] = z]
<1>1. y.pc = "finalize" /\ y.pc \in AnswerPcs /\ Controls(h) /\ run.status = NoStatus
  BY DEF FinalizeRun, At, AnswerPcs
<1>2. /\ y \in HostStates /\ y.stage = "none" /\ ~y.holds /\ run.bound
      /\ InControl(y) /\ y.status \in Answers /\ y.text \in Texts
      /\ (y.phase = "completed" \/ y.status = "completed" => SomeCompleted(plans))
      /\ Live(run)
  BY <1>1, AnswerHost DEF Answers, Deliverable
<1>3. hosts' = [hosts EXCEPT ![h] = x] /\ controller' = NoHost /\ UNCHANGED <<env, plans, conv, writer, spent>>
  BY <1>1 DEF FinalizeRun, ToProjection, Local, Projected
<1>4. run' = Apply(run, Finalized(y.status, y.text), dep.budget)
  BY DEF FinalizeRun, Append1
<1>5. /\ RunShape(run') /\ run'.ok /\ run'.exists = run.exists /\ run'.closed = run.closed
      /\ SameFunds(run', run) /\ SameBinding(run', run) /\ run'.status = y.status /\ run'.text = y.text
  <2> HIDE DEF y
  <2> QED
    BY <1>2, <1>4, ApplyFinalized
<1>6. WaitingFits(z, run, plans) /\ z.via = y.via /\ z.writes = y.writes /\ ~z.controls
  <2> HIDE DEF y
  <2> QED
    BY <1>2, ProjectedFits
<1>7. WaitingFits(x, run', plans) /\ x.via = y.via /\ x.writes = y.writes /\ ~x.controls
  <2>1. y.status = run'.status /\ y.text = run'.text /\ run'.status # NoStatus
    BY <1>2, <1>5 DEF Answers, NoStatus
  <2> HIDE DEF y
  <2> QED
    BY <1>2, <2>1, ProjectedFits
<1>8. InControl(z)
  <2>1. z.pc = "ack"
    BY <1>2 DEF HostStates, Projected
  <2> HIDE DEF z
  <2> QED
    BY <2>1 DEF InControl
<1> HIDE DEF x, z
<1>9. InvAt(dep, run, plans, conv, controller, uncertain, hz, spent)
  BY <1>2, <1>6, WaitingStep DEF Inv
<1>10. hz[h] = z /\ hosts' = [hz EXCEPT ![h] = x]
  BY <1>3, HostFacts DEF Inv
<1> HIDE DEF hz
<1>11. InvAt(dep, run, plans, conv, NoHost, uncertain, hz, spent)
  BY <1>9, ClaimsTouched, AutonomousAssumption
<1>12. InvAt(dep, run', plans, conv, NoHost, uncertain, hz, spent)
  <2>1. \A g \in Hosts : ~(hz[g].controls /\ NoHost = g)
    BY AutonomousAssumption
  <2>2. run'.status \in Answers /\ (run'.status = "completed" => SomeCompleted(plans))
    BY <1>2, <1>5
  <2> QED
    BY <1>1, <1>2, <1>5, <1>11, <2>1, <2>2, AnswerTouched
<1>13. InvAt(dep, run', plans, conv, NoHost, uncertain, [hz EXCEPT ![h] = x], spent)
  <2>1. InControl(hz[h]) /\ x.via = hz[h].via /\ x.writes = hz[h].writes /\ ~x.controls
    BY <1>6, <1>7, <1>8, <1>10
  <2> QED
    BY <1>7, <1>12, <2>1, WaitingStep
<1> QED
  BY <1>3, <1>10, <1>13 DEF Inv, env

LEMMA ProjectKeeps ==
  ASSUME Inv, NEW h \in Hosts, ProjectFinal(h) \/ ProjectWaiting(h)
  PROVE  Inv'
<1> DEFINE y == hosts[h]
           x == Gone(y, "ack")
<1>1. y.pc = "project" /\ y.pc \in WaitPcs /\ hosts' = [hosts EXCEPT ![h] = x]
      /\ UNCHANGED <<env, run, plans, writer, controller, spent>>
  BY DEF ProjectFinal, ProjectWaiting, At, WaitPcs, Go, Local, Gone
<1>2. /\ y \in HostStates /\ y.stage = "none" /\ ~y.holds /\ run.bound /\ ~y.controls
  BY <1>1, WaitingHost DEF Inv
<1>3. /\ y.status # "waiting_approval" => run.status # NoStatus /\ y.status = run.status /\ y.text = run.text
      /\ (y.phase = "completed" \/ y.status = "completed" => SomeCompleted(plans))
  <2>1. HostOK(y, run, plans, dep.mode)
    BY HostFacts DEF Inv
  <2> QED
    BY ONLY <1>1, <2>1 DEF HostOK
<1>4. ConvOK(conv', run)
  <2>1. ConvOK(conv, run)
    BY RunFacts DEF Inv, LedgerOK, ConvOK
  <2>2. CASE UNCHANGED conv
    BY <2>1, <2>2
  <2>3. CASE /\ y.status # "waiting_approval"
             /\ conv' = [conv EXCEPT !.phase = "completed", !.status = y.status, !.text = y.text]
    <3>1. y.status \in Deliverable \cup {NoStatus} /\ y.text \in Texts \cup {NoStatus}
      BY <1>2 DEF HostStates
    <3> HIDE DEF y
    <3>2. ConvShape(conv') /\ conv'.phase = "completed" /\ conv'.status = y.status /\ conv'.text = y.text
      BY <2>1, <2>3, <3>1 DEF ConvOK, ConvShape
    <3> QED
      BY <1>2, <1>3, <2>3, <3>2 DEF ConvOK
  <2>4. CASE conv.phase = "running" /\ conv' = [conv EXCEPT !.shown = With(@, Generation(h), y.text)]
    <3> DEFINE shown == With(conv.shown, Generation(h), y.text)
    <3>1. conv' = [conv EXCEPT !.shown = shown]
      BY <2>4
    <3> HIDE DEF shown
    <3>2. ConvShape(conv') /\ conv'.phase = conv.phase /\ conv'.status = conv.status /\ conv'.text = conv.text
      BY <2>1, <3>1 DEF ConvOK, ConvShape
    <3> QED
      BY <2>1, <3>2 DEF ConvOK
  <2> QED
    BY <2>2, <2>3, <2>4 DEF ProjectFinal, ProjectWaiting
<1>5. InvAt(dep, run, plans, conv', controller, uncertain, hosts, spent)
  BY <1>4, ConvTouched DEF Inv
<1>6. x \in HostStates /\ x.pc = "ack" /\ SameRest(x, y) /\ x.stage = y.stage
  <2>1. "ack" \in Pcs
    BY DEF Pcs
  <2> QED
    BY <1>2, <2>1, GoFacts
<1> HIDE DEF x
<1>7. WaitingFits(x, run, plans) /\ x.via = y.via /\ x.writes = y.writes /\ ~x.controls
  BY <1>2, <1>3, <1>6 DEF WaitingFits, WaitPcs, SameRest
<1>8. InControl(y)
  BY <1>1 DEF InControl
<1>9. InvAt(dep, run, plans, conv', controller, uncertain, [hosts EXCEPT ![h] = x], spent)
  BY <1>5, <1>7, <1>8, WaitingStep
<1> QED
  BY <1>1, <1>9 DEF Inv, env

\* Every way a call raises without writing to the ledger.
LEMMA RaisedKeeps ==
  ASSUME Inv, NEW h \in Hosts,
         AnswerRefused(h) \/ ProjectFails(h) \/ Timeout(h) \/ NoticeLostController(h)
  PROVE  Inv'
<1>1. run' = run /\ Raise(h)
  BY DEF AnswerRefused, ProjectFails, Timeout, NoticeLostController
<1>2. hosts[h].pc \notin {"down", "inspect", "recover", "blocked"}
  <2>1. HostShape(hosts[h])
    BY HostFacts DEF Inv
  <2>2. CASE AnswerRefused(h) \/ ProjectFails(h)
    BY <2>2 DEF AnswerRefused, ProjectFails, At
  <2>3. CASE Timeout(h)
    BY <2>1, <2>3 DEF Timeout, InLoop, HostShape, StagePcs
  <2>4. CASE NoticeLostController(h)
    BY <2>1, <2>4 DEF NoticeLostController, HostShape, StagePcs, Loaded, OnPlan, Answering, LoopPcs, StepPcs, AnswerPcs
  <2> QED
    BY <2>2, <2>3, <2>4
<1> QED
  BY <1>1, <1>2, RaiseKeeps

LEMMA AcknowledgeKeeps ==
  ASSUME Inv, NEW h \in Hosts, Acknowledge(h)
  PROVE  Inv'
<1>1. /\ hosts[h].pc = "ack" /\ Returned(h, "idle") /\ UNCHANGED <<dep, uncertain, run, conv, writer, spent>>
      /\ plans' = [p \in DOMAIN plans |->
                     IF p \in ToSet(run.plan_ids) THEN [plans[p] EXCEPT !.pending = FALSE] ELSE plans[p]]
  BY DEF Acknowledge, At, env
<1>2. plans \in Seq(PlanStates) /\ \A p \in DOMAIN plans : plans[p] \in PlanStates
  BY RunFacts DEF Inv
<1>3. \A p \in DOMAIN plans : PlanTouched(plans'[p], plans[p], hosts)
  <2> SUFFICES ASSUME NEW p \in DOMAIN plans PROVE PlanTouched(plans'[p], plans[p], hosts)
    OBVIOUS
  <2> DEFINE q == plans[p]
  <2>1. q \in PlanStates
    BY <1>2
  <2>2. plans'[p] = q \/ plans'[p] = [q EXCEPT !.pending = FALSE]
    BY <1>1
  <2> HIDE DEF q
  <2>3. [q EXCEPT !.pending = FALSE] \in PlanStates
    BY <2>1 DEF PlanStates
  <2>4. PlanTouched([q EXCEPT !.pending = FALSE], q, hosts) /\ PlanTouched(q, q, hosts)
    BY <2>1, <2>3 DEF PlanTouched, PlanStates
  <2> QED
    BY <2>2, <2>4 DEF q
<1>4. DOMAIN plans' = DOMAIN plans /\ plans' \in Seq(PlanStates)
  <2>1. DOMAIN plans = 1..Len(plans) /\ Len(plans) \in Nat
    BY <1>2
  <2>2. \A p \in DOMAIN plans : plans'[p] \in PlanStates
    BY <1>3 DEF PlanTouched
  <2>3. plans' \in [1..Len(plans) -> PlanStates]
    BY <1>1, <2>1, <2>2
  <2> QED
    BY <2>1, <2>3, SeqDef
<1>5. InvAt(dep, run, plans', conv, controller, uncertain, hosts, spent)
  BY <1>3, <1>4, PlansTouched DEF Inv
<1> DEFINE x == Quiet("idle", hosts[h].writes)
<1>6. hosts' = [hosts EXCEPT ![h] = x] /\ controller' \in {controller, NoHost}
  BY <1>1 DEF Returned, Local, Quiet
<1>7. Freed(plans', plans')
  BY DEF Freed
<1>8. InvAt(dep, run, plans', conv, controller', uncertain, [hosts EXCEPT ![h] = x], spent)
  <2>1. x = Quiet("idle", hosts[h].writes) /\ "idle" \in {"idle", "blocked"} /\ hosts[h].pc \notin {"down", "inspect", "recover", "blocked"}
    BY <1>1
  <2>2. controller' \in {controller, NoHost}
    BY <1>6
  <2> HIDE DEF x
  <2> QED
    BY ONLY h \in Hosts, <1>5, <1>7, <2>1, <2>2, RaisedTouched
<1> QED
  BY <1>1, <1>6, <1>8 DEF Inv

-----------------------------------------------------------------------------
(* Failures, time and the people around the Run *)

LEMMA DownIsQuiet == Down = Quiet("down", FALSE)
<1> DEFINE x == Down
<1>1. x.pc = "down" /\ x.writes = FALSE /\ x \in HostStates
  BY DEF Down, HostStates, Pcs, Deliverable, NoStatus
<1> HIDE DEF x
<1>2. [x EXCEPT !.pc = "down"] = x
  BY <1>1 DEF HostStates
<1>3. [x EXCEPT !.writes = FALSE] = x
  BY <1>1 DEF HostStates
<1> QED
  BY <1>2, <1>3 DEF Quiet, x

LEMMA DownTouched ==
  ASSUME Inv, NEW h \in Hosts
  PROVE  InvAt(dep, run, plans, conv, controller, uncertain, [hosts EXCEPT ![h] = Down], spent)
<1>1. "down" \in {"down", "inspect", "idle", "blocked"} /\ FALSE \in BOOLEAN /\ "down" # "idle"
  OBVIOUS
<1> QED
  BY ONLY Inv, h \in Hosts, <1>1, DownIsQuiet, QuietTouched DEF Inv

LEMMA CrashKeeps ==
  ASSUME Inv, NEW h \in Hosts, Crash(h)
  PROVE  Inv'
<1> DEFINE hs == [hosts EXCEPT ![h] = Down]
<1>1. InvAt(dep, run, plans, conv, controller, uncertain, hs, spent)
  BY DownTouched
<1>2. hosts' = hs /\ UNCHANGED <<dep, run, plans, conv, controller, uncertain, spent>>
  BY DEF Crash, Local, env
<1> QED
  BY <1>1, <1>2 DEF Inv

LEMMA CloseKeeps ==
  ASSUME Inv, NEW h \in Hosts, Close(h) \/ Stall(h)
  PROVE  Inv'
<1>1. /\ ReleasePlan(h) /\ UNCHANGED <<dep, uncertain, run, conv, spent>>
      /\ controller' \in {controller, NoHost}
      /\ hosts' = hosts \/ hosts' = [hosts EXCEPT ![h] = Down]
  BY DEF Close, Stall, Local, env
<1>2. Freed(plans', plans)
  <2>1. plans \in Seq(PlanStates) /\ (hosts[h].holds => hosts[h].plan \in DOMAIN plans)
    BY RunFacts, HeldPlan DEF Inv, InvAt
  <2> QED
    BY <1>1, <2>1, ReleaseFacts
<1>3. InvAt(dep, run, plans, conv, controller, uncertain, hosts', spent)
  BY <1>1, DownTouched DEF Inv
<1>4. InvAt(dep, run, plans', conv, controller, uncertain, hosts', spent)
  BY <1>2, <1>3, FreedTouched
<1>5. \A g \in Hosts : controller' = g => controller = g
  BY <1>1, AutonomousAssumption
<1>6. InvAt(dep, run, plans', conv, controller', uncertain, hosts', spent)
  BY <1>4, <1>5, ClaimsTouched
<1> QED
  BY <1>1, <1>6 DEF Inv

LEMMA EnvironmentKeeps ==
  ASSUME Inv, Environment
  PROVE  Inv'
<1>1. CASE Deadline
  BY <1>1 DEF Deadline, Inv
<1>5. CASE SettleWrite
  BY <1>5, WriteKeeps
<1>2. CASE ExpireWriter \/ ExpireController
  <2>1. /\ UNCHANGED <<dep, run, plans, conv, hosts, uncertain, spent>>
        /\ controller' \in {controller, NoHost}
    BY <1>2 DEF ExpireWriter, ExpireController, env
  <2>2. \A g \in Hosts : controller' = g => controller = g
    BY <2>1, AutonomousAssumption
  <2>3. InvAt(dep, run, plans, conv, controller', uncertain, hosts, spent)
    BY <2>1, <2>2, ClaimsTouched DEF Inv
  <2> QED
    BY <2>1, <2>3 DEF Inv
<1>3. ASSUME NEW p \in DOMAIN plans, Approve(p) PROVE Inv'
  <2> DEFINE q == [plans[p] EXCEPT !.approved = TRUE]
  <2>1. plans \in Seq(PlanStates) /\ \A i \in DOMAIN plans : plans[i] \in PlanStates
    BY RunFacts DEF Inv
  <2>2. plans' = [plans EXCEPT ![p] = q]
    BY <1>3 DEF Approve
  <2>3. PlanTouched(q, plans[p], hosts)
    <3> DEFINE x == plans[p]
    <3>1. x \in PlanStates
      BY <2>1
    <3> HIDE DEF x
    <3>2. [x EXCEPT !.approved = TRUE] \in PlanStates
      BY <3>1 DEF PlanStates
    <3>3. PlanTouched([x EXCEPT !.approved = TRUE], x, hosts)
      BY <3>1, <3>2 DEF PlanTouched, PlanStates
    <3> QED
      BY <3>3 DEF x
  <2> HIDE DEF q
  <2>4. \A i \in DOMAIN plans : PlanTouched(plans[i], plans[i], hosts)
    BY <2>1 DEF PlanTouched
  <2>5. DOMAIN plans' = DOMAIN plans /\ \A i \in DOMAIN plans : PlanTouched(plans'[i], plans[i], hosts)
    BY <2>1, <2>2, <2>3, <2>4
  <2>6. q \in PlanStates
    BY <2>3 DEF PlanTouched
  <2>7. plans' \in Seq(PlanStates)
    BY <2>1, <2>2, <2>6
  <2>8. InvAt(dep, run, plans', conv, controller, uncertain, hosts, spent)
    BY <2>5, <2>7, PlansTouched DEF Inv
  <2> QED
    BY <1>3, <2>8 DEF Inv, Approve, env
<1>4. ASSUME NEW p \in DOMAIN plans, ExpirePlan(p) PROVE Inv'
  <2>1. Freed(plans', plans)
    BY <1>4 DEF ExpirePlan, Freed
  <2>2. InvAt(dep, run, plans', conv, controller, uncertain, hosts, spent)
    BY <2>1, FreedTouched DEF Inv
  <2> QED
    BY <1>4, <2>2 DEF Inv, ExpirePlan, env
<1> QED
  BY <1>1, <1>2, <1>3, <1>4, <1>5 DEF Environment

-----------------------------------------------------------------------------
(* The invariant holds *)

LEMMA SumEmpty ==
  ASSUME NEW f, DOMAIN f = {}
  PROVE  SumFunction(f) = 0
<1>1. IsFiniteSet(DOMAIN f)
  BY FS_EmptySet
<1>2. PICK it : Sums(f, it) /\ SumFunction(f) = it[DOMAIN f]
  BY <1>1, SumIsSums
<1>3. it[{}] = Added(f, it, {})
  BY <1>2 DEF Sums
<1> QED
  BY <1>2, <1>3 DEF Added

LEMMA NoRunFacts ==
  /\ RunShape(NoRun) /\ Reserved(NoRun) = {} /\ NoRun.settled = NoUsage /\ NoRun.ok
  /\ NoRun.status = NoStatus /\ NoRun.plan_ids = << >>
  /\ ~NoRun.exists /\ ~NoRun.bound /\ ~NoRun.linked /\ ~NoRun.dispatchable /\ ~NoRun.closed
<1>1. NoUsage \in [Resources -> Nat]
  BY DEF NoUsage
<1>2. << >> \in Seq(Nat)
  OBVIOUS
<1>3. RunShape(NoRun)
  BY <1>1, <1>2 DEF RunShape, NoRun, NoStatus
<1>4. Reserved(NoRun) = {}
  BY DEF Reserved, NoRun
<1> QED
  BY <1>3, <1>4 DEF NoRun

LEMMA InvInit ==
  ASSUME Init
  PROVE  Inv
<1> DEFINE none == [i \in {} |-> 0]
<1>1. /\ dep \in Deployments /\ run = NoRun /\ plans = << >> /\ conv = NoConversation
      /\ hosts = [h \in Hosts |-> Down] /\ spent = NoUsage
  BY DEF Init
<1>2. /\ RunShape(run) /\ Reserved(run) = {} /\ run.settled = NoUsage /\ run.ok
      /\ run.status = NoStatus /\ run.plan_ids = << >>
      /\ ~run.exists /\ ~run.bound /\ ~run.linked /\ ~run.dispatchable /\ ~run.closed
  BY <1>1, NoRunFacts
<1>3. DOMAIN plans = {} /\ plans \in Seq(PlanStates) /\ ToSet(run.plan_ids) = {}
  BY <1>1, <1>2, ToSetFacts
<1>4. /\ Down \in HostStates /\ Down.pc = "down" /\ Down.stage = "none" /\ Down.via = "none" /\ ~Down.writes
      /\ ~Down.controls /\ ~Down.holds /\ Down.phase = "failed" /\ Down.status = NoStatus
  <2>1. Down \in HostStates
    BY DEF Down, HostStates, Pcs, Deliverable, NoStatus
  <2> QED
    BY <2>1 DEF Down
<1>5. LedgerOK(run, conv, plans)
  <2>1. ConvShape(conv) /\ conv.phase = "none"
    BY <1>1 DEF ConvShape, NoConversation, NoStatus
  <2>2. run.linked = run.bound /\ run.dispatchable = run.bound
    BY <1>1 DEF NoRun
  <2> QED
    BY <1>2, <1>3, <2>1, <2>2 DEF LedgerOK, NoStatus
<1>6. PlansOK(plans, run)
  BY <1>3 DEF PlansOK
<1>7. \A h \in Hosts : hosts[h] = Down
  BY <1>1
<1>8. HostsOK(hosts, run, plans, dep.mode)
  <2>1. hosts \in [Hosts -> HostStates]
    BY <1>1, <1>4
  <2> HIDE DEF Down
  <2>2. HostShape(Down)
    BY <1>4 DEF HostShape, StagePcs
  <2>3. HostOK(Down, run, plans, dep.mode)
    BY <1>4 DEF HostOK, InAdmission, InControl, Loaded, OnPlan, Answering, HasTicket, LoopPcs, StepPcs, AnswerPcs, NoStatus
  <2> QED
    BY <1>7, <2>1, <2>2, <2>3 DEF HostsOK
<1>9. LeasesOK(hosts, run, plans, controller, uncertain)
  BY <1>4, <1>7 DEF LeasesOK, LeaseOK, Barred
<1>10. ApartsOK(hosts)
  BY <1>4, <1>7 DEF ApartsOK, ApartOK, HasTicket
<1>11. NoUsage \in [Resources -> Nat] /\ \A x \in Resources : NoUsage[x] = 0
  BY DEF NoUsage
<1>12. Reservations(run, plans, dep.budget)
  <2>1. \A x \in Resources : ResourceUsage(run)[x] = 0
    <3> SUFFICES ASSUME NEW x \in Resources PROVE ResourceUsage(run)[x] = 0
      OBVIOUS
    <3> DEFINE f == [id \in Reserved(run) |-> run.active[id][x]]
    <3>1. SumFunction(f) = 0
      <4>1. DOMAIN f = {}
        BY <1>2
      <4> HIDE DEF f
      <4> QED
        BY <4>1, SumEmpty
    <3>2. ResourceUsage(run)[x] = run.settled[x] + SumFunction(f)
      BY DEF ResourceUsage
    <3> HIDE DEF f
    <3> QED
      BY <1>2, <1>11, <3>1, <3>2
  <2>2. dep.budget \in [Resources -> Nat]
    BY <1>1, AutonomousAssumption
  <2>3. AtMost(ResourceUsage(run), dep.budget)
    BY <2>1, <2>2 DEF AtMost
  <2>4. IsFiniteSet(Reserved(run))
    BY <1>2, FS_EmptySet
  <2> QED
    BY <1>2, <2>3, <2>4 DEF Reservations
<1>13. SpentOK(spent, run, plans, hosts)
  <2>1. none \in [Reserved(run) -> Nat] /\ SumFunction(none) = 0
    <3>1. DOMAIN none = {} /\ none \in [{} -> Nat]
      OBVIOUS
    <3> HIDE DEF none
    <3> QED
      BY <1>2, <3>1, SumEmpty
  <2>2. \A h \in Hosts : hosts[h].pc \notin {"dispatch", "settle"}
    BY <1>4, <1>7
  <2>3. /\ spent \in [Resources -> Nat] /\ spent["model_calls"] = 0 /\ spent["step_attempts"] = 0
        /\ spent["plan_steps"] = 0 /\ run.settled["model_calls"] = 0
    BY <1>1, <1>2, <1>11 DEF Resources
  <2> HIDE DEF none
  <2>4. ModelUse(none, spent, run, hosts)
    BY <1>2, <2>1, <2>2, <2>3 DEF ModelUse
  <2>5. StepUse(none, spent, run, plans)
    BY <1>2, <2>1, <2>3 DEF StepUse
  <2> QED
    BY <2>3, <2>4, <2>5 DEF SpentOK
<1> QED
  BY <1>1, <1>2, <1>5, <1>6, <1>8, <1>9, <1>10, <1>12, <1>13 DEF Inv, InvAt

LEMMA InvNext ==
  ASSUME Inv, [Next]_vars
  PROVE  Inv'
<1>1. CASE UNCHANGED vars
  BY <1>1 DEF vars, Inv
<1>2. CASE Environment
  BY <1>2, EnvironmentKeeps
<1>3. ASSUME NEW h \in Hosts,
             Open(h) \/ Prompt(h) \/ BeginWrite(h) \/ Timeout(h) \/ NoticeLostController(h) \/ Crash(h) \/ Stall(h)
             \/ Close(h)
      PROVE  Inv'
  BY <1>3, OpenKeeps, WriteKeeps, PromptKeeps, RaisedKeeps, CrashKeeps, CloseKeeps
<1>4. ASSUME NEW h \in Hosts, HostStep(h) PROVE Inv'
  <2>1. CASE RetryRecovery(h) \/ InspectAll(h) \/ RecoverAll(h)
    BY <2>1, WakingKeeps DEF Waking
  <2>6. CASE Submit(h) \/ Resume(h) \/ Prepare(h)
    BY <2>6, SubmitKeeps, PrepareKeeps
  <2>2. CASE ModelStage(h)
    BY <2>2, ReserveStageKeeps, ReserveRefusedKeeps, DispatchKeeps, SettleKeeps DEF ModelStage
  <2>3. CASE Publish(h)
    BY <2>3, RouteDecidedKeeps, PlanMadeKeeps, PlanRefusedKeeps, BootstrapKeeps, BootstrapEndKeeps DEF Publish
  <2>4. CASE Control(h)
    <3>1. CASE LoadRun(h) \/ AcquireController(h) \/ RestoreAnswer(h) \/ AcquireFails(h) \/ Reload(h) \/ ReloadFails(h)
      BY <3>1, LoadRunKeeps, AcquireControllerKeeps, RestoreAnswerKeeps, AcquireFailsKeeps, ReloadKeeps
    <3>2. CASE StartAction(h) \/ ExecuteConflicts(h) \/ ExecuteSettled(h) \/ ExecutePlan(h)
      BY <3>2, StartActionKeeps, ActionErrorKeeps, ExecuteSettledKeeps, ExecutePlanKeeps
    <3>3. CASE ReserveStep(h) \/ ReserveStepFails(h) \/ StartStep(h) \/ EndStep(h) \/ StepLosesLease(h)
      BY <3>3, ReserveStepKeeps, ActionErrorKeeps, StartStepKeeps, EndStepKeeps
    <3>4. CASE Validate(h) \/ ResultValidated(h) \/ NoCorrection(h)
               \/ ReserveCorrection(h) \/ RegisterCorrection(h) \/ CheckCorrection(h)
      BY <3>4, ValidateKeeps, ReserveCorrectionKeeps, RegisterCorrectionKeeps, CheckCorrectionKeeps
    <3> QED
      BY <2>4, <3>1, <3>2, <3>3, <3>4 DEF Control
  <2>5. CASE Answer(h)
    BY <2>5, SynthesizedKeeps, FinishSegmentKeeps, FinalizeRunKeeps, RaisedKeeps, ProjectKeeps, AcknowledgeKeeps
       DEF Answer
  <2> QED
    BY <1>4, <2>1, <2>2, <2>3, <2>4, <2>5, <2>6 DEF HostStep
<1> QED
  BY <1>1, <1>2, <1>3, <1>4 DEF Next

LEMMA Invariance == Spec => []Inv
<1>1. Init => Inv
  BY InvInit
<1>2. Inv /\ [Next]_vars => Inv'
  BY InvNext
<1> QED
  BY <1>1, <1>2, PTL DEF Spec

-----------------------------------------------------------------------------
(* Theorems *)

LEMMA LedgerCoversInv == Inv => LedgerCovers
<1> SUFFICES ASSUME Inv PROVE LedgerCovers
  OBVIOUS
<1>1. /\ Reservations(run, plans, dep.budget) /\ SpentOK(spent, run, plans, hosts) /\ Funded(run)
  BY RunFacts DEF Inv, InvAt
<1>2. IsFiniteSet(Reserved(run)) /\ \A id \in Reserved(run) : run.active[id] \in [Resources -> Nat]
  BY <1>1 DEF Funded
<1>3. ASSUME NEW x \in {"model_calls", "step_attempts"}, NEW used \in [Reserved(run) -> Nat],
             \A id \in Reserved(run) : used[id] <= run.active[id][x]
      PROVE  run.settled[x] + SumFunction(used) <= ResourceUsage(run)[x]
  <2> DEFINE f == [id \in Reserved(run) |-> run.active[id][x]]
  <2>1. x \in Resources
    BY DEF Resources
  <2>2. f \in [Reserved(run) -> Nat] /\ \A id \in Reserved(run) : used[id] <= f[id]
    BY <1>2, <1>3, <2>1
  <2>3. ResourceUsage(run)[x] = run.settled[x] + SumFunction(f) /\ run.settled[x] \in Nat
    BY <1>1, <2>1 DEF ResourceUsage, Funded
  <2> HIDE DEF f
  <2>4. SumFunction(used) <= SumFunction(f)
    BY <1>2, <2>2, SumLeq
  <2>5. SumFunction(used) \in Nat /\ SumFunction(f) \in Nat
    <3>1. DOMAIN used = Reserved(run) /\ DOMAIN f = Reserved(run)
      BY <1>3, <2>2
    <3> QED
      BY <1>2, <1>3, <2>2, <3>1, SumNat
  <2> QED
    BY <2>3, <2>4, <2>5
<1>4. \A x \in Resources : spent[x] \in Nat /\ run.settled[x] \in Nat /\ ResourceUsage(run)[x] \in Nat
  BY <1>1, UsageNat DEF SpentOK, Funded
<1>5. spent["model_calls"] <= ResourceUsage(run)["model_calls"]
  <2>1. PICK used : ModelUse(used, spent, run, hosts)
    BY <1>1 DEF SpentOK
  <2>2. used \in [Reserved(run) -> Nat] /\ \A id \in Reserved(run) : used[id] <= run.active[id]["model_calls"]
    BY <2>1 DEF ModelUse
  <2>3. run.settled["model_calls"] + SumFunction(used) <= ResourceUsage(run)["model_calls"]
    BY <1>3, <2>2
  <2>4. SumFunction(used) \in Nat
    <3>1. DOMAIN used = Reserved(run)
      BY <2>2
    <3> QED
      BY <1>2, <2>2, <3>1, SumNat
  <2>5. spent["model_calls"] <= run.settled["model_calls"] + SumFunction(used)
    BY <2>1 DEF ModelUse
  <2> QED
    BY <1>4, <2>3, <2>4, <2>5 DEF Resources
<1>6. spent["step_attempts"] <= ResourceUsage(run)["step_attempts"]
  <2>1. PICK used : StepUse(used, spent, run, plans)
    BY <1>1 DEF SpentOK
  <2>2. used \in [Reserved(run) -> Nat] /\ \A id \in Reserved(run) : used[id] <= run.active[id]["step_attempts"]
    BY <2>1 DEF StepUse
  <2>3. run.settled["step_attempts"] + SumFunction(used) <= ResourceUsage(run)["step_attempts"]
    BY <1>3, <2>2
  <2>4. SumFunction(used) \in Nat
    <3>1. DOMAIN used = Reserved(run)
      BY <2>2
    <3> QED
      BY <1>2, <2>2, <3>1, SumNat
  <2>5. spent["step_attempts"] <= SumFunction(used)
    BY <2>1 DEF StepUse
  <2> QED
    BY <1>4, <2>3, <2>4, <2>5 DEF Resources
<1>7. spent["plan_steps"] <= ResourceUsage(run)["plan_steps"]
  <2>1. spent["plan_steps"] = 0 /\ ResourceUsage(run)["plan_steps"] \in Nat
    BY <1>1, <1>4 DEF SpentOK, Resources
  <2> QED
    BY <2>1
<1>8. AtMost(spent, ResourceUsage(run))
  BY <1>5, <1>6, <1>7 DEF AtMost, Resources
<1>9. AtMost(ResourceUsage(run), dep.budget)
  BY <1>1 DEF Reservations
<1> QED
  BY <1>8, <1>9 DEF LedgerCovers

\* Whatever the Hosts do, every model call and step attempt is covered by what the ledger
\* counts as used, and the ledger stays within the budget (reserve_resources, settle_resources).
THEOREM LedgerCoversHolds == Spec => []LedgerCovers
  BY Invariance, LedgerCoversInv, PTL

\* No interleaving leaves a ledger that _decode refuses, and Conversation, Run and published
\* Plans exist together (bootstrap, register_plan_atomic).
THEOREM LedgerReplaysHolds == Spec => []LedgerReplays
<1>1. Inv => LedgerReplays
  BY RunFacts DEF Inv, InvAt, PlansOK, PlanOK, LedgerOK, RunShape, LedgerReplays
<1> QED
  BY <1>1, Invariance, PTL

\* The Conversation shows the answer the Run was finalized with, and "completed" is said only
\* of a Run one of whose Plans completed (AutonomousConversationProjector.finalize, resume).
THEOREM AnswerIsTrueHolds == Spec => []AnswerIsTrue
<1>1. Inv => AnswerIsTrue
  BY DEF Inv, InvAt, LedgerOK, SomeCompleted, AnswerIsTrue, AnswerIsLedgers, CompletedHasPlan
<1> QED
  BY <1>1, Invariance, PTL

\* A write or never-replay Plan is dispatched at most once, whoever resumes the Run
\* (execute_action, resume).
THEOREM WritesOnceHolds == Spec => []WritesOnce
<1>1. Inv => WritesOnce
  BY DEF Inv, InvAt, PlansOK, PlanOK, WritesOnce, Unsafe
<1> QED
  BY <1>1, Invariance, PTL

\* A Host that serves or resumes beside a Write of unknown outcome inspected the Session before
\* that Write began, whoever began it and whenever its sender lost the Session (inspect_all,
\* recover_all).
THEOREM StartupBarrierHolds == Spec => []StartupBarrier
<1>1. Inv => StartupBarrier
  BY DEF Inv, InvAt, LeasesOK, LeaseOK, StartupBarrier, Recovered, Barred
<1> QED
  BY <1>1, Invariance, PTL

=============================================================================
