-------------------------- MODULE AgentLoop_proofs --------------------------
(***************************************************************************)
(* The Agent and its loop, for every number of users, turns, Tool Calls,   *)
(* failures and runs.  AInv relates the three copies the code keeps of one *)
(* conversation: the Agent's messages, the context of the loop, and the    *)
(* results that are announced but not yet committed (staged).              *)
(*                                                                         *)
(* PlaceOK says, for every place of the loop, which calls are open and how *)
(* far the context is ahead of the messages; it makes the transcript       *)
(* protocol an invariant of places.  StagedAt and KeptOK say that an       *)
(* announced result is in the messages, or staged and its call open, so    *)
(* that the repair after a failure finds it.  QueuesOK says that a user    *)
(* message is in one of the two queues, about to be injected, or said, and *)
(* in one of them only.  BudgetOK counts the attempts that the calls of a  *)
(* batch have still to make against what was charged for it.  LogOK bounds *)
(* the call ids of the messages, so that the id that replaces a missing or *)
(* repeated one is new.                                                    *)
(*                                                                         *)
(* GInv adds what a request needs: the conversation is well formed at      *)
(* every step (Formed: a result follows its call, nothing is said over an  *)
(* open one), the Provider is asked with the whole conversation, and from  *)
(* then on only a verified replacement that ends like it takes its place.  *)
(*                                                                         *)
(* TInv adds what the Run says (Truth): its phase fits the place of the    *)
(* loop, of the router or of an approval (whose Run has no Tool Call yet), *)
(* a Run without a failure follows a good reply, and, as long as           *)
(* nothing has failed, its open Tool Calls are the unfinished calls of the *)
(* batch (Mirrors), so that the end of the run is not refused.  After one  *)
(* failure the failed reply that the cleanup adds makes the end of the Run *)
(* admissible; after two the Run can stay open.                            *)
(***************************************************************************)
EXTENDS AgentLoop, FiniteSetTheorems, SequenceTheorems, WellFoundedInduction, TLAPS

UserMessages == [role : {"user"}, id : Users]
Assistants == [role : {"assistant"}, calls : Seq(Nat), stop : Stops \cup {"none"}]
Results == [role : {"result"}, call : Nat, kind : Kinds]
Messages == UserMessages \cup Assistants \cup Results

\* The places of the router, which holds the prompt, and of the last record of a Run.
Routes == {"route_open", "routing", "route_agent"}
Settlings ==
    {"approving", "settle_completed", "settle_failed", "settle_cancelled", "settle_approval", "settle_unknown"}
AtRest == {"idle"} \cup Routes \cup Settlings

Places ==
    AtRest \cup
    {"agent_start", "first_turn", "prompts", "turn", "inject", "model", "reply",
     "deny", "refuse", "guard", "tools", "results", "turn_end", "after", "agent_end",
     "fail", "fail_start", "fail_message", "fail_turn", "fail_end"}
CallRecords ==
    [phase : {"new", "queued", "running", "backoff", "finished", "ended"},
     kind : Kinds \cup {"none"}, tries : Nat]

\* The places at which calls of the conversation wait for their results.
Batching == {"deny", "refuse", "guard", "tools", "results"}

\* The locals of the loop.
LoopShape(l) ==
    l \in [pc : Places, ctx : Seq(Messages), given : {l.given}, pend : Seq(UserMessages),
           skip : BOOLEAN, first : BOOLEAN, turns : Nat, used : Nat, denied : BOOLEAN,
           attempts : Nat, reply : Assistants, refused : BOOLEAN, more : BOOLEAN, over : BOOLEAN,
           index : Nat, call : {l.call}, stream : {l.stream}, aborted : BOOLEAN]
LoopOK(l) ==
    /\ LoopShape(l)
    /\ l.call \in [ToSet(l.reply.calls) -> CallRecords]
    /\ \A c \in ToSet(l.reply.calls) : l.call[c].phase \in {"finished", "ended"} => l.call[c].kind \in Kinds
    /\ IsInjective(l.reply.calls)
    /\ l.index \in 1 .. Len(l.reply.calls) + 1
    /\ l.pc \notin {"refuse", "guard", "tools", "results"} => l.index = 1
    /\ l.pc \notin {"route_open", "routing", "route_agent", "agent_start", "first_turn", "prompts", "turn", "inject"} =>
          l.pend = << >>

\* The calls that have not used their first attempt.
Unspent(l) == {c \in ToSet(l.reply.calls) : l.call[c].phase \in {"new", "queued"}}

BudgetOK(l, d) ==
    /\ l.turns <= d.turns
    /\ l.first => l.turns = 0
    /\ l.pc \in {"agent_start", "first_turn", "prompts"} => l.first
    /\ l.pc = "turn" /\ ~l.first => l.turns < d.turns
    /\ l.used <= d.tools /\ l.attempts <= l.used
    /\ l.pc \in {"guard", "tools"} => l.attempts + Cardinality(Unspent(l)) <= l.used

\* A conversation, and the calls of it that wait for their results.
Open(M) == ToSet(Pending(M))
Bounded(S, n) == \A c \in S : c < (IdWidth + 1) * n
LogOK(M) ==
    /\ M \in Seq(Messages)
    /\ \A i \in DOMAIN M : IsInjective(CallsOf(M[i]))
    /\ Bounded(CallIds(M), Len(M) + 1)

ResultAt(l, i) == ToolResult(l.reply.calls[i], l.call[l.reply.calls[i]].kind)
Unheard(l) == {l.reply.calls[i] : i \in l.index .. Len(l.reply.calls)}

\* Where the loop is in the conversation M.
PlaceOK(M, l) ==
    /\ l.pc \notin Batching \cup {"fail"} => Open(M) = {}
    /\ l.pc \in {"deny", "guard", "tools"} => Open(M) = ToSet(l.reply.calls)
    /\ l.pc \in {"refuse", "results"} =>
          /\ Open(M) = Unheard(l)
          /\ M = l.ctx \o [i \in 1 .. l.index - 1 |-> ResultAt(l, i)]
          /\ \A i \in 1 .. l.index - 1 : l.call[l.reply.calls[i]].phase = "ended"
    /\ l.pc \in {"reply", "deny"} => \A c \in ToSet(l.reply.calls) : l.call[c].phase = "new"
    /\ l.pc = "refuse" => \A c \in ToSet(l.reply.calls) :
          l.call[c].phase = "ended" => l.call[c].kind = "skipped"
    /\ l.pc = "results" => \A c \in ToSet(l.reply.calls) : l.call[c].phase = "ended"
    /\ l.pc \in {"agent_start", "first_turn", "prompts"} => l.ctx = M \o l.pend
    /\ l.pc \in {"turn", "inject", "model", "deny", "guard", "tools", "turn_end", "after"} => l.ctx = M
    /\ l.pc = "reply" =>
          /\ l.ctx = Append(M, l.reply)
          /\ ToSet(l.reply.calls) \cap (CallIds(M) \cup {0}) = {}
          /\ Bounded(ToSet(l.reply.calls), Len(M) + 2)

\* The results T that were announced, and the staged results S.
Heard(M, t) == \E i \in DOMAIN M : M[i] = ToolResult(t[1], t[2])
KeptOK(M, S, T) ==
    /\ S \subseteq Results /\ T \subseteq Nat \X Kinds
    /\ \A r1 \in S, r2 \in S : r1.call = r2.call => r1 = r2
    /\ \A t \in T : Heard(M, t) \/ (ToolResult(t[1], t[2]) \in S /\ t[1] \in Open(M))
StagedAt(M, S, l) ==
    /\ l.pc \notin Batching \cup {"fail"} => S = {}
    /\ l.pc # "fail" => \A r \in S : /\ r.call \in Open(M) /\ r.call \in ToSet(l.reply.calls)
                                    /\ l.call[r.call].phase = "ended" /\ l.call[r.call].kind = r.kind

\* Every user message that was handed over is in one place, at most.
Said(M) == {i \in DOMAIN M : M[i].role = "user"}
SaidBy(M) == {M[i] : i \in Said(M)}
SaidOnce(M) == \A i \in Said(M), j \in Said(M) : M[i] = M[j] => i = j
MessagesOf(S) == {UserMessage(u) : u \in S}
Apart(A, B, C, D) ==
    /\ A \cap B = {} /\ A \cap C = {} /\ A \cap D = {} /\ B \cap C = {} /\ B \cap D = {} /\ C \cap D = {}
QueuesOK(M, st, fo, p, all, gone) ==
    /\ st \in Seq(UserMessages) /\ fo \in Seq(UserMessages) /\ all \subseteq Users
    /\ IsInjective(st) /\ IsInjective(fo) /\ IsInjective(p)
    /\ SaidOnce(M)
    /\ Apart(ToSet(st), ToSet(fo), ToSet(p), SaidBy(M))
    /\ ToSet(st) \cup ToSet(fo) \cup ToSet(p) \cup SaidBy(M) \subseteq MessagesOf(all)
    /\ MessagesOf(all \ gone) \subseteq ToSet(st) \cup ToSet(fo) \cup ToSet(p) \cup SaidBy(M)

Agents == [messages : Seq(Messages), staged : SUBSET Results]

AInvAt(d, a, st, fo, l, all, gone, T) ==
    /\ d \in Deployments
    /\ a \in Agents
    /\ LoopOK(l)
    /\ BudgetOK(l, d)
    /\ LogOK(a.messages)
    /\ PlaceOK(a.messages, l)
    /\ KeptOK(a.messages, a.staged, T)
    /\ StagedAt(a.messages, a.staged, l)
    /\ QueuesOK(a.messages, st, fo, l.pend, all, gone)

AInv == AInvAt(dep, agent, steering, followUp, loop, sent, lost, told) /\ token \in BOOLEAN

-----------------------------------------------------------------------------
(* The calls of a message that are not answered *)

LEMMA SetInduction ==
  ASSUME NEW T \in SUBSET Nat, 0 \in T, \A n \in T : n + 1 \in T
  PROVE  T = Nat
<1> SUFFICES ASSUME Nat \ T # {} PROVE FALSE
  OBVIOUS
<1> DEFINE less == OpToRel(<, Nat)
           rest == Nat \ T
<1>1. IsWellFoundedOn(less, Nat)
  BY NatLessThanWellFounded
<1>2. \A x \in Nat, y \in Nat : <<x, y>> \in less <=> x < y
  BY DEF OpToRel
<1>3. rest \subseteq Nat /\ rest # {}
  OBVIOUS
<1> HIDE DEF less, rest
<1>4. PICK m \in rest : \A y \in rest : <<y, m>> \notin less
  BY <1>1, <1>3, WFMin
<1>5. m \in Nat /\ m - 1 \in Nat /\ m - 1 < m
  BY <1>4 DEF rest
<1>6. m - 1 \in rest
  <2>1. (m - 1) + 1 = m
    BY <1>5
  <2> QED
    BY <1>4, <1>5, <2>1 DEF rest
<1>7. <<m - 1, m>> \in less
  BY <1>2, <1>5
<1> QED
  BY <1>4, <1>6, <1>7

\* One step of Unanswered, and its run h along s.
Sift(A, x, c) == IF c \in A THEN x ELSE Append(x, c)
Sieve(s, A, h) ==
    h = [n \in 0 .. Len(s) |->
            IF n = 0 THEN << >> ELSE Sift(A, h[n - 1], s[n])]

LEMMA SieveExists ==
  ASSUME NEW s, NEW A, Len(s) \in Nat
  PROVE  \E h : Sieve(s, A, h) /\ Unanswered(s, A) = h[Len(s)]
<1> DEFINE Upto(k, h) ==
             h = [n \in 0 .. k |->
                    IF n = 0 THEN << >> ELSE Sift(A, h[n - 1], s[n])]
           T == {k \in Nat : \E h : Upto(k, h)}
<1>1. 0 \in T
  <2> DEFINE h == [n \in 0 .. 0 |-> << >>]
  <2>1. Upto(0, h)
    OBVIOUS
  <2> HIDE DEF h
  <2> QED
    BY <2>1
<1>2. ASSUME NEW k \in T PROVE k + 1 \in T
  <2>1. PICK h : Upto(k, h)
    OBVIOUS
  <2> DEFINE g == [n \in 0 .. (k + 1) |->
                     IF n = k + 1 THEN Sift(A, h[k], s[k + 1]) ELSE h[n]]
  <2>2. ASSUME NEW n \in 0 .. (k + 1)
        PROVE  g[n] = IF n = 0 THEN << >> ELSE Sift(A, g[n - 1], s[n])
    <3>1. CASE n = k + 1
      BY <3>1
    <3>2. CASE n # k + 1
      BY <2>1, <3>2
    <3> QED
      BY <3>1, <3>2
  <2>3. Upto(k + 1, g)
    BY <2>2
  <2>4. k + 1 \in Nat
    OBVIOUS
  <2> HIDE DEF g
  <2>5. \E f : Upto(k + 1, f)
    BY <2>3
  <2> QED
    BY <2>4, <2>5, Zenon
<1> HIDE DEF T
<1>3. T = Nat
  <2>1. T \in SUBSET Nat
    BY DEF T
  <2> QED
    BY <1>1, <1>2, <2>1, SetInduction
<1>4. \E h : Sieve(s, A, h)
  BY <1>3 DEF T, Sieve
<1> QED
  BY <1>4 DEF Sieve, Unanswered, Sift

LEMMA UnansweredFacts ==
  ASSUME NEW S, NEW s \in Seq(S), NEW A
  PROVE  /\ Unanswered(s, A) \in Seq(S)
         /\ ToSet(Unanswered(s, A)) = ToSet(s) \ A
         /\ IsInjective(s) => IsInjective(Unanswered(s, A))
<1> DEFINE len == Len(s)
<1>1. len \in Nat /\ DOMAIN s = 1 .. len /\ \A i \in 1 .. len : s[i] \in S
  OBVIOUS
<1>2. PICK h : Sieve(s, A, h) /\ Unanswered(s, A) = h[len]
  BY <1>1, SieveExists
<1>3. h[0] = << >> /\ \A n \in 1 .. len : h[n] = Sift(A, h[n - 1], s[n])
  BY <1>1, <1>2 DEF Sieve
<1> DEFINE Good(n) ==
             /\ h[n] \in Seq(S)
             /\ \A j \in 1 .. Len(h[n]) : \E i \in 1 .. n : s[i] = h[n][j] /\ s[i] \notin A
             /\ \A i \in 1 .. n : s[i] \notin A => \E j \in 1 .. Len(h[n]) : h[n][j] = s[i]
             /\ IsInjective(s) => \A i, j \in 1 .. Len(h[n]) : h[n][i] = h[n][j] => i = j
           T == {n \in Nat : n <= len => Good(n)}
<1> HIDE DEF len
<1>4. 0 \in T
  <2>1. Len(<< >>) = 0 /\ << >> \in Seq(S)
    OBVIOUS
  <2>2. Good(0)
    BY <1>3, <2>1
  <2> QED
    BY <2>2
<1>5. ASSUME NEW n \in Nat, Good(n), n + 1 <= len PROVE Good(n + 1)
  <2>1. n + 1 \in 1 .. len /\ (n + 1) - 1 = n
    BY <1>1, <1>5
  <2>2. h[n + 1] = IF s[n + 1] \in A THEN h[n] ELSE Append(h[n], s[n + 1])
    BY <1>3, <2>1 DEF Sift
  <2> DEFINE p == h[n]
             q == h[n + 1]
  <2>3. p \in Seq(S) /\ Len(p) \in Nat
    BY <1>5
  <2>4. CASE s[n + 1] \in A
    <3>1. q = p
      BY <2>2, <2>4
    <3>2. \A i \in 1 .. n + 1 : s[i] \notin A => i \in 1 .. n
      BY <2>4
    <3>3. 1 .. n \subseteq 1 .. n + 1
      OBVIOUS
    <3> QED
      BY <1>5, <3>1, <3>2, <3>3
  <2>5. CASE s[n + 1] \notin A
    <3>1. s[n + 1] \in S
      BY <1>1, <2>1
    <3>2. q = Append(p, s[n + 1])
      BY <2>2, <2>5
    <3> HIDE DEF p, q
    <3>3. q \in Seq(S) /\ Len(q) = Len(p) + 1 /\ q[Len(p) + 1] = s[n + 1]
          /\ \A i \in 1 .. Len(p) : q[i] = p[i]
      BY <2>3, <3>1, <3>2
    <3>4. \A j \in 1 .. Len(q) : j = Len(p) + 1 \/ j \in 1 .. Len(p)
      BY <2>3, <3>3
    <3>5. \A i \in 1 .. n + 1 : i = n + 1 \/ i \in 1 .. n
      OBVIOUS
    <3>6. /\ \A j \in 1 .. Len(p) : \E i \in 1 .. n : s[i] = p[j] /\ s[i] \notin A
          /\ \A i \in 1 .. n : s[i] \notin A => \E j \in 1 .. Len(p) : p[j] = s[i]
          /\ IsInjective(s) => \A i, j \in 1 .. Len(p) : p[i] = p[j] => i = j
      BY <1>5 DEF p
    <3>7. \A j \in 1 .. Len(q) : \E i \in 1 .. n + 1 : s[i] = q[j] /\ s[i] \notin A
      <4> TAKE j \in 1 .. Len(q)
      <4>1. CASE j = Len(p) + 1
        BY <2>5, <3>3, <4>1
      <4>2. CASE j \in 1 .. Len(p)
        <5>1. PICK i \in 1 .. n : s[i] = p[j] /\ s[i] \notin A
          BY <3>6, <4>2
        <5>2. i \in 1 .. n + 1
          OBVIOUS
        <5> QED
          BY <3>3, <4>2, <5>1, <5>2
      <4> QED
        BY <3>4, <4>1, <4>2
    <3>8. \A i \in 1 .. n + 1 : s[i] \notin A => \E j \in 1 .. Len(q) : q[j] = s[i]
      <4> SUFFICES ASSUME NEW i \in 1 .. n + 1, s[i] \notin A PROVE \E j \in 1 .. Len(q) : q[j] = s[i]
        OBVIOUS
      <4>1. CASE i = n + 1
        BY <2>3, <3>3, <4>1
      <4>2. CASE i \in 1 .. n
        <5>1. PICK j \in 1 .. Len(p) : p[j] = s[i]
          BY <3>6, <4>2
        <5>2. j \in 1 .. Len(q)
          BY <2>3, <3>3
        <5> QED
          BY <3>3, <5>1, <5>2
      <4> QED
        BY <3>5, <4>1, <4>2
    <3>9. IsInjective(s) => \A i, j \in 1 .. Len(q) : q[i] = q[j] => i = j
      <4> SUFFICES ASSUME IsInjective(s), NEW i \in 1 .. Len(q), NEW j \in 1 .. Len(q), q[i] = q[j]
                   PROVE  i = j
        OBVIOUS
      <4>1. \A k \in 1 .. Len(p) : p[k] # s[n + 1]
        <5> SUFFICES ASSUME NEW k \in 1 .. Len(p), p[k] = s[n + 1] PROVE FALSE
          OBVIOUS
        <5>1. PICK m \in 1 .. n : s[m] = p[k]
          BY <3>6
        <5>2. m \in DOMAIN s /\ n + 1 \in DOMAIN s /\ m # n + 1
          BY <1>1, <2>1
        <5> QED
          BY <5>1, <5>2 DEF IsInjective
      <4> QED
        BY <3>3, <3>4, <3>6, <4>1
    <3> QED
      BY <3>3, <3>7, <3>8, <3>9 DEF q
  <2> QED
    BY <2>4, <2>5
<1>6. ASSUME NEW n \in T PROVE n + 1 \in T
  <2>1. CASE n + 1 <= len
    <3>1. n \in Nat /\ n <= len
      BY <1>1, <2>1
    <3>2. Good(n)
      BY <3>1
    <3>3. Good(n + 1)
      BY <1>5, <2>1, <3>1, <3>2
    <3> QED
      BY <3>1, <3>3
  <2>2. CASE ~(n + 1 <= len)
    BY <2>2
  <2> QED
    BY <2>1, <2>2
<1>7. Good(len)
  <2>1. T \in SUBSET Nat
    OBVIOUS
  <2> HIDE DEF T
  <2>2. T = Nat
    BY <1>4, <1>6, <2>1, SetInduction
  <2>3. len <= len
    BY <1>1
  <2> QED
    BY <1>1, <2>2, <2>3 DEF T
<1> DEFINE u == h[len]
<1>8. u \in Seq(S) /\ DOMAIN u = 1 .. Len(u)
  BY <1>7
<1>9. ToSet(u) = ToSet(s) \ A
  <2>1. /\ \A j \in DOMAIN u : \E i \in DOMAIN s : s[i] = u[j] /\ s[i] \notin A
        /\ \A i \in DOMAIN s : s[i] \notin A => \E j \in DOMAIN u : u[j] = s[i]
    BY <1>1, <1>7, <1>8
  <2> HIDE DEF u
  <2> QED
    BY <2>1 DEF ToSet
<1>10. IsInjective(s) => IsInjective(u)
  BY <1>7, <1>8 DEF IsInjective
<1> QED
  BY <1>2, <1>8, <1>9, <1>10

-----------------------------------------------------------------------------
(* Pending calls of a conversation *)

LEMMA CallsTyped ==
  ASSUME NEW m \in Messages
  PROVE  /\ CallsOf(m) \in Seq(Nat)
         /\ m.role # "assistant" => CallsOf(m) = << >>
         /\ m.role \in {"user", "assistant", "result"}
         /\ m.role = "result" => m \in Results
  BY DEF Messages, UserMessages, Assistants, Results, CallsOf

LEMMA RolesDiffer ==
  /\ \A m \in UserMessages : m.role = "user"
  /\ \A m \in Assistants : m.role = "assistant"
  /\ \A m \in Results : m.role = "result"
  BY DEF UserMessages, Assistants, Results

\* i is the last message of M that is not a result.
LastSaid(M, i) ==
    /\ i \in 1 .. Len(M) /\ M[i].role # "result"
    /\ \A j \in i + 1 .. Len(M) : M[j].role = "result"

LEMMA LastSaidExists ==
  ASSUME NEW S, NEW M \in Seq(S)
  PROVE  (\A i \in DOMAIN M : M[i].role = "result") \/ \E i : LastSaid(M, i)
<1> DEFINE Good(n) == \/ \A i \in 1 .. n : M[i].role = "result"
                      \/ \E i \in 1 .. n : /\ M[i].role # "result"
                                           /\ \A j \in i + 1 .. n : M[j].role = "result"
           T == {n \in Nat : Good(n)}
<1>1. 0 \in T
  OBVIOUS
<1>2. ASSUME NEW n \in T PROVE n + 1 \in T
  <2>1. n \in Nat /\ Good(n)
    OBVIOUS
  <2>2. Good(n + 1)
    <3>1. CASE M[n + 1].role # "result"
      <4>1. n + 1 \in 1 .. n + 1 /\ \A j \in (n + 1) + 1 .. n + 1 : FALSE
        BY <2>1
      <4> QED
        BY <3>1, <4>1
    <3>2. CASE M[n + 1].role = "result"
      <4>0. \A i \in 1 .. n + 1 : i \in 1 .. n \/ i = n + 1
        BY <2>1
      <4>1. CASE \A i \in 1 .. n : M[i].role = "result"
        BY <3>2, <4>0, <4>1
      <4>2. CASE \E i \in 1 .. n : M[i].role # "result" /\ \A j \in i + 1 .. n : M[j].role = "result"
        <5>1. PICK i \in 1 .. n : M[i].role # "result" /\ \A j \in i + 1 .. n : M[j].role = "result"
          BY <4>2
        <5>2. i \in 1 .. n + 1 /\ \A j \in i + 1 .. n + 1 : j \in i + 1 .. n \/ j = n + 1
          BY <2>1
        <5> QED
          BY <3>2, <5>1, <5>2
      <4> QED
        BY <2>1, <4>1, <4>2
    <3> QED
      BY <3>1, <3>2
  <2> QED
    BY <2>1, <2>2
<1>3. Good(Len(M))
  <2>1. T \in SUBSET Nat
    OBVIOUS
  <2> HIDE DEF T
  <2>2. T = Nat
    BY <1>1, <1>2, <2>1, SetInduction
  <2>3. Len(M) \in Nat
    OBVIOUS
  <2> QED
    BY <2>2, <2>3 DEF T
<1> QED
  BY <1>3 DEF LastSaid

LEMMA PendingNone ==
  ASSUME NEW M, \A i \in DOMAIN M : M[i].role = "result"
  PROVE  Pending(M) = << >>
  BY DEF Pending

LEMMA PendingAt ==
  ASSUME NEW S, NEW M \in Seq(S), NEW i, LastSaid(M, i)
  PROVE  Pending(M) = Unanswered(CallsOf(M[i]), AnsweredAfter(M, i))
<1> DEFINE P(k) == M[k].role # "result" /\ \A j \in k + 1 .. Len(M) : M[j].role = "result"
           c == CHOOSE k \in DOMAIN M : P(k)
<1>1. DOMAIN M = 1 .. Len(M) /\ Len(M) \in Nat
  OBVIOUS
<1>2. i \in DOMAIN M /\ P(i)
  BY <1>1 DEF LastSaid
<1>3. c \in DOMAIN M /\ P(c)
  BY <1>2
<1>4. c = i
  <2>1. CASE c < i
    <3>1. i \in c + 1 .. Len(M)
      BY <1>1, <1>2, <1>3, <2>1
    <3> QED
      BY <1>2, <1>3, <3>1
  <2>2. CASE i < c
    <3>1. c \in i + 1 .. Len(M)
      BY <1>1, <1>2, <1>3, <2>2
    <3> QED
      BY <1>2, <1>3, <3>1
  <2> HIDE DEF c
  <2> QED
    BY <1>1, <1>2, <1>3, <2>1, <2>2
<1>5. ~(\A k \in DOMAIN M : M[k].role = "result")
  BY <1>2
<1>6. Pending(M) = Unanswered(CallsOf(M[c]), AnsweredAfter(M, c))
  <2> DEFINE open == [k \in DOMAIN M |-> Unanswered(CallsOf(M[k]), AnsweredAfter(M, k))]
  <2>1. Pending(M) = open[c]
    BY <1>5 DEF Pending
  <2> HIDE DEF c
  <2>2. open[c] = Unanswered(CallsOf(M[c]), AnsweredAfter(M, c))
    BY <1>3
  <2> QED
    BY <2>1, <2>2
<1> HIDE DEF c
<1> QED
  BY <1>4, <1>6

LEMMA PendingTyped ==
  ASSUME NEW M \in Seq(Messages)
  PROVE  /\ Pending(M) \in Seq(Nat)
         /\ (\A i \in DOMAIN M : IsInjective(CallsOf(M[i]))) => IsInjective(Pending(M))
<1>1. CASE \A i \in DOMAIN M : M[i].role = "result"
  <2>1. Pending(M) = << >>
    BY <1>1, PendingNone
  <2>2. << >> \in Seq(Nat) /\ IsInjective(<< >>)
    BY DEF IsInjective
  <2> QED
    BY <2>1, <2>2
<1>2. ASSUME NEW i, LastSaid(M, i)
      PROVE  /\ Pending(M) \in Seq(Nat)
             /\ (\A k \in DOMAIN M : IsInjective(CallsOf(M[k]))) => IsInjective(Pending(M))
  <2>1. Pending(M) = Unanswered(CallsOf(M[i]), AnsweredAfter(M, i))
    BY <1>2, PendingAt
  <2>2. i \in DOMAIN M /\ M[i] \in Messages
    BY <1>2 DEF LastSaid
  <2>3. CallsOf(M[i]) \in Seq(Nat)
    BY <2>2, CallsTyped
  <2> QED
    BY <2>1, <2>2, <2>3, UnansweredFacts
<1> QED
  BY <1>1, <1>2, LastSaidExists

\* A set of calls, as the answers to it leave it.
LEMMA OpenAt ==
  ASSUME NEW M \in Seq(Messages), NEW i, LastSaid(M, i)
  PROVE  Open(M) = ToSet(CallsOf(M[i])) \ AnsweredAfter(M, i)
<1>1. Pending(M) = Unanswered(CallsOf(M[i]), AnsweredAfter(M, i))
  BY PendingAt
<1>2. i \in DOMAIN M /\ M[i] \in Messages
  BY DEF LastSaid
<1>3. CallsOf(M[i]) \in Seq(Nat)
  BY <1>2, CallsTyped
<1> QED
  BY <1>1, <1>3, UnansweredFacts DEF Open

LEMMA OpenNone ==
  ASSUME NEW M, \A i \in DOMAIN M : M[i].role = "result"
  PROVE  Open(M) = {}
<1>1. ToSet(<< >>) = {}
  BY DEF ToSet
<1> QED
  BY <1>1, PendingNone DEF Open

LEMMA OpenSaid ==
  ASSUME NEW M \in Seq(Messages), NEW m \in Messages, m.role # "result"
  PROVE  Open(Append(M, m)) = ToSet(CallsOf(m))
<1> DEFINE L == Append(M, m)
           k == Len(M) + 1
<1>1. L \in Seq(Messages) /\ Len(L) = k /\ L[k] = m /\ k \in Nat /\ 1 <= k /\ DOMAIN L = 1 .. k
  OBVIOUS
<1> HIDE DEF L, k
<1>2. LastSaid(L, k)
  BY <1>1 DEF LastSaid
<1>3. AnsweredAfter(L, k) = {}
  BY <1>1 DEF AnsweredAfter
<1> QED
  BY <1>1, <1>2, <1>3, OpenAt DEF L

LEMMA OpenAnswered ==
  ASSUME NEW M \in Seq(Messages), NEW s \in Seq(Results)
  PROVE  Open(M \o s) = Open(M) \ {s[i].call : i \in DOMAIN s}
<1> DEFINE L == M \o s
           m == Len(M)
           n == Len(s)
<1>0. Results \subseteq Messages
  BY DEF Messages
<1>1. /\ m \in Nat /\ n \in Nat /\ DOMAIN M = 1 .. m /\ DOMAIN s = 1 .. n
      /\ \A j \in 1 .. n : s[j] \in Results
  OBVIOUS
<1>2. s \in Seq(Messages)
  BY <1>0
<1>3. /\ L \in Seq(Messages) /\ Len(L) = m + n /\ DOMAIN L = 1 .. m + n
      /\ \A i \in 1 .. m : L[i] = M[i]
      /\ \A j \in 1 .. n : L[m + j] = s[j]
  BY <1>2
<1> HIDE DEF L, m, n
<1>4. \A j \in 1 .. m + n : j \in 1 .. m \/ (j - m \in 1 .. n /\ j = m + (j - m))
  BY <1>1
<1>5. \A j \in m + 1 .. m + n : j - m \in 1 .. n /\ j = m + (j - m)
  BY <1>1
<1>6. \A j \in m + 1 .. m + n : L[j].role = "result" /\ L[j] = s[j - m]
  BY <1>1, <1>3, <1>5, RolesDiffer
<1>7. CASE \A i \in DOMAIN M : M[i].role = "result"
  <2>1. \A i \in DOMAIN L : L[i].role = "result"
    <3> TAKE i \in DOMAIN L
    <3>1. CASE i \in 1 .. m
      BY <1>1, <1>3, <1>7, <3>1
    <3>2. CASE i \in m + 1 .. m + n
      BY <1>6, <3>2
    <3> QED
      BY <1>1, <1>3, <3>1, <3>2
  <2>2. Open(L) = {} /\ Open(M) = {}
    BY <1>7, <2>1, OpenNone
  <2> QED
    BY <2>2 DEF L
<1>8. ASSUME NEW i, LastSaid(M, i) PROVE Open(L) = Open(M) \ {s[j].call : j \in DOMAIN s}
  <2>1. i \in 1 .. m /\ M[i].role # "result" /\ \A j \in i + 1 .. m : M[j].role = "result"
    BY <1>8 DEF LastSaid, m
  <2>2. L[i] = M[i] /\ i \in 1 .. m + n
    BY <1>1, <1>3, <2>1
  <2>3. \A j \in i + 1 .. m + n : j \in i + 1 .. m \/ j \in m + 1 .. m + n
    BY <1>1, <2>1
  <2>4. \A j \in i + 1 .. m : L[j] = M[j]
    BY <1>1, <1>3, <2>1
  <2>5. LastSaid(L, i)
    BY <1>3, <1>6, <2>1, <2>2, <2>3, <2>4 DEF LastSaid
  <2>6. AnsweredAfter(L, i) = AnsweredAfter(M, i) \cup {s[j].call : j \in DOMAIN s}
    <3>1. ASSUME NEW c \in AnsweredAfter(L, i)
          PROVE  c \in AnsweredAfter(M, i) \cup {s[j].call : j \in DOMAIN s}
      <4>1. PICK k \in 1 .. m + n : k > i /\ L[k].role = "result" /\ c = L[k].call
        BY <1>3, <3>1 DEF AnsweredAfter
      <4>2. CASE k \in 1 .. m
        BY <1>1, <1>3, <4>1, <4>2 DEF AnsweredAfter
      <4>3. CASE k - m \in 1 .. n /\ k = m + (k - m)
        <5>1. L[k] = s[k - m]
          BY <1>3, <4>3
        <5> QED
          BY <1>1, <4>1, <4>3, <5>1
      <4> QED
        BY <1>4, <4>2, <4>3
    <3>2. ASSUME NEW c \in AnsweredAfter(M, i) PROVE c \in AnsweredAfter(L, i)
      <4>1. PICK k \in 1 .. m : k > i /\ M[k].role = "result" /\ c = M[k].call
        BY <1>1, <3>2 DEF AnsweredAfter
      <4>2. k \in 1 .. m + n /\ L[k] = M[k]
        BY <1>1, <1>3
      <4> QED
        BY <1>3, <4>1, <4>2 DEF AnsweredAfter
    <3>3. ASSUME NEW j \in DOMAIN s PROVE s[j].call \in AnsweredAfter(L, i)
      <4>1. m + j \in DOMAIN L /\ m + j > i /\ L[m + j] = s[j]
        BY <1>1, <1>3, <2>1
      <4>2. L[m + j].role = "result"
        BY <1>1, <4>1, RolesDiffer
      <4> QED
        BY <4>1, <4>2 DEF AnsweredAfter
    <3> QED
      BY <3>1, <3>2, <3>3
  <2>7. Open(L) = ToSet(CallsOf(M[i])) \ AnsweredAfter(L, i)
    BY <1>3, <2>2, <2>5, OpenAt
  <2>8. Open(M) = ToSet(CallsOf(M[i])) \ AnsweredAfter(M, i)
    BY <1>8, OpenAt
  <2> QED
    BY <2>6, <2>7, <2>8
<1> QED
  BY <1>7, <1>8, LastSaidExists DEF L

LEMMA OpenResult ==
  ASSUME NEW M \in Seq(Messages), NEW r \in Results
  PROVE  Open(Append(M, r)) = Open(M) \ {r.call}
<1> DEFINE s == <<r>>
<1>1. s \in Seq(Results) /\ DOMAIN s = {1} /\ s[1] = r
  OBVIOUS
<1>2. Append(M, r) = M \o s
  OBVIOUS
<1> HIDE DEF s
<1>3. {s[i].call : i \in DOMAIN s} = {r.call}
  BY <1>1
<1> QED
  BY <1>1, <1>2, <1>3, OpenAnswered

LEMMA OpenTyped ==
  ASSUME NEW M \in Seq(Messages)
  PROVE  /\ Open(M) \subseteq Nat /\ (Open(M) = {} <=> Pending(M) = << >>)
         /\ Open(M) \subseteq CallIds(M)
<1>1. Pending(M) \in Seq(Nat)
  BY PendingTyped
<1>2. Open(M) \subseteq Nat /\ (Open(M) = {} <=> Pending(M) = << >>)
  <2> DEFINE p == Pending(M)
  <2>1. p \in Seq(Nat) /\ Len(p) \in Nat /\ DOMAIN p = 1 .. Len(p)
    BY <1>1
  <2> HIDE DEF p
  <2>2. \A x \in ToSet(p) : \E i \in 1 .. Len(p) : x = p[i]
    BY <2>1 DEF ToSet
  <2>3. \A i \in 1 .. Len(p) : p[i] \in ToSet(p) /\ p[i] \in Nat
    BY <2>1 DEF ToSet
  <2>4. p = << >> <=> Len(p) = 0
    BY <2>1
  <2>5. Len(p) = 0 \/ 1 \in 1 .. Len(p)
    BY <2>1
  <2>6. Len(p) = 0 => 1 .. Len(p) = {}
    OBVIOUS
  <2> QED
    BY <2>2, <2>3, <2>4, <2>5, <2>6 DEF Open, p
<1>3. ASSUME NEW i, LastSaid(M, i) PROVE Open(M) \subseteq CallIds(M)
  <2>1. Open(M) \subseteq ToSet(CallsOf(M[i])) /\ i \in DOMAIN M
    BY <1>3, OpenAt DEF LastSaid
  <2> QED
    BY <2>1 DEF CallIds
<1> QED
  BY <1>2, <1>3, OpenNone, LastSaidExists

LEMMA OpenEmpty == Open(<< >>) = {} /\ << >> \in Seq(Messages)
<1>1. \A i \in DOMAIN << >> : <<>>[i].role = "result"
  OBVIOUS
<1> QED
  BY <1>1, OpenNone

-----------------------------------------------------------------------------
(* Conversations that grow *)

LEMMA WidthGrows ==
  ASSUME NEW n \in Nat, NEW k \in Nat
  PROVE  /\ (IdWidth + 1) * n \in Nat /\ (IdWidth + 1) * (n + k) \in Nat
         /\ (IdWidth + 1) * n <= (IdWidth + 1) * (n + k)
         /\ (IdWidth + 1) * (n + 1) = (IdWidth + 1) * n + IdWidth + 1
         /\ IdWidth \in Nat
<1>1. IdWidth \in Nat
  BY AgentAssumption
<1>2. (IdWidth + 1) * (n + k) = (IdWidth + 1) * n + (IdWidth + 1) * k
  BY <1>1
<1>3. (IdWidth + 1) * n \in Nat /\ (IdWidth + 1) * k \in Nat
  BY <1>1
<1>4. (IdWidth + 1) * (n + 1) = (IdWidth + 1) * n + IdWidth + 1
  BY <1>1
<1> QED
  BY <1>1, <1>2, <1>3, <1>4

LEMMA BoundedGrows ==
  ASSUME NEW S \in SUBSET Nat, NEW n \in Nat, NEW k \in Nat, Bounded(S, n)
  PROVE  Bounded(S, n + k)
<1> SUFFICES ASSUME NEW c \in S PROVE c < (IdWidth + 1) * (n + k)
  BY DEF Bounded
<1>1. c < (IdWidth + 1) * n /\ c \in Nat
  BY DEF Bounded
<1> DEFINE x == (IdWidth + 1) * n
           y == (IdWidth + 1) * (n + k)
<1>2. x \in Nat /\ y \in Nat /\ x <= y
  BY WidthGrows
<1> HIDE DEF x, y
<1>3. c < x
  BY <1>1 DEF x
<1>4. c < y
  BY <1>1, <1>2, <1>3
<1> QED
  BY <1>4 DEF y

LEMMA IdsTyped ==
  ASSUME NEW M \in Seq(Messages)
  PROVE  CallIds(M) \subseteq Nat
<1> SUFFICES ASSUME NEW i \in DOMAIN M PROVE ToSet(CallsOf(M[i])) \subseteq Nat
  BY DEF CallIds
<1>1. CallsOf(M[i]) \in Seq(Nat)
  BY CallsTyped
<1> QED
  BY <1>1 DEF ToSet

LEMMA IdsSaid ==
  ASSUME NEW M \in Seq(Messages), NEW m \in Messages
  PROVE  CallIds(Append(M, m)) = CallIds(M) \cup ToSet(CallsOf(m))
<1> DEFINE L == Append(M, m)
           k == Len(M) + 1
<1>1. /\ k \in Nat /\ DOMAIN M = 1 .. Len(M) /\ DOMAIN L = 1 .. k /\ L[k] = m
      /\ \A i \in 1 .. Len(M) : L[i] = M[i]
      /\ Len(M) \in Nat
  OBVIOUS
<1>2. \A i \in 1 .. k : i = k \/ i \in 1 .. Len(M)
  BY <1>1
<1>3. k \in 1 .. k /\ \A i \in 1 .. Len(M) : i \in 1 .. k
  BY <1>1
<1> HIDE DEF L, k
<1> QED
  BY <1>1, <1>2, <1>3 DEF CallIds, L

LEMMA IdsAnswered ==
  ASSUME NEW M \in Seq(Messages), NEW s \in Seq(Results)
  PROVE  /\ M \o s \in Seq(Messages) /\ Len(M \o s) = Len(M) + Len(s)
         /\ \A i \in DOMAIN M : i \in DOMAIN (M \o s) /\ (M \o s)[i] = M[i]
         /\ \A j \in DOMAIN s : Len(M) + j \in DOMAIN (M \o s) /\ (M \o s)[Len(M) + j] = s[j]
         /\ \A i \in DOMAIN (M \o s) : i \in DOMAIN M \/ (i - Len(M) \in DOMAIN s /\ (M \o s)[i] = s[i - Len(M)])
         /\ CallIds(M \o s) = CallIds(M)
<1> DEFINE L == M \o s
           m == Len(M)
           n == Len(s)
<1>0. Results \subseteq Messages
  BY DEF Messages
<1>1. /\ m \in Nat /\ n \in Nat /\ DOMAIN M = 1 .. m /\ DOMAIN s = 1 .. n
      /\ \A j \in 1 .. n : s[j] \in Results
  OBVIOUS
<1>2. s \in Seq(Messages)
  BY <1>0
<1>3. /\ L \in Seq(Messages) /\ Len(L) = m + n /\ DOMAIN L = 1 .. m + n
      /\ \A i \in 1 .. m : L[i] = M[i]
      /\ \A j \in 1 .. n : L[m + j] = s[j]
  BY <1>2
<1> HIDE DEF L, m, n
<1>4. \A i \in 1 .. m + n : i \in 1 .. m \/ (i - m \in 1 .. n /\ i = m + (i - m))
  BY <1>1
<1>5. \A i \in 1 .. m + n : i \in 1 .. m \/ (i - m \in 1 .. n /\ L[i] = s[i - m])
  BY <1>3, <1>4
<1>6. (\A i \in 1 .. m : i \in 1 .. m + n) /\ (\A j \in 1 .. n : m + j \in 1 .. m + n)
  BY <1>1
<1>7. \A j \in 1 .. n : ToSet(CallsOf(s[j])) = {}
  <2> TAKE j \in 1 .. n
  <2>1. CallsOf(s[j]) = << >>
    BY <1>0, <1>1, RolesDiffer, CallsTyped
  <2> QED
    BY <2>1 DEF ToSet
<1>8. CallIds(L) = CallIds(M)
  <2>1. ASSUME NEW i \in DOMAIN L PROVE ToSet(CallsOf(L[i])) \subseteq CallIds(M)
    BY <1>1, <1>3, <1>5, <1>7 DEF CallIds
  <2>2. ASSUME NEW i \in DOMAIN M PROVE ToSet(CallsOf(M[i])) \subseteq CallIds(L)
    <3>1. i \in DOMAIN L /\ L[i] = M[i]
      BY <1>1, <1>3, <1>6
    <3> QED
      BY <3>1 DEF CallIds
  <2>3. CallIds(L) \subseteq CallIds(M)
    BY <2>1 DEF CallIds
  <2>4. CallIds(M) \subseteq CallIds(L)
    BY <2>2 DEF CallIds
  <2> QED
    BY <2>3, <2>4
<1> QED
  BY <1>1, <1>3, <1>5, <1>6, <1>8 DEF L, m, n

LEMMA LogSaid ==
  ASSUME NEW M, LogOK(M), NEW m \in Messages, IsInjective(CallsOf(m)),
         Bounded(ToSet(CallsOf(m)), Len(M) + 2)
  PROVE  LogOK(Append(M, m))
<1> DEFINE L == Append(M, m)
           k == Len(M) + 1
<1>1. M \in Seq(Messages) /\ Bounded(CallIds(M), k) /\ k \in Nat
  BY DEF LogOK
<1>2. CallIds(L) = CallIds(M) \cup ToSet(CallsOf(m))
  BY <1>1, IdsSaid
<1>3. L \in Seq(Messages) /\ Len(L) = k /\ DOMAIN L = 1 .. k /\ L[k] = m
      /\ \A i \in 1 .. Len(M) : L[i] = M[i]
  BY <1>1
<1>4. Bounded(CallIds(M), k + 1)
  BY <1>1, IdsTyped, BoundedGrows
<1>5. Len(M) + 2 = k + 1
  BY <1>1
<1>6. Bounded(ToSet(CallsOf(m)), k + 1)
  BY <1>5
<1>7. Bounded(CallIds(L), Len(L) + 1)
  BY <1>2, <1>3, <1>4, <1>6 DEF Bounded
<1>8. \A i \in 1 .. k : i = k \/ i \in 1 .. Len(M)
  BY <1>1
<1>9. \A i \in 1 .. Len(M) : IsInjective(CallsOf(M[i]))
  BY <1>1 DEF LogOK
<1> HIDE DEF L, k
<1>10. \A i \in DOMAIN L : IsInjective(CallsOf(L[i]))
  BY <1>3, <1>8, <1>9
<1> QED
  BY <1>3, <1>7, <1>10 DEF LogOK, L

LEMMA LogAnswered ==
  ASSUME NEW M, LogOK(M), NEW s \in Seq(Results)
  PROVE  LogOK(M \o s) /\ Open(M \o s) = Open(M) \ {s[i].call : i \in DOMAIN s}
<1> DEFINE L == M \o s
<1>1. M \in Seq(Messages) /\ Bounded(CallIds(M), Len(M) + 1) /\ Len(M) \in Nat /\ Len(s) \in Nat
  BY DEF LogOK
<1>2. /\ L \in Seq(Messages) /\ Len(L) = Len(M) + Len(s) /\ CallIds(L) = CallIds(M)
      /\ \A i \in DOMAIN M : i \in DOMAIN L /\ L[i] = M[i]
      /\ \A i \in DOMAIN L : i \in DOMAIN M \/ (i - Len(M) \in DOMAIN s /\ L[i] = s[i - Len(M)])
  BY <1>1, IdsAnswered
<1>3. Open(L) = Open(M) \ {s[i].call : i \in DOMAIN s}
  BY <1>1, OpenAnswered
<1> HIDE DEF L
<1>4. Bounded(CallIds(M), (Len(M) + 1) + Len(s))
  BY <1>1, IdsTyped, BoundedGrows
<1>5. (Len(M) + 1) + Len(s) = Len(L) + 1
  BY <1>1, <1>2
<1>6. \A i \in DOMAIN L : IsInjective(CallsOf(L[i]))
  <2> TAKE i \in DOMAIN L
  <2>1. CASE i \in DOMAIN M
    BY <1>2, <2>1 DEF LogOK
  <2>2. CASE i - Len(M) \in DOMAIN s /\ L[i] = s[i - Len(M)]
    <3>1. L[i] \in Results
      BY <2>2
    <3>2. CallsOf(L[i]) = << >>
      BY <3>1, RolesDiffer, CallsTyped DEF Messages
    <3> QED
      BY <3>2 DEF IsInjective
  <2> QED
    BY <1>2, <2>1, <2>2
<1>7. LogOK(L)
  BY <1>2, <1>4, <1>5, <1>6 DEF LogOK
<1> QED
  BY <1>3, <1>7 DEF L

LEMMA LogResult ==
  ASSUME NEW M, LogOK(M), NEW r \in Results
  PROVE  LogOK(Append(M, r)) /\ Open(Append(M, r)) = Open(M) \ {r.call}
<1> DEFINE s == <<r>>
<1>1. s \in Seq(Results) /\ M \in Seq(Messages)
  BY DEF LogOK
<1>2. Append(M, r) = M \o s
  BY <1>1
<1> HIDE DEF s
<1> QED
  BY <1>1, <1>2, LogAnswered, OpenResult

-----------------------------------------------------------------------------
(* Repairs *)

LEMMA RepairedFacts ==
  ASSUME NEW M, LogOK(M)
  PROVE  \E s \in Seq(Results) :
            /\ Repaired(M) = M \o s
            /\ {s[i].call : i \in DOMAIN s} = Open(M)
            /\ \A i \in DOMAIN s, j \in DOMAIN s : s[i].call = s[j].call => i = j
            /\ Open(M) = {} => s = << >>
<1> DEFINE p == Pending(M)
           s == [i \in DOMAIN p |-> ToolResult(p[i], "repaired")]
<1>1. M \in Seq(Messages) /\ p \in Seq(Nat) /\ IsInjective(p)
  BY PendingTyped DEF LogOK
<1>2. Repaired(M) = M \o s
  BY DEF Repaired
<1>3. Open(M) = {p[i] : i \in DOMAIN p} /\ (Open(M) = {} => p = << >>)
  <2>1. Open(M) = {} => p = << >>
    BY <1>1, OpenTyped
  <2> QED
    BY <2>1 DEF Open, ToSet
<1> HIDE DEF p
<1>4. s \in Seq(Results)
  <2>1. \A c \in Nat : ToolResult(c, "repaired") \in Results
    BY DEF ToolResult, Results, Kinds
  <2>2. DOMAIN p = 1 .. Len(p) /\ Len(p) \in Nat /\ \A i \in DOMAIN p : p[i] \in Nat
    BY <1>1
  <2>3. s \in [1 .. Len(p) -> Results]
    BY <2>1, <2>2
  <2> HIDE DEF s
  <2> QED
    BY <2>2, <2>3
<1>5. DOMAIN s = DOMAIN p /\ \A i \in DOMAIN s : s[i].call = p[i]
  BY DEF ToolResult
<1>6. p = << >> => s = << >>
  BY <1>1
<1> HIDE DEF s
<1>7. \A i \in DOMAIN s, j \in DOMAIN s : s[i].call = s[j].call => i = j
  BY <1>1, <1>5 DEF IsInjective
<1>8. {s[i].call : i \in DOMAIN s} = Open(M)
  BY <1>3, <1>5
<1> QED
  BY <1>2, <1>3, <1>4, <1>6, <1>7, <1>8

LEMMA RepairedClosed ==
  ASSUME NEW M, LogOK(M), Open(M) = {}
  PROVE  Repaired(M) = M
<1>1. PICK s \in Seq(Results) : Repaired(M) = M \o s /\ s = << >>
  BY RepairedFacts
<1>2. M \in Seq(Messages) /\ M \o << >> = M
  BY DEF LogOK
<1> QED
  BY <1>1, <1>2

\* s has the staged results of the open calls, each once.
Supplies(M, S, s) ==
    /\ \A i \in DOMAIN s : s[i] \in S /\ s[i].call \in Open(M)
    /\ \A r \in S : r.call \in Open(M) => \E i \in DOMAIN s : s[i].call = r.call
    /\ \A i \in DOMAIN s, j \in DOMAIN s : s[i].call = s[j].call => i = j

LEMMA MaterializedFacts ==
  ASSUME NEW M, LogOK(M), NEW S \in SUBSET Results
  PROVE  \E s \in Seq(Results) : Materialized(M, S) = M \o s /\ Supplies(M, S, s)
<1> DEFINE p == Pending(M)
           unknown == ToSet(p) \ {r.call : r \in S}
           k == Unanswered(p, unknown)
           s == [i \in DOMAIN k |-> CHOOSE r \in S : r.call = k[i]]
<1>1. M \in Seq(Messages) /\ p \in Seq(Nat) /\ IsInjective(p)
  BY PendingTyped DEF LogOK
<1>2. Materialized(M, S) = M \o s
  BY DEF Materialized
<1>3. Open(M) = ToSet(p)
  BY DEF Open
<1>4. k \in Seq(Nat) /\ ToSet(k) = ToSet(p) \ unknown /\ IsInjective(k)
  BY <1>1, UnansweredFacts
<1> HIDE DEF p
<1>5. ToSet(k) = ToSet(p) \cap {r.call : r \in S}
  BY <1>4
<1> HIDE DEF k, unknown
<1>6. \A i \in DOMAIN k : k[i] \in ToSet(k)
  BY DEF ToSet
<1>7. ASSUME NEW i \in DOMAIN k PROVE s[i] \in S /\ s[i].call = k[i]
  <2>1. \E r \in S : r.call = k[i]
    BY <1>5, <1>6
  <2> QED
    BY <2>1
<1>8. DOMAIN s = DOMAIN k /\ DOMAIN k = 1 .. Len(k) /\ Len(k) \in Nat
  BY <1>4
<1>9. s \in Seq(Results)
  <2>1. s \in [1 .. Len(k) -> Results]
    BY <1>7, <1>8
  <2> HIDE DEF s
  <2> QED
    BY <1>8, <2>1
<1> HIDE DEF s
<1>10. \A i \in DOMAIN s : s[i] \in S /\ s[i].call \in Open(M)
  BY <1>3, <1>5, <1>6, <1>7, <1>8
<1>11. ASSUME NEW r \in S, r.call \in Open(M) PROVE \E i \in DOMAIN s : s[i].call = r.call
  <2>1. r.call \in ToSet(k)
    BY <1>3, <1>5, <1>11
  <2>2. PICK i \in DOMAIN k : k[i] = r.call
    BY <2>1 DEF ToSet
  <2> QED
    BY <1>7, <1>8, <2>2
<1>12. \A i \in DOMAIN s, j \in DOMAIN s : s[i].call = s[j].call => i = j
  BY <1>4, <1>7, <1>8 DEF IsInjective
<1>13. Supplies(M, S, s)
  BY <1>10, <1>11, <1>12 DEF Supplies
<1> QED
  BY <1>2, <1>9, <1>13

-----------------------------------------------------------------------------
(* User messages *)

LEMMA SaidSame ==
  ASSUME NEW M \in Seq(Messages), NEW m \in Messages, m.role # "user"
  PROVE  SaidBy(Append(M, m)) = SaidBy(M) /\ (SaidOnce(M) => SaidOnce(Append(M, m)))
<1> DEFINE L == Append(M, m)
           k == Len(M) + 1
<1>1. /\ DOMAIN M = 1 .. Len(M) /\ DOMAIN L = 1 .. k /\ L[k] = m /\ Len(M) \in Nat
      /\ \A i \in 1 .. Len(M) : L[i] = M[i]
  OBVIOUS
<1>2. \A i \in 1 .. k : i = k \/ i \in 1 .. Len(M)
  BY <1>1
<1>3. \A i \in 1 .. Len(M) : i \in 1 .. k
  BY <1>1
<1> HIDE DEF L, k
<1>4. Said(L) = Said(M) /\ \A i \in Said(M) : L[i] = M[i]
  BY <1>1, <1>2, <1>3 DEF Said
<1>5. SaidBy(L) = SaidBy(M) /\ (SaidOnce(M) => SaidOnce(L))
  BY <1>4 DEF SaidBy, SaidOnce
<1> QED
  BY <1>5 DEF L

LEMMA SaidMore ==
  ASSUME NEW M \in Seq(Messages), NEW m \in UserMessages
  PROVE  /\ SaidBy(Append(M, m)) = SaidBy(M) \cup {m}
         /\ SaidOnce(M) /\ m \notin SaidBy(M) => SaidOnce(Append(M, m))
<1> DEFINE L == Append(M, m)
           k == Len(M) + 1
<1>1. /\ DOMAIN M = 1 .. Len(M) /\ DOMAIN L = 1 .. k /\ L[k] = m /\ Len(M) \in Nat
      /\ \A i \in 1 .. Len(M) : L[i] = M[i]
  OBVIOUS
<1>2. \A i \in 1 .. k : i = k \/ i \in 1 .. Len(M)
  BY <1>1
<1>3. k \in 1 .. k /\ \A i \in 1 .. Len(M) : i \in 1 .. k
  BY <1>1
<1>4. m.role = "user"
  BY RolesDiffer
<1> HIDE DEF L, k
<1>5. Said(L) = Said(M) \cup {k} /\ \A i \in Said(M) : L[i] = M[i]
  BY <1>1, <1>2, <1>3, <1>4 DEF Said
<1>6. SaidBy(L) = SaidBy(M) \cup {m}
  BY <1>1, <1>5 DEF SaidBy
<1>7. SaidOnce(M) /\ m \notin SaidBy(M) => SaidOnce(L)
  BY <1>1, <1>5 DEF SaidBy, SaidOnce
<1> QED
  BY <1>6, <1>7 DEF L

LEMMA SaidAnswered ==
  ASSUME NEW M \in Seq(Messages), NEW s \in Seq(Results)
  PROVE  SaidBy(M \o s) = SaidBy(M) /\ (SaidOnce(M) => SaidOnce(M \o s))
<1> DEFINE L == M \o s
<1>1. /\ \A i \in DOMAIN M : i \in DOMAIN L /\ L[i] = M[i]
      /\ \A i \in DOMAIN L : i \in DOMAIN M \/ (i - Len(M) \in DOMAIN s /\ L[i] = s[i - Len(M)])
  BY IdsAnswered
<1>2. \A j \in DOMAIN s : s[j].role = "result"
  BY RolesDiffer
<1> HIDE DEF L
<1>3. Said(L) = Said(M) /\ \A i \in Said(M) : L[i] = M[i]
  BY <1>1, <1>2 DEF Said
<1>4. SaidBy(L) = SaidBy(M) /\ (SaidOnce(M) => SaidOnce(L))
  BY <1>3 DEF SaidBy, SaidOnce
<1> QED
  BY <1>4 DEF L

LEMMA IdsOfUsers ==
  ASSUME NEW p \in Seq(UserMessages)
  PROVE  /\ \A u : UserMessage(u) \in ToSet(p) => u \in Ids(p)
         /\ ToSet(p) \subseteq UserMessages
<1>1. ToSet(p) \subseteq UserMessages
  BY DEF ToSet
<1>2. ASSUME NEW u, UserMessage(u) \in ToSet(p) PROVE u \in Ids(p)
  <2>1. PICK i \in DOMAIN p : p[i] = UserMessage(u)
    BY <1>2 DEF ToSet
  <2>2. p[i].role = "user" /\ p[i].id = u
    BY <2>1 DEF UserMessage
  <2> QED
    BY <2>2 DEF Ids
<1> QED
  BY <1>1, <1>2

\* The conversation gained messages that are not of users.
LEMMA QueuesSame ==
  ASSUME NEW M, NEW L, NEW st, NEW fo, NEW p, NEW all, NEW gone, QueuesOK(M, st, fo, p, all, gone),
         SaidBy(L) = SaidBy(M), SaidOnce(M) => SaidOnce(L)
  PROVE  QueuesOK(L, st, fo, p, all, gone)
  BY DEF QueuesOK

LEMMA EmptySets == ToSet(<< >>) = {} /\ IsInjective(<< >>) /\ << >> \in Seq(UserMessages)
  BY DEF ToSet, IsInjective

\* What was about to be injected is given up.
LEMMA QueuesLose ==
  ASSUME NEW M, NEW st, NEW fo, NEW p \in Seq(UserMessages), NEW all, NEW gone,
         QueuesOK(M, st, fo, p, all, gone)
  PROVE  QueuesOK(M, st, fo, << >>, all, gone \cup Ids(p))
<1>1. MessagesOf(all \ (gone \cup Ids(p))) \subseteq ToSet(st) \cup ToSet(fo) \cup SaidBy(M)
  <2> SUFFICES ASSUME NEW u \in all, u \notin gone, u \notin Ids(p)
               PROVE  UserMessage(u) \in ToSet(st) \cup ToSet(fo) \cup SaidBy(M)
    BY DEF MessagesOf
  <2>1. UserMessage(u) \in ToSet(st) \cup ToSet(fo) \cup ToSet(p) \cup SaidBy(M)
    BY DEF QueuesOK, MessagesOf
  <2> QED
    BY <2>1, IdsOfUsers
<1> QED
  BY <1>1, EmptySets DEF QueuesOK, Apart

LEMMA HeadTail ==
  ASSUME NEW S, NEW p \in Seq(S), p # << >>, IsInjective(p)
  PROVE  /\ Head(p) \in S /\ Tail(p) \in Seq(S) /\ IsInjective(Tail(p))
         /\ ToSet(p) = {Head(p)} \cup ToSet(Tail(p)) /\ Head(p) \notin ToSet(Tail(p))
<1> DEFINE t == Tail(p)
           n == Len(p)
<1>1. /\ n \in Nat /\ n >= 1 /\ DOMAIN p = 1 .. n /\ Head(p) = p[1] /\ p[1] \in S
      /\ t \in Seq(S) /\ Len(t) = n - 1 /\ DOMAIN t = 1 .. n - 1
      /\ \A i \in 1 .. n - 1 : t[i] = p[i + 1]
  OBVIOUS
<1> HIDE DEF t, n
<1>2. 1 \in 1 .. n /\ \A i \in 1 .. n - 1 : i + 1 \in 1 .. n /\ i + 1 # 1
  BY <1>1
<1>3. \A i \in 1 .. n : i = 1 \/ (i - 1 \in 1 .. n - 1 /\ (i - 1) + 1 = i)
  BY <1>1
<1>4. \A i \in 1 .. n : i = 1 \/ (i - 1 \in 1 .. n - 1 /\ t[i - 1] = p[i])
  BY <1>1, <1>3
<1>5. ToSet(p) = {p[1]} \cup ToSet(t)
  <2>1. \A i \in DOMAIN p : p[i] = p[1] \/ \E j \in DOMAIN t : t[j] = p[i]
    BY <1>1, <1>4
  <2>2. 1 \in DOMAIN p /\ \A j \in DOMAIN t : \E i \in DOMAIN p : t[j] = p[i]
    BY <1>1, <1>2
  <2> QED
    BY <2>1, <2>2 DEF ToSet
<1>6. p[1] \notin ToSet(t)
  <2> SUFFICES ASSUME NEW j \in 1 .. n - 1, t[j] = p[1] PROVE FALSE
    BY <1>1 DEF ToSet
  <2>1. p[j + 1] = p[1] /\ j + 1 \in DOMAIN p /\ 1 \in DOMAIN p
    BY <1>1, <1>2
  <2>2. j + 1 = 1
    BY <2>1 DEF IsInjective
  <2> QED
    BY <2>2
<1>7. IsInjective(t)
  <2> SUFFICES ASSUME NEW i \in 1 .. n - 1, NEW j \in 1 .. n - 1, t[i] = t[j] PROVE i = j
    BY <1>1 DEF IsInjective
  <2>1. p[i + 1] = p[j + 1]
    BY <1>1
  <2>2. i + 1 = j + 1
    BY <1>1, <1>2, <2>1 DEF IsInjective
  <2> QED
    BY <2>2
<1> QED
  BY <1>1, <1>5, <1>6, <1>7 DEF t

\* The first of the messages to be injected enters the conversation.
LEMMA QueuesInject ==
  ASSUME NEW M \in Seq(Messages), NEW st, NEW fo, NEW p \in Seq(UserMessages), p # << >>, NEW all, NEW gone,
         QueuesOK(M, st, fo, p, all, gone)
  PROVE  /\ QueuesOK(Append(M, Head(p)), st, fo, Tail(p), all, gone)
         /\ QueuesOK(Append(M, Head(p)), st, fo, << >>, all, gone \cup Ids(p))
         /\ Head(p) \in UserMessages /\ Tail(p) \in Seq(UserMessages)
<1> DEFINE m == Head(p)
           t == Tail(p)
           L == Append(M, m)
<1>1. /\ m \in UserMessages /\ t \in Seq(UserMessages) /\ IsInjective(t)
      /\ ToSet(p) = {m} \cup ToSet(t) /\ m \notin ToSet(t)
  BY HeadTail DEF QueuesOK
<1>2. m \notin SaidBy(M) /\ SaidOnce(M)
  BY <1>1 DEF QueuesOK, Apart
<1>3. SaidBy(L) = SaidBy(M) \cup {m} /\ SaidOnce(L)
  BY <1>1, <1>2, SaidMore
<1> HIDE DEF m, t, L
<1>4. QueuesOK(L, st, fo, t, all, gone)
  BY <1>1, <1>3 DEF QueuesOK, Apart
<1>5. QueuesOK(L, st, fo, << >>, all, gone \cup Ids(t))
  BY <1>1, <1>4, QueuesLose
<1>6. Ids(t) \subseteq Ids(p)
  <2> SUFFICES ASSUME NEW i \in DOMAIN t PROVE t[i].id \in Ids(p)
    BY DEF Ids
  <2>1. t[i] \in ToSet(p)
    BY <1>1 DEF ToSet
  <2>2. PICK j \in DOMAIN p : p[j] = t[i]
    BY <2>1 DEF ToSet
  <2>3. p[j].role = "user"
    BY RolesDiffer
  <2> QED
    BY <2>2, <2>3 DEF Ids
<1>7. QueuesOK(L, st, fo, << >>, all, gone \cup Ids(p))
  BY <1>5, <1>6 DEF QueuesOK, MessagesOf
<1> QED
  BY <1>1, <1>4, <1>7 DEF m, t, L

-----------------------------------------------------------------------------
(* Leaving the loop *)

FailLoop(b) == [IdleLoop EXCEPT !.pc = "fail", !.aborted = b]

\* The loop as every run finds it.
FreshLoop(pc, b) ==
    [pc |-> pc, ctx |-> << >>, given |-> << >>, pend |-> << >>, skip |-> FALSE, first |-> TRUE,
     turns |-> 0, used |-> 0, denied |-> FALSE, attempts |-> 0, reply |-> NoReply,
     refused |-> FALSE, more |-> FALSE, over |-> FALSE, index |-> 1, call |-> << >>,
     stream |-> "asked", aborted |-> b]

LEMMA NoCalls ==
  ASSUME NEW f, f = << >>
  PROVE  f \in [ToSet(<< >>) -> CallRecords]
<1>1. DOMAIN f = {} /\ f = [x \in {} |-> x]
  OBVIOUS
<1> QED
  BY <1>1, EmptySets

LEMMA NoReplyTyped == NoReply \in Assistants /\ NoReply.calls = << >>
  BY DEF NoReply, AssistantMessage, Assistants

LEMMA FreshLoopOK ==
  ASSUME NEW pc \in {"idle", "fail"} \cup Settlings, NEW b \in BOOLEAN, NEW l, l = FreshLoop(pc, b),
         NEW d \in Deployments
  PROVE  /\ LoopOK(l) /\ BudgetOK(l, d)
         /\ l.pc = pc /\ l.pend = << >>
<1>1. /\ l.pc = pc /\ l.ctx = << >> /\ l.pend = << >> /\ l.turns = 0 /\ l.used = 0 /\ l.attempts = 0
      /\ l.reply = NoReply /\ l.index = 1 /\ l.call = << >>
  BY DEF FreshLoop
<1>2. LoopShape(l)
  <2>1. << >> \in Seq(Messages) /\ << >> \in Seq(UserMessages) /\ pc \in Places
    BY DEF Places, AtRest
  <2> QED
    BY <2>1, NoReplyTyped DEF FreshLoop, LoopShape
<1>3. l.reply.calls = << >>
  BY <1>1, NoReplyTyped
<1>4. l.call \in [ToSet(l.reply.calls) -> CallRecords]
  BY <1>1, <1>3, NoCalls
<1>5. ToSet(l.reply.calls) = {} /\ IsInjective(l.reply.calls) /\ Len(l.reply.calls) = 0
  BY <1>3, EmptySets
<1>6. LoopOK(l)
  BY <1>1, <1>2, <1>4, <1>5 DEF LoopOK
<1>7. d.turns \in Nat /\ d.tools \in Nat
  BY AgentAssumption
<1>8. BudgetOK(l, d)
  BY <1>1, <1>7 DEF BudgetOK, Settlings
<1> QED
  BY <1>1, <1>6, <1>8

LEMMA IdleIsFresh == IdleLoop = FreshLoop("idle", FALSE)
  BY DEF IdleLoop, FreshLoop

LEMMA FailIsFresh ==
  ASSUME NEW l, NEW b \in BOOLEAN, l = FailLoop(b)
  PROVE  l = FreshLoop("fail", b)
  BY DEF FailLoop, IdleLoop, FreshLoop

\* A state in which the Agent is idle, or its router or an approval makes the last record of a Run.
LEMMA RestState ==
  ASSUME NEW d \in Deployments, NEW a, NEW M, a = IdleAgent(M), LogOK(M), Open(M) = {},
         NEW st, NEW fo, NEW all, NEW gone, NEW T, T \subseteq Nat \X Kinds,
         \A t \in T : Heard(M, t), NEW pc \in {"idle"} \cup Settlings, NEW l, l = FreshLoop(pc, FALSE),
         QueuesOK(M, st, fo, << >>, all, gone)
  PROVE  AInvAt(d, a, st, fo, l, all, gone, T)
<1>1. a.messages = M /\ a.staged = {} /\ a \in Agents
  BY DEF IdleAgent, Agents, LogOK
<1>2. LoopOK(l) /\ BudgetOK(l, d) /\ l.pc = pc /\ l.pend = << >>
  BY FreshLoopOK
<1>3. PlaceOK(M, l)
  BY <1>2 DEF PlaceOK, Settlings
<1>4. KeptOK(M, {}, T)
  BY DEF KeptOK
<1>5. StagedAt(M, {}, l)
  BY <1>2 DEF StagedAt
<1> QED
  BY <1>1, <1>2, <1>3, <1>4, <1>5 DEF AInvAt

LEMMA IdleState ==
  ASSUME NEW d \in Deployments, NEW a, NEW M, a = IdleAgent(M), LogOK(M), Open(M) = {},
         NEW st, NEW fo, NEW all, NEW gone, NEW T, T \subseteq Nat \X Kinds,
         \A t \in T : Heard(M, t),
         QueuesOK(M, st, fo, << >>, all, gone)
  PROVE  AInvAt(d, a, st, fo, IdleLoop, all, gone, T)
  BY IdleIsFresh, RestState

LEMMA FailState ==
  ASSUME NEW d \in Deployments, NEW a \in Agents, NEW b \in BOOLEAN,
         NEW st, NEW fo, NEW all, NEW gone, NEW T,
         LogOK(a.messages), KeptOK(a.messages, a.staged, T),
         QueuesOK(a.messages, st, fo, << >>, all, gone)
  PROVE  AInvAt(d, a, st, fo, FailLoop(b), all, gone, T)
<1> DEFINE l == FailLoop(b)
<1>1. LoopOK(l) /\ BudgetOK(l, d) /\ l.pc = "fail" /\ l.pend = << >>
  BY FailIsFresh, FreshLoopOK
<1> HIDE DEF l
<1>2. PlaceOK(a.messages, l)
  BY <1>1 DEF PlaceOK, Batching
<1>3. StagedAt(a.messages, a.staged, l)
  BY <1>1 DEF StagedAt
<1> QED
  BY <1>1, <1>2, <1>3 DEF AInvAt, l

\* An exception: what must be true of the Agent state a that it leaves.
Survives(a, T) ==
    /\ a \in Agents /\ LogOK(a.messages)
    /\ KeptOK(a.messages, a.staged, T)
    /\ InCleanup => Open(a.messages) = {}
    /\ QueuesOK(a.messages, steering, followUp, << >>, sent, lost \cup Ids(loop.pend))

LEMMA RaiseKeeps ==
  ASSUME AInv, NEW kind, NEW a, Raise(kind, a), UNCHANGED <<dep, steering, followUp, sent>>,
         Survives(a, told')
  PROVE  AInv'
<1>1. dep \in Deployments /\ token \in BOOLEAN
  BY DEF AInv, AInvAt
<1>2. token' \in BOOLEAN /\ (token \/ kind = "cancel") \in BOOLEAN
  BY DEF Raise
<1>3. lost' = lost \cup Ids(loop.pend)
  BY DEF Raise
<1>4. CASE InCleanup
  <2>1. agent' = IdleAgent(a.messages) /\ loop' = IdleLoop
    BY <1>4 DEF Raise, Settled
  <2>2. \A t \in told' : Heard(a.messages, t)
    BY <1>4 DEF Survives, KeptOK
  <2>3. AInvAt(dep, agent', steering, followUp, IdleLoop, sent, lost', told')
    BY <1>1, <1>3, <1>4, <2>1, <2>2, IdleState DEF Survives, KeptOK
  <2> QED
    BY <1>2, <2>1, <2>3 DEF AInv
<1>5. CASE ~InCleanup
  <2>1. agent' = a /\ loop' = FailLoop(token \/ kind = "cancel")
    BY <1>5 DEF Raise, FailLoop
  <2>2. AInvAt(dep, a, steering, followUp, FailLoop(token \/ kind = "cancel"), sent, lost', told')
    BY <1>1, <1>2, <1>3, FailState DEF Survives
  <2> QED
    BY <1>2, <2>1, <2>2 DEF AInv
<1> QED
  BY <1>4, <1>5

LEMMA AgentSurvives ==
  ASSUME AInv
  PROVE  Survives(agent, told)
<1>1. loop.pend \in Seq(UserMessages)
  BY DEF AInv, AInvAt, LoopOK, LoopShape
<1>2. QueuesOK(agent.messages, steering, followUp, << >>, sent, lost \cup Ids(loop.pend))
  BY <1>1, QueuesLose DEF AInv, AInvAt
<1>3. InCleanup => Open(agent.messages) = {}
  BY DEF InCleanup, AInv, AInvAt, PlaceOK, Batching
<1> QED
  BY <1>2, <1>3 DEF AInv, AInvAt, Survives

\* The Agent is not changed by the step: only the loop goes on, to l, or fails.
LEMMA EmitKeeps ==
  ASSUME AInv, NEW e, NEW l, Emit(e, agent, l), UNCHANGED <<dep, steering, followUp, sent, told>>,
         AInvAt(dep, agent, steering, followUp, l, sent, lost, told)
  PROVE  AInv'
<1>1. \/ \E kind : Raise(kind, agent)
      \/ agent' = agent /\ loop' = l /\ UNCHANGED <<token, lost>>
  BY DEF Emit
<1>2. ASSUME NEW kind, Raise(kind, agent) PROVE AInv'
  BY <1>2, AgentSurvives, RaiseKeeps
<1>3. CASE agent' = agent /\ loop' = l /\ UNCHANGED <<token, lost>>
  BY <1>3 DEF AInv
<1> QED
  BY <1>1, <1>2, <1>3

LEMMA QuietKeeps ==
  ASSUME AInv, NEW l, loop' = l, UNCHANGED <<dep, agent, steering, followUp, sent, told, token, lost>>,
         AInvAt(dep, agent, steering, followUp, l, sent, lost, told)
  PROVE  AInv'
  BY DEF AInv

\* The step changes the loop to l, which leaves the messages to be injected alone.
LEMMA LoopStep ==
  ASSUME AInv, NEW l, l.pend = loop.pend, LoopOK(l), BudgetOK(l, dep), PlaceOK(agent.messages, l),
         StagedAt(agent.messages, agent.staged, l)
  PROVE  AInvAt(dep, agent, steering, followUp, l, sent, lost, told)
  BY DEF AInv, AInvAt

-----------------------------------------------------------------------------
(* Steps that only move the loop on *)

Moves == {<<"agent_start", "first_turn">>, <<"first_turn", "prompts">>, <<"model", "model">>,
          <<"deny", "refuse">>, <<"turn_end", "after">>, <<"after", "agent_end">>,
          <<"fail_start", "fail_message">>, <<"fail_turn", "fail_end">>, <<"guard", "tools">>}

\* The fields of the loop that the invariant relates to other state.
SameWork(l, k) ==
    /\ l.ctx = k.ctx /\ l.pend = k.pend /\ l.reply = k.reply /\ l.index = k.index /\ l.call = k.call
    /\ l.turns = k.turns /\ l.used = k.used /\ l.attempts = k.attempts /\ l.first = k.first

LEMMA LoopFacts ==
  ASSUME AInv
  PROVE  /\ LoopOK(loop) /\ LoopShape(loop) /\ BudgetOK(loop, dep) /\ PlaceOK(agent.messages, loop)
         /\ StagedAt(agent.messages, agent.staged, loop) /\ LogOK(agent.messages)
         /\ KeptOK(agent.messages, agent.staged, told) /\ agent \in Agents /\ dep \in Deployments
         /\ QueuesOK(agent.messages, steering, followUp, loop.pend, sent, lost)
         /\ loop.reply \in Assistants /\ loop.reply.calls \in Seq(Nat) /\ Len(loop.reply.calls) \in Nat
  BY DEF AInv, AInvAt, LoopOK, LoopShape, Assistants

LEMMA NothingMore ==
  ASSUME NEW M \in Seq(Messages), NEW f
  PROVE  M = M \o [i \in 1 .. 0 |-> f[i]]
<1>1. [i \in 1 .. 0 |-> f[i]] = << >>
  OBVIOUS
<1> QED
  BY <1>1

LEMMA MoveOK ==
  ASSUME AInv, NEW l, LoopShape(l), <<loop.pc, l.pc>> \in Moves, SameWork(l, loop)
  PROVE  AInvAt(dep, agent, steering, followUp, l, sent, lost, told)
<1> USE LoopFacts
<1>1. LoopOK(l)
  BY DEF LoopOK, SameWork, Moves
<1>2. BudgetOK(l, dep)
  <2>1. Unspent(l) = Unspent(loop)
    BY DEF Unspent, SameWork
  <2> QED
    BY <2>1 DEF BudgetOK, SameWork, Moves
<1>3. PlaceOK(agent.messages, l)
  <2>1. CASE loop.pc # "deny"
    BY <2>1 DEF PlaceOK, SameWork, Moves, Batching
  <2>2. CASE loop.pc = "deny"
    <3>1. l.pc = "refuse" /\ l.index = 1 /\ loop.index = 1
      BY <2>2 DEF Moves, LoopOK, SameWork
    <3>2. Open(agent.messages) = ToSet(loop.reply.calls) /\ l.ctx = agent.messages
      BY <2>2 DEF PlaceOK, SameWork
    <3>3. Unheard(l) = ToSet(loop.reply.calls)
      BY <3>1 DEF Unheard, ToSet, SameWork
    <3>4. agent.messages = l.ctx \o [i \in 1 .. l.index - 1 |-> ResultAt(l, i)]
      <4>1. l.index - 1 = 0 /\ l.ctx \in Seq(Messages)
        BY <3>1 DEF LoopShape
      <4>2. [i \in 1 .. 0 |-> ResultAt(l, i)] = << >>
        OBVIOUS
      <4>3. l.ctx \o << >> = l.ctx
        BY <4>1
      <4> QED
        BY <3>2, <4>1, <4>2, <4>3
    <3>5. \A c \in ToSet(l.reply.calls) : l.call[c].phase = "new"
      BY <2>2 DEF PlaceOK, SameWork
    <3>6. \A i \in 1 .. l.index - 1 : FALSE
      BY <3>1
    <3> QED
      BY <3>1, <3>2, <3>3, <3>4, <3>5, <3>6 DEF PlaceOK, SameWork, Batching
  <2> QED
    BY <2>1, <2>2
<1>4. StagedAt(agent.messages, agent.staged, l)
  BY DEF StagedAt, SameWork, Moves, Batching
<1> QED
  BY <1>1, <1>2, <1>3, <1>4, LoopStep DEF SameWork

LEMMA GoShape ==
  ASSUME LoopShape(loop), NEW pc \in Places, NEW l, l = Go(pc)
  PROVE  LoopShape(l) /\ l.pc = pc /\ SameWork(l, loop)
  BY DEF LoopShape, SameWork, Go

\* An emitted event after which only the place changes.
LEMMA GoKeeps ==
  ASSUME AInv, NEW e, NEW pc \in Places, <<loop.pc, pc>> \in Moves, Emit(e, agent, Go(pc)), Alone
  PROVE  AInv'
<1> DEFINE l == Go(pc)
<1>1. LoopShape(l) /\ l.pc = pc /\ SameWork(l, loop)
  BY LoopFacts, GoShape
<1>2. Emit(e, agent, l)
  OBVIOUS
<1> HIDE DEF l
<1>3. AInvAt(dep, agent, steering, followUp, l, sent, lost, told)
  BY <1>1, MoveOK
<1> QED
  BY <1>2, <1>3, EmitKeeps DEF Alone, Hold, Queues, History

LEMMA GoingKeeps ==
  ASSUME AInv, AgentStart \/ FirstTurn \/ DenyBudget \/ EndTurn \/ TurnBudget \/ FailStart \/ FailTurn
  PROVE  AInv'
<1>1. CASE AgentStart
  BY <1>1, GoKeeps DEF AgentStart, At, Moves, Places
<1>2. CASE FirstTurn
  BY <1>2, GoKeeps DEF FirstTurn, At, Moves, Places
<1>3. CASE DenyBudget
  BY <1>3, GoKeeps DEF DenyBudget, At, Moves, Places
<1>4. CASE EndTurn
  BY <1>4, GoKeeps DEF EndTurn, At, Moves, Places
<1>5. CASE TurnBudget
  BY <1>5, GoKeeps DEF TurnBudget, At, Moves, Places
<1>6. CASE FailStart
  BY <1>6, GoKeeps DEF FailStart, At, Moves, Places
<1>7. CASE FailTurn
  BY <1>7, GoKeeps DEF FailTurn, At, Moves, Places
<1> QED
  BY <1>1, <1>2, <1>3, <1>4, <1>5, <1>6, <1>7

LEMMA GuardDoneKeeps ==
  ASSUME AInv, GuardDone \/ StopAfterTurn
  PROVE  AInv'
<1>1. PICK pc \in {"tools", "agent_end"} :
          /\ loop' = Go(pc) /\ <<loop.pc, pc>> \in Moves
          /\ UNCHANGED <<agent, token, lost>> /\ Alone
  BY DEF GuardDone, StopAfterTurn, At, Moves
<1> DEFINE l == Go(pc)
<1>2. LoopShape(l) /\ l.pc = pc /\ SameWork(l, loop)
  BY LoopFacts, GoShape DEF Places
<1>3. loop' = l
  BY <1>1
<1> HIDE DEF l
<1>4. AInvAt(dep, agent, steering, followUp, l, sent, lost, told)
  BY <1>1, <1>2, MoveOK
<1> QED
  BY <1>1, <1>3, <1>4, QuietKeeps DEF Alone, Hold, Queues, History

\* agent_end: the Agent is idle again.
LEMMA EndKeeps ==
  ASSUME AInv, AgentEnd \/ FailEnd
  PROVE  AInv'
<1>1. /\ loop.pc \in {"agent_end", "fail_end"} /\ Alone
      /\ Emit(Event("agent_end"), IdleAgent(agent.messages), IdleLoop)
  BY DEF AgentEnd, FailEnd, At
<1>2. agent.staged = {} /\ Open(agent.messages) = {} /\ loop.pend = << >>
  BY <1>1, LoopFacts DEF StagedAt, PlaceOK, LoopOK, Batching
<1>3. IdleAgent(agent.messages) = agent
  BY <1>2, LoopFacts DEF IdleAgent, Agents
<1>4. Emit(Event("agent_end"), agent, IdleLoop)
  BY <1>1, <1>3
<1>5. AInvAt(dep, agent, steering, followUp, IdleLoop, sent, lost, told)
  BY <1>2, <1>3, LoopFacts, IdleState DEF KeptOK
<1> QED
  BY <1>1, <1>4, <1>5, EmitKeeps DEF Alone, Hold, Queues, History

-----------------------------------------------------------------------------
(* Steps of one Tool Call *)

LEMMA CallsFinite ==
  ASSUME NEW s \in Seq(Nat)
  PROVE  IsFiniteSet(ToSet(s)) /\ Cardinality(ToSet(s)) <= Len(s) /\ Cardinality(ToSet(s)) \in Nat
<1>1. s \in [1 .. Len(s) -> ToSet(s)] /\ Len(s) \in Nat /\ DOMAIN s = 1 .. Len(s)
  BY DEF ToSet
<1>2. s \in Surjection(1 .. Len(s), ToSet(s))
  BY <1>1 DEF Surjection, ToSet
<1>3. ExistsSurjection(1 .. Len(s), ToSet(s))
  BY <1>2 DEF ExistsSurjection
<1>4. IsFiniteSet(ToSet(s))
  BY <1>1, <1>3, FS_NatSurjection
<1>5. Cardinality(ToSet(s)) <= Len(s)
  BY <1>1, <1>3, FS_SurjCardinalityBound
<1> QED
  BY <1>4, <1>5, FS_CardinalityType

LEMMA UnspentFinite ==
  ASSUME NEW l, l.reply.calls \in Seq(Nat)
  PROVE  /\ IsFiniteSet(Unspent(l)) /\ Cardinality(Unspent(l)) \in Nat
         /\ Cardinality(Unspent(l)) <= Len(l.reply.calls)
<1>1. Unspent(l) \in SUBSET ToSet(l.reply.calls)
  BY DEF Unspent
<1>2. IsFiniteSet(ToSet(l.reply.calls)) /\ Cardinality(ToSet(l.reply.calls)) <= Len(l.reply.calls)
      /\ Cardinality(ToSet(l.reply.calls)) \in Nat
  BY CallsFinite
<1>3. IsFiniteSet(Unspent(l)) /\ Cardinality(Unspent(l)) <= Cardinality(ToSet(l.reply.calls))
  BY <1>1, <1>2, FS_Subset
<1>4. Cardinality(Unspent(l)) \in Nat
  BY <1>3, FS_CardinalityType
<1>5. Len(l.reply.calls) \in Nat
  OBVIOUS
<1> QED
  BY <1>2, <1>3, <1>4, <1>5

\* The loop l has the call c noted as r; it is where it was, or one call further in the guard.
Notes(l, c, r) ==
    /\ LoopShape(l)
    /\ c \in ToSet(loop.reply.calls) /\ r \in CallRecords
    /\ l.call = [loop.call EXCEPT ![c] = r]
    /\ l.ctx = loop.ctx /\ l.pend = loop.pend /\ l.reply = loop.reply
    /\ l.turns = loop.turns /\ l.first = loop.first
    /\ l.pc = loop.pc /\ loop.pc \in {"refuse", "guard", "tools"}
    /\ l.index \in 1 .. Len(loop.reply.calls) + 1
    /\ loop.pc # "guard" => l.index = loop.index
    /\ loop.call[c].phase # "ended"
    /\ r.phase \in {"finished", "ended"} => r.kind \in Kinds
    /\ loop.pc = "refuse" /\ r.phase = "ended" => r.kind = "skipped"

LEMMA NotesOK ==
  ASSUME AInv, NEW l, NEW c, NEW r, Notes(l, c, r)
  PROVE  /\ LoopOK(l) /\ PlaceOK(agent.messages, l) /\ StagedAt(agent.messages, agent.staged, l)
         /\ l.call[c] = r /\ (c \in Open(agent.messages) \/ loop.pc = "refuse")
         /\ \A x \in agent.staged : x.call # c
<1> USE LoopFacts
<1>1. loop.call \in [ToSet(loop.reply.calls) -> CallRecords]
  BY DEF LoopOK
<1>2. l.call \in [ToSet(loop.reply.calls) -> CallRecords]
      /\ l.call[c] = r /\ \A d \in ToSet(loop.reply.calls) : d # c => l.call[d] = loop.call[d]
  BY <1>1 DEF Notes
<1>3. LoopOK(l)
  BY <1>2 DEF LoopOK, Notes
<1>4. \A d \in ToSet(loop.reply.calls) : loop.call[d].phase = "ended" => l.call[d] = loop.call[d]
  BY <1>2 DEF Notes
<1>5. loop.pc = "refuse" =>
         [i \in 1 .. l.index - 1 |-> ResultAt(l, i)] = [i \in 1 .. loop.index - 1 |-> ResultAt(loop, i)]
  <2> SUFFICES ASSUME loop.pc = "refuse", NEW i \in 1 .. loop.index - 1
               PROVE  ResultAt(l, i) = ResultAt(loop, i)
    BY DEF Notes
  <2>1. loop.call[loop.reply.calls[i]].phase = "ended"
    BY DEF PlaceOK
  <2>2. i \in DOMAIN loop.reply.calls
    BY DEF LoopOK, LoopShape
  <2>3. loop.reply.calls[i] \in ToSet(loop.reply.calls)
    BY <2>2 DEF ToSet
  <2> QED
    BY <1>4, <2>1, <2>3 DEF ResultAt, Notes
<1>6. loop.pc = "refuse" => \A i \in 1 .. l.index - 1 : l.call[l.reply.calls[i]].phase = "ended"
  <2> SUFFICES ASSUME loop.pc = "refuse", NEW i \in 1 .. loop.index - 1
               PROVE  l.call[loop.reply.calls[i]].phase = "ended"
    BY DEF Notes
  <2>1. loop.call[loop.reply.calls[i]].phase = "ended"
    BY DEF PlaceOK
  <2>2. i \in DOMAIN loop.reply.calls
    BY DEF LoopOK, LoopShape
  <2>3. loop.reply.calls[i] \in ToSet(loop.reply.calls)
    BY <2>2 DEF ToSet
  <2> QED
    BY <1>4, <2>1, <2>3
<1>7. loop.pc = "refuse" => Unheard(l) = Unheard(loop)
  BY DEF Unheard, Notes
<1>8. loop.pc = "refuse" => \A d \in ToSet(l.reply.calls) : l.call[d].phase = "ended" => l.call[d].kind = "skipped"
  BY <1>2 DEF Notes, PlaceOK
<1>9. PlaceOK(agent.messages, l)
  BY <1>5, <1>6, <1>7, <1>8 DEF PlaceOK, Notes, Batching
<1>10. \A x \in agent.staged : x.call # c
  BY DEF StagedAt, Notes
<1>11. StagedAt(agent.messages, agent.staged, l)
  BY <1>2, <1>10 DEF StagedAt, Notes, Batching
<1>12. loop.pc # "refuse" => c \in Open(agent.messages)
  BY DEF Notes, PlaceOK
<1> QED
  BY <1>2, <1>3, <1>9, <1>10, <1>11, <1>12

\* No call takes its first attempt.
LEMMA NotesBudget ==
  ASSUME AInv, NEW l, NEW c, NEW r, Notes(l, c, r), l.used = loop.used, l.attempts = loop.attempts,
         r.phase \in {"new", "queued"} => loop.call[c].phase \in {"new", "queued"}
  PROVE  BudgetOK(l, dep)
<1> USE LoopFacts
<1>1. Unspent(l) \in SUBSET Unspent(loop)
  BY DEF Unspent, Notes, LoopOK
<1>2. IsFiniteSet(Unspent(loop)) /\ Cardinality(Unspent(loop)) \in Nat
  BY UnspentFinite
<1>3. Cardinality(Unspent(l)) <= Cardinality(Unspent(loop)) /\ Cardinality(Unspent(l)) \in Nat
  BY <1>1, <1>2, FS_Subset, FS_CardinalityType
<1>4. loop.attempts \in Nat /\ loop.used \in Nat
  BY DEF LoopShape
<1> QED
  BY <1>2, <1>3, <1>4 DEF BudgetOK, Notes

LEMMA NotesStep ==
  ASSUME AInv, NEW l, NEW c, NEW r, Notes(l, c, r), BudgetOK(l, dep)
  PROVE  AInvAt(dep, agent, steering, followUp, l, sent, lost, told)
  BY NotesOK, LoopStep DEF Notes

LEMMA NotedNotes ==
  ASSUME AInv, loop.pc \in {"refuse", "guard", "tools"}, NEW c \in ToSet(loop.reply.calls),
         NEW phase \in {"new", "queued", "running", "backoff", "finished", "ended"},
         NEW kind \in Kinds \cup {"none"}, loop.call[c].phase # "ended",
         phase \in {"finished", "ended"} => kind \in Kinds,
         loop.pc = "refuse" /\ phase = "ended" => kind = "skipped",
         NEW l, l = Noted(c, phase, kind)
  PROVE  /\ Notes(l, c, [phase |-> phase, kind |-> kind, tries |-> loop.call[c].tries])
         /\ l.used = loop.used /\ l.attempts = loop.attempts /\ l.index = loop.index
<1> USE LoopFacts
<1> DEFINE r == [phase |-> phase, kind |-> kind, tries |-> loop.call[c].tries]
<1>1. loop.call \in [ToSet(loop.reply.calls) -> CallRecords] /\ loop.index \in 1 .. Len(loop.reply.calls) + 1
  BY DEF LoopOK
<1>2. r \in CallRecords
  BY <1>1 DEF CallRecords
<1>3. l.call = [loop.call EXCEPT ![c] = r]
  BY <1>1 DEF Noted, LoopShape, CallRecords
<1>4. /\ l.ctx = loop.ctx /\ l.pend = loop.pend /\ l.reply = loop.reply /\ l.index = loop.index
      /\ l.turns = loop.turns /\ l.first = loop.first /\ l.pc = loop.pc
      /\ l.used = loop.used /\ l.attempts = loop.attempts
  BY DEF Noted, LoopShape
<1>5. LoopShape(l)
  BY DEF Noted, LoopShape
<1> QED
  BY <1>1, <1>2, <1>3, <1>4, <1>5 DEF Notes

LEMMA CurrentIn ==
  ASSUME AInv, BatchLeft
  PROVE  /\ Current \in ToSet(loop.reply.calls) /\ Current \in Unheard(loop) /\ Current \in Nat
         /\ loop.index \in 1 .. Len(loop.reply.calls)
<1> USE LoopFacts
<1>1. loop.index \in 1 .. Len(loop.reply.calls)
  BY DEF BatchLeft, LoopOK
<1>2. loop.index \in DOMAIN loop.reply.calls /\ loop.index \in loop.index .. Len(loop.reply.calls)
  BY <1>1
<1> QED
  BY <1>1, <1>2 DEF Current, ToSet, Unheard

\* A step of a call that emits an event, or nothing.
LEMMA NotedEmits ==
  ASSUME AInv, loop.pc \in {"refuse", "guard", "tools"}, NEW c \in ToSet(loop.reply.calls),
         NEW phase \in {"queued", "running", "backoff", "finished"},
         NEW kind \in Kinds \cup {"none"}, loop.call[c].phase # "ended",
         phase = "finished" => kind \in Kinds,
         phase = "queued" => loop.call[c].phase \in {"new", "queued"},
         UNCHANGED <<dep, steering, followUp, sent, told>>,
         \/ \E e : Emit(e, agent, Noted(c, phase, kind))
         \/ loop' = Noted(c, phase, kind) /\ UNCHANGED <<agent, token, lost>>
  PROVE  AInv'
<1> DEFINE l == Noted(c, phase, kind)
           r == [phase |-> phase, kind |-> kind, tries |-> loop.call[c].tries]
<1>1. Notes(l, c, r) /\ l.used = loop.used /\ l.attempts = loop.attempts
  BY NotedNotes
<1>2. (\E e : Emit(e, agent, l)) \/ (loop' = l /\ UNCHANGED <<agent, token, lost>>)
  OBVIOUS
<1>3. r.phase = phase
  OBVIOUS
<1> HIDE DEF l, r
<1>4. BudgetOK(l, dep)
  BY <1>1, <1>3, NotesBudget
<1>5. AInvAt(dep, agent, steering, followUp, l, sent, lost, told)
  BY <1>1, <1>4, NotesStep
<1>6. ASSUME NEW e, Emit(e, agent, l) PROVE AInv'
  BY <1>5, <1>6, EmitKeeps
<1>7. CASE loop' = l /\ UNCHANGED <<agent, token, lost>>
  BY <1>5, <1>7, QuietKeeps
<1> QED
  BY <1>2, <1>6, <1>7

LEMMA CallsOfLoop ==
  ASSUME AInv
  PROVE  DOMAIN loop.call = ToSet(loop.reply.calls)
         /\ \A c \in ToSet(loop.reply.calls) : loop.call[c] \in CallRecords
  BY LoopFacts DEF LoopOK

LEMMA NotingKeeps ==
  ASSUME AInv
  PROVE  /\ RefuseStart \/ GuardStart => AInv'
         /\ \A c \in DOMAIN loop.call : ScheduleRetry(c) \/ CallCancelled(c) => AInv'
         /\ \A c \in DOMAIN loop.call, kind \in {"done", "failed"} : HandlerReturns(c, kind) => AInv'
<1> USE DEF Alone, Hold, Queues, History
<1>1. ASSUME RefuseStart \/ GuardStart PROVE AInv'
  <2>1. /\ loop.pc \in {"refuse", "guard"} /\ BatchLeft /\ loop.call[Current].phase = "new"
        /\ \E e : Emit(e, agent, Noted(Current, "queued", "none"))
        /\ UNCHANGED <<dep, steering, followUp, sent, told>>
    BY <1>1 DEF RefuseStart, GuardStart, At
  <2>2. Current \in ToSet(loop.reply.calls)
    BY <2>1, CurrentIn
  <2> QED
    BY <2>1, <2>2, NotedEmits
<1>2. ASSUME NEW c \in DOMAIN loop.call, ScheduleRetry(c) PROVE AInv'
  BY <1>2, CallsOfLoop, NotedEmits DEF ScheduleRetry, At
<1>3. ASSUME NEW c \in DOMAIN loop.call, CallCancelled(c) PROVE AInv'
  <2> DEFINE kind == IF loop.call[c].phase = "queued" THEN "skipped" ELSE "unknown"
  <2>1. kind \in Kinds
    BY DEF Kinds
  <2>2. /\ loop.pc = "tools" /\ loop' = Noted(c, "finished", kind) /\ UNCHANGED <<agent, token, lost>>
        /\ UNCHANGED <<dep, steering, followUp, sent, told>> /\ loop.call[c].phase # "ended"
    BY <1>3 DEF CallCancelled, At
  <2> HIDE DEF kind
  <2> QED
    BY <2>1, <2>2, CallsOfLoop, NotedEmits
<1>4. ASSUME NEW c \in DOMAIN loop.call, NEW kind \in {"done", "failed"}, HandlerReturns(c, kind) PROVE AInv'
  <2>1. kind \in Kinds
    BY DEF Kinds
  <2>2. /\ loop.pc = "tools" /\ loop' = Noted(c, "finished", kind) /\ UNCHANGED <<agent, token, lost>>
        /\ UNCHANGED <<dep, steering, followUp, sent, told>> /\ loop.call[c].phase # "ended"
    BY <1>4 DEF HandlerReturns, At
  <2> QED
    BY <2>1, <2>2, CallsOfLoop, NotedEmits
<1> QED
  BY <1>1, <1>2, <1>3, <1>4

\* What Notes asks of a loop l that differs from k in the calls and in counters.
SamePlace(l, k) ==
    /\ l.ctx = k.ctx /\ l.pend = k.pend /\ l.reply = k.reply
    /\ l.turns = k.turns /\ l.first = k.first /\ l.pc = k.pc

LEMMA NextIndex ==
  ASSUME NEW k, LoopShape(k), NEW l, l = [k EXCEPT !.index = @ + 1]
  PROVE  /\ LoopShape(l) /\ SamePlace(l, k)
         /\ l.index = k.index + 1 /\ l.call = k.call /\ l.used = k.used /\ l.attempts = k.attempts
<1>1. k.index \in Nat /\ k.index + 1 \in Nat
  BY DEF LoopShape
<1>2. SamePlace(l, k) /\ l.index = k.index + 1 /\ l.call = k.call /\ l.used = k.used /\ l.attempts = k.attempts
  BY DEF LoopShape, SamePlace
<1>3. LoopShape(l)
  BY <1>1 DEF LoopShape
<1> QED
  BY <1>2, <1>3

LEMMA Denied ==
  ASSUME NEW k, LoopShape(k), NEW l, l = [k EXCEPT !.denied = TRUE]
  PROVE  /\ LoopShape(l) /\ SamePlace(l, k)
         /\ l.index = k.index /\ l.call = k.call /\ l.used = k.used /\ l.attempts = k.attempts
<1>2. SamePlace(l, k) /\ l.index = k.index /\ l.call = k.call /\ l.used = k.used /\ l.attempts = k.attempts
  BY DEF LoopShape, SamePlace
<1>3. LoopShape(l)
  BY DEF LoopShape
<1> QED
  BY <1>2, <1>3

\* The call c of a noted loop is noted again.
LEMMA Renoted ==
  ASSUME NEW c \in ToSet(loop.reply.calls), loop.call \in [ToSet(loop.reply.calls) -> CallRecords],
         NEW q \in CallRecords, NEW f, f = [loop.call EXCEPT ![c] = q], NEW n \in Nat,
         NEW g, g = [f EXCEPT ![c].tries = n] \/ (g = [f EXCEPT ![c].tries = @ + 1] /\ n = q.tries + 1)
  PROVE  g = [loop.call EXCEPT ![c] = [phase |-> q.phase, kind |-> q.kind, tries |-> n]]
<1>1. f[c] = q /\ f \in [ToSet(loop.reply.calls) -> CallRecords]
  OBVIOUS
<1>2. [q EXCEPT !.tries = n] = [phase |-> q.phase, kind |-> q.kind, tries |-> n]
  BY DEF CallRecords
<1>3. g = [f EXCEPT ![c] = [q EXCEPT !.tries = n]]
  BY <1>1 DEF CallRecords
<1> QED
  BY <1>1, <1>2, <1>3

LEMMA GuardPassesKeeps ==
  ASSUME AInv, GuardPasses
  PROVE  AInv'
<1> USE LoopFacts
<1> DEFINE l == [loop EXCEPT !.index = @ + 1]
           c == Current
           r == loop.call[c]
<1>1. /\ loop.pc = "guard" /\ BatchLeft /\ r.phase = "queued" /\ loop' = l
      /\ UNCHANGED <<agent, token, lost, dep, steering, followUp, sent, told>>
  BY DEF GuardPasses, At, Alone, Hold, Queues, History
<1>2. c \in ToSet(loop.reply.calls) /\ r \in CallRecords /\ loop.index \in 1 .. Len(loop.reply.calls)
  BY <1>1, CurrentIn, CallsOfLoop
<1>3. /\ LoopShape(l) /\ SamePlace(l, loop)
      /\ l.index = loop.index + 1 /\ l.call = loop.call /\ l.used = loop.used /\ l.attempts = loop.attempts
  BY NextIndex
<1>4. loop.call = [loop.call EXCEPT ![c] = r]
  <2>1. loop.call \in [ToSet(loop.reply.calls) -> CallRecords]
    BY DEF LoopOK
  <2> HIDE DEF c, l
  <2> QED
    BY <1>2, <2>1
<1>5. loop.call[c] = r
  OBVIOUS
<1> HIDE DEF l, c, r
<1>6. l.index \in 1 .. Len(loop.reply.calls) + 1
  BY <1>2, <1>3
<1>7. Notes(l, c, r)
  BY <1>1, <1>2, <1>3, <1>4, <1>5, <1>6 DEF Notes, SamePlace
<1>8. BudgetOK(l, dep)
  BY <1>1, <1>3, <1>5, <1>7, NotesBudget
<1>9. AInvAt(dep, agent, steering, followUp, l, sent, lost, told)
  BY <1>7, <1>8, NotesStep
<1> QED
  BY <1>1, <1>9, QuietKeeps

\* The first attempt of a call is one of those charged with the batch.
LEMMA DispatchKeeps ==
  ASSUME AInv, NEW c \in DOMAIN loop.call, Dispatch(c)
  PROVE  AInv'
<1> USE LoopFacts
<1> DEFINE k == Noted(c, "running", "none")
           l == [k EXCEPT !.call[c].tries = 1, !.attempts = @ + 1]
           q == [phase |-> "running", kind |-> "none", tries |-> loop.call[c].tries]
           r == [phase |-> "running", kind |-> "none", tries |-> 1]
<1>1. /\ loop.pc = "tools" /\ loop.call[c].phase = "queued" /\ \E e : Emit(e, agent, l)
      /\ UNCHANGED <<dep, steering, followUp, sent, told>>
  BY DEF Dispatch, At, Hold, Queues
<1>2. c \in ToSet(loop.reply.calls) /\ loop.call \in [ToSet(loop.reply.calls) -> CallRecords]
      /\ loop.index \in 1 .. Len(loop.reply.calls) + 1
  BY CallsOfLoop DEF LoopOK
<1>3. Notes(k, c, q) /\ k.used = loop.used /\ k.attempts = loop.attempts /\ k.index = loop.index
  BY <1>1, <1>2, NotedNotes
<1>4. r \in CallRecords /\ r.phase = "running" /\ q.phase = "running" /\ q.kind = "none"
  BY DEF CallRecords
<1>q. q \in CallRecords
  BY <1>2 DEF CallRecords
<1>k. l = [k EXCEPT !.call[c].tries = 1, !.attempts = @ + 1] /\ 1 \in Nat
  OBVIOUS
<1> HIDE DEF k, l
<1>5. /\ LoopShape(l) /\ SamePlace(l, k) /\ l.index = k.index /\ l.call = [k.call EXCEPT ![c].tries = 1]
      /\ l.used = k.used /\ l.attempts = k.attempts + 1
  <2>0. LoopShape(k)
    BY <1>3 DEF Notes
  <2>1. k.attempts \in Nat /\ k.attempts + 1 \in Nat
    BY <2>0 DEF LoopShape
  <2>2. SamePlace(l, k) /\ l.index = k.index /\ l.used = k.used
        /\ l.attempts = k.attempts + 1 /\ l.call = [k.call EXCEPT ![c].tries = 1]
    BY <1>k, <2>0 DEF LoopShape, SamePlace
  <2>3. LoopShape(l)
    BY <1>k, <2>0, <2>1 DEF LoopShape
  <2> QED
    BY <2>2, <2>3
<1> HIDE DEF q
<1>6. l.call = [loop.call EXCEPT ![c] = [phase |-> q.phase, kind |-> q.kind, tries |-> 1]]
  <2>1. k.call = [loop.call EXCEPT ![c] = q]
    BY <1>3 DEF Notes
  <2>2. k.call[c] = q /\ k.call \in [ToSet(loop.reply.calls) -> CallRecords]
    BY <1>2, <1>q, <2>1
  <2>3. [q EXCEPT !.tries = 1] = [phase |-> q.phase, kind |-> q.kind, tries |-> 1]
    BY <1>q DEF CallRecords
  <2>4. l.call = [k.call EXCEPT ![c] = [q EXCEPT !.tries = 1]]
    BY <1>5, <2>2 DEF CallRecords
  <2> QED
    BY <1>2, <2>1, <2>2, <2>3, <2>4
<1>7. l.call = [loop.call EXCEPT ![c] = r]
  BY <1>4, <1>6
<1> HIDE DEF r
<1>8. Notes(l, c, r)
  BY <1>1, <1>2, <1>3, <1>4, <1>5, <1>7 DEF Notes, SamePlace
<1>9. Unspent(l) = Unspent(loop) \ {c} /\ c \in Unspent(loop)
  <2>1. l.reply = loop.reply
    BY <1>8 DEF Notes
  <2> QED
    BY <1>1, <1>2, <1>4, <1>7, <2>1 DEF Unspent
<1>10. IsFiniteSet(Unspent(loop)) /\ Cardinality(Unspent(loop)) \in Nat
  BY UnspentFinite
<1>11. Cardinality(Unspent(l)) = Cardinality(Unspent(loop)) - 1 /\ Cardinality(Unspent(l)) \in Nat
  <2>1. IsFiniteSet(Unspent(l)) /\ Cardinality(Unspent(l)) = Cardinality(Unspent(loop)) - 1
    BY <1>9, <1>10, FS_RemoveElement
  <2> QED
    BY <2>1, FS_CardinalityType
<1>12. loop.attempts \in Nat /\ loop.used \in Nat
  BY DEF LoopShape
<1>13. BudgetOK(l, dep)
  BY <1>1, <1>3, <1>5, <1>8, <1>10, <1>11, <1>12 DEF BudgetOK, Notes
<1>14. AInvAt(dep, agent, steering, followUp, l, sent, lost, told)
  BY <1>8, <1>13, NotesStep
<1> QED
  BY <1>1, <1>14, EmitKeeps

\* A retry is charged when it is admitted; all calls share what is left.
LEMMA RetryKeeps ==
  ASSUME AInv, NEW c \in DOMAIN loop.call, Retry(c)
  PROVE  AInv'
<1> USE LoopFacts
<1>1. /\ loop.pc = "tools" /\ loop.call[c].phase = "backoff"
      /\ UNCHANGED <<dep, steering, followUp, sent, told>>
  BY DEF Retry, At, Alone, Hold, Queues, History
<1>2. c \in ToSet(loop.reply.calls) /\ loop.call \in [ToSet(loop.reply.calls) -> CallRecords]
      /\ loop.index \in 1 .. Len(loop.reply.calls) + 1 /\ loop.call[c].tries \in Nat
  BY CallsOfLoop DEF LoopOK, CallRecords
<1>3. CASE RetryAdmitted
  <2> DEFINE k == Noted(c, "running", "none")
             l == [k EXCEPT !.call[c].tries = @ + 1, !.used = @ + 1, !.attempts = @ + 1]
             n == loop.call[c].tries + 1
             q == [phase |-> "running", kind |-> "none", tries |-> loop.call[c].tries]
             r == [phase |-> "running", kind |-> "none", tries |-> n]
  <2>1. \E e : Emit(e, agent, l)
    BY <1>3 DEF Retry
  <2>2. Notes(k, c, q) /\ k.used = loop.used /\ k.attempts = loop.attempts /\ k.index = loop.index
    BY <1>1, <1>2, NotedNotes
  <2>3. /\ r \in CallRecords /\ r.phase = "running" /\ q.phase = "running" /\ q.kind = "none"
        /\ n = q.tries + 1 /\ n \in Nat
    BY <1>2 DEF CallRecords
  <2>k. l = [k EXCEPT !.call[c].tries = @ + 1, !.used = @ + 1, !.attempts = @ + 1]
    OBVIOUS
  <2>q. q \in CallRecords
    BY <1>2 DEF CallRecords
  <2> HIDE DEF k, n, l
  <2>4. /\ LoopShape(l) /\ SamePlace(l, k) /\ l.index = k.index /\ l.call = [k.call EXCEPT ![c].tries = @ + 1]
        /\ l.used = k.used + 1 /\ l.attempts = k.attempts + 1
    <3>0. LoopShape(k)
      BY <2>2 DEF Notes
    <3>1. k.attempts \in Nat /\ k.attempts + 1 \in Nat /\ k.used \in Nat /\ k.used + 1 \in Nat
      BY <3>0 DEF LoopShape
    <3>2. SamePlace(l, k) /\ l.index = k.index /\ l.used = k.used + 1
          /\ l.attempts = k.attempts + 1 /\ l.call = [k.call EXCEPT ![c].tries = @ + 1]
      BY <2>k, <3>0 DEF LoopShape, SamePlace
    <3>3. LoopShape(l)
      BY <2>k, <3>0, <3>1 DEF LoopShape
    <3> QED
      BY <3>2, <3>3
  <2> HIDE DEF q
  <2>5. l.call = [loop.call EXCEPT ![c] = [phase |-> q.phase, kind |-> q.kind, tries |-> n]]
    BY <1>2, <2>2, <2>3, <2>4, <2>q, Renoted DEF Notes
  <2>6. l.call = [loop.call EXCEPT ![c] = r]
    BY <2>3, <2>5
  <2> HIDE DEF r
  <2>7. Notes(l, c, r)
    BY <1>1, <1>2, <2>2, <2>3, <2>4, <2>6 DEF Notes, SamePlace
  <2>8. Unspent(l) = Unspent(loop)
    <3>1. l.reply = loop.reply
      BY <2>7 DEF Notes
    <3> QED
      BY <1>1, <1>2, <2>3, <2>6, <3>1 DEF Unspent
  <2>9. Cardinality(Unspent(loop)) \in Nat
    BY UnspentFinite
  <2>10. loop.attempts \in Nat /\ loop.used \in Nat /\ loop.used < dep.tools /\ dep.tools \in Nat
    BY <1>3, AgentAssumption DEF LoopShape, RetryAdmitted
  <2>11. BudgetOK(l, dep)
    BY <1>1, <2>2, <2>4, <2>7, <2>8, <2>9, <2>10 DEF BudgetOK, Notes
  <2>12. AInvAt(dep, agent, steering, followUp, l, sent, lost, told)
    BY <2>7, <2>11, NotesStep
  <2> QED
    BY <1>1, <2>1, <2>12, EmitKeeps
<1>4. CASE ~RetryAdmitted
  <2> DEFINE k == Noted(c, "finished", "failed")
             l == [k EXCEPT !.denied = TRUE]
             r == [phase |-> "finished", kind |-> "failed", tries |-> loop.call[c].tries]
  <2>1. (\E e : Emit(e, agent, l)) \/ (loop' = l /\ UNCHANGED <<agent, token, lost>>)
    BY <1>4 DEF Retry
  <2>2. "failed" \in Kinds
    BY DEF Kinds
  <2>3. Notes(k, c, r) /\ k.used = loop.used /\ k.attempts = loop.attempts /\ k.index = loop.index
    BY <1>1, <1>2, <2>2, NotedNotes
  <2>4. r.phase = "finished"
    OBVIOUS
  <2> HIDE DEF k, r
  <2>5. /\ LoopShape(l) /\ SamePlace(l, k) /\ l.index = k.index /\ l.call = k.call
        /\ l.used = k.used /\ l.attempts = k.attempts
    BY <2>3, Denied DEF Notes
  <2> HIDE DEF l
  <2>6. Notes(l, c, r)
    BY <1>1, <2>3, <2>5 DEF Notes, SamePlace
  <2>7. BudgetOK(l, dep)
    BY <2>3, <2>4, <2>5, <2>6, NotesBudget
  <2>8. AInvAt(dep, agent, steering, followUp, l, sent, lost, told)
    BY <2>6, <2>7, NotesStep
  <2>9. ASSUME NEW e, Emit(e, agent, l) PROVE AInv'
    BY <1>1, <2>8, <2>9, EmitKeeps
  <2>10. CASE loop' = l /\ UNCHANGED <<agent, token, lost>>
    BY <1>1, <2>8, <2>10, QuietKeeps
  <2> QED
    BY <2>1, <2>9, <2>10
<1> QED
  BY <1>3, <1>4

-----------------------------------------------------------------------------
(* Announced results *)

LEMMA KeptAdd ==
  ASSUME NEW M, NEW S, NEW T, KeptOK(M, S, T), NEW c \in Nat, c \in Open(M), NEW kind \in Kinds,
         \A x \in S : x.call # c
  PROVE  KeptOK(M, S \cup {ToolResult(c, kind)}, T \cup {<<c, kind>>})
<1> DEFINE x == ToolResult(c, kind)
           t == <<c, kind>>
<1>1. x \in Results /\ x.call = c /\ x.kind = kind
  BY DEF ToolResult, Results
<1>2. t \in Nat \X Kinds /\ t[1] = c /\ t[2] = kind
  OBVIOUS
<1>3. x = ToolResult(t[1], t[2])
  BY <1>2
<1> HIDE DEF x, t
<1>4. \A r1 \in S \cup {x}, r2 \in S \cup {x} : r1.call = r2.call => r1 = r2
  BY <1>1 DEF KeptOK
<1>5. \A u \in T \cup {t} : Heard(M, u) \/ (ToolResult(u[1], u[2]) \in S \cup {x} /\ u[1] \in Open(M))
  BY <1>2, <1>3 DEF KeptOK
<1>6. S \cup {x} \subseteq Results /\ T \cup {t} \subseteq Nat \X Kinds
  BY <1>1, <1>2 DEF KeptOK
<1> QED
  BY <1>4, <1>5, <1>6 DEF KeptOK, x, t

LEMMA ToolEndKeeps ==
  ASSUME AInv, NEW l, NEW c, NEW r, NEW kind \in Kinds, NEW code, Notes(l, c, r), BudgetOK(l, dep),
         c \in Open(agent.messages), r.phase = "ended", r.kind = kind,
         EmitToolEnd(c, kind, code, l), UNCHANGED <<dep, steering, followUp, sent>>
  PROVE  AInv'
<1> USE LoopFacts
<1> DEFINE a == [agent EXCEPT !.staged = @ \cup {ToolResult(c, kind)}]
           x == ToolResult(c, kind)
           M == agent.messages
           S == agent.staged \cup {x}
<1>1. /\ told' = told \cup {<<c, kind>>}
      /\ \/ Raise("cancel", a)
         \/ agent' = a /\ loop' = l /\ UNCHANGED <<token, lost>>
  BY DEF EmitToolEnd
<1>2. /\ LoopOK(l) /\ PlaceOK(M, l) /\ StagedAt(M, agent.staged, l) /\ l.call[c] = r
      /\ \A y \in agent.staged : y.call # c
  BY NotesOK
<1>3. c \in Nat
  BY OpenTyped DEF LogOK
<1>4. KeptOK(M, S, told')
  BY <1>1, <1>2, <1>3, KeptAdd
<1>5. a.messages = M /\ a.staged = S /\ a \in Agents
  <2>1. S \subseteq Results
    BY <1>4 DEF KeptOK
  <2> QED
    BY <2>1 DEF Agents
<1>6. x.call = c /\ x.kind = kind
  BY DEF ToolResult
<1>7. l.pc \in {"refuse", "guard", "tools"} /\ l.pend = loop.pend
  BY DEF Notes
<1> HIDE DEF a, x, M, S
<1>8. StagedAt(M, S, l)
  BY <1>2, <1>6, <1>7 DEF StagedAt, S, Notes, Batching, M
<1>9. QueuesOK(M, steering, followUp, l.pend, sent, lost)
  BY <1>7 DEF M
<1>10. AInvAt(dep, a, steering, followUp, l, sent, lost, told')
  BY <1>2, <1>4, <1>5, <1>8, <1>9 DEF AInvAt, M
<1>11. CASE agent' = a /\ loop' = l /\ UNCHANGED <<token, lost>>
  BY <1>10, <1>11 DEF AInv
<1>12. CASE Raise("cancel", a)
  <2>1. Survives(agent, told)
    BY AgentSurvives
  <2>2. Survives(a, told')
    BY <1>4, <1>5, <2>1 DEF Survives, M
  <2> QED
    BY <1>12, <2>2, RaiseKeeps
<1> QED
  BY <1>1, <1>11, <1>12

LEMMA EndingKeeps ==
  ASSUME AInv
  PROVE  /\ RefuseEnd \/ GuardBlocks => AInv'
         /\ \A c \in DOMAIN loop.call : EndCall(c) => AInv'
<1> USE LoopFacts DEF Hold, Queues
<1>1. ASSUME RefuseEnd PROVE AInv'
  <2> DEFINE l == Noted(Current, "ended", "skipped")
             r == [phase |-> "ended", kind |-> "skipped", tries |-> loop.call[Current].tries]
  <2>1. /\ loop.pc = "refuse" /\ BatchLeft /\ loop.call[Current].phase = "queued"
        /\ EmitToolEnd(Current, "skipped", "refused", l) /\ UNCHANGED <<dep, steering, followUp, sent>>
    BY <1>1 DEF RefuseEnd, At
  <2>2. Current \in ToSet(loop.reply.calls) /\ Current \in Open(agent.messages) /\ "skipped" \in Kinds
    BY <2>1, CurrentIn DEF PlaceOK, Kinds
  <2>3. Notes(l, Current, r) /\ l.used = loop.used /\ l.attempts = loop.attempts
    BY <2>1, <2>2, NotedNotes
  <2>4. r.phase = "ended" /\ r.kind = "skipped"
    OBVIOUS
  <2> HIDE DEF l, r
  <2>5. BudgetOK(l, dep)
    BY <2>3, <2>4, NotesBudget
  <2> QED
    BY <2>1, <2>2, <2>3, <2>4, <2>5, ToolEndKeeps
<1>2. ASSUME GuardBlocks PROVE AInv'
  <2> DEFINE k == Noted(Current, "ended", "skipped")
             l == [k EXCEPT !.index = @ + 1]
             r == [phase |-> "ended", kind |-> "skipped", tries |-> loop.call[Current].tries]
  <2>1. /\ loop.pc = "guard" /\ BatchLeft /\ loop.call[Current].phase = "queued"
        /\ EmitToolEnd(Current, "skipped", "refused", l) /\ UNCHANGED <<dep, steering, followUp, sent>>
    BY <1>2 DEF GuardBlocks, At
  <2>2. Current \in ToSet(loop.reply.calls) /\ Current \in Open(agent.messages) /\ "skipped" \in Kinds
        /\ loop.index \in 1 .. Len(loop.reply.calls)
    BY <2>1, CurrentIn DEF PlaceOK, Kinds
  <2>3. Notes(k, Current, r) /\ k.used = loop.used /\ k.attempts = loop.attempts /\ k.index = loop.index
    BY <2>1, <2>2, NotedNotes
  <2>4. r.phase = "ended" /\ r.kind = "skipped"
    OBVIOUS
  <2> HIDE DEF k, r
  <2>5. /\ LoopShape(l) /\ SamePlace(l, k)
        /\ l.index = k.index + 1 /\ l.call = k.call /\ l.used = k.used /\ l.attempts = k.attempts
    BY <2>3, NextIndex DEF Notes
  <2> HIDE DEF l
  <2>6. l.index \in 1 .. Len(loop.reply.calls) + 1
    BY <2>2, <2>3, <2>5
  <2>7. Notes(l, Current, r) /\ l.used = loop.used /\ l.attempts = loop.attempts
    BY <2>1, <2>3, <2>5, <2>6 DEF Notes, SamePlace
  <2>8. BudgetOK(l, dep)
    BY <2>4, <2>7, NotesBudget
  <2> QED
    BY <2>1, <2>2, <2>4, <2>7, <2>8, ToolEndKeeps
<1>3. ASSUME NEW c \in DOMAIN loop.call, EndCall(c) PROVE AInv'
  <2> DEFINE kind == loop.call[c].kind
             l == Noted(c, "ended", kind)
             r == [phase |-> "ended", kind |-> kind, tries |-> loop.call[c].tries]
  <2>1. /\ loop.pc = "tools" /\ loop.call[c].phase = "finished"
        /\ EmitToolEnd(c, kind, CodeOf(kind), l) /\ UNCHANGED <<dep, steering, followUp, sent>>
    BY <1>3 DEF EndCall, At
  <2>2. c \in ToSet(loop.reply.calls) /\ c \in Open(agent.messages) /\ kind \in Kinds
    BY <2>1, CallsOfLoop DEF PlaceOK, LoopOK
  <2>3. Notes(l, c, r) /\ l.used = loop.used /\ l.attempts = loop.attempts
    BY <2>1, <2>2, NotedNotes
  <2>4. r.phase = "ended" /\ r.kind = kind
    OBVIOUS
  <2> HIDE DEF l, r, kind
  <2>5. BudgetOK(l, dep)
    BY <2>3, <2>4, NotesBudget
  <2> QED
    BY <2>1, <2>2, <2>3, <2>4, <2>5, ToolEndKeeps
<1> QED
  BY <1>1, <1>2, <1>3

-----------------------------------------------------------------------------
(* Messages that enter the conversation *)

LEMMA EmptyBounded ==
  ASSUME NEW n
  PROVE  Bounded(ToSet(<< >>), n) /\ IsInjective(<< >>)
  BY EmptySets DEF Bounded

LEMMA HeardGrows ==
  ASSUME NEW M \in Seq(Messages), NEW m, NEW t, Heard(M, t)
  PROVE  Heard(Append(M, m), t)
<1>1. PICK i \in DOMAIN M : M[i] = ToolResult(t[1], t[2])
  BY DEF Heard
<1>2. i \in DOMAIN Append(M, m) /\ Append(M, m)[i] = M[i]
  BY <1>1
<1> QED
  BY <1>1, <1>2 DEF Heard

LEMMA HeardNow ==
  ASSUME NEW M \in Seq(Messages), NEW t
  PROVE  Heard(Append(M, ToolResult(t[1], t[2])), t)
<1> DEFINE m == ToolResult(t[1], t[2])
<1>1. Len(M) + 1 \in DOMAIN Append(M, m) /\ Append(M, m)[Len(M) + 1] = m
  OBVIOUS
<1> HIDE DEF m
<1>2. \E i \in DOMAIN Append(M, m) : Append(M, m)[i] = m
  BY <1>1
<1> QED
  BY <1>2 DEF Heard, m

LEMMA KeptSaid ==
  ASSUME NEW M \in Seq(Messages), NEW T, KeptOK(M, {}, T), NEW m
  PROVE  KeptOK(Append(M, m), {}, T)
  BY HeardGrows DEF KeptOK

LEMMA KeptResult ==
  ASSUME NEW M \in Seq(Messages), NEW S, NEW T, KeptOK(M, S, T), NEW c \in Nat, NEW kind \in Kinds,
         \A r \in S : r.call = c => r.kind = kind, NEW U, U \subseteq S, \A r \in S : r.call # c => r \in U
  PROVE  KeptOK(Append(M, ToolResult(c, kind)), U, T)
<1> DEFINE m == ToolResult(c, kind)
           L == Append(M, m)
<1>1. m \in Results /\ m.call = c
  BY DEF ToolResult, Results
<1>2. Open(L) = Open(M) \ {c}
  BY <1>1, OpenResult
<1>3. ASSUME NEW t \in T PROVE Heard(L, t) \/ (ToolResult(t[1], t[2]) \in U /\ t[1] \in Open(L))
  <2>1. CASE Heard(M, t)
    BY <2>1, HeardGrows
  <2>2. CASE ToolResult(t[1], t[2]) \in S /\ t[1] \in Open(M) /\ t[1] # c
    <3>1. ToolResult(t[1], t[2]).call = t[1]
      BY DEF ToolResult
    <3> QED
      BY <1>2, <2>2, <3>1
  <2>3. CASE ToolResult(t[1], t[2]) \in S /\ t[1] = c
    <3>1. ToolResult(t[1], t[2]).call = t[1] /\ ToolResult(t[1], t[2]).kind = t[2]
      BY DEF ToolResult
    <3>2. t[2] = kind
      BY <2>3, <3>1
    <3>3. m = ToolResult(t[1], t[2])
      BY <2>3, <3>2
    <3> QED
      BY <3>3, HeardNow
  <2> QED
    BY <2>1, <2>2, <2>3 DEF KeptOK
<1>4. U \subseteq Results /\ \A r1 \in U, r2 \in U : r1.call = r2.call => r1 = r2
  BY DEF KeptOK
<1> QED
  BY <1>3, <1>4 DEF KeptOK

LEMMA MessageKeeps ==
  ASSUME AInv, NEW m, NEW e, NEW l, EmitMessage(m, e, l), UNCHANGED <<dep, steering, followUp, sent, told>>,
         NEW a, a = [agent EXCEPT !.messages = Append(@, m)],
         NEW b, b = IF m.role = "result" THEN [a EXCEPT !.staged = {r \in @ : r.call # m.call}] ELSE a,
         Survives(a, told), AInvAt(dep, b, steering, followUp, l, sent, lost, told)
  PROVE  AInv'
<1>1. \/ \E kind : Raise(kind, a)
      \/ Raise("error", agent)
      \/ agent' = b /\ loop' = l /\ UNCHANGED <<token, lost>>
  BY DEF EmitMessage
<1>2. ASSUME NEW kind, Raise(kind, a) PROVE AInv'
  BY <1>2, RaiseKeeps
<1>3. CASE Raise("error", agent)
  BY <1>3, AgentSurvives, RaiseKeeps
<1>4. CASE agent' = b /\ loop' = l /\ UNCHANGED <<token, lost>>
  BY <1>4 DEF AInv
<1> QED
  BY <1>1, <1>2, <1>3, <1>4

\* A message of the user or of the model, said while no call is open.
LEMMA SayingKeeps ==
  ASSUME AInv, loop.pc \notin Batching \cup {"fail"},
         NEW m \in Messages, m.role # "result", IsInjective(CallsOf(m)),
         Bounded(ToSet(CallsOf(m)), Len(agent.messages) + 2), InCleanup => CallsOf(m) = << >>,
         NEW e, NEW l, EmitMessage(m, e, l), Alone,
         NEW L, L = Append(agent.messages, m),
         LoopOK(l), BudgetOK(l, dep), PlaceOK(L, l),
         QueuesOK(L, steering, followUp, l.pend, sent, lost),
         QueuesOK(L, steering, followUp, << >>, sent, lost \cup Ids(loop.pend))
  PROVE  AInv'
<1> USE LoopFacts
<1> DEFINE a == [agent EXCEPT !.messages = Append(@, m)]
           M == agent.messages
<1>1. agent.staged = {} /\ M \in Seq(Messages)
  BY DEF StagedAt, LogOK
<1>2. L \in Seq(Messages) /\ LogOK(L)
  BY <1>1, LogSaid
<1>3. a.messages = L /\ a.staged = {} /\ a \in Agents
  BY <1>1, <1>2 DEF Agents
<1>4. KeptOK(L, {}, told)
  BY <1>1, KeptSaid
<1>5. a = [agent EXCEPT !.messages = Append(@, m)]
      /\ a = IF m.role = "result" THEN [a EXCEPT !.staged = {r \in @ : r.call # m.call}] ELSE a
  OBVIOUS
<1>6. InCleanup => Open(L) = {}
  BY <1>1, OpenSaid, EmptySets
<1> HIDE DEF a, M
<1>7. Survives(a, told)
  BY <1>2, <1>3, <1>4, <1>6 DEF Survives
<1>8. StagedAt(L, {}, l)
  BY DEF StagedAt
<1>9. AInvAt(dep, a, steering, followUp, l, sent, lost, told)
  BY <1>2, <1>3, <1>4, <1>8 DEF AInvAt
<1>10. UNCHANGED <<dep, steering, followUp, sent, told>>
  BY DEF Alone, Hold, Queues, History
<1> QED
  BY <1>5, <1>7, <1>9, <1>10, MessageKeeps

LEMMA UserSaid ==
  ASSUME NEW M, LogOK(M), NEW m \in UserMessages
  PROVE  /\ m \in Messages /\ m.role = "user" /\ CallsOf(m) = << >>
         /\ Append(M, m) \in Seq(Messages) /\ Open(Append(M, m)) = {}
<1>1. m \in Messages /\ m.role = "user"
  BY RolesDiffer DEF Messages
<1>2. CallsOf(m) = << >>
  BY <1>1, CallsTyped
<1>3. M \in Seq(Messages)
  BY DEF LogOK
<1> QED
  BY <1>1, <1>2, <1>3, OpenSaid, EmptySets

LEMMA HeadFirst ==
  ASSUME NEW M \in Seq(Messages), NEW p \in Seq(UserMessages), p # << >>
  PROVE  M \o p = Append(M, Head(p)) \o Tail(p)
<1> DEFINE m == Len(M)
           n == Len(p)
           L == M \o p
           R == Append(M, Head(p)) \o Tail(p)
<1>1. m \in Nat /\ n \in Nat /\ n >= 1 /\ Len(Tail(p)) = n - 1 /\ Head(p) = p[1]
      /\ Tail(p) \in Seq(UserMessages) /\ Append(M, Head(p)) \in Seq(Messages \cup {Head(p)})
      /\ Len(Append(M, Head(p))) = m + 1
  OBVIOUS
<1>2. Len(L) = m + n /\ Len(R) = (m + 1) + (n - 1) /\ DOMAIN L = 1 .. Len(L) /\ DOMAIN R = 1 .. Len(R)
  BY <1>1
<1>3. \A i \in 1 .. m + n : L[i] = IF i <= m THEN M[i] ELSE p[i - m]
  BY <1>1
<1>4. \A i \in 1 .. m + n : R[i] = IF i <= m + 1 THEN Append(M, Head(p))[i] ELSE Tail(p)[i - (m + 1)]
  BY <1>1
<1>5. \A i \in 1 .. n - 1 : Tail(p)[i] = p[i + 1]
  BY <1>1
<1>6. ASSUME NEW i \in 1 .. m + n PROVE L[i] = R[i]
  <2>1. CASE i <= m
    BY <1>1, <1>3, <1>4, <2>1
  <2>2. CASE i = m + 1
    BY <1>1, <1>3, <1>4, <2>2
  <2>3. CASE i > m + 1
    <3>1. i - (m + 1) \in 1 .. n - 1 /\ (i - (m + 1)) + 1 = i - m
      BY <1>1, <2>3
    <3> QED
      BY <1>1, <1>3, <1>4, <1>5, <2>3, <3>1
  <2> QED
    BY <1>1, <2>1, <2>2, <2>3
<1>7. L \in Seq(Messages \cup UserMessages) /\ R \in Seq(Messages \cup UserMessages \cup {Head(p)})
  BY <1>1
<1> QED
  BY <1>1, <1>2, <1>6, <1>7

LEMMA PendTail ==
  ASSUME LoopShape(loop), Tail(loop.pend) \in Seq(UserMessages), NEW l, l = [loop EXCEPT !.pend = Tail(@)]
  PROVE  /\ LoopShape(l) /\ l.pend = Tail(loop.pend) /\ l.ctx = loop.ctx /\ l.reply = loop.reply
         /\ l.index = loop.index /\ l.call = loop.call /\ l.pc = loop.pc
         /\ l.turns = loop.turns /\ l.used = loop.used /\ l.attempts = loop.attempts /\ l.first = loop.first
<1>1. /\ l.pend = Tail(loop.pend) /\ l.ctx = loop.ctx /\ l.reply = loop.reply
      /\ l.index = loop.index /\ l.call = loop.call /\ l.pc = loop.pc
      /\ l.turns = loop.turns /\ l.used = loop.used /\ l.attempts = loop.attempts /\ l.first = loop.first
  BY DEF LoopShape
<1>2. LoopShape(l)
  BY DEF LoopShape
<1> QED
  BY <1>1, <1>2

LEMMA PendSaid ==
  ASSUME LoopShape(loop), Tail(loop.pend) \in Seq(UserMessages), NEW m \in Messages,
         NEW l, l = [loop EXCEPT !.pend = Tail(@), !.ctx = Append(@, m)]
  PROVE  /\ LoopShape(l) /\ l.pend = Tail(loop.pend) /\ l.ctx = Append(loop.ctx, m) /\ l.reply = loop.reply
         /\ l.index = loop.index /\ l.call = loop.call /\ l.pc = loop.pc
         /\ l.turns = loop.turns /\ l.used = loop.used /\ l.attempts = loop.attempts /\ l.first = loop.first
<1>1. /\ l.pend = Tail(loop.pend) /\ l.ctx = Append(loop.ctx, m) /\ l.reply = loop.reply
      /\ l.index = loop.index /\ l.call = loop.call /\ l.pc = loop.pc
      /\ l.turns = loop.turns /\ l.used = loop.used /\ l.attempts = loop.attempts /\ l.first = loop.first
  BY DEF LoopShape
<1>2. LoopShape(l)
  <2>1. Append(loop.ctx, m) \in Seq(Messages)
    BY DEF LoopShape
  <2> QED
    BY <2>1 DEF LoopShape
<1> QED
  BY <1>1, <1>2

\* A prompt or an injected message is committed.
LEMMA InjectKeeps ==
  ASSUME AInv, EmitPrompt \/ Inject
  PROVE  AInv'
<1> USE LoopFacts
<1> DEFINE m == Head(loop.pend)
           M == agent.messages
           L == Append(M, m)
<1>1. /\ loop.pc \in {"prompts", "inject"} /\ loop.pend # << >> /\ Alone
      /\ loop.pend \in Seq(UserMessages) /\ M \in Seq(Messages) /\ loop.ctx \in Seq(Messages)
  BY DEF EmitPrompt, Inject, At, LoopShape, LogOK
<1>2. /\ QueuesOK(L, steering, followUp, Tail(loop.pend), sent, lost)
      /\ QueuesOK(L, steering, followUp, << >>, sent, lost \cup Ids(loop.pend))
      /\ m \in UserMessages /\ Tail(loop.pend) \in Seq(UserMessages)
  BY <1>1, QueuesInject
<1>3. /\ m \in Messages /\ m.role = "user" /\ CallsOf(m) = << >> /\ L \in Seq(Messages) /\ Open(L) = {}
  BY <1>2, UserSaid
<1>4. IsInjective(CallsOf(m)) /\ Bounded(ToSet(CallsOf(m)), Len(M) + 2)
  BY <1>3, EmptyBounded
<1>5. M \o loop.pend = L \o Tail(loop.pend)
  BY <1>1, HeadFirst
<1>6. PICK l : /\ EmitMessage(m, Event("message"), l) /\ LoopShape(l)
               /\ l.pend = Tail(loop.pend) /\ l.reply = loop.reply
               /\ l.index = loop.index /\ l.call = loop.call /\ l.pc = loop.pc
               /\ l.turns = loop.turns /\ l.used = loop.used /\ l.attempts = loop.attempts /\ l.first = loop.first
               /\ l.ctx = IF loop.pc = "prompts" THEN loop.ctx ELSE Append(loop.ctx, m)
  <2>1. CASE EmitPrompt
    <3> DEFINE l == [loop EXCEPT !.pend = Tail(@)]
    <3>1. loop.pc = "prompts" /\ EmitMessage(m, Event("message"), l)
      BY <2>1 DEF EmitPrompt, At
    <3>2. l = [loop EXCEPT !.pend = Tail(@)]
      OBVIOUS
    <3> HIDE DEF l, m
    <3> QED
      BY <1>2, <3>1, <3>2, PendTail
  <2>2. CASE Inject
    <3> DEFINE l == [loop EXCEPT !.pend = Tail(@), !.ctx = Append(@, m)]
    <3>1. loop.pc = "inject" /\ EmitMessage(m, Event("message"), l)
      BY <2>2 DEF Inject, At
    <3>2. l = [loop EXCEPT !.pend = Tail(@), !.ctx = Append(@, m)]
      OBVIOUS
    <3> HIDE DEF l, m
    <3> QED
      BY <1>2, <1>3, <3>1, <3>2, PendSaid
  <2> QED
    BY <2>1, <2>2
<1> HIDE DEF m, M, L
<1>7. LoopOK(l)
  BY <1>1, <1>6 DEF LoopOK
<1>8. BudgetOK(l, dep)
  BY <1>1, <1>6 DEF BudgetOK
<1>9. PlaceOK(L, l)
  <2>1. CASE loop.pc = "prompts"
    BY <1>3, <1>5, <1>6, <2>1 DEF PlaceOK, M
  <2>2. CASE loop.pc = "inject"
    BY <1>3, <1>6, <2>2 DEF PlaceOK, M, L
  <2> QED
    BY <1>1, <2>1, <2>2
<1>10. loop.pc \notin Batching \cup {"fail"} /\ ~InCleanup
  BY <1>1 DEF Batching, InCleanup
<1>11. L = Append(agent.messages, m) /\ Len(M) = Len(agent.messages)
  BY DEF L, M
<1>12. m.role # "result"
  BY <1>3
<1> QED
  BY <1>1, <1>2, <1>3, <1>4, <1>6, <1>7, <1>8, <1>9, <1>10, <1>11, <1>12, SayingKeeps

\* A message that is not of a user leaves the queues alone.
LEMMA OtherSaid ==
  ASSUME AInv, NEW m \in Messages, m.role # "user"
  PROVE  /\ QueuesOK(Append(agent.messages, m), steering, followUp, loop.pend, sent, lost)
         /\ QueuesOK(Append(agent.messages, m), steering, followUp, << >>, sent, lost \cup Ids(loop.pend))
<1>1. agent.messages \in Seq(Messages)
  BY LoopFacts DEF LogOK
<1>2. QueuesOK(agent.messages, steering, followUp, << >>, sent, lost \cup Ids(loop.pend))
  BY AgentSurvives DEF Survives
<1> QED
  BY <1>1, <1>2, LoopFacts, SaidSame, QueuesSame

LEMMA FailMessageKeeps ==
  ASSUME AInv, FailMessage
  PROVE  AInv'
<1> USE LoopFacts
<1> DEFINE m == Failure
           M == agent.messages
           L == Append(M, m)
           l == Go("fail_turn")
<1>1. loop.pc = "fail_message" /\ Alone /\ EmitMessage(m, ToolEvent("model_response_finished", 0, m.stop), l)
      /\ M \in Seq(Messages)
  BY DEF FailMessage, At, LogOK
<1>2. m \in Assistants /\ m.calls = << >>
  BY DEF Failure, AssistantMessage, Assistants, Stops
<1>3. LoopShape(l) /\ l.pc = "fail_turn" /\ SameWork(l, loop)
  BY GoShape DEF Places
<1> HIDE DEF m, l, L
<1>4. m \in Messages /\ m.role = "assistant" /\ CallsOf(m) = << >>
  BY <1>2, RolesDiffer DEF Messages, CallsOf
<1>5. IsInjective(CallsOf(m)) /\ Bounded(ToSet(CallsOf(m)), Len(M) + 2)
  BY <1>4, EmptyBounded
<1>6. Open(L) = {}
  BY <1>1, <1>4, OpenSaid, EmptySets DEF L
<1>7. LoopOK(l)
  BY <1>1, <1>3 DEF LoopOK, SameWork
<1>8. BudgetOK(l, dep)
  BY <1>1, <1>3 DEF BudgetOK, SameWork
<1>9. PlaceOK(L, l)
  BY <1>3, <1>6 DEF PlaceOK
<1>10. /\ QueuesOK(L, steering, followUp, l.pend, sent, lost)
       /\ QueuesOK(L, steering, followUp, << >>, sent, lost \cup Ids(loop.pend))
  BY <1>3, <1>4, OtherSaid DEF L, SameWork
<1>11. loop.pc \notin Batching \cup {"fail"} /\ L = Append(agent.messages, m) /\ m.role # "result"
  BY <1>1, <1>4 DEF Batching, L
<1> QED
  BY <1>1, <1>4, <1>5, <1>7, <1>8, <1>9, <1>10, <1>11, SayingKeeps

\* The fields of the loop that a committed message leaves alone.
Carried(l, k) ==
    /\ l.ctx = k.ctx /\ l.pend = k.pend /\ l.reply = k.reply /\ l.call = k.call
    /\ l.turns = k.turns /\ l.attempts = k.attempts /\ l.first = k.first

LEMMA AfterReplyFacts ==
  ASSUME LoopShape(loop), Len(loop.reply.calls) \in Nat, NEW l, l = AfterReply
  PROVE  /\ LoopShape(l) /\ Carried(l, loop) /\ l.index = loop.index
         /\ \/ l.pc = "turn_end" /\ loop.reply.calls = << >> /\ l.used = loop.used
            \/ l.pc = "deny" /\ l.used = loop.used
            \/ /\ l.pc \in {"refuse", "guard"} /\ ~ToolBudgetShort
               /\ l.used = loop.used + Len(loop.reply.calls)
<1> USE DEF Go, Carried
<1>1. CASE loop.reply.calls = << >>
  <2>1. l = [loop EXCEPT !.pc = "turn_end", !.more = FALSE]
    BY <1>1 DEF AfterReply, LoopShape
  <2>2. Carried(l, loop) /\ l.index = loop.index /\ l.pc = "turn_end" /\ l.used = loop.used
    BY <2>1 DEF LoopShape
  <2>3. LoopShape(l)
    BY <2>1 DEF LoopShape, Places
  <2> QED
    BY <1>1, <2>2, <2>3
<1>2. CASE loop.reply.calls # << >> /\ ToolBudgetShort
  <2>1. l = [loop EXCEPT !.pc = "deny", !.over = TRUE, !.more = FALSE]
    BY <1>2 DEF AfterReply, LoopShape
  <2>2. Carried(l, loop) /\ l.index = loop.index /\ l.pc = "deny" /\ l.used = loop.used
    BY <2>1 DEF LoopShape
  <2>3. LoopShape(l)
    BY <2>1 DEF LoopShape, Places
  <2> QED
    BY <2>2, <2>3
<1>3. CASE loop.reply.calls # << >> /\ ~ToolBudgetShort
  <2> DEFINE pc == IF loop.refused \/ loop.reply.stop = "length" THEN "refuse" ELSE "guard"
             more == loop.reply.stop # "length"
             n == loop.used + Len(loop.reply.calls)
  <2>1. l = [loop EXCEPT !.used = n, !.pc = pc, !.more = more]
    BY <1>3 DEF AfterReply
  <2>2. pc \in {"refuse", "guard"} /\ more \in BOOLEAN /\ n \in Nat
    BY DEF LoopShape
  <2>3. n = loop.used + Len(loop.reply.calls)
    OBVIOUS
  <2> HIDE DEF pc, more, n
  <2>4. Carried(l, loop) /\ l.index = loop.index /\ l.pc = pc /\ l.used = n
    BY <2>1 DEF LoopShape
  <2>5. LoopShape(l)
    BY <2>1, <2>2 DEF LoopShape, Places
  <2> QED
    BY <1>3, <2>2, <2>3, <2>4, <2>5
<1> QED
  BY <1>1, <1>2, <1>3

LEMMA CommitReplyKeeps ==
  ASSUME AInv, CommitReply
  PROVE  AInv'
<1> USE LoopFacts
<1> DEFINE m == loop.reply
           M == agent.messages
           L == Append(M, m)
           l == AfterReply
<1>1. loop.pc = "reply" /\ Alone /\ EmitMessage(m, ToolEvent("model_response_finished", 0, m.stop), l)
      /\ M \in Seq(Messages)
  BY DEF CommitReply, At, LogOK
<1>2. /\ LoopShape(l) /\ Carried(l, loop) /\ l.index = loop.index
      /\ \/ l.pc = "turn_end" /\ loop.reply.calls = << >> /\ l.used = loop.used
         \/ l.pc = "deny" /\ l.used = loop.used
         \/ /\ l.pc \in {"refuse", "guard"} /\ ~ToolBudgetShort
            /\ l.used = loop.used + Len(loop.reply.calls)
  BY AfterReplyFacts
<1> HIDE DEF l, L
<1>3. m \in Messages /\ m.role = "assistant" /\ CallsOf(m) = m.calls
  BY RolesDiffer DEF Messages, CallsOf
<1>4. /\ IsInjective(CallsOf(m)) /\ Bounded(ToSet(CallsOf(m)), Len(M) + 2)
      /\ loop.index = 1 /\ loop.pend = << >> /\ loop.ctx = L
      /\ \A c \in ToSet(m.calls) : loop.call[c].phase = "new"
  BY <1>1, <1>3 DEF LoopOK, PlaceOK, L
<1>5. Open(L) = ToSet(m.calls) /\ L \in Seq(Messages)
  BY <1>1, <1>3, OpenSaid DEF L
<1>6. LoopOK(l)
  BY <1>1, <1>2, <1>4 DEF LoopOK, Carried
<1>7. BudgetOK(l, dep)
  <2>1. /\ Cardinality(Unspent(l)) \in Nat /\ Cardinality(Unspent(l)) <= Len(loop.reply.calls)
    BY <1>2, UnspentFinite DEF Carried
  <2>2. loop.attempts \in Nat /\ loop.used \in Nat /\ dep.tools \in Nat
    BY AgentAssumption DEF LoopShape
  <2>3. loop.attempts <= loop.used /\ loop.used <= dep.tools
    BY DEF BudgetOK
  <2>4. /\ l.used <= dep.tools /\ l.attempts <= l.used
        /\ l.pc \in {"guard", "tools"} => l.attempts + Cardinality(Unspent(l)) <= l.used
    <3>1. CASE l.pc \in {"turn_end", "deny"} /\ l.used = loop.used
      BY <1>2, <2>2, <2>3, <3>1 DEF Carried
    <3>2. CASE l.pc \in {"refuse", "guard"} /\ ~ToolBudgetShort /\ l.used = loop.used + Len(loop.reply.calls)
      <4>1. loop.used + Len(loop.reply.calls) <= dep.tools
        BY <2>2, <3>2 DEF ToolBudgetShort
      <4> QED
        BY <1>2, <2>1, <2>2, <2>3, <3>2, <4>1 DEF Carried
    <3> QED
      BY <1>2, <3>1, <3>2
  <2> QED
    BY <1>2, <2>4 DEF BudgetOK, Carried
<1>8. PlaceOK(L, l)
  <2>1. CASE l.pc = "turn_end" /\ loop.reply.calls = << >>
    BY <1>2, <1>4, <1>5, <2>1, EmptySets DEF PlaceOK, Carried
  <2>2. CASE l.pc \in {"deny", "guard"}
    BY <1>2, <1>4, <1>5, <2>2 DEF PlaceOK, Carried, Batching
  <2>3. CASE l.pc = "refuse"
    <3>1. Unheard(l) = ToSet(loop.reply.calls)
      <4> DEFINE cs == loop.reply.calls
      <4>1. l.reply.calls = cs /\ l.index = 1
        BY <1>2, <1>4 DEF Carried
      <4>2. DOMAIN cs = 1 .. Len(cs)
        OBVIOUS
      <4> HIDE DEF cs
      <4>3. Unheard(l) = ToSet(cs)
        BY <4>1, <4>2 DEF Unheard, ToSet
      <4> QED
        BY <4>3 DEF cs
    <3>2. L = l.ctx \o [i \in 1 .. l.index - 1 |-> ResultAt(l, i)]
      <4>1. l.index - 1 = 0 /\ l.ctx = L
        BY <1>2, <1>4 DEF Carried
      <4>2. [i \in 1 .. 0 |-> ResultAt(l, i)] = << >>
        OBVIOUS
      <4>3. L \o << >> = L
        BY <1>5
      <4> QED
        BY <4>1, <4>2, <4>3
    <3>3. \A i \in 1 .. l.index - 1 : FALSE
      BY <1>2, <1>4
    <3>4. \A c \in ToSet(l.reply.calls) : l.call[c].phase = "new"
      BY <1>2, <1>4 DEF Carried
    <3>5. Open(L) = Unheard(l)
      BY <1>5, <3>1
    <3> QED
      BY <2>3, <3>2, <3>3, <3>4, <3>5 DEF PlaceOK, Batching
  <2> QED
    BY <1>2, <2>1, <2>2, <2>3
<1>9. /\ QueuesOK(L, steering, followUp, l.pend, sent, lost)
      /\ QueuesOK(L, steering, followUp, << >>, sent, lost \cup Ids(loop.pend))
  BY <1>2, <1>3, OtherSaid DEF L, Carried
<1>10. loop.pc \notin Batching \cup {"fail"} /\ L = Append(agent.messages, m) /\ m.role # "result" /\ ~InCleanup
  BY <1>1, <1>3 DEF Batching, L, InCleanup
<1> QED
  BY <1>1, <1>3, <1>4, <1>6, <1>7, <1>8, <1>9, <1>10, SayingKeeps

\* The results of a batch, one more of which is committed.
LEMMA UnheardNext ==
  ASSUME NEW s \in Seq(Nat), IsInjective(s), NEW i \in 1 .. Len(s)
  PROVE  {s[j] : j \in i + 1 .. Len(s)} = {s[j] : j \in i .. Len(s)} \ {s[i]}
<1>1. \A j \in i .. Len(s) : j = i \/ j \in i + 1 .. Len(s)
  OBVIOUS
<1>2. \A j \in i + 1 .. Len(s) : j \in i .. Len(s) /\ j # i /\ j \in DOMAIN s /\ i \in DOMAIN s
  OBVIOUS
<1>3. \A j \in i + 1 .. Len(s) : s[j] # s[i]
  BY <1>2 DEF IsInjective
<1> QED
  BY <1>1, <1>2, <1>3

LEMMA AppendRow ==
  ASSUME NEW C \in Seq(Messages), NEW M, NEW r \in Seq(Messages), NEW s \in Seq(Messages), M = C \o r,
         Len(s) = Len(r) + 1, \A j \in 1 .. Len(r) : s[j] = r[j]
  PROVE  Append(M, s[Len(s)]) = C \o s
<1> DEFINE e == s[Len(s)]
<1>1. Len(s) \in 1 .. Len(s) /\ Len(r) \in Nat /\ e \in Messages
  OBVIOUS
<1>2. Append(r, e) = s
  <2>1. Append(r, e) \in Seq(Messages) /\ Len(Append(r, e)) = Len(s)
    BY <1>1
  <2>2. \A j \in 1 .. Len(s) : Append(r, e)[j] = s[j]
    BY <1>1
  <2> QED
    BY <2>1, <2>2, SeqEqual
<1> HIDE DEF e
<1>3. Append(r, e) = r \o <<e>> /\ C \o r \in Seq(Messages) /\ <<e>> \in Seq(Messages)
  BY <1>1
<1>4. Append(C \o r, e) = (C \o r) \o <<e>>
  BY <1>3
<1>5. (C \o r) \o <<e>> = C \o (r \o <<e>>)
  <2> DEFINE x == <<e>>
  <2>1. x \in Seq(Messages)
    BY <1>3
  <2> HIDE DEF x
  <2>2. (C \o r) \o x = C \o (r \o x)
    BY <2>1, ConcatAssociative
  <2> QED
    BY <2>2 DEF x
<1> QED
  BY <1>2, <1>3, <1>4, <1>5 DEF e

\* A committed result: the call is answered, and no other.
LEMMA ResultKeeps ==
  ASSUME AInv, BatchLeft, loop.pc \in {"refuse", "results"}, loop.call[Current].phase = "ended",
         NEW kind, kind = loop.call[Current].kind, NEW e,
         EmitMessage(ToolResult(Current, kind), e, [loop EXCEPT !.index = @ + 1]), Alone
  PROVE  AInv'
<1> USE LoopFacts
<1> DEFINE c == Current
           m == ToolResult(c, kind)
           M == agent.messages
           L == Append(M, m)
           l == [loop EXCEPT !.index = @ + 1]
           S == agent.staged
           U == {r \in S : r.call # c}
           a == [agent EXCEPT !.messages = Append(@, m)]
           b == [a EXCEPT !.staged = {r \in @ : r.call # m.call}]
           i == loop.index
           s == loop.reply.calls
<1>1. c \in ToSet(s) /\ c \in Nat /\ i \in 1 .. Len(s) /\ c = s[i]
  BY CurrentIn DEF Current
<1>2. M \in Seq(Messages) /\ loop.ctx \in Seq(Messages) /\ IsInjective(s) /\ i \in Nat
  BY DEF LogOK, LoopShape, LoopOK
<1>3. kind \in Kinds
  BY <1>1 DEF LoopOK
<1>4. m \in Results /\ m.call = c /\ m.role = "result" /\ m \in Messages
  BY <1>1, <1>3 DEF ToolResult, Results, Messages
<1>5. LogOK(L) /\ Open(L) = Open(M) \ {c} /\ L \in Seq(Messages)
  BY <1>2, <1>4, LogResult
<1>6. LoopShape(l) /\ SamePlace(l, loop) /\ l.index = i + 1 /\ l.call = loop.call
      /\ l.used = loop.used /\ l.attempts = loop.attempts
  BY NextIndex
<1>7. a.messages = L /\ a.staged = S /\ a \in Agents
  BY <1>5 DEF Agents
<1>8. b.messages = L /\ b.staged = U /\ b \in Agents
  BY <1>4, <1>5 DEF Agents
<1>9. /\ a = [agent EXCEPT !.messages = Append(@, m)]
      /\ b = IF m.role = "result" THEN [a EXCEPT !.staged = {r \in @ : r.call # m.call}] ELSE a
      /\ EmitMessage(m, e, l)
  BY <1>4
<1>10. \A r \in S : r.call = c => r.kind = kind
  BY DEF StagedAt
<1>11. KeptOK(L, S, told) /\ KeptOK(L, U, told)
  BY <1>1, <1>2, <1>3, <1>10, KeptResult
<1> HIDE DEF a, b, l, L
<1>12. LoopOK(l)
  <2>1. l.index \in 1 .. Len(s) + 1
    BY <1>1, <1>6
  <2> QED
    BY <1>6, <2>1 DEF LoopOK, SamePlace
<1>13. BudgetOK(l, dep)
  BY <1>6 DEF BudgetOK, SamePlace
<1>14. PlaceOK(L, l)
  <2>1. Open(L) = Unheard(l)
    <3>1. Open(M) = {s[j] : j \in i .. Len(s)}
      BY DEF PlaceOK, Unheard
    <3>2. Unheard(l) = {s[j] : j \in i + 1 .. Len(s)}
      BY <1>6 DEF Unheard, SamePlace
    <3> QED
      BY <1>1, <1>2, <1>5, <3>1, <3>2, UnheardNext
  <2>2. \A j \in 1 .. i : j \in DOMAIN s /\ s[j] \in ToSet(s) /\ loop.call[s[j]].phase = "ended"
    <3>1. \A j \in 1 .. i : j \in DOMAIN s /\ (j = i \/ j \in 1 .. i - 1)
      BY <1>1, <1>2
    <3> QED
      BY <1>1, <3>1 DEF PlaceOK, ToSet
  <2>3. L = l.ctx \o [j \in 1 .. l.index - 1 |-> ResultAt(l, j)]
    <3> DEFINE f == [j \in 1 .. i |-> ResultAt(loop, j)]
    <3>1. \A j \in 1 .. i : f[j] \in Messages
      <4> SUFFICES ASSUME NEW j \in 1 .. i PROVE ResultAt(loop, j) \in Results
        BY DEF Messages
      <4>1. s[j] \in Nat /\ s[j] \in ToSet(s) /\ loop.call[s[j]].phase = "ended"
        BY <2>2
      <4>2. loop.call[s[j]].kind \in Kinds
        BY <4>1 DEF LoopOK
      <4> QED
        BY <4>1, <4>2 DEF ResultAt, ToolResult, Results
    <3>2. [j \in 1 .. i - 1 |-> ResultAt(loop, j)] = [j \in 1 .. i - 1 |-> f[j]]
      BY <1>2
    <3>3. M = loop.ctx \o [j \in 1 .. i - 1 |-> f[j]]
      BY <3>2 DEF PlaceOK
    <3>4. i - 1 \in Nat /\ (i - 1) + 1 = i /\ i \in 1 .. i
      BY <1>1
    <3>5. f[i] = m
      BY <1>1, <3>4 DEF ResultAt
    <3>6. f = [j \in 1 .. i |-> f[j]]
      OBVIOUS
    <3>7. [j \in 1 .. l.index - 1 |-> ResultAt(l, j)] = f
      <4>1. l.index - 1 = i
        BY <1>2, <1>6
      <4>2. \A j \in 1 .. i : ResultAt(l, j) = ResultAt(loop, j)
        BY <1>6 DEF ResultAt, SamePlace
      <4> QED
        BY <4>1, <4>2
    <3> HIDE DEF f, m
    <3>8. Append(M, f[i]) = loop.ctx \o f
      <4> DEFINE r == [j \in 1 .. i - 1 |-> f[j]]
      <4>1. M = loop.ctx \o r /\ \A j \in 1 .. i - 1 : r[j] = f[j]
        BY <3>3
      <4>2. r \in Seq(Messages) /\ Len(r) = i - 1
        <5>1. \A j \in 1 .. i - 1 : j \in 1 .. i
          BY <1>2
        <5>2. r \in [1 .. i - 1 -> Messages] /\ i - 1 \in Nat
          BY <3>1, <3>4, <5>1
        <5> HIDE DEF r
        <5> QED
          BY <5>2
      <4>3. f \in Seq(Messages) /\ Len(f) = i
        <5>1. f \in [1 .. i -> Messages] /\ i \in Nat
          BY <1>2, <3>1, <3>6
        <5> QED
          BY <5>1
      <4> HIDE DEF r
      <4>4. Len(f) = Len(r) + 1 /\ \A j \in 1 .. Len(r) : f[j] = r[j]
        BY <1>2, <4>1, <4>2, <4>3
      <4>5. Append(M, f[Len(f)]) = loop.ctx \o f
        BY <1>2, <4>1, <4>2, <4>3, <4>4, AppendRow
      <4> QED
        BY <4>3, <4>5
    <3>9. L = loop.ctx \o f
      BY <3>5, <3>8 DEF L
    <3> QED
      BY <1>6, <3>7, <3>9 DEF SamePlace
  <2>4. \A j \in 1 .. l.index - 1 : l.call[l.reply.calls[j]].phase = "ended"
    <3>1. l.index - 1 = i
      BY <1>2, <1>6
    <3> QED
      BY <1>6, <2>2, <3>1 DEF SamePlace
  <2> QED
    BY <1>6, <2>1, <2>3, <2>4 DEF PlaceOK, SamePlace, Batching
<1>15. StagedAt(L, U, l)
  <2>1. \A r \in U : r.call \in Open(L)
    BY <1>5 DEF StagedAt
  <2> QED
    BY <1>6, <2>1 DEF StagedAt, SamePlace, Batching
<1>16. /\ QueuesOK(L, steering, followUp, l.pend, sent, lost)
       /\ QueuesOK(L, steering, followUp, << >>, sent, lost \cup Ids(loop.pend))
  <2>1. m.role # "user"
    BY <1>4
  <2> QED
    BY <1>4, <1>6, <2>1, OtherSaid DEF L, SamePlace
<1>17. ~InCleanup
  BY DEF InCleanup
<1>18. Survives(a, told)
  BY <1>5, <1>7, <1>11, <1>16, <1>17 DEF Survives
<1>19. AInvAt(dep, b, steering, followUp, l, sent, lost, told)
  BY <1>5, <1>8, <1>11, <1>12, <1>13, <1>14, <1>15, <1>16 DEF AInvAt
<1>20. UNCHANGED <<dep, steering, followUp, sent, told>>
  BY DEF Alone, Hold, Queues, History
<1> QED
  BY <1>9, <1>18, <1>19, <1>20, MessageKeeps

LEMMA ResultsKeep ==
  ASSUME AInv, RefuseResult \/ EmitResult
  PROVE  AInv'
<1>1. CASE RefuseResult
  <2>1. /\ loop.pc = "refuse" /\ BatchLeft /\ loop.call[Current].phase = "ended" /\ Alone
        /\ EmitMessage(ToolResult(Current, "skipped"), Event("message"), [loop EXCEPT !.index = @ + 1])
    BY <1>1 DEF RefuseResult, At
  <2>2. loop.call[Current].kind = "skipped"
    BY <2>1, LoopFacts, CurrentIn DEF PlaceOK
  <2> QED
    BY <2>1, <2>2, ResultKeeps
<1>2. CASE EmitResult
  <2>1. /\ loop.pc = "results" /\ BatchLeft /\ Alone
        /\ EmitMessage(ToolResult(Current, loop.call[Current].kind), Event("message"),
                       [loop EXCEPT !.index = @ + 1])
    BY <1>2 DEF EmitResult, At
  <2>2. loop.call[Current].phase = "ended"
    BY <2>1, LoopFacts, CurrentIn DEF PlaceOK
  <2> QED
    BY <2>1, <2>2, ResultKeeps
<1> QED
  BY <1>1, <1>2

-----------------------------------------------------------------------------
(* Entering a run *)

LEMMA UserMessagesDiffer ==
  ASSUME NEW S, NEW u, u \notin S
  PROVE  UserMessage(u) \notin MessagesOf(S)
<1> SUFFICES ASSUME NEW v \in S, UserMessage(u) = UserMessage(v) PROVE FALSE
  BY DEF MessagesOf
<1>1. UserMessage(u).id = u /\ UserMessage(v).id = v
  BY DEF UserMessage
<1> QED
  BY <1>1

\* What the code hands over, in one of the queues or as a prompt.
LEMMA QueuesSend ==
  ASSUME NEW M, NEW st, NEW fo, NEW p, NEW all, NEW gone, QueuesOK(M, st, fo, p, all, gone),
         NEW u \in Users, u \notin all,
         NEW x, x = Append(st, UserMessage(u)), NEW y, y = Append(fo, UserMessage(u))
  PROVE  /\ QueuesOK(M, x, fo, p, all \cup {u}, gone)
         /\ QueuesOK(M, st, y, p, all \cup {u}, gone)
         /\ p = << >> => QueuesOK(M, st, fo, <<UserMessage(u)>>, all \cup {u}, gone)
<1> DEFINE m == UserMessage(u)
           W == ToSet(st) \cup ToSet(fo) \cup ToSet(p) \cup SaidBy(M)
<1>1. m \in UserMessages /\ m \notin W
  BY UserMessagesDiffer DEF QueuesOK, UserMessage, UserMessages
<1>2. MessagesOf(all \cup {u}) = MessagesOf(all) \cup {m}
  BY DEF MessagesOf
<1>3. MessagesOf((all \cup {u}) \ gone) \subseteq MessagesOf(all \ gone) \cup {m}
  BY DEF MessagesOf
<1> HIDE DEF m
<1>4. ASSUME NEW s \in Seq(UserMessages), IsInjective(s), m \notin ToSet(s)
      PROVE  Append(s, m) \in Seq(UserMessages) /\ ToSet(Append(s, m)) = ToSet(s) \cup {m} /\ IsInjective(Append(s, m))
  <2> DEFINE L == Append(s, m)
             k == Len(s) + 1
  <2>1. /\ DOMAIN s = 1 .. Len(s) /\ DOMAIN L = 1 .. k /\ L[k] = m /\ Len(s) \in Nat
        /\ \A i \in 1 .. Len(s) : L[i] = s[i]
    BY <1>1
  <2>2. \A i \in 1 .. k : i = k \/ i \in 1 .. Len(s)
    BY <2>1
  <2>3. k \in 1 .. k /\ \A i \in 1 .. Len(s) : i \in 1 .. k
    BY <2>1
  <2>4. L \in Seq(UserMessages)
    BY <1>1
  <2> HIDE DEF L, k
  <2>5. \A i \in 1 .. Len(s) : s[i] # m
    BY <1>4, <2>1 DEF ToSet
  <2>6. ToSet(L) = ToSet(s) \cup {m}
    BY <2>1, <2>2, <2>3 DEF ToSet
  <2>7. IsInjective(L)
    BY <1>4, <2>1, <2>2, <2>5 DEF IsInjective
  <2> QED
    BY <2>4, <2>6, <2>7 DEF L
<1>5. ToSet(<<m>>) = {m} /\ IsInjective(<<m>>)
  <2>1. DOMAIN <<m>> = {1} /\ <<m>>[1] = m
    OBVIOUS
  <2> QED
    BY <2>1 DEF ToSet, IsInjective
<1>6. all \cup {u} \subseteq Users
  BY DEF QueuesOK
<1>7. QueuesOK(M, Append(st, m), fo, p, all \cup {u}, gone)
  <2> DEFINE q == Append(st, m)
  <2>1. q \in Seq(UserMessages) /\ ToSet(q) = ToSet(st) \cup {m} /\ IsInjective(q)
    BY <1>1, <1>4 DEF QueuesOK
  <2> HIDE DEF q, m
  <2>2. Apart(ToSet(q), ToSet(fo), ToSet(p), SaidBy(M))
    BY <1>1, <2>1 DEF QueuesOK, Apart
  <2> DEFINE V == ToSet(q) \cup ToSet(fo) \cup ToSet(p) \cup SaidBy(M)
  <2>3. V = W \cup {m}
    BY <2>1
  <2>4. W \subseteq MessagesOf(all) /\ MessagesOf(all \ gone) \subseteq W
    BY DEF QueuesOK
  <2> HIDE DEF V, W
  <2>5. V \subseteq MessagesOf(all \cup {u}) /\ MessagesOf((all \cup {u}) \ gone) \subseteq V
    BY <1>2, <1>3, <2>3, <2>4
  <2>6. QueuesOK(M, q, fo, p, all \cup {u}, gone)
    BY <1>6, <2>1, <2>2, <2>5 DEF QueuesOK, V
  <2> QED
    BY <2>6 DEF q
<1>8. QueuesOK(M, st, Append(fo, m), p, all \cup {u}, gone)
  <2> DEFINE q == Append(fo, m)
  <2>1. q \in Seq(UserMessages) /\ ToSet(q) = ToSet(fo) \cup {m} /\ IsInjective(q)
    BY <1>1, <1>4 DEF QueuesOK
  <2> HIDE DEF q, m
  <2>2. Apart(ToSet(st), ToSet(q), ToSet(p), SaidBy(M))
    BY <1>1, <2>1 DEF QueuesOK, Apart
  <2> DEFINE V == ToSet(st) \cup ToSet(q) \cup ToSet(p) \cup SaidBy(M)
  <2>3. V = W \cup {m}
    BY <2>1
  <2>4. W \subseteq MessagesOf(all) /\ MessagesOf(all \ gone) \subseteq W
    BY DEF QueuesOK
  <2> HIDE DEF V, W
  <2>5. V \subseteq MessagesOf(all \cup {u}) /\ MessagesOf((all \cup {u}) \ gone) \subseteq V
    BY <1>2, <1>3, <2>3, <2>4
  <2>6. QueuesOK(M, st, q, p, all \cup {u}, gone)
    BY <1>6, <2>1, <2>2, <2>5 DEF QueuesOK, V
  <2> QED
    BY <2>6 DEF q
<1>9. ASSUME p = << >> PROVE QueuesOK(M, st, fo, <<m>>, all \cup {u}, gone)
  <2> DEFINE q == <<m>>
  <2>1. ToSet(q) = {m} /\ IsInjective(q)
    BY <1>5
  <2>2. ToSet(p) = {}
    BY <1>9, EmptySets
  <2> HIDE DEF q
  <2>3. Apart(ToSet(st), ToSet(fo), ToSet(q), SaidBy(M))
    BY <1>1, <2>1 DEF QueuesOK, Apart
  <2>4. QueuesOK(M, st, fo, q, all \cup {u}, gone)
    BY <1>1, <1>2, <1>3, <1>6, <2>1, <2>2, <2>3 DEF QueuesOK
  <2> QED
    BY <2>4 DEF q
<1>10. x = Append(st, m) /\ y = Append(fo, m)
  BY DEF m
<1>11. p = << >> => QueuesOK(M, st, fo, <<UserMessage(u)>>, all \cup {u}, gone)
  BY <1>9 DEF m
<1> QED
  BY <1>7, <1>8, <1>10, <1>11

LEMMA TakenIn ==
  ASSUME NEW s \in Seq(UserMessages)
  PROVE  Taken(s) \in 0 .. Len(s) /\ (s = << >> => Drained(s) = << >> /\ Left(s) = << >>)
<1>1. Len(s) \in Nat /\ (s # << >> => Len(s) >= 1)
  OBVIOUS
<1>2. Taken(s) \in 0 .. Len(s)
  BY <1>1 DEF Taken
<1>3. ASSUME s = << >> PROVE Drained(s) = << >> /\ Left(s) = << >>
  <2>1. Len(s) = 0 /\ Taken(s) = 0
    BY <1>3 DEF Taken
  <2> QED
    BY <2>1, SubSeqEmpty DEF Drained, Left
<1> QED
  BY <1>2, <1>3

\* A part of a queue is drained.
LEMMA Splits ==
  ASSUME NEW s \in Seq(UserMessages), IsInjective(s), NEW a, a = Drained(s), NEW b, b = Left(s)
  PROVE  /\ a \in Seq(UserMessages) /\ b \in Seq(UserMessages) /\ IsInjective(a) /\ IsInjective(b)
         /\ ToSet(s) = ToSet(a) \cup ToSet(b) /\ ToSet(a) \cap ToSet(b) = {}
<1> DEFINE n == Taken(s)
<1>0. a = SubSeq(s, 1, n) /\ b = SubSeq(s, n + 1, Len(s)) /\ n \in 0 .. Len(s)
  BY TakenIn DEF Drained, Left
<1> HIDE DEF n
<1>1. Len(s) \in Nat /\ n \in Nat /\ n <= Len(s) /\ DOMAIN s = 1 .. Len(s)
  BY <1>0
<1>2. \A i \in 1 .. n : s[i] \in UserMessages
  BY <1>1
<1>3. \A i \in n + 1 .. Len(s) : s[i] \in UserMessages
  BY <1>1
<1>4. a \in Seq(UserMessages) /\ Len(a) = n /\ \A i \in 1 .. n : a[i] = s[i]
  BY <1>0, <1>1, <1>2
<1>5. b \in Seq(UserMessages) /\ Len(b) = Len(s) - n /\ \A i \in 1 .. Len(s) - n : b[i] = s[n + i]
  BY <1>0, <1>1, <1>3
<1>6. DOMAIN a = 1 .. n /\ DOMAIN b = 1 .. Len(s) - n
  BY <1>4, <1>5
<1>7. \A i \in 1 .. n : i \in 1 .. Len(s)
  BY <1>1
<1>8. \A i \in 1 .. Len(s) - n : n + i \in 1 .. Len(s) /\ n + i \notin 1 .. n
  BY <1>1
<1>9. \A i \in 1 .. Len(s) : i \in 1 .. n \/ (i - n \in 1 .. Len(s) - n /\ n + (i - n) = i)
  BY <1>1
<1>10. IsInjective(a)
  BY <1>1, <1>4, <1>6, <1>7 DEF IsInjective
<1>11. IsInjective(b)
  <2> SUFFICES ASSUME NEW i \in 1 .. Len(s) - n, NEW j \in 1 .. Len(s) - n, b[i] = b[j] PROVE i = j
    BY <1>6 DEF IsInjective
  <2>1. n + i = n + j
    BY <1>1, <1>5, <1>8 DEF IsInjective
  <2> QED
    BY <1>1, <2>1
<1>12. \A i \in 1 .. Len(s) : s[i] \in ToSet(a) \cup ToSet(b)
  <2> SUFFICES ASSUME NEW i \in 1 .. Len(s) PROVE s[i] \in ToSet(a) \cup ToSet(b)
    OBVIOUS
  <2>1. CASE i \in 1 .. n
    BY <1>4, <1>6, <2>1 DEF ToSet
  <2>2. CASE i - n \in 1 .. Len(s) - n /\ n + (i - n) = i
    <3>1. b[i - n] = s[i]
      BY <1>5, <2>2
    <3> QED
      BY <1>6, <2>2, <3>1 DEF ToSet
  <2> QED
    BY <1>9, <2>1, <2>2
<1>13. \A i \in 1 .. n : a[i] \in ToSet(s)
  BY <1>1, <1>4, <1>7 DEF ToSet
<1>14. \A i \in 1 .. Len(s) - n : b[i] \in ToSet(s)
  BY <1>1, <1>5, <1>8 DEF ToSet
<1>15. ToSet(s) = ToSet(a) \cup ToSet(b)
  BY <1>1, <1>6, <1>12, <1>13, <1>14 DEF ToSet
<1>16. ToSet(a) \cap ToSet(b) = {}
  <2> SUFFICES ASSUME NEW i \in 1 .. n, NEW j \in 1 .. Len(s) - n, a[i] = b[j] PROVE FALSE
    BY <1>6 DEF ToSet
  <2>1. s[i] = s[n + j] /\ i \in DOMAIN s /\ n + j \in DOMAIN s
    BY <1>1, <1>4, <1>5, <1>7, <1>8
  <2>2. i = n + j
    BY <2>1 DEF IsInjective
  <2> QED
    BY <1>8, <2>2
<1> QED
  BY <1>4, <1>5, <1>10, <1>11, <1>15, <1>16

LEMMA QueuesDrain ==
  ASSUME NEW M, NEW st, NEW fo, NEW all, NEW gone, QueuesOK(M, st, fo, << >>, all, gone)
  PROVE  /\ QueuesOK(M, Left(st), fo, Drained(st), all, gone) /\ Drained(st) \in Seq(UserMessages)
         /\ QueuesOK(M, st, Left(fo), Drained(fo), all, gone) /\ Drained(fo) \in Seq(UserMessages)
<1>1. ASSUME NEW s \in Seq(UserMessages), IsInjective(s)
      PROVE  /\ Drained(s) \in Seq(UserMessages) /\ Left(s) \in Seq(UserMessages)
             /\ IsInjective(Drained(s)) /\ IsInjective(Left(s))
             /\ ToSet(s) = ToSet(Drained(s)) \cup ToSet(Left(s)) /\ ToSet(Drained(s)) \cap ToSet(Left(s)) = {}
  BY <1>1, Splits
<1>a. st \in Seq(UserMessages) /\ IsInjective(st) /\ fo \in Seq(UserMessages) /\ IsInjective(fo)
  BY DEF QueuesOK
<1>2. QueuesOK(M, Left(st), fo, Drained(st), all, gone) /\ Drained(st) \in Seq(UserMessages)
  <2> DEFINE a == Drained(st)
             b == Left(st)
  <2>1. /\ a \in Seq(UserMessages) /\ b \in Seq(UserMessages) /\ IsInjective(a) /\ IsInjective(b)
        /\ ToSet(st) = ToSet(a) \cup ToSet(b) /\ ToSet(a) \cap ToSet(b) = {}
    BY <1>1, <1>a
  <2> HIDE DEF a, b
  <2>2. Apart(ToSet(b), ToSet(fo), ToSet(a), SaidBy(M))
    BY <2>1 DEF QueuesOK, Apart
  <2>3. QueuesOK(M, b, fo, a, all, gone)
    BY <2>1, <2>2, EmptySets DEF QueuesOK
  <2> QED
    BY <2>1, <2>3 DEF a, b
<1>3. QueuesOK(M, st, Left(fo), Drained(fo), all, gone) /\ Drained(fo) \in Seq(UserMessages)
  <2> DEFINE a == Drained(fo)
             b == Left(fo)
  <2>1. /\ a \in Seq(UserMessages) /\ b \in Seq(UserMessages) /\ IsInjective(a) /\ IsInjective(b)
        /\ ToSet(fo) = ToSet(a) \cup ToSet(b) /\ ToSet(a) \cap ToSet(b) = {}
    BY <1>1, <1>a
  <2> HIDE DEF a, b
  <2>2. Apart(ToSet(st), ToSet(b), ToSet(a), SaidBy(M))
    BY <2>1 DEF QueuesOK, Apart
  <2>3. QueuesOK(M, st, b, a, all, gone)
    BY <2>1, <2>2, EmptySets DEF QueuesOK
  <2> QED
    BY <2>1, <2>3 DEF a, b
<1> QED
  BY <1>2, <1>3

\* A restart forgets the queues.
LEMMA QueuesForget ==
  ASSUME NEW M, NEW st, NEW fo, NEW p, NEW all, NEW gone, QueuesOK(M, st, fo, p, all, gone)
  PROVE  QueuesOK(M, << >>, << >>, p, all, gone \cup Ids(st) \cup Ids(fo))
<1>1. MessagesOf(all \ (gone \cup Ids(st) \cup Ids(fo))) \subseteq ToSet(p) \cup SaidBy(M)
  <2> SUFFICES ASSUME NEW u \in all, u \notin gone, u \notin Ids(st), u \notin Ids(fo)
               PROVE  UserMessage(u) \in ToSet(p) \cup SaidBy(M)
    BY DEF MessagesOf
  <2>1. UserMessage(u) \in ToSet(st) \cup ToSet(fo) \cup ToSet(p) \cup SaidBy(M)
    BY DEF QueuesOK, MessagesOf
  <2>2. st \in Seq(UserMessages) /\ fo \in Seq(UserMessages)
    BY DEF QueuesOK
  <2> QED
    BY <2>1, <2>2, IdsOfUsers
<1> QED
  BY <1>1, EmptySets DEF QueuesOK, Apart

\* The loop of a run that starts with the messages p.
StartLoop(pc, C, p, b) ==
    [pc |-> pc, ctx |-> C, given |-> << >>, pend |-> p, skip |-> b, first |-> TRUE,
     turns |-> 0, used |-> 0, denied |-> FALSE, attempts |-> 0, reply |-> NoReply,
     refused |-> FALSE, more |-> FALSE, over |-> FALSE, index |-> 1, call |-> << >>,
     stream |-> "asked", aborted |-> FALSE]

LEMMA StartLoopOK ==
  ASSUME NEW pc \in {"agent_start", "route_open"}, NEW C \in Seq(Messages), NEW p \in Seq(UserMessages),
         NEW b \in BOOLEAN, NEW l, l = StartLoop(pc, C, p, b), NEW d \in Deployments
  PROVE  LoopOK(l) /\ BudgetOK(l, d) /\ l.pc = pc /\ l.pend = p /\ l.ctx = C
<1>1. /\ l.pc = pc /\ l.ctx = C /\ l.pend = p /\ l.turns = 0 /\ l.used = 0 /\ l.attempts = 0
      /\ l.reply = NoReply /\ l.index = 1 /\ l.call = << >> /\ l.first = TRUE
  BY DEF StartLoop
<1>2. LoopShape(l)
  <2>1. pc \in Places
    BY DEF Places, AtRest, Routes
  <2> QED
    BY <2>1, NoReplyTyped DEF StartLoop, LoopShape
<1>3. l.reply.calls = << >>
  BY <1>1, NoReplyTyped
<1>4. l.call \in [ToSet(l.reply.calls) -> CallRecords]
  BY <1>1, <1>3, NoCalls
<1>5. ToSet(l.reply.calls) = {} /\ IsInjective(l.reply.calls) /\ Len(l.reply.calls) = 0
  BY <1>3, EmptySets
<1>6. LoopOK(l)
  BY <1>1, <1>2, <1>4, <1>5 DEF LoopOK, Routes
<1>7. d.turns \in Nat /\ d.tools \in Nat
  BY AgentAssumption
<1>8. BudgetOK(l, d)
  BY <1>1, <1>7 DEF BudgetOK
<1> QED
  BY <1>1, <1>6, <1>8

LEMMA StartIsFresh ==
  ASSUME NEW C, NEW p, NEW b, NEW l,
         l = [IdleLoop EXCEPT !.pc = "agent_start", !.ctx = C, !.pend = p, !.skip = b]
  PROVE  l = StartLoop("agent_start", C, p, b)
  BY DEF IdleLoop, StartLoop

LEMMA RoutingIsFresh ==
  ASSUME NEW p, NEW l, l = [IdleLoop EXCEPT !.pc = "route_open", !.pend = p]
  PROVE  l = StartLoop("route_open", << >>, p, FALSE)
  BY DEF IdleLoop, StartLoop

LEMMA IdleRests == "idle" \in AtRest /\ "idle" \notin Routes
  BY DEF AtRest, Routes

LEMMA NobodyWaits == Ids(<< >>) = {}
  BY DEF Ids

\* Between runs nothing is open, staged or about to be injected.
LEMMA BetweenRuns ==
  ASSUME AInv, loop.pc \in AtRest
  PROVE  /\ agent.staged = {} /\ Open(agent.messages) = {} /\ IdleAgent(agent.messages) = agent
         /\ Repaired(agent.messages) = agent.messages
         /\ [agent EXCEPT !.messages = Repaired(@)] = agent
         /\ (loop.pc \notin Routes => loop.pend = << >>) /\ \A t \in told : Heard(agent.messages, t)
         /\ told \subseteq Nat \X Kinds
<1> USE LoopFacts
<1>1. agent.staged = {} /\ Open(agent.messages) = {} /\ (loop.pc \notin Routes => loop.pend = << >>)
  BY DEF StagedAt, PlaceOK, LoopOK, Batching, AtRest, Routes, Settlings
<1>2. IdleAgent(agent.messages) = agent
  BY <1>1 DEF IdleAgent, Agents
<1>3. Repaired(agent.messages) = agent.messages
  BY <1>1, RepairedClosed
<1>4. [agent EXCEPT !.messages = Repaired(@)] = agent
  BY <1>3 DEF Agents
<1> QED
  BY <1>1, <1>2, <1>3, <1>4 DEF KeptOK

\* The Agent as it is, with a loop that has just been set up.
LEMMA EnterKeeps ==
  ASSUME AInv, loop.pc \in AtRest, NEW pc \in {"agent_start", "route_open"}, NEW C \in Seq(Messages),
         NEW p \in Seq(UserMessages), NEW b \in BOOLEAN, loop' = StartLoop(pc, C, p, b), agent' = agent,
         pc = "agent_start" => C = agent.messages \o p,
         token' \in BOOLEAN, UNCHANGED <<dep, told>>,
         QueuesOK(agent.messages, steering', followUp', p, sent', lost')
  PROVE  AInv'
<1> USE LoopFacts
<1> DEFINE l == StartLoop(pc, C, p, b)
<1>1. LoopOK(l) /\ BudgetOK(l, dep) /\ l.pc = pc /\ l.pend = p /\ l.ctx = C
  BY StartLoopOK
<1>2. agent.staged = {} /\ Open(agent.messages) = {}
  BY BetweenRuns, IdleRests
<1>3. loop' = l
  OBVIOUS
<1> HIDE DEF l
<1>4. PlaceOK(agent.messages, l)
  BY <1>1, <1>2 DEF PlaceOK
<1>5. StagedAt(agent.messages, agent.staged, l)
  BY <1>1, <1>2 DEF StagedAt
<1>6. AInvAt(dep, agent, steering', followUp', l, sent', lost', told)
  BY <1>1, <1>4, <1>5 DEF AInvAt
<1> QED
  BY <1>3, <1>6 DEF AInv

LEMMA StartKeeps ==
  ASSUME AInv, loop.pc \in AtRest, NEW p \in Seq(UserMessages), NEW b \in BOOLEAN,
         NEW t \in BOOLEAN, StartRun(p, b, t), UNCHANGED <<dep, told>>,
         QueuesOK(agent.messages, steering', followUp', p, sent', lost')
  PROVE  AInv'
<1> DEFINE M == agent.messages
           C == M \o p
<1>1. Repaired(M) = M /\ IdleAgent(M) = agent
  BY BetweenRuns, IdleRests
<1>2. M \in Seq(Messages) /\ p \in Seq(Messages)
  <2>1. UserMessages \subseteq Messages
    BY DEF Messages
  <2> QED
    BY <2>1, LoopFacts DEF LogOK
<1>3. C \in Seq(Messages)
  BY <1>2
<1>4. loop' = [IdleLoop EXCEPT !.pc = "agent_start", !.ctx = C, !.pend = p, !.skip = b]
      /\ agent' = agent /\ token' = t
  BY <1>1 DEF StartRun
<1>5. C = agent.messages \o p
  OBVIOUS
<1> HIDE DEF C, M
<1>6. loop' = StartLoop("agent_start", C, p, b)
  BY <1>4, StartIsFresh
<1> QED
  BY <1>3, <1>4, <1>5, <1>6, EnterKeeps

LEMMA PromptKeeps ==
  ASSUME AInv, NEW u \in Users, Prompt(u)
  PROVE  AInv'
<1> DEFINE p == <<UserMessage(u)>>
<1>1. /\ loop.pc = "idle" /\ u \notin sent /\ sent' = sent \cup {u} /\ StartRun(p, FALSE, FALSE)
      /\ UNCHANGED <<dep, told, steering, followUp, lost>>
  BY DEF Prompt, Idle, Queues, History
<1>2. p \in Seq(UserMessages)
  <2>1. UserMessage(u) \in UserMessages
    BY DEF UserMessage, UserMessages
  <2> QED
    BY <2>1
<1>3. QueuesOK(agent.messages, steering, followUp, << >>, sent, lost)
  BY <1>1, BetweenRuns, IdleRests, LoopFacts
<1>4. QueuesOK(agent.messages, steering, followUp, p, sent', lost)
  BY <1>1, <1>3, QueuesSend
<1> HIDE DEF p
<1> QED
  BY <1>1, <1>2, <1>4, StartKeeps, IdleRests

LEMMA ContinueKeeps ==
  ASSUME AInv, ContinueRun
  PROVE  AInv'
<1>1. loop.pc = "idle" /\ UNCHANGED <<dep, sent, lost, told>>
  BY DEF ContinueRun, Idle, History
<1>2. QueuesOK(agent.messages, steering, followUp, << >>, sent, lost)
  BY <1>1, BetweenRuns, IdleRests, LoopFacts
<1>3. CASE StartRun(<< >>, FALSE, FALSE) /\ Queues
  BY <1>1, <1>2, <1>3, StartKeeps, IdleRests, EmptySets DEF Queues
<1>4. CASE StartRun(Drained(steering), TRUE, FALSE) /\ steering' = Left(steering) /\ UNCHANGED followUp
  BY <1>1, <1>2, <1>4, StartKeeps, IdleRests, QueuesDrain
<1>5. CASE StartRun(Drained(followUp), FALSE, FALSE) /\ followUp' = Left(followUp) /\ UNCHANGED steering
  BY <1>1, <1>2, <1>5, StartKeeps, IdleRests, QueuesDrain
<1> QED
  BY <1>3, <1>4, <1>5 DEF ContinueRun

LEMMA RoutedPromptKeeps ==
  ASSUME AInv, NEW u \in Users, RoutedPrompt(u)
  PROVE  AInv'
<1> DEFINE p == <<UserMessage(u)>>
           l == [IdleLoop EXCEPT !.pc = "route_open", !.pend = p]
<1>1. /\ loop.pc = "idle" /\ u \notin sent /\ sent' = sent \cup {u}
      /\ agent' = agent /\ token' = FALSE
      /\ loop' = l \/ loop' = IdleLoop
      /\ lost' = lost \cup ({u} \ Ids(loop'.pend))
      /\ UNCHANGED <<dep, told, steering, followUp>>
  BY DEF RoutedPrompt, RecordExternal, Idle, At, Queues, History
<1>2. p \in Seq(UserMessages) /\ Ids(p) = {u}
  <2>1. UserMessage(u) \in UserMessages /\ UserMessage(u).id = u /\ UserMessage(u).role = "user"
    BY DEF UserMessage, UserMessages
  <2>2. p \in Seq(UserMessages) /\ DOMAIN p = {1} /\ p[1] = UserMessage(u)
    BY <2>1
  <2> HIDE DEF p
  <2> QED
    BY <2>1, <2>2 DEF Ids
<1>3. QueuesOK(agent.messages, steering, followUp, << >>, sent, lost)
  BY <1>1, BetweenRuns, IdleRests, LoopFacts DEF AtRest, Routes
<1>4. QueuesOK(agent.messages, steering, followUp, p, sent', lost)
  BY <1>1, <1>3, QueuesSend
<1>5. l.pend = p /\ IdleLoop.pend = << >>
  BY DEF IdleLoop
<1> HIDE DEF p
<1>6. CASE loop' = l
  <2>1. loop' = StartLoop("route_open", << >>, p, FALSE)
    BY <1>6, RoutingIsFresh
  <2>2. << >> \in Seq(Messages) /\ lost' = lost
    BY <1>1, <1>2, <1>5, <1>6
  <2> HIDE DEF l
  <2> QED
    BY <1>1, <1>2, <1>4, <2>1, <2>2, EnterKeeps DEF AtRest
<1> HIDE DEF l
<1>7. CASE loop' = IdleLoop
  <2>1. lost' = lost \cup Ids(p)
    BY <1>1, <1>2, <1>5, <1>7, NobodyWaits
  <2>2. QueuesOK(agent.messages, steering, followUp, << >>, sent', lost')
    BY <1>2, <1>4, <2>1, QueuesLose
  <2>3. AInvAt(dep, agent, steering, followUp, IdleLoop, sent', lost', told)
    BY <1>1, <2>2, BetweenRuns, IdleRests, IdleState, LoopFacts DEF AtRest
  <2> QED
    BY <1>1, <1>7, <2>3 DEF AInv
<1> QED
  BY <1>1, <1>6, <1>7

-----------------------------------------------------------------------------
(* The router and an approval, while the Agent is idle *)

RouterTurn ==
    \/ \E decision \in {"agent", "answered", "approval", "blocked", "error"} : RouteDecided(decision)
    \/ RouteOpens \/ EnterAgent \/ RunSettles
    \/ \E outcome \in {"settle_completed", "settle_failed", "settle_unknown"} : ApprovedWriteEnds(outcome)
Approval == ApprovalGranted \/ ApprovalRefused \/ ApprovalRejected
RouterStep == RouterTurn \/ Approval

\* Such a step drops the prompt, or goes on with it; only EnterAgent starts the loop.
Reroutes ==
    \/ /\ \E pc \in {"idle"} \cup Settlings : loop' = FreshLoop(pc, FALSE)
       /\ lost' = lost \cup Ids(loop.pend)
    \/ /\ loop.pc \in Routes /\ lost' = lost
       /\ \E pc \in Routes : loop' = Go(pc)
Rerouted == Reroutes /\ loop.pc \in AtRest /\ agent' = agent /\ UNCHANGED <<token, dep, steering, followUp, sent, told>>
Enters ==
    /\ loop.pc = "route_agent" /\ StartRun(loop.pend, FALSE, FALSE)
    /\ UNCHANGED <<dep, steering, followUp, sent, told, lost>>

LEMMA SettlingIsFresh ==
  ASSUME NEW pc
  PROVE  Settling(pc) = FreshLoop(pc, FALSE)
<1> DEFINE l == Settling(pc)
           k == FreshLoop(pc, FALSE)
<1>1. l.pc = k.pc /\ l.ctx = k.ctx /\ l.given = k.given /\ l.pend = k.pend /\ l.skip = k.skip /\ l.first = k.first
  BY DEF Settling, IdleLoop, FreshLoop
<1>2. l.turns = k.turns /\ l.used = k.used /\ l.denied = k.denied /\ l.attempts = k.attempts /\ l.reply = k.reply
  BY DEF Settling, IdleLoop, FreshLoop
<1>3. l.refused = k.refused /\ l.more = k.more /\ l.over = k.over /\ l.index = k.index /\ l.call = k.call
  BY DEF Settling, IdleLoop, FreshLoop
<1>4. l.stream = k.stream /\ l.aborted = k.aborted
  BY DEF Settling, IdleLoop, FreshLoop
<1>5. l = [IdleLoop EXCEPT !.pc = pc]
  BY DEF Settling
<1>6. l = [x \in DOMAIN IdleLoop |-> l[x]]
  BY <1>5 DEF IdleLoop
<1> QED
  BY <1>1, <1>2, <1>3, <1>4, <1>6 DEF IdleLoop, FreshLoop

LEMMA RecordReroutes ==
  ASSUME AInv, loop.pc \in AtRest, NEW e, NEW l, NEW given, RecordExternal(e, l, given), agent' = agent,
         UNCHANGED token, Alone, given = Ids(loop.pend),
         \/ \E pc \in {"idle"} \cup Settlings : l = FreshLoop(pc, FALSE)
         \/ loop.pc \in Routes /\ \E pc \in Routes : l = Go(pc)
  PROVE  Rerouted
<1>1. loop' \in {l, IdleLoop} /\ lost' = lost \cup (given \ Ids(loop'.pend))
  BY DEF RecordExternal
<1>2. UNCHANGED <<token, dep, steering, followUp, sent, told>>
  BY DEF Alone, Hold, Queues, History
<1>3. \A pc : FreshLoop(pc, FALSE).pend = << >>
  BY DEF FreshLoop
<1>4. \A pc : Go(pc).pend = loop.pend
  BY LoopFacts DEF Go, LoopShape
<1>5. Ids(<< >>) = {}
  BY NobodyWaits
<1>6. CASE \E pc \in {"idle"} \cup Settlings : loop' = FreshLoop(pc, FALSE)
  <2>1. lost' = lost \cup Ids(loop.pend)
    BY <1>1, <1>3, <1>5, <1>6
  <2> QED
    BY <1>2, <1>6, <2>1 DEF Rerouted, Reroutes
<1>7. CASE loop.pc \in Routes /\ \E pc \in Routes : loop' = Go(pc)
  <2>1. lost' = lost
    BY <1>1, <1>4, <1>7
  <2> QED
    BY <1>2, <1>7, <2>1 DEF Rerouted, Reroutes
<1> QED
  BY <1>1, <1>6, <1>7, IdleIsFresh

LEMMA RouterSteps ==
  ASSUME AInv, RouterStep
  PROVE  Rerouted \/ Enters
<1> USE SettlingIsFresh, IdleIsFresh
<1>1. loop.pc \in AtRest
  BY DEF RouterStep, RouterTurn, Approval, RouteDecided, RouteOpens, EnterAgent, RunSettles, Settlement,
         ApprovedWriteEnds, ApprovalGranted, ApprovalRefused, ApprovalRejected, At, Idle, AtRest, Routes, Settlings
<1>2. loop.pc \notin Routes => Ids(loop.pend) = {} /\ \A S : S = S \cup Ids(loop.pend)
  BY <1>1, BetweenRuns, IdleRests, NobodyWaits
<1>3. ASSUME NEW decision \in {"agent", "answered", "approval", "blocked", "error"}, RouteDecided(decision)
      PROVE  Rerouted
  <2>1. /\ loop.pc = "routing" /\ UNCHANGED <<agent, token>> /\ Alone
        /\ RecordExternal(Event("routing_finished"), AfterRoute(decision), Ids(loop.pend))
    BY <1>3 DEF RouteDecided, At
  <2>2. \/ AfterRoute(decision) = Go("route_agent")
        \/ \E pc \in Settlings : AfterRoute(decision) = Settling(pc)
    BY DEF AfterRoute, Settlings
  <2>3. \/ loop.pc \in Routes /\ \E pc \in Routes : AfterRoute(decision) = Go(pc)
        \/ \E pc \in {"idle"} \cup Settlings : AfterRoute(decision) = FreshLoop(pc, FALSE)
    BY <2>1, <2>2 DEF Routes
  <2> QED
    BY <1>1, <2>1, <2>3, RecordReroutes
<1>4. CASE RouteOpens
  <2>1. loop.pc = "route_open" /\ UNCHANGED token /\ Alone /\ loop.pc \in Routes /\ "routing" \in Routes
        /\ RecordExternal(Event("routing_started"), Go("routing"), Ids(loop.pend))
    BY <1>4 DEF RouteOpens, At, Routes
  <2>2. agent' = agent
    BY <1>1, <1>4, BetweenRuns, IdleRests DEF RouteOpens
  <2> QED
    BY <1>1, <2>1, <2>2, RecordReroutes
<1>5. CASE EnterAgent
  <2>1. Alone /\ loop.pc = "route_agent"
    BY <1>5 DEF EnterAgent, At
  <2>2. CASE StartRun(loop.pend, FALSE, FALSE) /\ lost' = lost
    BY <2>1, <2>2 DEF Enters, Alone, Hold, Queues, History
  <2>3. CASE loop' = IdleLoop /\ lost' = lost \cup Ids(loop.pend) /\ UNCHANGED <<agent, token>>
    BY <1>1, <2>1, <2>3 DEF Rerouted, Reroutes, Alone, Hold, Queues, History
  <2> QED
    BY <1>5, <2>2, <2>3 DEF EnterAgent
<1>6. CASE RunSettles \/ ApprovalRejected
  <2>1. /\ \E e, l : RecordExternal(e, l, {}) /\ l \in {IdleLoop, Settling("settle_cancelled")}
        /\ UNCHANGED <<agent, token>> /\ Alone /\ loop.pc \notin Routes
    BY <1>6 DEF RunSettles, ApprovalRejected, Settlement, Routes, Idle, At
  <2>2. "settle_cancelled" \in Settlings
    BY DEF Settlings
  <2> QED
    BY <1>1, <1>2, <2>1, <2>2, RecordReroutes
<1>7. ASSUME \/ ApprovalGranted \/ ApprovalRefused
             \/ \E outcome \in {"settle_completed", "settle_failed", "settle_unknown"} : ApprovedWriteEnds(outcome)
      PROVE  Rerouted
  <2>1. /\ \E pc \in {"idle"} \cup Settlings : loop' = FreshLoop(pc, FALSE)
        /\ UNCHANGED <<agent, token, lost>> /\ Alone /\ loop.pc \notin Routes
    <3>1. CASE ApprovalGranted
      <4>1. PICK f \in Faults : loop' = CASE f.raise = "none" -> Settling("approving")
                                         [] f.raise = "error" -> Settling("settle_failed")
                                         [] f.raise = "cancel" -> IdleLoop
        BY <3>1 DEF ApprovalGranted
      <4>2. f.raise \in {"none", "error", "cancel"}
        BY DEF Faults, Calm
      <4> QED
        BY <3>1, <4>1, <4>2 DEF ApprovalGranted, Settlings, Routes, Idle, At
    <3> QED
      BY <1>7, <3>1 DEF ApprovalRefused, ApprovedWriteEnds, Settlings, Routes, Idle, At
  <2> QED
    BY <1>1, <1>2, <2>1 DEF Rerouted, Reroutes, Alone, Hold, Queues, History
<1> QED
  BY <1>3, <1>4, <1>5, <1>6, <1>7 DEF RouterStep, RouterTurn, Approval

LEMMA RouterKeeps ==
  ASSUME AInv, RouterStep
  PROVE  AInv'
<1> USE LoopFacts
<1> DEFINE M == agent.messages
<1>1. loop.pend \in Seq(UserMessages) /\ token \in BOOLEAN
  BY DEF LoopShape, AInv
<1>2. CASE Enters
  BY <1>1, <1>2, StartKeeps, IdleRests DEF Enters, AtRest, Routes
<1>3. ASSUME Rerouted, NEW pc \in {"idle"} \cup Settlings, loop' = FreshLoop(pc, FALSE),
             lost' = lost \cup Ids(loop.pend)
      PROVE  AInv'
  <2>1. QueuesOK(M, steering, followUp, << >>, sent, lost')
    BY <1>1, <1>3, QueuesLose
  <2>2. loop.pc \in AtRest /\ agent' = agent /\ UNCHANGED <<token, dep, steering, followUp, sent, told>>
    BY <1>3 DEF Rerouted
  <2>3. AInvAt(dep, agent, steering, followUp, loop', sent, lost', told)
    BY <1>3, <2>1, <2>2, BetweenRuns, IdleRests, RestState
  <2> QED
    BY <1>1, <2>2, <2>3 DEF AInv
<1>4. ASSUME Rerouted, loop.pc \in Routes, lost' = lost, NEW pc \in Routes, loop' = Go(pc) PROVE AInv'
  <2>1. agent' = agent /\ UNCHANGED <<token, dep, steering, followUp, sent, told>>
    BY <1>4 DEF Rerouted
  <2> DEFINE l == Go(pc)
  <2>2. LoopShape(l) /\ l.pc = pc /\ SameWork(l, loop)
    BY GoShape DEF Places, AtRest
  <2>3. loop' = l
    BY <1>4
  <2> HIDE DEF l
  <2>4. LoopOK(l) /\ BudgetOK(l, dep)
    BY <1>4, <2>2 DEF LoopOK, BudgetOK, SameWork, Routes, Unspent
  <2>5. PlaceOK(M, l) /\ StagedAt(M, agent.staged, l)
    BY <1>4, <2>2, BetweenRuns, IdleRests DEF PlaceOK, StagedAt, Batching, Routes, AtRest
  <2>6. l.pend = loop.pend
    BY <2>2 DEF SameWork
  <2>7. AInvAt(dep, agent, steering, followUp, l, sent, lost, told)
    BY <2>4, <2>5, <2>6 DEF AInvAt
  <2> QED
    BY <1>1, <1>4, <2>1, <2>3, <2>7 DEF AInv
<1> QED
  BY <1>2, <1>3, <1>4, RouterSteps DEF Rerouted, Reroutes

LEMMA QueueingKeeps ==
  ASSUME AInv, NEW u \in Users, Steer(u) \/ FollowUp(u)
  PROVE  AInv'
<1> USE LoopFacts
<1>1. /\ u \notin sent /\ sent' = sent \cup {u} /\ UNCHANGED <<dep, agent, loop, token, lost, told>>
      /\ \/ steering' = Append(steering, UserMessage(u)) /\ followUp' = followUp
         \/ followUp' = Append(followUp, UserMessage(u)) /\ steering' = steering
  BY DEF Steer, FollowUp, History
<1>2. QueuesOK(agent.messages, steering', followUp', loop.pend, sent', lost)
  <2> DEFINE x == Append(steering, UserMessage(u))
             y == Append(followUp, UserMessage(u))
  <2>1. x = Append(steering, UserMessage(u)) /\ y = Append(followUp, UserMessage(u))
    OBVIOUS
  <2>2. (steering' = x /\ followUp' = followUp) \/ (followUp' = y /\ steering' = steering)
    BY <1>1
  <2> HIDE DEF x, y
  <2>3. /\ QueuesOK(agent.messages, x, followUp, loop.pend, sent \cup {u}, lost)
        /\ QueuesOK(agent.messages, steering, y, loop.pend, sent \cup {u}, lost)
    BY <1>1, <2>1, QueuesSend
  <2> QED
    BY <1>1, <2>2, <2>3
<1>3. AInvAt(dep, agent, steering', followUp', loop, sent', lost, told)
  BY <1>2 DEF AInvAt
<1> QED
  BY <1>1, <1>3 DEF AInv

LEMMA ResetKeeps ==
  ASSUME AInv, Reset
  PROVE  AInv'
<1> USE LoopFacts
<1>1. /\ loop.pc = "idle" /\ agent' = IdleAgent(<< >>) /\ steering' = << >> /\ followUp' = << >>
      /\ lost' = sent /\ told' = {} /\ UNCHANGED <<dep, loop, token, sent>>
  BY DEF Reset, Idle
<1>2. loop.pend = << >>
  BY <1>1, BetweenRuns, IdleRests
<1>3. agent'.messages = << >> /\ agent'.staged = {} /\ agent' \in Agents
  BY <1>1 DEF IdleAgent, Agents
<1>4. Open(<< >>) = {} /\ << >> \in Seq(Messages)
  BY OpenEmpty
<1>5. LogOK(<< >>)
  <2>1. DOMAIN << >> = {}
    OBVIOUS
  <2> QED
    BY <1>4, <2>1 DEF LogOK, CallIds, Bounded
<1>6. PlaceOK(<< >>, loop)
  BY <1>1, <1>4 DEF PlaceOK
<1>7. KeptOK(<< >>, {}, {}) /\ StagedAt(<< >>, {}, loop)
  BY DEF KeptOK, StagedAt
<1>8. QueuesOK(<< >>, << >>, << >>, << >>, sent, sent)
  <2>1. SaidBy(<< >>) = {} /\ SaidOnce(<< >>)
    BY DEF SaidBy, SaidOnce, Said
  <2>2. MessagesOf(sent \ sent) = {}
    BY DEF MessagesOf
  <2>3. sent \subseteq Users
    BY DEF QueuesOK
  <2> QED
    BY <2>1, <2>2, <2>3, EmptySets DEF QueuesOK, Apart
<1>9. AInvAt(dep, agent', << >>, << >>, loop, sent, sent, {})
  BY <1>2, <1>3, <1>5, <1>6, <1>7, <1>8 DEF AInvAt
<1> QED
  BY <1>1, <1>9 DEF AInv

LEMMA OutsideKeeps ==
  ASSUME AInv, \/ Abort \/ Restart
               \/ \E kind \in {"error", "cancel"} : Interrupted(kind)
  PROVE  AInv'
<1> USE LoopFacts
<1>1. CASE Abort
  <2>1. UNCHANGED <<dep, agent, steering, followUp, loop, sent, lost, told>> /\ token' \in BOOLEAN
    BY <1>1 DEF Abort, History, AInv
  <2> QED
    BY <2>1 DEF AInv
<1>2. CASE Restart
  <2>1. /\ steering' = << >> /\ followUp' = << >> /\ lost' = lost \cup Ids(steering) \cup Ids(followUp)
        /\ UNCHANGED <<dep, agent, loop, token, sent, told>>
    BY <1>2 DEF Restart, Hold, History
  <2>2. QueuesOK(agent.messages, << >>, << >>, loop.pend, sent, lost')
    BY <2>1, QueuesForget
  <2>3. AInvAt(dep, agent, << >>, << >>, loop, sent, lost', told)
    BY <2>2 DEF AInvAt
  <2> QED
    BY <2>1, <2>3 DEF AInv
<1>3. ASSUME NEW kind, Interrupted(kind) PROVE AInv'
  <2>1. Raise(kind, agent) /\ UNCHANGED <<dep, steering, followUp, sent, told>>
    BY <1>3 DEF Interrupted, Alone, Hold, Queues, History
  <2> QED
    BY <2>1, AgentSurvives, RaiseKeeps
<1> QED
  BY <1>1, <1>2, <1>3

-----------------------------------------------------------------------------
(* The repair after a failure *)

LEMMA HeardAnswered ==
  ASSUME NEW M \in Seq(Messages), NEW s \in Seq(Results), NEW t,
         Heard(M, t) \/ \E i \in DOMAIN s : s[i] = ToolResult(t[1], t[2])
  PROVE  Heard(M \o s, t)
<1> DEFINE L == M \o s
<1>1. /\ \A i \in DOMAIN M : i \in DOMAIN L /\ L[i] = M[i]
      /\ \A j \in DOMAIN s : Len(M) + j \in DOMAIN L /\ L[Len(M) + j] = s[j]
  BY IdsAnswered
<1> HIDE DEF L
<1>2. ASSUME Heard(M, t) PROVE Heard(L, t)
  BY <1>1, <1>2 DEF Heard
<1>3. ASSUME NEW i \in DOMAIN s, s[i] = ToolResult(t[1], t[2]) PROVE Heard(L, t)
  BY <1>1, <1>3 DEF Heard
<1>4. Heard(L, t)
  BY <1>2, <1>3
<1> QED
  BY <1>4 DEF L

\* The results s answer every open call of M, once.
Completes(M, R, s) ==
    /\ R = M \o s /\ {s[i].call : i \in DOMAIN s} = Open(M)
    /\ \A i \in DOMAIN s, j \in DOMAIN s : s[i].call = s[j].call => i = j

\* Materialized and Repaired: every announced result is in the conversation, nothing is open.
LEMMA RepairSettles ==
  ASSUME NEW M, LogOK(M), NEW S, NEW T, KeptOK(M, S, T), NEW R, R = Repaired(Materialized(M, S))
  PROVE  /\ LogOK(R) /\ Open(R) = {} /\ \A t \in T : Heard(R, t)
         /\ SaidBy(R) = SaidBy(M) /\ (SaidOnce(M) => SaidOnce(R))
         /\ \E s \in Seq(Results) : Completes(M, R, s)
<1>1. S \in SUBSET Results /\ M \in Seq(Messages)
  BY DEF KeptOK, LogOK
<1>a. PICK s1 \in Seq(Results) : Materialized(M, S) = M \o s1 /\ Supplies(M, S, s1)
  BY <1>1, MaterializedFacts
<1>2. /\ Materialized(M, S) = M \o s1
      /\ \A i \in DOMAIN s1 : s1[i] \in S /\ s1[i].call \in Open(M)
      /\ \A r \in S : r.call \in Open(M) => \E i \in DOMAIN s1 : s1[i].call = r.call
      /\ \A i \in DOMAIN s1, j \in DOMAIN s1 : s1[i].call = s1[j].call => i = j
  BY <1>a DEF Supplies
<1> DEFINE N == M \o s1
<1>3. LogOK(N) /\ Open(N) = Open(M) \ {s1[i].call : i \in DOMAIN s1}
  BY LogAnswered
<1>4. N \in Seq(Messages)
  BY <1>3 DEF LogOK
<1>5. SaidBy(N) = SaidBy(M) /\ (SaidOnce(M) => SaidOnce(N))
  BY <1>1, SaidAnswered
<1>6. ASSUME NEW t \in T PROVE Heard(N, t)
  <2>1. CASE Heard(M, t)
    BY <1>1, <2>1, HeardAnswered
  <2>2. CASE ToolResult(t[1], t[2]) \in S /\ t[1] \in Open(M)
    <3>1. ToolResult(t[1], t[2]).call = t[1]
      BY DEF ToolResult
    <3>2. PICK i \in DOMAIN s1 : s1[i].call = t[1]
      BY <1>2, <2>2, <3>1
    <3>3. s1[i] = ToolResult(t[1], t[2])
      BY <1>2, <2>2, <3>1, <3>2 DEF KeptOK
    <3> QED
      BY <1>1, <3>3, HeardAnswered
  <2> QED
    BY <2>1, <2>2 DEF KeptOK
<1>7. R = Repaired(N)
  BY <1>2
<1> HIDE DEF N
<1>8. PICK s2 \in Seq(Results) :
         /\ R = N \o s2 /\ {s2[i].call : i \in DOMAIN s2} = Open(N)
         /\ \A i \in DOMAIN s2, j \in DOMAIN s2 : s2[i].call = s2[j].call => i = j
  BY <1>3, <1>7, RepairedFacts
<1>9. LogOK(R) /\ Open(R) = {}
  BY <1>3, <1>8, LogAnswered
<1>10. \A t \in T : Heard(R, t)
  BY <1>4, <1>6, <1>8, HeardAnswered
<1>11. SaidBy(R) = SaidBy(M) /\ (SaidOnce(M) => SaidOnce(R))
  BY <1>4, <1>5, <1>8, SaidAnswered
<1>12. \E s \in Seq(Results) : Completes(M, R, s)
  <2> DEFINE s == s1 \o s2
             n == Len(s1)
  <2>1. R = M \o s
    <3>1. Results \subseteq Messages
      BY DEF Messages
    <3>2. s1 \in Seq(Messages) /\ s2 \in Seq(Messages)
      BY <3>1
    <3> QED
      BY <1>1, <1>8, <3>2, ConcatAssociative DEF N
  <2>2. s \in Seq(Results) /\ n \in Nat /\ Len(s2) \in Nat
    OBVIOUS
  <2>3. \A i \in DOMAIN s1 : i \in DOMAIN s /\ s[i] = s1[i]
    OBVIOUS
  <2>4. \A j \in DOMAIN s2 : n + j \in DOMAIN s /\ s[n + j] = s2[j]
    OBVIOUS
  <2>5. \A i \in DOMAIN s : i \in DOMAIN s1 \/ (i - n \in DOMAIN s2 /\ s[i] = s2[i - n])
    OBVIOUS
  <2> DEFINE C1 == {s1[i].call : i \in DOMAIN s1}
             C2 == {s2[i].call : i \in DOMAIN s2}
  <2>6. C1 \subseteq Open(M) /\ C2 = Open(M) \ C1
    BY <1>2, <1>3, <1>8
  <2> HIDE DEF s
  <2>7. {s[i].call : i \in DOMAIN s} = C1 \cup C2
    <3>1. \A i \in DOMAIN s : s[i].call \in C1 \cup C2
      BY <2>3, <2>5
    <3>2. \A i \in DOMAIN s1 : s1[i].call \in {s[k].call : k \in DOMAIN s}
      BY <2>3
    <3>3. \A i \in DOMAIN s2 : s2[i].call \in {s[k].call : k \in DOMAIN s}
      BY <2>4
    <3> QED
      BY <3>1, <3>2, <3>3
  <2>8. ASSUME NEW i \in DOMAIN s, NEW j \in DOMAIN s, s[i].call = s[j].call PROVE i = j
    <3>1. CASE i \in DOMAIN s1 /\ j \in DOMAIN s1
      BY <1>2, <2>3, <2>8, <3>1
    <3>2. CASE i \in DOMAIN s1 /\ j - n \in DOMAIN s2 /\ s[j] = s2[j - n]
      BY <2>3, <2>6, <2>8, <3>2
    <3>3. CASE j \in DOMAIN s1 /\ i - n \in DOMAIN s2 /\ s[i] = s2[i - n]
      BY <2>3, <2>6, <2>8, <3>3
    <3>4. CASE i - n \in DOMAIN s2 /\ s[i] = s2[i - n] /\ j - n \in DOMAIN s2 /\ s[j] = s2[j - n]
      <4>1. i - n = j - n
        BY <1>8, <2>8, <3>4
      <4>2. i \in Nat /\ j \in Nat
        BY <2>2, <2>8
      <4> QED
        BY <2>2, <4>1, <4>2
    <3> QED
      BY <2>5, <2>8, <3>1, <3>2, <3>3, <3>4
  <2>9. Completes(M, R, s)
    BY <2>1, <2>6, <2>7, <2>8 DEF Completes
  <2> QED
    BY <2>2, <2>9
<1> QED
  BY <1>9, <1>10, <1>11, <1>12

LEMMA RepairKeeps ==
  ASSUME AInv, RepairTranscript
  PROVE  AInv'
<1> USE LoopFacts
<1> DEFINE R == Repaired(Materialized(agent.messages, agent.staged))
           l == Go("fail_start")
           a == [agent EXCEPT !.messages = R, !.staged = {}]
<1>1. loop.pc = "fail" /\ agent' = a /\ loop' = l /\ UNCHANGED <<token, lost>> /\ Alone
  BY DEF RepairTranscript, At
<1>2. LogOK(R) /\ Open(R) = {} /\ (\A t \in told : Heard(R, t))
      /\ SaidBy(R) = SaidBy(agent.messages) /\ (SaidOnce(agent.messages) => SaidOnce(R))
  BY RepairSettles
<1>3. LoopShape(l) /\ l.pc = "fail_start" /\ SameWork(l, loop)
  BY GoShape DEF Places
<1> HIDE DEF R, l
<1>4. a.messages = R /\ a.staged = {} /\ a \in Agents
  BY <1>2 DEF Agents, LogOK
<1> HIDE DEF a
<1>5. LoopOK(l)
  BY <1>1, <1>3 DEF LoopOK, SameWork
<1>6. BudgetOK(l, dep)
  BY <1>1, <1>3 DEF BudgetOK, SameWork
<1>7. PlaceOK(R, l) /\ StagedAt(R, {}, l)
  BY <1>2, <1>3 DEF PlaceOK, StagedAt
<1>8. KeptOK(R, {}, told)
  BY <1>2 DEF KeptOK
<1>9. QueuesOK(R, steering, followUp, l.pend, sent, lost)
  BY <1>2, <1>3, QueuesSame DEF SameWork
<1>10. AInvAt(dep, a, steering, followUp, l, sent, lost, told)
  BY <1>2, <1>4, <1>5, <1>6, <1>7, <1>8, <1>9 DEF AInvAt
<1> QED
  BY <1>1, <1>10 DEF AInv, Alone, Hold, Queues, History

-----------------------------------------------------------------------------
(* The turns *)

\* The messages to be injected are drained from a queue.
LEMMA DrainedKeeps ==
  ASSUME AInv, loop.pc \in {"prompts", "after"}, NEW pc \in {"turn", "agent_end"}, NEW p \in Seq(UserMessages),
         loop' = [loop EXCEPT !.pc = pc, !.pend = p], pc = "agent_end" => p = << >>,
         loop.ctx = agent.messages, pc = "turn" /\ ~loop.first => loop.turns < dep.turns,
         UNCHANGED <<dep, agent, token, sent, lost, told>>,
         QueuesOK(agent.messages, steering', followUp', p, sent, lost)
  PROVE  AInv'
<1> USE LoopFacts
<1> DEFINE l == [loop EXCEPT !.pc = pc, !.pend = p]
<1>1. pc \in Places
  BY DEF Places
<1>2. l = [loop EXCEPT !.pc = pc, !.pend = p] /\ loop' = l
  OBVIOUS
<1> HIDE DEF l
<1>3. /\ LoopShape(l) /\ l.pc = pc /\ l.pend = p /\ l.ctx = loop.ctx /\ l.reply = loop.reply
      /\ l.index = loop.index /\ l.call = loop.call
      /\ l.turns = loop.turns /\ l.used = loop.used /\ l.attempts = loop.attempts /\ l.first = loop.first
  <2>1. /\ l.pc = pc /\ l.pend = p /\ l.ctx = loop.ctx /\ l.reply = loop.reply
        /\ l.index = loop.index /\ l.call = loop.call
        /\ l.turns = loop.turns /\ l.used = loop.used /\ l.attempts = loop.attempts /\ l.first = loop.first
    BY <1>2 DEF LoopShape
  <2>2. LoopShape(l)
    BY <1>1, <1>2 DEF LoopShape
  <2> QED
    BY <2>1, <2>2
<1>4. LoopOK(l)
  BY <1>3 DEF LoopOK
<1>5. BudgetOK(l, dep)
  BY <1>3 DEF BudgetOK
<1>6. PlaceOK(agent.messages, l)
  BY <1>3 DEF PlaceOK, Batching
<1>7. StagedAt(agent.messages, agent.staged, l)
  BY <1>3 DEF StagedAt, Batching
<1>8. AInvAt(dep, agent, steering', followUp', l, sent, lost, told)
  BY <1>3, <1>4, <1>5, <1>6, <1>7 DEF AInvAt
<1> QED
  BY <1>2, <1>8 DEF AInv

LEMMA PollKeeps ==
  ASSUME AInv, PollSteering
  PROVE  AInv'
<1> USE LoopFacts
<1> DEFINE p == IF loop.skip THEN << >> ELSE Drained(steering)
<1>1. /\ loop.pc = "prompts" /\ loop.pend = << >> /\ loop' = [loop EXCEPT !.pc = "turn", !.pend = p]
      /\ UNCHANGED <<dep, agent, followUp, token, sent, lost, told>>
      /\ steering' = IF loop.skip THEN steering ELSE Left(steering)
  BY DEF PollSteering, At, Hold, History
<1>2. QueuesOK(agent.messages, steering, followUp, << >>, sent, lost)
  BY <1>1
<1>3. p \in Seq(UserMessages) /\ QueuesOK(agent.messages, steering', followUp', p, sent, lost)
  BY <1>1, <1>2, QueuesDrain, EmptySets
<1>4. loop.ctx = agent.messages
  <2>1. loop.ctx = agent.messages \o << >> /\ agent.messages \in Seq(Messages)
    BY <1>1 DEF PlaceOK, LogOK
  <2> QED
    BY <2>1
<1>5. loop.first
  BY <1>1 DEF BudgetOK
<1> HIDE DEF p
<1> QED
  BY <1>1, <1>3, <1>4, <1>5, DrainedKeeps

LEMMA NextTurnKeeps ==
  ASSUME AInv, NextTurn
  PROVE  AInv'
<1> USE LoopFacts
<1> DEFINE more == loop.more \/ steering # << >>
           pc == IF more \/ followUp # << >> THEN "turn" ELSE "agent_end"
           p == IF more THEN Drained(steering) ELSE Drained(followUp)
<1>1. /\ loop.pc = "after" /\ ~TurnsSpent /\ loop' = [loop EXCEPT !.pc = pc, !.pend = p]
      /\ UNCHANGED <<dep, agent, token, sent, lost, told>>
      /\ steering' = Left(steering) /\ followUp' = IF more THEN followUp ELSE Left(followUp)
  BY DEF NextTurn, At, Hold, History
<1>2. loop.pend = << >> /\ loop.ctx = agent.messages
  BY <1>1 DEF LoopOK, PlaceOK
<1>3. QueuesOK(agent.messages, steering, followUp, << >>, sent, lost)
      /\ steering \in Seq(UserMessages) /\ followUp \in Seq(UserMessages)
  BY <1>2 DEF QueuesOK
<1>4. p \in Seq(UserMessages) /\ QueuesOK(agent.messages, steering', followUp', p, sent, lost)
  <2>1. CASE more
    BY <1>1, <1>3, <2>1, QueuesDrain
  <2>2. CASE ~more
    <3>1. steering = << >>
      BY <2>2
    <3>2. Left(steering) = steering
      BY <1>3, <3>1, TakenIn
    <3> QED
      BY <1>1, <1>3, <2>2, <3>2, QueuesDrain
  <2> QED
    BY <2>1, <2>2
<1>5. pc \in {"turn", "agent_end"} /\ (pc = "agent_end" => p = << >>)
  BY <1>3, TakenIn
<1>6. loop.turns < dep.turns
  <2>1. loop.turns \in Nat /\ dep.turns \in Nat
    BY AgentAssumption DEF LoopShape
  <2> QED
    BY <1>1, <2>1 DEF TurnsSpent
<1> HIDE DEF p, pc
<1> QED
  BY <1>1, <1>2, <1>4, <1>5, <1>6, DrainedKeeps

\* One Turn is charged.
LEMMA ChargedFacts ==
  ASSUME LoopShape(loop), NEW l, l = [loop EXCEPT !.pc = "inject", !.turns = @ + 1, !.first = FALSE]
  PROVE  /\ LoopShape(l) /\ l.pc = "inject" /\ l.pend = loop.pend /\ l.ctx = loop.ctx /\ l.reply = loop.reply
         /\ l.index = loop.index /\ l.call = loop.call
         /\ l.turns = loop.turns + 1 /\ l.used = loop.used /\ l.attempts = loop.attempts /\ l.first = FALSE
<1>1. /\ l.pc = "inject" /\ l.pend = loop.pend /\ l.ctx = loop.ctx /\ l.reply = loop.reply
      /\ l.index = loop.index /\ l.call = loop.call
      /\ l.turns = loop.turns + 1 /\ l.used = loop.used /\ l.attempts = loop.attempts /\ l.first = FALSE
  BY DEF LoopShape
<1>2. LoopShape(l)
  <2>1. loop.turns + 1 \in Nat /\ "inject" \in Places
    BY DEF LoopShape, Places
  <2> QED
    BY <2>1 DEF LoopShape
<1> QED
  BY <1>1, <1>2

LEMMA BeginTurnKeeps ==
  ASSUME AInv, BeginTurn
  PROVE  AInv'
<1> USE LoopFacts
<1> DEFINE l == [loop EXCEPT !.pc = "inject", !.turns = @ + 1, !.first = FALSE]
<1>1. loop.pc = "turn" /\ Alone
  BY DEF BeginTurn, At
<1>2. loop.turns \in Nat /\ dep.turns \in Nat /\ dep.turns >= 1
  BY AgentAssumption DEF LoopShape
<1>3. loop.turns < dep.turns
  <2>1. CASE loop.first
    BY <1>2, <2>1 DEF BudgetOK
  <2>2. CASE ~loop.first
    BY <1>1, <2>2 DEF BudgetOK
  <2> QED
    BY <2>1, <2>2
<1>4. \/ loop' = l /\ UNCHANGED <<agent, token, lost>>
      \/ Emit(Event("turn_started"), agent, l)
  <2>1. ~TurnsSpent
    BY <1>2, <1>3 DEF TurnsSpent
  <2> QED
    BY <2>1 DEF BeginTurn
<1>5. /\ LoopShape(l) /\ l.pc = "inject" /\ l.pend = loop.pend /\ l.ctx = loop.ctx /\ l.reply = loop.reply
      /\ l.index = loop.index /\ l.call = loop.call
      /\ l.turns = loop.turns + 1 /\ l.used = loop.used /\ l.attempts = loop.attempts /\ l.first = FALSE
  BY ChargedFacts
<1> HIDE DEF l
<1>6. LoopOK(l)
  BY <1>1, <1>5 DEF LoopOK
<1>7. BudgetOK(l, dep)
  BY <1>1, <1>2, <1>3, <1>5 DEF BudgetOK
<1>8. PlaceOK(agent.messages, l)
  BY <1>1, <1>5 DEF PlaceOK, Batching
<1>9. StagedAt(agent.messages, agent.staged, l)
  BY <1>1, <1>5 DEF StagedAt, Batching
<1>10. AInvAt(dep, agent, steering, followUp, l, sent, lost, told)
  BY <1>5, <1>6, <1>7, <1>8, <1>9, LoopStep
<1>11. UNCHANGED <<dep, steering, followUp, sent, told>>
  BY <1>1 DEF Alone, Hold, Queues, History
<1>12. CASE loop' = l /\ UNCHANGED <<agent, token, lost>>
  BY <1>10, <1>11, <1>12, QuietKeeps
<1>13. CASE Emit(Event("turn_started"), agent, l)
  BY <1>10, <1>11, <1>13, EmitKeeps
<1> QED
  BY <1>4, <1>12, <1>13

LEMMA RequestFacts ==
  ASSUME LoopShape(loop), NEW g, NEW s,
         NEW l, l = [loop EXCEPT !.pc = "model", !.stream = s, !.ctx = loop.ctx, !.given = g]
  PROVE  LoopShape(l) /\ l.pc = "model" /\ SameWork(l, loop)
<1>1. l.pc = "model" /\ SameWork(l, loop)
  BY DEF LoopShape, SameWork
<1>2. LoopShape(l)
  BY DEF LoopShape, Places
<1> QED
  BY <1>1, <1>2

LEMMA RequestKeeps ==
  ASSUME AInv, RequestModel
  PROVE  AInv'
<1> USE LoopFacts
<1> DEFINE l == [loop EXCEPT !.pc = "model", !.stream = "asked", !.ctx = loop.ctx, !.given = Repaired(loop.ctx)]
<1>1. loop.pc = "inject" /\ loop.pend = << >> /\ Alone
      /\ Emit(Event("model_request_started"), agent, [loop EXCEPT !.pc = "model", !.stream = "asked",
                                                !.ctx = Repaired(@), !.given = Repaired(loop.ctx)])
  BY DEF RequestModel, At
<1>2. Repaired(loop.ctx) = loop.ctx
  <2>1. loop.ctx = agent.messages /\ Open(agent.messages) = {}
    BY <1>1 DEF PlaceOK, Batching
  <2> QED
    BY <2>1, RepairedClosed
<1>3. Emit(Event("model_request_started"), agent, l)
  BY <1>1, <1>2
<1>4. l = [loop EXCEPT !.pc = "model", !.stream = "asked", !.ctx = loop.ctx, !.given = Repaired(loop.ctx)]
  OBVIOUS
<1> HIDE DEF l
<1>5. LoopShape(l) /\ l.pc = "model" /\ SameWork(l, loop)
  BY <1>4, RequestFacts
<1>6. LoopOK(l)
  BY <1>1, <1>5 DEF LoopOK, SameWork
<1>7. BudgetOK(l, dep)
  BY <1>1, <1>5 DEF BudgetOK, SameWork
<1>8. PlaceOK(agent.messages, l)
  BY <1>1, <1>5 DEF PlaceOK, SameWork, Batching
<1>9. StagedAt(agent.messages, agent.staged, l)
  BY <1>1, <1>5 DEF StagedAt, Batching
<1>10. AInvAt(dep, agent, steering, followUp, l, sent, lost, told)
  BY <1>5, <1>6, <1>7, <1>8, <1>9, LoopStep DEF SameWork
<1> QED
  BY <1>1, <1>3, <1>10, EmitKeeps DEF Alone, Hold, Queues, History

LEMMA StagedNone ==
  ASSUME AInv, loop.pc # "fail", Open(agent.messages) = {}
  PROVE  agent.staged = {}
  BY LoopFacts DEF StagedAt

LEMMA KeepResultsKeeps ==
  ASSUME AInv, KeepResults
  PROVE  AInv'
<1> USE LoopFacts
<1> DEFINE l == [loop EXCEPT !.pc = "turn_end", !.ctx = @ \o BatchResults, !.index = 1]
           n == Len(loop.reply.calls)
           M == agent.messages
<1>1. loop.pc \in {"refuse", "results"} /\ ~BatchLeft /\ loop' = l /\ Alone /\ UNCHANGED <<agent, token, lost>>
  BY DEF KeepResults
<1>2. loop.index - 1 = n /\ loop.index = n + 1 /\ DOMAIN loop.reply.calls = 1 .. n /\ n \in Nat
  <2>1. loop.index \in 1 .. n + 1
    BY DEF LoopOK
  <2>2. DOMAIN loop.reply.calls = 1 .. n /\ n \in Nat
    OBVIOUS
  <2>3. ~(loop.index <= n)
    BY <1>1 DEF BatchLeft
  <2>4. \A m \in Nat : \A i \in 1 .. m + 1 : ~(i <= m) => i = m + 1 /\ i - 1 = m
    OBVIOUS
  <2>5. loop.index = n + 1 /\ loop.index - 1 = n
    BY <2>1, <2>2, <2>3, <2>4
  <2> QED
    BY <2>2, <2>5
<1>3. loop.ctx \o BatchResults = M
  <2>1. BatchResults = [i \in 1 .. loop.index - 1 |-> ResultAt(loop, i)]
    BY <1>2 DEF BatchResults, ResultAt
  <2> QED
    BY <1>1, <2>1 DEF PlaceOK
<1>4. Open(M) = {}
  <2>1. \A j \in loop.index .. n : FALSE
    BY <1>2
  <2> QED
    BY <1>1, <2>1 DEF PlaceOK, Unheard
<1>5. agent.staged = {}
  BY <1>1, <1>4, StagedNone
<1>6. l = [loop EXCEPT !.pc = "turn_end", !.ctx = M, !.index = 1] /\ M \in Seq(Messages)
  BY <1>3 DEF LogOK
<1> HIDE DEF l, M
<1>7. /\ l.pc = "turn_end" /\ l.ctx = M /\ l.index = 1 /\ l.pend = loop.pend /\ l.reply = loop.reply
      /\ l.call = loop.call
      /\ l.turns = loop.turns /\ l.used = loop.used /\ l.attempts = loop.attempts /\ l.first = loop.first
  BY <1>6 DEF LoopShape
<1>8. LoopShape(l)
  BY <1>6 DEF LoopShape, Places
<1>9. LoopOK(l)
  <2>1. 1 \in 1 .. n + 1
    BY <1>2
  <2> QED
    BY <1>1, <1>7, <1>8, <2>1 DEF LoopOK
<1>10. BudgetOK(l, dep)
  BY <1>1, <1>7 DEF BudgetOK
<1>11. PlaceOK(agent.messages, l)
  BY <1>4, <1>7 DEF PlaceOK, M
<1>12. StagedAt(agent.messages, agent.staged, l)
  BY <1>5 DEF StagedAt
<1>13. AInvAt(dep, agent, steering, followUp, l, sent, lost, told)
  BY <1>7, <1>9, <1>10, <1>11, <1>12, LoopStep
<1> QED
  BY <1>1, <1>13, QuietKeeps DEF Alone, Hold, Queues, History

LEMMA GatherKeeps ==
  ASSUME AInv, NEW terminate \in BOOLEAN, GatherCalls(terminate)
  PROVE  AInv'
<1> USE LoopFacts
<1> DEFINE more == ~terminate /\ ~loop.denied
           l == [loop EXCEPT !.pc = "results", !.index = 1, !.over = loop.denied, !.more = more]
           n == Len(loop.reply.calls)
           M == agent.messages
<1>1. /\ loop.pc = "tools" /\ (\A c \in ToSet(loop.reply.calls) : loop.call[c].phase = "ended") /\ loop' = l
      /\ Alone /\ UNCHANGED <<agent, token, lost>>
  BY CallsOfLoop DEF GatherCalls, At
<1>2. more \in BOOLEAN /\ l = [loop EXCEPT !.pc = "results", !.index = 1, !.over = loop.denied, !.more = more]
  OBVIOUS
<1> HIDE DEF l, more
<1>3. /\ l.pc = "results" /\ l.ctx = loop.ctx /\ l.index = 1 /\ l.pend = loop.pend /\ l.reply = loop.reply
      /\ l.call = loop.call
      /\ l.turns = loop.turns /\ l.used = loop.used /\ l.attempts = loop.attempts /\ l.first = loop.first
  BY <1>2 DEF LoopShape
<1>4. LoopShape(l)
  BY <1>2 DEF LoopShape, Places
<1>5. LoopOK(l)
  <2>1. 1 \in 1 .. n + 1
    OBVIOUS
  <2> QED
    BY <1>1, <1>3, <1>4, <2>1 DEF LoopOK
<1>6. BudgetOK(l, dep)
  BY <1>1, <1>3 DEF BudgetOK
<1>7. PlaceOK(M, l)
  <2>1. Open(M) = ToSet(loop.reply.calls) /\ loop.ctx = M /\ M \in Seq(Messages)
    BY <1>1 DEF PlaceOK, LogOK
  <2>2. Unheard(l) = ToSet(loop.reply.calls)
    BY <1>3 DEF Unheard, ToSet
  <2>3. M = l.ctx \o [i \in 1 .. l.index - 1 |-> ResultAt(l, i)]
    <3>1. l.index - 1 = 0 /\ l.ctx = M
      BY <1>3, <2>1
    <3>2. [i \in 1 .. 0 |-> ResultAt(l, i)] = << >>
      OBVIOUS
    <3>3. M \o << >> = M
      BY <2>1
    <3> QED
      BY <3>1, <3>2, <3>3
  <2>4. \A i \in 1 .. l.index - 1 : FALSE
    BY <1>3
  <2> HIDE DEF M
  <2> QED
    BY <1>1, <1>3, <2>1, <2>2, <2>3, <2>4 DEF PlaceOK, Batching
<1>8. StagedAt(M, agent.staged, l)
  BY <1>1, <1>3 DEF StagedAt, Batching
<1>9. AInvAt(dep, agent, steering, followUp, l, sent, lost, told)
  BY <1>3, <1>5, <1>6, <1>7, <1>8, LoopStep
<1> QED
  BY <1>1, <1>9, QuietKeeps DEF Alone, Hold, Queues, History

-----------------------------------------------------------------------------
(* The answer of the model *)

LEMMA StreamFacts ==
  ASSUME LoopShape(loop), NEW s, NEW g, NEW l,
         l = [loop EXCEPT !.stream = s] \/ l = [loop EXCEPT !.stream = s, !.given = g]
  PROVE  LoopShape(l) /\ l.pc = loop.pc /\ SameWork(l, loop)
<1>1. l.pc = loop.pc /\ SameWork(l, loop)
  BY DEF LoopShape, SameWork
<1>2. LoopShape(l)
  BY DEF LoopShape
<1> QED
  BY <1>1, <1>2

LEMMA StreamKeeps ==
  ASSUME AInv, loop.pc = "model", NEW e, NEW s, NEW g, NEW l, Emit(e, agent, l), Alone,
         l = [loop EXCEPT !.stream = s] \/ l = [loop EXCEPT !.stream = s, !.given = g]
  PROVE  AInv'
<1>1. LoopShape(l) /\ l.pc = loop.pc /\ SameWork(l, loop)
  BY LoopFacts, StreamFacts
<1>2. <<loop.pc, l.pc>> \in Moves
  BY <1>1 DEF Moves
<1>3. AInvAt(dep, agent, steering, followUp, l, sent, lost, told)
  BY <1>1, <1>2, MoveOK
<1> QED
  BY <1>3, EmitKeeps DEF Alone, Hold, Queues, History

LEMMA ForwardKeeps ==
  ASSUME AInv, ForwardStreamEvent
  PROVE  AInv'
<1>1. PICK step \in StreamStep : Emit(Event(step[2]), agent, [loop EXCEPT !.stream = step[3]])
  BY DEF ForwardStreamEvent
<1>2. loop.pc = "model" /\ Alone
  BY DEF ForwardStreamEvent, At
<1> DEFINE e == Event(step[2])
           s == step[3]
           l == [loop EXCEPT !.stream = s]
<1>3. Emit(e, agent, l) /\ l = [loop EXCEPT !.stream = s]
  BY <1>1
<1> HIDE DEF e, s, l
<1> QED
  BY <1>2, <1>3, StreamKeeps

\* A terminal answer with calls that are new in the conversation.
LEMMA AnswerKeeps ==
  ASSUME AInv, loop.pc = "model", Alone, UNCHANGED <<agent, token, lost>>,
         NEW reply \in Assistants, IsInjective(reply.calls),
         ToSet(reply.calls) \cap (CallIds(agent.messages) \cup {0}) = {},
         Bounded(ToSet(reply.calls), Len(agent.messages) + 2),
         NEW f \in [ToSet(reply.calls) -> CallRecords],
         \A c \in ToSet(reply.calls) : f[c].phase = "new",
         NEW l, loop' = l, LoopShape(l), l.pc = "reply", l.reply = reply, l.ctx = Append(loop.ctx, reply),
         l.call = f, l.pend = loop.pend, l.index = loop.index,
         l.turns = loop.turns, l.used = loop.used, l.attempts = loop.attempts, l.first = loop.first
  PROVE  AInv'
<1> USE LoopFacts
<1>1. loop.ctx = agent.messages /\ Open(agent.messages) = {} /\ loop.index = 1 /\ loop.pend = << >>
  BY DEF PlaceOK, Batching, LoopOK
<1>2. reply.calls \in Seq(Nat)
  BY DEF Assistants
<1>3. LoopOK(l)
  <2>1. 1 \in 1 .. Len(reply.calls) + 1
    BY <1>2
  <2> QED
    BY <1>1, <2>1 DEF LoopOK
<1>4. BudgetOK(l, dep)
  BY DEF BudgetOK
<1>5. PlaceOK(agent.messages, l)
  BY <1>1 DEF PlaceOK
<1>6. StagedAt(agent.messages, agent.staged, l)
  BY <1>1, StagedNone DEF StagedAt
<1>7. AInvAt(dep, agent, steering, followUp, l, sent, lost, told)
  BY <1>3, <1>4, <1>5, <1>6, LoopStep
<1> QED
  BY <1>7, QuietKeeps DEF Alone, Hold, Queues, History

LEMMA OverflowKeeps ==
  ASSUME AInv, Overflow
  PROVE  AInv'
<1> USE LoopFacts
<1> DEFINE new == Compacted(loop.given, dep.keep, dep.window)
           failed == AssistantMessage(<< >>, "error")
           lf == [loop EXCEPT !.pc = "reply", !.reply = failed, !.ctx = Append(@, failed), !.call = << >>]
           ls == [loop EXCEPT !.stream = "compacting", !.given = new]
<1>1. loop.pc = "model" /\ Alone
  BY DEF Overflow, At
<1>2. \/ Raise("error", agent)
      \/ loop' = lf /\ UNCHANGED <<agent, token, lost>>
      \/ Emit(Event("context_compaction_started"), agent, ls)
  <2>1. CASE ~Verified(loop.given, new)
    BY <2>1 DEF Overflow
  <2>2. CASE Verified(loop.given, new) /\ ~WorthSending(loop.given, new, dep.window)
    BY <2>2 DEF Overflow
  <2>3. CASE Verified(loop.given, new) /\ WorthSending(loop.given, new, dep.window)
    BY <2>3 DEF Overflow
  <2> QED
    BY <2>1, <2>2, <2>3
<1>3. CASE Raise("error", agent)
  BY <1>1, <1>3, AgentSurvives, RaiseKeeps DEF Alone, Hold, Queues, History
<1>4. CASE Emit(Event("context_compaction_started"), agent, ls)
  <2>1. ls = [loop EXCEPT !.stream = "compacting", !.given = new]
    OBVIOUS
  <2> HIDE DEF ls, new
  <2> QED
    BY <1>1, <1>4, <2>1, StreamKeeps
<1>5. CASE loop' = lf /\ UNCHANGED <<agent, token, lost>>
  <2>1. failed \in Assistants /\ failed.calls = << >>
    BY DEF AssistantMessage, Assistants, Stops
  <2>2. ToSet(failed.calls) = {} /\ IsInjective(failed.calls)
    BY <2>1, EmptySets
  <2>3. << >> \in [ToSet(failed.calls) -> CallRecords]
    BY <2>1, NoCalls
  <2>4. lf = [loop EXCEPT !.pc = "reply", !.reply = failed, !.ctx = Append(@, failed), !.call = << >>]
    OBVIOUS
  <2>5. failed \in Messages /\ Append(loop.ctx, failed) \in Seq(Messages)
    BY <2>1 DEF Messages, LoopShape
  <2> HIDE DEF lf, failed
  <2>6. /\ lf.pc = "reply" /\ lf.reply = failed /\ lf.ctx = Append(loop.ctx, failed) /\ lf.call = << >>
        /\ lf.pend = loop.pend /\ lf.index = loop.index
        /\ lf.turns = loop.turns /\ lf.used = loop.used /\ lf.attempts = loop.attempts /\ lf.first = loop.first
    BY <2>4 DEF LoopShape
  <2>7. LoopShape(lf)
    BY <2>1, <2>4, <2>5 DEF LoopShape, Places
  <2>8. Bounded(ToSet(failed.calls), Len(agent.messages) + 2)
    BY <2>2 DEF Bounded
  <2>9. \A c \in ToSet(failed.calls) : << >>[c].phase = "new"
    BY <2>2
  <2> QED
    BY <1>1, <1>5, <2>1, <2>2, <2>3, <2>6, <2>7, <2>8, <2>9, AnswerKeeps
<1> QED
  BY <1>2, <1>3, <1>4, <1>5

\* _preflight_assistant_tool_batch: the ids of a batch are different, and new.
LEMMA PreflightFacts ==
  ASSUME NEW M, LogOK(M), loop.ctx = M, NEW raw \in Seq(0 .. IdWidth), Len(raw) <= IdWidth,
         NEW p, p = Preflight(raw)
  PROVE  /\ p \in Seq(Nat) /\ IsInjective(p)
         /\ ToSet(p) \cap (CallIds(M) \cup {0}) = {}
         /\ Bounded(ToSet(p), Len(M) + 2)
<1> DEFINE n == Len(raw)
           m == Len(M)
           w == (IdWidth + 1) * (m + 1)
           Replaced(i) == \/ raw[i] = 0 \/ raw[i] \in CallIds(M)
                          \/ \E j \in 1 .. i - 1 : raw[j] = raw[i]
<1>1. n \in Nat /\ m \in Nat /\ DOMAIN raw = 1 .. n /\ IdWidth \in Nat /\ n <= IdWidth
  BY AgentAssumption DEF LogOK
<1>2. /\ w \in Nat /\ IdWidth + 1 <= w /\ (IdWidth + 1) * (m + 2) = w + IdWidth + 1
  <2>1. (IdWidth + 1) * 1 \in Nat /\ (IdWidth + 1) * (1 + m) \in Nat
        /\ (IdWidth + 1) * 1 <= (IdWidth + 1) * (1 + m)
    BY <1>1, WidthGrows
  <2>2. (IdWidth + 1) * 1 = IdWidth + 1 /\ 1 + m = m + 1
    BY <1>1
  <2>3. m + 1 \in Nat /\ (m + 1) + 1 = m + 2
    BY <1>1
  <2>4. (IdWidth + 1) * ((m + 1) + 1) = (IdWidth + 1) * (m + 1) + IdWidth + 1
    BY <2>3, WidthGrows
  <2> QED
    BY <2>1, <2>2, <2>3, <2>4
<1>3. \A i \in 1 .. n : FreshId(i) = w + i
  BY DEF FreshId
<1>4. DOMAIN p = 1 .. n /\ \A i \in 1 .. n : p[i] = IF Replaced(i) THEN w + i ELSE raw[i]
  BY <1>1, <1>3 DEF Preflight
<1>5. \A i \in 1 .. n : raw[i] \in Nat /\ raw[i] <= IdWidth
  BY <1>1
<1>6. \A c \in CallIds(M) : c \in Nat /\ c < w
  <2>1. M \in Seq(Messages) /\ Bounded(CallIds(M), m + 1)
    BY DEF LogOK
  <2> QED
    BY <2>1, IdsTyped DEF Bounded
<1>7. \A c \in CallIds(M) : c # 0 \/ c = 0
  OBVIOUS
<1> HIDE DEF w, n, m, Replaced
<1>8. \A i \in 1 .. n : w + i \in Nat /\ w + i > w /\ w + i < w + IdWidth + 1
  BY <1>1, <1>2
<1>9. \A i \in 1 .. n : p[i] \in Nat
  BY <1>4, <1>5, <1>8
<1>10. p \in Seq(Nat) /\ Len(p) = n
  <2>1. p = [i \in 1 .. n |-> p[i]]
    BY <1>1 DEF Preflight
  <2>2. p \in [1 .. n -> Nat]
    BY <1>9, <2>1
  <2> QED
    BY <1>1, <2>2
<1>11. ASSUME NEW i \in 1 .. n, NEW j \in 1 .. n, p[i] = p[j], i < j PROVE FALSE
  <2>1. CASE Replaced(i) /\ Replaced(j)
    <3>1. w + i = w + j
      BY <1>4, <1>11, <2>1
    <3> QED
      BY <1>1, <1>2, <1>11, <3>1
  <2>2. CASE Replaced(i) /\ ~Replaced(j)
    <3>1. w + i = raw[j]
      BY <1>4, <1>11, <2>2
    <3> QED
      BY <1>1, <1>2, <1>5, <1>8, <3>1
  <2>3. CASE ~Replaced(i) /\ Replaced(j)
    <3>1. w + j = raw[i]
      BY <1>4, <1>11, <2>3
    <3> QED
      BY <1>1, <1>2, <1>5, <1>8, <3>1
  <2>4. CASE ~Replaced(i) /\ ~Replaced(j)
    <3>1. raw[i] = raw[j]
      BY <1>4, <1>11, <2>4
    <3>2. i \in 1 .. j - 1
      BY <1>1, <1>11
    <3> QED
      BY <2>4, <3>1, <3>2 DEF Replaced
  <2> QED
    BY <2>1, <2>2, <2>3, <2>4
<1>12. IsInjective(p)
  <2> SUFFICES ASSUME NEW i \in 1 .. n, NEW j \in 1 .. n, p[i] = p[j] PROVE i = j
    BY <1>4 DEF IsInjective
  <2>1. i < j \/ j < i \/ i = j
    BY <1>1
  <2> QED
    BY <1>11, <2>1
<1>13. \A i \in 1 .. n : p[i] \notin CallIds(M) \cup {0}
  <2> SUFFICES ASSUME NEW i \in 1 .. n PROVE p[i] \notin CallIds(M) \cup {0}
    OBVIOUS
  <2>1. CASE Replaced(i)
    BY <1>2, <1>4, <1>6, <1>8, <2>1
  <2>2. CASE ~Replaced(i)
    BY <1>4, <2>2 DEF Replaced
  <2> QED
    BY <2>1, <2>2
<1>14. \A i \in 1 .. n : p[i] < w + IdWidth + 1
  <2> SUFFICES ASSUME NEW i \in 1 .. n PROVE p[i] < w + IdWidth + 1
    OBVIOUS
  <2>1. CASE Replaced(i)
    BY <1>4, <1>8, <2>1
  <2>2. CASE ~Replaced(i)
    <3>1. p[i] = raw[i]
      BY <1>4, <2>2
    <3> QED
      BY <1>1, <1>2, <1>5, <3>1
  <2> QED
    BY <2>1, <2>2
<1>15. ToSet(p) \cap (CallIds(M) \cup {0}) = {}
  BY <1>4, <1>13 DEF ToSet
<1>16. Bounded(ToSet(p), Len(M) + 2)
  <2>1. \A c \in ToSet(p) : c < w + IdWidth + 1
    BY <1>4, <1>14 DEF ToSet
  <2> QED
    BY <1>2, <2>1 DEF Bounded, m
<1> QED
  BY <1>10, <1>12, <1>15, <1>16

LEMMA RepliesKeep ==
  ASSUME AInv, NEW raw \in dep.batches, NEW stop \in Stops, NEW denied \in BOOLEAN,
         ModelReplies(raw, stop, denied)
  PROVE  AInv'
<1> USE LoopFacts
<1> DEFINE calls == Sanitized(Preflight(raw), stop)
           reply == AssistantMessage(calls, stop)
           rec == [phase |-> "new", kind |-> "none", tries |-> 0]
           f == [c \in ToSet(calls) |-> rec]
           refused == denied \/ (calls # << >> /\ calls # raw)
           l == [loop EXCEPT !.pc = "reply", !.reply = reply, !.given = << >>,
                             !.ctx = Append(@, reply), !.refused = refused, !.call = f]
           M == agent.messages
<1>1. loop.pc = "model" /\ Alone /\ UNCHANGED <<agent, token, lost>> /\ loop' = l
  BY DEF ModelReplies, At
<1>2. loop.ctx = M
  BY <1>1 DEF PlaceOK
<1>3. raw \in Seq(0 .. IdWidth) /\ Len(raw) <= IdWidth
  BY AgentAssumption
<1>4. /\ calls \in Seq(Nat) /\ IsInjective(calls) /\ ToSet(calls) \cap (CallIds(M) \cup {0}) = {}
      /\ Bounded(ToSet(calls), Len(M) + 2)
  <2>1. CASE calls = << >>
    BY <2>1, EmptySets, EmptyBounded
  <2>2. CASE calls = Preflight(raw)
    BY <1>2, <1>3, <2>2, PreflightFacts
  <2> QED
    BY <2>1, <2>2 DEF Sanitized
<1>5. rec \in CallRecords /\ rec.phase = "new"
  BY DEF CallRecords
<1>6. refused \in BOOLEAN
  OBVIOUS
<1> HIDE DEF calls, rec
<1>7. f \in [ToSet(calls) -> CallRecords] /\ \A c \in ToSet(calls) : f[c].phase = "new"
  BY <1>5
<1>8. reply \in Assistants /\ reply.calls = calls
  BY <1>4 DEF AssistantMessage, Assistants
<1>9. reply \in Messages /\ Append(loop.ctx, reply) \in Seq(Messages)
  BY <1>8 DEF Messages, LoopShape
<1>10. l = [loop EXCEPT !.pc = "reply", !.reply = reply, !.given = << >>,
                        !.ctx = Append(@, reply), !.refused = refused, !.call = f]
  OBVIOUS
<1> HIDE DEF l, f, reply, refused
<1>11. /\ l.pc = "reply" /\ l.reply = reply /\ l.ctx = Append(loop.ctx, reply) /\ l.call = f
       /\ l.pend = loop.pend /\ l.index = loop.index
       /\ l.turns = loop.turns /\ l.used = loop.used /\ l.attempts = loop.attempts /\ l.first = loop.first
  BY <1>10 DEF LoopShape
<1>12. LoopShape(l)
  <2> DEFINE ctx == Append(loop.ctx, reply)
  <2>1. ctx \in Seq(Messages) /\ "reply" \in Places
    BY <1>9 DEF Places
  <2>2. l = [loop EXCEPT !.pc = "reply", !.reply = reply, !.given = << >>,
                         !.ctx = ctx, !.refused = refused, !.call = f]
    BY <1>10
  <2> HIDE DEF ctx
  <2>3. LoopShape([loop EXCEPT !.refused = refused])
    BY <1>6 DEF LoopShape
  <2> DEFINE k == [loop EXCEPT !.refused = refused]
  <2>4. l = [k EXCEPT !.pc = "reply", !.reply = reply, !.given = << >>, !.ctx = ctx, !.call = f]
    BY <2>2 DEF LoopShape
  <2>5. LoopShape(k)
    BY <2>3
  <2> HIDE DEF k
  <2> QED
    BY <1>8, <2>1, <2>4, <2>5 DEF LoopShape
<1> QED
  BY <1>1, <1>4, <1>7, <1>8, <1>11, <1>12, AnswerKeeps

-----------------------------------------------------------------------------
(* The invariant *)

LEMMA InitAInv ==
  ASSUME Init
  PROVE  AInv
<1>1. Open(<< >>) = {} /\ << >> \in Seq(Messages)
  BY OpenEmpty
<1>2. LogOK(<< >>)
  <2>1. DOMAIN << >> = {}
    OBVIOUS
  <2> QED
    BY <1>1, <2>1 DEF LogOK, CallIds, Bounded
<1>3. QueuesOK(<< >>, << >>, << >>, << >>, {}, {})
  <2>1. SaidBy(<< >>) = {} /\ SaidOnce(<< >>)
    BY DEF SaidBy, SaidOnce, Said
  <2>2. MessagesOf({} \ {}) = {}
    BY DEF MessagesOf
  <2> QED
    BY <2>1, <2>2, EmptySets DEF QueuesOK, Apart
<1>4. AInvAt(dep, agent, << >>, << >>, IdleLoop, {}, {}, {})
  BY <1>1, <1>2, <1>3, IdleState DEF Init
<1> QED
  BY <1>4 DEF Init, AInv

LEMMA TurnKeeps ==
  ASSUME AInv, Turn
  PROVE  AInv'
<1>1. CASE AgentStart \/ FirstTurn \/ DenyBudget \/ EndTurn \/ TurnBudget \/ FailStart \/ FailTurn
  BY <1>1, GoingKeeps
<1>2. CASE EmitPrompt \/ Inject
  BY <1>2, InjectKeeps
<1>3. CASE PollSteering
  BY <1>3, PollKeeps
<1>4. CASE BeginTurn
  BY <1>4, BeginTurnKeeps
<1>5. CASE RequestModel
  BY <1>5, RequestKeeps
<1>6. CASE ForwardStreamEvent
  BY <1>6, ForwardKeeps
<1>7. CASE Overflow
  BY <1>7, OverflowKeeps
<1>8. CASE \E raw \in dep.batches, stop \in Stops, denied \in BOOLEAN : ModelReplies(raw, stop, denied)
  BY <1>8, RepliesKeep
<1>9. CASE CommitReply
  BY <1>9, CommitReplyKeeps
<1>10. CASE RefuseStart
  BY <1>10, NotingKeeps
<1>11. CASE RefuseEnd
  BY <1>11, EndingKeeps
<1>12. CASE RefuseResult \/ EmitResult
  BY <1>12, ResultsKeep
<1>13. CASE KeepResults
  BY <1>13, KeepResultsKeeps
<1>14. CASE StopAfterTurn
  BY <1>14, GuardDoneKeeps
<1>15. CASE NextTurn
  BY <1>15, NextTurnKeeps
<1>16. CASE AgentEnd \/ FailEnd
  BY <1>16, EndKeeps
<1>17. CASE RepairTranscript
  BY <1>17, RepairKeeps
<1>18. CASE FailMessage
  BY <1>18, FailMessageKeeps
<1>19. CASE RouterTurn
  BY <1>19, RouterKeeps DEF RouterStep
<1> QED
  BY <1>1, <1>2, <1>3, <1>4, <1>5, <1>6, <1>7, <1>8, <1>9, <1>10, <1>11, <1>12, <1>13, <1>14,
     <1>15, <1>16, <1>17, <1>18, <1>19 DEF Turn, RouterTurn

LEMMA ToolsKeep ==
  ASSUME AInv, Tools
  PROVE  AInv'
<1>1. CASE GuardStart
  BY <1>1, NotingKeeps
<1>2. CASE GuardBlocks
  BY <1>2, EndingKeeps
<1>3. CASE GuardPasses
  BY <1>3, GuardPassesKeeps
<1>4. CASE GuardDone
  BY <1>4, GuardDoneKeeps
<1>5. CASE \E terminate \in BOOLEAN : GatherCalls(terminate)
  BY <1>5, GatherKeeps
<1>6. ASSUME NEW c \in DOMAIN loop.call, Dispatch(c) PROVE AInv'
  BY <1>6, DispatchKeeps
<1>7. ASSUME NEW c \in DOMAIN loop.call, Retry(c) PROVE AInv'
  BY <1>7, RetryKeeps
<1>8. ASSUME NEW c \in DOMAIN loop.call, ScheduleRetry(c) \/ CallCancelled(c) PROVE AInv'
  BY <1>8, NotingKeeps
<1>9. ASSUME NEW c \in DOMAIN loop.call, EndCall(c) PROVE AInv'
  BY <1>9, EndingKeeps
<1>10. ASSUME NEW c \in DOMAIN loop.call, NEW kind \in {"done", "failed"}, HandlerReturns(c, kind) PROVE AInv'
  BY <1>10, NotingKeeps
<1> QED
  BY <1>1, <1>2, <1>3, <1>4, <1>5, <1>6, <1>7, <1>8, <1>9, <1>10 DEF Tools

LEMMA EnvironmentKeeps ==
  ASSUME AInv, Environment
  PROVE  AInv'
<1>1. ASSUME NEW u \in Users, Prompt(u) PROVE AInv'
  BY <1>1, PromptKeeps
<1>2. ASSUME NEW u \in Users, RoutedPrompt(u) PROVE AInv'
  BY <1>2, RoutedPromptKeeps
<1>3. ASSUME NEW u \in Users, Steer(u) \/ FollowUp(u) PROVE AInv'
  BY <1>3, QueueingKeeps
<1>4. CASE ContinueRun
  BY <1>4, ContinueKeeps
<1>5. CASE Reset
  BY <1>5, ResetKeeps
<1>6. CASE \/ Abort \/ Restart
           \/ \E kind \in {"error", "cancel"} : Interrupted(kind)
  BY <1>6, OutsideKeeps
<1>7. CASE Approval
  BY <1>7, RouterKeeps DEF RouterStep
<1> QED
  BY <1>1, <1>2, <1>3, <1>4, <1>5, <1>6, <1>7 DEF Environment, Approval

LEMMA AgentInvariance == Spec => []AInv
<1>1. Init => AInv
  BY InitAInv
<1>2. AInv /\ [Next]_vars => AInv'
  <2> SUFFICES ASSUME AInv, [Next]_vars PROVE AInv'
    OBVIOUS
  <2>1. CASE Next
    BY <2>1, TurnKeeps, ToolsKeep, EnvironmentKeeps DEF Next
  <2>2. CASE UNCHANGED vars
    BY <2>2 DEF vars, AInv
  <2> QED
    BY <2>1, <2>2
<1> QED
  BY <1>1, <1>2, PTL DEF Spec

-----------------------------------------------------------------------------
(* What follows from the invariant *)

LEMMA ConcatInjective ==
  ASSUME NEW S, NEW a \in Seq(S), NEW b \in Seq(S), IsInjective(a), IsInjective(b), ToSet(a) \cap ToSet(b) = {}
  PROVE  a \o b \in Seq(S) /\ IsInjective(a \o b) /\ ToSet(a \o b) = ToSet(a) \cup ToSet(b)
<1> DEFINE c == a \o b
           m == Len(a)
           n == Len(b)
<1>1. /\ m \in Nat /\ n \in Nat /\ DOMAIN a = 1 .. m /\ DOMAIN b = 1 .. n
      /\ c \in Seq(S) /\ DOMAIN c = 1 .. m + n
      /\ \A i \in 1 .. m : c[i] = a[i]
      /\ \A i \in 1 .. m + n : i > m => c[i] = b[i - m]
  OBVIOUS
<1> HIDE DEF c, m, n
<1>2. \A i \in 1 .. m + n : i \in 1 .. m \/ (i > m /\ i - m \in 1 .. n)
  BY <1>1
<1>3. \A i \in 1 .. m : i \in 1 .. m + n
  BY <1>1
<1>4. \A i \in 1 .. n : m + i \in 1 .. m + n /\ m + i > m /\ (m + i) - m = i
  BY <1>1
<1>5. \A i \in 1 .. n : c[m + i] = b[i]
  <2> SUFFICES ASSUME NEW i \in 1 .. n PROVE c[m + i] = b[i]
    OBVIOUS
  <2>1. m + i \in 1 .. m + n /\ m + i > m /\ (m + i) - m = i
    BY <1>4
  <2> QED
    BY <1>1, <2>1
<1>6. \A i \in 1 .. m + n : c[i] \in ToSet(a) \cup ToSet(b)
  BY <1>1, <1>2 DEF ToSet
<1>7. \A x \in ToSet(a) \cup ToSet(b) : \E i \in 1 .. m + n : c[i] = x
  BY <1>1, <1>3, <1>4, <1>5 DEF ToSet
<1>8. ToSet(c) = ToSet(a) \cup ToSet(b)
  <2>1. \A x \in ToSet(c) : \E i \in 1 .. m + n : c[i] = x
    BY <1>1 DEF ToSet
  <2>2. \A i \in 1 .. m + n : c[i] \in ToSet(c)
    BY <1>1 DEF ToSet
  <2> QED
    BY <1>6, <1>7, <2>1, <2>2
<1>9. \A i \in 1 .. m, j \in 1 .. n : a[i] # b[j]
  BY <1>1 DEF ToSet
<1>10. IsInjective(c)
  <2> SUFFICES ASSUME NEW i \in 1 .. m + n, NEW j \in 1 .. m + n, c[i] = c[j] PROVE i = j
    BY <1>1 DEF IsInjective
  <2>1. CASE i \in 1 .. m /\ j \in 1 .. m
    BY <1>1, <2>1 DEF IsInjective
  <2>2. CASE i \in 1 .. m /\ j > m
    BY <1>1, <1>2, <1>9, <2>2
  <2>3. CASE i > m /\ j \in 1 .. m
    BY <1>1, <1>2, <1>9, <2>3
  <2>4. CASE i > m /\ j > m
    <3>1. i - m \in 1 .. n /\ j - m \in 1 .. n /\ b[i - m] = b[j - m]
      BY <1>1, <1>2, <2>4
    <3>2. i - m = j - m
      BY <1>1, <3>1 DEF IsInjective
    <3> QED
      BY <1>1, <3>2
  <2> QED
    BY <1>2, <2>1, <2>2, <2>3, <2>4
<1> QED
  BY <1>1, <1>8, <1>10 DEF c

LEMMA QueuedOnce ==
  ASSUME AInv, NEW u \in sent
  PROVE  /\ Occurrences(u) <= 1
         /\ u \notin lost => Occurrences(u) = 1
<1> USE LoopFacts
<1> DEFINE M == agent.messages
           W == Waiting
           m == UserMessage(u)
           A == {i \in DOMAIN W : W[i].id = u}
           B == {i \in DOMAIN M : M[i] = m}
<1>1. /\ steering \in Seq(UserMessages) /\ followUp \in Seq(UserMessages) /\ loop.pend \in Seq(UserMessages)
      /\ IsInjective(steering) /\ IsInjective(followUp) /\ IsInjective(loop.pend)
      /\ Apart(ToSet(steering), ToSet(followUp), ToSet(loop.pend), SaidBy(M))
      /\ SaidOnce(M)
      /\ MessagesOf(sent \ lost) \subseteq ToSet(steering) \cup ToSet(followUp) \cup ToSet(loop.pend) \cup SaidBy(M)
  BY DEF QueuesOK, LoopShape
<1> DEFINE sf == steering \o followUp
<1>2. sf \in Seq(UserMessages) /\ IsInjective(sf) /\ ToSet(sf) = ToSet(steering) \cup ToSet(followUp)
  BY <1>1, ConcatInjective DEF Apart
<1>3. ToSet(sf) \cap ToSet(loop.pend) = {}
  BY <1>1, <1>2 DEF Apart
<1> HIDE DEF sf
<1>4. W = sf \o loop.pend
  BY DEF Waiting, sf
<1>5. /\ W \in Seq(UserMessages) /\ IsInjective(W)
      /\ ToSet(W) = ToSet(steering) \cup ToSet(followUp) \cup ToSet(loop.pend)
  BY <1>1, <1>2, <1>3, <1>4, ConcatInjective
<1>6. ToSet(W) \cap SaidBy(M) = {}
  BY <1>1, <1>5 DEF Apart
<1> HIDE DEF W
<1>7. \A i \in DOMAIN W : W[i] \in UserMessages
  BY <1>5
<1>8. \A x \in UserMessages : x.id = u <=> x = m
  BY DEF UserMessages, UserMessage
<1>9. \A i \in DOMAIN W : W[i].id = u <=> W[i] = m
  BY <1>7, <1>8
<1>10. \A i \in DOMAIN W, j \in DOMAIN W : W[i].id = u /\ W[j].id = u => i = j
  BY <1>5, <1>9 DEF IsInjective
<1>11. m.role = "user"
  BY DEF UserMessage
<1> HIDE DEF m
<1>12. \A i \in DOMAIN M, j \in DOMAIN M : M[i] = m /\ M[j] = m => i = j
  BY <1>1, <1>11 DEF SaidOnce, Said
<1>13. /\ m \in ToSet(W) => Cardinality(A) = 1
       /\ m \notin ToSet(W) => Cardinality(A) = 0
  <2>1. m \in ToSet(W) => \E i \in DOMAIN W : W[i].id = u
    BY <1>9 DEF ToSet
  <2>2. m \notin ToSet(W) => \A i \in DOMAIN W : ~(W[i].id = u)
    BY <1>9 DEF ToSet
  <2>3. ASSUME NEW k \in DOMAIN W, W[k].id = u PROVE Cardinality(A) = 1
    <3>1. A = {k}
      BY <1>10, <2>3
    <3> QED
      BY <3>1, FS_Singleton
  <2>4. ASSUME \A i \in DOMAIN W : ~(W[i].id = u) PROVE Cardinality(A) = 0
    <3>1. A = {}
      BY <2>4
    <3> QED
      BY <3>1, FS_EmptySet
  <2> QED
    BY <2>1, <2>2, <2>3, <2>4
<1>14. /\ m \in SaidBy(M) => Cardinality(B) = 1
       /\ m \notin SaidBy(M) => Cardinality(B) = 0
  <2>1. m \in SaidBy(M) => \E i \in DOMAIN M : M[i] = m
    BY DEF SaidBy, Said
  <2>2. m \notin SaidBy(M) => \A i \in DOMAIN M : M[i] # m
    BY <1>11 DEF SaidBy, Said
  <2>3. ASSUME NEW k \in DOMAIN M, M[k] = m PROVE Cardinality(B) = 1
    <3>1. B = {k}
      BY <1>12, <2>3
    <3> QED
      BY <3>1, FS_Singleton
  <2>4. ASSUME \A i \in DOMAIN M : M[i] # m PROVE Cardinality(B) = 0
    <3>1. B = {}
      BY <2>4
    <3> QED
      BY <3>1, FS_EmptySet
  <2> QED
    BY <2>1, <2>2, <2>3, <2>4
<1>15. u \notin lost => m \in ToSet(W) \cup SaidBy(M)
  BY <1>1, <1>5 DEF MessagesOf, m
<1>16. Occurrences(u) = Cardinality(A) + Cardinality(B)
  BY DEF Occurrences, W, m
<1> HIDE DEF A, B
<1> QED
  BY <1>6, <1>13, <1>14, <1>15, <1>16

\* agent.py:_PendingMessageQueue, loop.py: whatever steer(), follow_up(), failures and cleanups
\* interleave, no user message is delivered twice, and one that nothing discarded is in a queue,
\* about to be injected, or in the conversation.
THEOREM MessagesOnceHolds == Spec => []MessagesOnce
<1>1. AInv => MessagesOnce
  BY QueuedOnce DEF MessagesOnce
<1> QED
  BY <1>1, AgentInvariance, PTL

\* agent.py:_materialize_staged_tool_results: a result that tool_execution_end announced is in the
\* transcript when the Agent is idle again, however the run ended.
THEOREM CommittedResultKeptHolds == Spec => []CommittedResultKept
<1>1. ASSUME AInv PROVE CommittedResultKept
  <2> SUFFICES ASSUME loop.pc = "idle", NEW t \in told
               PROVE  \E i \in DOMAIN agent.messages : agent.messages[i] = ToolResult(t[1], t[2])
    BY DEF CommittedResultKept, Idle
  <2>1. Heard(agent.messages, t)
    BY <1>1, BetweenRuns, IdleRests
  <2> QED
    BY <2>1 DEF Heard
<1> QED
  BY <1>1, AgentInvariance, PTL

\* loop.py:_RunBudgetState: the attempts of the Tool Calls of a run, retries of parallel calls
\* included, and its Turns stay within max_tool_calls and max_turns.
THEOREM WithinBudgetHolds == Spec => []WithinBudget
<1>1. ASSUME AInv PROVE WithinBudget
  <2>1. /\ loop.attempts \in Nat /\ loop.used \in Nat /\ loop.turns \in Nat
        /\ loop.turns <= dep.turns /\ loop.used <= dep.tools /\ loop.attempts <= loop.used
    BY <1>1, LoopFacts DEF LoopShape, BudgetOK
  <2>2. dep.tools \in Nat
    BY <1>1, LoopFacts, AgentAssumption
  <2> QED
    BY <2>1, <2>2 DEF WithinBudget
<1> QED
  BY <1>1, AgentInvariance, PTL

-----------------------------------------------------------------------------
(* The transcript protocol: its steps, in the names of this module *)

Says(M, L) ==
    /\ Open(M) = {}
    /\ \E m \in Messages :
          /\ m.role # "result" /\ L = Append(M, m) /\ IsInjective(CallsOf(m))
          /\ ToSet(CallsOf(m)) \cap (CallIds(M) \cup {0}) = {}
Answers(M, L) ==
    \E s \in Seq(Results) :
        /\ s # << >> /\ L = M \o s
        /\ \A i \in DOMAIN s : s[i].call \in Open(M)
        /\ \A i \in DOMAIN s, j \in DOMAIN s : s[i].call = s[j].call => i = j
Talks(M, L) == L = M \/ Says(M, L) \/ Answers(M, L) \/ (Open(M) = {} /\ L = << >>)

LEMMA SameCounting == \A S : Conversation!Cardinality(S) = Cardinality(S)
<1> SUFFICES ASSUME NEW S PROVE Conversation!Cardinality(S) = Cardinality(S)
  OBVIOUS
<1> QED
  BY DEF Conversation!Cardinality, Cardinality

\* The operators of the instance are those of Transcript.
LEMMA SamePending ==
  ASSUME NEW M
  PROVE  Conversation!Pending(M) = Pending(M)
  BY DEF Conversation!Pending, Pending, Conversation!Unanswered, Unanswered, Conversation!CallsOf,
         CallsOf, Conversation!AnsweredAfter, AnsweredAfter
LEMMA SameNames ==
  ASSUME NEW s
  PROVE  /\ Conversation!CallIds(s) = CallIds(s) /\ Conversation!CallsOf(s) = CallsOf(s)
         /\ Conversation!ToSet(s) = ToSet(s) /\ Conversation!Last(s) = Last(s)
         /\ (Conversation!IsInjective(s) <=> IsInjective(s)) /\ Conversation!Kinds = Kinds
  BY DEF Conversation!CallIds, CallIds, Conversation!CallsOf, CallsOf, Conversation!ToSet, ToSet,
         Conversation!IsInjective, IsInjective, Conversation!Last, Last, Conversation!Kinds, Kinds
LEMMA SameOrders ==
  ASSUME NEW s, NEW t
  PROVE  /\ Conversation!SetToSeqs(s) = SetToSeqs(s)
         /\ (Conversation!IsPrefix(s, t) <=> IsPrefix(s, t))
         /\ Conversation!ToolResult(s, t) = ToolResult(s, t)
  BY SameCounting DEF Conversation!SetToSeqs, SetToSeqs, Conversation!IsPrefix, IsPrefix,
                      Conversation!ToolResult, ToolResult

\* A sequence without repetition is one of the orders of its elements.
LEMMA OrderOf ==
  ASSUME NEW S, NEW n \in Nat, NEW f \in [1 .. n -> S], \A x \in S : \E i \in 1 .. n : f[i] = x,
         \A i \in 1 .. n, j \in 1 .. n : f[i] = f[j] => i = j
  PROVE  f \in SetToSeqs(S)
<1>1. IsInjective(f) /\ DOMAIN f = 1 .. n
  BY DEF IsInjective
<1>2. f \in Bijection(1 .. n, S)
  BY <1>1 DEF Bijection, Injection, Surjection
<1>3. ExistsBijection(1 .. n, S)
  BY <1>2 DEF ExistsBijection
<1>4. Cardinality(S) = n
  BY <1>3, FS_CountingElements
<1> QED
  BY <1>4 DEF SetToSeqs

LEMMA SayStep ==
  ASSUME agent.messages \in Seq(Messages), Says(agent.messages, agent'.messages)
  PROVE  Conversation!Say
<1> DEFINE M == agent.messages
           L == agent'.messages
<1>1. PICK m \in Messages :
          /\ m.role # "result" /\ L = Append(M, m) /\ IsInjective(CallsOf(m))
          /\ ToSet(CallsOf(m)) \cap (CallIds(M) \cup {0}) = {}
  BY DEF Says
<1>2. Pending(M) = << >>
  BY OpenTyped DEF Says
<1>3. m.role \in {"user", "assistant"}
  BY <1>1, CallsTyped
<1>4. M \in Seq(Messages)
  OBVIOUS
<1> HIDE DEF M, L
<1>5. Len(L) = Len(M) + 1 /\ L[Len(M) + 1] = m /\ Len(M) \in Nat
  BY <1>1, <1>4
<1>6. Last(L) = m
  BY <1>5 DEF Last
<1>7. IsPrefix(M, L)
  <2>1. SubSeq(L, 1, Len(M)) = M
    BY <1>1, <1>4
  <2>2. SubSeq(M, 1, Len(M)) = M
    BY <1>4
  <2> QED
    BY <1>5, <2>1, <2>2 DEF IsPrefix
<1>8. /\ Conversation!Pending(M) = << >> /\ Len(L) = Len(M) + 1 /\ Conversation!IsPrefix(M, L)
      /\ Conversation!Last(L) = m /\ Conversation!CallsOf(m) = CallsOf(m)
      /\ Conversation!IsInjective(CallsOf(m))
      /\ Conversation!ToSet(CallsOf(m)) \cap (Conversation!CallIds(M) \cup {0}) = {}
  BY <1>1, <1>2, <1>5, <1>6, <1>7, SamePending, SameNames, SameOrders
<1> QED
  BY <1>3, <1>8 DEF Conversation!Say, M, L

LEMMA AnswerStep ==
  ASSUME agent.messages \in Seq(Messages), Answers(agent.messages, agent'.messages)
  PROVE  Conversation!Answer
<1> DEFINE M == agent.messages
           L == agent'.messages
<1>1. PICK s \in Seq(Results) :
        /\ s # << >> /\ L = M \o s
        /\ \A i \in DOMAIN s : s[i].call \in Open(M)
        /\ \A i \in DOMAIN s, j \in DOMAIN s : s[i].call = s[j].call => i = j
  BY DEF Answers
<1> DEFINE n == Len(s)
           order == [i \in 1 .. n |-> s[i].call]
           kind == [i \in 1 .. n |-> s[i].kind]
           S == {s[i].call : i \in 1 .. n}
           r == [i \in 1 .. n |-> ToolResult(order[i], kind[i])]
<1>2. n \in Nat /\ n # 0 /\ DOMAIN s = 1 .. n /\ \A i \in 1 .. n : s[i] \in Results
  BY <1>1
<1>3. S \subseteq ToSet(Pending(M))
  BY <1>1, <1>2 DEF Open
<1>4. order \in SetToSeqs(S)
  <2>1. order \in [1 .. n -> S]
    BY <1>2
  <2>2. \A x \in S : \E i \in 1 .. n : order[i] = x
    OBVIOUS
  <2>3. \A i \in 1 .. n, j \in 1 .. n : order[i] = order[j] => i = j
    BY <1>1, <1>2
  <2> HIDE DEF order, S
  <2> QED
    BY <1>2, <2>1, <2>2, <2>3, OrderOf
<1>5. DOMAIN order = 1 .. n /\ kind \in [1 .. n -> Kinds]
  BY <1>2 DEF Results
<1>6. order # << >>
  BY <1>2
<1>7. r = s
  <2>1. \A i \in 1 .. n : ToolResult(order[i], kind[i]) = s[i]
    BY <1>2 DEF ToolResult, Results
  <2>2. s = [i \in 1 .. n |-> s[i]]
    BY <1>1, <1>2
  <2> QED
    BY <2>1, <2>2
<1>8. r = [i \in DOMAIN order |-> ToolResult(order[i], kind[i])]
  BY <1>5
<1>9. L = M \o [i \in DOMAIN order |-> Conversation!ToolResult(order[i], kind[i])]
  <2>1. \A i \in DOMAIN order : Conversation!ToolResult(order[i], kind[i]) = ToolResult(order[i], kind[i])
    BY SameOrders
  <2> QED
    BY <1>1, <1>7, <1>8, <2>1
<1>10. S \in SUBSET Conversation!ToSet(Conversation!Pending(M)) /\ order \in Conversation!SetToSeqs(S)
  BY <1>3, <1>4, SamePending, SameNames, SameOrders
<1>11. kind \in [DOMAIN order -> Conversation!Kinds]
  BY <1>5, SameNames
<1> HIDE DEF order, kind, S
<1>12. order \in UNION {Conversation!SetToSeqs(U) : U \in SUBSET Conversation!ToSet(Conversation!Pending(M))}
  BY <1>10
<1> QED
  BY <1>6, <1>9, <1>11, <1>12 DEF Conversation!Answer

LEMMA TalkStep ==
  ASSUME agent.messages \in Seq(Messages), Talks(agent.messages, agent'.messages)
  PROVE  [Conversation!ProtocolNext]_(agent.messages)
<1>1. CASE agent'.messages = agent.messages
  BY <1>1
<1>2. CASE Says(agent.messages, agent'.messages)
  BY <1>2, SayStep DEF Conversation!ProtocolNext
<1>3. CASE Answers(agent.messages, agent'.messages)
  BY <1>3, AnswerStep DEF Conversation!ProtocolNext
<1>4. CASE Open(agent.messages) = {} /\ agent'.messages = << >>
  <2>1. Pending(agent.messages) = << >>
    BY <1>4, OpenTyped
  <2>2. Conversation!Clear
    BY <1>4, <2>1, SamePending DEF Conversation!Clear
  <2> QED
    BY <2>2 DEF Conversation!ProtocolNext
<1> QED
  BY <1>1, <1>2, <1>3, <1>4 DEF Talks

-----------------------------------------------------------------------------
(* What each step does to the conversation *)

LEMMA RaiseTalks ==
  ASSUME NEW kind, NEW a, Raise(kind, a)
  PROVE  agent'.messages = a.messages
  BY DEF Raise, Settled, IdleAgent

LEMMA EmitTalks ==
  ASSUME NEW e, NEW a, NEW l, Emit(e, a, l)
  PROVE  agent'.messages = a.messages
<1>1. (\E kind : Raise(kind, a)) \/ agent' = a
  BY DEF Emit
<1> QED
  BY <1>1, RaiseTalks

LEMMA EndTalks ==
  ASSUME AInv, NEW c, NEW kind, NEW code, NEW l, EmitToolEnd(c, kind, code, l)
  PROVE  agent'.messages = agent.messages
<1> DEFINE a == [agent EXCEPT !.staged = @ \cup {ToolResult(c, kind)}]
<1>1. (\E k : Raise(k, a)) \/ agent' = a
  BY DEF EmitToolEnd
<1>2. a.messages = agent.messages
  BY LoopFacts DEF Agents
<1> HIDE DEF a
<1> QED
  BY <1>1, <1>2, RaiseTalks

LEMMA MessageTalks ==
  ASSUME AInv, NEW m, NEW e, NEW l, EmitMessage(m, e, l)
  PROVE  agent'.messages \in {agent.messages, Append(agent.messages, m)}
<1> DEFINE appended == [agent EXCEPT !.messages = Append(@, m)]
           done == IF m.role = "result"
                   THEN [appended EXCEPT !.staged = {r \in @ : r.call # m.call}] ELSE appended
<1>1. \/ \E kind : Raise(kind, appended) \/ Raise(kind, agent)
      \/ agent' = done
  BY DEF EmitMessage
<1>2. appended.messages = Append(agent.messages, m) /\ done.messages = appended.messages
  BY LoopFacts DEF Agents
<1> HIDE DEF appended, done
<1> QED
  BY <1>1, <1>2, RaiseTalks

\* A message without Tool Calls that is said while nothing is pending.
LEMMA PlainTalks ==
  ASSUME NEW M \in Seq(Messages), Open(M) = {}, NEW m \in Messages, m.role # "result", CallsOf(m) = << >>,
         NEW L, L \in {M, Append(M, m)}
  PROVE  Talks(M, L)
<1>1. IsInjective(CallsOf(m)) /\ ToSet(CallsOf(m)) = {}
  BY EmptySets
<1> QED
  BY <1>1 DEF Talks, Says

LEMMA InjectTalks ==
  ASSUME AInv, EmitPrompt \/ Inject
  PROVE  Talks(agent.messages, agent'.messages)
<1> DEFINE m == Head(loop.pend)
<1>1. loop.pc \in {"prompts", "inject"} /\ \E e, l : EmitMessage(m, e, l)
  BY DEF EmitPrompt, Inject, At
<1>2. loop.pend # << >> /\ loop.pend \in Seq(UserMessages)
  BY LoopFacts DEF EmitPrompt, Inject, LoopShape
<1>3. m \in UserMessages
  BY <1>2
<1>4. m \in Messages /\ m.role # "result" /\ CallsOf(m) = << >>
  BY <1>3, CallsTyped, RolesDiffer DEF Messages
<1>5. agent.messages \in Seq(Messages) /\ Open(agent.messages) = {}
  BY <1>1, LoopFacts DEF LogOK, PlaceOK, Batching
<1> HIDE DEF m
<1>6. agent'.messages \in {agent.messages, Append(agent.messages, m)}
  BY <1>1, MessageTalks
<1> QED
  BY <1>4, <1>5, <1>6, PlainTalks

LEMMA FailureTalks ==
  ASSUME AInv, FailMessage
  PROVE  Talks(agent.messages, agent'.messages)
<1>1. loop.pc = "fail_message" /\ \E e, l : EmitMessage(Failure, e, l)
  BY DEF FailMessage, At
<1>2. Failure \in Assistants /\ Failure.calls = << >>
  BY DEF Failure, AssistantMessage, Assistants, Stops
<1>3. Failure \in Messages /\ Failure.role # "result" /\ CallsOf(Failure) = << >>
  BY <1>2, RolesDiffer DEF Messages, CallsOf
<1>4. agent.messages \in Seq(Messages) /\ Open(agent.messages) = {}
  BY <1>1, LoopFacts DEF LogOK, PlaceOK, Batching
<1>5. agent'.messages \in {agent.messages, Append(agent.messages, Failure)}
  BY <1>1, MessageTalks
<1> QED
  BY <1>3, <1>4, <1>5, PlainTalks

LEMMA ReplyTalks ==
  ASSUME AInv, CommitReply
  PROVE  Talks(agent.messages, agent'.messages)
<1> DEFINE m == loop.reply
<1>1. loop.pc = "reply" /\ \E e, l : EmitMessage(m, e, l)
  BY DEF CommitReply, At
<1>2. m \in Messages /\ m.role # "result" /\ CallsOf(m) = m.calls /\ IsInjective(m.calls)
  BY LoopFacts, RolesDiffer DEF Messages, CallsOf, LoopOK
<1>3. /\ Open(agent.messages) = {}
      /\ ToSet(m.calls) \cap (CallIds(agent.messages) \cup {0}) = {}
  BY <1>1, LoopFacts DEF PlaceOK, Batching
<1> HIDE DEF m
<1>4. agent'.messages \in {agent.messages, Append(agent.messages, m)}
  BY <1>1, MessageTalks
<1> QED
  BY <1>2, <1>3, <1>4 DEF Talks, Says

LEMMA ResultTalks ==
  ASSUME AInv, RefuseResult \/ EmitResult
  PROVE  Talks(agent.messages, agent'.messages)
<1> DEFINE M == agent.messages
<1>1. PICK kind : /\ loop.pc \in {"refuse", "results"} /\ BatchLeft
                  /\ \E e, l : EmitMessage(ToolResult(Current, kind), e, l)
                  /\ kind = "skipped" \/ kind = loop.call[Current].kind
                  /\ loop.pc = "results" => kind = loop.call[Current].kind
  BY DEF RefuseResult, EmitResult, At
<1>2. loop.index \in 1 .. Len(loop.reply.calls) /\ Current \in ToSet(loop.reply.calls) /\ Current \in Nat
  BY <1>1, LoopFacts, CurrentIn
<1>3. kind \in Kinds
  <2>1. CASE kind = "skipped"
    BY <2>1 DEF Kinds
  <2>2. CASE kind # "skipped"
    <3>1. loop.pc = "results" => loop.call[Current].phase = "ended"
      BY <1>2, LoopFacts DEF PlaceOK
    <3>2. loop.pc = "refuse" => loop.call[Current].phase = "ended"
      BY <1>1, <2>2 DEF RefuseResult, EmitResult, At
    <3> QED
      BY <1>1, <1>2, <2>2, <3>1, <3>2, LoopFacts DEF LoopOK
  <2> QED
    BY <2>1, <2>2
<1> DEFINE r == ToolResult(Current, kind)
           s == <<r>>
<1>4. r \in Results /\ r.call = Current
  BY <1>2, <1>3 DEF ToolResult, Results
<1>5. Current \in Open(M)
  <2>1. Open(M) = Unheard(loop)
    BY <1>1, LoopFacts DEF PlaceOK
  <2>2. loop.index \in loop.index .. Len(loop.reply.calls)
    BY <1>2, LoopFacts
  <2> QED
    BY <2>1, <2>2 DEF Unheard, Current
<1>6. M \in Seq(Messages)
  BY LoopFacts DEF LogOK
<1>7. agent'.messages \in {M, Append(M, r)}
  BY <1>1, MessageTalks
<1> HIDE DEF r, M
<1>8. s \in Seq(Results) /\ s # << >> /\ DOMAIN s = {1} /\ s[1] = r /\ Append(M, r) = M \o s
  BY <1>4, <1>6
<1> HIDE DEF s
<1>9. Answers(M, M \o s)
  BY <1>4, <1>5, <1>8 DEF Answers
<1> QED
  BY <1>7, <1>8, <1>9 DEF Talks, M

LEMMA RepairTalks ==
  ASSUME AInv, RepairTranscript
  PROVE  Talks(agent.messages, agent'.messages)
<1> DEFINE M == agent.messages
           R == Repaired(Materialized(M, agent.staged))
<1>1. agent'.messages = R
  BY LoopFacts DEF RepairTranscript, Agents
<1>2. LogOK(M) /\ KeptOK(M, agent.staged, told) /\ R = Repaired(Materialized(M, agent.staged))
  BY LoopFacts
<1> HIDE DEF R
<1>a. PICK s \in Seq(Results) : Completes(M, R, s)
  BY <1>2, RepairSettles
<1>3. /\ R = M \o s /\ {s[i].call : i \in DOMAIN s} = Open(M)
      /\ \A i \in DOMAIN s, j \in DOMAIN s : s[i].call = s[j].call => i = j
  BY <1>a DEF Completes
<1>4. CASE s = << >>
  <2>1. M \in Seq(Messages)
    BY <1>2 DEF LogOK
  <2>2. M \o << >> = M
    BY <2>1
  <2> QED
    BY <1>1, <1>3, <1>4, <2>2 DEF Talks
<1>5. CASE s # << >>
  <2>1. \A i \in DOMAIN s : s[i].call \in Open(M)
    BY <1>3
  <2> QED
    BY <1>1, <1>3, <1>5, <2>1 DEF Talks, Answers
<1> QED
  BY <1>4, <1>5

LEMMA StartTalks ==
  ASSUME AInv, loop.pc \in AtRest, NEW p, NEW skip, NEW b, StartRun(p, skip, b)
  PROVE  agent'.messages = agent.messages
  BY BetweenRuns, IdleRests DEF StartRun, IdleAgent

LEMMA RouterTalks ==
  ASSUME AInv, RouterStep
  PROVE  Talks(agent.messages, agent'.messages)
<1>1. agent'.messages = agent.messages
  BY RouterSteps, StartTalks, IdleRests DEF Rerouted, Enters, AtRest, Routes
<1> QED
  BY <1>1 DEF Talks

-----------------------------------------------------------------------------
LEMMA TurnTalks ==
  ASSUME AInv, Turn
  PROVE  Talks(agent.messages, agent'.messages)
<1>1. CASE \/ AgentStart \/ FirstTurn \/ RequestModel \/ ForwardStreamEvent \/ DenyBudget
           \/ RefuseStart \/ EndTurn \/ TurnBudget \/ FailStart \/ FailTurn
  <2>1. \E e, l : Emit(e, agent, l)
    BY <1>1 DEF AgentStart, FirstTurn, RequestModel, ForwardStreamEvent, DenyBudget,
                RefuseStart, EndTurn, TurnBudget, FailStart, FailTurn
  <2> QED
    BY <2>1, EmitTalks DEF Talks
<1>2. CASE EmitPrompt \/ Inject
  BY <1>2, InjectTalks
<1>3. CASE PollSteering \/ KeepResults \/ StopAfterTurn \/ NextTurn
  BY <1>3 DEF PollSteering, KeepResults, StopAfterTurn, NextTurn, Talks
<1>4. CASE BeginTurn
  <2>1. agent' = agent \/ \E e, l : Emit(e, agent, l)
    BY <1>4 DEF BeginTurn
  <2> QED
    BY <2>1, EmitTalks DEF Talks
<1>5. CASE Overflow
  <2>1. agent' = agent \/ (\E kind : Raise(kind, agent)) \/ \E e, l : Emit(e, agent, l)
    BY <1>5 DEF Overflow
  <2> QED
    BY <2>1, EmitTalks, RaiseTalks DEF Talks
<1>6. CASE \E raw \in dep.batches, stop \in Stops, denied \in BOOLEAN : ModelReplies(raw, stop, denied)
  BY <1>6 DEF ModelReplies, Talks
<1>7. CASE CommitReply
  BY <1>7, ReplyTalks
<1>8. CASE RefuseEnd
  BY <1>8, EndTalks DEF RefuseEnd, Talks
<1>9. CASE RefuseResult \/ EmitResult
  BY <1>9, ResultTalks
<1>10. CASE AgentEnd \/ FailEnd
  <2>1. \E e, l : Emit(e, IdleAgent(agent.messages), l)
    BY <1>10 DEF AgentEnd, FailEnd
  <2>2. IdleAgent(agent.messages).messages = agent.messages
    BY DEF IdleAgent
  <2> QED
    BY <2>1, <2>2, EmitTalks DEF Talks
<1>11. CASE RepairTranscript
  BY <1>11, RepairTalks
<1>12. CASE FailMessage
  BY <1>12, FailureTalks
<1>13. CASE RouterTurn
  BY <1>13, RouterTalks DEF RouterStep
<1> QED
  BY <1>1, <1>2, <1>3, <1>4, <1>5, <1>6, <1>7, <1>8, <1>9, <1>10, <1>11, <1>12, <1>13 DEF Turn, RouterTurn

LEMMA ToolsTalk ==
  ASSUME AInv, Tools
  PROVE  Talks(agent.messages, agent'.messages)
<1>1. CASE GuardStart
  BY <1>1, EmitTalks DEF GuardStart, Talks
<1>2. CASE GuardBlocks
  BY <1>2, EndTalks DEF GuardBlocks, Talks
<1>3. CASE GuardPasses \/ GuardDone \/ \E terminate \in BOOLEAN : GatherCalls(terminate)
  BY <1>3 DEF GuardPasses, GuardDone, GatherCalls, Talks
<1>4. ASSUME NEW c, Dispatch(c) \/ ScheduleRetry(c) \/ Retry(c)
      PROVE  Talks(agent.messages, agent'.messages)
  <2>1. agent' = agent \/ \E e, l : Emit(e, agent, l)
    BY <1>4 DEF Dispatch, ScheduleRetry, Retry
  <2> QED
    BY <2>1, EmitTalks DEF Talks
<1>5. ASSUME NEW c, CallCancelled(c) \/ \E kind : HandlerReturns(c, kind)
      PROVE  Talks(agent.messages, agent'.messages)
  BY <1>5 DEF CallCancelled, HandlerReturns, Talks
<1>6. ASSUME NEW c, EndCall(c) PROVE Talks(agent.messages, agent'.messages)
  BY <1>6, EndTalks DEF EndCall, Talks
<1> QED
  BY <1>1, <1>2, <1>3, <1>4, <1>5, <1>6 DEF Tools

LEMMA EnvironmentTalks ==
  ASSUME AInv, Environment
  PROVE  Talks(agent.messages, agent'.messages)
<1> USE DEF AtRest, Idle, At
<1>1. ASSUME NEW u, Prompt(u) PROVE Talks(agent.messages, agent'.messages)
  BY <1>1, StartTalks, IdleRests DEF Prompt, Talks
<1>2. ASSUME NEW u, RoutedPrompt(u) PROVE Talks(agent.messages, agent'.messages)
  BY <1>2 DEF RoutedPrompt, Talks
<1>3. CASE ContinueRun
  <2>1. loop.pc = "idle" /\ \E p, skip, b : StartRun(p, skip, b)
    BY <1>3 DEF ContinueRun, Idle
  <2> QED
    BY <2>1, StartTalks, IdleRests DEF Talks
<1>4. CASE Reset
  <2>1. agent'.messages = << >> /\ loop.pc = "idle"
    BY <1>4 DEF Reset, Idle, IdleAgent
  <2>2. Open(agent.messages) = {}
    BY <2>1, BetweenRuns, IdleRests
  <2> QED
    BY <2>1, <2>2 DEF Talks
<1>5. ASSUME NEW x, Steer(x) \/ FollowUp(x) \/ Abort \/ Restart
      PROVE  Talks(agent.messages, agent'.messages)
  BY <1>5 DEF Steer, FollowUp, Abort, Restart, Talks
<1>6. ASSUME NEW kind, Interrupted(kind) PROVE Talks(agent.messages, agent'.messages)
  BY <1>6, RaiseTalks DEF Interrupted, Talks
<1>7. CASE Approval
  BY <1>7, RouterTalks DEF RouterStep
<1> QED
  BY <1>1, <1>2, <1>3, <1>4, <1>5, <1>6, <1>7 DEF Environment, Approval

\* agent.py and loop.py implement the safety half of ToolProtocol: every step says one message
\* while nothing is pending and with new call ids, or answers pending calls once each, or clears
\* a conversation without open calls, or leaves the messages alone, with any listener raising and
\* the task cancelled at any event.
THEOREM ProtocolSafety == Spec => Conversation!Start /\ [][Conversation!ProtocolNext]_(agent.messages)
<1>1. Init => Conversation!Start
  BY DEF Init, IdleAgent, Conversation!Start
<1>2. AInv /\ [Next]_vars => [Conversation!ProtocolNext]_(agent.messages)
  <2> SUFFICES ASSUME AInv, [Next]_vars PROVE [Conversation!ProtocolNext]_(agent.messages)
    OBVIOUS
  <2>1. Talks(agent.messages, agent'.messages)
    <3>1. CASE Next
      BY <3>1, TurnTalks, ToolsTalk, EnvironmentTalks DEF Next
    <3>2. CASE UNCHANGED vars
      BY <3>2 DEF vars, Talks
    <3> QED
      BY <3>1, <3>2
  <2>2. agent.messages \in Seq(Messages)
    BY LoopFacts DEF LogOK
  <2> QED
    BY <2>1, <2>2, TalkStep
<1> QED
  BY <1>1, <1>2, AgentInvariance, PTL DEF Spec

-----------------------------------------------------------------------------
(* Well-formed conversations *)

\* The result at i directly follows the message that made its call.
Follows(M, i) ==
    \E j \in 1 .. i - 1 : /\ M[i].call \in ToSet(CallsOf(M[j]))
                        /\ \A k \in j + 1 .. i - 1 : M[k].role = "result" /\ M[k].call # M[i].call
Formed(M) ==
    /\ \A i \in DOMAIN M : M[i].role = "result" => Follows(M, i)
    /\ \A i \in DOMAIN M : M[i].role # "result" => Pending(SubSeq(M, 1, i - 1)) = << >>

LEMMA ClosedWhenFormed ==
  ASSUME NEW M
  PROVE  Closed(M) <=> Formed(M) /\ Pending(M) = << >>
  BY DEF Closed, Formed, Follows

\* L begins with M.
Begins(M, L) ==
    /\ Len(M) <= Len(L)
    /\ \A i \in 1 .. Len(M) : L[i] = M[i]

LEMMA BeginningFormed ==
  ASSUME NEW M \in Seq(Messages), NEW L \in Seq(Messages), Begins(M, L), Formed(M), NEW i \in 1 .. Len(M)
  PROVE  /\ L[i].role = "result" => Follows(L, i)
         /\ L[i].role # "result" => Pending(SubSeq(L, 1, i - 1)) = << >>
<1>1. /\ Len(M) \in Nat /\ Len(L) \in Nat /\ DOMAIN M = 1 .. Len(M) /\ DOMAIN L = 1 .. Len(L)
      /\ i \in Nat /\ 1 <= i /\ i <= Len(M) /\ Len(M) <= Len(L)
  BY DEF Begins
<1>2. \A k \in 1 .. i : L[k] = M[k]
  BY <1>1 DEF Begins
<1>3. ASSUME L[i].role = "result" PROVE Follows(L, i)
  <2>1. Follows(M, i)
    BY <1>1, <1>2, <1>3 DEF Formed
  <2>2. PICK j \in 1 .. i - 1 : /\ M[i].call \in ToSet(CallsOf(M[j]))
                              /\ \A k \in j + 1 .. i - 1 : M[k].role = "result" /\ M[k].call # M[i].call
    BY <2>1 DEF Follows
  <2>3. j \in 1 .. i /\ i \in 1 .. i /\ \A k \in j + 1 .. i - 1 : k \in 1 .. i
    BY <1>1
  <2> QED
    BY <1>2, <2>2, <2>3 DEF Follows
<1>4. SubSeq(L, 1, i - 1) = SubSeq(M, 1, i - 1)
  <2> DEFINE a == SubSeq(L, 1, i - 1)
             b == SubSeq(M, 1, i - 1)
  <2>1. a \in Seq(Messages) /\ b \in Seq(Messages) /\ Len(a) = i - 1 /\ Len(b) = i - 1
    BY <1>1
  <2>2. \A k \in 1 .. i - 1 : a[k] = L[k] /\ b[k] = M[k]
    BY <1>1
  <2>3. \A k \in 1 .. i - 1 : a[k] = b[k]
    BY <1>1, <1>2, <2>2
  <2> HIDE DEF a, b
  <2>4. \A k \in 1 .. Len(a) : a[k] = b[k]
    BY <2>1, <2>3
  <2>5. a = b
    BY <2>1, <2>4, SeqEqual
  <2> QED
    BY <2>5 DEF a, b
<1>5. ASSUME L[i].role # "result" PROVE Pending(SubSeq(L, 1, i - 1)) = << >>
  <2>1. M[i].role # "result" /\ i \in DOMAIN M
    BY <1>1, <1>2, <1>5
  <2> QED
    BY <1>4, <2>1 DEF Formed
<1> QED
  BY <1>3, <1>5

LEMMA SaidFormed ==
  ASSUME NEW M \in Seq(Messages), Formed(M), Open(M) = {}, NEW m \in Messages, m.role # "result"
  PROVE  Formed(Append(M, m))
<1> DEFINE L == Append(M, m)
           n == Len(M)
<1>1. L \in Seq(Messages) /\ n \in Nat /\ Len(L) = n + 1 /\ DOMAIN L = 1 .. n + 1 /\ L[n + 1] = m
      /\ \A i \in 1 .. n : L[i] = M[i]
  OBVIOUS
<1>2. SubSeq(L, 1, n) = M
  OBVIOUS
<1> HIDE DEF L
<1>3. Begins(M, L)
  BY <1>1 DEF Begins
<1>4. Pending(M) = << >>
  BY OpenTyped
<1>5. (n + 1) - 1 = n /\ \A i \in 1 .. n + 1 : i \in 1 .. n \/ i = n + 1
  BY <1>1
<1>6. ASSUME NEW i \in DOMAIN L
      PROVE  /\ L[i].role = "result" => Follows(L, i)
             /\ L[i].role # "result" => Pending(SubSeq(L, 1, i - 1)) = << >>
  <2>1. CASE i \in 1 .. n
    BY <1>1, <1>3, <2>1, BeginningFormed
  <2>2. CASE i = n + 1
    BY <1>1, <1>2, <1>4, <1>5, <2>2
  <2> QED
    BY <1>1, <1>5, <2>1, <2>2
<1> QED
  BY <1>6 DEF Formed, L

LEMMA AnsweredFormed ==
  ASSUME NEW M \in Seq(Messages), Formed(M), NEW s \in Seq(Results),
         \A i \in DOMAIN s : s[i].call \in Open(M),
         \A i \in DOMAIN s, j \in DOMAIN s : s[i].call = s[j].call => i = j
  PROVE  Formed(M \o s)
<1> DEFINE L == M \o s
           m == Len(M)
           n == Len(s)
<1>0. Results \subseteq Messages
  BY DEF Messages
<1>1. /\ m \in Nat /\ n \in Nat /\ DOMAIN M = 1 .. m /\ DOMAIN s = 1 .. n
      /\ \A j \in 1 .. n : s[j] \in Results
  OBVIOUS
<1>2. s \in Seq(Messages)
  BY <1>0
<1>3. /\ L \in Seq(Messages) /\ Len(L) = m + n /\ DOMAIN L = 1 .. m + n
      /\ \A i \in 1 .. m : L[i] = M[i]
      /\ \A j \in 1 .. n : L[m + j] = s[j]
  BY <1>2
<1> HIDE DEF L, m, n
<1>4. Begins(M, L)
  BY <1>1, <1>3 DEF Begins, m
<1>5. \A i \in 1 .. m + n : i \in 1 .. m \/ (i - m \in 1 .. n /\ i = m + (i - m))
  BY <1>1
<1>6. ASSUME NEW k \in 1 .. n PROVE Follows(L, m + k) /\ L[m + k].role = "result"
  <2>1. L[m + k] = s[k] /\ s[k].role = "result" /\ s[k].call \in Open(M)
    BY <1>1, <1>3, RolesDiffer
  <2>2. PICK j : LastSaid(M, j)
    <3>1. ~ \A i \in DOMAIN M : M[i].role = "result"
      BY <2>1, OpenNone
    <3> QED
      BY <3>1, LastSaidExists
  <2>3. Open(M) = ToSet(CallsOf(M[j])) \ AnsweredAfter(M, j)
    BY <2>2, OpenAt
  <2>4. j \in 1 .. m /\ \A i \in j + 1 .. m : M[i].role = "result"
    BY <2>2 DEF LastSaid, m
  <2>5. j \in 1 .. (m + k) - 1 /\ L[j] = M[j]
    BY <1>1, <1>3, <2>4
  <2>6. ASSUME NEW i \in j + 1 .. (m + k) - 1
        PROVE  L[i].role = "result" /\ L[i].call # s[k].call
    <3>1. CASE i \in j + 1 .. m
      <4>1. i \in 1 .. m /\ i > j /\ L[i] = M[i] /\ M[i].role = "result"
        BY <1>1, <1>3, <2>4, <3>1
      <4>2. M[i].call \in AnsweredAfter(M, j)
        BY <1>1, <4>1 DEF AnsweredAfter
      <4> QED
        BY <2>1, <2>3, <4>1, <4>2
    <3>2. CASE i \in m + 1 .. (m + k) - 1
      <4>1. i - m \in 1 .. n /\ i - m # k /\ i = m + (i - m)
        BY <1>1, <3>2
      <4>2. L[i] = s[i - m]
        BY <1>3, <4>1
      <4>3. s[i - m].role = "result" /\ s[i - m].call # s[k].call
        BY <1>1, <4>1, RolesDiffer
      <4> QED
        BY <4>2, <4>3
    <3>3. i \in j + 1 .. m \/ i \in m + 1 .. (m + k) - 1
      BY <1>1, <2>4
    <3> QED
      BY <3>1, <3>2, <3>3
  <2> QED
    BY <2>1, <2>3, <2>5, <2>6 DEF Follows
<1>7. ASSUME NEW i \in DOMAIN L
      PROVE  /\ L[i].role = "result" => Follows(L, i)
             /\ L[i].role # "result" => Pending(SubSeq(L, 1, i - 1)) = << >>
  <2>1. CASE i \in 1 .. m
    BY <1>3, <1>4, <2>1, BeginningFormed DEF m
  <2>2. CASE i - m \in 1 .. n /\ i = m + (i - m)
    BY <1>6, <2>2
  <2> QED
    BY <1>3, <1>5, <2>1, <2>2
<1> QED
  BY <1>7 DEF Formed, L

LEMMA EmptyFormed == Formed(<< >>)
<1>1. DOMAIN << >> = {}
  OBVIOUS
<1> QED
  BY <1>1 DEF Formed

LEMMA TalksFormed ==
  ASSUME NEW M \in Seq(Messages), Formed(M), NEW L, Talks(M, L)
  PROVE  Formed(L)
<1>1. CASE L = M
  BY <1>1
<1>2. CASE Says(M, L)
  BY <1>2, SaidFormed DEF Says
<1>3. CASE Answers(M, L)
  BY <1>3, AnsweredFormed DEF Answers
<1>4. CASE L = << >>
  BY <1>4, EmptyFormed
<1> QED
  BY <1>1, <1>2, <1>3, <1>4 DEF Talks

-----------------------------------------------------------------------------
(* Compaction *)

\* One step of Retained, and its run h along log.
Keep(K, x, n, m) == IF n \in K THEN Append(x, m) ELSE x
Keeping(log, K, h) ==
    h = [n \in 0 .. Len(log) |-> IF n = 0 THEN << >> ELSE Keep(K, h[n - 1], n, log[n])]
UnitsOf(log, units) == UNION {UnitOf(log, i) : i \in units}

LEMMA KeepingExists ==
  ASSUME NEW log, NEW units, Len(log) \in Nat
  PROVE  \E h : Keeping(log, UnitsOf(log, units), h) /\ Retained(log, units) = h[Len(log)]
<1> DEFINE K == UnitsOf(log, units)
           Upto(k, h) ==
             h = [n \in 0 .. k |-> IF n = 0 THEN << >> ELSE Keep(K, h[n - 1], n, log[n])]
           T == {k \in Nat : \E h : Upto(k, h)}
<1>1. 0 \in T
  <2> DEFINE h == [n \in 0 .. 0 |-> << >>]
  <2>1. Upto(0, h)
    OBVIOUS
  <2> HIDE DEF h
  <2> QED
    BY <2>1
<1>2. ASSUME NEW k \in T PROVE k + 1 \in T
  <2>1. PICK h : Upto(k, h)
    OBVIOUS
  <2> DEFINE g == [n \in 0 .. (k + 1) |->
                     IF n = k + 1 THEN Keep(K, h[k], k + 1, log[k + 1]) ELSE h[n]]
  <2>2. ASSUME NEW n \in 0 .. (k + 1)
        PROVE  g[n] = IF n = 0 THEN << >> ELSE Keep(K, g[n - 1], n, log[n])
    <3>1. CASE n = k + 1
      BY <3>1
    <3>2. CASE n # k + 1
      BY <2>1, <3>2
    <3> QED
      BY <3>1, <3>2
  <2>3. Upto(k + 1, g)
    BY <2>2
  <2>4. k + 1 \in Nat
    OBVIOUS
  <2> HIDE DEF g
  <2>5. \E f : Upto(k + 1, f)
    BY <2>3
  <2> QED
    BY <2>4, <2>5, Zenon
<1> HIDE DEF T
<1>3. T = Nat
  <2>1. T \in SUBSET Nat
    BY DEF T
  <2> QED
    BY <1>1, <1>2, <2>1, SetInduction
<1>4. \E h : Keeping(log, K, h)
  BY <1>3 DEF T, Keeping
<1> QED
  BY <1>4 DEF Keeping, Retained, Keep, UnitsOf

\* The retained messages end with the last message if it is in a selected unit.
LEMMA RetainedEnds ==
  ASSUME NEW log \in Seq(Messages), NEW units, Len(log) # 0, Len(log) \in UnitsOf(log, units)
  PROVE  /\ Retained(log, units) \in Seq(Messages) /\ Len(Retained(log, units)) # 0
         /\ Last(Retained(log, units)) = Last(log)
<1> DEFINE N == Len(log)
           K == UnitsOf(log, units)
<1>1. N \in Nat /\ N # 0 /\ N - 1 \in Nat /\ \A i \in 1 .. N : log[i] \in Messages
  OBVIOUS
<1>2. PICK h : Keeping(log, K, h) /\ Retained(log, units) = h[N]
  BY <1>1, KeepingExists
<1>3. h[0] = << >> /\ \A n \in 1 .. N : h[n] = Keep(K, h[n - 1], n, log[n])
  BY <1>1, <1>2 DEF Keeping
<1> DEFINE T == {n \in Nat : n <= N => h[n] \in Seq(Messages)}
<1> HIDE DEF N, K
<1>4. 0 \in T
  <2>1. << >> \in Seq(Messages)
    OBVIOUS
  <2> QED
    BY <1>3, <2>1
<1>5. ASSUME NEW n \in T PROVE n + 1 \in T
  <2> SUFFICES ASSUME n + 1 <= N PROVE h[n + 1] \in Seq(Messages)
    OBVIOUS
  <2>1. n \in Nat /\ n <= N /\ n + 1 \in 1 .. N /\ (n + 1) - 1 = n
    BY <1>1
  <2>2. h[n] \in Seq(Messages) /\ log[n + 1] \in Messages
    BY <1>1, <2>1
  <2>3. h[n + 1] = IF n + 1 \in K THEN Append(h[n], log[n + 1]) ELSE h[n]
    BY <1>3, <2>1 DEF Keep
  <2> QED
    BY <2>2, <2>3
<1>6. T = Nat
  <2>1. T \in SUBSET Nat
    OBVIOUS
  <2> HIDE DEF T
  <2> QED
    BY <1>4, <1>5, <2>1, SetInduction
<1>7. h[N - 1] \in Seq(Messages)
  BY <1>1, <1>6
<1>8. h[N] = Append(h[N - 1], log[N]) /\ log[N] \in Messages
  <2>1. N \in K
    BY DEF K, N
  <2>2. N \in 1 .. N
    BY <1>1
  <2> QED
    BY <1>1, <1>3, <2>1, <2>2 DEF Keep
<1> DEFINE p == h[N - 1]
           q == h[N]
<1>9. p \in Seq(Messages) /\ q = Append(p, log[N]) /\ Len(p) \in Nat
  BY <1>7, <1>8
<1> HIDE DEF p, q
<1>10. q \in Seq(Messages) /\ Len(q) = Len(p) + 1 /\ q[Len(p) + 1] = log[N]
  BY <1>8, <1>9
<1>11. Len(q) # 0 /\ Last(q) = log[N]
  BY <1>9, <1>10 DEF Last
<1> QED
  BY <1>2, <1>10, <1>11 DEF q, N, Last

\* One step of Selected, and its run u.
Add(log, U, i, window) ==
    IF i \in UnitStarts(log) \ U /\ Fits(log, U \cup {i}, window) THEN U \cup {i} ELSE U
Selecting(log, keep, window, u) ==
    u = [n \in 0 .. Len(log) |->
            IF n = 0 THEN Mandatory(log, keep) ELSE Add(log, u[n - 1], Len(log) - n + 1, window)]

LEMMA SelectingExists ==
  ASSUME NEW log, NEW keep, NEW window, Len(log) \in Nat
  PROVE  \E u : Selecting(log, keep, window, u) /\ Selected(log, keep, window) = u[Len(log)]
<1> DEFINE A(U, n) == Add(log, U, Len(log) - n + 1, window)
           Upto(k, u) == u = [n \in 0 .. k |-> IF n = 0 THEN Mandatory(log, keep) ELSE A(u[n - 1], n)]
           T == {k \in Nat : \E u : Upto(k, u)}
<1> HIDE DEF A
<1>1. 0 \in T
  <2> DEFINE u == [n \in 0 .. 0 |-> Mandatory(log, keep)]
  <2>1. Upto(0, u)
    OBVIOUS
  <2> HIDE DEF u
  <2> QED
    BY <2>1
<1>2. ASSUME NEW k \in T PROVE k + 1 \in T
  <2>1. PICK u : Upto(k, u)
    OBVIOUS
  <2> DEFINE g == [n \in 0 .. (k + 1) |-> IF n = k + 1 THEN A(u[k], k + 1) ELSE u[n]]
  <2>2. ASSUME NEW n \in 0 .. (k + 1)
        PROVE  g[n] = IF n = 0 THEN Mandatory(log, keep) ELSE A(g[n - 1], n)
    <3>1. CASE n = k + 1
      BY <3>1
    <3>2. CASE n # k + 1
      BY <2>1, <3>2
    <3> QED
      BY <3>1, <3>2
  <2>3. Upto(k + 1, g)
    BY <2>2
  <2>4. k + 1 \in Nat
    OBVIOUS
  <2> HIDE DEF g
  <2>5. \E f : Upto(k + 1, f)
    BY <2>3
  <2> QED
    BY <2>4, <2>5, Zenon
<1> HIDE DEF T
<1>3. T = Nat
  <2>1. T \in SUBSET Nat
    BY DEF T
  <2> QED
    BY <1>1, <1>2, <2>1, SetInduction
<1>4. \E u : Selecting(log, keep, window, u)
  BY <1>3 DEF T, Selecting, A
<1> QED
  BY <1>4 DEF Selecting, Selected, Add

LEMMA MandatoryStays ==
  ASSUME NEW log, NEW keep, NEW window, Len(log) \in Nat
  PROVE  Mandatory(log, keep) \subseteq Selected(log, keep, window)
<1> DEFINE N == Len(log)
           M == Mandatory(log, keep)
<1>1. PICK u : Selecting(log, keep, window, u) /\ Selected(log, keep, window) = u[N]
  BY SelectingExists
<1>2. u[0] = M /\ \A n \in 1 .. N : u[n] = Add(log, u[n - 1], N - n + 1, window)
  BY <1>1 DEF Selecting
<1> DEFINE T == {n \in Nat : n <= N => M \subseteq u[n]}
<1>3. N \in Nat
  OBVIOUS
<1> HIDE DEF N, M
<1>4. 0 \in T
  BY <1>2
<1>5. ASSUME NEW n \in T PROVE n + 1 \in T
  <2> SUFFICES ASSUME n + 1 <= N PROVE M \subseteq u[n + 1]
    OBVIOUS
  <2>1. n <= N /\ n + 1 \in 1 .. N /\ (n + 1) - 1 = n
    BY <1>3
  <2>2. u[n + 1] = Add(log, u[n], N - (n + 1) + 1, window)
    BY <1>2, <2>1
  <2>3. u[n] \subseteq u[n + 1]
    BY <2>2 DEF Add
  <2> QED
    BY <2>1, <2>3
<1>6. T = Nat
  <2>1. T \in SUBSET Nat
    OBVIOUS
  <2> HIDE DEF T
  <2> QED
    BY <1>4, <1>5, <2>1, SetInduction
<1> QED
  BY <1>1, <1>3, <1>6 DEF M

\* Either compactor keeps the end of a closed conversation.
LEMMA CompactedEnds ==
  ASSUME NEW log \in Seq(Messages), Formed(log), NEW keep \in Nat \ {0}, NEW window \in Nat,
         NEW new, new = Compacted(log, keep, window), Len(new) < Len(log)
  PROVE  Last(new) = Last(log)
<1> DEFINE N == Len(log)
<1>1. N \in Nat /\ DOMAIN log = 1 .. N
  OBVIOUS
<1>2. CASE window = 0
  <2> DEFINE a == IF N > keep THEN N - keep + 1 ELSE 1
  <2>1. new = SubSeq(log, a, N)
    BY <1>2 DEF Compacted, SlidingWindow
  <2>2. a \in Nat /\ 1 <= a /\ (N # 0 => a <= N) /\ (N = 0 => a = 1)
    BY <1>1
  <2> HIDE DEF a, N
  <2>3. CASE N = 0
    <3>1. new = SubSeq(log, 1, 0)
      BY <2>1, <2>2, <2>3
    <3>2. Len(new) = 0
      BY <3>1
    <3> QED
      BY <2>3, <3>2 DEF N
  <2>4. CASE N # 0
    <3>1. a <= N /\ Len(new) = (N - a) + 1 /\ \A k \in 1 .. (N - a) + 1 : new[k] = log[a + k - 1]
      BY <1>1, <2>1, <2>2, <2>4 DEF N
    <3>2. (N - a) + 1 \in 1 .. (N - a) + 1 /\ a + ((N - a) + 1) - 1 = N
      BY <1>1, <2>2, <3>1
    <3>3. new[(N - a) + 1] = log[N]
      BY <3>1, <3>2
    <3> QED
      BY <3>1, <3>3 DEF Last, N
  <2> QED
    BY <2>3, <2>4
<1>3. CASE window # 0
  <2> DEFINE units == Selected(log, keep, window)
             dropped == UnitStarts(log) \ units
             calls == UNION {ToSet(CallsOf(log[i])) : i \in dropped} \cup Summarized(log)
             sum == SummaryMessage(calls)
             R == Retained(log, units)
  <2>1. new = Replacement(log, units)
    BY <1>3 DEF Compacted, TokenAware
  <2>2. dropped # {}
    <3>1. dropped = {} => new = log
      BY <2>1 DEF Replacement
    <3> QED
      BY <1>1, <3>1
  <2>3. new = <<sum>> \o R
    BY <2>1, <2>2 DEF Replacement
  <2>4. N # 0
    <3>1. N = 0 => dropped = {}
      BY <1>1 DEF UnitStarts
    <3> QED
      BY <2>2, <3>1
  <2>5. N \in UnitsOf(log, units)
    <3>1. ASSUME NEW i \in UnitStarts(log), N \in UnitOf(log, i) PROVE N \in UnitsOf(log, units)
      <4>1. N > N - keep
        BY <1>1
      <4>2. i \in Mandatory(log, keep)
        BY <3>1, <4>1 DEF Mandatory
      <4>3. i \in units
        BY <1>1, <4>2, MandatoryStays
      <4> HIDE DEF units
      <4> QED
        BY <3>1, <4>3 DEF UnitsOf
    <3>2. N \in DOMAIN log
      BY <1>1, <2>4
    <3>3. CASE log[N].role # "result"
      BY <3>1, <3>2, <3>3 DEF UnitStarts, UnitOf
    <3>4. CASE log[N].role = "result"
      <4>1. PICK j \in 1 .. N - 1 : log[N].call \in ToSet(CallsOf(log[j]))
        BY <3>2, <3>4 DEF Formed, Follows
      <4>2. j \in DOMAIN log /\ log[j] \in Messages
        BY <1>1, <4>1
      <4>3. log[j].role = "assistant"
        <5>1. ToSet(<< >>) = {}
          BY EmptySets
        <5> QED
          BY <4>1, <4>2, <5>1, CallsTyped
      <4>4. j \in UnitStarts(log) /\ N \in UnitOf(log, j)
        BY <3>2, <3>4, <4>1, <4>2, <4>3 DEF UnitStarts, UnitOf
      <4> QED
        BY <3>1, <4>4
    <3> QED
      BY <3>3, <3>4
  <2> HIDE DEF units, N, sum
  <2>6. R \in Seq(Messages) /\ Len(R) # 0 /\ Last(R) = Last(log)
    BY <2>4, <2>5, RetainedEnds DEF N
  <2> HIDE DEF R
  <2> DEFINE S == Messages \cup {sum}
  <2>7. R \in Seq(S) /\ <<sum>> \in Seq(S) /\ Len(<<sum>>) = 1 /\ Len(R) \in Nat
    BY <2>6
  <2>8. Len(new) = 1 + Len(R) /\ new[1 + Len(R)] = R[Len(R)]
    BY <2>3, <2>6, <2>7
  <2> QED
    BY <2>6, <2>8 DEF Last
<1> QED
  BY <1>2, <1>3

-----------------------------------------------------------------------------
(* What the Provider is given *)

Faithful(l) ==
    /\ Closed(l.given) /\ Last(l.given) = Last(l.ctx)
    /\ CallIds(l.ctx) \subseteq CallIds(l.given) \cup Summarized(l.given)
GivenOK(l) == l.pc = "model" => Faithful(l) /\ (l.stream = "asked" => l.given = l.ctx)
GInv == AInv /\ Formed(agent.messages) /\ GivenOK(loop)

LEMMA RaiseLeaves ==
  ASSUME NEW kind, NEW a, Raise(kind, a)
  PROVE  loop'.pc # "model"
<1> DEFINE b == token \/ kind = "cancel"
<1>1. loop' = IdleLoop \/ loop' = FailLoop(b)
  BY DEF Raise, Settled, FailLoop
<1>2. b \in BOOLEAN
  OBVIOUS
<1> HIDE DEF b
<1>3. IdleLoop.pc = "idle"
  BY DEF IdleLoop
<1>4. FailLoop(b) = FreshLoop("fail", b)
  BY <1>2, FailIsFresh
<1>5. FreshLoop("fail", b).pc = "fail"
  BY DEF FreshLoop
<1> QED
  BY <1>1, <1>3, <1>4, <1>5

LEMMA EmitLeads ==
  ASSUME NEW e, NEW a, NEW l, Emit(e, a, l)
  PROVE  loop'.pc # "model" \/ loop' = l
<1>1. (\E kind : Raise(kind, a)) \/ loop' = l
  BY DEF Emit
<1> QED
  BY <1>1, RaiseLeaves

LEMMA EndLeads ==
  ASSUME NEW c, NEW kind, NEW code, NEW l, EmitToolEnd(c, kind, code, l)
  PROVE  loop'.pc # "model" \/ loop' = l
<1>1. (\E k, a : Raise(k, a)) \/ loop' = l
  BY DEF EmitToolEnd
<1> QED
  BY <1>1, RaiseLeaves

LEMMA MessageLeads ==
  ASSUME NEW m, NEW e, NEW l, EmitMessage(m, e, l)
  PROVE  loop'.pc # "model" \/ loop' = l
<1>1. (\E k, a : Raise(k, a)) \/ loop' = l
  BY DEF EmitMessage
<1> QED
  BY <1>1, RaiseLeaves

LEMMA GoPlace ==
  ASSUME AInv, NEW pc, NEW l, l = Go(pc)
  PROVE  l.pc = pc
  BY LoopFacts DEF LoopShape, Go

LEMMA NotedPlace ==
  ASSUME AInv, NEW c, NEW phase, NEW kind, NEW l, l = Noted(c, phase, kind)
  PROVE  l.pc = loop.pc /\ LoopShape(l)
<1> DEFINE x == [loop.call EXCEPT ![c] = [@ EXCEPT !.phase = phase]]
           k == [loop EXCEPT !.call = x]
           y == [k.call EXCEPT ![c] = [@ EXCEPT !.kind = kind]]
<1>1. LoopShape(loop)
  BY LoopFacts
<1>2. l = [k EXCEPT !.call = y]
  BY DEF Noted
<1> HIDE DEF x
<1>3. k.pc = loop.pc /\ LoopShape(k)
  BY <1>1 DEF LoopShape
<1> HIDE DEF k, y
<1> QED
  BY <1>2, <1>3 DEF LoopShape

\* An event after which the loop is at another place than the request.
LEMMA GoLeaves ==
  ASSUME AInv, NEW e, NEW a, NEW pc, pc # "model", Emit(e, a, Go(pc))
  PROVE  loop'.pc # "model"
<1>1. loop'.pc # "model" \/ loop' = Go(pc)
  BY EmitLeads
<1> QED
  BY <1>1, GoPlace

LEMMA SayLeaves ==
  ASSUME AInv, EmitPrompt \/ Inject \/ CommitReply \/ RefuseResult \/ EmitResult \/ FailMessage
  PROVE  loop'.pc # "model"
<1> USE LoopFacts
<1>1. CASE EmitPrompt
  <2> DEFINE l == [loop EXCEPT !.pend = Tail(@)]
  <2>1. loop.pc = "prompts" /\ (loop'.pc # "model" \/ loop' = l)
    BY <1>1, MessageLeads DEF EmitPrompt, At
  <2> QED
    BY <2>1 DEF LoopShape
<1>2. CASE Inject
  <2> DEFINE l == [loop EXCEPT !.pend = Tail(@), !.ctx = Append(@, Head(loop.pend))]
  <2>1. loop.pc = "inject" /\ (loop'.pc # "model" \/ loop' = l)
    BY <1>2, MessageLeads DEF Inject, At
  <2> QED
    BY <2>1 DEF LoopShape
<1>3. CASE CommitReply
  <2>1. loop'.pc # "model" \/ loop' = AfterReply
    BY <1>3, MessageLeads DEF CommitReply
  <2>2. AfterReply.pc # "model"
    BY DEF LoopShape, Go, AfterReply
  <2> QED
    BY <2>1, <2>2
<1>4. CASE RefuseResult \/ EmitResult
  <2> DEFINE l == [loop EXCEPT !.index = @ + 1]
  <2>1. loop.pc \in {"refuse", "results"} /\ (loop'.pc # "model" \/ loop' = l)
    BY <1>4, MessageLeads DEF RefuseResult, EmitResult, At
  <2> QED
    BY <2>1 DEF LoopShape
<1>5. CASE FailMessage
  <2>1. loop'.pc # "model" \/ loop' = Go("fail_turn")
    BY <1>5, MessageLeads DEF FailMessage
  <2> QED
    BY <2>1, GoPlace
<1> QED
  BY <1>1, <1>2, <1>3, <1>4, <1>5

LEMMA StartLeaves ==
  ASSUME NEW p, NEW skip, NEW b, StartRun(p, skip, b)
  PROVE  loop'.pc # "model"
  BY DEF StartRun, IdleLoop

LEMMA RouterLeaves ==
  ASSUME AInv, RouterStep
  PROVE  loop'.pc # "model"
<1>1. \A pc : FreshLoop(pc, FALSE).pc = pc
  BY DEF FreshLoop
<1>2. \A pc : Go(pc).pc = pc
  BY LoopFacts DEF Go, LoopShape
<1> QED
  BY <1>1, <1>2, RouterSteps, StartLeaves DEF Rerouted, Reroutes, Enters, Settlings, Routes

LEMMA TurnLeads ==
  ASSUME AInv, Turn
  PROVE  loop'.pc # "model" \/ RequestModel \/ ForwardStreamEvent \/ Overflow
<1> USE LoopFacts
<1>1. CASE AgentStart \/ FirstTurn \/ DenyBudget \/ EndTurn \/ TurnBudget \/ FailStart \/ FailTurn
  <2>1. \E e, pc : pc # "model" /\ Emit(e, agent, Go(pc))
    BY <1>1 DEF AgentStart, FirstTurn, DenyBudget, EndTurn, TurnBudget, FailStart, FailTurn
  <2> QED
    BY <2>1, GoLeaves
<1>2. CASE EmitPrompt \/ Inject \/ CommitReply \/ RefuseResult \/ EmitResult \/ FailMessage
  BY <1>2, SayLeaves
<1>3. CASE PollSteering
  BY <1>3 DEF PollSteering, LoopShape
<1>4. CASE BeginTurn
  <2> DEFINE l == [loop EXCEPT !.pc = "inject", !.turns = @ + 1, !.first = FALSE]
  <2>1. loop' = l \/ (\E e : Emit(e, agent, Go("agent_end"))) \/ (\E e : Emit(e, agent, l))
    BY <1>4 DEF BeginTurn
  <2>2. l.pc # "model"
    BY DEF LoopShape
  <2> HIDE DEF l
  <2> QED
    BY <2>1, <2>2, GoLeaves, EmitLeads
<1>5. CASE \E raw \in dep.batches, stop \in Stops, denied \in BOOLEAN : ModelReplies(raw, stop, denied)
  BY <1>5 DEF ModelReplies, LoopShape
<1>6. CASE RefuseStart \/ RefuseEnd
  <2>1. /\ loop.pc = "refuse"
        /\ loop'.pc # "model" \/ \E phase, kind : loop' = Noted(Current, phase, kind)
    BY <1>6, EmitLeads, EndLeads DEF RefuseStart, RefuseEnd, At
  <2> QED
    BY <2>1, NotedPlace
<1>7. CASE KeepResults
  BY <1>7 DEF KeepResults, LoopShape
<1>8. CASE StopAfterTurn
  BY <1>8, GoPlace DEF StopAfterTurn
<1>9. CASE NextTurn
  BY <1>9 DEF NextTurn, LoopShape
<1>10. CASE AgentEnd \/ FailEnd
  <2>1. \E e, a : Emit(e, a, IdleLoop)
    BY <1>10 DEF AgentEnd, FailEnd
  <2> QED
    BY <2>1, EmitLeads DEF IdleLoop
<1>11. CASE RepairTranscript
  BY <1>11, GoPlace DEF RepairTranscript
<1>12. CASE RouterTurn
  BY <1>12, RouterLeaves DEF RouterStep
<1> QED
  BY <1>1, <1>2, <1>3, <1>4, <1>5, <1>6, <1>7, <1>8, <1>9, <1>10, <1>11, <1>12 DEF Turn, RouterTurn

LEMMA ToolsLead ==
  ASSUME AInv, Tools
  PROVE  loop'.pc # "model"
<1> USE LoopFacts
<1>1. CASE GuardStart
  <2>1. loop.pc = "guard" /\ (loop'.pc # "model" \/ loop' = Noted(Current, "queued", "none"))
    BY <1>1, EmitLeads DEF GuardStart, At
  <2> QED
    BY <2>1, NotedPlace
<1>2. CASE GuardBlocks
  <2> DEFINE k == Noted(Current, "ended", "skipped")
  <2>1. loop.pc = "guard" /\ (loop'.pc # "model" \/ loop' = [k EXCEPT !.index = @ + 1])
    BY <1>2, EndLeads DEF GuardBlocks, At
  <2>2. k.pc = loop.pc /\ LoopShape(k)
    BY NotedPlace
  <2> HIDE DEF k
  <2> QED
    BY <2>1, <2>2 DEF LoopShape
<1>3. CASE GuardPasses
  BY <1>3 DEF GuardPasses, LoopShape, At
<1>4. CASE GuardDone
  BY <1>4, GoPlace DEF GuardDone
<1>5. ASSUME NEW terminate, GatherCalls(terminate) PROVE loop'.pc # "model"
  BY <1>5 DEF GatherCalls, LoopShape
<1>6. ASSUME NEW c, Dispatch(c) PROVE loop'.pc # "model"
  <2> DEFINE k == Noted(c, "running", "none")
  <2>1. /\ loop.pc = "tools"
        /\ loop'.pc # "model" \/ loop' = [k EXCEPT !.call[c].tries = 1, !.attempts = @ + 1]
    BY <1>6, EmitLeads DEF Dispatch, At
  <2>2. k.pc = loop.pc /\ LoopShape(k)
    BY NotedPlace
  <2> HIDE DEF k
  <2> QED
    BY <2>1, <2>2 DEF LoopShape
<1>7. ASSUME NEW c, Retry(c) PROVE loop'.pc # "model"
  <2> DEFINE k == Noted(c, "running", "none")
             d == Noted(c, "finished", "failed")
             kk == [k EXCEPT !.call[c].tries = @ + 1, !.used = @ + 1, !.attempts = @ + 1]
             dd == [d EXCEPT !.denied = TRUE]
  <2>1. loop.pc = "tools" /\ (loop' = dd \/ \E e : Emit(e, agent, kk) \/ Emit(e, agent, dd))
    BY <1>7 DEF Retry, At
  <2>2. k.pc = loop.pc /\ LoopShape(k) /\ d.pc = loop.pc /\ LoopShape(d)
    BY NotedPlace
  <2> HIDE DEF k, d
  <2>3. kk.pc = loop.pc /\ dd.pc = loop.pc
    BY <2>2 DEF LoopShape
  <2> HIDE DEF kk, dd
  <2> QED
    BY <2>1, <2>3, EmitLeads
<1>8. ASSUME NEW c, ScheduleRetry(c) PROVE loop'.pc # "model"
  <2>1. loop.pc = "tools" /\ (loop'.pc # "model" \/ loop' = Noted(c, "backoff", "none"))
    BY <1>8, EmitLeads DEF ScheduleRetry, At
  <2> QED
    BY <2>1, NotedPlace
<1>9. ASSUME NEW c, CallCancelled(c) \/ EndCall(c) \/ \E kind \in {"done", "failed"} : HandlerReturns(c, kind)
      PROVE  loop'.pc # "model"
  <2>1. /\ loop.pc = "tools"
        /\ loop'.pc # "model" \/ \E phase, kind : loop' = Noted(c, phase, kind)
    BY <1>9, EndLeads DEF CallCancelled, EndCall, HandlerReturns, At
  <2> QED
    BY <2>1, NotedPlace
<1> QED
  BY <1>1, <1>2, <1>3, <1>4, <1>5, <1>6, <1>7, <1>8, <1>9 DEF Tools

LEMMA EnvironmentLeads ==
  ASSUME AInv, Environment
  PROVE  loop'.pc # "model" \/ loop' = loop
<1>1. ASSUME NEW u, Prompt(u) PROVE loop'.pc # "model"
  BY <1>1, StartLeaves DEF Prompt
<1>2. ASSUME NEW u, RoutedPrompt(u) PROVE loop'.pc # "model"
  BY <1>2 DEF RoutedPrompt, RecordExternal, IdleLoop
<1>3. CASE ContinueRun
  <2>1. \E p, skip, b : StartRun(p, skip, b)
    BY <1>3 DEF ContinueRun
  <2> QED
    BY <2>1, StartLeaves
<1>4. ASSUME NEW x, Steer(x) \/ FollowUp(x) \/ Abort \/ Reset \/ Restart
      PROVE  loop' = loop
  BY <1>4 DEF Steer, FollowUp, Abort, Reset, Restart
<1>5. ASSUME NEW kind, Interrupted(kind) PROVE loop'.pc # "model"
  BY <1>5, RaiseLeaves DEF Interrupted
<1>6. CASE Approval
  BY <1>6, RouterLeaves DEF RouterStep
<1> QED
  BY <1>1, <1>2, <1>3, <1>4, <1>5, <1>6 DEF Environment, Approval

LEMMA RequestLeads ==
  ASSUME GInv, RequestModel
  PROVE  GivenOK(loop')
<1> USE LoopFacts DEF GInv
<1> DEFINE l == [loop EXCEPT !.pc = "model", !.stream = "asked",
                             !.ctx = Repaired(@), !.given = Repaired(loop.ctx)]
<1>1. loop.pc = "inject" /\ (loop'.pc # "model" \/ loop' = l)
  BY EmitLeads DEF RequestModel, At
<1>2. loop.ctx = agent.messages /\ Open(agent.messages) = {}
  BY <1>1 DEF PlaceOK, Batching
<1>3. Repaired(loop.ctx) = loop.ctx
  BY <1>2, RepairedClosed
<1>4. Closed(loop.ctx)
  BY <1>2, ClosedWhenFormed, OpenTyped DEF LogOK
<1>5. l.ctx = loop.ctx /\ l.given = loop.ctx
  BY <1>3 DEF LoopShape
<1> HIDE DEF l
<1>6. Faithful(l) /\ l.given = l.ctx
  BY <1>4, <1>5 DEF Faithful
<1> QED
  BY <1>1, <1>6 DEF GivenOK

LEMMA ForwardLeads ==
  ASSUME GInv, ForwardStreamEvent
  PROVE  GivenOK(loop')
<1> USE LoopFacts DEF GInv
<1>1. PICK step \in StreamStep : Emit(Event(step[2]), agent, [loop EXCEPT !.stream = step[3]])
  BY DEF ForwardStreamEvent
<1> DEFINE l == [loop EXCEPT !.stream = step[3]]
<1>2. loop.pc = "model" /\ (loop'.pc # "model" \/ loop' = l)
  BY <1>1, EmitLeads DEF ForwardStreamEvent, At
<1>3. step[3] # "asked"
  BY DEF StreamStep
<1>4. l.ctx = loop.ctx /\ l.given = loop.given /\ l.stream # "asked"
  BY <1>3 DEF LoopShape
<1> HIDE DEF l
<1> QED
  BY <1>2, <1>4 DEF GivenOK, Faithful

LEMMA OverflowLeads ==
  ASSUME GInv, Overflow
  PROVE  GivenOK(loop')
<1> USE LoopFacts DEF GInv
<1> DEFINE new == Compacted(loop.given, dep.keep, dep.window)
           failed == AssistantMessage(<< >>, "error")
           r == [loop EXCEPT !.pc = "reply", !.reply = failed, !.ctx = Append(@, failed), !.call = << >>]
           l == [loop EXCEPT !.stream = "compacting", !.given = new]
<1>1. loop.pc = "model" /\ loop.stream = "asked"
  BY DEF Overflow, At
<1>2. loop.given = loop.ctx /\ loop.ctx = agent.messages
  BY <1>1 DEF GivenOK, PlaceOK
<1>3. \/ \E k, a : Raise(k, a)
      \/ loop' = r
      \/ /\ Verified(loop.given, new) /\ WorthSending(loop.given, new, dep.window)
         /\ \E e : Emit(e, agent, l)
  BY DEF Overflow
<1>4. r.pc # "model"
  BY DEF LoopShape
<1>5. l.ctx = loop.ctx /\ l.given = new /\ l.stream # "asked"
  BY DEF LoopShape
<1>6. dep.keep \in Nat \ {0} /\ dep.window \in Nat
  BY AgentAssumption
<1>7. loop.ctx \in Seq(Messages) /\ Formed(loop.ctx)
  BY <1>2 DEF LogOK
<1> HIDE DEF new, l, r
<1>8. ASSUME Verified(loop.given, new), WorthSending(loop.given, new, dep.window) PROVE Faithful(l)
  <2>1. Len(new) < Len(loop.ctx)
    BY <1>2, <1>8 DEF WorthSending
  <2>2. new = Compacted(loop.ctx, dep.keep, dep.window)
    BY <1>2 DEF new
  <2>3. Last(new) = Last(loop.ctx)
    BY <1>6, <1>7, <2>1, <2>2, CompactedEnds
  <2> QED
    BY <1>2, <1>5, <1>8, <2>3 DEF Verified, Faithful
<1> QED
  BY <1>3, <1>4, <1>5, <1>8, RaiseLeaves, EmitLeads DEF GivenOK

LEMMA RequestInvariance == Spec => []GInv
<1>1. Init => GInv
  <2> SUFFICES ASSUME Init PROVE GInv
    OBVIOUS
  <2>1. agent.messages = << >> /\ loop.pc # "model"
    BY DEF Init, IdleAgent, IdleLoop
  <2> QED
    BY <2>1, InitAInv, EmptyFormed DEF GInv, GivenOK
<1>2. GInv /\ [Next]_vars => GInv'
  <2> SUFFICES ASSUME GInv, [Next]_vars PROVE GInv'
    OBVIOUS
  <2>1. AInv /\ agent.messages \in Seq(Messages) /\ Formed(agent.messages) /\ GivenOK(loop)
    BY LoopFacts DEF GInv, LogOK
  <2>2. CASE Next
    <3>1. AInv' /\ Talks(agent.messages, agent'.messages)
      BY <2>1, <2>2, TurnKeeps, ToolsKeep, EnvironmentKeeps, TurnTalks, ToolsTalk, EnvironmentTalks DEF Next
    <3>2. Formed(agent'.messages)
      BY <2>1, <3>1, TalksFormed
    <3>3. GivenOK(loop')
      <4>1. \/ loop'.pc # "model" \/ loop' = loop
            \/ RequestModel \/ ForwardStreamEvent \/ Overflow
        BY <2>1, <2>2, TurnLeads, ToolsLead, EnvironmentLeads DEF Next
      <4> QED
        BY <2>1, <4>1, RequestLeads, ForwardLeads, OverflowLeads DEF GivenOK
    <3> QED
      BY <3>1, <3>2, <3>3 DEF GInv
  <2>3. CASE UNCHANGED vars
    <3>1. AInv'
      BY <2>1, <2>3 DEF vars, AInv
    <3>2. agent' = agent /\ loop' = loop
      BY <2>3 DEF vars
    <3> QED
      BY <2>1, <3>1, <3>2 DEF GInv
  <2> QED
    BY <2>2, <2>3
<1> QED
  BY <1>1, <1>2, PTL DEF Spec

\* loop.py:_stream_assistant_response, retry/compaction.py: while the Provider is asked, what it was
\* given, by either compactor or none, is a closed transcript with the last message of the Agent's
\* conversation, and every Tool Call of the conversation is in it or in its summary.
THEOREM RequestIsFaithfulHolds == Spec => []RequestIsFaithful
<1>1. ASSUME GInv PROVE RequestIsFaithful
  <2> SUFFICES ASSUME loop.pc = "model" PROVE loop.ctx = agent.messages /\ Faithful(loop)
    BY DEF RequestIsFaithful, Faithful, At
  <2>1. loop.ctx = agent.messages
    BY <1>1, LoopFacts DEF GInv, PlaceOK
  <2> QED
    BY <1>1, <2>1 DEF GInv, GivenOK
<1> QED
  BY <1>1, RequestInvariance, PTL

-----------------------------------------------------------------------------
(* The Run as the tracker records it *)

Settles == TerminalPhases \cup {"idle"}
LivePhases == {"running", "requesting_model", "retrying", "compacting", "executing_tools"}
RunPhases == LivePhases \cup Settles \cup {"routing", "waiting_approval", "outcome_unknown"}
Failures ==
    {"none", "process_interrupted", "model_error", "cancelled", "model_output_truncated",
     "approval_rejected", "outcome_unknown", "budget_exceeded"}
ToolPhases == OpenToolPhases \cup {"succeeded", "cancelled", "outcome_unknown", "failed"}
RunShape(r) ==
    /\ r \in [phase : RunPhases, failure : Failures, tools : {r.tools}, asking : BOOLEAN]
    /\ r.tools \in [DOMAIN r.tools -> ToolPhases]

\* The events that neither start nor end a Run and name no Tool Call.
PlainTypes ==
    {"turn_started", "model_request_started", "model_response_finished", "model_retry_scheduled",
     "model_retry_attempt_started", "model_retry_finished", "context_compaction_started",
     "context_compaction_finished", "turn_finished", "budget_exceeded"}

LEMMA PlainPhases ==
  ASSUME NEW t \in PlainTypes
  PROVE  PhaseAfter[t] \in LivePhases
  BY DEF PlainTypes, PhaseAfter, LivePhases

LEMMA FailureStays ==
  ASSUME NEW r, RunShape(r), NEW e, e.type \in PlainTypes
  PROVE  /\ FailureAfter(r, e) \in Failures
         /\ FailureAfter(r, e) = "none" => r.failure = "none"
         /\ FailureAfter(r, e) = "none" /\ e.type = "model_response_finished" =>
               e.info \notin {"error", "aborted", "length"}
         /\ e.type = "model_response_finished" /\ e.info \in {"error", "aborted"} =>
               FailureAfter(r, e) # "none"
  BY DEF PlainTypes, FailureAfter, RunShape, Failures

LEMMA LivesOn ==
  ASSUME NEW p \in LivePhases
  PROVE  p \in RunPhases /\ p \notin Settles \cup {"waiting_approval", "outcome_unknown"}
  BY DEF LivePhases, Settles, TerminalPhases, RunPhases

\* s is r after the plain event e.
Tracks(s, r, e) ==
    /\ RunShape(s) /\ s.tools = r.tools /\ s.phase \in LivePhases
    /\ s.failure = FailureAfter(r, e) /\ s.asking = Asking(r, e)

LEMMA PlainTracked ==
  ASSUME NEW r, RunShape(r), r.phase \notin Settles, NEW e, e.type \in PlainTypes, NEW b
  PROVE  ~Refuses(r, Converted(r, e, b)) /\ Tracks(Tracked(r, e, b), r, e)
<1>1. Converted(r, e, b) = <<e>>
  BY DEF Converted, PlainTypes
<1>2. ~Rejects(r, e)
  BY DEF Rejects, PlainTypes, Settles, ToolEvents, ToolPhaseAfter
<1>3. ~Refuses(r, Converted(r, e, b))
  BY <1>1, <1>2 DEF Refuses
<1> DEFINE t == [r EXCEPT !.phase = PhaseAfter[e.type], !.failure = FailureAfter(r, e)]
<1>4. Reduce(r, e) = t
  BY DEF Reduce, PlainTypes, ToolPhaseAfter
<1>5. RunShape(t) /\ t.tools = r.tools /\ t.phase \in LivePhases /\ t.failure = FailureAfter(r, e)
  BY PlainPhases, LivesOn, FailureStays DEF RunShape
<1> HIDE DEF t
<1>6. Asking(r, e) \in BOOLEAN
  BY DEF Asking, RunShape
<1>7. Tracked(r, e, b) = [t EXCEPT !.asking = Asking(r, e)]
  BY <1>1, <1>4 DEF Tracked
<1> QED
  BY <1>3, <1>5, <1>6, <1>7 DEF Tracks, RunShape

\* s is r after an event of a Tool Call, that leaves the calls D known and those of O open.
OpenIn(f) == {c \in DOMAIN f : f[c] \in OpenToolPhases}
Calls(s, r, D, O) ==
    /\ RunShape(s) /\ s.phase \in LivePhases /\ s.failure = r.failure /\ s.asking = r.asking
    /\ DOMAIN s.tools = D /\ OpenTools(s) = O

CallEvent(e) == e.type \in {"tool_started", "tool_finished"} \cup DOMAIN ToolPhaseAfter
ReducesTo(r, e, p, f) == Reduce(r, e) = [r EXCEPT !.phase = p, !.tools = f] /\ p \in LivePhases
ToolMap(f, D) == f \in [D -> ToolPhases]

LEMMA CallTracked ==
  ASSUME NEW r, RunShape(r), NEW e, CallEvent(e), NEW b, NEW D, NEW f, ToolMap(f, D), NEW p, ReducesTo(r, e, p, f)
  PROVE  /\ Converted(r, e, b) = <<e>>
         /\ Calls(Tracked(r, e, b), r, D, OpenIn(f))
<1>1. Converted(r, e, b) = <<e>>
  BY DEF Converted, ToolPhaseAfter, CallEvent
<1> DEFINE t == [r EXCEPT !.phase = p, !.tools = f]
<1>2. RunShape(t) /\ t.tools = f /\ t.phase = p /\ t.failure = r.failure /\ t.asking = r.asking
  <2>1. p \in RunPhases
    BY LivesOn DEF ReducesTo
  <2>2. f \in [DOMAIN f -> ToolPhases]
    BY DEF ToolMap
  <2> QED
    BY <2>1, <2>2 DEF RunShape
<1> HIDE DEF t
<1>3. Asking(r, e) = r.asking
  BY DEF Asking, ToolPhaseAfter, CallEvent
<1>4. Tracked(r, e, b) = [t EXCEPT !.asking = Asking(r, e)]
  BY <1>1 DEF Tracked, t, ReducesTo
<1>5. Tracked(r, e, b) = t
  BY <1>2, <1>3, <1>4 DEF RunShape
<1>6. p \in LivePhases /\ DOMAIN f = D
  BY DEF ReducesTo, ToolMap
<1> QED
  BY <1>1, <1>2, <1>5, <1>6 DEF Calls, OpenTools, OpenIn

LEMMA StartTracked ==
  ASSUME NEW r, RunShape(r), r.phase \notin Settles, NEW c, NEW x, NEW e, e = ToolEvent("tool_started", c, x), NEW b
  PROVE  /\ c \notin DOMAIN r.tools => ~Refuses(r, Converted(r, e, b))
         /\ ~Refuses(r, Converted(r, e, b)) =>
               c \notin DOMAIN r.tools
               /\ Calls(Tracked(r, e, b), r, DOMAIN r.tools \cup {c}, OpenTools(r) \cup {c})
<1> DEFINE f == WithQueued(r.tools, c)
<1>1. e.type = "tool_started" /\ e.call = c
  BY DEF ToolEvent
<1>2. Rejects(r, e) <=> c \in DOMAIN r.tools
  BY <1>1 DEF Rejects, Settles, ToolEvents, ToolPhaseAfter
<1>3. Reduce(r, e) = [r EXCEPT !.phase = "executing_tools", !.tools = f]
  <2>1. PhaseAfter["tool_started"] = "executing_tools"
    BY DEF PhaseAfter
  <2>2. Reduce(r, e) = [r EXCEPT !.phase = PhaseAfter[e.type], !.tools = WithQueued(r.tools, e.call)]
    BY <1>1 DEF Reduce, ToolPhaseAfter
  <2> QED
    BY <1>1, <2>1, <2>2
<1>4. /\ f \in [DOMAIN r.tools \cup {c} -> ToolPhases] /\ \A y \in DOMAIN r.tools : f[y] = r.tools[y]
      /\ c \notin DOMAIN r.tools => f[c] = "queued"
  BY DEF RunShape, ToolPhases, OpenToolPhases, WithQueued
<1> HIDE DEF f
<1>5. DOMAIN f = DOMAIN r.tools \cup {c} /\ "executing_tools" \in LivePhases
  BY <1>4 DEF LivePhases
<1>6. /\ Converted(r, e, b) = <<e>>
      /\ Calls(Tracked(r, e, b), r, DOMAIN r.tools \cup {c}, OpenIn(f))
  <2>1. CallEvent(e)
    BY <1>1 DEF CallEvent
  <2>2. ReducesTo(r, e, "executing_tools", f)
    BY <1>3, <1>5 DEF ReducesTo
  <2>3. ToolMap(f, DOMAIN r.tools \cup {c})
    BY <1>4 DEF ToolMap
  <2> QED
    BY <2>1, <2>2, <2>3, CallTracked
<1>7. c \notin DOMAIN r.tools => OpenIn(f) = OpenTools(r) \cup {c}
  BY <1>4, <1>5 DEF OpenTools, OpenToolPhases, OpenIn
<1> QED
  <2>1. Refuses(r, Converted(r, e, b)) <=> Rejects(r, e)
    BY <1>6 DEF Refuses
  <2> QED
    BY <1>2, <1>5, <1>6, <1>7, <2>1

LEMMA StepTracked ==
  ASSUME NEW r, RunShape(r), r.phase \notin Settles, NEW c, NEW x,
         NEW t \in {"tool_dispatch_started", "tool_retry_scheduled"}, NEW e, e = ToolEvent(t, c, x), NEW b
  PROVE  /\ c \in OpenTools(r) => ~Refuses(r, Converted(r, e, b))
         /\ ~Refuses(r, Converted(r, e, b)) => Calls(Tracked(r, e, b), r, DOMAIN r.tools, OpenTools(r))
<1> DEFINE f == [r.tools EXCEPT ![c] = ToolPhaseAfter[t]]
<1>1. e.type = t /\ e.call = c /\ t \in DOMAIN ToolPhaseAfter /\ ToolPhaseAfter[t] \in OpenToolPhases
  BY DEF ToolEvent, ToolPhaseAfter, OpenToolPhases
<1>2. Rejects(r, e) <=> c \notin OpenTools(r)
  BY <1>1 DEF Rejects, Settles, ToolEvents
<1>3. Reduce(r, e) = [r EXCEPT !.phase = "executing_tools", !.tools = f]
  <2>1. Reduce(r, e) = [r EXCEPT !.phase = "executing_tools", !.tools[e.call] = ToolPhaseAfter[e.type]]
    BY <1>1 DEF Reduce
  <2> QED
    BY <1>1, <2>1 DEF RunShape
<1>4. f \in [DOMAIN r.tools -> ToolPhases] /\ DOMAIN f = DOMAIN r.tools
  BY <1>1 DEF RunShape, ToolPhases
<1>5. \A y \in DOMAIN r.tools : f[y] = IF y = c THEN ToolPhaseAfter[t] ELSE r.tools[y]
  BY DEF RunShape
<1> HIDE DEF f
<1>6. "executing_tools" \in LivePhases
  BY DEF LivePhases
<1>7. /\ Converted(r, e, b) = <<e>>
      /\ Calls(Tracked(r, e, b), r, DOMAIN r.tools, OpenIn(f))
  <2>1. CallEvent(e)
    BY <1>1 DEF CallEvent
  <2>2. ReducesTo(r, e, "executing_tools", f)
    BY <1>3, <1>6 DEF ReducesTo
  <2>3. ToolMap(f, DOMAIN r.tools)
    BY <1>4 DEF ToolMap
  <2> QED
    BY <2>1, <2>2, <2>3, CallTracked
<1>8. c \in OpenTools(r) => OpenIn(f) = OpenTools(r)
  BY <1>1, <1>4, <1>5 DEF OpenTools, OpenIn
<1> QED
  <2>1. Refuses(r, Converted(r, e, b)) <=> Rejects(r, e)
    BY <1>7 DEF Refuses
  <2> QED
    BY <1>2, <1>4, <1>7, <1>8, <2>1

LEMMA FinishTracked ==
  ASSUME NEW r, RunShape(r), r.phase \notin Settles, NEW c, NEW x, NEW e, e = ToolEvent("tool_finished", c, x), NEW b
  PROVE  /\ c \in OpenTools(r) => ~Refuses(r, Converted(r, e, b))
         /\ ~Refuses(r, Converted(r, e, b)) => Calls(Tracked(r, e, b), r, DOMAIN r.tools, OpenTools(r) \ {c})
<1> DEFINE f == [r.tools EXCEPT ![c] = FinishedPhase(x)]
           p == IF \E y \in DOMAIN f : f[y] \in OpenToolPhases THEN "executing_tools" ELSE "running"
<1>1. e.type = "tool_finished" /\ e.call = c /\ e.info = x
  BY DEF ToolEvent
<1>0. FinishedPhase(x) \in ToolPhases \ OpenToolPhases
  BY DEF FinishedPhase, ToolPhases, OpenToolPhases
<1>2. Rejects(r, e) <=> c \notin OpenTools(r)
  BY <1>1 DEF Rejects, Settles, ToolEvents
<1>3. Reduce(r, e) = [r EXCEPT !.phase = p, !.tools = f]
  BY <1>1 DEF Reduce, ToolPhaseAfter
<1>4. f \in [DOMAIN r.tools -> ToolPhases] /\ DOMAIN f = DOMAIN r.tools
  BY <1>0 DEF RunShape
<1>5. \A y \in DOMAIN r.tools : f[y] = IF y = c THEN FinishedPhase(x) ELSE r.tools[y]
  BY DEF RunShape
<1> HIDE DEF f
<1>6. p \in LivePhases
  BY DEF LivePhases
<1> HIDE DEF p
<1>7. /\ Converted(r, e, b) = <<e>>
      /\ Calls(Tracked(r, e, b), r, DOMAIN r.tools, OpenIn(f))
  <2>1. CallEvent(e)
    BY <1>1 DEF CallEvent
  <2>2. ReducesTo(r, e, p, f)
    BY <1>3, <1>6 DEF ReducesTo
  <2>3. ToolMap(f, DOMAIN r.tools)
    BY <1>4 DEF ToolMap
  <2> QED
    BY <2>1, <2>2, <2>3, CallTracked
<1>8. c \in OpenTools(r) => OpenIn(f) = OpenTools(r) \ {c}
  BY <1>0, <1>4, <1>5 DEF OpenTools, OpenIn
<1> QED
  <2>1. Refuses(r, Converted(r, e, b)) <=> Rejects(r, e)
    BY <1>7 DEF Refuses
  <2> QED
    BY <1>2, <1>4, <1>7, <1>8, <2>1

LEMMA SilentTracked ==
  ASSUME NEW r, RunShape(r), NEW e, NEW b, Converted(r, e, b) = << >>, Asking(r, e) = r.asking
  PROVE  ~Refuses(r, Converted(r, e, b)) /\ Tracked(r, e, b) = r
<1>1. Tracked(r, e, b) = [r EXCEPT !.asking = r.asking]
  BY DEF Tracked
<1> QED
  BY <1>1 DEF Refuses, RunShape

LEMMA MessageTracked ==
  ASSUME NEW r, RunShape(r), NEW b
  PROVE  LET e == Event("message") IN ~Refuses(r, Converted(r, e, b)) /\ Tracked(r, e, b) = r
<1> DEFINE e == Event("message")
<1>1. Converted(r, e, b) = << >> /\ Asking(r, e) = r.asking
  BY DEF Event, Converted, Asking
<1> HIDE DEF e
<1> QED
  BY <1>1, SilentTracked DEF e

\* A Run that was just started.
Started(s, asking) ==
    RunShape(s) /\ s.phase = "running" /\ s.failure = "none" /\ s.tools = << >> /\ s.asking = asking

LEMMA NoTools == << >> \in [DOMAIN << >> -> ToolPhases] /\ DOMAIN << >> = {}
  OBVIOUS

LEMMA RunStarted ==
  ASSUME NEW r, RunShape(r)
  PROVE  Started(Reduce(r, Event("run_started")), r.asking)
<1>1. Reduce(r, Event("run_started")) = [NoRun EXCEPT !.phase = "running", !.asking = r.asking]
  BY DEF Reduce, Event, ToolPhaseAfter
<1>2. r.asking \in BOOLEAN
  BY DEF RunShape
<1> QED
  BY <1>1, <1>2, NoTools DEF NoRun, Started, RunShape, RunPhases, LivePhases, Failures

LEMMA AgentStartTracked ==
  ASSUME NEW r, RunShape(r), NEW b
  PROVE  LET e == Event("agent_start") IN
         /\ ~Refuses(r, Converted(r, e, b))
         /\ IF r.phase \in Settles THEN Started(Tracked(r, e, b), r.asking) ELSE Tracked(r, e, b) = r
<1> DEFINE e == Event("agent_start")
           s == Reduce(r, Event("run_started"))
<1>1. e.type = "agent_start" /\ Asking(r, e) = r.asking
  BY DEF Event, Asking
<1>2. CASE r.phase \in Settles
  <2>1. Converted(r, e, b) = <<Event("run_started")>>
    BY <1>1, <1>2 DEF Converted, Terminal, Settles
  <2>2. ~Rejects(r, Event("run_started"))
    BY <1>2 DEF Rejects, Event, Settles, ToolEvents, ToolPhaseAfter
  <2>3. Started(s, r.asking)
    BY RunStarted
  <2>4. Tracked(r, e, b) = [s EXCEPT !.asking = r.asking]
    BY <1>1, <2>1 DEF Tracked
  <2> HIDE DEF s, e
  <2>5. Tracked(r, e, b) = s
    BY <2>3, <2>4 DEF Started, RunShape
  <2> QED
    BY <1>2, <2>1, <2>2, <2>3, <2>5 DEF Refuses, e
<1>3. CASE r.phase \notin Settles
  <2>1. Converted(r, e, b) = << >>
    BY <1>1, <1>3 DEF Converted, Terminal, Settles
  <2> HIDE DEF e
  <2> QED
    BY <1>1, <1>3, <2>1, SilentTracked DEF e
<1> QED
  BY <1>2, <1>3

\* s is r, finished.
EndOf(s, r) ==
    /\ RunShape(s) /\ s.phase \in {"completed", "cancelled", "failed"} /\ s.asking = r.asking
    /\ s.tools = r.tools
    /\ s.phase = "completed" => r.failure = "none" /\ OpenTools(r) = {} /\ OpenTools(s) = {}

LEMMA FinishEnds ==
  ASSUME NEW r, RunShape(r), r.phase \notin Settles, NEW x, NEW e, e = ToolEvent("run_finished", 0, x)
  PROVE  /\ Rejects(r, e) <=> FinalPhase(r, x) = "completed" /\ OpenTools(r) # {}
         /\ FinalPhase(r, x) = "completed" => r.failure = "none"
         /\ ~Rejects(r, e) => EndOf(Reduce(r, e), r)
<1>1. e.type = "run_finished" /\ e.info = x
  BY DEF ToolEvent
<1>2. Rejects(r, e) <=> FinalPhase(r, x) = "completed" /\ OpenTools(r) # {}
  BY <1>1 DEF Rejects, Settles, ToolEvents, ToolPhaseAfter
<1>3. /\ FinalPhase(r, x) \in {"completed", "cancelled", "failed"}
      /\ FinalPhase(r, x) = "completed" => r.failure = "none"
  BY DEF FinalPhase
<1> DEFINE p == FinalPhase(r, x)
           t == [r EXCEPT !.phase = p]
<1>4. Reduce(r, e) = t
  BY <1>1 DEF Reduce, ToolPhaseAfter
<1>5. p \in RunPhases
  BY <1>3 DEF RunPhases, Settles, TerminalPhases
<1> HIDE DEF p
<1>6. RunShape(t) /\ t.phase = p /\ t.tools = r.tools /\ t.asking = r.asking
  BY <1>5 DEF RunShape
<1> HIDE DEF t
<1>7. OpenTools(t) = OpenTools(r)
  BY <1>6 DEF OpenTools
<1> QED
  BY <1>2, <1>3, <1>4, <1>6, <1>7 DEF EndOf, p

LEMMA AgentEndTracked ==
  ASSUME NEW r, RunShape(r), r.phase \notin Settles, NEW b
  PROVE  LET e == Event("agent_end") IN
         /\ OpenTools(r) = {} \/ r.failure # "none" => ~Refuses(r, Converted(r, e, b))
         /\ ~Refuses(r, Converted(r, e, b)) => EndOf(Tracked(r, e, b), r)
<1> DEFINE e == Event("agent_end")
           x == CASE b \/ r.failure = "cancelled" -> "cancelled"
                  [] r.failure # "none" -> "failed"
                  [] OTHER -> "completed"
           g == ToolEvent("run_finished", 0, x)
           s == Reduce(r, g)
<1>1. Converted(r, e, b) = <<g>> /\ Asking(r, e) = r.asking
  BY DEF Event, Asking, Converted
<1> HIDE DEF x
<1>2. /\ Rejects(r, g) <=> FinalPhase(r, x) = "completed" /\ OpenTools(r) # {}
      /\ FinalPhase(r, x) = "completed" => r.failure = "none"
      /\ ~Rejects(r, g) => EndOf(s, r)
  BY FinishEnds
<1>3. Tracked(r, e, b) = [s EXCEPT !.asking = r.asking]
  BY <1>1 DEF Tracked
<1> HIDE DEF e, g, s
<1>4. EndOf(s, r) => Tracked(r, e, b) = s
  BY <1>3 DEF EndOf, RunShape
<1>5. Refuses(r, Converted(r, e, b)) <=> Rejects(r, g)
  BY <1>1 DEF Refuses
<1> QED
  BY <1>2, <1>4, <1>5 DEF e

\* The start of a failed Turn's message: a request, unless one is open.
LEMMA FailStartTracked ==
  ASSUME NEW r, RunShape(r), r.asking => r.phase \notin Settles, NEW b
  PROVE  LET e == Event("assistant_start") IN
         /\ Refuses(r, Converted(r, e, b)) <=> r.phase \in Settles
         /\ r.phase \in LivePhases => /\ RunShape(Tracked(r, e, b)) /\ Tracked(r, e, b).phase \in LivePhases
                                      /\ Tracked(r, e, b).asking = r.asking
<1> DEFINE e == Event("assistant_start")
           g == Event("model_request_started")
           s == Reduce(r, g)
<1>1. e.type = "assistant_start" /\ Asking(r, e) = r.asking /\ g.type = "model_request_started"
  BY DEF Event, Asking
<1>2. CASE r.asking
  <2>1. Converted(r, e, b) = << >>
    BY <1>1, <1>2 DEF Converted
  <2> HIDE DEF e
  <2> QED
    BY <1>1, <1>2, <2>1, SilentTracked DEF e
<1>3. CASE ~r.asking
  <2>1. Converted(r, e, b) = <<g>>
    BY <1>1, <1>3 DEF Converted
  <2>2. Rejects(r, g) <=> r.phase \in Settles
    BY <1>1 DEF Rejects, Settles, ToolEvents, ToolPhaseAfter
  <2> DEFINE t == [r EXCEPT !.phase = PhaseAfter[g.type], !.failure = FailureAfter(r, g)]
  <2>3. s = t
    BY <1>1 DEF Reduce, ToolPhaseAfter
  <2>4. g.type \in PlainTypes
    BY <1>1 DEF PlainTypes
  <2> HIDE DEF g, e
  <2>5. RunShape(t) /\ t.phase \in LivePhases
    BY <2>4, PlainPhases, LivesOn, FailureStays DEF RunShape
  <2> HIDE DEF t, s
  <2>6. Tracked(r, e, b) = [s EXCEPT !.asking = r.asking]
    BY <1>1, <2>1 DEF Tracked, s
  <2>7. /\ RunShape(Tracked(r, e, b)) /\ Tracked(r, e, b).phase \in LivePhases
        /\ Tracked(r, e, b).asking = r.asking
    BY <2>3, <2>5, <2>6 DEF RunShape
  <2> QED
    BY <2>1, <2>2, <2>7 DEF Refuses, e
<1> QED
  BY <1>2, <1>3 DEF RunShape

-----------------------------------------------------------------------------
(* The last answer of the model *)

LEMMA LargestExists ==
  ASSUME NEW n \in Nat, NEW I \in SUBSET (1 .. n), I # {}
  PROVE  \E i \in I : \A j \in I : j <= i
<1> DEFINE Good(m) == (\A j \in I : j > m) \/ \E i \in I : i <= m /\ \A j \in I : j <= m => j <= i
           T == {m \in Nat : Good(m)}
<1>1. 0 \in T
  OBVIOUS
<1>2. ASSUME NEW m \in T PROVE m + 1 \in T
  <2>1. m \in Nat /\ Good(m)
    OBVIOUS
  <2>2. CASE m + 1 \in I
    BY <2>1, <2>2
  <2>3. CASE m + 1 \notin I
    <3>1. \A j \in I : j \in Nat /\ (j > m => j > m + 1) /\ (j <= m + 1 => j <= m)
      BY <2>1, <2>3
    <3> QED
      BY <2>1, <3>1
  <2> QED
    BY <2>2, <2>3
<1>3. n \in T
  <2>1. T \in SUBSET Nat
    OBVIOUS
  <2> HIDE DEF T
  <2> QED
    BY <1>1, <1>2, <2>1, SetInduction
<1>4. Good(n)
  BY <1>3
<1>5. PICK k \in I : TRUE
  OBVIOUS
<1>6. \A j \in I : j \in Nat /\ j <= n /\ ~(j > n)
  OBVIOUS
<1> QED
  BY <1>4, <1>5, <1>6

Replies(M) == {i \in DOMAIN M : M[i].role = "assistant"}

LEMMA LastReplyAt ==
  ASSUME NEW M \in Seq(Messages)
  PROVE  /\ Replies(M) = {} => LastReply(M) = NoReply
         /\ \A i \in Replies(M) : (\A j \in Replies(M) : j <= i) => LastReply(M) = M[i]
         /\ Replies(M) # {} => \E i \in Replies(M) : \A j \in Replies(M) : j <= i
<1> DEFINE I == Replies(M)
<1>1. LastReply(M) = IF I = {} THEN NoReply ELSE M[CHOOSE i \in I : \A j \in I : j <= i]
  BY DEF LastReply, Replies
<1>2. I \in SUBSET (1 .. Len(M)) /\ Len(M) \in Nat
  BY DEF Replies
<1> HIDE DEF I
<1>3. I # {} => \E i \in I : \A j \in I : j <= i
  BY <1>2, LargestExists
<1>4. ASSUME NEW i \in I, \A j \in I : j <= i PROVE LastReply(M) = M[i]
  <2>1. \A k \in I : (\A j \in I : j <= k) => k = i
    BY <1>2, <1>4
  <2>2. (CHOOSE k \in I : \A j \in I : j <= k) = i
    BY <1>4, <2>1
  <2> QED
    BY <1>1, <1>4, <2>2
<1> QED
  BY <1>1, <1>3, <1>4 DEF I

LEMMA ReplySaid ==
  ASSUME NEW M \in Seq(Messages), NEW m \in Messages
  PROVE  LastReply(Append(M, m)) = IF m.role = "assistant" THEN m ELSE LastReply(M)
<1> DEFINE L == Append(M, m)
           k == Len(M) + 1
<1>1. /\ k \in Nat /\ DOMAIN M = 1 .. Len(M) /\ DOMAIN L = 1 .. k /\ L[k] = m
      /\ \A i \in 1 .. Len(M) : L[i] = M[i]
      /\ Len(M) \in Nat /\ L \in Seq(Messages)
  OBVIOUS
<1>2. \A i \in 1 .. k : i = k \/ i \in 1 .. Len(M)
  BY <1>1
<1>3. k \in 1 .. k /\ \A i \in 1 .. Len(M) : i \in 1 .. k /\ i <= k
  BY <1>1
<1> HIDE DEF L, k
<1>4. CASE m.role = "assistant"
  <2>1. k \in Replies(L) /\ \A j \in Replies(L) : j <= k
    BY <1>1, <1>2, <1>3, <1>4 DEF Replies
  <2> QED
    BY <1>1, <1>4, <2>1, LastReplyAt DEF L
<1>5. CASE m.role # "assistant"
  <2>1. Replies(L) = Replies(M)
    BY <1>1, <1>2, <1>3, <1>5 DEF Replies
  <2>2. \A i \in Replies(M) : L[i] = M[i]
    BY <1>1 DEF Replies
  <2>3. CASE Replies(M) = {}
    BY <1>1, <1>5, <2>1, <2>3, LastReplyAt DEF L
  <2>4. CASE Replies(M) # {}
    <3>1. PICK i \in Replies(M) : \A j \in Replies(M) : j <= i
      BY <2>4, LastReplyAt
    <3>2. LastReply(M) = M[i] /\ LastReply(L) = L[i]
      BY <1>1, <2>1, <3>1, LastReplyAt
    <3> QED
      BY <1>5, <2>2, <3>2 DEF L
  <2> QED
    BY <2>3, <2>4
<1> QED
  BY <1>4, <1>5

LEMMA ReplyAnswered ==
  ASSUME NEW M \in Seq(Messages), NEW s \in Seq(Results)
  PROVE  LastReply(M \o s) = LastReply(M)
<1> DEFINE L == M \o s
<1>1. /\ L \in Seq(Messages) /\ \A i \in DOMAIN M : i \in DOMAIN L /\ L[i] = M[i]
      /\ \A i \in DOMAIN L : i \in DOMAIN M \/ (i - Len(M) \in DOMAIN s /\ L[i] = s[i - Len(M)])
  BY IdsAnswered
<1> HIDE DEF L
<1>2. ASSUME NEW j \in DOMAIN s PROVE s[j].role # "assistant"
  <2>1. s[j] \in Results
    OBVIOUS
  <2> QED
    BY <2>1 DEF Results
<1>3. Replies(L) = Replies(M) /\ \A i \in Replies(M) : L[i] = M[i]
  BY <1>1, <1>2 DEF Replies
<1>4. CASE Replies(M) = {}
  BY <1>1, <1>3, <1>4, LastReplyAt DEF L
<1>5. CASE Replies(M) # {}
  <2>1. PICK i \in Replies(M) : \A j \in Replies(M) : j <= i
    BY <1>5, LastReplyAt
  <2>2. LastReply(M) = M[i] /\ LastReply(L) = L[i]
    BY <1>1, <1>3, <2>1, LastReplyAt
  <2> QED
    BY <1>3, <2>2 DEF L
<1> QED
  BY <1>4, <1>5

-----------------------------------------------------------------------------
(* What the Run says of the loop *)

Failing == {"fail", "fail_start", "fail_message", "fail_turn", "fail_end"}
Between == AtRest \cup {"agent_start"}
Inside == Places \ (Between \cup Failing)
Running == {"refuse", "guard", "tools"}
OnReply(l) ==
    \/ l.pc \in {"deny", "refuse", "guard", "tools", "results", "turn_end", "after", "agent_end"}
    \/ l.pc = "turn" /\ ~l.first
GoodReply(M) == LastReply(M).stop \in {"none", "stop"}
Unfinished(l) == {c \in ToSet(l.reply.calls) : l.call[c].phase \notin {"new", "ended"}}
Mirrors(r, l, M) ==
    /\ DOMAIN r.tools \subseteq CallIds(M)
    /\ l.pc \in Running =>
          /\ \A c \in ToSet(l.reply.calls) : l.call[c].phase = "new" => c \notin DOMAIN r.tools
          /\ OpenTools(r) = Unfinished(l)
    /\ l.pc = "deny" => \A c \in ToSet(l.reply.calls) : c \notin DOMAIN r.tools
    /\ l.pc \notin Running => OpenTools(r) = {}
Pristine(r) == r.tools = << >> /\ r.failure = "none"

\* The Run that a failed record of the router or of an approval leaves open.
Leaves(r, f, d) == d.routed /\ f # 0 /\ r.phase \in {"running", "routing"} /\ r.tools = << >>

\* The Run r of a loop at l with the messages M, after f faults.
Truth(r, l, M, f, d) ==
    /\ RunShape(r)
    /\ r.asking => l.pc \in {"model", "reply", "fail", "fail_start", "fail_message"} /\ r.phase \notin Settles
    /\ r.phase = "waiting_approval" => Pristine(r)
    /\ ~d.routed => r.phase \notin {"waiting_approval", "outcome_unknown"}
    /\ r.phase = "completed" => OpenTools(r) = {} /\ (~d.routed => GoodReply(M) /\ l.reply = NoReply)
    /\ l.pc = "idle" => r.phase \in Settles \cup {"waiting_approval", "outcome_unknown"} \/ Leaves(r, f, d)
    /\ l.pc = "routing" => r.phase = "routing" /\ Pristine(r) /\ d.routed
    /\ l.pc \in {"route_open", "route_agent"} => r.phase = "running" /\ Pristine(r) /\ d.routed
    /\ l.pc \in Settlings => r.phase \in {"running", "waiting_approval"} /\ r.tools = << >> /\ d.routed
    /\ l.pc = "settle_approval" => Pristine(r)
    /\ l.pc = "agent_start" => IF d.routed THEN r.phase = "running" /\ Pristine(r) ELSE r.phase \in Settles
    /\ l.pc \in {"fail", "fail_start"} => r.phase \in LivePhases \cup Settles
    /\ l.pc \notin Between \cup {"fail", "fail_start"} => r.phase \in LivePhases
    /\ OnReply(l) /\ r.failure = "none" => GoodReply(M)
    /\ l.pc \in {"fail_turn", "fail_end"} => r.failure # "none"
    /\ l.pc \in Failing => f # 0
    /\ f = 0 /\ l.pc \notin Between => Mirrors(r, l, M)
TInv == AInv /\ faults \in Nat /\ Truth(run, loop, agent.messages, faults, dep)
TruthNext == faults' \in Nat /\ Truth(run', loop', agent'.messages, faults', dep)

\* Truth inside a run, and after a failure of it.
Live(r, l, M, f) ==
    /\ RunShape(r) /\ r.phase \in LivePhases
    /\ r.asking => l.pc \in {"model", "reply"}
    /\ OnReply(l) /\ r.failure = "none" => GoodReply(M)
    /\ f = 0 => Mirrors(r, l, M)
Failed(r, M, f, d) ==
    /\ RunShape(r) /\ r.phase \in LivePhases \cup Settles
    /\ r.asking => r.phase \notin Settles
    /\ r.phase = "completed" => OpenTools(r) = {} /\ (~d.routed => GoodReply(M))
    /\ f # 0

LEMMA InsideFacts ==
  ASSUME NEW l, l.pc \in Inside
  PROVE  l.pc \notin Between \cup Failing
  BY DEF Inside

LEMMA LiveTrue ==
  ASSUME NEW r, NEW l, l.pc \in Inside, NEW M, NEW f, NEW d, Live(r, l, M, f)
  PROVE  Truth(r, l, M, f, d)
<1>1. l.pc \notin Between \cup Failing
  BY InsideFacts
<1>2. r.phase \notin Settles \cup {"waiting_approval", "outcome_unknown"}
  BY LivesOn DEF Live
<1>3. r.phase # "completed"
  BY <1>2 DEF Settles, TerminalPhases
<1> QED
  BY <1>1, <1>2, <1>3 DEF Live, Truth, Between, Failing, AtRest, Routes, Settlings

LEMMA TrueLive ==
  ASSUME TInv, loop.pc \in Inside
  PROVE  Live(run, loop, agent.messages, faults)
  BY InsideFacts DEF TInv, Truth, Live, Between, Failing, AtRest, Routes, Settlings

LEMMA FailedTrue ==
  ASSUME NEW r, NEW b \in BOOLEAN, NEW M, NEW f, NEW d, Failed(r, M, f, d)
  PROVE  Truth(r, FailLoop(b), M, f, d)
<1> DEFINE l == FailLoop(b)
<1>1. l = FreshLoop("fail", b)
  BY FailIsFresh
<1>2. l.pc = "fail" /\ l.reply = NoReply
  BY <1>1 DEF FreshLoop
<1> HIDE DEF l
<1>3. r.phase \notin {"waiting_approval", "outcome_unknown"}
  BY DEF Failed, LivePhases, Settles, TerminalPhases
<1> QED
  BY <1>2, <1>3 DEF Failed, Truth, OnReply, Between, AtRest, Routes, Settlings, l

LEMMA RaiseTrue ==
  ASSUME AInv, ~InCleanup, NEW kind, NEW a, Raise(kind, a), faults' \in Nat,
         Failed(run', a.messages, faults', dep)
  PROVE  TruthNext
<1> DEFINE b == token \/ kind = "cancel"
<1>1. agent' = a /\ loop' = FailLoop(b)
  BY DEF Raise, FailLoop
<1>2. b \in BOOLEAN
  OBVIOUS
<1> HIDE DEF b
<1> QED
  BY <1>1, <1>2, FailedTrue DEF TruthNext

LEMMA InsideRuns ==
  ASSUME loop.pc \in Inside
  PROVE  ~InCleanup
  BY DEF Inside, Failing, InCleanup

LEMMA LiveFailed ==
  ASSUME NEW r, RunShape(r), r.phase \in LivePhases, NEW M, NEW f, f # 0, NEW d
  PROVE  Failed(r, M, f, d)
<1>1. r.phase \notin Settles
  BY LivesOn
<1>2. r.phase # "completed"
  BY <1>1 DEF Settles, TerminalPhases
<1> QED
  BY <1>1, <1>2 DEF Failed

-----------------------------------------------------------------------------
(* What an event may lead to *)

Ok(e) == ~Refuses(run, Converted(run, e, token))
Written(e) == run' = run \/ (Ok(e) /\ run' = Tracked(run, e, token))
EmitGoes(e, a, l) ==
    Ok(e) /\ run' = Tracked(run, e, token) /\ agent' = a /\ loop' = l /\ faults' = faults
EmitRefused(e, a) == ~Ok(e) /\ run' = run /\ faults' = faults /\ \E k : Raise(k, a)
EmitStruck(e, a) == Written(e) /\ faults < MaxFaults /\ faults' = faults + 1 /\ \E k : Raise(k, a)

LEMMA FaultFacts ==
  ASSUME NEW f \in Faults, Struck(f)
  PROVE  \/ f = Calm /\ f.raise = "none" /\ f.stored /\ faults' = faults
         \/ f.raise \in {"error", "cancel"} /\ f.stored \in BOOLEAN /\ faults < MaxFaults /\ faults' = faults + 1
<1>1. CASE f = Calm
  BY <1>1 DEF Calm, Struck
<1>2. CASE f # Calm
  BY <1>2 DEF Faults, Struck
<1> QED
  BY <1>1, <1>2

LEMMA EmitCases ==
  ASSUME NEW e, NEW a, NEW l, Emit(e, a, l)
  PROVE  EmitGoes(e, a, l) \/ EmitRefused(e, a) \/ EmitStruck(e, a)
<1> DEFINE refused(f) == f.stored /\ Refuses(run, Converted(run, e, token))
<1>1. PICK f \in Faults :
         /\ Struck(f)
         /\ run' = IF f.stored /\ ~refused(f) THEN Tracked(run, e, token) ELSE run
         /\ IF f.raise # "none" THEN Raise(f.raise, a)
            ELSE IF refused(f) THEN Raise("error", a)
            ELSE agent' = a /\ loop' = l /\ UNCHANGED <<token, lost>>
  BY DEF Emit
<1>2. CASE f = Calm /\ f.raise = "none" /\ f.stored /\ faults' = faults
  BY <1>1, <1>2 DEF EmitGoes, EmitRefused, Ok
<1>3. CASE f.raise \in {"error", "cancel"} /\ f.stored \in BOOLEAN /\ faults < MaxFaults /\ faults' = faults + 1
  <2>1. Raise(f.raise, a)
    BY <1>1, <1>3
  <2>2. Written(e)
    BY <1>1, <1>3 DEF Written, Ok
  <2> QED
    BY <1>3, <2>1, <2>2 DEF EmitStruck
<1> QED
  BY <1>1, <1>2, <1>3, FaultFacts

EndGoes(e, l) == agent'.messages = agent.messages /\ loop' = l
                 /\ \/ Ok(e) /\ run' = Tracked(run, e, token) /\ faults' = faults
                    \/ ~Ok(e) /\ run' = run /\ faults' = faults
                    \/ Written(e) /\ faults' = faults + 1
LEMMA EndCases ==
  ASSUME agent \in Agents, NEW c, NEW kind, NEW code, NEW l, EmitToolEnd(c, kind, code, l),
         NEW e, e = ToolEvent("tool_finished", c, code)
  PROVE  \/ EndGoes(e, l)
         \/ \E a : a.messages = agent.messages /\ EmitStruck(e, a)
<1> DEFINE refused(f) == f.stored /\ Refuses(run, Converted(run, e, token))
           a == [agent EXCEPT !.staged = @ \cup {ToolResult(c, kind)}]
<1>1. PICK f \in Faults :
         /\ Struck(f)
         /\ run' = IF f.stored /\ ~refused(f) THEN Tracked(run, e, token) ELSE run
         /\ IF f.raise = "cancel" THEN Raise("cancel", a)
            ELSE agent' = a /\ loop' = l /\ UNCHANGED <<token, lost>>
  BY DEF EmitToolEnd
<1>2. a.messages = agent.messages
  BY DEF Agents
<1> HIDE DEF a
<1>3. CASE f = Calm /\ f.raise = "none" /\ f.stored /\ faults' = faults
  BY <1>1, <1>2, <1>3 DEF EndGoes, Ok
<1>4. CASE f.raise \in {"error", "cancel"} /\ f.stored \in BOOLEAN /\ faults < MaxFaults /\ faults' = faults + 1
  <2>1. Written(e)
    BY <1>1, <1>4 DEF Written, Ok
  <2> QED
    BY <1>1, <1>2, <1>4, <2>1 DEF EmitStruck, EndGoes
<1> QED
  BY <1>1, <1>3, <1>4, FaultFacts

MessageGoes(m, e, l) ==
    /\ Ok(e) /\ run' = Tracked(run, e, token) /\ agent'.messages = Append(agent.messages, m)
    /\ loop' = l /\ faults' = faults
LEMMA MessageCases ==
  ASSUME agent \in Agents, NEW m, m \in Messages, NEW e, NEW l, EmitMessage(m, e, l)
  PROVE  \/ MessageGoes(m, e, l)
         \/ \E a : a.messages = Append(agent.messages, m) /\ (EmitRefused(e, a) \/ EmitStruck(e, a))
         \/ EmitStruck(e, agent)
<1> DEFINE refused(f) == f.stored /\ Refuses(run, Converted(run, e, token))
           a == [agent EXCEPT !.messages = Append(@, m)]
           done == IF m.role = "result" THEN [a EXCEPT !.staged = {r \in @ : r.call # m.call}] ELSE a
<1>1. a.messages = Append(agent.messages, m) /\ done.messages = a.messages
  <2>1. a \in [messages : Seq(Messages), staged : {agent.staged}] /\ a.messages = Append(agent.messages, m)
    BY DEF Agents
  <2> HIDE DEF a
  <2> QED
    BY <2>1
<1>2. CASE \E f \in Faults :
             /\ Struck(f)
             /\ run' = IF f.stored /\ ~refused(f) THEN Tracked(run, e, token) ELSE run
             /\ IF f.raise # "none" THEN Raise(f.raise, a)
                ELSE IF refused(f) THEN Raise("error", a)
                ELSE agent' = done /\ loop' = l /\ UNCHANGED <<token, lost>>
  <2> HIDE DEF a, done
  <2>1. PICK f \in Faults :
             /\ Struck(f)
             /\ run' = IF f.stored /\ ~refused(f) THEN Tracked(run, e, token) ELSE run
             /\ IF f.raise # "none" THEN Raise(f.raise, a)
                ELSE IF refused(f) THEN Raise("error", a)
                ELSE agent' = done /\ loop' = l /\ UNCHANGED <<token, lost>>
    BY <1>2
  <2>2. CASE f = Calm /\ f.raise = "none" /\ f.stored /\ faults' = faults
    BY <1>1, <2>1, <2>2 DEF MessageGoes, EmitRefused, Ok
  <2>3. CASE f.raise \in {"error", "cancel"} /\ f.stored \in BOOLEAN /\ faults < MaxFaults /\ faults' = faults + 1
    <3>1. Raise(f.raise, a)
      BY <2>1, <2>3
    <3>2. Written(e)
      BY <2>1, <2>3 DEF Written, Ok
    <3> QED
      BY <1>1, <2>3, <3>1, <3>2 DEF EmitStruck
  <2> QED
    BY <2>1, <2>2, <2>3, FaultFacts
<1>3. CASE faults < MaxFaults /\ faults' = faults + 1 /\ run' = run /\ Raise("error", agent)
  BY <1>3 DEF EmitStruck, Written
<1> QED
  BY <1>2, <1>3 DEF EmitMessage

LEMMA RaisedTrue ==
  ASSUME TInv, loop.pc \in Inside, NEW a, \E k : Raise(k, a), faults' \in Nat, faults' # 0,
         RunShape(run'), run'.phase \in LivePhases
  PROVE  TruthNext
<1>1. PICK k : Raise(k, a)
  OBVIOUS
<1>2. Failed(run', a.messages, faults', dep)
  BY LiveFailed
<1> QED
  BY <1>1, <1>2, InsideRuns, RaiseTrue DEF TInv

LEMMA GoesTrue ==
  ASSUME NEW l, l.pc \in Inside, loop' = l, NEW M, agent'.messages = M, faults' \in Nat, Live(run', l, M, faults')
  PROVE  TruthNext
  BY LiveTrue DEF TruthNext

LEMMA LaterLive ==
  ASSUME NEW r, NEW l, NEW M, NEW f, Live(r, l, M, f), NEW g, g # 0
  PROVE  Live(r, l, M, g)
  BY DEF Live

\* An event of the loop, a message of the loop, the end of a Tool Call.
LEMMA EmitLive ==
  ASSUME TInv, loop.pc \in Inside, NEW e, NEW a, a.messages = agent.messages, NEW l, Emit(e, a, l),
         faults = 0 => Ok(e),
         Ok(e) => l.pc \in Inside /\ Live(Tracked(run, e, token), l, agent.messages, faults)
  PROVE  TruthNext
<1>1. RunShape(run) /\ run.phase \in LivePhases /\ faults \in Nat
  BY TrueLive DEF Live, TInv
<1>2. CASE EmitGoes(e, a, l)
  BY <1>1, <1>2, GoesTrue DEF EmitGoes
<1>3. CASE EmitRefused(e, a)
  BY <1>1, <1>3, RaisedTrue DEF EmitRefused
<1>4. CASE EmitStruck(e, a)
  <2>1. RunShape(run') /\ run'.phase \in LivePhases
    BY <1>1, <1>4 DEF EmitStruck, Written, Live
  <2>2. faults' \in Nat /\ faults' # 0
    BY <1>1, <1>4 DEF EmitStruck
  <2> QED
    BY <1>4, <2>1, <2>2, RaisedTrue DEF EmitStruck
<1> QED
  BY <1>2, <1>3, <1>4, EmitCases

LEMMA MessageLive ==
  ASSUME TInv, loop.pc \in Inside, NEW e, NEW m \in Messages, NEW l, EmitMessage(m, e, l),
         faults = 0 => Ok(e),
         Ok(e) => l.pc \in Inside /\ Live(Tracked(run, e, token), l, Append(agent.messages, m), faults)
  PROVE  TruthNext
<1>1. RunShape(run) /\ run.phase \in LivePhases /\ faults \in Nat /\ agent \in Agents
  BY TrueLive, LoopFacts DEF Live, TInv
<1>2. CASE MessageGoes(m, e, l)
  BY <1>1, <1>2, GoesTrue DEF MessageGoes
<1>3. ASSUME NEW a, EmitRefused(e, a) PROVE TruthNext
  BY <1>1, <1>3, RaisedTrue DEF EmitRefused
<1>4. ASSUME NEW a, EmitStruck(e, a) PROVE TruthNext
  <2>1. RunShape(run') /\ run'.phase \in LivePhases
    BY <1>1, <1>4 DEF EmitStruck, Written, Live
  <2>2. faults' \in Nat /\ faults' # 0
    BY <1>1, <1>4 DEF EmitStruck
  <2> QED
    BY <1>4, <2>1, <2>2, RaisedTrue DEF EmitStruck
<1> QED
  BY <1>1, <1>2, <1>3, <1>4, MessageCases

LEMMA EndLive ==
  ASSUME TInv, loop.pc \in Inside, NEW c, NEW kind, NEW code, NEW l, EmitToolEnd(c, kind, code, l),
         NEW e, e = ToolEvent("tool_finished", c, code), faults = 0 => Ok(e), l.pc \in Inside,
         Live(run, l, agent.messages, 1),
         Ok(e) => Live(Tracked(run, e, token), l, agent.messages, faults)
  PROVE  TruthNext
<1>1. RunShape(run) /\ run.phase \in LivePhases /\ faults \in Nat /\ agent \in Agents
  BY TrueLive, LoopFacts DEF Live, TInv
<1>2. CASE EndGoes(e, l)
  <2>1. faults' \in Nat
    BY <1>1, <1>2 DEF EndGoes
  <2>2. CASE Ok(e) /\ run' = Tracked(run, e, token) /\ faults' = faults
    BY <1>2, <2>1, <2>2, GoesTrue DEF EndGoes
  <2>3. CASE ~Ok(e) /\ run' = run /\ faults' = faults
    BY <1>2, <2>1, <2>3, GoesTrue, LaterLive DEF EndGoes
  <2>4. CASE Written(e) /\ faults' = faults + 1
    <3>1. faults' # 0
      BY <1>1, <2>4
    <3>2. Live(run', l, agent.messages, faults')
      BY <2>4, <3>1, LaterLive DEF Written
    <3> QED
      BY <1>2, <2>1, <3>2, GoesTrue DEF EndGoes
  <2> QED
    BY <1>2, <2>2, <2>3, <2>4 DEF EndGoes
<1>3. ASSUME NEW a, EmitStruck(e, a) PROVE TruthNext
  <2>1. RunShape(run') /\ run'.phase \in LivePhases
    BY <1>1, <1>3 DEF EmitStruck, Written, Live
  <2>2. faults' \in Nat /\ faults' # 0
    BY <1>1, <1>3 DEF EmitStruck
  <2> QED
    BY <1>3, <2>1, <2>2, RaisedTrue DEF EmitStruck
<1> QED
  BY <1>1, <1>2, <1>3, EndCases

\* A step that emits nothing.
LEMMA QuietLive ==
  ASSUME TInv, loop.pc \in Inside, NEW l, l.pc \in Inside, loop' = l, UNCHANGED <<agent, run, faults>>,
         Live(run, l, agent.messages, faults)
  PROVE  TruthNext
  BY GoesTrue DEF TInv

-----------------------------------------------------------------------------
(* Steps outside a batch *)

\* The loop l is at a place at which no call of the Run is open, and no new answer is known.
Continues(l) == l.pc \in Inside \ (Running \cup {"deny"}) /\ (OnReply(l) => OnReply(loop))

LEMMA CalmMirrors ==
  ASSUME NEW r, NEW M, Mirrors(r, loop, M), loop.pc \notin Running, NEW s, s.tools = r.tools, NEW l, Continues(l)
  PROVE  Mirrors(s, l, M)
<1>1. OpenTools(s) = OpenTools(r)
  BY DEF OpenTools
<1> QED
  BY <1>1 DEF Mirrors, Continues, Running

\* A plain event that is no answer of the model.
LEMMA PlainStep ==
  ASSUME TInv, loop.pc \in Inside \ Running, NEW e, e.type \in PlainTypes, NEW a, a.messages = agent.messages,
         e.type # "model_response_finished", NEW l, Continues(l), Emit(e, a, l), loop.pc # "reply",
         loop.pc = "model" => l.pc = "model",
         e.type = "model_request_started" => l.pc = "model"
  PROVE  TruthNext
<1>1. Live(run, loop, agent.messages, faults)
  BY TrueLive
<1>2. RunShape(run) /\ run.phase \notin Settles
  BY <1>1, LivesOn DEF Live
<1> DEFINE s == Tracked(run, e, token)
<1>3. Ok(e) /\ Tracks(s, run, e)
  BY <1>2, PlainTracked DEF Ok
<1>4. FailureAfter(run, e) = "none" => run.failure = "none"
  BY <1>2, FailureStays
<1>5. s.asking => run.asking \/ e.type = "model_request_started"
  BY <1>3 DEF Tracks, Asking
<1> HIDE DEF s
<1>6. faults = 0 => Mirrors(s, l, agent.messages)
  BY <1>1, <1>3, CalmMirrors DEF Live, Tracks
<1>7. s.asking => l.pc = "model"
  BY <1>1, <1>5 DEF Live
<1>8. Live(s, l, agent.messages, faults)
  BY <1>1, <1>3, <1>4, <1>6, <1>7 DEF Live, Tracks, Continues
<1> QED
  BY <1>3, <1>8, EmitLive DEF s, Continues

\* A step without an event.
LEMMA PlainMove ==
  ASSUME TInv, loop.pc \in Inside \ Running, NEW l, Continues(l), loop' = l, UNCHANGED <<agent, run, faults>>,
         loop.pc \in {"model", "reply"} => l.pc \in {"model", "reply"}
  PROVE  TruthNext
<1>1. Live(run, loop, agent.messages, faults)
  BY TrueLive
<1>2. faults = 0 => Mirrors(run, l, agent.messages)
  BY <1>1, CalmMirrors DEF Live
<1>3. Live(run, l, agent.messages, faults)
  BY <1>1, <1>2 DEF Live, Continues
<1> QED
  BY <1>3, QuietLive DEF Continues

InsidePlaces == {"first_turn", "prompts", "turn", "inject", "model", "reply", "deny", "refuse", "guard",
                 "tools", "results", "turn_end", "after", "agent_end"}
LEMMA InsideIs == Inside = InsidePlaces
  BY DEF Inside, InsidePlaces, Places, Between, Failing, AtRest, Routes, Settlings

LEMMA GoFacts ==
  ASSUME AInv, NEW p
  PROVE  Go(p).pc = p /\ Go(p).first = loop.first /\ Go(p).reply = loop.reply /\ Go(p).call = loop.call
  BY LoopFacts DEF Go, LoopShape

LEMMA EventTypes ==
  ASSUME NEW t
  PROVE  Event(t).type = t
  BY DEF Event

LEMMA CalmSteps ==
  ASSUME TInv, FirstTurn \/ EndTurn \/ StopAfterTurn \/ TurnBudget
  PROVE  TruthNext
<1> USE InsideIs, GoFacts, EventTypes DEF TInv, At, Continues, InsidePlaces, Running, OnReply, PlainTypes
<1>1. CASE FirstTurn
  <2>1. loop.first
    BY <1>1, LoopFacts DEF FirstTurn, BudgetOK
  <2>2. Emit(Event("turn_started"), agent, Go("prompts")) /\ loop.pc = "first_turn"
    BY <1>1 DEF FirstTurn
  <2>3. Continues(Go("prompts"))
    BY <2>1, <2>2
  <2> QED
    BY <2>2, <2>3, PlainStep
<1>2. CASE EndTurn
  BY <1>2, PlainStep DEF EndTurn
<1>3. CASE TurnBudget
  BY <1>3, PlainStep DEF TurnBudget
<1>4. CASE StopAfterTurn
  BY <1>4, PlainMove DEF StopAfterTurn
<1> QED
  BY <1>1, <1>2, <1>3, <1>4

LEMMA DrainTrue ==
  ASSUME TInv, PollSteering \/ NextTurn
  PROVE  TruthNext
<1> USE InsideIs DEF TInv, At, Continues, InsidePlaces, Running, OnReply
<1>1. CASE PollSteering
  <2>1. loop.first /\ LoopShape(loop) /\ loop.pc = "prompts"
    BY <1>1, LoopFacts DEF PollSteering, BudgetOK
  <2>2. UNCHANGED <<agent, run, faults>>
    BY <1>1 DEF PollSteering
  <2>3. loop'.pc = "turn" /\ loop'.first
    BY <1>1, <2>1 DEF PollSteering, LoopShape
  <2> QED
    BY <2>1, <2>2, <2>3, PlainMove
<1>2. CASE NextTurn
  <2>1. LoopShape(loop) /\ loop.pc = "after"
    BY <1>2, LoopFacts DEF NextTurn
  <2>2. UNCHANGED <<agent, run, faults>>
    BY <1>2 DEF NextTurn
  <2>3. loop'.pc \in {"turn", "agent_end"}
    BY <1>2, <2>1 DEF NextTurn, LoopShape
  <2> QED
    BY <2>1, <2>2, <2>3, PlainMove
<1> QED
  BY <1>1, <1>2

LEMMA BeginTurnTrue ==
  ASSUME TInv, BeginTurn
  PROVE  TruthNext
<1> USE InsideIs, GoFacts, EventTypes DEF TInv, Continues, InsidePlaces, Running, OnReply, PlainTypes
<1> DEFINE l == [loop EXCEPT !.pc = "inject", !.turns = @ + 1, !.first = FALSE]
<1>1. LoopShape(loop) /\ loop.pc = "turn"
  BY LoopFacts DEF BeginTurn, At
<1>2. l.pc = "inject"
  BY <1>1 DEF LoopShape
<1>3. \/ loop' = l /\ UNCHANGED <<agent, run, token, faults, lost>>
      \/ ~loop.first /\ Emit(Event("budget_exceeded"), agent, Go("agent_end"))
      \/ Emit(Event("turn_started"), agent, l)
  BY DEF BeginTurn
<1> HIDE DEF l
<1>4. CASE loop' = l /\ UNCHANGED <<agent, run, token, faults, lost>>
  BY <1>1, <1>2, <1>4, PlainMove
<1>5. CASE ~loop.first /\ Emit(Event("budget_exceeded"), agent, Go("agent_end"))
  BY <1>1, <1>5, PlainStep
<1>6. CASE Emit(Event("turn_started"), agent, l)
  BY <1>1, <1>2, <1>6, PlainStep
<1> QED
  BY <1>3, <1>4, <1>5, <1>6

LEMMA RequestTrue ==
  ASSUME TInv, RequestModel \/ ForwardStreamEvent
  PROVE  TruthNext
<1> USE InsideIs, EventTypes DEF TInv, At, Continues, InsidePlaces, Running, OnReply, PlainTypes
<1>1. LoopShape(loop)
  BY LoopFacts
<1>2. CASE RequestModel
  <2> DEFINE l == [loop EXCEPT !.pc = "model", !.stream = "asked",
                               !.ctx = Repaired(@), !.given = Repaired(loop.ctx)]
  <2>1. loop.pc = "inject" /\ Emit(Event("model_request_started"), agent, l)
    BY <1>2 DEF RequestModel
  <2>2. l.pc = "model"
    BY <1>1 DEF LoopShape
  <2> HIDE DEF l
  <2> QED
    BY <2>1, <2>2, PlainStep
<1>3. CASE ForwardStreamEvent
  <2>1. PICK step \in StreamStep : Emit(Event(step[2]), agent, [loop EXCEPT !.stream = step[3]])
    BY <1>3 DEF ForwardStreamEvent
  <2> DEFINE l == [loop EXCEPT !.stream = step[3]]
             t == step[2]
  <2>2. loop.pc = "model" /\ l.pc = "model"
    BY <1>1, <1>3 DEF ForwardStreamEvent, LoopShape
  <2>3. t \in PlainTypes /\ t # "model_response_finished" /\ t # "model_request_started"
    BY DEF StreamStep
  <2>4. Emit(Event(t), agent, l)
    BY <2>1
  <2> HIDE DEF l, t
  <2> QED
    BY <2>2, <2>3, <2>4, PlainStep
<1> QED
  BY <1>2, <1>3

LEMMA StrikeTrue ==
  ASSUME TInv, loop.pc \in Inside, faults' = faults + 1, \E k : Raise(k, agent), UNCHANGED run
  PROVE  TruthNext
<1>1. RunShape(run) /\ run.phase \in LivePhases /\ faults \in Nat
  BY TrueLive DEF Live, TInv
<1> QED
  BY <1>1, RaisedTrue

LEMMA OverflowTrue ==
  ASSUME TInv, Overflow
  PROVE  TruthNext
<1> USE InsideIs, EventTypes DEF TInv, At, Continues, InsidePlaces, Running, OnReply, PlainTypes
<1> DEFINE new == Compacted(loop.given, dep.keep, dep.window)
           failed == AssistantMessage(<< >>, "error")
           l == [loop EXCEPT !.pc = "reply", !.reply = failed, !.ctx = Append(@, failed), !.call = << >>]
           k == [loop EXCEPT !.stream = "compacting", !.given = new]
<1>1. LoopShape(loop) /\ loop.pc = "model"
  BY LoopFacts DEF Overflow
<1>2. \/ faults' = faults + 1 /\ Raise("error", agent) /\ UNCHANGED run
      \/ loop' = l /\ UNCHANGED <<agent, run, token, faults, lost>>
      \/ Emit(Event("context_compaction_started"), agent, k)
  BY DEF Overflow
<1>3. l.pc = "reply" /\ k.pc = "model"
  BY <1>1 DEF LoopShape
<1> HIDE DEF l, k
<1>4. CASE faults' = faults + 1 /\ Raise("error", agent) /\ UNCHANGED run
  BY <1>1, <1>4, StrikeTrue
<1>5. CASE loop' = l /\ UNCHANGED <<agent, run, token, faults, lost>>
  BY <1>1, <1>3, <1>5, PlainMove
<1>6. CASE Emit(Event("context_compaction_started"), agent, k)
  BY <1>1, <1>3, <1>6, PlainStep
<1> QED
  BY <1>2, <1>4, <1>5, <1>6

LEMMA RepliesTrue ==
  ASSUME TInv, NEW raw, NEW stop, NEW denied, ModelReplies(raw, stop, denied)
  PROVE  TruthNext
<1> USE InsideIs DEF TInv, At, Continues, InsidePlaces, Running, OnReply
<1>1. LoopShape(loop) /\ loop.pc = "model" /\ UNCHANGED <<agent, run, faults>>
  BY LoopFacts DEF ModelReplies
<1>2. loop'.pc = "reply"
  BY <1>1 DEF ModelReplies, LoopShape
<1> QED
  BY <1>1, <1>2, PlainMove

LEMMA InterruptedTrue ==
  ASSUME TInv, NEW kind, Interrupted(kind)
  PROVE  TruthNext
<1>1. loop.pc \in Inside
  BY InsideIs DEF Interrupted, InsidePlaces
<1> QED
  BY <1>1, StrikeTrue DEF Interrupted

-----------------------------------------------------------------------------
(* Messages *)

\* The loop l is where the loop is, with the same answer and the same calls.
SameSpot(l) == l.pc = loop.pc /\ l.first = loop.first /\ l.reply = loop.reply /\ l.call = loop.call

LEMMA SpotMirrors ==
  ASSUME NEW r, NEW M, Mirrors(r, loop, M), NEW l, SameSpot(l), NEW L, CallIds(M) \subseteq CallIds(L)
  PROVE  Mirrors(r, l, L)
<1>1. Unfinished(l) = Unfinished(loop)
  BY DEF Unfinished, SameSpot
<1> QED
  BY <1>1 DEF Mirrors, SameSpot

\* A message that is no answer of the model.
LEMMA SpeakStep ==
  ASSUME TInv, loop.pc \in Inside, NEW m \in Messages, m.role # "assistant", NEW l, SameSpot(l),
         NEW e, e = Event("message"), EmitMessage(m, e, l)
  PROVE  TruthNext
<1>0. PICK L : L = Append(agent.messages, m)
  OBVIOUS
<1>1. Live(run, loop, agent.messages, faults) /\ agent.messages \in Seq(Messages)
  BY TrueLive, LoopFacts DEF TInv, LogOK
<1>2. Ok(e) /\ Tracked(run, e, token) = run
  BY <1>1, MessageTracked DEF Live, Ok
<1>3. LastReply(L) = LastReply(agent.messages)
  BY <1>0, <1>1, ReplySaid
<1>4. CallIds(agent.messages) \subseteq CallIds(L)
  BY <1>0, <1>1, IdsSaid
<1>5. faults = 0 => Mirrors(run, l, L)
  BY <1>1, <1>4, SpotMirrors DEF Live
<1>6. Live(run, l, L, faults)
  BY <1>1, <1>3, <1>5 DEF Live, SameSpot, OnReply, GoodReply
<1>7. l.pc \in Inside
  BY DEF SameSpot
<1>8. Live(Tracked(run, e, token), l, Append(agent.messages, m), faults)
  BY <1>0, <1>2, <1>6
<1> QED
  BY <1>2, <1>7, <1>8, MessageLive

LEMMA UserTrue ==
  ASSUME TInv, EmitPrompt \/ Inject
  PROVE  TruthNext
<1>1. LoopShape(loop) /\ loop.pend \in Seq(UserMessages) /\ loop.pend # << >> /\ loop.pc \in Inside
  BY LoopFacts, InsideIs DEF LoopShape, TInv, EmitPrompt, Inject, InsidePlaces, At
<1> DEFINE m == Head(loop.pend)
           p == [loop EXCEPT !.pend = Tail(@)]
           q == [loop EXCEPT !.pend = Tail(@), !.ctx = Append(@, Head(loop.pend))]
<1>2. m \in Messages /\ m.role # "assistant" /\ Tail(loop.pend) \in Seq(UserMessages)
  <2>1. m \in UserMessages /\ Tail(loop.pend) \in Seq(UserMessages)
    BY <1>1
  <2> HIDE DEF m
  <2> QED
    BY <2>1 DEF Messages, UserMessages
<1>3. EmitMessage(m, Event("message"), p) \/ EmitMessage(m, Event("message"), q)
  BY DEF EmitPrompt, Inject
<1>4. SameSpot(p) /\ SameSpot(q)
  BY <1>1, <1>2, PendTail, PendSaid DEF SameSpot
<1> HIDE DEF m, p, q
<1> QED
  BY <1>1, <1>2, <1>3, <1>4, SpeakStep

LEMMA ResultTrue ==
  ASSUME TInv, RefuseResult \/ EmitResult
  PROVE  TruthNext
<1>1. LoopShape(loop) /\ loop.pc \in {"refuse", "results"} /\ AInv /\ BatchLeft /\ loop.pc \in Inside
  BY LoopFacts, InsideIs DEF TInv, RefuseResult, EmitResult, InsidePlaces, At
<1> DEFINE c == Current
           l == [loop EXCEPT !.index = @ + 1]
<1>2. c \in Nat /\ c \in ToSet(loop.reply.calls)
  BY <1>1, CurrentIn
<1>3. PICK kind \in Kinds : EmitMessage(ToolResult(c, kind), Event("message"), l)
  <2>1. CASE RefuseResult
    BY <2>1 DEF RefuseResult, Kinds
  <2>2. CASE EmitResult
    <3>1. loop.call[c].phase = "ended"
      BY <1>1, <1>2, <2>2, LoopFacts DEF EmitResult, PlaceOK, At
    <3>2. loop.call[c].kind \in Kinds
      BY <1>1, <1>2, <3>1, LoopFacts DEF LoopOK
    <3> QED
      BY <2>2, <3>2 DEF EmitResult
  <2> QED
    BY <2>1, <2>2
<1> DEFINE m == ToolResult(c, kind)
<1>4. m \in Messages /\ m.role # "assistant"
  BY <1>2 DEF ToolResult, Messages, Results
<1>5. SameSpot(l)
  BY <1>1, NextIndex DEF SamePlace, SameSpot
<1> HIDE DEF m, l, c
<1> QED
  BY <1>1, <1>3, <1>4, <1>5, SpeakStep DEF m

\* The answer of the model: its calls are not of the Run yet.
LEMMA CommitTrue ==
  ASSUME TInv, CommitReply
  PROVE  TruthNext
<1> DEFINE m == loop.reply
           e == ToolEvent("model_response_finished", 0, m.stop)
           s == Tracked(run, e, token)
           M == agent.messages
           l == AfterReply
<1>1. /\ Live(run, loop, M, faults) /\ M \in Seq(Messages) /\ loop.pc = "reply" /\ LoopShape(loop)
      /\ m \in Assistants /\ Len(m.calls) \in Nat /\ PlaceOK(M, loop) /\ loop.pc \in Inside
  BY TrueLive, LoopFacts, InsideIs DEF TInv, LogOK, CommitReply, At, InsidePlaces
<1>2. m \in Messages /\ m.role = "assistant" /\ m.stop \in Stops \cup {"none"} /\ CallsOf(m) = m.calls
  BY <1>1 DEF Messages, Assistants, CallsOf
<1>3. EmitMessage(m, e, l)
  BY DEF CommitReply
<1>4. Carried(l, loop) /\ l.pc \in {"turn_end", "deny", "refuse", "guard"}
  BY <1>1, AfterReplyFacts
<1>5. e.type = "model_response_finished" /\ e.info = m.stop /\ e.type \in PlainTypes
  BY DEF ToolEvent, PlainTypes
<1>6. RunShape(run) /\ run.phase \notin Settles
  BY <1>1, LivesOn DEF Live
<1> HIDE DEF m, e, M, l
<1>7. Ok(e) /\ Tracks(s, run, e)
  BY <1>5, <1>6, PlainTracked DEF Ok
<1>8. ~s.asking
  BY <1>5, <1>7 DEF Tracks, Asking
<1>9. s.failure = "none" => m.stop \notin {"error", "aborted", "length"}
  BY <1>5, <1>6, <1>7, FailureStays DEF Tracks
<1> HIDE DEF s
<1>10. s.failure = "none" => GoodReply(Append(M, m))
  BY <1>1, <1>2, <1>9, ReplySaid DEF GoodReply, Stops
<1>11. CallIds(Append(M, m)) = CallIds(M) \cup ToSet(m.calls)
  BY <1>1, <1>2, IdsSaid
<1>12. /\ l.reply = m /\ l.call = loop.call
       /\ \A c \in ToSet(m.calls) : loop.call[c].phase = "new" /\ c \notin CallIds(M)
  BY <1>1, <1>4 DEF Carried, PlaceOK, m
<1>13. Unfinished(l) = {}
  BY <1>12 DEF Unfinished
<1>14. faults = 0 => Mirrors(s, l, Append(M, m))
  <2> SUFFICES ASSUME faults = 0 PROVE Mirrors(s, l, Append(M, m))
    OBVIOUS
  <2>1. DOMAIN run.tools \subseteq CallIds(M) /\ OpenTools(run) = {}
    BY <1>1 DEF Live, Mirrors, Running
  <2>2. DOMAIN s.tools \subseteq CallIds(M) /\ OpenTools(s) = {}
    BY <1>7, <2>1 DEF Tracks, OpenTools
  <2> QED
    BY <1>11, <1>12, <1>13, <2>2 DEF Mirrors
<1>15. Live(s, l, Append(M, m), faults)
  BY <1>7, <1>8, <1>10, <1>14 DEF Live, Tracks
<1>16. l.pc \in Inside
  BY <1>4, InsideIs DEF InsidePlaces
<1> QED
  BY <1>1, <1>2, <1>3, <1>7, <1>15, <1>16, MessageLive DEF s, M

-----------------------------------------------------------------------------
(* Calls of a batch *)

\* The loop l is the loop with the call c in phase p.
Phased(l, c, p) ==
    /\ l.pc = loop.pc /\ l.reply = loop.reply
    /\ \A x \in ToSet(loop.reply.calls) : l.call[x].phase = IF x = c THEN p ELSE loop.call[x].phase

LEMMA NotedPhased ==
  ASSUME AInv, NEW c \in ToSet(loop.reply.calls), NEW p, NEW kind, NEW k, k = Noted(c, p, kind)
  PROVE  /\ Phased(k, c, p)
         /\ Phased([k EXCEPT !.index = @ + 1], c, p)
         /\ Phased([k EXCEPT !.denied = TRUE], c, p)
         /\ Phased([k EXCEPT !.call[c].tries = 1, !.attempts = @ + 1], c, p)
         /\ Phased([k EXCEPT !.call[c].tries = @ + 1, !.used = @ + 1, !.attempts = @ + 1], c, p)
<1>1. LoopShape(loop) /\ loop.call \in [ToSet(loop.reply.calls) -> CallRecords]
  BY LoopFacts DEF LoopOK
<1> DEFINE f == [loop.call EXCEPT ![c].phase = p, ![c].kind = kind]
<1>2. /\ k.pc = loop.pc /\ k.reply = loop.reply /\ k.call = f
      /\ k \in [pc : {k.pc}, ctx : {k.ctx}, given : {k.given}, pend : {k.pend}, skip : {k.skip}, first : {k.first},
                turns : {k.turns}, used : {k.used}, denied : {k.denied}, attempts : {k.attempts}, reply : {k.reply},
                refused : {k.refused}, more : {k.more}, over : {k.over}, index : {k.index}, call : {k.call},
                stream : {k.stream}, aborted : {k.aborted}]
  BY <1>1 DEF Noted, LoopShape
<1>3. /\ DOMAIN f = ToSet(loop.reply.calls)
      /\ \A x \in ToSet(loop.reply.calls) : f[x].phase = IF x = c THEN p ELSE loop.call[x].phase
      /\ f[c] \in [phase : {p}, kind : {kind}, tries : Nat]
  BY <1>1 DEF CallRecords
<1> HIDE DEF f
<1>4. Phased(k, c, p)
  BY <1>2, <1>3 DEF Phased
<1>5. /\ Phased([k EXCEPT !.index = @ + 1], c, p)
      /\ Phased([k EXCEPT !.denied = TRUE], c, p)
  BY <1>2, <1>3 DEF Phased
<1>7. Phased([k EXCEPT !.call[c].tries = 1, !.attempts = @ + 1], c, p)
  <2> DEFINE l == [k EXCEPT !.call[c].tries = 1, !.attempts = @ + 1]
  <2>1. l.pc = k.pc /\ l.reply = k.reply /\ l.call = [f EXCEPT ![c].tries = 1]
    BY <1>2
  <2> HIDE DEF l
  <2>2. \A x \in ToSet(loop.reply.calls) : l.call[x].phase = IF x = c THEN p ELSE loop.call[x].phase
    BY <1>3, <2>1
  <2>3. Phased(l, c, p)
    BY <1>2, <2>1, <2>2 DEF Phased
  <2> QED
    BY <2>3 DEF l
<1>8. Phased([k EXCEPT !.call[c].tries = @ + 1, !.used = @ + 1, !.attempts = @ + 1], c, p)
  <2> DEFINE l == [k EXCEPT !.call[c].tries = @ + 1, !.used = @ + 1, !.attempts = @ + 1]
  <2>1. l.pc = k.pc /\ l.reply = k.reply /\ l.call = [f EXCEPT ![c].tries = f[c].tries + 1]
    BY <1>2
  <2> HIDE DEF l
  <2>2. \A x \in ToSet(loop.reply.calls) : l.call[x].phase = IF x = c THEN p ELSE loop.call[x].phase
    BY <1>3, <2>1
  <2>3. Phased(l, c, p)
    BY <1>2, <2>1, <2>2 DEF Phased
  <2> QED
    BY <2>3 DEF l
<1> QED
  BY <1>4, <1>5, <1>7, <1>8

\* The Run s knows the calls D besides those of r, and l leaves open what s leaves open.
Knows(s, r, D, M) == DOMAIN s.tools = DOMAIN r.tools \cup D /\ D \subseteq CallIds(M)
Begun(l, D) ==
    \A x \in ToSet(l.reply.calls) : l.call[x].phase = "new" => loop.call[x].phase = "new" /\ x \notin D

LEMMA CallMirrors ==
  ASSUME NEW r, NEW M, Mirrors(r, loop, M), loop.pc \in Running, NEW l, l.pc = loop.pc, l.reply = loop.reply,
         NEW D, NEW s, Knows(s, r, D, M), Begun(l, D), OpenTools(s) = Unfinished(l)
  PROVE  Mirrors(s, l, M)
<1>1. l.pc # "deny"
  BY DEF Running
<1> QED
  BY <1>1 DEF Mirrors, Knows, Begun

Stays(s) ==
    /\ RunShape(s) /\ s.phase \in LivePhases /\ s.asking = run.asking
    /\ s.failure = "none" => run.failure = "none"

LEMMA CallLive ==
  ASSUME TInv, loop.pc \in Running, NEW l, l.pc = loop.pc, NEW s, Stays(s), NEW f,
         f = 0 => Mirrors(s, l, agent.messages)
  PROVE  Live(s, l, agent.messages, f) /\ l.pc \in Inside
<1>1. loop.pc \in Inside
  BY InsideIs DEF Running, InsidePlaces
<1>2. Live(run, loop, agent.messages, faults)
  BY <1>1, TrueLive
<1>3. ~s.asking
  BY <1>2 DEF Stays, Live, Running
<1>4. OnReply(l) /\ OnReply(loop)
  BY DEF OnReply, Running
<1> QED
  BY <1>1, <1>2, <1>3, <1>4 DEF Live, Stays

LEMMA CallKnown ==
  ASSUME AInv, loop.pc \in Running, NEW c \in ToSet(loop.reply.calls), loop.pc = "refuse" => c \in Unheard(loop)
  PROVE  c \in CallIds(agent.messages)
<1>1. c \in Open(agent.messages) /\ agent.messages \in Seq(Messages)
  BY LoopFacts DEF PlaceOK, Running, LogOK
<1> QED
  BY <1>1, OpenTyped

LEMMA RunningFacts ==
  ASSUME TInv, loop.pc \in Running
  PROVE  /\ loop.pc \in Inside /\ AInv /\ RunShape(run) /\ run.phase \notin Settles /\ Stays(run)
         /\ faults = 0 => Mirrors(run, loop, agent.messages) /\ OpenTools(run) = Unfinished(loop)
         /\ loop.reply.calls \in Seq(Nat)
<1>1. loop.pc \in Inside
  BY InsideIs DEF Running, InsidePlaces
<1>2. Live(run, loop, agent.messages, faults)
  BY <1>1, TrueLive
<1> QED
  BY <1>1, <1>2, LivesOn, LoopFacts DEF Live, Mirrors, TInv, Stays

\* The start of a call.
LEMMA StartTrue ==
  ASSUME TInv, RefuseStart \/ GuardStart
  PROVE  TruthNext
<1> DEFINE c == Current
           e == ToolEvent("tool_started", c, "none")
           l == Noted(c, "queued", "none")
           s == Tracked(run, e, token)
           M == agent.messages
<1>1. loop.pc \in {"refuse", "guard"} /\ BatchLeft /\ loop.call[c].phase = "new" /\ Emit(e, agent, l)
  BY DEF RefuseStart, GuardStart, At
<1>2. loop.pc \in Running
  BY <1>1 DEF Running
<1>3. c \in ToSet(loop.reply.calls) /\ c \in Unheard(loop)
  BY <1>1, <1>2, RunningFacts, CurrentIn
<1>4. Phased(l, c, "queued")
  BY <1>2, <1>3, RunningFacts, NotedPhased
<1>5. e = ToolEvent("tool_started", c, "none")
  OBVIOUS
<1> HIDE DEF c, e, l, M
<1>6. /\ c \notin DOMAIN run.tools => Ok(e)
      /\ Ok(e) => c \notin DOMAIN run.tools /\ Calls(s, run, DOMAIN run.tools \cup {c}, OpenTools(run) \cup {c})
  BY <1>2, <1>5, RunningFacts, StartTracked DEF Ok
<1> HIDE DEF s
<1>7. faults = 0 => c \notin DOMAIN run.tools
  BY <1>1, <1>2, <1>3, RunningFacts DEF Mirrors
<1>8. Unfinished(l) = Unfinished(loop) \cup {c}
  BY <1>3, <1>4 DEF Phased, Unfinished
<1>9. c \in CallIds(M)
  BY <1>2, <1>3, RunningFacts, CallKnown DEF M
<1>10. Ok(e) /\ faults = 0 => Mirrors(s, l, M)
  <2> SUFFICES ASSUME Ok(e), faults = 0 PROVE Mirrors(s, l, M)
    OBVIOUS
  <2>1. OpenTools(s) = Unfinished(l) /\ Knows(s, run, {c}, M)
    BY <1>2, <1>6, <1>8, <1>9, RunningFacts DEF Calls, Knows
  <2>2. l.pc = loop.pc /\ l.reply = loop.reply /\ Mirrors(run, loop, M)
    BY <1>2, <1>4, RunningFacts DEF Phased, M
  <2>3. Begun(l, {c})
    BY <1>4, <2>2 DEF Phased, Begun
  <2> QED
    BY <1>2, <2>1, <2>2, <2>3, CallMirrors
<1>11. Ok(e) => Stays(s)
  BY <1>6 DEF Calls, Stays
<1>12. Ok(e) => l.pc \in Inside /\ Live(s, l, M, faults)
  BY <1>2, <1>4, <1>10, <1>11, CallLive DEF M, Phased
<1> QED
  BY <1>1, <1>2, <1>6, <1>7, <1>12, RunningFacts, EmitLive DEF s, M

\* A step of a call that the Run has open and that stays open.
LEMMA KeepsOpen ==
  ASSUME TInv, loop.pc \in Running, NEW c \in ToSet(loop.reply.calls), loop.call[c].phase \notin {"new", "ended"},
         NEW l, NEW p, p \notin {"new", "ended"}, Phased(l, c, p), NEW s, Stays(s), DOMAIN s.tools = DOMAIN run.tools,
         OpenTools(s) = OpenTools(run)
  PROVE  l.pc \in Inside /\ Live(s, l, agent.messages, faults)
<1>1. Unfinished(l) = Unfinished(loop)
  BY DEF Phased, Unfinished
<1>2. faults = 0 => Mirrors(s, l, agent.messages)
  <2> SUFFICES ASSUME faults = 0 PROVE Mirrors(s, l, agent.messages)
    OBVIOUS
  <2>1. OpenTools(s) = Unfinished(l) /\ Knows(s, run, {}, agent.messages)
    BY <1>1, RunningFacts DEF Knows
  <2>2. l.pc = loop.pc /\ l.reply = loop.reply /\ Mirrors(run, loop, agent.messages)
    BY RunningFacts DEF Phased
  <2>3. Begun(l, {})
    BY <2>2 DEF Phased, Begun
  <2> QED
    BY <2>1, <2>2, <2>3, CallMirrors
<1> QED
  BY <1>2, CallLive DEF Phased

LEMMA StepTrue ==
  ASSUME TInv, loop.pc \in Running, NEW c \in ToSet(loop.reply.calls), loop.call[c].phase \notin {"new", "ended"},
         NEW t \in {"tool_dispatch_started", "tool_retry_scheduled"}, NEW e, e = ToolEvent(t, c, "none"),
         NEW l, NEW p, p \notin {"new", "ended"}, Phased(l, c, p), Emit(e, agent, l)
  PROVE  TruthNext
<1> DEFINE s == Tracked(run, e, token)
<1>1. /\ c \in OpenTools(run) => Ok(e)
      /\ Ok(e) => Calls(s, run, DOMAIN run.tools, OpenTools(run))
  BY RunningFacts, StepTracked DEF Ok
<1> HIDE DEF s
<1>2. faults = 0 => c \in OpenTools(run)
  BY RunningFacts DEF Unfinished
<1>3. Ok(e) => l.pc \in Inside /\ Live(s, l, agent.messages, faults)
  BY <1>1, KeepsOpen DEF Calls, Stays
<1> QED
  BY <1>1, <1>2, <1>3, RunningFacts, EmitLive DEF s

LEMMA DispatchTrue ==
  ASSUME TInv, NEW c \in DOMAIN loop.call, Dispatch(c) \/ ScheduleRetry(c) \/ (Retry(c) /\ RetryAdmitted)
  PROVE  TruthNext
<1> DEFINE d == ToolEvent("tool_dispatch_started", c, "none")
           k == Noted(c, "running", "none")
           x == [k EXCEPT !.call[c].tries = 1, !.attempts = @ + 1]
           y == [k EXCEPT !.call[c].tries = @ + 1, !.used = @ + 1, !.attempts = @ + 1]
<1>1. loop.pc \in Running /\ loop.call[c].phase \notin {"new", "ended"} /\ c \in ToSet(loop.reply.calls) /\ AInv
  BY CallsOfLoop DEF Dispatch, ScheduleRetry, Retry, At, Running, TInv
<1>2. Phased(x, c, "running") /\ Phased(y, c, "running") /\ Phased(Noted(c, "backoff", "none"), c, "backoff")
  BY <1>1, NotedPhased
<1>3. CASE Dispatch(c)
  <2>1. Emit(d, agent, x)
    BY <1>3 DEF Dispatch
  <2> HIDE DEF x
  <2> QED
    BY <1>1, <1>2, <2>1, StepTrue
<1>4. CASE ScheduleRetry(c)
  <2>1. Emit(ToolEvent("tool_retry_scheduled", c, "none"), agent, Noted(c, "backoff", "none"))
    BY <1>4 DEF ScheduleRetry
  <2> QED
    BY <1>1, <1>2, <2>1, StepTrue
<1>5. CASE Retry(c) /\ RetryAdmitted
  <2>1. Emit(d, agent, y)
    BY <1>5 DEF Retry
  <2> HIDE DEF y
  <2> QED
    BY <1>1, <1>2, <2>1, StepTrue
<1> QED
  BY <1>3, <1>4, <1>5

LEMMA SameLive ==
  ASSUME TInv, loop.pc \in Running, NEW c \in ToSet(loop.reply.calls), loop.call[c].phase \notin {"new", "ended"},
         NEW l, NEW p, p \notin {"new", "ended"}, Phased(l, c, p), loop' = l, UNCHANGED <<agent, run, faults>>
  PROVE  TruthNext
  BY RunningFacts, KeepsOpen, QuietLive

LEMMA WaitTrue ==
  ASSUME TInv, NEW c \in DOMAIN loop.call,
         (\E kind : HandlerReturns(c, kind)) \/ CallCancelled(c) \/ (Retry(c) /\ ~RetryAdmitted)
  PROVE  TruthNext
<1>1. loop.pc \in Running /\ loop.call[c].phase \notin {"new", "ended"} /\ c \in ToSet(loop.reply.calls) /\ AInv
  BY CallsOfLoop DEF HandlerReturns, CallCancelled, Retry, At, Running, TInv
<1>2. ASSUME NEW kind PROVE Phased(Noted(c, "finished", kind), c, "finished")
                            /\ Phased([Noted(c, "finished", kind) EXCEPT !.denied = TRUE], c, "finished")
  BY <1>1, NotedPhased
<1>3. CASE (\E kind : HandlerReturns(c, kind)) \/ CallCancelled(c)
  <2>1. PICK kind : loop' = Noted(c, "finished", kind) /\ UNCHANGED <<agent, run, faults>>
    BY <1>3 DEF HandlerReturns, CallCancelled
  <2> DEFINE l == Noted(c, "finished", kind)
  <2>2. Phased(l, c, "finished")
    BY <1>2
  <2> HIDE DEF l
  <2> QED
    BY <1>1, <2>1, <2>2, SameLive DEF l
<1>4. CASE Retry(c) /\ ~RetryAdmitted
  <2> DEFINE l == [Noted(c, "finished", "failed") EXCEPT !.denied = TRUE]
             e == Event("budget_exceeded")
             s == Tracked(run, e, token)
  <2>1. (loop' = l /\ UNCHANGED <<agent, run, faults>>) \/ Emit(e, agent, l)
    BY <1>4 DEF Retry
  <2>2. Phased(l, c, "finished")
    BY <1>2
  <2>3. e.type = "budget_exceeded" /\ e.type \in PlainTypes
    BY DEF Event, PlainTypes
  <2> HIDE DEF l, e
  <2>4. CASE loop' = l /\ UNCHANGED <<agent, run, faults>>
    BY <1>1, <2>2, <2>4, SameLive
  <2>5. CASE Emit(e, agent, l)
    <3>1. Ok(e) /\ Tracks(s, run, e)
      BY <1>1, <2>3, RunningFacts, PlainTracked DEF Ok
    <3>2. Stays(s)
      BY <1>1, <2>3, <3>1, RunningFacts, FailureStays DEF Stays, Tracks, Asking
    <3> HIDE DEF s
    <3>3. DOMAIN s.tools = DOMAIN run.tools /\ OpenTools(s) = OpenTools(run)
      BY <3>1 DEF Tracks, OpenTools
    <3>4. l.pc \in Inside /\ Live(s, l, agent.messages, faults)
      BY <1>1, <2>2, <3>2, <3>3, KeepsOpen
    <3> QED
      BY <1>1, <2>5, <3>1, <3>4, RunningFacts, EmitLive DEF s
  <2> QED
    BY <2>1, <2>4, <2>5
<1> QED
  BY <1>3, <1>4

\* The end of a call.
LEMMA FinishTrue ==
  ASSUME TInv, loop.pc \in Running, NEW c \in ToSet(loop.reply.calls), loop.call[c].phase \notin {"new", "ended"},
         NEW kind, NEW code, NEW l, Phased(l, c, "ended"), EmitToolEnd(c, kind, code, l)
  PROVE  TruthNext
<1> DEFINE e == ToolEvent("tool_finished", c, code)
           s == Tracked(run, e, token)
           M == agent.messages
<1>1. /\ c \in OpenTools(run) => Ok(e)
      /\ Ok(e) => Calls(s, run, DOMAIN run.tools, OpenTools(run) \ {c})
  BY RunningFacts, FinishTracked DEF Ok
<1>2. e = ToolEvent("tool_finished", c, code)
  OBVIOUS
<1> HIDE DEF s, e
<1>3. faults = 0 => c \in OpenTools(run)
  BY RunningFacts DEF Unfinished
<1>4. Unfinished(l) = Unfinished(loop) \ {c}
  BY DEF Phased, Unfinished
<1>5. Ok(e) /\ faults = 0 => Mirrors(s, l, M)
  <2> SUFFICES ASSUME Ok(e), faults = 0 PROVE Mirrors(s, l, M)
    OBVIOUS
  <2>1. OpenTools(s) = Unfinished(l) /\ Knows(s, run, {}, M)
    BY <1>1, <1>4, RunningFacts DEF Calls, Knows
  <2>2. l.pc = loop.pc /\ l.reply = loop.reply /\ Mirrors(run, loop, M)
    BY RunningFacts DEF Phased
  <2>3. Begun(l, {})
    BY <2>2 DEF Phased, Begun
  <2> QED
    BY <2>1, <2>2, <2>3, CallMirrors
<1>6. Ok(e) => Stays(s)
  BY <1>1 DEF Calls, Stays
<1>7. Ok(e) => Live(s, l, M, faults)
  BY <1>5, <1>6, CallLive DEF Phased
<1>8. Live(run, l, M, 1) /\ l.pc \in Inside
  BY RunningFacts, CallLive DEF Phased
<1> QED
  BY <1>1, <1>2, <1>3, <1>7, <1>8, RunningFacts, EndLive DEF s

LEMMA EndingTrue ==
  ASSUME TInv
  PROVE  /\ RefuseEnd \/ GuardBlocks => TruthNext
         /\ \A c \in DOMAIN loop.call : EndCall(c) => TruthNext
<1>1. ASSUME RefuseEnd \/ GuardBlocks PROVE TruthNext
  <2> DEFINE c == Current
             k == Noted(c, "ended", "skipped")
             l == [k EXCEPT !.index = @ + 1]
  <2>1. /\ loop.pc \in Running /\ BatchLeft /\ loop.call[c].phase = "queued" /\ AInv
        /\ EmitToolEnd(c, "skipped", "refused", k) \/ EmitToolEnd(c, "skipped", "refused", l)
    BY <1>1 DEF RefuseEnd, GuardBlocks, At, Running, TInv
  <2>2. c \in ToSet(loop.reply.calls)
    BY <2>1, CurrentIn
  <2>3. Phased(k, c, "ended") /\ Phased(l, c, "ended")
    BY <2>1, <2>2, NotedPhased
  <2> HIDE DEF c, k, l
  <2> QED
    BY <2>1, <2>2, <2>3, FinishTrue
<1>2. ASSUME NEW c \in DOMAIN loop.call, EndCall(c) PROVE TruthNext
  <2> DEFINE kind == loop.call[c].kind
             l == Noted(c, "ended", kind)
  <2>1. /\ loop.pc \in Running /\ loop.call[c].phase = "finished" /\ AInv /\ c \in ToSet(loop.reply.calls)
        /\ EmitToolEnd(c, kind, CodeOf(kind), l)
    BY <1>2, CallsOfLoop DEF EndCall, At, Running, TInv
  <2>2. Phased(l, c, "ended")
    BY <2>1, NotedPhased
  <2> HIDE DEF kind, l
  <2> QED
    BY <2>1, <2>2, FinishTrue
<1> QED
  BY <1>1, <1>2

\* The whole batch: refused, guarded, gathered, kept.
LEMMA DenyTrue ==
  ASSUME TInv, DenyBudget
  PROVE  TruthNext
<1> DEFINE l == Go("refuse")
           e == Event("budget_exceeded")
           s == Tracked(run, e, token)
           M == agent.messages
<1>1. loop.pc = "deny" /\ Emit(e, agent, l) /\ AInv
  BY DEF DenyBudget, At, TInv
<1>2. l.pc = "refuse" /\ l.reply = loop.reply /\ l.call = loop.call
  BY <1>1, GoFacts
<1>3. loop.pc \in Inside /\ l.pc \in Inside
  BY <1>1, <1>2, InsideIs DEF InsidePlaces
<1>4. e.type = "budget_exceeded" /\ e.type \in PlainTypes
  BY DEF Event, PlainTypes
<1>5. Live(run, loop, M, faults) /\ RunShape(run) /\ run.phase \notin Settles
  BY <1>3, TrueLive, LivesOn DEF Live
<1> HIDE DEF l, e, M
<1>6. Ok(e) /\ Tracks(s, run, e)
  BY <1>4, <1>5, PlainTracked DEF Ok
<1>7. s.asking = run.asking /\ (s.failure = "none" => run.failure = "none")
  BY <1>4, <1>5, <1>6, FailureStays DEF Tracks, Asking
<1> HIDE DEF s
<1>8. Unfinished(l) = {}
  BY <1>1, <1>2, LoopFacts DEF PlaceOK, Unfinished, M
<1>9. faults = 0 => Mirrors(s, l, M)
  <2> SUFFICES ASSUME faults = 0 PROVE Mirrors(s, l, M)
    OBVIOUS
  <2>1. /\ DOMAIN run.tools \subseteq CallIds(M) /\ OpenTools(run) = {}
        /\ \A c \in ToSet(l.reply.calls) : c \notin DOMAIN run.tools
    BY <1>1, <1>2, <1>5 DEF Live, Mirrors, Running
  <2>2. s.tools = run.tools /\ OpenTools(s) = {}
    BY <1>6, <2>1 DEF Tracks, OpenTools
  <2> QED
    BY <1>2, <1>8, <2>1, <2>2 DEF Mirrors
<1>10. OnReply(loop)
  BY <1>1 DEF OnReply
<1>11. Live(s, l, M, faults)
  BY <1>1, <1>5, <1>6, <1>7, <1>9, <1>10 DEF Live, Tracks
<1> QED
  BY <1>1, <1>3, <1>6, <1>11, EmitLive DEF s, M

LEMMA GuardTrue ==
  ASSUME TInv, GuardPasses \/ GuardDone
  PROVE  TruthNext
<1>1. AInv /\ LoopShape(loop) /\ loop.pc = "guard" /\ loop.pc \in Running /\ UNCHANGED <<agent, run, faults>>
  BY LoopFacts DEF TInv, GuardPasses, GuardDone, At, Running
<1> DEFINE l == IF GuardDone THEN Go("tools") ELSE [loop EXCEPT !.index = @ + 1]
<1>2. loop' = l
  BY DEF GuardPasses, GuardDone
<1>3. l.pc \in {"guard", "tools"} /\ l.reply = loop.reply /\ l.call = loop.call
  BY <1>1, GoFacts, NextIndex DEF SamePlace
<1> HIDE DEF l
<1>4. Unfinished(l) = Unfinished(loop)
  BY <1>3 DEF Unfinished
<1>5. l.pc \in Inside /\ loop.pc \in Inside
  BY <1>1, <1>3, InsideIs DEF InsidePlaces
<1>6. Live(run, loop, agent.messages, faults)
  BY <1>5, TrueLive
<1>7. faults = 0 => Mirrors(run, l, agent.messages)
  BY <1>1, <1>3, <1>4, <1>6 DEF Live, Mirrors, Running
<1>8. Live(run, l, agent.messages, faults)
  BY <1>1, <1>3, <1>6, <1>7 DEF Live, OnReply
<1> QED
  BY <1>1, <1>2, <1>5, <1>8, QuietLive

LEMMA OverTrue ==
  ASSUME TInv, (\E terminate : GatherCalls(terminate)) \/ KeepResults
  PROVE  TruthNext
<1>1. /\ AInv /\ LoopShape(loop) /\ PlaceOK(agent.messages, loop) /\ loop.reply.calls \in Seq(Nat)
      /\ loop.pc \in {"tools", "refuse", "results"} /\ UNCHANGED <<agent, run, faults>>
      /\ DOMAIN loop.call = ToSet(loop.reply.calls)
  BY LoopFacts, CallsOfLoop DEF TInv, GatherCalls, KeepResults, At
<1> DEFINE l == loop'
<1>2. l.pc \in {"results", "turn_end"}
  BY <1>1 DEF GatherCalls, KeepResults, LoopShape
<1>3. \A c \in ToSet(loop.reply.calls) : loop.call[c].phase = "ended"
  <2>1. CASE \E terminate : GatherCalls(terminate)
    BY <1>1, <2>1 DEF GatherCalls
  <2>2. CASE KeepResults /\ loop.pc = "results"
    BY <1>1, <2>2 DEF PlaceOK
  <2>3. CASE KeepResults /\ loop.pc = "refuse"
    <3>1. \A i \in DOMAIN loop.reply.calls : i \in 1 .. loop.index - 1
      <4>1. loop.index \in Nat /\ Len(loop.reply.calls) \in Nat /\ ~(loop.index <= Len(loop.reply.calls))
        BY <1>1, <2>3 DEF KeepResults, BatchLeft, LoopShape
      <4> QED
        BY <1>1, <4>1
    <3>2. \A i \in 1 .. loop.index - 1 : loop.call[loop.reply.calls[i]].phase = "ended"
      BY <1>1, <2>3 DEF PlaceOK
    <3> QED
      BY <3>1, <3>2 DEF ToSet
  <2> QED
    BY <1>1, <2>1, <2>2, <2>3 DEF KeepResults
<1>4. Unfinished(loop) = {}
  BY <1>3 DEF Unfinished
<1>5. loop.pc \in Inside /\ l.pc \in Inside
  BY <1>1, <1>2, InsideIs DEF InsidePlaces
<1>6. Live(run, loop, agent.messages, faults)
  BY <1>5, TrueLive
<1> HIDE DEF l
<1>7. faults = 0 => Mirrors(run, l, agent.messages)
  BY <1>1, <1>2, <1>4, <1>6 DEF Live, Mirrors, Running
<1>8. Live(run, l, agent.messages, faults)
  BY <1>1, <1>2, <1>6, <1>7 DEF Live, OnReply
<1> QED
  BY <1>1, <1>5, <1>8, QuietLive DEF l

-----------------------------------------------------------------------------
(* The end of a run, and of a failed run *)

\* The Agent is idle again.
LEMMA IdleTrue ==
  ASSUME NEW r, RunShape(r), ~r.asking, NEW M, NEW f, NEW d,
         r.phase \in Settles, r.phase = "completed" => OpenTools(r) = {} /\ (~d.routed => GoodReply(M))
  PROVE  Truth(r, IdleLoop, M, f, d)
<1>1. IdleLoop.pc = "idle" /\ IdleLoop.reply = NoReply
  BY DEF IdleLoop
<1>2. r.phase \notin {"waiting_approval", "outcome_unknown"}
  BY DEF Settles, TerminalPhases
<1> QED
  BY <1>1, <1>2 DEF Truth, OnReply, Between, Failing, AtRest, Routes, Settlings

LEMMA EndPhase ==
  ASSUME NEW s, NEW r, EndOf(s, r)
  PROVE  RunShape(s) /\ s.phase \in Settles /\ s.asking = r.asking
         /\ (s.phase = "completed" => r.failure = "none" /\ OpenTools(s) = {})
  BY DEF EndOf, Settles, TerminalPhases

LEMMA AgentEndTrue ==
  ASSUME TInv, AgentEnd
  PROVE  TruthNext
<1> DEFINE e == Event("agent_end")
           M == agent.messages
           a == IdleAgent(M)
           s == Tracked(run, e, token)
<1>1. /\ loop.pc = "agent_end" /\ Emit(e, a, IdleLoop) /\ AInv /\ a.messages = M /\ faults \in Nat
  BY DEF AgentEnd, At, TInv, IdleAgent
<1>2. loop.pc \in Inside
  BY <1>1, InsideIs DEF InsidePlaces
<1>3. Live(run, loop, M, faults) /\ RunShape(run) /\ run.phase \notin Settles /\ ~run.asking
  BY <1>1, <1>2, TrueLive, LivesOn DEF Live
<1>4. /\ OpenTools(run) = {} \/ run.failure # "none" => Ok(e)
      /\ Ok(e) => EndOf(s, run)
  BY <1>3, AgentEndTracked DEF Ok
<1> HIDE DEF e, M, a, s
<1>5. faults = 0 => OpenTools(run) = {}
  BY <1>1, <1>3 DEF Live, Mirrors, Running
<1>6. run.failure = "none" => GoodReply(M)
  BY <1>1, <1>3 DEF Live, OnReply
<1>7. Ok(e) => /\ RunShape(s) /\ ~s.asking /\ s.phase \in Settles
               /\ s.phase = "completed" => OpenTools(s) = {} /\ GoodReply(M)
  BY <1>3, <1>4, <1>6, EndPhase
<1>8. CASE EmitGoes(e, a, IdleLoop)
  <2>1. Truth(s, IdleLoop, M, faults, dep)
    BY <1>7, <1>8, IdleTrue DEF EmitGoes
  <2> QED
    BY <1>1, <1>8, <2>1 DEF EmitGoes, TruthNext, s
<1>9. CASE EmitRefused(e, a)
  BY <1>1, <1>2, <1>3, <1>4, <1>5, <1>9, RaisedTrue DEF EmitRefused, Live
<1>10. CASE EmitStruck(e, a)
  <2>1. faults' \in Nat /\ faults' # 0
    BY <1>1, <1>10 DEF EmitStruck
  <2>2. CASE run' = run
    BY <1>2, <1>3, <1>10, <2>1, <2>2, RaisedTrue DEF EmitStruck, Live
  <2>3. CASE Ok(e) /\ run' = s
    <3>1. Failed(s, M, faults', dep)
      BY <1>7, <2>1, <2>3 DEF Failed
    <3>2. PICK k : Raise(k, a)
      BY <1>10 DEF EmitStruck
    <3> QED
      BY <1>1, <1>2, <2>1, <2>3, <3>1, <3>2, InsideRuns, RaiseTrue
  <2> QED
    BY <1>10, <2>2, <2>3 DEF EmitStruck, Written, s
<1> QED
  BY <1>1, <1>8, <1>9, <1>10, EmitCases

\* The repair adds results to the conversation.
LEMMA RepairTrue ==
  ASSUME TInv, RepairTranscript
  PROVE  TruthNext
<1> DEFINE M == agent.messages
           R == Repaired(Materialized(M, agent.staged))
           l == Go("fail_start")
<1>1. /\ AInv /\ loop.pc = "fail" /\ loop' = l /\ UNCHANGED <<run, faults>> /\ agent \in Agents
      /\ LogOK(M) /\ KeptOK(M, agent.staged, told) /\ M \in Seq(Messages)
  BY LoopFacts DEF RepairTranscript, At, TInv, LogOK
<1>2. agent'.messages = R
  BY <1>1 DEF RepairTranscript, Agents
<1>3. \E s \in Seq(Results) : Completes(M, R, s)
  BY <1>1, RepairSettles
<1>4. LastReply(R) = LastReply(M)
  <2> HIDE DEF R, M
  <2>1. PICK s \in Seq(Results) : Completes(M, R, s)
    BY <1>3
  <2>2. R = M \o s
    BY <2>1 DEF Completes
  <2> QED
    BY <1>1, <2>2, ReplyAnswered
<1>5. l.pc = "fail_start" /\ l.reply = loop.reply
  BY <1>1, GoFacts
<1> HIDE DEF R, M, l
<1>6. GoodReply(R) <=> GoodReply(M)
  BY <1>4 DEF GoodReply
<1>7. Truth(run, loop, M, faults, dep)
  BY DEF TInv, M
<1>8. ~OnReply(l)
  BY <1>5 DEF OnReply
<1>9. Truth(run, l, R, faults, dep)
  BY <1>1, <1>5, <1>6, <1>7, <1>8 DEF Truth, Between, Failing, AtRest, Routes, Settlings
<1> QED
  BY <1>1, <1>2, <1>9 DEF TruthNext, TInv

LEMMA CleanTrue ==
  ASSUME NEW l, l.pc \in {"fail_message", "fail_turn", "fail_end"}, NEW r, RunShape(r), r.phase \in LivePhases,
         r.asking => l.pc = "fail_message", l.pc # "fail_message" => r.failure # "none",
         NEW M, NEW f, f # 0, NEW d
  PROVE  Truth(r, l, M, f, d)
<1>1. r.phase \notin Settles \cup {"waiting_approval", "outcome_unknown"}
  BY LivesOn
<1>2. r.phase # "completed"
  BY <1>1 DEF Settles, TerminalPhases
<1> QED
  BY <1>1, <1>2 DEF Truth, OnReply, Between, Failing, AtRest, Routes, Settlings

\* Where the loop is, a second failure is beyond the bound.
LEMMA CleanFacts ==
  ASSUME TInv, MaxFaults <= 1, loop.pc \in Failing
  PROVE  /\ AInv /\ faults \in Nat /\ faults # 0 /\ ~(faults < MaxFaults) /\ RunShape(run)
         /\ loop.pc \in Failing \ {"fail", "fail_start"} => run.phase \in LivePhases /\ run.phase \notin Settles
         /\ loop.pc \in {"fail_turn", "fail_end"} => run.failure # "none" /\ ~run.asking
         /\ loop.pc # "fail" => InCleanup
<1>1. AInv /\ faults \in Nat /\ Truth(run, loop, agent.messages, faults, dep)
  BY DEF TInv
<1>2. faults # 0 /\ MaxFaults \in Nat
  BY <1>1, AgentAssumption DEF Truth
<1>3. ~(faults < MaxFaults)
  BY <1>1, <1>2
<1>4. loop.pc \in Failing \ {"fail", "fail_start"} => run.phase \in LivePhases
  BY <1>1 DEF Truth, Failing, Between, AtRest, Routes, Settlings
<1>5. run.phase \in LivePhases => run.phase \notin Settles
  BY LivesOn
<1>6. loop.pc \in {"fail_turn", "fail_end"} => run.failure # "none" /\ ~run.asking
  BY <1>1 DEF Truth
<1> QED
  BY <1>1, <1>2, <1>3, <1>4, <1>5, <1>6 DEF Failing, InCleanup, Truth

LEMMA FailStartTrue ==
  ASSUME TInv, MaxFaults <= 1, FailStart
  PROVE  TruthNext
<1> DEFINE e == Event("assistant_start")
           l == Go("fail_message")
           s == Tracked(run, e, token)
           M == agent.messages
<1>1. loop.pc = "fail_start" /\ loop.pc \in Failing /\ Emit(e, agent, l)
  BY DEF FailStart, At, Failing
<1>2. AInv /\ faults \in Nat /\ faults # 0 /\ ~(faults < MaxFaults) /\ RunShape(run) /\ InCleanup
  BY <1>1, CleanFacts
<1>3. /\ run.asking => run.phase \notin Settles
      /\ run.phase \in LivePhases \cup Settles
      /\ run.phase = "completed" => OpenTools(run) = {} /\ (~dep.routed => GoodReply(M))
  BY <1>1 DEF TInv, Truth
<1>4. /\ Ok(e) <=> run.phase \notin Settles
      /\ run.phase \in LivePhases => RunShape(s) /\ s.phase \in LivePhases /\ s.asking = run.asking
  BY <1>2, <1>3, FailStartTracked DEF Ok
<1>5. l.pc = "fail_message"
  BY <1>2, GoFacts
<1> HIDE DEF e, l, s, M
<1>6. CASE EmitGoes(e, agent, l)
  <2>1. Truth(s, l, M, faults, dep)
    BY <1>2, <1>3, <1>4, <1>5, <1>6, CleanTrue DEF EmitGoes
  <2> QED
    BY <1>2, <1>6, <2>1 DEF EmitGoes, TruthNext, s, M
<1>7. CASE EmitRefused(e, agent)
  <2>1. Truth(run, IdleLoop, M, faults, dep)
    BY <1>2, <1>3, <1>4, <1>7, IdleTrue DEF EmitRefused
  <2>2. agent' = IdleAgent(M) /\ loop' = IdleLoop
    BY <1>2, <1>7 DEF EmitRefused, Raise, Settled, M
  <2>3. agent'.messages = M
    BY <2>2 DEF IdleAgent
  <2> QED
    BY <1>2, <1>7, <2>1, <2>2, <2>3 DEF EmitRefused, TruthNext
<1>8. ~EmitStruck(e, agent)
  BY <1>2 DEF EmitStruck
<1> QED
  BY <1>1, <1>6, <1>7, <1>8, EmitCases

LEMMA FailMessageTrue ==
  ASSUME TInv, MaxFaults <= 1, FailMessage
  PROVE  TruthNext
<1> DEFINE m == Failure
           e == ToolEvent("model_response_finished", 0, m.stop)
           l == Go("fail_turn")
           s == Tracked(run, e, token)
<1>1. loop.pc = "fail_message" /\ loop.pc \in Failing /\ EmitMessage(m, e, l)
  BY DEF FailMessage, At, Failing
<1>2. AInv /\ faults \in Nat /\ faults # 0 /\ ~(faults < MaxFaults) /\ RunShape(run)
      /\ run.phase \notin Settles /\ agent \in Agents
  BY <1>1, CleanFacts, LoopFacts
<1>3. m \in Messages /\ m.stop \in {"error", "aborted"}
  BY DEF Failure, AssistantMessage, Messages, Assistants, Stops
<1>4. e.type = "model_response_finished" /\ e.info = m.stop /\ e.type \in PlainTypes
  BY DEF ToolEvent, PlainTypes
<1>5. l.pc = "fail_turn"
  BY <1>2, GoFacts
<1> HIDE DEF e, l, m
<1>6. Ok(e) /\ Tracks(s, run, e)
  BY <1>2, <1>4, PlainTracked DEF Ok
<1>7. s.failure # "none" /\ ~s.asking /\ RunShape(s) /\ s.phase \in LivePhases
  BY <1>2, <1>3, <1>4, <1>6, FailureStays DEF Tracks, Asking
<1> HIDE DEF s
<1>8. \A a : ~EmitStruck(e, a) /\ ~EmitRefused(e, a)
  BY <1>2, <1>6 DEF EmitStruck, EmitRefused
<1>9. MessageGoes(m, e, l)
  BY <1>1, <1>2, <1>3, <1>8, MessageCases
<1> QED
  BY <1>2, <1>5, <1>7, <1>9, CleanTrue DEF MessageGoes, TruthNext, s

LEMMA FailTurnTrue ==
  ASSUME TInv, MaxFaults <= 1, FailTurn
  PROVE  TruthNext
<1> DEFINE e == Event("turn_finished")
           l == Go("fail_end")
           s == Tracked(run, e, token)
<1>1. loop.pc = "fail_turn" /\ loop.pc \in Failing /\ Emit(e, agent, l)
  BY DEF FailTurn, At, Failing
<1>2. AInv /\ faults \in Nat /\ faults # 0 /\ ~(faults < MaxFaults) /\ RunShape(run)
      /\ run.phase \notin Settles /\ run.failure # "none" /\ ~run.asking
  BY <1>1, CleanFacts
<1>3. e.type = "turn_finished" /\ e.type \in PlainTypes
  BY DEF Event, PlainTypes
<1>4. l.pc = "fail_end"
  BY <1>2, GoFacts
<1> HIDE DEF e, l
<1>5. Ok(e) /\ Tracks(s, run, e)
  BY <1>2, <1>3, PlainTracked DEF Ok
<1>6. s.failure # "none" /\ ~s.asking /\ RunShape(s) /\ s.phase \in LivePhases
  BY <1>2, <1>3, <1>5, FailureStays DEF Tracks, Asking
<1> HIDE DEF s
<1>7. EmitGoes(e, agent, l)
  BY <1>1, <1>2, <1>5, EmitCases DEF EmitStruck, EmitRefused
<1> QED
  BY <1>2, <1>4, <1>6, <1>7, CleanTrue DEF EmitGoes, TruthNext, s

LEMMA FailEndTrue ==
  ASSUME TInv, MaxFaults <= 1, FailEnd
  PROVE  TruthNext
<1> DEFINE e == Event("agent_end")
           a == IdleAgent(agent.messages)
           s == Tracked(run, e, token)
<1>1. loop.pc = "fail_end" /\ loop.pc \in Failing /\ Emit(e, a, IdleLoop)
  BY DEF FailEnd, At, Failing
<1>2. AInv /\ faults \in Nat /\ faults # 0 /\ ~(faults < MaxFaults) /\ RunShape(run)
      /\ run.phase \notin Settles /\ run.failure # "none" /\ ~run.asking
  BY <1>1, CleanFacts
<1>3. Ok(e) /\ EndOf(s, run)
  BY <1>2, AgentEndTracked DEF Ok
<1> HIDE DEF e, a, s
<1>4. RunShape(s) /\ s.phase \in Settles /\ ~s.asking /\ s.phase # "completed"
  BY <1>2, <1>3, EndPhase
<1>5. EmitGoes(e, a, IdleLoop)
  BY <1>1, <1>2, <1>3, EmitCases DEF EmitStruck, EmitRefused
<1>6. ASSUME NEW M PROVE Truth(s, IdleLoop, M, faults, dep)
  BY <1>4, IdleTrue
<1> QED
  BY <1>2, <1>5, <1>6 DEF EmitGoes, TruthNext, s

-----------------------------------------------------------------------------
(* Between runs *)

\* The phase and the failure of a Run after an event of the router, an approval or a restart.
Outcomes ==
    {<<"run_interrupted", "suspended", "process_interrupted">>, <<"routing_started", "routing", "same">>,
     <<"routing_finished", "running", "same">>, <<"approval_required", "waiting_approval", "same">>,
     <<"approval_granted", "running", "same">>, <<"approval_rejected", "running", "approval_rejected">>,
     <<"outcome_unknown", "outcome_unknown", "outcome_unknown">>}
Turned(s, r, p, f) ==
    /\ RunShape(s) /\ s.phase = p /\ s.failure = (IF f = "same" THEN r.failure ELSE f)
    /\ s.tools = r.tools /\ s.asking = r.asking

LEMMA ReduceTurns ==
  ASSUME NEW r, RunShape(r), NEW o \in Outcomes
  PROVE  Turned(Reduce(r, Event(o[1])), r, o[2], o[3])
<1> DEFINE e == Event(o[1])
           p == o[2]
           f == IF o[3] = "same" THEN r.failure ELSE o[3]
           t == [r EXCEPT !.phase = p, !.failure = f]
<1>1. e.type = o[1]
  BY DEF Event
<1>2. /\ o[1] \notin {"run_started", "run_finished", "tool_started", "tool_finished"} \cup DOMAIN ToolPhaseAfter
      /\ PhaseAfter[o[1]] = p /\ p \in RunPhases
  BY DEF Outcomes, ToolPhaseAfter, PhaseAfter, RunPhases, LivePhases, Settles, TerminalPhases
<1>3. FailureAfter(r, e) = f /\ f \in Failures
  BY <1>1 DEF Outcomes, FailureAfter, Failures, RunShape
<1>4. Reduce(r, e) = [r EXCEPT !.phase = PhaseAfter[e.type], !.failure = FailureAfter(r, e)]
  <2> HIDE DEF e
  <2> QED
    BY <1>1, <1>2 DEF Reduce
<1> HIDE DEF f, p
<1>5. RunShape(t) /\ t.phase = p /\ t.failure = f /\ t.tools = r.tools /\ t.asking = r.asking
  BY <1>2, <1>3 DEF RunShape
<1>6. Reduce(r, e) = t
  BY <1>1, <1>2, <1>3, <1>4
<1> HIDE DEF t, e
<1> QED
  BY <1>5, <1>6 DEF Turned, f, p, e

\* One event of the router, an approval or a restart.
LEMMA TurnsTo ==
  ASSUME NEW r, RunShape(r), NEW t, NEW p, NEW f, <<t, p, f>> \in Outcomes
  PROVE  Turned(Reduce(r, Event(t)), r, p, f)
<1> DEFINE o == <<t, p, f>>
<1>1. o \in Outcomes /\ o[1] = t /\ o[2] = p /\ o[3] = f
  OBVIOUS
<1> HIDE DEF o
<1> QED
  BY <1>1, ReduceTurns

\* A Run without Tool Calls can be finished in any way.
LEMMA FinishedTurns ==
  ASSUME NEW r, RunShape(r), r.phase \notin Settles, r.tools = << >>, NEW x
  PROVE  EndOf(Reduce(r, ToolEvent("run_finished", 0, x)), r)
<1> DEFINE e == ToolEvent("run_finished", 0, x)
<1>1. OpenTools(r) = {}
  BY NoTools DEF OpenTools
<1>2. /\ Rejects(r, e) <=> FinalPhase(r, x) = "completed" /\ OpenTools(r) # {}
      /\ ~Rejects(r, e) => EndOf(Reduce(r, e), r)
  BY FinishEnds
<1> HIDE DEF e
<1> QED
  BY <1>1, <1>2 DEF e

LEMMA IdleFacts ==
  ASSUME TInv, loop.pc = "idle"
  PROVE  /\ AInv /\ RunShape(run) /\ ~run.asking /\ faults \in Nat
         /\ run.phase \in Settles \cup {"waiting_approval", "outcome_unknown", "running", "routing"}
         /\ run.phase \notin Settles => dep.routed
         /\ run.phase = "waiting_approval" => Pristine(run)
         /\ run.phase = "completed" => OpenTools(run) = {} /\ (~dep.routed => GoodReply(agent.messages))
  BY DEF TInv, Truth, Leaves, Settles, TerminalPhases

LEMMA EnteredTrue ==
  ASSUME TInv, loop.pc = "idle", ~dep.routed, NEW p, NEW b, StartRun(p, b, FALSE), UNCHANGED <<run, faults>>
  PROVE  TruthNext
<1> DEFINE M == agent.messages
           l == [IdleLoop EXCEPT !.pc = "agent_start", !.ctx = M \o p, !.pend = p, !.skip = b]
<1>1. AInv /\ Repaired(M) = M /\ IdleAgent(M) = agent
  BY BetweenRuns, IdleRests DEF TInv
<1>2. agent' = agent /\ loop' = l
  BY <1>1 DEF StartRun
<1>3. l.pc = "agent_start" /\ l.reply = NoReply
  BY DEF IdleLoop
<1>4. ~OnReply(l)
  BY <1>3 DEF OnReply
<1>5. Truth(run, l, M, faults, dep)
  <2> HIDE DEF l, M
  <2>1. run.phase \in Settles /\ run.phase \notin {"waiting_approval", "outcome_unknown"}
    BY IdleFacts DEF Settles, TerminalPhases
  <2> QED
    BY <1>3, <1>4, <2>1, IdleFacts DEF Truth, Between, Failing, AtRest, Routes, Settlings, M
<1> HIDE DEF l
<1> QED
  BY <1>2, <1>5, IdleFacts DEF TruthNext

LEMMA PromptTrue ==
  ASSUME TInv, (\E u : Prompt(u)) \/ ContinueRun
  PROVE  TruthNext
<1>1. loop.pc = "idle" /\ ~dep.routed /\ UNCHANGED <<run, faults>>
  BY DEF Prompt, ContinueRun, Idle, Counted
<1>2. \E p, b : StartRun(p, b, FALSE)
  BY DEF Prompt, ContinueRun
<1> QED
  BY <1>1, <1>2, EnteredTrue

\* A Run that the router or an approval works on: none of its Tool Calls was started.
Early(r) ==
    /\ RunShape(r) /\ ~r.asking /\ r.tools = << >>
    /\ r.phase \in Settles \cup {"waiting_approval", "outcome_unknown", "running", "routing"}
    /\ r.phase = "waiting_approval" => Pristine(r)
Unsettled(r) == r.phase \in {"running", "routing"}

\* The Agent is idle, with a Run that waits, is over, or was left open by a failure.
LEMMA EarlyTrue ==
  ASSUME NEW r, Early(r), NEW M, NEW f, dep.routed, Unsettled(r) => f # 0
  PROVE  Truth(r, IdleLoop, M, f, dep)
<1>1. IdleLoop.pc = "idle" /\ IdleLoop.reply = NoReply
  BY DEF IdleLoop
<1>2. OpenTools(r) = {}
  BY NoTools DEF Early, OpenTools
<1> QED
  BY <1>1, <1>2 DEF Early, Unsettled, Truth, Leaves, OnReply, Between, Failing, AtRest, Routes, Settlings

\* The Agent is idle while its router or an approval goes on.
LEMMA SettlingTrue ==
  ASSUME NEW r, Early(r), NEW pc \in Settlings, NEW l, l = FreshLoop(pc, FALSE), NEW M, NEW f, dep.routed,
         r.phase \in {"running", "waiting_approval"}, pc = "settle_approval" => Pristine(r)
  PROVE  Truth(r, l, M, f, dep)
<1>1. l.pc = pc /\ l.reply = NoReply
  BY DEF FreshLoop
<1>2. r.phase # "completed" /\ r.phase \notin Settles
  BY DEF Settles, TerminalPhases
<1> QED
  BY <1>1, <1>2 DEF Early, Truth, OnReply, Between, Failing, AtRest, Routes, Settlings

LEMMA RoutingTrue ==
  ASSUME NEW r, Early(r), Pristine(r), NEW l, l.pc \in Routes, NEW M, NEW f, dep.routed,
         r.phase = (IF l.pc = "routing" THEN "routing" ELSE "running")
  PROVE  Truth(r, l, M, f, dep)
<1>1. r.phase \notin Settles \cup {"completed", "waiting_approval", "outcome_unknown"}
  BY DEF Settles, TerminalPhases
<1> QED
  BY <1>1 DEF Early, Truth, OnReply, Between, Failing, AtRest, Routes, Settlings

\* One record: it is made and the coroutine goes on, or it fails and the Run stays as it is.
LEMMA RecordTrue ==
  ASSUME NEW e, NEW l, NEW given, RecordExternal(e, l, given), agent' = agent, faults \in Nat, dep.routed,
         Truth(Reduce(run, e), l, agent.messages, faults, dep),
         \A f \in Nat \ {0} : Truth(Reduce(run, e), IdleLoop, agent.messages, f, dep),
         \A f \in Nat \ {0} : Truth(run, IdleLoop, agent.messages, f, dep)
  PROVE  TruthNext
<1>1. PICK f \in Faults : /\ Struck(f) /\ run' = (IF f.stored THEN Reduce(run, e) ELSE run)
                          /\ loop' = IF f = Calm THEN l ELSE IdleLoop
  BY DEF RecordExternal
<1>2. CASE f = Calm
  BY <1>1, <1>2 DEF Struck, Calm, TruthNext
<1>3. CASE f # Calm
  <2>1. faults' \in Nat \ {0} /\ loop' = IdleLoop /\ run' \in {run, Reduce(run, e)}
    BY <1>1, <1>3 DEF Struck
  <2> QED
    BY <2>1 DEF TruthNext
<1> QED
  BY <1>2, <1>3

\* What one event of the router or an approval makes of an early Run.
LEMMA EarlyTurns ==
  ASSUME NEW r, Early(r), NEW t, NEW p, NEW f, <<t, p, f>> \in Outcomes,
         p \in {"routing", "running", "waiting_approval", "outcome_unknown"},
         p = "waiting_approval" => Pristine(r) /\ f = "same"
  PROVE  LET s == Reduce(r, Event(t)) IN
         /\ Early(s) /\ s.phase = p
         /\ f = "same" /\ Pristine(r) => Pristine(s)
<1> DEFINE s == Reduce(r, Event(t))
<1>1. Turned(s, r, p, f)
  BY TurnsTo DEF Early
<1> HIDE DEF s
<1>2. RunShape(s) /\ s.phase = p /\ s.tools = << >> /\ ~s.asking
      /\ s.failure = (IF f = "same" THEN r.failure ELSE f)
  BY <1>1 DEF Turned, Early
<1>3. f = "same" /\ Pristine(r) => Pristine(s)
  BY <1>2 DEF Pristine
<1> QED
  BY <1>2, <1>3 DEF Early, s

LEMMA EarlyEnds ==
  ASSUME NEW r, Early(r), r.phase \notin Settles, NEW x
  PROVE  LET s == Reduce(r, ToolEvent("run_finished", 0, x)) IN Early(s) /\ ~Unsettled(s)
<1> DEFINE s == Reduce(r, ToolEvent("run_finished", 0, x))
<1>1. EndOf(s, r)
  BY FinishedTurns DEF Early
<1> HIDE DEF s
<1>2. RunShape(s) /\ s.phase \in {"completed", "cancelled", "failed"} /\ ~s.asking /\ s.tools = << >>
  BY <1>1 DEF EndOf, Early
<1> QED
  BY <1>2 DEF Early, Unsettled, Settles, TerminalPhases, s

LEMMA RoutedTrue ==
  ASSUME TInv, NEW u, RoutedPrompt(u)
  PROVE  TruthNext
<1> DEFINE M == agent.messages
           l == [IdleLoop EXCEPT !.pc = "route_open", !.pend = <<UserMessage(u)>>]
           e == Event("run_started")
           s == Reduce(run, e)
<1>1. /\ loop.pc = "idle" /\ dep.routed /\ agent' = agent /\ faults \in Nat
      /\ RecordExternal(e, l, {u}) /\ ~Rejects(run, e)
  BY IdleFacts DEF RoutedPrompt, Idle
<1>2. run.phase \in Settles
  BY <1>1 DEF Rejects, Event, Settles
<1>3. \A f : Truth(run, IdleLoop, M, f, dep)
  BY <1>1, <1>2, IdleFacts, IdleTrue
<1>4. l.pc = "route_open"
  BY DEF IdleLoop
<1>5. Started(s, run.asking)
  BY <1>1, IdleFacts, RunStarted
<1> HIDE DEF s, l, e
<1>6. Early(s) /\ Pristine(s) /\ s.phase = "running"
  BY <1>1, <1>5, IdleFacts DEF Started, Early, Pristine
<1>7. Truth(s, l, M, faults, dep)
  BY <1>1, <1>4, <1>6, RoutingTrue DEF Routes
<1>8. \A f \in Nat \ {0} : Truth(s, IdleLoop, M, f, dep)
  BY <1>1, <1>6, EarlyTrue
<1> QED
  BY <1>1, <1>3, <1>7, <1>8, RecordTrue DEF s

\* Where the router or an approval is, the Run is an early one.
LEMMA EarlyRun ==
  ASSUME TInv, loop.pc \in AtRest, loop.pc = "idle" => run.phase = "waiting_approval"
  PROVE  /\ Early(run) /\ dep.routed /\ AInv /\ faults \in Nat /\ run.phase \notin Settles
         /\ loop.pc = "idle" => Pristine(run)
         /\ loop.pc \in Routes => Pristine(run) /\ run.phase = IF loop.pc = "routing" THEN "routing" ELSE "running"
         /\ loop.pc \in Settlings => run.phase \in {"running", "waiting_approval"}
         /\ loop.pc = "settle_approval" => Pristine(run)
<1>1. AInv /\ faults \in Nat /\ Truth(run, loop, agent.messages, faults, dep)
  BY DEF TInv
<1>2. RunShape(run) /\ dep.routed /\ run.phase \in {"waiting_approval", "running", "routing"}
  BY <1>1 DEF Truth, AtRest, Routes, Settlings
<1>3. run.tools = << >> /\ (run.phase = "waiting_approval" => Pristine(run))
  BY <1>1 DEF Truth, AtRest, Routes, Settlings, Pristine
<1>4. ~run.asking
  BY <1>1, <1>2 DEF Truth, AtRest, Routes, Settlings, RunShape
<1>5. run.phase \notin Settles
  BY <1>2 DEF Settles, TerminalPhases
<1>6. Early(run)
  BY <1>2, <1>3, <1>4 DEF Early
<1> QED
  BY <1>1, <1>2, <1>3, <1>5, <1>6 DEF Truth, Routes, Settlings

LEMMA RouteOpensTrue ==
  ASSUME TInv, RouteOpens
  PROVE  TruthNext
<1> DEFINE e == Event("routing_started")
           s == Reduce(run, e)
           l == Go("routing")
<1>1. loop.pc = "route_open" /\ loop.pc \in AtRest /\ loop.pc \in Routes /\ "routing" \in Routes
      /\ RecordExternal(e, l, Ids(loop.pend))
  BY DEF RouteOpens, At, AtRest, Routes
<1>2. Early(run) /\ Pristine(run) /\ dep.routed /\ faults \in Nat /\ AInv
  BY <1>1, EarlyRun
<1>3. agent' = agent
  BY <1>1, <1>2, BetweenRuns DEF RouteOpens
<1>4. Early(s) /\ Pristine(s) /\ s.phase = "routing"
  BY <1>2, EarlyTurns DEF Outcomes
<1>5. l.pc = "routing"
  BY <1>2, GoFacts
<1> HIDE DEF s, l, e
<1>6. Truth(s, l, agent.messages, faults, dep)
  BY <1>1, <1>2, <1>4, <1>5, RoutingTrue
<1>7. \A f \in Nat \ {0} : Truth(s, IdleLoop, agent.messages, f, dep) /\ Truth(run, IdleLoop, agent.messages, f, dep)
  BY <1>2, <1>4, EarlyTrue
<1> QED
  BY <1>1, <1>2, <1>3, <1>6, <1>7, RecordTrue DEF s

LEMMA RouteTrue ==
  ASSUME TInv, NEW decision \in {"agent", "answered", "approval", "blocked", "error"}, RouteDecided(decision)
  PROVE  TruthNext
<1> DEFINE e == Event("routing_finished")
           s == Reduce(run, e)
           l == AfterRoute(decision)
<1>1. loop.pc = "routing" /\ loop.pc \in AtRest /\ loop.pc \in Routes /\ "route_agent" \in Routes
      /\ RecordExternal(e, l, Ids(loop.pend)) /\ agent' = agent
  BY DEF RouteDecided, At, AtRest, Routes
<1>2. Early(run) /\ Pristine(run) /\ dep.routed /\ faults \in Nat /\ AInv
  BY <1>1, EarlyRun
<1>3. Early(s) /\ Pristine(s) /\ s.phase = "running"
  BY <1>2, EarlyTurns DEF Outcomes
<1>4. l.pc = "route_agent" \/ \E pc \in Settlings : l = FreshLoop(pc, FALSE)
  <2>1. \/ AfterRoute(decision) = Go("route_agent")
        \/ \E pc \in Settlings : AfterRoute(decision) = Settling(pc)
    BY DEF AfterRoute, Settlings
  <2> QED
    BY <1>2, <2>1, GoFacts, SettlingIsFresh
<1> HIDE DEF s, l, e
<1>5. Truth(s, l, agent.messages, faults, dep)
  BY <1>1, <1>2, <1>3, <1>4, RoutingTrue, SettlingTrue
<1>6. \A f \in Nat \ {0} : Truth(s, IdleLoop, agent.messages, f, dep) /\ Truth(run, IdleLoop, agent.messages, f, dep)
  BY <1>2, <1>3, EarlyTrue
<1> QED
  BY <1>1, <1>2, <1>5, <1>6, RecordTrue DEF s

LEMMA EnterAgentTrue ==
  ASSUME TInv, EnterAgent
  PROVE  TruthNext
<1> DEFINE M == agent.messages
           l == [IdleLoop EXCEPT !.pc = "agent_start", !.ctx = M \o loop.pend, !.pend = loop.pend, !.skip = FALSE]
<1>1. loop.pc = "route_agent" /\ loop.pc \in AtRest /\ loop.pc \in Routes /\ run' = run
  BY DEF EnterAgent, At, AtRest, Routes
<1>2. Early(run) /\ Pristine(run) /\ dep.routed /\ faults \in Nat /\ AInv /\ run.phase = "running" /\ run.phase \notin Settles
  BY <1>1, EarlyRun
<1>3. Repaired(M) = M /\ IdleAgent(M) = agent
  BY <1>1, <1>2, BetweenRuns
<1>4. CASE StartRun(loop.pend, FALSE, FALSE) /\ faults' = faults
  <2>1. agent' = agent /\ loop' = l
    BY <1>3, <1>4 DEF StartRun
  <2>2. l.pc = "agent_start" /\ l.reply = NoReply
    BY DEF IdleLoop
  <2> HIDE DEF l, M
  <2>3. Truth(run, l, M, faults, dep)
    BY <1>2, <2>2 DEF Early, Truth, OnReply, Between, Failing, AtRest, Routes, Settlings
  <2> QED
    BY <1>1, <1>2, <1>4, <2>1, <2>3 DEF TruthNext, M
<1>5. CASE loop' = IdleLoop /\ faults' = faults + 1 /\ agent' = agent
  <2>1. faults' \in Nat /\ faults' # 0
    BY <1>2, <1>5
  <2> QED
    BY <1>1, <1>2, <1>5, <2>1, EarlyTrue DEF TruthNext
<1> QED
  BY <1>4, <1>5 DEF EnterAgent

LEMMA RunSettlesTrue ==
  ASSUME TInv, RunSettles
  PROVE  TruthNext
<1> DEFINE e == Settlement[loop.pc]
           s == Reduce(run, e)
<1>1. loop.pc \in AtRest /\ loop.pc \in Settlings /\ loop.pc # "idle" /\ RecordExternal(e, IdleLoop, {}) /\ agent' = agent
  BY DEF RunSettles, Settlement, AtRest, Settlings
<1>2. /\ Early(run) /\ dep.routed /\ faults \in Nat /\ run.phase \notin Settles
      /\ loop.pc = "settle_approval" => Pristine(run)
  BY <1>1, EarlyRun
<1>3. \/ \E x : e = ToolEvent("run_finished", 0, x)
      \/ e = Event("approval_required") /\ Pristine(run)
      \/ e = Event("outcome_unknown")
  BY <1>2 DEF RunSettles, Settlement
<1> HIDE DEF e
<1>4. Early(s) /\ ~Unsettled(s)
  BY <1>2, <1>3, EarlyEnds, EarlyTurns DEF Outcomes, Unsettled
<1> HIDE DEF s
<1>5. \A f : Truth(s, IdleLoop, agent.messages, f, dep)
  BY <1>2, <1>4, EarlyTrue
<1>6. \A f \in Nat \ {0} : Truth(run, IdleLoop, agent.messages, f, dep)
  BY <1>2, EarlyTrue
<1> QED
  BY <1>1, <1>2, <1>5, <1>6, RecordTrue DEF s

LEMMA AgentStartTrue ==
  ASSUME TInv, AgentStart
  PROVE  TruthNext
<1> DEFINE M == agent.messages
           e == Event("agent_start")
           l == Go("first_turn")
           s == Tracked(run, e, token)
<1>1. /\ loop.pc = "agent_start" /\ Emit(e, agent, l) /\ AInv /\ faults \in Nat /\ RunShape(run) /\ ~run.asking
      /\ IF dep.routed THEN run.phase = "running" /\ Pristine(run) ELSE run.phase \in Settles
      /\ run.phase = "completed" => OpenTools(run) = {} /\ (~dep.routed => GoodReply(M))
  BY DEF AgentStart, At, TInv, Truth
<1>2. /\ Ok(e)
      /\ IF run.phase \in Settles THEN Started(s, run.asking) ELSE s = run
  BY <1>1, AgentStartTracked DEF Ok
<1>3. l.pc = "first_turn"
  BY <1>1, LoopFacts DEF Go, LoopShape
<1>4. "first_turn" \in Inside
  BY InsideIs DEF InsidePlaces
<1> HIDE DEF e, l, s, M
<1>5. RunShape(s) /\ s.phase = "running" /\ s.tools = << >> /\ ~s.asking
  <2>1. "running" \notin Settles
    BY DEF Settles, TerminalPhases
  <2> QED
    BY <1>1, <1>2, <2>1 DEF Started, Pristine
<1>6. DOMAIN s.tools = {} /\ OpenTools(s) = {} /\ s.phase \in LivePhases
  BY <1>5, NoTools DEF OpenTools, LivePhases
<1>7. Live(s, l, M, faults)
  BY <1>3, <1>5, <1>6 DEF Live, OnReply, Mirrors, Running
<1>8. CASE EmitGoes(e, agent, l)
  <2>1. run' = s /\ loop' = l /\ agent'.messages = M /\ faults' = faults
    BY <1>8 DEF EmitGoes, s, M
  <2> QED
    BY <1>1, <1>3, <1>4, <1>7, <2>1, GoesTrue
<1>9. CASE EmitStruck(e, agent)
  <2>1. faults' \in Nat /\ faults' # 0 /\ ~InCleanup
    BY <1>1, <1>9 DEF EmitStruck, InCleanup
  <2>2. PICK k : Raise(k, agent)
    BY <1>9 DEF EmitStruck
  <2>3. Failed(s, M, faults', dep)
    BY <1>5, <1>6, <2>1, LiveFailed
  <2>4. Failed(run, M, faults', dep)
    BY <1>1, <2>1 DEF Failed, LivePhases
  <2>5. run' = run \/ run' = s
    BY <1>9 DEF EmitStruck, Written, s
  <2> QED
    BY <1>1, <2>1, <2>2, <2>3, <2>4, <2>5, RaiseTrue DEF M
<1> QED
  BY <1>1, <1>2, <1>8, <1>9, EmitCases DEF EmitRefused

\* An empty conversation has no bad reply.
LEMMA NothingSaid == GoodReply(<< >>)
<1>1. LastReply(<< >>) = NoReply
  BY DEF LastReply
<1> QED
  BY <1>1 DEF GoodReply, NoReply, AssistantMessage

LEMMA ResetTrue ==
  ASSUME TInv, Reset
  PROVE  TruthNext
<1>1. loop.pc = "idle" /\ agent'.messages = << >> /\ UNCHANGED <<loop, run, faults>>
  BY DEF Reset, Idle, IdleAgent
<1>2. ~OnReply(loop)
  BY <1>1 DEF OnReply
<1>3. Truth(run, loop, << >>, faults, dep)
  BY <1>1, <1>2, NothingSaid DEF TInv, Truth, Between, Failing, AtRest, Routes, Settlings
<1> QED
  BY <1>1, <1>3 DEF TInv, TruthNext

\* The place of an idle Agent.
LEMMA IdleIs ==
  ASSUME TInv, loop.pc = "idle", NEW r, Truth(r, IdleLoop, agent.messages, faults, dep),
         dep.routed \/ r.phase # "completed"
  PROVE  Truth(r, loop, agent.messages, faults, dep)
<1>1. IdleLoop.pc = "idle" /\ IdleLoop.reply = NoReply /\ ~OnReply(loop) /\ ~OnReply(IdleLoop)
  BY DEF IdleLoop, OnReply
<1> QED
  BY <1>1 DEF Truth, Between, Failing, AtRest, Routes, Settlings

LEMMA ApprovalTrue ==
  ASSUME TInv, Approval
  PROVE  TruthNext
<1> DEFINE M == agent.messages
           g == Reduce(run, Event("approval_granted"))
           e == Event("approval_rejected")
           j == Reduce(run, e)
           c == Settling("settle_cancelled")
<1>1. /\ loop.pc = "idle" /\ loop.pc \in AtRest /\ run.phase = "waiting_approval" /\ agent' = agent
  BY IdleRests DEF Approval, ApprovalGranted, ApprovalRefused, ApprovalRejected, Idle
<1>2. Early(run) /\ Pristine(run) /\ dep.routed /\ faults \in Nat
  BY <1>1, EarlyRun
<1>3. Early(g) /\ Early(j) /\ g.phase = "running" /\ j.phase = "running"
  BY <1>2, EarlyTurns DEF Outcomes
<1> HIDE DEF g, j
<1>4. /\ "approving" \in Settlings /\ "settle_failed" \in Settlings /\ "settle_cancelled" \in Settlings
      /\ c = FreshLoop("settle_cancelled", FALSE)
  BY SettlingIsFresh DEF Settlings
<1>5. \A r \in {run, g, j}, f \in Nat \ {0} : Truth(r, IdleLoop, M, f, dep)
  BY <1>2, <1>3, EarlyTrue
<1>6. \A r \in {run, g, j}, f \in Nat, pc \in {"approving", "settle_failed", "settle_cancelled"} :
         Truth(r, FreshLoop(pc, FALSE), M, f, dep)
  BY <1>1, <1>2, <1>3, <1>4, SettlingTrue
<1>7. CASE ApprovalGranted
  <2>1. PICK f \in Faults : /\ Struck(f) /\ run' = (IF f.stored THEN g ELSE run)
                            /\ loop' = CASE f.raise = "none" -> Settling("approving")
                                         [] f.raise = "error" -> Settling("settle_failed")
                                         [] f.raise = "cancel" -> IdleLoop
    BY <1>7 DEF ApprovalGranted, g
  <2>2. f = Calm \/ (f # Calm /\ f.raise \in {"error", "cancel"})
    BY DEF Faults
  <2>3. run' \in {run, g, j}
    BY <2>1
  <2>4. CASE f = Calm
    <3>1. loop' = FreshLoop("approving", FALSE) /\ faults' = faults
      BY <2>1, <2>4, SettlingIsFresh DEF Calm, Struck
    <3> QED
      BY <1>1, <1>2, <1>6, <2>3, <3>1 DEF TruthNext, M
  <2>5. CASE f # Calm
    <3>1. /\ loop' = FreshLoop("settle_failed", FALSE) \/ loop' = IdleLoop
          /\ faults' \in Nat \ {0}
      <4>1. loop' = Settling("settle_failed") \/ loop' = IdleLoop
        BY <2>1, <2>2, <2>5
      <4>2. faults' = faults + 1 /\ faults \in Nat
        BY <1>2, <2>1, <2>5 DEF Struck
      <4>3. Settling("settle_failed") = FreshLoop("settle_failed", FALSE)
        BY SettlingIsFresh
      <4>4. faults' \in Nat \ {0}
        BY <4>2
      <4> QED
        BY <4>1, <4>3, <4>4
    <3> QED
      BY <1>1, <1>2, <1>5, <1>6, <2>3, <3>1 DEF TruthNext, M
  <2> QED
    BY <2>4, <2>5
<1>8. CASE ApprovalRefused
  <2>1. loop' = FreshLoop("settle_failed", FALSE) /\ UNCHANGED <<run, faults>>
    BY <1>8, SettlingIsFresh DEF ApprovalRefused
  <2> QED
    BY <1>1, <1>2, <1>6, <2>1 DEF TruthNext, M
<1>9. CASE ApprovalRejected
  <2>1. RecordExternal(e, c, {})
    BY <1>9 DEF ApprovalRejected
  <2>2. Truth(j, c, M, faults, dep)
    BY <1>2, <1>4, <1>6
  <2> HIDE DEF c, e
  <2> QED
    BY <1>1, <1>2, <1>5, <2>1, <2>2, RecordTrue DEF j, M
<1> QED
  BY <1>7, <1>8, <1>9 DEF Approval

LEMMA ApprovedTrue ==
  ASSUME TInv, NEW outcome \in {"settle_completed", "settle_failed", "settle_unknown"}, ApprovedWriteEnds(outcome)
  PROVE  TruthNext
<1>1. loop.pc = "approving" /\ loop.pc \in AtRest /\ loop.pc \in Settlings /\ UNCHANGED <<agent, run>>
      /\ outcome \in Settlings
  BY DEF ApprovedWriteEnds, At, AtRest, Settlings
<1>2. Early(run) /\ dep.routed /\ faults \in Nat /\ run.phase \in {"running", "waiting_approval"}
  BY <1>1, EarlyRun
<1>3. CASE loop' = Settling(outcome) /\ faults' = faults
  BY <1>1, <1>2, <1>3, SettlingIsFresh, SettlingTrue DEF TruthNext
<1>4. CASE loop' = IdleLoop /\ faults' = faults + 1
  <2>1. faults' \in Nat /\ faults' # 0
    BY <1>2, <1>4
  <2> QED
    BY <1>1, <1>2, <1>4, <2>1, EarlyTrue DEF TruthNext
<1> QED
  BY <1>3, <1>4 DEF ApprovedWriteEnds

LEMMA RestartTrue ==
  ASSUME TInv, Restart
  PROVE  TruthNext
<1> DEFINE i == Reduce(run, Event("run_interrupted"))
           s == [i EXCEPT !.asking = FALSE]
<1>1. loop.pc = "idle" /\ run' = s /\ UNCHANGED <<agent, loop, faults>> /\ faults \in Nat /\ RunShape(run)
  BY DEF Restart, Idle, TInv, Truth
<1>2. Turned(i, run, "suspended", "process_interrupted")
  BY <1>1, TurnsTo DEF Outcomes
<1> HIDE DEF i
<1>3. RunShape(i) /\ i.phase = "suspended"
  BY <1>2 DEF Turned
<1>4. RunShape(s) /\ s.phase = "suspended" /\ ~s.asking
  BY <1>3 DEF RunShape
<1> HIDE DEF s
<1>5. Truth(s, IdleLoop, agent.messages, faults, dep)
  BY <1>4, IdleTrue DEF Settles, TerminalPhases
<1> QED
  BY <1>1, <1>4, <1>5, IdleIs DEF TruthNext

LEMMA InitTrue ==
  ASSUME Init
  PROVE  TInv
<1>1. agent.messages = << >> /\ loop = IdleLoop /\ run = NoRun /\ faults = 0
  BY DEF Init, IdleAgent
<1>2. RunShape(NoRun) /\ ~NoRun.asking /\ NoRun.phase = "idle"
  BY NoTools DEF NoRun, RunShape, RunPhases, Settles, Failures
<1>3. Truth(NoRun, IdleLoop, << >>, 0, dep)
  BY <1>2, IdleTrue DEF Settles
<1> QED
  BY <1>1, <1>3, InitAInv DEF TInv

-----------------------------------------------------------------------------
(* The Run tells the truth *)

LEMMA TurnTrue ==
  ASSUME TInv, MaxFaults <= 1, Turn
  PROVE  TruthNext
<1>1. CASE AgentStart \/ FirstTurn \/ EmitPrompt \/ PollSteering \/ BeginTurn \/ Inject
  BY <1>1, AgentStartTrue, CalmSteps, UserTrue, DrainTrue, BeginTurnTrue
<1>2. CASE RequestModel \/ ForwardStreamEvent \/ Overflow
           \/ \E raw \in dep.batches, stop \in Stops, denied \in BOOLEAN : ModelReplies(raw, stop, denied)
  BY <1>2, RequestTrue, OverflowTrue, RepliesTrue
<1>3. CASE CommitReply \/ DenyBudget \/ RefuseStart \/ RefuseEnd \/ RefuseResult
  BY <1>3, CommitTrue, DenyTrue, StartTrue, EndingTrue, ResultTrue
<1>4. CASE EmitResult \/ KeepResults \/ EndTurn \/ StopAfterTurn \/ TurnBudget \/ NextTurn \/ AgentEnd
  BY <1>4, ResultTrue, OverTrue, CalmSteps, DrainTrue, AgentEndTrue
<1>5. CASE RepairTranscript \/ FailStart \/ FailMessage \/ FailTurn \/ FailEnd
  BY <1>5, RepairTrue, FailStartTrue, FailMessageTrue, FailTurnTrue, FailEndTrue
<1>6. ASSUME NEW decision \in {"agent", "answered", "approval", "blocked", "error"}, RouteDecided(decision)
      PROVE  TruthNext
  BY <1>6, RouteTrue
<1>7. CASE RouteOpens \/ EnterAgent \/ RunSettles
  BY <1>7, RouteOpensTrue, EnterAgentTrue, RunSettlesTrue
<1>8. CASE \E outcome \in {"settle_completed", "settle_failed", "settle_unknown"} : ApprovedWriteEnds(outcome)
  BY <1>8, ApprovedTrue
<1> QED
  BY <1>1, <1>2, <1>3, <1>4, <1>5, <1>6, <1>7, <1>8 DEF Turn

LEMMA ToolsTrue ==
  ASSUME TInv, Tools
  PROVE  TruthNext
<1>1. CASE GuardStart \/ GuardBlocks \/ GuardPasses \/ GuardDone
  BY <1>1, StartTrue, EndingTrue, GuardTrue
<1>2. CASE \E terminate \in BOOLEAN : GatherCalls(terminate)
  BY <1>2, OverTrue
<1>3. ASSUME NEW c \in DOMAIN loop.call,
             \/ Dispatch(c) \/ ScheduleRetry(c) \/ Retry(c) \/ CallCancelled(c) \/ EndCall(c)
             \/ \E kind \in {"done", "failed"} : HandlerReturns(c, kind)
      PROVE  TruthNext
  BY <1>3, DispatchTrue, WaitTrue, EndingTrue
<1> QED
  BY <1>1, <1>2, <1>3 DEF Tools

LEMMA EnvironmentTrue ==
  ASSUME TInv, Environment
  PROVE  TruthNext
<1>1. ASSUME NEW u \in Users, Prompt(u) \/ RoutedPrompt(u) \/ Steer(u) \/ FollowUp(u) PROVE TruthNext
  <2>1. CASE Steer(u) \/ FollowUp(u)
    BY <2>1 DEF Steer, FollowUp, TInv, TruthNext
  <2> QED
    BY <1>1, <2>1, PromptTrue, RoutedTrue
<1>2. CASE Abort
  BY <1>2 DEF Abort, TInv, TruthNext
<1>3. CASE ContinueRun \/ Reset \/ Restart
  BY <1>3, PromptTrue, ResetTrue, RestartTrue
<1>4. CASE Approval
  BY <1>4, ApprovalTrue
<1>5. ASSUME NEW kind, Interrupted(kind) PROVE TruthNext
  BY <1>5, InterruptedTrue
<1> QED
  BY <1>1, <1>2, <1>3, <1>4, <1>5 DEF Environment, Approval

\* The deployment of an Agent never changes.
LEMMA DeploymentStays ==
  ASSUME Next
  PROVE  dep' = dep
<1>1. CASE Turn
  BY <1>1 DEF Turn, AgentStart, FirstTurn, EmitPrompt, PollSteering, BeginTurn, Inject, RequestModel,
              ForwardStreamEvent, Overflow, ModelReplies, CommitReply, DenyBudget, RefuseStart, RefuseEnd,
              RefuseResult, EmitResult, KeepResults, EndTurn, StopAfterTurn, TurnBudget, NextTurn, AgentEnd,
              RepairTranscript, FailStart, FailMessage, FailTurn, FailEnd, RouteDecided, RouteOpens,
              EnterAgent, RunSettles, ApprovedWriteEnds, Alone, Hold
<1>2. CASE Tools
  BY <1>2 DEF Tools, GuardStart, GuardBlocks, GuardPasses, GuardDone, GatherCalls, Dispatch, ScheduleRetry,
              Retry, CallCancelled, EndCall, HandlerReturns, Alone, Hold
<1>3. CASE Environment
  BY <1>3 DEF Environment, Prompt, RoutedPrompt, Steer, FollowUp, ContinueRun, Abort, Reset, Restart,
              ApprovalGranted, ApprovalRefused, ApprovalRejected, Interrupted, Alone, Hold
<1> QED
  BY <1>1, <1>2, <1>3 DEF Next

LEMMA TruthInvariance ==
  ASSUME MaxFaults <= 1
  PROVE  Spec => []TInv
<1>1. Init => TInv
  BY InitTrue
<1>2. TInv /\ [Next]_vars => TInv'
  <2> SUFFICES ASSUME TInv, [Next]_vars PROVE TInv'
    OBVIOUS
  <2>1. AInv
    BY DEF TInv
  <2>2. CASE Next
    <3>1. AInv'
      BY <2>1, <2>2, TurnKeeps, ToolsKeep, EnvironmentKeeps DEF Next
    <3>2. TruthNext /\ dep' = dep
      BY <2>2, TurnTrue, ToolsTrue, EnvironmentTrue, DeploymentStays DEF Next
    <3> QED
      BY <3>1, <3>2 DEF TInv, TruthNext
  <2>3. CASE UNCHANGED vars
    <3>1. AInv'
      BY <2>1, <2>3 DEF vars, AInv
    <3>2. UNCHANGED <<agent, loop, run, faults, dep>>
      BY <2>3 DEF vars
    <3> QED
      BY <3>1, <3>2 DEF TInv
  <2> QED
    BY <2>2, <2>3
<1> QED
  BY <1>1, <1>2, PTL DEF Spec

\* runtime/reducer.py, tracker.py: while at most one listener or record fails, a Run the tracker recorded
\* as completed has no open Tool Call and no failed, aborted or truncated response at its end, and the
\* loop never leaves a Run open behind an idle Agent: only the router or an approval does, and only when
\* a record of its own failed or was cancelled, before any Tool Call of the Run.
THEOREM TruthfulRunHolds ==
  ASSUME MaxFaults <= 1
  PROVE  Spec => []TruthfulRun
<1>1. ASSUME TInv PROVE TruthfulRun
  <2>1. Truth(run, loop, agent.messages, faults, dep)
    BY <1>1 DEF TInv
  <2>2. NoReply.stop = "none"
    BY DEF NoReply, AssistantMessage
  <2> QED
    BY <2>1, <2>2 DEF Truth, TruthfulRun, GoodReply, Idle, Settles, Abandoned, Leaves
<1> QED
  BY <1>1, TruthInvariance, PTL
=============================================================================
