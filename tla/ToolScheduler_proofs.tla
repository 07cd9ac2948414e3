------------------------ MODULE ToolScheduler_proofs ------------------------
(***************************************************************************)
(* The Tool runtime, for any calls, resource keys and limits.              *)
(*                                                                         *)
(* First, what it reports about side effects and the order of the fencing  *)
(* tokens of the cross-process locks.  Neither depends on how the locks    *)
(* are granted: a step that asks for a lock, gets one or gives one up      *)
(* changes the position of calls on their paths and wakes others, and      *)
(* nothing else of them.                                                   *)
(*                                                                         *)
(* Then the locks: every semaphore and every read-write lock stands for    *)
(* the calls that have it and the calls that are queued for it, whatever   *)
(* races with a grant; and, since each call takes what it needs by growing *)
(* rank, the calls of a process never wait for each other in a circle.     *)
(***************************************************************************)
EXTENDS ToolScheduler, FiniteSetTheorems, SequenceTheorems, WellFoundedInduction, TLAPS

\* What a call with replay_policy "never" has done and may still do: n is the
\* number of its committed side effects.
HonestCall(c, n) ==
    /\ n \in {0, 1}
    /\ c.entered => c.everEntered
    /\ c.pc \in {"new", "queued", "waiting", "backoff"} => n = 0
    /\ c.pc = "waiting" => ~c.committed
    /\ c.pc = "running" => /\ c.started
                           /\ n = 1 <=> c.committed
                           /\ c.committed => c.entered
    /\ c.pc = "unwind" /\ n = 1 =>
          c.started /\ c.everEntered /\ c.why \in {"ok", "lost_unknown", "interrupted", "raised", "cancelled"}
    /\ c.pc = "after" /\ n = 1 => c.out \in {"ok", "unknown"}
    /\ c.pc = "ended" /\ n = 1 => c.out \in {"ok", "unknown", "absent", "not_executed"}

\* The rows of a conflicting call d block c, or d took them after c.
Fenced(c, d, T) ==
    (/\ c # d /\ T[c] > 0 /\ T[d] > 0
     /\ Conflict(AccessOf[c], AccessOf[d])
     /\ \E r \in rows : r.owner = d /\ r.key \in ToSet(KeysOf[c]))
        => T[c] < T[d]

Tokens == [c \in Calls |-> call[c].token]

Inv ==
    /\ TypeOK
    /\ \A c \in Never : HonestCall(call[c], effects[c])
    /\ \A c \in Calls : call[c].token <= lastToken
    /\ \A c, d \in Calls : Fenced(c, d, Tokens)

-----------------------------------------------------------------------------
\* d is c, with another position on its path or another grant.
SameCall(d, c) ==
    /\ d.pc = c.pc /\ d.token = c.token /\ d.entered = c.entered
    /\ d.everEntered = c.everEntered /\ d.started = c.started /\ d.committed = c.committed
    /\ d.why = c.why /\ d.out = c.out

LEMMA WakeFacts ==
  ASSUME NEW f \in [Calls -> CallStates], NEW woken
  PROVE  /\ Wake(f, woken) \in [Calls -> CallStates]
         /\ \A c \in Calls : SameCall(Wake(f, woken)[c], f[c])
<1>1. ASSUME NEW c \in Calls
      PROVE  /\ [f[c] EXCEPT !.granted = TRUE] \in CallStates
             /\ SameCall([f[c] EXCEPT !.granted = TRUE], f[c])
  BY DEF CallStates, SameCall
<1>2. \A c \in Calls : SameCall(f[c], f[c])
  BY DEF SameCall
<1>3. \A c \in Calls : Wake(f, woken)[c] = IF c \in woken THEN [f[c] EXCEPT !.granted = TRUE] ELSE f[c]
  BY DEF Wake
<1>4. Wake(f, woken) \in [Calls -> CallStates]
  BY <1>1 DEF Wake
<1> QED
  BY <1>1, <1>2, <1>3, <1>4

LEMMA HonestSame ==
  ASSUME NEW c, NEW d, NEW n, HonestCall(c, n), SameCall(d, c)
  PROVE  HonestCall(d, n)
  BY DEF HonestCall, SameCall

\* The table of tokens after a step that takes no row and gives no token.
LEMMA FencedKeeps ==
  ASSUME Inv, call' \in [Calls -> CallStates], rows' \subseteq rows,
         \A c \in Calls : call'[c].token \in {0, call[c].token}
  PROVE  \A c, d \in Calls : Fenced(c, d, Tokens)'
<1>1. \A c \in Calls : Tokens[c] \in Nat /\ Tokens'[c] \in {0, Tokens[c]}
  BY DEF Tokens, Inv, TypeOK, CallStates
<1> SUFFICES ASSUME NEW c \in Calls, NEW d \in Calls PROVE Fenced(c, d, Tokens)'
  OBVIOUS
<1>2. Fenced(c, d, Tokens)
  BY DEF Inv
<1> QED
  BY <1>1, <1>2 DEF Fenced

\* A step of call c: the others keep what counts.
LEMMA StepKeeps ==
  ASSUME Inv, NEW c \in Calls, call' \in [Calls -> CallStates],
         \A d \in Calls \ {c} : SameCall(call'[d], call[d]) /\ effects'[d] = effects[d],
         c \in Never => HonestCall(call'[c], effects'[c]), effects' \in [Calls -> Nat],
         call'[c].token \in {0, call[c].token}, rows' \subseteq rows, lastToken' = lastToken
  PROVE  Inv'
<1>1. \A d \in Calls : call'[d].token \in {0, call[d].token}
  BY DEF SameCall
<1>2. \A d, e \in Calls : Fenced(d, e, Tokens)'
  BY <1>1, FencedKeeps
<1>3. \A d \in Calls : call'[d].token <= lastToken'
  BY <1>1 DEF Inv, TypeOK, CallStates
<1>4. \A d \in Never : HonestCall(call'[d], effects'[d])
  BY HonestSame, CallAssumption DEF Inv
<1>5. TypeOK'
  BY DEF Inv, TypeOK
<1> QED
  BY <1>2, <1>3, <1>4, <1>5 DEF Inv

-----------------------------------------------------------------------------
(* Asking for an entry of the path, and giving up the wait *)

\* The call c goes to pc with reason why; f is what it was made of.
Moved(new, f, c, pc, why) ==
    /\ new \in [Calls -> CallStates]
    /\ \A d \in Calls \ {c} : SameCall(new[d], f[d])
    /\ new[c].pc = pc /\ new[c].why = why
    /\ new[c].token = f[c].token /\ new[c].entered = f[c].entered
    /\ new[c].everEntered = f[c].everEntered /\ new[c].started = f[c].started
    /\ new[c].committed = f[c].committed /\ new[c].out = f[c].out

LEMMA WakeMoved ==
  ASSUME NEW new, NEW f, NEW c \in Calls, NEW pc, NEW why, Moved(new, f, c, pc, why), NEW woken
  PROVE  Moved(Wake(new, woken), f, c, pc, why)
<1>1. /\ Wake(new, woken) \in [Calls -> CallStates]
      /\ \A d \in Calls : SameCall(Wake(new, woken)[d], new[d])
  BY WakeFacts DEF Moved
<1>2. \A d \in Calls \ {c} : SameCall(Wake(new, woken)[d], f[d])
  BY <1>1 DEF Moved, SameCall
<1> QED
  BY <1>1, <1>2 DEF Moved, SameCall

LEMMA AskMoves ==
  ASSUME NEW c \in Calls, NEW at \in Nat, NEW f \in [Calls -> CallStates], Ask(c, at, f)
  PROVE  Moved(call', f, c, "waiting", f[c].why)
<1> DEFINE rec == [f[c] EXCEPT !.pc = "waiting", !.at = at, !.granted = FALSE]
           next == [f EXCEPT ![c] = rec]
<1>1. next = [f EXCEPT ![c].pc = "waiting", ![c].at = at, ![c].granted = FALSE]
  OBVIOUS
<1>2. f[c] \in CallStates
  OBVIOUS
<1>3. rec \in CallStates
  BY <1>2 DEF CallStates
<1>4. /\ rec.pc = "waiting" /\ rec.why = f[c].why /\ rec.token = f[c].token
      /\ rec.entered = f[c].entered /\ rec.everEntered = f[c].everEntered
      /\ rec.started = f[c].started /\ rec.committed = f[c].committed /\ rec.out = f[c].out
  BY <1>2 DEF CallStates
<1>5. call' = next \/ \E woken : call' = Wake(next, woken)
  BY <1>1 DEF Ask
<1> HIDE DEF rec
<1>6. Moved(next, f, c, "waiting", f[c].why)
  BY <1>3, <1>4 DEF Moved, SameCall
<1> HIDE DEF next
<1>7. \A woken : Moved(Wake(next, woken), f, c, "waiting", f[c].why)
  BY <1>6, WakeMoved
<1> QED
  BY <1>5, <1>6, <1>7

LEMMA GiveUpMoves ==
  ASSUME NEW c \in Calls, NEW why \in Endings, call \in [Calls -> CallStates],
         GiveUp(c, why, call)
  PROVE  Moved(call', call, c, "unwind", why)
<1> DEFINE rec == [call[c] EXCEPT !.pc = "unwind", !.why = why, !.granted = FALSE]
           next == [call EXCEPT ![c] = rec]
<1>1. next = [call EXCEPT ![c].pc = "unwind", ![c].why = why, ![c].granted = FALSE]
  OBVIOUS
<1>2. call[c] \in CallStates
  OBVIOUS
<1>3. rec \in CallStates
  BY <1>2 DEF CallStates
<1>4. /\ rec.pc = "unwind" /\ rec.why = why /\ rec.token = call[c].token
      /\ rec.entered = call[c].entered /\ rec.everEntered = call[c].everEntered
      /\ rec.started = call[c].started /\ rec.committed = call[c].committed
      /\ rec.out = call[c].out
  BY <1>2 DEF CallStates
<1>5. call' = next \/ \E woken : call' = Wake(next, woken)
  BY <1>1 DEF GiveUp
<1> HIDE DEF rec
<1>6. Moved(next, call, c, "unwind", why)
  BY <1>3, <1>4 DEF Moved, SameCall
<1> HIDE DEF next
<1>7. \A woken : Moved(Wake(next, woken), call, c, "unwind", why)
  BY <1>6, WakeMoved
<1> QED
  BY <1>5, <1>6, <1>7

-----------------------------------------------------------------------------
(* Init and the steps *)

LEMMA NewCallFacts ==
  /\ NewCall \in CallStates
  /\ NewCall.pc = "new" /\ NewCall.token = 0 /\ NewCall.entered = FALSE
  /\ Rejected \in CallStates
  /\ Rejected.pc = "ended" /\ Rejected.token = 0 /\ Rejected.entered = FALSE
  /\ [NewCall EXCEPT !.pc = "ended"] \in CallStates
  /\ [NewCall EXCEPT !.pc = "ended"].pc = "ended"
  /\ [NewCall EXCEPT !.pc = "ended"].token = 0
  /\ [NewCall EXCEPT !.pc = "ended"].entered = FALSE
  BY DEF NewCall, Rejected, CallStates, Endings

LEMMA InvInit == Init => Inv
<1> SUFFICES ASSUME Init PROVE Inv
  OBVIOUS
<1>1. call \in [Calls -> CallStates]
  BY NewCallFacts DEF Init
<1>2. \A c \in Calls : /\ call[c].token = 0 /\ call[c].entered = FALSE
                       /\ call[c].pc \in {"new", "ended"} /\ effects[c] = 0
  BY NewCallFacts DEF Init
<1>3. TypeOK
  BY <1>1 DEF TypeOK, Init
<1>4. \A c \in Never : HonestCall(call[c], effects[c])
  BY <1>2, CallAssumption DEF HonestCall
<1>5. \A c, d \in Calls : Fenced(c, d, Tokens)
  BY <1>2 DEF Fenced, Tokens
<1>6. lastToken = 0
  BY DEF Init
<1> QED
  BY <1>2, <1>3, <1>4, <1>5, <1>6 DEF Inv

\* A step that only replaces the record of c.
LEMMA ReplaceKeeps ==
  ASSUME Inv, NEW c \in Calls, NEW rec \in CallStates, call' = [call EXCEPT ![c] = rec],
         c \in Never => HonestCall(rec, effects[c]), rec.token \in {0, call[c].token},
         effects' = effects, rows' \subseteq rows, lastToken' = lastToken
  PROVE  Inv'
<1>1. call \in [Calls -> CallStates] /\ effects \in [Calls -> Nat]
  BY DEF Inv, TypeOK
<1>2. call' \in [Calls -> CallStates] /\ call'[c] = rec
  BY <1>1
<1>3. \A d \in Calls \ {c} : SameCall(call'[d], call[d])
  BY <1>1 DEF SameCall
<1> QED
  BY <1>1, <1>2, <1>3, StepKeeps

LEMMA RejectKeeps ==
  ASSUME Inv, NEW c \in Calls, RejectBatch(c)
  PROVE  Inv'
<1>1. \A d \in Calls : call'[d] = IF d \in Siblings(c) THEN Rejected ELSE call[d]
  BY DEF RejectBatch
<1>2. \A d \in Siblings(c) : call[d].pc = "new"
  BY DEF RejectBatch
<1>3. call' \in [Calls -> CallStates]
  BY NewCallFacts DEF RejectBatch, Inv, TypeOK
<1>4. \A d \in Calls : call'[d].token \in {0, call[d].token}
  BY <1>1, NewCallFacts
<1>5. UNCHANGED <<rows, lastToken, effects>>
  BY DEF RejectBatch
<1>6. \A d, e \in Calls : Fenced(d, e, Tokens)'
  BY <1>3, <1>4, <1>5, FencedKeeps
<1>7. \A d \in Calls : call'[d].token <= lastToken'
  BY <1>4, <1>5 DEF Inv, TypeOK, CallStates
<1>8. ASSUME NEW d \in Never PROVE HonestCall(call'[d], effects'[d])
  <2>1. HonestCall(call[d], effects[d]) /\ d \in Calls
    BY CallAssumption DEF Inv
  <2>2. CASE d \in Siblings(c)
    <3>1. effects[d] = 0
      BY <1>2, <2>1, <2>2 DEF HonestCall
    <3> QED
      BY <1>1, <1>5, <2>1, <2>2, <3>1, NewCallFacts DEF HonestCall
  <2>3. CASE d \notin Siblings(c)
    BY <1>1, <1>5, <2>1, <2>3
  <2> QED
    BY <2>2, <2>3
<1>9. TypeOK'
  BY <1>3, <1>5 DEF Inv, TypeOK
<1> QED
  BY <1>6, <1>7, <1>8, <1>9 DEF Inv

\* A step that leaves the side effects and the table alone and moves c.
LEMMA MovedKeeps ==
  ASSUME Inv, NEW c \in Calls, NEW f, NEW pc, NEW why, Moved(call', f, c, pc, why),
         \A d \in Calls \ {c} : SameCall(f[d], call[d]),
         f[c].token \in {0, call[c].token},
         c \in Never => HonestCall(call'[c], effects[c]),
         effects' = effects, rows' \subseteq rows, lastToken' = lastToken
  PROVE  Inv'
<1>1. /\ call' \in [Calls -> CallStates] /\ effects \in [Calls -> Nat]
      /\ call'[c].token \in {0, call[c].token}
  BY DEF Inv, TypeOK, Moved
<1>2. \A d \in Calls \ {c} : SameCall(call'[d], call[d])
  BY DEF Moved, SameCall
<1> QED
  BY <1>1, <1>2, StepKeeps

LEMMA GuardKeeps ==
  ASSUME Inv, NEW c \in Calls, Guard(c)
  PROVE  Inv'
<1>1. /\ call[c] \in CallStates /\ call \in [Calls -> CallStates] /\ call[c].pc = "new"
      /\ UNCHANGED <<rows, lastToken, effects>>
  BY DEF Inv, TypeOK, Guard
<1>2. c \in Never => HonestCall(call[c], effects[c]) /\ effects[c] = 0
  BY <1>1 DEF Inv, HonestCall
<1>3. CASE call' = [call EXCEPT ![c].pc = "queued"]
  <2> DEFINE rec == [call[c] EXCEPT !.pc = "queued"]
  <2>1. rec \in CallStates /\ rec.pc = "queued" /\ rec.token = call[c].token
        /\ rec.entered = call[c].entered /\ rec.everEntered = call[c].everEntered
    BY <1>1 DEF CallStates
  <2>2. call' = [call EXCEPT ![c] = rec]
    BY <1>3
  <2> HIDE DEF rec
  <2>3. c \in Never => HonestCall(rec, effects[c])
    BY <1>2, <2>1 DEF HonestCall
  <2> QED
    BY <1>1, <2>1, <2>2, <2>3, ReplaceKeeps
<1>4. CASE call' = [call EXCEPT ![c] = Rejected]
  <2>1. c \in Never => HonestCall(Rejected, effects[c])
    BY <1>2, NewCallFacts DEF HonestCall
  <2> QED
    BY <1>1, <1>4, <2>1, NewCallFacts, ReplaceKeeps
<1> QED
  BY <1>3, <1>4 DEF Guard

LEMMA EnterKeeps ==
  ASSUME Inv, NEW c \in Calls, Enter(c)
  PROVE  Inv'
<1> DEFINE f == [call EXCEPT ![c].attempt = @ + 1, ![c].entered = FALSE,
                             ![c].committed = FALSE, ![c].why = "none"]
           rec == [call[c] EXCEPT !.attempt = @ + 1, !.entered = FALSE,
                                  !.committed = FALSE, !.why = "none"]
<1>1. /\ call[c] \in CallStates /\ call \in [Calls -> CallStates]
      /\ call[c].pc \in {"queued", "backoff"}
      /\ UNCHANGED <<rows, lastToken, effects>> /\ Ask(c, 0, f)
  BY DEF Inv, TypeOK, Enter
<1>2. call[c].attempt + 1 \in Nat
  BY <1>1 DEF CallStates
<1>3. rec \in CallStates
  BY <1>1, <1>2 DEF CallStates, Endings
<1>4. rec.token = call[c].token /\ rec.entered = FALSE /\ rec.committed = FALSE
  BY <1>1 DEF CallStates
<1>5. f = [call EXCEPT ![c] = rec]
  BY <1>1
<1> HIDE DEF f, rec
<1>6. f \in [Calls -> CallStates] /\ f[c] = rec /\ \A d \in Calls \ {c} : SameCall(f[d], call[d])
  BY <1>1, <1>3, <1>5 DEF SameCall
<1>7. Moved(call', f, c, "waiting", f[c].why)
  BY <1>1, <1>6, AskMoves
<1>8. c \in Never => HonestCall(call'[c], effects[c])
  <2>1. c \in Never => effects[c] = 0
    BY <1>1 DEF Inv, HonestCall
  <2>2. call'[c].pc = "waiting" /\ call'[c].entered = FALSE /\ call'[c].committed = FALSE
    BY <1>4, <1>6, <1>7 DEF Moved
  <2> QED
    BY <2>1, <2>2 DEF HonestCall
<1> QED
  BY <1>1, <1>4, <1>6, <1>7, <1>8, MovedKeeps

LEMMA ResumeKeeps ==
  ASSUME Inv, NEW c \in Calls, Resume(c)
  PROVE  Inv'
<1> DEFINE at == call[c].at + 1
<1>1. /\ call[c] \in CallStates /\ call \in [Calls -> CallStates] /\ call[c].pc = "waiting"
      /\ UNCHANGED <<rows, lastToken, effects>> /\ at \in Nat
  BY DEF Inv, TypeOK, Resume, CallStates
<1>2. c \in Never => /\ effects[c] = 0 /\ ~call[c].committed
                     /\ call[c].entered => call[c].everEntered
  BY <1>1 DEF Inv, HonestCall
<1>3. CASE at = Len(Path(c))
  <2> DEFINE rec == [call[c] EXCEPT !.pc = "running", !.at = at, !.granted = FALSE, !.started = TRUE]
  <2>1. call' = [call EXCEPT ![c].pc = "running", ![c].at = at, ![c].granted = FALSE, ![c].started = TRUE]
    BY <1>3 DEF Resume
  <2> HIDE DEF at
  <2>2. rec \in CallStates
    BY <1>1 DEF CallStates
  <2>3. /\ rec.pc = "running" /\ rec.token = call[c].token /\ rec.started = TRUE
        /\ rec.entered = call[c].entered /\ rec.everEntered = call[c].everEntered
        /\ rec.committed = call[c].committed
    BY <1>1 DEF CallStates
  <2>4. call' = [call EXCEPT ![c] = rec]
    BY <1>1, <2>1 DEF CallStates
  <2> HIDE DEF rec
  <2>5. c \in Never => HonestCall(rec, effects[c])
    <3> SUFFICES ASSUME c \in Never PROVE HonestCall(rec, effects[c])
      OBVIOUS
    <3>1. ~call[c].committed /\ effects[c] = 0
      BY <1>2
    <3>2. call[c].entered => call[c].everEntered
      BY <1>2
    <3>3. ~rec.committed /\ (rec.entered => rec.everEntered) /\ rec.started
      BY <2>3, <3>1, <3>2
    <3> QED
      BY <2>3, <3>1, <3>3 DEF HonestCall
  <2> QED
    BY <1>1, <2>2, <2>3, <2>4, <2>5, ReplaceKeeps
<1>4. CASE at # Len(Path(c))
  <2>1. Ask(c, at, call)
    BY <1>4 DEF Resume
  <2> HIDE DEF at
  <2>2. Moved(call', call, c, "waiting", call[c].why)
    BY <1>1, <2>1, AskMoves
  <2>3. c \in Never => HonestCall(call'[c], effects[c])
    <3> SUFFICES ASSUME c \in Never PROVE HonestCall(call'[c], effects[c])
      OBVIOUS
    <3>1. ~call[c].committed /\ effects[c] = 0
      BY <1>2
    <3>2. call[c].entered => call[c].everEntered
      BY <1>2
    <3>3. /\ ~call'[c].committed /\ call'[c].pc = "waiting"
          /\ call'[c].entered => call'[c].everEntered
      BY <2>2, <3>1, <3>2 DEF Moved
    <3> QED
      BY <3>1, <3>3 DEF HonestCall
  <2>4. \A d \in Calls \ {c} : SameCall(call[d], call[d])
    BY DEF SameCall
  <2> QED
    BY <1>1, <2>2, <2>3, <2>4, MovedKeeps
<1> QED
  BY <1>3, <1>4

\* The new token is larger than every other, and no row of a call that
\* conflicts with c was in the way.
LEMMA TableKeeps ==
  ASSUME Inv, NEW c \in Calls, TryTable(c)
  PROVE  Inv'
<1> DEFINE f == [call EXCEPT ![c].token = NewToken, ![c].hb = "alive"]
           rec == [call[c] EXCEPT !.token = NewToken, !.hb = "alive"]
           mine == {[key |-> k, owner |-> c, access |-> AccessOf[c]] : k \in ToSet(KeysOf[c])}
<1>1. /\ call[c] \in CallStates /\ call \in [Calls -> CallStates] /\ call[c].pc = "waiting"
      /\ effects' = effects /\ rows' = rows \cup mine /\ lastToken' = NewToken
      /\ Ask(c, call[c].at + 1, f) /\ call[c].at + 1 \in Nat
  BY DEF Inv, TypeOK, TryTable, Awaits, CallStates
<1>2. NewToken = lastToken + 1 /\ NewToken \in Nat /\ lastToken \in Nat
  BY DEF NewToken, Inv, TypeOK
<1>3. \A r \in mine : r.owner = c /\ r.access = AccessOf[c]
  OBVIOUS
<1> HIDE DEF mine
<1>4. rec \in CallStates
  BY <1>1, <1>2 DEF CallStates
<1>5. /\ rec.token = NewToken /\ rec.entered = call[c].entered /\ rec.everEntered = call[c].everEntered
      /\ rec.committed = call[c].committed
  BY <1>1 DEF CallStates
<1>6. f = [call EXCEPT ![c] = rec]
  BY <1>1
<1> HIDE DEF f, rec
<1>7. f \in [Calls -> CallStates] /\ f[c] = rec /\ \A d \in Calls \ {c} : SameCall(f[d], call[d])
  BY <1>1, <1>4, <1>6 DEF SameCall
<1>8. Moved(call', f, c, "waiting", f[c].why)
  BY <1>1, <1>7, AskMoves
<1>9. /\ call' \in [Calls -> CallStates] /\ call'[c].token = NewToken /\ call'[c].pc = "waiting"
      /\ call'[c].entered = call[c].entered /\ call'[c].everEntered = call[c].everEntered
      /\ call'[c].committed = call[c].committed
      /\ \A d \in Calls \ {c} : SameCall(call'[d], call[d])
  BY <1>5, <1>7, <1>8 DEF Moved, SameCall
<1>10. TypeOK'
  BY <1>1, <1>2, <1>3, <1>9 DEF Inv, TypeOK
<1>11. ASSUME NEW d \in Never PROVE HonestCall(call'[d], effects'[d])
  <2>1. HonestCall(call[d], effects[d]) /\ d \in Calls
    BY CallAssumption DEF Inv
  <2>2. CASE d = c
    BY <1>1, <1>9, <2>1, <2>2 DEF HonestCall
  <2>3. CASE d # c
    BY <1>1, <1>9, <2>1, <2>3, HonestSame
  <2> QED
    BY <2>2, <2>3
<1>12. \A d \in Calls : /\ call[d].token \in Nat /\ call[d].token <= lastToken
                        /\ call'[d].token = IF d = c THEN NewToken ELSE call[d].token
  BY <1>1, <1>9 DEF Inv, TypeOK, CallStates, SameCall
<1>13. \A d \in Calls : call'[d].token <= lastToken'
  BY <1>1, <1>2, <1>12
<1>14. ASSUME NEW d \in Calls, NEW e \in Calls PROVE Fenced(d, e, Tokens)'
  <2>1. \A x \in Calls : Tokens[x] = call[x].token /\ Tokens'[x] = call'[x].token
    BY DEF Tokens
  <2>2. CASE e = c
    BY <1>2, <1>12, <2>1, <2>2 DEF Fenced
  <2>3. CASE e # c /\ d = c
    <3> SUFFICES ASSUME NEW r \in rows', r.owner = e, r.key \in ToSet(KeysOf[c]),
                        Conflict(AccessOf[c], AccessOf[e])
                 PROVE  FALSE
      BY <2>3 DEF Fenced
    <3>1. r \in rows
      BY <1>1, <1>3, <2>3
    <3>2. ~Conflict(r.access, AccessOf[c]) /\ r.access = AccessOf[e]
      BY <3>1 DEF TryTable, Inv, TypeOK
    <3> QED
      BY <3>2 DEF Conflict
  <2>4. CASE e # c /\ d # c
    <3>1. Fenced(d, e, Tokens) /\ Tokens'[d] = Tokens[d] /\ Tokens'[e] = Tokens[e]
      BY <1>12, <2>1, <2>4 DEF Inv
    <3>2. \A r \in rows' : r.owner = e => r \in rows
      BY <1>1, <1>3, <2>4
    <3> QED
      BY <3>1, <3>2 DEF Fenced
  <2> QED
    BY <2>2, <2>3, <2>4
<1> QED
  BY <1>10, <1>11, <1>13, <1>14 DEF Inv

LEMMA GiveUpKeeps ==
  ASSUME Inv, NEW c \in Calls, NEW why \in {"lock_timeout", "interrupted", "cancelled"},
         call[c].pc = "waiting", GiveUp(c, why, call), UNCHANGED <<rows, lastToken, effects>>
  PROVE  Inv'
<1>1. call \in [Calls -> CallStates] /\ why \in Endings
  BY DEF Inv, TypeOK, Endings
<1>2. Moved(call', call, c, "unwind", why)
  BY <1>1, GiveUpMoves
<1>3. c \in Never => HonestCall(call'[c], effects[c])
  BY <1>2 DEF Inv, HonestCall, Moved
<1>4. \A d \in Calls \ {c} : SameCall(call[d], call[d])
  BY DEF SameCall
<1> QED
  BY <1>2, <1>3, <1>4, MovedKeeps

\* The attempt ends for a reason that is honest about the side effect.
LEMMA EndKeeps ==
  ASSUME Inv, NEW c \in Calls, NEW why \in Endings, EndAttempt(c, why),
         call[c].pc \in {"running", "backoff", "unwind"},
         c \in Never /\ call[c].pc = "running" /\ call[c].committed =>
            why \in {"ok", "lost_unknown", "interrupted", "raised", "cancelled"},
         call[c].pc = "unwind" => why = "cancelled",
         UNCHANGED <<rows, lastToken, effects>>
  PROVE  Inv'
<1> DEFINE rec == [call[c] EXCEPT !.pc = "unwind", !.why = why]
<1>1. call[c] \in CallStates /\ call \in [Calls -> CallStates]
  BY DEF Inv, TypeOK
<1>2. rec \in CallStates
  BY <1>1 DEF CallStates
<1>3. /\ rec.pc = "unwind" /\ rec.why = why /\ rec.token = call[c].token
      /\ rec.entered = call[c].entered /\ rec.everEntered = call[c].everEntered
      /\ rec.started = call[c].started
  BY <1>1 DEF CallStates
<1>4. call' = [call EXCEPT ![c] = rec]
  BY DEF EndAttempt
<1> HIDE DEF rec
<1>5. c \in Never => HonestCall(rec, effects[c])
  BY <1>3 DEF Inv, HonestCall
<1> QED
  BY <1>1, <1>2, <1>3, <1>4, <1>5, ReplaceKeeps

LEMMA DispatchKeeps ==
  ASSUME Inv, NEW c \in Calls, Dispatch(c)
  PROVE  Inv'
<1>1. /\ call[c] \in CallStates /\ call \in [Calls -> CallStates] /\ call[c].pc = "running"
      /\ UNCHANGED <<rows, lastToken, effects>>
  BY DEF Inv, TypeOK, Dispatch
<1>2. CASE call' = [call EXCEPT ![c].entered = TRUE, ![c].everEntered = TRUE]
  <2> DEFINE rec == [call[c] EXCEPT !.entered = TRUE, !.everEntered = TRUE]
  <2>1. rec \in CallStates
    BY <1>1 DEF CallStates
  <2>2. /\ rec.pc = call[c].pc /\ rec.entered = TRUE /\ rec.everEntered = TRUE
        /\ rec.started = call[c].started /\ rec.committed = call[c].committed
        /\ rec.token = call[c].token
    BY <1>1 DEF CallStates
  <2>3. call' = [call EXCEPT ![c] = rec]
    BY <1>1, <1>2
  <2> HIDE DEF rec
  <2>4. c \in Never => HonestCall(rec, effects[c])
    BY <1>1, <2>2 DEF Inv, HonestCall
  <2> QED
    BY <1>1, <2>1, <2>2, <2>3, <2>4, ReplaceKeeps
<1>3. CASE EndAttempt(c, "raised")
  BY <1>1, <1>3, EndKeeps DEF Endings
<1> QED
  BY <1>2, <1>3 DEF Dispatch

LEMMA CommitKeeps ==
  ASSUME Inv, NEW c \in Calls, Commit(c)
  PROVE  Inv'
<1> DEFINE rec == [call[c] EXCEPT !.committed = TRUE]
<1>1. /\ call[c] \in CallStates /\ call \in [Calls -> CallStates] /\ call[c].pc = "running"
      /\ effects \in [Calls -> Nat] /\ rows' = rows /\ lastToken' = lastToken
      /\ call[c].entered /\ ~call[c].committed
  BY DEF Inv, TypeOK, Commit
<1>2. rec \in CallStates
  BY <1>1 DEF CallStates
<1>3. /\ rec.pc = call[c].pc /\ rec.entered = call[c].entered /\ rec.everEntered = call[c].everEntered
      /\ rec.started = call[c].started /\ rec.committed = TRUE /\ rec.token = call[c].token
  BY <1>1 DEF CallStates
<1>4. call' = [call EXCEPT ![c] = rec] /\ effects' = [effects EXCEPT ![c] = @ + 1]
  BY DEF Commit
<1> HIDE DEF rec
<1>5. /\ effects' \in [Calls -> Nat] /\ effects'[c] = effects[c] + 1
      /\ \A d \in Calls \ {c} : effects'[d] = effects[d]
  BY <1>1, <1>4
<1>6. /\ call' \in [Calls -> CallStates] /\ call'[c] = rec
      /\ \A d \in Calls \ {c} : SameCall(call'[d], call[d])
  BY <1>1, <1>2, <1>4 DEF SameCall
<1>7. c \in Never => effects[c] = 0 /\ call[c].started /\ call[c].everEntered
  BY <1>1 DEF Inv, HonestCall
<1>8. c \in Never => HonestCall(call'[c], effects'[c])
  <2> SUFFICES ASSUME c \in Never PROVE HonestCall(rec, 1)
    BY <1>5, <1>6, <1>7
  <2>1. rec.pc = "running" /\ rec.started /\ rec.committed /\ rec.entered /\ rec.everEntered
    BY <1>1, <1>3, <1>7
  <2> QED
    BY <2>1 DEF HonestCall
<1> QED
  BY <1>1, <1>3, <1>5, <1>6, <1>8, StepKeeps

LEMMA HandlerKeeps ==
  ASSUME Inv, NEW c \in Calls, HandlerEnds(c) \/ NoticeLost(c)
  PROVE  Inv'
<1>1. call[c].pc = "running" /\ UNCHANGED <<rows, lastToken, effects>>
  BY DEF HandlerEnds, NoticeLost
<1>2. PICK why \in Endings : /\ EndAttempt(c, why)
                             /\ c \in Never /\ call[c].committed => why \in {"ok", "lost_unknown", "raised"}
  BY DEF HandlerEnds, NoticeLost, Endings
<1> QED
  BY <1>1, <1>2, EndKeeps

LEMMA LeaseKeeps ==
  ASSUME Inv, NEW c \in Calls, Lapse(c) \/ HeartbeatFails(c)
  PROVE  Inv'
<1>1. /\ call[c] \in CallStates /\ call \in [Calls -> CallStates]
      /\ rows' \subseteq rows /\ lastToken' = lastToken /\ effects' = effects
  BY DEF Inv, TypeOK, Lapse, HeartbeatFails
<1>2. PICK rec : /\ rec \in CallStates /\ SameCall(rec, call[c])
                 /\ call' = [call EXCEPT ![c] = rec]
  <2>1. CASE Lapse(c)
    <3>1. SameCall(call[c], call[c])
      BY DEF SameCall
    <3>2. call' = [call EXCEPT ![c] = call[c]]
      BY <1>1, <2>1 DEF Lapse
    <3> QED
      BY <1>1, <3>1, <3>2
  <2>2. CASE HeartbeatFails(c)
    <3> DEFINE rec == [call[c] EXCEPT !.hb = "failed"]
    <3>1. rec \in CallStates /\ SameCall(rec, call[c])
      BY <1>1 DEF CallStates, SameCall
    <3>2. call' = [call EXCEPT ![c] = rec]
      BY <2>2 DEF HeartbeatFails
    <3> QED
      BY <3>1, <3>2
  <2> QED
    BY <2>1, <2>2
<1>3. c \in Never => HonestCall(rec, effects[c])
  BY <1>2, HonestSame DEF Inv
<1>4. rec.token = call[c].token
  BY <1>2 DEF SameCall
<1> QED
  BY <1>1, <1>2, <1>3, <1>4, ReplaceKeeps
\* release and the result: what is not certain is reported as unknown.
LEMMA UnwindKeeps ==
  ASSUME Inv, NEW c \in Calls, Unwind(c)
  PROVE  Inv'
<1> DEFINE why  == Ending(c)
           done == [call[c] EXCEPT !.at = 0, !.hb = "none", !.token = 0, !.why = "none"]
           again == [done EXCEPT !.pc = "backoff"]
           over  == [done EXCEPT !.pc = "after", !.out = Result(c, why)]
           gone  == [NewCall EXCEPT !.pc = "ended", !.out = Result(c, why)]
           rec   == IF why = "retryable" /\ call[c].attempt < AttemptsOf[c] THEN again
                    ELSE IF why = "cancelled" THEN gone ELSE over
           next  == [call EXCEPT ![c] = rec]
<1>1. /\ call[c] \in CallStates /\ call \in [Calls -> CallStates] /\ call[c].pc = "unwind"
      /\ rows' \subseteq rows /\ lastToken' = lastToken /\ effects' = effects
      /\ effects \in [Calls -> Nat]
  BY DEF Inv, TypeOK, Unwind
<1>2. PICK woken : call' = Wake(next, woken)
  BY DEF Unwind
<1>3. Result(c, why) \in {"ok", "error", "unknown", "absent"}
  BY DEF Result
<1>4. done \in CallStates
  BY <1>1 DEF CallStates, Endings
<1>5. /\ done.token = 0 /\ done.entered = call[c].entered /\ done.everEntered = call[c].everEntered
  BY <1>1 DEF CallStates
<1> HIDE DEF why, done
<1>6. again \in CallStates /\ over \in CallStates /\ gone \in CallStates
  <2>1. again \in CallStates /\ over \in CallStates
    BY <1>3, <1>4 DEF CallStates
  <2>2. gone \in CallStates
    BY <1>3 DEF CallStates, NewCall, Endings
  <2> QED
    BY <2>1, <2>2
<1>0. gone.token = 0 /\ gone.pc = "ended" /\ gone.out = Result(c, why) /\ gone.entered = FALSE
  BY DEF NewCall
<1>7. /\ again.token = 0 /\ again.pc = "backoff"
      /\ again.entered = call[c].entered /\ again.everEntered = call[c].everEntered
      /\ over.token = 0 /\ over.pc = "after" /\ over.out = Result(c, why)
      /\ over.entered = call[c].entered /\ over.everEntered = call[c].everEntered
  BY <1>4, <1>5 DEF CallStates
<1> HIDE DEF again, over, gone
<1>8. c \in Never => HonestCall(rec, effects[c])
  <2> SUFFICES ASSUME c \in Never PROVE HonestCall(rec, effects[c])
    OBVIOUS
  <2>1. /\ effects[c] \in {0, 1} /\ (call[c].entered => call[c].everEntered)
        /\ effects[c] = 1 => /\ call[c].started /\ call[c].everEntered
                             /\ call[c].why \in {"ok", "lost_unknown", "interrupted", "raised", "cancelled"}
    BY <1>1 DEF Inv, HonestCall
  <2>2. effects[c] = 1 => /\ why \in {"ok", "lost_unknown", "interrupted", "raised", "cancelled"}
                          /\ why \in {"interrupted", "raised"} => call[c].started /\ call[c].everEntered
    BY <2>1 DEF why, Ending
  <2>3. effects[c] = 1 => Result(c, why) \in (IF why = "cancelled" THEN {"absent"} ELSE {"ok", "unknown"})
    BY <2>2, CallAssumption DEF Result
  <2>4. CASE why = "retryable" /\ call[c].attempt < AttemptsOf[c]
    <3>1. rec = again /\ effects[c] = 0
      BY <2>1, <2>2, <2>4
    <3> QED
      BY <1>7, <2>1, <3>1 DEF HonestCall
  <2>5. CASE why # "cancelled" /\ ~(why = "retryable" /\ call[c].attempt < AttemptsOf[c])
    <3>1. rec = over
      BY <2>5
    <3> QED
      BY <1>7, <2>1, <2>3, <2>5, <3>1 DEF HonestCall
  <2>6. CASE why = "cancelled"
    <3>1. rec = gone
      BY <2>6
    <3> QED
      BY <1>0, <2>1, <2>3, <2>6, <3>1 DEF HonestCall
  <2> QED
    BY <2>4, <2>5, <2>6
<1>9. rec \in CallStates /\ rec.token = 0
  BY <1>0, <1>6, <1>7
<1> HIDE DEF rec
<1>10. /\ next \in [Calls -> CallStates] /\ next[c] = rec
       /\ \A d \in Calls \ {c} : next[d] = call[d]
  BY <1>1, <1>9
<1> HIDE DEF next
<1>11. /\ call' \in [Calls -> CallStates]
       /\ \A d \in Calls : SameCall(call'[d], next[d])
  BY <1>2, <1>10, WakeFacts
<1>12. /\ \A d \in Calls \ {c} : SameCall(call'[d], call[d])
       /\ call'[c].token = 0 /\ SameCall(call'[c], rec)
  BY <1>9, <1>10, <1>11 DEF SameCall
<1>13. c \in Never => HonestCall(call'[c], effects'[c])
  BY <1>1, <1>8, <1>12, HonestSame
<1> QED
  BY <1>1, <1>11, <1>12, <1>13, StepKeeps

LEMMA AfterKeeps ==
  ASSUME Inv, NEW c \in Calls, After(c)
  PROVE  Inv'
<1>1. /\ call[c] \in CallStates /\ call \in [Calls -> CallStates] /\ call[c].pc = "after"
      /\ UNCHANGED <<rows, lastToken, effects>>
  BY DEF Inv, TypeOK, After
<1>2. PICK out \in {"ok", "error"} \cup {call[c].out} :
         /\ call[c].out = "unknown" => out = "unknown"
         /\ call[c].out = "ok" /\ c \in Effectful => out = "ok"
         /\ call' = [call EXCEPT ![c] = [NewCall EXCEPT !.pc = "ended", !.out = out, !.at = call[c].at]]
  BY DEF After
<1> DEFINE rec == [NewCall EXCEPT !.pc = "ended", !.out = out, !.at = call[c].at]
<1>3. out \in {"none", "ok", "error", "unknown", "absent", "not_executed"} /\ call[c].at \in Nat
  BY <1>1 DEF CallStates
<1>4. rec \in CallStates
  BY <1>3 DEF CallStates, NewCall, Endings
<1>5. rec.pc = "ended" /\ rec.out = out /\ rec.token = 0 /\ rec.entered = FALSE
  BY DEF NewCall
<1>6. call' = [call EXCEPT ![c] = rec]
  BY <1>2
<1> HIDE DEF rec
<1>7. c \in Never => HonestCall(rec, effects[c])
  <2> SUFFICES ASSUME c \in Never PROVE HonestCall(rec, effects[c])
    OBVIOUS
  <2>1. effects[c] \in {0, 1} /\ (effects[c] = 1 => call[c].out \in {"ok", "unknown"})
    BY <1>1 DEF Inv, HonestCall
  <2>2. effects[c] = 1 => out \in {"ok", "unknown"}
    BY <1>2, <2>1, CallAssumption
  <2> QED
    BY <1>5, <2>1, <2>2 DEF HonestCall
<1> QED
  BY <1>1, <1>4, <1>5, <1>6, <1>7, ReplaceKeeps

LEMMA InterruptKeeps ==
  ASSUME Inv, NEW c \in Calls, Interrupt(c)
  PROVE  Inv'
<1>1. UNCHANGED <<rows, lastToken, effects>>
  BY DEF Interrupt
<1>2. CASE call[c].pc = "waiting" /\ GiveUp(c, "interrupted", call)
  BY <1>1, <1>2, GiveUpKeeps
<1>3. CASE call[c].pc \in {"running", "backoff"} /\ EndAttempt(c, "interrupted")
  BY <1>1, <1>3, EndKeeps DEF Endings
<1> QED
  BY <1>2, <1>3 DEF Interrupt

LEMMA InterruptReleaseKeeps ==
  ASSUME Inv, NEW c \in Calls, InterruptRelease(c)
  PROVE  Inv'
<1> DEFINE out == Result(c, "interrupted")
           rec == [call[c] EXCEPT !.pc = "after", !.hb = "none", !.why = "none", !.out = out]
<1>1. /\ call[c] \in CallStates /\ call \in [Calls -> CallStates] /\ call[c].pc = "unwind"
      /\ UNCHANGED <<rows, lastToken, effects>>
  BY DEF Inv, TypeOK, InterruptRelease
<1>2. out \in {"ok", "error", "unknown"}
  BY DEF Result
<1>3. call' = [call EXCEPT ![c].pc = "after", ![c].hb = "none", ![c].why = "none", ![c].out = out]
  BY DEF InterruptRelease
<1>4. c \in Never /\ call[c].started => out = "unknown"
  BY DEF Result
<1> HIDE DEF out
<1>5. rec \in CallStates
  BY <1>1, <1>2 DEF CallStates, Endings
<1>6. /\ rec.pc = "after" /\ rec.out = out /\ rec.token = call[c].token
      /\ rec.entered = call[c].entered /\ rec.everEntered = call[c].everEntered
  BY <1>1 DEF CallStates
<1>7. call' = [call EXCEPT ![c] = rec]
  BY <1>1, <1>3
<1> HIDE DEF rec
<1>8. c \in Never => HonestCall(rec, effects[c])
  <2> SUFFICES ASSUME c \in Never PROVE HonestCall(rec, effects[c])
    OBVIOUS
  <2>1. /\ effects[c] \in {0, 1} /\ (call[c].entered => call[c].everEntered)
        /\ effects[c] = 1 => call[c].started
    BY <1>1 DEF Inv, HonestCall
  <2> QED
    BY <1>4, <1>6, <2>1 DEF HonestCall
<1> QED
  BY <1>1, <1>5, <1>6, <1>7, <1>8, ReplaceKeeps

\* A task that ends without a result.
LEMMA GoneFacts ==
  ASSUME NEW c \in Calls, call[c] \in CallStates
  PROVE  /\ Gone(c) \in CallStates /\ Gone(c).pc = "ended" /\ Gone(c).out = "absent"
         /\ Gone(c).token = 0 /\ Gone(c).entered = FALSE /\ Gone(c).at = call[c].at
         /\ Gone(c).why = "none"
<1>1. call[c].at \in Nat
  BY DEF CallStates
<1> QED
  BY <1>1 DEF Gone, NewCall, CallStates, Endings

LEMMA GoneKeeps ==
  ASSUME Inv, NEW c \in Calls, call' = [call EXCEPT ![c] = Gone(c)], UNCHANGED <<rows, lastToken, effects>>
  PROVE  Inv'
<1>1. call[c] \in CallStates /\ call \in [Calls -> CallStates]
  BY DEF Inv, TypeOK
<1>2. /\ Gone(c) \in CallStates /\ Gone(c).pc = "ended" /\ Gone(c).out = "absent"
      /\ Gone(c).token = 0 /\ Gone(c).entered = FALSE
  BY <1>1, GoneFacts
<1>3. c \in Never => HonestCall(Gone(c), effects[c])
  <2>1. c \in Never => effects[c] \in {0, 1}
    BY DEF Inv, HonestCall
  <2> QED
    BY <1>2, <2>1 DEF HonestCall
<1> QED
  BY <1>2, <1>3, ReplaceKeeps

LEMMA CancelKeeps ==
  ASSUME Inv, NEW c \in Calls, CancelTask(c)
  PROVE  Inv'
<1>1. UNCHANGED <<rows, lastToken, effects>>
  BY DEF CancelTask
<1>2. CASE call' = [call EXCEPT ![c] = Gone(c)]
  BY <1>1, <1>2, GoneKeeps
<1>3. CASE call[c].pc = "waiting" /\ GiveUp(c, "cancelled", call)
  BY <1>1, <1>3, GiveUpKeeps
<1>4. CASE call[c].pc \in {"running", "backoff", "unwind"} /\ EndAttempt(c, "cancelled")
  BY <1>1, <1>4, EndKeeps DEF Endings
<1> QED
  BY <1>2, <1>3, <1>4 DEF CancelTask

LEMMA RepairKeeps ==
  ASSUME Inv, NEW c \in Calls, RepairBatch(c)
  PROVE  Inv'
<1>1. /\ call \in [Calls -> CallStates] /\ UNCHANGED <<rows, lastToken, effects>>
      /\ \A d \in Siblings(c) : call[d].pc = "ended"
  BY DEF Inv, TypeOK, RepairBatch
<1>2. \A d \in Calls : call'[d] = IF d \in Siblings(c) /\ call[d].out = "absent"
                                  THEN [call[d] EXCEPT !.out = "not_executed"] ELSE call[d]
  BY DEF RepairBatch
<1>3. ASSUME NEW d \in Calls
      PROVE  /\ [call[d] EXCEPT !.out = "not_executed"] \in CallStates
             /\ [call[d] EXCEPT !.out = "not_executed"].token = call[d].token
             /\ [call[d] EXCEPT !.out = "not_executed"].pc = call[d].pc
             /\ [call[d] EXCEPT !.out = "not_executed"].entered = call[d].entered
             /\ [call[d] EXCEPT !.out = "not_executed"].everEntered = call[d].everEntered
             /\ [call[d] EXCEPT !.out = "not_executed"].out = "not_executed"
  <2>1. call[d] \in CallStates
    BY <1>1
  <2> QED
    BY <2>1 DEF CallStates
<1>4. call' \in [Calls -> CallStates]
  BY <1>1, <1>3 DEF RepairBatch
<1>5. \A d \in Calls : call'[d].token \in {0, call[d].token}
  BY <1>2, <1>3
<1>6. \A d, e \in Calls : Fenced(d, e, Tokens)'
  BY <1>1, <1>4, <1>5, FencedKeeps
<1>7. \A d \in Calls : call'[d].token <= lastToken'
  BY <1>1, <1>5 DEF Inv, TypeOK, CallStates
<1>8. ASSUME NEW d \in Never PROVE HonestCall(call'[d], effects'[d])
  <2>1. HonestCall(call[d], effects[d]) /\ d \in Calls
    BY CallAssumption DEF Inv
  <2>2. CASE d \in Siblings(c) /\ call[d].out = "absent"
    <3> DEFINE k == [call[d] EXCEPT !.out = "not_executed"]
    <3>1. call'[d] = k
      BY <1>2, <2>1, <2>2
    <3>2. k.pc = "ended" /\ k.entered = call[d].entered /\ k.everEntered = call[d].everEntered /\ k.out = "not_executed"
      BY <1>1, <1>3, <2>1, <2>2
    <3> HIDE DEF k
    <3>3. HonestCall(k, effects[d])
      BY <2>1, <3>2 DEF HonestCall
    <3> QED
      BY <1>1, <3>1, <3>3
  <2>3. CASE ~(d \in Siblings(c) /\ call[d].out = "absent")
    BY <1>1, <1>2, <2>1, <2>3
  <2> QED
    BY <2>2, <2>3
<1>9. TypeOK'
  BY <1>1, <1>4 DEF Inv, TypeOK
<1> QED
  BY <1>6, <1>7, <1>8, <1>9 DEF Inv

LEMMA InvNext == Inv /\ [Next]_vars => Inv'
<1>1. ASSUME Inv, Next PROVE Inv'
  <2>1. PICK c \in Calls :
           \/ RejectBatch(c) \/ Guard(c) \/ Enter(c) \/ Resume(c) \/ TryTable(c)
           \/ LockTimeout(c) \/ Dispatch(c) \/ Commit(c) \/ HandlerEnds(c)
           \/ Lapse(c) \/ HeartbeatFails(c) \/ NoticeLost(c) \/ Unwind(c) \/ After(c)
           \/ Interrupt(c) \/ InterruptRelease(c)
           \/ BreakOff(c) \/ ObserverFails(c) \/ CancelTask(c) \/ RepairBatch(c)
    BY <1>1 DEF Next
  <2>2. CASE LockTimeout(c)
    <3>1. call[c].pc = "waiting" /\ GiveUp(c, "lock_timeout", call) /\ UNCHANGED <<rows, lastToken, effects>>
      BY <2>2 DEF LockTimeout
    <3> QED
      BY <1>1, <3>1, GiveUpKeeps
  <2>3. CASE BreakOff(c)
    <3>1. UNCHANGED <<rows, lastToken, call, effects>>
      BY <2>3 DEF BreakOff
    <3> QED
      BY <1>1, <3>1 DEF Inv, TypeOK, Fenced, Tokens
  <2>4. CASE ObserverFails(c)
    <3>1. call' = [call EXCEPT ![c] = Gone(c)] /\ UNCHANGED <<rows, lastToken, effects>>
      BY <2>4 DEF ObserverFails
    <3> QED
      BY <1>1, <3>1, GoneKeeps
  <2> QED
    BY <1>1, <2>1, <2>2, <2>3, <2>4, CancelKeeps, RepairKeeps, RejectKeeps, GuardKeeps, EnterKeeps, ResumeKeeps, TableKeeps,
       DispatchKeeps, CommitKeeps, HandlerKeeps, LeaseKeeps, UnwindKeeps, AfterKeeps,
       InterruptKeeps, InterruptReleaseKeeps
<1>2. ASSUME Inv, UNCHANGED vars PROVE Inv'
  <2>1. UNCHANGED <<rows, lastToken, call, effects>>
    BY <1>2 DEF vars
  <2> QED
    BY <1>2, <2>1 DEF Inv, TypeOK, Fenced, Tokens
<1> QED
  BY <1>1, <1>2

LEMMA Invariance == Spec => []Inv
  BY InvInit, InvNext, PTL DEF Spec

-----------------------------------------------------------------------------
\* The records of the calls, the side effects and the rows of the cross-process
\* table keep their shape in every reachable state of the Tool runtime.
THEOREM TypeCorrect == Spec => []TypeOK
<1>1. Inv => TypeOK
  BY DEF Inv
<1> QED
  BY <1>1, Invariance, PTL

(* Calls that end without a result *)

Batches == {BatchOf[c][1] : c \in Calls}

\* The call has no result, or will have none.
Gap(k) == k.why = "cancelled" \/ k.out \in {"absent", "not_executed"}

GapInv ==
    /\ faults \in [interrupts : Nat, lapses : Nat, broken : SUBSET Batches]
    /\ \A c \in Calls : Gap(call[c]) => Broken(c)

\* A batch that was broken off stays so, and no other call loses its result.
NoNewGap ==
    /\ faults' \in [interrupts : Nat, lapses : Nat, broken : SUBSET Batches]
    /\ faults.broken \subseteq faults'.broken
    /\ \A d \in Calls : Gap(call'[d]) => Gap(call[d]) \/ Broken(d)'

LEMMA GapStep ==
  ASSUME GapInv, NoNewGap
  PROVE  GapInv'
  BY DEF GapInv, NoNewGap, Broken

\* The faults that a step counts.
LEMMA FaultsGrow ==
  ASSUME GapInv, NEW c \in Calls,
         \/ UNCHANGED faults
         \/ faults' = [faults EXCEPT !.interrupts = @ + 1]
         \/ faults' = [faults EXCEPT !.lapses = @ + 1]
         \/ faults' = [faults EXCEPT !.broken = @ \cup {BatchOf[c][1]}]
  PROVE  /\ faults' \in [interrupts : Nat, lapses : Nat, broken : SUBSET Batches]
         /\ faults.broken \subseteq faults'.broken
<1>1. faults \in [interrupts : Nat, lapses : Nat, broken : SUBSET Batches] /\ BatchOf[c][1] \in Batches
  BY DEF GapInv, Batches
<1>2. CASE UNCHANGED faults
  BY <1>1, <1>2
<1>3. CASE faults' = [faults EXCEPT !.interrupts = @ + 1]
  BY <1>1, <1>3
<1>4. CASE faults' = [faults EXCEPT !.lapses = @ + 1]
  BY <1>1, <1>4
<1>5. CASE faults' = [faults EXCEPT !.broken = @ \cup {BatchOf[c][1]}]
  BY <1>1, <1>5
<1> QED
  BY <1>2, <1>3, <1>4, <1>5

\* How the record of a call may change without a new gap in another batch.
LEMMA GapMoves ==
  ASSUME NEW c \in Calls, NEW f, NEW pc, NEW why, Moved(call', f, c, pc, why),
         \A d \in Calls \ {c} : SameCall(f[d], call[d]), f[c].out = call[c].out,
         why = "cancelled" => Gap(call[c]) \/ Broken(c)'
  PROVE  \A d \in Calls : Gap(call'[d]) => Gap(call[d]) \/ Broken(d)'
<1>1. \A d \in Calls \ {c} : call'[d].why = call[d].why /\ call'[d].out = call[d].out
  BY DEF Moved, SameCall
<1>2. call'[c].why = why /\ call'[c].out = call[c].out
  BY DEF Moved
<1> QED
  BY <1>1, <1>2 DEF Gap

LEMMA GapReplace ==
  ASSUME call \in [Calls -> CallStates], NEW c \in Calls, NEW rec, call' = [call EXCEPT ![c] = rec],
         Gap(rec) => Gap(call[c]) \/ Broken(c)'
  PROVE  \A d \in Calls : Gap(call'[d]) => Gap(call[d]) \/ Broken(d)'
<1>1. call'[c] = rec /\ \A d \in Calls : d # c => call'[d] = call[d]
  OBVIOUS
<1> QED
  BY <1>1

LEMMA GapEnd ==
  ASSUME call \in [Calls -> CallStates], NEW c \in Calls, NEW why, EndAttempt(c, why),
         why = "cancelled" => Broken(c)'
  PROVE  \A d \in Calls : Gap(call'[d]) => Gap(call[d]) \/ Broken(d)'
<1> DEFINE rec == [call[c] EXCEPT !.pc = "unwind", !.why = why]
<1>1. call[c] \in CallStates /\ call' = [call EXCEPT ![c] = rec]
  BY DEF EndAttempt
<1>2. rec.why = why /\ rec.out = call[c].out
  BY <1>1 DEF CallStates
<1> HIDE DEF rec
<1> QED
  BY <1>1, <1>2, GapReplace DEF Gap

LEMMA GapAsk ==
  ASSUME call \in [Calls -> CallStates], NEW c \in Calls, NEW at \in Nat, NEW rec \in CallStates,
         Ask(c, at, [call EXCEPT ![c] = rec]), rec.out = call[c].out, rec.why \in {"none", call[c].why}
  PROVE  \A d \in Calls : Gap(call'[d]) => Gap(call[d]) \/ Broken(d)'
<1> DEFINE f == [call EXCEPT ![c] = rec]
<1>1. f \in [Calls -> CallStates] /\ f[c] = rec /\ \A d \in Calls \ {c} : SameCall(f[d], call[d])
  BY DEF SameCall
<1>2. Ask(c, at, f)
  OBVIOUS
<1> HIDE DEF f
<1>3. Moved(call', f, c, "waiting", f[c].why)
  BY <1>1, <1>2, AskMoves
<1>4. f[c].out = call[c].out /\ (f[c].why = "cancelled" => Gap(call[c]))
  BY <1>1 DEF Gap
<1> QED
  BY <1>1, <1>3, <1>4, GapMoves

\* The steps that ask for a lock or give up waiting for one.
LEMMA GapLocks ==
  ASSUME TypeOK, GapInv, NEW c \in Calls,
         \/ Enter(c) \/ Resume(c) \/ TryTable(c) \/ LockTimeout(c)
         \/ call[c].pc = "waiting" /\ Interrupt(c)
         \/ call[c].pc = "waiting" /\ CancelTask(c)
  PROVE  \A d \in Calls : Gap(call'[d]) => Gap(call[d]) \/ Broken(d)'
<1>1. call[c] \in CallStates /\ call \in [Calls -> CallStates] /\ call[c].at + 1 \in Nat
  BY DEF TypeOK, CallStates
<1>2. CASE Enter(c)
  <2> DEFINE rec == [call[c] EXCEPT !.attempt = @ + 1, !.entered = FALSE, !.committed = FALSE, !.why = "none"]
  <2>1. call[c].attempt + 1 \in Nat
    BY <1>1 DEF CallStates
  <2>2. rec \in CallStates
    BY <1>1, <2>1 DEF CallStates, Endings
  <2>3. rec.out = call[c].out /\ rec.why = "none"
    BY <1>1 DEF CallStates
  <2>4. Ask(c, 0, [call EXCEPT ![c] = rec])
    BY <1>2 DEF Enter
  <2> HIDE DEF rec
  <2> QED
    BY <1>1, <2>2, <2>3, <2>4, GapAsk
<1>3. CASE Resume(c)
  <2> DEFINE at == call[c].at + 1
  <2>1. CASE at = Len(Path(c))
    <3> DEFINE rec == [call[c] EXCEPT !.pc = "running", !.at = at, !.granted = FALSE, !.started = TRUE]
    <3>1. call' = [call EXCEPT ![c] = rec]
      BY <1>3, <2>1 DEF Resume
    <3>2. rec.out = call[c].out /\ rec.why = call[c].why
      BY <1>1 DEF CallStates
    <3> HIDE DEF rec
    <3> QED
      BY <1>1, <3>1, <3>2, GapReplace DEF Gap
  <2>2. CASE at # Len(Path(c))
    <3>1. Ask(c, at, call) /\ at \in Nat
      BY <1>1, <1>3, <2>2 DEF Resume
    <3>2. call = [call EXCEPT ![c] = call[c]]
      BY <1>1
    <3> HIDE DEF at
    <3>3. Ask(c, at, [call EXCEPT ![c] = call[c]])
      BY <3>1, <3>2
    <3> QED
      BY <1>1, <3>1, <3>3, GapAsk
  <2> QED
    BY <2>1, <2>2
<1>4. CASE TryTable(c)
  <2> DEFINE rec == [call[c] EXCEPT !.token = NewToken, !.hb = "alive"]
  <2>1. NewToken \in Nat
    BY DEF NewToken, TypeOK
  <2>2. rec \in CallStates
    BY <1>1, <2>1 DEF CallStates
  <2>3. rec.out = call[c].out /\ rec.why = call[c].why
    BY <1>1 DEF CallStates
  <2>4. Ask(c, call[c].at + 1, [call EXCEPT ![c] = rec])
    BY <1>4 DEF TryTable
  <2> HIDE DEF rec
  <2> QED
    BY <1>1, <2>2, <2>3, <2>4, GapAsk
<1>5. ASSUME NEW why \in Endings, GiveUp(c, why, call), why = "cancelled" => Broken(c)'
      PROVE  \A d \in Calls : Gap(call'[d]) => Gap(call[d]) \/ Broken(d)'
  <2>1. Moved(call', call, c, "unwind", why)
    BY <1>1, <1>5, GiveUpMoves
  <2>2. \A d \in Calls \ {c} : SameCall(call[d], call[d])
    BY DEF SameCall
  <2> QED
    BY <1>5, <2>1, <2>2, GapMoves
<1>6. CASE LockTimeout(c)
  BY <1>5, <1>6 DEF LockTimeout, Endings
<1>7. CASE call[c].pc = "waiting" /\ Interrupt(c)
  BY <1>5, <1>7 DEF Interrupt, Endings
<1>8. CASE call[c].pc = "waiting" /\ CancelTask(c)
  <2>1. GiveUp(c, "cancelled", call) /\ Broken(c)'
    BY <1>8 DEF CancelTask, Broken
  <2> QED
    BY <1>5, <2>1 DEF Endings
<1> QED
  BY <1>2, <1>3, <1>4, <1>6, <1>7, <1>8

\* Only a cancelled call unwinds to nothing.
LEMMA GapUnwind ==
  ASSUME TypeOK, GapInv, NEW c \in Calls, Unwind(c)
  PROVE  \A d \in Calls : Gap(call'[d]) => Gap(call[d]) \/ Broken(d)'
<1> DEFINE why  == Ending(c)
           done == [call[c] EXCEPT !.at = 0, !.hb = "none", !.token = 0, !.why = "none"]
           again == [done EXCEPT !.pc = "backoff"]
           over  == [done EXCEPT !.pc = "after", !.out = Result(c, why)]
           gone  == [NewCall EXCEPT !.pc = "ended", !.out = Result(c, why)]
           rec   == IF why = "retryable" /\ call[c].attempt < AttemptsOf[c] THEN again
                    ELSE IF why = "cancelled" THEN gone ELSE over
           next  == [call EXCEPT ![c] = rec]
<1>1. call[c] \in CallStates /\ call \in [Calls -> CallStates]
  BY DEF TypeOK
<1>2. PICK woken : call' = Wake(next, woken)
  BY DEF Unwind
<1>3. Result(c, why) \in {"ok", "error", "unknown", "absent"} /\ (Result(c, why) = "absent" => why = "cancelled")
  BY DEF Result
<1>4. why = "cancelled" => call[c].why = "cancelled"
  BY DEF Ending
<1>5. done \in CallStates /\ done.why = "none" /\ done.out = call[c].out
  BY <1>1 DEF CallStates, Endings
<1> HIDE DEF why, done
<1>6. /\ again \in CallStates /\ again.why = "none" /\ again.out = call[c].out
      /\ over \in CallStates /\ over.why = "none" /\ over.out = Result(c, why)
  BY <1>3, <1>5 DEF CallStates
<1>7. gone \in CallStates
  BY <1>3 DEF CallStates, NewCall, Endings
<1> HIDE DEF again, over, gone
<1>8. rec \in CallStates /\ (Gap(rec) => Gap(call[c]))
  <2>1. CASE why = "cancelled"
    <3>1. rec \in {again, gone}
      BY <2>1
    <3> QED
      BY <1>4, <1>6, <1>7, <2>1, <3>1 DEF Gap
  <2>2. CASE why # "cancelled"
    <3>1. rec \in {again, over}
      BY <2>2
    <3>2. Gap(again) => Gap(call[c])
      BY <1>6 DEF Gap
    <3>3. ~Gap(over)
      BY <1>3, <1>6, <2>2 DEF Gap
    <3> QED
      BY <1>6, <3>1, <3>2, <3>3
  <2> QED
    BY <2>1, <2>2
<1> HIDE DEF rec
<1>9. /\ next \in [Calls -> CallStates] /\ next[c] = rec
      /\ \A d \in Calls \ {c} : next[d] = call[d]
  BY <1>1, <1>8
<1> HIDE DEF next
<1>10. \A d \in Calls : call'[d].why = next[d].why /\ call'[d].out = next[d].out
  BY <1>2, <1>9, WakeFacts DEF SameCall
<1> QED
  BY <1>8, <1>9, <1>10 DEF Gap

LEMMA GapQuiet ==
  ASSUME TypeOK, GapInv, NEW c \in Calls,
         \/ RejectBatch(c) \/ Guard(c) \/ Dispatch(c) \/ Commit(c) \/ HandlerEnds(c)
         \/ Lapse(c) \/ HeartbeatFails(c) \/ NoticeLost(c) \/ After(c) \/ InterruptRelease(c)
         \/ call[c].pc # "waiting" /\ Interrupt(c)
  PROVE  \A d \in Calls : Gap(call'[d]) => Gap(call[d]) \/ Broken(d)'
<1>1. call[c] \in CallStates /\ call \in [Calls -> CallStates]
  BY DEF TypeOK
<1>2. ~Gap(Rejected)
  BY DEF Gap, Rejected, NewCall
<1>3. CASE RejectBatch(c)
  <2>1. \A d \in Calls : call'[d] = IF d \in Siblings(c) THEN Rejected ELSE call[d]
    BY <1>3 DEF RejectBatch
  <2> QED
    BY <1>2, <2>1
<1>4. CASE Lapse(c)
  BY <1>4 DEF Lapse
<1>5. CASE Guard(c)
  <2> DEFINE rec == [call[c] EXCEPT !.pc = "queued"]
  <2>1. call' = [call EXCEPT ![c] = rec] \/ call' = [call EXCEPT ![c] = Rejected]
    BY <1>5 DEF Guard
  <2>2. rec.why = call[c].why /\ rec.out = call[c].out
    BY <1>1 DEF CallStates
  <2> HIDE DEF rec
  <2>3. Gap(rec) => Gap(call[c])
    BY <2>2 DEF Gap
  <2> QED
    BY <1>1, <1>2, <2>1, <2>3, GapReplace
<1>6. CASE HeartbeatFails(c)
  <2> DEFINE rec == [call[c] EXCEPT !.hb = "failed"]
  <2>1. call' = [call EXCEPT ![c] = rec]
    BY <1>6 DEF HeartbeatFails
  <2>2. rec.why = call[c].why /\ rec.out = call[c].out
    BY <1>1 DEF CallStates
  <2> HIDE DEF rec
  <2> QED
    BY <1>1, <2>1, <2>2, GapReplace DEF Gap
<1>7. CASE HandlerEnds(c) \/ NoticeLost(c) \/ (call[c].pc # "waiting" /\ Interrupt(c))
  <2>1. \E why : EndAttempt(c, why) /\ why # "cancelled"
    BY <1>7 DEF HandlerEnds, NoticeLost, Interrupt
  <2> QED
    BY <1>1, <2>1, GapEnd
<1>8. CASE Dispatch(c)
  <2> DEFINE rec == [call[c] EXCEPT !.entered = TRUE, !.everEntered = TRUE]
  <2>1. call' = [call EXCEPT ![c] = rec] \/ EndAttempt(c, "raised")
    BY <1>8 DEF Dispatch
  <2>2. rec.why = call[c].why /\ rec.out = call[c].out
    BY <1>1 DEF CallStates
  <2> HIDE DEF rec
  <2>3. Gap(rec) => Gap(call[c])
    BY <2>2 DEF Gap
  <2> QED
    BY <1>1, <2>1, <2>3, GapReplace, GapEnd
<1>9. CASE Commit(c)
  <2> DEFINE rec == [call[c] EXCEPT !.committed = TRUE]
  <2>1. call' = [call EXCEPT ![c] = rec]
    BY <1>9 DEF Commit
  <2>2. rec.why = call[c].why /\ rec.out = call[c].out
    BY <1>1 DEF CallStates
  <2> HIDE DEF rec
  <2> QED
    BY <1>1, <2>1, <2>2, GapReplace DEF Gap
<1>10. CASE After(c)
  <2>1. PICK out \in {"ok", "error"} \cup {call[c].out} :
           call' = [call EXCEPT ![c] = [NewCall EXCEPT !.pc = "ended", !.out = out, !.at = call[c].at]]
    BY <1>10 DEF After
  <2> DEFINE rec == [NewCall EXCEPT !.pc = "ended", !.out = out, !.at = call[c].at]
  <2>2. call' = [call EXCEPT ![c] = rec]
    BY <2>1
  <2>3. rec.why = "none" /\ rec.out = out
    BY DEF NewCall
  <2> HIDE DEF rec
  <2> QED
    BY <1>1, <2>2, <2>3, GapReplace DEF Gap
<1>11. CASE InterruptRelease(c)
  <2> DEFINE out == Result(c, "interrupted")
             rec == [call[c] EXCEPT !.pc = "after", !.hb = "none", !.why = "none", !.out = out]
  <2>1. call' = [call EXCEPT ![c] = rec]
    BY <1>11 DEF InterruptRelease
  <2>2. out \in {"error", "unknown"}
    BY DEF Result
  <2> HIDE DEF out
  <2>3. rec.why = "none" /\ rec.out = out
    BY <1>1 DEF CallStates
  <2> HIDE DEF rec
  <2> QED
    BY <1>1, <2>1, <2>2, <2>3, GapReplace DEF Gap
<1> QED
  BY <1>3, <1>4, <1>5, <1>6, <1>7, <1>8, <1>9, <1>10, <1>11

\* The steps of a batch that is broken off.
LEMMA GapBreaks ==
  ASSUME TypeOK, GapInv, NEW c \in Calls,
         \/ BreakOff(c) \/ ObserverFails(c) \/ RepairBatch(c)
         \/ call[c].pc # "waiting" /\ CancelTask(c)
  PROVE  \A d \in Calls : Gap(call'[d]) => Gap(call[d]) \/ Broken(d)'
<1>1. call[c] \in CallStates /\ call \in [Calls -> CallStates]
  BY DEF TypeOK
<1>2. CASE BreakOff(c)
  BY <1>2 DEF BreakOff
<1>3. CASE ObserverFails(c)
  <2>1. call' = [call EXCEPT ![c] = Gone(c)] /\ faults' = [faults EXCEPT !.broken = @ \cup {BatchOf[c][1]}]
    BY <1>3 DEF ObserverFails, BreakBatch
  <2>2. Broken(c)'
    BY <2>1 DEF Broken, GapInv
  <2> QED
    BY <1>1, <2>1, <2>2, GapReplace
<1>4. CASE call[c].pc # "waiting" /\ CancelTask(c)
  <2>1. Broken(c)' /\ (call' = [call EXCEPT ![c] = Gone(c)] \/ EndAttempt(c, "cancelled"))
    BY <1>4 DEF CancelTask, Broken
  <2> QED
    BY <1>1, <2>1, GapReplace, GapEnd
<1>5. CASE RepairBatch(c)
  <2>1. \A d \in Calls : call'[d] = IF d \in Siblings(c) /\ call[d].out = "absent"
                                    THEN [call[d] EXCEPT !.out = "not_executed"] ELSE call[d]
    BY <1>5 DEF RepairBatch
  <2> QED
    BY <2>1 DEF Gap
<1> QED
  BY <1>2, <1>3, <1>4, <1>5

LEMMA GapNext ==
  ASSUME TypeOK, GapInv, [Next]_vars
  PROVE  GapInv'
<1>1. CASE UNCHANGED vars
  BY <1>1 DEF GapInv, Broken, Gap, vars
<1>2. CASE Next
  <2>1. PICK c \in Calls :
           \/ RejectBatch(c) \/ Guard(c) \/ Enter(c) \/ Resume(c) \/ TryTable(c)
           \/ LockTimeout(c) \/ Dispatch(c) \/ Commit(c) \/ HandlerEnds(c)
           \/ Lapse(c) \/ HeartbeatFails(c) \/ NoticeLost(c) \/ Unwind(c) \/ After(c)
           \/ Interrupt(c) \/ InterruptRelease(c)
           \/ BreakOff(c) \/ ObserverFails(c) \/ CancelTask(c) \/ RepairBatch(c)
    BY <1>2 DEF Next
  <2>2. \A d \in Calls : Gap(call'[d]) => Gap(call[d]) \/ Broken(d)'
    BY <2>1, GapQuiet, GapLocks, GapUnwind, GapBreaks
  <2>3. \/ UNCHANGED faults
        \/ faults' = [faults EXCEPT !.interrupts = @ + 1]
        \/ faults' = [faults EXCEPT !.lapses = @ + 1]
        \/ faults' = [faults EXCEPT !.broken = @ \cup {BatchOf[c][1]}]
    BY <2>1 DEF RejectBatch, Guard, Enter, Resume, TryTable, LockTimeout, Dispatch, Commit, HandlerEnds,
       Lapse, HeartbeatFails, NoticeLost, Unwind, After, Interrupt, InterruptRelease, BreakOff,
       ObserverFails, CancelTask, RepairBatch, BreakBatch
  <2> QED
    BY <2>2, <2>3, FaultsGrow, GapStep DEF NoNewGap
<1> QED
  BY <1>1, <1>2

LEMMA GapInit == Init => GapInv
<1> SUFFICES ASSUME Init PROVE GapInv
  OBVIOUS
<1>1. faults \in [interrupts : Nat, lapses : Nat, broken : SUBSET Batches]
  BY DEF Init
<1>2. ~Gap(NewCall) /\ ~Gap([NewCall EXCEPT !.pc = "ended"])
  BY DEF Gap, NewCall
<1>3. \A c \in Calls : ~Gap(call[c])
  BY <1>2 DEF Init
<1> QED
  BY <1>1, <1>3 DEF GapInv

LEMMA GapInvariance == Spec => []GapInv
<1>1. Inv => TypeOK
  BY DEF Inv
<1>2. GapInv /\ TypeOK /\ [Next]_vars => GapInv'
  BY GapNext
<1> QED
  BY GapInit, <1>1, <1>2, Invariance, PTL DEF Spec

-----------------------------------------------------------------------------
\* A Tool with replay_policy "never" commits at most once, and once it has, the
\* result that _execute and the after hook deliver is a success or "unknown",
\* whatever fails, lapses, times out or is cancelled by its token; it ends
\* without a result (and is then repaired as not executed) only in a batch that
\* a failed listener or the cancellation of the Run's task broke off.  For any
\* calls, keys and limits.
THEOREM HonestOutcomeHolds == Spec => []HonestOutcome
<1>1. Inv /\ GapInv => HonestOutcome
  <2> SUFFICES ASSUME Inv, GapInv, NEW c \in Never
               PROVE  /\ effects[c] <= 1
                      /\ effects[c] = 1 /\ call[c].pc = "ended" =>
                            \/ call[c].out \in {"ok", "unknown"}
                            \/ Broken(c) /\ call[c].out \in {"absent", "not_executed"}
    BY DEF HonestOutcome
  <2>1. HonestCall(call[c], effects[c]) /\ c \in Calls
    BY CallAssumption DEF Inv
  <2>2. call[c].out \in {"absent", "not_executed"} => Broken(c)
    BY <2>1 DEF GapInv, Gap
  <2> QED
    BY <2>1, <2>2 DEF HonestCall
<1> QED
  BY <1>1, Invariance, GapInvariance, PTL

\* The fencing tokens of _try_acquire_sync order the owners of a resource: a
\* call whose lease lapsed has a smaller token than a conflicting call that
\* has taken one of its keys since.
THEOREM NewerOwnerFencesOlderHolds == Spec => []NewerOwnerFencesOlder
<1>1. Inv => NewerOwnerFencesOlder
  <2> SUFFICES ASSUME Inv, NEW c \in Calls, NEW d \in Calls,
                      c # d, call[c].token > 0, call[d].token > 0,
                      Conflict(AccessOf[c], AccessOf[d]),
                      \E r \in rows : r.owner = d /\ r.key \in ToSet(KeysOf[c])
               PROVE  call[c].token < call[d].token
    BY DEF NewerOwnerFencesOlder
  <2>1. Fenced(c, d, Tokens) /\ Tokens[c] = call[c].token /\ Tokens[d] = call[d].token
    BY DEF Inv, Tokens
  <2> QED
    BY <2>1 DEF Fenced
<1> QED
  BY <1>1, Invariance, PTL

-----------------------------------------------------------------------------
(* Queues of waiters *)

Waiters == [who : Calls, rank : {PriorityOf[c] : c \in Calls} \cup {"read", "write"}]

\* The waiters of the queue q are the calls of Q, each once.
QueueOK(q, Q) ==
    /\ q \in Seq(Waiters)
    /\ \A i \in 1..Len(q), j \in 1..Len(q) : q[i].who = q[j].who => i = j
    /\ Names(q) = Q

LEMMA QueueNames ==
  ASSUME NEW q, NEW Q, QueueOK(q, Q)
  PROVE  /\ Len(q) \in Nat /\ DOMAIN q = 1..Len(q)
         /\ \A i \in 1..Len(q) : q[i] \in Waiters /\ q[i].who \in Q
         /\ \A x \in Q : \E i \in 1..Len(q) : q[i].who = x
         /\ Q \subseteq Calls
<1>1. q \in Seq(Waiters) /\ Names(q) = Q
  BY DEF QueueOK
<1>2. Len(q) \in Nat /\ DOMAIN q = 1..Len(q) /\ \A i \in 1..Len(q) : q[i] \in Waiters
  BY <1>1
<1>3. \A x \in Q : \E i \in 1..Len(q) : q[i].who = x
  BY <1>1 DEF Names
<1>4. \A i \in 1..Len(q) : q[i].who \in Q /\ q[i].who \in Calls
  BY <1>1, <1>2 DEF Names, Waiters
<1> QED
  BY <1>2, <1>3, <1>4

LEMMA QueueIs ==
  ASSUME NEW q \in Seq(Waiters), NEW Q,
         \A i \in 1..Len(q), j \in 1..Len(q) : q[i].who = q[j].who => i = j,
         \A i \in 1..Len(q) : q[i].who \in Q,
         \A x \in Q : \E i \in 1..Len(q) : q[i].who = x
  PROVE  QueueOK(q, Q)
<1>1. Names(q) = Q
  BY DEF Names
<1> QED
  BY <1>1 DEF QueueOK

\* The first n waiters and the others.
Cut(q, n, a, b) == a = SubSeq(q, 1, n) /\ b = SubSeq(q, n + 1, Len(q))

CutOK(q, Q, n, a, b) ==
    /\ QueueOK(b, Q \ Names(a)) /\ Names(a) \subseteq Q
    /\ IsFiniteSet(Names(a)) /\ Cardinality(Names(a)) = n
    /\ \A x \in Names(a) : \E i \in 1..n : q[i].who = x
    /\ Len(b) = Len(q) - n /\ \A i \in 1..Len(b) : n + i \in 1..Len(q) /\ b[i] = q[n + i]

LEMMA QueueCut ==
  ASSUME NEW q, NEW Q, QueueOK(q, Q), NEW n \in 0..Len(q), NEW a, NEW b, Cut(q, n, a, b)
  PROVE  CutOK(q, Q, n, a, b)
<1> DEFINE m == Len(q)
<1>0. a = SubSeq(q, 1, n) /\ b = SubSeq(q, n + 1, m)
  BY DEF Cut
<1>1. m \in Nat /\ n \in Nat /\ n <= m /\ \A i \in 1..m : q[i] \in Waiters /\ q[i].who \in Q
  BY QueueNames
<1>2. q \in Seq(Waiters)
  BY DEF QueueOK
<1>3. a \in Seq(Waiters) /\ Len(a) = n /\ \A i \in 1..n : a[i] = q[i]
  <2>1. \A i \in 1..n : q[i] \in Waiters
    BY <1>1
  <2> QED
    BY <1>0, <1>1, <1>2, <2>1
<1>4. b \in Seq(Waiters) /\ Len(b) = m - n /\ \A i \in 1..m - n : b[i] = q[n + i]
  <2>1. \A i \in (n + 1)..m : q[i] \in Waiters
    BY <1>1
  <2>2. \A i \in 1..m - n : (n + 1) + i - 1 = n + i
    BY <1>1
  <2> QED
    BY <1>0, <1>1, <1>2, <2>1, <2>2
<1> DEFINE A == Names(a)
<1>5. A = {q[i].who : i \in 1..n}
  BY <1>3 DEF Names
<1> HIDE DEF A, m
<1>a. \A i \in 1..n : i \in 1..m
  BY <1>1
<1>6. A \subseteq Q /\ \A x \in A : \E i \in 1..n : q[i].who = x
  BY <1>1, <1>5, <1>a
<1>7. \A i \in 1..m, j \in 1..m : q[i].who = q[j].who => i = j
  BY DEF QueueOK, m
<1>8. IsFiniteSet(A) /\ Cardinality(A) = n
  <2> DEFINE f == [i \in 1..n |-> q[i].who]
  <2>1. f \in [1..n -> A] /\ \A x \in A : \E i \in 1..n : f[i] = x
    BY <1>5
  <2>2. \A i \in 1..n, j \in 1..n : f[i] = f[j] => i = j
    BY <1>7, <1>a
  <2>3. DOMAIN f = 1..n
    OBVIOUS
  <2> HIDE DEF f
  <2>4. f \in Bijection(1..n, A)
    BY <2>1, <2>2, <2>3 DEF Bijection, Injection, Surjection, IsInjective
  <2>5. ExistsBijection(1..n, A)
    BY <2>4 DEF ExistsBijection
  <2>6. Cardinality(A) = n
    BY <1>1, <2>5, FS_CountingElements
  <2>7. IsFiniteSet(A)
    <3>1. A \subseteq Calls
      BY <1>6, QueueNames
    <3> QED
      BY <3>1, FS_Subset, CallAssumption
  <2> QED
    BY <2>6, <2>7
<1>9. \A i \in 1..m - n : n + i \in 1..m /\ n + i \notin 1..n
  BY <1>1
<1> DEFINE Rest(t) == t \in Seq(Waiters) /\ Len(t) = m - n /\ \A i \in 1..m - n : t[i] = q[n + i]
<1>10. ASSUME NEW t, Rest(t) PROVE QueueOK(t, Q \ A)
  <2>1. \A i \in 1..m - n, j \in 1..m - n : t[i].who = t[j].who => i = j
    <3> SUFFICES ASSUME NEW i \in 1..m - n, NEW j \in 1..m - n, t[i].who = t[j].who PROVE i = j
      OBVIOUS
    <3>1. n + i = n + j
      BY <1>7, <1>9, <1>10
    <3> QED
      BY <1>1, <3>1
  <2>2. \A i \in 1..m - n : t[i].who \in Q \ A
    <3> SUFFICES ASSUME NEW i \in 1..m - n PROVE t[i].who \in Q \ A
      OBVIOUS
    <3>1. t[i] = q[n + i] /\ n + i \in 1..m /\ n + i \notin 1..n
      BY <1>9, <1>10
    <3>2. t[i].who \in Q
      BY <1>1, <3>1
    <3>3. ASSUME NEW k \in 1..n, q[k].who = q[n + i].who PROVE FALSE
      BY <1>7, <1>a, <3>1, <3>3
    <3> QED
      BY <1>6, <3>1, <3>2, <3>3
  <2>3. \A x \in Q \ A : \E i \in 1..m - n : t[i].who = x
    <3> SUFFICES ASSUME NEW x \in Q \ A PROVE \E i \in 1..m - n : t[i].who = x
      OBVIOUS
    <3>1. PICK k \in 1..m : q[k].who = x
      BY QueueNames DEF m
    <3>2. k \notin 1..n
      BY <1>5, <3>1
    <3>3. k - n \in 1..m - n /\ n + (k - n) = k
      BY <1>1, <3>2
    <3> QED
      BY <1>10, <3>1, <3>3
  <2>4. m - n = Len(t) /\ t \in Seq(Waiters)
    BY <1>10
  <2> DEFINE R == Q \ A
             k == Len(t)
  <2>5. /\ \A i \in 1..k, j \in 1..k : t[i].who = t[j].who => i = j
        /\ \A i \in 1..k : t[i].who \in R
        /\ \A x \in R : \E i \in 1..k : t[i].who = x
    BY <2>1, <2>2, <2>3, <2>4
  <2> HIDE DEF R
  <2>6. t \in Seq(Waiters)
    BY <2>4
  <2>7. QueueOK(t, R)
    BY <2>5, <2>6, QueueIs
  <2> QED
    BY <2>7 DEF R
<1>11. Rest(b)
  BY <1>4
<1> HIDE DEF Rest
<1>12. QueueOK(b, Q \ A)
  BY <1>10, <1>11
<1> QED
  BY <1>4, <1>6, <1>8, <1>9, <1>12 DEF A, m, CutOK

\* One more waiter, at any place.
LEMMA QueueAdd ==
  ASSUME NEW q, NEW Q, QueueOK(q, Q), NEW k \in 1..Len(q) + 1, NEW w \in Waiters, w.who \notin Q,
         NEW r, r = InsertAt(q, k, w)
  PROVE  QueueOK(r, Q \cup {w.who})
<1> DEFINE m == Len(q)
           a == SubSeq(q, 1, k - 1)
           b == SubSeq(q, k, m)
<1>1. m \in Nat /\ k \in Nat /\ k >= 1 /\ k <= m + 1 /\ \A i \in 1..m : q[i] \in Waiters /\ q[i].who \in Q
  BY QueueNames
<1>2. q \in Seq(Waiters)
  BY DEF QueueOK
<1>3. a \in Seq(Waiters) /\ Len(a) = k - 1 /\ \A i \in 1..k - 1 : a[i] = q[i]
  <2>1. \A i \in 1..k - 1 : q[i] \in Waiters
    BY <1>1
  <2>2. 1 <= (k - 1) + 1 /\ k - 1 <= m /\ k - 1 \in Nat
    BY <1>1
  <2> QED
    BY <1>1, <1>2, <2>1, <2>2
<1>4. b \in Seq(Waiters) /\ Len(b) = m - k + 1 /\ \A i \in 1..m - k + 1 : b[i] = q[k + i - 1]
  <2>1. \A i \in k..m : q[i] \in Waiters
    BY <1>1
  <2>2. k <= m + 1
    BY <1>1
  <2> QED
    BY <1>1, <1>2, <2>1, <2>2
<1>5. r = a \o <<w>> \o b
  BY DEF InsertAt
<1> HIDE DEF a, b
<1>6. a \o <<w>> \in Seq(Waiters) /\ Len(a \o <<w>>) = k /\ (a \o <<w>>)[k] = w
      /\ \A i \in 1..k - 1 : (a \o <<w>>)[i] = q[i]
  BY <1>1, <1>3
<1> DEFINE c == a \o <<w>>
<1>7. r = c \o b
  BY <1>5
<1>8. c \in Seq(Waiters) /\ Len(c) = k /\ c[k] = w /\ \A i \in 1..k - 1 : c[i] = q[i]
  BY <1>6
<1> HIDE DEF c
<1>9. r \in Seq(Waiters) /\ Len(r) = m + 1
  <2>1. r \in Seq(Waiters) /\ Len(r) = Len(c) + Len(b)
    <3>1. c \in Seq(Waiters) /\ b \in Seq(Waiters)
      BY <1>4, <1>8
    <3>2. c \o b \in Seq(Waiters) /\ Len(c \o b) = Len(c) + Len(b)
      BY <3>1
    <3> QED
      BY <1>7, <3>2
  <2> QED
    BY <1>1, <1>4, <1>8, <2>1
<1>10. /\ \A i \in 1..k : r[i] = c[i]
       /\ \A i \in (k + 1)..(m + 1) : r[i] = b[i - k]
  BY <1>1, <1>4, <1>7, <1>8
<1>11. r[k] = w /\ \A i \in 1..k - 1 : r[i] = q[i]
  BY <1>1, <1>8, <1>10
<1>12. \A i \in (k + 1)..(m + 1) : r[i] = q[i - 1]
  <2> SUFFICES ASSUME NEW i \in (k + 1)..(m + 1) PROVE r[i] = q[i - 1]
    OBVIOUS
  <2>1. i - k \in 1..m - k + 1 /\ k + (i - k) - 1 = i - 1
    BY <1>1
  <2>2. r[i] = b[i - k]
    BY <1>10
  <2>3. b[i - k] = q[k + (i - k) - 1]
    BY <1>4, <2>1
  <2> QED
    BY <2>1, <2>2, <2>3
<1> DEFINE Old(i) == IF i < k THEN i ELSE i - 1
<1>13. \A i \in 1..m + 1 : i # k => Old(i) \in 1..m /\ r[i] = q[Old(i)]
  <2> SUFFICES ASSUME NEW i \in 1..m + 1, i # k PROVE Old(i) \in 1..m /\ r[i] = q[Old(i)]
    OBVIOUS
  <2>1. CASE i < k
    BY <1>1, <1>11, <2>1
  <2>2. CASE i > k
    BY <1>1, <1>12, <2>2
  <2> QED
    BY <1>1, <2>1, <2>2
<1>14. \A i \in 1..m + 1, j \in 1..m + 1 : i # k /\ j # k /\ Old(i) = Old(j) => i = j
  BY <1>1
<1>15. \A j \in 1..m : \E i \in 1..m + 1 : i # k /\ Old(i) = j
  <2> SUFFICES ASSUME NEW j \in 1..m PROVE \E i \in 1..m + 1 : i # k /\ Old(i) = j
    OBVIOUS
  <2>1. CASE j < k
    BY <1>1, <2>1
  <2>2. CASE ~(j < k)
    <3>1. j + 1 \in 1..m + 1 /\ j + 1 # k /\ Old(j + 1) = j
      BY <1>1, <2>2
    <3> QED
      BY <3>1
  <2> QED
    BY <2>1, <2>2
<1> HIDE DEF Old
<1>16. \A i \in 1..m, j \in 1..m : q[i].who = q[j].who => i = j
  BY DEF QueueOK
<1>17. \A x \in Q : \E i \in 1..m : q[i].who = x
  BY QueueNames
<1> HIDE DEF m
<1>18. k \in 1..m + 1
  BY <1>1
<1>19. \A i \in 1..m + 1, j \in 1..m + 1 : r[i].who = r[j].who => i = j
  <2> SUFFICES ASSUME NEW i \in 1..m + 1, NEW j \in 1..m + 1, r[i].who = r[j].who PROVE i = j
    OBVIOUS
  <2>1. CASE i # k /\ j # k
    BY <1>13, <1>14, <1>16, <2>1
  <2>2. CASE i = k /\ j # k
    BY <1>1, <1>11, <1>13, <2>2
  <2>3. CASE i # k /\ j = k
    BY <1>1, <1>11, <1>13, <2>3
  <2> QED
    BY <2>1, <2>2, <2>3
<1>20. \A i \in 1..m + 1 : r[i].who \in Q \cup {w.who}
  BY <1>1, <1>11, <1>13
<1>21. \A x \in Q \cup {w.who} : \E i \in 1..m + 1 : r[i].who = x
  BY <1>11, <1>13, <1>15, <1>17, <1>18
<1> QED
  BY <1>9, <1>19, <1>20, <1>21, QueueIs

PartOf(r, q) == \A i \in 1..Len(r) : \E j \in 1..Len(q) : r[i] = q[j]

\* The queue without one of its waiters.
LEMMA QueueWithout ==
  ASSUME NEW q, NEW Q, QueueOK(q, Q), NEW c \in Q, NEW r, r = Without(q, c)
  PROVE  QueueOK(r, Q \ {c}) /\ PartOf(r, q)
<1> DEFINE m == Len(q)
           k == CHOOSE i \in 1..Len(q) : q[i].who = c
<1>1. m \in Nat /\ (\A i \in 1..m : q[i] \in Waiters /\ q[i].who \in Q) /\ DOMAIN q = 1..m
  BY QueueNames
<1>2. q \in Seq(Waiters) /\ Names(q) = Q
  BY DEF QueueOK
<1>3. k \in 1..m /\ q[k].who = c
  BY QueueNames
<1>4. r = RemoveAt(q, k)
  BY <1>2 DEF Without
<1>5. \A i \in 1..m, j \in 1..m : q[i].who = q[j].who => i = j
  BY DEF QueueOK
<1>6. \A x \in Q : \E i \in 1..m : q[i].who = x
  BY QueueNames
<1> HIDE DEF k
<1> DEFINE a == SubSeq(q, 1, k - 1)
           b == SubSeq(q, k + 1, m)
<1>7. r = a \o b
  BY <1>4 DEF RemoveAt
<1>8. a \in Seq(Waiters) /\ Len(a) = k - 1 /\ \A i \in 1..k - 1 : a[i] = q[i]
  <2>1. (\A i \in 1..k - 1 : q[i] \in Waiters) /\ k - 1 \in Nat /\ k - 1 <= m
    BY <1>1, <1>3
  <2> QED
    BY <1>1, <1>2, <2>1
<1>9. b \in Seq(Waiters) /\ Len(b) = m - k /\ \A i \in 1..m - k : b[i] = q[k + i]
  <2>1. (\A i \in (k + 1)..m : q[i] \in Waiters) /\ k \in Nat /\ k + 1 \in Nat /\ k <= m
    BY <1>1, <1>3
  <2>2. \A i \in 1..m - k : (k + 1) + i - 1 = k + i
    BY <1>1, <1>3
  <2>6. m \in Nat /\ k + 1 \in 1..m + 1 /\ m - (k + 1) + 1 = m - k
    BY <1>1, <1>3
  <2>3. Len(b) = m - k
    <3> DEFINE j == k + 1
    <3>1. m \in Nat /\ j \in 1..m + 1 /\ m - j + 1 = m - k
      BY <2>6
    <3> HIDE DEF j, m
    <3>2. Len(SubSeq(q, j, m)) = m - j + 1
      BY <1>2, <3>1
    <3> QED
      BY <3>1, <3>2 DEF j
  <2>4. b \in Seq(Waiters)
    BY <1>1, <1>2, <2>1
  <2>5. \A i \in 1..m - k : b[i] = q[k + i]
    BY <1>1, <1>2, <2>1, <2>2
  <2> QED
    BY <2>3, <2>4, <2>5
<1> HIDE DEF a, b, m
<1>10. r \in Seq(Waiters) /\ Len(r) = m - 1
  <2>3. a \in Seq(Waiters) /\ b \in Seq(Waiters)
    BY <1>8, <1>9
  <2>4. a \o b \in Seq(Waiters) /\ Len(a \o b) = Len(a) + Len(b)
    BY <2>3
  <2>1. r \in Seq(Waiters) /\ Len(r) = Len(a) + Len(b)
    BY <1>7, <2>4
  <2>2. (k - 1) + (m - k) = m - 1
    BY <1>1, <1>3
  <2> QED
    BY <1>8, <1>9, <2>1, <2>2
<1> DEFINE Old(i) == IF i < k THEN i ELSE i + 1
<1>11. \A i \in 1..m - 1 : Old(i) \in 1..m /\ Old(i) # k /\ r[i] = q[Old(i)]
  <2> SUFFICES ASSUME NEW i \in 1..m - 1 PROVE Old(i) \in 1..m /\ Old(i) # k /\ r[i] = q[Old(i)]
    OBVIOUS
  <2>1. CASE i < k
    <3>1. i \in 1..k - 1 /\ Old(i) = i
      BY <1>3, <2>1
    <3>2. r[i] = a[i]
      BY <1>7, <1>8, <1>9, <3>1
    <3> QED
      BY <1>1, <1>3, <1>8, <2>1, <3>1, <3>2
  <2>2. CASE ~(i < k)
    <3>1. i - (k - 1) \in 1..m - k /\ k + (i - (k - 1)) = i + 1 /\ Old(i) = i + 1 /\ i > k - 1
      BY <1>1, <1>3, <2>2
    <3>2. r[i] = b[i - (k - 1)]
      BY <1>1, <1>3, <1>7, <1>8, <1>9, <3>1
    <3> QED
      BY <1>1, <1>3, <1>9, <2>2, <3>1, <3>2
  <2> QED
    BY <2>1, <2>2
<1>12. \A i \in 1..m - 1, j \in 1..m - 1 : Old(i) = Old(j) => i = j
  BY <1>1, <1>3
<1>13. \A j \in 1..m : j # k => \E i \in 1..m - 1 : Old(i) = j
  <2> SUFFICES ASSUME NEW j \in 1..m, j # k PROVE \E i \in 1..m - 1 : Old(i) = j
    OBVIOUS
  <2>1. CASE j < k
    BY <1>1, <1>3, <2>1
  <2>2. CASE ~(j < k)
    <3>1. j - 1 \in 1..m - 1 /\ Old(j - 1) = j
      BY <1>1, <1>3, <2>2
    <3> QED
      BY <3>1
  <2> QED
    BY <2>1, <2>2
<1> HIDE DEF Old
<1> DEFINE R == Q \ {c}
           Rest(t) == t \in Seq(Waiters) /\ Len(t) = m - 1 /\ \A i \in 1..m - 1 : t[i] = q[Old(i)]
<1>14. ASSUME NEW t, Rest(t) PROVE QueueOK(t, R)
  <2>1. t \in Seq(Waiters) /\ Len(t) = m - 1
    BY <1>14
  <2>2. \A i \in 1..Len(t), j \in 1..Len(t) : t[i].who = t[j].who => i = j
    BY <1>5, <1>11, <1>12, <1>14
  <2>3. \A i \in 1..Len(t) : t[i].who \in R
    BY <1>1, <1>3, <1>5, <1>11, <1>14
  <2>4. \A x \in R : \E i \in 1..Len(t) : t[i].who = x
    <3> SUFFICES ASSUME NEW x \in R PROVE \E i \in 1..m - 1 : t[i].who = x
      BY <2>1
    <3>1. PICK j \in 1..m : q[j].who = x
      BY <1>6
    <3>2. PICK i \in 1..m - 1 : Old(i) = j
      BY <1>3, <1>13, <3>1
    <3> QED
      BY <1>14, <3>1, <3>2
  <2> HIDE DEF R
  <2> QED
    BY <2>1, <2>2, <2>3, <2>4, QueueIs
<1>15. Rest(r)
  BY <1>10, <1>11
<1>16. PartOf(r, q)
  BY <1>10, <1>11 DEF m, PartOf
<1> HIDE DEF Rest
<1>17. QueueOK(r, R)
  BY <1>14, <1>15
<1> QED
  BY <1>16, <1>17

LEMMA QueueEmpty == QueueOK(<< >>, {})
<1>1. << >> \in Seq(Waiters) /\ Len(<< >>) = 0 /\ 1..0 = {}
  OBVIOUS
<1> QED
  BY <1>1 DEF QueueOK, Names

\* The last waiter.
LEMMA QueueAppend ==
  ASSUME NEW q, NEW Q, QueueOK(q, Q), NEW w \in Waiters, w.who \notin Q, NEW r, r = Append(q, w)
  PROVE  QueueOK(r, Q \cup {w.who})
<1> DEFINE m == Len(q)
<1>1. m \in Nat /\ (\A i \in 1..m : q[i] \in Waiters /\ q[i].who \in Q) /\ DOMAIN q = 1..m
  BY QueueNames
<1>2. q \in Seq(Waiters)
  BY DEF QueueOK
<1>3. r \in Seq(Waiters) /\ Len(r) = m + 1 /\ r[m + 1] = w /\ \A i \in 1..m : r[i] = q[i]
  BY <1>1, <1>2
<1>5. \A i \in 1..m, j \in 1..m : q[i].who = q[j].who => i = j
  BY DEF QueueOK
<1>6. \A x \in Q : \E i \in 1..m : q[i].who = x
  BY QueueNames
<1>7. \A i \in 1..m + 1 : i \in 1..m \/ i = m + 1
  BY <1>1
<1>8. m + 1 \in 1..m + 1 /\ \A i \in 1..m : i \in 1..m + 1
  BY <1>1
<1> HIDE DEF m
<1> DEFINE R == Q \cup {w.who}
           More(t) == t \in Seq(Waiters) /\ Len(t) = m + 1 /\ t[m + 1] = w /\ \A i \in 1..m : t[i] = q[i]
<1>9. ASSUME NEW t, More(t) PROVE QueueOK(t, R)
  <2>1. t \in Seq(Waiters) /\ Len(t) = m + 1
    BY <1>9
  <2>2. \A i \in 1..Len(t), j \in 1..Len(t) : t[i].who = t[j].who => i = j
    BY <1>1, <1>5, <1>7, <1>9
  <2>3. \A i \in 1..Len(t) : t[i].who \in R
    BY <1>1, <1>7, <1>9
  <2>4. \A x \in R : \E i \in 1..Len(t) : t[i].who = x
    BY <1>6, <1>8, <1>9
  <2> HIDE DEF R
  <2> QED
    BY <2>1, <2>2, <2>3, <2>4, QueueIs
<1>10. More(r)
  BY <1>3
<1> HIDE DEF More
<1>11. QueueOK(r, R)
  BY <1>9, <1>10
<1> QED
  BY <1>11

-----------------------------------------------------------------------------
(* The two locks: H are the calls that hold one, Q those that wait for it *)

SemAcc(s, H, Q, limit) ==
    /\ s \in [value : Nat, queue : Seq(Waiters)]
    /\ QueueOK(s.queue, Q) /\ H \subseteq Calls /\ H \cap Q = {}
    /\ s.value + Cardinality(H) = limit

\* Nobody waits for a slot that is free.
SemInv(s, H, Q, limit) ==
    /\ SemAcc(s, H, Q, limit)
    /\ s.value > 0 => s.queue = << >>

\* What an operation g leaves when H have a slot and Q want one: the woken got theirs.
SemLeft(g, H, Q, limit) ==
    g.woken \subseteq Q /\ SemInv(g.lock, H \cup g.woken, Q \ g.woken, limit)

LEMMA CallSets ==
  ASSUME NEW H \in SUBSET Calls
  PROVE  IsFiniteSet(H) /\ Cardinality(H) \in Nat
  BY FS_Subset, FS_CardinalityType, CallAssumption

LEMMA AddsUp ==
  ASSUME NEW H \in SUBSET Calls, NEW A \in SUBSET Calls, H \cap A = {}
  PROVE  Cardinality(H \cup A) = Cardinality(H) + Cardinality(A)
<1>1. Cardinality({}) = 0
  BY FS_EmptySet
<1>2. Cardinality(H \cup A) = Cardinality(H) + Cardinality(A) - Cardinality(H \cap A)
  BY CallSets, FS_Union
<1>3. Cardinality(H \cap A) = 0
  BY <1>1, Zenon
<1>4. Cardinality(H) \in Nat /\ Cardinality(A) \in Nat
  BY CallSets
<1> QED
  BY <1>2, <1>3, <1>4

LEMMA OneLess ==
  ASSUME NEW H \in SUBSET Calls, NEW c \in H
  PROVE  Cardinality(H \ {c}) = Cardinality(H) - 1
  BY CallSets, FS_RemoveElement

LEMMA SemGrantKeeps ==
  ASSUME NEW s, NEW H, NEW Q, NEW limit, SemAcc(s, H, Q, limit), NEW g, g = SemGrant(s)
  PROVE  SemLeft(g, H, Q, limit)
<1> DEFINE q == s.queue
           n == IF s.value < Len(q) THEN s.value ELSE Len(q)
           a == SubSeq(q, 1, n)
           b == SubSeq(q, n + 1, Len(q))
           A == Names(a)
<1>1. s.value \in Nat /\ QueueOK(q, Q) /\ H \subseteq Calls /\ H \cap Q = {} /\ s.value + Cardinality(H) = limit
  BY DEF SemAcc
<1>2. Len(q) \in Nat /\ Q \subseteq Calls
  BY <1>1, QueueNames
<1>3. n \in 0..Len(q) /\ n <= s.value /\ (s.value > n => n = Len(q)) /\ s.value - n \in Nat
  BY <1>1, <1>2
<1>4. g = [lock |-> [value |-> s.value - n, queue |-> b], woken |-> A]
  BY DEF SemGrant
<1>5. g.lock.value = s.value - n /\ g.lock.queue = b /\ g.woken = A
      /\ g.lock = [value |-> s.value - n, queue |-> b]
  BY <1>4
<1> HIDE DEF n
<1> HIDE DEF q
<1>6. /\ QueueOK(b, Q \ A) /\ A \subseteq Q /\ Cardinality(A) = n /\ Len(b) = Len(q) - n
  <2>1. n \in 0..Len(q) /\ QueueOK(q, Q)
    BY <1>1, <1>3
  <2>2. Cut(q, n, a, b)
    BY DEF Cut
  <2> HIDE DEF a, b
  <2>3. CutOK(q, Q, n, a, b)
    BY <2>1, <2>2, QueueCut
  <2> QED
    BY <2>3 DEF CutOK
<1> HIDE DEF a, b, A
<1>7. Cardinality(H \cup A) = Cardinality(H) + n
  BY <1>1, <1>2, <1>6, AddsUp
<1>8. b \in Seq(Waiters)
  BY <1>6 DEF QueueOK
<1>9. SemAcc(g.lock, H \cup A, Q \ A, limit)
  <2>1. (s.value - n) + Cardinality(H \cup A) = limit
    BY <1>1, <1>3, <1>7, CallSets
  <2>2. g.lock \in [value : Nat, queue : Seq(Waiters)]
    BY <1>3, <1>5, <1>8
  <2>3. H \cup A \subseteq Calls /\ (H \cup A) \cap (Q \ A) = {}
    BY <1>1, <1>2, <1>6
  <2> QED
    BY <1>5, <1>6, <2>1, <2>2, <2>3 DEF SemAcc
<1>10. s.value - n > 0 => b = << >>
  BY <1>1, <1>2, <1>3, <1>6, <1>8
<1> QED
  BY <1>5, <1>6, <1>9, <1>10 DEF SemInv, SemLeft

\* acquire: c is one of those that wait now.
LEMMA SemAcquireKeeps ==
  ASSUME NEW s, NEW H, NEW Q, NEW limit, SemInv(s, H, Q, limit), NEW c \in Calls, c \notin H, c \notin Q,
         NEW g, g = SemAcquire(s, c, PriorityOf[c])
  PROVE  SemLeft(g, H, Q \cup {c}, limit)
<1> DEFINE q == s.queue
           ahead == Cardinality({i \in 1..Len(q) : q[i].rank >= PriorityOf[c]})
           w == Waiter(c, PriorityOf[c])
           r == InsertAt(q, ahead + 1, w)
           t == [s EXCEPT !.queue = r]
<1>1. s \in [value : Nat, queue : Seq(Waiters)] /\ QueueOK(q, Q) /\ H \subseteq Calls /\ H \cap Q = {}
      /\ s.value + Cardinality(H) = limit
  BY DEF SemInv, SemAcc
<1>2. Len(q) \in Nat
  BY <1>1, QueueNames
<1>3. ahead \in 0..Len(q)
  <2> DEFINE S == {i \in 1..Len(q) : q[i].rank >= PriorityOf[c]}
  <2>1. S \subseteq 1..Len(q)
    OBVIOUS
  <2> HIDE DEF S
  <2>2. IsFiniteSet(1..Len(q)) /\ Cardinality(1..Len(q)) = Len(q)
    BY <1>2, FS_Interval
  <2>3. IsFiniteSet(S) /\ Cardinality(S) <= Len(q) /\ Cardinality(S) \in Nat
    BY <2>1, <2>2, FS_Subset, FS_CardinalityType
  <2> QED
    BY <1>2, <2>3 DEF S
<1>4. w \in Waiters /\ w.who = c
  BY DEF Waiter, Waiters
<1>5. g = SemGrant(t)
  BY DEF SemAcquire
<1> HIDE DEF ahead, w
<1>6. QueueOK(r, Q \cup {c})
  BY <1>1, <1>2, <1>3, <1>4, QueueAdd
<1> HIDE DEF r
<1>7. t.value = s.value /\ t.queue = r /\ t \in [value : Nat, queue : Seq(Waiters)]
  BY <1>1, <1>6 DEF QueueOK
<1> HIDE DEF t
<1>8. SemAcc(t, H, Q \cup {c}, limit)
  BY <1>1, <1>6, <1>7 DEF SemAcc
<1> QED
  BY <1>5, <1>8, SemGrantKeeps

\* release: c held a slot.
LEMMA SemReleaseKeeps ==
  ASSUME NEW s, NEW H, NEW Q, NEW limit, SemInv(s, H, Q, limit), NEW c \in H,
         NEW g, g = SemRelease(s)
  PROVE  SemLeft(g, H \ {c}, Q, limit)
<1> DEFINE t == [s EXCEPT !.value = @ + 1]
<1>1. s \in [value : Nat, queue : Seq(Waiters)] /\ QueueOK(s.queue, Q) /\ H \subseteq Calls /\ H \cap Q = {}
      /\ s.value + Cardinality(H) = limit
  BY DEF SemInv, SemAcc
<1>2. t.value = s.value + 1 /\ t.queue = s.queue /\ t \in [value : Nat, queue : Seq(Waiters)]
  BY <1>1
<1>3. g = SemGrant(t)
  BY DEF SemRelease
<1> HIDE DEF t
<1>4. Cardinality(H \ {c}) = Cardinality(H) - 1 /\ Cardinality(H) \in Nat
  BY <1>1, OneLess, CallSets
<1>5. t.value + Cardinality(H \ {c}) = limit
  BY <1>1, <1>2, <1>4
<1>6. SemAcc(t, H \ {c}, Q, limit)
  BY <1>1, <1>2, <1>5 DEF SemAcc
<1> QED
  BY <1>3, <1>6, SemGrantKeeps

\* The except clause of acquire: c waited, or was granted a slot meanwhile.
LEMMA SemGiveUpKeeps ==
  ASSUME NEW s, NEW H, NEW Q, NEW limit, SemInv(s, H, Q, limit), NEW c \in Calls,
         NEW granted \in BOOLEAN, IF granted THEN c \in H ELSE c \in Q,
         NEW g, g = SemGiveUp(s, c, granted)
  PROVE  SemLeft(g, H \ {c}, Q \ {c}, limit)
<1>1. s \in [value : Nat, queue : Seq(Waiters)] /\ QueueOK(s.queue, Q) /\ H \subseteq Calls /\ H \cap Q = {}
      /\ s.value + Cardinality(H) = limit
  BY DEF SemInv, SemAcc
<1>2. CASE granted
  <2>1. c \in H /\ Q \ {c} = Q /\ g = SemRelease(s)
    BY <1>1, <1>2 DEF SemGiveUp
  <2> QED
    BY <2>1, SemReleaseKeeps
<1>3. CASE ~granted
  <2> DEFINE r == Without(s.queue, c)
             t == [s EXCEPT !.queue = r]
  <2>1. c \in Q /\ H \ {c} = H /\ g = SemGrant(t)
    BY <1>1, <1>3 DEF SemGiveUp
  <2>2. QueueOK(r, Q \ {c})
    BY <1>1, <2>1, QueueWithout
  <2> HIDE DEF r
  <2>3. t.value = s.value /\ t.queue = r /\ t \in [value : Nat, queue : Seq(Waiters)]
    BY <1>1, <2>2 DEF QueueOK
  <2> HIDE DEF t
  <2>4. SemAcc(t, H, Q \ {c}, limit)
    BY <1>1, <2>2, <2>3 DEF SemAcc
  <2> QED
    BY <2>1, <2>4, SemGrantKeeps
<1> QED
  BY <1>2, <1>3

-----------------------------------------------------------------------------
(* The fair read-write lock of the thing r: H have it, Q are queued for it *)

RWLocks == [readers : Nat, writer : BOOLEAN, queue : Seq(Waiters)]

ReadersOf(H, r) == {c \in H : Access(c, r) = "read"}
Ranked(q, r) == \A i \in 1..Len(q) : q[i].rank = Access(q[i].who, r)

RWAcc(l, H, Q, r) ==
    /\ l \in RWLocks /\ QueueOK(l.queue, Q) /\ H \subseteq Calls /\ H \cap Q = {}
    /\ Ranked(l.queue, r)
    /\ l.writer <=> \E c \in H : Access(c, r) = "write"
    /\ l.readers = Cardinality(ReadersOf(H, r))
    /\ \A c, d \in H : c = d \/ ~Conflict(Access(c, r), Access(d, r))

\* Somebody who waits is kept from the lock by those who hold it.
RWInv(l, H, Q, r) ==
    /\ RWAcc(l, H, Q, r)
    /\ l.queue = << >> \/ l.writer \/ (l.queue[1].rank = "write" /\ l.readers > 0)

RWLeft(g, H, Q, r) ==
    g.woken \subseteq Q /\ RWInv(g.lock, H \cup g.woken, Q \ g.woken, r)

LEMMA AccessType ==
  ASSUME NEW c \in Calls, NEW r
  PROVE  Access(c, r) \in {"read", "write"}
  BY CallAssumption DEF Access

LEMMA NatMin ==
  ASSUME NEW S \in SUBSET Nat, S # {}
  PROVE  \E m \in S : \A y \in S : m <= y
<1> DEFINE less == OpToRel(<, Nat)
<1>1. IsWellFoundedOn(less, Nat)
  BY NatLessThanWellFounded
<1>2. \A x \in Nat, y \in Nat : <<x, y>> \in less <=> x < y
  BY DEF OpToRel
<1> HIDE DEF less
<1>3. PICK m \in S : \A y \in S : <<y, m>> \notin less
  BY <1>1, WFMin
<1>4. m \in Nat /\ \A y \in S : y \in Nat /\ ~(y < m)
  BY <1>2, <1>3
<1> QED
  BY <1>3, <1>4

\* The readers in front of the first writer are a prefix of the queue.
Leading(q) == {i \in 1..Len(q) : \A j \in 1..i : q[j].rank = "read"}

LEMMA LeadingReaders ==
  ASSUME NEW q, Len(q) \in Nat
  PROVE  /\ Cardinality(Leading(q)) \in 0..Len(q)
         /\ \A i \in 1..Cardinality(Leading(q)) : q[i].rank = "read"
         /\ Cardinality(Leading(q)) < Len(q) => q[Cardinality(Leading(q)) + 1].rank # "read"
<1> DEFINE Others == {i \in 1..Len(q) + 1 : i = Len(q) + 1 \/ q[i].rank # "read"}
<1>1. Others \subseteq Nat /\ Len(q) + 1 \in Others
  OBVIOUS
<1>2. PICK m \in Others : \A y \in Others : m <= y
  BY <1>1, NatMin
<1>3. m \in 1..Len(q) + 1 /\ (m = Len(q) + 1 \/ q[m].rank # "read")
  OBVIOUS
<1>4. ASSUME NEW i \in 1..Len(q), i < m PROVE q[i].rank = "read"
  BY <1>2, <1>4
<1> HIDE DEF Others
<1>5. Leading(q) = 1..m - 1
  <2>1. ASSUME NEW i \in Leading(q) PROVE i \in 1..m - 1
    <3>1. i \in 1..Len(q) /\ \A j \in 1..i : q[j].rank = "read"
      BY <2>1 DEF Leading
    <3>2. ~(m <= i)
      BY <1>3, <3>1
    <3> QED
      BY <1>3, <3>1, <3>2
  <2>2. ASSUME NEW i \in 1..m - 1 PROVE i \in Leading(q)
    <3>1. i \in 1..Len(q) /\ \A j \in 1..i : j \in 1..Len(q) /\ j < m
      BY <1>3
    <3> QED
      BY <1>4, <3>1 DEF Leading
  <2> QED
    BY <2>1, <2>2
<1>6. Cardinality(1..m - 1) = m - 1
  <2> DEFINE k == m - 1
  <2>1. k \in Int /\ 1 \in Int
    BY <1>3
  <2>2. Cardinality(1..k) = IF 1 > k THEN 0 ELSE k - 1 + 1
    <3> HIDE DEF k
    <3> QED
      BY <2>1, FS_Interval
  <2> QED
    BY <1>3, <2>2
<1>7. Cardinality(Leading(q)) = m - 1
  BY <1>5, <1>6
<1> QED
  BY <1>3, <1>4, <1>7

LEMMA ReadersAddUp ==
  ASSUME NEW H \in SUBSET Calls, NEW A \in SUBSET Calls, H \cap A = {}, NEW r
  PROVE  Cardinality(ReadersOf(H \cup A, r)) = Cardinality(ReadersOf(H, r)) + Cardinality(ReadersOf(A, r))
<1>1. ReadersOf(H \cup A, r) = ReadersOf(H, r) \cup ReadersOf(A, r) /\ ReadersOf(H, r) \cap ReadersOf(A, r) = {}
      /\ ReadersOf(H, r) \subseteq Calls /\ ReadersOf(A, r) \subseteq Calls
  BY DEF ReadersOf
<1> QED
  BY <1>1, AddsUp

\* A lock that is as before.
LEMMA RWSame ==
  ASSUME NEW l, NEW H, NEW Q, NEW r, RWInv(l, H, Q, r), NEW g, g = [lock |-> l, woken |-> {}]
  PROVE  RWLeft(g, H, Q, r)
<1>1. g.lock = l /\ g.woken = {} /\ H \cup {} = H /\ Q \ {} = Q
  OBVIOUS
<1> QED
  BY <1>1 DEF RWLeft

\* The first n waiters get the lock together; l2 is the lock they leave.
LEMMA RWEnter ==
  ASSUME NEW l, NEW H, NEW Q, NEW r, RWAcc(l, H, Q, r), NEW n \in 0..Len(l.queue),
         NEW a, NEW b, Cut(l.queue, n, a, b), NEW l2 \in RWLocks, l2.queue = b,
         l2.writer <=> \E c \in H \cup Names(a) : Access(c, r) = "write",
         l2.readers = Cardinality(ReadersOf(H \cup Names(a), r)),
         \A c, d \in H \cup Names(a) : c = d \/ ~Conflict(Access(c, r), Access(d, r))
  PROVE  RWAcc(l2, H \cup Names(a), Q \ Names(a), r) /\ Names(a) \subseteq Q
<1> DEFINE A == Names(a)
           q == l.queue
<1>1. QueueOK(q, Q) /\ H \subseteq Calls /\ H \cap Q = {} /\ Ranked(q, r)
  BY DEF RWAcc
<1>2. Q \subseteq Calls
  BY <1>1, QueueNames
<1>a. CutOK(q, Q, n, a, b)
  BY <1>1, QueueCut
<1> HIDE DEF q
<1>3. QueueOK(b, Q \ A) /\ A \subseteq Q /\ \A i \in 1..Len(b) : n + i \in 1..Len(q) /\ b[i] = q[n + i]
  BY <1>a DEF CutOK
<1> HIDE DEF A
<1>4. Ranked(b, r)
  BY <1>1, <1>3 DEF Ranked
<1>5. H \cup A \subseteq Calls /\ (H \cup A) \cap (Q \ A) = {}
  BY <1>1, <1>2, <1>3
<1> QED
  BY <1>3, <1>4, <1>5 DEF RWAcc, A

\* Nobody holds the lock.
LEMMA RWFree ==
  ASSUME NEW l, NEW H, NEW Q, NEW r, RWAcc(l, H, Q, r), ~l.writer
  PROVE  /\ \A c \in H : Access(c, r) = "read"
         /\ ReadersOf(H, r) = H
         /\ l.readers = 0 => H = {}
<1>1. H \subseteq Calls
  BY DEF RWAcc
<1>2. \A c \in H : Access(c, r) = "read"
  BY <1>1, AccessType DEF RWAcc
<1>3. ReadersOf(H, r) = H
  BY <1>2 DEF ReadersOf
<1>4. ASSUME l.readers = 0 PROVE H = {}
  <2>1. Cardinality(H) = 0
    BY <1>3, <1>4 DEF RWAcc
  <2> QED
    BY <1>1, <2>1, CallSets, FS_EmptySet
<1> QED
  BY <1>2, <1>3, <1>4

\* The writer at the head gets the lock.
LEMMA RWWriterEnters ==
  ASSUME NEW l, NEW H, NEW Q, NEW r, RWAcc(l, H, Q, r), ~l.writer, l.queue # << >>,
         l.queue[1].rank = "write", l.readers = 0,
         NEW g, g = [lock |-> [l EXCEPT !.writer = TRUE, !.queue = Tail(@)], woken |-> {l.queue[1].who}]
  PROVE  RWLeft(g, H, Q, r)
<1> DEFINE q == l.queue
           a == SubSeq(q, 1, 1)
           b == SubSeq(q, 2, Len(q))
           w == q[1].who
<1>1. l \in RWLocks /\ QueueOK(q, Q) /\ Ranked(q, r) /\ q # << >>
  BY DEF RWAcc
<1>2. q \in Seq(Waiters) /\ Len(q) \in Nat /\ Len(q) >= 1 /\ q[1] \in Waiters /\ w \in Q /\ Q \subseteq Calls
  <2>1. q \in Seq(Waiters) /\ Len(q) \in Nat
    BY <1>1 DEF QueueOK
  <2>2. Len(q) # 0
    BY <1>1, <2>1
  <2>3. 1 \in 1..Len(q)
    BY <2>1, <2>2
  <2> QED
    BY <1>1, <2>1, <2>3, QueueNames
<1>3. Tail(q) = b
  <2> HIDE DEF q
  <2> QED
    BY <1>2
<1>4. Names(a) = {w}
  <2> HIDE DEF q
  <2>1. Len(a) = 1 /\ a[1] = q[1]
    BY <1>2
  <2> HIDE DEF a
  <2> QED
    BY <2>1 DEF Names, w
<1>5. Cut(q, 1, a, b)
  BY DEF Cut
<1>6. H = {}
  BY RWFree
<1>7. Access(w, r) = "write"
  BY <1>1, <1>2 DEF Ranked
<1> DEFINE l2 == [l EXCEPT !.writer = TRUE, !.queue = b]
<1>8. g.lock = l2 /\ g.woken = {w}
  BY <1>3
<1> HIDE DEF a, b, w, q
<1>9. b \in Seq(Waiters)
  BY <1>2 DEF b
<1>10. l2 \in RWLocks /\ l2.queue = b /\ l2.writer = TRUE /\ l2.readers = 0
  BY <1>1, <1>9 DEF RWLocks
<1> HIDE DEF l2
<1>11. Cardinality(ReadersOf(H \cup Names(a), r)) = 0
  <2>1. ReadersOf(H \cup Names(a), r) = {}
    BY <1>4, <1>6, <1>7 DEF ReadersOf
  <2> QED
    BY <2>1, FS_EmptySet
<1>12. RWAcc(l2, H \cup Names(a), Q \ Names(a), r) /\ Names(a) \subseteq Q
  <2>1. 1 \in 0..Len(l.queue) /\ Cut(l.queue, 1, a, b)
    BY <1>2, <1>5 DEF q
  <2>2. /\ l2.writer <=> \E c \in H \cup Names(a) : Access(c, r) = "write"
        /\ \A c, d \in H \cup Names(a) : c = d \/ ~Conflict(Access(c, r), Access(d, r))
    BY <1>4, <1>6, <1>7, <1>10
  <2> QED
    BY <1>10, <1>11, <2>1, <2>2, RWEnter
<1> QED
  BY <1>4, <1>8, <1>10, <1>12 DEF RWInv, RWLeft

\* The readers in front of the first writer get it.
LEMMA RWReadersEnter ==
  ASSUME NEW l, NEW H, NEW Q, NEW r, RWAcc(l, H, Q, r), ~l.writer, l.queue # << >>,
         l.queue[1].rank # "write", NEW n, n = Cardinality(Leading(l.queue)),
         NEW g, g = [lock |-> [l EXCEPT !.readers = @ + n, !.queue = SubSeq(@, n + 1, Len(@))],
                     woken |-> Names(SubSeq(l.queue, 1, n))]
  PROVE  RWLeft(g, H, Q, r)
<1> DEFINE q == l.queue
           a == SubSeq(q, 1, n)
           b == SubSeq(q, n + 1, Len(q))
           A == Names(a)
           l2 == [l EXCEPT !.readers = @ + n, !.queue = b]
<1>1. l \in RWLocks /\ QueueOK(q, Q) /\ Ranked(q, r) /\ q # << >> /\ H \subseteq Calls /\ H \cap Q = {}
      /\ l.readers = Cardinality(ReadersOf(H, r))
  BY DEF RWAcc
<1>2. q \in Seq(Waiters) /\ Len(q) \in Nat /\ Len(q) >= 1 /\ Q \subseteq Calls
      /\ \A i \in 1..Len(q) : q[i].who \in Calls
  <2>1. q \in Seq(Waiters) /\ Len(q) \in Nat
    BY <1>1 DEF QueueOK
  <2>2. Len(q) # 0
    BY <1>1, <2>1
  <2> QED
    BY <1>1, <2>1, <2>2, QueueNames
<1>3. g.lock = l2 /\ g.woken = A
  OBVIOUS
<1>4. Cut(q, n, a, b)
  BY DEF Cut
<1>5. \A i \in 1..Len(q) : q[i].rank \in {"read", "write"} /\ q[i].rank = Access(q[i].who, r)
  BY <1>1, <1>2, AccessType DEF Ranked
<1>6. n \in 0..Len(q) /\ (\A i \in 1..n : q[i].rank = "read") /\ (n < Len(q) => q[n + 1].rank # "read")
  BY <1>2, LeadingReaders
<1> HIDE DEF a, b, A, q
<1>7. n >= 1
  <2>1. q[1].rank = "read"
    BY <1>2, <1>5 DEF q
  <2> QED
    BY <1>2, <1>6, <2>1
<1>8. QueueOK(b, Q \ A) /\ A \subseteq Q /\ Cardinality(A) = n /\ (\A x \in A : \E i \in 1..n : q[i].who = x)
      /\ Len(b) = Len(q) - n /\ \A i \in 1..Len(b) : n + i \in 1..Len(q) /\ b[i] = q[n + i]
  <2>1. CutOK(q, Q, n, a, b)
    BY <1>1, <1>4, <1>6, QueueCut
  <2> QED
    BY <2>1 DEF CutOK, A
<1>9. \A c \in A : Access(c, r) = "read"
  BY <1>2, <1>5, <1>6, <1>8
<1>10. ReadersOf(A, r) = A
  BY <1>9 DEF ReadersOf
<1>11. (\A c \in H : Access(c, r) = "read") /\ ReadersOf(H, r) = H
  BY RWFree
<1>12. Cardinality(ReadersOf(H \cup A, r)) = l.readers + n
  <2>1. H \cap A = {} /\ A \subseteq Calls
    BY <1>1, <1>2, <1>8
  <2> QED
    BY <1>1, <1>8, <1>10, <2>1, ReadersAddUp
<1>13. b \in Seq(Waiters) /\ n \in Nat
  BY <1>2, <1>6, <1>8 DEF QueueOK
<1>14. l2 \in RWLocks /\ l2.queue = b /\ l2.writer = FALSE /\ l2.readers = l.readers + n /\ l.readers \in Nat
  <2>1. l.readers \in Nat /\ l.readers + n \in Nat /\ l.writer = FALSE
    BY <1>1, <1>13 DEF RWLocks
  <2>2. l2 \in RWLocks /\ l2.queue = b /\ l2.writer = l.writer /\ l2.readers = l.readers + n
    BY <1>1, <1>13, <2>1 DEF RWLocks
  <2> QED
    BY <2>1, <2>2
<1> HIDE DEF l2
<1>15. RWAcc(l2, H \cup A, Q \ A, r) /\ A \subseteq Q
  <2>1. n \in 0..Len(l.queue) /\ Cut(l.queue, n, a, b)
    BY <1>4, <1>6 DEF q
  <2>2. /\ l2.writer <=> \E c \in H \cup Names(a) : Access(c, r) = "write"
        /\ \A c, d \in H \cup Names(a) : c = d \/ ~Conflict(Access(c, r), Access(d, r))
    BY <1>9, <1>11, <1>14 DEF A, Conflict
  <2>3. l2.readers = Cardinality(ReadersOf(H \cup Names(a), r))
    BY <1>12, <1>14 DEF A
  <2> QED
    BY <1>14, <2>1, <2>2, <2>3, RWEnter DEF A
<1>16. b = << >> \/ (b[1].rank = "write" /\ l2.readers > 0)
  <2>1. CASE n = Len(q)
    BY <1>2, <1>8, <1>13, <2>1
  <2>2. CASE n < Len(q)
    <3>1. 1 \in 1..Len(b) /\ b[1] = q[n + 1] /\ n + 1 \in 1..Len(q)
      BY <1>2, <1>6, <1>8, <2>2
    <3> QED
      BY <1>5, <1>6, <1>7, <1>14, <2>2, <3>1
  <2> QED
    BY <1>2, <1>6, <2>1, <2>2
<1> QED
  BY <1>3, <1>14, <1>15, <1>16 DEF RWInv, RWLeft

LEMMA RWGrantKeeps ==
  ASSUME NEW l, NEW H, NEW Q, NEW r, RWAcc(l, H, Q, r), NEW g, g = RWGrant(l)
  PROVE  RWLeft(g, H, Q, r)
<1>1. l.writer \in BOOLEAN /\ l.readers \in Nat
  BY DEF RWAcc, RWLocks
<1>2. CASE l.writer \/ l.queue = << >>
  <2>1. g = [lock |-> l, woken |-> {}]
    BY <1>2 DEF RWGrant
  <2>2. RWInv(l, H, Q, r)
    BY <1>2 DEF RWInv
  <2> QED
    BY <2>1, <2>2, RWSame
<1>3. CASE ~l.writer /\ l.queue # << >> /\ l.queue[1].rank = "write"
  <2>1. CASE l.readers = 0
    <3>1. g = [lock |-> [l EXCEPT !.writer = TRUE, !.queue = Tail(@)], woken |-> {l.queue[1].who}]
      BY <1>3, <2>1 DEF RWGrant
    <3> QED
      BY <1>3, <2>1, <3>1, RWWriterEnters
  <2>2. CASE l.readers # 0
    <3>1. g = [lock |-> l, woken |-> {}]
      BY <1>3, <2>2 DEF RWGrant
    <3>2. RWInv(l, H, Q, r)
      BY <1>1, <1>3, <2>2 DEF RWInv
    <3> QED
      BY <3>1, <3>2, RWSame
  <2> QED
    BY <2>1, <2>2
<1>4. CASE ~l.writer /\ l.queue # << >> /\ l.queue[1].rank # "write"
  <2> DEFINE n == Cardinality(Leading(l.queue))
  <2>1. g = [lock |-> [l EXCEPT !.readers = @ + n, !.queue = SubSeq(@, n + 1, Len(@))],
             woken |-> Names(SubSeq(l.queue, 1, n))]
    BY <1>4 DEF RWGrant, Leading
  <2> QED
    BY <1>4, <2>1, RWReadersEnter
<1> QED
  BY <1>1, <1>2, <1>3, <1>4

LEMMA RWParts ==
  ASSUME NEW l, NEW H, NEW Q, NEW r, RWInv(l, H, Q, r)
  PROVE  /\ RWAcc(l, H, Q, r) /\ l \in RWLocks /\ QueueOK(l.queue, Q) /\ H \subseteq Calls /\ H \cap Q = {}
         /\ Ranked(l.queue, r) /\ l.readers \in Nat /\ l.writer \in BOOLEAN /\ l.queue \in Seq(Waiters)
         /\ l.writer <=> \E c \in H : Access(c, r) = "write"
         /\ l.readers = Cardinality(ReadersOf(H, r))
         /\ \A c, d \in H : c = d \/ ~Conflict(Access(c, r), Access(d, r))
  BY DEF RWInv, RWAcc, RWLocks

\* The same holders with another queue.
LEMMA RWQueue ==
  ASSUME NEW l, NEW H, NEW Q, NEW r, RWInv(l, H, Q, r), NEW q, NEW P, QueueOK(q, P), H \cap P = {}, Ranked(q, r),
         NEW l2, l2 = [l EXCEPT !.queue = q]
  PROVE  RWAcc(l2, H, P, r)
<1>1. l2 \in RWLocks /\ l2.queue = q /\ l2.writer = l.writer /\ l2.readers = l.readers
  BY RWParts DEF RWLocks, QueueOK
<1> QED
  BY <1>1, RWParts DEF RWAcc

LEMMA RWAcquireKeeps ==
  ASSUME NEW l, NEW H, NEW Q, NEW r, RWInv(l, H, Q, r), NEW c \in Calls, c \notin H, c \notin Q,
         NEW g, g = RWAcquire(l, c, Access(c, r))
  PROVE  RWLeft(g, H, Q \cup {c}, r)
<1> DEFINE w == Waiter(c, Access(c, r))
           q == Append(l.queue, w)
           l2 == [l EXCEPT !.queue = q]
<1>1. g = RWGrant(l2)
  BY DEF RWAcquire
<1>2. w \in Waiters /\ w.who = c /\ w.rank = Access(c, r)
  BY AccessType DEF Waiter, Waiters
<1> HIDE DEF w
<1>3. /\ QueueOK(q, Q \cup {c}) /\ Len(q) = Len(l.queue) + 1 /\ q[Len(l.queue) + 1] = w
      /\ \A i \in 1..Len(l.queue) : q[i] = l.queue[i]
  <2>1. QueueOK(l.queue, Q) /\ l.queue \in Seq(Waiters)
    BY RWParts
  <2>2. QueueOK(q, Q \cup {w.who})
    BY <1>2, <2>1, QueueAppend
  <2>3. Len(q) = Len(l.queue) + 1 /\ q[Len(l.queue) + 1] = w /\ \A i \in 1..Len(l.queue) : q[i] = l.queue[i]
    BY <1>2, <2>1
  <2> QED
    BY <1>2, <2>2, <2>3
<1> HIDE DEF q
<1>4. Ranked(q, r)
  <2>1. Len(l.queue) \in Nat
    BY RWParts
  <2>2. \A i \in 1..Len(q) : i \in 1..Len(l.queue) \/ i = Len(l.queue) + 1
    BY <1>3, <2>1
  <2>3. \A i \in 1..Len(l.queue) : l.queue[i].rank = Access(l.queue[i].who, r)
    BY RWParts DEF Ranked
  <2> QED
    BY <1>2, <1>3, <2>2, <2>3 DEF Ranked
<1>5. H \cap (Q \cup {c}) = {}
  BY RWParts
<1>6. RWAcc(l2, H, Q \cup {c}, r)
  BY <1>3, <1>4, <1>5, RWQueue
<1> HIDE DEF l2
<1> QED
  BY <1>1, <1>6, RWGrantKeeps

\* The lock without one of its holders.
LEMMA RWFreed ==
  ASSUME NEW l, NEW H, NEW Q, NEW r, RWInv(l, H, Q, r), NEW c \in H,
         NEW l2, l2 = Freed(l, Access(c, r))
  PROVE  RWAcc(l2, H \ {c}, Q, r)
<1>1. c \in Calls /\ H \subseteq Calls /\ l \in RWLocks /\ l.readers \in Nat
      /\ l.readers = Cardinality(ReadersOf(H, r))
  BY RWParts
<1>2. Access(c, r) \in {"read", "write"} /\ \A d \in H : Access(d, r) \in {"read", "write"}
  BY <1>1, AccessType
<1>3. \A d \in H : d = c \/ ~Conflict(Access(c, r), Access(d, r))
  BY RWParts
<1>4. /\ QueueOK(l.queue, Q) /\ (H \ {c}) \cap Q = {} /\ H \ {c} \subseteq Calls /\ Ranked(l.queue, r)
      /\ \A d, e \in H \ {c} : d = e \/ ~Conflict(Access(d, r), Access(e, r))
  BY RWParts
<1>5. CASE Access(c, r) = "read"
  <2>1. ReadersOf(H \ {c}, r) = ReadersOf(H, r) \ {c} /\ c \in ReadersOf(H, r) /\ ReadersOf(H, r) \subseteq Calls
    BY <1>1, <1>5 DEF ReadersOf
  <2>2. Cardinality(ReadersOf(H \ {c}, r)) = l.readers - 1 /\ Cardinality(ReadersOf(H \ {c}, r)) \in Nat
    <3>1. Cardinality(ReadersOf(H \ {c}, r)) = l.readers - 1
      BY <1>1, <2>1, OneLess
    <3>2. ReadersOf(H \ {c}, r) \in SUBSET Calls
      BY <2>1
    <3> QED
      BY <3>1, <3>2, CallSets
  <2>3. l2 \in RWLocks /\ l2.queue = l.queue /\ l2.writer = l.writer /\ l2.readers = l.readers - 1
    <3>1. l2 = [l EXCEPT !.readers = @ - 1]
      BY <1>5 DEF Freed
    <3>2. l.readers - 1 \in Nat
      BY <2>2
    <3> QED
      BY <1>1, <3>1, <3>2 DEF RWLocks
  <2>4. l2.writer <=> \E d \in H \ {c} : Access(d, r) = "write"
    <3>1. l.writer <=> \E d \in H : Access(d, r) = "write"
      BY RWParts
    <3>2. (\E d \in H : Access(d, r) = "write") <=> \E d \in H \ {c} : Access(d, r) = "write"
      BY <1>5
    <3> QED
      BY <2>3, <3>1, <3>2
  <2> QED
    BY <1>4, <2>2, <2>3, <2>4 DEF RWAcc
<1>6. CASE Access(c, r) = "write"
  <2>1. H \ {c} = {}
    BY <1>3, <1>6 DEF Conflict
  <2>2. ReadersOf(H, r) = {} /\ ReadersOf(H \ {c}, r) = {}
    BY <1>6, <2>1 DEF ReadersOf
  <2>3. l2 \in RWLocks /\ l2.queue = l.queue /\ l2.writer = FALSE /\ l2.readers = l.readers
    <3>1. l2 = [l EXCEPT !.writer = FALSE]
      BY <1>6 DEF Freed
    <3> QED
      BY <1>1, <3>1 DEF RWLocks
  <2>4. l2.readers = Cardinality(ReadersOf(H \ {c}, r))
    BY <1>1, <2>2, <2>3
  <2> QED
    BY <1>4, <2>1, <2>3, <2>4 DEF RWAcc
<1> QED
  BY <1>2, <1>5, <1>6

LEMMA RWReleaseKeeps ==
  ASSUME NEW l, NEW H, NEW Q, NEW r, RWInv(l, H, Q, r), NEW c \in H,
         NEW g, g = RWRelease(l, Access(c, r))
  PROVE  RWLeft(g, H \ {c}, Q, r)
<1> DEFINE l2 == Freed(l, Access(c, r))
<1>1. g = RWGrant(l2)
  BY DEF RWRelease
<1>2. RWAcc(l2, H \ {c}, Q, r)
  BY RWFreed
<1> HIDE DEF l2
<1> QED
  BY <1>1, <1>2, RWGrantKeeps

LEMMA RWGiveUpKeeps ==
  ASSUME NEW l, NEW H, NEW Q, NEW r, RWInv(l, H, Q, r), NEW c \in Calls,
         NEW granted \in BOOLEAN, IF granted THEN c \in H ELSE c \in Q,
         NEW g, g = RWGiveUp(l, c, Access(c, r), granted)
  PROVE  RWLeft(g, H \ {c}, Q \ {c}, r)
<1> DEFINE q == Without(l.queue, c)
           rest == [l EXCEPT !.queue = q]
<1>1. CASE granted
  <2>1. c \in H /\ c \notin Q /\ Q \ {c} = Q
    BY <1>1, RWParts
  <2>2. q = l.queue
    <3>1. Names(l.queue) = Q
      BY RWParts DEF QueueOK
    <3> QED
      BY <2>1, <3>1 DEF Without
  <2>3. rest = l
    BY <2>2, RWParts DEF RWLocks
  <2>4. g = RWRelease(l, Access(c, r))
    BY <1>1, <2>3 DEF RWGiveUp, RWRelease
  <2> QED
    BY <2>1, <2>4, RWReleaseKeeps
<1>2. CASE ~granted
  <2>1. c \in Q /\ H \ {c} = H
    BY <1>2, RWParts
  <2>2. g = RWGrant(rest)
    BY <1>2 DEF RWGiveUp
  <2>3. QueueOK(q, Q \ {c}) /\ PartOf(q, l.queue)
    BY <2>1, RWParts, QueueWithout
  <2> HIDE DEF q
  <2>4. Ranked(q, r)
    <3>1. \A i \in 1..Len(l.queue) : l.queue[i].rank = Access(l.queue[i].who, r)
      BY RWParts DEF Ranked
    <3> QED
      BY <2>3, <3>1 DEF Ranked, PartOf
  <2>5. H \cap (Q \ {c}) = {}
    BY RWParts
  <2>6. RWAcc(rest, H, Q \ {c}, r)
    BY <2>3, <2>4, <2>5, RWQueue
  <2> HIDE DEF rest
  <2> QED
    BY <2>1, <2>2, <2>6, RWGrantKeeps
<1> QED
  BY <1>1, <1>2

-----------------------------------------------------------------------------
(* The order of a path *)

LEMMA SetInduction ==
  ASSUME NEW T \in SUBSET Nat, 0 \in T, \A n \in T : n + 1 \in T
  PROVE  T = Nat
<1> SUFFICES ASSUME Nat \ T # {} PROVE FALSE
  OBVIOUS
<1>1. PICK m \in Nat \ T : \A y \in Nat \ T : m <= y
  BY NatMin
<1>2. m \in Nat /\ m # 0 /\ m - 1 \in Nat /\ (m - 1) + 1 = m /\ ~(m <= m - 1)
  BY <1>1
<1>3. m - 1 \in T
  BY <1>1, <1>2
<1> QED
  BY <1>1, <1>2, <1>3

Things == Keys \cup {"barrier", "table", "tenant", "parallel"}
Top == Len(KeyOrder)
Place(k) == CHOOSE n \in 1..Top : KeyOrder[n] = k

\* Every call takes what it needs by growing rank.
Rank(r) ==
    CASE r = "barrier" -> 0
      [] r = "table" -> Top + 1
      [] r = "tenant" -> Top + 2
      [] r = "parallel" -> Top + 3
      [] OTHER -> Place(r)

LEMMA Orders ==
  /\ Top \in Nat
  /\ \A n \in 1..Top : KeyOrder[n] \in Keys /\ Place(KeyOrder[n]) = n
  /\ \A k \in Keys : Place(k) \in 1..Top /\ Rank(k) = Place(k)
  /\ Rank("barrier") = 0 /\ Rank("table") = Top + 1 /\ Rank("tenant") = Top + 2 /\ Rank("parallel") = Top + 3
  /\ \A r \in Things : Rank(r) \in Nat
<1>1. Top \in Nat /\ DOMAIN KeyOrder = 1..Top
  BY KeyAssumption DEF Top
<1>2. \A n \in 1..Top : KeyOrder[n] \in Keys
  BY DEF Keys, Top
<1>3. ASSUME NEW n \in 1..Top PROVE Place(KeyOrder[n]) = n
  <2>1. Place(KeyOrder[n]) \in 1..Top /\ KeyOrder[Place(KeyOrder[n])] = KeyOrder[n]
    BY DEF Place
  <2> QED
    BY <1>1, <2>1, KeyAssumption DEF IsInjective
<1>4. \A k \in Keys : Place(k) \in 1..Top
  BY DEF Place, Keys, Top
<1>5. \A k \in Keys : k \notin {"barrier", "table", "tenant", "parallel"}
  BY KeyAssumption
<1>6. \A k \in Keys : Rank(k) = Place(k)
  BY <1>5 DEF Rank
<1>7. Rank("barrier") = 0 /\ Rank("table") = Top + 1 /\ Rank("tenant") = Top + 2 /\ Rank("parallel") = Top + 3
  BY DEF Rank
<1>8. \A r \in Things : Rank(r) \in Nat
  BY <1>1, <1>4, <1>6, <1>7 DEF Things
<1> QED
  BY <1>1, <1>2, <1>3, <1>4, <1>6, <1>7, <1>8

\* s grows in rank, from a to b at most.
Climbs(s, a, b) ==
    /\ s \in Seq(Things)
    /\ \A i \in 1..Len(s) : a <= Rank(s[i]) /\ Rank(s[i]) <= b
    /\ \A i, j \in 1..Len(s) : i < j => Rank(s[i]) < Rank(s[j])

LEMMA ClimbsEmpty ==
  ASSUME NEW a, NEW b
  PROVE  Climbs(<< >>, a, b)
<1>1. << >> \in Seq(Things) /\ Len(<< >>) = 0 /\ 1..0 = {}
  OBVIOUS
<1> QED
  BY <1>1 DEF Climbs

LEMMA ClimbsOne ==
  ASSUME NEW r \in Things
  PROVE  Climbs(<<r>>, Rank(r), Rank(r))
<1>1. <<r>> \in Seq(Things) /\ Len(<<r>>) = 1 /\ <<r>>[1] = r /\ 1..1 = {1}
  OBVIOUS
<1>2. Rank(r) \in Nat /\ Rank(r) <= Rank(r)
  BY Orders
<1> DEFINE s == <<r>>
<1>3. s \in Seq(Things) /\ Len(s) = 1 /\ s[1] = r
  BY <1>1
<1> HIDE DEF s
<1>4. Climbs(s, Rank(r), Rank(r))
  BY <1>1, <1>2, <1>3 DEF Climbs
<1> QED
  BY <1>4 DEF s

LEMMA ClimbsOn ==
  ASSUME NEW s, NEW t, NEW a \in Nat, NEW b \in Nat, NEW c \in Nat, NEW d \in Nat,
         Climbs(s, a, b), Climbs(t, c, d), b < c, a <= d, b <= d, a <= c
  PROVE  Climbs(s \o t, a, d)
<1> DEFINE m == Len(s)
           n == Len(t)
           u == s \o t
<1>1. s \in Seq(Things) /\ t \in Seq(Things)
  BY DEF Climbs
<1>2. m \in Nat /\ n \in Nat /\ u \in Seq(Things) /\ Len(u) = m + n
      /\ (\A i \in 1..m : u[i] = s[i]) /\ \A i \in (m + 1)..(m + n) : u[i] = t[i - m]
  BY <1>1
<1>3. /\ \A i \in 1..m : s[i] \in Things /\ Rank(s[i]) \in Nat
      /\ \A i \in 1..n : t[i] \in Things /\ Rank(t[i]) \in Nat
  BY <1>1, Orders
<1>4. /\ \A i \in 1..m : a <= Rank(s[i]) /\ Rank(s[i]) <= b
      /\ \A i, j \in 1..m : i < j => Rank(s[i]) < Rank(s[j])
      /\ \A i \in 1..n : c <= Rank(t[i]) /\ Rank(t[i]) <= d
      /\ \A i, j \in 1..n : i < j => Rank(t[i]) < Rank(t[j])
  BY DEF Climbs
<1> HIDE DEF m, n, u
<1>5. ASSUME NEW i \in 1..m + n PROVE
        \/ i \in 1..m /\ Rank(u[i]) = Rank(s[i])
        \/ i - m \in 1..n /\ i > m /\ Rank(u[i]) = Rank(t[i - m])
  <2>1. CASE i <= m
    BY <1>2, <2>1
  <2>2. CASE i > m
    <3>1. i \in (m + 1)..(m + n) /\ i - m \in 1..n
      BY <1>2, <2>2
    <3> QED
      BY <1>2, <2>2, <3>1
  <2> QED
    BY <1>2, <2>1, <2>2
<1>6. ASSUME NEW i \in 1..m + n PROVE a <= Rank(u[i]) /\ Rank(u[i]) <= d
  <2>1. CASE i \in 1..m /\ Rank(u[i]) = Rank(s[i])
    <3>1. a <= Rank(s[i]) /\ Rank(s[i]) <= b /\ Rank(s[i]) \in Nat
      BY <1>3, <1>4, <2>1
    <3> QED
      BY <2>1, <3>1
  <2>2. CASE i - m \in 1..n /\ Rank(u[i]) = Rank(t[i - m])
    <3>1. c <= Rank(t[i - m]) /\ Rank(t[i - m]) <= d /\ Rank(t[i - m]) \in Nat
      BY <1>3, <1>4, <2>2
    <3> QED
      BY <2>2, <3>1
  <2> QED
    BY <1>5, <2>1, <2>2
<1>7. ASSUME NEW i \in 1..m + n, NEW j \in 1..m + n, i < j PROVE Rank(u[i]) < Rank(u[j])
  <2>1. CASE i \in 1..m /\ Rank(u[i]) = Rank(s[i]) /\ j \in 1..m /\ Rank(u[j]) = Rank(s[j])
    BY <1>4, <1>7, <2>1
  <2>2. CASE i \in 1..m /\ Rank(u[i]) = Rank(s[i]) /\ j - m \in 1..n /\ Rank(u[j]) = Rank(t[j - m])
    <3>1. Rank(s[i]) <= b /\ Rank(s[i]) \in Nat /\ c <= Rank(t[j - m]) /\ Rank(t[j - m]) \in Nat
      BY <1>3, <1>4, <2>2
    <3> QED
      BY <2>2, <3>1
  <2>3. CASE /\ i - m \in 1..n /\ i > m /\ Rank(u[i]) = Rank(t[i - m])
             /\ j - m \in 1..n /\ Rank(u[j]) = Rank(t[j - m])
    <3>1. i - m < j - m
      BY <1>2, <1>7
    <3> QED
      BY <1>4, <2>3, <3>1
  <2>4. ~(i > m /\ j \in 1..m)
    BY <1>2, <1>7
  <2> QED
    BY <1>5, <2>1, <2>2, <2>3, <2>4
<1> QED
  BY <1>2, <1>6, <1>7 DEF Climbs, u

\* One step of SortedKeys for the keys S, and its run h along the order.
Pick(S, x, k) == IF k \in S THEN Append(x, k) ELSE x
Picked(S, m, h) ==
    h = [n \in 0..m |-> IF n = 0 THEN << >> ELSE Pick(S, h[n - 1], KeyOrder[n])]

LEMMA PickedExists ==
  ASSUME NEW S, NEW m \in Nat
  PROVE  \E h : Picked(S, m, h)
<1> DEFINE T == {k \in Nat : \E h : Picked(S, k, h)}
<1>1. 0 \in T
  <2> DEFINE h == [n \in 0..0 |-> << >>]
  <2>1. Picked(S, 0, h)
    BY DEF Picked
  <2> HIDE DEF h
  <2> QED
    BY <2>1
<1>2. ASSUME NEW k \in T PROVE k + 1 \in T
  <2>1. PICK h : Picked(S, k, h)
    OBVIOUS
  <2> DEFINE g == [n \in 0..(k + 1) |->
                     IF n = k + 1 THEN Pick(S, h[k], KeyOrder[k + 1]) ELSE h[n]]
  <2>2. ASSUME NEW n \in 0..(k + 1)
        PROVE  g[n] = IF n = 0 THEN << >> ELSE Pick(S, g[n - 1], KeyOrder[n])
    <3>1. CASE n = k + 1
      BY <3>1
    <3>2. CASE n # k + 1
      BY <2>1, <3>2 DEF Picked
    <3> QED
      BY <3>1, <3>2
  <2>3. Picked(S, k + 1, g)
    BY <2>2 DEF Picked
  <2>4. k + 1 \in Nat
    OBVIOUS
  <2> HIDE DEF g
  <2>5. \E f : Picked(S, k + 1, f)
    BY <2>3
  <2> QED
    BY <2>4, <2>5, Zenon
<1> HIDE DEF T
<1>3. T = Nat
  <2>1. T \in SUBSET Nat
    BY DEF T
  <2> QED
    BY <1>1, <1>2, <2>1, SetInduction
<1> QED
  BY <1>3 DEF T

LEMMA AppendIs ==
  ASSUME NEW s \in Seq(Things), NEW k \in Things
  PROVE  Append(s, k) = s \o <<k>>
  OBVIOUS

LEMMA ClimbsWider ==
  ASSUME NEW s, NEW a \in Nat, NEW b \in Nat, NEW d \in Nat, b <= d, Climbs(s, a, b)
  PROVE  Climbs(s, a, d)
<1>1. s \in Seq(Things) /\ \A i \in 1..Len(s) : s[i] \in Things
  BY DEF Climbs
<1>2. \A i \in 1..Len(s) : Rank(s[i]) \in Nat
  BY <1>1, Orders
<1>3. \A i \in 1..Len(s) : a <= Rank(s[i]) /\ Rank(s[i]) <= b
  BY DEF Climbs
<1>4. \A i \in 1..Len(s) : Rank(s[i]) <= d
  BY <1>2, <1>3
<1> QED
  BY <1>3, <1>4 DEF Climbs

LEMMA KeysClimb ==
  ASSUME NEW c \in Calls
  PROVE  Climbs(SortedKeys(c), 1, Top)
<1> DEFINE S == ToSet(KeysOf[c])
<1>1. Top \in Nat /\ \A n \in 1..Top : KeyOrder[n] \in Things /\ Rank(KeyOrder[n]) = n
  BY Orders DEF Things
<1>2. \E h : Picked(S, Top, h) /\ SortedKeys(c) = h[Top]
  <2>1. \E f : Picked(S, Top, f)
    BY <1>1, PickedExists
  <2> DEFINE u == CHOOSE f : Picked(S, Top, f)
  <2>3. Picked(S, Top, u)
    BY <2>1
  <2>4. SortedKeys(c) = u[Top]
    BY <2>1 DEF SortedKeys, Picked, Pick, Top
  <2> HIDE DEF u
  <2> QED
    BY <2>3, <2>4
<1>3. PICK h : Picked(S, Top, h) /\ SortedKeys(c) = h[Top]
  BY <1>2
<1>4. /\ h[0] = << >>
      /\ \A n \in 1..Top : h[n] = IF KeyOrder[n] \in S THEN Append(h[n - 1], KeyOrder[n]) ELSE h[n - 1]
  <2>1. h = [n \in 0..Top |-> IF n = 0 THEN << >> ELSE Pick(S, h[n - 1], KeyOrder[n])]
    BY <1>3 DEF Picked
  <2>2. ASSUME NEW n \in 0..Top PROVE h[n] = IF n = 0 THEN << >> ELSE Pick(S, h[n - 1], KeyOrder[n])
    BY <2>1, Zenon
  <2>3. 0 \in 0..Top /\ \A n \in 1..Top : n \in 0..Top /\ n # 0
    BY <1>1
  <2> QED
    BY <2>2, <2>3 DEF Pick
<1> HIDE DEF S
<1> DEFINE T == {n \in Nat : n <= Top => Climbs(h[n], 1, n)}
<1>5. 0 \in T
  BY <1>4, ClimbsEmpty
<1>6. ASSUME NEW n \in T PROVE n + 1 \in T
  <2> SUFFICES ASSUME n + 1 <= Top PROVE Climbs(h[n + 1], 1, n + 1)
    OBVIOUS
  <2> DEFINE k == KeyOrder[n + 1]
  <2>1. n \in Nat /\ n + 1 \in 1..Top /\ (n + 1) - 1 = n /\ n <= Top
    BY <1>1
  <2>2. Climbs(h[n], 1, n) /\ k \in Things /\ Rank(k) = n + 1
    BY <1>1, <2>1
  <2>3. h[n + 1] = IF k \in S THEN Append(h[n], k) ELSE h[n]
    BY <1>4, <2>1
  <2> HIDE DEF T, k
  <2>4. CASE k \in S
    <3>1. Append(h[n], k) = h[n] \o <<k>>
      BY <2>2, AppendIs DEF Climbs
    <3>2. Climbs(<<k>>, n + 1, n + 1)
      BY <2>2, ClimbsOne
    <3>3. Climbs(h[n] \o <<k>>, 1, n + 1)
      BY <2>1, <2>2, <3>2, ClimbsOn
    <3> QED
      BY <2>3, <2>4, <3>1, <3>3
  <2>5. CASE k \notin S
    BY <2>1, <2>2, <2>3, <2>5, ClimbsWider
  <2> QED
    BY <2>4, <2>5
<1> HIDE DEF T
<1>7. T = Nat
  <2>1. T \in SUBSET Nat
    BY DEF T
  <2> QED
    BY <1>5, <1>6, <2>1, SetInduction
<1>8. Climbs(h[Top], 1, Top)
  BY <1>1, <1>7 DEF T
<1> QED
  BY <1>3, <1>8

\* What a call holds or waits for at the position k of its path.
Stops == Keys \cup {"barrier", "tenant", "parallel"}

LEMMA PathClimbs ==
  ASSUME NEW c \in Calls
  PROVE  /\ Path(c) \in Seq(Things) /\ Len(Path(c)) \in Nat /\ Len(Path(c)) >= 1
         /\ \A i, j \in 1..Len(Path(c)) : i < j => Rank(Path(c)[i]) < Rank(Path(c)[j])
         /\ \A i \in 1..Len(Path(c)) : Path(c)[i] \in Things /\ Rank(Path(c)[i]) \in Nat
<1> DEFINE T == IF KeysOf[c] = << >> THEN << >> ELSE <<"table">>
           P == <<"barrier">> \o SortedKeys(c) \o T \o <<"tenant", "parallel">>
<1>1. Top \in Nat
  BY Orders
<1>2. Climbs(<<"barrier">>, 0, 0)
  BY ClimbsOne, Orders DEF Things
<1>3. Climbs(<<"barrier">> \o SortedKeys(c), 0, Top)
  <2>1. Climbs(SortedKeys(c), 1, Top)
    BY KeysClimb
  <2>2. CASE Top = 0
    <3>1. SortedKeys(c) = << >>
      <4>1. SortedKeys(c) \in Seq(Things) /\ \A i \in 1..Len(SortedKeys(c)) : 1 <= Rank(SortedKeys(c)[i]) /\ Rank(SortedKeys(c)[i]) <= 0
        BY <2>1, <2>2 DEF Climbs
      <4>2. \A i \in 1..Len(SortedKeys(c)) : Rank(SortedKeys(c)[i]) \in Nat
        BY <4>1, Orders
      <4> QED
        BY <4>1, <4>2
    <3>2. <<"barrier">> \o << >> = <<"barrier">>
      OBVIOUS
    <3> QED
      BY <1>2, <2>2, <3>1, <3>2
  <2>3. CASE Top > 0
    BY <1>1, <1>2, <2>1, <2>3, ClimbsOn
  <2> QED
    BY <1>1, <2>2, <2>3
<1>4. Climbs(T, Top + 1, Top + 1)
  <2>1. Climbs(<<"table">>, Top + 1, Top + 1)
    BY ClimbsOne, Orders DEF Things
  <2> QED
    BY <2>1, ClimbsEmpty
<1> HIDE DEF T
<1>5. Climbs(<<"barrier">> \o SortedKeys(c) \o T, 0, Top + 1)
  BY <1>1, <1>3, <1>4, ClimbsOn
<1>6. Climbs(<<"tenant", "parallel">>, Top + 2, Top + 3)
  <2> DEFINE s == <<"tenant", "parallel">>
  <2>1. s \in Seq(Things) /\ Len(s) = 2 /\ s[1] = "tenant" /\ s[2] = "parallel" /\ 1..2 = {1, 2}
    BY DEF Things
  <2>2. Rank("tenant") = Top + 2 /\ Rank("parallel") = Top + 3
    BY Orders
  <2> HIDE DEF s
  <2>3. Climbs(s, Top + 2, Top + 3)
    BY <1>1, <2>1, <2>2 DEF Climbs
  <2> QED
    BY <2>3 DEF s
<1>7. Climbs(P, 0, Top + 3)
  BY <1>1, <1>5, <1>6, ClimbsOn
<1>8. Path(c) = P
  BY DEF Path, T
<1>9. Path(c) \in Seq(Things) /\ \A i, j \in 1..Len(Path(c)) : i < j => Rank(Path(c)[i]) < Rank(Path(c)[j])
  BY <1>7, <1>8 DEF Climbs
<1>10. Len(Path(c)) >= 1
  <2>1. (<<"barrier">> \o SortedKeys(c) \o T) \in Seq(Things)
    BY <1>5 DEF Climbs
  <2> QED
    BY <1>8, <2>1
<1>11. Len(Path(c)) \in Nat /\ \A i \in 1..Len(Path(c)) : Path(c)[i] \in Things
  BY <1>9
<1>12. \A i \in 1..Len(Path(c)) : Rank(Path(c)[i]) \in Nat
  BY <1>11, Orders
<1> QED
  BY <1>9, <1>10, <1>11, <1>12

\* No entry of a path comes twice.
LEMMA PathOnce ==
  ASSUME NEW c \in Calls, NEW i \in 1..Len(Path(c)), NEW j \in 1..Len(Path(c)), Path(c)[i] = Path(c)[j]
  PROVE  i = j
<1>1. Len(Path(c)) \in Nat /\ Rank(Path(c)[i]) \in Nat
  BY PathClimbs
<1>2. ~(i < j) /\ ~(j < i)
  BY <1>1, PathClimbs
<1> QED
  BY <1>1, <1>2

-----------------------------------------------------------------------------
(* Who has a lock and who wants it *)

SemKeys == Processes \X {"tenant", "parallel"}
RWKeys == Processes \X (Keys \cup {"barrier"})
AllLocks == SemKeys \cup RWKeys
LimitOf(x) == IF x[2] = "tenant" THEN TenantLimit ELSE ParallelLimit

\* A call c with the record k has r, or is queued for it.
HasAt(k, c, r) ==
    \/ \E i \in 1..k.at : Path(c)[i] = r
    \/ k.pc = "waiting" /\ k.granted /\ Path(c)[k.at + 1] = r
WantsAt(k, c, r) == k.pc = "waiting" /\ ~k.granted /\ Path(c)[k.at + 1] = r

HasOf(f, x) == {c \in Calls : ProcessOf[c] = x[1] /\ HasAt(f[c], c, x[2])}
WantsOf(f, x) == {c \in Calls : ProcessOf[c] = x[1] /\ WantsAt(f[c], c, x[2])}

\* Every lock stands for those who have it and those who want it.
LocksOK(R, S, f) ==
    /\ DOMAIN R = RWKeys /\ DOMAIN S = SemKeys
    /\ \A x \in SemKeys : SemInv(S[x], HasOf(f, x), WantsOf(f, x), LimitOf(x))
    /\ \A x \in RWKeys : RWInv(R[x], HasOf(f, x), WantsOf(f, x), x[2])

LEMMA LockNames ==
  /\ \A x \in AllLocks : x = <<x[1], x[2]>> /\ x[2] \in Stops /\ x[1] \in Processes
  /\ \A c \in Calls, r \in Stops : /\ <<ProcessOf[c], r>> \in AllLocks
                                   /\ IsSem(r) => <<ProcessOf[c], r>> \in SemKeys
                                   /\ ~IsSem(r) => <<ProcessOf[c], r>> \in RWKeys
  /\ SemKeys \cap RWKeys = {}
<1>1. \A c \in Calls : ProcessOf[c] \in Processes
  BY DEF Processes
<1>2. Keys \cap {"barrier", "table", "tenant", "parallel"} = {}
  BY KeyAssumption
<1>3. \A x \in AllLocks : x = <<x[1], x[2]>> /\ x[2] \in Stops /\ x[1] \in Processes
  BY DEF AllLocks, SemKeys, RWKeys, Stops
<1>4. ASSUME NEW c \in Calls, NEW r \in Stops
      PROVE  /\ IsSem(r) => <<ProcessOf[c], r>> \in SemKeys
             /\ ~IsSem(r) => <<ProcessOf[c], r>> \in RWKeys
  BY <1>1 DEF SemKeys, RWKeys, Stops, IsSem
<1>5. ASSUME NEW x \in SemKeys, x \in RWKeys PROVE FALSE
  <2>1. x[2] \in {"tenant", "parallel"} /\ x[2] \in Keys \cup {"barrier"}
    BY <1>5 DEF SemKeys, RWKeys
  <2> QED
    BY <1>2, <2>1
<1> QED
  BY <1>3, <1>4, <1>5 DEF AllLocks

\* A call is queued for one lock at a time.
LEMMA WantsOne ==
  ASSUME NEW f, NEW x \in AllLocks, NEW y \in AllLocks, NEW c \in WantsOf(f, x), c \in WantsOf(f, y)
  PROVE  x = y
<1>1. ProcessOf[c] = x[1] /\ ProcessOf[c] = y[1] /\ Path(c)[f[c].at + 1] = x[2] /\ Path(c)[f[c].at + 1] = y[2]
  BY DEF WantsOf, WantsAt
<1> QED
  BY <1>1, LockNames

\* Those who are woken have what they were queued for.
LEMMA WakeMoves ==
  ASSUME NEW f \in [Calls -> CallStates], NEW W, NEW w,
         \A y \in AllLocks : w[y] \subseteq WantsOf(f, y) /\ w[y] \subseteq W,
         \A c \in W : \E y \in AllLocks : c \in w[y],
         NEW x \in AllLocks
  PROVE  /\ HasOf(Wake(f, W), x) = HasOf(f, x) \cup w[x]
         /\ WantsOf(Wake(f, W), x) = WantsOf(f, x) \ w[x]
<1> DEFINE g == Wake(f, W)
<1>1. ASSUME NEW c \in Calls
      PROVE  /\ g[c].pc = f[c].pc /\ g[c].at = f[c].at
             /\ c \notin W => g[c].granted = f[c].granted
             /\ c \in W => g[c].granted = TRUE
  <2>1. g[c] = IF c \in W THEN [f[c] EXCEPT !.granted = TRUE] ELSE f[c]
    BY DEF Wake
  <2>2. f[c] \in CallStates
    OBVIOUS
  <2> QED
    BY <2>1, <2>2 DEF CallStates
<1> HIDE DEF g
<1>2. ASSUME NEW c \in W PROVE c \in Calls /\ f[c].pc = "waiting" /\ ~f[c].granted
  <2>1. PICK y \in AllLocks : c \in w[y]
    OBVIOUS
  <2> QED
    BY <2>1 DEF WantsOf, WantsAt
<1>3. ASSUME NEW c \in W PROVE c \in WantsOf(f, x) <=> c \in w[x]
  <2>1. PICK y \in AllLocks : c \in w[y]
    OBVIOUS
  <2>2. c \in WantsOf(f, y)
    BY <2>1
  <2>3. CASE c \in WantsOf(f, x)
    BY <2>1, <2>2, <2>3, WantsOne
  <2> QED
    BY <2>3
<1>4. ASSUME NEW c \in Calls, c \notin W PROVE
        (c \in HasOf(g, x) <=> c \in HasOf(f, x)) /\ (c \in WantsOf(g, x) <=> c \in WantsOf(f, x)) /\ c \notin w[x]
  <2>1. g[c].pc = f[c].pc /\ g[c].at = f[c].at /\ g[c].granted = f[c].granted
    BY <1>1, <1>4
  <2>2. HasAt(g[c], c, x[2]) <=> HasAt(f[c], c, x[2])
    BY <2>1 DEF HasAt
  <2>3. WantsAt(g[c], c, x[2]) <=> WantsAt(f[c], c, x[2])
    BY <2>1 DEF WantsAt
  <2> QED
    BY <1>4, <2>2, <2>3 DEF HasOf, WantsOf
<1>5. ASSUME NEW c \in W PROVE
        (c \in HasOf(g, x) <=> c \in HasOf(f, x) \/ c \in w[x]) /\ c \notin WantsOf(g, x)
  <2>1. c \in Calls /\ g[c].pc = "waiting" /\ g[c].at = f[c].at /\ g[c].granted /\ f[c].pc = "waiting" /\ ~f[c].granted
    BY <1>1, <1>2
  <2>2. HasAt(g[c], c, x[2]) <=> HasAt(f[c], c, x[2]) \/ WantsAt(f[c], c, x[2])
    BY <2>1 DEF HasAt, WantsAt
  <2>3. ~WantsAt(g[c], c, x[2])
    BY <2>1 DEF WantsAt
  <2>4. c \in HasOf(g, x) <=> c \in HasOf(f, x) \/ c \in WantsOf(f, x)
    BY <2>1, <2>2 DEF HasOf, WantsOf
  <2> QED
    BY <1>3, <2>3, <2>4 DEF WantsOf
<1>6. HasOf(g, x) \subseteq Calls /\ HasOf(f, x) \subseteq Calls /\ WantsOf(g, x) \subseteq Calls /\ WantsOf(f, x) \subseteq Calls
  BY DEF HasOf, WantsOf
<1>7. \A c \in Calls : c \in WantsOf(g, x) <=> c \in WantsOf(f, x) /\ c \notin w[x]
  BY <1>3, <1>4, <1>5
<1>8. \A c \in Calls : c \in HasOf(g, x) <=> c \in HasOf(f, x) \/ c \in w[x]
  BY <1>4, <1>5
<1>9. w[x] \subseteq Calls
  BY <1>6
<1> QED
  BY <1>6, <1>7, <1>8, <1>9 DEF g

\* The locks after a step: next is what the calls do, got[x] what became of a lock.
LEMMA LocksKeep ==
  ASSUME NEW next \in [Calls -> CallStates], NEW W, NEW w, NEW R, NEW S,
         \A y \in AllLocks : w[y] \subseteq WantsOf(next, y) /\ w[y] \subseteq W,
         \A c \in W : \E y \in AllLocks : c \in w[y],
         DOMAIN R = RWKeys, DOMAIN S = SemKeys,
         \A x \in SemKeys : SemInv(S[x], HasOf(next, x) \cup w[x], WantsOf(next, x) \ w[x], LimitOf(x)),
         \A x \in RWKeys : RWInv(R[x], HasOf(next, x) \cup w[x], WantsOf(next, x) \ w[x], x[2])
  PROVE  LocksOK(R, S, Wake(next, W))
<1>1. \A x \in AllLocks : /\ HasOf(Wake(next, W), x) = HasOf(next, x) \cup w[x]
                          /\ WantsOf(Wake(next, W), x) = WantsOf(next, x) \ w[x]
  BY WakeMoves
<1>2. \A x \in SemKeys : SemInv(S[x], HasOf(Wake(next, W), x), WantsOf(Wake(next, W), x), LimitOf(x))
  BY <1>1 DEF AllLocks
<1>3. \A x \in RWKeys : RWInv(R[x], HasOf(Wake(next, W), x), WantsOf(Wake(next, W), x), x[2])
  BY <1>1 DEF AllLocks
<1> QED
  BY <1>2, <1>3 DEF LocksOK

\* One semaphore, or one read-write lock, changes.
LEMMA SemTouched ==
  ASSUME NEW R, NEW S, NEW f, LocksOK(R, S, f), NEW next \in [Calls -> CallStates], NEW x \in SemKeys,
         \A y \in AllLocks \ {x} : HasOf(next, y) = HasOf(f, y) /\ WantsOf(next, y) = WantsOf(f, y),
         NEW got, SemLeft(got, HasOf(next, x), WantsOf(next, x), LimitOf(x))
  PROVE  LocksOK(R, [S EXCEPT ![x] = got.lock], Wake(next, got.woken))
<1> DEFINE W == got.woken
           lock == got.lock
           w == [y \in AllLocks |-> IF y = x THEN W ELSE {}]
           T == [S EXCEPT ![x] = lock]
<1>0. W \subseteq WantsOf(next, x) /\ SemInv(lock, HasOf(next, x) \cup W, WantsOf(next, x) \ W, LimitOf(x))
  BY DEF SemLeft
<1> HIDE DEF W, lock
<1>1. x \in AllLocks /\ w[x] = W /\ \A y \in AllLocks : y # x => w[y] = {}
  BY DEF AllLocks
<1>2. \A y \in AllLocks : w[y] \subseteq WantsOf(next, y) /\ w[y] \subseteq W
  BY <1>0, <1>1
<1>3. \A c \in W : \E y \in AllLocks : c \in w[y]
  BY <1>1
<1>4. DOMAIN R = RWKeys /\ DOMAIN T = SemKeys /\ T[x] = lock /\ \A y \in SemKeys : y # x => T[y] = S[y]
  BY DEF LocksOK
<1> HIDE DEF w, T
<1>5. \A y \in AllLocks : y # x => HasOf(next, y) \cup w[y] = HasOf(f, y) /\ WantsOf(next, y) \ w[y] = WantsOf(f, y)
  BY <1>1
<1>6. ASSUME NEW y \in SemKeys PROVE SemInv(T[y], HasOf(next, y) \cup w[y], WantsOf(next, y) \ w[y], LimitOf(y))
  <2>1. CASE y = x
    BY <1>0, <1>1, <1>4, <2>1
  <2>2. CASE y # x
    <3>1. SemInv(S[y], HasOf(f, y), WantsOf(f, y), LimitOf(y)) /\ y \in AllLocks
      BY DEF LocksOK, AllLocks
    <3> QED
      BY <1>4, <1>5, <2>2, <3>1
  <2> QED
    BY <2>1, <2>2
<1>7. ASSUME NEW y \in RWKeys PROVE RWInv(R[y], HasOf(next, y) \cup w[y], WantsOf(next, y) \ w[y], y[2])
  <2>1. RWInv(R[y], HasOf(f, y), WantsOf(f, y), y[2]) /\ y \in AllLocks
    BY DEF LocksOK, AllLocks
  <2>2. y # x
    BY LockNames
  <2> QED
    BY <1>5, <2>1, <2>2
<1> QED
  BY <1>2, <1>3, <1>4, <1>6, <1>7, LocksKeep DEF T, W, lock

LEMMA RWTouched ==
  ASSUME NEW R, NEW S, NEW f, LocksOK(R, S, f), NEW next \in [Calls -> CallStates], NEW x \in RWKeys,
         \A y \in AllLocks \ {x} : HasOf(next, y) = HasOf(f, y) /\ WantsOf(next, y) = WantsOf(f, y),
         NEW got, RWLeft(got, HasOf(next, x), WantsOf(next, x), x[2])
  PROVE  LocksOK([R EXCEPT ![x] = got.lock], S, Wake(next, got.woken))
<1> DEFINE W == got.woken
           lock == got.lock
           w == [y \in AllLocks |-> IF y = x THEN W ELSE {}]
           T == [R EXCEPT ![x] = lock]
<1>0. W \subseteq WantsOf(next, x) /\ RWInv(lock, HasOf(next, x) \cup W, WantsOf(next, x) \ W, x[2])
  BY DEF RWLeft
<1> HIDE DEF W, lock
<1>1. x \in AllLocks /\ w[x] = W /\ \A y \in AllLocks : y # x => w[y] = {}
  BY DEF AllLocks
<1>2. \A y \in AllLocks : w[y] \subseteq WantsOf(next, y) /\ w[y] \subseteq W
  BY <1>0, <1>1
<1>3. \A c \in W : \E y \in AllLocks : c \in w[y]
  BY <1>1
<1>4. DOMAIN S = SemKeys /\ DOMAIN T = RWKeys /\ T[x] = lock /\ \A y \in RWKeys : y # x => T[y] = R[y]
  BY DEF LocksOK
<1> HIDE DEF w, T
<1>5. \A y \in AllLocks : y # x => HasOf(next, y) \cup w[y] = HasOf(f, y) /\ WantsOf(next, y) \ w[y] = WantsOf(f, y)
  BY <1>1
<1>6. ASSUME NEW y \in RWKeys PROVE RWInv(T[y], HasOf(next, y) \cup w[y], WantsOf(next, y) \ w[y], y[2])
  <2>1. CASE y = x
    BY <1>0, <1>1, <1>4, <2>1
  <2>2. CASE y # x
    <3>1. RWInv(R[y], HasOf(f, y), WantsOf(f, y), y[2]) /\ y \in AllLocks
      BY DEF LocksOK, AllLocks
    <3> QED
      BY <1>4, <1>5, <2>2, <3>1
  <2> QED
    BY <2>1, <2>2
<1>7. ASSUME NEW y \in SemKeys PROVE SemInv(S[y], HasOf(next, y) \cup w[y], WantsOf(next, y) \ w[y], LimitOf(y))
  <2>1. SemInv(S[y], HasOf(f, y), WantsOf(f, y), LimitOf(y)) /\ y \in AllLocks
    BY DEF LocksOK, AllLocks
  <2>2. y # x
    BY LockNames
  <2> QED
    BY <1>5, <2>1, <2>2
<1> QED
  BY <1>2, <1>3, <1>4, <1>6, <1>7, LocksKeep DEF T, W, lock

\* No lock changes, and nobody's share in one.
LEMMA LocksSame ==
  ASSUME NEW R, NEW S, NEW f, LocksOK(R, S, f), NEW next,
         \A y \in AllLocks : HasOf(next, y) = HasOf(f, y) /\ WantsOf(next, y) = WantsOf(f, y)
  PROVE  LocksOK(R, S, next)
  BY DEF LocksOK, AllLocks

\* Where a call may be on its path.
AtOK(k, c) ==
    /\ k.at \in 0..Len(Path(c))
    /\ k.pc = "waiting" => k.at < Len(Path(c))
    /\ k.pc \in {"new", "queued", "backoff"} => k.at = 0

LEMMA NextStop ==
  ASSUME NEW c \in Calls, NEW n \in Nat, n < Len(Path(c))
  PROVE  /\ n + 1 \in 1..Len(Path(c))
         /\ \A i \in 1..n : Path(c)[i] # Path(c)[n + 1]
         /\ Path(c)[n + 1] # "table" => Path(c)[n + 1] \in Stops
<1>1. Len(Path(c)) \in Nat /\ n + 1 \in 1..Len(Path(c)) /\ \A i \in 1..n : i \in 1..Len(Path(c)) /\ i # n + 1
  BY PathClimbs
<1>2. Path(c)[n + 1] \in Things
  BY <1>1, PathClimbs
<1> QED
  BY <1>1, <1>2, PathOnce DEF Things, Stops

LEMMA OthersKeep ==
  ASSUME NEW f, NEW g, NEW c, \A d \in Calls \ {c} : g[d] = f[d], NEW x
  PROVE  \A d \in Calls \ {c} : (d \in HasOf(g, x) <=> d \in HasOf(f, x)) /\ (d \in WantsOf(g, x) <=> d \in WantsOf(f, x))
  BY DEF HasOf, WantsOf

\* c alone differs between f and g.
LEMMA ShareMoves ==
  ASSUME NEW f, NEW g, NEW c \in Calls, \A d \in Calls \ {c} : g[d] = f[d], NEW x
  PROVE  /\ c \notin HasOf(g, x) => HasOf(g, x) = HasOf(f, x) \ {c}
         /\ c \notin WantsOf(g, x) => WantsOf(g, x) = WantsOf(f, x) \ {c}
         /\ (c \in HasOf(g, x) <=> c \in HasOf(f, x)) => HasOf(g, x) = HasOf(f, x)
         /\ (c \in WantsOf(g, x) <=> c \in WantsOf(f, x)) => WantsOf(g, x) = WantsOf(f, x)
         /\ c \in WantsOf(g, x) => WantsOf(g, x) = WantsOf(f, x) \cup {c}
<1>1. HasOf(g, x) \subseteq Calls /\ HasOf(f, x) \subseteq Calls /\ WantsOf(g, x) \subseteq Calls /\ WantsOf(f, x) \subseteq Calls
  BY DEF HasOf, WantsOf
<1>2. \A d \in Calls : d # c => (d \in HasOf(g, x) <=> d \in HasOf(f, x)) /\ (d \in WantsOf(g, x) <=> d \in WantsOf(f, x))
  BY OthersKeep
<1> QED
  BY <1>1, <1>2

LEMMA AskShares ==
  ASSUME NEW c \in Calls, NEW at \in Nat, at < Len(Path(c)), NEW f \in [Calls -> CallStates],
         LocksOK(rw, sem, f), Ask(c, at, f),
         \A r \in Stops : /\ HasAt(f[c], c, r) <=> \E i \in 1..at : Path(c)[i] = r
                          /\ ~WantsAt(f[c], c, r)
  PROVE  LocksOK(rw', sem', call')
<1> DEFINE k == [f[c] EXCEPT !.pc = "waiting", !.at = at, !.granted = FALSE]
           next == [f EXCEPT ![c] = k]
           r == Path(c)[at + 1]
           x == <<ProcessOf[c], r>>
<1>1. next = [f EXCEPT ![c].pc = "waiting", ![c].at = at, ![c].granted = FALSE]
  OBVIOUS
<1>2. f[c] \in CallStates
  OBVIOUS
<1>3. k \in CallStates /\ k.pc = "waiting" /\ k.at = at /\ k.granted = FALSE
  BY <1>2 DEF CallStates
<1> HIDE DEF k
<1>4. next \in [Calls -> CallStates] /\ next[c] = k /\ \A d \in Calls \ {c} : next[d] = f[d]
  BY <1>3
<1>5. /\ r = "table" => call' = next /\ UNCHANGED <<rw, sem>>
      /\ r # "table" /\ IsSem(r) =>
           LET got == SemAcquire(sem[x], c, PriorityOf[c])
           IN sem' = [sem EXCEPT ![x] = got.lock] /\ call' = Wake(next, got.woken) /\ UNCHANGED rw
      /\ r # "table" /\ ~IsSem(r) =>
           LET got == RWAcquire(rw[x], c, Access(c, r))
           IN rw' = [rw EXCEPT ![x] = got.lock] /\ call' = Wake(next, got.woken) /\ UNCHANGED sem
  BY <1>1 DEF Ask
<1> HIDE DEF next
<1>6. \A i \in 1..at : Path(c)[i] # r
  BY NextStop
<1>7. r # "table" => r \in Stops
  BY NextStop
<1>8. ASSUME NEW y \in AllLocks
      PROVE  /\ HasOf(next, y) = HasOf(f, y)
             /\ c \notin WantsOf(f, y)
             /\ c \in WantsOf(next, y) <=> y = x
  <2>1. y = <<y[1], y[2]>> /\ y[2] \in Stops
    BY LockNames
  <2>2. HasAt(k, c, y[2]) <=> \E i \in 1..at : Path(c)[i] = y[2]
    BY <1>3 DEF HasAt
  <2>3. c \in HasOf(next, y) <=> c \in HasOf(f, y)
    BY <1>4, <2>1, <2>2 DEF HasOf
  <2>4. WantsAt(k, c, y[2]) <=> r = y[2]
    BY <1>3 DEF WantsAt
  <2>5. c \in WantsOf(next, y) <=> y = x
    <3>1. c \in WantsOf(next, y) <=> ProcessOf[c] = y[1] /\ r = y[2]
      BY <1>4, <2>4 DEF WantsOf
    <3> QED
      BY <2>1, <3>1
  <2>6. c \notin WantsOf(f, y)
    BY <2>1 DEF WantsOf
  <2> QED
    BY <1>4, <2>3, <2>5, <2>6, ShareMoves
<1> HIDE DEF r, x
<1>9. \A y \in AllLocks : y # x => WantsOf(next, y) = WantsOf(f, y)
  BY <1>4, <1>8, ShareMoves
<1>10. CASE r = "table"
  <2>1. \A y \in AllLocks : y # x
    BY <1>10, LockNames, KeyAssumption DEF x, Stops
  <2>2. LocksOK(rw, sem, next)
    BY <1>8, <1>9, <2>1, LocksSame
  <2> QED
    BY <1>5, <1>10, <2>2
<1>11. ASSUME r # "table" PROVE
       /\ x \in AllLocks /\ (IsSem(r) => x \in SemKeys) /\ (~IsSem(r) => x \in RWKeys) /\ x[2] = r
       /\ HasOf(next, x) = HasOf(f, x) /\ WantsOf(next, x) = WantsOf(f, x) \cup {c}
       /\ c \notin HasOf(f, x) /\ c \notin WantsOf(f, x)
  <2>1. x \in AllLocks /\ (IsSem(r) => x \in SemKeys) /\ (~IsSem(r) => x \in RWKeys) /\ x[2] = r
    BY <1>7, <1>11, LockNames DEF x
  <2>2. ~HasAt(f[c], c, r)
    BY <1>6, <1>7, <1>11
  <2>3. c \notin HasOf(f, x)
    BY <2>1, <2>2 DEF HasOf
  <2>4. WantsOf(next, x) = WantsOf(f, x) \cup {c}
    BY <1>4, <1>8, <2>1, ShareMoves
  <2> QED
    BY <1>8, <2>1, <2>3, <2>4
<1>12. CASE r # "table" /\ IsSem(r)
  <2> DEFINE got == SemAcquire(sem[x], c, PriorityOf[c])
  <2>1. sem' = [sem EXCEPT ![x] = got.lock] /\ call' = Wake(next, got.woken) /\ rw' = rw
    BY <1>5, <1>12
  <2>2. got = SemAcquire(sem[x], c, PriorityOf[c])
    OBVIOUS
  <2> HIDE DEF got
  <2>3. x \in SemKeys /\ SemInv(sem[x], HasOf(f, x), WantsOf(f, x), LimitOf(x))
    BY <1>11, <1>12 DEF LocksOK
  <2>4. c \notin HasOf(f, x) /\ c \notin WantsOf(f, x)
    BY <1>11, <1>12
  <2>5. SemLeft(got, HasOf(f, x), WantsOf(f, x) \cup {c}, LimitOf(x))
    BY <2>2, <2>3, <2>4, SemAcquireKeeps
  <2>6. SemLeft(got, HasOf(next, x), WantsOf(next, x), LimitOf(x))
    BY <1>11, <1>12, <2>5
  <2>7. LocksOK(rw, [sem EXCEPT ![x] = got.lock], Wake(next, got.woken))
    <3>1. next \in [Calls -> CallStates] /\ \A y \in AllLocks \ {x} : HasOf(next, y) = HasOf(f, y) /\ WantsOf(next, y) = WantsOf(f, y)
      BY <1>4, <1>8, <1>9
    <3> QED
      BY <2>3, <2>6, <3>1, SemTouched
  <2> QED
    BY <2>1, <2>7
<1>13. CASE r # "table" /\ ~IsSem(r)
  <2> DEFINE got == RWAcquire(rw[x], c, Access(c, x[2]))
  <2>1. rw' = [rw EXCEPT ![x] = got.lock] /\ call' = Wake(next, got.woken) /\ sem' = sem
    BY <1>5, <1>11, <1>13
  <2>2. got = RWAcquire(rw[x], c, Access(c, x[2]))
    OBVIOUS
  <2> HIDE DEF got
  <2>3. x \in RWKeys /\ RWInv(rw[x], HasOf(f, x), WantsOf(f, x), x[2])
    BY <1>11, <1>13 DEF LocksOK
  <2>4. c \notin HasOf(f, x) /\ c \notin WantsOf(f, x)
    BY <1>11, <1>13
  <2>5. RWLeft(got, HasOf(f, x), WantsOf(f, x) \cup {c}, x[2])
    BY <2>2, <2>3, <2>4, RWAcquireKeeps
  <2>6. RWLeft(got, HasOf(next, x), WantsOf(next, x), x[2])
    BY <1>11, <1>13, <2>5
  <2>7. LocksOK([rw EXCEPT ![x] = got.lock], sem, Wake(next, got.woken))
    <3>1. next \in [Calls -> CallStates] /\ \A y \in AllLocks \ {x} : HasOf(next, y) = HasOf(f, y) /\ WantsOf(next, y) = WantsOf(f, y)
      BY <1>4, <1>8, <1>9
    <3> QED
      BY <2>3, <2>6, <3>1, RWTouched
  <2> QED
    BY <2>1, <2>7
<1> QED
  BY <1>10, <1>12, <1>13

LEMMA GiveUpShares ==
  ASSUME NEW c \in Calls, NEW why \in Endings, call \in [Calls -> CallStates],
         call[c].pc = "waiting", call[c].at < Len(Path(c)),
         LocksOK(rw, sem, call), GiveUp(c, why, call)
  PROVE  LocksOK(rw', sem', call')
<1> DEFINE k == [call[c] EXCEPT !.pc = "unwind", !.why = why, !.granted = FALSE]
           next == [call EXCEPT ![c] = k]
           at == call[c].at
           r == Path(c)[at + 1]
           x == <<ProcessOf[c], r>>
<1>1. next = [call EXCEPT ![c].pc = "unwind", ![c].why = why, ![c].granted = FALSE]
  OBVIOUS
<1>2. call[c] \in CallStates
  OBVIOUS
<1>3. k \in CallStates /\ k.pc = "unwind" /\ k.at = at /\ at \in Nat /\ call[c].granted \in BOOLEAN
  BY <1>2 DEF CallStates
<1> HIDE DEF k
<1>4. next \in [Calls -> CallStates] /\ next[c] = k /\ \A d \in Calls \ {c} : next[d] = call[d]
  BY <1>3
<1>5. /\ r = "table" => call' = next /\ UNCHANGED <<rw, sem>>
      /\ r # "table" /\ IsSem(r) =>
           LET got == SemGiveUp(sem[x], c, call[c].granted)
           IN sem' = [sem EXCEPT ![x] = got.lock] /\ call' = Wake(next, got.woken) /\ UNCHANGED rw
      /\ r # "table" /\ ~IsSem(r) =>
           LET got == RWGiveUp(rw[x], c, Access(c, r), call[c].granted)
           IN rw' = [rw EXCEPT ![x] = got.lock] /\ call' = Wake(next, got.woken) /\ UNCHANGED sem
  BY <1>1 DEF GiveUp
<1> HIDE DEF next
<1>6. \A i \in 1..at : Path(c)[i] # r
  BY <1>3, NextStop
<1>7. r # "table" => r \in Stops
  BY <1>3, NextStop
<1>8. ASSUME NEW y \in AllLocks
      PROVE  /\ c \notin WantsOf(next, y)
             /\ y # x => c \notin WantsOf(call, y) /\ (c \in HasOf(next, y) <=> c \in HasOf(call, y))
             /\ y = x => c \notin HasOf(next, y)
             /\ y = x => IF call[c].granted THEN c \in HasOf(call, y) ELSE c \in WantsOf(call, y)
  <2>1. y = <<y[1], y[2]>> /\ y[2] \in Stops
    BY LockNames
  <2>2. HasAt(k, c, y[2]) <=> \E i \in 1..at : Path(c)[i] = y[2]
    BY <1>3 DEF HasAt
  <2>3. ~WantsAt(k, c, y[2])
    BY <1>3 DEF WantsAt
  <2>4. HasAt(call[c], c, y[2]) <=> (\E i \in 1..at : Path(c)[i] = y[2]) \/ (call[c].granted /\ r = y[2])
    BY DEF HasAt
  <2>5. WantsAt(call[c], c, y[2]) <=> ~call[c].granted /\ r = y[2]
    BY DEF WantsAt
  <2>6. y = x <=> ProcessOf[c] = y[1] /\ r = y[2]
    BY <2>1
  <2> HIDE DEF r, x, at
  <2> QED
    BY <1>4, <1>6, <2>2, <2>3, <2>4, <2>5, <2>6 DEF HasOf, WantsOf
<1> HIDE DEF r, x, at
<1>9. \A y \in AllLocks : y # x => WantsOf(next, y) = WantsOf(call, y) /\ HasOf(next, y) = HasOf(call, y)
  BY <1>4, <1>8, ShareMoves
<1>10. CASE r = "table"
  <2>1. \A y \in AllLocks : y # x
    BY <1>10, LockNames, KeyAssumption DEF x, Stops
  <2>2. LocksOK(rw, sem, next)
    BY <1>9, <2>1, LocksSame
  <2> QED
    BY <1>5, <1>10, <2>2
<1>11. ASSUME r # "table" PROVE
       /\ x \in AllLocks /\ (IsSem(r) => x \in SemKeys) /\ (~IsSem(r) => x \in RWKeys) /\ x[2] = r
       /\ HasOf(next, x) = HasOf(call, x) \ {c} /\ WantsOf(next, x) = WantsOf(call, x) \ {c}
       /\ IF call[c].granted THEN c \in HasOf(call, x) ELSE c \in WantsOf(call, x)
  <2>1. x \in AllLocks /\ (IsSem(r) => x \in SemKeys) /\ (~IsSem(r) => x \in RWKeys) /\ x[2] = r
    BY <1>7, <1>11, LockNames DEF x
  <2>2. HasOf(next, x) = HasOf(call, x) \ {c} /\ WantsOf(next, x) = WantsOf(call, x) \ {c}
    BY <1>4, <1>8, <2>1, ShareMoves
  <2> QED
    BY <1>8, <2>1, <2>2
<1>12. CASE r # "table" /\ IsSem(r)
  <2> DEFINE got == SemGiveUp(sem[x], c, call[c].granted)
  <2>1. sem' = [sem EXCEPT ![x] = got.lock] /\ call' = Wake(next, got.woken) /\ rw' = rw
    BY <1>5, <1>12
  <2>2. got = SemGiveUp(sem[x], c, call[c].granted)
    OBVIOUS
  <2> HIDE DEF got
  <2>3. x \in SemKeys /\ SemInv(sem[x], HasOf(call, x), WantsOf(call, x), LimitOf(x))
    BY <1>11, <1>12 DEF LocksOK
  <2>4. call[c].granted \in BOOLEAN /\ IF call[c].granted THEN c \in HasOf(call, x) ELSE c \in WantsOf(call, x)
    BY <1>3, <1>11, <1>12
  <2>5. SemLeft(got, HasOf(call, x) \ {c}, WantsOf(call, x) \ {c}, LimitOf(x))
    BY <2>2, <2>3, <2>4, SemGiveUpKeeps
  <2>6. SemLeft(got, HasOf(next, x), WantsOf(next, x), LimitOf(x))
    BY <1>11, <1>12, <2>5
  <2>7. LocksOK(rw, [sem EXCEPT ![x] = got.lock], Wake(next, got.woken))
    <3>1. next \in [Calls -> CallStates] /\ \A y \in AllLocks \ {x} : HasOf(next, y) = HasOf(call, y) /\ WantsOf(next, y) = WantsOf(call, y)
      BY <1>4, <1>8, <1>9
    <3> QED
      BY <2>3, <2>6, <3>1, SemTouched
  <2> QED
    BY <2>1, <2>7
<1>13. CASE r # "table" /\ ~IsSem(r)
  <2> DEFINE got == RWGiveUp(rw[x], c, Access(c, x[2]), call[c].granted)
  <2>1. rw' = [rw EXCEPT ![x] = got.lock] /\ call' = Wake(next, got.woken) /\ sem' = sem
    BY <1>5, <1>11, <1>13
  <2>2. got = RWGiveUp(rw[x], c, Access(c, x[2]), call[c].granted)
    OBVIOUS
  <2> HIDE DEF got
  <2>3. x \in RWKeys /\ RWInv(rw[x], HasOf(call, x), WantsOf(call, x), x[2])
    BY <1>11, <1>13 DEF LocksOK
  <2>4. call[c].granted \in BOOLEAN /\ IF call[c].granted THEN c \in HasOf(call, x) ELSE c \in WantsOf(call, x)
    BY <1>3, <1>11, <1>13
  <2>5. RWLeft(got, HasOf(call, x) \ {c}, WantsOf(call, x) \ {c}, x[2])
    BY <2>2, <2>3, <2>4, RWGiveUpKeeps
  <2>6. RWLeft(got, HasOf(next, x), WantsOf(next, x), x[2])
    BY <1>11, <1>13, <2>5
  <2>7. LocksOK([rw EXCEPT ![x] = got.lock], sem, Wake(next, got.woken))
    <3>1. next \in [Calls -> CallStates] /\ \A y \in AllLocks \ {x} : HasOf(next, y) = HasOf(call, y) /\ WantsOf(next, y) = WantsOf(call, y)
      BY <1>4, <1>8, <1>9
    <3> QED
      BY <2>3, <2>6, <3>1, RWTouched
  <2> QED
    BY <2>1, <2>7
<1> QED
  BY <1>10, <1>12, <1>13

-----------------------------------------------------------------------------
(* The locks along the steps of the calls *)

FlowOK ==
    /\ \A c \in Calls : AtOK(call[c], c)
    /\ LocksOK(rw, sem, call)

\* A call that ends with "parallel" does not wait for the table last.
LEMMA PathEnds ==
  ASSUME NEW c \in Calls
  PROVE  Path(c)[Len(Path(c))] = "parallel"
<1> DEFINE s == <<"barrier">> \o SortedKeys(c) \o (IF KeysOf[c] = << >> THEN << >> ELSE <<"table">>)
           t == <<"tenant", "parallel">>
<1>1. Path(c) = s \o t
  BY DEF Path
<1>2. s \in Seq(Things)
  <2>1. <<"barrier">> \in Seq(Things) /\ <<"table">> \in Seq(Things) /\ << >> \in Seq(Things)
    BY DEF Things
  <2>2. SortedKeys(c) \in Seq(Things)
    BY KeysClimb DEF Climbs
  <2> QED
    BY <2>1, <2>2
<1>3. t \in Seq(Things) /\ Len(t) = 2 /\ t[2] = "parallel"
  BY DEF Things
<1> HIDE DEF s, t
<1>4. Len(s \o t) = Len(s) + 2 /\ (s \o t)[Len(s) + 2] = t[2]
  <2> DEFINE m == Len(s)
             n == Len(t)
             u == s \o t
  <2>1. t \in Seq(Things)
    BY <1>3
  <2>2. m \in Nat /\ n \in Nat /\ Len(u) = m + n /\ \A i \in (m + 1)..(m + n) : u[i] = t[i - m]
    BY <1>2, <2>1
  <2> HIDE DEF m, u
  <2>3. u[m + 2] = t[2] /\ Len(u) = m + 2
    <3>1. m + 2 \in (m + 1)..(m + n) /\ (m + 2) - m = 2
      BY <1>3, <2>2
    <3> QED
      BY <1>3, <2>2, <3>1
  <2> QED
    BY <2>3 DEF m, u
<1> QED
  BY <1>1, <1>3, <1>4

\* k and j stand for the same share in the locks.
SameShare(k, j) ==
    /\ k.at = j.at
    /\ \/ k.pc = j.pc /\ k.granted = j.granted
       \/ k.pc # "waiting" /\ j.pc # "waiting"

LEMMA SharesSame ==
  ASSUME NEW f, NEW g, \A d \in Calls : SameShare(g[d], f[d]), NEW R, NEW S, LocksOK(R, S, f)
  PROVE  LocksOK(R, S, g)
<1>1. ASSUME NEW d \in Calls, NEW r
      PROVE  (HasAt(g[d], d, r) <=> HasAt(f[d], d, r)) /\ (WantsAt(g[d], d, r) <=> WantsAt(f[d], d, r))
  <2>1. SameShare(g[d], f[d])
    OBVIOUS
  <2> QED
    BY <2>1 DEF SameShare, HasAt, WantsAt
<1>2. \A y \in AllLocks : HasOf(g, y) = HasOf(f, y) /\ WantsOf(g, y) = WantsOf(f, y)
  BY <1>1 DEF HasOf, WantsOf
<1> QED
  BY <1>2, LocksSame

LEMMA FlowSame ==
  ASSUME FlowOK, \A d \in Calls : SameShare(call'[d], call[d]) /\ AtOK(call'[d], d), UNCHANGED <<rw, sem>>
  PROVE  FlowOK'
<1>1. LocksOK(rw, sem, call)
  BY DEF FlowOK
<1>2. LocksOK(rw, sem, call')
  BY <1>1, SharesSame
<1>3. LocksOK(rw', sem', call')
  BY <1>2
<1> QED
  BY <1>3 DEF FlowOK

\* One call takes another record, and no lock changes.
LEMMA FlowReplace ==
  ASSUME FlowOK, call \in [Calls -> CallStates], NEW c \in Calls, NEW k, call' = [call EXCEPT ![c] = k],
         SameShare(k, call[c]), AtOK(k, c), UNCHANGED <<rw, sem>>
  PROVE  FlowOK'
<1>1. call'[c] = k /\ \A d \in Calls : d # c => call'[d] = call[d]
  OBVIOUS
<1>2. \A d \in Calls : SameShare(call[d], call[d]) /\ AtOK(call[d], d)
  BY DEF FlowOK, SameShare
<1>3. \A d \in Calls : SameShare(call'[d], call[d]) /\ AtOK(call'[d], d)
  BY <1>1, <1>2
<1> QED
  BY <1>3, FlowSame

LEMMA WakeKeepsAt ==
  ASSUME NEW f \in [Calls -> CallStates], NEW W, NEW d \in Calls
  PROVE  Wake(f, W)[d].at = f[d].at /\ Wake(f, W)[d].pc = f[d].pc
<1>1. f[d] \in CallStates /\ Wake(f, W)[d] = IF d \in W THEN [f[d] EXCEPT !.granted = TRUE] ELSE f[d]
  BY DEF Wake
<1> QED
  BY <1>1 DEF CallStates

LEMMA AskAt ==
  ASSUME NEW c \in Calls, NEW at \in Nat, NEW f \in [Calls -> CallStates], Ask(c, at, f)
  PROVE  /\ call'[c].pc = "waiting" /\ call'[c].at = at
         /\ \A d \in Calls : d # c => call'[d].pc = f[d].pc /\ call'[d].at = f[d].at
<1> DEFINE rec == [f[c] EXCEPT !.pc = "waiting", !.at = at, !.granted = FALSE]
           next == [f EXCEPT ![c] = rec]
<1>1. next = [f EXCEPT ![c].pc = "waiting", ![c].at = at, ![c].granted = FALSE]
  OBVIOUS
<1>2. f[c] \in CallStates
  OBVIOUS
<1>3. rec \in CallStates /\ rec.pc = "waiting" /\ rec.at = at
  BY <1>2 DEF CallStates
<1>4. call' = next \/ \E W : call' = Wake(next, W)
  BY <1>1 DEF Ask
<1> HIDE DEF rec
<1>5. next \in [Calls -> CallStates] /\ next[c] = rec /\ \A d \in Calls : d # c => next[d] = f[d]
  BY <1>3
<1> HIDE DEF next
<1>6. \A d \in Calls : call'[d].pc = next[d].pc /\ call'[d].at = next[d].at
  BY <1>4, <1>5, WakeKeepsAt
<1> QED
  BY <1>3, <1>5, <1>6

LEMMA GiveUpAt ==
  ASSUME NEW c \in Calls, NEW why \in Endings, call \in [Calls -> CallStates], GiveUp(c, why, call)
  PROVE  /\ call'[c].pc = "unwind" /\ call'[c].at = call[c].at
         /\ \A d \in Calls : d # c => call'[d].pc = call[d].pc /\ call'[d].at = call[d].at
<1> DEFINE rec == [call[c] EXCEPT !.pc = "unwind", !.why = why, !.granted = FALSE]
           next == [call EXCEPT ![c] = rec]
<1>1. next = [call EXCEPT ![c].pc = "unwind", ![c].why = why, ![c].granted = FALSE]
  OBVIOUS
<1>2. call[c] \in CallStates
  OBVIOUS
<1>3. rec \in CallStates /\ rec.pc = "unwind" /\ rec.at = call[c].at
  BY <1>2 DEF CallStates
<1>4. call' = next \/ \E W : call' = Wake(next, W)
  BY <1>1 DEF GiveUp
<1> HIDE DEF rec
<1>5. next \in [Calls -> CallStates] /\ next[c] = rec /\ \A d \in Calls : d # c => next[d] = call[d]
  BY <1>3
<1> HIDE DEF next
<1>6. \A d \in Calls : call'[d].pc = next[d].pc /\ call'[d].at = next[d].at
  BY <1>4, <1>5, WakeKeepsAt
<1> QED
  BY <1>3, <1>5, <1>6

\* A call asks for the first entry of its path, or for the next one after a
\* grant or after it took the rows of the table.
LEMMA FlowAsk ==
  ASSUME FlowOK, call \in [Calls -> CallStates], NEW c \in Calls, NEW at \in Nat,
         NEW f \in [Calls -> CallStates], \A d \in Calls : SameShare(f[d], call[d]) /\ f[d].pc = call[d].pc,
         Ask(c, at, f),
         \/ call[c].pc \in {"queued", "backoff"} /\ at = 0
         \/ /\ call[c].pc = "waiting" /\ at = call[c].at + 1 /\ at < Len(Path(c))
            /\ call[c].granted \/ Path(c)[at] = "table"
  PROVE  FlowOK'
<1>1. LocksOK(rw, sem, f)
  BY SharesSame DEF FlowOK
<1>2. /\ f[c].at = call[c].at /\ f[c].pc = call[c].pc
      /\ call[c].pc = "waiting" => f[c].granted = call[c].granted
      /\ call[c].at \in Nat
  BY DEF SameShare, CallStates
<1>3. at < Len(Path(c))
  BY PathClimbs
<1>4. ASSUME NEW r \in Stops
      PROVE  /\ HasAt(f[c], c, r) <=> \E i \in 1..at : Path(c)[i] = r
             /\ ~WantsAt(f[c], c, r)
  <2>1. r # "table"
    BY KeyAssumption DEF Stops
  <2>2. CASE call[c].pc \in {"queued", "backoff"} /\ at = 0
    <3>1. f[c].at = 0 /\ f[c].pc # "waiting"
      BY <1>2, <2>2 DEF FlowOK, AtOK
    <3> QED
      BY <2>2, <3>1 DEF HasAt, WantsAt
  <2>3. CASE call[c].pc = "waiting" /\ at = call[c].at + 1 /\ call[c].granted
    <3>1. f[c].pc = "waiting" /\ f[c].granted /\ at = f[c].at + 1 /\ f[c].at \in Nat
      BY <1>2, <2>3
    <3>2. \A i : i \in 1..at <=> (i \in 1..f[c].at \/ i = at)
      BY <3>1
    <3> QED
      BY <3>1, <3>2 DEF HasAt, WantsAt
  <2>4. CASE call[c].pc = "waiting" /\ at = call[c].at + 1 /\ Path(c)[at] = "table"
    <3>1. f[c].pc = "waiting" /\ at = f[c].at + 1 /\ f[c].at \in Nat
      BY <1>2, <2>4
    <3>2. \A i : i \in 1..at <=> (i \in 1..f[c].at \/ i = at)
      BY <3>1
    <3> QED
      BY <2>1, <2>4, <3>1, <3>2 DEF HasAt, WantsAt
  <2> QED
    BY <2>2, <2>3, <2>4
<1>5. LocksOK(rw', sem', call')
  BY <1>1, <1>3, <1>4, AskShares
<1>6. /\ call'[c].pc = "waiting" /\ call'[c].at = at
      /\ \A d \in Calls : d # c => call'[d].pc = call[d].pc /\ call'[d].at = call[d].at
  BY AskAt DEF SameShare
<1>7. \A d \in Calls : AtOK(call[d], d)
  BY DEF FlowOK
<1>8. AtOK(call'[c], c)
  BY <1>3, <1>6, PathClimbs DEF AtOK
<1>9. \A d \in Calls : AtOK(call'[d], d)
  BY <1>6, <1>7, <1>8 DEF AtOK
<1> QED
  BY <1>5, <1>9 DEF FlowOK

LEMMA FlowGiveUp ==
  ASSUME FlowOK, call \in [Calls -> CallStates], NEW c \in Calls, NEW why \in Endings,
         call[c].pc = "waiting", GiveUp(c, why, call)
  PROVE  FlowOK'
<1>1. call[c].at < Len(Path(c)) /\ LocksOK(rw, sem, call) /\ \A d \in Calls : AtOK(call[d], d)
  BY DEF FlowOK, AtOK
<1>2. LocksOK(rw', sem', call')
  BY <1>1, GiveUpShares
<1>3. \A d \in Calls : AtOK(call'[d], d)
  <2>1. /\ call'[c].pc = "unwind" /\ call'[c].at = call[c].at
        /\ \A d \in Calls : d # c => call'[d].pc = call[d].pc /\ call'[d].at = call[d].at
    BY GiveUpAt
  <2> QED
    BY <1>1, <2>1 DEF AtOK
<1> QED
  BY <1>2, <1>3 DEF FlowOK

LEMMA FlowInit == Init => FlowOK
<1> SUFFICES ASSUME Init PROVE FlowOK
  OBVIOUS
<1>1. ASSUME NEW c \in Calls PROVE call[c].at = 0 /\ call[c].pc \in {"new", "ended"}
  <2>1. PICK asked \in Requested :
          call = [d \in Calls |-> IF d \in asked THEN NewCall ELSE [NewCall EXCEPT !.pc = "ended"]]
    BY DEF Init
  <2>2. NewCall.at = 0 /\ NewCall.pc = "new" /\ [NewCall EXCEPT !.pc = "ended"].at = 0
        /\ [NewCall EXCEPT !.pc = "ended"].pc = "ended"
    BY DEF NewCall
  <2> QED
    BY <2>1, <2>2
<1>2. \A x : HasOf(call, x) = {} /\ WantsOf(call, x) = {}
  <2>1. \A c \in Calls : \A r : ~HasAt(call[c], c, r) /\ ~WantsAt(call[c], c, r)
    BY <1>1 DEF HasAt, WantsAt
  <2> QED
    BY <2>1 DEF HasOf, WantsOf
<1>3. \A c \in Calls : AtOK(call[c], c)
  BY <1>1, PathClimbs DEF AtOK
<1>4. Cardinality({}) = 0 /\ QueueOK(<< >>, {}) /\ << >> \in Seq(Waiters)
  BY FS_EmptySet, QueueEmpty DEF QueueOK
<1>5. ASSUME NEW x \in SemKeys PROVE SemInv(sem[x], {}, {}, LimitOf(x))
  <2>1. sem[x] = [value |-> LimitOf(x), queue |-> << >>]
    BY DEF Init, SemKeys, Semaphore, LimitOf
  <2>2. LimitOf(x) \in Nat
    BY LimitAssumption DEF LimitOf
  <2> QED
    BY <1>4, <2>1, <2>2 DEF SemInv, SemAcc
<1>6. ASSUME NEW x \in RWKeys PROVE RWInv(rw[x], {}, {}, x[2])
  <2>1. rw[x] = [readers |-> 0, writer |-> FALSE, queue |-> << >>]
    BY DEF Init, RWKeys, RWLock
  <2>2. ReadersOf({}, x[2]) = {} /\ Ranked(<< >>, x[2])
    <3>1. Len(<< >>) = 0 /\ 1..0 = {}
      OBVIOUS
    <3> QED
      BY <3>1 DEF ReadersOf, Ranked
  <2>3. rw[x].readers = 0 /\ rw[x].writer = FALSE /\ rw[x].queue = << >> /\ rw[x] \in RWLocks
    BY <1>4, <2>1 DEF RWLocks
  <2> QED
    BY <1>4, <2>2, <2>3 DEF RWInv, RWAcc
<1>7. DOMAIN rw = RWKeys /\ DOMAIN sem = SemKeys
  BY DEF Init, RWKeys, SemKeys
<1>8. LocksOK(rw, sem, call)
  BY <1>2, <1>5, <1>6, <1>7 DEF LocksOK
<1> QED
  BY <1>3, <1>8 DEF FlowOK

\* The steps of a call that take no lock and give none back.
LEMMA FlowQuiet ==
  ASSUME FlowOK, call \in [Calls -> CallStates], NEW c \in Calls,
         \/ RejectBatch(c) \/ Guard(c) \/ Dispatch(c) \/ Commit(c) \/ HandlerEnds(c)
         \/ Lapse(c) \/ HeartbeatFails(c) \/ NoticeLost(c) \/ After(c) \/ InterruptRelease(c)
         \/ (Interrupt(c) \/ CancelTask(c)) /\ call[c].pc # "waiting"
         \/ BreakOff(c) \/ ObserverFails(c) \/ RepairBatch(c)
  PROVE  FlowOK'
<1>1. call[c] \in CallStates /\ AtOK(call[c], c) /\ Len(Path(c)) \in Nat
  BY PathClimbs DEF FlowOK
<1>2. Rejected.at = 0 /\ Rejected.pc = "ended"
  BY DEF Rejected, NewCall
<1>3. CASE RejectBatch(c)
  <2>1. UNCHANGED <<rw, sem>> /\ \A d \in Siblings(c) : call[d].pc = "new"
    BY <1>3 DEF RejectBatch
  <2>2. \A d \in Calls : call'[d] = IF d \in Siblings(c) THEN Rejected ELSE call[d]
    BY <1>3 DEF RejectBatch
  <2>3. ASSUME NEW d \in Calls PROVE SameShare(call'[d], call[d]) /\ AtOK(call'[d], d)
    <3>1. AtOK(call[d], d) /\ Len(Path(d)) \in Nat
      BY PathClimbs DEF FlowOK
    <3>2. CASE d \in Siblings(c)
      BY <1>2, <2>1, <2>2, <3>1, <3>2 DEF SameShare, AtOK
    <3>3. CASE d \notin Siblings(c)
      BY <2>2, <3>1, <3>3 DEF SameShare
    <3> QED
      BY <3>2, <3>3
  <2> QED
    BY <2>1, <2>3, FlowSame
<1>4. CASE Lapse(c) \/ BreakOff(c)
  <2>1. UNCHANGED <<rw, sem>> /\ call' = call
    BY <1>4 DEF Lapse, BreakOff
  <2>2. \A d \in Calls : SameShare(call'[d], call[d]) /\ AtOK(call'[d], d)
    BY <2>1 DEF FlowOK, SameShare
  <2> QED
    BY <2>1, <2>2, FlowSame
<1>5. CASE Guard(c)
  <2>1. UNCHANGED <<rw, sem>> /\ call[c].pc = "new"
    BY <1>5 DEF Guard
  <2>2. PICK k : call' = [call EXCEPT ![c] = k] /\ k.at = 0 /\ k.pc \in {"queued", "ended"}
    <3> DEFINE q == [call[c] EXCEPT !.pc = "queued"]
    <3>1. q.at = 0 /\ q.pc = "queued"
      BY <1>1, <2>1 DEF AtOK, CallStates
    <3>2. call' = [call EXCEPT ![c] = q] \/ call' = [call EXCEPT ![c] = Rejected]
      BY <1>5 DEF Guard
    <3> HIDE DEF q
    <3> QED
      BY <1>2, <3>1, <3>2
  <2>3. SameShare(k, call[c]) /\ AtOK(k, c)
    BY <1>1, <2>1, <2>2 DEF SameShare, AtOK
  <2> QED
    BY <2>1, <2>2, <2>3, FlowReplace
<1>6. CASE HeartbeatFails(c)
  <2> DEFINE k == [call[c] EXCEPT !.hb = "failed"]
  <2>1. call' = [call EXCEPT ![c] = k] /\ UNCHANGED <<rw, sem>>
    BY <1>6 DEF HeartbeatFails
  <2>2. k.at = call[c].at /\ k.pc = call[c].pc /\ k.granted = call[c].granted
    BY <1>1 DEF CallStates
  <2> HIDE DEF k
  <2>3. SameShare(k, call[c]) /\ AtOK(k, c)
    BY <1>1, <2>2 DEF SameShare, AtOK
  <2> QED
    BY <2>1, <2>3, FlowReplace
<1>8. CASE RepairBatch(c)
  <2>1. UNCHANGED <<rw, sem>>
    BY <1>8 DEF RepairBatch
  <2>2. \A d \in Calls : call'[d] = IF d \in Siblings(c) /\ call[d].out = "absent"
                                    THEN [call[d] EXCEPT !.out = "not_executed"] ELSE call[d]
    BY <1>8 DEF RepairBatch
  <2>3. ASSUME NEW d \in Calls PROVE SameShare(call'[d], call[d]) /\ AtOK(call'[d], d)
    <3>1. AtOK(call[d], d) /\ call[d] \in CallStates
      BY DEF FlowOK
    <3> DEFINE k == [call[d] EXCEPT !.out = "not_executed"]
    <3>2. k.at = call[d].at /\ k.pc = call[d].pc /\ k.granted = call[d].granted
      BY <3>1 DEF CallStates
    <3>3. call'[d] \in {k, call[d]}
      BY <2>2
    <3> HIDE DEF k
    <3> QED
      BY <3>1, <3>2, <3>3 DEF SameShare, AtOK
  <2> QED
    BY <2>1, <2>3, FlowSame
<1>9. CASE ObserverFails(c) \/ (CancelTask(c) /\ call' = [call EXCEPT ![c] = Gone(c)])
  <2>1. UNCHANGED <<rw, sem>> /\ call[c].pc # "waiting" /\ call' = [call EXCEPT ![c] = Gone(c)]
    <3>1. CASE ObserverFails(c)
      BY <3>1 DEF ObserverFails
    <3>2. CASE CancelTask(c) /\ call' = [call EXCEPT ![c] = Gone(c)]
      <4>1. call'[c].pc = "ended"
        BY <1>1, <3>2, GoneFacts
      <4>2. ~(call[c].pc = "waiting" /\ GiveUp(c, "cancelled", call))
        BY <4>1, GiveUpAt DEF Endings
      <4> QED
        BY <3>2, <4>2 DEF CancelTask
    <3> QED
      BY <1>9, <3>1, <3>2
  <2>2. SameShare(Gone(c), call[c]) /\ AtOK(Gone(c), c)
    BY <1>1, <2>1, GoneFacts DEF SameShare, AtOK
  <2> QED
    BY <2>1, <2>2, FlowReplace
<1>7. CASE \/ Dispatch(c) \/ Commit(c) \/ HandlerEnds(c) \/ NoticeLost(c) \/ After(c) \/ InterruptRelease(c)
           \/ Interrupt(c) /\ call[c].pc # "waiting"
           \/ CancelTask(c) /\ call[c].pc # "waiting" /\ EndAttempt(c, "cancelled") /\ UNCHANGED <<rw, sem>>
  <2>1. UNCHANGED <<rw, sem>> /\ call[c].pc # "waiting"
    BY <1>7 DEF Dispatch, Commit, HandlerEnds, NoticeLost, After, InterruptRelease, Interrupt
  <2>2. PICK k : call' = [call EXCEPT ![c] = k] /\ k.at = call[c].at /\ k.pc \in {"running", "unwind", "after", "ended"}
    <3>1. ASSUME NEW why, EndAttempt(c, why)
          PROVE  \E k : call' = [call EXCEPT ![c] = k] /\ k.at = call[c].at /\ k.pc \in {"running", "unwind", "after", "ended"}
      <4> DEFINE k == [call[c] EXCEPT !.pc = "unwind", !.why = why]
      <4>1. call' = [call EXCEPT ![c] = k]
        BY <3>1 DEF EndAttempt
      <4>2. k.at = call[c].at /\ k.pc = "unwind"
        BY <1>1 DEF CallStates
      <4> HIDE DEF k
      <4> QED
        BY <4>1, <4>2
    <3>2. CASE HandlerEnds(c) \/ NoticeLost(c) \/ (Interrupt(c) /\ call[c].pc # "waiting")
      <4>1. \E why : EndAttempt(c, why)
        BY <3>2 DEF HandlerEnds, NoticeLost, Interrupt
      <4> QED
        BY <3>1, <4>1
    <3>3. CASE Dispatch(c)
      <4> DEFINE k == [call[c] EXCEPT !.entered = TRUE, !.everEntered = TRUE]
      <4>1. call' = [call EXCEPT ![c] = k] \/ EndAttempt(c, "raised")
        BY <3>3 DEF Dispatch
      <4>2. k.at = call[c].at /\ k.pc = "running"
        BY <1>1, <3>3 DEF CallStates, Dispatch
      <4> HIDE DEF k
      <4> QED
        BY <3>1, <4>1, <4>2
    <3>4. CASE Commit(c)
      <4> DEFINE k == [call[c] EXCEPT !.committed = TRUE]
      <4>1. call' = [call EXCEPT ![c] = k]
        BY <3>4 DEF Commit
      <4>2. k.at = call[c].at /\ k.pc = "running"
        BY <1>1, <3>4 DEF CallStates, Commit
      <4> HIDE DEF k
      <4> QED
        BY <4>1, <4>2
    <3>5. CASE After(c)
      <4>1. PICK out : call' = [call EXCEPT ![c] = [NewCall EXCEPT !.pc = "ended", !.out = out, !.at = call[c].at]]
        BY <3>5 DEF After
      <4> DEFINE k == [NewCall EXCEPT !.pc = "ended", !.out = out, !.at = call[c].at]
      <4>2. k.at = call[c].at /\ k.pc = "ended"
        BY DEF NewCall
      <4> HIDE DEF k
      <4> QED
        BY <4>1, <4>2 DEF k
    <3>6. CASE InterruptRelease(c)
      <4> DEFINE k == [call[c] EXCEPT !.pc = "after", !.hb = "none", !.why = "none", !.out = Result(c, "interrupted")]
      <4>1. call' = [call EXCEPT ![c] = k]
        BY <3>6 DEF InterruptRelease
      <4>2. k.at = call[c].at /\ k.pc = "after"
        BY <1>1 DEF CallStates
      <4> HIDE DEF k
      <4> QED
        BY <4>1, <4>2
    <3> QED
      BY <1>7, <3>1, <3>2, <3>3, <3>4, <3>5, <3>6
  <2>3. SameShare(k, call[c]) /\ AtOK(k, c)
    BY <1>1, <2>1, <2>2 DEF SameShare, AtOK
  <2> QED
    BY <2>1, <2>2, <2>3, FlowReplace
<1>10. CASE CancelTask(c) /\ call[c].pc # "waiting"
  BY <1>7, <1>9, <1>10 DEF CancelTask
<1> QED
  BY <1>3, <1>4, <1>5, <1>6, <1>7, <1>8, <1>9, <1>10

LEMMA FlowEnter ==
  ASSUME FlowOK, call \in [Calls -> CallStates], NEW c \in Calls, Enter(c)
  PROVE  FlowOK'
<1> DEFINE k == [call[c] EXCEPT !.attempt = @ + 1, !.entered = FALSE, !.committed = FALSE, !.why = "none"]
           f == [call EXCEPT ![c] = k]
<1>1. call[c].pc \in {"queued", "backoff"} /\ Ask(c, 0, f)
  BY DEF Enter
<1>2. k \in CallStates /\ SameShare(k, call[c]) /\ k.pc = call[c].pc
  <2>1. call[c] \in CallStates
    OBVIOUS
  <2>0. call[c].attempt + 1 \in Nat
    BY <2>1 DEF CallStates
  <2>2. k \in CallStates
    BY <2>0, <2>1 DEF CallStates, Endings
  <2>3. k.at = call[c].at /\ k.pc = call[c].pc /\ k.granted = call[c].granted
    BY <2>1 DEF CallStates
  <2> QED
    BY <2>2, <2>3 DEF SameShare
<1> HIDE DEF k
<1>3. f \in [Calls -> CallStates] /\ f[c] = k /\ \A d \in Calls : d # c => f[d] = call[d]
  BY <1>2
<1> HIDE DEF f
<1>4. \A d \in Calls : SameShare(f[d], call[d]) /\ f[d].pc = call[d].pc
  BY <1>2, <1>3 DEF SameShare
<1> QED
  BY <1>1, <1>3, <1>4, FlowAsk

LEMMA FlowTable ==
  ASSUME FlowOK, call \in [Calls -> CallStates], NEW c \in Calls, TryTable(c), lastToken \in Nat
  PROVE  FlowOK'
<1> DEFINE k == [call[c] EXCEPT !.token = NewToken, !.hb = "alive"]
           f == [call EXCEPT ![c] = k]
           at == call[c].at + 1
<1>1. call[c].pc = "waiting" /\ Path(c)[at] = "table" /\ Ask(c, at, f)
  BY DEF TryTable, Awaits
<1>2. k \in CallStates /\ SameShare(k, call[c]) /\ k.pc = call[c].pc
  <2>1. call[c] \in CallStates /\ NewToken \in Nat
    BY DEF NewToken
  <2>2. k \in CallStates
    BY <2>1 DEF CallStates
  <2>3. k.at = call[c].at /\ k.pc = call[c].pc /\ k.granted = call[c].granted
    BY <2>1 DEF CallStates
  <2> QED
    BY <2>2, <2>3 DEF SameShare
<1>3. at \in Nat /\ at < Len(Path(c))
  <2>1. call[c].at \in Nat /\ call[c].at < Len(Path(c)) /\ Len(Path(c)) \in Nat
    BY <1>1, PathClimbs DEF FlowOK, AtOK, CallStates
  <2>2. at # Len(Path(c))
    BY <1>1, PathEnds
  <2> QED
    BY <2>1, <2>2
<1> HIDE DEF k
<1>4. f \in [Calls -> CallStates] /\ f[c] = k /\ \A d \in Calls : d # c => f[d] = call[d]
  BY <1>2
<1> HIDE DEF f
<1>5. \A d \in Calls : SameShare(f[d], call[d]) /\ f[d].pc = call[d].pc
  BY <1>2, <1>4 DEF SameShare
<1> QED
  BY <1>1, <1>3, <1>4, <1>5, FlowAsk

LEMMA FlowResume ==
  ASSUME FlowOK, call \in [Calls -> CallStates], NEW c \in Calls, Resume(c)
  PROVE  FlowOK'
<1> DEFINE at == call[c].at + 1
<1>1. /\ call[c].pc = "waiting" /\ call[c].granted /\ call[c] \in CallStates
      /\ call[c].at \in Nat /\ call[c].at < Len(Path(c)) /\ Len(Path(c)) \in Nat
  BY PathClimbs DEF Resume, FlowOK, AtOK, CallStates
<1>2. CASE at = Len(Path(c))
  <2> DEFINE k == [call[c] EXCEPT !.pc = "running", !.at = at, !.granted = FALSE, !.started = TRUE]
  <2>1. call' = [call EXCEPT ![c] = k] /\ UNCHANGED <<rw, sem>>
    BY <1>2 DEF Resume
  <2>2. k.pc = "running" /\ k.at = at
    BY <1>1 DEF CallStates
  <2> HIDE DEF k
  <2>3. call'[c] = k /\ \A d \in Calls \ {c} : call'[d] = call[d]
    BY <2>1
  <2>4. \A i : i \in 1..at <=> (i \in 1..call[c].at \/ i = at)
    BY <1>1
  <2>5. \A r : (HasAt(k, c, r) <=> HasAt(call[c], c, r)) /\ ~WantsAt(k, c, r) /\ ~WantsAt(call[c], c, r)
    BY <1>1, <2>2, <2>4 DEF HasAt, WantsAt
  <2>6. \A y \in AllLocks : (c \in HasOf(call', y) <=> c \in HasOf(call, y)) /\ (c \in WantsOf(call', y) <=> c \in WantsOf(call, y))
    BY <2>3, <2>5 DEF HasOf, WantsOf
  <2>7. \A y \in AllLocks : HasOf(call', y) = HasOf(call, y) /\ WantsOf(call', y) = WantsOf(call, y)
    BY <2>3, <2>6, ShareMoves
  <2>8. LocksOK(rw, sem, call)
    BY DEF FlowOK
  <2>9. LocksOK(rw, sem, call')
    BY <2>7, <2>8, LocksSame
  <2>10. \A d \in Calls : AtOK(call[d], d)
    BY DEF FlowOK
  <2>11. AtOK(k, c)
    BY <1>1, <1>2, <2>2 DEF AtOK
  <2>12. \A d \in Calls : AtOK(call'[d], d)
    BY <2>3, <2>10, <2>11
  <2> QED
    BY <2>1, <2>9, <2>12 DEF FlowOK
<1>3. CASE at # Len(Path(c))
  <2>1. Ask(c, at, call)
    BY <1>3 DEF Resume
  <2>2. at \in Nat /\ at < Len(Path(c))
    BY <1>1, <1>3
  <2>3. \A d \in Calls : SameShare(call[d], call[d])
    BY DEF SameShare
  <2> QED
    BY <1>1, <2>1, <2>2, <2>3, FlowAsk
<1> QED
  BY <1>2, <1>3

\* The record of a call that has given everything back.
LEMMA UnwoundCall ==
  ASSUME NEW c \in Calls, call \in [Calls -> CallStates], Unwind(c)
  PROVE  \E k \in CallStates :
            /\ k.at = 0 /\ k.pc \in {"backoff", "after", "ended"}
            /\ call' = Wake([call EXCEPT ![c] = k], Released(c, call[c].at).woken)
<1> DEFINE why   == Ending(c)
           done  == [call[c] EXCEPT !.at = 0, !.hb = "none", !.token = 0, !.why = "none"]
           again == [done EXCEPT !.pc = "backoff"]
           over  == [done EXCEPT !.pc = "after", !.out = Result(c, why)]
           gone  == [NewCall EXCEPT !.pc = "ended", !.out = Result(c, why)]
           rec   == IF why = "retryable" /\ call[c].attempt < AttemptsOf[c] THEN again
                    ELSE IF why = "cancelled" THEN gone ELSE over
<1>1. call[c] \in CallStates
  OBVIOUS
<1>2. call' = Wake([call EXCEPT ![c] = rec], Released(c, call[c].at).woken)
  BY DEF Unwind
<1>3. Result(c, why) \in {"none", "ok", "error", "unknown", "absent"}
  BY DEF Result
<1>4. done \in CallStates /\ done.at = 0
  BY <1>1 DEF CallStates, Endings
<1> HIDE DEF why, done
<1>5. again \in CallStates /\ over \in CallStates /\ gone \in CallStates
  <2>1. again \in CallStates /\ over \in CallStates
    BY <1>3, <1>4 DEF CallStates
  <2>2. gone \in CallStates
    BY <1>3 DEF CallStates, NewCall, Endings
  <2> QED
    BY <2>1, <2>2
<1>0. gone.at = 0 /\ gone.pc = "ended"
  BY DEF NewCall
<1>6. again.at = 0 /\ again.pc = "backoff" /\ over.at = 0 /\ over.pc = "after"
  BY <1>4 DEF CallStates
<1> HIDE DEF again, over, gone
<1>7. rec \in CallStates /\ rec.at = 0 /\ rec.pc \in {"backoff", "after", "ended"}
  BY <1>0, <1>5, <1>6
<1> HIDE DEF rec
<1> QED
  BY <1>2, <1>7

\* What a call has of its own process at the position n, and what release does
\* to one lock.
Mine(c, n) == {Path(c)[i] : i \in 1..n} \ {"table"}
ReleasedRW(c, mine, x) ==
    IF x[1] = ProcessOf[c] /\ x[2] \in mine THEN RWRelease(rw[x], Access(c, x[2]))
    ELSE [lock |-> rw[x], woken |-> {}]
ReleasedSem(c, mine, x) ==
    IF x[1] = ProcessOf[c] /\ x[2] \in mine THEN SemRelease(sem[x])
    ELSE [lock |-> sem[x], woken |-> {}]

LEMMA ReleasedParts ==
  ASSUME NEW c, NEW n
  PROVE  /\ Released(c, n).rw = [x \in DOMAIN rw |-> ReleasedRW(c, Mine(c, n), x).lock]
         /\ Released(c, n).sem = [x \in DOMAIN sem |-> ReleasedSem(c, Mine(c, n), x).lock]
         /\ Released(c, n).woken =
               UNION ({ReleasedRW(c, Mine(c, n), x).woken : x \in DOMAIN rw}
                         \cup {ReleasedSem(c, Mine(c, n), x).woken : x \in DOMAIN sem})
<1> DEFINE mine == Mine(c, n)
           p == ProcessOf[c]
           newRw == [x \in DOMAIN rw |-> IF x[1] = p /\ x[2] \in mine
                                         THEN RWRelease(rw[x], Access(c, x[2]))
                                         ELSE [lock |-> rw[x], woken |-> {}]]
           newSem == [x \in DOMAIN sem |-> IF x[1] = p /\ x[2] \in mine
                                           THEN SemRelease(sem[x])
                                           ELSE [lock |-> sem[x], woken |-> {}]]
<1>1. Released(c, n) = [rw |-> [x \in DOMAIN rw |-> newRw[x].lock],
                        sem |-> [x \in DOMAIN sem |-> newSem[x].lock],
                        woken |-> UNION ({newRw[x].woken : x \in DOMAIN rw} \cup {newSem[x].woken : x \in DOMAIN sem})]
  BY DEF Released, Mine
<1> HIDE DEF mine
<1>2. /\ \A x \in DOMAIN rw : newRw[x] = ReleasedRW(c, mine, x)
      /\ \A x \in DOMAIN sem : newSem[x] = ReleasedSem(c, mine, x)
  BY DEF ReleasedRW, ReleasedSem
<1> HIDE DEF newRw, newSem
<1>3. /\ [x \in DOMAIN rw |-> newRw[x].lock] = [x \in DOMAIN rw |-> ReleasedRW(c, mine, x).lock]
      /\ [x \in DOMAIN sem |-> newSem[x].lock] = [x \in DOMAIN sem |-> ReleasedSem(c, mine, x).lock]
      /\ {newRw[x].woken : x \in DOMAIN rw} = {ReleasedRW(c, mine, x).woken : x \in DOMAIN rw}
      /\ {newSem[x].woken : x \in DOMAIN sem} = {ReleasedSem(c, mine, x).woken : x \in DOMAIN sem}
  BY <1>2
<1>4. /\ Released(c, n).rw = [x \in DOMAIN rw |-> newRw[x].lock]
      /\ Released(c, n).sem = [x \in DOMAIN sem |-> newSem[x].lock]
      /\ Released(c, n).woken = UNION ({newRw[x].woken : x \in DOMAIN rw} \cup {newSem[x].woken : x \in DOMAIN sem})
  BY <1>1
<1> QED
  BY <1>3, <1>4, Zenon DEF mine

LEMMA SemUntouched ==
  ASSUME NEW s, NEW H, NEW Q, NEW limit, SemInv(s, H, Q, limit), NEW g, g = [lock |-> s, woken |-> {}]
  PROVE  SemLeft(g, H, Q, limit)
<1>1. g.lock = s /\ g.woken = {} /\ H \cup {} = H /\ Q \ {} = Q
  OBVIOUS
<1> QED
  BY <1>1 DEF SemLeft

LEMMA FlowUnwind ==
  ASSUME FlowOK, call \in [Calls -> CallStates], NEW c \in Calls, Unwind(c)
  PROVE  FlowOK'
<1> DEFINE n == call[c].at
           mine == Mine(c, n)
           W == Released(c, n).woken
<1>1. PICK k \in CallStates : /\ k.at = 0 /\ k.pc \in {"backoff", "after", "ended"}
                              /\ call' = Wake([call EXCEPT ![c] = k], W)
  BY UnwoundCall
<1> DEFINE next == [call EXCEPT ![c] = k]
<1>2. /\ next \in [Calls -> CallStates] /\ next[c] = k /\ \A d \in Calls \ {c} : next[d] = call[d]
      /\ call' = Wake(next, W) /\ call[c].pc = "unwind"
  BY <1>1 DEF Unwind
<1> HIDE DEF next
<1>3. /\ rw' = [x \in DOMAIN rw |-> ReleasedRW(c, mine, x).lock]
      /\ sem' = [x \in DOMAIN sem |-> ReleasedSem(c, mine, x).lock]
      /\ W = UNION ({ReleasedRW(c, mine, x).woken : x \in DOMAIN rw}
                       \cup {ReleasedSem(c, mine, x).woken : x \in DOMAIN sem})
  <2>1. rw' = Released(c, n).rw /\ sem' = Released(c, n).sem
    BY DEF Unwind
  <2>2. /\ Released(c, n).rw = [x \in DOMAIN rw |-> ReleasedRW(c, Mine(c, n), x).lock]
        /\ Released(c, n).sem = [x \in DOMAIN sem |-> ReleasedSem(c, Mine(c, n), x).lock]
        /\ Released(c, n).woken =
               UNION ({ReleasedRW(c, Mine(c, n), x).woken : x \in DOMAIN rw}
                         \cup {ReleasedSem(c, Mine(c, n), x).woken : x \in DOMAIN sem})
    BY ReleasedParts
  <2> QED
    BY <2>1, <2>2, Zenon
<1>4. \A y \in AllLocks : y[2] \in Stops /\ y[2] # "table"
  BY LockNames, KeyAssumption DEF Stops
<1>5. ASSUME NEW y \in AllLocks
      PROVE  /\ HasOf(next, y) = HasOf(call, y) \ {c} /\ WantsOf(next, y) = WantsOf(call, y)
             /\ c \in HasOf(call, y) <=> y[1] = ProcessOf[c] /\ y[2] \in mine
  <2>1. 1..0 = {}
    OBVIOUS
  <2>2. ~HasAt(k, c, y[2]) /\ ~WantsAt(k, c, y[2]) /\ ~WantsAt(call[c], c, y[2])
    BY <1>1, <1>2, <2>1 DEF HasAt, WantsAt
  <2>3. c \notin HasOf(next, y) /\ c \notin WantsOf(next, y) /\ c \notin WantsOf(call, y)
    BY <1>2, <2>2 DEF HasOf, WantsOf
  <2>4. HasAt(call[c], c, y[2]) <=> y[2] \in mine
    BY <1>2, <1>4 DEF HasAt, Mine
  <2>5. c \in HasOf(call, y) <=> y[1] = ProcessOf[c] /\ y[2] \in mine
    BY <2>4 DEF HasOf
  <2> QED
    BY <1>2, <2>3, <2>5, ShareMoves
<1>6. LocksOK(rw, sem, call)
  BY DEF FlowOK
<1> HIDE DEF mine, W, n
<1>7. ASSUME NEW x \in SemKeys
      PROVE  SemLeft(ReleasedSem(c, mine, x), HasOf(next, x), WantsOf(next, x), LimitOf(x))
  <2> DEFINE g == ReleasedSem(c, mine, x)
             H == HasOf(call, x)
             Q == WantsOf(call, x)
  <2>1. x \in AllLocks /\ SemInv(sem[x], H, Q, LimitOf(x))
    BY <1>6 DEF LocksOK, AllLocks
  <2>2. HasOf(next, x) = H \ {c} /\ WantsOf(next, x) = Q
    BY <1>5, <2>1
  <2>3. CASE c \in H
    <3>1. g = SemRelease(sem[x])
      BY <1>5, <2>1, <2>3 DEF ReleasedSem
    <3> HIDE DEF g, H, Q
    <3>2. SemLeft(g, H \ {c}, Q, LimitOf(x))
      BY <2>1, <2>3, <3>1, SemReleaseKeeps
    <3> QED
      BY <2>2, <3>2 DEF g
  <2>4. CASE c \notin H
    <3>1. g = [lock |-> sem[x], woken |-> {}]
      BY <1>5, <2>1, <2>4 DEF ReleasedSem
    <3>2. H \ {c} = H
      BY <2>4
    <3> HIDE DEF g, H, Q
    <3>3. SemLeft(g, H, Q, LimitOf(x))
      BY <2>1, <3>1, SemUntouched
    <3> QED
      BY <2>2, <3>2, <3>3 DEF g
  <2> QED
    BY <2>3, <2>4
<1>8. ASSUME NEW x \in RWKeys
      PROVE  RWLeft(ReleasedRW(c, mine, x), HasOf(next, x), WantsOf(next, x), x[2])
  <2> DEFINE g == ReleasedRW(c, mine, x)
             H == HasOf(call, x)
             Q == WantsOf(call, x)
  <2>1. x \in AllLocks /\ RWInv(rw[x], H, Q, x[2])
    BY <1>6 DEF LocksOK, AllLocks
  <2>2. HasOf(next, x) = H \ {c} /\ WantsOf(next, x) = Q
    BY <1>5, <2>1
  <2>3. CASE c \in H
    <3>1. g = RWRelease(rw[x], Access(c, x[2]))
      BY <1>5, <2>1, <2>3 DEF ReleasedRW
    <3> HIDE DEF g, H, Q
    <3>2. RWLeft(g, H \ {c}, Q, x[2])
      BY <2>1, <2>3, <3>1, RWReleaseKeeps
    <3> QED
      BY <2>2, <3>2 DEF g
  <2>4. CASE c \notin H
    <3>1. g = [lock |-> rw[x], woken |-> {}]
      BY <1>5, <2>1, <2>4 DEF ReleasedRW
    <3>2. H \ {c} = H
      BY <2>4
    <3> HIDE DEF g, H, Q
    <3>3. RWLeft(g, H, Q, x[2])
      BY <2>1, <3>1, RWSame
    <3> QED
      BY <2>2, <3>2, <3>3 DEF g
  <2> QED
    BY <2>3, <2>4
<1> DEFINE w == [y \in AllLocks |-> IF y \in SemKeys THEN ReleasedSem(c, mine, y).woken ELSE ReleasedRW(c, mine, y).woken]
<1>9. /\ \A y \in SemKeys : w[y] = ReleasedSem(c, mine, y).woken
      /\ \A y \in RWKeys : w[y] = ReleasedRW(c, mine, y).woken
  BY LockNames DEF AllLocks
<1> HIDE DEF w
<1>10. DOMAIN rw = RWKeys /\ DOMAIN sem = SemKeys
  BY <1>6 DEF LocksOK
<1>11. \A y \in AllLocks : w[y] \subseteq WantsOf(next, y)
  BY <1>7, <1>8, <1>9 DEF SemLeft, RWLeft, AllLocks
<1>12. \A y \in AllLocks : w[y] \subseteq W
  BY <1>3, <1>9, <1>10 DEF AllLocks
<1>13. \A d \in W : \E y \in AllLocks : d \in w[y]
  BY <1>3, <1>9, <1>10 DEF AllLocks
<1>14. DOMAIN rw' = RWKeys /\ DOMAIN sem' = SemKeys
  BY <1>3, <1>10
<1>15. \A x \in SemKeys : SemInv(sem'[x], HasOf(next, x) \cup w[x], WantsOf(next, x) \ w[x], LimitOf(x))
  BY <1>3, <1>7, <1>9, <1>10 DEF SemLeft
<1>16. \A x \in RWKeys : RWInv(rw'[x], HasOf(next, x) \cup w[x], WantsOf(next, x) \ w[x], x[2])
  BY <1>3, <1>8, <1>9, <1>10 DEF RWLeft
<1>17. LocksOK(rw', sem', call')
  BY <1>2, <1>11, <1>12, <1>13, <1>14, <1>15, <1>16, LocksKeep
<1>18. \A d \in Calls : AtOK(call'[d], d)
  <2>1. \A d \in Calls : call'[d].pc = next[d].pc /\ call'[d].at = next[d].at
    BY <1>2, WakeKeepsAt
  <2>2. \A d \in Calls : AtOK(call[d], d) /\ Len(Path(d)) \in Nat
    BY PathClimbs DEF FlowOK
  <2>3. AtOK(next[c], c)
    BY <1>1, <1>2, <2>2 DEF AtOK
  <2>4. \A d \in Calls : AtOK(next[d], d)
    BY <1>2, <2>2, <2>3
  <2> QED
    BY <2>1, <2>4 DEF AtOK
<1> QED
  BY <1>17, <1>18 DEF FlowOK

LEMMA FlowNext ==
  ASSUME FlowOK, TypeOK, [Next]_vars
  PROVE  FlowOK'
<1>1. call \in [Calls -> CallStates] /\ lastToken \in Nat
  BY DEF TypeOK
<1>2. CASE UNCHANGED vars
  <2>1. UNCHANGED <<rw, sem>> /\ call' = call
    BY <1>2 DEF vars
  <2>2. \A d \in Calls : SameShare(call'[d], call[d]) /\ AtOK(call'[d], d)
    BY <2>1 DEF FlowOK, SameShare
  <2> QED
    BY <2>1, <2>2, FlowSame
<1>3. CASE Next
  <2>1. PICK c \in Calls :
           \/ RejectBatch(c) \/ Guard(c) \/ Enter(c) \/ Resume(c) \/ TryTable(c)
           \/ LockTimeout(c) \/ Dispatch(c) \/ Commit(c) \/ HandlerEnds(c)
           \/ Lapse(c) \/ HeartbeatFails(c) \/ NoticeLost(c) \/ Unwind(c) \/ After(c)
           \/ Interrupt(c) \/ InterruptRelease(c)
           \/ BreakOff(c) \/ ObserverFails(c) \/ CancelTask(c) \/ RepairBatch(c)
    BY <1>3 DEF Next
  <2>2. CASE \/ RejectBatch(c) \/ Guard(c) \/ Dispatch(c) \/ Commit(c) \/ HandlerEnds(c)
             \/ Lapse(c) \/ HeartbeatFails(c) \/ NoticeLost(c) \/ After(c) \/ InterruptRelease(c)
             \/ (Interrupt(c) \/ CancelTask(c)) /\ call[c].pc # "waiting"
             \/ BreakOff(c) \/ ObserverFails(c) \/ RepairBatch(c)
    BY <1>1, <2>2, FlowQuiet
  <2>3. CASE Enter(c)
    BY <1>1, <2>3, FlowEnter
  <2>4. CASE Resume(c)
    BY <1>1, <2>4, FlowResume
  <2>5. CASE TryTable(c)
    BY <1>1, <2>5, FlowTable
  <2>6. CASE LockTimeout(c) \/ (Interrupt(c) /\ call[c].pc = "waiting")
             \/ (CancelTask(c) /\ call[c].pc = "waiting")
    <3>1. \E why \in Endings : call[c].pc = "waiting" /\ GiveUp(c, why, call)
      BY <2>6 DEF LockTimeout, Interrupt, CancelTask, Endings
    <3> QED
      BY <1>1, <3>1, FlowGiveUp
  <2>7. CASE Unwind(c)
    BY <1>1, <2>7, FlowUnwind
  <2> QED
    BY <2>1, <2>2, <2>3, <2>4, <2>5, <2>6, <2>7
<1> QED
  BY <1>2, <1>3

LEMMA GrantsFromFlow ==
  ASSUME FlowOK
  PROVE  GrantsAccountedFor
<1>1. LocksOK(rw, sem, call)
  BY DEF FlowOK
<1>2. \A x : Holders(x[1], x[2]) = HasOf(call, x)
  BY DEF Holders, Holds, Awaits, HasOf, HasAt
<1>3. ASSUME NEW x \in DOMAIN sem
      PROVE  sem[x].value + Cardinality(Holders(x[1], x[2])) = IF x[2] = "tenant" THEN TenantLimit ELSE ParallelLimit
  <2>1. SemInv(sem[x], HasOf(call, x), WantsOf(call, x), LimitOf(x))
    BY <1>1 DEF LocksOK
  <2> QED
    BY <1>2, <2>1 DEF SemInv, SemAcc, LimitOf
<1>4. ASSUME NEW x \in DOMAIN rw
      PROVE  LET H == Holders(x[1], x[2])
             IN /\ rw[x].writer = (\E c \in H : Access(c, x[2]) = "write")
                /\ rw[x].readers = Cardinality({c \in H : Access(c, x[2]) = "read"})
                /\ \A c, d \in H : c = d \/ ~Conflict(Access(c, x[2]), Access(d, x[2]))
  <2> DEFINE H == Holders(x[1], x[2])
  <2>1. RWInv(rw[x], H, WantsOf(call, x), x[2])
    BY <1>1, <1>2 DEF LocksOK
  <2> HIDE DEF H
  <2>2. /\ rw[x].writer \in BOOLEAN
        /\ rw[x].writer <=> \E c \in H : Access(c, x[2]) = "write"
        /\ rw[x].readers = Cardinality({c \in H : Access(c, x[2]) = "read"})
        /\ \A c, d \in H : c = d \/ ~Conflict(Access(c, x[2]), Access(d, x[2]))
    <3> DEFINE r == x[2]
               l == rw[x]
               Q == WantsOf(call, x)
    <3>1. RWInv(l, H, Q, r)
      BY <2>1
    <3> HIDE DEF r, l, Q
    <3>2. l.writer \in BOOLEAN /\ l.readers = Cardinality(ReadersOf(H, r))
      BY <3>1, RWParts
    <3>3. l.writer <=> \E c \in H : Access(c, r) = "write"
      BY <3>1 DEF RWInv, RWAcc
    <3>4. \A c, d \in H : c = d \/ ~Conflict(Access(c, r), Access(d, r))
      BY <3>1 DEF RWInv, RWAcc
    <3> QED
      BY <3>2, <3>3, <3>4 DEF r, l, ReadersOf
  <2>3. rw[x].writer = (\E c \in H : Access(c, x[2]) = "write")
    BY <2>2, Zenon
  <2> QED
    BY <2>2, <2>3 DEF H
<1> QED
  BY <1>3, <1>4 DEF GrantsAccountedFor

\* A lock that a call is queued for is held.
LEMMA AwaitedIsHeld ==
  ASSUME FlowOK, NEW x \in AllLocks, NEW c \in WantsOf(call, x)
  PROVE  HasOf(call, x) # {}
<1> DEFINE H == HasOf(call, x)
           Q == WantsOf(call, x)
<1>1. H \subseteq Calls /\ c \in Q
  BY DEF HasOf
<1>2. CASE x \in SemKeys
  <2>1. SemInv(sem[x], H, Q, LimitOf(x))
    BY <1>2 DEF FlowOK, LocksOK
  <2> HIDE DEF H, Q
  <2>2. /\ QueueOK(sem[x].queue, Q) /\ sem[x].value \in Nat /\ sem[x].value + Cardinality(H) = LimitOf(x)
        /\ sem[x].value > 0 => sem[x].queue = << >>
    BY <2>1 DEF SemInv, SemAcc
  <2>3. sem[x].queue # << >>
    <3>1. \E i \in 1..Len(sem[x].queue) : sem[x].queue[i].who = c
      BY <1>1, <2>2, QueueNames
    <3>2. Len(<< >>) = 0 /\ 1..0 = {}
      OBVIOUS
    <3> QED
      BY <3>1, <3>2
  <2>4. LimitOf(x) \in Nat /\ LimitOf(x) > 0
    BY LimitAssumption DEF LimitOf
  <2>5. Cardinality(H) # 0
    BY <2>2, <2>3, <2>4
  <2> QED
    BY <2>5, FS_EmptySet DEF H
<1>3. CASE x \in RWKeys
  <2>1. RWInv(rw[x], H, Q, x[2])
    BY <1>3 DEF FlowOK, LocksOK
  <2> HIDE DEF H, Q
  <2>2. /\ QueueOK(rw[x].queue, Q)
        /\ rw[x].writer <=> \E d \in H : Access(d, x[2]) = "write"
        /\ rw[x].readers = Cardinality(ReadersOf(H, x[2])) /\ rw[x].readers \in Nat
    BY <2>1, RWParts
  <2>3. rw[x].queue # << >>
    <3>1. \E i \in 1..Len(rw[x].queue) : rw[x].queue[i].who = c
      BY <1>1, <2>2, QueueNames
    <3>2. Len(<< >>) = 0 /\ 1..0 = {}
      OBVIOUS
    <3> QED
      BY <3>1, <3>2
  <2>4. rw[x].writer \/ rw[x].readers > 0
    BY <2>1, <2>3 DEF RWInv
  <2>5. CASE rw[x].writer
    BY <2>2, <2>5 DEF H
  <2>6. CASE rw[x].readers > 0
    <3>1. Cardinality(ReadersOf(H, x[2])) # 0
      BY <2>2, <2>6
    <3>2. ReadersOf(H, x[2]) # {}
      BY <3>1, FS_EmptySet
    <3> QED
      BY <3>2 DEF ReadersOf, H
  <2> QED
    BY <2>4, <2>5, <2>6
<1> QED
  BY <1>2, <1>3 DEF AllLocks

LEMMA RankBound ==
  ASSUME NEW r \in Things
  PROVE  Rank(r) \in Nat /\ Rank(r) <= Top + 3
<1>1. Top \in Nat /\ Rank(r) \in Nat
  BY Orders
<1>2. CASE r \in Keys
  <2>1. Rank(r) \in 1..Top
    BY <1>2, Orders
  <2> QED
    BY <1>1, <2>1
<1>3. CASE r \in {"barrier", "table", "tenant", "parallel"}
  BY <1>1, <1>3, Orders
<1> QED
  BY <1>1, <1>2, <1>3 DEF Things

\* Of the calls that wait, one waits for the thing of highest rank; whoever has
\* it waits for nothing, or something of higher rank.
LEMMA NoCircleFromFlow ==
  ASSUME FlowOK, TypeOK
  PROVE  NoCircularWait
<1> SUFFICES ASSUME NEW p \in Processes,
                    NEW c0 \in Calls, ProcessOf[c0] = p, call[c0].pc = "waiting",
                    \A c \in Calls : ProcessOf[c] = p =>
                       ~(\/ call[c].pc \in {"running", "unwind"}
                         \/ call[c].pc = "waiting" /\ (call[c].granted \/ Awaits(c, "table"))
                         \/ call[c].pc \in {"after", "ended"} /\ call[c].at > 0)
             PROVE  FALSE
  BY DEF NoCircularWait
<1> DEFINE Waits(c) == ProcessOf[c] = p /\ call[c].pc = "waiting"
           For(c) == Path(c)[call[c].at + 1]
           M == {m \in Nat : \E c \in Calls : Waits(c) /\ m = (Top + 3) - Rank(For(c))}
<1>1. Top \in Nat
  BY Orders
<1>2. ASSUME NEW c \in Calls
      PROVE  /\ call[c] \in CallStates /\ AtOK(call[c], c) /\ call[c].at \in Nat /\ Len(Path(c)) \in Nat
             /\ call[c].granted \in BOOLEAN
  BY PathClimbs DEF TypeOK, FlowOK, CallStates
<1>3. ASSUME NEW c \in Calls, Waits(c)
      PROVE  /\ call[c].at + 1 \in 1..Len(Path(c)) /\ ~call[c].granted
             /\ For(c) \in Stops /\ Rank(For(c)) \in Nat /\ Rank(For(c)) <= Top + 3
  <2>1. call[c].at < Len(Path(c)) /\ call[c].at \in Nat
    BY <1>2, <1>3 DEF AtOK
  <2>2. ~call[c].granted /\ For(c) # "table"
    BY <1>3 DEF Awaits
  <2>3. call[c].at + 1 \in 1..Len(Path(c)) /\ For(c) \in Stops
    BY <2>1, <2>2, NextStop
  <2>4. For(c) \in Things
    BY <2>3 DEF Stops, Things
  <2> HIDE DEF For
  <2> QED
    BY <2>2, <2>3, <2>4, RankBound
<1>4. ASSUME NEW c \in Calls, Waits(c) PROVE (Top + 3) - Rank(For(c)) \in M
  <2>1. (Top + 3) - Rank(For(c)) \in Nat
    BY <1>1, <1>3, <1>4
  <2> QED
    BY <1>4, <2>1
<1>5. PICK m \in M : \A y \in M : m <= y
  <2>1. M # {} /\ M \in SUBSET Nat
    BY <1>4
  <2> HIDE DEF M
  <2> QED
    BY <2>1, NatMin
<1>6. PICK c \in Calls : Waits(c) /\ m = (Top + 3) - Rank(For(c))
  OBVIOUS
<1> DEFINE x == <<p, For(c)>>
<1>7. x \in AllLocks /\ c \in WantsOf(call, x) /\ x[1] = p /\ x[2] = For(c)
  <2>1. For(c) \in Stops /\ ~call[c].granted
    BY <1>3, <1>6
  <2>2. x \in AllLocks
    BY <1>6, <2>1, LockNames
  <2>3. WantsAt(call[c], c, For(c))
    BY <1>6, <2>1 DEF WantsAt
  <2> QED
    BY <1>6, <2>2, <2>3 DEF WantsOf
<1>8. PICK d \in Calls : ProcessOf[d] = p /\ HasAt(call[d], d, For(c))
  <2>1. HasOf(call, x) # {}
    BY <1>7, AwaitedIsHeld
  <2> QED
    BY <1>7, <2>1 DEF HasOf
<1>9. PICK i \in 1..call[d].at : Path(d)[i] = For(c)
  <2>1. ~(call[d].pc = "waiting" /\ call[d].granted)
    BY <1>8
  <2> QED
    BY <1>8, <2>1 DEF HasAt
<1>10. Waits(d)
  <2>1. call[d].at > 0
    BY <1>2, <1>9
  <2>2. call[d].pc \notin {"running", "unwind", "after", "ended"}
    BY <1>8, <2>1
  <2>3. call[d].pc \notin {"new", "queued", "backoff"}
    BY <1>2, <2>1 DEF AtOK
  <2>4. call[d].pc \in {"new", "queued", "waiting", "running", "unwind", "backoff", "after", "ended"}
    BY <1>2 DEF CallStates
  <2> QED
    BY <1>8, <2>2, <2>3, <2>4
<1>11. Rank(For(c)) < Rank(For(d))
  <2>1. call[d].at + 1 \in 1..Len(Path(d)) /\ call[d].at \in Nat /\ Len(Path(d)) \in Nat
    BY <1>2, <1>3, <1>10
  <2>2. i \in 1..Len(Path(d)) /\ i < call[d].at + 1
    BY <1>9, <2>1
  <2>3. Rank(Path(d)[i]) < Rank(Path(d)[call[d].at + 1])
    BY <2>1, <2>2, PathClimbs
  <2> QED
    BY <1>9, <2>3
<1>12. m <= (Top + 3) - Rank(For(d))
  BY <1>4, <1>5, <1>10
<1>13. Rank(For(c)) \in Nat /\ Rank(For(d)) \in Nat
  BY <1>3, <1>6, <1>10
<1> HIDE DEF For, M
<1> QED
  BY <1>1, <1>6, <1>11, <1>12, <1>13

LEMMA FlowInvariance == Spec => []FlowOK
<1>1. Inv => TypeOK
  BY DEF Inv
<1>2. FlowOK /\ TypeOK /\ [Next]_vars => FlowOK'
  BY FlowNext
<1> QED
  BY FlowInit, <1>1, <1>2, Invariance, PTL DEF Spec

-----------------------------------------------------------------------------
\* Every slot of _FairPrioritySemaphore is free or with exactly one call, and
\* every _FairAsyncRWLock counts exactly the readers and the writer that have
\* it, which may have it together: also when a grant races with a timeout or an
\* interruption and acquire's except clause gives it back, for any number of
\* calls, keys and slots and any order of the tools' own key lists.
THEOREM GrantsAccountedForHolds == Spec => []GrantsAccountedFor
<1>1. FlowOK => GrantsAccountedFor
  BY GrantsFromFlow
<1> QED
  BY <1>1, FlowInvariance, PTL

\* No wake-up is missed and no circle forms: whenever a call of a process waits
\* in ToolScheduler.acquire, some call of this process is not queued behind
\* another one, or has left its locks behind when its release was interrupted.
THEOREM NoCircularWaitHolds == Spec => []NoCircularWait
<1>1. Inv => TypeOK
  BY DEF Inv
<1>2. FlowOK /\ TypeOK => NoCircularWait
  BY NoCircleFromFlow
<1> QED
  BY <1>1, <1>2, FlowInvariance, Invariance, PTL

=============================================================================
