------------------------ MODULE FencedClaims_proofs ------------------------
(***************************************************************************)
(* What fencing guarantees, for any owners, keys, lease length and bounds, *)
(* and for a clock that may be set back.  The argument is one invariant:   *)
(* every lease handed out is at or behind its row's generation, and at the *)
(* row's generation it belongs to the row's owner.                         *)
(***************************************************************************)
EXTENDS FencedClaims, TLAPS

\* Every lease is at or behind the generation of its row; a lease at the
\* row's generation was handed out to the row's owner.
LeasesBehindRow ==
    \A l \in leases :
        /\ l.gen <= claims[l.key].gen
        /\ l.gen = claims[l.key].gen => l.owner = claims[l.key].owner

\* Only leases that were handed out have appended.
LogFromLeases == \A i \in 1..Len(log) : log[i] \in leases

\* The inductive invariant.
Inv ==
    /\ TypeOK
    /\ LeasesBehindRow
    /\ LogFromLeases
    /\ OneOwnerPerGeneration
    /\ AppendsInGenerationOrder

-----------------------------------------------------------------------------
\* A released row stays a row, keeps its owner and moves one generation on.
LEMMA ReleasedRowFacts ==
  ASSUME NEW row \in Rows
  PROVE  /\ ReleasedRow(row) \in Rows
         /\ ReleasedRow(row).owner = row.owner
         /\ ReleasedRow(row).gen = row.gen + 1
  BY DEF Rows, ReleasedRow

\* A renewed row stays a row and keeps its owner and generation.
LEMMA RenewedRowFacts ==
  ASSUME NEW row \in Rows, NEW t \in Nat
  PROVE  /\ RenewedRow(row, t, Lease) \in Rows
         /\ RenewedRow(row, t, Lease).owner = row.owner
         /\ RenewedRow(row, t, Lease).gen = row.gen
  BY ClaimsAssumption DEF Rows, RenewedRow

\* An acquired row belongs to the caller, at the same generation only when
\* the caller already owned the row.
LEMMA AcquiredRowFacts ==
  ASSUME NEW row \in Rows, NEW o \in Owners, NEW t \in Nat
  PROVE  /\ AcquiredRow(row, o, t, Lease) \in Rows
         /\ AcquiredRow(row, o, t, Lease).owner = o
         /\ \/ AcquiredRow(row, o, t, Lease).gen = row.gen + 1
            \/ AcquiredRow(row, o, t, Lease).gen = row.gen /\ row.owner = o
  BY ClaimsAssumption DEF Rows, AcquiredRow

\* The claim table and everything else keeps its type, whatever calls arrive.
THEOREM TypeCorrect == Spec => []TypeOK
<1>1. Init => TypeOK
  BY ClaimsAssumption DEF Init, TypeOK, Rows, AbsentRow
<1>2. TypeOK /\ [Next]_vars => TypeOK'
  <2> SUFFICES ASSUME TypeOK, [Next]_vars PROVE TypeOK'
    OBVIOUS
  <2> USE ClaimsAssumption DEF TypeOK
  <2>1. ASSUME NEW o \in Owners, NEW k \in Keys, BeginAcquire(o, k) PROVE TypeOK'
    BY <2>1 DEF BeginAcquire, Call, Calls
  <2>2. ASSUME NEW o \in Owners, NEW k \in Keys, ReleaseClaim(o, k) PROVE TypeOK'
    BY <2>2, ReleasedRowFacts DEF ReleaseClaim
  <2>3. ASSUME NEW l \in leases, BeginRenew(l) PROVE TypeOK'
    <3>1. l.key \in Keys /\ l.owner \in Owners /\ l.gen \in Nat
      BY DEF LeaseRecords
    <3>2. Call("renew", l.key, l.owner, l.gen) \in Calls
      BY <3>1 DEF Call, Calls
    <3> QED
      BY <2>3, <3>2 DEF BeginRenew
  <2>4. ASSUME NEW l \in leases, FencedAppend(l) PROVE TypeOK'
    <3>1. l \in LeaseRecords /\ l.key \in Keys
      BY DEF LeaseRecords
    <3>2. RenewedRow(claims[l.key], clock, Lease) \in Rows
      BY <3>1, RenewedRowFacts
    <3>3. claims' \in [Keys -> Rows] /\ log' \in Seq(LeaseRecords)
      BY <2>4, <3>1, <3>2 DEF FencedAppend
    <3> QED
      BY <2>4, <3>3 DEF FencedAppend
  <2>5. ASSUME NEW l \in leases, ReleaseFenced(l) PROVE TypeOK'
    <3>1. l.key \in Keys
      BY DEF LeaseRecords
    <3> QED
      BY <2>5, <3>1, ReleasedRowFacts DEF ReleaseFenced
  <2>6. ASSUME NEW c \in calls, Acquire(c) PROVE TypeOK'
    <3>1. c.key \in Keys /\ c.owner \in Owners /\ c.now \in Nat
      BY DEF Calls
    <3> DEFINE new == AcquiredRow(claims[c.key], c.owner, c.now, Lease)
    <3>2. new \in Rows /\ new.gen \in Nat
      BY <3>1, AcquiredRowFacts DEF Rows
    <3>3. [key |-> c.key, owner |-> c.owner, gen |-> new.gen] \in LeaseRecords
      BY <3>1, <3>2 DEF LeaseRecords
    <3> HIDE DEF new
    <3>4. /\ claims' \in [Keys -> Rows]
          /\ leases' \subseteq LeaseRecords
      BY <2>6, <3>1, <3>2, <3>3 DEF Acquire, new
    <3> QED
      BY <2>6, <3>4 DEF Acquire
  <2>7. ASSUME NEW c \in calls, Renew(c) PROVE TypeOK'
    <3>1. c.key \in Keys /\ c.now \in Nat
      BY DEF Calls
    <3> QED
      BY <2>7, <3>1, RenewedRowFacts DEF Renew
  <2>8. CASE SetClock
    BY <2>8 DEF SetClock
  <2>9. CASE UNCHANGED vars
    BY <2>9 DEF vars
  <2> QED
    BY <2>1, <2>2, <2>3, <2>4, <2>5, <2>6, <2>7, <2>8, <2>9 DEF Next
<1> QED
  BY <1>1, <1>2, PTL DEF Spec

-----------------------------------------------------------------------------
\* The step that carries the argument: every action keeps Inv.
LEMMA InvNext == Inv /\ TypeOK' /\ [Next]_vars => Inv'
<1> SUFFICES ASSUME Inv, TypeOK', [Next]_vars PROVE Inv'
  OBVIOUS
<1> USE ClaimsAssumption
\* Facts about a lease and its row, used by every action on a lease.
<1>a. \A l \in leases : l.key \in Keys /\ l.owner \in Owners /\ l.gen \in Nat
  BY DEF Inv, TypeOK, LeaseRecords
<1>b. \A k \in Keys : claims[k] \in Rows /\ claims[k].gen \in Nat
  BY DEF Inv, TypeOK, Rows
<1>c. log \in Seq(LeaseRecords)
  BY DEF Inv, TypeOK
\* An action that hands out no lease, appends nothing and lets no row's
\* generation go back, nor change its owner at the same generation, keeps Inv.
<1>d. ASSUME leases' = leases, log' = log,
             \A k \in Keys : \/ claims'[k].gen = claims[k].gen /\ claims'[k].owner = claims[k].owner
                            \/ claims'[k].gen = claims[k].gen + 1
      PROVE  Inv'
  <2>1. LeasesBehindRow'
    BY <1>a, <1>b, <1>d DEF Inv, LeasesBehindRow
  <2> QED
    BY <1>d, <2>1 DEF Inv, LogFromLeases, OneOwnerPerGeneration, AppendsInGenerationOrder
<1>1. ASSUME NEW o \in Owners, NEW k \in Keys, BeginAcquire(o, k) PROVE Inv'
  BY <1>1, <1>d DEF BeginAcquire
<1>2. ASSUME NEW o \in Owners, NEW k \in Keys, ReleaseClaim(o, k) PROVE Inv'
  <2>1. \A q \in Keys : claims'[q] = IF q = k THEN ReleasedRow(claims[q]) ELSE claims[q]
    BY <1>2 DEF ReleaseClaim, Inv, TypeOK
  <2> QED
    BY <1>2, <1>b, <1>d, <2>1, ReleasedRowFacts DEF ReleaseClaim
<1>3. ASSUME NEW l \in leases, BeginRenew(l) PROVE Inv'
  BY <1>3, <1>d DEF BeginRenew
<1>4. ASSUME NEW l \in leases, FencedAppend(l) PROVE Inv'
  <2>1. \A q \in Keys : claims'[q] = IF q = l.key THEN RenewedRow(claims[q], clock, Lease) ELSE claims[q]
    BY <1>4 DEF FencedAppend, Inv, TypeOK
  <2>2. clock \in Nat
    BY DEF Inv, TypeOK
  <2>3. \A q \in Keys : claims'[q].gen = claims[q].gen /\ claims'[q].owner = claims[q].owner
    BY <1>b, <2>1, <2>2, RenewedRowFacts
  <2>4. LeasesBehindRow'
    BY <1>4, <1>a, <2>3 DEF Inv, LeasesBehindRow, FencedAppend
  <2>5. l.gen = claims[l.key].gen
    BY <1>4 DEF FencedAppend, LeaseCurrent, Names
  <2>6. /\ Len(log') = Len(log) + 1
        /\ \A i \in 1..Len(log) : log'[i] = log[i]
        /\ log'[Len(log) + 1] = l
        /\ Len(log) \in Nat
    <3>1. l \in LeaseRecords
      BY DEF Inv, TypeOK
    <3> QED
      BY <1>4, <1>c, <3>1 DEF FencedAppend
  <2>7. LogFromLeases'
    BY <1>4, <2>6 DEF Inv, LogFromLeases, FencedAppend
  <2>8. \A i \in 1..Len(log) : log[i].key = l.key => log[i].gen <= l.gen
    BY <2>5 DEF Inv, LogFromLeases, LeasesBehindRow
  <2>9. AppendsInGenerationOrder'
    <3> SUFFICES ASSUME NEW i \in 1..Len(log'), NEW j \in 1..Len(log'),
                        i < j, log'[i].key = log'[j].key
                 PROVE  log'[i].gen <= log'[j].gen
      BY DEF AppendsInGenerationOrder
    <3>1. i \in 1..Len(log) /\ (j \in 1..Len(log) \/ j = Len(log) + 1)
      BY <2>6
    <3>2. CASE j \in 1..Len(log)
      BY <2>6, <3>1, <3>2 DEF Inv, AppendsInGenerationOrder
    <3>3. CASE j = Len(log) + 1
      BY <2>6, <2>8, <3>1, <3>3
    <3> QED
      BY <3>1, <3>2, <3>3
  <2> QED
    BY <1>4, <2>4, <2>7, <2>9 DEF Inv, OneOwnerPerGeneration, FencedAppend
<1>5. ASSUME NEW l \in leases, ReleaseFenced(l) PROVE Inv'
  <2>1. \A q \in Keys : claims'[q] = IF q = l.key THEN ReleasedRow(claims[q]) ELSE claims[q]
    BY <1>5 DEF ReleaseFenced, Inv, TypeOK
  <2> QED
    BY <1>5, <1>b, <1>d, <2>1, ReleasedRowFacts DEF ReleaseFenced
<1>6. ASSUME NEW c \in calls, Acquire(c) PROVE Inv'
  <2>1. c.key \in Keys /\ c.owner \in Owners /\ c.now \in Nat
    BY DEF Inv, TypeOK, Calls
  <2>2. CASE AcquireRefused(claims[c.key], c.owner, c.now)
    BY <1>6, <1>d, <2>2 DEF Acquire
  <2>3. CASE ~AcquireRefused(claims[c.key], c.owner, c.now)
    <3> DEFINE new == AcquiredRow(claims[c.key], c.owner, c.now, Lease)
               nl  == [key |-> c.key, owner |-> c.owner, gen |-> new.gen]
    <3>1. /\ leases' = leases \cup {nl}
          /\ log' = log
          /\ \A q \in Keys : claims'[q] = IF q = c.key THEN new ELSE claims[q]
      BY <1>6, <2>1, <2>3 DEF Acquire, Inv, TypeOK
    <3>2. /\ new \in Rows
          /\ new.owner = c.owner
          /\ \/ new.gen = claims[c.key].gen + 1
             \/ new.gen = claims[c.key].gen /\ claims[c.key].owner = c.owner
      <4>1. claims[c.key] \in Rows
        BY <1>b, <2>1
      <4>2. c.owner \in Owners /\ c.now \in Nat
        BY <2>1
      <4> QED
        BY <4>1, <4>2, AcquiredRowFacts, SMTT(60)
    <3>3. nl.key = c.key /\ nl.owner = c.owner /\ nl.gen = new.gen /\ new.gen \in Nat
      BY <3>2 DEF Rows
    <3> HIDE DEF new, nl
    <3>4. LeasesBehindRow'
      <4> SUFFICES ASSUME NEW l \in leases \cup {nl}
                   PROVE  /\ l.gen <= claims'[l.key].gen
                          /\ l.gen = claims'[l.key].gen => l.owner = claims'[l.key].owner
        BY <3>1 DEF LeasesBehindRow
      <4>1. CASE l = nl
        BY <2>1, <3>1, <3>2, <3>3, <4>1
      <4>2. CASE l \in leases
        <5>1. l.key \in Keys /\ l.gen \in Nat /\ claims[l.key].gen \in Nat
          BY <1>a, <1>b, <4>2
        <5>2. /\ l.gen <= claims[l.key].gen
              /\ l.gen = claims[l.key].gen => l.owner = claims[l.key].owner
          BY <4>2 DEF Inv, LeasesBehindRow
        <5> QED
          BY <3>1, <3>2, <3>3, <5>1, <5>2
      <4> QED
        BY <4>1, <4>2
    <3>5. \A l \in leases : l.key = nl.key /\ l.gen = nl.gen => l.owner = nl.owner
      BY <1>a, <1>b, <3>2, <3>3 DEF Inv, LeasesBehindRow
    <3>6. OneOwnerPerGeneration'
      BY <3>1, <3>5 DEF Inv, OneOwnerPerGeneration
    <3>7. LogFromLeases' /\ AppendsInGenerationOrder'
      BY <3>1 DEF Inv, LogFromLeases, AppendsInGenerationOrder
    <3> QED
      BY <3>4, <3>6, <3>7 DEF Inv
  <2> QED
    BY <2>2, <2>3
<1>7. ASSUME NEW c \in calls, Renew(c) PROVE Inv'
  <2>1. c.key \in Keys /\ c.now \in Nat
    BY DEF Inv, TypeOK, Calls
  <2>2. \A q \in Keys : \/ claims'[q] = claims[q]
                       \/ claims'[q] = RenewedRow(claims[q], c.now, Lease)
    BY <1>7, <2>1 DEF Renew, Inv, TypeOK
  <2>3. \A q \in Keys : claims'[q].gen = claims[q].gen /\ claims'[q].owner = claims[q].owner
    <3> SUFFICES ASSUME NEW q \in Keys
                 PROVE  claims'[q].gen = claims[q].gen /\ claims'[q].owner = claims[q].owner
      OBVIOUS
    <3>1. claims[q] \in Rows
      BY <1>b
    <3>2. /\ RenewedRow(claims[q], c.now, Lease).owner = claims[q].owner
          /\ RenewedRow(claims[q], c.now, Lease).gen = claims[q].gen
      BY <2>1, <3>1, RenewedRowFacts
    <3> QED
      BY <2>2, <3>2
  <2> QED
    BY <1>7, <1>d, <2>3 DEF Renew
<1>8. CASE SetClock
  BY <1>8, <1>d DEF SetClock
<1>9. CASE UNCHANGED vars
  BY <1>9, <1>d DEF vars
<1> QED
  BY <1>1, <1>2, <1>3, <1>4, <1>5, <1>6, <1>7, <1>8, <1>9 DEF Next

\* The invariant holds in every reachable state.
LEMMA InvHolds == Spec => []Inv
<1>1. Init => Inv
  <2>1. Init => TypeOK
    BY ClaimsAssumption DEF Init, TypeOK, Rows, AbsentRow
  <2> QED
    BY <2>1 DEF Init, Inv, LeasesBehindRow, LogFromLeases, OneOwnerPerGeneration,
                AppendsInGenerationOrder
<1> QED
  BY <1>1, InvNext, TypeCorrect, PTL DEF Spec

\* A generation identifies one owner: the fencing token that the handlers and
\* the persisted events carry is enough to tell two workers apart.
THEOREM OneOwnerPerGenerationHolds == Spec => []OneOwnerPerGeneration
  BY InvHolds, PTL DEF Inv

\* Fenced batches are appended in generation order, whatever order the calls
\* of replaced workers arrive in.
THEOREM AppendsInGenerationOrderHolds == Spec => []AppendsInGenerationOrder
  BY InvHolds, PTL DEF Inv

\* No append is made under a lease that has been superseded.
THEOREM AppendUnderNewestLeaseHolds == Spec => AppendUnderNewestLease
<1> DEFINE A == log' # log =>
          \A l \in leases : l.key = log'[Len(log')].key => l.gen <= log'[Len(log')].gen
<1>1. Inv /\ [Next]_vars => [A]_vars
  <2> SUFFICES ASSUME Inv, Next, log' # log PROVE A
    BY DEF vars
  <2>1. PICK l \in leases : FencedAppend(l)
    BY DEF Next, BeginAcquire, ReleaseClaim, BeginRenew, ReleaseFenced, Acquire, Renew, SetClock
  <2>2. log'[Len(log')] = l
    <3>1. l \in LeaseRecords /\ log \in Seq(LeaseRecords)
      BY DEF Inv, TypeOK
    <3> QED
      BY <2>1, <3>1 DEF FencedAppend
  <2>3. l.gen = claims[l.key].gen
    BY <2>1 DEF FencedAppend, LeaseCurrent, Names
  <2> QED
    BY <2>2, <2>3 DEF Inv, LeasesBehindRow
<1> QED
  BY <1>1, InvHolds, PTL DEF Spec, AppendUnderNewestLease

\* No step moves the generation of a row back: not a release, not an acquire
\* with a stale clock, not a renewal that arrives late.
LEMMA GenerationNeverFalls ==
  ASSUME TypeOK, [Next]_vars, NEW k \in Keys
  PROVE  /\ claims[k].gen \in Nat
         /\ claims'[k].gen \in Nat
         /\ claims[k].gen <= claims'[k].gen
<1>1. claims[k] \in Rows /\ claims[k].gen \in Nat
  BY DEF TypeOK, Rows
<1> DEFINE RowStep ==
      \/ claims'[k] = claims[k]
      \/ claims'[k] = ReleasedRow(claims[k])
      \/ \E t \in Nat : claims'[k] = RenewedRow(claims[k], t, Lease)
      \/ \E o \in Owners, t \in Nat : claims'[k] = AcquiredRow(claims[k], o, t, Lease)
<1>2. RowStep
  <2>1. ASSUME NEW c \in calls, Acquire(c) PROVE RowStep
    <3>1. c.key \in Keys /\ c.owner \in Owners /\ c.now \in Nat
      BY DEF TypeOK, Calls
    <3> QED
      BY <2>1, <3>1 DEF Acquire, TypeOK
  <2>2. ASSUME NEW c \in calls, Renew(c) PROVE RowStep
    <3>1. c.key \in Keys /\ c.now \in Nat
      BY DEF TypeOK, Calls
    <3> QED
      BY <2>2, <3>1 DEF Renew, TypeOK
  <2>3. ASSUME NEW l \in leases, FencedAppend(l) \/ ReleaseFenced(l) \/ BeginRenew(l) PROVE RowStep
    BY <2>3 DEF FencedAppend, ReleaseFenced, BeginRenew, TypeOK, LeaseRecords
  <2>4. ASSUME NEW o \in Owners, NEW q \in Keys, BeginAcquire(o, q) \/ ReleaseClaim(o, q) PROVE RowStep
    BY <2>4 DEF BeginAcquire, ReleaseClaim, TypeOK
  <2> QED
    BY <2>1, <2>2, <2>3, <2>4 DEF Next, SetClock, vars
<1>3. CASE claims'[k] = claims[k]
  BY <1>1, <1>3
<1>4. CASE claims'[k] = ReleasedRow(claims[k])
  BY <1>1, <1>4, ReleasedRowFacts
<1>5. ASSUME NEW t \in Nat, claims'[k] = RenewedRow(claims[k], t, Lease)
      PROVE  claims'[k].gen = claims[k].gen
  BY <1>1, <1>5, RenewedRowFacts
<1>6. ASSUME NEW o \in Owners, NEW t \in Nat, claims'[k] = AcquiredRow(claims[k], o, t, Lease)
      PROVE  claims'[k].gen = claims[k].gen + 1 \/ claims'[k].gen = claims[k].gen
  BY <1>1, <1>6, AcquiredRowFacts
<1> QED
  BY <1>1, <1>2, <1>3, <1>4, <1>5, <1>6

\* A lease that a newer owner or a release has displaced never names its row
\* again, so a worker that lost its claim cannot win it back by renewing.
THEOREM LostLeaseStaysLostHolds == Spec => LostLeaseStaysLost
<1> DEFINE A == \A l \in leases : ~Names(claims[l.key], l.owner, l.gen)
                   => ~Names(claims'[l.key], l.owner, l.gen)
<1>1. Inv /\ [Next]_vars => [A]_vars
  <2> SUFFICES ASSUME Inv, [Next]_vars, NEW l \in leases,
                      ~Names(claims[l.key], l.owner, l.gen)
               PROVE  ~Names(claims'[l.key], l.owner, l.gen)
    OBVIOUS
  <2>1. l.key \in Keys /\ l.gen \in Nat
    BY DEF Inv, TypeOK, LeaseRecords
  <2>2. /\ claims[l.key].gen \in Nat
        /\ claims'[l.key].gen \in Nat
        /\ claims[l.key].gen <= claims'[l.key].gen
    BY <2>1, GenerationNeverFalls DEF Inv
  <2>3. l.gen < claims[l.key].gen
    BY <2>1, <2>2 DEF Inv, LeasesBehindRow, Names
  <2> QED
    BY <2>1, <2>2, <2>3 DEF Names
<1> QED
  BY <1>1, InvHolds, PTL DEF Spec, LostLeaseStaysLost

=============================================================================
