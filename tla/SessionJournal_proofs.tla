----------------------- MODULE SessionJournal_proofs -----------------------
(***************************************************************************)
(* The session journal for any number of tenants, writers, catalog clients *)
(* and administrative calls.                                               *)
(*                                                                         *)
(* Both results rest on the high-water mark: every row is below it, the    *)
(* reader's cursor is below it, and no transaction moves it back, not even *)
(* one that deletes the newest rows.  The manifests verify because every   *)
(* transaction signs the manifest of each tenant that has one, or leaves   *)
(* what the others sign alone.                                             *)
(***************************************************************************)
EXTENDS SessionJournal, WellFoundedInduction, TLAPS

\* A row has these fields and no others.
IsRow(r) ==
    r = [seq |-> r.seq, id |-> r.id, st |-> r.st, body |-> r.body, src |-> r.src,
         key |-> r.key, exp |-> r.exp]

RowsBelow(R, m) == \A r \in R : IsRow(r) /\ r.seq \in Nat /\ r.seq < m

\* The tenants with a manifest, a row or a snapshot have signed it all.
Signs(t, R, sn, mf) ==
    mf[t] # Unsigned \/ (\E r \in R : r.st.t = t) \/ (t = CatTenant /\ sn # NoSnap)

AllSigned(R, m, sn, mf) ==
    \A t \in Tenants : Signs(t, R, sn, mf) => mf[t] = Digest(t, R, m, sn)

\* The reader has seen the operation rows of R that its cursor has passed.
Seen(R) ==
    \A r \in R : r.st.t = CatTenant /\ r.st.kind = "operation" /\ r.seq <= reader.cursor
                    => r.id \in reader.seen

Inv ==
    /\ schema \in {1, 2} /\ mark \in Int /\ reader.cursor \in Int
    /\ DOMAIN manifest = Tenants
    /\ schema = 1 => reader.cursor = -1 /\ RowsBelow(rows, 1)
    /\ schema = 2 => /\ mark \in Nat /\ reader.cursor < mark
                     /\ RowsBelow(rows, mark)
                     /\ AllSigned(rows, mark, snap, manifest)
    /\ Seen(rows)

-----------------------------------------------------------------------------
\* A bounded set of sequence numbers has a largest one.
LEMMA BoundedMax ==
  ASSUME NEW S \in SUBSET Nat, NEW m \in Nat, \A s \in S : s < m, S # {}
  PROVE  Max(S) \in S /\ \A s \in S : s <= Max(S)
<1> DEFINE less == OpToRel(<, Nat)
           bounds == {n \in Nat : \A s \in S : s <= n}
<1>1. IsWellFoundedOn(less, Nat)
  BY NatLessThanWellFounded
<1>2. \A x \in Nat, y \in Nat : <<x, y>> \in less <=> x < y
  BY DEF OpToRel
<1>3. bounds \subseteq Nat /\ bounds # {}
  <2>1. m \in bounds
    OBVIOUS
  <2> QED
    BY <2>1
<1> HIDE DEF less
<1>4. PICK b \in bounds : \A y \in bounds : <<y, b>> \notin less
  <2> HIDE DEF bounds
  <2> QED
    BY <1>1, <1>3, WFMin
<1>5. b \in S
  <2> SUFFICES ASSUME b \notin S PROVE FALSE
    OBVIOUS
  <2>1. PICK s \in S : TRUE
    OBVIOUS
  <2>2. b \in Nat /\ s \in Nat /\ s < b /\ \A x \in S : x \in Nat /\ x <= b /\ x # b
    BY <2>1
  <2>3. b - 1 \in Nat /\ \A x \in S : x <= b - 1
    BY <2>2
  <2>4. b - 1 \in bounds /\ b - 1 < b
    BY <2>2, <2>3
  <2> QED
    BY <1>2, <1>4, <2>2, <2>3, <2>4
<1>6. \E x \in S : \A y \in S : x >= y
  BY <1>5
<1>7. Max(S) \in S /\ \A y \in S : Max(S) >= y
  BY <1>6 DEF Max
<1> QED
  BY <1>7

LEMMA TopBelow ==
  ASSUME NEW R, NEW m \in Nat, RowsBelow(R, m)
  PROVE  Top({r.seq : r \in R}) \in Int /\ Top({r.seq : r \in R}) < m
<1> DEFINE S == {r.seq : r \in R}
<1>1. S \in SUBSET Nat /\ \A s \in S : s < m
  BY DEF RowsBelow
<1> HIDE DEF S
<1>2. S # {} => Max(S) \in S
  BY <1>1, BoundedMax
<1>3. Top(S) \in Int /\ Top(S) < m
  <2>1. CASE S = {}
    <3>1. Top(S) = -1
      BY <2>1 DEF Top
    <3> QED
      BY <3>1
  <2>2. CASE S # {}
    <3>1. Top(S) = Max(S)
      BY <2>2 DEF Top
    <3>2. Max(S) \in Nat /\ Max(S) < m
      BY <1>1, <1>2, <2>2
    <3> QED
      BY <3>1, <3>2
  <2> QED
    BY <2>1, <2>2
<1> QED
  BY <1>3 DEF S

\* What _verify_all_manifests_sync checks.
LEMMA InvVerifies ==
  ASSUME Inv
  PROVE  ManifestsVerify
<1> SUFFICES ASSUME schema = 2 PROVE Verified
  BY DEF ManifestsVerify
<1>1. mark > Top({r.seq : r \in rows})
  <2>1. mark \in Nat /\ RowsBelow(rows, mark)
    BY DEF Inv
  <2> QED
    BY <2>1, TopBelow
<1>2. ASSUME NEW t \in SignedTenants(rows, snap)
      PROVE  manifest[t] = Digest(t, rows, mark, snap)
  <2>1. t \in Tenants
    BY DEF SignedTenants, Tenants
  <2>2. Signs(t, rows, snap, manifest)
    BY DEF SignedTenants, Signs
  <2> QED
    BY <2>1, <2>2 DEF Inv, AllSigned
<1> QED
  BY <1>1, <1>2 DEF Verified

\* _refresh_all_manifests_sync signs everything there is to sign.
LEMMA RefreshSigns ==
  ASSUME NEW R, NEW m, NEW sn
  PROVE  /\ AllSigned(R, m, sn, RefreshAll(R, m, sn))
         /\ DOMAIN RefreshAll(R, m, sn) = Tenants
<1> DEFINE mf == RefreshAll(R, m, sn)
<1>1. \A t \in Tenants : mf[t] = IF t \in SignedTenants(R, sn) THEN Digest(t, R, m, sn) ELSE manifest[t]
  BY DEF RefreshAll
<1>2. DOMAIN mf = Tenants
  BY DEF RefreshAll
<1> HIDE DEF mf
<1>3. ASSUME NEW t \in Tenants, Signs(t, R, sn, mf) PROVE mf[t] = Digest(t, R, m, sn)
  <2>1. CASE t \in SignedTenants(R, sn)
    BY <1>1, <2>1
  <2>2. CASE t \notin SignedTenants(R, sn)
    <3>1. mf[t] = manifest[t]
      BY <1>1, <2>2
    <3>2. manifest[t] = Unsigned /\ (\A r \in R : r.st.t # t) /\ (t = CatTenant => sn = NoSnap)
      BY <2>2 DEF SignedTenants
    <3> QED
      BY <1>3, <3>1, <3>2 DEF Signs
  <2> QED
    BY <2>1, <2>2
<1> QED
  BY <1>2, <1>3 DEF AllSigned, mf

-----------------------------------------------------------------------------
(* One transaction that inserts a row *)

LEMMA NewRowFacts ==
  ASSUME NEW st, NEW body, NEW src, NEW seq, NEW id, NEW ret
  PROVE  /\ IsRow(NewRow(st, body, src, seq, id, ret))
         /\ NewRow(st, body, src, seq, id, ret).seq = seq
  BY DEF IsRow, NewRow

LEMMA InsertKeeps ==
  ASSUME Inv, schema = 2, NEW kept, RowsBelow(kept, mark), Seen(kept),
         NEW sn, NEW st, NEW body, NEW src, NEW ret, Insert(kept, sn, st, body, src, ret),
         UNCHANGED <<schema, reader>>
  PROVE  Inv'
<1> DEFINE new == NewRow(st, body, src, mark, ids, ret)
           R == kept \cup {new}
<1>1. rows' = R /\ mark' = mark + 1 /\ snap' = sn /\ manifest' = RefreshAll(R, mark + 1, sn)
  BY DEF Insert, FirstFree, Resigned
<1>2. IsRow(new) /\ new.seq = mark
  BY NewRowFacts
<1>3. mark \in Nat /\ reader.cursor \in Int /\ reader.cursor < mark
  BY DEF Inv
<1> HIDE DEF new
<1>4. RowsBelow(R, mark + 1)
  <2> SUFFICES ASSUME NEW r \in R PROVE IsRow(r) /\ r.seq \in Nat /\ r.seq < mark + 1
    BY DEF RowsBelow
  <2>1. CASE r \in kept
    BY <1>3, <2>1 DEF RowsBelow
  <2>2. CASE r = new
    BY <1>2, <1>3, <2>2
  <2> QED
    BY <2>1, <2>2
<1>5. Seen(R)
  <2>1. ~(new.seq <= reader.cursor)
    BY <1>2, <1>3
  <2> QED
    BY <2>1 DEF Seen
<1>6. AllSigned(R, mark + 1, sn, manifest') /\ DOMAIN manifest' = Tenants
  BY <1>1, RefreshSigns
<1> HIDE DEF R
<1>7. Seen(rows)'
  BY <1>1, <1>5 DEF Seen
<1> QED
  BY <1>1, <1>3, <1>4, <1>6, <1>7 DEF Inv

LEMMA AuditKeeps ==
  ASSUME Inv, schema = 2, NEW kept, RowsBelow(kept, mark), Seen(kept),
         NEW sn, NEW t, NEW name, InsertAudit(kept, sn, t, name), UNCHANGED <<schema, reader>>
  PROVE  Inv'
  BY InsertKeeps DEF InsertAudit

\* A transaction, or a step of a process, that leaves the file alone.
LEMMA IdleKeeps ==
  ASSUME Inv, UNCHANGED <<db, schema, reader>>
  PROVE  Inv'
<1>1. /\ rows' = rows /\ mark' = mark /\ snap' = snap /\ manifest' = manifest
      /\ schema' = schema /\ reader' = reader
  BY DEF db
<1>2. Seen(rows)'
  BY <1>1 DEF Inv, Seen
<1> QED
  BY <1>1, <1>2 DEF Inv

\* What is kept of the rows stays below the mark and seen.
LEMMA SubsetKept ==
  ASSUME Inv, schema = 2, NEW R \in SUBSET rows
  PROVE  RowsBelow(R, mark) /\ Seen(R)
  BY DEF Inv, RowsBelow, Seen

LEMMA VerifiedOpen ==
  ASSUME Verified
  PROVE  schema = 2
  BY DEF Verified

\* The manifest of the catalog tenant is the only one that signs a snapshot.
LEMMA SnapshotKeeps ==
  ASSUME Inv, schema = 2, NEW last, NEW state, NEW ver, StoreSnapshot(last, state, ver),
         UNCHANGED <<schema, reader>>
  PROVE  Inv'
<1> DEFINE sn == snap'
           own == Digest(CatTenant, rows, mark, sn)
<1>1. manifest' = [manifest EXCEPT ![CatTenant] = own] /\ rows' = rows /\ mark' = mark
  BY DEF StoreSnapshot
<1>2. CatTenant \in Tenants /\ DOMAIN manifest = Tenants
  BY DEF Inv, Tenants
<1> HIDE DEF own, sn
<1>3. /\ manifest'[CatTenant] = own
      /\ \A t \in Tenants : t # CatTenant => manifest'[t] = manifest[t]
      /\ DOMAIN manifest' = Tenants
  BY <1>1, <1>2
<1>4. ASSUME NEW t \in Tenants, Signs(t, rows, sn, manifest')
      PROVE  manifest'[t] = Digest(t, rows, mark, sn)
  <2>1. CASE t = CatTenant
    BY <1>3, <2>1 DEF own
  <2>2. CASE t # CatTenant
    <3>1. manifest'[t] = manifest[t] /\ Signs(t, rows, snap, manifest)
      BY <1>3, <1>4, <2>2 DEF Signs
    <3>2. manifest[t] = Digest(t, rows, mark, snap)
      BY <3>1 DEF Inv, AllSigned
    <3> QED
      BY <2>2, <3>1, <3>2 DEF Digest
  <2> QED
    BY <2>1, <2>2
<1>5. AllSigned(rows, mark, snap, manifest)'
  BY <1>1, <1>4 DEF AllSigned, sn
<1>6. Seen(rows)'
  BY <1>1 DEF Inv, Seen
<1> QED
  BY <1>1, <1>3, <1>5, <1>6 DEF Inv

-----------------------------------------------------------------------------
(* Init and the steps *)

LEMMA InvInit == Init => Inv
<1> SUFFICES ASSUME Init PROVE Inv
  OBVIOUS
<1>1. DOMAIN manifest = Tenants /\ \A t \in Tenants : manifest[t] = Unsigned
  BY DEF Init
<1>2. reader.cursor = -1 /\ snap = NoSnap
  BY DEF Init
<1>3. CASE schema = 2 /\ rows = {} /\ mark = 0
  <2>1. AllSigned(rows, mark, snap, manifest)
    BY <1>1, <1>2, <1>3 DEF AllSigned, Signs
  <2> QED
    BY <1>1, <1>2, <1>3, <2>1 DEF Inv, RowsBelow, Seen
<1>4. CASE /\ schema = 1 /\ mark \in {-1, 0, 2}
           /\ \E st \in Streams : rows = {NewRow(st, [ev |-> "start"], -1, 0, 0, Forever)}
  <2>1. PICK r : rows = {r} /\ IsRow(r) /\ r.seq = 0
    BY <1>4, NewRowFacts
  <2>2. RowsBelow(rows, 1)
    BY <2>1 DEF RowsBelow
  <2>3. Seen(rows)
    BY <1>2, <2>1 DEF Seen
  <2> QED
    BY <1>1, <1>2, <1>4, <2>2, <2>3 DEF Inv
<1> QED
  BY <1>3, <1>4 DEF Init

\* The writers and the retry store.
LEMMA WriterKeeps ==
  ASSUME Inv, NEW w, AppendEvent(w) \/ AppendFenced(w)
  PROVE  Inv'
<1>1. UNCHANGED <<schema, reader>>
  BY DEF AppendEvent, AppendFenced
<1>2. CASE UNCHANGED db
  BY <1>1, <1>2, IdleKeeps
<1>3. CASE Verified /\ \E ret \in Retentions : Insert(rows, snap, writer[w].st, writer[w].body, Source(w), ret)
  <2>1. schema = 2 /\ RowsBelow(rows, mark) /\ Seen(rows)
    BY <1>3, VerifiedOpen, SubsetKept
  <2> QED
    BY <1>1, <1>3, <2>1, InsertKeeps
<1> QED
  BY <1>2, <1>3 DEF AppendEvent, AppendFenced

LEMMA RetryKeeps ==
  ASSUME Inv, NEW st, NEW body, AppendRetry(st, body)
  PROVE  Inv'
<1>1. schema = 2 /\ RowsBelow(rows, mark) /\ Seen(rows)
  BY VerifiedOpen, SubsetKept DEF AppendRetry
<1> QED
  BY <1>1, InsertKeeps DEF AppendRetry

\* Administrative calls delete or encrypt rows and insert an audit row.
LEMMA AdminKeeps ==
  ASSUME Inv, NEW t, NEW s, NEW k,
         PurgeExpired(t) \/ DeleteSession(t, s) \/ Export(t) \/ RotateKeys(t, k)
  PROVE  Inv'
<1>1. Verified /\ UNCHANGED <<schema, reader>>
  BY DEF PurgeExpired, DeleteSession, Export, RotateKeys, Admin
<1>2. schema = 2
  BY <1>1, VerifiedOpen
<1>3. CASE PurgeExpired(t)
  <2> DEFINE kept == rows \ Purged(t)
  <2>1. RowsBelow(kept, mark) /\ Seen(kept)
    BY <1>2, SubsetKept
  <2>2. InsertAudit(kept, SnapAfterPurge(t), t, "purged")
    BY <1>3 DEF PurgeExpired
  <2> HIDE DEF kept
  <2> QED
    BY <1>1, <1>2, <2>1, <2>2, AuditKeeps
<1>4. CASE DeleteSession(t, s)
  <2> DEFINE kept == {r \in rows : ~(r.st.t = t /\ r.st.s = s)}
  <2>1. RowsBelow(kept, mark) /\ Seen(kept)
    BY <1>2, SubsetKept
  <2>2. InsertAudit(kept, snap, t, "deleted")
    BY <1>4 DEF DeleteSession
  <2> HIDE DEF kept
  <2> QED
    BY <1>1, <1>2, <2>1, <2>2, AuditKeeps
<1>5. CASE Export(t)
  <2>1. RowsBelow(rows, mark) /\ Seen(rows)
    BY <1>2, SubsetKept
  <2> QED
    BY <1>1, <1>2, <1>5, <2>1, AuditKeeps DEF Export
<1>6. CASE RotateKeys(t, k)
  <2> DEFINE under(r) == IF r.st.t = t THEN [r EXCEPT !.key = k] ELSE r
             kept == {under(r) : r \in rows}
             sn == IF t = CatTenant /\ snap # NoSnap THEN [snap EXCEPT !.key = k] ELSE snap
  <2>1. RowsBelow(rows, mark) /\ Seen(rows)
    BY <1>2, SubsetKept
  <2>2. ASSUME NEW r \in rows
        PROVE  /\ IsRow(under(r)) /\ under(r).seq = r.seq
               /\ under(r).id = r.id /\ under(r).st = r.st
    <3>1. IsRow(r)
      BY <2>1 DEF RowsBelow
    <3> QED
      BY <3>1 DEF IsRow
  <2>3. InsertAudit(kept, sn, t, "rotated")
    BY <1>6 DEF RotateKeys
  <2> HIDE DEF under
  <2>4. RowsBelow(kept, mark)
    BY <2>1, <2>2 DEF RowsBelow
  <2>5. Seen(kept)
    BY <2>1, <2>2 DEF Seen
  <2> HIDE DEF kept, sn
  <2> QED
    BY <1>1, <1>2, <2>3, <2>4, <2>5, AuditKeeps
<1> QED
  BY <1>3, <1>4, <1>5, <1>6

LEMMA MigrateKeeps ==
  ASSUME Inv, MigrateSave \/ MigrateAudit
  PROVE  Inv'
<1>1. Verified /\ UNCHANGED <<schema, reader>>
  BY DEF MigrateSave, MigrateAudit
<1>2. schema = 2 /\ RowsBelow(rows, mark) /\ Seen(rows)
  BY <1>1, VerifiedOpen, SubsetKept
<1>3. CASE UNCHANGED db
  BY <1>1, <1>3, IdleKeeps
<1>4. CASE StoreSnapshot(migrator.snap.last, migrator.snap.state, 2)
  BY <1>1, <1>2, <1>4, SnapshotKeeps
<1>5. CASE InsertAudit(rows, snap, CatTenant, "migrated")
  BY <1>1, <1>2, <1>5, AuditKeeps
<1> QED
  BY <1>3, <1>4, <1>5 DEF MigrateSave, MigrateAudit

LEMMA CatalogKeeps ==
  ASSUME Inv, NEW c, AppendCatalog(c) \/ SaveSnapshot(c)
  PROVE  Inv'
<1>1. Verified /\ UNCHANGED <<schema, reader>>
  BY DEF AppendCatalog, SaveSnapshot, ClientStep
<1>2. schema = 2 /\ RowsBelow(rows, mark) /\ Seen(rows)
  BY <1>1, VerifiedOpen, SubsetKept
<1>3. CASE UNCHANGED db
  BY <1>1, <1>3, IdleKeeps
<1>4. CASE \E e : Insert(rows, snap, CatStream, e, -1, AuditRetention)
  BY <1>1, <1>2, <1>4, InsertKeeps
<1>5. CASE StoreSnapshot(SaveUnder(c), client[c].st, 1)
  BY <1>1, <1>2, <1>5, SnapshotKeeps
<1> QED
  BY <1>3, <1>4, <1>5 DEF AppendCatalog, SaveSnapshot

\* The reader takes every operation row behind its cursor and moves to the
\* last of them.
LEMMA ReadKeeps ==
  ASSUME Inv, ReadOn
  PROVE  Inv'
<1> DEFINE new == {r \in Visible(rows) : r.st.t = CatTenant /\ r.st.kind = "operation" /\ r.seq > reader.cursor}
           S == {r.seq : r \in new}
<1>1. /\ schema = 2 /\ new # {} /\ UNCHANGED <<db, schema>>
      /\ reader' = [cursor |-> Max(S), seen |-> reader.seen \cup {r.id : r \in new}]
  BY DEF ReadOn
<1>2. RowsBelow(rows, mark) /\ mark \in Nat /\ reader.cursor \in Int /\ Seen(rows)
  BY <1>1 DEF Inv
<1>3. new \subseteq rows
  BY DEF Visible
<1>4. S \in SUBSET Nat /\ S # {} /\ \A s \in S : s < mark
  BY <1>1, <1>2, <1>3 DEF RowsBelow
<1>5. \A r \in rows : r.st.t = CatTenant /\ r.st.kind = "operation" /\ r.seq > reader.cursor => r \in new
  BY DEF Visible
<1> HIDE DEF new
<1>6. Max(S) \in S
  <2> HIDE DEF S
  <2> QED
    BY <1>2, <1>4, BoundedMax
<1>7. reader'.cursor \in Nat /\ reader'.cursor < mark
  BY <1>1, <1>4, <1>6
<1>8. ASSUME NEW r \in rows, r.st.t = CatTenant, r.st.kind = "operation" PROVE r.id \in reader'.seen
  <2>1. r.seq \in Nat
    BY <1>2 DEF RowsBelow
  <2>2. CASE r.seq <= reader.cursor
    BY <1>1, <1>2, <1>8, <2>2 DEF Seen
  <2>3. CASE r.seq > reader.cursor
    BY <1>1, <1>5, <1>8, <2>3
  <2> QED
    BY <1>2, <2>1, <2>2, <2>3
<1>9. rows' = rows /\ mark' = mark /\ snap' = snap /\ manifest' = manifest /\ schema' = schema
  BY <1>1 DEF db
<1>10. Seen(rows)'
  BY <1>8, <1>9 DEF Seen
<1> QED
  BY <1>1, <1>7, <1>9, <1>10 DEF Inv

LEMMA BootstrapKeeps ==
  ASSUME Inv, Bootstrap
  PROVE  Inv'
<1> DEFINE top == Top({r.seq : r \in rows})
           m == Max({mark, top + 1})
<1>1. /\ schema = 1 /\ schema' = 2 /\ mark' = m /\ manifest' = RefreshAll(rows, m, snap)
      /\ rows' = rows /\ snap' = snap /\ reader' = reader
  BY DEF Bootstrap
<1>2. RowsBelow(rows, 1) /\ reader.cursor = -1 /\ mark \in Int
  BY <1>1 DEF Inv
<1>3. /\ top \in Int /\ top >= -1
      /\ \A r \in rows : r.seq <= top
  <2> DEFINE S == {r.seq : r \in rows}
  <2>1. S \in SUBSET Nat /\ \A s \in S : s < 1
    BY <1>2 DEF RowsBelow
  <2> HIDE DEF S
  <2>2. CASE S = {}
    BY <2>2 DEF Top, S
  <2>3. CASE S # {}
    <3>1. Max(S) \in S /\ \A s \in S : s <= Max(S)
      BY <2>1, <2>3, BoundedMax
    <3>2. top = Max(S)
      BY <2>3 DEF Top, S
    <3> QED
      BY <2>1, <3>1, <3>2 DEF S
  <2> QED
    BY <2>2, <2>3
<1> HIDE DEF top
<1>4. m \in Int /\ m >= mark /\ m >= top + 1
  <2>1. \E x \in {mark, top + 1} : \A y \in {mark, top + 1} : x >= y
    BY <1>2, <1>3
  <2>2. m \in {mark, top + 1} /\ \A y \in {mark, top + 1} : m >= y
    BY <2>1 DEF Max
  <2> QED
    BY <1>2, <1>3, <2>2
<1> HIDE DEF m
<1>5. m \in Nat /\ RowsBelow(rows, m)
  BY <1>2, <1>3, <1>4 DEF RowsBelow
<1>6. AllSigned(rows, m, snap, manifest') /\ DOMAIN manifest' = Tenants
  BY <1>1, RefreshSigns
<1>7. Seen(rows)'
  BY <1>1 DEF Inv, Seen
<1> QED
  BY <1>1, <1>2, <1>5, <1>6, <1>7 DEF Inv

LEMMA InvNext == Inv /\ [Next]_vars => Inv'
<1> SUFFICES ASSUME Inv, [Next]_vars PROVE Inv'
  OBVIOUS
<1>1. ASSUME NEW w, NEW st, NEW s,
             \/ AppendAbandoned(w) \/ LoadStream(w, st) \/ ClaimSession(w, s)
             \/ ReleaseSession(w, s) \/ LeaseExpires(s)
      PROVE  Inv'
  BY <1>1, IdleKeeps DEF AppendAbandoned, LoadStream, ClaimSession, ReleaseSession, LeaseExpires
<1>2. ASSUME NEW c, NEW r, LoadSnapshot(c, r) \/ LoadEvents(c) \/ ClientCrash(c)
      PROVE  Inv'
  <2>1. UNCHANGED <<db, schema, reader>>
    BY <1>2 DEF LoadSnapshot, LoadEvents, ClientCrash, ClientStep
  <2> QED
    BY <2>1, IdleKeeps
<1>3. CASE MigrateLoad \/ Tick \/ UNCHANGED vars
  <2>1. UNCHANGED <<db, schema, reader>>
    BY <1>3 DEF MigrateLoad, Tick, vars, db
  <2> QED
    BY <2>1, IdleKeeps
<1>4. CASE Next
  BY <1>1, <1>2, <1>3, <1>4, WriterKeeps, RetryKeeps, AdminKeeps, MigrateKeeps, CatalogKeeps,
     ReadKeeps, BootstrapKeeps DEF Next
<1> QED
  BY <1>3, <1>4

-----------------------------------------------------------------------------
(* Theorems *)

LEMMA Invariance == Spec => []Inv
  BY InvInit, InvNext, PTL DEF Spec

\* No sequence of appends, deletions, purges, rotations, snapshots and
\* migrations of any tenants leaves a file that the next write transaction
\* takes for corrupt.
THEOREM ManifestsVerifyHolds == Spec => []ManifestsVerify
<1>1. Inv => ManifestsVerify
  BY InvVerifies
<1> QED
  BY <1>1, Invariance, PTL

\* A cursor reader of the operation events never misses one.
THEOREM CursorMissesNothingHolds == Spec => []CursorMissesNothing
<1>1. Inv => CursorMissesNothing
  BY DEF Inv, Seen, CursorMissesNothing
<1> QED
  BY <1>1, Invariance, PTL

=============================================================================
