--------------------------- MODULE SessionJournal ---------------------------
(***************************************************************************)
(* The encrypted session journal (session/journal.py), its adapters        *)
(* (session/journal_adapters.py) and the workspace catalog kept in it      *)
(* (session/catalog.py).                                                   *)
(*                                                                         *)
(* The journal is one SQLite file shared by all tenants: event rows, one   *)
(* high-water mark for sequence numbers, snapshots of projections, and one *)
(* signed integrity manifest per tenant.  Every write is one BEGIN         *)
(* IMMEDIATE transaction and is one action here: it verifies every         *)
(* manifest, checks its compare-and-swap, inserts rows and signs the       *)
(* manifests of ALL tenants, because the high-water mark is part of each.  *)
(* Loads are transactions of their own, so whatever a client builds on a   *)
(* load is already old when it appends: writers, catalog clients and the   *)
(* snapshot migration are processes with a step for each transaction.      *)
(*                                                                         *)
(* A manifest is the content it signs: the mark, the rows, the snapshot.   *)
(***************************************************************************)
EXTENDS CatalogState, ClaimRows, FiniteSetsExt

CONSTANTS
    Writers,      \* processes appending to operation and runtime streams
    Clients,      \* processes with a catalog object
    Streams,      \* streams of conversation sessions: [t, s, kind, op]
    RetryStreams, \* streams of retry events: [t, s, kind, op]
    CatTenant,    \* the tenant whose catalog is used
    EncKeys,      \* encryption keys, one of them active
    Retentions,   \* retention of a conversation event: 1 tick, or Forever
    AuditRetention, SnapRetention, Forever,
    MaxTries,     \* _MAX_CONFLICT_RETRIES
    MaxNow,       \* bound on the clock
    Deployments   \* who uses the file, and how much: the processes that run
                  \* (writers, clients), the streams they use (streams), the
                  \* catalog requests made (asked), whether writers claim
                  \* the session (claims) and a cursor reader runs (reads), the
                  \* bounds on sequence numbers (seq) and administrative
                  \* calls (maint)

ASSUME JournalAssumption ==
    /\ NoOwner \notin Writers
    /\ Forever > MaxNow + 1
    /\ \A d \in Deployments : /\ d.writers \subseteq Writers /\ d.clients \subseteq Clients
                              /\ d.streams \subseteq Streams \cup RetryStreams
                              /\ d.asked \subseteq Requests
    /\ MaxTries \in Nat \ {0}

VARIABLES
    rows,      \* session_events
    mark,      \* next_sequence of session_journal_meta; -1 is a missing value
    snap,      \* the catalog snapshot of CatTenant, or NoSnap
    manifest,  \* session_integrity_manifests
    schema,    \* database_schema_version: 1 is a legacy file
    claims,    \* the session writer claim of each conversation session
    active,    \* the active encryption key
    now,       \* the wall clock
    ids,       \* event ids handed out so far
    writer,    \* what each writer loaded
    client,    \* what each catalog client loaded and is doing
    reader,    \* a cursor reader of operation events
    migrator,  \* a snapshot migration under way
    maint,     \* administrative calls so far
    dep        \* the deployment, which never changes

db == <<rows, mark, snap, manifest>>
vars == <<rows, mark, snap, manifest, schema, claims, active, now, ids,
          writer, client, reader, migrator, maint, dep>>

Tenants == {st.t : st \in Streams \cup RetryStreams} \cup {CatTenant}
CatStream == [t |-> CatTenant, s |-> "__workspace_catalog__", kind |-> "audit", op |-> None]
AuditStream(t) == [t |-> t, s |-> "__audit__", kind |-> "audit", op |-> None]

\* The head of a stream is -1 when it has no row.
Top(S) == IF S = {} THEN -1 ELSE Max(S)
RowsOf(R, st) == {r \in R : r.st = st}
StreamHead(R, st) == Top({r.seq : r \in RowsOf(R, st)})
InOrder(R) == SetToSortSeq(R, LAMBDA a, b : a.seq < b.seq)
Bodies(R) == LET q == InOrder(R) IN [i \in DOMAIN q |-> q[i].body]

NoSnap == [last |-> -1, state |-> EmptyCatalog, ver |-> 0, exp |-> 0, key |-> CHOOSE k \in EncKeys : TRUE]

-----------------------------------------------------------------------------
(* Integrity manifests.                                                    *)
Unsigned == [mark |-> -2, rows |-> {}, snap |-> NoSnap]

\* _manifest_digest_from_rows: what the manifest of a tenant signs.
Digest(t, R, m, sn) == [mark |-> m, rows |-> {r \in R : r.st.t = t},
                        snap |-> IF t = CatTenant THEN sn ELSE NoSnap]

\* A tenant has a manifest from its first row on.
SignedTenants(R, sn) ==
    {t \in Tenants : manifest[t] # Unsigned \/ \E r \in R : r.st.t = t}
    \cup (IF sn = NoSnap THEN {} ELSE {CatTenant})

RefreshAll(R, m, sn) ==
    [t \in Tenants |-> IF t \in SignedTenants(R, sn) THEN Digest(t, R, m, sn) ELSE manifest[t]]

\* Mutant: only the manifest of the tenant that appended is signed again.
RefreshOwn(R, m, sn) ==
    LET new == {r.st.t : r \in R \ rows}
    IN [t \in Tenants |-> IF t \in new THEN Digest(t, R, m, sn) ELSE manifest[t]]

\* _refresh_all_manifests_sync
Resigned(R, m, sn) == RefreshAll(R, m, sn)

\* _verify_all_manifests_sync: every write transaction starts with it.
Verified ==
    /\ schema = 2
    /\ mark > Top({r.seq : r \in rows})
    /\ \A t \in SignedTenants(rows, snap) : manifest[t] = Digest(t, rows, mark, snap)

\* _insert_specs_sync: rows for the bodies at the high-water mark, kept of
\* what the transaction did not delete.
NewRow(st, body, src, seq, id, ret) ==
    [seq |-> seq, id |-> id, st |-> st, body |-> body, src |-> src, key |-> active,
     exp |-> IF ret = Forever THEN Forever ELSE now + ret]

\* Mutant: the next sequence is one more than the largest row.
FirstFreeReused(R) == Top({r.seq : r \in R}) + 1

FirstFree(R) == mark

Insert(kept, sn, st, body, src, ret) ==
    LET seq == FirstFree(kept) R == kept \cup {NewRow(st, body, src, seq, ids, ret)}
    IN /\ mark < dep.seq
       /\ rows' = R
       /\ mark' = seq + 1
       /\ snap' = sn
       /\ ids' = ids + 1
       /\ manifest' = Resigned(R, seq + 1, sn)

\* _append_audit_sync
InsertAudit(kept, sn, t, name) ==
    Insert(kept, sn, AuditStream(t), [ev |-> name], -1, AuditRetention)

-----------------------------------------------------------------------------
(* Operation and runtime streams: load, then append with a compare-and-swap *)
(* on the head of the stream, with or without the session writer claim.    *)
IdleWriter == [pc |-> "idle", st |-> None, head |-> -1, body |-> [ev |-> "none"], src |-> -1, gen |-> 0]

\* The next event of the state machine a stream holds; the runtime stream
\* numbers its own events without a gap.
NextBodies(st, R) ==
    LET b == Bodies(R) IN
    CASE st.kind = "runtime" -> {"run"}
      [] b = << >> -> {"start"}
      [] b[Len(b)].ev = "end" -> {}
      [] OTHER -> {"step", "end"}

LoadStream(w, st) ==
    /\ schema = 2
    /\ writer[w].pc = "idle"
    /\ LET R == RowsOf(rows, st) IN
       \E b \in NextBodies(st, R) :
          writer' = [writer EXCEPT ![w] = [@ EXCEPT !.pc = "append", !.st = st, !.body = [ev |-> b],
                        !.head = StreamHead(rows, st), !.src = Top({r.src : r \in R})]]
    /\ UNCHANGED <<db, schema, claims, active, now, ids, client, reader, migrator, maint, dep>>

\* Mutant: the append does not compare the head of the stream.
HeadMatchesAny(w) == TRUE

HeadMatches(w) == StreamHead(rows, writer[w].st) = writer[w].head

\* The source sequence of a runtime row grows within the session.
SourceGrows(w) ==
    writer[w].st.kind = "runtime" => writer[w].src + 1 > Top({r.src : r \in RowsOf(rows, writer[w].st)})

Source(w) == IF writer[w].st.kind = "runtime" THEN writer[w].src + 1 ELSE -1

Done(w) == [writer EXCEPT ![w] = [IdleWriter EXCEPT !.gen = writer[w].gen]]

\* append_batch / append_cas: a head that moved raises a conflict and nothing
\* is written.
AppendEvent(w) ==
    /\ writer[w].pc = "append" /\ Verified
    /\ IF HeadMatches(w) /\ SourceGrows(w)
       THEN \E ret \in Retentions : Insert(rows, snap, writer[w].st, writer[w].body, Source(w), ret)
       ELSE UNCHANGED <<db, ids>>
    /\ writer' = Done(w)
    /\ UNCHANGED <<schema, claims, active, now, client, reader, migrator, maint, dep>>

\* append_batch_if_fenced_claim: the claim is checked inside the transaction
\* and renewed by it.
AppendFenced(w) ==
    /\ writer[w].pc = "append" /\ writer[w].gen > 0
    /\ LET s == writer[w].st.s IN
       IF LeaseCurrent(claims[s], w, writer[w].gen, 0) /\ Verified /\ HeadMatches(w) /\ SourceGrows(w)
       THEN /\ \E ret \in Retentions : Insert(rows, snap, writer[w].st, writer[w].body, Source(w), ret)
            /\ claims' = [claims EXCEPT ![s] = RenewedRow(@, 0, 1)]
       ELSE UNCHANGED <<db, ids, claims>>
    /\ writer' = Done(w)
    /\ UNCHANGED <<schema, active, now, client, reader, migrator, maint, dep>>

\* A deadline, a busy database or the end of the process: nothing is written.
AppendAbandoned(w) ==
    /\ writer[w].pc = "append"
    /\ writer' = Done(w)
    /\ UNCHANGED <<db, schema, claims, active, now, ids, client, reader, migrator, maint, dep>>

\* The retry store appends without a compare-and-swap; the terminal event of
\* a model request has an id of its own, so a second one is refused.
AppendRetry(st, body) ==
    /\ Verified
    /\ body = "terminal" => \A r \in RowsOf(rows, st) : r.body.ev # "terminal"
    /\ \E ret \in Retentions : Insert(rows, snap, st, [ev |-> body], -1, ret)
    /\ UNCHANGED <<schema, claims, active, now, writer, client, reader, migrator, maint, dep>>

\* The claims of the journal are those of the Operation store; time is only
\* the end of a lease.
ClaimSession(w, s) ==
    /\ schema = 2
    /\ ~AcquireRefused(claims[s], w, 0)
    /\ claims[s].gen < 2
    /\ claims' = [claims EXCEPT ![s] = AcquiredRow(@, w, 0, 1)]
    /\ writer' = [writer EXCEPT ![w].gen = claims'[s].gen]
    /\ UNCHANGED <<db, schema, active, now, ids, client, reader, migrator, maint, dep>>

ReleaseSession(w, s) ==
    /\ Names(claims[s], w, writer[w].gen)
    /\ claims' = [claims EXCEPT ![s] = ReleasedRow(@)]
    /\ writer' = [writer EXCEPT ![w].gen = 0]
    /\ UNCHANGED <<db, schema, active, now, ids, client, reader, migrator, maint, dep>>

LeaseExpires(s) ==
    /\ claims[s].expires > 0
    /\ claims' = [claims EXCEPT ![s].expires = 0]
    /\ UNCHANGED <<db, schema, active, now, ids, writer, client, reader, migrator, maint, dep>>

-----------------------------------------------------------------------------
(* Reads.                                                                  *)
\* _select_event_rows: an expired audit row is hidden, a business row never.
Visible(R) == {r \in R : r.st.kind = "audit" => r.exp > now}

\* load_events with after_sequence: the reader resumes behind its cursor.
ReadOn ==
    /\ schema = 2 /\ dep.reads
    /\ LET new == {r \in Visible(rows) : r.st.t = CatTenant /\ r.st.kind = "operation" /\ r.seq > reader.cursor}
       IN /\ new # {}
          /\ reader' = [cursor |-> Max({r.seq : r \in new}), seen |-> reader.seen \cup {r.id : r \in new}]
    /\ UNCHANGED <<db, schema, claims, active, now, ids, writer, client, migrator, maint, dep>>

-----------------------------------------------------------------------------
(* Administrative calls.                                                   *)
Expired(r) == r.exp <= now
Terminal(R) == LET b == Bodies(R) IN b # << >> /\ b[1].ev = "start" /\ b[Len(b)].ev = "end"

OpRows(t) == {r \in rows : r.st.t = t /\ r.st.kind = "operation"}
Business(t) == {r \in rows : r.st.t = t /\ r.st.kind # "audit"}

\* An operation goes as a whole, once all of it has expired and it has ended.
SafeOperations(t) ==
    {st \in {r.st : r \in OpRows(t)} :
        /\ \A r \in RowsOf(rows, st) : Expired(r)
        /\ Terminal(RowsOf(rows, st))}

\* Runtime and retry rows go only with their whole session.
SafeSessions(t) ==
    {s \in {r.st.s : r \in Business(t)} :
        /\ \A r \in Business(t) : r.st.s = s => Expired(r)
        /\ \A r \in OpRows(t) : r.st.s = s => r.st \in SafeOperations(t)}

\* _purge_expired_sync
Purged(t) ==
    {r \in Business(t) : \/ r.st.kind = "operation" /\ r.st \in SafeOperations(t)
                         \/ r.st.kind # "operation" /\ r.st.s \in SafeSessions(t)}

SnapAfterPurge(t) == IF t = CatTenant /\ snap # NoSnap /\ snap.exp <= now THEN NoSnap ELSE snap

Admin == /\ Verified /\ maint < dep.maint /\ maint' = maint + 1
         /\ UNCHANGED <<schema, claims, now, writer, client, reader, migrator, dep>>

PurgeExpired(t) ==
    /\ Admin
    /\ InsertAudit(rows \ Purged(t), SnapAfterPurge(t), t, "purged")
    /\ UNCHANGED active

\* delete_session of a conversation session; the sequence numbers of its rows
\* are not given out again.
DeleteSession(t, s) ==
    /\ Admin
    /\ \E r \in rows : r.st.t = t /\ r.st.s = s
    /\ InsertAudit({r \in rows : ~(r.st.t = t /\ r.st.s = s)}, snap, t, "deleted")
    /\ UNCHANGED active

\* export_session and run_event_migrations return decoded rows and leave an
\* audit event.
Export(t) ==
    /\ Admin
    /\ InsertAudit(rows, snap, t, "exported")
    /\ UNCHANGED active

\* rotate_encryption_keys, after the provider's active key was changed: rows
\* and snapshots of the tenant are encrypted again.
RotateKeys(t, k) ==
    /\ Admin
    /\ k # active /\ active' = k
    /\ LET R == {IF r.st.t = t THEN [r EXCEPT !.key = k] ELSE r : r \in rows}
       IN InsertAudit(R, IF t = CatTenant /\ snap # NoSnap THEN [snap EXCEPT !.key = k] ELSE snap, t, "rotated")

-----------------------------------------------------------------------------
(* Snapshots.                                                              *)
\* _save_snapshot_sync: not ahead of the session, not older than the stored
\* one; the same sequence only to migrate to a higher state version.
SnapshotAllowed(last, ver, migration) ==
    /\ last <= StreamHead(rows, CatStream)
    /\ \/ snap = NoSnap
       \/ last > snap.last /\ ver >= snap.ver
       \/ last = snap.last /\ migration /\ ver > snap.ver

StoreSnapshot(last, st, ver) ==
    LET sn == [last |-> last, state |-> st, ver |-> ver, key |-> active,
               exp |-> IF SnapRetention = Forever THEN Forever ELSE now + SnapRetention]
    IN /\ snap' = sn
       /\ manifest' = [manifest EXCEPT ![CatTenant] = Digest(CatTenant, rows, mark, sn)]
       /\ UNCHANGED <<rows, mark>>

\* migrate_snapshot: load, save and audit are three transactions.
MigrateLoad ==
    /\ schema = 2 /\ migrator.pc = "idle" /\ maint < dep.maint
    /\ snap # NoSnap /\ snap.exp > now /\ snap.ver = 1
    /\ migrator' = [pc |-> "save", snap |-> snap]
    /\ maint' = maint + 1
    /\ UNCHANGED <<db, schema, claims, active, now, ids, writer, client, reader, dep>>

MigrateSave ==
    /\ migrator.pc = "save" /\ Verified
    /\ IF SnapshotAllowed(migrator.snap.last, 2, TRUE)
       THEN /\ StoreSnapshot(migrator.snap.last, migrator.snap.state, 2)
            /\ migrator' = [migrator EXCEPT !.pc = "audit"]
       ELSE /\ migrator' = [migrator EXCEPT !.pc = "done"]
            /\ UNCHANGED db
    /\ UNCHANGED <<schema, claims, active, now, ids, writer, client, reader, maint, dep>>

MigrateAudit ==
    /\ migrator.pc = "audit" /\ Verified
    /\ InsertAudit(rows, snap, CatTenant, "migrated")
    /\ migrator' = [migrator EXCEPT !.pc = "done"]
    /\ UNCHANGED <<schema, claims, active, now, writer, client, reader, maint, dep>>

-----------------------------------------------------------------------------
(* Catalog clients.  _mutate: replay, build, append with compare-and-swap, *)
(* save a snapshot; a conflict starts over.                                *)
IdleClient == [pc |-> "idle", req |-> [ev |-> "none"], st |-> EmptyCatalog, last |-> -1, tries |-> 0]

ClientStep(c, new) ==
    /\ client' = [client EXCEPT ![c] = new]
    /\ UNCHANGED <<schema, claims, active, now, writer, reader, migrator, maint, dep>>

\* replay_projection, first transaction: a running snapshot of this version.
LoadSnapshot(c, r) ==
    /\ schema = 2
    /\ \/ client[c].pc = "idle"
       \/ client[c].pc = "again" /\ client[c].req = r
    /\ snap.ver < 2
    /\ LET running == snap # NoSnap /\ snap.exp > now
       IN ClientStep(c, [client[c] EXCEPT !.pc = "events", !.req = r,
                            !.st = IF running THEN snap.state ELSE EmptyCatalog,
                            !.last = IF running THEN snap.last ELSE -1])
    /\ UNCHANGED <<db, ids>>

CatalogAfter(st, R) == FoldLeft(ReduceCatalog, st, Bodies(R))
CatalogRows(R, last) == {r \in RowsOf(R, CatStream) : r.seq > last}

\* Second transaction: the visible events behind the snapshot; a request the
\* state refuses, or a history that does not reduce, raises.
LoadEvents(c) ==
    /\ client[c].pc = "events"
    /\ LET R == Visible(CatalogRows(rows, client[c].last))
           st == CatalogAfter(client[c].st, R)
       IN IF st.ok /\ Accepts(st, client[c].req)
          THEN ClientStep(c, [client[c] EXCEPT !.pc = "append", !.st = st,
                                 !.last = IF R = {} THEN @ ELSE Max({r.seq : r \in R})])
          ELSE ClientStep(c, IdleClient)
    /\ UNCHANGED <<db, ids>>

AppendCatalog(c) ==
    /\ client[c].pc = "append" /\ Verified
    /\ LET cl == client[c] e == EventOf(cl.st, cl.req)
       IN IF StreamHead(rows, CatStream) = cl.last
          THEN /\ Insert(rows, snap, CatStream, e, -1, AuditRetention)
               /\ ClientStep(c, [cl EXCEPT !.pc = "save", !.st = ReduceCatalog(@, e), !.last = mark])
          ELSE /\ UNCHANGED <<db, ids>>
               /\ ClientStep(c, IF cl.tries + 1 < MaxTries
                                THEN [cl EXCEPT !.pc = "again", !.tries = @ + 1] ELSE IdleClient)

\* The sequence of the event the client appended.
SaveUnder(c) == client[c].last

\* _save_snapshot: a refusal is ignored.
SaveSnapshot(c) ==
    /\ client[c].pc = "save" /\ Verified
    /\ IF SnapshotAllowed(SaveUnder(c), 1, FALSE)
       THEN StoreSnapshot(SaveUnder(c), client[c].st, 1)
       ELSE UNCHANGED db
    /\ ClientStep(c, IdleClient)
    /\ UNCHANGED ids

\* The process ends between two transactions.
ClientCrash(c) ==
    /\ client[c].pc # "idle"
    /\ ClientStep(c, IdleClient)
    /\ UNCHANGED <<db, ids>>

-----------------------------------------------------------------------------
(* Opening the file.                                                       *)
\* A legacy file is signed once, under an explicit permission, and its mark
\* is never moved back.
Bootstrap ==
    /\ schema = 1
    /\ schema' = 2
    /\ LET m == Max({mark, Top({r.seq : r \in rows}) + 1})
       IN /\ mark' = m
          /\ manifest' = RefreshAll(rows, m, snap)
    /\ UNCHANGED <<rows, snap, claims, active, now, ids, writer, client, reader, migrator, maint, dep>>

Tick ==
    /\ now < MaxNow
    /\ now' = now + 1
    /\ UNCHANGED <<db, schema, claims, active, ids, writer, client, reader, migrator, maint, dep>>

Init ==
    /\ active = CHOOSE k \in EncKeys : TRUE
    /\ now = 0
    /\ \/ schema = 2 /\ rows = {} /\ mark = 0 /\ ids = 0
       \/ /\ schema = 1 /\ ids = 1 /\ mark \in {-1, 0, 2}
          /\ \E st \in Streams : st.kind = "operation" /\ rows = {NewRow(st, [ev |-> "start"], -1, 0, 0, Forever)}
    /\ snap = NoSnap
    /\ manifest = [t \in Tenants |-> Unsigned]
    /\ claims = [s \in {st.s : st \in Streams} |-> AbsentRow]
    /\ writer = [w \in Writers |-> IdleWriter]
    /\ client = [c \in Clients |-> IdleClient]
    /\ reader = [cursor |-> -1, seen |-> {}]
    /\ migrator = [pc |-> "idle", snap |-> NoSnap]
    /\ maint = 0
    /\ dep \in Deployments

Next ==
    \/ \E w \in dep.writers : \/ AppendEvent(w) \/ AppendFenced(w) \/ AppendAbandoned(w)
                              \/ \E st \in dep.streams \cap Streams : LoadStream(w, st)
                              \/ dep.claims /\ \E s \in DOMAIN claims : ClaimSession(w, s) \/ ReleaseSession(w, s)
    \/ \E s \in DOMAIN claims : LeaseExpires(s)
    \/ \E st \in dep.streams \cap RetryStreams, b \in {"attempt", "terminal"} : AppendRetry(st, b)
    \/ \E t \in Tenants : \/ PurgeExpired(t) \/ Export(t)
                          \/ \E k \in EncKeys : RotateKeys(t, k)
    \/ \E st \in Streams : DeleteSession(st.t, st.s)
    \/ \E c \in dep.clients : \/ LoadEvents(c) \/ AppendCatalog(c) \/ SaveSnapshot(c) \/ ClientCrash(c)
                              \/ \E r \in dep.asked : LoadSnapshot(c, r)
    \/ ReadOn \/ MigrateLoad \/ MigrateSave \/ MigrateAudit \/ Bootstrap \/ Tick

Spec == Init /\ [][Next]_vars

-----------------------------------------------------------------------------
(* Properties.                                                             *)
\* No committed transaction of any tenant leaves a manifest that does not
\* verify: every later write of every tenant would be refused as corruption
\* (_insert_specs_sync, _save_snapshot_sync).
ManifestsVerify == schema = 2 => Verified

\* A reader that resumes behind its cursor misses nothing: no event is ever
\* committed under a number the cursor has passed, whatever was deleted or
\* purged in between (the high-water mark of _insert_specs_sync).
CursorMissesNothing ==
    \A r \in rows : r.st.t = CatTenant /\ r.st.kind = "operation" /\ r.seq <= reader.cursor
                       => r.id \in reader.seen

\* What is left of a stream replays: an operation begins with its start and
\* stops at its end, a runtime stream is numbered from 0 without a gap, a
\* request has one terminal event.  Concurrent writers, retention and deletion
\* leave no other history (_append_events_transaction_sync, _purge_expired_sync).
StreamsReplay ==
    /\ \A st \in Streams : LET R == RowsOf(rows, st) b == Bodies(R) IN
         IF st.kind = "runtime"
         THEN {r.src : r \in R} = 0..Cardinality(R) - 1
         ELSE \A i \in DOMAIN b : /\ (i = 1) <=> (b[i].ev = "start")
                                  /\ b[i].ev = "end" => i = Len(b)
    /\ \A st \in RetryStreams : Cardinality({r \in RowsOf(rows, st) : r.body.ev = "terminal"}) <= 1

\* The catalog never breaks and its snapshot tells nothing else than its
\* events: "the event is authoritative and the next replay will include it"
\* (catalog.py, _save_snapshot and replay_projection).  It takes for granted
\* that the catalog's audit events are kept (AuditRetention is Forever, the
\* default) and that the catalog's own session is not deleted: journal.py hides
\* expired audit rows and protects only its own audit session from deletion.
CatalogReplays ==
    LET full == CatalogAfter(EmptyCatalog, RowsOf(rows, CatStream))
        base == IF snap # NoSnap /\ snap.exp > now THEN snap ELSE NoSnap
    IN /\ full.ok
       /\ CatalogAfter(base.state, Visible(CatalogRows(rows, base.last))) = full
       /\ \A p \in DOMAIN full.lists : ToSet(full.lists[p]) = {s \in CatSessions : full.sess[s].proj = p}

\* Every history the journal keeps can be replayed, by whoever loads it next:
\* operations, runtime streams, requests, and the catalog while its audit events
\* are kept and its own session is not deleted (session/journal.py).
JournalReplays == StreamsReplay /\ CatalogReplays

=============================================================================
