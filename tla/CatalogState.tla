---------------------------- MODULE CatalogState ----------------------------
(***************************************************************************)
(* The workspace catalog of session/catalog.py as pure operators: the      *)
(* reducer that replays a catalog event, and the event a request builds    *)
(* from the state it loaded.  Titles, paths and times are left out; a      *)
(* project is its ordered list of sessions, a session its project, status, *)
(* bound configuration and parent.                                         *)
(*                                                                         *)
(* A state is a record with ok = TRUE; CatalogBroken is the exception the  *)
(* reducer raises, after which nothing replays.                            *)
(***************************************************************************)
EXTENDS Sequences, FiniteSets, SequencesExt

CONSTANTS
    Projects,    \* project identifiers
    CatSessions, \* conversation session identifiers
    Configs,     \* configuration hashes
    None         \* no project, no configuration, no parent

Statuses == {"active", "archived", "deleted"}
NoSession == [status |-> "absent", proj |-> None, conf |-> None, parent |-> None]

EmptyCatalog == [ok |-> TRUE,
                 lists |-> [p \in {} |-> << >>],
                 sess |-> [s \in CatSessions |-> NoSession]]
CatalogBroken == [ok |-> FALSE]

HasProject(c, p) == p \in DOMAIN c.lists
HasSession(c, s) == c.sess[s].status # "absent"
ActiveSession(c, s) == c.sess[s].status \in {"active", "archived"}

Without(list, s) == SelectSeq(list, LAMBDA x : x # s)

\* session_created: listed last in its project.
Created(c, e) ==
    IF HasSession(c, e.s) \/ (e.p # None /\ ~HasProject(c, e.p)) THEN CatalogBroken
    ELSE [c EXCEPT !.sess[e.s] = [status |-> "active", proj |-> e.p, conf |-> e.conf, parent |-> e.parent],
                   !.lists = IF e.p = None THEN @ ELSE [@ EXCEPT ![e.p] = Append(@, e.s)]]

\* session_moved: out of the list of the old project, last in the new one.
Moved(c, e) ==
    LET old == c.sess[e.s].proj
        out == IF old = None THEN c.lists ELSE [c.lists EXCEPT ![old] = Without(@, e.s)]
    IN IF \/ ~HasSession(c, e.s) \/ (old # None /\ ~HasProject(c, old))
          \/ (e.p # None /\ ~HasProject(c, e.p)) THEN CatalogBroken
       ELSE [c EXCEPT !.sess[e.s].proj = e.p,
                      !.lists = IF e.p = None THEN out ELSE [out EXCEPT ![e.p] = Append(@, e.s)]]

\* workspace_deleted: its sessions stay, without a project.
ProjectDeleted(c, e) ==
    IF ~HasProject(c, e.p) THEN CatalogBroken
    ELSE [c EXCEPT !.lists = [p \in DOMAIN @ \ {e.p} |-> @[p]],
                   !.sess = [s \in CatSessions |->
                               IF @[s].proj = e.p THEN [@[s] EXCEPT !.proj = None] ELSE @[s]]]

\* session_configuration_bound and session_configuration_migrated.
Bound(c, e) ==
    IF ~HasSession(c, e.s) \/ (e.from # None /\ (c.sess[e.s].conf # e.from \/ e.conf = e.from))
    THEN CatalogBroken
    ELSE [c EXCEPT !.sess[e.s].conf = e.conf]

Reordered(c, e) ==
    IF ~HasProject(c, e.p) \/ ToSet(e.list) # ToSet(c.lists[e.p]) THEN CatalogBroken
    ELSE [c EXCEPT !.lists[e.p] = e.list]

\* _reduce_catalog: the event applied to the state, or CatalogBroken.  A
\* rename and a recorded activity change only what the model leaves out.
ReduceCatalog(c, e) ==
    CASE ~c.ok -> c
      [] e.ev = "workspace_created" ->
           IF HasProject(c, e.p) THEN CatalogBroken
           ELSE [c EXCEPT !.lists = [p \in DOMAIN @ \cup {e.p} |-> IF p = e.p THEN << >> ELSE @[p]]]
      [] e.ev = "workspace_renamed" -> IF HasProject(c, e.p) THEN c ELSE CatalogBroken
      [] e.ev = "workspace_deleted" -> ProjectDeleted(c, e)
      [] e.ev = "session_created"   -> Created(c, e)
      [] e.ev = "session_touched"   -> IF HasSession(c, e.s) THEN c ELSE CatalogBroken
      [] e.ev = "session_status_changed" ->
           IF HasSession(c, e.s) THEN [c EXCEPT !.sess[e.s].status = e.status] ELSE CatalogBroken
      [] e.ev = "session_bound"     -> Bound(c, e)
      [] e.ev = "session_moved"     -> Moved(c, e)
      [] e.ev = "project_sessions_reordered" -> Reordered(c, e)
      [] OTHER -> CatalogBroken

-----------------------------------------------------------------------------
(* The requests of the public methods and the events they may build.       *)
Requests ==
    [ev : {"workspace_created", "workspace_renamed", "workspace_deleted"}, p : Projects]
    \cup [ev : {"session_created"}, s : CatSessions, p : Projects \cup {None},
          conf : {None}, parent : CatSessions \cup {None}]
    \cup [ev : {"session_touched"}, s : CatSessions]
    \cup [ev : {"session_status_changed"}, s : CatSessions, status : Statuses]
    \cup [ev : {"session_bound"}, s : CatSessions, conf : Configs, migrate : BOOLEAN]
    \cup [ev : {"session_moved"}, s : CatSessions, p : Projects \cup {None}]
    \cup [ev : {"project_sessions_reordered"}, p : Projects]

\* A request the loaded state refuses raises before anything is appended.
AcceptsProject(c, r) == IF r.ev = "workspace_created" THEN ~HasProject(c, r.p) ELSE HasProject(c, r.p)

\* create_session and fork_session.
AcceptsCreate(c, r) ==
    /\ ~HasSession(c, r.s)
    /\ r.p # None => HasProject(c, r.p)
    /\ r.parent # None => ActiveSession(c, r.parent)

AcceptsStatus(c, r) ==
    /\ HasSession(c, r.s)
    /\ c.sess[r.s].status = "deleted" => r.status = "deleted"

\* bind_session_configuration: a bound configuration is only replaced by an
\* explicit migration; the same one again changes nothing.
AcceptsBind(c, r) ==
    /\ ActiveSession(c, r.s)
    /\ c.sess[r.s].conf # r.conf
    /\ c.sess[r.s].conf # None => r.migrate

AcceptsMove(c, r) == ActiveSession(c, r.s) /\ (r.p # None => HasProject(c, r.p))

Accepts(c, r) ==
    CASE r.ev \in {"workspace_created", "workspace_renamed", "workspace_deleted"} -> AcceptsProject(c, r)
      [] r.ev = "session_created" -> AcceptsCreate(c, r)
      [] r.ev = "session_touched" -> ActiveSession(c, r.s)
      [] r.ev = "session_status_changed" -> AcceptsStatus(c, r)
      [] r.ev = "session_bound" -> AcceptsBind(c, r)
      [] r.ev = "session_moved" -> AcceptsMove(c, r)
      [] r.ev = "project_sessions_reordered" -> HasProject(c, r.p)

\* The event built from the loaded state; a migration names the configuration
\* it replaces, a reordering lists every session of the project.
EventOf(c, r) ==
    CASE r.ev = "session_bound" -> [ev |-> r.ev, s |-> r.s, conf |-> r.conf, from |-> c.sess[r.s].conf]
      [] r.ev = "project_sessions_reordered" -> [ev |-> r.ev, p |-> r.p, list |-> Reverse(c.lists[r.p])]
      [] OTHER -> r

=============================================================================
