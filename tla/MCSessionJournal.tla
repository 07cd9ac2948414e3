-------------------------- MODULE MCSessionJournal --------------------------
(* Instances of SessionJournal: two writers of one conversation and its    *)
(* retention; two processes with one catalog; a writer, a catalog process  *)
(* and the retry events of a second tenant under administrative calls.     *)
EXTENDS SessionJournal, TLC

CONSTANTS w1, w2, w3, c1, c2, c3

Stream(t, s, kind, op) == [t |-> t, s |-> s, kind |-> kind, op |-> op]
Op == Stream("t1", "s1", "operation", "o1")
Runtime == Stream("t1", "s1", "runtime", None)
Retry == Stream("t2", "s2", "retry", None)

MCStreams == {Op, Runtime}
MCRetryStreams == {Retry}
Create(p) == [ev |-> "workspace_created", p |-> p]
Create2(s) == [ev |-> "session_created", s |-> s, p |-> "p1", conf |-> None, parent |-> None]
Status(s, x) == [ev |-> "session_status_changed", s |-> s, status |-> x]

Dep(ws, cs, sts, asked, claiming, reading, seqs, calls) ==
    [writers |-> ws, clients |-> cs, streams |-> sts, asked |-> asked,
     claims |-> claiming, reads |-> reading, seq |-> seqs, maint |-> calls]

MCDeployments ==
    { Dep({w1, w2}, {}, {Op}, {}, FALSE, TRUE, 4, 1),
      Dep({w1, w2}, {}, {Runtime}, {}, FALSE, FALSE, 4, 1),
      Dep({w3}, {}, {Op, Runtime}, {}, TRUE, FALSE, 3, 1),
      Dep({w1, w2}, {}, {Op}, {}, TRUE, FALSE, 3, 0),
      Dep({}, {c3}, {}, Requests, FALSE, FALSE, 3, 0),
      Dep({}, {c1, c2}, {}, {Create("p1"), Create2("a"), Status("a", "deleted"), Status("a", "archived")},
          FALSE, FALSE, 4, 0),
      Dep({}, {c3}, {Retry}, {Create("p1")}, FALSE, FALSE, 4, 2) }

ProcessSymmetry == Permutations({w1, w2}) \cup Permutations({c1, c2})
=============================================================================
