-------------------------- MODULE MCToolScheduler --------------------------
(***************************************************************************)
(* In process P a writer of keys 1 and 2 (a) and an exclusive call (x) in  *)
(* one batch, a writer of keys 2 and 1 (b) and a reader of key 1 (r) in    *)
(* another; in process Q a writer of key 1 (q) with one retry.  The models *)
(* ask for a, b, x, for a, q or for b, r.                                  *)
(***************************************************************************)
EXTENDS ToolScheduler

MCCalls == {"a", "b", "x", "r", "q"}
MCProcessOf == [c \in MCCalls |-> IF c = "q" THEN "Q" ELSE "P"]
MCBatchOf == [c \in MCCalls |-> CASE c = "a" -> <<1, 1>> [] c = "x" -> <<1, 2>>
                                  [] c = "b" -> <<2, 1>> [] c = "r" -> <<2, 2>>
                                  [] c = "q" -> <<3, 1>>]
MCKeyOrder == <<"k1", "k2">>
MCKeysOf == [c \in MCCalls |-> CASE c = "a" -> <<"k1", "k2">> [] c = "b" -> <<"k2", "k1">>
                                 [] c \in {"q", "r"} -> <<"k1">> [] c = "x" -> <<>>]
MCAccessOf == [c \in MCCalls |-> IF c = "r" THEN "read" ELSE "write"]
MCAttemptsOf == [c \in MCCalls |-> IF c = "q" THEN 2 ELSE 1]
MCPriorityOf == [c \in MCCalls |-> IF c = "b" THEN 1 ELSE 0]
=============================================================================
