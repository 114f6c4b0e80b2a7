----------------------------- MODULE MCHandlers -----------------------------
(* An instance of Handlers: three messages, two of one key and one without a *)
(* key, and two tasks that belong to one consumer or to one each.            *)
EXTENDS Handlers

CONSTANTS t1, t2, k1

MCMessages == 1..3
MCKeyOf    == <<k1, NoKey, k1>>
MCTasks    == {t1, t2}
Together == [t \in MCTasks |-> 1]
Apart    == [t \in MCTasks |-> IF t = t1 THEN 1 ELSE 2]
Shape(m, l, b) == [member |-> m, limit |-> l, threaded |-> b]

MCShapes == {Shape(Together, "none", FALSE), Shape(Together, "inner", TRUE),
             Shape(Together, "outer", TRUE), Shape(Apart, "none", TRUE)}
=============================================================================
