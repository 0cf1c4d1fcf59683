----------------------------- MODULE MCPipeline ----------------------------
(* Values for Pipeline's constants: one conversation of two answers, of    *)
(* which the first also switches the model, or two conversations of one    *)
(* answer, which in the first comes after a line that switches the model.  *)
EXTENDS Pipeline

CONSTANTS c1, c2, m1, m2

Answer(m) == [sets |-> m, responds |-> TRUE, calls |-> FALSE]
Call(m) == [Answer(m) EXCEPT !.calls = TRUE]
Switch(m) == [Answer(m) EXCEPT !.responds = FALSE]

OneDir == <<c1>>
OneScript == c1 :> <<Answer(m2), Answer(NoModel)>>
OneChat == {<<c1, 1>>, <<c1, 2>>}

TwoDirs == <<c1, c2>>
TwoScript == (c1 :> <<Switch(m2), Answer(NoModel)>>) @@ (c2 :> <<Call(NoModel)>>)
TwoChat == {<<c1, 2>>, <<c2, 1>>}
============================================================================
