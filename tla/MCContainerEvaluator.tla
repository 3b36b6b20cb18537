----------------------- MODULE MCContainerEvaluator -----------------------
(* Bounded instance of ContainerEvaluator: one evaluation beside another   *)
(* call of the sandbox that may draw the same container name, and an       *)
(* oracle of one case.  The candidate's program may print a matching or a  *)
(* failing record, a matching one with more after it, or too much.         *)
EXTENDS ContainerEvaluator, TLC

MCOthers == {<<"other", "call">>}
MCSessions == MCOthers \cup (Evaluations \X {"invoke", "score"})
MCNames == {"invoke", "score"}
MCNamesOf == [s \in MCSessions |-> IF s[2] = "score" THEN {"score"} ELSE {"invoke"}]
Whole == <<"record", "match">>
MCFlood == <<"flood">>
MCAnswers == {Whole, Whole \o <<"text">>, <<"record", "differ">>, MCFlood}
MCOutputs == MCAnswers \cup {<<c>> : c \in {"passed", "candidate_failed", "evaluator_error"}}

=============================================================================
