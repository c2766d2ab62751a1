----------------------------- MODULE MCExamples ------------------------------
(* Instances of Examples for TLC. *)
EXTENDS Examples

CONSTANTS lens, a1, a2, a3

MCCategory == {lens}
MCAnswers  == {{"pass"}, {"json", "pass", "bullet"}}
MCAgent    == {a1, a2, a3}
=============================================================================
