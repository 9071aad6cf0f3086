---------------------------- MODULE MCRunEngine ----------------------------
(* Small instances of RunEngine: a report that depends on a survey.        *)
EXTENDS RunEngine

MCDependsOn == [i \in Items |-> IF i = "report" THEN {"survey"} ELSE {}]

(* The survey may be retried, the report is attempted once.                *)
MCMaxAttempts == [i \in Items |-> IF i = "survey" THEN 2 ELSE 1]

(* The report's attempt may be reported with two different outputs.        *)
MCOutputs == [i \in Items |-> IF i = "survey" THEN {1} ELSE {1, 2}]
=============================================================================
