----------------------------- MODULE Operations -----------------------------
(***************************************************************************)
(* The programs that operators and qualification start around the native   *)
(* program.  The supervisor, the operator's control commands and the batch *)
(* pause meet in the files of one run; the review exchange, the planning   *)
(* scripts, the conformance scripts and the soak work on files of their    *)
(* own.  A session says which of them are used; the others rest in one of  *)
(* their initial states.                                                   *)
(***************************************************************************)
EXTENDS UnattendedSupervisor, BatchPause, ReviewExchange, PlanWorksheets, PlanForms,
        PackageGraph, ConformanceScan, SoakRun

CONSTANT Sessions       \* which programs may be used together
VARIABLE session

runVars == <<supVars, controlVars, batchVars>>
vars == <<session, runVars, reviewVars, worksheetVars, formVars, graphVars, scanVars, soakVars>>

Uses(program) == program \in session

Init ==
    /\ session \in Sessions
    /\ SupInit /\ (~Uses("supervisor") => file["parent"].state = "whole")
    /\ ControlInit /\ BatchInit /\ ReviewInit /\ WorksheetInit /\ SoakInit
    /\ FormInit /\ (~Uses("forms") => source.deps = DependsOn)
    /\ GraphInit /\ (~Uses("graph") => repo.imports = [p \in Packages |-> {}] /\ DOMAIN graph.imports = InTree)
    /\ ScanInit /\ (~Uses("scan") => /\ DOMAIN rules.files = Files
                                     /\ tree = CHOOSE t \in Trees : TRUE)

(* While a batch pause applies, its operator starts no control command.    *)
Running ==
    \/ /\ Uses("supervisor") /\ Supervise /\ (stops' = stops \/ Uses("kill"))
       /\ UNCHANGED <<controlVars, batchVars>>
    \/ /\ Uses("operator") /\ Operate /\ (cmd["operator"].at = "none" => ~Applying)
       /\ UNCHANGED <<dispatch, draft, product, usage, health, sup, others, batchVars>>
    \/ /\ Uses("batch") /\ Pausing
       /\ UNCHANGED <<controls, dispatch, draft, product, usage, health, sup, others>>

Next ==
    /\ UNCHANGED session
    /\ \/ /\ Running
          /\ UNCHANGED <<reviewVars, worksheetVars, formVars, graphVars, scanVars, soakVars>>
       \/ /\ Uses("review") /\ Exchange
          /\ UNCHANGED <<runVars, worksheetVars, formVars, graphVars, scanVars, soakVars>>
       \/ /\ (Uses("merge") /\ Merging) \/ (Uses("rebind") /\ Rebinding)
          /\ UNCHANGED <<runVars, reviewVars, formVars, graphVars, scanVars, soakVars>>
       \/ /\ Uses("forms") /\ Forms
          /\ UNCHANGED <<runVars, reviewVars, worksheetVars, graphVars, scanVars, soakVars>>
       \/ /\ Uses("graph") /\ CheckGraph
          /\ UNCHANGED <<runVars, reviewVars, worksheetVars, formVars, scanVars, soakVars>>
       \/ /\ Uses("scan") /\ Conformance
          /\ UNCHANGED <<runVars, reviewVars, worksheetVars, formVars, graphVars, soakVars>>
       \/ /\ Uses("soak") /\ Soaking
          /\ UNCHANGED <<runVars, reviewVars, worksheetVars, formVars, graphVars, scanVars>>

(* The harness launches the supervisor until it is done, and a supervisor  *)
(* that runs takes its next step; nothing is assumed of kills, of late     *)
(* executors or of what people start.                                      *)
deskVars == <<session, controlVars, batchVars, reviewVars, worksheetVars, formVars, graphVars, scanVars, soakVars>>
Fair ==
    /\ WF_vars(Uses("supervisor") /\ Launch /\ UNCHANGED deskVars)
    /\ WF_vars(Uses("supervisor") /\ Progress /\ UNCHANGED deskVars)
Spec == Init /\ [][Next]_vars /\ Fair

TypeOK ==
    /\ ControlTypeOK /\ SupTypeOK /\ BatchTypeOK
    /\ Uses("review") => ReviewTypeOK
    /\ Uses("merge") \/ Uses("rebind") => WorksheetTypeOK
    /\ Uses("forms") => FormTypeOK
    /\ Uses("graph") => GraphTypeOK
    /\ Uses("scan") => ScanTypeOK
    /\ Uses("soak") => SoakTypeOK

(* In a session with the supervisor the run settles; nothing is promised   *)
(* when no supervisor is launched.                                         *)
RunsSettle == Uses("supervisor") => Settles
=============================================================================
