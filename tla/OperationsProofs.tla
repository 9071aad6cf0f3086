-------------------------- MODULE OperationsProofs --------------------------
(***************************************************************************)
(* Theorems of the programs around the native program, for every session,  *)
(* and every value of the constants.  Each part has an invariant of its    *)
(* own, kept by its steps (SupervisorProofs, DeskProofs, ConformanceProofs)*)
(* and by the steps of all others, which leave its files alone.            *)
(***************************************************************************)
EXTENDS Operations, SupervisorProofs, DeskProofs, ConformanceProofs, TLAPS

(* What a step of the specification is for each part.                      *)
LEMMA StepOfWorksheets ==
  ASSUME [Next]_vars
  PROVE  Merging \/ Rebinding \/ UNCHANGED worksheetVars
BY DEF Next, vars

(* ... for the forms and pages.                                            *)
LEMMA StepOfForms ==
  ASSUME [Next]_vars
  PROVE  Forms \/ UNCHANGED formVars
BY DEF Next, vars

(* ... for the walk over the package graph.                                *)
LEMMA StepOfGraph ==
  ASSUME [Next]_vars
  PROVE  CheckGraph \/ UNCHANGED graphVars
BY DEF Next, vars

(* ... for the scan.                                                       *)
LEMMA StepOfScan ==
  ASSUME [Next]_vars
  PROVE  Conformance \/ UNCHANGED scanVars
BY DEF Next, vars

(* ... for the soak.                                                       *)
LEMMA StepOfSoak ==
  ASSUME [Next]_vars
  PROVE  Soaking \/ UNCHANGED soakVars
BY DEF Next, vars

(* ... for the batch pause: its own, the operator's, or of neither.        *)
LEMMA StepOfPause ==
  ASSUME [Next]_vars
  PROVE  \/ Pausing
         \/ Operate /\ (cmd["operator"].at = "none" => ~Applying) /\ UNCHANGED batchVars
         \/ UNCHANGED <<control, cmd, batchVars>>
<1>1. CASE Running
  BY <1>1 DEF Running, controlVars
<1>2. CASE UNCHANGED runVars
  BY <1>2 DEF runVars, controlVars
<1> QED BY <1>1, <1>2 DEF Next, vars

(* ... for the supervisor: neither an operator nor the batch writes        *)
(* events.json.                                                            *)
LEMMA StepOfSupervisor ==
  ASSUME [Next]_vars
  PROVE  Supervise \/ UNCHANGED supVars
<1>1. CASE Running
  <2>1. Operate => UNCHANGED file
    BY DEF Operate, OperatorStarts, OperatorSteps, ControlLoad, ControlWrite
  <2>2. Pausing => UNCHANGED file
    BY DEF Pausing, Invoke, NativeStep, Confirm, TimeOut, ControlLoad, ControlWrite, ControlKill
  <2> QED BY <1>1, <2>1, <2>2 DEF Running, supVars, others
<1>2. CASE UNCHANGED runVars
  BY <1>2 DEF runVars
<1> QED BY <1>1, <1>2 DEF Next, vars

(* ... for the review exchange.                                            *)
LEMMA StepOfReview ==
  ASSUME [Next]_vars
  PROVE  Exchange \/ UNCHANGED reviewVars
BY DEF Next, vars

----------------------------------------------------------------------------
(* Types.                                                                  *)

(* The run, and the one that a review command is about to write.           *)
ReviewTypes ==
    /\ store \in Runs /\ artifact \in [Items -> Contents \cup {0}]
    /\ submit # NoSubmit => submit.next \in Runs

LEMMA ReviewTypesStart ==
  ASSUME ReviewInit PROVE ReviewTypes
<1>1. Registered \in RuntimeItem
  BY DEF Registered, RuntimeItem, Statuses, NoReceipt, NoResult, Receipt, Result
<1>2. GraphRun \in Runs
  <2>1. {} \in SUBSET EventIds
    OBVIOUS
  <2> QED BY <1>1, <2>1 DEF GraphRun, Runs
<1> QED BY <1>2 DEF ReviewInit, ReviewTypes

(* New attempts of several items.                                          *)
LEMMA PrepareIs ==
  ASSUME NEW m \in Runs, NEW S \in SUBSET Items, NEW q \in PrepareNext(m, S)
  PROVE  q \in Runs
<1> DEFINE f == [i \in Items |-> IF i \in Opened(m, S) THEN WithAttempt(m.item[i], NextAttempt(m, i))
                                 ELSE m.item[i]]
           e == {Submitted(i, NextAttempt(m, i)) : i \in Opened(m, S)}
<1>1. q = [item |-> f, applied |-> m.applied \cup e]
  BY DEF PrepareNext
<1>2. m.item \in [Items -> RuntimeItem] /\ m.applied \in SUBSET EventIds
  BY DEF Runs
<1>3. \A i \in Items : NextAttempt(m, i) \in Nat
  BY <1>2 DEF NextAttempt, RuntimeItem
<1>4. ASSUME NEW i \in Items PROVE WithAttempt(m.item[i], NextAttempt(m, i)) \in RuntimeItem
  <2>1. m.item[i] \in RuntimeItem /\ NextAttempt(m, i) \in Nat
    BY <1>2, <1>3
  <2> QED BY <2>1, SubmittedItem
<1>5. f \in [Items -> RuntimeItem]
  BY <1>2, <1>4
<1>6. e \in SUBSET EventIds
  BY <1>3 DEF Submitted, EventIds, Opened
<1> HIDE DEF f, e
<1> QED BY <1>1, <1>2, <1>5, <1>6 DEF Runs

(* Any transition of an item.                                              *)
LEMMA TransitionIs ==
  ASSUME NEW m \in Runs, NEW i \in Items, NEW t \in Transitions, NEW q \in Transition(m, i, t)
  PROVE  q \in Runs
<1>1. q = [item |-> [m.item EXCEPT ![i] = Moved(m.item[i], t)], applied |-> m.applied]
  BY DEF Transition
<1>2. m.item \in [Items -> RuntimeItem] /\ m.applied \in SUBSET EventIds
  BY DEF Runs
<1>3. m.item[i] \in RuntimeItem
  BY <1>2
<1>4. Moved(m.item[i], t) \in RuntimeItem
  BY <1>3, MovedTyped
<1> QED BY <1>1, <1>2, <1>4 DEF Runs

(* Every step keeps the types.                                             *)
LEMMA ReviewTypesKept ==
  ASSUME ReviewInv, ReviewTypes, Exchange \/ UNCHANGED reviewVars
  PROVE  ReviewTypes'
<1>1. store \in Runs /\ store.item \in [Items -> RuntimeItem]
  BY DEF ReviewTypes, Runs
<1>2. CASE OtherCommand
  <2>1. PICK j \in Items : \E m \in Commanded(j) : store' = m
    BY <1>2 DEF OtherCommand, Reviewable
  <2>2. PICK m \in Commanded(j) : store' = m
    BY <2>1
  <2>3. m \in Runs
    <3>1. CASE m \in Advance(store)
      BY <1>1, <3>1, AdvanceIs
    <3>2. CASE m \in PrepareNext(store, {j} \cap Runnable(store))
      <4>1. {j} \cap Runnable(store) \in SUBSET Items
        OBVIOUS
      <4> QED BY <1>1, <3>2, <4>1, PrepareIs
    <3>3. CASE m \in Transitioned(j)
      <4>1. PICK t \in Operator : m \in Transition(store, j, t)
        BY <3>3 DEF Transitioned
      <4>2. t \in Transitions
        BY <4>1, ReviewAssumption
      <4> QED BY <1>1, <4>1, <4>2, TransitionIs
    <3> QED BY <2>2, <3>1, <3>2, <3>3 DEF Commanded
  <2> QED BY <1>2, <2>2, <2>3 DEF OtherCommand, exchangeFiles, ReviewTypes
<1>3. CASE ResultArrives
  <2>1. PICK i \in Reviewable : \E rep \in Reports :
           \E d \in (IF rep.status = "succeeded" THEN Contents ELSE {0}) : store' \in Reconcile(store, i, rep, d)
    BY <1>3 DEF ResultArrives
  <2>2. PICK rep \in Reports :
           \E d \in (IF rep.status = "succeeded" THEN Contents ELSE {0}) : store' \in Reconcile(store, i, rep, d)
    BY <2>1
  <2>3. PICK d \in (IF rep.status = "succeeded" THEN Contents ELSE {0}) : store' \in Reconcile(store, i, rep, d)
    BY <2>2
  <2>4. i \in Items /\ d \in Nat
    BY <2>3, ReviewAssumption DEF Reviewable
  <2>5. rep \in Result /\ rep.status \in ReportStatuses
    <3>1. rep \in [attempt : Nat, status : ReportStatuses, id : Nat]
      BY ReviewAssumption
    <3> QED BY <3>1 DEF Result
  <2>6. store' \in Runs
    BY <1>1, <2>3, <2>4, <2>5, ReconcileIs
  <2> QED BY <1>3, <2>6 DEF ResultArrives, exchangeFiles, ReviewTypes
<1>4. CASE ArtifactWritten
  BY <1>4 DEF ArtifactWritten, exchangeFiles, ReviewTypes, Reviewable
<1>5. CASE SubmitRead
  <2> DEFINE v == [attempt |-> receipt.attempt, result |-> receipt.result, digest |-> receipt.digest,
                   decision |-> receipt.decision]
  <2>1. /\ receipt # NoPacket /\ UNCHANGED <<store, artifact>>
        /\ \E m \in Review(store, receipt.item, v) : submit' = [at |-> "write", next |-> m]
    BY <1>5 DEF SubmitRead
  <2>2. PICK m \in Review(store, receipt.item, v) : submit' = [at |-> "write", next |-> m]
    BY <2>1
  <2>3. receipt.item \in Items
    BY <2>1 DEF ReviewInv
  <2>4. v \in Receipt
    <3>1. Binds(store.item[receipt.item], v) /\ v.decision \in {"accepted", "rejected"}
      BY <2>2 DEF Review
    <3>2. /\ store.item[receipt.item].attempt \in Nat /\ store.item[receipt.item].result \in Result
          /\ store.item[receipt.item].digest \in Nat
      BY <1>1, <2>3 DEF RuntimeItem
    <3> QED BY <3>1, <3>2 DEF Binds, Receipt
  <2> HIDE DEF v
  <2>5. m \in Runs
    BY <1>1, <2>2, <2>3, <2>4, ReviewIs
  <2>6. submit'.next \in Runs
    BY <2>2, <2>5
  <2> QED BY <2>1, <2>6 DEF ReviewTypes
<1>6. CASE SubmitWrite
  BY <1>6 DEF SubmitWrite, ReviewTypes
<1>7. CASE UNCHANGED <<store, artifact, submit>>
  BY <1>7 DEF ReviewTypes
<1>8. \/ OtherCommand \/ ResultArrives \/ ArtifactWritten \/ SubmitRead \/ SubmitWrite
      \/ UNCHANGED <<store, artifact, submit>>
  BY DEF Exchange, reviewVars, exchangeFiles, ReadStatus, ReadHistory, ReadArtifacts, ReadAgain,
         PublishPacket, ExportKilled, Judge, PublishReceipt
<1> QED BY <1>2, <1>3, <1>4, <1>5, <1>6, <1>7, <1>8

LEMMA ReviewTyped ==
  ASSUME ReviewTypes PROVE ReviewTypeOK
BY DEF ReviewTypes, ReviewTypeOK

(* What is known of all parts together.                                    *)
AllTypes ==
    /\ PausePlaces /\ ReviewTypes /\ WorksheetTypes /\ FormTypes /\ GraphTypes /\ ScanTypes
    /\ soaks \in 0..MaxSoaks
Parts == PauseInv /\ Supervised /\ ReviewInv /\ WorksheetInv /\ FormInv /\ SoakInv

LEMMA PartsStart ==
  ASSUME Init PROVE Parts /\ AllTypes
<1>1. PauseInv /\ PausePlaces
  BY PauseStart, PausePlacesStart DEF Init
<1>2. Supervised
  BY SupervisorStarts DEF Init
<1>3. ReviewInv /\ ReviewTypes
  BY ReviewStart, ReviewTypesStart DEF Init
<1>4. WorksheetInv /\ WorksheetTypes
  BY WorksheetsStart, WorksheetTypesStart DEF Init
<1>5. FormInv /\ FormTypes
  BY FormsStart, FormTypesStart DEF Init
<1>6. GraphTypes /\ ScanTypes
  BY GraphTypesStart, ScanTypesStart DEF Init
<1>7. SoakInv /\ soaks = 0 /\ MaxSoaks \in Nat
  BY SoakStarts, SoakAssumption DEF Init, SoakInit
<1>8. soaks \in 0..MaxSoaks
  BY <1>7
<1> QED BY <1>1, <1>2, <1>3, <1>4, <1>5, <1>6, <1>7, <1>8 DEF Parts, AllTypes

(* A step of one part leaves the others alone.                             *)
LEMMA PartsKept ==
  ASSUME Parts, AllTypes, [Next]_vars PROVE Parts' /\ AllTypes'
<1>1. PauseInv' /\ PausePlaces'
  <2>1. PauseInv'
    BY StepOfPause, PauseKept DEF Parts
  <2>2. \/ Pausing /\ UNCHANGED controls
        \/ Operate /\ UNCHANGED batchVars
        \/ UNCHANGED <<controls, batchVars>>
    BY DEF Next, vars, Running, runVars, controlVars
  <2>3. PausePlaces'
    BY <2>2, PausePlacesKept DEF Parts, AllTypes
  <2> QED BY <2>1, <2>3
<1>2. Supervised'
  BY StepOfSupervisor, SupervisorKept DEF Parts
<1>3. ReviewInv' /\ ReviewTypes'
  BY StepOfReview, ReviewKept, ReviewTypesKept DEF Parts, AllTypes
<1>4. WorksheetInv' /\ WorksheetTypes'
  BY StepOfWorksheets, WorksheetsKept, WorksheetTypesKept DEF Parts, AllTypes
<1>5. FormInv' /\ FormTypes'
  BY StepOfForms, FormsKept, FormTypesKept DEF Parts, AllTypes
<1>6. GraphTypes' /\ ScanTypes'
  BY StepOfGraph, StepOfScan, GraphTypesKept, ScanTypesKept DEF AllTypes
<1>7. SoakInv' /\ soaks' \in 0..MaxSoaks
  BY StepOfSoak, SoakKept, SoaksBounded DEF Parts, AllTypes
<1> QED BY <1>1, <1>2, <1>3, <1>4, <1>5, <1>6, <1>7 DEF Parts, AllTypes

(* The files of a run and its control have the types their readers expect, *)
(* whoever wrote them last.                                                *)
LEMMA PartsTyped ==
  ASSUME Parts, AllTypes PROVE TypeOK
<1>1. ControlTypeOK
  <2>1. file \in [RunIds -> [state : {"absent", "torn", "whole"}, run : Runs]]
    BY DEF Parts, Supervised, SupervisorInv, SupTypes, RunFiles
  <2>2. control \in [RunIds -> Controls] /\ cmd \in [Controllers -> ControlCommands]
    BY DEF Parts, PauseInv, PauseTypes
  <2>3. \A c \in Controllers : cmd[c].at \in {"none", "loaded", "written"}
    BY <2>2 DEF ControlCommands
  <2>4. controls \in 0..MaxControls
    BY DEF AllTypes, PausePlaces
  <2> QED BY <2>1, <2>2, <2>3, <2>4 DEF Controls, ControlTypeOK
<1>2. BatchTypeOK
  BY DEF Parts, AllTypes, PauseInv, PauseTypes, PausePlaces, BatchTypeOK
<1>3. SupTypeOK
  BY SupervisorSound DEF Parts
<1>4. ReviewTypeOK /\ WorksheetTypeOK /\ FormTypeOK
  BY ReviewTyped, WorksheetTyped, FormTyped DEF Parts, AllTypes
<1>5. GraphTypeOK /\ ScanTypeOK /\ SoakTypeOK
  BY GraphTyped, ScanTyped, SoakTyped DEF Parts, AllTypes
<1> QED BY <1>1, <1>2, <1>3, <1>4, <1>5 DEF TypeOK

----------------------------------------------------------------------------

(* A merged worksheet loses no edit but to a person's choice between the   *)
(* values shown, and is never cyclic; a rebound one changes what it was    *)
(* asked to, one for one: merge of worksheet_merge.py, rebind of           *)
(* input_rebindings.py.                                                    *)
THEOREM WorksheetsAlwaysKeepIntent == Spec => []WorksheetsKeepIntent
<1>1. Init => WorksheetInv
  BY WorksheetsStart DEF Init
<1>2. WorksheetInv /\ [Next]_vars => WorksheetInv'
  BY StepOfWorksheets, WorksheetsKept
<1>3. WorksheetInv => WorksheetsKeepIntent
  BY DEF WorksheetInv
<1> QED BY <1>1, <1>2, <1>3, PTL DEF Spec

(* A plan form expanded for the rows of a table has the steps and links of *)
(* its source and can be ordered whenever that could: expand of            *)
(* shared_table_plan.py.                                                   *)
THEOREM ExpansionAlwaysSound == Spec => []ExpansionSound
<1>1. Init => FormInv
  BY FormsStart DEF Init
<1>2. FormInv /\ [Next]_vars => FormInv'
  BY StepOfForms, FormsKept
<1>3. FormInv => ExpansionSound
  BY DEF FormInv
<1> QED BY <1>1, <1>2, <1>3, PTL DEF Spec

(* A page of the explorer is made of one source, although it was read in   *)
(* several steps; the text and the form it shows are the ones on disk,     *)
(* unless one of them was rewritten after the source was read for the last *)
(* time: main of graph_explorer.py.                                        *)
THEOREM AlwaysPublishedFromOneSource == Spec => []PublishedFromOneSource
<1>1. Init => FormInv
  BY FormsStart DEF Init
<1>2. FormInv /\ [Next]_vars => FormInv'
  BY StepOfForms, FormsKept
<1>3. FormInv => PublishedFromOneSource
  BY DEF FormInv
<1> QED BY <1>1, <1>2, <1>3, PTL DEF Spec

(* The depth first search of check_phase1c_package_graph.py is right for   *)
(* any packages and imports: a cycle it reports is one, and a checkout     *)
(* that passes has none.                                                   *)
THEOREM GraphVerdictAlwaysRight == Spec => []GraphVerdict
<1>1. Init => GraphInv
  BY GraphStart DEF Init
<1>2. GraphInv /\ [Next]_vars => GraphInv'
  BY StepOfGraph, GraphKept
<1>3. GraphInv => GraphVerdict
  BY DEF GraphInv
<1> QED BY <1>1, <1>2, <1>3, PTL DEF Spec

(* A scan of boundary_scan.py without findings means that every production *)
(* source has its registered content.                                      *)
THEOREM DriftAlwaysReported == Spec => []DriftReported
<1>1. Init => ScanInv
  BY ScanStart DEF Init
<1>2. ScanInv /\ [Next]_vars => ScanInv'
  BY StepOfScan, ScanKept
<1>3. ScanInv => DriftReported
  BY DEF ScanInv
<1> QED BY <1>1, <1>2, <1>3, PTL DEF Spec

(* ... and that no code mentions a symbol of a layer above its own.        *)
THEOREM LayersAlwaysContained == Spec => []LayersContained
<1>1. Init => ScanInv
  BY ScanStart DEF Init
<1>2. ScanInv /\ [Next]_vars => ScanInv'
  BY StepOfScan, ScanKept
<1>3. ScanInv => LayersContained
  BY DEF ScanInv
<1> QED BY <1>1, <1>2, <1>3, PTL DEF Spec

(* The journal and the report of batch_pause.py say what happened, while   *)
(* commands time out, scripts are killed and the operator has commands of  *)
(* his own.                                                                *)
THEOREM JournalAlwaysHonest == Spec => []JournalHonest
<1>1. Init => PauseInv
  BY PauseStart DEF Init
<1>2. PauseInv /\ [Next]_vars => PauseInv'
  BY StepOfPause, PauseKept
<1>3. PauseInv => JournalHonest
  BY DEF PauseInv
<1> QED BY <1>1, <1>2, <1>3, PTL DEF Spec

(* Whatever adapters report of an attempt, and however often, every review *)
(* a run records is one a person made, of the attempt, the result and the  *)
(* digest it names and from bytes with that digest, and an accepted item   *)
(* still has the attempt, the result and the digest that were accepted:    *)
(* prepare_packet of review_packet.py, prepare of review_return.py, and    *)
(* the native review-outcome command.                                      *)
THEOREM ReceiptAlwaysCurrent == Spec => []ReceiptCurrent
<1>1. Init => ReviewInv
  BY ReviewStart DEF Init
<1>2. ReviewInv /\ [Next]_vars => ReviewInv'
  BY StepOfReview, ReviewKept
<1>3. ReviewInv => ReceiptCurrent
  BY ReviewedIsCurrent
<1> QED BY <1>1, <1>2, <1>3, PTL DEF Spec

(* An acceptance rests on what its receipt names: in a run, and in the one *)
(* that the automatic recovery opens, the product of an accepted item is   *)
(* the one that was snapshot and shown to the reviewer, and the digest of  *)
(* the drafts that was attested is the one that was verified, whenever a   *)
(* supervisor was killed and whatever an executor that outlived it wrote.  *)
(* The snapshot of the drafts, which are read once more for it, holds the  *)
(* verified content or one that such an executor wrote.  What was taken    *)
(* over was accepted in the parent, and a lease names no stage without its *)
(* evidence: run_unattended_item and apply_automatic_recovery_revision of  *)
(* unattended_cli.mbt.                                                     *)
THEOREM EvidenceAlwaysBound == Spec => []EvidenceBound
<1>1. Init => Supervised
  BY SupervisorStarts DEF Init
<1>2. Supervised /\ [Next]_vars => Supervised'
  BY StepOfSupervisor, SupervisorKept
<1>3. Supervised => EvidenceBound
  BY SupervisorSound
<1> QED BY <1>1, <1>2, <1>3, PTL DEF Spec

(* The executions that supervisors start exceed the budget of the envelope *)
(* by no more than the kills: charge and stop of run_unattended, with the  *)
(* usage it writes after every item.                                       *)
THEOREM ExecutionsAlwaysWithinBudget == Spec => []ExecutionsWithinBudget
<1>1. Init => Supervised
  BY SupervisorStarts DEF Init
<1>2. Supervised /\ [Next]_vars => Supervised'
  BY StepOfSupervisor, SupervisorKept
<1>3. Supervised => ExecutionsWithinBudget
  BY SupervisorSound
<1> QED BY <1>1, <1>2, <1>3, PTL DEF Spec

(* The cycles that a state file counts are in the log, in order, and all   *)
(* before the last passed every check of the programs they were given; the *)
(* last one too, while the soak runs and when it finished the file itself. *)
(* A file that another soak finished, as passed even if it said failed,    *)
(* was finished by one that ran no cycle: the loop of unattended_soak.py.  *)
THEOREM SoakAlwaysHonest == Spec => []SoakHonest
<1>1. Init => SoakInv
  BY SoakStarts DEF Init
<1>2. SoakInv /\ [Next]_vars => SoakInv'
  BY StepOfSoak, SoakKept
<1>3. SoakInv => SoakHonest
  BY SoakIsHonest
<1> QED BY <1>1, <1>2, <1>3, PTL DEF Spec

(* Whatever programs a session uses, and however their steps interleave,   *)
(* every file and every program at work is one of those the modules        *)
(* describe: a control names who wrote it, a run is a run, a merged sheet  *)
(* is a sheet, and no bound is exceeded.                                   *)
THEOREM OperationsTypes == Spec => []TypeOK
<1>1. Init => Parts /\ AllTypes
  BY PartsStart
<1>2. Parts /\ AllTypes /\ [Next]_vars => Parts' /\ AllTypes'
  BY PartsKept
<1>3. Parts /\ AllTypes => TypeOK
  BY PartsTyped
<1> QED BY <1>1, <1>2, <1>3, PTL DEF Spec
=============================================================================
