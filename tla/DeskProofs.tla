----------------------------- MODULE DeskProofs -----------------------------
(***************************************************************************)
(* What people at a desk may rely on: the journal of a batch pause, for    *)
(* any selection of runs and any other commands; the review that an        *)
(* offline receipt leaves in the run, for any packets, rewrites and        *)
(* commands in between; the worksheets and forms that a plan is edited in, *)
(* for any items, rows, references and edits.  The steps of BatchPause,    *)
(* ReviewExchange, PlanWorksheets and PlanForms keep the invariants below; *)
(* OperationsProofs lifts them to the specification.                       *)
(***************************************************************************)
EXTENDS BatchPause, ReviewExchange, PlanWorksheets, PlanForms, FiniteSetTheorems, TLAPS

----------------------------------------------------------------------------
(* The batch pause.                                                        *)

Controls ==
    [state : {"running", "paused", "cancelled"}, ceiling : {"none", "low"},
     by : Controllers \cup {"nobody"}, torn : BOOLEAN]
ControlCommands == [at : {"none", "loaded", "written"}, run : RunIds, next : Controls]

PauseTypes ==
    /\ control \in [RunIds -> Controls]
    /\ cmd \in [Controllers -> ControlCommands]
    /\ result \in [RunIds -> Results]
    /\ {"at", "mode", "run", "outcome", "before"} \subseteq DOMAIN batch
    /\ batch.run \in RunIds

(* Whose command is under way, and for which run: the batch waits for its  *)
(* own command on the run at hand, and an apply starts when the operator   *)
(* has no command under way.                                               *)
CommandsApart ==
    /\ cmd["operator"].at = "loaded" => cmd["operator"].next.by = "operator"
    /\ Applying => cmd["operator"].at = "none"
    /\ cmd["batch"].at # "none" => batch.at \in {"wait", "over"}
    /\ cmd["batch"].at # "none" /\ batch.at = "wait" => cmd["batch"].run = batch.run

(* Which runs have a result, and which were announced.                     *)
RunAtHand ==
    /\ batch.at = "none" => \A r \in RunIds : result[r] = "none"
    /\ batch.at \in {"status", "request", "invoke", "wait"} =>
          batch.run \in Selected /\ result[batch.run] = "none"
    /\ batch.at \in {"request", "invoke", "wait"} => ~batch.before.torn
    /\ batch.at \in {"invoke", "wait"} => batch.run \in asked
    /\ \A r \in RunIds : r \in asked /\ result[r] = "none" =>
          \/ batch.at \in {"invoke", "wait"} /\ batch.run = r
          \/ batch.at = "over"
    /\ report.printed => batch.at = "over"

PauseInv == PauseTypes /\ CommandsApart /\ RunAtHand /\ JournalHonest

(* No command, no result and no control at first.                          *)
LEMMA PauseStart ==
  ASSUME ControlInit, BatchInit
  PROVE  PauseInv
<1>1. NoControl \in Controls /\ NoCommand \in ControlCommands
  BY DEF NoControl, NoCommand, Controls, ControlCommands, RunIds
<1>2. "operator" \in Controllers /\ "batch" \in Controllers
  BY ControlAssumption
<1>3. PauseTypes
  BY <1>1 DEF PauseTypes, ControlInit, BatchInit, Results, RunIds
<1>4. cmd["operator"] = NoCommand /\ cmd["batch"] = NoCommand /\ \A r \in RunIds : control[r] = NoControl
  BY <1>2 DEF ControlInit
<1>5. /\ batch.at = "none" /\ batch.mode = "preview" /\ asked = {} /\ ~report.printed
      /\ \A r \in RunIds : result[r] = "none"
  BY DEF BatchInit, NoReport
<1>6. CommandsApart
  BY <1>4, <1>5 DEF CommandsApart, NoCommand, Applying
<1>7. RunAtHand
  BY <1>5 DEF RunAtHand
<1>8. JournalHonest
  BY <1>4, <1>5, BatchAssumption DEF JournalHonest, NoControl, NoCommand
<1> QED BY <1>3, <1>6, <1>7, <1>8 DEF PauseInv

(* A run gets its result, and nothing else of the batch changes.  Only a   *)
(* run that was not announced gets a result other than unconfirmed or a    *)
(* confirmed pause.                                                        *)
LEMMA ConcludeKeeps ==
  ASSUME PauseInv, NEW r \in Selected, NEW what \in Results \ {"none"}, Conclude(r, what),
         asked' = asked, report' = report, cmd' = cmd, control' = control,
         batch.at \in {"next", "status", "invoke"}, batch.at # "next" => batch.run = r,
         result[r] = "none", what \notin {"paused", "unconfirmed"} => batch.at # "invoke",
         what # "paused", what = "already-paused" => control[r].state = "paused"
  PROVE  PauseInv'
<1>1. /\ r \in RunIds /\ result'[r] = what /\ \A q \in RunIds : q # r => result'[q] = result[q]
      /\ result' \in [RunIds -> Results]
  BY BatchAssumption DEF Conclude, PauseInv, PauseTypes
<1>2. /\ batch'.at = "next" /\ batch'.mode = batch.mode /\ batch'.run = batch.run /\ batch'.before = batch.before
      /\ DOMAIN batch' = DOMAIN batch
  BY DEF Conclude, PauseInv, PauseTypes
<1>3. cmd["batch"].at = "none"
  BY DEF PauseInv, CommandsApart
<1>4. PauseTypes'
  BY <1>1, <1>2 DEF PauseInv, PauseTypes
<1>5. CommandsApart'
  BY <1>2, <1>3 DEF PauseInv, CommandsApart, Applying
<1>6. ~report.printed
  BY DEF PauseInv, RunAtHand
<1>7. RunAtHand'
  BY <1>1, <1>2, <1>6 DEF PauseInv, RunAtHand
<1>8. JournalHonest'
  <2>1. batch.at # "invoke" => r \notin asked
    BY <1>1 DEF PauseInv, RunAtHand
  <2>2. batch.at # "invoke" => control[r].by # "batch"
    BY <2>1, <1>1 DEF PauseInv, JournalHonest
  <2>3. Applying' => Applying
    BY <1>2 DEF Applying
  <2>4. \A q \in Selected : q \in RunIds
    BY BatchAssumption
  <2> QED BY <1>1, <1>3, <1>6, <2>1, <2>2, <2>3, <2>4 DEF PauseInv, JournalHonest
<1> QED BY <1>4, <1>5, <1>7, <1>8 DEF PauseInv

(* The wait for the command ends: it has left the control it was expected  *)
(* to leave, or it is reported as unconfirmed.                             *)
LEMMA WaitEnds ==
  ASSUME PauseInv, NEW what \in {"paused", "unconfirmed"}, Conclude(batch.run, what),
         batch.at = "wait", asked' = asked, report' = report, cmd' = [cmd EXCEPT !["batch"] = NoCommand],
         control' \in [RunIds -> Controls], \A r \in RunIds : r # batch.run => control'[r] = control[r],
         control'[batch.run].by = control[batch.run].by,
         what = "paused" => control' = control /\ control[batch.run] = Expected(batch.before)
  PROVE  PauseInv'
<1> DEFINE run == batch.run
<1>1. /\ run \in RunIds /\ run \in Selected /\ result[run] = "none" /\ run \in asked
      /\ result'[run] = what /\ \A q \in RunIds : q # run => result'[q] = result[q]
      /\ result' \in [RunIds -> Results]
  <2>1. run \in RunIds /\ run \in Selected /\ result[run] = "none" /\ run \in asked
    BY DEF PauseInv, PauseTypes, RunAtHand
  <2>2. what \in Results /\ result' = [result EXCEPT ![run] = what]
    BY DEF Conclude, Results, Good
  <2> HIDE DEF run
  <2> QED BY <2>1, <2>2 DEF PauseInv, PauseTypes
<1>2. /\ batch'.at = "next" /\ batch'.mode = batch.mode /\ batch'.run = run /\ DOMAIN batch' = DOMAIN batch
  BY DEF Conclude, PauseInv, PauseTypes
<1>3. NoCommand \in ControlCommands /\ NoCommand.at = "none"
  BY DEF NoCommand, ControlCommands, NoControl, Controls, RunIds
<1>4. cmd' \in [Controllers -> ControlCommands] /\ cmd'["batch"].at = "none" /\ cmd'["operator"] = cmd["operator"]
  BY <1>3, ControlAssumption DEF PauseInv, PauseTypes
<1>5. PauseTypes'
  BY <1>1, <1>2, <1>4 DEF PauseInv, PauseTypes
<1>6. CommandsApart'
  BY <1>2, <1>4 DEF PauseInv, CommandsApart, Applying
<1>7. ~report.printed
  BY DEF PauseInv, RunAtHand
<1>8. RunAtHand'
  BY <1>1, <1>2, <1>7 DEF PauseInv, RunAtHand
<1>9. what = "paused" => control'[run].state = "paused" /\ control'[run].by = "batch" /\ ~control'[run].torn
  <2>1. ASSUME what = "paused"
        PROVE  control[run] = [batch.before EXCEPT !.state = "paused", !.by = "batch"] /\ control[run] \in Controls
    BY <2>1, <1>1 DEF Expected, PauseInv, PauseTypes
  <2>2. ~batch.before.torn
    BY DEF PauseInv, RunAtHand
  <2> QED BY <2>1, <2>2 DEF Controls
<1>10. JournalHonest'
  <2>1. Applying' => Applying
    BY <1>2 DEF Applying
  <2>2. \A q \in Selected : q \in RunIds
    BY BatchAssumption
  <2>3. \A r \in RunIds : control'[r].by = "batch" => r \in asked'
    <3>1. \A r \in RunIds : control'[r].by = control[r].by
      OBVIOUS
    <3> QED BY <3>1 DEF PauseInv, JournalHonest
  <2>4. \A r \in Selected : r # run => control'[r] = control[r] /\ result'[r] = result[r]
    BY <1>1, <2>2
  <2>5. ASSUME NEW r \in Selected
        PROVE  /\ result'[r] \notin {"none", "paused", "unconfirmed"} => r \notin asked' /\ control'[r].by # "batch"
               /\ Applying' /\ result'[r] = "paused" =>
                     control'[r].state = "paused" /\ control'[r].by = "batch" /\ ~control'[r].torn
               /\ Applying' /\ result'[r] = "already-paused" => control'[r].state = "paused"
    <3>1. CASE r = run
      BY <3>1, <1>1, <1>9
    <3>2. CASE r # run
      BY <3>2, <2>1, <2>4 DEF PauseInv, JournalHonest
    <3> QED BY <3>1, <3>2
  <2> QED BY <1>4, <1>7, <2>3, <2>5 DEF JournalHonest
<1> QED BY <1>5, <1>6, <1>8, <1>10 DEF PauseInv

(* A step of the batch before its command starts, without a result.        *)
LEMMA MoveKeeps ==
  ASSUME PauseInv, result' = result, report' = report, cmd' = cmd, control' = control,
         DOMAIN batch' = DOMAIN batch, batch'.mode = batch.mode \/ batch.at = "none", batch'.run \in RunIds,
         \/ /\ batch.at = "none" /\ batch'.at = "next" /\ asked' = asked
            /\ batch'.mode = "apply" => cmd["operator"].at = "none"
         \/ /\ batch.at = "next" /\ batch'.at = "status" /\ asked' = asked
            /\ batch'.run \in Selected /\ result[batch'.run] = "none"
         \/ /\ batch.at = "status" /\ batch'.at = "request" /\ asked' = asked
            /\ batch'.run = batch.run /\ ~batch'.before.torn
         \/ /\ batch.at = "request" /\ batch'.at = "invoke" /\ asked' = asked \cup {batch.run}
            /\ batch'.run = batch.run /\ batch'.before = batch.before
         \/ /\ batch.at \notin {"none", "over"} /\ batch'.at = "over" /\ asked' = asked
  PROVE  PauseInv'
<1>1. PauseTypes'
  BY DEF PauseInv, PauseTypes
<1>2. CommandsApart'
  BY DEF PauseInv, CommandsApart, Applying
<1>3. RunAtHand'
  BY DEF PauseInv, RunAtHand
<1>4. JournalHonest'
  <2>1. Applying' /\ batch.at # "none" => Applying
    BY DEF Applying
  <2>2. batch.at = "none" => \A r \in Selected : result[r] = "none"
    BY BatchAssumption DEF PauseInv, RunAtHand
  <2>3. asked' # asked => asked' = asked \cup {batch.run} /\ result[batch.run] = "none"
    BY DEF PauseInv, RunAtHand
  <2>4. ASSUME NEW r \in Selected
        PROVE  /\ result'[r] \notin {"none", "paused", "unconfirmed"} => r \notin asked' /\ control'[r].by # "batch"
               /\ Applying' /\ result'[r] = "paused" =>
                     control'[r].state = "paused" /\ control'[r].by = "batch" /\ ~control'[r].torn
               /\ Applying' /\ result'[r] = "already-paused" => control'[r].state = "paused"
    BY <2>1, <2>2, <2>3 DEF PauseInv, JournalHonest
  <2>5. \A r \in RunIds : control'[r].by = "batch" \/ (cmd'["batch"].at # "none" /\ cmd'["batch"].run = r)
          => r \in asked'
    BY DEF PauseInv, JournalHonest
  <2>6. report'.printed /\ report'.allPaused => \A r \in Selected : result'[r] \in {"paused", "already-paused"}
    BY DEF PauseInv, JournalHonest
  <2> QED BY <2>4, <2>5, <2>6 DEF JournalHonest
<1> QED BY <1>1, <1>2, <1>3, <1>4 DEF PauseInv

(* The steps of the batch itself.                                          *)
LEMMA BatchOnlyKeeps ==
  ASSUME PauseInv, BatchOnly, UNCHANGED <<control, cmd>>
  PROVE  PauseInv'
<1>1. CASE BatchStart
  <2>1. PICK mode \in {"preview", "apply"} :
          /\ mode = "apply" => cmd["operator"].at = "none"
          /\ batch' = [batch EXCEPT !.at = "next", !.mode = mode]
    BY <1>1 DEF BatchStart
  <2>2. /\ DOMAIN batch' = DOMAIN batch /\ batch'.at = "next" /\ batch'.mode = mode
        /\ batch'.run \in RunIds /\ batch.at = "none" /\ UNCHANGED <<asked, result, report>>
    BY <2>1, <1>1 DEF BatchStart, Batch, PauseInv, PauseTypes
  <2> QED BY <2>1, <2>2, MoveKeeps
<1>2. CASE InspectStatus
  <2>1. PICK r \in Pending :
          \/ /\ batch' = [batch EXCEPT !.at = "status", !.run = r, !.outcome = Outcome(file[r].run)]
             /\ UNCHANGED result
          \/ Conclude(r, "blocked")
    BY <1>2 DEF InspectStatus
  <2>2. /\ batch.at = "next" /\ UNCHANGED <<asked, report>> /\ r \in Selected /\ r \in RunIds /\ result[r] = "none"
    BY <1>2, BatchAssumption DEF InspectStatus, Batch, Pending
  <2>3. CASE batch' = [batch EXCEPT !.at = "status", !.run = r, !.outcome = Outcome(file[r].run)] /\ result' = result
    <3>1. DOMAIN batch' = DOMAIN batch /\ batch'.at = "status" /\ batch'.run = r /\ batch'.mode = batch.mode
      BY <2>3 DEF PauseInv, PauseTypes
    <3> QED BY <2>2, <2>3, <3>1, MoveKeeps
  <2>4. CASE Conclude(r, "blocked")
    <3>1. "blocked" \in Results \ {"none"}
      BY DEF Results
    <3> QED BY <2>2, <2>4, <3>1, ConcludeKeeps
  <2> QED BY <2>1, <2>3, <2>4
<1>3. CASE InspectControl
  <2> DEFINE r == batch.run  v == PauseNeed(control[r], batch.outcome, batch.mode)
  <2>1. /\ batch.at = "status" /\ UNCHANGED <<asked, report>> /\ r \in Selected /\ r \in RunIds
        /\ result[r] = "none"
    BY <1>3, BatchAssumption DEF InspectControl, Batch, PauseInv, RunAtHand, PauseTypes
  <2>2. CASE v = "pause"
    <3>1. batch' = [batch EXCEPT !.at = "request", !.before = control[r]] /\ result' = result
      BY <1>3, <2>2 DEF InspectControl
    <3>2. ~control[r].torn
      BY <2>2 DEF PauseNeed
    <3>3. /\ DOMAIN batch' = DOMAIN batch /\ batch'.at = "request" /\ batch'.run = r
          /\ batch'.mode = batch.mode /\ batch'.before = control[r]
      BY <3>1 DEF PauseInv, PauseTypes
    <3> QED BY <2>1, <3>1, <3>2, <3>3, MoveKeeps
  <2>3. CASE v # "pause"
    <3>1. Conclude(r, v)
      BY <1>3, <2>3 DEF InspectControl
    <3>2. v \in {"blocked", "cancelled", "already-paused", "terminal", "would-pause"}
      BY <2>3 DEF PauseNeed
    <3>3. v = "already-paused" => control[r].state = "paused"
      BY DEF PauseNeed
    <3>4. v \in Results \ {"none"} /\ v # "paused"
      BY <3>2 DEF Results, Good
    <3> HIDE DEF v
    <3> QED BY <2>1, <3>1, <3>3, <3>4, ConcludeKeeps
  <2> QED BY <2>2, <2>3
<1>4. CASE Request
  <2>1. batch' = [batch EXCEPT !.at = "invoke"] /\ batch.at = "request"
        /\ asked' = asked \cup {batch.run} /\ UNCHANGED <<result, report>>
    BY <1>4 DEF Request, Batch
  <2>2. /\ DOMAIN batch' = DOMAIN batch /\ batch'.at = "invoke" /\ batch'.run = batch.run
        /\ batch'.run \in RunIds /\ batch'.mode = batch.mode /\ batch'.before = batch.before
    BY <2>1 DEF PauseInv, PauseTypes
  <2> QED BY <2>1, <2>2, MoveKeeps
<1>5. CASE BatchKill
  <2>1. batch' = [batch EXCEPT !.at = "over"] /\ batch.at \notin {"none", "over"} /\ UNCHANGED <<asked, result, report>>
    BY <1>5 DEF BatchKill
  <2>2. /\ DOMAIN batch' = DOMAIN batch /\ batch'.at = "over" /\ batch'.run \in RunIds /\ batch'.mode = batch.mode
    BY <2>1 DEF PauseInv, PauseTypes
  <2> QED BY <2>1, <2>2, MoveKeeps
<1>6. CASE BatchFinish
  <2>1. /\ batch.at = "next" /\ UNCHANGED <<asked, result>> /\ batch' = [batch EXCEPT !.at = "over"]
        /\ report'.allPaused => \A r \in Selected : result[r] \in {"paused", "already-paused"}
    <3>1. report' = [printed |-> TRUE, clean |-> \A r \in Selected : result[r] \in Good,
                     allPaused |-> batch.mode = "apply"
                                    /\ \A r \in Selected : result[r] \in {"paused", "already-paused"}]
      BY <1>6 DEF BatchFinish
    <3>2. report'.allPaused = (batch.mode = "apply" /\ \A r \in Selected : result[r] \in {"paused", "already-paused"})
      BY <3>1
    <3> QED BY <3>2, <1>6 DEF BatchFinish, Batch
  <2>2. batch'.at = "over" /\ DOMAIN batch' = DOMAIN batch /\ batch'.run = batch.run
    BY <2>1 DEF PauseInv, PauseTypes
  <2>3. PauseTypes'
    BY <2>1, <2>2 DEF PauseInv, PauseTypes
  <2>4. CommandsApart'
    BY <2>1, <2>2 DEF PauseInv, CommandsApart, Applying
  <2>5. RunAtHand'
    BY <2>1, <2>2 DEF PauseInv, RunAtHand
  <2>6. JournalHonest'
    BY <2>1, <2>2 DEF PauseInv, JournalHonest, Applying
  <2> QED BY <2>3, <2>4, <2>5, <2>6 DEF PauseInv
<1> QED BY <1>1, <1>2, <1>3, <1>4, <1>5, <1>6 DEF BatchOnly

Actions == {"narrow", "pause", "resume", "cancel"}

(* What a control command makes of a control is a control, by its starter. *)
LEMMA ControlledIs ==
  ASSUME NEW k \in Controls, NEW action \in Actions, NEW c \in Controllers
  PROVE  Controlled(k, action, c) \in Controls /\ Controlled(k, action, c).by = c
BY DEF Controlled, Controls, Actions

(* The native command of the batch starts, is refused, or writes.          *)
LEMMA InvokeKeeps ==
  ASSUME PauseInv, Invoke
  PROVE  PauseInv'
<1> DEFINE r == batch.run  next == Controlled(control[r], "pause", "batch")
<1>1. /\ batch.at = "invoke" /\ UNCHANGED <<asked, report>> /\ r \in Selected /\ r \in RunIds
      /\ result[r] = "none" /\ r \in asked /\ "batch" \in Controllers /\ "operator" \in Controllers
  BY ControlAssumption DEF Invoke, Batch, PauseInv, RunAtHand, PauseTypes
<1>2. CASE ControlLoad("batch", r, "pause") /\ batch' = [batch EXCEPT !.at = "wait"] /\ result' = result
  <2>1. control' = control /\ cmd' = [cmd EXCEPT !["batch"] = [at |-> "loaded", run |-> r, next |-> next]]
    BY <1>2 DEF ControlLoad
  <2>2. next \in Controls
    BY <1>1, ControlledIs DEF PauseInv, PauseTypes, Actions
  <2> HIDE DEF next
  <2>3. /\ cmd' \in [Controllers -> ControlCommands] /\ cmd'["operator"] = cmd["operator"]
        /\ cmd'["batch"].run = r
    BY <2>1, <2>2, <1>1 DEF PauseInv, PauseTypes, ControlCommands
  <2>4. /\ DOMAIN batch' = DOMAIN batch /\ batch'.at = "wait" /\ batch'.run = r /\ batch'.mode = batch.mode
        /\ batch'.before = batch.before
    BY <1>2 DEF PauseInv, PauseTypes
  <2>5. PauseTypes'
    BY <1>1, <1>2, <2>1, <2>3, <2>4 DEF PauseInv, PauseTypes
  <2>6. CommandsApart'
    BY <1>1, <2>3, <2>4 DEF PauseInv, CommandsApart, Applying
  <2>7. RunAtHand'
    BY <1>1, <1>2, <2>4 DEF PauseInv, RunAtHand
  <2>8. JournalHonest'
    <3>1. Applying' => Applying
      BY <1>1, <2>4 DEF Applying
    <3> QED BY <1>1, <1>2, <2>1, <2>3, <3>1 DEF PauseInv, JournalHonest
  <2> QED BY <2>5, <2>6, <2>7, <2>8 DEF PauseInv
<1>3. CASE UNCHANGED <<control, cmd>> /\ Conclude(r, "unconfirmed")
  <2>1. "unconfirmed" \in Results \ {"none"}
    BY DEF Results
  <2> QED BY <1>1, <1>3, <2>1, ConcludeKeeps
<1> QED BY <1>2, <1>3 DEF Invoke

(* A command writes the control that it made: the batch one of the run at  *)
(* hand or, once the script is gone, of a run it announced.                *)
LEMMA WriteKeeps ==
  ASSUME PauseInv, NEW c \in {"operator", "batch"}, ControlWrite(c), UNCHANGED batchVars
  PROVE  PauseInv'
<1> DEFINE r == cmd[c].run  next == cmd[c].next
<1>1. /\ cmd[c].at = "loaded" /\ control' = [control EXCEPT ![r] = next] /\ cmd' = [cmd EXCEPT ![c].at = "written"]
      /\ batch' = batch /\ asked' = asked /\ result' = result /\ report' = report
  BY DEF ControlWrite, batchVars
<1>2. /\ "batch" \in Controllers /\ "operator" \in Controllers /\ cmd[c] \in ControlCommands
      /\ r \in RunIds /\ next \in Controls
  BY ControlAssumption DEF PauseInv, PauseTypes, ControlCommands
<1> HIDE DEF r, next
<1>3. /\ control' \in [RunIds -> Controls] /\ control'[r] = next
      /\ \A q \in RunIds : q # r => control'[q] = control[q]
  BY <1>1, <1>2 DEF PauseInv, PauseTypes
<1>4. /\ cmd' \in [Controllers -> ControlCommands] /\ cmd'[c].at = "written" /\ cmd'[c].run = r
      /\ \A d \in Controllers : d # c => cmd'[d] = cmd[d]
  BY <1>1, <1>2 DEF PauseInv, PauseTypes, ControlCommands, r
<1>5. PauseTypes'
  BY <1>1, <1>3, <1>4 DEF PauseInv, PauseTypes
<1>6. CommandsApart'
  BY <1>1, <1>2, <1>4 DEF PauseInv, CommandsApart, Applying, r
<1>7. RunAtHand'
  BY <1>1 DEF PauseInv, RunAtHand
<1>8. c = "operator" => next.by = "operator" /\ ~Applying
  BY <1>1 DEF PauseInv, CommandsApart, next
<1>9. c = "batch" => r \in asked /\ (Applying => r = batch.run /\ result[r] = "none")
  <2>1. ASSUME c = "batch" PROVE r \in asked /\ (Applying => batch.at = "wait")
    BY <2>1, <1>1, <1>2 DEF PauseInv, JournalHonest, CommandsApart, Applying, r
  <2>2. ASSUME c = "batch", Applying PROVE r = batch.run /\ result[r] = "none"
    BY <2>1, <2>2, <1>1 DEF PauseInv, CommandsApart, RunAtHand, r
  <2> QED BY <2>1, <2>2
<1>10. \A q \in RunIds : control'[q].by = "batch" \/ (cmd'["batch"].at # "none" /\ cmd'["batch"].run = q)
           => q \in asked'
  <2>1. \A q \in RunIds : cmd'["batch"].at # "none" /\ cmd'["batch"].run = q => q \in asked
    BY <1>1, <1>2, <1>4, <1>9 DEF PauseInv, JournalHonest
  <2>2. \A q \in RunIds : control'[q].by = "batch" => q \in asked
    BY <1>3, <1>8, <1>9 DEF PauseInv, JournalHonest
  <2> QED BY <1>1, <2>1, <2>2
<1>11. ASSUME NEW q \in Selected
       PROVE  /\ result'[q] \notin {"none", "paused", "unconfirmed"} => q \notin asked' /\ control'[q].by # "batch"
              /\ Applying' /\ result'[q] = "paused" =>
                    control'[q].state = "paused" /\ control'[q].by = "batch" /\ ~control'[q].torn
              /\ Applying' /\ result'[q] = "already-paused" => control'[q].state = "paused"
  <2>1. q \in RunIds /\ (Applying' <=> Applying)
    BY <1>1, BatchAssumption DEF Applying
  <2>2. CASE q # r
    BY <2>1, <2>2, <1>1, <1>3 DEF PauseInv, JournalHonest
  <2>3. CASE q = r
    <3>1. ASSUME Applying PROVE result[q] = "none"
      BY <3>1, <2>3, <1>8, <1>9
    <3>2. ASSUME result[q] \notin {"none", "paused", "unconfirmed"} PROVE q \notin asked
      BY <3>2 DEF PauseInv, JournalHonest
    <3>3. ASSUME q \notin asked PROVE control'[q].by # "batch"
      BY <3>3, <1>1, <1>10, <2>1
    <3> QED BY <2>1, <3>1, <3>2, <3>3, <1>1
  <2> QED BY <2>2, <2>3
<1>12. JournalHonest'
  <2>1. report'.printed /\ report'.allPaused => \A q \in Selected : result'[q] \in {"paused", "already-paused"}
    BY <1>1 DEF PauseInv, JournalHonest
  <2> QED BY <1>10, <1>11, <2>1 DEF JournalHonest
<1> QED BY <1>5, <1>6, <1>7, <1>12 DEF PauseInv

(* Every step of the batch, and of an operator who starts no command while *)
(* the batch applies.                                                      *)
LEMMA PauseKept ==
  ASSUME PauseInv,
         \/ Pausing
         \/ Operate /\ (cmd["operator"].at = "none" => ~Applying) /\ UNCHANGED batchVars
         \/ UNCHANGED <<control, cmd, batchVars>>
  PROVE  PauseInv'
<1>1. CASE BatchOnly /\ UNCHANGED <<file, control, cmd>>
  BY <1>1, BatchOnlyKeeps
<1>2. CASE Invoke
  BY <1>2, InvokeKeeps
<1>3. CASE NativeStep
  BY <1>3, WriteKeeps DEF NativeStep
<1>4. CASE Confirm
  <2>1. /\ batch.at = "wait" /\ cmd' = [cmd EXCEPT !["batch"] = NoCommand] /\ UNCHANGED <<control, asked, report>>
        /\ Conclude(batch.run, IF control[batch.run] = Expected(batch.before) THEN "paused" ELSE "unconfirmed")
    BY <1>4 DEF Confirm, Batch, ControlDone
  <2>2. control' \in [RunIds -> Controls]
    BY <2>1 DEF PauseInv, PauseTypes
  <2>3. CASE control[batch.run] = Expected(batch.before)
    BY <2>1, <2>2, <2>3, WaitEnds
  <2>4. CASE control[batch.run] # Expected(batch.before)
    BY <2>1, <2>2, <2>4, WaitEnds
  <2> QED BY <2>3, <2>4
<1>5. CASE TimeOut
  <2>1. /\ batch.at = "wait" /\ cmd' = [cmd EXCEPT !["batch"] = NoCommand] /\ UNCHANGED <<asked, report>>
        /\ Conclude(batch.run, "unconfirmed")
        /\ \/ control' = control
           \/ cmd["batch"].at = "loaded" /\ control' = [control EXCEPT ![cmd["batch"].run].torn = TRUE]
    BY <1>5 DEF TimeOut, Batch, ControlKill
  <2>2. /\ control' \in [RunIds -> Controls] /\ control'[batch.run].by = control[batch.run].by
        /\ \A r \in RunIds : r # batch.run => control'[r] = control[r]
    <3>1. CASE control' = control
      BY <3>1 DEF PauseInv, PauseTypes
    <3>2. CASE cmd["batch"].at = "loaded" /\ control' = [control EXCEPT ![cmd["batch"].run].torn = TRUE]
      <4>1. cmd["batch"].run = batch.run /\ batch.run \in RunIds /\ control[batch.run] \in Controls
        BY <2>1, <3>2 DEF PauseInv, PauseTypes, CommandsApart
      <4>2. control' = [control EXCEPT ![batch.run] = [control[batch.run] EXCEPT !.torn = TRUE]]
        BY <3>2, <4>1
      <4> DEFINE torn == [control[batch.run] EXCEPT !.torn = TRUE]
      <4>3. torn \in Controls /\ torn.by = control[batch.run].by
        BY <4>1 DEF Controls
      <4> HIDE DEF torn
      <4> QED BY <4>1, <4>2, <4>3 DEF PauseInv, PauseTypes, torn
    <3> QED BY <2>1, <3>1, <3>2
  <2> QED BY <2>1, <2>2, WaitEnds
<1>6. CASE Operate /\ (cmd["operator"].at = "none" => ~Applying) /\ UNCHANGED batchVars
  <2>1. batch' = batch /\ asked' = asked /\ result' = result /\ report' = report
    BY <1>6 DEF batchVars
  <2>2. CASE OperatorStarts
    <3>1. PICK r \in RunIds, action \in OperatorActions : ControlLoad("operator", r, action)
      BY <2>2 DEF OperatorStarts
    <3> DEFINE next == Controlled(control[r], action, "operator")
    <3>2. /\ control' = control /\ cmd["operator"].at = "none"
          /\ cmd' = [cmd EXCEPT !["operator"] = [at |-> "loaded", run |-> r, next |-> next]]
      BY <3>1 DEF ControlLoad
    <3>3. next \in Controls /\ next.by = "operator"
      <4>1. /\ control[r] \in Controls /\ "operator" \in Controllers
            /\ action \in Actions
        BY ControlAssumption DEF PauseInv, PauseTypes, Actions
      <4> QED BY <4>1, ControlledIs
    <3> HIDE DEF next
    <3>4. /\ cmd' \in [Controllers -> ControlCommands] /\ cmd'["batch"] = cmd["batch"] /\ cmd'["operator"].next = next
      BY <3>2, <3>3, ControlAssumption DEF PauseInv, PauseTypes, ControlCommands
    <3>5. PauseTypes'
      BY <2>1, <3>2, <3>4 DEF PauseInv, PauseTypes
    <3>6. CommandsApart'
      BY <1>6, <2>1, <3>2, <3>3, <3>4 DEF PauseInv, CommandsApart, Applying
    <3>7. RunAtHand'
      BY <2>1 DEF PauseInv, RunAtHand
    <3>8. JournalHonest'
      BY <2>1, <3>2, <3>4 DEF PauseInv, JournalHonest, Applying
    <3> QED BY <3>5, <3>6, <3>7, <3>8 DEF PauseInv
  <2>3. CASE ControlWrite("operator")
    BY <2>3, <1>6, WriteKeeps
  <2>4. CASE ControlDone("operator") /\ UNCHANGED control
    <3>1. cmd' = [cmd EXCEPT !["operator"] = NoCommand] /\ cmd["operator"].at = "written" /\ control' = control
      BY <2>4 DEF ControlDone
    <3>2. NoCommand \in ControlCommands /\ NoCommand.at = "none"
      BY DEF NoCommand, ControlCommands, NoControl, Controls, RunIds
    <3>3. cmd' \in [Controllers -> ControlCommands] /\ cmd'["batch"] = cmd["batch"] /\ cmd'["operator"] = NoCommand
      BY <3>1, <3>2, ControlAssumption DEF PauseInv, PauseTypes
    <3>4. PauseTypes'
      BY <2>1, <3>1, <3>3 DEF PauseInv, PauseTypes
    <3>5. CommandsApart'
      BY <2>1, <3>2, <3>3 DEF PauseInv, CommandsApart, Applying
    <3>6. RunAtHand'
      BY <2>1 DEF PauseInv, RunAtHand
    <3>7. JournalHonest'
      BY <2>1, <3>1, <3>3 DEF PauseInv, JournalHonest, Applying
    <3> QED BY <3>4, <3>5, <3>6, <3>7 DEF PauseInv
  <2> QED BY <1>6, <2>2, <2>3, <2>4 DEF Operate, OperatorSteps
<1>7. CASE UNCHANGED <<control, cmd, batchVars>>
  BY <1>7 DEF batchVars, PauseInv, PauseTypes, CommandsApart, RunAtHand, JournalHonest, Applying
<1> QED BY <1>1, <1>2, <1>3, <1>4, <1>5, <1>6, <1>7 DEF Pausing

(* Where the script is, and the bound of the operator's commands.          *)
PausePlaces ==
    /\ batch.at \in {"none", "next", "status", "request", "invoke", "wait", "over"}
    /\ batch.mode \in {"preview", "apply"}
    /\ asked \subseteq Selected /\ controls \in 0..MaxControls

LEMMA PausePlacesStart ==
  ASSUME ControlInit, BatchInit PROVE PausePlaces
BY ControlAssumption DEF ControlInit, BatchInit, PausePlaces

(* A script only announces the run at hand, which was selected.            *)
LEMMA PausePlacesKept ==
  ASSUME PauseInv, PausePlaces,
         \/ Pausing /\ UNCHANGED controls
         \/ Operate /\ UNCHANGED batchVars
         \/ UNCHANGED <<controls, batchVars>>
  PROVE  PausePlaces'
<1>1. {"at", "mode", "run", "outcome", "before"} \subseteq DOMAIN batch
  BY DEF PauseInv, PauseTypes
<1>2. CASE Operate /\ UNCHANGED batchVars
  <2>1. \/ controls' = controls
        \/ controls < MaxControls /\ controls' = controls + 1
    BY <1>2 DEF Operate, OperatorStarts, OperatorSteps
  <2>2. controls' \in 0..MaxControls
    BY <2>1, ControlAssumption DEF PausePlaces
  <2>3. batch' = batch /\ asked' = asked
    BY <1>2 DEF batchVars
  <2> QED BY <2>2, <2>3 DEF PausePlaces
<1>3. CASE UNCHANGED <<controls, batchVars>>
  BY <1>3 DEF PausePlaces, batchVars
<1>4. ASSUME NEW place \in {"next", "status", "request", "invoke", "wait", "over"},
             NEW run, NEW outcome, NEW before,
             \/ batch' = [batch EXCEPT !.at = place]
             \/ batch' = [batch EXCEPT !.at = place, !.run = run, !.outcome = outcome]
             \/ batch' = [batch EXCEPT !.at = place, !.before = before],
             asked' = asked, controls' = controls
      PROVE  PausePlaces'
  BY <1>1, <1>4 DEF PausePlaces
<1>5. ASSUME Pausing, controls' = controls PROVE PausePlaces'
  <2>1. CASE BatchStart
    BY <1>1, <1>5, <2>1 DEF BatchStart, PausePlaces
  <2>2. CASE InspectStatus
    BY <1>4, <1>5, <2>2 DEF InspectStatus, Conclude
  <2>3. CASE InspectControl
    BY <1>4, <1>5, <2>3 DEF InspectControl, Conclude
  <2>4. CASE Request
    <3>1. batch.run \in Selected
      BY <2>4 DEF Request, Batch, PauseInv, RunAtHand
    <3> QED BY <1>1, <1>5, <2>4, <3>1 DEF Request, PausePlaces
  <2>5. CASE BatchKill \/ BatchFinish
    BY <1>4, <1>5, <2>5 DEF BatchKill, BatchFinish
  <2>6. CASE Invoke
    BY <1>4, <1>5, <2>6 DEF Invoke, Conclude
  <2>7. CASE NativeStep
    BY <1>5, <2>7 DEF NativeStep, batchVars, PausePlaces
  <2>8. CASE Confirm \/ TimeOut
    BY <1>4, <1>5, <2>8 DEF Confirm, TimeOut, Conclude
  <2> QED BY <1>5, <2>1, <2>2, <2>3, <2>4, <2>5, <2>6, <2>7, <2>8 DEF Pausing, BatchOnly
<1> QED BY <1>2, <1>3, <1>5

----------------------------------------------------------------------------
(* The review exchange.                                                    *)

(* Review v of item i was made by one of the judgements J.                 *)
MadeBy(J, i, v) ==
    \E j \in J :
       /\ j.manifest.item = i /\ j.decision = v.decision
       /\ j.manifest.attempt = v.attempt /\ j.manifest.result = v.result /\ v.result.status = "succeeded"
       /\ j.manifest.digest = v.digest /\ j.manifest.content = v.digest

(* What an item says of its review, among its other fields.                *)
ItemReviewed(s, i, J) ==
    /\ s \in RuntimeItem
    /\ s.attempt_status = "succeeded" => s.result.status = "succeeded"
    /\ s.review # NoReceipt => MadeBy(J, i, s.review)
    /\ s.status = "accepted" => s.review # NoReceipt /\ Binds(s, s.review)

RunReviewed(r, J) ==
    /\ "item" \in DOMAIN r /\ DOMAIN r.item = Items
    /\ \A i \in Items : ItemReviewed(r.item[i], i, J)

(* A manifest is of a success, and of the content that the success claims. *)
SoundManifest(m) == m.item \in Items /\ m.result.status = "succeeded" /\ m.content = m.digest

ExportSound ==
    /\ "at" \in DOMAIN export
    /\ export # NoExport =>
          /\ {"mode", "item", "before"} \subseteq DOMAIN export /\ export.item \in Items
          /\ export.before.item[export.item].result.status = "succeeded"
          /\ export.mode = "prepare" => worksheet # NoFindings
    /\ export.at \in {"again", "publish"} =>
          "content" \in DOMAIN export /\ export.content = export.before.item[export.item].digest

ReviewInv ==
    /\ RunReviewed(store, judged)
    /\ submit # NoSubmit => RunReviewed(submit.next, judged)
    /\ ExportSound
    /\ packet # NoPacket => SoundManifest(packet)
    /\ worksheet # NoFindings => worksheet \in judged /\ SoundManifest(worksheet.manifest)
    /\ receipt # NoPacket => receipt.item \in Items /\ MadeBy(judged, receipt.item, receipt)

(* More judgements do no harm.                                             *)
LEMMA ReviewedGrows ==
  ASSUME NEW s, NEW i, NEW J, ItemReviewed(s, i, J), NEW K, J \subseteq K
  PROVE  ItemReviewed(s, i, K)
BY DEF ItemReviewed, MadeBy

(* No transition leads to an accepted item.                                *)
LEMMA MovedTyped ==
  ASSUME NEW s \in RuntimeItem, NEW t \in Transitions
  PROVE  /\ Moved(s, t) \in RuntimeItem /\ Moved(s, t).status # "accepted"
         /\ Moved(s, t).result = s.result /\ Moved(s, t).review = s.review
         /\ Moved(s, t).attempt_status = s.attempt_status
<1> DEFINE n == IF t = "start" THEN s.attempt_count + 1 ELSE s.attempt_count
<1>1. Becomes[t] \in Statuses /\ Becomes[t] # "accepted"
  BY DEF Becomes, Statuses, Terminal, Transitions
<1>2. n \in Nat
  BY DEF RuntimeItem
<1>3. Moved(s, t) = [s EXCEPT !.status = Becomes[t], !.attempt_count = n]
  BY DEF Moved, RuntimeItem
<1> HIDE DEF n
<1> QED BY <1>1, <1>2, <1>3 DEF RuntimeItem

(* A transition leaves the review as it is.                                *)
LEMMA MovedReviewed ==
  ASSUME NEW s, NEW i, NEW J, ItemReviewed(s, i, J), NEW t \in Transitions
  PROVE  ItemReviewed(Moved(s, t), i, J)
<1> DEFINE m == Moved(s, t)
<1>1. s \in RuntimeItem
  BY DEF ItemReviewed
<1>2. /\ m \in RuntimeItem /\ m.status # "accepted"
      /\ m.result = s.result /\ m.review = s.review /\ m.attempt_status = s.attempt_status
  BY <1>1, MovedTyped
<1> HIDE DEF m
<1>3. ItemReviewed(m, i, J)
  BY <1>2 DEF ItemReviewed
<1> QED BY <1>3 DEF m

(* A new attempt has no result, and the item is active.                    *)
LEMMA AttemptReviewed ==
  ASSUME NEW s, NEW i, NEW J, ItemReviewed(s, i, J)
  PROVE  ItemReviewed(WithAttempt(s, s.attempt_count + 1), i, J)
<1> DEFINE n == s.attempt_count + 1  m == WithAttempt(s, n)
<1>1. s \in RuntimeItem
  BY DEF ItemReviewed
<1>2. s.attempt_count \in Nat /\ n \in Nat
  BY <1>1 DEF RuntimeItem
<1>3. NoResult \in Result
  BY DEF NoResult, Result
<1>4. m \in RuntimeItem /\ m.status = "active" /\ m.review = s.review /\ m.attempt_status = "submitted"
  BY <1>1, <1>2, <1>3 DEF WithAttempt, RuntimeItem, Statuses
<1> HIDE DEF m
<1>5. ItemReviewed(m, i, J)
  BY <1>4 DEF ItemReviewed
<1> QED BY <1>5 DEF m

(* A report leaves the review as it is, whatever result the review is of:  *)
(* it makes no accepted item.                                              *)
LEMMA ResultReviewed ==
  ASSUME NEW s, NEW i, NEW J, ItemReviewed(s, i, J),
         NEW R \in Result, R.status \in ReportStatuses, NEW d \in Nat
  PROVE  ItemReviewed(WithResult(s, R, d), i, J)
<1> DEFINE m == WithResult(s, R, d)
<1>1. s \in RuntimeItem
  BY DEF ItemReviewed
<1>2. AfterReport[R.status] \in Statuses /\ AfterReport[R.status] # "accepted"
  BY DEF ReportStatuses, AfterReport, Statuses, Terminal
<1>3. /\ m \in RuntimeItem /\ m.status # "accepted"
      /\ m.result = R /\ m.review = s.review /\ m.attempt_status = R.status
  BY <1>1, <1>2 DEF WithResult, RuntimeItem
<1> HIDE DEF m
<1>4. ItemReviewed(m, i, J)
  BY <1>3 DEF ItemReviewed
<1> QED BY <1>4 DEF m

(* A review that was made of the result at hand.                           *)
LEMMA ReviewReviewed ==
  ASSUME NEW s, NEW i, NEW J, ItemReviewed(s, i, J),
         NEW v \in Receipt, Binds(s, v), MadeBy(J, i, v)
  PROVE  ItemReviewed(WithReview(s, v), i, J)
<1> DEFINE m == WithReview(s, v)
<1>1. s \in RuntimeItem
  BY DEF ItemReviewed
<1>2. v # NoReceipt
  BY DEF MadeBy, NoReceipt, NoResult
<1>3. /\ m \in RuntimeItem /\ m.review = v /\ m.attempt = s.attempt /\ m.digest = s.digest
      /\ m.result = s.result /\ m.attempt_status = s.attempt_status
  BY <1>1 DEF WithReview, RuntimeItem, Statuses, Terminal
<1> HIDE DEF m
<1>4. Binds(m, v)
  BY <1>3 DEF Binds
<1>5. ItemReviewed(m, i, J)
  BY <1>2, <1>3, <1>4 DEF ItemReviewed
<1> QED BY <1>5 DEF m

(* A run of which one item is replaced.                                    *)
LEMMA ItemReplaced ==
  ASSUME NEW r, NEW J, RunReviewed(r, J), NEW j \in Items, NEW s, ItemReviewed(s, j, J),
         NEW m, m.item = [r.item EXCEPT ![j] = s], "item" \in DOMAIN m
  PROVE  RunReviewed(m, J)
<1>1. ASSUME NEW i \in Items PROVE ItemReviewed(m.item[i], i, J)
  <2>1. m.item[i] = IF i = j THEN s ELSE r.item[i]
    BY DEF RunReviewed
  <2> QED BY <2>1 DEF RunReviewed
<1> QED BY <1>1 DEF RunReviewed

(* The commands of others keep what the run says of reviews.               *)
LEMMA CommandReviewed ==
  ASSUME ReviewInv, NEW j \in Items, NEW m \in Commanded(j)
  PROVE  RunReviewed(m, judged)
<1>1. /\ RunReviewed(store, judged) /\ DOMAIN store.item = Items
      /\ \A i \in Items : ItemReviewed(store.item[i], i, judged)
  BY DEF ReviewInv, RunReviewed
<1>2. CASE m \in Advance(store)
  <2>1. /\ m.item = [i \in Items |-> IF ProposedReady(store, i) THEN Moved(store.item[i], "ready")
                                     ELSE store.item[i]]
        /\ "item" \in DOMAIN m
    BY <1>2 DEF Advance
  <2>2. ASSUME NEW i \in Items PROVE ItemReviewed(m.item[i], i, judged)
    <3>1. ItemReviewed(Moved(store.item[i], "ready"), i, judged)
      BY <1>1, MovedReviewed DEF Transitions
    <3> QED BY <2>1, <3>1, <1>1
  <2> QED BY <2>1, <2>2 DEF RunReviewed
<1>3. ASSUME NEW S, m \in PrepareNext(store, S) PROVE RunReviewed(m, judged)
  <2>1. /\ m.item = [i \in Items |-> IF i \in Opened(store, S)
                                     THEN WithAttempt(store.item[i], NextAttempt(store, i)) ELSE store.item[i]]
        /\ "item" \in DOMAIN m
    BY <1>3 DEF PrepareNext
  <2>2. ASSUME NEW i \in Items PROVE ItemReviewed(m.item[i], i, judged)
    <3>1. ItemReviewed(WithAttempt(store.item[i], NextAttempt(store, i)), i, judged)
      BY <1>1, AttemptReviewed DEF NextAttempt
    <3> QED BY <2>1, <3>1, <1>1
  <2> QED BY <2>1, <2>2 DEF RunReviewed
<1>4. CASE m \in Transitioned(j)
  <2>1. PICK t \in Operator : m \in Transition(store, j, t)
    BY <1>4 DEF Transitioned
  <2>2. t \in Transitions
    BY <2>1, ReviewAssumption
  <2>3. m.item = [store.item EXCEPT ![j] = Moved(store.item[j], t)] /\ "item" \in DOMAIN m
    BY <2>1 DEF Transition
  <2>4. ItemReviewed(Moved(store.item[j], t), j, judged)
    BY <1>1, <2>2, MovedReviewed
  <2> QED BY <2>3, <2>4, <1>1, ItemReplaced
<1> QED BY <1>2, <1>3, <1>4 DEF Commanded

(* A report keeps it, whatever it says.                                    *)
LEMMA ArrivalReviewed ==
  ASSUME ReviewInv, ResultArrives
  PROVE  RunReviewed(store', judged)
<1>1. PICK i \in Reviewable : \E R \in Reports : \E d \in (IF R.status = "succeeded" THEN Contents ELSE {0}) :
         store' \in Reconcile(store, i, R, d)
  BY DEF ResultArrives
<1>2. PICK R \in Reports : \E d \in (IF R.status = "succeeded" THEN Contents ELSE {0}) :
         store' \in Reconcile(store, i, R, d)
  BY <1>1
<1>3. PICK d \in (IF R.status = "succeeded" THEN Contents ELSE {0}) : store' \in Reconcile(store, i, R, d)
  BY <1>2
<1>4. i \in Items /\ d \in Nat
  BY <1>3, ReviewAssumption DEF Reviewable
<1>5. R \in Result /\ R.status \in ReportStatuses
  <2>1. R \in [attempt : Nat, status : ReportStatuses, id : Nat]
    BY ReviewAssumption
  <2> QED BY <2>1 DEF Result
<1>6. store'.item = [store.item EXCEPT ![i] = WithResult(store.item[i], R, d)] /\ "item" \in DOMAIN store'
  BY <1>3 DEF Reconcile, Import
<1>7. RunReviewed(store, judged) /\ ItemReviewed(store.item[i], i, judged)
  BY <1>4 DEF ReviewInv, RunReviewed
<1>8. ItemReviewed(WithResult(store.item[i], R, d), i, judged)
  BY <1>4, <1>5, <1>7, ResultReviewed
<1> QED BY <1>4, <1>6, <1>7, <1>8, ItemReplaced

(* The native command stages a review that was made.                       *)
LEMMA SubmissionReviewed ==
  ASSUME ReviewInv, SubmitRead
  PROVE  RunReviewed(submit'.next, judged)
<1> DEFINE i == receipt.item
           v == [attempt |-> receipt.attempt, result |-> receipt.result, digest |-> receipt.digest,
                 decision |-> receipt.decision]
<1>1. receipt # NoPacket /\ \E m \in Review(store, i, v) : submit' = [at |-> "write", next |-> m]
  BY DEF SubmitRead
<1>2. i \in Items /\ MadeBy(judged, i, v)
  <2>1. i \in Items /\ MadeBy(judged, i, receipt)
    BY <1>1 DEF ReviewInv
  <2> QED BY <2>1 DEF MadeBy
<1>3. PICK m \in Review(store, i, v) : submit' = [at |-> "write", next |-> m]
  BY <1>1
<1>4. RunReviewed(store, judged) /\ ItemReviewed(store.item[i], i, judged)
  BY <1>2 DEF ReviewInv, RunReviewed
<1>5. /\ Binds(store.item[i], v) /\ v.decision \in {"accepted", "rejected"}
      /\ m.item = [store.item EXCEPT ![i] = WithReview(store.item[i], v)] /\ "item" \in DOMAIN m
  BY <1>3 DEF Review
<1>6. v \in Receipt
  <2>1. store.item[i] \in RuntimeItem
    BY <1>4 DEF ItemReviewed
  <2>2. store.item[i].attempt \in Nat /\ store.item[i].result \in Result /\ store.item[i].digest \in Nat
    BY <2>1 DEF RuntimeItem
  <2> QED BY <2>2, <1>5 DEF Receipt, Binds
<1> HIDE DEF v, i
<1>7. ItemReviewed(WithReview(store.item[i], v), i, judged)
  BY <1>2, <1>4, <1>5, <1>6, ReviewReviewed
<1>8. RunReviewed(m, judged)
  BY <1>2, <1>4, <1>5, <1>7, ItemReplaced
<1>9. submit'.next = m
  BY <1>3
<1> QED BY <1>8, <1>9

(* What the export publishes is a sound manifest.                          *)
LEMMA ManifestSound ==
  ASSUME ReviewInv, export.at = "publish"
  PROVE  SoundManifest(Manifest)
<1>1. export # NoExport
  BY DEF NoExport
<1>2. /\ export.item \in Items /\ export.content = export.before.item[export.item].digest
      /\ export.before.item[export.item].result.status = "succeeded"
  BY <1>1 DEF ReviewInv, ExportSound
<1>3. /\ Manifest.item = export.item /\ Manifest.content = export.content
      /\ Manifest.result = export.before.item[export.item].result
      /\ Manifest.digest = export.before.item[export.item].digest
  BY DEF Manifest
<1> QED BY <1>2, <1>3 DEF SoundManifest

(* Nothing is reported, judged or returned at first.                       *)
LEMMA ReviewStart ==
  ASSUME ReviewInit
  PROVE  ReviewInv
<1>1. Registered \in RuntimeItem /\ Registered.review = NoReceipt
  BY DEF Registered, RuntimeItem, Statuses, NoReceipt, NoResult, Receipt, Result
<1>2. Registered.status = "proposed" /\ Registered.attempt_status = "none"
  BY DEF Registered
<1>3. \A i \in Items : ItemReviewed(Registered, i, {})
  BY <1>1, <1>2 DEF ItemReviewed
<1>4. store.item = [i \in Items |-> Registered] /\ "item" \in DOMAIN store /\ judged = {}
  BY DEF ReviewInit, GraphRun
<1>5. RunReviewed(store, judged)
  BY <1>3, <1>4 DEF RunReviewed
<1> QED BY <1>5 DEF ReviewInit, ReviewInv, ExportSound, NoExport

(* Every step of the scripts, the reviewer, the native command and of all  *)
(* other commands.                                                         *)
LEMMA ReviewKept ==
  ASSUME ReviewInv, Exchange \/ UNCHANGED reviewVars
  PROVE  ReviewInv'
<1>1. CASE OtherCommand \/ ResultArrives
  <2>1. UNCHANGED <<export, packet, worksheet, receipt, submit, judged>>
    BY <1>1 DEF OtherCommand, ResultArrives, exchangeFiles
  <2>2. RunReviewed(store', judged)
    <3>1. ASSUME OtherCommand PROVE \E i \in Items : \E m \in Commanded(i) : store' = m
      BY <3>1 DEF OtherCommand, Reviewable
    <3> QED BY <1>1, <3>1, CommandReviewed, ArrivalReviewed
  <2> QED BY <2>1, <2>2 DEF ReviewInv, ExportSound
<1>2. CASE ArtifactWritten
  BY <1>2 DEF ArtifactWritten, exchangeFiles, ReviewInv, ExportSound
<1>3. ASSUME UNCHANGED <<store, exchangeFiles>>, ExportSound' PROVE ReviewInv'
  BY <1>3 DEF exchangeFiles, ReviewInv
<1>4. ASSUME NEW mode, NEW i \in Items, ReadStatus(mode, i), mode = "prepare" => worksheet # NoFindings
      PROVE  ReviewInv'
  <2>1. /\ export' = [at |-> "history", mode |-> mode, item |-> i, before |-> store]
        /\ Selectable(store.item[i]) /\ UNCHANGED <<store, exchangeFiles>>
    BY <1>4 DEF ReadStatus
  <2>2. store.item[i].result.status = "succeeded"
    BY <2>1 DEF Selectable, ReviewInv, RunReviewed, ItemReviewed
  <2>3. ExportSound'
    BY <2>1, <2>2, <1>4 DEF ExportSound, exchangeFiles
  <2> QED BY <2>1, <2>3, <1>3
<1>5. ASSUME Refuse PROVE ExportSound'
  BY <1>5 DEF Refuse, ExportSound, NoExport
<1>6. CASE ReadHistory
  <2>1. UNCHANGED <<store, exchangeFiles>> /\ export.at = "history"
    BY <1>6 DEF ReadHistory
  <2>2. ASSUME export' = [export EXCEPT !.at = "artifacts"] PROVE ExportSound'
    <3>1. export # NoExport
      BY <2>1 DEF NoExport
    <3> QED BY <2>1, <2>2, <3>1 DEF ExportSound, ReviewInv, exchangeFiles
  <2> QED BY <2>1, <2>2, <1>3, <1>5, <1>6 DEF ReadHistory
<1>7. CASE ReadArtifacts
  <2> DEFINE i == export.item
  <2>1. UNCHANGED <<store, exchangeFiles>> /\ export.at = "artifacts"
    BY <1>7 DEF ReadArtifacts
  <2>2. ASSUME artifact[i] = export.before.item[i].digest,
               export' = [at |-> "again", mode |-> export.mode, item |-> i, before |-> export.before,
                          content |-> artifact[i]]
        PROVE ExportSound'
    <3>1. export # NoExport
      BY <2>1 DEF NoExport
    <3> QED BY <2>1, <2>2, <3>1 DEF ExportSound, ReviewInv, exchangeFiles
  <2> QED BY <2>1, <2>2, <1>3, <1>5, <1>7 DEF ReadArtifacts, DigestObserved
<1>8. CASE ReadAgain
  <2>1. UNCHANGED <<store, exchangeFiles>> /\ export.at = "again"
    BY <1>8 DEF ReadAgain
  <2>2. ASSUME export' = [export EXCEPT !.at = "publish"] PROVE ExportSound'
    <3>1. export # NoExport
      BY <2>1 DEF NoExport
    <3> QED BY <2>1, <2>2, <3>1 DEF ExportSound, ReviewInv, exchangeFiles
  <2> QED BY <2>1, <2>2, <1>3, <1>5, <1>8 DEF ReadAgain
<1>9. CASE PublishPacket
  <2>1. /\ export.at = "publish" /\ packet' = Manifest
        /\ Refuse /\ UNCHANGED <<store, worksheet, receipt, submit, judged>>
    BY <1>9 DEF PublishPacket
  <2>2. SoundManifest(packet')
    BY <2>1, ManifestSound
  <2> QED BY <2>1, <2>2, <1>5 DEF ReviewInv
<1>10. CASE ExportKilled
  BY <1>10, <1>3, <1>5 DEF ExportKilled
<1>11. CASE Judge
  <2>1. PICK d \in {"accepted", "rejected"} : worksheet' = [manifest |-> packet, decision |-> d]
    BY <1>11 DEF Judge
  <2>2. /\ packet # NoPacket /\ judged' = judged \cup {worksheet'}
        /\ UNCHANGED <<store, export, packet, receipt, submit>>
    BY <1>11 DEF Judge
  <2>3. worksheet' \in judged' /\ worksheet'.manifest = packet /\ worksheet' # NoFindings
    BY <2>1, <2>2 DEF NoFindings
  <2>4. ASSUME NEW r, RunReviewed(r, judged) PROVE RunReviewed(r, judged')
    BY <2>2, <2>4, ReviewedGrows DEF RunReviewed
  <2>5. ExportSound'
    BY <2>2, <2>3 DEF ReviewInv, ExportSound
  <2>6. receipt # NoPacket => MadeBy(judged', receipt.item, receipt)
    BY <2>2 DEF ReviewInv, MadeBy
  <2> QED BY <2>2, <2>3, <2>4, <2>5, <2>6 DEF ReviewInv
<1>12. CASE PublishReceipt
  <2> DEFINE m == worksheet.manifest
             new == [item |-> m.item, attempt |-> m.attempt, result |-> m.result, digest |-> m.digest,
                     decision |-> worksheet.decision]
  <2>1. /\ export.at = "publish" /\ export.mode = "prepare" /\ Refuse
        /\ UNCHANGED <<store, packet, worksheet, submit, judged>>
        /\ receipt' = receipt \/ receipt' = new
    BY <1>12 DEF PublishReceipt
  <2>2. worksheet \in judged /\ SoundManifest(m)
    <3>1. export # NoExport
      BY <2>1 DEF NoExport
    <3> QED BY <2>1, <3>1 DEF ReviewInv, ExportSound
  <2>3. new.item \in Items /\ MadeBy(judged, new.item, new)
    BY <2>2 DEF SoundManifest, MadeBy
  <2> HIDE DEF new
  <2> QED BY <2>1, <2>3, <1>5 DEF ReviewInv
<1>13. CASE SubmitRead
  <2>1. UNCHANGED <<store, export, packet, worksheet, receipt, judged>>
    BY <1>13 DEF SubmitRead
  <2> QED BY <2>1, <1>13, SubmissionReviewed DEF ReviewInv, ExportSound
<1>14. CASE SubmitWrite
  <2>1. /\ submit # NoSubmit /\ submit' = NoSubmit /\ store' = submit.next
        /\ UNCHANGED <<export, packet, worksheet, receipt, judged>>
    BY <1>14 DEF SubmitWrite
  <2> QED BY <2>1 DEF ReviewInv, ExportSound
<1>15. CASE UNCHANGED reviewVars
  BY <1>15 DEF reviewVars, ReviewInv, ExportSound
<1>16. worksheet # NoFindings => worksheet.manifest.item \in Items
  BY DEF ReviewInv, SoundManifest
<1> QED BY <1>1, <1>2, <1>4, <1>6, <1>7, <1>8, <1>9, <1>10, <1>11, <1>12, <1>13, <1>14, <1>15, <1>16
        DEF Exchange

(* What the invariant says of the run is the property.                     *)
LEMMA ReviewedIsCurrent == ReviewInv => ReceiptCurrent
<1> SUFFICES ASSUME ReviewInv, NEW i \in Items
             PROVE  /\ store.item[i].review # NoReceipt => Made(i, store.item[i].review)
                    /\ store.item[i].status = "accepted" =>
                          store.item[i].review # NoReceipt /\ Binds(store.item[i], store.item[i].review)
  BY DEF ReceiptCurrent
<1>1. ItemReviewed(store.item[i], i, judged)
  BY DEF ReviewInv, RunReviewed
<1> QED BY <1>1 DEF ItemReviewed, MadeBy, Made

----------------------------------------------------------------------------
(* Worksheets.                                                             *)

Sheets == Branches \cup {"base"}

(* The sheets are tables of rows, and a resolution chooses one of them for *)
(* every conflict it was made for.                                         *)
WorksheetInv ==
    /\ sheet \in [Sheets -> [Items -> Rows]]
    /\ resolution.made => \A c \in DOMAIN resolution.choice : resolution.choice[c] \in Sheets
    /\ WorksheetsKeepIntent

(* A cell is an item and one of two fields.                                *)
LEMMA CellParts ==
  ASSUME NEW c \in Cells
  PROVE  /\ c = <<c[1], c[2]>> /\ c[1] \in Items
         /\ c[2] = "inputs" \/ c[2] = "deps"
BY DEF Cells, Fields

(* Reading a cell of the merged sheet is merging that cell.                *)
LEMMA MergedSheetCell ==
  ASSUME NEW c \in Cells
  PROVE  CellOf(MergedSheet, c) = MergedCell(c)
<1>1. CASE c[2] = "inputs"
  BY <1>1, CellParts DEF CellOf, MergedSheet
<1>2. CASE c[2] = "deps"
  BY <1>2, CellParts DEF CellOf, MergedSheet
<1> QED BY <1>1, <1>2, CellParts

(* An edit writes a value of its field.                                    *)
LEMMA EditKeepsRows ==
  ASSUME WorksheetInv, NEW b \in Branches, NEW c \in Cells, EditCell(b, c)
  PROVE  sheet' \in [Sheets -> [Items -> Rows]]
<1>1. PICK v \in Values[c[2]] : sheet' = [sheet EXCEPT ![b][c[1]][c[2]] = v]
  BY DEF EditCell
<1>2. sheet[b] \in [Items -> Rows] /\ sheet[b][c[1]] \in Rows /\ b \in Sheets /\ c[1] \in Items
  BY CellParts DEF WorksheetInv, Sheets
<1>3. [sheet[b][c[1]] EXCEPT ![c[2]] = v] \in Rows
  <2>1. CASE c[2] = "inputs"
    <3>1. v \in (SUBSET Refs) \ {{}}
      BY <2>1, <1>1, WorksheetAssumption DEF Values
    <3> QED BY <2>1, <3>1, <1>2 DEF Rows
  <2>2. CASE c[2] = "deps"
    <3>1. v \in SUBSET Items
      BY <2>2, <1>1 DEF Values
    <3> QED BY <2>2, <3>1, <1>2 DEF Rows
  <2> QED BY <2>1, <2>2, CellParts
<1>4. sheet' = [sheet EXCEPT ![b] = [sheet[b] EXCEPT ![c[1]] = [sheet[b][c[1]] EXCEPT ![c[2]] = v]]]
  BY <1>1
<1> QED
  <2> DEFINE row == [sheet[b][c[1]] EXCEPT ![c[2]] = v]
  <2>1. row \in Rows /\ sheet' = [sheet EXCEPT ![b] = [sheet[b] EXCEPT ![c[1]] = row]]
    BY <1>3, <1>4
  <2> HIDE DEF row
  <2> QED BY <2>1, <1>2 DEF WorksheetInv

(* Three values that differ are three.                                     *)
LEMMA ThreeValues ==
  ASSUME NEW x, NEW y, NEW z, x # y, x # z, y # z
  PROVE  Cardinality({x, y, z}) = 3
<1> DEFINE one == {x}  two == one \cup {y}
<1>1. IsFiniteSet(one) /\ Cardinality(one) = 1 /\ y \notin one
  BY FS_Singleton
<1>2. z \notin two /\ two \cup {z} = {x, y, z}
  OBVIOUS
<1> HIDE DEF one
<1>3. /\ IsFiniteSet(two)
      /\ Cardinality(two) = IF y \in one THEN Cardinality(one) ELSE Cardinality(one) + 1
  BY ONLY <1>1, FS_AddElement
<1>4. Cardinality(two) = 2
  BY ONLY <1>1, <1>3
<1> HIDE DEF two
<1>5. Cardinality(two \cup {z}) = IF z \in two THEN Cardinality(two) ELSE Cardinality(two) + 1
  BY ONLY <1>3, FS_AddElement
<1>6. Cardinality(two \cup {z}) = 3
  BY ONLY <1>2, <1>4, <1>5
<1> QED BY ONLY <1>2, <1>6

(* What is saved by a merge has what WorksheetsKeepIntent asks of it.      *)
LEMMA MergeKeepsIntent ==
  ASSUME WorksheetInv, MergeSave
  PROVE  WorksheetInv'
<1>1. /\ sheet' = sheet /\ resolution' = resolution /\ mapping' = mapping /\ rebound' = rebound
      /\ Acyclic(MergedSheet) /\ (Conflicts = {} \/ ResolutionCurrent)
      /\ merged' = [made |-> TRUE, rows |-> MergedSheet, from |-> sheet,
                    seen |-> IF Conflicts = {} THEN Missing ELSE resolution]
  BY DEF MergeSave
<1>2. DOMAIN sheet = Sheets /\ Sheets = {"base", "left", "right"}
  BY DEF WorksheetInv, Sheets, Branches
<1>3. /\ merged'.rows = MergedSheet /\ merged'.from = sheet
      /\ merged'.seen = IF Conflicts = {} THEN Missing ELSE resolution
  BY <1>1
<1>4. ASSUME NEW c \in Conflicts
      PROVE  /\ resolution.made /\ c \in DOMAIN resolution.choice /\ resolution.sheets = sheet
             /\ resolution.choice[c] \in Sheets /\ merged'.seen = resolution
             /\ MergedCell(c) = CellOf(sheet[resolution.choice[c]], c)
  <2>1. ResolutionCurrent
    BY <1>1, <1>4
  <2>2. resolution.made /\ c \in DOMAIN resolution.choice /\ resolution.sheets = sheet
    BY <2>1, <1>4 DEF ResolutionCurrent
  <2>3. resolution.choice[c] \in Sheets
    BY <2>2 DEF WorksheetInv
  <2>4. merged'.seen = resolution
    BY <1>3, <1>4
  <2>5. MergedCell(c) = CellOf(sheet[resolution.choice[c]], c)
    BY <1>4 DEF MergedCell
  <2> QED BY <2>2, <2>3, <2>4, <2>5
<1>5. ASSUME NEW c \in Cells, c \notin Conflicts
      PROVE  /\ MergedCell(c) \in {CellOf(sheet["left"], c), CellOf(sheet["right"], c)}
             /\ \A b \in Branches : CellOf(sheet[b], c) \in {CellOf(sheet["base"], c), MergedCell(c)}
  <2> DEFINE x == CellOf(sheet["base"], c) y == CellOf(sheet["left"], c) z == CellOf(sheet["right"], c)
  <2>1. MergedCell(c) = IF y = x THEN z ELSE y
    BY <1>5 DEF MergedCell
  <2>2. Cardinality({x, y, z}) # 3
    BY <1>5 DEF Conflicts, Conflicting
  <2>3. x = y \/ x = z \/ y = z
    <3> SUFFICES ASSUME x # y, x # z, y # z PROVE FALSE
      OBVIOUS
    <3> HIDE DEF x, y, z
    <3>1. Cardinality({x, y, z}) = 3
      BY ThreeValues
    <3> QED BY <3>1, <2>2
  <2> HIDE DEF x, y, z
  <2>4. MergedCell(c) \in {y, z} /\ y \in {x, MergedCell(c)} /\ z \in {x, MergedCell(c)}
    BY <2>1, <2>3
  <2> QED BY <2>4 DEF x, y, z, Branches
<1>6. \A c \in Cells : CellOf(merged'.rows, c) = MergedCell(c)
  BY <1>3, MergedSheetCell
<1>7. ASSUME NEW c \in Cells, NEW b \in Branches
      PROVE  EditKept(b, c)' \/ ShownConflict(c)'
  <2>1. CASE c \in Conflicts
    BY <2>1, <1>2, <1>3, <1>4, <1>6 DEF ShownConflict
  <2>2. CASE c \notin Conflicts
    BY <2>2, <1>3, <1>5, <1>6 DEF EditKept
  <2> QED BY <2>1, <2>2
<1>8. ASSUME NEW c \in Cells
      PROVE  \E s \in DOMAIN merged'.from : CellOf(merged'.rows, c) = CellOf(merged'.from[s], c)
  <2>1. CASE c \in Conflicts
    BY <2>1, <1>2, <1>3, <1>4, <1>6
  <2>2. CASE c \notin Conflicts
    <3>1. CellOf(merged'.rows, c) \in {CellOf(sheet["left"], c), CellOf(sheet["right"], c)}
      BY <2>2, <1>5, <1>6
    <3>2. "left" \in DOMAIN sheet /\ "right" \in DOMAIN sheet
      BY <1>2
    <3> QED BY <3>1, <3>2, <1>3
  <2> QED BY <2>1, <2>2
<1>9. Acyclic(merged'.rows)
  BY <1>1, <1>3
<1>10. WorksheetsKeepIntent'
  BY <1>1, <1>7, <1>8, <1>9 DEF WorksheetsKeepIntent, WorksheetInv
<1> QED BY <1>1, <1>10 DEF WorksheetInv

(* What is saved by a rebinding has what WorksheetsKeepIntent asks of it.  *)
LEMMA RebindKeepsIntent ==
  ASSUME WorksheetInv, Rebind
  PROVE  WorksheetInv'
<1> DEFINE left == sheet["left"]
<1>1. /\ sheet' = sheet /\ resolution' = resolution /\ merged' = merged
      /\ mapping.of = left
      /\ \A i \in Items : Cardinality(Replaced(mapping.to, left[i].inputs)) = Cardinality(left[i].inputs)
      /\ rebound' = [made |-> TRUE, seen |-> mapping,
                     rows |-> [i \in Items |-> [left[i] EXCEPT !.inputs = Replaced(mapping.to, left[i].inputs)]]]
  BY DEF Rebind, MappingCurrent
<1>2. ASSUME NEW i \in Items
      PROVE  /\ rebound'.seen.of[i] = left[i]
             /\ rebound'.rows[i].deps = left[i].deps
             /\ rebound'.rows[i].inputs = Replaced(mapping.to, left[i].inputs)
  <2>1. left[i] \in Rows
    BY DEF WorksheetInv, Sheets, Branches
  <2>2. rebound'.rows[i] = [left[i] EXCEPT !.inputs = Replaced(mapping.to, left[i].inputs)]
    BY <1>1
  <2>3. rebound'.seen = mapping
    BY <1>1
  <2> HIDE DEF left
  <2> QED BY <2>1, <2>2, <2>3, <1>1 DEF Rows
<1>3. rebound'.seen.to = mapping.to
  BY <1>1
<1>4. ASSUME NEW i \in Items
      PROVE  /\ rebound'.rows[i].deps = rebound'.seen.of[i].deps
             /\ \A ref \in rebound'.seen.of[i].inputs :
                   Replacement(rebound'.seen.to, ref) \in rebound'.rows[i].inputs
             /\ Cardinality(rebound'.rows[i].inputs) = Cardinality(rebound'.seen.of[i].inputs)
  BY <1>1, <1>2, <1>3 DEF Replaced
<1>5. WorksheetsKeepIntent'
  BY <1>1, <1>4 DEF WorksheetsKeepIntent, WorksheetInv, Acyclic, EditKept, ShownConflict
<1> QED BY <1>1, <1>5 DEF WorksheetInv

(* Nothing is saved at first, and the exported sheets are tables of rows.  *)
LEMMA WorksheetsStart ==
  ASSUME WorksheetInit
  PROVE  WorksheetInv
<1>1. Exported \in [Items -> Rows]
  BY WorksheetAssumption DEF Exported, Rows
<1> QED BY <1>1 DEF WorksheetInit, WorksheetInv, Sheets, WorksheetsKeepIntent, Missing

(* Every step of the merge and of the rebinding keeps the invariant.       *)
LEMMA WorksheetsKept ==
  ASSUME WorksheetInv, Merging \/ Rebinding \/ UNCHANGED worksheetVars
  PROVE  WorksheetInv'
<1>1. ASSUME NEW b \in Branches, NEW c \in Cells, EditCell(b, c)
      PROVE  WorksheetInv'
  <2>1. UNCHANGED <<resolution, merged, mapping, rebound>>
    BY <1>1 DEF EditCell
  <2>2. sheet' \in [Sheets -> [Items -> Rows]]
    BY <1>1, EditKeepsRows
  <2>3. WorksheetsKeepIntent'
    BY <2>1 DEF WorksheetInv, WorksheetsKeepIntent, EditKept, ShownConflict
  <2> QED BY <2>1, <2>2, <2>3 DEF WorksheetInv
<1>2. CASE Resolve
  <2>1. UNCHANGED <<sheet, merged, mapping, rebound>>
    BY <1>2 DEF Resolve
  <2>2. PICK choice \in [Conflicts -> {"base", "left", "right"}] :
           resolution' = [made |-> TRUE, sheets |-> sheet, choice |-> choice]
    BY <1>2 DEF Resolve
  <2>3. \A c \in DOMAIN resolution'.choice : resolution'.choice[c] \in Sheets
    BY <2>2 DEF Sheets, Branches
  <2>4. WorksheetsKeepIntent'
    BY <2>1 DEF WorksheetInv, WorksheetsKeepIntent, EditKept, ShownConflict
  <2> QED BY <2>1, <2>3, <2>4 DEF WorksheetInv
<1>3. CASE MergeSave
  BY <1>3, MergeKeepsIntent
<1>4. CASE WriteMapping
  <2>1. UNCHANGED <<sheet, resolution, merged, rebound>>
    BY <1>4 DEF WriteMapping
  <2> QED BY <2>1 DEF WorksheetInv, WorksheetsKeepIntent, EditKept, ShownConflict
<1>5. CASE Rebind
  BY <1>5, RebindKeepsIntent
<1>6. CASE UNCHANGED worksheetVars
  BY <1>6 DEF worksheetVars, WorksheetInv, WorksheetsKeepIntent, EditKept, ShownConflict
<1>7. \A i \in Items : <<i, "inputs">> \in Cells /\ "left" \in Branches
  BY DEF Cells, Fields, Branches
<1> QED BY <1>1, <1>2, <1>3, <1>4, <1>5, <1>6, <1>7 DEF Merging, Rebinding

(* What is saved is a table of rows, and a mapping leads to inputs.        *)
WorksheetTypes ==
    /\ edits \in 0..MaxEdits
    /\ mapping.made => \A ref \in DOMAIN mapping.to : mapping.to[ref] \in Refs
    /\ merged.made => merged.rows \in [Items -> Rows]
    /\ rebound.made => rebound.rows \in [Items -> Rows]

LEMMA WorksheetTypesStart ==
  ASSUME WorksheetInit PROVE WorksheetTypes
BY WorksheetAssumption DEF WorksheetInit, WorksheetTypes, Missing

(* Every cell of a merged sheet is one of a sheet.                         *)
LEMMA MergedRows ==
  ASSUME WorksheetInv, MergeSave PROVE MergedSheet \in [Items -> Rows]
<1>1. \A c \in Conflicts : resolution.choice[c] \in Sheets
  BY DEF MergeSave, ResolutionCurrent, WorksheetInv
<1>2. ASSUME NEW i \in Items
      PROVE  /\ MergedCell(<<i, "inputs">>) \in (SUBSET Refs) \ {{}}
             /\ MergedCell(<<i, "deps">>) \in SUBSET Items
  <2>1. ASSUME NEW s \in Sheets
        PROVE  /\ CellOf(sheet[s], <<i, "inputs">>) \in (SUBSET Refs) \ {{}}
               /\ CellOf(sheet[s], <<i, "deps">>) \in SUBSET Items
    <3>1. sheet[s][i] \in Rows
      BY DEF WorksheetInv
    <3>2. CellOf(sheet[s], <<i, "inputs">>) = sheet[s][i].inputs /\ CellOf(sheet[s], <<i, "deps">>) = sheet[s][i].deps
      BY DEF CellOf
    <3> QED BY <3>1, <3>2 DEF Rows
  <2>2. "base" \in Sheets /\ "left" \in Sheets /\ "right" \in Sheets
    BY DEF Sheets, Branches
  <2>3. ASSUME NEW c PROVE \E s \in Sheets : MergedCell(c) = CellOf(sheet[s], c)
    BY <1>1, <2>2 DEF MergedCell
  <2> QED BY <2>1, <2>3
<1>3. ASSUME NEW i \in Items
      PROVE  [inputs |-> MergedCell(<<i, "inputs">>), deps |-> MergedCell(<<i, "deps">>)] \in Rows
  BY <1>2 DEF Rows
<1> QED BY <1>3 DEF MergedSheet

(* Inputs that are replaced by inputs are inputs, and some are left.       *)
LEMMA ReboundRows ==
  ASSUME WorksheetInv, WorksheetTypes, Rebind PROVE rebound'.rows \in [Items -> Rows]
<1>1. /\ \A ref \in DOMAIN mapping.to : mapping.to[ref] \in Refs
      /\ rebound'.rows = [i \in Items |-> [sheet["left"][i] EXCEPT !.inputs = Replaced(mapping.to, sheet["left"][i].inputs)]]
  BY DEF Rebind, MappingCurrent, WorksheetTypes
<1>2. ASSUME NEW i \in Items
      PROVE  [sheet["left"][i] EXCEPT !.inputs = Replaced(mapping.to, sheet["left"][i].inputs)] \in Rows
  <2>1. sheet["left"][i] \in Rows
    BY DEF WorksheetInv, Sheets, Branches
  <2>2. sheet["left"][i].inputs \in (SUBSET Refs) \ {{}}
    BY <2>1 DEF Rows
  <2>3. Replaced(mapping.to, sheet["left"][i].inputs) \in (SUBSET Refs) \ {{}}
    <3> DEFINE S == sheet["left"][i].inputs
    <3>1. S \subseteq Refs /\ S # {}
      BY <2>2
    <3> HIDE DEF S
    <3>2. \A ref \in S : Replacement(mapping.to, ref) \in Refs
      BY <1>1, <3>1 DEF Replacement
    <3>3. Replaced(mapping.to, S) \subseteq Refs
      BY <3>2 DEF Replaced
    <3>4. Replaced(mapping.to, S) # {}
      BY <3>1 DEF Replaced
    <3> QED BY <3>3, <3>4 DEF S
  <2> HIDE DEF Replaced
  <2> QED BY <2>1, <2>3 DEF Rows
<1> QED BY <1>1, <1>2

LEMMA WorksheetTypesKept ==
  ASSUME WorksheetInv, WorksheetTypes, Merging \/ Rebinding \/ UNCHANGED worksheetVars
  PROVE  WorksheetTypes'
<1>1. CASE \E b \in Branches, c \in Cells : EditCell(b, c)
  <2>1. edits < MaxEdits /\ edits' = edits + 1 /\ UNCHANGED <<resolution, merged, mapping, rebound>>
    BY <1>1 DEF EditCell
  <2>2. edits' \in 0..MaxEdits
    BY <2>1, WorksheetAssumption DEF WorksheetTypes
  <2> QED BY <2>1, <2>2 DEF WorksheetTypes
<1>2. CASE Resolve
  BY <1>2 DEF Resolve, WorksheetTypes
<1>3. CASE MergeSave
  <2>1. MergedSheet \in [Items -> Rows]
    BY <1>3, MergedRows
  <2>2. merged'.rows = MergedSheet /\ UNCHANGED <<edits, mapping, rebound>>
    BY <1>3 DEF MergeSave
  <2> QED BY <2>1, <2>2 DEF WorksheetTypes
<1>4. CASE WriteMapping
  <2>1. PICK froms \in (SUBSET Known(sheet["left"])) \ {{}} : \E to \in [froms -> Refs] :
           mapping' = [made |-> TRUE, of |-> sheet["left"], to |-> to]
    BY <1>4 DEF WriteMapping
  <2>2. PICK to \in [froms -> Refs] : mapping' = [made |-> TRUE, of |-> sheet["left"], to |-> to]
    BY <2>1
  <2>3. \A ref \in DOMAIN mapping'.to : mapping'.to[ref] \in Refs
    BY <2>2
  <2>4. UNCHANGED <<edits, merged, rebound>>
    BY <1>4 DEF WriteMapping
  <2> QED BY <2>3, <2>4 DEF WorksheetTypes
<1>5. CASE Rebind
  <2>1. rebound'.rows \in [Items -> Rows]
    BY <1>5, ReboundRows
  <2>2. UNCHANGED <<edits, mapping, merged>>
    BY <1>5 DEF Rebind
  <2> QED BY <2>1, <2>2 DEF WorksheetTypes
<1>6. CASE UNCHANGED worksheetVars
  BY <1>6 DEF worksheetVars, WorksheetTypes
<1>7. \A i \in Items : <<i, "inputs">> \in Cells /\ "left" \in Branches
  BY DEF Cells, Fields, Branches
<1> QED BY <1>1, <1>2, <1>3, <1>4, <1>5, <1>6, <1>7 DEF Merging, Rebinding

LEMMA WorksheetTyped ==
  ASSUME WorksheetInv, WorksheetTypes PROVE WorksheetTypeOK
BY DEF WorksheetInv, WorksheetTypes, WorksheetTypeOK

----------------------------------------------------------------------------
(* Forms and pages.                                                        *)

Sources == [deps : Graphs1, rest : 0..1]

(* What the explorer has read by each of its stages: once compared, map    *)
(* and text have the same links; the form it resumes is of that text; and  *)
(* unless something was rewritten since the source was read again, that is *)
(* the text on disk, and then the form.                                    *)
ExplorerShape ==
    /\ "at" \in DOMAIN explorer
    /\ explorer.at # "none" =>
          /\ {"raw", "resume", "map", "form", "seen"} \subseteq DOMAIN explorer
          /\ explorer.form.made => explorer.resume /\ explorer.form.source = explorer.raw
    /\ explorer.at \in {"resume", "render", "form", "write"} => explorer.map.deps = explorer.raw.deps
    /\ explorer.at \in {"form", "write"} =>
          /\ explorer.seen \in Nat /\ explorer.seen <= rewrites
          /\ rewrites = explorer.seen => source = explorer.raw
    /\ explorer.at = "write" /\ explorer.form.made /\ rewrites = explorer.seen => form = explorer.form

FormInv ==
    /\ source \in Sources /\ rewrites \in Nat
    /\ ExplorerShape
    /\ ExpansionSound
    /\ PublishedFromOneSource

(* What a step of an expanded plan waits for.                              *)
LEMMA ExpandedLinks ==
  ASSUME NEW deps \in Graphs1, NEW repeated \in SUBSET Items,
         NEW s \in Expanded(repeated), NEW t
  PROVE  /\ t \in ExpandedDeps(deps, repeated, s) =>
               /\ t \in Expanded(repeated) /\ t[2] \in deps[s[2]]
               /\ t[2] \in repeated /\ s[2] \in repeated => t[1] = s[1]
         /\ /\ t \in Expanded(repeated) /\ t[2] \in deps[s[2]]
            /\ t[2] \in repeated /\ s[2] \in repeated => t[1] = s[1]
            => t \in ExpandedDeps(deps, repeated, s)
<1> DEFINE waits(d) == IF d \in repeated /\ s[2] \in repeated THEN {s[1]} ELSE RowsOf(d, repeated)
<1>1. /\ s \in (TableRows \cup {""}) \X Items /\ s[1] \in RowsOf(s[2], repeated)
      /\ s[2] \in Items /\ deps[s[2]] \subseteq Items
  BY DEF Expanded, Graphs1
<1>2. ExpandedDeps(deps, repeated, s) = UNION {{<<k, d>> : k \in waits(d)} : d \in deps[s[2]]}
  BY DEF ExpandedDeps
<1>3. ASSUME NEW d \in deps[s[2]], NEW k \in waits(d)
      PROVE  k \in RowsOf(d, repeated) /\ k \in TableRows \cup {""}
  BY <1>1, <1>3 DEF RowsOf
<1>4. ASSUME t \in ExpandedDeps(deps, repeated, s)
      PROVE  /\ t \in Expanded(repeated) /\ t[2] \in deps[s[2]]
             /\ t[2] \in repeated /\ s[2] \in repeated => t[1] = s[1]
  <2>1. PICK d \in deps[s[2]] : \E k \in waits(d) : t = <<k, d>>
    BY <1>2, <1>4
  <2>2. PICK k \in waits(d) : t = <<k, d>>
    BY <2>1
  <2>3. t[1] = k /\ t[2] = d /\ d \in Items /\ k \in RowsOf(d, repeated) /\ k \in TableRows \cup {""}
    BY <2>2, <1>1, <1>3
  <2> QED BY <2>3, <2>2 DEF Expanded
<1>5. ASSUME t \in Expanded(repeated), t[2] \in deps[s[2]],
             t[2] \in repeated /\ s[2] \in repeated => t[1] = s[1]
      PROVE  t \in ExpandedDeps(deps, repeated, s)
  <2>1. t \in (TableRows \cup {""}) \X Items /\ t[1] \in RowsOf(t[2], repeated)
    BY <1>5 DEF Expanded
  <2>2. t[1] \in waits(t[2])
    BY <2>1, <1>5
  <2>3. t = <<t[1], t[2]>>
    <3> DEFINE rows == TableRows \cup {""}
    <3>1. t \in rows \X Items
      BY <2>1
    <3> HIDE DEF rows
    <3> QED BY <3>1
  <2> HIDE DEF waits
  <2> QED BY <2>2, <2>3, <1>2, <1>5
<1> QED BY <1>4, <1>5

(* A form saved from a source is sound for it.                             *)
LEMMA SaveFormSound ==
  ASSUME FormInv, SaveForm
  PROVE  ExpansionSound'
<1>1. PICK repeated \in (SUBSET Items) \ {{}} :
        form' = [made |-> TRUE, source |-> source, repeated |-> repeated, steps |-> Expanded(repeated),
                 deps |-> [s \in Expanded(repeated) |-> ExpandedDeps(source.deps, repeated, s)]]
  BY DEF SaveForm
<1> DEFINE E == Expanded(repeated)
           D == [s \in E |-> ExpandedDeps(source.deps, repeated, s)]
           G == source.deps
<1>2. G \in Graphs1 /\ Ordered(Items, G)
  BY DEF FormInv, Sources, SaveForm
<1>3. form'.made /\ form'.source = source /\ form'.steps = E /\ form'.deps = D
  BY <1>1
<1>4. ASSUME NEW s \in E, NEW t
      PROVE  /\ t \in D[s] => /\ t \in E /\ t[2] \in G[s[2]]
                              /\ t[2] \in repeated /\ s[2] \in repeated => t[1] = s[1]
             /\ /\ t \in E /\ t[2] \in G[s[2]]
                /\ t[2] \in repeated /\ s[2] \in repeated => t[1] = s[1]
                => t \in D[s]
  BY <1>2, ExpandedLinks
<1>5. \A s \in E : s[2] \in Items /\ s[1] = (IF s[2] \in repeated THEN s[1] ELSE "")
  BY DEF Expanded, RowsOf
<1>6. \A s \in E : s[2] \in repeated => s[1] \in TableRows
  BY DEF Expanded, RowsOf
<1>7. ASSUME NEW i \in Items, NEW k \in RowsOf(i, repeated)
      PROVE  <<k, i>> \in E
  BY <1>7 DEF Expanded, RowsOf
<1>8. PICK row : row \in TableRows
  BY FormAssumption
<1>9. \A i \in Items : G[i] \subseteq Items
  BY <1>2 DEF Graphs1
<1> HIDE DEF E, D, G
<1>10. {s[2] : s \in E} = Items
  <2>1. ASSUME NEW i \in Items PROVE \E s \in E : s[2] = i
    <3>1. PICK k : k \in RowsOf(i, repeated)
      BY <1>8 DEF RowsOf
    <3>2. <<k, i>> \in E /\ <<k, i>>[2] = i
      BY <3>1, <1>7
    <3> QED BY <3>2
  <2> QED BY <2>1, <1>5
<1>11. ASSUME NEW s \in E PROVE {d[2] : d \in D[s]} = G[s[2]]
  <2>1. ASSUME NEW d \in G[s[2]] PROVE \E t \in D[s] : t[2] = d
    <3>1. d \in Items
      BY <1>5, <1>9
    <3>2. CASE d \in repeated /\ s[2] \in repeated
      <4>1. s[1] \in RowsOf(d, repeated)
        BY <3>2, <1>6 DEF RowsOf
      <4>2. <<s[1], d>> \in E
        BY <4>1, <3>1, <1>7
      <4>3. <<s[1], d>> \in D[s]
        BY <4>2, <1>4
      <4> QED BY <4>3
    <3>3. CASE ~(d \in repeated /\ s[2] \in repeated)
      <4>1. PICK k : k \in RowsOf(d, repeated)
        BY <1>8 DEF RowsOf
      <4>2. <<k, d>> \in E
        BY <4>1, <3>1, <1>7
      <4>3. <<k, d>> \in D[s]
        BY <4>2, <3>3, <1>4
      <4> QED BY <4>3
    <3> QED BY <3>2, <3>3
  <2>2. \A t \in D[s] : t[2] \in G[s[2]]
    BY <1>4
  <2> QED BY <2>1, <2>2
<1>12. ASSUME NEW s \in E, NEW d \in D[s]
       PROVE  s[1] = d[1] \/ s[1] = "" \/ d[1] = ""
  <2>1. d \in E /\ (d[2] \in repeated /\ s[2] \in repeated => d[1] = s[1])
    BY <1>4
  <2> QED BY <2>1, <1>5
<1>13. ASSUME NEW s \in E, s[1] = "", NEW d \in G[s[2]]
       PROVE  {t \in E : t[2] = d} \subseteq D[s]
  <2>1. s[2] \notin repeated
    BY <1>13, <1>6, FormAssumption
  <2> QED BY <2>1, <1>13, <1>4
<1>14. Ordered(E, D)
  <2>1. \A s \in E : D[s] \subseteq E
    BY <1>4
  <2>2. ASSUME NEW stuck \in (SUBSET E) \ {{}}
        PROVE  \E s \in stuck : D[s] \cap stuck = {}
    <3> DEFINE P == {s[2] : s \in stuck}
    <3>1. P \in (SUBSET Items) \ {{}}
      BY <1>5
    <3>2. PICK i \in P : G[i] \cap P = {}
      BY <3>1, <1>2 DEF Ordered
    <3>3. PICK s \in stuck : s[2] = i
      BY <3>2
    <3>4. \A t \in D[s] : t \notin stuck
      BY <3>2, <3>3, <1>4
    <3> QED BY <3>4
  <2> QED BY <2>1, <2>2 DEF Ordered
<1>15. ASSUME NEW s \in E PROVE s \notin D[s]
  <2>1. \E x \in {s} : D[x] \cap {s} = {}
    BY <1>14 DEF Ordered
  <2> QED BY <2>1
<1>16. Resumable(form', form'.source)
  BY <1>3, <1>5, <1>14, <1>15 DEF Resumable
<1> QED
  <2>1. /\ {s[2] : s \in form'.steps} = Items
        /\ \A s \in form'.steps : {d[2] : d \in form'.deps[s]} = form'.source.deps[s[2]]
    BY <1>3, <1>10, <1>11 DEF G
  <2>2. \A s \in form'.steps : \A d \in form'.deps[s] : s[1] = d[1] \/ s[1] = "" \/ d[1] = ""
    BY <1>3, <1>12
  <2>3. \A s \in form'.steps : s[1] = "" =>
           \A d \in form'.source.deps[s[2]] : {t \in form'.steps : t[2] = d} \subseteq form'.deps[s]
    BY <1>3, <1>13 DEF G
  <2> QED BY <2>1, <2>2, <2>3, <1>16 DEF ExpansionSound, Resumable, Ordered

(* A text that people write is a source.                                   *)
LEMMA SourcesWritten ==
  ASSUME NEW deps \in Written, NEW rest \in 0..1
  PROVE  [deps |-> deps, rest |-> rest] \in Sources
<1>1. deps \in Graphs1
  BY FormAssumption, Zenon DEF Graphs1
<1> QED BY <1>1 DEF Sources

(* No form, no page and nothing read at first.                             *)
LEMMA FormsStart ==
  ASSUME FormInit
  PROVE  FormInv
<1>1. PICK deps \in Written : source = [deps |-> deps, rest |-> 0]
  BY DEF FormInit
<1>2. source \in Sources
  <2>1. deps \in Graphs1
    BY FormAssumption, Zenon DEF Graphs1
  <2> QED BY <1>1, <2>1 DEF Sources
<1>3. rewrites = 0 /\ form = NoForm /\ page = NoPage /\ explorer = Resting
  BY DEF FormInit
<1> QED
  BY <1>2, <1>3 DEF FormInv, ExplorerShape, ExpansionSound, PublishedFromOneSource, NoForm, NoPage, Resting

(* Each step of the explorer brings it to its next stage, or to rest.      *)
LEMMA ExplorerKept ==
  ASSUME FormInv, UNCHANGED <<source, form, rewrites>>,
         ReadSource \/ NativeMap \/ Compare \/ Resume \/ RecheckSource \/ RecheckForm \/ WritePage
  PROVE  ExplorerShape'
<1>1. ExplorerShape /\ rewrites \in Nat
  BY DEF FormInv
<1>2. ASSUME explorer' = Resting PROVE ExplorerShape'
  BY <1>2 DEF Resting, ExplorerShape
<1>3. CASE ReadSource
  <2>1. PICK resume \in BOOLEAN :
          explorer' = [at |-> "map", raw |-> source, resume |-> resume, map |-> NoMap, form |-> NoForm,
                       seen |-> 0]
    BY <1>3 DEF ReadSource
  <2> QED BY <2>1 DEF ExplorerShape, NoForm
<1>4. CASE NativeMap
  <2>1. ASSUME explorer' = [explorer EXCEPT !.at = "compare", !.map = source] PROVE ExplorerShape'
    BY <2>1, <1>1, <1>4 DEF NativeMap, ExplorerShape
  <2> QED BY <2>1, <1>2, <1>4 DEF NativeMap
<1>5. CASE Compare
  <2>1. ASSUME explorer.map.deps = explorer.raw.deps, explorer' = [explorer EXCEPT !.at = "resume"]
        PROVE  ExplorerShape'
    BY <2>1, <1>1, <1>5 DEF Compare, ExplorerShape
  <2> QED BY <2>1, <1>2, <1>5 DEF Compare, ReportMatches
<1>6. CASE Resume
  <2>1. ASSUME explorer' = [explorer EXCEPT !.at = "render"] PROVE ExplorerShape'
    BY <2>1, <1>1, <1>6 DEF Resume, ExplorerShape
  <2>2. ASSUME form.source = explorer.raw, explorer' = [explorer EXCEPT !.at = "render", !.form = form]
        PROVE  ExplorerShape'
    BY <2>2, <1>1, <1>6 DEF Resume, ExplorerShape
  <2> QED BY <2>1, <2>2, <1>2, <1>6 DEF Resume, Resumable
<1>7. CASE RecheckSource
  <2>1. ASSUME source = explorer.raw, explorer' = [explorer EXCEPT !.at = "form", !.seen = rewrites]
        PROVE  ExplorerShape'
    BY <2>1, <1>1, <1>7 DEF RecheckSource, ExplorerShape
  <2>2. ASSUME source = explorer.raw, ~explorer.resume,
               explorer' = [explorer EXCEPT !.at = "write", !.seen = rewrites]
        PROVE  ExplorerShape'
    BY <2>2, <1>1, <1>7 DEF RecheckSource, ExplorerShape
  <2> QED BY <2>1, <2>2, <1>2, <1>7 DEF RecheckSource, SourceStill
<1>8. CASE RecheckForm
  <2>1. ASSUME form = explorer.form, explorer' = [explorer EXCEPT !.at = "write"] PROVE ExplorerShape'
    BY <2>1, <1>1, <1>8 DEF RecheckForm, ExplorerShape
  <2> QED BY <2>1, <1>2, <1>8 DEF RecheckForm
<1>9. CASE WritePage
  BY <1>2, <1>9 DEF WritePage
<1> QED BY <1>3, <1>4, <1>5, <1>6, <1>7, <1>8, <1>9

(* A form that stays as it is stays sound.                                 *)
LEMMA ExpansionStays ==
  ASSUME ExpansionSound, UNCHANGED form PROVE ExpansionSound'
<1>1. form' = form
  OBVIOUS
<1> QED BY <1>1, Zenon DEF ExpansionSound, Resumable, Ordered

(* Every step of the scripts and of whoever rewrites the source or the     *)
(* form keeps it: a rewriting after the last reading is counted.           *)
LEMMA FormsKept ==
  ASSUME FormInv, Forms \/ UNCHANGED formVars
  PROVE  FormInv'
<1>1. CASE Rewrite
  <2>1. rewrites' = rewrites + 1 /\ UNCHANGED <<form, explorer, page>>
    BY <1>1 DEF Rewrite
  <2>2. PICK deps \in Written, rest \in 0..1 : source' = [deps |-> deps, rest |-> rest]
    BY <1>1 DEF Rewrite
  <2>3. source' \in Sources
    BY <2>2, SourcesWritten
  <2>4. ExplorerShape'
    BY <2>1 DEF FormInv, ExplorerShape
  <2>5. ExpansionSound'
    BY <2>1, ExpansionStays DEF FormInv
  <2>6. PublishedFromOneSource'
    BY <2>1 DEF FormInv, PublishedFromOneSource
  <2> QED BY <2>1, <2>4, <2>5, <2>6, <2>3 DEF FormInv
<1>2. CASE SaveForm
  <2>1. UNCHANGED <<source, explorer, page>> /\ rewrites' = IF form.made THEN rewrites + 1 ELSE rewrites
    BY <1>2 DEF SaveForm
  <2>2. ExplorerShape'
    BY <2>1 DEF FormInv, ExplorerShape
  <2>3. PublishedFromOneSource'
    BY <2>1 DEF FormInv, PublishedFromOneSource
  <2> QED BY <2>1, <2>2, <2>3, <1>2, SaveFormSound DEF FormInv
<1>3. ASSUME UNCHANGED <<source, form, rewrites>>, ExplorerShape', PublishedFromOneSource'
      PROVE  FormInv'
  <2>1. ExpansionSound'
    BY <1>3, ExpansionStays DEF FormInv
  <2> QED BY <1>3, <2>1 DEF FormInv
<1>4. CASE ReadSource \/ NativeMap \/ Compare \/ Resume \/ RecheckSource \/ RecheckForm
  <2>1. UNCHANGED <<source, form, page, rewrites>>
    BY <1>4 DEF ReadSource, NativeMap, Compare, Resume, RecheckSource, RecheckForm
  <2>2. PublishedFromOneSource'
    BY <2>1 DEF FormInv, PublishedFromOneSource
  <2> QED BY <2>1, <2>2, <1>3, <1>4, ExplorerKept
<1>5. CASE WritePage
  <2>1. /\ explorer.at = "write" /\ UNCHANGED <<source, form, rewrites>>
        /\ page' = [made |-> TRUE, raw |-> explorer.raw, map |-> explorer.map, form |-> explorer.form,
                    onDisk |-> [source |-> source, form |-> form], raced |-> rewrites # explorer.seen]
    BY <1>5 DEF WritePage
  <2>2. /\ explorer.map.deps = explorer.raw.deps
        /\ explorer.form.made => explorer.form.source = explorer.raw
        /\ rewrites = explorer.seen => source = explorer.raw
        /\ explorer.form.made /\ rewrites = explorer.seen => form = explorer.form
    BY <2>1 DEF FormInv, ExplorerShape
  <2>3. /\ page'.raw = explorer.raw /\ page'.map = explorer.map /\ page'.form = explorer.form
        /\ page'.onDisk.source = source /\ page'.onDisk.form = form
        /\ page'.raced = (rewrites # explorer.seen)
    BY <2>1
  <2>4. PublishedFromOneSource'
    BY <2>2, <2>3 DEF PublishedFromOneSource
  <2> QED BY <2>1, <2>4, <1>3, <1>5, ExplorerKept
<1>6. CASE UNCHANGED formVars
  <2>1. UNCHANGED <<source, form, explorer, page, rewrites>>
    BY <1>6 DEF formVars
  <2>2. ExplorerShape' /\ PublishedFromOneSource'
    BY <2>1 DEF FormInv, ExplorerShape, PublishedFromOneSource
  <2> QED BY <2>1, <2>2, <1>3
<1> QED BY <1>1, <1>2, <1>4, <1>5, <1>6 DEF Forms

(* The stage of the explorer, and the steps of a form.                     *)
Steps == (TableRows \cup {""}) \X Items
Stages == {"none", "map", "compare", "resume", "render", "form", "write"}
FormTypes ==
    /\ rewrites \in 0..MaxRewrites
    /\ explorer.at \in Stages
    /\ form.made => form.steps \subseteq Steps

LEMMA Rewritable == MaxRewrites \in Nat
BY FormAssumption, Zenon

LEMMA FormTypesStart ==
  ASSUME FormInit PROVE FormTypes
BY Rewritable DEF FormInit, FormTypes, NoForm, Resting, Stages

LEMMA FormTypesKept ==
  ASSUME FormInv, FormTypes, Forms \/ UNCHANGED formVars
  PROVE  FormTypes'
<1>1. CASE Rewrite
  <2>1. rewrites < MaxRewrites /\ rewrites' = rewrites + 1 /\ UNCHANGED <<form, explorer>>
    BY <1>1 DEF Rewrite
  <2>2. rewrites' \in 0..MaxRewrites
    BY <2>1, Rewritable DEF FormTypes
  <2> QED BY <2>1, <2>2 DEF FormTypes
<1>2. CASE SaveForm
  <2>1. PICK repeated : form'.steps = Expanded(repeated)
    BY <1>2 DEF SaveForm
  <2>2. form'.steps \subseteq Steps
    BY <2>1, Zenon DEF Expanded, Steps
  <2>3. /\ UNCHANGED explorer /\ (form.made => rewrites < MaxRewrites)
        /\ rewrites' = IF form.made THEN rewrites + 1 ELSE rewrites
    BY <1>2 DEF SaveForm
  <2>4. rewrites' \in 0..MaxRewrites
    BY <2>3, Rewritable DEF FormTypes
  <2> QED BY <2>2, <2>3, <2>4 DEF FormTypes
<1>3. CASE UNCHANGED <<form, rewrites>> /\ explorer'.at \in Stages
  BY <1>3 DEF FormTypes
<1>4. CASE ReadSource \/ WritePage
  <2>1. explorer'.at \in Stages
    BY <1>4 DEF ReadSource, WritePage, Resting, Stages
  <2> QED BY <1>3, <1>4, <2>1 DEF ReadSource, WritePage
<1>5. CASE NativeMap \/ Compare \/ Resume \/ RecheckSource \/ RecheckForm
  <2>1. "at" \in DOMAIN explorer
    BY DEF FormInv, ExplorerShape
  <2>2. explorer' = Resting \/ \E place \in Stages : explorer'.at = place
    BY <1>5, <2>1 DEF NativeMap, Compare, Resume, RecheckSource, RecheckForm, Stages
  <2>3. explorer'.at \in Stages
    BY <2>2 DEF Resting, Stages
  <2> QED BY <1>3, <1>5, <2>3 DEF NativeMap, Compare, Resume, RecheckSource, RecheckForm
<1>6. CASE UNCHANGED formVars
  BY <1>6 DEF formVars, FormTypes
<1> QED BY <1>1, <1>2, <1>4, <1>5, <1>6 DEF Forms

LEMMA FormTyped ==
  ASSUME FormInv, FormTypes PROVE FormTypeOK
<1>1. source \in Sources /\ FormTypes
  BY DEF FormInv
<1> QED BY <1>1, Zenon DEF FormTypes, Sources, FormTypeOK, Steps, Stages
=============================================================================
