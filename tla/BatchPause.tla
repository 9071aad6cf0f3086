----------------------------- MODULE BatchPause -----------------------------
(***************************************************************************)
(* scripts/batch_pause.py: pauses selected runs one after the other with   *)
(* the native control command.  The intention is journalled before each    *)
(* command, and a command whose effect was not observed is reported as     *)
(* such.  In apply mode the operator vouches that nobody else changes the  *)
(* controls meanwhile; the runs themselves go on.                          *)
(***************************************************************************)
EXTENDS RunControl

CONSTANT Selected       \* the runs named with --run

ASSUME BatchAssumption == Selected \subseteq RunIds

VARIABLES
    batch,      \* where the script is: its mode, the run at hand, what it read
    asked,      \* runs with a pause-requested entry in the journal
    result,     \* result[r]: the run-result entry of r
    report      \* the report that was printed

batchVars == <<batch, asked, result, report>>

NoReport == [printed |-> FALSE, clean |-> FALSE, allPaused |-> FALSE]
BatchInit ==
    /\ batch = [at |-> "none", mode |-> "preview", run |-> "parent", outcome |-> "none", before |-> NoControl]
    /\ asked = {}
    /\ result = [r \in RunIds |-> "none"]
    /\ report = NoReport

Good == {"paused", "already-paused", "cancelled", "terminal", "would-pause"}
Batch(place) == batch.at = place
Applying == batch.mode = "apply" /\ batch.at \notin {"none", "over"}

(* The receipt of an apply is a new file, so an apply happens once.        *)
BatchStart ==
    /\ Batch("none")
    /\ \E mode \in {"preview", "apply"} :
          /\ mode = "apply" => cmd["operator"].at = "none"
          /\ batch' = [batch EXCEPT !.at = "next", !.mode = mode]
    /\ UNCHANGED <<asked, result, report>>

(* record({"event": "run-result"})                                         *)
Conclude(r, what) ==
    /\ result' = [result EXCEPT ![r] = what]
    /\ batch' = [batch EXCEPT !.at = "next"]

(* Mutant: every run of the workspace is paused.                           *)
PendingAny == {r \in RunIds : result[r] = "none"}

Pending == {r \in Selected : result[r] = "none"}

(* inspect: the status command of the next run; any order stands for the   *)
(* order of the arguments.  A run that cannot be read, or whose status     *)
(* does not arrive in time, is blocked.                                    *)
InspectStatus ==
    /\ Batch("next")
    /\ \E r \in Pending :
          \/ /\ file[r].state = "whole"
             /\ batch' = [batch EXCEPT !.at = "status", !.run = r, !.outcome = Outcome(file[r].run)]
             /\ UNCHANGED result
          \/ Conclude(r, "blocked")
    /\ UNCHANGED <<asked, report>>

(* What needs no pause, from the outcome and the control that were read.   *)
PauseNeed(before, outcome, mode) ==
    IF before.torn THEN "blocked"
    ELSE IF before.state = "cancelled" THEN "cancelled"
    ELSE IF before.state = "paused" THEN "already-paused"
    ELSE IF outcome \in Final THEN "terminal"
    ELSE IF mode = "preview" THEN "would-pause" ELSE "pause"

InspectControl ==
    /\ Batch("status")
    /\ LET r == batch.run  v == PauseNeed(control[r], batch.outcome, batch.mode)
       IN  IF v = "pause"
           THEN batch' = [batch EXCEPT !.at = "request", !.before = control[r]] /\ UNCHANGED result
           ELSE Conclude(r, v)
    /\ UNCHANGED <<asked, report>>

(* Mutant: the intention is journalled when the command has returned.      *)
RequestUnrecorded ==
    /\ Batch("request") /\ batch' = [batch EXCEPT !.at = "invoke"]
    /\ UNCHANGED <<asked, result, report>>

(* record({"event": "pause-requested"}), flushed before the command runs.  *)
Request ==
    /\ Batch("request") /\ batch' = [batch EXCEPT !.at = "invoke"]
    /\ asked' = asked \cup {batch.run}
    /\ UNCHANGED <<result, report>>

(* The native command is started; a command that refuses exits non-zero.   *)
Invoke ==
    /\ Batch("invoke")
    /\ \/ /\ ControlLoad("batch", batch.run, "pause")
          /\ batch' = [batch EXCEPT !.at = "wait"] /\ UNCHANGED result
       \/ /\ ~Controllable(batch.run, "pause") /\ UNCHANGED <<file, control, cmd>>
          /\ Conclude(batch.run, "unconfirmed")
    /\ UNCHANGED <<asked, report>>

NativeStep == ControlWrite("batch") /\ UNCHANGED batchVars

Expected(before) == [before EXCEPT !.state = "paused", !.by = "batch"]

(* The response and the retained control are what a pause leaves behind.   *)
Confirm ==
    /\ Batch("wait") /\ ControlDone("batch") /\ UNCHANGED <<file, control>>
    /\ Conclude(batch.run, IF control[batch.run] = Expected(batch.before) THEN "paused" ELSE "unconfirmed")
    /\ UNCHANGED <<asked, report>>

(* The command times out and is killed, before, in or after its write.     *)
TimeOut ==
    /\ Batch("wait")
    /\ IF cmd["batch"].at = "loaded" THEN ControlKill("batch") ELSE UNCHANGED <<file, control>>
    /\ cmd' = [cmd EXCEPT !["batch"] = NoCommand]
    /\ Conclude(batch.run, "unconfirmed")
    /\ UNCHANGED <<asked, report>>

(* The script is killed; a command it started goes on.                     *)
BatchKill ==
    /\ batch.at \notin {"none", "over"} /\ batch' = [batch EXCEPT !.at = "over"]
    /\ UNCHANGED <<asked, result, report>>

(* The report.                                                             *)
BatchFinish ==
    /\ Batch("next") /\ \A r \in Selected : result[r] # "none"
    /\ batch' = [batch EXCEPT !.at = "over"]
    /\ report' = [printed |-> TRUE, clean |-> \A r \in Selected : result[r] \in Good,
                  allPaused |-> batch.mode = "apply"
                                 /\ \A r \in Selected : result[r] \in {"paused", "already-paused"}]
    /\ UNCHANGED <<asked, result>>

BatchOnly == BatchStart \/ InspectStatus \/ InspectControl \/ Request \/ BatchKill \/ BatchFinish
Pausing ==
    \/ (BatchOnly /\ UNCHANGED <<file, control, cmd>>)
    \/ Invoke \/ NativeStep \/ Confirm \/ TimeOut

----------------------------------------------------------------------------
(* Properties.                                                             *)

Results == Good \cup {"none", "blocked", "unconfirmed"}
BatchTypeOK ==
    /\ batch.at \in {"none", "next", "status", "request", "invoke", "wait", "over"}
    /\ batch.mode \in {"preview", "apply"} /\ batch.run \in RunIds
    /\ asked \subseteq Selected /\ result \in [RunIds -> Results]

(* What the journal and the report say is what happened: every control     *)
(* the batch wrote was announced before, nothing was attempted on a run    *)
(* with another result than paused or unconfirmed; while the operator      *)
(* keeps the controls still, a run reported as paused is paused, by this   *)
(* batch and with its ceiling, and a clean report of pauses means that     *)
(* every selected run is paused.                                           *)
JournalHonest ==
    /\ \A r \in RunIds : control[r].by = "batch" \/ (cmd["batch"].at # "none" /\ cmd["batch"].run = r)
          => r \in asked
    /\ \A r \in Selected :
          /\ result[r] \notin {"none", "paused", "unconfirmed"} => r \notin asked /\ control[r].by # "batch"
          /\ Applying /\ result[r] = "paused" =>
                control[r].state = "paused" /\ control[r].by = "batch" /\ ~control[r].torn
          /\ Applying /\ result[r] = "already-paused" => control[r].state = "paused"
    /\ report.printed /\ report.allPaused =>
          \A r \in Selected : result[r] \in {"paused", "already-paused"}
=============================================================================
