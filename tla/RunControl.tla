----------------------------- MODULE RunControl -----------------------------
(***************************************************************************)
(* control.json of every run, and the "control" command that operators and *)
(* scripts start for it.  The command reads the run and its control, then  *)
(* rewrites the control; nothing is locked in between, and a command that  *)
(* is killed may leave the file unreadable.                                *)
(***************************************************************************)
EXTENDS RunKernel

CONSTANTS
    Controllers,    \* who starts control commands: "operator", "batch"
    OperatorActions,\* the actions the operator uses
    MaxControls     \* bound: control commands the operator starts

ASSUME ControlAssumption ==
    /\ {"operator", "batch"} \subseteq Controllers
    /\ OperatorActions \subseteq {"narrow", "pause", "resume", "cancel"}
    /\ MaxControls \in Nat

(* A run and the run that the automatic recovery of it opens.              *)
RunIds == {"parent", "child"}

VARIABLES
    file,       \* file[r]: events.json of run r: its state, and the run it holds
    control,    \* control[r]: control.json, and who wrote it last
    cmd,        \* cmd[c]: the control command that c started
    controls    \* control commands of the operator so far

controlVars == <<control, cmd, controls>>

(* No control.json reads as running, without a ceiling.                    *)
NoControl == [state |-> "running", ceiling |-> "none", by |-> "nobody", torn |-> FALSE]
NoCommand == [at |-> "none", run |-> "parent", next |-> NoControl]

ControlInit ==
    /\ control = [r \in RunIds |-> NoControl]
    /\ cmd = [c \in Controllers |-> NoCommand]
    /\ controls = 0

(* projection_outcome_for_statuses: the first status in this order that    *)
(* some item has.                                                          *)
OutcomeOrder == <<"active", "review", "blocked", "failed", "ready">>
Outcome(r) ==
    LET has == {r.item[i].status : i \in Items}
        hit == {k \in 1..5 : OutcomeOrder[k] \in has}
    IN  IF has = {"accepted"} THEN "accepted"
        ELSE IF hit = {} THEN "waiting"
        ELSE OutcomeOrder[CHOOSE k \in hit : \A l \in hit : k <= l]

Final == {"accepted", "blocked", "failed"}

(* What the command of c makes of the control it read.  A pause asks       *)
(* nothing of the earlier state, so it also replaces "cancelled".          *)
Controlled(k, action, c) ==
    CASE action = "narrow" -> [k EXCEPT !.ceiling = "low", !.by = c]
      [] action = "pause"  -> [k EXCEPT !.state = "paused", !.by = c]
      [] action = "resume" -> [k EXCEPT !.state = "running", !.by = c]
      [] action = "cancel" -> [k EXCEPT !.state = "cancelled", !.by = c]

(* The checks before the write: the run is imported, readable and not      *)
(* final, and a cancelled run is not resumed.                              *)
Controllable(r, action) ==
    /\ file[r].state = "whole" /\ Outcome(file[r].run) \notin Final
    /\ ~control[r].torn
    /\ action = "resume" => control[r].state # "cancelled"

ControlLoad(c, r, action) ==
    /\ cmd[c].at = "none" /\ Controllable(r, action)
    /\ cmd' = [cmd EXCEPT ![c] = [at |-> "loaded", run |-> r,
                                  next |-> Controlled(control[r], action, c)]]
    /\ UNCHANGED <<file, control>>

ControlWrite(c) ==
    /\ cmd[c].at = "loaded"
    /\ control' = [control EXCEPT ![cmd[c].run] = cmd[c].next]
    /\ cmd' = [cmd EXCEPT ![c].at = "written"]
    /\ UNCHANGED file

(* The command is killed before its write, or in the middle of it.         *)
ControlKill(c) ==
    /\ cmd[c].at = "loaded"
    /\ \E torn \in BOOLEAN :
          control' = IF torn THEN [control EXCEPT ![cmd[c].run].torn = TRUE] ELSE control
    /\ UNCHANGED file

ControlDone(c) == cmd[c].at = "written" /\ cmd' = [cmd EXCEPT ![c] = NoCommand]

(* The operator's own commands, one after the other.                       *)
OperatorStarts ==
    /\ controls < MaxControls /\ controls' = controls + 1
    /\ \E r \in RunIds, action \in OperatorActions : ControlLoad("operator", r, action)

OperatorSteps ==
    /\ \/ ControlWrite("operator")
       \/ ControlDone("operator") /\ UNCHANGED <<file, control>>
    /\ UNCHANGED controls

Operate == OperatorStarts \/ OperatorSteps

ControlTypeOK ==
    /\ file \in [RunIds -> [state : {"absent", "torn", "whole"}, run : Runs]]
    /\ control \in [RunIds ->
          [state : {"running", "paused", "cancelled"}, ceiling : {"none", "low"},
           by : Controllers \cup {"nobody"}, torn : BOOLEAN]]
    /\ \A c \in Controllers : cmd[c].at \in {"none", "loaded", "written"}
    /\ controls \in 0..MaxControls
=============================================================================
