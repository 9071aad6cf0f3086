------------------------------- MODULE SoakRun -------------------------------
(***************************************************************************)
(* scripts/unattended_soak.py: repeats the harness checks of the recovery  *)
(* script until its time or its number of cycles is over, and leaves a log *)
(* line per cycle and a state file that a later soak in the same directory *)
(* finds.  A check is a process that may fail or take too long.            *)
(***************************************************************************)
EXTENDS Integers, Sequences

CONSTANTS
    Programs,       \* which optional programs a soak may be given
    MaxSoaks,       \* bound: soaks started in the directory
    MaxSoakCycles   \* bound: cycles of a soak

ASSUME SoakAssumption == MaxSoaks \in Nat /\ MaxSoakCycles \in Nat \ {0}

VARIABLES
    soak,       \* the soak: its options, its cycle, and the checks of that cycle
    soaks,      \* soaks started so far
    cycleLog,   \* cycles.jsonl
    stateFile   \* state.json: the soak that wrote it, by started_at_epoch, and the soak
                \* that finished it, by elapsed_hours; 0 while nobody did

soakVars == <<soak, soaks, cycleLog, stateFile>>

NoSoak == [at |-> "none"]
SoakInit == soak = NoSoak /\ soaks = 0 /\ cycleLog = <<>> /\ stateFile = [status |-> "absent"]

(* The checks of a cycle, in order, each with the programs it asks for.    *)
Checks ==
    << [name |-> "crash-recovery", asks |-> {}], [name |-> "automatic-revision", asks |-> {"moonbook"}],
       [name |-> "native-helper", asks |-> {"moonclaw"}], [name |-> "model-loss", asks |-> {"moonclaw"}],
       [name |-> "combined-lineage", asks |-> {"moonbook"}], [name |-> "evidence-mutation", asks |-> {}],
       [name |-> "operator-control", asks |-> {}], [name |-> "budget-exhaustion", asks |-> {"moongate"}],
       [name |-> "product-restart", asks |-> {"moongate"}] >>
Commands(given) == {k \in 1..Len(Checks) : Checks[k].asks \subseteq given}

(* --cycles, or else the wall clock; 0 stands for no --cycles.             *)
SoakStart ==
    /\ soak = NoSoak /\ soaks < MaxSoaks /\ soaks' = soaks + 1
    /\ \E given \in Programs, target \in 0..MaxSoakCycles :
          soak' = [at |-> "loop", id |-> soaks', given |-> given, target |-> target,
                   cycle |-> 0, left |-> {}, ran |-> <<>>, failed |-> FALSE,
                   stop |-> FALSE, late |-> FALSE]
    /\ UNCHANGED <<cycleLog, stateFile>>

(* SIGINT or SIGTERM; the deadline, which may pass before the first cycle: *)
(* any positive number of hours is admitted.                               *)
StopRequested ==
    /\ soak # NoSoak /\ ~soak.stop /\ soak' = [soak EXCEPT !.stop = TRUE]
    /\ UNCHANGED <<soaks, cycleLog, stateFile>>
DeadlinePasses ==
    /\ soak # NoSoak /\ ~soak.late /\ soak' = [soak EXCEPT !.late = TRUE]
    /\ UNCHANGED <<soaks, cycleLog, stateFile>>

Over == IF soak.target = 0 THEN soak.late ELSE soak.cycle >= soak.target

(* Bound: a soak without --cycles does no more than MaxSoakCycles.         *)
BeginCycle ==
    /\ soak.at = "loop" /\ ~soak.stop /\ ~Over /\ soak.cycle < MaxSoakCycles
    /\ soak' = [soak EXCEPT !.at = "check", !.cycle = @ + 1, !.left = Commands(soak.given), !.ran = <<>>]
    /\ UNCHANGED <<soaks, cycleLog, stateFile>>
LeaveLoop ==
    /\ soak.at = "loop" /\ (soak.stop \/ Over)
    /\ soak' = [soak EXCEPT !.at = "final"]
    /\ UNCHANGED <<soaks, cycleLog, stateFile>>

(* The checks of a cycle are taken in order, and the first that fails ends *)
(* it.  Without a moonbook program the product check is given a program    *)
(* that does not exist.                                                    *)
CanPass(k) == Checks[k].name = "product-restart" => "moonbook" \in soak.given
RunCheck ==
    /\ soak.at = "check"
    /\ \E k \in soak.left, ok \in BOOLEAN :
          /\ \A l \in soak.left : k <= l
          /\ ok => CanPass(k)
          /\ soak' = [soak EXCEPT !.ran = Append(@, [name |-> Checks[k].name, ok |-> ok]),
                                  !.left = IF ok THEN @ \ {k} ELSE {}, !.failed = ~ok]
    /\ UNCHANGED <<soaks, cycleLog, stateFile>>

(* TimeoutExpired is not caught, and a soak may be killed: what it left in *)
(* its directory stays.                                                    *)
SoakDies ==
    /\ soak # NoSoak /\ soak' = NoSoak
    /\ UNCHANGED <<soaks, cycleLog, stateFile>>

LogCycle ==
    /\ soak.at = "check" /\ soak.left = {}
    /\ cycleLog' = Append(cycleLog, [soak |-> soak.id, cycle |-> soak.cycle, checks |-> soak.ran,
                                     ok |-> ~soak.failed, given |-> soak.given])
    /\ soak' = [soak EXCEPT !.at = "state"]
    /\ UNCHANGED <<soaks, stateFile>>

CycleState ==
    [status |-> IF soak.failed THEN "failed" ELSE "running", soak |-> soak.id, completed |-> soak.cycle,
     finisher |-> 0]

(* Mutant: a cycle that failed is noted, and the soak goes on.             *)
WriteStateAndGoOn ==
    /\ soak.at = "state" /\ stateFile' = CycleState
    /\ soak' = [soak EXCEPT !.at = IF Over THEN "final" ELSE "loop", !.failed = FALSE]
    /\ UNCHANGED <<soaks, cycleLog>>

(* A failed cycle ends the soak with an error.                             *)
WriteState ==
    /\ soak.at = "state" /\ stateFile' = CycleState
    /\ soak' = IF soak.failed THEN NoSoak ELSE [soak EXCEPT !.at = IF Over THEN "final" ELSE "loop"]
    /\ UNCHANGED <<soaks, cycleLog>>

(* The state file is read back, whoever wrote it, and completed: by a soak *)
(* without a cycle, the state an earlier soak left, failed or not.         *)
FinishSoak ==
    /\ soak.at = "final" /\ soak' = NoSoak
    /\ stateFile' = IF stateFile.status = "absent" THEN stateFile
                    ELSE [stateFile EXCEPT !.status = IF soak.stop THEN "interrupted" ELSE "passed",
                                           !.finisher = soak.id]
    /\ UNCHANGED <<soaks, cycleLog>>

Soaking ==
    \/ SoakStart \/ StopRequested \/ DeadlinePasses \/ BeginCycle \/ LeaveLoop
    \/ RunCheck \/ SoakDies \/ LogCycle \/ WriteState \/ FinishSoak

----------------------------------------------------------------------------
(* Properties.                                                             *)

SoakTypeOK ==
    /\ soak.at \in {"none", "loop", "check", "state", "final"} /\ soaks \in 0..MaxSoaks
    /\ stateFile.status \in {"absent", "running", "failed", "passed", "interrupted"}

(* What a state file says of a soak is in the log, although a soak may die *)
(* between two writes and find the files of an earlier one: its cycles are *)
(* there once and in order, and all before the last passed every check of  *)
(* the programs they were given.  While the soak runs, or when it finished *)
(* the file itself, the last one passed as well.  A file that another soak *)
(* finished, as passed even when it said failed, was finished by one that  *)
(* did not run a single cycle.                                             *)
CyclesOf(id) == {k \in 1..Len(cycleLog) : cycleLog[k].soak = id}
AllPassed(line) ==
    \A k \in Commands(line.given) :
        \E m \in 1..Len(line.checks) : line.checks[m] = [name |-> Checks[k].name, ok |-> TRUE]
Through(id, n) ==
    \A m \in 1..n : \E k \in CyclesOf(id) :
        cycleLog[k].cycle = m /\ cycleLog[k].ok /\ AllPassed(cycleLog[k])
SoakHonest ==
    stateFile.status # "absent" =>
        LET id == stateFile.soak
            n  == stateFile.completed
        IN  /\ \A k, l \in CyclesOf(id) : k < l => cycleLog[k].cycle < cycleLog[l].cycle
            /\ n > 0 /\ Through(id, n - 1) /\ \E k \in CyclesOf(id) : cycleLog[k].cycle = n
            /\ stateFile.status = "running" \/ stateFile.finisher = id => Through(id, n)
            /\ stateFile.finisher \notin {0, id} => CyclesOf(stateFile.finisher) = {}
=============================================================================
