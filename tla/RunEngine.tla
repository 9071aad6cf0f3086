----------------------------- MODULE RunEngine -----------------------------
(***************************************************************************)
(* The commands of cmd/main/main.mbt on one run.  Each command is its own  *)
(* process: it reads events.json, replays it, pushes events, and rewrites  *)
(* the whole file, truncating it first.  No lock is held between reading   *)
(* and writing, and the process may be killed between any two steps.       *)
(* Adapters report and reviewers decide outside the system: their result   *)
(* and receipt files may be late, repeated or out of order.                *)
(***************************************************************************)
EXTENDS RunKernel

CONSTANTS
    Clients,        \* the processes that run commands
    Operator,       \* the manual transitions the operators use
    Reports,        \* the statuses the adapters report
    ResultIds,      \* bound: the identities of reports of one attempt with one status
    Outputs,        \* Outputs[i]: digests of what an attempt of item i may leave
    MaxAttempts,    \* bound: MaxAttempts[i]: attempts counted for item i
    MaxImports      \* bound: how often the graph is imported as this run

ASSUME EngineAssumption ==
    /\ Operator \subseteq Transitions /\ Reports \subseteq ReportStatuses
    /\ ResultIds \subseteq Nat \ {0} /\ Outputs \in [Items -> SUBSET (Nat \ {0})]
    /\ MaxAttempts \in [Items -> Nat] /\ MaxImports \in Nat

VARIABLES
    file,       \* events.json: its state, and the run it holds when whole
    requests,   \* the request files prepare-next left in dispatch/
    work,       \* work[c]: where the command of c is, and its copy of the run
    told,       \* the events that some command reported as recorded
    imports     \* how often the graph was imported

vars == <<file, requests, work, told, imports>>

Init ==
    /\ file = [state |-> "absent", run |-> GraphRun]
    /\ requests = {}
    /\ work = [c \in Clients |-> [at |-> "idle", run |-> GraphRun]]
    /\ told = {}
    /\ imports = 0

At(c, place) == work[c].at = place
Goto(c, place, r) == work' = [work EXCEPT ![c] = [at |-> place, run |-> r]]

(* load_events and replay.                                                 *)
Load(c) ==
    /\ At(c, "idle") /\ file.state = "whole"
    /\ Goto(c, "loaded", file.run)
    /\ UNCHANGED <<file, requests, told, imports>>

(* import_graph looks at no existing run of the same id.                   *)
ImportGraph(c) ==
    /\ At(c, "idle") /\ imports < MaxImports
    /\ imports' = imports + 1
    /\ Goto(c, "staged", GraphRun)
    /\ UNCHANGED <<file, requests, told>>

(* The command of c makes r of the run it read.                            *)
Stage(c, rs) ==
    /\ At(c, "loaded")
    /\ \E r \in rs : Goto(c, "staged", r)
    /\ UNCHANGED <<file, told, imports>>

MayAttempt(c, i) == work[c].run.item[i].attempt_count < MaxAttempts[i]

AppendTransition(c) ==
    /\ \E i \in Items, t \in Operator :
          /\ t = "start" => MayAttempt(c, i)
          /\ Stage(c, Transition(work[c].run, i, t))
    /\ UNCHANGED requests

AdvanceRun(c) == Stage(c, Advance(work[c].run)) /\ UNCHANGED requests

(* prepare_next writes the request files before the events that name them. *)
Prepare(c) ==
    \E S \in SUBSET Runnable(work[c].run) :
        /\ \A i \in S : MayAttempt(c, i)
        /\ Stage(c, PrepareNext(work[c].run, S))
        /\ requests' = requests \cup {<<i, NextAttempt(work[c].run, i)>> : i \in S}

(* submit_attempt of any request file, the ones whose prepare-next was     *)
(* interrupted included.                                                   *)
SubmitAttempt(c) ==
    /\ \E q \in requests :
          /\ MayAttempt(c, q[1])
          /\ Stage(c, Submit(work[c].run, q[1], q[2]))
    /\ UNCHANGED requests

(* reconcile_attempt of any result file, of any attempt, also of one that  *)
(* was reported before with another identity or another outcome.           *)
ReconcileAttempt(c) ==
    /\ \E i \in Items, s \in Reports, x \in ResultIds :
          \E n \in 1..MaxAttempts[i], d \in IF s = "succeeded" THEN Outputs[i] ELSE {0} :
              Stage(c, Reconcile(work[c].run, i, [attempt |-> n, status |-> s, id |-> x], d))
    /\ UNCHANGED requests

(* complete_artifacts: a local adapter's success for the active attempt;   *)
(* its identity, here 0, follows from the attempt.                         *)
CompleteArtifacts(c) ==
    /\ \E i \in Items : \E d \in Outputs[i] :
          /\ work[c].run.item[i].status = "active" /\ work[c].run.item[i].attempt # 0
          /\ Stage(c, Reconcile(work[c].run, i, Success(work[c].run.item[i].attempt, 0), d))
    /\ UNCHANGED requests

(* review_outcome: a reviewer binds what some projection showed; only what *)
(* this projection shows can pass the identity checks.                     *)
ReviewOutcome(c) ==
    /\ \E i \in Items, d \in {"accepted", "rejected"} :
          LET s == work[c].run.item[i]
          IN  Stage(c, Review(work[c].run, i,
                  [attempt |-> s.attempt, result |-> s.result, digest |-> s.digest, decision |-> d]))
    /\ UNCHANGED requests

(* show_status, or a command whose event is recorded already: it prints    *)
(* the projection and writes nothing.  A refused command ends here too.    *)
Report(c) ==
    /\ At(c, "loaded") /\ Goto(c, "idle", GraphRun)
    /\ told' = told \cup work[c].run.applied
    /\ UNCHANGED <<file, requests, imports>>

(* persist_run: write_json opens with truncation, then writes, and the     *)
(* command reports the projection it wrote.                                *)
Truncate(c) ==
    /\ At(c, "staged") /\ Goto(c, "truncated", work[c].run)
    /\ file' = [file EXCEPT !.state = "torn"]
    /\ UNCHANGED <<requests, told, imports>>

Write(c) ==
    /\ At(c, "truncated") /\ Goto(c, "written", work[c].run)
    /\ file' = [state |-> "whole", run |-> work[c].run]
    /\ UNCHANGED <<requests, told, imports>>

Answer(c) ==
    /\ At(c, "written") /\ Goto(c, "idle", GraphRun)
    /\ told' = told \cup work[c].run.applied
    /\ UNCHANGED <<file, requests, imports>>

Kill(c) ==
    /\ ~At(c, "idle") /\ Goto(c, "idle", GraphRun)
    /\ UNCHANGED <<file, requests, told, imports>>

Command(c) ==
    \/ AppendTransition(c) \/ AdvanceRun(c) \/ Prepare(c) \/ SubmitAttempt(c)
    \/ ReconcileAttempt(c) \/ CompleteArtifacts(c) \/ ReviewOutcome(c)

Next == \E c \in Clients :
    \/ Load(c) \/ ImportGraph(c) \/ Command(c) \/ Report(c)
    \/ Truncate(c) \/ Write(c) \/ Answer(c) \/ Kill(c)

Spec == Init /\ [][Next]_vars

----------------------------------------------------------------------------
TypeOK ==
    /\ file \in [state : {"absent", "torn", "whole"}, run : Runs]
    /\ requests \subseteq Items \X (Nat \ {0})
    /\ work \in [Clients -> [at : {"idle", "loaded", "staged", "truncated", "written"}, run : Runs]]
    /\ told \subseteq EventIds
    /\ imports \in Nat

(* Work only starts on accepted inputs: an item that is runnable, running, *)
(* reviewed or accepted, or ever had an attempt, has all its dependencies  *)
(* accepted, in every run any command reads or writes.                     *)
Started(r, i) ==
    r.item[i].status \in {"ready", "active", "review", "accepted"} \/ r.item[i].attempt # 0
DependencyGate(r) == \A i \in Items : Started(r, i) => DependenciesAccepted(r, i)

(* "A run is accepted only when every item has an independent acceptance   *)
(* receipt bound to the exact result": an accepted item has a recorded     *)
(* acceptance that binds its attempt and output, and a recorded success of *)
(* that very attempt with that very output - not of an earlier attempt,    *)
(* nor of none - although an attempt may be reported again and otherwise.  *)
Reported(events, i, n) == {e \in events : e.kind = "result" /\ e.item = i /\ e.result.attempt = n}
BoundAcceptance(r) ==
    \A i \in Items : r.item[i].status = "accepted" =>
        LET s == r.item[i]
        IN  /\ s.review.decision = "accepted" /\ Binds(s, s.review)
            /\ Decided(i, s.review) \in r.applied
            /\ Submitted(i, s.attempt) \in r.applied
            /\ s.digest # 0
            /\ \E e \in Reported(r.applied, i, s.attempt) :
                  e.result.status = "succeeded" /\ e.output = s.digest

(* "Unknown outcomes reconcile before any retry": when another attempt was *)
(* opened, the earlier one has a recorded outcome.                         *)
Settled(events, i, n) ==
    \E e \in Reported(events, i, n) : e.result.status \in {"succeeded", "failed", "cancelled"}
ReconciledFirst(r) ==
    \A e \in r.applied :
        e.kind = "submitted" /\ e.attempt # r.item[e.item].attempt
           => Settled(r.applied, e.item, e.attempt)

SeenRuns == {file.run} \cup {work[c].run : c \in Clients}

Gated       == \A r \in SeenRuns : DependencyGate(r)
Accountable == \A r \in SeenRuns : BoundAcceptance(r)
Reconciled  == \A r \in SeenRuns : ReconciledFirst(r)

(* A request file never names an attempt twice, and no command is refused  *)
(* for reusing one: what prepare-next hands out next is unused.            *)
FreshAttempts == \A r \in SeenRuns : \A i \in Items : Submitted(i, NextAttempt(r, i)) \notin r.applied

(* "Runs are append-only event histories": what a command reported as      *)
(* recorded is in the history whenever it can be read.                     *)
ReportedKept == file.state = "whole" => told \subseteq file.run.applied

(* No command changes the status, attempt, result, output or review of an  *)
(* item that is accepted: late results, repeated receipts, manual          *)
(* transitions and new attempts all leave it alone.                        *)
AcceptedFrozen ==
    [][\A c \in Clients : At(c, "loaded") /\ work'[c].at = "staged" =>
          \A i \in Items : work[c].run.item[i].status = "accepted" =>
              work'[c].run.item[i] = work[c].run.item[i]]_vars
=============================================================================
