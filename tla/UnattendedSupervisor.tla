------------------------ MODULE UnattendedSupervisor ------------------------
(***************************************************************************)
(* run_unattended: one process that drives a run to its outcome through    *)
(* executor, attestor and reviewer processes, may be killed anywhere, and  *)
(* recovers from the files it left when it is launched again.  A blocked   *)
(* run is continued in a child run that reuses what was accepted.          *)
(* The gate, the executor, the attestor, the reviewer and the observer are *)
(* the ones of scripts/unattended_recovery_smoke.py; every execution of an *)
(* executor makes content of its own, and a content stands for its digest. *)
(***************************************************************************)
EXTENDS RunControl

CONSTANTS
    Workspaces,     \* fixtures: imported already or not, failures of the adapters so far, the
                    \* items that some conforming adapter and driver serve, the attempts that
                    \* the autonomy envelope allows; kills is a bound
    Privileged,     \* items that need more than the low authority ceiling
    MaxCycles       \* max_cycles of the manifest

ASSUME SupervisorAssumption ==
    /\ Workspaces \subseteq [imported : BOOLEAN, failures : 0..2, served : SUBSET Items,
                             budget : Nat, kills : Nat]
    /\ Privileged \subseteq Items
    /\ MaxCycles \in Nat \ {0}

VARIABLES
    dispatch,   \* dispatch[r][i]: the files named after the attempt of item i
    draft,      \* draft[i]: the artifact the executor of i writes
    product,    \* product[i]: the artifact the attestor of i materializes
    usage,      \* attempts charged in the usage file
    health,     \* health[i]: the health record of the adapter that serves i
    sup,        \* the supervisor: where it is, and what it holds in memory
    orphans,    \* executors that outlived the supervisor that started them, and what they wrote
    executed,   \* executions so far; the last content made
    stops,      \* kills and failures of the supervisor so far
    setup       \* the fixture, and whether a binding rejection was written

files    == <<dispatch, draft, product>>
supVars  == <<file, dispatch, draft, product, usage, health, sup, orphans, executed, stops, setup>>
others   == <<orphans, executed, stops, setup>>

NoReceiptFile == [decision |-> "none", digest |-> 0]
NoFiles == [result |-> 0, draftSnap |-> 0, evidence |-> 0, attested |-> 0, snap |-> 0,
            receipt |-> NoReceiptFile, lease |-> "none"]
Idle == [at |-> "idle", run |-> "parent", item |-> CHOOSE i \in Items : TRUE,
         mem |-> GraphRun, queue |-> {}, usage |-> 0, cycles |-> 0, held |-> 0]
Healthy == [failures |-> 0, state |-> "healthy"]

(* fixture_files: a workspace with a compiled graph and an envelope and no *)
(* usage.                                                                  *)
SupInit ==
    /\ \E w \in Workspaces :
          /\ file = [r \in RunIds |-> [state |-> IF r = "parent" /\ w.imported THEN "whole" ELSE "absent",
                                       run |-> GraphRun]]
          /\ health = [i \in Items |-> [failures |-> w.failures,
                                         state |-> IF w.failures = 0 THEN "healthy" ELSE "degraded"]]
          /\ setup = [served |-> w.served, budget |-> w.budget, kills |-> w.kills, rejected |-> FALSE]
    /\ dispatch = [r \in RunIds |-> [i \in Items |-> NoFiles]]
    /\ draft = [i \in Items |-> 0] /\ product = [i \in Items |-> 0]
    /\ usage = 0
    /\ sup = Idle
    /\ orphans = {} /\ executed = 0 /\ stops = 0

At(place) == sup.at = place
R == sup.run
I == sup.item
D == dispatch[R][I]
Item == sup.mem.item[I]
Goto(place) == sup' = [sup EXCEPT !.at = place]
Whole(m) == [state |-> "whole", run |-> m]
Put(field, value) == [dispatch EXCEPT ![R][I][field] = value]

----------------------------------------------------------------------------
(* Launching, and the cycles of the main loop.                             *)

(* The compiled graph is imported unless the run has events, and the usage *)
(* is read from its file.                                                  *)
LoadRun(r) ==
    /\ file[r].state \in {"absent", "whole"}
    /\ file' = [file EXCEPT ![r].state = "whole"]
    /\ sup' = [Idle EXCEPT !.at = "cycle", !.run = r, !.mem = file[r].run, !.usage = usage]

(* The harness launches the supervisor again whatever became of the last   *)
(* launch; a launch of a settled run is a duplicate delivery.              *)
Launch ==
    /\ At("idle") /\ ~setup.rejected /\ LoadRun("parent")
    /\ UNCHANGED <<files, usage, health, others>>

(* The graph was changed after the envelope was granted: the source digest *)
(* differs, a rejection is left behind and nothing runs.                   *)
RejectBinding ==
    /\ At("idle") /\ ~setup.rejected /\ file["parent"].state # "torn" /\ file["parent"].run = GraphRun
    /\ file' = [file EXCEPT !["parent"].state = "whole"]
    /\ setup' = [setup EXCEPT !.rejected = TRUE]
    /\ UNCHANGED <<files, usage, health, sup, orphans, executed, stops>>

CancelAll(m) ==
    [m EXCEPT !.item = [i \in Items |-> IF m.item[i].status \in Terminal THEN m.item[i]
                                        ELSE Moved(m.item[i], "cancel")]]

(* Mutant: only a cancellation stops the loop.                             *)
StopsCancelled == {"cancelled"}

(* The control states that end the loop before another cycle.              *)
Stops == {"paused", "cancelled"}

OutOfCycles == sup.cycles >= MaxCycles

(* One cycle begins: it gives up after max_cycles, returns when paused,    *)
(* cancels what is open when cancelled, and finishes a run that has an     *)
(* outcome.  An unreadable control is an error.                            *)
Cancels == ~OutOfCycles /\ ~control[R].torn /\ control[R].state = "cancelled"

Cycle ==
    /\ At("cycle")
    /\ sup' = IF OutOfCycles \/ control[R].torn \/ control[R].state \in Stops THEN Idle
              ELSE IF Outcome(sup.mem) \in Final THEN [sup EXCEPT !.at = "finish"]
              ELSE [sup EXCEPT !.at = "plan", !.cycles = @ + 1]
    /\ file' = IF Cancels THEN [file EXCEPT ![R] = Whole(CancelAll(sup.mem))] ELSE file
    /\ UNCHANGED <<files, usage, health, others>>

(* Mutant: an item that waits for its review is not picked up again.       *)
PickedUpUnlessReviewed == {"ready", "active"}

(* The statuses the main loop works on.                                    *)
PickedUp == {"ready", "active", "review"}

(* ready_events are recorded, and what is ready, active or in review is    *)
(* queued; a run without any such item is an error.                        *)
Plan ==
    /\ At("plan")
    /\ \E m \in Advance(sup.mem) :
          LET runnable == {i \in Items : m.item[i].status \in PickedUp}
          IN  /\ file' = [file EXCEPT ![R] = Whole(m)]
              /\ sup' = IF runnable = {} THEN Idle
                        ELSE [sup EXCEPT !.at = "pick", !.mem = m, !.queue = runnable]
    /\ UNCHANGED <<files, usage, health, others>>

(* run_unattended_item for each queued item; any order stands for the      *)
(* order of the graph.                                                     *)
Pick ==
    /\ At("pick")
    /\ \/ \E i \in sup.queue : sup' = [sup EXCEPT !.at = "open", !.item = i, !.queue = @ \ {i}]
       \/ sup.queue = {} /\ Goto("cycle")
    /\ UNCHANGED <<file, files, usage, health, others>>

(* Mutant: the usage is kept in memory only.                               *)
ChargeLater ==
    /\ At("charge") /\ Goto("pick")
    /\ UNCHANGED <<file, files, usage, health, others>>

(* The usage that the item returned is written after every item.           *)
Charge ==
    /\ At("charge") /\ Goto("pick")
    /\ usage' = sup.usage
    /\ UNCHANGED <<file, files, health, others>>

----------------------------------------------------------------------------
(* One item: submission, permission, execution.                            *)

(* unattended_block: the block is recorded, and the item returns with the  *)
(* attempt charged or not.                                                 *)
BlockItem(charged) ==
    \E m \in Transition(sup.mem, I, "block") :
        /\ file' = [file EXCEPT ![R] = Whole(m)]
        /\ sup' = [sup EXCEPT !.at = "charge", !.mem = m, !.usage = @ + charged]

(* A ready item gets a request file and a submission event; an item that   *)
(* was interrupted keeps its request.  Without an adapter it is blocked.   *)
Open ==
    /\ At("open")
    /\ \/ I \notin setup.served /\ BlockItem(0) /\ UNCHANGED dispatch
       \/ /\ I \in setup.served /\ Item.status = "ready"
          /\ \E m \in Submit(sup.mem, I, NextAttempt(sup.mem, I)) :
                /\ file' = [file EXCEPT ![R] = Whole(m)]
                /\ sup' = [sup EXCEPT !.at = "authorize", !.mem = m]
          /\ dispatch' = [dispatch EXCEPT ![R][I] = NoFiles]
       \/ /\ I \in setup.served /\ Item.status # "ready"
          /\ Goto("authorize") /\ UNCHANGED <<file, dispatch>>
    /\ UNCHANGED <<draft, product, usage, health, others>>

(* MoonGate reads the usage file: an exhausted attempt budget is refused.  *)
GateAccepts == usage + 1 <= setup.budget

(* The operator's ceiling; the gate, unless the work is done already; and  *)
(* the circuit of the adapter, which lets one probe through when open.     *)
CeilingAllows == control[R].ceiling = "low" => I \notin Privileged
Permitted == CeilingAllows /\ (Item.status # "review" => GateAccepts)
CircuitOpen == health[I].failures >= 3
ProbeTaken == CircuitOpen /\ health[I].state = "half-open"

Authorize ==
    /\ At("authorize")
    /\ \/ control[R].torn /\ sup' = Idle /\ UNCHANGED <<file, dispatch, health>>
       \/ /\ ~control[R].torn /\ (~Permitted \/ ProbeTaken)
          /\ BlockItem(0) /\ UNCHANGED <<dispatch, health>>
       \/ /\ ~control[R].torn /\ Permitted /\ ~ProbeTaken
          /\ health' = IF CircuitOpen THEN [health EXCEPT ![I].state = "half-open"] ELSE health
          /\ dispatch' = Put("lease", "authorized")
          /\ Goto("execute") /\ UNCHANGED file
    /\ UNCHANGED <<draft, product, usage, others>>

(* The executor is started unless its result is there already.             *)
Execute ==
    /\ At("execute")
    /\ IF D.result # 0 THEN Goto("observe") /\ UNCHANGED executed
       ELSE Goto("running") /\ executed' = executed + 1
    /\ UNCHANGED <<file, files, usage, health, orphans, stops, setup>>

(* record_adapter_health; three failures stand for three or more.          *)
Recorded(h, success) ==
    LET n == IF success THEN 0 ELSE IF h.failures < 3 THEN h.failures + 1 ELSE 3
    IN  [failures |-> n, state |-> IF n >= 3 THEN "circuit-open" ELSE IF n > 0 THEN "degraded" ELSE "healthy"]

(* fake_adapter: the artifact, then the result that binds its digest.      *)
ExecutorSucceeds ==
    /\ At("running") /\ Goto("observe")
    /\ draft' = [draft EXCEPT ![I] = executed]
    /\ dispatch' = Put("result", executed)
    /\ UNCHANGED <<file, product, usage, health, others>>

(* fake_flaky_adapter: the process fails and leaves no result.             *)
ExecutorFails ==
    /\ At("running") /\ BlockItem(1)
    /\ health' = [health EXCEPT ![I] = Recorded(@, FALSE)]
    /\ UNCHANGED <<files, usage, others>>

(* The result is read and held, and the health is reset.                   *)
Observe ==
    /\ At("observe") /\ sup' = [sup EXCEPT !.at = "verify", !.held = D.result]
    /\ health' = [health EXCEPT ![I] = Recorded(@, TRUE)]
    /\ dispatch' = Put("lease", "result-observed")
    /\ UNCHANGED <<file, draft, product, usage, others>>

(* declared_input_digest: the drafts must be what the result says.         *)
Verify ==
    /\ At("verify")
    /\ IF draft[I] = sup.held THEN Goto("snapshot") /\ UNCHANGED file ELSE BlockItem(1)
    /\ UNCHANGED <<files, usage, health, others>>

(* snapshot_unattended_outputs: an existing snapshot is never replaced; 0  *)
(* stands for the error when it differs from the artifact.                 *)
Snapshot(old, content) == IF old \in {0, content} THEN content ELSE 0

(* The drafts are read once more for their snapshot: a late executor may   *)
(* have written them since they were verified.                             *)
SnapshotDrafts ==
    /\ At("snapshot")
    /\ LET s == Snapshot(D.draftSnap, draft[I])
       IN  IF s = 0 THEN sup' = Idle /\ UNCHANGED dispatch
           ELSE Goto("evidence") /\ dispatch' = Put("draftSnap", s)
    /\ UNCHANGED <<file, draft, product, usage, health, others>>

(* draft-evidence: the digest that was verified, beside the snapshot.      *)
RecordEvidence ==
    /\ At("evidence") /\ Goto("attest")
    /\ dispatch' = Put("evidence", sup.held)
    /\ UNCHANGED <<file, draft, product, usage, health, others>>

----------------------------------------------------------------------------
(* One item: attestation, reconciliation, review.                          *)

(* fake_attestor: materializes the product from the draft, and attests the *)
(* digest that the result names.                                           *)
AttestorAccepts ==
    /\ At("attest") /\ D.attested = 0 /\ Goto("attested")
    /\ product' = [product EXCEPT ![I] = draft[I]]
    /\ dispatch' = Put("attested", D.result)
    /\ UNCHANGED <<file, draft, usage, health, others>>

AttestorFails ==
    /\ At("attest") /\ D.attested = 0 /\ BlockItem(1)
    /\ UNCHANGED <<files, usage, health, others>>

AttestationFound ==
    /\ At("attest") /\ D.attested # 0 /\ Goto("attested")
    /\ UNCHANGED <<file, files, usage, health, others>>

(* Mutant: an attestation is trusted for being there.                      *)
AttestationTrusted == FALSE

(* product_attestation_issues: the attestation names the result that was   *)
(* read in this launch.                                                    *)
AttestationIssues == D.attested # sup.held

(* The product is snapshot and becomes the final result.                   *)
Finalize ==
    /\ At("attested")
    /\ LET s == Snapshot(D.snap, product[I])
       IN  IF AttestationIssues THEN BlockItem(1) /\ UNCHANGED dispatch
           ELSE /\ IF s = 0 THEN sup' = Idle ELSE Goto("reconcile")
                /\ dispatch' = [dispatch EXCEPT ![R][I].lease = "product-attested",
                                                ![R][I].snap = IF s = 0 THEN @ ELSE s]
                /\ UNCHANGED file
    /\ UNCHANGED <<draft, product, usage, health, others>>

(* The success is recorded with the digest of the snapshot, unless an      *)
(* earlier launch recorded it; the review packet binds the same digest.    *)
ReconcileResult ==
    /\ At("reconcile")
    /\ IF Item.status = "review"
       THEN Goto("review") /\ UNCHANGED file
       ELSE \E m \in Reconcile(sup.mem, I, Success(Item.attempt, 0), D.snap) :
              /\ file' = [file EXCEPT ![R] = Whole(m)]
              /\ sup' = [sup EXCEPT !.at = "review", !.mem = m]
    /\ UNCHANGED <<files, usage, health, others>>

(* fake_reviewer accepts, fake_revision_reviewer may reject; the receipt   *)
(* repeats the digest of the packet.                                       *)
ReviewerDecides ==
    /\ At("review") /\ D.receipt = NoReceiptFile /\ Goto("decide")
    /\ \E d \in {"accepted", "rejected"} : dispatch' = Put("receipt", [decision |-> d, digest |-> D.snap])
    /\ UNCHANGED <<file, draft, product, usage, health, others>>

ReviewerFails ==
    /\ At("review") /\ D.receipt = NoReceiptFile /\ BlockItem(1)
    /\ UNCHANGED <<files, usage, health, others>>

ReceiptFound ==
    /\ At("review") /\ D.receipt # NoReceiptFile /\ Goto("decide")
    /\ UNCHANGED <<file, files, usage, health, others>>

(* acceptance_review_event refuses a receipt for another digest.           *)
Verdict == [attempt |-> Item.attempt, result |-> Item.result, digest |-> Item.digest,
            decision |-> D.receipt.decision]

Decide ==
    /\ At("decide")
    /\ IF D.receipt.digest # Item.digest THEN sup' = Idle /\ UNCHANGED file
       ELSE \E m \in Review(sup.mem, I, Verdict) :
              /\ file' = [file EXCEPT ![R] = Whole(m)]
              /\ sup' = [sup EXCEPT !.at = "close", !.mem = m]
    /\ UNCHANGED <<files, usage, health, others>>

(* The last lease, and the usage that the item returns.                    *)
Close ==
    /\ At("close") /\ sup' = [sup EXCEPT !.at = "charge", !.usage = @ + 1]
    /\ dispatch' = Put("lease", "reviewed")
    /\ UNCHANGED <<file, draft, product, usage, health, others>>

----------------------------------------------------------------------------
(* The end of a run, kills and executors that outlive them.                *)

(* revise_run: what the parent accepted is reused, the rest starts again.  *)
Reused(s) == [Registered EXCEPT !.status = "accepted", !.attempt = s.attempt, !.result = s.result,
                                !.attempt_status = "succeeded", !.digest = s.digest, !.review = s.review]
Revised(m) ==
    [item |-> [i \in Items |-> IF m.item[i].status = "accepted" THEN Reused(m.item[i]) ELSE Registered],
     applied |-> {}]

(* The observer proposes a recovery graph for a blocked run: the child run *)
(* is opened, or found as an earlier launch left it, and driven like any.  *)
(* Bound: a child gets no child of its own.                                *)
Continue ==
    /\ At("finish") /\ R = "parent" /\ Outcome(sup.mem) = "blocked"
    /\ file["child"].state # "torn"
    /\ LET child == IF file["child"].state = "absent" THEN Revised(sup.mem) ELSE file["child"].run
       IN  /\ file' = [file EXCEPT !["child"] = Whole(child)]
           /\ sup' = [Idle EXCEPT !.at = "cycle", !.run = "child", !.mem = child, !.usage = usage]
    /\ UNCHANGED <<files, usage, health, others>>

(* The run is reported; the observer may propose nothing, or fail.         *)
Finish ==
    /\ At("finish") /\ sup' = Idle
    /\ UNCHANGED <<file, files, usage, health, others>>

(* The places whose next step writes the events of the run at hand.        *)
Persisting == {"plan", "open", "authorize", "running", "verify", "attest", "attested",
               "reconcile", "review", "decide", "finish"}

(* persist_run: these files are truncated when a kill comes in between.    *)
Persisted ==
    (IF sup.at \in Persisting \/ (At("cycle") /\ Cancels) THEN {R} ELSE {})
      \cup (IF At("finish") /\ R = "parent" /\ Outcome(sup.mem) = "blocked" THEN {"child"} ELSE {})
      \cup (IF At("idle") THEN {"parent"} ELSE {})

(* kill_parent_once: killed at any step, or as a launch imports the graph. *)
(* A running executor stays alive.                                         *)
Kill ==
    /\ ~At("idle") \/ (~setup.rejected /\ file["parent"].state = "absent")
    /\ stops < setup.kills /\ stops' = stops + 1 /\ sup' = Idle
    /\ UNCHANGED file \/ \E r \in Persisted : file' = [file EXCEPT ![r].state = "torn"]
    /\ orphans' = IF At("running")
                  THEN orphans \cup {[run |-> R, item |-> I, attempt |-> Item.attempt,
                                      content |-> executed, wrote |-> "nothing"]}
                  ELSE orphans
    /\ UNCHANGED <<files, usage, health, executed, setup>>

(* fake_lineage_adapter: a delayed executor writes its draft, and then its *)
(* result under the name of its attempt.                                   *)
OrphanDraft(o) ==
    /\ o.wrote = "nothing"
    /\ draft' = [draft EXCEPT ![o.item] = o.content]
    /\ orphans' = (orphans \ {o}) \cup {[o EXCEPT !.wrote = "draft"]}
    /\ UNCHANGED <<file, dispatch, product, usage, health, sup, executed, stops, setup>>

OrphanResult(o) ==
    /\ o.wrote = "draft"
    /\ orphans' = (orphans \ {o}) \cup {[o EXCEPT !.wrote = "result"]}
    /\ dispatch' = IF file[o.run].run.item[o.item].attempt = o.attempt
                   THEN [dispatch EXCEPT ![o.run][o.item].result = o.content] ELSE dispatch
    /\ UNCHANGED <<file, draft, product, usage, health, sup, executed, stops, setup>>

ItemStep ==
    \/ Open \/ Authorize \/ Execute \/ ExecutorSucceeds \/ ExecutorFails
    \/ Observe \/ Verify \/ SnapshotDrafts \/ RecordEvidence
    \/ AttestorAccepts \/ AttestorFails \/ AttestationFound \/ Finalize
    \/ ReconcileResult \/ ReviewerDecides \/ ReviewerFails \/ ReceiptFound \/ Decide \/ Close

Progress == Cycle \/ Plan \/ Pick \/ Charge \/ Continue \/ Finish \/ ItemStep

Supervise ==
    \/ Launch \/ RejectBinding \/ Progress \/ Kill
    \/ \E o \in orphans : OrphanDraft(o) \/ OrphanResult(o)

----------------------------------------------------------------------------
(* Properties.                                                             *)

SupTypeOK ==
    /\ dispatch \in [RunIds -> [Items ->
          [result : Nat, draftSnap : Nat, evidence : Nat, attested : Nat, snap : Nat,
           receipt : [decision : {"none", "accepted", "rejected"}, digest : Nat],
           lease : {"none", "authorized", "result-observed", "product-attested", "reviewed"}]]]
    /\ draft \in [Items -> Nat] /\ product \in [Items -> Nat]
    /\ usage \in Nat /\ executed \in Nat /\ stops \in 0..setup.kills
    /\ health \in [Items -> [failures : 0..3, state : {"healthy", "degraded", "half-open", "circuit-open"}]]
    /\ sup.run \in RunIds /\ sup.item \in Items /\ sup.mem \in Runs /\ sup.queue \subseteq Items
    /\ sup.cycles \in 0..MaxCycles /\ sup.held \in Nat

(* Work that the child run took over from the parent without an attempt.   *)
Inherited(r, i) == r = "child" /\ file[r].run.item[i].attempt_count = 0

(* What an acceptance rests on, however often the supervisor was killed    *)
(* and whatever a late executor wrote: the product that was accepted is    *)
(* the one that was snapshot, claimed and shown to the reviewer, and the   *)
(* attestation is about the drafts that were verified in the same launch.  *)
(* The snapshot of the drafts holds what was verified, or what an executor *)
(* wrote late that outlived its supervisor, and nothing else.  Inherited   *)
(* work was accepted in the parent.  A lease names no stage without its    *)
(* evidence.                                                               *)
Late(i) == {o.content : o \in {p \in orphans : p.item = i}}
Evidenced(s, d) ==
    /\ s.digest # 0 /\ s.digest = d.snap
    /\ d.receipt = [decision |-> "accepted", digest |-> s.digest]
    /\ d.attested # 0 /\ d.attested = d.evidence
LeaseHolds(d, s) ==
    CASE d.lease = "result-observed"  -> d.result # 0
      [] d.lease = "product-attested" -> d.attested = d.evidence
      [] d.lease = "reviewed"         -> d.receipt.decision = s.review.decision
      [] OTHER                        -> TRUE
EvidenceBound ==
    \A r \in RunIds, i \in Items :
        LET s == file[r].run.item[i]
            d == dispatch[r][i]
        IN  /\ s.status = "accepted" =>
                  IF Inherited(r, i) THEN /\ file["parent"].run.item[i].status = "accepted"
                                          /\ file["parent"].run.item[i].review = s.review
                  ELSE Evidenced(s, d) /\ d.draftSnap \in {d.evidence} \cup Late(i)
            /\ LeaseHolds(d, s)

(* The attempts an executor ran for exceed the budget of the envelope by   *)
(* no more than the kills: an execution goes uncharged only when the       *)
(* supervisor was killed before it could write the usage.                  *)
ExecutionsWithinBudget == executed <= setup.budget + stops

(* A supervisor that is launched again after every kill brings the run to  *)
(* an outcome, unless it was rejected, stopped by its operator, left with  *)
(* an unreadable file, or kept from it by an artifact that changed under   *)
(* its snapshot.                                                           *)
Overwritten ==
    \E r \in RunIds, i \in Items :
        \/ dispatch[r][i].draftSnap \notin {0, draft[i]}
        \/ dispatch[r][i].snap \notin {0, product[i]}
Settled ==
    \/ setup.rejected \/ Overwritten
    \/ file["parent"].state = "torn" \/ file["child"].state = "torn"
    \/ control["parent"].torn \/ control["parent"].state # "running"
    \/ Outcome(file["parent"].run) \in Final
Settles == <>[]Settled

(* A pause that stays brings the supervisor of the run to rest before its  *)
(* next cycle, whatever it was doing when the control was written.         *)
PauseQuiesces ==
    <>[](control["parent"].state = "paused" /\ ~control["parent"].torn)
      => <>[](sup.run = "parent" => sup.at \in {"idle", "cycle"})
=============================================================================
