----------------------------- MODULE RunKernel -----------------------------
(***************************************************************************)
(* The event algebra of a run: engine.mbt, and the functions of wire.mbt,  *)
(* adapter.mbt, director.mbt and acceptance_review.mbt that make events.   *)
(* A run is represented by its projection and by the identities of the     *)
(* events applied so far.  An operator that applies a command to a run     *)
(* yields the set of runs it may lead to: empty when the code refuses it.  *)
(* Attempt n of an item stands for its request, idempotency key and input; *)
(* digests are numbers, and 0 is the empty string, as is "none" where a    *)
(* status is missing.                                                      *)
(***************************************************************************)
EXTENDS Integers, FiniteSets

CONSTANTS
    Items,          \* the work items of the graph
    DependsOn       \* DependsOn[i]: the items that item i depends on

(* wire.mbt refuses a graph without items.                                 *)
ASSUME RunAssumption == Items # {} /\ DependsOn \in [Items -> SUBSET Items]

Terminal == {"accepted", "failed", "cancelled", "superseded"}
Statuses == {"proposed", "ready", "active", "waiting", "blocked", "review"} \cup Terminal

(* AdapterAttemptStatus: what an adapter may report, any number of times   *)
(* and in any order.  "submitted" is reported like "running".              *)
ReportStatuses == {"running", "unknown", "succeeded", "failed", "cancelled"}
Unresolved == {"submitted", "running", "unknown"}

(* The result_id of a report.  An adapter may make several reports of one  *)
(* attempt, also with the same status, each with an identity of its own;   *)
(* an identity that was used with other contents is refused, so distinct   *)
(* contents have distinct identities.                                      *)
Result   == [attempt : Nat, status : ReportStatuses \cup {"none"}, id : Nat]
NoResult == [attempt |-> 0, status |-> "none", id |-> 0]
Success(n, x) == [attempt |-> n, status |-> "succeeded", id |-> x]

(* An acceptance receipt binds the identities the reviewer looked at.      *)
Receipt == [attempt : Nat, result : Result, digest : Nat, decision : {"accepted", "rejected", "none"}]
NoReceipt == [attempt |-> 0, result |-> NoResult, digest |-> 0, decision |-> "none"]

(* RuntimeItem: the fields the commands read.                              *)
RuntimeItem ==
    [status : Statuses, attempt_count : Nat, attempt : Nat, result : Result,
     attempt_status : ReportStatuses \cup {"submitted", "none"}, digest : Nat, review : Receipt]

Registered ==
    [status |-> "proposed", attempt_count |-> 0, attempt |-> 0, result |-> NoResult,
     attempt_status |-> "none", digest |-> 0, review |-> NoReceipt]

(* The identities of the events that are applied at most once.             *)
Submitted(i, n) == [kind |-> "submitted", item |-> i, attempt |-> n]
Imported(i, R, d) == [kind |-> "result", item |-> i, result |-> R, output |-> d]
Decided(i, v)   == [kind |-> "review", item |-> i, receipt |-> v]
EventIds ==
    [kind : {"submitted"}, item : Items, attempt : Nat]
      \cup [kind : {"result"}, item : Items, result : Result, output : Nat]
      \cup [kind : {"review"}, item : Items, receipt : Receipt]

Runs == [item : [Items -> RuntimeItem], applied : SUBSET EventIds]

(* events_from_work_graph: RunCreated, one ItemRegistered per item, and    *)
(* ItemReady for the items without dependencies.  The last are left        *)
(* proposed here: Advance makes them ready, and may be delayed.            *)
GraphRun == [item |-> [i \in Items |-> Registered], applied |-> {}]

----------------------------------------------------------------------------
(* RunProjection::unaccepted_dependency is None.                           *)
DependenciesAccepted(r, i) == \A d \in DependsOn[i] : r.item[d].status = "accepted"

(* require_transition: the statuses each operator transition starts from,  *)
(* and the status it leads to.                                             *)
OpenBefore == {"proposed", "ready", "active", "waiting", "blocked", "review"}
Transitions == {"ready", "start", "waiting", "block", "review", "fail", "cancel", "supersede"}
AllowedFrom ==
    [ready |-> {"proposed", "waiting", "blocked"}, start |-> {"ready"},
     waiting |-> {"proposed", "ready", "active", "blocked"}, block |-> OpenBefore \ {"blocked"},
     review |-> {"active"}, fail |-> OpenBefore \ {"proposed"},
     cancel |-> OpenBefore, supersede |-> OpenBefore]
Becomes ==
    [ready |-> "ready", start |-> "active", waiting |-> "waiting", block |-> "blocked",
     review |-> "review", fail |-> "failed", cancel |-> "cancelled", supersede |-> "superseded"]

(* append_transition and the event arms it reaches.                        *)
Moved(s, t) ==
    [s EXCEPT !.status = Becomes[t], !.attempt_count = IF t = "start" THEN @ + 1 ELSE @]

Transition(r, i, t) ==
    IF r.item[i].status \in AllowedFrom[t] /\ (t = "ready" => DependenciesAccepted(r, i))
    THEN {[item |-> [r.item EXCEPT ![i] = Moved(@, t)], applied |-> r.applied]}
    ELSE {}

(* Mutants: ready_events ignores the dependencies, or the open attempt.    *)
ProposedReadyEarly(r, i) ==
    /\ r.item[i].attempt_status \notin Unresolved
    /\ r.item[i].status \in {"proposed", "waiting", "blocked"}
ProposedReadyUnresolved(r, i) ==
    /\ r.item[i].status \in {"proposed", "waiting", "blocked"}
    /\ DependenciesAccepted(r, i)

(* ready_events: unresolved attempts keep their reconciliation path.       *)
ProposedReady(r, i) ==
    /\ r.item[i].attempt_status \notin Unresolved
    /\ r.item[i].status \in {"proposed", "waiting", "blocked"}
    /\ DependenciesAccepted(r, i)

Advance(r) ==
    {[item |-> [i \in Items |-> IF ProposedReady(r, i) THEN Moved(r.item[i], "ready") ELSE r.item[i]],
      applied |-> r.applied]}

(* Mutants: the counter is not advanced; the earlier result is kept.       *)
WithAttemptUncounted(s, n) ==
    [s EXCEPT !.status = "active", !.attempt = n,
              !.result = NoResult, !.attempt_status = "submitted", !.digest = 0]
WithAttemptKept(s, n) ==
    [s EXCEPT !.status = "active", !.attempt_count = @ + 1, !.attempt = n,
              !.attempt_status = "submitted"]

(* The AttemptSubmitted arm.                                               *)
WithAttempt(s, n) ==
    [s EXCEPT !.status = "active", !.attempt_count = @ + 1, !.attempt = n,
              !.result = NoResult, !.attempt_status = "submitted", !.digest = 0]

(* adapter_submission_event for attempt n: the current request is a repeat,*)
(* an event identity that is applied already is not applied again.         *)
Submit(r, i, n) ==
    IF n # r.item[i].attempt /\ r.item[i].status = "ready" /\ Submitted(i, n) \notin r.applied
    THEN {[item |-> [r.item EXCEPT ![i] = WithAttempt(@, n)],
           applied |-> r.applied \cup {Submitted(i, n)}]}
    ELSE {}

(* director_request_for_item                                               *)
NextAttempt(r, i) == r.item[i].attempt_count + 1

(* prepare_next for the ready items S that an adapter was selected for.    *)
(* An item whose request already has the next number is taken for a repeat *)
(* and stays ready; any other reused identity makes the replay fail.       *)
Runnable(r) == {i \in Items : r.item[i].status = "ready"}
Opened(r, S) == {i \in S : r.item[i].attempt # NextAttempt(r, i)}
PrepareNext(r, S) ==
    IF \A i \in Opened(r, S) : Submitted(i, NextAttempt(r, i)) \notin r.applied
    THEN {[item |-> [i \in Items |-> IF i \in Opened(r, S) THEN WithAttempt(r.item[i], NextAttempt(r, i))
                                     ELSE r.item[i]],
           applied |-> r.applied \cup {Submitted(i, NextAttempt(r, i)) : i \in Opened(r, S)}]}
    ELSE {}

(* The AttemptReconciled arm: what each status makes of the item.          *)
(* Mutant: an unknown outcome is used as a status of the item.             *)
AfterReportUnknown ==
    [running |-> "active", unknown |-> "unknown", succeeded |-> "review",
     failed |-> "failed", cancelled |-> "cancelled"]

AfterReport ==
    [running |-> "active", unknown |-> "blocked", succeeded |-> "review",
     failed |-> "failed", cancelled |-> "cancelled"]

WithResult(s, R, d) ==
    [s EXCEPT !.status = AfterReport[R.status], !.result = R, !.attempt_status = R.status,
              !.digest = IF R.status = "succeeded" THEN d ELSE @]

(* The result with this identity is applied already.                       *)
ImportedBefore(r, i, R) == \E e \in r.applied : e.kind = "result" /\ e.item = i /\ e.result = R

Import(r, i, R, d) ==
    {[item |-> [r.item EXCEPT ![i] = WithResult(@, R, d)], applied |-> r.applied \cup {Imported(i, R, d)}]}

(* Mutant: a late result is imported whatever the status of the item.      *)
ReconcileLate(r, i, R, d) ==
    IF /\ R.attempt = r.item[i].attempt /\ R.attempt # 0 /\ ~ImportedBefore(r, i, R)
       /\ R.status = "succeeded" => d # 0
    THEN Import(r, i, R, d) ELSE {}

(* adapter_reconciliation_event and the arm, for a result with output      *)
(* digest d: it must belong to the active attempt, a success has a digest, *)
(* and a result that is applied already changes nothing.                   *)
Reconcile(r, i, R, d) ==
    IF /\ R.attempt = r.item[i].attempt /\ R.attempt # 0 /\ ~ImportedBefore(r, i, R)
       /\ r.item[i].status \in {"active", "waiting", "blocked"}
       /\ R.status = "succeeded" => d # 0
    THEN Import(r, i, R, d) ELSE {}

(* acceptance_review_event and the ItemAccepted and ItemBlocked arms: the  *)
(* receipt must bind the result, attempt and output the item shows, and    *)
(* none of them may be missing from an acceptance.                         *)
Binds(s, v) == v.attempt = s.attempt /\ v.result = s.result /\ v.digest = s.digest
Complete(v) == v.attempt # 0 /\ v.result # NoResult /\ v.digest # 0

WithReview(s, v) ==
    [s EXCEPT !.status = IF v.decision = "accepted" THEN "accepted" ELSE "blocked", !.review = v]

Review(r, i, v) ==
    IF /\ Binds(r.item[i], v) /\ r.item[i].status = "review"
       /\ v # r.item[i].review /\ Decided(i, v) \notin r.applied
       /\ v.decision \in {"accepted", "rejected"}
       /\ v.decision = "accepted" => Complete(v)
    THEN {[item |-> [r.item EXCEPT ![i] = WithReview(@, v)],
           applied |-> r.applied \cup {Decided(i, v)}]}
    ELSE {}
=============================================================================
