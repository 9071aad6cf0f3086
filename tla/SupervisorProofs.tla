-------------------------- MODULE SupervisorProofs --------------------------
(***************************************************************************)
(* What holds of the unattended supervisor for any graph, workspaces and   *)
(* number of kills: what an acceptance rests on, and how many executions   *)
(* the budget allows.  The argument follows one item through its places:   *)
(* what the supervisor found or wrote in the files of an attempt is still  *)
(* there when it comes back after a kill, whatever a late executor wrote.  *)
(* OperationsProofs lifts the invariant to the specification.              *)
(***************************************************************************)
EXTENDS UnattendedSupervisor, TLAPS

(***************************************************************************)
(* Types.                                                                  *)
(***************************************************************************)
Receipts == [decision : {"none", "accepted", "rejected"}, digest : Nat]
Leases == {"none", "authorized", "result-observed", "product-attested", "reviewed"}
FileSets == [result : Nat, draftSnap : Nat, evidence : Nat, attested : Nat, snap : Nat,
             receipt : Receipts, lease : Leases]
SupPlaces == {"idle", "cycle", "plan", "pick", "open", "authorize", "execute", "running",
              "observe", "verify", "snapshot", "evidence", "attest", "attested", "reconcile",
              "review", "decide", "close", "charge", "finish"}
SupStates == [at : SupPlaces, run : RunIds, item : Items, mem : Runs, queue : SUBSET Items,
              usage : Nat, cycles : 0..MaxCycles, held : Nat]
RunFiles == [state : {"absent", "torn", "whole"}, run : Runs]
HealthRecords == [failures : 0..3, state : {"healthy", "degraded", "half-open", "circuit-open"}]
Setups == [served : SUBSET Items, budget : Nat, kills : Nat, rejected : BOOLEAN]
Orphans == [run : RunIds, item : Items, attempt : Nat, content : Nat \ {0},
            wrote : {"nothing", "draft", "result"}]

SupTypes ==
    /\ file \in [RunIds -> RunFiles]
    /\ dispatch \in [RunIds -> [Items -> FileSets]]
    /\ draft \in [Items -> Nat] /\ product \in [Items -> Nat]
    /\ usage \in Nat /\ executed \in Nat
    /\ setup \in Setups /\ stops \in 0..setup.kills
    /\ health \in [Items -> HealthRecords]
    /\ sup \in SupStates
    /\ orphans \subseteq Orphans

(***************************************************************************)
(* What is known of an item of run r with state s and files d, when p is   *)
(* the item of the parent run: the property, and what it takes to get      *)
(* there.  An item in review has its product and an attestation; a receipt *)
(* in its files is one for this attempt; snapshots follow a result; an     *)
(* attempt that was not made in the child run was accepted in the parent.  *)
(***************************************************************************)
TakenOver(r, s) == r = "child" /\ s.attempt_count = 0

Filed(s, d) == d.result # 0 /\ s.digest # 0 /\ s.digest = d.snap /\ d.attested # 0

Justified(r, s, d, p) ==
    /\ s.status = "accepted" =>
          IF TakenOver(r, s) THEN p.status = "accepted" /\ p.review = s.review
          ELSE Evidenced(s, d)
    /\ LeaseHolds(d, s)
    /\ s.status = "review" =>
          Filed(s, d) /\ (d.receipt # NoReceiptFile => d.receipt.digest = s.digest)
    /\ s.status = "active" => d.receipt = NoReceiptFile
    /\ d.result = 0 => d.draftSnap = 0 /\ d.snap = 0
    /\ TakenOver(r, s) /\ s.attempt # 0 => s.status = "accepted"

ItemOf(r, i) == file[r].run.item[i]
AllJustified ==
    \A r \in RunIds, i \in Items :
        Justified(r, ItemOf(r, i), dispatch[r][i], ItemOf("parent", i))

(* A snapshot is one of a draft, an attestation one of a product.          *)
Material ==
    \A r \in RunIds, i \in Items :
        /\ dispatch[r][i].draftSnap # 0 => draft[i] # 0
        /\ dispatch[r][i].attested # 0 => product[i] # 0

(* No executor has run in a child run that was not opened yet.             *)
ChildUntouched ==
    file["child"].state = "absent" => \A i \in Items : dispatch["child"][i].lease = "none"

(* The snapshot of the drafts holds what was verified, or what an executor *)
(* wrote that outlived its supervisor; so do the drafts between the two.   *)
LateOf(S, i) == {o.content : o \in {p \in S : p.item = i}}

Accounted ==
    /\ \A r \in RunIds, i \in Items :
          dispatch[r][i].evidence # 0 =>
             dispatch[r][i].draftSnap \in {dispatch[r][i].evidence} \cup LateOf(orphans, i)
    /\ sup.at = "snapshot" => draft[sup.item] \in {sup.held} \cup LateOf(orphans, sup.item)
    /\ sup.at = "evidence" =>
          dispatch[sup.run][sup.item].draftSnap \in {sup.held} \cup LateOf(orphans, sup.item)

(***************************************************************************)
(* What the supervisor holds in memory is what its files say, and where it *)
(* is tells what the item at hand has got.                                 *)
(***************************************************************************)
Launched == {"execute", "running", "observe", "verify", "snapshot", "evidence", "attest", "attested",
             "reconcile", "review", "decide"}
Observed == {"verify", "snapshot", "evidence", "attest", "attested"}
OnItem == Launched \cup {"open", "authorize", "close", "charge"}
Executing == (Launched \ {"execute"}) \cup {"close"}

MemoryCurrent ==
    sup.at # "idle" =>
        /\ sup.mem = file[R].run /\ file[R].state = "whole"
        /\ sup.at # "charge" => sup.usage = usage

QueueOpen ==
    /\ \A i \in sup.queue : sup.mem.item[i].status \in PickedUp
    /\ sup.at \in OnItem => I \notin sup.queue

(* The item at hand has state s and files d, and h was read of its result. *)
Stage(at, s, d, h) ==
    /\ at = "open" => s.status \in PickedUp
    /\ at \in Observed \cup {"authorize", "execute", "running", "observe", "reconcile"}
          => s.status \in {"active", "review"}
    /\ at \in {"review", "decide"} => s.status = "review"
    /\ at = "decide" => d.receipt # NoReceiptFile
    /\ at \in Launched => d.lease # "reviewed"
    /\ at = "running" => d.draftSnap = 0 /\ d.snap = 0
    /\ at \in Observed \cup {"observe", "reconcile"} => d.result # 0
    /\ at \in Observed => d.lease = "result-observed" /\ h # 0
    /\ at \in {"evidence", "attest", "attested"} => d.draftSnap # 0
    /\ at \in {"attest", "attested"} => d.evidence = h
    /\ at = "attested" => d.attested # 0
    /\ at = "reconcile" => d.snap # 0
    /\ at \in {"reconcile", "review", "decide"} => d.attested # 0 /\ d.attested = d.evidence
    /\ at = "close" => d.receipt.decision = s.review.decision

(* Every execution is charged, or there is a stop for it: except the one   *)
(* at hand, which is the first of its attempt.  x executions, u attempts   *)
(* charged in the file and m in memory, k stops, a budget of b.            *)
Budgeted(at, s, d, x, u, m, k, b) ==
    /\ x <= b + k
    /\ at \notin Executing \cup {"charge"} => x <= u + k
    /\ at \in Executing => x <= u + 1 + k
    /\ at = "running" => x # 0
    /\ at \in {"observe", "verify", "snapshot"} /\ (d.draftSnap # 0 \/ d.snap # 0) => x <= u + k
    /\ at \in {"evidence", "attest", "attested"} /\ d.snap # 0 => x <= u + k
    /\ at = "charge" => x <= m + k /\ m <= u + 1
    /\ at = "execute" => s.status = "review" \/ u + 1 <= b

SupervisorInv ==
    /\ SupTypes /\ AllJustified /\ Material /\ ChildUntouched
    /\ MemoryCurrent /\ QueueOpen
    /\ Stage(sup.at, ItemOf(R, I), D, sup.held)
    /\ Budgeted(sup.at, ItemOf(R, I), D, executed, usage, sup.usage, stops, setup.budget)

Supervised == SupervisorInv /\ Accounted

(***************************************************************************)
(* The events of a run, item by item.                                      *)
(***************************************************************************)

(* What each event makes of an item.                                       *)
LEMMA MovedItem ==
  ASSUME NEW s \in RuntimeItem, NEW t \in {"ready", "block", "cancel"}
  PROVE  /\ Moved(s, t) \in RuntimeItem /\ Moved(s, t).status = Becomes[t]
         /\ Moved(s, t).attempt_count = s.attempt_count /\ Moved(s, t).attempt = s.attempt
         /\ Moved(s, t).review = s.review
<1>1. Becomes[t] \in Statuses
  BY DEF Becomes, Statuses, Terminal
<1> QED BY <1>1 DEF Moved, RuntimeItem

LEMMA SubmittedItem ==
  ASSUME NEW s \in RuntimeItem, NEW n \in Nat
  PROVE  /\ WithAttempt(s, n) \in RuntimeItem /\ WithAttempt(s, n).status = "active"
         /\ WithAttempt(s, n).attempt_count = s.attempt_count + 1
<1>1. "active" \in Statuses /\ NoResult \in Result /\ s.attempt_count + 1 \in Nat
  BY DEF Statuses, NoResult, Result, RuntimeItem
<1> QED BY <1>1 DEF WithAttempt, RuntimeItem

LEMMA ReviewedItem ==
  ASSUME NEW s \in RuntimeItem, NEW v \in Receipt
  PROVE  /\ WithReview(s, v) \in RuntimeItem /\ WithReview(s, v).review = v
         /\ WithReview(s, v).status = IF v.decision = "accepted" THEN "accepted" ELSE "blocked"
         /\ WithReview(s, v).attempt_count = s.attempt_count
         /\ WithReview(s, v).attempt = s.attempt /\ WithReview(s, v).digest = s.digest
<1>1. "accepted" \in Statuses /\ "blocked" \in Statuses
  BY DEF Statuses, Terminal
<1> QED BY <1>1 DEF WithReview, RuntimeItem

LEMMA ReportedItem ==
  ASSUME NEW s \in RuntimeItem, NEW W \in Result, NEW n \in Nat, W.status \in ReportStatuses
  PROVE  LET q == WithResult(s, W, n)
         IN  /\ q \in RuntimeItem /\ q.status = AfterReport[W.status] /\ q.review = s.review
             /\ q.attempt_count = s.attempt_count /\ q.attempt = s.attempt
             /\ q.attempt_status = W.status /\ q.result = W
             /\ W.status = "succeeded" => q.digest = n
<1>1. AfterReport[W.status] \in Statuses /\ W.status \in ReportStatuses \cup {"submitted", "none"}
  BY DEF AfterReport, Statuses, ReportStatuses, Terminal
<1>2. (IF W.status = "succeeded" THEN n ELSE s.digest) \in Nat
  BY DEF RuntimeItem
<1> QED BY <1>1, <1>2 DEF WithResult, RuntimeItem

(* A block, a submission, a reconciled success and a review change the     *)
(* item they name, and only that.                                          *)
LEMMA BlockIs ==
  ASSUME NEW m \in Runs, NEW i \in Items, NEW q \in Transition(m, i, "block")
  PROVE  /\ q \in Runs /\ q.item[i] = Moved(m.item[i], "block")
         /\ \A j \in Items \ {i} : q.item[j] = m.item[j]
         /\ m.item[i].status # "accepted"
<1>1. /\ q = [item |-> [m.item EXCEPT ![i] = Moved(m.item[i], "block")], applied |-> m.applied]
      /\ m.item[i].status \in OpenBefore
  BY DEF Transition, AllowedFrom
<1>2. m.item \in [Items -> RuntimeItem] /\ m.applied \in SUBSET EventIds
  BY DEF Runs
<1>4. Moved(m.item[i], "block") \in RuntimeItem
  BY <1>2, MovedItem
<1>5. m.item[i].status # "accepted"
  BY <1>1 DEF OpenBefore
<1> QED BY <1>1, <1>2, <1>4, <1>5 DEF Runs

LEMMA SubmitIs ==
  ASSUME NEW m \in Runs, NEW i \in Items, NEW n \in Nat, NEW q \in Submit(m, i, n)
  PROVE  /\ q \in Runs /\ q.item[i] = WithAttempt(m.item[i], n)
         /\ \A j \in Items \ {i} : q.item[j] = m.item[j]
<1>1. q = [item |-> [m.item EXCEPT ![i] = WithAttempt(m.item[i], n)],
           applied |-> m.applied \cup {Submitted(i, n)}]
  BY DEF Submit
<1>2. m.item \in [Items -> RuntimeItem] /\ m.applied \in SUBSET EventIds
  BY DEF Runs
<1>3. WithAttempt(m.item[i], n) \in RuntimeItem /\ {Submitted(i, n)} \in SUBSET EventIds
  BY <1>2, SubmittedItem DEF Submitted, EventIds
<1> QED BY <1>1, <1>2, <1>3 DEF Runs

LEMMA ReconcileIs ==
  ASSUME NEW m \in Runs, NEW i \in Items, NEW W \in Result, NEW n \in Nat,
         W.status \in ReportStatuses, NEW q \in Reconcile(m, i, W, n)
  PROVE  /\ q \in Runs /\ q.item[i] = WithResult(m.item[i], W, n)
         /\ \A j \in Items \ {i} : q.item[j] = m.item[j]
         /\ W.attempt = m.item[i].attempt /\ W.attempt # 0
         /\ m.item[i].status \in {"active", "waiting", "blocked"}
         /\ W.status = "succeeded" => n # 0
<1>1. /\ q = [item |-> [m.item EXCEPT ![i] = WithResult(m.item[i], W, n)],
              applied |-> m.applied \cup {Imported(i, W, n)}]
      /\ W.attempt = m.item[i].attempt /\ W.attempt # 0
      /\ m.item[i].status \in {"active", "waiting", "blocked"}
      /\ W.status = "succeeded" => n # 0
  BY DEF Reconcile, Import
<1>2. m.item \in [Items -> RuntimeItem] /\ m.applied \in SUBSET EventIds
  BY DEF Runs
<1>3. m.item[i] \in RuntimeItem
  BY <1>2
<1>4. WithResult(m.item[i], W, n) \in RuntimeItem
  BY <1>3, ReportedItem
<1>5. {Imported(i, W, n)} \in SUBSET EventIds
  BY DEF Imported, EventIds
<1> QED BY <1>1, <1>2, <1>4, <1>5 DEF Runs

LEMMA ReviewIs ==
  ASSUME NEW m \in Runs, NEW i \in Items, NEW v \in Receipt, NEW q \in Review(m, i, v)
  PROVE  /\ q \in Runs /\ q.item[i] = WithReview(m.item[i], v)
         /\ \A j \in Items \ {i} : q.item[j] = m.item[j]
         /\ v.decision = "accepted" => v.attempt # 0
         /\ v.decision \in {"accepted", "rejected"}
<1>1. /\ q = [item |-> [m.item EXCEPT ![i] = WithReview(m.item[i], v)],
              applied |-> m.applied \cup {Decided(i, v)}]
      /\ v.decision = "accepted" => v.attempt # 0
      /\ v.decision \in {"accepted", "rejected"}
  BY DEF Review, Complete
<1>2. m.item \in [Items -> RuntimeItem] /\ m.applied \in SUBSET EventIds
  BY DEF Runs
<1>3. {Decided(i, v)} \in SUBSET EventIds
  BY DEF Decided, EventIds
<1>4. WithReview(m.item[i], v) \in RuntimeItem
  BY <1>2, ReviewedItem
<1> QED BY <1>1, <1>2, <1>3, <1>4 DEF Runs

(* ready_events and a cancellation move some open items.                   *)
LEMMA AdvanceIs ==
  ASSUME NEW m \in Runs, NEW q \in Advance(m)
  PROVE  /\ q \in Runs
         /\ \A i \in Items : \/ q.item[i] = m.item[i]
                             \/ m.item[i].status # "accepted" /\ q.item[i] = Moved(m.item[i], "ready")
<1>1. /\ q = [item |-> [i \in Items |-> IF ProposedReady(m, i) THEN Moved(m.item[i], "ready")
                                        ELSE m.item[i]],
              applied |-> m.applied]
      /\ \A i \in Items : ProposedReady(m, i) => m.item[i].status # "accepted"
  BY DEF Advance, ProposedReady
<1>2. m.item \in [Items -> RuntimeItem] /\ m.applied \in SUBSET EventIds
  BY DEF Runs
<1>3. \A i \in Items : Moved(m.item[i], "ready") \in RuntimeItem
  BY <1>2, MovedItem
<1>4. q.item \in [Items -> RuntimeItem] /\ q.applied \in SUBSET EventIds
  BY <1>1, <1>2, <1>3
<1>5. q \in Runs
  BY <1>1, <1>4 DEF Runs
<1>6. \A i \in Items : q.item[i] = IF ProposedReady(m, i) THEN Moved(m.item[i], "ready") ELSE m.item[i]
  BY <1>1
<1> QED BY <1>1, <1>5, <1>6

LEMMA CancelIs ==
  ASSUME NEW m \in Runs
  PROVE  /\ CancelAll(m) \in Runs
         /\ \A i \in Items : \/ CancelAll(m).item[i] = m.item[i]
                             \/ /\ m.item[i].status # "accepted"
                                /\ CancelAll(m).item[i] = Moved(m.item[i], "cancel")
<1> DEFINE f == [i \in Items |-> IF m.item[i].status \in Terminal THEN m.item[i]
                                 ELSE Moved(m.item[i], "cancel")]
<1>1. m.item \in [Items -> RuntimeItem] /\ m.applied \in SUBSET EventIds
  BY DEF Runs
<1>2. \A i \in Items : Moved(m.item[i], "cancel") \in RuntimeItem
  BY <1>1, MovedItem
<1>3. f \in [Items -> RuntimeItem]
  BY <1>1, <1>2
<1>4. \A i \in Items : \/ f[i] = m.item[i]
                       \/ m.item[i].status # "accepted" /\ f[i] = Moved(m.item[i], "cancel")
  BY DEF Terminal
<1>5. CancelAll(m) = [m EXCEPT !.item = f]
  BY DEF CancelAll
<1> HIDE DEF f
<1>6. CancelAll(m) \in Runs /\ CancelAll(m).item = f
  BY <1>1, <1>3, <1>5 DEF Runs
<1> QED BY <1>4, <1>6

(***************************************************************************)
(* What is known of an item survives its events.                           *)
(***************************************************************************)

(* An acceptance in the parent does not change.                            *)
LEMMA JustifiedParent ==
  ASSUME NEW r, NEW s, NEW d, NEW p, NEW q, p.status = "accepted" => q = p, Justified(r, s, d, p)
  PROVE  Justified(r, s, d, q)
BY DEF Justified

(* The parent matters in a child only.                                     *)
LEMMA JustifiedAlone ==
  ASSUME NEW s, NEW d, NEW p, NEW q, Justified("parent", s, d, p)
  PROVE  Justified("parent", s, d, q)
BY DEF Justified, TakenOver

(* An open item is readied, blocked or cancelled.                          *)
LEMMA JustifiedMoved ==
  ASSUME NEW r, NEW s \in RuntimeItem, NEW d, NEW p, NEW t \in {"ready", "block", "cancel"},
         s.status # "accepted", Justified(r, s, d, p)
  PROVE  Justified(r, Moved(s, t), d, p)
<1>1. /\ Moved(s, t).status \in {"ready", "blocked", "cancelled"}
      /\ Moved(s, t).attempt_count = s.attempt_count /\ Moved(s, t).attempt = s.attempt
      /\ Moved(s, t).review = s.review
  BY MovedItem DEF Becomes
<1> QED BY <1>1 DEF Justified, TakenOver, LeaseHolds

(* A new attempt has no files yet.                                         *)
LEMMA JustifiedSubmitted ==
  ASSUME NEW r, NEW s \in RuntimeItem, NEW p, NEW n \in Nat
  PROVE  Justified(r, WithAttempt(s, n), NoFiles, p)
<1>1. WithAttempt(s, n).status = "active" /\ WithAttempt(s, n).attempt_count # 0
  <2>1. s.attempt_count \in Nat
    BY DEF RuntimeItem
  <2>2. WithAttempt(s, n).status = "active" /\ WithAttempt(s, n).attempt_count = s.attempt_count + 1
    BY SubmittedItem
  <2> QED BY <2>1, <2>2
<1> QED BY <1>1 DEF Justified, TakenOver, LeaseHolds, NoFiles, NoReceiptFile

(* A success is recorded with the digest of the snapshot.                  *)
LEMMA SuccessIs ==
  ASSUME NEW n \in Nat
  PROVE  /\ Success(n, 0) \in Result /\ Success(n, 0).status = "succeeded"
         /\ Success(n, 0).attempt = n /\ "succeeded" \in ReportStatuses
         /\ AfterReport["succeeded"] = "review"
BY DEF Success, Result, ReportStatuses, AfterReport

LEMMA JustifiedReconciled ==
  ASSUME NEW r, NEW s \in RuntimeItem, NEW d \in FileSets, NEW p,
         s.status = "active", Justified(r, s, d, p), s.attempt # 0,
         d.result # 0, d.snap # 0, d.attested # 0, d.lease # "reviewed"
  PROVE  LET q == WithResult(s, Success(s.attempt, 0), d.snap)
         IN  q.status = "review" /\ Justified(r, q, d, p)
<1> DEFINE q == WithResult(s, Success(s.attempt, 0), d.snap)
<1>1. s.attempt \in Nat /\ d.snap \in Nat
  BY DEF RuntimeItem, FileSets
<1>2. /\ q.status = "review" /\ q.attempt_count = s.attempt_count /\ q.attempt = s.attempt
      /\ q.digest = d.snap
  <2>1. /\ Success(s.attempt, 0) \in Result /\ Success(s.attempt, 0).status = "succeeded"
        /\ Success(s.attempt, 0).status \in ReportStatuses /\ AfterReport["succeeded"] = "review"
    BY <1>1, SuccessIs
  <2> QED BY <1>1, <2>1, ReportedItem
<1> HIDE DEF q
<1>3. Justified(r, q, d, p)
  BY <1>2 DEF Justified, TakenOver, LeaseHolds, Filed
<1> QED BY <1>2, <1>3 DEF q

(* The receipt in the files is what the review says.                       *)
LEMMA JustifiedReviewed ==
  ASSUME NEW r, NEW s \in RuntimeItem, NEW d \in FileSets, NEW p, NEW v \in Receipt,
         s.status = "review", Justified(r, s, d, p), d.lease # "reviewed",
         d.receipt # NoReceiptFile, v.decision = d.receipt.decision,
         v.decision \in {"accepted", "rejected"},
         v.decision = "accepted" => s.attempt # 0, d.attested # 0, d.attested = d.evidence
  PROVE  /\ Justified(r, WithReview(s, v), d, p)
         /\ d.receipt.decision = WithReview(s, v).review.decision
<1> DEFINE q == WithReview(s, v)
<1>1. /\ q.status = (IF v.decision = "accepted" THEN "accepted" ELSE "blocked")
      /\ q.attempt_count = s.attempt_count /\ q.attempt = s.attempt /\ q.review = v
      /\ q.digest = s.digest
  BY ReviewedItem
<1>2. d.receipt = [decision |-> d.receipt.decision, digest |-> d.receipt.digest]
  BY DEF FileSets, Receipts
<1>3. d.receipt.digest = s.digest /\ Filed(s, d)
  BY DEF Justified
<1> HIDE DEF q
<1>4. Justified(r, q, d, p)
  BY <1>1, <1>2, <1>3 DEF Justified, TakenOver, LeaseHolds, Filed, Evidenced
<1> QED BY <1>1, <1>4 DEF q

(* A file of the attempt is written.                                       *)
LEMMA JustifiedLease ==
  ASSUME NEW r, NEW s, NEW d \in FileSets, NEW p, NEW l \in Leases, Justified(r, s, d, p),
         l = "result-observed" => d.result # 0,
         l = "product-attested" => d.attested = d.evidence,
         l = "reviewed" => d.receipt.decision = s.review.decision
  PROVE  Justified(r, s, [d EXCEPT !.lease = l], p)
<1> DEFINE e == [d EXCEPT !.lease = l]
<1>1. /\ e.evidence = d.evidence /\ e.snap = d.snap /\ e.result = d.result /\ e.lease = l
      /\ e.attested = d.attested /\ e.draftSnap = d.draftSnap /\ e.receipt = d.receipt
  BY DEF FileSets
<1> HIDE DEF e
<1>2. Justified(r, s, e, p)
  BY <1>1 DEF Justified, LeaseHolds, Filed, Evidenced, Leases
<1> QED BY <1>2 DEF e

LEMMA JustifiedResult ==
  ASSUME NEW r, NEW s, NEW d \in FileSets, NEW p, NEW c \in Nat \ {0}, Justified(r, s, d, p)
  PROVE  Justified(r, s, [d EXCEPT !.result = c], p)
<1> DEFINE e == [d EXCEPT !.result = c]
<1>1. /\ e.evidence = d.evidence /\ e.snap = d.snap /\ e.result = c /\ e.lease = d.lease
      /\ e.attested = d.attested /\ e.draftSnap = d.draftSnap /\ e.receipt = d.receipt
  BY DEF FileSets
<1> HIDE DEF e
<1>2. Justified(r, s, e, p)
  BY <1>1 DEF Justified, LeaseHolds, Filed, Evidenced
<1> QED BY <1>2 DEF e

(* A snapshot is made once: that of an item in review stays.               *)
LEMMA JustifiedDraft ==
  ASSUME NEW r, NEW s, NEW d \in FileSets, NEW p, NEW c \in Nat \ {0}, Justified(r, s, d, p),
         d.result # 0
  PROVE  Justified(r, s, [d EXCEPT !.draftSnap = c], p)
<1> DEFINE e == [d EXCEPT !.draftSnap = c]
<1>1. /\ e.evidence = d.evidence /\ e.snap = d.snap /\ e.result = d.result /\ e.lease = d.lease
      /\ e.attested = d.attested /\ e.draftSnap = c /\ e.receipt = d.receipt
  BY DEF FileSets
<1> HIDE DEF e
<1>2. Justified(r, s, e, p)
  BY <1>1 DEF Justified, LeaseHolds, Filed, Evidenced
<1> QED BY <1>2 DEF e

LEMMA JustifiedEvidence ==
  ASSUME NEW r, NEW s, NEW d \in FileSets, NEW p, NEW c \in Nat, Justified(r, s, d, p),
         s.status \in {"active", "review"}, d.lease = "result-observed"
  PROVE  Justified(r, s, [d EXCEPT !.evidence = c], p)
<1> DEFINE e == [d EXCEPT !.evidence = c]
<1>1. /\ e.evidence = c /\ e.snap = d.snap /\ e.result = d.result /\ e.lease = d.lease
      /\ e.attested = d.attested /\ e.draftSnap = d.draftSnap /\ e.receipt = d.receipt
  BY DEF FileSets
<1> HIDE DEF e
<1>2. Justified(r, s, e, p)
  BY <1>1 DEF Justified, LeaseHolds, Filed
<1> QED BY <1>2 DEF e

LEMMA JustifiedSnap ==
  ASSUME NEW r, NEW s, NEW d \in FileSets, NEW p, NEW c \in Nat \ {0}, Justified(r, s, d, p),
         s.status \in {"active", "review"}, d.snap \in {0, c}, d.result # 0
  PROVE  Justified(r, s, [d EXCEPT !.snap = c], p)
<1> DEFINE e == [d EXCEPT !.snap = c]
<1>1. /\ e.evidence = d.evidence /\ e.snap = c /\ e.result = d.result /\ e.lease = d.lease
      /\ e.attested = d.attested /\ e.draftSnap = d.draftSnap /\ e.receipt = d.receipt
  BY DEF FileSets
<1> HIDE DEF e
<1>2. Justified(r, s, e, p)
  BY <1>1 DEF Justified, LeaseHolds, Filed, Evidenced
<1> QED BY <1>2 DEF e

LEMMA JustifiedAttested ==
  ASSUME NEW r, NEW s, NEW d \in FileSets, NEW p, NEW c \in Nat, Justified(r, s, d, p),
         s.status = "active", d.lease = "result-observed"
  PROVE  Justified(r, s, [d EXCEPT !.attested = c], p)
<1> DEFINE e == [d EXCEPT !.attested = c]
<1>1. /\ e.evidence = d.evidence /\ e.snap = d.snap /\ e.result = d.result /\ e.lease = d.lease
      /\ e.attested = c /\ e.draftSnap = d.draftSnap /\ e.receipt = d.receipt
  BY DEF FileSets
<1> HIDE DEF e
<1>2. Justified(r, s, e, p)
  BY <1>1 DEF Justified, LeaseHolds, Filed, Evidenced
<1> QED BY <1>2 DEF e

LEMMA JustifiedReceipt ==
  ASSUME NEW r, NEW s, NEW d \in FileSets, NEW p, Justified(r, s, d, p),
         NEW a \in {"accepted", "rejected"}, s.status = "review", d.lease # "reviewed"
  PROVE  LET c == [decision |-> a, digest |-> d.snap]
         IN  c # NoReceiptFile /\ Justified(r, s, [d EXCEPT !.receipt = c], p)
<1> DEFINE c == [decision |-> a, digest |-> d.snap]
           e == [d EXCEPT !.receipt = c]
<1>1. /\ e.evidence = d.evidence /\ e.snap = d.snap /\ e.result = d.result /\ e.lease = d.lease
      /\ e.attested = d.attested /\ e.draftSnap = d.draftSnap /\ e.receipt = c
  BY DEF FileSets
<1>2. c.digest = d.snap /\ c # NoReceiptFile
  BY DEF NoReceiptFile
<1> HIDE DEF e, c
<1>3. Justified(r, s, e, p)
  BY <1>1, <1>2 DEF Justified, LeaseHolds, Filed, Evidenced
<1> QED BY <1>2, <1>3 DEF e, c

(***************************************************************************)
(* Steps of the supervisor.                                                *)
(***************************************************************************)
USE DEF R, I, D, Item

(* The supervisor ends, or is killed: its files are in order, and every    *)
(* execution is charged or there is a stop for it.                         *)
LEMMA IdleTyped == Idle \in SupStates /\ Idle.at = "idle" /\ Idle.queue = {}
<1>1. NoResult \in Result /\ NoReceipt \in Receipt
  BY DEF NoResult, Result, NoReceipt, Receipt
<1>2. Registered \in RuntimeItem
  BY <1>1 DEF Registered, RuntimeItem, Statuses
<1>3. GraphRun \in Runs
  BY <1>2 DEF GraphRun, Runs
<1>4. (CHOOSE i \in Items : TRUE) \in Items
  BY RunAssumption
<1>5. 0 \in 0..MaxCycles
  BY SupervisorAssumption
<1> QED BY <1>3, <1>4, <1>5 DEF Idle, SupStates, SupPlaces, RunIds

LEMMA Rests ==
  ASSUME SupTypes', AllJustified', Material', ChildUntouched', sup' = Idle,
         executed' <= setup'.budget + stops', executed' <= usage' + stops'
  PROVE  SupervisorInv'
<1>1. sup'.at = "idle" /\ sup'.queue = {}
  BY IdleTyped
<1>2. MemoryCurrent' /\ QueueOpen'
  BY <1>1 DEF MemoryCurrent, QueueOpen, OnItem, Launched
<1>3. Stage(sup.at, ItemOf(R, I), D, sup.held)'
  BY <1>1 DEF Stage, Launched, Observed
<1>4. Budgeted(sup.at, ItemOf(R, I), D, executed, usage, sup.usage, stops, setup.budget)'
  BY <1>1 DEF Budgeted, Executing, Launched
<1> QED BY <1>2, <1>3, <1>4 DEF SupervisorInv

(* The item at hand and its files become s and d, the rest stays.          *)
Writes(q) ==
    /\ file' \in [RunIds -> RunFiles] /\ file'[R] = Whole(q)
    /\ \A r \in RunIds \ {R} : file'[r] = file[r]
Touches(d) ==
    /\ dispatch' \in [RunIds -> [Items -> FileSets]] /\ dispatch'[R][I] = d
    /\ \A r \in RunIds, i \in Items : r # R \/ i # I => dispatch'[r][i] = dispatch[r][i]
OnlyItem(q, s) ==
    /\ q \in Runs /\ q.item[I] = s
    /\ \A j \in Items \ {I} : q.item[j] = sup.mem.item[j]
    /\ Item.status = "accepted" => s = Item

LEMMA WritesIs ==
  ASSUME SupervisorInv, NEW q \in Runs
  PROVE  /\ file' = [file EXCEPT ![R] = Whole(q)] => Writes(q)
         /\ sup.at # "idle" /\ file' = file => Writes(sup.mem)
<1>1. /\ file \in [RunIds -> RunFiles] /\ R \in RunIds /\ Whole(q) \in RunFiles
      /\ sup.at # "idle" => file[R] = Whole(sup.mem)
  <2>1. sup.at # "idle" => file[R].run = sup.mem /\ file[R].state = "whole"
    BY DEF SupervisorInv, MemoryCurrent
  <2>2. file \in [RunIds -> RunFiles] /\ R \in RunIds
    BY DEF SupervisorInv, SupTypes, SupStates
  <2>3. Whole(q) \in RunFiles
    BY DEF Whole, RunFiles
  <2> QED BY <2>1, <2>2, <2>3 DEF Whole, RunFiles
<1> QED BY <1>1 DEF Writes

LEMMA TouchesIs ==
  ASSUME SupervisorInv, NEW d \in FileSets
  PROVE  /\ dispatch' = [dispatch EXCEPT ![R][I] = d] => Touches(d)
         /\ dispatch' = dispatch => Touches(D)
<1>1. /\ dispatch \in [RunIds -> [Items -> FileSets]] /\ R \in RunIds /\ I \in Items
  BY DEF SupervisorInv, SupTypes, SupStates
<1> QED BY <1>1 DEF Touches

(* A step on the item at hand keeps the invariant if it keeps the part     *)
(* that speaks of this item.                                               *)
LEMMA JustifiedOnItem ==
  ASSUME SupervisorInv, sup.at # "idle", NEW q, NEW s, NEW d, OnlyItem(q, s), Writes(q), Touches(d),
         Justified(R, s, d, ItemOf("parent", I))
  PROVE  AllJustified'
<1> DEFINE Now(r, i) == file[r].run.item[i]
           Then(r, i) == file'[r].run.item[i]
<1>1. /\ R \in RunIds /\ I \in Items /\ "parent" \in RunIds /\ file[R].run = sup.mem
      /\ file'[R].run = q
  BY DEF SupervisorInv, SupTypes, SupStates, MemoryCurrent, Writes, Whole, RunIds
<1>2. \A r \in RunIds, i \in Items : r # R \/ i # I => Then(r, i) = Now(r, i)
  BY <1>1 DEF Writes, OnlyItem
<1>3. Then(R, I) = s /\ Now(R, I) = Item
  BY <1>1 DEF OnlyItem
<1>4. Justified(R, s, d, Now("parent", I))
      /\ \A r \in RunIds, i \in Items : Justified(r, Now(r, i), dispatch[r][i], Now("parent", i))
  BY DEF ItemOf, SupervisorInv, AllJustified
<1>5. \A r \in RunIds, i \in Items : r # R \/ i # I => dispatch'[r][i] = dispatch[r][i]
  BY DEF Touches
<1>6. dispatch'[R][I] = d
  BY DEF Touches
<1>7. Now(R, I).status = "accepted" => s = Now(R, I)
  BY <1>3 DEF OnlyItem
<1> HIDE DEF Now, Then
<1>8. ASSUME NEW i \in Items
      PROVE  Now("parent", i).status = "accepted" => Then("parent", i) = Now("parent", i)
  <2>1. CASE R = "parent" /\ i = I
    BY <1>3, <1>7, <2>1
  <2>2. CASE ~(R = "parent" /\ i = I)
    BY <1>1, <1>2, <2>2
  <2> QED BY <2>1, <2>2
<1>9. ASSUME NEW r \in RunIds, NEW i \in Items
      PROVE  Justified(r, Then(r, i), dispatch'[r][i], Then("parent", i))
  <2>1. CASE r = R /\ i = I
    <3>1. Justified(R, s, d, Then("parent", I))
      BY <1>1, <1>4, <1>8, JustifiedParent
    <3> QED BY <2>1, <3>1, <1>3, <1>6
  <2>2. CASE ~(r = R /\ i = I)
    <3>1. Justified(r, Now(r, i), dispatch[r][i], Then("parent", i))
      BY <1>4, <1>8, JustifiedParent
    <3> QED BY <2>2, <3>1, <1>2, <1>5
  <2> QED BY <2>1, <2>2
<1> QED BY <1>9 DEF AllJustified, ItemOf, Then

LEMMA ChildOnItem ==
  ASSUME SupervisorInv, sup.at # "idle", NEW q, NEW d, Writes(q), Touches(d)
  PROVE  ChildUntouched'
<1>1. R \in RunIds /\ "child" \in RunIds /\ file'[R].state = "whole"
  BY DEF SupervisorInv, SupTypes, SupStates, Writes, Whole, RunIds
<1>2. CASE R = "child"
  BY <1>1, <1>2 DEF ChildUntouched
<1>3. CASE R # "child"
  <2>1. file'["child"] = file["child"] /\ \A i \in Items : dispatch'["child"][i] = dispatch["child"][i]
    BY <1>1, <1>3 DEF Writes, Touches
  <2> QED BY <2>1 DEF ChildUntouched, SupervisorInv
<1> QED BY <1>2, <1>3

Moves(p, q, u, h) == sup' = [sup EXCEPT !.at = p, !.mem = q, !.usage = u, !.held = h]

LEMMA ItemKept ==
  ASSUME SupervisorInv, sup.at \in OnItem,
         NEW p \in OnItem \ {"open"}, NEW q, NEW s, NEW d, NEW u \in Nat,
         NEW h \in Nat, OnlyItem(q, s), Writes(q), Touches(d), Moves(p, q, u, h),
         Justified(R, s, d, ItemOf("parent", I)), Material', 
         draft' \in [Items -> Nat], product' \in [Items -> Nat], health' \in [Items -> HealthRecords],
         executed' \in Nat, UNCHANGED <<usage, orphans, stops, setup>>,
         p # "charge" => u = usage,
         Stage(p, s, d, h), Budgeted(p, s, d, executed', usage, u, stops, setup.budget)
  PROVE  SupervisorInv'
<1>1. sup \in SupStates /\ p \in SupPlaces /\ q \in Runs /\ p # "idle" /\ sup.at # "idle"
  BY DEF SupervisorInv, SupTypes, OnItem, Launched, SupPlaces, OnlyItem
<1>2. /\ sup' \in SupStates /\ sup'.at = p /\ sup'.mem = q /\ sup'.usage = u
      /\ sup'.run = R /\ sup'.item = I /\ sup'.queue = sup.queue /\ sup'.held = h
  BY <1>1 DEF SupStates, Moves
<1>3. SupTypes'
  BY <1>2 DEF SupervisorInv, SupTypes, Writes, Touches
<1>4. AllJustified' /\ ChildUntouched'
  BY <1>1, JustifiedOnItem, ChildOnItem
<1>5. file'[R] = Whole(q) /\ dispatch'[R][I] = d
  BY DEF Writes, Touches
<1>6. MemoryCurrent'
  BY <1>2, <1>5 DEF MemoryCurrent, Whole
<1>7. QueueOpen'
  BY <1>1, <1>2 DEF QueueOpen, SupervisorInv, OnlyItem, SupStates
<1>8. ItemOf(R, I)' = s /\ D' = d
  BY <1>2, <1>5 DEF ItemOf, Whole, OnlyItem
<1>9. Stage(sup.at, ItemOf(R, I), D, sup.held)'
  BY <1>2, <1>8 DEF Stage
<1>10. Budgeted(sup.at, ItemOf(R, I), D, executed, usage, sup.usage, stops, setup.budget)'
  BY <1>2, <1>8 DEF Budgeted
<1> QED BY <1>3, <1>4, <1>6, <1>7, <1>9, <1>10 DEF SupervisorInv

(* What is known while an item is at hand.                                 *)
LEMMA ItemFacts ==
  ASSUME SupervisorInv, sup.at \in OnItem
  PROVE  /\ R \in RunIds /\ I \in Items /\ sup.mem \in Runs /\ Item \in RuntimeItem /\ D \in FileSets
         /\ draft \in [Items -> Nat] /\ product \in [Items -> Nat]
         /\ health \in [Items -> HealthRecords] /\ orphans \subseteq Orphans
         /\ usage \in Nat /\ executed \in Nat /\ stops \in Nat /\ setup.budget \in Nat
         /\ sup.usage \in Nat /\ (sup.at # "charge" => sup.usage = usage) /\ sup.at # "idle"
         /\ sup.held \in Nat
         /\ Justified(R, Item, D, ItemOf("parent", I))
         /\ Stage(sup.at, Item, D, sup.held)
         /\ Budgeted(sup.at, Item, D, executed, usage, sup.usage, stops, setup.budget)
         /\ OnlyItem(sup.mem, Item) /\ Material
<1>1. /\ R \in RunIds /\ I \in Items /\ sup.mem \in Runs /\ D \in FileSets /\ sup.usage \in Nat
      /\ sup.held \in Nat
      /\ draft \in [Items -> Nat] /\ product \in [Items -> Nat]
      /\ health \in [Items -> HealthRecords] /\ orphans \subseteq Orphans
      /\ usage \in Nat /\ executed \in Nat
  BY DEF SupervisorInv, SupTypes, SupStates
<1>2. stops \in Nat /\ setup.budget \in Nat
  BY DEF SupervisorInv, SupTypes, Setups
<1>3. sup.at # "idle" /\ file[R].run = sup.mem /\ (sup.at # "charge" => sup.usage = usage)
  BY DEF SupervisorInv, MemoryCurrent, OnItem, Launched
<1>4. ItemOf(R, I) = Item
  BY <1>3 DEF ItemOf
<1>5. Justified(R, Item, D, ItemOf("parent", I))
  BY <1>1, <1>4 DEF SupervisorInv, AllJustified
<1>6. Item \in RuntimeItem
  BY <1>1 DEF Runs
<1>7. Stage(sup.at, Item, D, sup.held) /\ Material
      /\ Budgeted(sup.at, Item, D, executed, usage, sup.usage, stops, setup.budget)
  BY <1>4 DEF SupervisorInv
<1>8. OnlyItem(sup.mem, Item)
  BY <1>1 DEF OnlyItem
<1> QED BY <1>1, <1>2, <1>3, <1>5, <1>6, <1>7, <1>8

LEMMA MovesIs ==
  ASSUME SupervisorInv, NEW p, NEW m, NEW c
  PROVE  /\ Goto(p) => Moves(p, sup.mem, sup.usage, sup.held)
         /\ sup' = [sup EXCEPT !.at = p, !.mem = m] => Moves(p, m, sup.usage, sup.held)
         /\ sup' = [sup EXCEPT !.at = p, !.usage = @ + c] => Moves(p, sup.mem, sup.usage + c, sup.held)
         /\ sup' = [sup EXCEPT !.at = p, !.mem = m, !.usage = @ + c]
               => Moves(p, m, sup.usage + c, sup.held)
         /\ sup' = [sup EXCEPT !.at = p, !.held = c] => Moves(p, sup.mem, sup.usage, c)
<1>1. sup \in SupStates
  BY DEF SupervisorInv, SupTypes
<1> QED BY <1>1 DEF Goto, Moves, SupStates

(* A file of the attempt at hand is written, or none.                      *)
LEMMA FilesTyped ==
  ASSUME NEW d \in FileSets
  PROVE  /\ \A l \in Leases : [d EXCEPT !.lease = l] \in FileSets
         /\ \A c \in Nat : /\ [d EXCEPT !.result = c] \in FileSets
                           /\ [d EXCEPT !.draftSnap = c] \in FileSets
                           /\ [d EXCEPT !.attested = c] \in FileSets
                           /\ [d EXCEPT !.snap = c] \in FileSets
                           /\ [d EXCEPT !.evidence = c] \in FileSets
         /\ \A c \in Receipts : [d EXCEPT !.receipt = c] \in FileSets
         /\ NoFiles \in FileSets
<1>1. NoFiles \in FileSets
  BY DEF NoFiles, NoReceiptFile, FileSets, Receipts, Leases
<1> QED BY <1>1 DEF FileSets

(* Both kinds of evidence keep their material.                             *)
LEMMA MaterialKept ==
  ASSUME SupervisorInv, sup.at \in OnItem, NEW d, Touches(d),
         draft' \in [Items -> Nat], product' \in [Items -> Nat],
         \A i \in Items : (draft[i] # 0 => draft'[i] # 0) /\ (product[i] # 0 => product'[i] # 0),
         d.draftSnap # 0 => draft'[I] # 0, d.attested # 0 => product'[I] # 0
  PROVE  Material'
<1>1. R \in RunIds /\ I \in Items
  BY ItemFacts
<1>2. Material
  BY ItemFacts
<1>3. ASSUME NEW r \in RunIds, NEW i \in Items
      PROVE  /\ dispatch'[r][i].draftSnap # 0 => draft'[i] # 0
             /\ dispatch'[r][i].attested # 0 => product'[i] # 0
  <2>1. CASE r = R /\ i = I
    BY <2>1 DEF Touches
  <2>2. CASE ~(r = R /\ i = I)
    <3>1. dispatch'[r][i] = dispatch[r][i]
      BY <2>2 DEF Touches
    <3> QED BY <1>2, <3>1 DEF Material
  <2> QED BY <2>1, <2>2
<1> QED BY <1>3 DEF Material

(* The item at hand is blocked, with the attempt charged or not.           *)
LEMMA Blocked ==
  ASSUME SupervisorInv, sup.at \in OnItem \ {"charge"}, NEW c \in {0, 1}, BlockItem(c),
         NEW d, Touches(d), Justified(R, Item, d, ItemOf("parent", I)),
         d.draftSnap = D.draftSnap, d.attested = D.attested,
         health' \in [Items -> HealthRecords],
         UNCHANGED <<draft, product, usage, orphans, executed, stops, setup>>,
         executed <= usage + c + stops
  PROVE  SupervisorInv'
<1>1. PICK m \in Transition(sup.mem, I, "block") :
        /\ file' = [file EXCEPT ![R] = Whole(m)]
        /\ sup' = [sup EXCEPT !.at = "charge", !.mem = m, !.usage = @ + c]
  BY DEF BlockItem
<1>2. /\ sup.held \in Nat /\ R \in RunIds /\ I \in Items /\ sup.mem \in Runs /\ Item \in RuntimeItem
      /\ draft \in [Items -> Nat] /\ product \in [Items -> Nat] /\ usage \in Nat /\ executed \in Nat
      /\ stops \in Nat /\ setup.budget \in Nat /\ sup.usage = usage /\ Material
      /\ Budgeted(sup.at, Item, D, executed, usage, sup.usage, stops, setup.budget)
  BY ItemFacts
<1>3. /\ m \in Runs /\ m.item[I] = Moved(Item, "block") /\ Item.status # "accepted"
      /\ \A j \in Items \ {I} : m.item[j] = sup.mem.item[j]
  BY <1>2, BlockIs
<1>4. OnlyItem(m, Moved(Item, "block"))
  BY <1>3 DEF OnlyItem
<1>5. Writes(m) /\ Moves("charge", m, sup.usage + c, sup.held)
  BY <1>1, <1>3, WritesIs, MovesIs
<1>6. Justified(R, Moved(Item, "block"), d, ItemOf("parent", I))
  BY <1>2, <1>3, JustifiedMoved
<1>7. Material'
  BY <1>2, MaterialKept DEF Material
<1>8. Stage("charge", Moved(Item, "block"), d, sup.held)
  BY DEF Stage, Launched, Observed
<1>9. Budgeted("charge", Moved(Item, "block"), d, executed', usage, sup.usage + c, stops, setup.budget)
  BY <1>2 DEF Budgeted, Executing, Launched
<1>10. sup.usage + c \in Nat /\ "charge" \in OnItem \ {"open"} /\ sup.at \in OnItem
  BY <1>2 DEF OnItem
<1> QED BY <1>2, <1>4, <1>5, <1>6, <1>7, <1>8, <1>9, <1>10, ItemKept

(* The supervisor goes on with the item at hand as it is.                  *)
LEMMA GoesOn ==
  ASSUME SupervisorInv, sup.at \in OnItem \ {"charge"}, NEW p \in OnItem \ {"open", "charge"},
         Goto(p), UNCHANGED file, NEW d, Touches(d), Justified(R, Item, d, ItemOf("parent", I)),
         Material', draft' \in [Items -> Nat], product' \in [Items -> Nat],
         health' \in [Items -> HealthRecords], executed' \in Nat,
         UNCHANGED <<usage, orphans, stops, setup>>,
         Stage(p, Item, d, sup.held), Budgeted(p, Item, d, executed', usage, usage, stops, setup.budget)
  PROVE  SupervisorInv'
<1>1. sup.held \in Nat /\ sup.mem \in Runs /\ sup.usage = usage /\ usage \in Nat /\ OnlyItem(sup.mem, Item)
  BY ItemFacts
<1>2. Writes(sup.mem) /\ Moves(p, sup.mem, usage, sup.held)
  BY <1>1, WritesIs, MovesIs DEF OnItem, Launched
<1> QED BY <1>1, <1>2, ItemKept

(* The supervisor fails on the item at hand: the executions are charged.   *)
LEMMA FailsOnItem ==
  ASSUME SupervisorInv, sup.at \in OnItem \ {"charge"}, sup' = Idle, UNCHANGED file,
         NEW d, Touches(d), Justified(R, Item, d, ItemOf("parent", I)), Material',
         health' \in [Items -> HealthRecords],
         UNCHANGED <<draft, product, usage, orphans, executed, stops, setup>>,
         executed <= usage + stops
  PROVE  SupervisorInv'
<1>1. /\ sup.mem \in Runs /\ OnlyItem(sup.mem, Item) /\ sup.at # "idle"
      /\ Budgeted(sup.at, Item, D, executed, usage, sup.usage, stops, setup.budget)
  BY ItemFacts
<1>2. Writes(sup.mem)
  BY <1>1, WritesIs
<1>3. AllJustified' /\ ChildUntouched'
  BY <1>1, <1>2, JustifiedOnItem, ChildOnItem
<1>4. SupTypes'
  BY <1>2, IdleTyped DEF SupervisorInv, SupTypes, Writes, Touches
<1>5. executed' <= setup'.budget + stops' /\ executed' <= usage' + stops'
  BY <1>1 DEF Budgeted
<1> QED BY <1>3, <1>4, <1>5, Rests

(* An item is opened: no adapter, a new attempt, or an interrupted one.    *)
LEMMA OpenKeeps ==
  ASSUME SupervisorInv, Open PROVE SupervisorInv'
<1>1. sup.at = "open" /\ sup.at \in OnItem \ {"charge"} /\ "authorize" \in OnItem \ {"open", "charge"}
  BY DEF Open, At, OnItem
<1>2. /\ sup.held \in Nat /\ R \in RunIds /\ I \in Items /\ sup.mem \in Runs /\ Item \in RuntimeItem /\ D \in FileSets
      /\ draft \in [Items -> Nat] /\ product \in [Items -> Nat] /\ usage \in Nat /\ executed \in Nat
      /\ health \in [Items -> HealthRecords]
      /\ stops \in Nat /\ setup.budget \in Nat /\ sup.usage = usage /\ Material
      /\ Justified(R, Item, D, ItemOf("parent", I)) /\ Stage(sup.at, Item, D, sup.held)
      /\ Budgeted(sup.at, Item, D, executed, usage, sup.usage, stops, setup.budget)
  BY <1>1, ItemFacts
<1>3. executed <= usage + stops /\ executed <= setup.budget + stops
  BY <1>1, <1>2 DEF Budgeted, Executing, Launched
<1>4. UNCHANGED <<draft, product, usage, health, orphans, executed, stops, setup>>
  BY DEF Open, others
<1>5. CASE I \notin setup.served /\ BlockItem(0) /\ UNCHANGED dispatch
  <2>1. Touches(D)
    BY <1>2, <1>5, TouchesIs
  <2>2. /\ D.draftSnap = D.draftSnap /\ D.attested = D.attested
        /\ health' \in [Items -> HealthRecords]
        /\ executed <= usage + 0 + stops
        /\ UNCHANGED <<draft, product, usage, orphans, executed, stops, setup>>
    BY <1>2, <1>3, <1>4
  <2>3. sup.at \in OnItem \ {"charge"} /\ BlockItem(0) /\ Justified(R, Item, D, ItemOf("parent", I))
    BY <1>1, <1>2, <1>5
  <2> QED BY <2>1, <2>2, <2>3, Blocked
<1>6. CASE /\ I \in setup.served /\ Item.status = "ready"
           /\ \E m \in Submit(sup.mem, I, NextAttempt(sup.mem, I)) :
                 /\ file' = [file EXCEPT ![R] = Whole(m)]
                 /\ sup' = [sup EXCEPT !.at = "authorize", !.mem = m]
           /\ dispatch' = [dispatch EXCEPT ![R][I] = NoFiles]
  <2> DEFINE n == NextAttempt(sup.mem, I)
             s == WithAttempt(Item, n)
  <2>1. n \in Nat
    BY <1>2 DEF NextAttempt, RuntimeItem
  <2>2. PICK m \in Submit(sup.mem, I, n) :
           /\ file' = [file EXCEPT ![R] = Whole(m)]
           /\ sup' = [sup EXCEPT !.at = "authorize", !.mem = m]
    BY <1>6
  <2>3. m \in Runs /\ m.item[I] = s /\ \A j \in Items \ {I} : m.item[j] = sup.mem.item[j]
    BY <1>2, <2>1, SubmitIs
  <2>4. s.status = "active"
    BY <1>2, <2>1, SubmittedItem
  <2>5. Justified(R, s, NoFiles, ItemOf("parent", I))
    BY <1>2, <2>1, JustifiedSubmitted
  <2> HIDE DEF n, s
  <2>6. OnlyItem(m, s) /\ Writes(m) /\ Moves("authorize", m, usage, sup.held)
    BY <1>2, <1>6, <2>2, <2>3, WritesIs, MovesIs DEF OnlyItem
  <2>7. NoFiles \in FileSets /\ Touches(NoFiles)
    BY <1>2, <1>6, FilesTyped, TouchesIs
  <2>8. Material'
    BY <1>1, <1>2, <1>4, <2>7, MaterialKept DEF NoFiles
  <2>9. Stage("authorize", s, NoFiles, sup.held)
    BY <2>4 DEF Stage, Launched, Observed
  <2>10. Budgeted("authorize", s, NoFiles, executed', usage, usage, stops, setup.budget)
    BY <1>3, <1>4 DEF Budgeted, Executing, Launched
  <2> QED BY <1>1, <1>2, <1>4, <2>5, <2>6, <2>7, <2>8, <2>9, <2>10, ItemKept
<1>7. CASE I \in setup.served /\ Item.status # "ready" /\ Goto("authorize") /\ UNCHANGED <<file, dispatch>>
  <2>1. Touches(D)
    BY <1>2, <1>7, TouchesIs
  <2>2. Material'
    BY <1>2, <1>4, <1>7 DEF Material
  <2>3. Stage("authorize", Item, D, sup.held)
    BY <1>1, <1>2, <1>7 DEF Stage, Launched, Observed, PickedUp
  <2>4. Budgeted("authorize", Item, D, executed', usage, usage, stops, setup.budget)
    BY <1>3, <1>4 DEF Budgeted, Executing, Launched
  <2> QED BY <1>1, <1>2, <1>4, <1>7, <2>1, <2>2, <2>3, <2>4, GoesOn
<1> QED BY <1>5, <1>6, <1>7 DEF Open

(* Permission: refused, or a lease.                                        *)
LEMMA AuthorizeKeeps ==
  ASSUME SupervisorInv, Authorize PROVE SupervisorInv'
<1>1. sup.at = "authorize" /\ sup.at \in OnItem \ {"charge"} /\ "execute" \in OnItem \ {"open", "charge"}
  BY DEF Authorize, At, OnItem, Launched
<1>2. /\ R \in RunIds /\ I \in Items /\ sup.mem \in Runs /\ Item \in RuntimeItem /\ D \in FileSets
      /\ draft \in [Items -> Nat] /\ product \in [Items -> Nat] /\ usage \in Nat /\ executed \in Nat
      /\ health \in [Items -> HealthRecords]
      /\ stops \in Nat /\ setup.budget \in Nat /\ sup.usage = usage /\ Material
      /\ Justified(R, Item, D, ItemOf("parent", I)) /\ Stage(sup.at, Item, D, sup.held)
      /\ Budgeted(sup.at, Item, D, executed, usage, sup.usage, stops, setup.budget)
  BY <1>1, ItemFacts
<1>3. executed <= usage + stops /\ executed <= setup.budget + stops
  BY <1>1, <1>2 DEF Budgeted, Executing, Launched
<1>4. UNCHANGED <<draft, product, usage, orphans, executed, stops, setup>>
  BY DEF Authorize, others
<1>5. ASSUME UNCHANGED dispatch PROVE Touches(D) /\ Material'
  BY <1>2, <1>4, <1>5, TouchesIs DEF Material
<1>6. CASE sup' = Idle /\ UNCHANGED <<file, dispatch, health>>
  BY <1>1, <1>2, <1>3, <1>4, <1>5, <1>6, FailsOnItem
<1>7. CASE BlockItem(0) /\ UNCHANGED <<dispatch, health>>
  <2>1. Touches(D)
    BY <1>5, <1>7
  <2>2. /\ D.draftSnap = D.draftSnap /\ D.attested = D.attested
        /\ health' \in [Items -> HealthRecords]
        /\ executed <= usage + 0 + stops
        /\ UNCHANGED <<draft, product, usage, orphans, executed, stops, setup>>
    BY <1>2, <1>3, <1>4, <1>7
  <2>3. sup.at \in OnItem \ {"charge"} /\ BlockItem(0) /\ Justified(R, Item, D, ItemOf("parent", I))
    BY <1>1, <1>2, <1>7
  <2> QED BY <2>1, <2>2, <2>3, Blocked
<1>8. CASE /\ Permitted
           /\ health' = IF CircuitOpen THEN [health EXCEPT ![I].state = "half-open"] ELSE health
           /\ dispatch' = Put("lease", "authorized") /\ Goto("execute") /\ UNCHANGED file
  <2> DEFINE d == [D EXCEPT !.lease = "authorized"]
  <2>1. d \in FileSets /\ Justified(R, Item, d, ItemOf("parent", I))
    BY <1>2, FilesTyped, JustifiedLease DEF Leases
  <2>2. /\ d.lease = "authorized" /\ d.draftSnap = D.draftSnap /\ d.attested = D.attested
        /\ dispatch' = [dispatch EXCEPT ![R][I] = d]
    BY <1>2, <1>8 DEF FileSets, Put
  <2> HIDE DEF d
  <2>3. Touches(d)
    BY <2>1, <2>2, TouchesIs
  <2>4. Material'
    BY <1>1, <1>2, <1>4, <2>2, <2>3, MaterialKept DEF Material
  <2>5. health' \in [Items -> HealthRecords]
    BY <1>2, <1>8 DEF HealthRecords
  <2>6. Stage("execute", Item, d, sup.held)
    BY <1>1, <1>2, <2>2 DEF Stage, Launched, Observed
  <2>7. Budgeted("execute", Item, d, executed', usage, usage, stops, setup.budget)
    BY <1>3, <1>4, <1>8 DEF Budgeted, Executing, Launched, Permitted, GateAccepts
  <2> QED BY <1>1, <1>2, <1>4, <1>8, <2>1, <2>3, <2>4, <2>5, <2>6, <2>7, GoesOn
<1> QED BY <1>6, <1>7, <1>8 DEF Authorize

(* The executor is started, for an attempt without a result.               *)
LEMMA ExecuteKeeps ==
  ASSUME SupervisorInv, Execute PROVE SupervisorInv'
<1>1. /\ sup.at = "execute" /\ sup.at \in OnItem \ {"charge"}
      /\ "observe" \in OnItem \ {"open", "charge"} /\ "running" \in OnItem \ {"open", "charge"}
  BY DEF Execute, At, OnItem, Launched
<1>2. /\ R \in RunIds /\ I \in Items /\ D \in FileSets
      /\ draft \in [Items -> Nat] /\ product \in [Items -> Nat] /\ usage \in Nat /\ executed \in Nat
      /\ health \in [Items -> HealthRecords]
      /\ stops \in Nat /\ setup.budget \in Nat /\ sup.usage = usage /\ Material
      /\ Justified(R, Item, D, ItemOf("parent", I)) /\ Stage(sup.at, Item, D, sup.held)
      /\ Budgeted(sup.at, Item, D, executed, usage, sup.usage, stops, setup.budget)
  BY <1>1, ItemFacts
<1>3. executed <= usage + stops /\ executed <= setup.budget + stops
  BY <1>1, <1>2 DEF Budgeted, Executing, Launched
<1>4. /\ UNCHANGED <<file, dispatch, draft, product, usage, health, orphans, stops, setup>>
      /\ executed' \in Nat
  BY <1>2 DEF Execute, files
<1>5. Touches(D) /\ Material'
  BY <1>2, <1>4, TouchesIs DEF Material
<1>6. CASE D.result # 0 /\ Goto("observe") /\ UNCHANGED executed
  <2>1. Stage("observe", Item, D, sup.held)
    BY <1>1, <1>2, <1>6 DEF Stage, Launched, Observed
  <2>2. Budgeted("observe", Item, D, executed', usage, usage, stops, setup.budget)
    BY <1>2, <1>3, <1>6 DEF Budgeted, Executing, Launched
  <2> QED BY <1>1, <1>2, <1>4, <1>5, <1>6, <2>1, <2>2, GoesOn
<1>7. CASE D.result = 0 /\ Goto("running") /\ executed' = executed + 1
  <2>1. Item.status # "review" /\ D.draftSnap = 0 /\ D.snap = 0
    BY <1>2, <1>7 DEF Justified, Filed
  <2>2. Stage("running", Item, D, sup.held)
    BY <1>1, <1>2, <2>1 DEF Stage, Launched, Observed
  <2>3. usage + 1 <= setup.budget
    BY <1>1, <1>2, <2>1 DEF Budgeted
  <2>4. Budgeted("running", Item, D, executed', usage, usage, stops, setup.budget)
    BY <1>2, <1>3, <1>7, <2>3 DEF Budgeted, Executing, Launched
  <2> QED BY <1>1, <1>2, <1>4, <1>5, <1>7, <2>2, <2>4, GoesOn
<1> QED BY <1>6, <1>7 DEF Execute

LEMMA ExecutorSucceedsKeeps ==
  ASSUME SupervisorInv, ExecutorSucceeds PROVE SupervisorInv'
<1> DEFINE d == [D EXCEPT !.result = executed]
<1>1. /\ sup.at = "running" /\ sup.at \in OnItem \ {"charge"}
      /\ "observe" \in OnItem \ {"open", "charge"}
  BY DEF ExecutorSucceeds, At, OnItem, Launched
<1>2. /\ R \in RunIds /\ I \in Items /\ D \in FileSets
      /\ draft \in [Items -> Nat] /\ product \in [Items -> Nat] /\ usage \in Nat /\ executed \in Nat
      /\ health \in [Items -> HealthRecords]
      /\ stops \in Nat /\ setup.budget \in Nat /\ sup.usage = usage /\ Material
      /\ Justified(R, Item, D, ItemOf("parent", I)) /\ Stage(sup.at, Item, D, sup.held)
      /\ Budgeted(sup.at, Item, D, executed, usage, sup.usage, stops, setup.budget)
  BY <1>1, ItemFacts
<1>3. /\ executed # 0 /\ executed <= usage + 1 + stops /\ executed <= setup.budget + stops
      /\ D.draftSnap = 0 /\ D.snap = 0
  BY <1>1, <1>2 DEF Budgeted, Executing, Launched, Observed, Stage
<1>4. /\ UNCHANGED <<file, product, usage, health, orphans, executed, stops, setup>>
      /\ draft' = [draft EXCEPT ![I] = executed] /\ draft' \in [Items -> Nat] /\ Goto("observe")
  BY <1>2 DEF ExecutorSucceeds, others
<1>5. d \in FileSets /\ Justified(R, Item, d, ItemOf("parent", I))
  BY <1>2, <1>3, FilesTyped, JustifiedResult
<1>6. /\ d.lease = D.lease /\ d.draftSnap = D.draftSnap /\ d.attested = D.attested
      /\ d.result = executed /\ d.snap = D.snap
      /\ dispatch' = [dispatch EXCEPT ![R][I] = d]
  BY <1>2 DEF FileSets, Put, ExecutorSucceeds
<1> HIDE DEF d
<1>7. Touches(d)
  BY <1>5, <1>6, TouchesIs
<1>8. Material'
  BY <1>1, <1>2, <1>3, <1>4, <1>6, <1>7, MaterialKept DEF Material
<1>9. Stage("observe", Item, d, sup.held)
  BY <1>1, <1>2, <1>3, <1>6 DEF Stage, Launched, Observed
<1>10. Budgeted("observe", Item, d, executed', usage, usage, stops, setup.budget)
  BY <1>3, <1>4, <1>6 DEF Budgeted, Executing, Launched
<1> QED BY <1>1, <1>2, <1>4, <1>5, <1>7, <1>8, <1>9, <1>10, GoesOn

LEMMA RecordedTyped ==
  ASSUME NEW h \in HealthRecords, NEW b \in BOOLEAN PROVE Recorded(h, b) \in HealthRecords
<1> DEFINE n == IF b THEN 0 ELSE IF h.failures < 3 THEN h.failures + 1 ELSE 3
<1>1. h.failures \in 0..3
  BY DEF HealthRecords
<1>2. n \in 0..3
  BY <1>1
<1> HIDE DEF n
<1>3. [failures |-> n, state |-> IF n >= 3 THEN "circuit-open" ELSE IF n > 0 THEN "degraded" ELSE "healthy"]
        \in HealthRecords
  BY <1>2 DEF HealthRecords
<1> QED BY <1>3 DEF Recorded, n

(* Whatever fails after the execution, the attempt is charged.             *)
LEMMA BlockedAndCharged ==
  ASSUME SupervisorInv, sup.at \in Launched \ {"execute"}, BlockItem(1),
         health' \in [Items -> HealthRecords],
         UNCHANGED <<dispatch, draft, product, usage, orphans, executed, stops, setup>>
  PROVE  SupervisorInv'
<1>1. sup.at \in OnItem \ {"charge"} /\ sup.at \in OnItem /\ sup.at \in Executing
  BY DEF OnItem, Launched, Executing
<1>2. /\ D \in FileSets /\ usage \in Nat /\ stops \in Nat /\ Justified(R, Item, D, ItemOf("parent", I))
      /\ Budgeted(sup.at, Item, D, executed, usage, sup.usage, stops, setup.budget)
  BY <1>1, ItemFacts
<1>3. Touches(D)
  BY <1>2, TouchesIs
<1>4. executed <= usage + 1 + stops
  BY <1>1, <1>2 DEF Budgeted
<1> QED BY <1>1, <1>2, <1>3, <1>4, Blocked

LEMMA FailureKeeps ==
  ASSUME SupervisorInv, ExecutorFails \/ AttestorFails \/ ReviewerFails PROVE SupervisorInv'
<1>1. health \in [Items -> HealthRecords] /\ I \in Items
  BY DEF SupervisorInv, SupTypes, SupStates
<1>2. CASE ExecutorFails
  <2>1. /\ health' = [health EXCEPT ![I] = Recorded(health[I], FALSE)]
        /\ UNCHANGED <<dispatch, draft, product, usage, orphans, executed, stops, setup>>
        /\ BlockItem(1) /\ sup.at \in Launched \ {"execute"}
    BY <1>2 DEF ExecutorFails, files, others, At, Launched
  <2>2. Recorded(health[I], FALSE) \in HealthRecords
    BY <1>1, RecordedTyped
  <2> QED BY <1>1, <2>1, <2>2, BlockedAndCharged
<1>3. CASE AttestorFails \/ ReviewerFails
  BY <1>1, <1>3, BlockedAndCharged DEF AttestorFails, ReviewerFails, files, others, At, Launched
<1> QED BY <1>2, <1>3

(* The result is read, and held.                                           *)
LEMMA ObserveKeeps ==
  ASSUME SupervisorInv, Observe PROVE SupervisorInv'
<1> DEFINE d == [D EXCEPT !.lease = "result-observed"]
<1>1. /\ sup.at = "observe" /\ sup.at \in OnItem /\ sup.at # "idle" /\ "verify" \in OnItem \ {"open"}
  BY DEF Observe, At, OnItem, Launched
<1>2. /\ R \in RunIds /\ I \in Items /\ D \in FileSets /\ sup.held \in Nat
      /\ draft \in [Items -> Nat] /\ product \in [Items -> Nat] /\ usage \in Nat /\ executed \in Nat
      /\ health \in [Items -> HealthRecords]
      /\ stops \in Nat /\ setup.budget \in Nat /\ sup.usage = usage /\ Material
      /\ Justified(R, Item, D, ItemOf("parent", I)) /\ Stage(sup.at, Item, D, sup.held)
      /\ Budgeted(sup.at, Item, D, executed, usage, sup.usage, stops, setup.budget)
  BY <1>1, ItemFacts
<1>3. /\ executed <= usage + 1 + stops /\ executed <= setup.budget + stops
      /\ D.draftSnap # 0 \/ D.snap # 0 => executed <= usage + stops
      /\ D.result \in Nat /\ D.result # 0 /\ Item.status \in {"active", "review"}
  BY <1>1, <1>2 DEF Budgeted, Executing, Launched, Observed, Stage, FileSets
<1>4. /\ UNCHANGED <<file, draft, product, usage, orphans, executed, stops, setup>>
      /\ sup' = [sup EXCEPT !.at = "verify", !.held = D.result]
  BY DEF Observe, others
<1>5. health' \in [Items -> HealthRecords]
  <2>1. health' = [health EXCEPT ![I] = Recorded(health[I], TRUE)]
    BY DEF Observe
  <2>2. Recorded(health[I], TRUE) \in HealthRecords
    BY <1>2, RecordedTyped
  <2> QED BY <1>2, <2>1, <2>2
<1>6. d \in FileSets /\ Justified(R, Item, d, ItemOf("parent", I))
  BY <1>2, <1>3, FilesTyped, JustifiedLease DEF Leases
<1>7. /\ d.lease = "result-observed" /\ d.draftSnap = D.draftSnap /\ d.attested = D.attested
      /\ d.result = D.result /\ d.snap = D.snap
      /\ dispatch' = [dispatch EXCEPT ![R][I] = d]
  BY <1>2 DEF FileSets, Put, Observe
<1> HIDE DEF d
<1>8. Touches(d)
  BY <1>6, <1>7, TouchesIs
<1>9. sup.mem \in Runs /\ OnlyItem(sup.mem, Item)
  BY <1>1, ItemFacts
<1>10. Writes(sup.mem) /\ Moves("verify", sup.mem, usage, D.result)
  BY <1>1, <1>2, <1>4, <1>9, WritesIs, MovesIs
<1>11. Material'
  BY <1>1, <1>2, <1>4, <1>7, <1>8, MaterialKept DEF Material
<1>12. Stage("verify", Item, d, D.result)
  BY <1>3, <1>7 DEF Stage, Launched, Observed
<1>13. Budgeted("verify", Item, d, executed', usage, usage, stops, setup.budget)
  BY <1>3, <1>4, <1>7 DEF Budgeted, Executing, Launched
<1> QED BY <1>1, <1>2, <1>3, <1>4, <1>5, <1>6, <1>8, <1>9, <1>10, <1>11, <1>12, <1>13, ItemKept

(* The drafts are what the result says, or the item is blocked.            *)
LEMMA VerifyKeeps ==
  ASSUME SupervisorInv, Verify PROVE SupervisorInv'
<1>1. /\ sup.at = "verify" /\ sup.at \in OnItem \ {"charge"} /\ sup.at \in Launched \ {"execute"}
      /\ "snapshot" \in OnItem \ {"open", "charge"}
  BY DEF Verify, At, OnItem, Launched
<1>2. /\ R \in RunIds /\ I \in Items /\ D \in FileSets /\ sup.held \in Nat
      /\ draft \in [Items -> Nat] /\ product \in [Items -> Nat] /\ usage \in Nat /\ executed \in Nat
      /\ health \in [Items -> HealthRecords]
      /\ stops \in Nat /\ setup.budget \in Nat /\ sup.usage = usage /\ Material
      /\ Justified(R, Item, D, ItemOf("parent", I)) /\ Stage(sup.at, Item, D, sup.held)
      /\ Budgeted(sup.at, Item, D, executed, usage, sup.usage, stops, setup.budget)
  BY <1>1, ItemFacts
<1>3. UNCHANGED <<dispatch, draft, product, usage, health, orphans, executed, stops, setup>>
  BY DEF Verify, files, others
<1>4. CASE draft[I] # sup.held
  BY <1>1, <1>2, <1>3, <1>4, BlockedAndCharged DEF Verify
<1>5. CASE draft[I] = sup.held
  <2>1. Goto("snapshot") /\ UNCHANGED file
    BY <1>5 DEF Verify
  <2>2. Touches(D) /\ Material'
    BY <1>2, <1>3, TouchesIs DEF Material
  <2>3. Stage("snapshot", Item, D, sup.held)
    BY <1>1, <1>2 DEF Stage, Launched, Observed
  <2>4. Budgeted("snapshot", Item, D, executed', usage, usage, stops, setup.budget)
    BY <1>1, <1>2, <1>3 DEF Budgeted, Executing, Launched
  <2> QED BY <1>1, <1>2, <1>3, <2>1, <2>2, <2>3, <2>4, GoesOn
<1> QED BY <1>4, <1>5

(* The drafts are snapshot, as they are by now.                            *)
LEMMA SnapshotKeeps ==
  ASSUME SupervisorInv, Accounted, SnapshotDrafts PROVE SupervisorInv'
<1> DEFINE c == Snapshot(D.draftSnap, draft[I])
           d == [D EXCEPT !.draftSnap = c]
<1>1. /\ sup.at = "snapshot" /\ sup.at \in OnItem \ {"charge"}
      /\ "evidence" \in OnItem \ {"open", "charge"}
  BY DEF SnapshotDrafts, At, OnItem, Launched
<1>2. /\ R \in RunIds /\ I \in Items /\ D \in FileSets /\ sup.held \in Nat
      /\ draft \in [Items -> Nat] /\ product \in [Items -> Nat] /\ usage \in Nat /\ executed \in Nat
      /\ health \in [Items -> HealthRecords]
      /\ stops \in Nat /\ setup.budget \in Nat /\ sup.usage = usage /\ Material
      /\ Justified(R, Item, D, ItemOf("parent", I)) /\ Stage(sup.at, Item, D, sup.held)
      /\ Budgeted(sup.at, Item, D, executed, usage, sup.usage, stops, setup.budget)
  BY <1>1, ItemFacts
<1>3. /\ executed <= usage + 1 + stops /\ executed <= setup.budget + stops
      /\ D.draftSnap # 0 \/ D.snap # 0 => executed <= usage + stops
      /\ D.result # 0 /\ Item.status \in {"active", "review"} /\ D.lease = "result-observed"
      /\ sup.held # 0
  BY <1>1, <1>2 DEF Budgeted, Executing, Launched, Observed, Stage
<1>4. UNCHANGED <<file, draft, product, usage, health, orphans, executed, stops, setup>>
  BY DEF SnapshotDrafts, others
<1>5. draft[I] # 0
  <2>1. orphans \subseteq Orphans /\ draft[I] \in {sup.held} \cup LateOf(orphans, I)
    BY <1>1, <1>2, ItemFacts DEF Accounted
  <2>2. \A x \in LateOf(orphans, I) : x # 0
    BY <2>1 DEF LateOf, Orphans
  <2> QED BY <1>3, <2>1, <2>2
<1>6. CASE c = 0
  <2>1. sup' = Idle /\ UNCHANGED dispatch
    BY <1>6 DEF SnapshotDrafts
  <2>2. D.draftSnap # 0
    BY <1>5, <1>6 DEF Snapshot
  <2>3. Touches(D) /\ Material'
    BY <1>2, <1>4, <2>1, TouchesIs DEF Material
  <2> QED BY <1>1, <1>2, <1>3, <1>4, <2>1, <2>2, <2>3, FailsOnItem
<1>7. CASE c # 0
  <2>1. Goto("evidence") /\ dispatch' = Put("draftSnap", c)
    BY <1>7 DEF SnapshotDrafts
  <2>2. c \in Nat \ {0}
    BY <1>2, <1>7 DEF Snapshot
  <2> HIDE DEF c
  <2>3. d \in FileSets /\ Justified(R, Item, d, ItemOf("parent", I))
    BY <1>2, <1>3, <2>2, FilesTyped, JustifiedDraft
  <2>4. /\ d.lease = D.lease /\ d.draftSnap = c /\ d.attested = D.attested
        /\ d.result = D.result /\ d.snap = D.snap
        /\ dispatch' = [dispatch EXCEPT ![R][I] = d]
    BY <1>2, <2>1 DEF FileSets, Put
  <2> HIDE DEF d
  <2>5. Touches(d)
    BY <2>3, <2>4, TouchesIs
  <2>6. Material'
    BY <1>1, <1>2, <1>4, <1>5, <2>4, <2>5, MaterialKept DEF Material
  <2>7. Stage("evidence", Item, d, sup.held)
    BY <1>3, <2>2, <2>4 DEF Stage, Launched, Observed
  <2>8. Budgeted("evidence", Item, d, executed', usage, usage, stops, setup.budget)
    BY <1>3, <1>4, <2>4 DEF Budgeted, Executing, Launched
  <2> QED BY <1>1, <1>2, <1>4, <2>1, <2>3, <2>5, <2>6, <2>7, <2>8, GoesOn
<1> QED BY <1>6, <1>7

(* What was verified is recorded beside the snapshot.                      *)
LEMMA EvidenceKeeps ==
  ASSUME SupervisorInv, RecordEvidence PROVE SupervisorInv'
<1> DEFINE d == [D EXCEPT !.evidence = sup.held]
<1>1. /\ sup.at = "evidence" /\ sup.at \in OnItem \ {"charge"}
      /\ "attest" \in OnItem \ {"open", "charge"}
  BY DEF RecordEvidence, At, OnItem, Launched
<1>2. /\ R \in RunIds /\ I \in Items /\ D \in FileSets /\ sup.held \in Nat
      /\ draft \in [Items -> Nat] /\ product \in [Items -> Nat] /\ usage \in Nat /\ executed \in Nat
      /\ health \in [Items -> HealthRecords]
      /\ stops \in Nat /\ setup.budget \in Nat /\ sup.usage = usage /\ Material
      /\ Justified(R, Item, D, ItemOf("parent", I)) /\ Stage(sup.at, Item, D, sup.held)
      /\ Budgeted(sup.at, Item, D, executed, usage, sup.usage, stops, setup.budget)
  BY <1>1, ItemFacts
<1>3. /\ executed <= usage + 1 + stops /\ executed <= setup.budget + stops
      /\ D.snap # 0 => executed <= usage + stops
      /\ D.result # 0 /\ Item.status \in {"active", "review"} /\ D.lease = "result-observed"
      /\ D.draftSnap # 0 /\ sup.held # 0
  BY <1>1, <1>2 DEF Budgeted, Executing, Launched, Observed, Stage
<1>4. /\ UNCHANGED <<file, draft, product, usage, health, orphans, executed, stops, setup>>
      /\ Goto("attest")
  BY DEF RecordEvidence, others
<1>5. d \in FileSets /\ Justified(R, Item, d, ItemOf("parent", I))
  BY <1>2, <1>3, FilesTyped, JustifiedEvidence
<1>6. /\ d.lease = D.lease /\ d.draftSnap = D.draftSnap /\ d.attested = D.attested
      /\ d.result = D.result /\ d.snap = D.snap /\ d.evidence = sup.held
      /\ dispatch' = [dispatch EXCEPT ![R][I] = d]
  BY <1>2 DEF FileSets, Put, RecordEvidence
<1> HIDE DEF d
<1>7. Touches(d)
  BY <1>5, <1>6, TouchesIs
<1>8. Material'
  BY <1>1, <1>2, <1>4, <1>6, <1>7, MaterialKept DEF Material
<1>9. Stage("attest", Item, d, sup.held)
  BY <1>3, <1>6 DEF Stage, Launched, Observed
<1>10. Budgeted("attest", Item, d, executed', usage, usage, stops, setup.budget)
  BY <1>3, <1>4, <1>6 DEF Budgeted, Executing, Launched
<1> QED BY <1>1, <1>2, <1>4, <1>5, <1>7, <1>8, <1>9, <1>10, GoesOn

(* The attestor names the result whose drafts were snapshot.               *)
LEMMA AttestorAcceptsKeeps ==
  ASSUME SupervisorInv, AttestorAccepts PROVE SupervisorInv'
<1> DEFINE d == [D EXCEPT !.attested = D.result]
<1>1. /\ sup.at = "attest" /\ sup.at \in OnItem \ {"charge"}
      /\ "attested" \in OnItem \ {"open", "charge"}
  BY DEF AttestorAccepts, At, OnItem, Launched
<1>2. /\ R \in RunIds /\ I \in Items /\ D \in FileSets /\ D.result \in Nat
      /\ draft \in [Items -> Nat] /\ product \in [Items -> Nat] /\ usage \in Nat /\ executed \in Nat
      /\ health \in [Items -> HealthRecords]
      /\ stops \in Nat /\ setup.budget \in Nat /\ sup.usage = usage /\ Material
      /\ Justified(R, Item, D, ItemOf("parent", I)) /\ Stage(sup.at, Item, D, sup.held)
      /\ Budgeted(sup.at, Item, D, executed, usage, sup.usage, stops, setup.budget)
  BY <1>1, ItemFacts DEF FileSets
<1>3. /\ executed <= usage + 1 + stops /\ executed <= setup.budget + stops
      /\ D.snap # 0 => executed <= usage + stops
      /\ D.result # 0 /\ D.draftSnap # 0 /\ D.lease = "result-observed"
      /\ D.evidence = sup.held /\ sup.held # 0 /\ Item.status \in {"active", "review"}
  BY <1>1, <1>2 DEF Budgeted, Executing, Launched, Observed, Stage
<1>4. /\ UNCHANGED <<file, draft, usage, health, orphans, executed, stops, setup>>
      /\ product' = [product EXCEPT ![I] = draft[I]] /\ product' \in [Items -> Nat]
      /\ D.attested = 0 /\ Goto("attested")
  BY <1>2 DEF AttestorAccepts, others
<1>5. Item.status = "active" /\ draft[I] # 0
  BY <1>2, <1>3, <1>4 DEF Justified, Filed, Material
<1>6. d \in FileSets /\ Justified(R, Item, d, ItemOf("parent", I))
  BY <1>2, <1>3, <1>4, <1>5, FilesTyped, JustifiedAttested
<1>7. /\ d.lease = D.lease /\ d.draftSnap = D.draftSnap /\ d.attested = D.result
      /\ d.result = D.result /\ d.snap = D.snap /\ d.evidence = D.evidence
      /\ dispatch' = [dispatch EXCEPT ![R][I] = d]
  BY <1>2 DEF FileSets, Put, AttestorAccepts
<1> HIDE DEF d
<1>8. Touches(d)
  BY <1>6, <1>7, TouchesIs
<1>9. Material'
  BY <1>1, <1>2, <1>4, <1>5, <1>7, <1>8, MaterialKept DEF Material
<1>10. Stage("attested", Item, d, sup.held)
  BY <1>3, <1>7 DEF Stage, Launched, Observed
<1>11. Budgeted("attested", Item, d, executed', usage, usage, stops, setup.budget)
  BY <1>3, <1>4, <1>7 DEF Budgeted, Executing, Launched
<1> QED BY <1>1, <1>2, <1>4, <1>6, <1>8, <1>9, <1>10, <1>11, GoesOn

(* An attestation or a receipt of an earlier launch is found.              *)
LEMMA FoundKeeps ==
  ASSUME SupervisorInv, AttestationFound \/ ReceiptFound PROVE SupervisorInv'
<1> DEFINE p == IF sup.at = "attest" THEN "attested" ELSE "decide"
<1>1. /\ sup.at \in {"attest", "review"} /\ sup.at \in OnItem \ {"charge"}
      /\ p \in OnItem \ {"open", "charge"} /\ Goto(p)
      /\ sup.at = "attest" => p = "attested" /\ D.attested # 0
      /\ sup.at = "review" => p = "decide" /\ D.receipt # NoReceiptFile
  BY DEF AttestationFound, ReceiptFound, At, OnItem, Launched
<1>2. /\ R \in RunIds /\ I \in Items /\ D \in FileSets
      /\ draft \in [Items -> Nat] /\ product \in [Items -> Nat] /\ usage \in Nat /\ executed \in Nat
      /\ health \in [Items -> HealthRecords]
      /\ stops \in Nat /\ setup.budget \in Nat /\ sup.usage = usage /\ Material
      /\ Justified(R, Item, D, ItemOf("parent", I)) /\ Stage(sup.at, Item, D, sup.held)
      /\ Budgeted(sup.at, Item, D, executed, usage, sup.usage, stops, setup.budget)
  BY <1>1, ItemFacts
<1>3. UNCHANGED <<file, dispatch, draft, product, usage, health, orphans, executed, stops, setup>>
  BY DEF AttestationFound, ReceiptFound, files, others
<1>4. Touches(D) /\ Material'
  BY <1>2, <1>3, TouchesIs DEF Material
<1> HIDE DEF p
<1>5. Stage(p, Item, D, sup.held)
  BY <1>1, <1>2 DEF Stage, Launched, Observed
<1>6. Budgeted(p, Item, D, executed', usage, usage, stops, setup.budget)
  BY <1>1, <1>2, <1>3 DEF Budgeted, Executing, Launched
<1> QED BY <1>1, <1>2, <1>3, <1>4, <1>5, <1>6, GoesOn

(* The attestation is checked, and the product snapshot.                   *)
LEMMA FinalizeKeeps ==
  ASSUME SupervisorInv, Finalize PROVE SupervisorInv'
<1> DEFINE e == [D EXCEPT !.lease = "product-attested"]
           c == Snapshot(D.snap, product[I])
<1>1. /\ sup.at = "attested" /\ sup.at \in OnItem \ {"charge"} /\ sup.at \in Launched \ {"execute"}
      /\ "reconcile" \in OnItem \ {"open", "charge"}
  BY DEF Finalize, At, OnItem, Launched
<1>2. /\ R \in RunIds /\ I \in Items /\ D \in FileSets
      /\ draft \in [Items -> Nat] /\ product \in [Items -> Nat] /\ usage \in Nat /\ executed \in Nat
      /\ health \in [Items -> HealthRecords]
      /\ stops \in Nat /\ setup.budget \in Nat /\ sup.usage = usage /\ Material
      /\ Justified(R, Item, D, ItemOf("parent", I)) /\ Stage(sup.at, Item, D, sup.held)
      /\ Budgeted(sup.at, Item, D, executed, usage, sup.usage, stops, setup.budget)
  BY <1>1, ItemFacts
<1>3. /\ executed <= usage + 1 + stops /\ executed <= setup.budget + stops
      /\ D.snap # 0 => executed <= usage + stops
      /\ D.result # 0 /\ D.draftSnap # 0 /\ D.attested # 0 /\ D.evidence = sup.held
      /\ Item.status \in {"active", "review"}
  BY <1>1, <1>2 DEF Budgeted, Executing, Launched, Observed, Stage
<1>4. UNCHANGED <<draft, product, usage, health, orphans, executed, stops, setup>>
  BY DEF Finalize, others
<1>5. CASE AttestationIssues
  <2>1. BlockItem(1) /\ UNCHANGED dispatch
    BY <1>5 DEF Finalize
  <2> QED BY <1>1, <1>2, <1>4, <2>1, BlockedAndCharged
<1>6. CASE ~AttestationIssues
  <2>1. D.attested = D.evidence /\ product[I] # 0
    BY <1>2, <1>3, <1>6 DEF AttestationIssues, Material
  <2>2. e \in FileSets /\ Justified(R, Item, e, ItemOf("parent", I))
    BY <1>2, <2>1, FilesTyped, JustifiedLease DEF Leases
  <2>3. /\ e.lease = "product-attested" /\ e.draftSnap = D.draftSnap /\ e.attested = D.attested
        /\ e.result = D.result /\ e.snap = D.snap /\ e.evidence = D.evidence
    BY <1>2 DEF FileSets
  <2>4. CASE c = 0
    <3>1. /\ sup' = Idle /\ UNCHANGED file
          /\ dispatch' = [dispatch EXCEPT ![R][I].lease = "product-attested", ![R][I].snap = @]
      BY <1>6, <2>4 DEF Finalize
    <3>2. dispatch' = [dispatch EXCEPT ![R][I] = e]
      BY <1>2, <3>1 DEF FileSets
    <3>3. D.snap # 0
      BY <2>1, <2>4 DEF Snapshot
    <3> HIDE DEF e, c
    <3>4. Touches(e)
      BY <2>2, <3>2, TouchesIs
    <3>5. Material'
      BY <1>1, <1>2, <1>4, <2>3, <3>4, MaterialKept DEF Material
    <3> QED BY <1>1, <1>2, <1>3, <1>4, <2>2, <3>1, <3>3, <3>4, <3>5, FailsOnItem
  <2>5. CASE c # 0
    <3> DEFINE d == [e EXCEPT !.snap = c]
    <3>1. /\ Goto("reconcile") /\ UNCHANGED file
          /\ dispatch' = [dispatch EXCEPT ![R][I].lease = "product-attested", ![R][I].snap = c]
      BY <1>6, <2>5 DEF Finalize
    <3>2. dispatch' = [dispatch EXCEPT ![R][I] = d]
      BY <1>2, <3>1
    <3>3. D.snap \in {0, c} /\ c \in Nat \ {0}
      BY <1>2, <2>5 DEF Snapshot
    <3>4. d \in FileSets
      BY <2>2, <3>3, FilesTyped
    <3>5. /\ d.lease = "product-attested" /\ d.draftSnap = D.draftSnap /\ d.attested = D.attested
          /\ d.result = D.result /\ d.snap = c /\ d.evidence = D.evidence
      BY <2>2, <2>3 DEF FileSets
    <3>6. Justified(R, Item, d, ItemOf("parent", I))
      <4> HIDE DEF e, c
      <4> QED BY <1>3, <2>2, <2>3, <3>3, JustifiedSnap
    <3> HIDE DEF d, e, c
    <3>7. Touches(d)
      BY <3>2, <3>4, TouchesIs
    <3>8. Material'
      BY <1>1, <1>2, <1>4, <3>5, <3>7, MaterialKept DEF Material
    <3>9. Stage("reconcile", Item, d, sup.held)
      BY <1>3, <2>1, <3>3, <3>5 DEF Stage, Launched, Observed
    <3>10. Budgeted("reconcile", Item, d, executed', usage, usage, stops, setup.budget)
      BY <1>3, <1>4 DEF Budgeted, Executing, Launched
    <3> QED BY <1>1, <1>2, <1>4, <3>1, <3>6, <3>7, <3>8, <3>9, <3>10, GoesOn
  <2> QED BY <2>4, <2>5
<1> QED BY <1>5, <1>6

(* The success is recorded with the digest of the snapshot.                *)
LEMMA ReconcileResultKeeps ==
  ASSUME SupervisorInv, ReconcileResult PROVE SupervisorInv'
<1>1. /\ sup.at = "reconcile" /\ sup.at \in OnItem \ {"charge"} /\ sup.at \in OnItem
      /\ "review" \in OnItem \ {"open", "charge"} /\ "review" \in OnItem \ {"open"}
  BY DEF ReconcileResult, At, OnItem, Launched
<1>2. /\ R \in RunIds /\ I \in Items /\ sup.mem \in Runs /\ Item \in RuntimeItem /\ D \in FileSets
      /\ draft \in [Items -> Nat] /\ product \in [Items -> Nat] /\ usage \in Nat /\ executed \in Nat
      /\ health \in [Items -> HealthRecords]
      /\ stops \in Nat /\ setup.budget \in Nat /\ sup.usage = usage /\ Material
      /\ Justified(R, Item, D, ItemOf("parent", I)) /\ Stage(sup.at, Item, D, sup.held)
      /\ Budgeted(sup.at, Item, D, executed, usage, sup.usage, stops, setup.budget)
  BY <1>1, ItemFacts
<1>3. /\ executed <= usage + 1 + stops /\ executed <= setup.budget + stops
      /\ D.result # 0 /\ D.snap # 0 /\ D.attested # 0 /\ D.attested = D.evidence
      /\ D.lease # "reviewed" /\ Item.status \in {"active", "review"}
  BY <1>1, <1>2 DEF Budgeted, Executing, Launched, Observed, Stage
<1>4. UNCHANGED <<dispatch, draft, product, usage, health, orphans, executed, stops, setup>>
  BY DEF ReconcileResult, files, others
<1>5. CASE Item.status = "review"
  <2>1. Goto("review") /\ UNCHANGED file
    BY <1>5 DEF ReconcileResult
  <2>2. Touches(D) /\ Material'
    BY <1>2, <1>4, <2>1, TouchesIs DEF Material
  <2>3. Stage("review", Item, D, sup.held)
    BY <1>3, <1>5 DEF Stage, Launched, Observed
  <2>4. Budgeted("review", Item, D, executed', usage, usage, stops, setup.budget)
    BY <1>3, <1>4 DEF Budgeted, Executing, Launched
  <2> QED BY <1>1, <1>2, <1>4, <2>1, <2>2, <2>3, <2>4, GoesOn
<1>6. CASE Item.status # "review"
  <2> DEFINE s == WithResult(Item, Success(Item.attempt, 0), D.snap)
  <2>1. PICK m \in Reconcile(sup.mem, I, Success(Item.attempt, 0), D.snap) :
           /\ file' = [file EXCEPT ![R] = Whole(m)]
           /\ sup' = [sup EXCEPT !.at = "review", !.mem = m]
    BY <1>6 DEF ReconcileResult
  <2>2. Item.attempt \in Nat /\ D.snap \in Nat
    BY <1>2 DEF RuntimeItem, FileSets
  <2>3. /\ Success(Item.attempt, 0) \in Result /\ Success(Item.attempt, 0).status \in ReportStatuses
        /\ Success(Item.attempt, 0).attempt = Item.attempt
    BY <2>2, SuccessIs
  <2>4. /\ m \in Runs /\ m.item[I] = s /\ Item.attempt # 0
        /\ \A j \in Items \ {I} : m.item[j] = sup.mem.item[j]
    BY <1>2, <2>1, <2>2, <2>3, ReconcileIs
  <2>5. Item.status = "active"
    BY <1>3, <1>6
  <2>6. s.status = "review" /\ Justified(R, s, D, ItemOf("parent", I))
    BY <1>2, <1>3, <2>4, <2>5, JustifiedReconciled
  <2> HIDE DEF s
  <2>7. OnlyItem(m, s) /\ Writes(m) /\ Moves("review", m, usage, sup.held)
    BY <1>2, <2>1, <2>4, <2>5, WritesIs, MovesIs DEF OnlyItem
  <2>8. Touches(D) /\ Material'
    BY <1>2, <1>4, TouchesIs DEF Material
  <2>9. Stage("review", s, D, sup.held)
    BY <1>3, <2>6 DEF Stage, Launched, Observed
  <2>10. Budgeted("review", s, D, executed', usage, usage, stops, setup.budget)
    BY <1>3, <1>4 DEF Budgeted, Executing, Launched
  <2>11. sup.held \in Nat
    BY <1>1, ItemFacts
  <2> QED BY <1>1, <1>2, <1>4, <2>6, <2>7, <2>8, <2>9, <2>10, <2>11, ItemKept
<1> QED BY <1>5, <1>6

(* The receipt repeats the digest of the packet.                           *)
LEMMA ReviewerDecidesKeeps ==
  ASSUME SupervisorInv, ReviewerDecides PROVE SupervisorInv'
<1>1. /\ sup.at = "review" /\ sup.at \in OnItem \ {"charge"}
      /\ "decide" \in OnItem \ {"open", "charge"}
  BY DEF ReviewerDecides, At, OnItem, Launched
<1>2. /\ R \in RunIds /\ I \in Items /\ D \in FileSets
      /\ draft \in [Items -> Nat] /\ product \in [Items -> Nat] /\ usage \in Nat /\ executed \in Nat
      /\ health \in [Items -> HealthRecords]
      /\ stops \in Nat /\ setup.budget \in Nat /\ sup.usage = usage /\ Material
      /\ Justified(R, Item, D, ItemOf("parent", I)) /\ Stage(sup.at, Item, D, sup.held)
      /\ Budgeted(sup.at, Item, D, executed, usage, sup.usage, stops, setup.budget)
  BY <1>1, ItemFacts
<1>3. /\ executed <= usage + 1 + stops /\ executed <= setup.budget + stops
      /\ D.lease # "reviewed" /\ Item.status = "review"
      /\ D.attested # 0 /\ D.attested = D.evidence
  BY <1>1, <1>2 DEF Budgeted, Executing, Launched, Observed, Stage
<1>4. UNCHANGED <<file, draft, product, usage, health, orphans, executed, stops, setup>>
      /\ Goto("decide")
  BY DEF ReviewerDecides, others
<1>5. PICK a \in {"accepted", "rejected"} : dispatch' = Put("receipt", [decision |-> a, digest |-> D.snap])
  BY DEF ReviewerDecides
<1> DEFINE c == [decision |-> a, digest |-> D.snap]
           d == [D EXCEPT !.receipt = c]
<1>6. c \in Receipts
  BY <1>2 DEF Receipts, FileSets
<1>7. d \in FileSets
  BY <1>2, <1>6, FilesTyped
<1>8. c # NoReceiptFile /\ Justified(R, Item, d, ItemOf("parent", I))
  BY <1>2, <1>3, JustifiedReceipt
<1>9. /\ d.lease = D.lease /\ d.draftSnap = D.draftSnap /\ d.attested = D.attested
      /\ d.evidence = D.evidence /\ d.receipt = c /\ dispatch' = [dispatch EXCEPT ![R][I] = d]
  BY <1>2, <1>5 DEF FileSets, Put
<1> HIDE DEF c, d
<1>10. Touches(d)
  BY <1>7, <1>9, TouchesIs
<1>11. Material'
  BY <1>1, <1>2, <1>4, <1>9, <1>10, MaterialKept DEF Material
<1>12. Stage("decide", Item, d, sup.held)
  BY <1>3, <1>8, <1>9 DEF Stage, Launched, Observed
<1>13. Budgeted("decide", Item, d, executed', usage, usage, stops, setup.budget)
  BY <1>3, <1>4 DEF Budgeted, Executing, Launched
<1> QED BY <1>1, <1>2, <1>4, <1>8, <1>10, <1>11, <1>12, <1>13, GoesOn

(* The receipt at hand is one for this attempt, so it is never refused.    *)
LEMMA DecideKeeps ==
  ASSUME SupervisorInv, Decide PROVE SupervisorInv'
<1>1. /\ sup.at = "decide" /\ sup.at \in OnItem \ {"charge"} /\ sup.at \in OnItem
      /\ "close" \in OnItem \ {"open"}
  BY DEF Decide, At, OnItem, Launched
<1>2. /\ sup.held \in Nat /\ R \in RunIds /\ I \in Items /\ sup.mem \in Runs /\ Item \in RuntimeItem /\ D \in FileSets
      /\ draft \in [Items -> Nat] /\ product \in [Items -> Nat] /\ usage \in Nat /\ executed \in Nat
      /\ health \in [Items -> HealthRecords]
      /\ stops \in Nat /\ setup.budget \in Nat /\ sup.usage = usage /\ Material
      /\ Justified(R, Item, D, ItemOf("parent", I)) /\ Stage(sup.at, Item, D, sup.held)
      /\ Budgeted(sup.at, Item, D, executed, usage, sup.usage, stops, setup.budget)
  BY <1>1, ItemFacts
<1>3. /\ executed <= usage + 1 + stops /\ executed <= setup.budget + stops
      /\ D.lease # "reviewed" /\ Item.status = "review" /\ D.receipt # NoReceiptFile
      /\ D.attested # 0 /\ D.attested = D.evidence
  BY <1>1, <1>2 DEF Budgeted, Executing, Launched, Observed, Stage
<1>4. D.receipt.digest = Item.digest
  BY <1>2, <1>3 DEF Justified
<1>5. UNCHANGED <<dispatch, draft, product, usage, health, orphans, executed, stops, setup>>
  BY DEF Decide, files, others
<1>6. PICK m \in Review(sup.mem, I, Verdict) :
         /\ file' = [file EXCEPT ![R] = Whole(m)]
         /\ sup' = [sup EXCEPT !.at = "close", !.mem = m]
  BY <1>4 DEF Decide
<1>7. Verdict \in Receipt /\ Verdict.decision = D.receipt.decision /\ Verdict.attempt = Item.attempt
  <2>1. Item.attempt \in Nat /\ Item.result \in Result /\ Item.digest \in Nat
    BY <1>2 DEF RuntimeItem
  <2>2. D.receipt.decision \in {"accepted", "rejected", "none"}
    BY <1>2 DEF FileSets, Receipts
  <2> QED BY <2>1, <2>2 DEF Verdict, Receipt
<1> DEFINE s == WithReview(Item, Verdict)
<1>8. /\ m \in Runs /\ m.item[I] = s /\ \A j \in Items \ {I} : m.item[j] = sup.mem.item[j]
      /\ Verdict.decision = "accepted" => Item.attempt # 0
      /\ Verdict.decision \in {"accepted", "rejected"}
  BY <1>2, <1>6, <1>7, ReviewIs
<1>9. Justified(R, s, D, ItemOf("parent", I)) /\ D.receipt.decision = s.review.decision
  <2>1. /\ Item \in RuntimeItem /\ D \in FileSets /\ Verdict \in Receipt
        /\ Item.status = "review" /\ Justified(R, Item, D, ItemOf("parent", I))
        /\ D.lease # "reviewed" /\ D.receipt # NoReceiptFile
        /\ Verdict.decision = D.receipt.decision /\ Verdict.decision \in {"accepted", "rejected"}
        /\ Verdict.decision = "accepted" => Item.attempt # 0
        /\ D.attested # 0 /\ D.attested = D.evidence
    BY <1>2, <1>3, <1>7, <1>8
  <2> QED BY <2>1, JustifiedReviewed
<1> HIDE DEF s
<1>10. OnlyItem(m, s) /\ Writes(m) /\ Moves("close", m, usage, sup.held)
  BY <1>2, <1>3, <1>6, <1>8, WritesIs, MovesIs DEF OnlyItem
<1>11. Touches(D) /\ Material'
  BY <1>2, <1>5, TouchesIs DEF Material
<1>12. Stage("close", s, D, sup.held)
  BY <1>9 DEF Stage, Launched, Observed
<1>13. Budgeted("close", s, D, executed', usage, usage, stops, setup.budget)
  BY <1>3, <1>5 DEF Budgeted, Executing, Launched
<1> QED BY <1>1, <1>2, <1>5, <1>9, <1>10, <1>11, <1>12, <1>13, ItemKept

(* The last lease names the decision of the review.                        *)
LEMMA CloseKeeps ==
  ASSUME SupervisorInv, Close PROVE SupervisorInv'
<1> DEFINE d == [D EXCEPT !.lease = "reviewed"]
<1>1. /\ sup.at = "close" /\ sup.at \in OnItem /\ sup.at # "idle"
      /\ "charge" \in OnItem \ {"open"}
  BY DEF Close, At, OnItem
<1>2. /\ sup.held \in Nat /\ R \in RunIds /\ I \in Items /\ sup.mem \in Runs /\ D \in FileSets
      /\ draft \in [Items -> Nat] /\ product \in [Items -> Nat] /\ usage \in Nat /\ executed \in Nat
      /\ health \in [Items -> HealthRecords]
      /\ stops \in Nat /\ setup.budget \in Nat /\ sup.usage = usage /\ Material
      /\ Justified(R, Item, D, ItemOf("parent", I)) /\ Stage(sup.at, Item, D, sup.held)
      /\ Budgeted(sup.at, Item, D, executed, usage, sup.usage, stops, setup.budget)
      /\ OnlyItem(sup.mem, Item)
  BY <1>1, ItemFacts
<1>3. /\ executed <= usage + 1 + stops /\ executed <= setup.budget + stops
      /\ D.receipt.decision = Item.review.decision
  BY <1>1, <1>2 DEF Budgeted, Executing, Launched, Observed, Stage
<1>4. /\ UNCHANGED <<file, draft, product, usage, health, orphans, executed, stops, setup>>
      /\ sup' = [sup EXCEPT !.at = "charge", !.usage = @ + 1]
  BY DEF Close, others
<1>5. d \in FileSets /\ Justified(R, Item, d, ItemOf("parent", I))
  BY <1>2, <1>3, FilesTyped, JustifiedLease DEF Leases
<1>6. /\ d.draftSnap = D.draftSnap /\ d.attested = D.attested
      /\ dispatch' = [dispatch EXCEPT ![R][I] = d]
  BY <1>2 DEF FileSets, Put, Close
<1> HIDE DEF d
<1>7. Touches(d) /\ Writes(sup.mem) /\ Moves("charge", sup.mem, usage + 1, sup.held)
  BY <1>1, <1>2, <1>4, <1>5, <1>6, TouchesIs, WritesIs, MovesIs
<1>8. Material'
  BY <1>1, <1>2, <1>4, <1>6, <1>7, MaterialKept DEF Material
<1>9. Stage("charge", Item, d, sup.held)
  BY DEF Stage, Launched, Observed
<1>10. Budgeted("charge", Item, d, executed', usage, usage + 1, stops, setup.budget)
  BY <1>2, <1>3, <1>4 DEF Budgeted, Executing, Launched
<1>11. usage + 1 \in Nat
  BY <1>2
<1> QED BY <1>1, <1>2, <1>4, <1>5, <1>7, <1>8, <1>9, <1>10, <1>11, ItemKept

(***************************************************************************)
(* Steps without an item at hand.                                          *)
(***************************************************************************)
BetweenItems == {"cycle", "plan", "pick", "finish"}

LEMMA OffItem ==
  ASSUME SupTypes', AllJustified', Material', ChildUntouched', MemoryCurrent',
         \A i \in sup'.queue : sup'.mem.item[i].status \in PickedUp, sup'.at \in BetweenItems,
         executed' <= setup'.budget + stops', executed' <= usage' + stops'
  PROVE  SupervisorInv'
<1>1. QueueOpen'
  BY DEF QueueOpen, OnItem, Launched, BetweenItems
<1>2. Stage(sup.at, ItemOf(R, I), D, sup.held)'
  BY DEF Stage, Launched, Observed, BetweenItems
<1>3. Budgeted(sup.at, ItemOf(R, I), D, executed, usage, sup.usage, stops, setup.budget)'
  BY DEF Budgeted, Executing, Launched, BetweenItems
<1> QED BY <1>1, <1>2, <1>3 DEF SupervisorInv

(* No file of an attempt is written, and no item moves but open ones.      *)
LEMMA Carried ==
  ASSUME SupervisorInv, UNCHANGED <<dispatch, draft, product>>,
         file'["child"].state = "absent" => file["child"].state = "absent",
         \A r \in RunIds, i \in Items :
            \/ file'[r].run.item[i] = file[r].run.item[i]
            \/ /\ file[r].run.item[i].status # "accepted"
               /\ \E t \in {"ready", "cancel"} : file'[r].run.item[i] = Moved(file[r].run.item[i], t)
  PROVE  AllJustified' /\ Material' /\ ChildUntouched'
<1>1. Material' /\ ChildUntouched'
  BY DEF SupervisorInv, Material, ChildUntouched
<1>2. ASSUME NEW r \in RunIds, NEW i \in Items
      PROVE  Justified(r, file'[r].run.item[i], dispatch[r][i], file'["parent"].run.item[i])
  <2> DEFINE s == file[r].run.item[i]
             p == file["parent"].run.item[i]
             q == file'["parent"].run.item[i]
  <2>1. s \in RuntimeItem /\ "parent" \in RunIds
    BY DEF SupervisorInv, SupTypes, RunFiles, Runs, RunIds
  <2>2. Justified(r, s, dispatch[r][i], p)
    BY DEF SupervisorInv, AllJustified, ItemOf
  <2>3. p.status = "accepted" => q = p
    BY <2>1
  <2>4. Justified(r, s, dispatch[r][i], q)
    <3> HIDE DEF s, p, q
    <3> QED BY <2>2, <2>3, JustifiedParent
  <2>5. CASE file'[r].run.item[i] = s
    BY <2>4, <2>5
  <2>6. CASE /\ s.status # "accepted"
             /\ \E t \in {"ready", "cancel"} : file'[r].run.item[i] = Moved(s, t)
    <3>1. PICK t \in {"ready", "cancel"} : file'[r].run.item[i] = Moved(s, t)
      BY <2>6
    <3>2. Justified(r, Moved(s, t), dispatch[r][i], q)
      <4> HIDE DEF s, q
      <4> QED BY <2>1, <2>4, <2>6, JustifiedMoved
    <3> QED BY <3>1, <3>2
  <2> QED BY <2>5, <2>6
<1> QED BY <1>1, <1>2 DEF AllJustified, ItemOf

(* What is known between two items.                                        *)
LEMMA RunFacts ==
  ASSUME SupervisorInv
  PROVE  /\ R \in RunIds /\ "parent" \in RunIds /\ "child" \in RunIds
         /\ sup.mem \in Runs /\ sup \in SupStates /\ file \in [RunIds -> RunFiles]
         /\ \A r \in RunIds : file[r].run \in Runs
         /\ usage \in Nat /\ executed \in Nat /\ stops \in Nat /\ setup.budget \in Nat
         /\ sup.at # "idle" => sup.mem = file[R].run /\ file[R].state = "whole"
         /\ executed <= setup.budget + stops
         /\ sup.at \in BetweenItems \cup {"idle"} => executed <= usage + stops
         /\ sup.at \in BetweenItems => sup.usage = usage
<1>1. /\ R \in RunIds /\ "parent" \in RunIds /\ "child" \in RunIds
      /\ sup.mem \in Runs /\ sup \in SupStates /\ file \in [RunIds -> RunFiles]
      /\ usage \in Nat /\ executed \in Nat /\ stops \in Nat /\ setup.budget \in Nat
  BY DEF SupervisorInv, SupTypes, SupStates, RunIds, Setups
<1>2. \A r \in RunIds : file[r].run \in Runs
  BY <1>1 DEF RunFiles
<1>3. sup.at # "idle" => sup.mem = file[R].run /\ file[R].state = "whole"
  BY DEF SupervisorInv, MemoryCurrent
<1>4. sup.at \in BetweenItems => sup.usage = usage
  BY DEF SupervisorInv, MemoryCurrent, BetweenItems
<1>5. /\ executed <= setup.budget + stops
      /\ sup.at \in BetweenItems \cup {"idle"} => executed <= usage + stops
  BY DEF SupervisorInv, Budgeted, Executing, Launched, BetweenItems
<1> QED BY <1>1, <1>2, <1>3, <1>4, <1>5

(* A launch finds the run in its file and the usage in its own.            *)
LEMMA LaunchKeeps ==
  ASSUME SupervisorInv, Launch PROVE SupervisorInv'
<1>1. /\ sup.at = "idle" /\ file["parent"].state \in {"absent", "whole"}
      /\ file' = [file EXCEPT !["parent"].state = "whole"]
      /\ sup' = [Idle EXCEPT !.at = "cycle", !.run = "parent", !.mem = file["parent"].run, !.usage = usage]
      /\ UNCHANGED <<dispatch, draft, product, usage, health, orphans, executed, stops, setup>>
  BY DEF Launch, LoadRun, At, files, others
<1>2. /\ file \in [RunIds -> RunFiles] /\ "parent" \in RunIds /\ "child" \in RunIds
      /\ file["parent"].run \in Runs /\ usage \in Nat
      /\ executed <= setup.budget + stops /\ executed <= usage + stops
  BY <1>1, RunFacts
<1>3. /\ file' \in [RunIds -> RunFiles] /\ file'["child"] = file["child"]
      /\ \A r \in RunIds : file'[r].run = file[r].run
      /\ file'["parent"].state = "whole"
  BY <1>1, <1>2 DEF RunFiles
<1>4. /\ sup' \in SupStates /\ sup'.at = "cycle" /\ sup'.run = "parent" /\ sup'.queue = {}
      /\ sup'.mem = file["parent"].run /\ sup'.usage = usage
  BY <1>1, <1>2, IdleTyped DEF SupStates, SupPlaces
<1>5. SupTypes'
  BY <1>1, <1>3, <1>4 DEF SupervisorInv, SupTypes
<1>6. AllJustified' /\ Material' /\ ChildUntouched'
  BY <1>1, <1>3, Carried
<1>7. MemoryCurrent'
  BY <1>1, <1>2, <1>3, <1>4 DEF MemoryCurrent
<1> QED BY <1>1, <1>2, <1>4, <1>5, <1>6, <1>7, OffItem DEF BetweenItems

(* A rejected binding writes no event.                                     *)
LEMMA RejectKeeps ==
  ASSUME SupervisorInv, RejectBinding PROVE SupervisorInv'
<1>1. /\ sup.at = "idle" /\ file' = [file EXCEPT !["parent"].state = "whole"]
      /\ setup' = [setup EXCEPT !.rejected = TRUE]
      /\ UNCHANGED <<dispatch, draft, product, usage, health, sup, orphans, executed, stops>>
  BY DEF RejectBinding, At, files
<1>2. file \in [RunIds -> RunFiles] /\ "parent" \in RunIds /\ "child" \in RunIds
  BY RunFacts
<1>3. /\ file' \in [RunIds -> RunFiles] /\ file'["child"] = file["child"]
      /\ \A r \in RunIds : file'[r].run = file[r].run
  BY <1>1, <1>2 DEF RunFiles
<1>4. setup' \in Setups /\ setup'.budget = setup.budget /\ setup'.kills = setup.kills
  BY <1>1 DEF SupervisorInv, SupTypes, Setups
<1>5. SupTypes'
  BY <1>1, <1>3, <1>4 DEF SupervisorInv, SupTypes
<1>6. AllJustified' /\ Material' /\ ChildUntouched'
  BY <1>1, <1>3, Carried
<1>7. MemoryCurrent' /\ QueueOpen'
  BY <1>1 DEF MemoryCurrent, SupervisorInv, QueueOpen, OnItem, Launched
<1>8. Stage(sup.at, ItemOf(R, I), D, sup.held)'
  BY <1>1 DEF Stage, Launched, Observed
<1>9. Budgeted(sup.at, ItemOf(R, I), D, executed, usage, sup.usage, stops, setup.budget)'
  BY <1>1, <1>4, RunFacts DEF Budgeted, Executing, Launched
<1> QED BY <1>5, <1>6, <1>7, <1>8, <1>9 DEF SupervisorInv

(* A cycle begins, or the loop ends; a cancelled run is cancelled.         *)
LEMMA CycleKeeps ==
  ASSUME SupervisorInv, Cycle PROVE SupervisorInv'
<1>1. /\ sup.at = "cycle" /\ sup.at # "idle"
      /\ UNCHANGED <<dispatch, draft, product, usage, health, orphans, executed, stops, setup>>
  BY DEF Cycle, At, files, others
<1>2. /\ R \in RunIds /\ "child" \in RunIds /\ sup.mem \in Runs /\ sup \in SupStates
      /\ file \in [RunIds -> RunFiles] /\ sup.mem = file[R].run /\ file[R].state = "whole"
      /\ usage \in Nat /\ sup.usage = usage
      /\ executed <= setup.budget + stops /\ executed <= usage + stops
  BY <1>1, RunFacts DEF BetweenItems
<1>3. CASE UNCHANGED file /\ sup' = Idle
  <2>1. AllJustified' /\ Material' /\ ChildUntouched'
    BY <1>1, <1>3, Carried
  <2>2. SupTypes'
    BY <1>1, <1>3, IdleTyped DEF SupervisorInv, SupTypes
  <2> QED BY <1>1, <1>2, <1>3, <2>1, <2>2, Rests
<1>4. CASE sup' = Idle /\ file' = [file EXCEPT ![R] = Whole(CancelAll(sup.mem))]
  <2>1. /\ CancelAll(sup.mem) \in Runs
        /\ \A i \in Items : \/ CancelAll(sup.mem).item[i] = sup.mem.item[i]
                            \/ /\ sup.mem.item[i].status # "accepted"
                               /\ CancelAll(sup.mem).item[i] = Moved(sup.mem.item[i], "cancel")
    BY <1>2, CancelIs
  <2>2. Writes(CancelAll(sup.mem))
    BY <1>4, <2>1, WritesIs
  <2>3. /\ file'[R].run = CancelAll(sup.mem) /\ file'[R].state = "whole"
        /\ \A r \in RunIds \ {R} : file'[r] = file[r]
    BY <2>2 DEF Writes, Whole
  <2>4. AllJustified' /\ Material' /\ ChildUntouched'
    <3>1. file'["child"].state = "absent" => file["child"].state = "absent"
      BY <1>2, <2>3
    <3>2. ASSUME NEW r \in RunIds, NEW i \in Items
          PROVE  \/ file'[r].run.item[i] = file[r].run.item[i]
                 \/ /\ file[r].run.item[i].status # "accepted"
                    /\ \E t \in {"ready", "cancel"} : file'[r].run.item[i] = Moved(file[r].run.item[i], t)
      BY <1>2, <2>1, <2>3
    <3> QED BY <1>1, <3>1, <3>2, Carried
  <2>5. SupTypes'
    BY <1>1, <1>4, <2>2, IdleTyped DEF SupervisorInv, SupTypes, Writes
  <2> QED BY <1>1, <1>2, <1>4, <2>4, <2>5, Rests
<1>5. ASSUME NEW p \in {"finish", "plan"}, NEW n \in 0..MaxCycles,
             UNCHANGED file, sup' = [sup EXCEPT !.at = p, !.cycles = n]
      PROVE  SupervisorInv'
  <2>1. AllJustified' /\ Material' /\ ChildUntouched'
    BY <1>1, <1>5, Carried
  <2>2. /\ sup' \in SupStates /\ sup'.at = p /\ sup'.mem = sup.mem /\ sup'.run = R
        /\ sup'.usage = usage /\ sup'.queue = sup.queue
    BY <1>2, <1>5 DEF SupStates, SupPlaces
  <2>3. SupTypes'
    BY <1>1, <1>5, <2>2 DEF SupervisorInv, SupTypes
  <2>4. MemoryCurrent' /\ \A i \in sup'.queue : sup'.mem.item[i].status \in PickedUp
    BY <1>1, <1>2, <1>5, <2>2 DEF MemoryCurrent, SupervisorInv, QueueOpen
  <2> QED BY <1>1, <1>2, <2>1, <2>2, <2>3, <2>4, OffItem DEF BetweenItems
<1>6. sup.cycles \in 0..MaxCycles /\ MaxCycles \in Nat
  BY <1>2, SupervisorAssumption DEF SupStates
<1>7. CASE OutOfCycles \/ control[R].torn
  BY <1>3, <1>7 DEF Cycle, Cancels
<1>8. CASE ~(OutOfCycles \/ control[R].torn) /\ control[R].state \in Stops
  BY <1>3, <1>4, <1>8 DEF Cycle, Cancels
<1>9. CASE ~(OutOfCycles \/ control[R].torn) /\ control[R].state \notin Stops
  <2>1. UNCHANGED file
    BY <1>9 DEF Cycle, Cancels, Stops
  <2>2. CASE Outcome(sup.mem) \in Final
    <3>1. sup' = [sup EXCEPT !.at = "finish"]
      BY <1>9, <2>2 DEF Cycle
    <3>2. sup' = [sup EXCEPT !.at = "finish", !.cycles = sup.cycles]
      BY <1>2, <3>1 DEF SupStates
    <3> QED BY <1>5, <1>6, <2>1, <3>2
  <2>3. CASE Outcome(sup.mem) \notin Final
    <3>1. sup' = [sup EXCEPT !.at = "plan", !.cycles = sup.cycles + 1]
      BY <1>9, <2>3 DEF Cycle
    <3>2. sup.cycles + 1 \in 0..MaxCycles
      BY <1>6, <1>9 DEF OutOfCycles
    <3> QED BY <1>5, <2>1, <3>1, <3>2
  <2> QED BY <2>2, <2>3
<1> QED BY <1>7, <1>8, <1>9

(* Items are readied and queued.                                           *)
LEMMA PlanKeeps ==
  ASSUME SupervisorInv, Plan PROVE SupervisorInv'
<1>1. /\ sup.at = "plan" /\ sup.at # "idle"
      /\ UNCHANGED <<dispatch, draft, product, usage, health, orphans, executed, stops, setup>>
  BY DEF Plan, At, files, others
<1>2. /\ R \in RunIds /\ "child" \in RunIds /\ sup.mem \in Runs /\ sup \in SupStates
      /\ file \in [RunIds -> RunFiles] /\ sup.mem = file[R].run /\ file[R].state = "whole"
      /\ usage \in Nat /\ sup.usage = usage
      /\ executed <= setup.budget + stops /\ executed <= usage + stops
  BY <1>1, RunFacts DEF BetweenItems
<1>3. PICK m \in Advance(sup.mem) :
         LET runnable == {i \in Items : m.item[i].status \in PickedUp}
         IN  /\ file' = [file EXCEPT ![R] = Whole(m)]
             /\ sup' = IF runnable = {} THEN Idle
                       ELSE [sup EXCEPT !.at = "pick", !.mem = m, !.queue = runnable]
  BY DEF Plan
<1> DEFINE runnable == {i \in Items : m.item[i].status \in PickedUp}
<1>4. /\ file' = [file EXCEPT ![R] = Whole(m)]
      /\ sup' = IF runnable = {} THEN Idle
                ELSE [sup EXCEPT !.at = "pick", !.mem = m, !.queue = runnable]
  BY <1>3
<1>5. /\ m \in Runs
      /\ \A i \in Items : \/ m.item[i] = sup.mem.item[i]
                          \/ sup.mem.item[i].status # "accepted" /\ m.item[i] = Moved(sup.mem.item[i], "ready")
  BY <1>2, AdvanceIs
<1>6. Writes(m)
  BY <1>4, <1>5, WritesIs
<1>7. /\ file'[R].run = m /\ file'[R].state = "whole"
      /\ \A r \in RunIds \ {R} : file'[r] = file[r]
  BY <1>6 DEF Writes, Whole
<1>8. AllJustified' /\ Material' /\ ChildUntouched'
  <2>1. file'["child"].state = "absent" => file["child"].state = "absent"
    BY <1>2, <1>7
  <2>2. ASSUME NEW r \in RunIds, NEW i \in Items
        PROVE  \/ file'[r].run.item[i] = file[r].run.item[i]
               \/ /\ file[r].run.item[i].status # "accepted"
                  /\ \E t \in {"ready", "cancel"} : file'[r].run.item[i] = Moved(file[r].run.item[i], t)
    BY <1>2, <1>5, <1>7
  <2> QED BY <1>1, <2>1, <2>2, Carried
<1>9. CASE sup' = Idle
  <2>1. SupTypes'
    BY <1>1, <1>6, <1>9, IdleTyped DEF SupervisorInv, SupTypes, Writes
  <2> QED BY <1>1, <1>2, <1>8, <1>9, <2>1, Rests
<1>10. CASE sup' = [sup EXCEPT !.at = "pick", !.mem = m, !.queue = runnable]
  <2>1. runnable \in SUBSET Items /\ \A i \in runnable : m.item[i].status \in PickedUp
    OBVIOUS
  <2> HIDE DEF runnable
  <2>2. /\ sup' \in SupStates /\ sup'.at = "pick" /\ sup'.mem = m /\ sup'.run = R
        /\ sup'.usage = usage /\ sup'.queue = runnable
    BY <1>2, <1>5, <1>10, <2>1 DEF SupStates, SupPlaces
  <2>3. SupTypes'
    BY <1>1, <1>6, <2>2 DEF SupervisorInv, SupTypes, Writes
  <2>4. MemoryCurrent'
    BY <1>1, <1>2, <1>7, <2>2 DEF MemoryCurrent
  <2> QED BY <1>1, <1>2, <1>8, <2>1, <2>2, <2>3, <2>4, OffItem DEF BetweenItems
<1> QED BY <1>4, <1>9, <1>10

(* An item is taken from the queue.                                        *)
LEMMA PickKeeps ==
  ASSUME SupervisorInv, Pick PROVE SupervisorInv'
<1>1. /\ sup.at = "pick" /\ sup.at # "idle"
      /\ UNCHANGED <<file, dispatch, draft, product, usage, health, orphans, executed, stops, setup>>
  BY DEF Pick, At, files, others
<1>2. /\ R \in RunIds /\ sup.mem \in Runs /\ sup \in SupStates
      /\ sup.mem = file[R].run /\ file[R].state = "whole" /\ sup.usage = usage
      /\ executed <= setup.budget + stops /\ executed <= usage + stops
  BY <1>1, RunFacts DEF BetweenItems
<1>3. AllJustified' /\ Material' /\ ChildUntouched'
  BY <1>1, Carried
<1>4. \A i \in sup.queue : sup.mem.item[i].status \in PickedUp
  BY DEF SupervisorInv, QueueOpen
<1>5. CASE sup.queue = {} /\ Goto("cycle")
  <2>1. /\ sup' \in SupStates /\ sup'.at = "cycle" /\ sup'.mem = sup.mem /\ sup'.run = R
        /\ sup'.usage = usage /\ sup'.queue = sup.queue
    BY <1>2, <1>5 DEF SupStates, SupPlaces, Goto
  <2>2. SupTypes'
    BY <1>1, <2>1 DEF SupervisorInv, SupTypes
  <2>3. MemoryCurrent'
    BY <1>1, <1>2, <2>1 DEF MemoryCurrent
  <2> QED BY <1>1, <1>2, <1>3, <1>5, <2>1, <2>2, <2>3, OffItem DEF BetweenItems
<1>6. ASSUME NEW i \in sup.queue, sup' = [sup EXCEPT !.at = "open", !.item = i, !.queue = @ \ {i}]
      PROVE  SupervisorInv'
  <2>1. /\ sup' \in SupStates /\ sup'.at = "open" /\ sup'.mem = sup.mem /\ sup'.run = R
        /\ sup'.usage = usage /\ sup'.queue = sup.queue \ {i} /\ sup'.item = i
    BY <1>2, <1>6 DEF SupStates, SupPlaces
  <2>2. SupTypes'
    BY <1>1, <2>1 DEF SupervisorInv, SupTypes
  <2>3. MemoryCurrent' /\ QueueOpen'
    BY <1>1, <1>2, <1>4, <2>1 DEF MemoryCurrent, QueueOpen
  <2>4. Stage(sup.at, ItemOf(R, I), D, sup.held)'
    BY <1>1, <1>2, <1>4, <2>1 DEF Stage, Launched, Observed, ItemOf
  <2>5. Budgeted(sup.at, ItemOf(R, I), D, executed, usage, sup.usage, stops, setup.budget)'
    BY <1>1, <1>2, <2>1 DEF Budgeted, Executing, Launched
  <2> QED BY <1>3, <2>2, <2>3, <2>4, <2>5 DEF SupervisorInv
<1> QED BY <1>5, <1>6 DEF Pick

(* The usage of the item is written.                                       *)
LEMMA ChargeKeeps ==
  ASSUME SupervisorInv, Charge PROVE SupervisorInv'
<1>1. /\ sup.at = "charge" /\ sup.at # "idle" /\ sup.at \in OnItem /\ Goto("pick") /\ usage' = sup.usage
      /\ UNCHANGED <<file, dispatch, draft, product, health, orphans, executed, stops, setup>>
  BY DEF Charge, At, files, others, OnItem
<1>2. /\ R \in RunIds /\ sup.mem \in Runs /\ sup \in SupStates
      /\ sup.mem = file[R].run /\ file[R].state = "whole"
      /\ executed <= setup.budget + stops
  BY <1>1, RunFacts
<1>3. executed <= sup.usage + stops
  BY <1>1 DEF SupervisorInv, Budgeted
<1>4. AllJustified' /\ Material' /\ ChildUntouched'
  BY <1>1, Carried
<1>5. /\ sup' \in SupStates /\ sup'.at = "pick" /\ sup'.mem = sup.mem /\ sup'.run = R
      /\ sup'.usage = sup.usage /\ sup'.queue = sup.queue /\ sup.usage \in Nat
  BY <1>1, <1>2 DEF SupStates, SupPlaces, Goto
<1>6. SupTypes'
  BY <1>1, <1>5 DEF SupervisorInv, SupTypes
<1>7. MemoryCurrent' /\ \A i \in sup'.queue : sup'.mem.item[i].status \in PickedUp
  BY <1>1, <1>2, <1>5 DEF MemoryCurrent, SupervisorInv, QueueOpen
<1> QED BY <1>1, <1>2, <1>3, <1>4, <1>5, <1>6, <1>7, OffItem DEF BetweenItems

(* The child run takes over what the parent accepted, and nothing else.    *)
LEMMA RevisedIs ==
  ASSUME NEW m \in Runs
  PROVE  /\ Revised(m) \in Runs
         /\ \A i \in Items :
               LET s == Revised(m).item[i]
               IN  /\ s.attempt_count = 0
                   /\ \/ m.item[i].status = "accepted" /\ s.status = "accepted"
                         /\ s.review = m.item[i].review
                      \/ s.status = "proposed" /\ s.attempt = 0
<1>1. m.item \in [Items -> RuntimeItem]
  BY DEF Runs
<1>2. NoResult \in Result /\ NoReceipt \in Receipt
  BY DEF NoResult, Result, NoReceipt, Receipt
<1>3. Registered \in RuntimeItem
  BY <1>2 DEF Registered, RuntimeItem, Statuses
<1>4. Registered.attempt_count = 0 /\ Registered.attempt = 0 /\ Registered.status = "proposed"
  BY DEF Registered
<1>5. ASSUME NEW i \in Items
      PROVE  LET s == Reused(m.item[i])
             IN  /\ s \in RuntimeItem /\ s.attempt_count = 0 /\ s.status = "accepted"
                 /\ s.review = m.item[i].review
  <2>1. "accepted" \in Statuses /\ "succeeded" \in ReportStatuses
    BY DEF Statuses, Terminal, ReportStatuses
  <2>2. m.item[i] \in RuntimeItem
    BY <1>1
  <2>3. /\ m.item[i].attempt \in Nat /\ m.item[i].result \in Result /\ m.item[i].digest \in Nat
        /\ m.item[i].review \in Receipt
    BY <2>2 DEF RuntimeItem
  <2> QED BY <1>3, <1>4, <2>1, <2>3 DEF Reused, RuntimeItem
<1> DEFINE f == [i \in Items |-> IF m.item[i].status = "accepted" THEN Reused(m.item[i]) ELSE Registered]
<1>6. f \in [Items -> RuntimeItem]
  BY <1>3, <1>5
<1>7. \A i \in Items :
         /\ f[i].attempt_count = 0
         /\ \/ m.item[i].status = "accepted" /\ f[i].status = "accepted" /\ f[i].review = m.item[i].review
            \/ f[i].status = "proposed" /\ f[i].attempt = 0
  BY <1>4, <1>5
<1>8. Revised(m) = [item |-> f, applied |-> {}]
  BY DEF Revised
<1> HIDE DEF f
<1>9. Revised(m) \in Runs /\ Revised(m).item = f
  BY <1>6, <1>8 DEF Runs
<1> QED BY <1>7, <1>9

(* The child run is opened, or found as it was left.                       *)
LEMMA ContinueKeeps ==
  ASSUME SupervisorInv, Continue PROVE SupervisorInv'
<1> DEFINE new == file["child"].state = "absent"
           run == IF new THEN Revised(sup.mem) ELSE file["child"].run
<1>1. /\ sup.at = "finish" /\ sup.at # "idle" /\ R = "parent" /\ file["child"].state # "torn"
      /\ file' = [file EXCEPT !["child"] = Whole(run)]
      /\ sup' = [Idle EXCEPT !.at = "cycle", !.run = "child", !.mem = run, !.usage = usage]
      /\ UNCHANGED <<dispatch, draft, product, usage, health, orphans, executed, stops, setup>>
  BY DEF Continue, At, files, others
<1>2. /\ "parent" \in RunIds /\ "child" \in RunIds /\ sup.mem \in Runs
      /\ file \in [RunIds -> RunFiles] /\ sup.mem = file["parent"].run /\ file["child"].run \in Runs
      /\ usage \in Nat
      /\ executed <= setup.budget + stops /\ executed <= usage + stops
  BY <1>1, RunFacts DEF BetweenItems
<1>3. run \in Runs
  BY <1>2, RevisedIs
<1>4. /\ file' \in [RunIds -> RunFiles] /\ file'["parent"] = file["parent"]
      /\ file'["child"].run = run /\ file'["child"].state = "whole"
  <2> HIDE DEF run
  <2> QED BY <1>1, <1>2, <1>3 DEF RunFiles, Whole
<1>5. /\ sup' \in SupStates /\ sup'.at = "cycle" /\ sup'.run = "child" /\ sup'.queue = {}
      /\ sup'.mem = run /\ sup'.usage = usage
  <2> HIDE DEF run
  <2> QED BY <1>1, <1>2, <1>3, IdleTyped DEF SupStates, SupPlaces
<1>6. AllJustified'
  <2>1. ASSUME NEW i \in Items
        PROVE  Justified("child", run.item[i], dispatch["child"][i], file["parent"].run.item[i])
    <3>1. Justified("child", file["child"].run.item[i], dispatch["child"][i], file["parent"].run.item[i])
      BY <1>2 DEF SupervisorInv, AllJustified, ItemOf
    <3>2. CASE ~new
      BY <3>1, <3>2
    <3>3. CASE new
      <4> DEFINE s == Revised(sup.mem).item[i]
                 p == file["parent"].run.item[i]
      <4>1. /\ s.attempt_count = 0
            /\ \/ p.status = "accepted" /\ s.status = "accepted" /\ s.review = p.review
               \/ s.status = "proposed" /\ s.attempt = 0
        BY <1>2, RevisedIs
      <4>2. dispatch["child"][i].lease = "none"
        BY <3>3 DEF SupervisorInv, ChildUntouched
      <4>3. dispatch["child"][i].result = 0 =>
               dispatch["child"][i].draftSnap = 0 /\ dispatch["child"][i].snap = 0
        BY <3>1 DEF Justified
      <4> HIDE DEF s, p
      <4>4. Justified("child", s, dispatch["child"][i], p)
        BY <4>1, <4>2, <4>3 DEF Justified, TakenOver, LeaseHolds
      <4> QED BY <3>3, <4>4 DEF s, p
    <3> QED BY <3>2, <3>3
  <2>2. ASSUME NEW i \in Items
        PROVE  Justified("parent", file["parent"].run.item[i], dispatch["parent"][i],
                         file["parent"].run.item[i])
    BY <1>2 DEF SupervisorInv, AllJustified, ItemOf
  <2> HIDE DEF run
  <2>3. ASSUME NEW r \in RunIds, NEW i \in Items
        PROVE  Justified(r, file'[r].run.item[i], dispatch[r][i], file'["parent"].run.item[i])
    BY <1>4, <2>1, <2>2 DEF RunIds
  <2> QED BY <1>1, <2>3 DEF AllJustified, ItemOf
<1>7. Material' /\ ChildUntouched'
  BY <1>1, <1>4 DEF SupervisorInv, Material, ChildUntouched
<1> HIDE DEF run
<1>8. SupTypes'
  BY <1>1, <1>4, <1>5 DEF SupervisorInv, SupTypes
<1>9. MemoryCurrent'
  BY <1>1, <1>4, <1>5 DEF MemoryCurrent
<1> QED BY <1>1, <1>2, <1>5, <1>6, <1>7, <1>8, <1>9, OffItem DEF BetweenItems

(* The run is reported.                                                    *)
LEMMA FinishKeeps ==
  ASSUME SupervisorInv, Finish PROVE SupervisorInv'
<1>1. /\ sup.at = "finish" /\ sup' = Idle
      /\ UNCHANGED <<file, dispatch, draft, product, usage, health, orphans, executed, stops, setup>>
  BY DEF Finish, At, files, others
<1>2. executed <= setup.budget + stops /\ executed <= usage + stops
  BY <1>1, RunFacts DEF BetweenItems
<1>3. AllJustified' /\ Material' /\ ChildUntouched'
  BY <1>1, Carried
<1>4. SupTypes'
  BY <1>1, IdleTyped DEF SupervisorInv, SupTypes
<1> QED BY <1>1, <1>2, <1>3, <1>4, Rests

(* A kill is a stop, which pays for the execution at hand.                 *)
LEMMA KillKeeps ==
  ASSUME SupervisorInv, Kill PROVE SupervisorInv'
<1>1. /\ stops < setup.kills /\ stops' = stops + 1 /\ sup' = Idle
      /\ file' = file \/ \E r \in Persisted : file' = [file EXCEPT ![r].state = "torn"]
      /\ UNCHANGED <<dispatch, draft, product, usage, health, executed, setup>>
  BY DEF Kill, files
<1>2. /\ R \in RunIds /\ "child" \in RunIds /\ file \in [RunIds -> RunFiles]
      /\ usage \in Nat /\ executed \in Nat /\ stops \in Nat /\ setup.budget \in Nat
      /\ executed <= setup.budget + stops /\ Persisted \subseteq RunIds
  BY RunFacts DEF Persisted
<1>3. executed <= usage + 1 + stops
  <2>1. sup.usage \in Nat
    BY DEF SupervisorInv, SupTypes, SupStates
  <2>2. \/ executed <= usage + stops \/ executed <= usage + 1 + stops
        \/ executed <= sup.usage + stops /\ sup.usage <= usage + 1
    BY DEF SupervisorInv, Budgeted
  <2> QED BY <1>2, <2>1, <2>2
<1>4. /\ file' \in [RunIds -> RunFiles] /\ \A r \in RunIds : file'[r].run = file[r].run
      /\ file'["child"].state = "absent" => file["child"].state = "absent"
  <2>1. CASE file' = file
    BY <1>2, <2>1
  <2>2. ASSUME NEW r \in RunIds, file' = [file EXCEPT ![r].state = "torn"]
        PROVE  /\ file' \in [RunIds -> RunFiles] /\ \A t \in RunIds : file'[t].run = file[t].run
               /\ file'["child"].state = "absent" => file["child"].state = "absent"
    BY <1>2, <2>2 DEF RunFiles
  <2> QED BY <1>1, <1>2, <2>1, <2>2
<1>5. AllJustified' /\ Material' /\ ChildUntouched'
  BY <1>1, <1>4, Carried
<1>6. orphans' \subseteq Orphans
  <2>1. orphans \subseteq Orphans
    BY DEF SupervisorInv, SupTypes
  <2>2. CASE sup.at = "running"
    <3>1. sup.at \in OnItem
      BY <2>2 DEF OnItem, Launched
    <3>2. /\ I \in Items /\ Item \in RuntimeItem /\ executed \in Nat
          /\ Budgeted(sup.at, Item, D, executed, usage, sup.usage, stops, setup.budget)
      BY <3>1, ItemFacts
    <3>3. executed \in Nat \ {0} /\ Item.attempt \in Nat
      BY <2>2, <3>2 DEF Budgeted, RuntimeItem
    <3>4. [run |-> R, item |-> I, attempt |-> Item.attempt, content |-> executed, wrote |-> "nothing"] \in Orphans
      BY <1>2, <3>2, <3>3 DEF Orphans
    <3>5. orphans' = orphans \cup {[run |-> R, item |-> I, attempt |-> Item.attempt,
                                    content |-> executed, wrote |-> "nothing"]}
      BY <2>2 DEF Kill, At
    <3> QED BY <2>1, <3>4, <3>5
  <2>3. CASE sup.at # "running"
    BY <2>1, <2>3 DEF Kill, At
  <2> QED BY <2>2, <2>3
<1>7. SupTypes'
  <2>1. stops' \in 0..setup'.kills
    BY <1>1, <1>2 DEF SupervisorInv, SupTypes, Setups
  <2> QED BY <1>1, <1>4, <1>6, <2>1, IdleTyped DEF SupervisorInv, SupTypes
<1>8. executed' <= setup'.budget + stops' /\ executed' <= usage' + stops'
  BY <1>1, <1>2, <1>3
<1> QED BY <1>1, <1>5, <1>7, <1>8, Rests

(* A late executor writes its draft.                                       *)
LEMMA OrphanDraftKeeps ==
  ASSUME SupervisorInv, NEW o \in orphans, OrphanDraft(o) PROVE SupervisorInv'
<1>1. /\ draft' = [draft EXCEPT ![o.item] = o.content]
      /\ orphans' = (orphans \ {o}) \cup {[o EXCEPT !.wrote = "draft"]}
      /\ UNCHANGED <<file, dispatch, product, usage, health, sup, executed, stops, setup>>
  BY DEF OrphanDraft
<1>2. o \in Orphans /\ orphans \subseteq Orphans /\ draft \in [Items -> Nat]
  BY DEF SupervisorInv, SupTypes
<1>3. o.item \in Items /\ o.content \in Nat \ {0} /\ [o EXCEPT !.wrote = "draft"] \in Orphans
  BY <1>2 DEF Orphans
<1>4. /\ draft' \in [Items -> Nat] /\ orphans' \subseteq Orphans
      /\ \A i \in Items : draft[i] # 0 => draft'[i] # 0
  BY <1>1, <1>2, <1>3
<1>5. SupTypes'
  BY <1>1, <1>4 DEF SupervisorInv, SupTypes
<1>6. Material'
  BY <1>1, <1>4 DEF SupervisorInv, Material
<1>7. AllJustified' /\ ChildUntouched' /\ MemoryCurrent' /\ QueueOpen'
  BY <1>1 DEF SupervisorInv, AllJustified, ItemOf, ChildUntouched, MemoryCurrent, QueueOpen
<1>8. Stage(sup.at, ItemOf(R, I), D, sup.held)'
  BY <1>1 DEF SupervisorInv, Stage, ItemOf
<1>9. Budgeted(sup.at, ItemOf(R, I), D, executed, usage, sup.usage, stops, setup.budget)'
  BY <1>1 DEF SupervisorInv, Budgeted, ItemOf
<1> QED BY <1>5, <1>6, <1>7, <1>8, <1>9 DEF SupervisorInv

(* ... and its result, under the name of its attempt.                      *)
LEMMA OrphanResultKeeps ==
  ASSUME SupervisorInv, NEW o \in orphans, OrphanResult(o) PROVE SupervisorInv'
<1> DEFINE e == [dispatch[o.run][o.item] EXCEPT !.result = o.content]
<1>1. /\ orphans' = (orphans \ {o}) \cup {[o EXCEPT !.wrote = "result"]}
      /\ dispatch' = dispatch \/ dispatch' = [dispatch EXCEPT ![o.run][o.item].result = o.content]
      /\ UNCHANGED <<file, draft, product, usage, health, sup, executed, stops, setup>>
  BY DEF OrphanResult
<1>2. /\ o \in Orphans /\ orphans \subseteq Orphans
      /\ dispatch \in [RunIds -> [Items -> FileSets]] /\ R \in RunIds /\ I \in Items
  BY DEF SupervisorInv, SupTypes, SupStates
<1>3. /\ o.run \in RunIds /\ o.item \in Items /\ o.content \in Nat \ {0}
      /\ [o EXCEPT !.wrote = "result"] \in Orphans
  BY <1>2 DEF Orphans
<1>4. e \in FileSets
  <2>1. dispatch[o.run][o.item] \in FileSets /\ o.content \in Nat
    BY <1>2, <1>3
  <2> QED BY <2>1, FilesTyped
<1>5. dispatch' = dispatch \/ dispatch' = [dispatch EXCEPT ![o.run][o.item] = e]
  <2>1. [dispatch EXCEPT ![o.run][o.item].result = o.content] = [dispatch EXCEPT ![o.run][o.item] = e]
    OBVIOUS
  <2> QED BY <1>1, <2>1
<1>6. \A r \in RunIds, i \in Items :
         \/ dispatch'[r][i] = dispatch[r][i]
         \/ dispatch'[r][i] = [dispatch[r][i] EXCEPT !.result = o.content]
  <2>1. ASSUME NEW r \in RunIds, NEW i \in Items, dispatch' = [dispatch EXCEPT ![o.run][o.item] = e]
        PROVE  dispatch'[r][i] = dispatch[r][i] \/ dispatch'[r][i] = [dispatch[r][i] EXCEPT !.result = o.content]
    <3>1. CASE r = o.run /\ i = o.item
      BY <1>2, <1>3, <2>1, <3>1
    <3>2. CASE ~(r = o.run /\ i = o.item)
      <4> HIDE DEF e
      <4> QED BY <1>2, <1>3, <2>1, <3>2
    <3> QED BY <3>1, <3>2
  <2> QED BY <1>5, <2>1
<1>7. dispatch' \in [RunIds -> [Items -> FileSets]]
  <2> HIDE DEF e
  <2> QED BY <1>2, <1>3, <1>4, <1>5
<1>8. ASSUME NEW r \in RunIds, NEW i \in Items
      PROVE  /\ dispatch'[r][i].draftSnap = dispatch[r][i].draftSnap
             /\ dispatch'[r][i].attested = dispatch[r][i].attested
             /\ dispatch'[r][i].evidence = dispatch[r][i].evidence
             /\ dispatch'[r][i].snap = dispatch[r][i].snap
             /\ dispatch'[r][i].lease = dispatch[r][i].lease
             /\ dispatch'[r][i].receipt = dispatch[r][i].receipt
             /\ dispatch[r][i].result # 0 => dispatch'[r][i].result # 0
             /\ Justified(r, file[r].run.item[i], dispatch'[r][i], file["parent"].run.item[i])
  <2> DEFINE d == dispatch[r][i]
  <2>1. d \in FileSets
    BY <1>2
  <2>2. Justified(r, file[r].run.item[i], d, file["parent"].run.item[i])
    BY DEF SupervisorInv, AllJustified, ItemOf
  <2>3. dispatch'[r][i] = d \/ dispatch'[r][i] = [d EXCEPT !.result = o.content]
    BY <1>6
  <2> HIDE DEF d
  <2>4. Justified(r, file[r].run.item[i], dispatch'[r][i], file["parent"].run.item[i])
    BY <1>3, <2>1, <2>2, <2>3, JustifiedResult
  <2>5. /\ dispatch'[r][i].draftSnap = d.draftSnap /\ dispatch'[r][i].attested = d.attested
        /\ dispatch'[r][i].evidence = d.evidence
        /\ dispatch'[r][i].snap = d.snap /\ dispatch'[r][i].lease = d.lease
        /\ dispatch'[r][i].receipt = d.receipt /\ (d.result # 0 => dispatch'[r][i].result # 0)
    BY <1>3, <2>1, <2>3 DEF FileSets
  <2> QED BY <2>4, <2>5 DEF d
<1>9. SupTypes'
  BY <1>1, <1>2, <1>3, <1>7 DEF SupervisorInv, SupTypes
<1>10. AllJustified'
  BY <1>1, <1>8 DEF AllJustified, ItemOf
<1>11. Material' /\ ChildUntouched'
  BY <1>1, <1>8 DEF SupervisorInv, Material, ChildUntouched, RunIds
<1>12. MemoryCurrent' /\ QueueOpen'
  BY <1>1 DEF SupervisorInv, MemoryCurrent, QueueOpen
<1>13. /\ D'.draftSnap = D.draftSnap /\ D'.attested = D.attested /\ D'.evidence = D.evidence /\ D'.snap = D.snap
       /\ D'.lease = D.lease /\ D'.receipt = D.receipt /\ (D.result # 0 => D'.result # 0)
       /\ ItemOf(R, I)' = ItemOf(R, I)
  BY <1>1, <1>2, <1>8 DEF ItemOf
<1>14. Stage(sup.at, ItemOf(R, I), D, sup.held) /\
       Budgeted(sup.at, ItemOf(R, I), D, executed, usage, sup.usage, stops, setup.budget)
  BY DEF SupervisorInv
<1>15. Stage(sup.at, ItemOf(R, I), D, sup.held)'
  BY <1>1, <1>13, <1>14 DEF Stage, ItemOf
<1>16. Budgeted(sup.at, ItemOf(R, I), D, executed, usage, sup.usage, stops, setup.budget)'
  BY <1>1, <1>13, <1>14 DEF Budgeted, ItemOf
<1> QED BY <1>9, <1>10, <1>11, <1>12, <1>15, <1>16 DEF SupervisorInv

(***************************************************************************)
(* What the snapshot of the drafts may hold.                               *)
(***************************************************************************)

(* Neither a snapshot nor its evidence is written, but for the files of a  *)
(* new attempt; late executors stay on record.                             *)
LEMMA AccountCarried ==
  ASSUME Accounted, sup'.at \notin {"snapshot", "evidence"},
         \A i \in Items : LateOf(orphans, i) \subseteq LateOf(orphans', i),
         \A r \in RunIds, i \in Items :
            \/ dispatch'[r][i].evidence = 0
            \/ /\ dispatch'[r][i].evidence = dispatch[r][i].evidence
               /\ dispatch'[r][i].draftSnap = dispatch[r][i].draftSnap
  PROVE  Accounted'
BY DEF Accounted

(* A step that writes no snapshot, and not before one either.              *)
LEMMA AccountKept ==
  ASSUME Supervised, orphans \subseteq orphans',
         \/ sup' = Idle
         \/ \E p \in SupPlaces \ {"snapshot", "evidence"} : sup'.at = p,
         \/ dispatch' = dispatch
         \/ dispatch' = [dispatch EXCEPT ![R][I] = NoFiles]
         \/ \E d \in FileSets : /\ dispatch' = [dispatch EXCEPT ![R][I] = d]
                                /\ d.evidence = D.evidence /\ d.draftSnap = D.draftSnap
  PROVE  Accounted'
<1>1. Accounted /\ SupervisorInv
  BY DEF Supervised
<1>2. sup'.at \notin {"snapshot", "evidence"}
  BY IdleTyped
<1>3. \A i \in Items : LateOf(orphans, i) \subseteq LateOf(orphans', i)
  BY DEF LateOf
<1>4. /\ dispatch \in [RunIds -> [Items -> FileSets]] /\ R \in RunIds /\ I \in Items
  BY <1>1 DEF SupervisorInv, SupTypes, SupStates
<1>5. ASSUME NEW r \in RunIds, NEW i \in Items
      PROVE  \/ dispatch'[r][i].evidence = 0
             \/ /\ dispatch'[r][i].evidence = dispatch[r][i].evidence
                /\ dispatch'[r][i].draftSnap = dispatch[r][i].draftSnap
  <2>1. CASE dispatch' = dispatch
    BY <2>1
  <2>2. CASE dispatch' = [dispatch EXCEPT ![R][I] = NoFiles]
    <3>1. dispatch'[r][i] = NoFiles \/ dispatch'[r][i] = dispatch[r][i]
      BY <1>4, <2>2
    <3> QED BY <3>1 DEF NoFiles
  <2>3. ASSUME NEW d \in FileSets, dispatch' = [dispatch EXCEPT ![R][I] = d],
               d.evidence = D.evidence, d.draftSnap = D.draftSnap
        PROVE  /\ dispatch'[r][i].evidence = dispatch[r][i].evidence
               /\ dispatch'[r][i].draftSnap = dispatch[r][i].draftSnap
    BY <1>4, <2>3
  <2> QED BY <2>1, <2>2, <2>3
<1> QED BY <1>1, <1>2, <1>3, <1>5, AccountCarried

(* A file of the attempt at hand is put.                                   *)
LEMMA PutIs ==
  ASSUME SupervisorInv,
         \/ \E l \in Leases : dispatch' = Put("lease", l)
         \/ \E v \in Nat : dispatch' = Put("result", v) \/ dispatch' = Put("attested", v)
         \/ \E c \in Receipts : dispatch' = Put("receipt", c)
  PROVE  \E d \in FileSets : /\ dispatch' = [dispatch EXCEPT ![R][I] = d]
                             /\ d.evidence = D.evidence /\ d.draftSnap = D.draftSnap
<1>1. D \in FileSets /\ dispatch \in [RunIds -> [Items -> FileSets]] /\ R \in RunIds /\ I \in Items
  BY DEF SupervisorInv, SupTypes, SupStates
<1>2. ASSUME NEW d \in FileSets, dispatch' = [dispatch EXCEPT ![R][I] = d],
             d.evidence = D.evidence, d.draftSnap = D.draftSnap
      PROVE  \E x \in FileSets : /\ dispatch' = [dispatch EXCEPT ![R][I] = x]
                                 /\ x.evidence = D.evidence /\ x.draftSnap = D.draftSnap
  BY <1>2
<1>3. ASSUME NEW l \in Leases, dispatch' = Put("lease", l)
      PROVE  \E d \in FileSets : /\ dispatch' = [dispatch EXCEPT ![R][I] = d]
                                 /\ d.evidence = D.evidence /\ d.draftSnap = D.draftSnap
  <2> DEFINE d == [D EXCEPT !.lease = l]
  <2>1. /\ d \in FileSets /\ dispatch' = [dispatch EXCEPT ![R][I] = d]
        /\ d.evidence = D.evidence /\ d.draftSnap = D.draftSnap
    BY <1>1, <1>3 DEF FileSets, Put
  <2> HIDE DEF d
  <2> QED BY <1>2, <2>1
<1>4. ASSUME NEW v \in Nat, dispatch' = Put("result", v)
      PROVE  \E d \in FileSets : /\ dispatch' = [dispatch EXCEPT ![R][I] = d]
                                 /\ d.evidence = D.evidence /\ d.draftSnap = D.draftSnap
  <2> DEFINE d == [D EXCEPT !.result = v]
  <2>1. /\ d \in FileSets /\ dispatch' = [dispatch EXCEPT ![R][I] = d]
        /\ d.evidence = D.evidence /\ d.draftSnap = D.draftSnap
    BY <1>1, <1>4 DEF FileSets, Put
  <2> HIDE DEF d
  <2> QED BY <1>2, <2>1
<1>5. ASSUME NEW v \in Nat, dispatch' = Put("attested", v)
      PROVE  \E d \in FileSets : /\ dispatch' = [dispatch EXCEPT ![R][I] = d]
                                 /\ d.evidence = D.evidence /\ d.draftSnap = D.draftSnap
  <2> DEFINE d == [D EXCEPT !.attested = v]
  <2>1. /\ d \in FileSets /\ dispatch' = [dispatch EXCEPT ![R][I] = d]
        /\ d.evidence = D.evidence /\ d.draftSnap = D.draftSnap
    BY <1>1, <1>5 DEF FileSets, Put
  <2> HIDE DEF d
  <2> QED BY <1>2, <2>1
<1>6. ASSUME NEW c \in Receipts, dispatch' = Put("receipt", c)
      PROVE  \E d \in FileSets : /\ dispatch' = [dispatch EXCEPT ![R][I] = d]
                                 /\ d.evidence = D.evidence /\ d.draftSnap = D.draftSnap
  <2> DEFINE d == [D EXCEPT !.receipt = c]
  <2>1. /\ d \in FileSets /\ dispatch' = [dispatch EXCEPT ![R][I] = d]
        /\ d.evidence = D.evidence /\ d.draftSnap = D.draftSnap
    BY <1>1, <1>6 DEF FileSets, Put
  <2> HIDE DEF d
  <2> QED BY <1>2, <2>1
<1> QED BY <1>3, <1>4, <1>5, <1>6

LEMMA AccountWritten ==
  ASSUME Supervised, Open \/ Authorize \/ ExecutorSucceeds \/ Observe \/ AttestorAccepts
                       \/ Finalize \/ ReviewerDecides \/ Close
  PROVE  Accounted'
<1>1. /\ SupervisorInv /\ sup \in SupStates /\ D \in FileSets
      /\ dispatch \in [RunIds -> [Items -> FileSets]] /\ R \in RunIds /\ I \in Items
      /\ product \in [Items -> Nat] /\ executed \in Nat
  BY DEF Supervised, SupervisorInv, SupTypes, SupStates
<1>2. orphans' = orphans
  BY DEF Open, Authorize, ExecutorSucceeds, Observe, AttestorAccepts, Finalize, ReviewerDecides,
         Close, others
<1>3. \/ sup' = Idle
      \/ \E p \in SupPlaces \ {"snapshot", "evidence"} : sup'.at = p
  BY <1>1 DEF Open, Authorize, ExecutorSucceeds, Observe, AttestorAccepts, Finalize,
              ReviewerDecides, Close, BlockItem, Goto, SupStates, SupPlaces
<1>4. \/ dispatch' = dispatch
      \/ dispatch' = [dispatch EXCEPT ![R][I] = NoFiles]
      \/ \E d \in FileSets : /\ dispatch' = [dispatch EXCEPT ![R][I] = d]
                             /\ d.evidence = D.evidence /\ d.draftSnap = D.draftSnap
  <2>1. CASE Open
    BY <2>1 DEF Open
  <2>2. CASE Authorize \/ Observe \/ Close
    <3>1. dispatch' = dispatch \/ \E l \in Leases : dispatch' = Put("lease", l)
      BY <2>2 DEF Authorize, Observe, Close, Leases
    <3>2. CASE \E l \in Leases : dispatch' = Put("lease", l)
      BY <1>1, <3>2, PutIs
    <3> QED BY <3>1, <3>2
  <2>3. CASE ExecutorSucceeds
    <3>1. \E v \in Nat : dispatch' = Put("result", v)
      BY <1>1, <2>3 DEF ExecutorSucceeds
    <3> QED BY <1>1, <3>1, PutIs
  <2>4. CASE AttestorAccepts
    <3>1. \E v \in Nat : dispatch' = Put("attested", v)
      BY <1>1, <2>4 DEF AttestorAccepts, FileSets
    <3> QED BY <1>1, <3>1, PutIs
  <2>5. CASE ReviewerDecides
    <3>1. PICK a \in {"accepted", "rejected"} :
             dispatch' = Put("receipt", [decision |-> a, digest |-> D.snap])
      BY <2>5 DEF ReviewerDecides
    <3>2. [decision |-> a, digest |-> D.snap] \in Receipts
      BY <1>1 DEF FileSets, Receipts
    <3>3. \E c \in Receipts : dispatch' = Put("receipt", c)
      BY <3>1, <3>2
    <3> QED BY <1>1, <3>3, PutIs
  <2>6. CASE Finalize
    <3> DEFINE c == Snapshot(D.snap, product[I])
               e == [D EXCEPT !.lease = "product-attested"]
               d == [e EXCEPT !.snap = IF c = 0 THEN D.snap ELSE c]
    <3>1. dispatch' = dispatch
            \/ dispatch' = [dispatch EXCEPT ![R][I].lease = "product-attested",
                                             ![R][I].snap = IF c = 0 THEN @ ELSE c]
      BY <2>6 DEF Finalize
    <3>2. c \in Nat
      BY <1>1 DEF Snapshot
    <3> HIDE DEF c
    <3>3. /\ d \in FileSets /\ d.evidence = D.evidence /\ d.draftSnap = D.draftSnap
          /\ [dispatch EXCEPT ![R][I].lease = "product-attested",
                                ![R][I].snap = IF c = 0 THEN @ ELSE c]
                = [dispatch EXCEPT ![R][I] = d]
      BY <1>1, <3>2 DEF FileSets, Leases
    <3> QED BY <3>1, <3>3
  <2> QED BY <2>1, <2>2, <2>3, <2>4, <2>5, <2>6
<1> QED BY <1>2, <1>3, <1>4, AccountKept

(* The steps that write no file of an attempt.                             *)
LEMMA AccountElsewhere ==
  ASSUME Supervised,
         \/ Launch \/ Cycle \/ Plan \/ Pick \/ Charge \/ Continue \/ Finish \/ Kill
         \/ Execute \/ ExecutorFails \/ AttestorFails \/ ReviewerFails
         \/ AttestationFound \/ ReceiptFound \/ ReconcileResult \/ Decide
  PROVE  Accounted'
<1>1. SupervisorInv /\ sup \in SupStates /\ Idle \in SupStates
  BY IdleTyped DEF Supervised, SupervisorInv, SupTypes
<1>2. dispatch' = dispatch /\ orphans \subseteq orphans'
  BY DEF Launch, Cycle, Plan, Pick, Charge, Continue, Finish, Kill, Execute, ExecutorFails,
         AttestorFails, ReviewerFails, AttestationFound, ReceiptFound, ReconcileResult, Decide,
         files, others
<1>3. \/ sup' = Idle
      \/ \E p \in SupPlaces \ {"snapshot", "evidence"} : sup'.at = p
  BY <1>1 DEF Launch, LoadRun, Cycle, Plan, Pick, Charge, Continue, Finish, Kill, Execute,
         ExecutorFails, AttestorFails, ReviewerFails, AttestationFound, ReceiptFound,
         ReconcileResult, Decide, BlockItem, Goto, SupStates, SupPlaces
<1> QED BY <1>2, <1>3, AccountKept

(* The three steps between the result and its evidence.                    *)
LEMMA AccountOpened ==
  ASSUME Supervised, Verify \/ SnapshotDrafts \/ RecordEvidence PROVE Accounted'
<1>1. /\ SupervisorInv /\ Accounted /\ sup \in SupStates /\ D \in FileSets
      /\ dispatch \in [RunIds -> [Items -> FileSets]] /\ R \in RunIds /\ I \in Items
      /\ draft \in [Items -> Nat] /\ orphans \subseteq Orphans /\ sup.held \in Nat
  BY DEF Supervised, SupervisorInv, SupTypes, SupStates
<1>2. orphans' = orphans /\ draft' = draft
  BY DEF Verify, SnapshotDrafts, RecordEvidence, files, others
<1>3. CASE Verify
  <2>1. dispatch' = dispatch
    BY <1>3 DEF Verify, files
  <2>2. CASE draft[I] = sup.held
    <3>1. sup' = [sup EXCEPT !.at = "snapshot"]
      BY <1>3, <2>2 DEF Verify, Goto
    <3>2. sup'.at = "snapshot" /\ sup'.item = I /\ sup'.held = sup.held
      BY <1>1, <3>1 DEF SupStates
    <3> QED BY <1>1, <1>2, <2>1, <2>2, <3>2 DEF Accounted
  <2>3. CASE draft[I] # sup.held
    <3>1. BlockItem(1)
      BY <1>3, <2>3 DEF Verify
    <3>2. sup'.at = "charge"
      BY <1>1, <3>1 DEF BlockItem, SupStates
    <3> QED BY <1>2, <2>1, <3>2, AccountKept DEF SupPlaces
  <2> QED BY <2>2, <2>3
<1>4. CASE SnapshotDrafts
  <2> DEFINE c == Snapshot(D.draftSnap, draft[I])
             d == [D EXCEPT !.draftSnap = c]
  <2>1. CASE c = 0
    BY <1>2, <1>4, <2>1, AccountKept DEF SnapshotDrafts
  <2>2. CASE c # 0
    <3>1. /\ sup' = [sup EXCEPT !.at = "evidence"] /\ dispatch' = Put("draftSnap", c)
          /\ sup.at = "snapshot"
      BY <1>4, <2>2 DEF SnapshotDrafts, Goto, At
    <3>2. c = draft[I] /\ D.draftSnap \in {0, c} /\ c \in Nat
      BY <1>1, <2>2 DEF Snapshot
    <3> HIDE DEF c
    <3>3. sup'.at = "evidence" /\ sup'.run = R /\ sup'.item = I /\ sup'.held = sup.held
      BY <1>1, <3>1 DEF SupStates
    <3>4. /\ d.draftSnap = c /\ d.evidence = D.evidence /\ dispatch' = [dispatch EXCEPT ![R][I] = d]
      BY <1>1, <3>1 DEF FileSets, Put
    <3> HIDE DEF d
    <3>5. c \in {sup.held} \cup LateOf(orphans, I)
      BY <1>1, <3>1, <3>2 DEF Accounted
    <3>6. \A x \in LateOf(orphans, I) : x # 0
      BY <1>1 DEF LateOf, Orphans
    <3>7. d.evidence # 0 => d.draftSnap \in {d.evidence} \cup LateOf(orphans, I)
      <4>1. D.evidence # 0 => D.draftSnap \in {D.evidence} \cup LateOf(orphans, I)
        BY <1>1 DEF Accounted
      <4> QED BY <3>2, <3>4, <3>6, <4>1
    <3>8. ASSUME NEW r \in RunIds, NEW i \in Items
          PROVE  dispatch'[r][i].evidence # 0 =>
                    dispatch'[r][i].draftSnap \in {dispatch'[r][i].evidence} \cup LateOf(orphans, i)
      <4>1. CASE r = R /\ i = I
        BY <1>1, <3>4, <3>7, <4>1
      <4>2. CASE ~(r = R /\ i = I)
        <5>1. dispatch'[r][i] = dispatch[r][i]
          BY <1>1, <3>4, <4>2
        <5> QED BY <1>1, <5>1 DEF Accounted
      <4> QED BY <4>1, <4>2
    <3>9. dispatch'[sup'.run][sup'.item].draftSnap \in {sup'.held} \cup LateOf(orphans', sup'.item)
      BY <1>1, <1>2, <3>3, <3>4, <3>5
    <3> QED BY <1>2, <3>3, <3>8, <3>9 DEF Accounted
  <2> QED BY <2>1, <2>2
<1>5. CASE RecordEvidence
  <2> DEFINE d == [D EXCEPT !.evidence = sup.held]
  <2>1. /\ sup' = [sup EXCEPT !.at = "attest"] /\ dispatch' = Put("evidence", sup.held)
        /\ sup.at = "evidence"
    BY <1>5 DEF RecordEvidence, Goto, At
  <2>2. sup'.at = "attest"
    BY <1>1, <2>1 DEF SupStates
  <2>3. /\ d.draftSnap = D.draftSnap /\ d.evidence = sup.held
        /\ dispatch' = [dispatch EXCEPT ![R][I] = d]
    BY <1>1, <2>1 DEF FileSets, Put
  <2> HIDE DEF d
  <2>4. d.draftSnap \in {d.evidence} \cup LateOf(orphans, I)
    BY <1>1, <2>1, <2>3 DEF Accounted
  <2>5. ASSUME NEW r \in RunIds, NEW i \in Items
        PROVE  dispatch'[r][i].evidence # 0 =>
                  dispatch'[r][i].draftSnap \in {dispatch'[r][i].evidence} \cup LateOf(orphans, i)
    <3>1. CASE r = R /\ i = I
      BY <1>1, <2>3, <2>4, <3>1
    <3>2. CASE ~(r = R /\ i = I)
      <4>1. dispatch'[r][i] = dispatch[r][i]
        BY <1>1, <2>3, <3>2
      <4> QED BY <1>1, <4>1 DEF Accounted
    <3> QED BY <3>1, <3>2
  <2> QED BY <1>2, <2>2, <2>5 DEF Accounted
<1> QED BY <1>3, <1>4, <1>5

(* A late executor stays on record with what it made.                      *)
LEMMA AccountLate ==
  ASSUME Supervised, NEW o \in orphans, OrphanDraft(o) \/ OrphanResult(o) PROVE Accounted'
<1>1. /\ Accounted /\ o \in Orphans /\ dispatch \in [RunIds -> [Items -> FileSets]]
      /\ draft \in [Items -> Nat] /\ R \in RunIds /\ I \in Items
  BY DEF Supervised, SupervisorInv, SupTypes, SupStates
<1>2. /\ sup' = sup /\ \E w \in {"draft", "result"} :
            orphans' = (orphans \ {o}) \cup {[o EXCEPT !.wrote = w]}
      /\ draft' = draft \/ draft' = [draft EXCEPT ![o.item] = o.content]
      /\ dispatch' = dispatch \/ dispatch' = [dispatch EXCEPT ![o.run][o.item].result = o.content]
  BY DEF OrphanDraft, OrphanResult
<1>3. ASSUME NEW i \in Items
      PROVE  LateOf(orphans, i) \subseteq LateOf(orphans', i)
  <2>1. PICK w \in {"draft", "result"} : orphans' = (orphans \ {o}) \cup {[o EXCEPT !.wrote = w]}
    BY <1>2
  <2>2. [o EXCEPT !.wrote = w].item = o.item /\ [o EXCEPT !.wrote = w].content = o.content
    BY <1>1 DEF Orphans
  <2>3. ASSUME NEW p \in orphans, p.item = i
        PROVE  \E q \in orphans' : q.item = i /\ q.content = p.content
    BY <2>1, <2>2, <2>3
  <2> QED BY <2>3 DEF LateOf
<1>4. o.content \in LateOf(orphans, o.item) /\ o.item \in Items /\ o.run \in RunIds
  BY <1>1 DEF LateOf, Orphans
<1>5. ASSUME NEW i \in Items
      PROVE  draft'[i] = draft[i] \/ draft'[i] \in LateOf(orphans, i)
  BY <1>1, <1>2, <1>4
<1>6. ASSUME NEW r \in RunIds, NEW i \in Items
      PROVE  /\ dispatch'[r][i].evidence = dispatch[r][i].evidence
             /\ dispatch'[r][i].draftSnap = dispatch[r][i].draftSnap
  <2>1. dispatch[r][i] \in FileSets
    BY <1>1
  <2>2. dispatch'[r][i] = dispatch[r][i] \/ dispatch'[r][i] = [dispatch[r][i] EXCEPT !.result = o.content]
    BY <1>1, <1>2, <1>4
  <2> QED BY <2>1, <2>2 DEF FileSets
<1> QED BY <1>1, <1>2, <1>3, <1>5, <1>6 DEF Accounted

----------------------------------------------------------------------------

LEMMA SupervisorStarts ==
  ASSUME SupInit PROVE Supervised
<1>1. PICK w \in Workspaces :
        /\ file = [r \in RunIds |-> [state |-> IF r = "parent" /\ w.imported THEN "whole" ELSE "absent",
                                     run |-> GraphRun]]
        /\ health = [i \in Items |-> [failures |-> w.failures,
                                       state |-> IF w.failures = 0 THEN "healthy" ELSE "degraded"]]
        /\ setup = [served |-> w.served, budget |-> w.budget, kills |-> w.kills, rejected |-> FALSE]
  BY DEF SupInit
<1>2. /\ w.failures \in 0..2 /\ w.served \in SUBSET Items /\ w.budget \in Nat /\ w.kills \in Nat
  BY SupervisorAssumption
<1>3. /\ dispatch = [r \in RunIds |-> [i \in Items |-> NoFiles]]
      /\ draft = [i \in Items |-> 0] /\ product = [i \in Items |-> 0]
      /\ usage = 0 /\ sup = Idle /\ orphans = {} /\ executed = 0 /\ stops = 0
  BY DEF SupInit
<1>4. Idle \in SupStates /\ Idle.at = "idle" /\ Idle.queue = {} /\ Idle.mem = GraphRun
  BY IdleTyped DEF Idle
<1>5. GraphRun \in Runs /\ NoFiles \in FileSets
  <2>1. NoFiles \in FileSets
    BY DEF NoFiles, NoReceiptFile, FileSets, Receipts, Leases
  <2> QED BY <1>4, <2>1 DEF SupStates
<1>6. \A i \in Items : GraphRun.item[i] = Registered
  BY DEF GraphRun
<1>7. setup \in Setups /\ setup.kills \in Nat /\ setup.budget \in Nat
  BY <1>1, <1>2 DEF Setups
<1>8. health \in [Items -> HealthRecords]
  BY <1>1, <1>2 DEF HealthRecords
<1>9. file \in [RunIds -> RunFiles] /\ \A r \in RunIds : file[r].run = GraphRun
  BY <1>1, <1>5 DEF RunFiles
<1>10. SupTypes
  BY <1>3, <1>4, <1>5, <1>7, <1>8, <1>9 DEF SupTypes
<1>11. AllJustified
  <2>1. ASSUME NEW r \in RunIds, NEW p PROVE Justified(r, Registered, NoFiles, p)
    BY DEF Justified, TakenOver, LeaseHolds, Registered, NoFiles, NoReceiptFile
  <2>2. "parent" \in RunIds
    BY DEF RunIds
  <2> QED BY <1>3, <1>6, <1>9, <2>1, <2>2 DEF AllJustified, ItemOf
<1>12. Material /\ ChildUntouched
  BY <1>3 DEF Material, ChildUntouched, RunIds, NoFiles
<1>13. MemoryCurrent /\ QueueOpen
  BY <1>3, <1>4 DEF MemoryCurrent, QueueOpen, OnItem, Launched
<1>14. Stage(sup.at, ItemOf(R, I), D, sup.held)
  BY <1>3, <1>4 DEF Stage, Launched, Observed
<1>15. Budgeted(sup.at, ItemOf(R, I), D, executed, usage, sup.usage, stops, setup.budget)
  BY <1>3, <1>4, <1>7 DEF Budgeted, Executing, Launched
<1>16. Accounted
  BY <1>3, <1>4 DEF Accounted, NoFiles
<1> QED BY <1>10, <1>11, <1>12, <1>13, <1>14, <1>15, <1>16 DEF SupervisorInv, Supervised

LEMMA ItemStepKeeps ==
  ASSUME Supervised, ItemStep PROVE SupervisorInv'
BY OpenKeeps, AuthorizeKeeps, ExecuteKeeps, ExecutorSucceedsKeeps, FailureKeeps, ObserveKeeps,
   VerifyKeeps, SnapshotKeeps, EvidenceKeeps,
   AttestorAcceptsKeeps, FoundKeeps, FinalizeKeeps, ReconcileResultKeeps, ReviewerDecidesKeeps,
   DecideKeeps, CloseKeeps DEF ItemStep, Supervised

(* Every step of the supervisor, of a late executor and of others keeps    *)
(* the invariant.                                                          *)
LEMMA SupervisorKept ==
  ASSUME Supervised, Supervise \/ UNCHANGED supVars PROVE Supervised'
<1>1. SupervisorInv /\ Accounted
  BY DEF Supervised
<1>2. CASE Supervise
  <2>1. CASE Launch \/ Kill
    BY <1>1, <2>1, LaunchKeeps, KillKeeps, AccountElsewhere DEF Supervised
  <2>2. CASE RejectBinding
    <3>1. SupervisorInv'
      BY <1>1, <2>2, RejectKeeps
    <3>2. UNCHANGED <<dispatch, draft, sup, orphans>>
      BY <2>2 DEF RejectBinding, files
    <3>3. Accounted'
      BY <1>1, <3>2 DEF Accounted
    <3> QED BY <3>1, <3>3 DEF Supervised
  <2>3. CASE Progress
    <3>1. SupervisorInv'
      BY <1>1, <2>3, CycleKeeps, PlanKeeps, PickKeeps, ChargeKeeps, ContinueKeeps, FinishKeeps,
         ItemStepKeeps DEF Progress
    <3>2. Accounted'
      BY <2>3, AccountWritten, AccountElsewhere, AccountOpened DEF Progress, ItemStep
    <3> QED BY <3>1, <3>2 DEF Supervised
  <2>4. ASSUME NEW o \in orphans, OrphanDraft(o) \/ OrphanResult(o) PROVE Supervised'
    BY <1>1, <2>4, OrphanDraftKeeps, OrphanResultKeeps, AccountLate DEF Supervised
  <2> QED BY <1>2, <2>1, <2>2, <2>3, <2>4 DEF Supervise
<1>3. CASE UNCHANGED supVars
  <2>1. UNCHANGED <<file, dispatch, draft, product, usage, health, sup, orphans, executed, stops, setup>>
    BY <1>3 DEF supVars
  <2>2. SupTypes' /\ Accounted'
    BY <1>1, <2>1 DEF SupervisorInv, SupTypes, Accounted
  <2>3. AllJustified' /\ Material' /\ ChildUntouched' /\ MemoryCurrent' /\ QueueOpen'
    BY <1>1, <2>1 DEF SupervisorInv, AllJustified, ItemOf, Material, ChildUntouched, MemoryCurrent,
                      QueueOpen
  <2>4. Stage(sup.at, ItemOf(R, I), D, sup.held)'
    BY <1>1, <2>1 DEF SupervisorInv, Stage, ItemOf
  <2>5. Budgeted(sup.at, ItemOf(R, I), D, executed, usage, sup.usage, stops, setup.budget)'
    BY <1>1, <2>1 DEF SupervisorInv, Budgeted, ItemOf
  <2> QED BY <2>2, <2>3, <2>4, <2>5 DEF SupervisorInv, Supervised
<1> QED BY <1>2, <1>3

(* What the invariant says to a reader of the files.                       *)
LEMMA SupervisorSound ==
  ASSUME Supervised PROVE EvidenceBound /\ ExecutionsWithinBudget /\ SupTypeOK
<1>1. SupervisorInv /\ Accounted
  BY DEF Supervised
<1>2. ExecutionsWithinBudget
  BY <1>1 DEF SupervisorInv, Budgeted, ExecutionsWithinBudget
<1>3. EvidenceBound
  <2>1. ASSUME NEW r \in RunIds, NEW i \in Items
        PROVE  LET s == file[r].run.item[i]
                   d == dispatch[r][i]
               IN  /\ s.status = "accepted" =>
                        IF Inherited(r, i) THEN /\ file["parent"].run.item[i].status = "accepted"
                                                /\ file["parent"].run.item[i].review = s.review
                        ELSE Evidenced(s, d) /\ d.draftSnap \in {d.evidence} \cup Late(i)
                   /\ LeaseHolds(d, s)
    <3> DEFINE s == file[r].run.item[i]
               d == dispatch[r][i]
    <3>1. /\ s.status = "accepted" =>
                IF Inherited(r, i) THEN /\ file["parent"].run.item[i].status = "accepted"
                                        /\ file["parent"].run.item[i].review = s.review
                ELSE Evidenced(s, d)
          /\ LeaseHolds(d, s)
      BY <1>1 DEF SupervisorInv, AllJustified, ItemOf, Justified, TakenOver, Inherited
    <3>2. d.evidence # 0 => d.draftSnap \in {d.evidence} \cup Late(i)
      BY <1>1 DEF Accounted, LateOf, Late
    <3>3. Evidenced(s, d) => d.evidence # 0
      BY DEF Evidenced
    <3> HIDE DEF s, d
    <3>4. /\ s.status = "accepted" =>
                IF Inherited(r, i) THEN /\ file["parent"].run.item[i].status = "accepted"
                                        /\ file["parent"].run.item[i].review = s.review
                ELSE Evidenced(s, d) /\ d.draftSnap \in {d.evidence} \cup Late(i)
          /\ LeaseHolds(d, s)
      BY <3>1, <3>2, <3>3
    <3> QED BY <3>4 DEF s, d
  <2> QED BY <2>1 DEF EvidenceBound
<1>4. SupTypeOK
  BY <1>1 DEF SupervisorInv, SupTypes, SupStates, FileSets, Receipts, Leases, HealthRecords, SupTypeOK
<1> QED BY <1>2, <1>3, <1>4
=============================================================================
