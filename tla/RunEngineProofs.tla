-------------------------- MODULE RunEngineProofs --------------------------
(***************************************************************************)
(* What holds of every run that any command reads, computes or writes, for *)
(* any graph, any number of concurrent commands and any bounds.  All rests *)
(* on facts about one item and the set of applied events: each operator of *)
(* RunKernel keeps them, and a command only ever copies whole runs.        *)
(***************************************************************************)
EXTENDS RunEngine, TLAPS

(* The facts of one item i with state s once the events A are applied.     *)
Sound(s, i, A) ==
    /\ s.attempt # 0 => Submitted(i, s.attempt) \in A
    /\ s.digest # 0 =>
          \E e \in Reported(A, i, s.attempt) : e.result.status = "succeeded" /\ e.output = s.digest
    /\ s.status = "accepted" =>
          /\ s.review.decision = "accepted" /\ Binds(s, s.review) /\ Complete(s.review)
          /\ Decided(i, s.review) \in A

RunInv(r) ==
    /\ r \in Runs
    /\ DependencyGate(r)
    /\ \A i \in Items : Sound(r.item[i], i, r.applied)

(* What a step may do to a run: accepted items stay as they are.           *)
Keeps(r, q) == \A i \in Items : r.item[i].status = "accepted" => q.item[i] = r.item[i]

----------------------------------------------------------------------------
(* The constants of the kernel have the types their names promise.         *)
LEMMA KernelTypes ==
    /\ Registered \in RuntimeItem
    /\ \A i \in Items, n \in Nat : Submitted(i, n) \in EventIds
    /\ \A i \in Items, R \in Result, d \in Nat : Imported(i, R, d) \in EventIds
    /\ \A i \in Items, v \in Receipt : Decided(i, v) \in EventIds
    /\ \A n \in Nat, x \in Nat : Success(n, x) \in Result
  BY DEF Registered, RuntimeItem, NoReceipt, Receipt, NoResult, Result, ReportStatuses, Statuses,
         Terminal, Submitted, Imported, Decided, EventIds, Success

(* Events of different kinds, items, attempts or contents are different.   *)
LEMMA DistinctEvents ==
    ASSUME NEW i, NEW j, NEW n, NEW m, NEW R, NEW d, NEW v
    PROVE  /\ Submitted(i, n) = Submitted(j, m) => i = j /\ n = m
           /\ Submitted(i, n) # Imported(j, R, d)
           /\ Submitted(i, n) # Decided(j, v)
  <1>1. Submitted(i, n).kind = "submitted" /\ Imported(j, R, d).kind = "result" /\ Decided(j, v).kind = "review"
    BY DEF Submitted, Imported, Decided
  <1>2. Submitted(i, n).item = i /\ Submitted(j, m).item = j
        /\ Submitted(i, n).attempt = n /\ Submitted(j, m).attempt = m
    BY DEF Submitted
  <1> QED BY <1>1, <1>2

(* The typed effects on one item.                                          *)
LEMMA ItemTypes ==
    ASSUME NEW s \in RuntimeItem
    PROVE  /\ \A t \in Transitions : Moved(s, t) \in RuntimeItem
           /\ \A n \in Nat : WithAttempt(s, n) \in RuntimeItem
           /\ \A R \in Result : \A d \in Nat : R.status \in ReportStatuses => WithResult(s, R, d) \in RuntimeItem
           /\ \A v \in Receipt : WithReview(s, v) \in RuntimeItem
  <1>0. /\ s.attempt_count \in Nat /\ s.attempt_count + 1 \in Nat /\ s.digest \in Nat
        /\ NoResult \in Result
    <2>1. s.attempt_count \in Nat /\ s.digest \in Nat
      BY DEF RuntimeItem
    <2>2. NoResult \in Result
      BY DEF NoResult, Result
    <2> QED BY <2>1, <2>2
  <1>1. ASSUME NEW t \in Transitions PROVE Moved(s, t) \in RuntimeItem
    <2>1. Becomes[t] \in Statuses
      BY DEF Transitions, Becomes, Statuses, Terminal
    <2> QED BY <1>0, <2>1 DEF Moved, RuntimeItem
  <1>2. ASSUME NEW n \in Nat PROVE WithAttempt(s, n) \in RuntimeItem
    <2>1. "active" \in Statuses /\ 0 \in Nat
      BY DEF Statuses
    <2> QED BY <1>0, <2>1 DEF WithAttempt, RuntimeItem
  <1>3. ASSUME NEW R \in Result, NEW d \in Nat, R.status \in ReportStatuses
        PROVE  WithResult(s, R, d) \in RuntimeItem
    <2>1. AfterReport[R.status] \in Statuses
      BY <1>3 DEF AfterReport, ReportStatuses, Statuses, Terminal
    <2> QED BY <1>0, <1>3, <2>1 DEF WithResult, RuntimeItem
  <1>4. ASSUME NEW v \in Receipt PROVE WithReview(s, v) \in RuntimeItem
    <2>1. "accepted" \in Statuses /\ "blocked" \in Statuses
      BY DEF Statuses, Terminal
    <2> QED BY <2>1 DEF WithReview, RuntimeItem
  <1> QED BY <1>1, <1>2, <1>3, <1>4

(* Dependencies once accepted stay accepted over a step that keeps them.   *)
LEMMA DependenciesStay ==
    ASSUME NEW r \in Runs, NEW q \in Runs, Keeps(r, q), NEW i \in Items, DependenciesAccepted(r, i)
    PROVE  DependenciesAccepted(q, i)
  BY RunAssumption DEF Keeps, DependenciesAccepted

(* What is known of an item stays true when more events are applied.       *)
LEMMA SoundStays ==
    ASSUME NEW s, NEW i, NEW A, NEW B, A \subseteq B, Sound(s, i, A)
    PROVE  Sound(s, i, B)
  BY DEF Sound, Reported

----------------------------------------------------------------------------
(* The items change to f and the events E are added: an item either stays, *)
(* or it was not accepted, is sound again, and is started only on accepted *)
(* dependencies.                                                           *)
LEMMA ItemsChange ==
    ASSUME NEW r, RunInv(r), NEW f \in [Items -> RuntimeItem], NEW E \in SUBSET EventIds,
           \A i \in Items :
              \/ f[i] = r.item[i]
              \/ /\ r.item[i].status # "accepted"
                 /\ Sound(f[i], i, r.applied \cup E)
                 /\ f[i].status \in {"ready", "active", "review", "accepted"} \/ f[i].attempt # 0
                       => DependenciesAccepted(r, i),
           NEW q, q = [item |-> f, applied |-> r.applied \cup E]
    PROVE  RunInv(q) /\ Keeps(r, q)
  <1>1. q \in Runs
    BY DEF RunInv, Runs
  <1>2. q.item = f /\ q.applied = r.applied \cup E /\ r \in Runs
    BY DEF RunInv
  <1>3. Keeps(r, q)
    BY <1>2 DEF Keeps
  <1>4. ASSUME NEW j \in Items, Started(q, j) PROVE DependenciesAccepted(q, j)
    <2>1. DependenciesAccepted(r, j)
      BY <1>2, <1>4 DEF RunInv, DependencyGate, Started
    <2> QED BY <1>1, <1>2, <1>3, <2>1, DependenciesStay
  <1>5. ASSUME NEW j \in Items PROVE Sound(q.item[j], j, q.applied)
    <2>1. CASE Sound(f[j], j, r.applied \cup E)
      BY <1>2, <2>1
    <2>2. CASE f[j] = r.item[j]
      <3>1. Sound(r.item[j], j, r.applied) /\ r.applied \subseteq q.applied
        BY <1>2 DEF RunInv
      <3> QED BY <1>2, <2>2, <3>1, SoundStays
    <2> QED BY <2>1, <2>2
  <1> QED BY <1>1, <1>3, <1>4, <1>5 DEF RunInv, DependencyGate

(* The same for a single item that becomes s.                              *)
LEMMA OneItemChanges ==
    ASSUME NEW r, RunInv(r), NEW i \in Items, NEW s \in RuntimeItem, NEW E \in SUBSET EventIds,
           r.item[i].status # "accepted",
           Sound(s, i, r.applied \cup E),
           s.status \in {"ready", "active", "review", "accepted"} \/ s.attempt # 0
              => DependenciesAccepted(r, i),
           NEW q, q = [item |-> [r.item EXCEPT ![i] = s], applied |-> r.applied \cup E]
    PROVE  RunInv(q) /\ Keeps(r, q)
  <1>1. r.item \in [Items -> RuntimeItem]
    BY DEF RunInv, Runs
  <1>2. [r.item EXCEPT ![i] = s] \in [Items -> RuntimeItem]
    BY <1>1
  <1> QED BY <1>1, <1>2, ItemsChange

(* An operator transition.                                                 *)
LEMMA TransitionKeeps ==
    ASSUME NEW r, RunInv(r), NEW i \in Items, NEW t \in Transitions, NEW q \in Transition(r, i, t)
    PROVE  RunInv(q) /\ Keeps(r, q)
  <1> DEFINE s == Moved(r.item[i], t)
  <1>1. /\ r.item[i].status \in AllowedFrom[t]
        /\ t = "ready" => DependenciesAccepted(r, i)
        /\ q = [item |-> [r.item EXCEPT ![i] = s], applied |-> r.applied \cup {}]
    BY DEF Transition
  <1>2. r.item[i] \in RuntimeItem /\ s \in RuntimeItem
    BY ItemTypes DEF RunInv, Runs
  <1>3. s.status = Becomes[t] /\ s.attempt = r.item[i].attempt /\ s.digest = r.item[i].digest
    BY <1>2 DEF Moved, RuntimeItem
  <1>4. r.item[i].status # "accepted" /\ s.status # "accepted"
    BY <1>1, <1>3 DEF Transitions, AllowedFrom, Becomes, OpenBefore
  <1>5. s.status \in {"ready", "active", "review", "accepted"} \/ s.attempt # 0
           => DependenciesAccepted(r, i)
    <2>1. s.status \in {"ready", "active", "review"} => t = "ready" \/ r.item[i].status \in {"ready", "active"}
      BY <1>1, <1>3 DEF Transitions, AllowedFrom, Becomes
    <2> QED BY <1>1, <1>3, <1>4, <2>1 DEF RunInv, DependencyGate, Started
  <1>6. Sound(s, i, r.applied \cup {})
    BY <1>3, <1>4 DEF RunInv, Sound
  <1> QED BY <1>1, <1>2, <1>4, <1>5, <1>6, OneItemChanges

(* advance: every item proposed as ready has its dependencies accepted.    *)
LEMMA AdvanceKeeps ==
    ASSUME NEW r, RunInv(r), NEW q \in Advance(r)
    PROVE  RunInv(q) /\ Keeps(r, q)
  <1> DEFINE f == [i \in Items |-> IF ProposedReady(r, i) THEN Moved(r.item[i], "ready") ELSE r.item[i]]
  <1>1. q = [item |-> f, applied |-> r.applied \cup {}]
    BY DEF Advance
  <1>2. \A i \in Items : r.item[i] \in RuntimeItem
    BY DEF RunInv, Runs
  <1>3. \A i \in Items : Moved(r.item[i], "ready") \in RuntimeItem
    BY <1>2, ItemTypes DEF Transitions
  <1>4. f \in [Items -> RuntimeItem]
    BY <1>2, <1>3
  <1>5. ASSUME NEW i \in Items, ProposedReady(r, i)
        PROVE  r.item[i].status # "accepted" /\ Sound(f[i], i, r.applied \cup {}) /\ DependenciesAccepted(r, i)
    <2>1. f[i] = Moved(r.item[i], "ready")
      BY <1>5
    <2>2. f[i].status = "ready" /\ f[i].attempt = r.item[i].attempt /\ f[i].digest = r.item[i].digest
      BY <1>2, <2>1 DEF Moved, RuntimeItem, Becomes
    <2>3. r.item[i].status # "accepted" /\ DependenciesAccepted(r, i)
      BY <1>5 DEF ProposedReady
    <2> QED BY <2>2, <2>3 DEF RunInv, Sound
  <1>6. \A i \in Items : ~ProposedReady(r, i) => f[i] = r.item[i]
    OBVIOUS
  <1> QED BY <1>1, <1>4, <1>5, <1>6, ItemsChange

(* A new attempt n is sound once its submission is applied.                *)
LEMMA AttemptSound ==
    ASSUME NEW s \in RuntimeItem, NEW i \in Items, NEW n \in Nat, NEW A, Submitted(i, n) \in A
    PROVE  Sound(WithAttempt(s, n), i, A)
  <1>1. /\ WithAttempt(s, n).status = "active" /\ WithAttempt(s, n).attempt = n
        /\ WithAttempt(s, n).digest = 0
    BY DEF WithAttempt, RuntimeItem
  <1> QED BY <1>1 DEF Sound

(* submit                                                                  *)
LEMMA SubmitKeeps ==
    ASSUME NEW r, RunInv(r), NEW i \in Items, NEW n \in Nat, NEW q \in Submit(r, i, n)
    PROVE  RunInv(q) /\ Keeps(r, q)
  <1> DEFINE s == WithAttempt(r.item[i], n)
  <1>1. /\ r.item[i].status = "ready"
        /\ q = [item |-> [r.item EXCEPT ![i] = s], applied |-> r.applied \cup {Submitted(i, n)}]
    BY DEF Submit
  <1>2. r.item[i] \in RuntimeItem /\ s \in RuntimeItem /\ Submitted(i, n) \in EventIds
    BY ItemTypes, KernelTypes DEF RunInv, Runs
  <1>3. DependenciesAccepted(r, i)
    BY <1>1 DEF RunInv, DependencyGate, Started
  <1>4. Sound(s, i, r.applied \cup {Submitted(i, n)})
    BY <1>2, AttemptSound
  <1> QED BY <1>1, <1>2, <1>3, <1>4, OneItemChanges

(* prepare-next: several items at once.                                    *)
LEMMA PrepareKeeps ==
    ASSUME NEW r, RunInv(r), NEW S \in SUBSET Runnable(r), NEW q \in PrepareNext(r, S)
    PROVE  RunInv(q) /\ Keeps(r, q)
  <1> DEFINE O == Opened(r, S)
             f == [i \in Items |-> IF i \in O THEN WithAttempt(r.item[i], NextAttempt(r, i)) ELSE r.item[i]]
             E == {Submitted(i, NextAttempt(r, i)) : i \in O}
  <1>1. q = [item |-> f, applied |-> r.applied \cup E]
    BY DEF PrepareNext
  <1>2. \A i \in Items : r.item[i] \in RuntimeItem /\ NextAttempt(r, i) \in Nat
    <2>1. \A i \in Items : r.item[i] \in RuntimeItem
      BY DEF RunInv, Runs
    <2>2. \A i \in Items : r.item[i].attempt_count \in Nat
      BY <2>1 DEF RuntimeItem
    <2> QED BY <2>1, <2>2 DEF NextAttempt
  <1>3. O \subseteq Items /\ \A i \in O : r.item[i].status = "ready"
    BY DEF Opened, Runnable
  <1>4. \A i \in Items : WithAttempt(r.item[i], NextAttempt(r, i)) \in RuntimeItem
    BY <1>2, ItemTypes
  <1>5. f \in [Items -> RuntimeItem] /\ E \in SUBSET EventIds
    BY <1>2, <1>3, <1>4, KernelTypes
  <1>6. ASSUME NEW i \in O
        PROVE  r.item[i].status # "accepted" /\ Sound(f[i], i, r.applied \cup E) /\ DependenciesAccepted(r, i)
    <2>1. f[i] = WithAttempt(r.item[i], NextAttempt(r, i)) /\ Submitted(i, NextAttempt(r, i)) \in r.applied \cup E
      BY <1>3, <1>6
    <2>2. Sound(f[i], i, r.applied \cup E)
      BY <1>2, <1>3, <2>1, AttemptSound
    <2> QED BY <1>3, <2>2 DEF RunInv, DependencyGate, Started
  <1>7. \A i \in Items : i \notin O => f[i] = r.item[i]
    OBVIOUS
  <1> QED BY <1>1, <1>3, <1>5, <1>6, <1>7, ItemsChange

(* reconcile, complete-artifacts                                           *)
LEMMA ReconcileKeeps ==
    ASSUME NEW r, RunInv(r), NEW i \in Items, NEW R \in Result, R.status \in ReportStatuses,
           NEW d \in Nat, NEW q \in Reconcile(r, i, R, d)
    PROVE  RunInv(q) /\ Keeps(r, q)
  <1> DEFINE s == WithResult(r.item[i], R, d)
             A == r.applied \cup {Imported(i, R, d)}
  <1>1. /\ R.attempt = r.item[i].attempt /\ R.attempt # 0
        /\ r.item[i].status \in {"active", "waiting", "blocked"}
        /\ q = [item |-> [r.item EXCEPT ![i] = s], applied |-> A]
    BY DEF Reconcile, Import
  <1>2. r.item[i] \in RuntimeItem /\ s \in RuntimeItem /\ Imported(i, R, d) \in EventIds
    BY ItemTypes, KernelTypes DEF RunInv, Runs
  <1>3. /\ s.status = AfterReport[R.status] /\ s.attempt = r.item[i].attempt
        /\ s.digest = IF R.status = "succeeded" THEN d ELSE r.item[i].digest
    BY <1>2 DEF WithResult, RuntimeItem
  <1>4. s.status # "accepted"
    BY <1>3 DEF AfterReport, ReportStatuses
  <1>5. DependenciesAccepted(r, i)
    BY <1>1 DEF RunInv, DependencyGate, Started
  <1>6. R.status = "succeeded" => Imported(i, R, d) \in Reported(A, i, s.attempt)
    <2>1. /\ Imported(i, R, d).kind = "result" /\ Imported(i, R, d).item = i
          /\ Imported(i, R, d).result = R
      BY DEF Imported
    <2> QED BY <1>1, <1>3, <2>1 DEF Reported
  <1>7. Sound(s, i, A)
    <2>1. Sound(r.item[i], i, A)
      BY SoundStays DEF RunInv
    <2>2. Imported(i, R, d).result = R /\ Imported(i, R, d).output = d
      BY DEF Imported
    <2>3. CASE R.status = "succeeded"
      BY <1>3, <1>4, <1>6, <2>1, <2>2, <2>3 DEF Sound
    <2>4. CASE R.status # "succeeded"
      BY <1>3, <1>4, <2>1, <2>4 DEF Sound
    <2> QED BY <2>3, <2>4
  <1> QED BY <1>1, <1>2, <1>5, <1>7, OneItemChanges

(* review                                                                  *)
LEMMA ReviewKeeps ==
    ASSUME NEW r, RunInv(r), NEW i \in Items, NEW v \in Receipt, NEW q \in Review(r, i, v)
    PROVE  RunInv(q) /\ Keeps(r, q)
  <1> DEFINE s == WithReview(r.item[i], v)
  <1>1. /\ Binds(r.item[i], v) /\ r.item[i].status = "review"
        /\ v.decision = "accepted" => Complete(v)
        /\ q = [item |-> [r.item EXCEPT ![i] = s], applied |-> r.applied \cup {Decided(i, v)}]
    BY DEF Review
  <1>2. r.item[i] \in RuntimeItem /\ s \in RuntimeItem /\ Decided(i, v) \in EventIds
    BY ItemTypes, KernelTypes DEF RunInv, Runs
  <1>3. /\ s.status = "accepted" => v.decision = "accepted"
        /\ s.attempt = r.item[i].attempt /\ s.digest = r.item[i].digest
        /\ s.result = r.item[i].result /\ s.review = v
    BY <1>2 DEF WithReview, RuntimeItem
  <1>4. DependenciesAccepted(r, i)
    BY <1>1 DEF RunInv, DependencyGate, Started
  <1>5. Binds(s, v)
    BY <1>1, <1>3 DEF Binds
  <1>6. Sound(s, i, r.applied \cup {Decided(i, v)})
    <2>1. Sound(r.item[i], i, r.applied \cup {Decided(i, v)})
      BY SoundStays DEF RunInv
    <2> QED BY <1>1, <1>3, <1>5, <2>1 DEF Sound
  <1> QED BY <1>1, <1>2, <1>4, <1>6, OneItemChanges

----------------------------------------------------------------------------
(* The inductive invariant of the commands: every run in events.json or in *)
(* the memory of a command satisfies RunInv.                               *)
EngineInv ==
    /\ TypeOK
    /\ RunInv(file.run)
    /\ \A c \in Clients : RunInv(work[c].run)

(* The run that import writes satisfies the invariant.                     *)
LEMMA GraphRunInv == RunInv(GraphRun)
  <1>1. GraphRun.item = [i \in Items |-> Registered] /\ GraphRun.applied = {}
    BY DEF GraphRun
  <1>2. GraphRun \in Runs
    BY KernelTypes DEF GraphRun, Runs
  <1>3. /\ Registered.status = "proposed" /\ Registered.attempt = 0 /\ Registered.digest = 0
    BY DEF Registered
  <1>4. \A i \in Items : Sound(Registered, i, {})
    BY <1>3 DEF Sound
  <1> QED BY <1>1, <1>2, <1>3, <1>4 DEF RunInv, DependencyGate, Started

(* A report, of an adapter or of the local completion, is a typed result.  *)
LEMMA ReportTyped ==
    ASSUME NEW c \in Clients, work[c].run \in Runs, ReconcileAttempt(c) \/ CompleteArtifacts(c)
    PROVE  /\ UNCHANGED requests
           /\ \E i \in Items : \E R \in Result : \E d \in Nat :
                 R.status \in ReportStatuses /\ Stage(c, Reconcile(work[c].run, i, R, d))
  <1> DEFINE r == work[c].run
  <1>1. CASE ReconcileAttempt(c)
    <2>1. PICK i \in Items, s \in Reports, x \in ResultIds :
             \E n \in 1..MaxAttempts[i], d \in IF s = "succeeded" THEN Outputs[i] ELSE {0} :
                Stage(c, Reconcile(r, i, [attempt |-> n, status |-> s, id |-> x], d))
      BY <1>1 DEF ReconcileAttempt
    <2>2. PICK n \in 1..MaxAttempts[i] : \E d \in IF s = "succeeded" THEN Outputs[i] ELSE {0} :
             Stage(c, Reconcile(r, i, [attempt |-> n, status |-> s, id |-> x], d))
      BY <2>1
    <2>3. PICK d \in IF s = "succeeded" THEN Outputs[i] ELSE {0} :
             Stage(c, Reconcile(r, i, [attempt |-> n, status |-> s, id |-> x], d))
      BY <2>2
    <2>4. n \in Nat /\ x \in Nat /\ d \in Nat /\ s \in ReportStatuses
      <3>1. MaxAttempts[i] \in Nat /\ Outputs[i] \subseteq Nat /\ ResultIds \subseteq Nat
        BY EngineAssumption
      <3> QED BY <3>1, EngineAssumption
    <2> DEFINE R == [attempt |-> n, status |-> s, id |-> x]
    <2>5. R \in Result /\ R.status \in ReportStatuses
      BY <2>4 DEF Result
    <2>6. Stage(c, Reconcile(r, i, R, d))
      BY <2>3
    <2> HIDE DEF R
    <2> QED BY <1>1, <2>4, <2>5, <2>6 DEF ReconcileAttempt
  <1>2. CASE CompleteArtifacts(c)
    <2>1. PICK i \in Items : \E d \in Outputs[i] :
             Stage(c, Reconcile(r, i, Success(r.item[i].attempt, 0), d))
      BY <1>2 DEF CompleteArtifacts
    <2>2. PICK d \in Outputs[i] : Stage(c, Reconcile(r, i, Success(r.item[i].attempt, 0), d))
      BY <2>1
    <2>3. r.item[i].attempt \in Nat /\ d \in Nat
      BY EngineAssumption DEF Runs, RuntimeItem
    <2>4. /\ Success(r.item[i].attempt, 0) \in Result
          /\ Success(r.item[i].attempt, 0).status \in ReportStatuses
      BY <2>3, KernelTypes DEF Success, ReportStatuses
    <2> QED BY <1>2, <2>2, <2>3, <2>4 DEF CompleteArtifacts
  <1> QED BY <1>1, <1>2

(* What a command computes from the run it read.                           *)
LEMMA CommandKeeps ==
    ASSUME EngineInv, NEW c \in Clients, Command(c)
    PROVE  /\ At(c, "loaded") /\ UNCHANGED <<file, told, imports>>
           /\ requests' \subseteq Items \X (Nat \ {0})
           /\ \E q : RunInv(q) /\ Keeps(work[c].run, q) /\ Goto(c, "staged", q)
  <1> DEFINE r == work[c].run
  <1>0. RunInv(r) /\ requests \subseteq Items \X (Nat \ {0})
    BY DEF EngineInv, TypeOK
  <1>1. CASE AppendTransition(c)
    BY <1>0, <1>1, EngineAssumption, TransitionKeeps DEF AppendTransition, Stage
  <1>2. CASE AdvanceRun(c)
    BY <1>0, <1>2, AdvanceKeeps DEF AdvanceRun, Stage
  <1>3. CASE Prepare(c)
    <2>1. PICK S \in SUBSET Runnable(r) :
             /\ Stage(c, PrepareNext(r, S))
             /\ requests' = requests \cup {<<i, NextAttempt(r, i)>> : i \in S}
      BY <1>3 DEF Prepare
    <2>2. \A i \in Items : r.item[i].attempt_count \in Nat
      BY <1>0 DEF RunInv, Runs, RuntimeItem
    <2>3. \A i \in S : i \in Items /\ NextAttempt(r, i) \in Nat \ {0}
      BY <2>2 DEF Runnable, NextAttempt
    <2>4. requests' \subseteq Items \X (Nat \ {0})
      BY <1>0, <2>1, <2>3
    <2> QED BY <1>0, <2>1, <2>4, PrepareKeeps DEF Stage
  <1>4. CASE SubmitAttempt(c)
    <2>1. PICK q \in requests : Stage(c, Submit(r, q[1], q[2]))
      BY <1>4 DEF SubmitAttempt
    <2>2. q[1] \in Items /\ q[2] \in Nat
      BY <1>0
    <2> QED BY <1>0, <1>4, <2>1, <2>2, SubmitKeeps DEF SubmitAttempt, Stage
  <1>5. CASE ReconcileAttempt(c) \/ CompleteArtifacts(c)
    <2>1. r \in Runs
      BY <1>0 DEF RunInv
    <2>2. UNCHANGED requests
      BY <1>5, <2>1, ReportTyped
    <2>3. PICK i \in Items : \E R \in Result : \E d \in Nat :
             R.status \in ReportStatuses /\ Stage(c, Reconcile(r, i, R, d))
      BY <1>5, <2>1, ReportTyped
    <2>4. PICK R \in Result : \E d \in Nat :
             R.status \in ReportStatuses /\ Stage(c, Reconcile(r, i, R, d))
      BY <2>3
    <2>5. PICK d \in Nat : R.status \in ReportStatuses /\ Stage(c, Reconcile(r, i, R, d))
      BY <2>4
    <2> QED BY <1>0, <2>2, <2>5, ReconcileKeeps DEF Stage
  <1>6. CASE ReviewOutcome(c)
    <2>1. PICK i \in Items, d \in {"accepted", "rejected"} :
             Stage(c, Review(r, i, [attempt |-> r.item[i].attempt, result |-> r.item[i].result,
                                    digest |-> r.item[i].digest, decision |-> d]))
      BY <1>6 DEF ReviewOutcome
    <2> DEFINE v == [attempt |-> r.item[i].attempt, result |-> r.item[i].result,
                     digest |-> r.item[i].digest, decision |-> d]
    <2>2. r.item[i].attempt \in Nat /\ r.item[i].result \in Result /\ r.item[i].digest \in Nat
      BY <1>0 DEF RunInv, Runs, RuntimeItem
    <2>3. v \in Receipt
      BY <2>2 DEF Receipt
    <2> QED BY <1>0, <1>6, <2>1, <2>3, ReviewKeeps DEF ReviewOutcome, Stage
  <1> QED BY <1>1, <1>2, <1>3, <1>4, <1>5, <1>6 DEF Command

(* No file, no copy: the invariant holds initially.                        *)
LEMMA EngineInvInit == Init => EngineInv
  <1> SUFFICES ASSUME Init PROVE EngineInv
    OBVIOUS
  <1>1. GraphRun \in Runs
    BY GraphRunInv DEF RunInv
  <1>2. TypeOK
    BY <1>1 DEF Init, TypeOK
  <1> QED BY <1>2, GraphRunInv DEF Init, EngineInv

(* Every step either stages what a command computed or moves whole runs.   *)
LEMMA EngineInvNext == EngineInv /\ [Next]_vars => EngineInv'
  <1> SUFFICES ASSUME EngineInv, [Next]_vars PROVE EngineInv'
    OBVIOUS
  <1> USE DEF EngineInv
  <1>0. GraphRun \in Runs /\ RunInv(GraphRun)
    BY GraphRunInv DEF RunInv
  <1>1. ASSUME NEW c \in Clients, NEW q, RunInv(q), NEW place \in {"idle", "loaded", "staged", "truncated", "written"},
               Goto(c, place, q)
        PROVE  /\ work' \in [Clients -> [at : {"idle", "loaded", "staged", "truncated", "written"}, run : Runs]]
               /\ \A d \in Clients : RunInv(work'[d].run)
    BY <1>1 DEF Goto, TypeOK, RunInv
  <1>2. ASSUME NEW c \in Clients, Load(c) PROVE EngineInv'
    BY <1>1, <1>2 DEF Load, TypeOK
  <1>3. ASSUME NEW c \in Clients, ImportGraph(c) PROVE EngineInv'
    BY <1>0, <1>1, <1>3 DEF ImportGraph, TypeOK
  <1>4. ASSUME NEW c \in Clients, Command(c) PROVE EngineInv'
    BY <1>1, <1>4, CommandKeeps DEF TypeOK
  <1>5. ASSUME NEW c \in Clients, Report(c) \/ Answer(c) PROVE EngineInv'
    <2>1. work[c].run.applied \subseteq EventIds
      BY DEF TypeOK, Runs
    <2> QED BY <1>0, <1>1, <1>5, <2>1 DEF Report, Answer, TypeOK
  <1>6. ASSUME NEW c \in Clients, Truncate(c) PROVE EngineInv'
    <2>1. file' \in [state : {"absent", "torn", "whole"}, run : Runs] /\ file'.run = file.run
      BY <1>6 DEF Truncate, TypeOK
    <2> QED BY <1>1, <1>6, <2>1 DEF Truncate, TypeOK
  <1>7. ASSUME NEW c \in Clients, Write(c) PROVE EngineInv'
    <2>1. file' \in [state : {"absent", "torn", "whole"}, run : Runs] /\ file'.run = work[c].run
      BY <1>7 DEF Write, TypeOK
    <2> QED BY <1>1, <1>7, <2>1 DEF Write, TypeOK
  <1>8. ASSUME NEW c \in Clients, Kill(c) PROVE EngineInv'
    BY <1>0, <1>1, <1>8 DEF Kill, TypeOK
  <1>9. CASE UNCHANGED vars
    BY <1>9 DEF vars, TypeOK
  <1> QED BY <1>2, <1>3, <1>4, <1>5, <1>6, <1>7, <1>8, <1>9 DEF Next

(* The invariant of the engine holds for any graph, processes and bounds.  *)
THEOREM EngineInvariant == Spec => []EngineInv
  BY EngineInvInit, EngineInvNext, PTL DEF Spec

(* Types: whatever the processes do and wherever they are killed, the file *)
(* and every copy hold a run that the engine could have replayed.          *)
THEOREM EngineTypes == Spec => []TypeOK
  <1>1. EngineInv => TypeOK
    BY DEF EngineInv
  <1> QED BY <1>1, EngineInvariant, PTL

(* No item becomes runnable, runs, is reviewed or accepted before all of   *)
(* its dependencies are accepted.                                          *)
THEOREM GatedAlways == Spec => []Gated
  <1>1. EngineInv => Gated
    BY DEF EngineInv, RunInv, Gated, SeenRuns
  <1> QED BY <1>1, EngineInvariant, PTL

(* Every accepted item has an acceptance bound to its attempt and output,  *)
(* and a recorded success of that attempt.                                 *)
LEMMA SoundIsBound == ASSUME NEW r, RunInv(r) PROVE BoundAcceptance(r)
  <1> SUFFICES ASSUME NEW i \in Items, r.item[i].status = "accepted"
               PROVE  LET s == r.item[i]
                      IN  /\ s.review.decision = "accepted" /\ Binds(s, s.review)
                          /\ Decided(i, s.review) \in r.applied
                          /\ Submitted(i, s.attempt) \in r.applied
                          /\ s.digest # 0
                          /\ \E e \in Reported(r.applied, i, s.attempt) :
                                e.result.status = "succeeded" /\ e.output = s.digest
    BY DEF BoundAcceptance
  <1> DEFINE s == r.item[i]
  <1>1. Sound(s, i, r.applied)
    BY DEF RunInv
  <1>2. s.attempt # 0 /\ s.digest # 0
    BY <1>1 DEF Sound, Binds, Complete
  <1> QED BY <1>1, <1>2 DEF Sound

THEOREM AccountableAlways == Spec => []Accountable
  <1>1. EngineInv => Accountable
    BY SoundIsBound DEF EngineInv, Accountable, SeenRuns
  <1> QED BY <1>1, EngineInvariant, PTL

(* Accepted items are frozen for every command of every process.           *)
THEOREM AcceptedStaysFrozen == Spec => AcceptedFrozen
  <1> DEFINE Frozen ==
        \A c \in Clients : At(c, "loaded") /\ work'[c].at = "staged" =>
          \A i \in Items : work[c].run.item[i].status = "accepted" =>
              work'[c].run.item[i] = work[c].run.item[i]
  <1>1. EngineInv /\ [Next]_vars => [Frozen]_vars
    <2> SUFFICES ASSUME EngineInv, Next, NEW c \in Clients, At(c, "loaded"), work'[c].at = "staged",
                        NEW i \in Items, work[c].run.item[i].status = "accepted"
                 PROVE  work'[c].run.item[i] = work[c].run.item[i]
      OBVIOUS
    <2>1. work \in [Clients -> [at : {"idle", "loaded", "staged", "truncated", "written"}, run : Runs]]
      BY DEF EngineInv, TypeOK
    <2>2. ASSUME NEW d \in Clients, Command(d) PROVE work'[c].run.item[i] = work[c].run.item[i]
      <3>1. PICK q : Keeps(work[d].run, q) /\ Goto(d, "staged", q)
        BY <2>2, CommandKeeps
      <3>2. CASE d = c
        BY <2>1, <3>1, <3>2 DEF Goto, Keeps
      <3>3. CASE d # c
        BY <2>1, <3>1, <3>3 DEF Goto
      <3> QED BY <3>2, <3>3
    <2>3. ASSUME NEW d \in Clients,
                 \/ Load(d) \/ ImportGraph(d) \/ Report(d)
                 \/ Truncate(d) \/ Write(d) \/ Answer(d) \/ Kill(d)
          PROVE  work'[c] = work[c]
      BY <2>1, <2>3 DEF Load, ImportGraph, Report, Truncate, Write, Answer, Kill, Goto, At
    <2> QED BY <2>2, <2>3 DEF Next
  <1>2. Spec => [][Frozen]_vars
    BY <1>1, EngineInvariant, PTL DEF Spec
  <1> QED BY <1>2 DEF AcceptedFrozen

----------------------------------------------------------------------------
(* Reconciliation before retry.  It needs the operators not to make items  *)
(* ready by hand: then only advance does, which skips open attempts.       *)
Tracked(s, i, A) ==
    /\ s.status = "ready" => s.attempt_status \notin Unresolved
    /\ s.attempt_status = "none" => s.attempt = 0
    /\ s.attempt # 0 /\ s.attempt_status \notin Unresolved => Settled(A, i, s.attempt)
    /\ \A n \in Nat \ {0} : Submitted(i, n) \in A /\ n # s.attempt => Settled(A, i, n)
    /\ Submitted(i, 0) \notin A

RunTracked(r) == \A i \in Items : Tracked(r.item[i], i, r.applied)

(* An attempt that is settled stays settled.                               *)
LEMMA SettledStays ==
    ASSUME NEW A, NEW B, A \subseteq B, NEW i, NEW n, Settled(A, i, n)
    PROVE  Settled(B, i, n)
  BY DEF Settled, Reported

(* Item i keeps its attempt, or the new events open none for it.           *)
LEMMA TrackedStays ==
    ASSUME NEW s, NEW i, NEW A, NEW B, A \subseteq B, Tracked(s, i, A),
           \A n \in Nat : Submitted(i, n) \in B => Submitted(i, n) \in A
    PROVE  Tracked(s, i, B)
  BY SettledStays DEF Tracked

(* A new attempt is only opened from ready, so the old one is settled.     *)
LEMMA AttemptTracked ==
    ASSUME NEW s \in RuntimeItem, NEW i \in Items, NEW A, NEW B, A \subseteq B,
           Tracked(s, i, A), s.status = "ready", NEW n \in Nat \ {0}, Submitted(i, n) \in B,
           \A m \in Nat : Submitted(i, m) \in B => Submitted(i, m) \in A \/ m = n
    PROVE  Tracked(WithAttempt(s, n), i, B)
  <1> DEFINE w == WithAttempt(s, n)
  <1>1. w.status = "active" /\ w.attempt = n /\ w.attempt_status = "submitted"
    BY DEF WithAttempt, RuntimeItem
  <1>2. s.attempt # 0 => Settled(B, i, s.attempt)
    BY SettledStays DEF Tracked
  <1>3. ASSUME NEW m \in Nat \ {0}, Submitted(i, m) \in B, m # n PROVE Settled(B, i, m)
    <2>1. Submitted(i, m) \in A
      BY <1>3
    <2>2. m # s.attempt => Settled(A, i, m)
      BY <2>1 DEF Tracked
    <2> QED BY <1>2, <2>2, SettledStays
  <1>4. Submitted(i, 0) \notin B
    BY DEF Tracked
  <1> QED BY <1>1, <1>3, <1>4 DEF Tracked, Unresolved

(* The steps of the commands.                                              *)
LEMMA MovedTracked ==
    ASSUME NEW s \in RuntimeItem, NEW i, NEW A, Tracked(s, i, A), NEW t \in Transitions,
           t = "ready" => s.attempt_status \notin Unresolved
    PROVE  Tracked(Moved(s, t), i, A)
  <1>1. /\ Moved(s, t).status = Becomes[t] /\ Moved(s, t).attempt = s.attempt
        /\ Moved(s, t).attempt_status = s.attempt_status
    BY DEF Moved, RuntimeItem
  <1>2. Becomes[t] = "ready" => t = "ready"
    BY DEF Transitions, Becomes
  <1> QED BY <1>1, <1>2 DEF Tracked

(* An operator transition opens no attempt.                                *)
LEMMA TransitionTracks ==
    ASSUME NEW r \in Runs, RunTracked(r), NEW i \in Items, NEW t \in Transitions, t # "ready",
           NEW q \in Transition(r, i, t)
    PROVE  RunTracked(q)
  <1>1. q = [item |-> [r.item EXCEPT ![i] = Moved(r.item[i], t)], applied |-> r.applied]
    BY DEF Transition
  <1>2. r.item \in [Items -> RuntimeItem]
    BY DEF Runs
  <1>3. Tracked(Moved(r.item[i], t), i, r.applied)
    BY <1>2, MovedTracked DEF RunTracked
  <1> QED BY <1>1, <1>2, <1>3 DEF RunTracked

(* advance opens no attempt.                                               *)
LEMMA AdvanceTracks ==
    ASSUME NEW r \in Runs, RunTracked(r), NEW q \in Advance(r)
    PROVE  RunTracked(q)
  <1>1. /\ q.applied = r.applied
        /\ \A i \in Items : q.item[i] = IF ProposedReady(r, i) THEN Moved(r.item[i], "ready") ELSE r.item[i]
    BY DEF Advance
  <1>2. r.item \in [Items -> RuntimeItem] /\ "ready" \in Transitions
    BY DEF Runs, Transitions
  <1>3. \A i \in Items : ProposedReady(r, i) => Tracked(Moved(r.item[i], "ready"), i, r.applied)
    BY <1>2, MovedTracked DEF RunTracked, ProposedReady
  <1> QED BY <1>1, <1>3 DEF RunTracked

(* submit opens the attempt it records, from ready.                        *)
LEMMA SubmitTracks ==
    ASSUME NEW r \in Runs, RunTracked(r), NEW i \in Items, NEW n \in Nat \ {0}, NEW q \in Submit(r, i, n)
    PROVE  RunTracked(q)
  <1>1. /\ q.item = [r.item EXCEPT ![i] = WithAttempt(r.item[i], n)]
        /\ q.applied = r.applied \cup {Submitted(i, n)} /\ r.item[i].status = "ready"
    BY DEF Submit
  <1>2. r.item \in [Items -> RuntimeItem]
    BY DEF Runs
  <1>3. ASSUME NEW j \in Items PROVE Tracked(q.item[j], j, q.applied)
    <2>1. \A m \in Nat : Submitted(j, m) \in q.applied => Submitted(j, m) \in r.applied \/ (j = i /\ m = n)
      BY <1>1, DistinctEvents
    <2>2. CASE j = i
      BY <1>1, <1>2, <2>1, <2>2, AttemptTracked DEF RunTracked
    <2>3. CASE j # i
      BY <1>1, <1>2, <2>1, <2>3, TrackedStays DEF RunTracked
    <2> QED BY <2>2, <2>3
  <1> QED BY <1>3 DEF RunTracked

(* prepare-next opens one attempt for each item it dispatches.             *)
LEMMA PrepareTracks ==
    ASSUME NEW r \in Runs, RunTracked(r), NEW S \in SUBSET Runnable(r), NEW q \in PrepareNext(r, S)
    PROVE  RunTracked(q)
  <1> DEFINE O == Opened(r, S)
             n(i) == NextAttempt(r, i)
  <1>1. /\ \A i \in Items : q.item[i] = IF i \in O THEN WithAttempt(r.item[i], n(i)) ELSE r.item[i]
        /\ q.applied = r.applied \cup {Submitted(i, n(i)) : i \in O}
    BY DEF PrepareNext
  <1>2. r.item \in [Items -> RuntimeItem] /\ \A i \in Items : n(i) \in Nat \ {0}
    <2>1. r.item \in [Items -> RuntimeItem]
      BY DEF Runs
    <2>2. \A i \in Items : r.item[i].attempt_count \in Nat
      BY <2>1 DEF RuntimeItem
    <2> QED BY <2>1, <2>2 DEF NextAttempt
  <1>3. O \subseteq Items /\ \A i \in O : r.item[i].status = "ready"
    BY DEF Opened, Runnable
  <1>4. ASSUME NEW j \in Items PROVE Tracked(q.item[j], j, q.applied)
    <2>1. \A m \in Nat : Submitted(j, m) \in q.applied => Submitted(j, m) \in r.applied \/ (j \in O /\ m = n(j))
      BY <1>1, DistinctEvents
    <2>2. CASE j \in O
      <3>1. Submitted(j, n(j)) \in q.applied
        BY <1>1, <2>2
      <3> QED BY <1>1, <1>2, <1>3, <2>1, <2>2, <3>1, AttemptTracked DEF RunTracked
    <2>3. CASE j \notin O
      BY <1>1, <2>1, <2>3, TrackedStays DEF RunTracked
    <2> QED BY <2>2, <2>3
  <1> QED BY <1>4 DEF RunTracked

(* A report moves its own attempt only.                                    *)
LEMMA ReconcileTracks ==
    ASSUME NEW r \in Runs, RunTracked(r), NEW i \in Items, NEW R \in Result, R.status \in ReportStatuses,
           NEW d \in Nat, NEW q \in Reconcile(r, i, R, d)
    PROVE  RunTracked(q)
  <1> DEFINE s == WithResult(r.item[i], R, d)
  <1>1. /\ q.item = [r.item EXCEPT ![i] = s] /\ q.applied = r.applied \cup {Imported(i, R, d)}
        /\ R.attempt = r.item[i].attempt
    BY DEF Reconcile, Import
  <1>2. r.item \in [Items -> RuntimeItem]
    BY DEF Runs
  <1>3. \A j \in Items : \A m \in Nat : Submitted(j, m) \in q.applied => Submitted(j, m) \in r.applied
    BY <1>1, DistinctEvents
  <1>4. /\ s.status = AfterReport[R.status] /\ s.attempt = r.item[i].attempt /\ s.attempt_status = R.status
    BY <1>2 DEF WithResult, RuntimeItem
  <1>5. s.status # "ready" /\ s.attempt_status # "none"
    <2>1. AfterReport[R.status] # "ready"
      BY DEF AfterReport, ReportStatuses
    <2>2. R.status # "none"
      BY DEF ReportStatuses
    <2> QED BY <1>4, <2>1, <2>2
  <1>6. R.status \notin Unresolved => Settled(q.applied, i, s.attempt)
    <2>1. /\ Imported(i, R, d).kind = "result" /\ Imported(i, R, d).item = i
          /\ Imported(i, R, d).result = R
      BY DEF Imported
    <2>2. Imported(i, R, d) \in Reported(q.applied, i, s.attempt)
      BY <1>1, <1>4, <2>1 DEF Reported
    <2> QED BY <2>1, <2>2 DEF Unresolved, ReportStatuses, Settled
  <1>7. Tracked(s, i, q.applied)
    <2>1. Tracked(r.item[i], i, q.applied)
      BY <1>1, <1>3, TrackedStays DEF RunTracked
    <2> QED BY <1>4, <1>5, <1>6, <2>1 DEF Tracked
  <1>8. ASSUME NEW j \in Items, j # i PROVE Tracked(q.item[j], j, q.applied)
    BY <1>1, <1>2, <1>3, <1>8, TrackedStays DEF RunTracked
  <1> QED BY <1>1, <1>2, <1>7, <1>8 DEF RunTracked

(* A review opens no attempt.                                              *)
LEMMA ReviewTracks ==
    ASSUME NEW r \in Runs, RunTracked(r), NEW i \in Items, NEW v \in Receipt, NEW q \in Review(r, i, v)
    PROVE  RunTracked(q)
  <1> DEFINE s == WithReview(r.item[i], v)
  <1>1. q.item = [r.item EXCEPT ![i] = s] /\ q.applied = r.applied \cup {Decided(i, v)}
    BY DEF Review
  <1>2. r.item \in [Items -> RuntimeItem]
    BY DEF Runs
  <1>3. \A j \in Items : \A m \in Nat : Submitted(j, m) \in q.applied => Submitted(j, m) \in r.applied
    BY <1>1, DistinctEvents
  <1>4. s.status \in {"accepted", "blocked"} /\ s.attempt = r.item[i].attempt
        /\ s.attempt_status = r.item[i].attempt_status
    BY <1>2 DEF WithReview, RuntimeItem
  <1>5. \A j \in Items : Tracked(r.item[j], j, q.applied)
    BY <1>1, <1>3, TrackedStays DEF RunTracked
  <1>6. Tracked(s, i, q.applied)
    BY <1>4, <1>5 DEF Tracked
  <1> QED BY <1>1, <1>2, <1>5, <1>6 DEF RunTracked

TrackInv == RunTracked(file.run) /\ \A c \in Clients : RunTracked(work[c].run)

(* An imported run has no attempts.                                        *)
LEMMA GraphRunTracked == RunTracked(GraphRun)
  <1>1. GraphRun.item = [i \in Items |-> Registered] /\ GraphRun.applied = {}
    BY DEF GraphRun
  <1>2. Registered.status = "proposed" /\ Registered.attempt = 0 /\ Registered.attempt_status = "none"
    BY DEF Registered
  <1> QED BY <1>1, <1>2 DEF RunTracked, Tracked

(* Every command, given the run it read.                                   *)
LEMMA CommandTracks ==
    ASSUME "ready" \notin Operator, EngineInv, TrackInv, NEW c \in Clients, Command(c)
    PROVE  /\ UNCHANGED file
           /\ \E q : RunTracked(q) /\ Goto(c, "staged", q)
  <1> DEFINE r == work[c].run
  <1>0. RunTracked(r) /\ r \in Runs /\ requests \subseteq Items \X (Nat \ {0})
    BY DEF EngineInv, TypeOK, TrackInv, RunInv
  <1>1. CASE AppendTransition(c)
    BY <1>0, <1>1, EngineAssumption, TransitionTracks DEF AppendTransition, Stage
  <1>2. CASE AdvanceRun(c)
    BY <1>0, <1>2, AdvanceTracks DEF AdvanceRun, Stage
  <1>3. CASE Prepare(c)
    BY <1>0, <1>3, PrepareTracks DEF Prepare, Stage
  <1>4. CASE SubmitAttempt(c)
    <2>1. PICK q \in requests : Stage(c, Submit(r, q[1], q[2]))
      BY <1>4 DEF SubmitAttempt
    <2>2. q[1] \in Items /\ q[2] \in Nat \ {0}
      BY <1>0
    <2> QED BY <1>0, <2>1, <2>2, SubmitTracks DEF Stage
  <1>5. CASE ReconcileAttempt(c) \/ CompleteArtifacts(c)
    <2>1. r \in Runs
      BY <1>0 DEF RunInv
    <2>2. UNCHANGED requests
      BY <1>5, <2>1, ReportTyped
    <2>3. PICK i \in Items : \E R \in Result : \E d \in Nat :
             R.status \in ReportStatuses /\ Stage(c, Reconcile(r, i, R, d))
      BY <1>5, <2>1, ReportTyped
    <2>4. PICK R \in Result : \E d \in Nat :
             R.status \in ReportStatuses /\ Stage(c, Reconcile(r, i, R, d))
      BY <2>3
    <2>5. PICK d \in Nat : R.status \in ReportStatuses /\ Stage(c, Reconcile(r, i, R, d))
      BY <2>4
    <2> QED BY <1>0, <2>2, <2>5, ReconcileTracks DEF Stage
  <1>6. CASE ReviewOutcome(c)
    <2>1. PICK i \in Items, d \in {"accepted", "rejected"} :
             Stage(c, Review(r, i, [attempt |-> r.item[i].attempt, result |-> r.item[i].result,
                                    digest |-> r.item[i].digest, decision |-> d]))
      BY <1>6 DEF ReviewOutcome
    <2> DEFINE v == [attempt |-> r.item[i].attempt, result |-> r.item[i].result,
                     digest |-> r.item[i].digest, decision |-> d]
    <2>2. r.item[i].attempt \in Nat /\ r.item[i].result \in Result /\ r.item[i].digest \in Nat
      BY <1>0 DEF Runs, RuntimeItem
    <2>3. v \in Receipt
      BY <2>2 DEF Receipt
    <2> QED BY <1>0, <2>1, <2>3, ReviewTracks DEF Stage
  <1> QED BY <1>1, <1>2, <1>3, <1>4, <1>5, <1>6 DEF Command

(* Every step of the engine.                                               *)
LEMMA TrackInvNext ==
    ASSUME "ready" \notin Operator, EngineInv, TrackInv, [Next]_vars
    PROVE  TrackInv'
  <1>0. work \in [Clients -> [at : {"idle", "loaded", "staged", "truncated", "written"}, run : Runs]]
    BY DEF EngineInv, TypeOK
  <1>1. ASSUME NEW c \in Clients, NEW q, RunTracked(q), NEW place, Goto(c, place, q)
        PROVE  \A d \in Clients : RunTracked(work'[d].run)
    BY <1>0, <1>1 DEF Goto, TrackInv
  <1>2. ASSUME NEW c \in Clients, Command(c) PROVE TrackInv'
    BY <1>1, <1>2, CommandTracks DEF TrackInv
  <1>3. ASSUME NEW c \in Clients, Load(c) \/ Truncate(c) \/ Write(c) PROVE TrackInv'
    <2>1. RunTracked(file'.run)
      BY <1>3 DEF Load, Truncate, Write, TrackInv, EngineInv, TypeOK
    <2> QED BY <1>1, <1>3, <2>1 DEF Load, Truncate, Write, TrackInv
  <1>4. ASSUME NEW c \in Clients, ImportGraph(c) \/ Report(c) \/ Answer(c) \/ Kill(c) PROVE TrackInv'
    BY <1>1, <1>4, GraphRunTracked DEF ImportGraph, Report, Answer, Kill, TrackInv
  <1>5. CASE UNCHANGED vars
    BY <1>5 DEF vars, TrackInv
  <1> QED BY <1>2, <1>3, <1>4, <1>5 DEF Next

(* Tracked items are reconciled before they are retried.                   *)
LEMMA TrackedIsReconciled == ASSUME NEW r \in Runs, RunTracked(r) PROVE ReconciledFirst(r)
  <1> SUFFICES ASSUME NEW e \in r.applied, e.kind = "submitted", e.attempt # r.item[e.item].attempt
               PROVE  Settled(r.applied, e.item, e.attempt)
    BY DEF ReconciledFirst
  <1>1. e \in EventIds
    BY DEF Runs
  <1>2. e.item \in Items /\ e.attempt \in Nat /\ e = Submitted(e.item, e.attempt)
    BY <1>1 DEF EventIds, Submitted
  <1> QED BY <1>2 DEF RunTracked, Tracked

(* Where operators leave readiness to advance, no attempt is opened while  *)
(* the outcome of the one before it is unknown.                            *)
THEOREM ReconciledAlways == ASSUME "ready" \notin Operator PROVE Spec => []Reconciled
  <1>1. Init => TrackInv
    BY GraphRunTracked DEF Init, TrackInv
  <1>2. EngineInv /\ TrackInv /\ [Next]_vars => TrackInv'
    BY TrackInvNext
  <1>3. EngineInv /\ TrackInv => Reconciled
    BY TrackedIsReconciled DEF EngineInv, RunInv, TrackInv, Reconciled, SeenRuns
  <1> QED BY <1>1, <1>2, <1>3, EngineInvariant, PTL DEF Spec

----------------------------------------------------------------------------
(* One command at a time, of a run that is imported once.  Attempts are    *)
(* numbered by the counter of their item, so a request file names at most  *)
(* the next attempt of the run in the file; and what a command makes of    *)
(* the run it read only adds to it.                                        *)
Numbered(r) ==
    \A i \in Items, n \in Nat : Submitted(i, n) \in r.applied => n <= r.item[i].attempt_count

Grown(r, q) ==
    /\ r.applied \subseteq q.applied
    /\ \A i \in Items : r.item[i].attempt_count <= q.item[i].attempt_count

Requested(r) == \A p \in requests : p[2] <= r.item[p[1]].attempt_count + 1

SerialInv(c) ==
    /\ imports = 0 => /\ file = [state |-> "absent", run |-> GraphRun] /\ requests = {}
                      /\ work[c].at = "idle"
    /\ imports <= 1
    /\ Numbered(file.run) /\ Numbered(work[c].run)
    /\ Requested(file.run) /\ told \subseteq file.run.applied
    /\ work[c].at # "idle" => Grown(file.run, work[c].run)
    /\ work[c].at \in {"loaded", "written"} => work[c].run = file.run

(* The counter of an item under the events.                                *)
LEMMA Counters ==
    ASSUME NEW s \in RuntimeItem
    PROVE  /\ s.attempt_count \in Nat
           /\ \A t : Moved(s, t).attempt_count \in {s.attempt_count, s.attempt_count + 1}
           /\ \A n : WithAttempt(s, n).attempt_count = s.attempt_count + 1
           /\ \A R, d : WithResult(s, R, d).attempt_count = s.attempt_count
           /\ \A v : WithReview(s, v).attempt_count = s.attempt_count
  BY DEF RuntimeItem, Moved, WithAttempt, WithResult, WithReview

(* Counters that do not fall, and no new attempt above its counter.        *)
LEMMA NumberedStays ==
    ASSUME NEW r \in Runs, Numbered(r), NEW q \in Runs, Grown(r, q),
           \A i \in Items, n \in Nat : Submitted(i, n) \in q.applied =>
               Submitted(i, n) \in r.applied \/ n <= q.item[i].attempt_count
    PROVE  Numbered(q)
  <1>1. ASSUME NEW i \in Items, NEW n \in Nat, Submitted(i, n) \in q.applied
        PROVE  n <= q.item[i].attempt_count
    <2>1. /\ r.item[i].attempt_count \in Nat /\ q.item[i].attempt_count \in Nat
          /\ r.item[i].attempt_count <= q.item[i].attempt_count
      BY Counters DEF Runs, Grown
    <2>2. Submitted(i, n) \in r.applied => n <= r.item[i].attempt_count
      BY DEF Numbered
    <2> QED BY <1>1, <2>1, <2>2
  <1> QED BY <1>1 DEF Numbered

(* A step changes one item, and adds one event that opens no attempt or    *)
(* opens one that the new counter covers.                                  *)
LEMMA OneItemGrows ==
    ASSUME NEW r \in Runs, Numbered(r), NEW i \in Items, NEW s \in RuntimeItem, NEW E,
           NEW q \in Runs, q = [item |-> [r.item EXCEPT ![i] = s], applied |-> r.applied \cup E],
           r.item[i].attempt_count <= s.attempt_count,
           \A j \in Items, n \in Nat : Submitted(j, n) \in E => j = i /\ n <= s.attempt_count
    PROVE  Numbered(q) /\ Grown(r, q)
  <1>1. r.item \in [Items -> RuntimeItem]
    BY DEF Runs
  <1>2. ASSUME NEW j \in Items PROVE r.item[j].attempt_count <= q.item[j].attempt_count
    <2>1. r.item[j].attempt_count \in Nat
      BY <1>1, Counters
    <2>2. q.item[j] = IF j = i THEN s ELSE r.item[j]
      BY <1>1
    <2> QED BY <2>1, <2>2
  <1>3. Grown(r, q)
    BY <1>2 DEF Grown
  <1>4. ASSUME NEW j \in Items, NEW n \in Nat, Submitted(j, n) \in q.applied
        PROVE  Submitted(j, n) \in r.applied \/ n <= q.item[j].attempt_count
    BY <1>1, <1>4
  <1> QED BY <1>3, <1>4, NumberedStays

(* The steps of the commands.                                              *)
LEMMA TransitionGrows ==
    ASSUME NEW r, RunInv(r), Numbered(r), NEW i \in Items, NEW t \in Transitions,
           NEW q \in Transition(r, i, t)
    PROVE  Numbered(q) /\ Grown(r, q)
  <1>1. /\ q.applied = r.applied
        /\ q.item = [r.item EXCEPT ![i] = Moved(r.item[i], t)]
    BY DEF Transition
  <1>2. r \in Runs /\ q \in Runs
    BY TransitionKeeps DEF RunInv
  <1>3. ASSUME NEW j \in Items PROVE r.item[j].attempt_count <= q.item[j].attempt_count
    <2>1. r.item[j] \in RuntimeItem /\ r.item \in [Items -> RuntimeItem]
      BY <1>2 DEF Runs
    <2>2. q.item[j] = r.item[j] \/ q.item[j] = Moved(r.item[j], t)
      BY <1>1, <2>1
    <2> QED BY <2>1, <2>2, Counters
  <1>4. Grown(r, q)
    BY <1>1, <1>3 DEF Grown
  <1> QED BY <1>1, <1>2, <1>4, NumberedStays

LEMMA AdvanceGrows ==
    ASSUME NEW r, RunInv(r), Numbered(r), NEW q \in Advance(r)
    PROVE  Numbered(q) /\ Grown(r, q)
  <1>1. /\ q.applied = r.applied
        /\ \A i \in Items : q.item[i] \in {r.item[i], Moved(r.item[i], "ready")}
    BY DEF Advance
  <1>2. r \in Runs /\ q \in Runs
    BY AdvanceKeeps DEF RunInv
  <1>3. ASSUME NEW i \in Items PROVE r.item[i].attempt_count <= q.item[i].attempt_count
    <2>1. r.item[i] \in RuntimeItem
      BY <1>2 DEF Runs
    <2> QED BY <1>1, <2>1, Counters
  <1>4. Grown(r, q)
    BY <1>1, <1>3 DEF Grown
  <1> QED BY <1>1, <1>2, <1>4, NumberedStays

LEMMA SubmitGrows ==
    ASSUME NEW r, RunInv(r), Numbered(r), NEW i \in Items, NEW n \in Nat,
           n <= r.item[i].attempt_count + 1, NEW q \in Submit(r, i, n)
    PROVE  Numbered(q) /\ Grown(r, q)
  <1> DEFINE s == WithAttempt(r.item[i], n)
  <1>1. q = [item |-> [r.item EXCEPT ![i] = s], applied |-> r.applied \cup {Submitted(i, n)}]
    BY DEF Submit
  <1>2. r \in Runs /\ q \in Runs
    BY SubmitKeeps DEF RunInv
  <1>3. r.item[i] \in RuntimeItem /\ s \in RuntimeItem
    BY <1>2, ItemTypes DEF Runs
  <1>4. r.item[i].attempt_count <= s.attempt_count /\ n <= s.attempt_count
    BY <1>3, Counters
  <1>5. \A j \in Items, m \in Nat : Submitted(j, m) \in {Submitted(i, n)} => j = i /\ m <= s.attempt_count
    BY <1>4, DistinctEvents
  <1> HIDE DEF s
  <1> QED BY <1>1, <1>2, <1>3, <1>4, <1>5, OneItemGrows

LEMMA PrepareGrows ==
    ASSUME NEW r, RunInv(r), Numbered(r), NEW S \in SUBSET Runnable(r), NEW q \in PrepareNext(r, S)
    PROVE  Numbered(q) /\ Grown(r, q)
  <1> DEFINE O == Opened(r, S)
  <1>1. /\ \A i \in Items : q.item[i] = IF i \in O THEN WithAttempt(r.item[i], NextAttempt(r, i))
                                        ELSE r.item[i]
        /\ q.applied = r.applied \cup {Submitted(i, NextAttempt(r, i)) : i \in O}
    BY DEF PrepareNext
  <1>2. r \in Runs /\ q \in Runs
    BY PrepareKeeps DEF RunInv
  <1>3. \A i \in Items : r.item[i] \in RuntimeItem
    BY <1>2 DEF Runs
  <1> HIDE DEF O
  <1>4. ASSUME NEW i \in Items PROVE r.item[i].attempt_count <= q.item[i].attempt_count
    <2>1. q.item[i].attempt_count \in {r.item[i].attempt_count, r.item[i].attempt_count + 1}
      BY <1>1, <1>3, Counters
    <2> QED BY <1>3, <2>1, Counters
  <1>5. Grown(r, q)
    BY <1>1, <1>4 DEF Grown
  <1>6. ASSUME NEW i \in Items, NEW n \in Nat, Submitted(i, n) \in q.applied
        PROVE  Submitted(i, n) \in r.applied \/ n <= q.item[i].attempt_count
    <2> SUFFICES ASSUME NEW j \in O, Submitted(i, n) = Submitted(j, NextAttempt(r, j))
                 PROVE  n <= q.item[i].attempt_count
      BY <1>1, <1>6
    <2>1. i = j /\ n = NextAttempt(r, i)
      BY DistinctEvents
    <2>2. q.item[i].attempt_count = NextAttempt(r, i)
      BY <1>1, <1>3, <2>1, Counters DEF NextAttempt
    <2> QED BY <2>1, <2>2
  <1> QED BY <1>2, <1>5, <1>6, NumberedStays

LEMMA ReconcileGrows ==
    ASSUME NEW r, RunInv(r), Numbered(r), NEW i \in Items, NEW R \in Result, R.status \in ReportStatuses,
           NEW d \in Nat, NEW q \in Reconcile(r, i, R, d)
    PROVE  Numbered(q) /\ Grown(r, q)
  <1> DEFINE s == WithResult(r.item[i], R, d)
  <1>1. q = [item |-> [r.item EXCEPT ![i] = s], applied |-> r.applied \cup {Imported(i, R, d)}]
    BY DEF Reconcile, Import
  <1>2. r \in Runs /\ q \in Runs
    BY ReconcileKeeps DEF RunInv
  <1>3. r.item[i] \in RuntimeItem /\ s \in RuntimeItem
    BY <1>2, ItemTypes DEF Runs
  <1>4. r.item[i].attempt_count <= s.attempt_count
    BY <1>3, Counters
  <1>5. \A j \in Items, m \in Nat : Submitted(j, m) \notin {Imported(i, R, d)}
    BY DistinctEvents
  <1> HIDE DEF s
  <1> QED BY <1>1, <1>2, <1>3, <1>4, <1>5, OneItemGrows

LEMMA ReviewGrows ==
    ASSUME NEW r, RunInv(r), Numbered(r), NEW i \in Items, NEW v \in Receipt, NEW q \in Review(r, i, v)
    PROVE  Numbered(q) /\ Grown(r, q)
  <1> DEFINE s == WithReview(r.item[i], v)
  <1>1. q = [item |-> [r.item EXCEPT ![i] = s], applied |-> r.applied \cup {Decided(i, v)}]
    BY DEF Review
  <1>2. r \in Runs /\ q \in Runs
    BY ReviewKeeps DEF RunInv
  <1>3. r.item[i] \in RuntimeItem /\ s \in RuntimeItem
    BY <1>2, ItemTypes DEF Runs
  <1>4. r.item[i].attempt_count <= s.attempt_count
    BY <1>3, Counters
  <1>5. \A j \in Items, m \in Nat : Submitted(j, m) \notin {Decided(i, v)}
    BY DistinctEvents
  <1> HIDE DEF s
  <1> QED BY <1>1, <1>2, <1>3, <1>4, <1>5, OneItemGrows

(* What a command that read the run in the file makes of it.               *)
LEMMA CommandGrows ==
    ASSUME EngineInv, NEW c \in Clients, SerialInv(c), Command(c)
    PROVE  /\ At(c, "loaded") /\ UNCHANGED <<file, told, imports>>
           /\ \A p \in requests' : p[2] <= file.run.item[p[1]].attempt_count + 1
           /\ \E q : Numbered(q) /\ Grown(file.run, q) /\ Goto(c, "staged", q)
  <1> DEFINE r == work[c].run
  <1>1. At(c, "loaded") /\ UNCHANGED <<file, told, imports>>
    BY CommandKeeps
  <1>2. /\ RunInv(r) /\ Numbered(r) /\ r = file.run
        /\ requests \subseteq Items \X (Nat \ {0})
        /\ \A p \in requests : p[2] <= r.item[p[1]].attempt_count + 1
    BY <1>1 DEF EngineInv, TypeOK, SerialInv, At, Requested
  <1>3. SUFFICES /\ \A p \in requests' : p[2] <= r.item[p[1]].attempt_count + 1
                 /\ \E q : Numbered(q) /\ Grown(r, q) /\ Goto(c, "staged", q)
    BY <1>1, <1>2
  <1>4. CASE AppendTransition(c)
    BY <1>2, <1>4, EngineAssumption, TransitionGrows DEF AppendTransition, Stage
  <1>5. CASE AdvanceRun(c)
    BY <1>2, <1>5, AdvanceGrows DEF AdvanceRun, Stage
  <1>6. CASE Prepare(c)
    <2>1. PICK S \in SUBSET Runnable(r) :
             /\ Stage(c, PrepareNext(r, S))
             /\ requests' = requests \cup {<<i, NextAttempt(r, i)>> : i \in S}
      BY <1>6 DEF Prepare
    <2>2. \A i \in S : r.item[i].attempt_count \in Nat
      BY <1>2, Counters DEF Runnable, RunInv, Runs
    <2>3. \A i \in S : NextAttempt(r, i) <= r.item[i].attempt_count + 1
      BY <2>2 DEF NextAttempt
    <2>4. ASSUME NEW p \in requests' PROVE p[2] <= r.item[p[1]].attempt_count + 1
      BY <1>2, <2>1, <2>3
    <2> QED BY <1>2, <2>1, <2>4, PrepareGrows DEF Stage
  <1>7. CASE SubmitAttempt(c)
    <2>1. PICK q \in requests : Stage(c, Submit(r, q[1], q[2]))
      BY <1>7 DEF SubmitAttempt
    <2>2. q[1] \in Items /\ q[2] \in Nat /\ q[2] <= r.item[q[1]].attempt_count + 1
      BY <1>2
    <2> QED BY <1>2, <1>7, <2>1, <2>2, SubmitGrows DEF SubmitAttempt, Stage
  <1>8. CASE ReconcileAttempt(c) \/ CompleteArtifacts(c)
    <2>1. r \in Runs
      BY <1>2 DEF RunInv
    <2>2. UNCHANGED requests
      BY <1>8, <2>1, ReportTyped
    <2>3. PICK i \in Items : \E R \in Result : \E d \in Nat :
             R.status \in ReportStatuses /\ Stage(c, Reconcile(r, i, R, d))
      BY <1>8, <2>1, ReportTyped
    <2>4. PICK R \in Result : \E d \in Nat :
             R.status \in ReportStatuses /\ Stage(c, Reconcile(r, i, R, d))
      BY <2>3
    <2>5. PICK d \in Nat : R.status \in ReportStatuses /\ Stage(c, Reconcile(r, i, R, d))
      BY <2>4
    <2> QED BY <1>2, <2>2, <2>5, ReconcileGrows DEF Stage
  <1>9. CASE ReviewOutcome(c)
    <2>1. PICK i \in Items, d \in {"accepted", "rejected"} :
             Stage(c, Review(r, i, [attempt |-> r.item[i].attempt, result |-> r.item[i].result,
                                    digest |-> r.item[i].digest, decision |-> d]))
      BY <1>9 DEF ReviewOutcome
    <2> DEFINE v == [attempt |-> r.item[i].attempt, result |-> r.item[i].result,
                     digest |-> r.item[i].digest, decision |-> d]
    <2>2. r.item[i].attempt \in Nat /\ r.item[i].result \in Result /\ r.item[i].digest \in Nat
      BY <1>2 DEF RunInv, Runs, RuntimeItem
    <2>3. v \in Receipt
      BY <2>2 DEF Receipt
    <2> QED BY <1>2, <1>9, <2>1, <2>3, ReviewGrows DEF ReviewOutcome, Stage
  <1> QED BY <1>4, <1>5, <1>6, <1>7, <1>8, <1>9 DEF Command

(* A graph that was just imported has no attempts.                         *)
LEMMA GraphRunNumbered == Numbered(GraphRun) /\ Grown(GraphRun, GraphRun)
  <1>1. GraphRun.applied = {} /\ \A i \in Items : GraphRun.item[i].attempt_count = 0
    BY DEF GraphRun, Registered
  <1> QED BY <1>1 DEF Numbered, Grown

(* Every step of the only command.                                         *)
LEMMA SerialInvNext ==
    ASSUME MaxImports <= 1, EngineInv, NEW c \in Clients, Clients = {c}, SerialInv(c), [Next]_vars
    PROVE  SerialInv(c)'
  <1>0. /\ work \in [Clients -> [at : {"idle", "loaded", "staged", "truncated", "written"}, run : Runs]]
        /\ imports \in Nat /\ MaxImports \in Nat
        /\ \A i \in Items : file.run.item[i].attempt_count \in Nat
    BY EngineAssumption, Counters DEF EngineInv, TypeOK, RunInv, Runs
  <1>1. ASSUME NEW place, NEW q, Goto(c, place, q) PROVE work'[c] = [at |-> place, run |-> q]
    BY <1>0, <1>1 DEF Goto
  <1>2. Grown(file.run, file.run)
    BY <1>0 DEF Grown
  <1>3. CASE Load(c)
    <2>1. work'[c] = [at |-> "loaded", run |-> file.run] /\ file.state = "whole"
      BY <1>1, <1>3 DEF Load
    <2>2. imports # 0
      BY <2>1 DEF SerialInv
    <2> QED BY <1>2, <1>3, <2>1, <2>2 DEF Load, SerialInv, Requested
  <1>4. CASE ImportGraph(c)
    <2>1. work'[c] = [at |-> "staged", run |-> GraphRun] /\ imports = 0 /\ imports' = 1
      BY <1>0, <1>1, <1>4 DEF ImportGraph
    <2>2. file'.run = GraphRun
      BY <1>4, <2>1 DEF SerialInv, ImportGraph
    <2> QED BY <1>4, <2>1, <2>2, GraphRunNumbered DEF ImportGraph, SerialInv, Requested
  <1>5. CASE Command(c)
    <2>1. /\ At(c, "loaded") /\ UNCHANGED <<file, told, imports>>
          /\ \A p \in requests' : p[2] <= file.run.item[p[1]].attempt_count + 1
      BY <1>5, CommandGrows
    <2>2. PICK q : Numbered(q) /\ Grown(file.run, q) /\ Goto(c, "staged", q)
      BY <1>5, CommandGrows
    <2>3. imports # 0
      BY <2>1 DEF SerialInv, At
    <2>4. work'[c] = [at |-> "staged", run |-> q]
      BY <1>1, <2>2
    <2> QED BY <2>1, <2>2, <2>3, <2>4 DEF SerialInv, Requested
  <1>6. CASE Report(c) \/ Answer(c)
    <2>1. work'[c] = [at |-> "idle", run |-> GraphRun] /\ work[c].at \in {"loaded", "written"}
      BY <1>1, <1>6 DEF Report, Answer, At
    <2>2. told' \subseteq file.run.applied
      BY <1>6, <2>1 DEF Report, Answer, SerialInv
    <2> QED BY <1>6, <2>1, <2>2, GraphRunNumbered DEF Report, Answer, SerialInv, Requested
  <1>7. CASE Truncate(c)
    <2>1. /\ work'[c] = [at |-> "truncated", run |-> work[c].run] /\ work[c].at = "staged"
          /\ file'.run = file.run
      BY <1>1, <1>7 DEF Truncate, At, EngineInv, TypeOK
    <2> QED BY <1>7, <2>1 DEF Truncate, SerialInv, Requested
  <1>8. CASE Write(c)
    <2>1. /\ work'[c] = [at |-> "written", run |-> work[c].run] /\ work[c].at = "truncated"
          /\ file'.run = work[c].run /\ UNCHANGED <<requests, told, imports>>
      BY <1>1, <1>8 DEF Write, At
    <2>2. Grown(file.run, work[c].run) /\ imports # 0
      BY <2>1 DEF SerialInv
    <2>3. \A i \in Items : work[c].run.item[i].attempt_count \in Nat
      BY Counters DEF EngineInv, RunInv, Runs
    <2>4. Grown(work[c].run, work[c].run)
      BY <2>3 DEF Grown
    <2>5. ASSUME NEW p \in requests PROVE p[2] <= work[c].run.item[p[1]].attempt_count + 1
      <3>1. p[1] \in Items /\ p[2] \in Nat /\ p[2] <= file.run.item[p[1]].attempt_count + 1
        BY DEF SerialInv, Requested, EngineInv, TypeOK
      <3> QED BY <1>0, <2>2, <2>3, <3>1 DEF Grown
    <2>6. told \subseteq work[c].run.applied
      BY <2>2 DEF Grown, SerialInv
    <2> QED BY <2>1, <2>2, <2>4, <2>5, <2>6 DEF SerialInv, Requested
  <1>9. CASE Kill(c)
    <2>1. work'[c] = [at |-> "idle", run |-> GraphRun] /\ UNCHANGED <<file, requests, told, imports>>
      BY <1>1, <1>9 DEF Kill
    <2> QED BY <2>1, GraphRunNumbered DEF SerialInv, Requested
  <1>10. CASE UNCHANGED vars
    BY <1>10 DEF vars, SerialInv, Requested
  <1> QED BY <1>3, <1>4, <1>5, <1>6, <1>7, <1>8, <1>9, <1>10 DEF Next

(* With one command at a time and one import.                              *)
LEMMA SerialInvariant ==
    ASSUME NEW c \in Clients, Clients = {c}, MaxImports <= 1
    PROVE  Spec => []SerialInv(c)
  <1>1. ASSUME Init PROVE SerialInv(c)
    <2>1. work[c] = [at |-> "idle", run |-> GraphRun] /\ file = [state |-> "absent", run |-> GraphRun]
      BY <1>1 DEF Init
    <2> QED BY <1>1, <2>1, GraphRunNumbered DEF Init, SerialInv, Requested
  <1>2. EngineInv /\ SerialInv(c) /\ [Next]_vars => SerialInv(c)'
    BY SerialInvNext
  <1> QED BY <1>1, <1>2, EngineInvariant, PTL DEF Spec

(* Runtime commands that are not run concurrently, on a run that is        *)
(* imported once: prepare-next never hands out the number of an attempt    *)
(* that was opened before, whatever was killed, repeated or submitted      *)
(* from an earlier request file: director_request_for_item.                *)
THEOREM AttemptsAlwaysFresh ==
    ASSUME \E c : Clients = {c}, MaxImports <= 1
    PROVE  Spec => []FreshAttempts
  <1>1. PICK c : Clients = {c}
    OBVIOUS
  <1>2. EngineInv /\ SerialInv(c) => FreshAttempts
    <2> SUFFICES ASSUME EngineInv, SerialInv(c), NEW r \in SeenRuns, NEW i \in Items,
                        Submitted(i, NextAttempt(r, i)) \in r.applied
                 PROVE  FALSE
      BY DEF FreshAttempts
    <2>1. Numbered(r) /\ r \in Runs
      BY <1>1 DEF SeenRuns, SerialInv, EngineInv, RunInv
    <2>2. r.item[i].attempt_count \in Nat /\ NextAttempt(r, i) = r.item[i].attempt_count + 1
      BY <2>1, Counters DEF Runs, NextAttempt
    <2> QED BY <2>1, <2>2 DEF Numbered
  <1>3. Spec => []SerialInv(c)
    BY <1>1, SerialInvariant
  <1> QED BY <1>2, <1>3, EngineInvariant, PTL

(* Under the same conditions a run is an append-only history: what a       *)
(* command reported as recorded is there whenever the file can be read,    *)
(* although every command rewrites the whole file: persist_run.  A second  *)
(* import of the run breaks it, and so do concurrent commands.             *)
THEOREM ReportedAlwaysKept ==
    ASSUME \E c : Clients = {c}, MaxImports <= 1
    PROVE  Spec => []ReportedKept
  <1>1. PICK c : Clients = {c}
    OBVIOUS
  <1>2. SerialInv(c) => ReportedKept
    BY DEF SerialInv, ReportedKept
  <1>3. Spec => []SerialInv(c)
    BY <1>1, SerialInvariant
  <1> QED BY <1>2, <1>3, PTL

=============================================================================
