---------------------------- MODULE GuardedStore ----------------------------
(***************************************************************************)
(* FileSystemStore and its guarded wrappers (closed_loop/storage): several *)
(* processes share the storage roots of one workspace.  Every mutation     *)
(* takes the workspace lock, loads and validates the roots it needs,       *)
(* decides, publishes zero, one or two files by exclusive rename, and      *)
(* answers its caller.  A process may die, or a system call fail, between  *)
(* any two of these steps: the lock is dropped and the caller is told      *)
(* nothing.  An operation the code refuses changes nothing and is no step. *)
(***************************************************************************)
EXTENDS StorageKernel

CONSTANTS
    Clients,        \* the processes that use the workspace
    Free,           \* the lock when no process holds it
    Governed,       \* the workflows the host registers
    Checkpointed,   \* the workflows whose readers store checkpoints
    MaxFailures     \* bound: how often an operation ends without an answer

ASSUME ClientsAssumption ==
    /\ Free \notin Clients /\ MaxFailures \in Nat
    /\ Governed \subseteq Workflows /\ Checkpointed \subseteq Workflows

VARIABLES
    hist,       \* hist[w]: the visible batches of w, by first sequence
    declared,   \* declared[w]: the declared bindings of w, by generation
    marked,     \* marked[w]: the generations of w whose marker is stored
    checkpoint, \* checkpoint[w]: the heads for which a checkpoint is stored
    lock,       \* the holder of the workspace lock, or Free
    work,       \* work[c]: what c has left to publish and to answer
    acked,      \* the batches some caller was told are committed
    issued,     \* the bindings named by the receipts callers were given
    failures    \* how many operations ended without an answer

disk == <<hist, declared, marked, checkpoint>>
told == <<acked, issued>>
vars == <<hist, declared, marked, checkpoint, lock, work, acked, issued, failures>>

(* The files left to publish, and the answer: committed batches, receipts. *)
Job(files, batches, receipts) ==
    [files |-> files, batches |-> batches, receipts |-> receipts]
Idle == Job(<< >>, {}, {})

Declaration(b) == [kind |-> "declaration", binding |-> b]
Marker(b)      == [kind |-> "marker", binding |-> b]
BatchFile(b)   == [kind |-> "batch", batch |-> b]
CheckpointFile(w, h) == [kind |-> "checkpoint", wf |-> w, at |-> h]

Init ==
    /\ hist = [w \in Workflows |-> << >>]
    /\ declared = [w \in Workflows |-> << >>]
    /\ marked = [w \in Workflows |-> {}]
    /\ checkpoint = [w \in Workflows |-> {}]
    /\ lock = Free
    /\ work = [c \in Clients |-> Idle]
    /\ acked = {} /\ issued = {}
    /\ failures = 0

----------------------------------------------------------------------------
(* What an operation sees once it holds the lock.                          *)

(* native_acquire: flock(LOCK_EX) on the workspace, before any root opens. *)
LockAvailable == lock = Free

(* load_native_state: reading a root fails unless its batches validate,    *)
(* its bindings form chains and every marker has its declaration.          *)
Loads(r) ==
    /\ ValidBatches(hist, r)
    /\ \A w \in InRoot(r) : OneChain(declared[w]) /\ marked[w] \subseteq DOMAIN declared[w]

Registered(w) == declared[w] # << >>
Current(w)    == Final(declared[w])

(* NativeState::registered_binding: one missing marker closes the root.    *)
MarkersPresent(r) == \A w \in InRoot(r) : DOMAIN declared[w] \subseteq marked[w]

(* Heads a caller may have read, at any earlier time: its requests are     *)
(* built from replays that other processes have since overtaken, and a     *)
(* retry repeats a request whose first answer was lost.                    *)
PastHeads(w) == {Genesis} \cup {EndOf(hist[w][i]) : i \in DOMAIN hist[w]}

(* Expected heads for the guard workflows G, each read at its own time.    *)
PastGuards(G) ==
    {[w \in Workflows |-> IF w \in G THEN f[w] ELSE NoGuard] :
        f \in {h \in [G -> UNION {PastHeads(g) : g \in G}] : \A g \in G : h[g] \in PastHeads(g)}}

(* An idle process takes the lock for the job j.                           *)
Start(c, j) ==
    /\ LockAvailable
    /\ lock' = c
    /\ work' = [work EXCEPT ![c] = j]
    /\ UNCHANGED <<disk, told, failures>>

StartCommit(c, outcome, q) ==
    \/ outcome = "append"   /\ Start(c, Job(<<BatchFile(q)>>, {q}, {}))
    \/ outcome = "existing" /\ Start(c, Job(<< >>, {b \in SameKey(hist, q) : SameRequest(b, q)}, {}))

----------------------------------------------------------------------------
(* Mutant: a raw store commits to any workflow whose markers are stored.   *)
RawAdmittedRegistered(w) == Loads(RootOf[w]) /\ MarkersPresent(RootOf[w])

(* FileSystemStore::commit refuses a registered workflow before it looks   *)
(* at idempotency or at the expected revision.                             *)
RawAdmitted(w) == Loads(RootOf[w]) /\ MarkersPresent(RootOf[w]) /\ ~Registered(w)

Commit(c, cmd) ==
    \E at \in PastHeads(cmd.wf) :
        LET q == [cmd |-> cmd, at |-> at, heads |-> Unguarded]
        IN  RawAdmitted(cmd.wf) /\ StartCommit(c, Prepare(hist, q), q)

(* FileSystemGuardedStore::new: no receipt; on a registered workflow some  *)
(* profile must have exactly the guards of the request.                    *)
OpenProfile(w, G) ==
    \E i \in DOMAIN Current(w).profiles : Current(w).profiles[i].flows = G

(* RegistryBoundFileSystemStore::new_for_profile was given a receipt and a *)
(* profile id; resolve_registered_profile checks both again at the commit. *)
BoundProfile(w, G, b, id) ==
    /\ HasId(b, id)
    /\ HasId(Current(w), id) /\ Profile(Current(w), id).flows = G
    /\ DescendsFrom(declared[w], b)

(* GuardedCommitRequest::new; FileSystemStore::guarded_commit has every    *)
(* guard in its own root, a FileSystemGuardedStore one root per guard.     *)
CallableGuards(w, G) ==
    /\ G # {} /\ w \notin G
    /\ \/ \A g \in G : RootOf[g] = RootOf[w]
       \/ \A g, h \in G : RootOf[g] # RootOf[w] /\ (RootOf[g] = RootOf[h] => g = h)

GuardedAdmitted(w, G) ==
    /\ Loads(RootOf[w]) /\ MarkersPresent(RootOf[w])
    /\ \A g \in G : Loads(RootOf[g])
    /\ Registered(w) => PrefixKept(Current(w), hist[w])

ProfileAdmits(w, G) ==
    Registered(w) =>
        \/ OpenProfile(w, G)
        \/ \E b \in issued : \E id \in {p.id : p \in Profiles} : BoundProfile(w, G, b, id)

GuardedCommit(c, cmd, G) ==
    /\ CallableGuards(cmd.wf, G) /\ GuardedAdmitted(cmd.wf, G) /\ ProfileAdmits(cmd.wf, G)
    /\ \E at \in PastHeads(cmd.wf), heads \in PastGuards(G) :
          LET q == [cmd |-> cmd, at |-> at, heads |-> heads]
          IN  StartCommit(c, PrepareGuarded(hist, q), q)

----------------------------------------------------------------------------
(* activate_guarded_workflow_profiles_internal.  It does not need the      *)
(* markers: it is what completes an interrupted publication.               *)
ConfigurationMatches(b, ps, exact) ==
    IF exact THEN b.profiles = ps
    ELSE HasId(b, DefaultId) /\ ps = <<Profile(b, DefaultId)>>

RootsLoad(w, ps) ==
    Loads(RootOf[w]) /\ \A i \in DOMAIN ps : \A g \in ps[i].flows : Loads(RootOf[g])

FirstActivation(c, w, ps) ==
    LET b == FirstBinding(w, ps, hist[w])
    IN  /\ RootsLoad(w, ps) /\ ValidProfiles(w, ps) /\ ~Registered(w)
        /\ Start(c, Job(<<Declaration(b), Marker(b)>>, {}, {b}))

(* Mutant: an activation is repeated only when nothing is missing.         *)
RepeatAllowedComplete(w, ps, exact) ==
    /\ RootsLoad(w, ps) /\ ValidProfiles(w, ps) /\ Registered(w)
    /\ ConfigurationMatches(Current(w), ps, exact)
    /\ PrefixKept(Current(w), hist[w]) /\ MarkersPresent(RootOf[w])

RepeatAllowed(w, ps, exact) ==
    /\ RootsLoad(w, ps) /\ ValidProfiles(w, ps) /\ Registered(w)
    /\ ConfigurationMatches(Current(w), ps, exact)
    /\ PrefixKept(Current(w), hist[w])

(* Mutant: a repeated activation answers without looking for its marker.   *)
RepeatedActivationUnmarked(c, w, ps, exact) ==
    RepeatAllowed(w, ps, exact) /\ Start(c, Job(<< >>, {}, {Current(w)}))

RepeatedActivation(c, w, ps, exact) ==
    LET b == Current(w)
    IN  /\ RepeatAllowed(w, ps, exact)
        /\ Start(c, Job(IF b.gen \in marked[w] THEN << >> ELSE <<Marker(b)>>, {}, {b}))

(* add_guard_profile: the receipt must name the current binding, and the   *)
(* new generation adds one profile under a new id.                         *)
AddGuardProfile(c, b, p) ==
    LET w == b.wf
    IN  /\ RootsLoad(w, <<p>>) /\ ValidProfiles(w, <<p>>)
        /\ Registered(w) /\ b = Current(w)
        /\ PrefixKept(b, hist[w]) /\ ~HasId(b, p.id)
        /\ Start(c, Job(<<Declaration(Evolve(b, p)), Marker(Evolve(b, p))>>, {}, {Evolve(b, p)}))

(* write_checkpoint: only at an event of the validated history.            *)
EventHeads(w) ==
    UNION {{[rev |-> b.at.rev + i, last |-> b.cmd.ids[i]] : i \in DOMAIN b.cmd.ids} :
              b \in {hist[w][j] : j \in DOMAIN hist[w]}}

(* Mutant: the checkpoint is stored without validating its boundary.       *)
WriteCheckpointUnchecked(c, w, h) ==
    /\ Loads(RootOf[w]) /\ h \notin checkpoint[w]
    /\ Start(c, Job(<<CheckpointFile(w, h)>>, {}, {}))

WriteCheckpoint(c, w, h) ==
    /\ Loads(RootOf[w]) /\ h \in {Genesis} \cup EventHeads(w)
    /\ h \notin checkpoint[w]
    /\ Start(c, Job(<<CheckpointFile(w, h)>>, {}, {}))

----------------------------------------------------------------------------
(* native_atomic_store_named: the next file becomes visible by rename.     *)
PublishBatch(f) ==
    /\ f.kind = "batch"
    /\ hist' = [hist EXCEPT ![f.batch.cmd.wf] = Append(@, f.batch)]
    /\ UNCHANGED <<declared, marked, checkpoint>>

PublishDeclaration(f) ==
    /\ f.kind = "declaration"
    /\ declared' = [declared EXCEPT ![f.binding.wf] = Append(@, f.binding)]
    /\ UNCHANGED <<hist, marked, checkpoint>>

PublishMarker(f) ==
    /\ f.kind = "marker"
    /\ marked' = [marked EXCEPT ![f.binding.wf] = @ \cup {f.binding.gen}]
    /\ UNCHANGED <<hist, declared, checkpoint>>

PublishCheckpoint(f) ==
    /\ f.kind = "checkpoint"
    /\ checkpoint' = [checkpoint EXCEPT ![f.wf] = @ \cup {f.at}]
    /\ UNCHANGED <<hist, declared, marked>>

Publish(c) ==
    /\ work[c].files # << >>
    /\ LET f == Head(work[c].files)
       IN  PublishBatch(f) \/ PublishDeclaration(f) \/ PublishMarker(f) \/ PublishCheckpoint(f)
    /\ work' = [work EXCEPT ![c] = Job(Tail(@.files), @.batches, @.receipts)]
    /\ UNCHANGED <<lock, told, failures>>

(* Mutant: the caller is answered before the last rename.                  *)
AnswerEarly(c) ==
    /\ lock = c
    /\ acked' = acked \cup work[c].batches
    /\ issued' = issued \cup work[c].receipts
    /\ lock' = Free
    /\ work' = [work EXCEPT ![c] = Idle]
    /\ UNCHANGED <<disk, failures>>

(* Mutant: an operation returns without native_close.                      *)
AnswerUnclosed(c) ==
    /\ lock = c /\ work[c].files = << >>
    /\ acked' = acked \cup work[c].batches
    /\ issued' = issued \cup work[c].receipts
    /\ work' = [work EXCEPT ![c] = Idle]
    /\ UNCHANGED <<disk, lock, failures>>

(* native_close, and the result the caller sees.                           *)
Answer(c) ==
    /\ lock = c /\ work[c].files = << >>
    /\ acked' = acked \cup work[c].batches
    /\ issued' = issued \cup work[c].receipts
    /\ lock' = Free
    /\ work' = [work EXCEPT ![c] = Idle]
    /\ UNCHANGED <<disk, failures>>

(* The process dies, or the atomic store reports a failed system call.     *)
Fail(c) ==
    /\ lock = c /\ failures < MaxFailures
    /\ failures' = failures + 1
    /\ lock' = Free
    /\ work' = [work EXCEPT ![c] = Idle]
    /\ UNCHANGED <<disk, told>>

----------------------------------------------------------------------------
(* Checkpoints a caller may offer: at a head it has read, or at one it     *)
(* expects its own commit to leave.                                        *)
OfferedHeads(w) ==
    LET Expected(at, cmd) == EndOf([cmd |-> cmd, at |-> at, heads |-> Unguarded])
    IN  PastHeads(w) \cup {Expected(at, cmd) : at \in PastHeads(w), cmd \in {d \in Commands : d.wf = w}}

(* Activation requests name up to two profiles.                            *)
Configurations == {<<p>> : p \in Profiles} \cup {<<p, r>> : p, r \in Profiles}

Mutate(c) ==
    \/ \E cmd \in Commands : Commit(c, cmd)
    \/ \E cmd \in Commands, G \in SUBSET Workflows : GuardedCommit(c, cmd, G)
    \/ \E w \in Checkpointed : \E h \in OfferedHeads(w) : WriteCheckpoint(c, w, h)

Register(c) ==
    \/ \E w \in Governed, ps \in Configurations : FirstActivation(c, w, ps)
    \/ \E w \in Governed, ps \in Configurations, exact \in BOOLEAN :
          RepeatedActivation(c, w, ps, exact)
    \/ \E b \in issued, p \in Profiles : AddGuardProfile(c, b, p)

Next == \E c \in Clients : Mutate(c) \/ Register(c) \/ Publish(c) \/ Answer(c) \/ Fail(c)

(* A process that holds the lock goes on: each native call returns.        *)
Fairness == \A c \in Clients : WF_vars(Publish(c)) /\ WF_vars(Answer(c))

Spec     == Init /\ [][Next]_vars
FairSpec == Spec /\ Fairness

----------------------------------------------------------------------------
(* Files waiting to be published, and the type invariant.                  *)
File ==
    [kind : {"batch"}, batch : Batch]
      \cup [kind : {"declaration", "marker"}, binding : Binding]
      \cup [kind : {"checkpoint"}, wf : Workflows, at : WorkflowHead]

TypeOK ==
    /\ hist \in [Workflows -> Seq(Batch)]
    /\ declared \in [Workflows -> Seq(Binding)]
    /\ marked \in [Workflows -> SUBSET Nat]
    /\ checkpoint \in [Workflows -> SUBSET WorkflowHead]
    /\ lock \in Clients \cup {Free}
    /\ work \in [Clients -> [files : Seq(File), batches : SUBSET Batch, receipts : SUBSET Binding]]
    /\ acked \subseteq Batch /\ issued \subseteq Binding
    /\ failures \in Nat

(* No sequence of commits, activations and failed operations ever leaves a *)
(* root that load_native_state refuses: a root that cannot be loaded       *)
(* refuses every later operation, so its workflows would be lost for good. *)
Readable == \A w \in Workflows : Loads(RootOf[w])

(* A commit acknowledged to any caller, on its first try or on a retry,    *)
(* stays in the history, under the head and the guards it was made with.   *)
AckedStored == \A b \in acked : \E i \in DOMAIN hist[b.cmd.wf] : hist[b.cmd.wf][i] = b

(* A registered workflow grows only while all markers of its root are      *)
(* stored, and only by a batch that carries the guards of one declared     *)
(* profile at the heads they have in this very step: no raw writer, stale  *)
(* wrapper or interrupted activation gets past the registry.               *)
GuardedOnceRegistered ==
    [][\A w \in Workflows :
          hist'[w] # hist[w] /\ Registered(w) =>
             LET b == Final(hist'[w])
             IN  /\ MarkersPresent(RootOf[w])
                 /\ OpenProfile(w, GuardsOf(b))
                 /\ GuardsMatch(hist, b)]_vars

(* Whatever was interrupted, the host can finish it: at most the newest    *)
(* binding lacks its marker, and repeating the activation with the         *)
(* profiles that were declared is admitted and publishes it.               *)
RegistryRepairable ==
    \A w \in Workflows : Registered(w) =>
        /\ \A i \in DOMAIN declared[w] : i < Len(declared[w]) => i \in marked[w]
        /\ RepeatAllowed(w, Current(w).profiles, TRUE)

(* A receipt handed out names a binding that is durable for good: declared *)
(* with its marker, and an ancestor of the current one, so evolution never *)
(* orphans the wrappers built from an older receipt.                       *)
ReceiptsDescend ==
    \A b \in issued : DescendsFrom(declared[b.wf], b) /\ b.gen \in marked[b.wf]

(* A stored checkpoint always marks an event of the history, so replay     *)
(* never resumes from a state the events do not lead to.                   *)
CheckpointsValid ==
    \A w \in Workflows : checkpoint[w] \subseteq {Genesis} \cup EventHeads(w)

(* Nobody waits for the workspace lock for ever: whoever holds it gives it *)
(* back, whatever it still had to publish.                                 *)
LockReleased == \A c \in Clients : (lock = c) ~> (lock # c)

(* The profiles the host has registered for each workflow, so far.         *)
RegisteredProfiles ==
    [w \in Workflows |-> IF Registered(w) THEN Current(w).profiles ELSE << >>]

(* The store implements the ledger.                                        *)
Ledger == INSTANCE WorkflowLedger WITH log <- hist, profiles <- RegisteredProfiles

(* Every step of the store is one atomic ledger step or changes nothing    *)
(* the ledger shows: batches and registrations take effect at the rename.  *)
LedgerSpec == Ledger!LSpec
=============================================================================
