--------------------------- MODULE StorageKernel ---------------------------
(***************************************************************************)
(* The record algebra of closed_loop/storage: what a committed batch is,   *)
(* when a storage root can be read back, and how a commit request is       *)
(* classified against the batches already stored.  Content digests are     *)
(* collision free, so a digest is represented by the identity of what it   *)
(* covers.  An event's sequence and revision advance together from one, so *)
(* one number, rev, stands for both.                                       *)
(***************************************************************************)
EXTENDS Integers, Sequences, FiniteSets

CONSTANTS
    Workflows,      \* workflow references; each lives in one storage root
    RootOf,         \* RootOf[w]: the storage root that holds workflow w
    Events,         \* identities (and idempotency keys) of workflow events
    NoEvent,        \* the missing previous-event digest of an empty workflow
    Commands,       \* the commands callers issue, see IsCommand
    Profiles,       \* guard profiles: [id, flows]
    DefaultId       \* default_guard_profile_id()

(* What CommitRequest::new accepts: a non-empty event list without         *)
(* duplicates, and intents that each name one causative event.             *)
IsCommand(c) ==
    /\ c.wf \in Workflows
    /\ c.ids \in Seq(Events) /\ c.ids # << >>
    /\ \A i, j \in 1..Len(c.ids) : c.ids[i] = c.ids[j] => i = j
    /\ \A t \in c.intents : t.cause \in Events

(* What GuardProfileConfig::new accepts: at least one guard workflow.      *)
IsProfile(p) == p.flows \subseteq Workflows /\ p.flows # {}

ASSUME CommandsAssumption == NoEvent \notin Events /\ \A c \in Commands : IsCommand(c)
ASSUME ProfilesAssumption == \A p \in Profiles : IsProfile(p)

(* A workflow head: its revision and the digest of its last event.         *)
WorkflowHead == [rev : Nat, last : Events \cup {NoEvent}]
Genesis == [rev |-> 0, last |-> NoEvent]

(* The heads a guarded request expects: a head for each guard workflow.    *)
(* An ordinary request guards nothing.                                     *)
NoGuard == [rev |-> -1, last |-> NoEvent]
GuardHeads == [Workflows -> WorkflowHead \cup {NoGuard}]
Unguarded == [w \in Workflows |-> NoGuard]

(* A commit request, and the batch it becomes: a command, the head it was  *)
(* built on (expected revision, previous digest) and its guards.           *)
Batch == [cmd : Commands, at : WorkflowHead, heads : GuardHeads]

GuardsOf(b) == {w \in Workflows : b.heads[w] # NoGuard}

Final(s) == s[Len(s)]
EventsOf(b)  == {b.cmd.ids[i] : i \in 1..Len(b.cmd.ids)}
IntentsOf(b) == {t.id : t \in b.cmd.intents}
Causes(b)    == {t.cause : t \in b.cmd.intents}

(* The head a batch leaves: build_commit_result.                           *)
EndOf(b) == [rev  |-> b.at.rev + Len(b.cmd.ids), last |-> Final(b.cmd.ids)]

(* head_from_batches, for the batches of one workflow in sequence order.   *)
HeadOf(h) == IF h = << >> THEN Genesis ELSE EndOf(Final(h))

(* The batches stored in root r of the histories h.                        *)
InRoot(r)      == {w \in Workflows : RootOf[w] = r}
StoredIn(h, r) == UNION {{h[w][i] : i \in DOMAIN h[w]} : w \in InRoot(r)}

----------------------------------------------------------------------------
(* validate_batches: what every load of a root checks before any use.      *)

(* validate_workflow_history: each batch starts at the head its            *)
(* predecessor left, and its intents name events of this workflow.         *)
ChainedHistory(s) ==
    \A i \in DOMAIN s :
        s[i].at = IF i = 1 THEN Genesis ELSE EndOf(s[i - 1])

CausesLocal(s) ==
    \A i \in DOMAIN s : Causes(s[i]) \subseteq UNION {EventsOf(s[j]) : j \in 1..i}

(* validate_global_uniqueness: command keys, event identities and intent   *)
(* identities are each used once in a root.                                *)
Disjoint(b, d) ==
    /\ b.cmd.key # d.cmd.key
    /\ EventsOf(b) \cap EventsOf(d) = {}
    /\ IntentsOf(b) \cap IntentsOf(d) = {}

GloballyUnique(h, r) ==
    \A v, w \in InRoot(r) : \A i \in DOMAIN h[v], j \in DOMAIN h[w] :
        <<v, i>> # <<w, j>> => Disjoint(h[v][i], h[w][j])

ValidBatches(h, r) ==
    /\ GloballyUnique(h, r)
    /\ \A w \in InRoot(r) : ChainedHistory(h[w]) /\ CausesLocal(h[w])

----------------------------------------------------------------------------
(* The outcome of a request: "existing" (a genuine retry), "append" (one   *)
(* new batch), "rejected" (a guard receipt) or "error".                    *)

SameRequest(b, q)  == b.cmd = q.cmd /\ b.at = q.at
SameKey(h, q)      == {b \in StoredIn(h, RootOf[q.cmd.wf]) : b.cmd.key = q.cmd.key}

(* Mutant: identities are looked for in the workflow, not in its root.     *)
NewRecordsInWorkflow(h, q) ==
    \A i \in DOMAIN h[q.cmd.wf] :
        LET b == h[q.cmd.wf][i]
        IN  EventsOf(b) \cap EventsOf(q) = {} /\ IntentsOf(b) \cap IntentsOf(q) = {}

(* check_new_record_conflicts: the request reuses no identity of the root. *)
NewRecords(h, q) ==
    \A b \in StoredIn(h, RootOf[q.cmd.wf]) :
        EventsOf(b) \cap EventsOf(q) = {} /\ IntentsOf(b) \cap IntentsOf(q) = {}

(* The causative events a request may name.  The code looks them up among  *)
(* the events of the whole root (all_events), not of the workflow.         *)
CausesKnown(h, q) ==
    Causes(q) \subseteq
        EventsOf(q) \cup UNION {EventsOf(b) : b \in StoredIn(h, RootOf[q.cmd.wf])}

(* A new commit: no batch has its key, and nothing else stands against it. *)
NewCommit(h, q) ==
    /\ SameKey(h, q) = {} /\ HeadOf(h[q.cmd.wf]) = q.at
    /\ NewRecords(h, q) /\ CausesKnown(h, q)

(* prepare_commit: retries are classified before the optimistic check.     *)
Prepare(h, q) ==
    IF \E b \in SameKey(h, q) : SameRequest(b, q) THEN "existing"
    ELSE IF NewCommit(h, q) THEN "append" ELSE "error"

(* guard_matches_replay, for every guard of the request.                   *)
GuardsMatch(h, q) == \A w \in GuardsOf(q) : HeadOf(h[w]) = q.heads[w]

(* Mutant: the guards are compared on a retry only.                        *)
PrepareGuardsOnRetry(h, q) ==
    IF SameKey(h, q) # {} /\ \A b \in SameKey(h, q) : b.heads # q.heads THEN "error"
    ELSE Prepare(h, q)

(* prepare_guarded_commit: the retry test compares the guards too, and a   *)
(* guard that moved refuses the request before its own head is compared.   *)
PrepareGuarded(h, q) ==
    IF \E b \in SameKey(h, q) : SameRequest(b, q) /\ b.heads = q.heads THEN "existing"
    ELSE IF SameKey(h, q) # {} THEN "error"
    ELSE IF ~GuardsMatch(h, q) THEN "rejected" ELSE Prepare(h, q)

----------------------------------------------------------------------------
(* The guarded-workflow registry: registry.mbt.                            *)

(* One generation of the binding of a workflow: its profiles, and the      *)
(* replay prefix its activation recorded.  A binding's digest is           *)
(* represented by its contents.                                            *)
Binding == [wf : Workflows, gen : Nat, profiles : Seq(Profiles), start : WorkflowHead]

(* find_guard_profile                                                      *)
HasId(b, id)   == \E i \in DOMAIN b.profiles : b.profiles[i].id = id
Profile(b, id) == b.profiles[CHOOSE i \in DOMAIN b.profiles : b.profiles[i].id = id]

(* validate_guard_profiles: distinct ids, and on the filesystem no guard   *)
(* lives in the root of the workflow it guards.                            *)
ValidProfiles(w, ps) ==
    /\ ps # << >>
    /\ \A i, j \in DOMAIN ps : ps[i].id = ps[j].id => i = j
    /\ \A i \in DOMAIN ps : \A g \in ps[i].flows : RootOf[g] # RootOf[w]

(* Mutant: an evolved binding forgets the guards of the new profile.       *)
EvolveUnguarded(b, p) ==
    [b EXCEPT !.gen = @ + 1, !.profiles = Append(@, [p EXCEPT !.flows = {}])]

(* new_guarded_workflow_binding_profiles and evolve_guarded_workflow_binding. *)
FirstBinding(w, ps, s) == [wf |-> w, gen |-> 1, profiles |-> ps, start |-> HeadOf(s)]
Evolve(b, p) ==
    [wf |-> b.wf, gen |-> b.gen + 1, profiles |-> Append(b.profiles, p), start |-> b.start]

(* binding_extends_exactly                                                 *)
ExtendsExactly(b, d) ==
    /\ d.wf = b.wf /\ d.gen = b.gen + 1 /\ d.start = b.start
    /\ Len(d.profiles) = Len(b.profiles) + 1
    /\ \A i \in DOMAIN b.profiles : d.profiles[i] = b.profiles[i]

(* latest_guarded_binding: the declared bindings form one chain from       *)
(* generation one.                                                         *)
OneChain(bs) ==
    \A i \in DOMAIN bs : IF i = 1 THEN bs[i].gen = 1 ELSE ExtendsExactly(bs[i - 1], bs[i])

(* binding_descends_from: b is on the chain that leads to the last one.    *)
DescendsFrom(bs, b) == \E i \in DOMAIN bs : bs[i] = b

(* require_binding_activation_prefix: the history still has, at a batch    *)
(* boundary, the head the activation recorded.                             *)
PrefixKept(b, s) ==
    b.start = Genesis \/ \E i \in DOMAIN s : EndOf(s[i]) = b.start
=============================================================================
