---------------------------- MODULE AtomicStore ----------------------------
(***************************************************************************)
(* moonflow_storage_native_atomic_store and the retry that meets it: how   *)
(* one committed file reaches a storage directory, system call by system   *)
(* call, when the process may be killed, a call may fail and the machine   *)
(* may lose power.  GuardedStore sees these calls as one Publish.          *)
(***************************************************************************)
EXTENDS Integers, FiniteSets

CONSTANTS
    Writers,        \* processes that store files
    Names,          \* committed names; a name covers a digest of the content
    Free,           \* the workspace lock when nobody holds it
    MaxPowerLoss    \* bound: how often the machine loses power

ASSUME AtomicAssumption == Free \notin Writers /\ MaxPowerLoss \in Nat

VARIABLES
    visible,    \* names in the directory, as a process sees them
    stable,     \* names whose directory entry is on the device
    whole,      \* names whose content is complete in the page cache
    flushed,    \* names whose content is on the device
    lock,
    step,       \* step[w]: the next system call of writer w
    target,     \* target[w]: the name writer w is storing
    fresh,      \* names some caller was told it has just committed
    retried,    \* names some caller was told were already committed
    outages     \* power losses so far

vars == <<visible, stable, whole, flushed, lock, step, target, fresh, retried, outages>>

Init ==
    /\ visible = {} /\ stable = {} /\ whole = {} /\ flushed = {}
    /\ lock = Free
    /\ step = [w \in Writers |-> "idle"]
    /\ target \in [Writers -> Names]
    /\ fresh = {} /\ retried = {}
    /\ outages = 0

(* load_native_state decodes every committed file before anything else.    *)
Loads == visible \subseteq whole

Goto(w, s) == step' = [step EXCEPT ![w] = s]

(* A writer takes the lock for the name n.  A command that is already      *)
(* visible is answered from the directory; nothing is stored or flushed.   *)
Begin(w, n) ==
    /\ lock = Free /\ step[w] = "idle" /\ Loads
    /\ lock' = w
    /\ target' = [target EXCEPT ![w] = n]
    /\ Goto(w, IF n \in visible THEN "existing" ELSE "create")
    /\ UNCHANGED <<visible, stable, whole, flushed, fresh, retried, outages>>

(* openat(O_CREAT | O_EXCL) on a temporary name no reader looks at.        *)
Create(w) ==
    /\ step[w] = "create" /\ Goto(w, "write")
    /\ whole' = whole \ {target[w]} /\ flushed' = flushed \ {target[w]}
    /\ UNCHANGED <<visible, stable, lock, target, fresh, retried, outages>>

(* mf_write_all either completes or returns an error (see Fail).           *)
Write(w) ==
    /\ step[w] = "write" /\ Goto(w, "fsync")
    /\ whole' = whole \cup {target[w]}
    /\ UNCHANGED <<visible, stable, flushed, lock, target, fresh, retried, outages>>

(* Mutant: the content is renamed into place unflushed.                    *)
SyncContentSkipped(w) ==
    /\ step[w] = "fsync" /\ Goto(w, "rename")
    /\ UNCHANGED <<visible, stable, whole, flushed, lock, target, fresh, retried, outages>>

SyncContent(w) ==
    /\ step[w] = "fsync" /\ Goto(w, "rename")
    /\ flushed' = flushed \cup {target[w]}
    /\ UNCHANGED <<visible, stable, whole, lock, target, fresh, retried, outages>>

(* renameat2(RENAME_NOREPLACE): fails on a name that is already there.     *)
Rename(w) ==
    /\ step[w] = "rename" /\ target[w] \notin visible
    /\ Goto(w, "fsyncdir")
    /\ visible' = visible \cup {target[w]}
    /\ UNCHANGED <<stable, whole, flushed, lock, target, fresh, retried, outages>>

(* Mutant: the directory is not flushed.                                   *)
SyncDirectorySkipped(w) ==
    /\ step[w] = "fsyncdir" /\ Goto(w, "answer")
    /\ UNCHANGED <<visible, stable, whole, flushed, lock, target, fresh, retried, outages>>

(* fsync of the directory reaches every entry it has.                      *)
SyncDirectory(w) ==
    /\ step[w] = "fsyncdir" /\ Goto(w, "answer")
    /\ stable' = visible
    /\ UNCHANGED <<visible, whole, flushed, lock, target, fresh, retried, outages>>

Release(w) == lock' = Free /\ Goto(w, "idle")

(* The caller gets its result and the session is closed.                   *)
Answer(w) ==
    /\ step[w] = "answer" /\ Release(w)
    /\ fresh' = fresh \cup {target[w]}
    /\ UNCHANGED <<visible, stable, whole, flushed, target, retried, outages>>

AnswerExisting(w) ==
    /\ step[w] = "existing" /\ Release(w)
    /\ retried' = retried \cup {target[w]}
    /\ UNCHANGED <<visible, stable, whole, flushed, target, fresh, outages>>

(* The process is killed or a system call fails: the lock goes, whatever   *)
(* the directory shows stays, and the caller is told nothing.              *)
Fail(w) ==
    /\ step[w] # "idle" /\ Release(w)
    /\ UNCHANGED <<visible, stable, whole, flushed, target, fresh, retried, outages>>

(* Power is lost: every process dies, entries that are not stable may be   *)
(* gone, and content that was not flushed is not what was written.         *)
PowerLoss ==
    /\ outages < MaxPowerLoss /\ outages' = outages + 1
    /\ \E lost \in SUBSET (visible \ stable) : visible' = visible \ lost
    /\ stable' = visible'
    /\ whole' = whole \cap flushed
    /\ lock' = Free
    /\ step' = [w \in Writers |-> "idle"]
    /\ UNCHANGED <<flushed, target, fresh, retried>>

Next ==
    \/ PowerLoss
    \/ \E w \in Writers :
          \/ \E n \in Names : Begin(w, n)
          \/ Create(w) \/ Write(w) \/ SyncContent(w) \/ Rename(w)
          \/ SyncDirectory(w) \/ Answer(w) \/ AnswerExisting(w) \/ Fail(w)

Spec == Init /\ [][Next]_vars

----------------------------------------------------------------------------
(* A committed name never shows partial content, not even after power was  *)
(* lost at the worst moment: the content is flushed before the rename, so  *)
(* one interrupted writer cannot make the whole root unreadable.           *)
NoTornFile == visible \subseteq whole

(* A caller that was told its batch has just been committed finds it after *)
(* any power loss.                                                         *)
FreshAnswersSurvive == fresh \subseteq visible

(* "Native crash-safe reference implementation": nothing a caller was told *)
(* is committed is lost, whether it was told so by the first call or by a  *)
(* retry.  A retry is answered from an entry that may not be stable yet.   *)
AnswersSurvive == fresh \cup retried \subseteq visible
=============================================================================
