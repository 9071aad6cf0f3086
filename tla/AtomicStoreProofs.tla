------------------------- MODULE AtomicStoreProofs -------------------------
(***************************************************************************)
(* Theorems of AtomicStore, for any writers, names and number of power     *)
(* losses.  Neither property is inductive: that a name shows no partial    *)
(* content after a power loss needs that its content was flushed before    *)
(* the rename, and that an answered name is found needs that its entry is  *)
(* on the device.                                                          *)
(***************************************************************************)
EXTENDS AtomicStore, TLAPS

Steps == {"idle", "existing", "create", "write", "fsync", "rename", "fsyncdir", "answer"}

(* The writer with the lock has come this far with its name.               *)
Storing(w) ==
    /\ step[w] # "idle" => lock = w
    /\ step[w] \in {"create", "write", "fsync", "rename"} => target[w] \notin visible
    /\ step[w] \in {"fsync", "rename"} => target[w] \in whole
    /\ step[w] = "rename" => target[w] \in flushed
    /\ step[w] = "fsyncdir" => target[w] \in visible
    /\ step[w] = "answer" => target[w] \in stable

AtomicInv ==
    /\ step \in [Writers -> Steps] /\ target \in [Writers -> Names]
    /\ visible \subseteq whole \cap flushed
    /\ stable \subseteq visible /\ fresh \subseteq stable
    /\ \A w \in Writers : Storing(w)

(* A writer at work has the lock, so every other writer is idle.           *)
LEMMA OthersIdle ==
  ASSUME AtomicInv, NEW w \in Writers, lock = w
  PROVE  \A v \in Writers : v # w => step[v] = "idle"
BY DEF AtomicInv, Storing

(* A step of the writer with the lock, which leads to a next call or back  *)
(* to rest, keeps the invariant if it keeps its own part and the files.    *)
LEMMA WriterStepKeeps ==
  ASSUME AtomicInv, NEW w \in Writers, lock = w, NEW s \in Steps, Goto(w, s),
         s # "idle" => lock' = w, target' = target,
         visible' \subseteq whole' \cap flushed', stable' \subseteq visible', fresh' \subseteq stable',
         Storing(w)'
  PROVE  AtomicInv'
<1>1. \A v \in Writers : v # w => step'[v] = "idle"
  BY OthersIdle DEF Goto, AtomicInv
<1>2. step' \in [Writers -> Steps] /\ target' \in [Writers -> Names]
  BY DEF Goto, AtomicInv
<1>3. ASSUME NEW v \in Writers PROVE Storing(v)'
  <2>1. CASE v = w
    BY <2>1
  <2>2. CASE v # w
    BY <2>2, <1>1 DEF Storing
  <2> QED BY <2>1, <2>2
<1> QED BY <1>2, <1>3 DEF AtomicInv

(* Nothing is stored at first.                                             *)
LEMMA AtomicStart == Init => AtomicInv
BY DEF Init, AtomicInv, Storing, Steps

(* Every system call, failure and power loss keeps the invariant.          *)
LEMMA AtomicKept ==
  ASSUME AtomicInv, [Next]_vars
  PROVE  AtomicInv'
<1>1. CASE PowerLoss
  <2>1. PICK lost \in SUBSET (visible \ stable) : visible' = visible \ lost
    BY <1>1 DEF PowerLoss
  <2>2. /\ stable' = visible' /\ whole' = whole \cap flushed /\ step' = [w \in Writers |-> "idle"]
        /\ flushed' = flushed /\ target' = target /\ fresh' = fresh
    BY <1>1 DEF PowerLoss
  <2>3. visible' \subseteq whole' \cap flushed' /\ fresh' \subseteq stable'
    BY <2>1, <2>2 DEF AtomicInv
  <2>4. \A w \in Writers : Storing(w)'
    BY <2>2 DEF Storing
  <2> QED BY <2>2, <2>3, <2>4 DEF AtomicInv, Steps
<1>2. ASSUME NEW w \in Writers, NEW n \in Names, Begin(w, n) PROVE AtomicInv'
  <2> DEFINE s == IF n \in visible THEN "existing" ELSE "create"
  <2>1. /\ lock = Free /\ lock' = w /\ target' = [target EXCEPT ![w] = n]
        /\ step' = [step EXCEPT ![w] = s] /\ UNCHANGED <<visible, stable, whole, flushed, fresh>>
    BY <1>2 DEF Begin, Goto
  <2>2. \A v \in Writers : step[v] = "idle"
    BY <2>1, AtomicAssumption DEF AtomicInv, Storing
  <2>3. step' \in [Writers -> Steps] /\ target' \in [Writers -> Names] /\ target'[w] = n /\ step'[w] = s
        /\ \A v \in Writers : v # w => step'[v] = "idle"
    BY <2>1, <2>2 DEF AtomicInv, Steps
  <2>4. \A v \in Writers : Storing(v)'
    BY <2>1, <2>3 DEF Storing
  <2> QED BY <2>1, <2>3, <2>4 DEF AtomicInv
<1>3. ASSUME NEW w \in Writers,
             \/ Create(w) \/ Write(w) \/ SyncContent(w) \/ Rename(w)
             \/ SyncDirectory(w) \/ Answer(w) \/ AnswerExisting(w) \/ Fail(w)
      PROVE  AtomicInv'
  <2>1. step[w] # "idle" /\ lock = w /\ Storing(w)
    BY <1>3 DEF Create, Write, SyncContent, Rename, SyncDirectory, Answer, AnswerExisting, Fail,
                AtomicInv, Storing
  <2>2. \A s \in Steps : Goto(w, s) => step'[w] = s
    BY DEF Goto, AtomicInv
  <2>3. /\ visible \subseteq whole \cap flushed /\ stable \subseteq visible /\ fresh \subseteq stable
    BY DEF AtomicInv
  <2>4. CASE Create(w)
    <3>1. "write" \in Steps
      BY DEF Steps
    <3> QED BY <2>1, <2>2, <2>3, <2>4, <3>1, WriterStepKeeps DEF Create, Storing
  <2>5. CASE Write(w)
    <3>1. "fsync" \in Steps
      BY DEF Steps
    <3> QED BY <2>1, <2>2, <2>3, <2>5, <3>1, WriterStepKeeps DEF Write, Storing
  <2>6. CASE SyncContent(w)
    <3>1. "rename" \in Steps
      BY DEF Steps
    <3> QED BY <2>1, <2>2, <2>3, <2>6, <3>1, WriterStepKeeps DEF SyncContent, Storing
  <2>7. CASE Rename(w)
    <3>1. "fsyncdir" \in Steps
      BY DEF Steps
    <3> QED BY <2>1, <2>2, <2>3, <2>7, <3>1, WriterStepKeeps DEF Rename, Storing
  <2>8. CASE SyncDirectory(w)
    <3>1. "answer" \in Steps
      BY DEF Steps
    <3> QED BY <2>1, <2>2, <2>3, <2>8, <3>1, WriterStepKeeps DEF SyncDirectory, Storing
  <2>9. "idle" \in Steps
    BY DEF Steps
  <2>10. CASE Answer(w)
    BY <2>1, <2>2, <2>3, <2>9, <2>10, WriterStepKeeps DEF Answer, Release, Storing
  <2>11. CASE AnswerExisting(w)
    BY <2>1, <2>2, <2>3, <2>9, <2>11, WriterStepKeeps DEF AnswerExisting, Release, Storing
  <2>12. CASE Fail(w)
    BY <2>1, <2>2, <2>3, <2>9, <2>12, WriterStepKeeps DEF Fail, Release, Storing
  <2> QED BY <1>3, <2>4, <2>5, <2>6, <2>7, <2>8, <2>10, <2>11, <2>12
<1>4. CASE UNCHANGED vars
  BY <1>4 DEF vars, AtomicInv, Storing
<1> QED BY <1>1, <1>2, <1>3, <1>4 DEF Next

(* A committed file is never seen with partial content, whatever call      *)
(* fails, whoever is killed and whenever power is lost.                    *)
THEOREM NeverTornFile == Spec => []NoTornFile
<1>1. AtomicInv => NoTornFile
  BY DEF AtomicInv, NoTornFile
<1>2. AtomicInv /\ [Next]_vars => AtomicInv'
  BY AtomicKept
<1> QED BY <1>1, <1>2, AtomicStart, PTL DEF Spec

(* What a caller was told it has just committed survives any power loss.   *)
THEOREM FreshAnswersAlwaysSurvive == Spec => []FreshAnswersSurvive
<1>1. AtomicInv => FreshAnswersSurvive
  BY DEF AtomicInv, FreshAnswersSurvive
<1>2. AtomicInv /\ [Next]_vars => AtomicInv'
  BY AtomicKept
<1> QED BY <1>1, <1>2, AtomicStart, PTL DEF Spec
=============================================================================
