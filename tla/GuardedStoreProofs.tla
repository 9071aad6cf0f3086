------------------------- MODULE GuardedStoreProofs -------------------------
(***************************************************************************)
(* Safety of the storage layer for any workflows, commands, profiles,      *)
(* processes and failures.  The argument: only the holder of the lock has  *)
(* files to publish, and while it holds the lock nobody else changes the   *)
(* disk, so whatever its operation checked when it started still holds at  *)
(* every one of its renames, and a failure may cut it short anywhere.      *)
(***************************************************************************)
EXTENDS GuardedStore, TLAPS

(* What Readable and RegistryRepairable need beyond the checks of the code *)
(* (nothing else does): an intent names an event of its own command, or no *)
(* event of another workflow of its root (see StoreForeignCause.cfg).      *)
LocalCauses ==
    \A c, d \in Commands :
        c.wf # d.wf /\ RootOf[c.wf] = RootOf[d.wf] =>
            \A t \in c.intents : \A i \in 1..Len(d.ids) :
                t.cause = d.ids[i] => \E j \in 1..Len(c.ids) : t.cause = c.ids[j]

(* q can be appended to the history of its workflow.                       *)
Appendable(q) ==
    /\ q.at = HeadOf(hist[q.cmd.wf])
    /\ \A w \in InRoot(RootOf[q.cmd.wf]) : \A i \in DOMAIN hist[w] : Disjoint(q, hist[w][i])

(* b can be declared next; b is declared.                                  *)
Declarable(b) ==
    /\ b.gen = Len(declared[b.wf]) + 1
    /\ declared[b.wf] # << >> => ExtendsExactly(Final(declared[b.wf]), b)
Declared(b) == b.gen \in DOMAIN declared[b.wf] /\ declared[b.wf][b.gen] = b

Stored(b) == \E i \in DOMAIN hist[b.cmd.wf] : hist[b.cmd.wf][i] = b

(* The jobs a process may have in hand.                                    *)
Finishing(j) ==
    /\ j.files = << >>
    /\ \A b \in j.batches : Stored(b)
    /\ \A b \in j.receipts : Declared(b) /\ b.gen \in marked[b.wf]
Committing(j) == \E q \in Batch : j = Job(<<BatchFile(q)>>, {q}, {}) /\ Appendable(q)
Declaring(j)  == \E b \in Binding : j = Job(<<Declaration(b), Marker(b)>>, {}, {b}) /\ Declarable(b)
Marking(j)    == \E b \in Binding : j = Job(<<Marker(b)>>, {}, {b}) /\ Declared(b)
Checkpointing(j) ==
    \E w \in Workflows, h \in WorkflowHead :
        j = Job(<<CheckpointFile(w, h)>>, {}, {}) /\ h \in {Genesis} \cup EventHeads(w)
JobInv(j) ==
    /\ j.batches \subseteq Batch /\ j.receipts \subseteq Binding
    /\ Finishing(j) \/ Committing(j) \/ Declaring(j) \/ Marking(j) \/ Checkpointing(j)

(* One workflow is read back: its own checks.                              *)
WorkflowInv(w) ==
    /\ ChainedHistory(hist[w]) /\ \A i \in DOMAIN hist[w] : hist[w][i].cmd.wf = w
    /\ OneChain(declared[w])
    /\ \A i \in DOMAIN declared[w] : declared[w][i].gen = i /\ declared[w][i].wf = w
    /\ marked[w] \subseteq DOMAIN declared[w]
    /\ checkpoint[w] \subseteq {Genesis} \cup EventHeads(w)

DiskInv ==
    /\ hist \in [Workflows -> Seq(Batch)]
    /\ declared \in [Workflows -> Seq(Binding)]
    /\ marked \in [Workflows -> SUBSET Nat]
    /\ checkpoint \in [Workflows -> SUBSET WorkflowHead]
    /\ \A w \in Workflows : WorkflowInv(w)
    /\ \A r : GloballyUnique(hist, r)

StoreInv ==
    /\ DiskInv
    /\ lock \in Clients \cup {Free} /\ failures \in Nat
    /\ work \in [Clients -> [files : Seq(File), batches : SUBSET Batch, receipts : SUBSET Binding]]
    /\ \A c \in Clients : JobInv(work[c]) /\ (work[c] # Idle => lock = c)
    /\ acked \subseteq Batch /\ issued \subseteq Binding
    /\ \A b \in acked : Stored(b)
    /\ \A b \in issued : Declared(b) /\ b.gen \in marked[b.wf]

----------------------------------------------------------------------------
(* Heads are heads.                                                        *)
LEMMA HeadTypes ==
    /\ Genesis \in WorkflowHead
    /\ \A b \in Batch : EndOf(b) \in WorkflowHead
  <1>1. Genesis \in WorkflowHead
    BY DEF Genesis, WorkflowHead
  <1>2. ASSUME NEW b \in Batch PROVE EndOf(b) \in WorkflowHead
    <2>1. b.cmd.ids \in Seq(Events) /\ b.cmd.ids # << >> /\ b.at.rev \in Nat
      BY CommandsAssumption DEF Batch, WorkflowHead, IsCommand
    <2>2. b.at.rev + Len(b.cmd.ids) \in Nat /\ Final(b.cmd.ids) \in Events
      BY <2>1 DEF Final
    <2> QED BY <2>2 DEF EndOf, WorkflowHead
  <1> QED BY <1>1, <1>2

LEMMA HeadOfType ==
    ASSUME NEW s \in Seq(Batch) PROVE HeadOf(s) \in WorkflowHead
  <1>1. s # << >> => Final(s) \in Batch
    BY DEF Final
  <1> QED BY <1>1, HeadTypes DEF HeadOf

(* What Append does to the elements of a sequence.                         *)
LEMMA AppendFacts ==
    ASSUME NEW S, NEW s \in Seq(S), NEW e \in S
    PROVE  /\ Append(s, e) \in Seq(S) /\ Len(Append(s, e)) = Len(s) + 1 /\ Append(s, e) # << >>
           /\ DOMAIN s = 1..Len(s) /\ Len(s) \in Nat /\ DOMAIN Append(s, e) = 1..(Len(s) + 1)
           /\ \A i \in 1..Len(s) : Append(s, e)[i] = s[i]
           /\ Append(s, e)[Len(s) + 1] = e /\ Final(Append(s, e)) = e
  BY DEF Final

(* A history extended at its head is still chained.                        *)
LEMMA ChainedAppend ==
    ASSUME NEW s \in Seq(Batch), ChainedHistory(s), NEW q \in Batch, q.at = HeadOf(s)
    PROVE  ChainedHistory(Append(s, q))
  <1> DEFINE u == Append(s, q)
  <1>1. /\ DOMAIN u = 1..(Len(s) + 1) /\ DOMAIN s = 1..Len(s) /\ Len(s) \in Nat
        /\ \A i \in 1..Len(s) : u[i] = s[i]
        /\ u[Len(s) + 1] = q
    BY AppendFacts
  <1> SUFFICES ASSUME NEW i \in DOMAIN u
               PROVE  u[i].at = IF i = 1 THEN Genesis ELSE EndOf(u[i - 1])
    BY DEF ChainedHistory
  <1>2. CASE i \in 1..Len(s)
    <2>1. i # 1 => i - 1 \in 1..Len(s)
      BY <1>1, <1>2
    <2> QED BY <1>1, <1>2, <2>1 DEF ChainedHistory
  <1>3. CASE i = Len(s) + 1
    <2>1. CASE s = << >>
      <3>1. i = 1 /\ u[i] = q
        BY <1>1, <1>3, <2>1
      <3> QED BY <3>1, <2>1 DEF HeadOf
    <2>2. CASE s # << >>
      <3>1. Len(s) \in 1..Len(s) /\ i # 1 /\ i - 1 = Len(s)
        BY <1>1, <1>3, <2>2
      <3>2. u[i - 1] = Final(s) /\ u[i] = q
        BY <1>1, <1>3, <3>1 DEF Final
      <3> QED BY <3>1, <3>2, <2>2 DEF HeadOf
    <2> QED BY <2>1, <2>2
  <1> QED BY <1>1, <1>2, <1>3

(* A batch that shares no identity with its root keeps the root unique.    *)
LEMMA UniqueAppend ==
    ASSUME NEW h \in [Workflows -> Seq(Batch)], NEW q \in Batch, NEW w \in Workflows,
           NEW r, GloballyUnique(h, r),
           \A v \in InRoot(RootOf[w]) : \A i \in DOMAIN h[v] : Disjoint(q, h[v][i])
    PROVE  GloballyUnique([h EXCEPT ![w] = Append(@, q)], r)
  <1> DEFINE g == [h EXCEPT ![w] = Append(@, q)]
  <1>1. ASSUME NEW v \in Workflows, NEW i \in DOMAIN g[v]
        PROVE  \/ i \in DOMAIN h[v] /\ g[v][i] = h[v][i]
               \/ v = w /\ i = Len(h[w]) + 1 /\ i \notin DOMAIN h[w] /\ g[v][i] = q
    <2>1. CASE v # w
      BY <2>1
    <2>2. CASE v = w
      <3>1. g[v] = Append(h[w], q) /\ h[w] \in Seq(Batch)
        BY <2>2
      <3> QED BY <3>1, <2>2, AppendFacts
    <2> QED BY <2>1, <2>2
  <1>2. \A a, b : Disjoint(a, b) <=> Disjoint(b, a)
    BY DEF Disjoint
  <1> SUFFICES ASSUME NEW v \in InRoot(r), NEW x \in InRoot(r),
                      NEW i \in DOMAIN g[v], NEW j \in DOMAIN g[x], <<v, i>> # <<x, j>>
               PROVE  Disjoint(g[v][i], g[x][j])
    BY DEF GloballyUnique
  <1>3. v \in Workflows /\ x \in Workflows /\ RootOf[v] = r /\ RootOf[x] = r
    BY DEF InRoot
  <1>4. CASE i \in DOMAIN h[v] /\ g[v][i] = h[v][i] /\ j \in DOMAIN h[x] /\ g[x][j] = h[x][j]
    BY <1>4 DEF GloballyUnique
  <1>5. CASE v = w /\ i = Len(h[w]) + 1 /\ g[v][i] = q /\ j \in DOMAIN h[x] /\ g[x][j] = h[x][j]
    BY <1>3, <1>5 DEF InRoot
  <1>6. CASE x = w /\ j = Len(h[w]) + 1 /\ g[x][j] = q /\ i \in DOMAIN h[v] /\ g[v][i] = h[v][i]
    <2>1. Disjoint(q, h[v][i])
      BY <1>3, <1>6 DEF InRoot
    <2> QED BY <1>2, <1>6, <2>1
  <1>7. CASE v = w /\ i = Len(h[w]) + 1 /\ x = w /\ j = Len(h[w]) + 1
    BY <1>7
  <1> QED BY <1>1, <1>3, <1>4, <1>5, <1>6, <1>7

----------------------------------------------------------------------------
(* The renames.  Each keeps the disk valid, and keeps what is stored,      *)
(* declared or marked stored, declared or marked.                          *)

(* PublishBatch for a batch that can be appended.                          *)
LEMMA BatchPublished ==
    ASSUME DiskInv, NEW q \in Batch, Appendable(q), PublishBatch(BatchFile(q))
    PROVE  /\ DiskInv' /\ Stored(q)'
           /\ \A b \in Batch : Stored(b) => Stored(b)'
  <1> DEFINE w == q.cmd.wf
  <1>1. w \in Workflows /\ hist[w] \in Seq(Batch)
    BY CommandsAssumption DEF Batch, IsCommand, DiskInv
  <1>2. hist' = [hist EXCEPT ![w] = Append(@, q)] /\ UNCHANGED <<declared, marked, checkpoint>>
    BY DEF PublishBatch, BatchFile
  <1>3. hist' \in [Workflows -> Seq(Batch)]
    BY <1>1, <1>2, AppendFacts DEF DiskInv
  <1>4. hist'[w] = Append(hist[w], q) /\ \A v \in Workflows \ {w} : hist'[v] = hist[v]
    BY <1>1, <1>2 DEF DiskInv
  <1>5. /\ DOMAIN hist'[w] = 1..(Len(hist[w]) + 1) /\ DOMAIN hist[w] = 1..Len(hist[w])
        /\ Len(hist[w]) \in Nat
        /\ \A i \in 1..Len(hist[w]) : hist'[w][i] = hist[w][i]
        /\ hist'[w][Len(hist[w]) + 1] = q
    BY <1>1, <1>4, AppendFacts
  <1>6. ASSUME NEW v \in Workflows PROVE WorkflowInv(v)'
    <2>1. CASE v # w
      <3>1. hist'[v] = hist[v] /\ declared'[v] = declared[v] /\ marked'[v] = marked[v]
            /\ checkpoint'[v] = checkpoint[v]
        BY <1>2, <1>4, <2>1
      <3>2. EventHeads(v)' = EventHeads(v) /\ Genesis' = Genesis
        BY <3>1 DEF EventHeads, Genesis
      <3>3. WorkflowInv(v)
        BY DEF DiskInv
      <3> QED BY <3>1, <3>2, <3>3 DEF WorkflowInv
    <2>2. CASE v = w
      <3>1. ChainedHistory(hist'[w])
        BY <1>1, <1>4, ChainedAppend DEF DiskInv, WorkflowInv, Appendable
      <3>3. \A i \in DOMAIN hist'[w] : hist'[w][i].cmd.wf = w
        <4>1. \A i \in DOMAIN hist[w] : hist[w][i].cmd.wf = w
          BY <1>1 DEF DiskInv, WorkflowInv
        <4>2. ASSUME NEW i \in 1..(Len(hist[w]) + 1) PROVE i \in 1..Len(hist[w]) \/ i = Len(hist[w]) + 1
          BY <1>5
        <4> QED BY <1>5, <4>1, <4>2
      <3>4. EventHeads(w) \subseteq EventHeads(w)'
        <4> SUFFICES ASSUME NEW x \in EventHeads(w) PROVE x \in EventHeads(w)'
          OBVIOUS
        <4>1. PICK j \in DOMAIN hist[w] :
                x \in {[rev |-> hist[w][j].at.rev + i, last |-> hist[w][j].cmd.ids[i]] :
                          i \in DOMAIN hist[w][j].cmd.ids}
          BY DEF EventHeads
        <4>2. j \in DOMAIN hist'[w] /\ hist'[w][j] = hist[w][j]
          BY <1>5
        <4> QED BY <4>1, <4>2 DEF EventHeads
      <3>5. checkpoint[w] \subseteq {Genesis} \cup EventHeads(w)
        BY <1>1 DEF DiskInv, WorkflowInv
      <3>6. /\ OneChain(declared[w]) /\ marked[w] \subseteq DOMAIN declared[w]
            /\ \A i \in DOMAIN declared[w] : declared[w][i].gen = i /\ declared[w][i].wf = w
        BY <1>1 DEF DiskInv, WorkflowInv
      <3>7. (Genesis)' = Genesis
        BY DEF Genesis
      <3> QED BY <1>2, <2>2, <3>1, <3>3, <3>4, <3>5, <3>6, <3>7 DEF WorkflowInv
    <2> QED BY <2>1, <2>2
  <1>7. ASSUME NEW r PROVE GloballyUnique(hist', r)
    <2>1. GloballyUnique(hist, r) /\ hist \in [Workflows -> Seq(Batch)]
      BY DEF DiskInv
    <2>2. \A v \in InRoot(RootOf[w]) : \A i \in DOMAIN hist[v] : Disjoint(q, hist[v][i])
      BY DEF Appendable
    <2> HIDE DEF w
    <2> QED BY <1>1, <1>2, <2>1, <2>2, UniqueAppend
  <1>8. DiskInv'
    BY <1>2, <1>3, <1>6, <1>7 DEF DiskInv
  <1>9. Stored(q)'
    BY <1>5 DEF Stored
  <1>10. ASSUME NEW b \in Batch, Stored(b) PROVE Stored(b)'
    <2>1. b.cmd.wf \in Workflows
      BY CommandsAssumption DEF Batch, IsCommand
    <2>2. CASE b.cmd.wf = w
      <3>1. PICK i \in DOMAIN hist[w] : hist[w][i] = b
        BY <1>10, <2>2 DEF Stored
      <3>2. i \in DOMAIN hist'[w] /\ hist'[w][i] = b
        BY <1>5, <3>1
      <3> QED BY <2>2, <3>2 DEF Stored
    <2>3. CASE b.cmd.wf # w
      BY <1>4, <1>10, <2>1, <2>3 DEF Stored
    <2> QED BY <2>2, <2>3
  <1> QED BY <1>8, <1>9, <1>10

(* PublishDeclaration for the next binding of its workflow.                *)
LEMMA DeclarationPublished ==
    ASSUME DiskInv, NEW d \in Binding, Declarable(d), PublishDeclaration(Declaration(d))
    PROVE  /\ DiskInv' /\ Declared(d)'
           /\ \A b \in Binding : Declared(b) => Declared(b)'
  <1> DEFINE w == d.wf
  <1>1. w \in Workflows /\ declared[w] \in Seq(Binding)
    BY DEF Binding, DiskInv
  <1>2. declared' = [declared EXCEPT ![w] = Append(@, d)] /\ UNCHANGED <<hist, marked, checkpoint>>
    BY DEF PublishDeclaration, Declaration
  <1>3. declared' \in [Workflows -> Seq(Binding)]
    BY <1>1, <1>2, AppendFacts DEF DiskInv
  <1>4. declared'[w] = Append(declared[w], d) /\ \A v \in Workflows \ {w} : declared'[v] = declared[v]
    BY <1>1, <1>2 DEF DiskInv
  <1>5. /\ DOMAIN declared'[w] = 1..(Len(declared[w]) + 1) /\ DOMAIN declared[w] = 1..Len(declared[w])
        /\ Len(declared[w]) \in Nat
        /\ \A i \in 1..Len(declared[w]) : declared'[w][i] = declared[w][i]
        /\ declared'[w][Len(declared[w]) + 1] = d
    BY <1>1, <1>4, AppendFacts
  <1>6. ASSUME NEW v \in Workflows PROVE WorkflowInv(v)'
    <2>1. CASE v # w
      <3>1. hist'[v] = hist[v] /\ declared'[v] = declared[v] /\ marked'[v] = marked[v]
            /\ checkpoint'[v] = checkpoint[v]
        BY <1>2, <1>4, <2>1
      <3>2. EventHeads(v)' = EventHeads(v) /\ Genesis' = Genesis
        BY <3>1 DEF EventHeads, Genesis
      <3>3. WorkflowInv(v)
        BY DEF DiskInv
      <3> QED BY <3>1, <3>2, <3>3 DEF WorkflowInv
    <2>2. CASE v = w
      <3>1. /\ OneChain(declared[w]) /\ marked[w] \subseteq DOMAIN declared[w]
            /\ \A i \in DOMAIN declared[w] : declared[w][i].gen = i /\ declared[w][i].wf = w
        BY <1>1 DEF DiskInv, WorkflowInv
      <3>2. d.gen = Len(declared[w]) + 1
        BY DEF Declarable
      <3>3. ASSUME NEW i \in DOMAIN declared'[w]
            PROVE  IF i = 1 THEN declared'[w][i].gen = 1
                   ELSE ExtendsExactly(declared'[w][i - 1], declared'[w][i])
        <4>1. CASE i \in 1..Len(declared[w])
          <5>1. i # 1 => i - 1 \in 1..Len(declared[w])
            BY <1>5, <4>1
          <5> QED BY <1>5, <3>1, <4>1, <5>1 DEF OneChain
        <4>2. CASE i = Len(declared[w]) + 1
          <5>1. i # 1 => declared[w] # << >> /\ i - 1 = Len(declared[w]) /\ i - 1 \in 1..Len(declared[w])
            BY <1>1, <1>5, <4>2
          <5>2. i # 1 => declared'[w][i - 1] = Final(declared[w])
            BY <1>5, <5>1 DEF Final
          <5> QED BY <1>5, <3>2, <4>2, <5>1, <5>2 DEF Declarable
        <4> QED BY <1>5, <4>1, <4>2
      <3>4. OneChain(declared'[w])
        BY <3>3 DEF OneChain
      <3>5. \A i \in DOMAIN declared'[w] : declared'[w][i].gen = i /\ declared'[w][i].wf = w
        <4>1. \A i \in 1..Len(declared[w]) : declared'[w][i].gen = i /\ declared'[w][i].wf = w
          BY <1>5, <3>1
        <4>2. ASSUME NEW i \in DOMAIN declared'[w], i \notin 1..Len(declared[w])
              PROVE  declared'[w][i].gen = i /\ declared'[w][i].wf = w
          BY <1>5, <3>2, <4>2
        <4> QED BY <4>1, <4>2
      <3>6. marked[w] \subseteq DOMAIN declared'[w]
        BY <1>5, <3>1
      <3>7. /\ ChainedHistory(hist[w])
            /\ \A i \in DOMAIN hist[w] : hist[w][i].cmd.wf = w
            /\ checkpoint[w] \subseteq {Genesis} \cup EventHeads(w)
        BY <1>1 DEF DiskInv, WorkflowInv
      <3>8. EventHeads(w)' = EventHeads(w) /\ Genesis' = Genesis
        BY <1>2 DEF EventHeads, Genesis
      <3> QED BY <1>2, <2>2, <3>4, <3>5, <3>6, <3>7, <3>8 DEF WorkflowInv
    <2> QED BY <2>1, <2>2
  <1>7. DiskInv'
    BY <1>2, <1>3, <1>6 DEF DiskInv
  <1>8. Declared(d)'
    BY <1>5 DEF Declared, Declarable
  <1>9. ASSUME NEW b \in Binding, Declared(b) PROVE Declared(b)'
    <2>1. b.wf \in Workflows
      BY DEF Binding
    <2>2. CASE b.wf = w
      BY <1>5, <1>9, <2>2 DEF Declared
    <2>3. CASE b.wf # w
      BY <1>4, <1>9, <2>1, <2>3 DEF Declared
    <2> QED BY <2>2, <2>3
  <1> QED BY <1>7, <1>8, <1>9

(* PublishMarker for a declared binding.                                   *)
LEMMA MarkerPublished ==
    ASSUME DiskInv, NEW b \in Binding, Declared(b), PublishMarker(Marker(b))
    PROVE  /\ DiskInv' /\ b.gen \in marked'[b.wf]
           /\ \A v \in Workflows : marked[v] \subseteq marked'[v]
  <1> DEFINE w == b.wf
  <1>1. w \in Workflows /\ b.gen \in Nat /\ b.gen \in DOMAIN declared[w]
    BY DEF Binding, Declared
  <1>2. marked' = [marked EXCEPT ![w] = @ \cup {b.gen}] /\ UNCHANGED <<hist, declared, checkpoint>>
    BY DEF PublishMarker, Marker
  <1>3. marked' \in [Workflows -> SUBSET Nat]
    BY <1>1, <1>2 DEF DiskInv
  <1>4. ASSUME NEW v \in Workflows PROVE marked'[v] = IF v = w THEN marked[v] \cup {b.gen} ELSE marked[v]
    BY <1>1, <1>2 DEF DiskInv
  <1>5. ASSUME NEW v \in Workflows PROVE WorkflowInv(v)'
    <2>1. EventHeads(v)' = EventHeads(v) /\ Genesis' = Genesis
      BY <1>2 DEF EventHeads, Genesis
    <2>2. WorkflowInv(v)
      BY DEF DiskInv
    <2>3. marked'[v] \subseteq DOMAIN declared[v]
      <3>1. marked[v] \subseteq DOMAIN declared[v]
        BY <2>2 DEF WorkflowInv
      <3> QED BY <1>1, <1>4, <3>1
    <2> QED BY <1>2, <2>1, <2>2, <2>3 DEF WorkflowInv
  <1>6. DiskInv'
    BY <1>2, <1>3, <1>5 DEF DiskInv
  <1> QED BY <1>1, <1>4, <1>6

(* PublishCheckpoint at a head of the history.                             *)
LEMMA CheckpointPublished ==
    ASSUME DiskInv, NEW w \in Workflows, NEW h \in WorkflowHead,
           h \in {Genesis} \cup EventHeads(w), PublishCheckpoint(CheckpointFile(w, h))
    PROVE  DiskInv'
  <1>1. checkpoint' = [checkpoint EXCEPT ![w] = @ \cup {h}] /\ UNCHANGED <<hist, declared, marked>>
    BY DEF PublishCheckpoint, CheckpointFile
  <1>2. checkpoint' \in [Workflows -> SUBSET WorkflowHead]
    BY <1>1 DEF DiskInv
  <1>3. ASSUME NEW v \in Workflows PROVE WorkflowInv(v)'
    <2>1. EventHeads(v)' = EventHeads(v) /\ Genesis' = Genesis
      BY <1>1 DEF EventHeads, Genesis
    <2>2. WorkflowInv(v)
      BY DEF DiskInv
    <2>3. checkpoint'[v] \subseteq {Genesis} \cup EventHeads(v)
      BY <1>1, <2>2 DEF WorkflowInv, DiskInv
    <2> QED BY <1>1, <2>1, <2>2, <2>3 DEF WorkflowInv
  <1> QED BY <1>1, <1>2, <1>3 DEF DiskInv

----------------------------------------------------------------------------
(* The processes.                                                          *)
JobType == [files : Seq(File), batches : SUBSET Batch, receipts : SUBSET Binding]

(* An idle process has nothing to answer for, whatever the disk holds.     *)
LEMMA IdleJob == Idle \in JobType /\ JobInv(Idle) /\ JobInv(Idle)'
  <1>1. Idle = [files |-> << >>, batches |-> {}, receipts |-> {}]
    BY DEF Idle, Job
  <1>2. << >> \in Seq(File)
    OBVIOUS
  <1>3. Finishing(Idle)
    BY <1>1 DEF Finishing
  <1>4. Finishing(Idle)'
    BY <1>1 DEF Finishing
  <1> QED BY <1>1, <1>2, <1>3, <1>4 DEF JobType, JobInv

(* A job stays what it is while the disk does not change.                  *)
LEMMA JobKept ==
    ASSUME UNCHANGED disk, NEW j, JobInv(j) PROVE JobInv(j)'
  <1>1. hist' = hist /\ declared' = declared /\ marked' = marked
    BY DEF disk
  <1>2. \A b : Stored(b) => Stored(b)'
    BY <1>1 DEF Stored
  <1>3. \A b : Declared(b) => Declared(b)'
    BY <1>1 DEF Declared
  <1>4. CASE Finishing(j)
    <2>1. Finishing(j)'
      BY <1>1, <1>2, <1>3, <1>4 DEF Finishing
    <2> QED BY <2>1 DEF JobInv
  <1>5. CASE Committing(j)
    <2>1. PICK q \in Batch : j = Job(<<BatchFile(q)>>, {q}, {}) /\ Appendable(q)
      BY <1>5 DEF Committing
    <2>2. Appendable(q)'
      BY <1>1, <2>1 DEF Appendable
    <2>3. Committing(j)'
      BY <2>1, <2>2 DEF Committing, Job, BatchFile
    <2> QED BY <2>3 DEF JobInv
  <1>6. CASE Declaring(j)
    <2>1. PICK b \in Binding : j = Job(<<Declaration(b), Marker(b)>>, {}, {b}) /\ Declarable(b)
      BY <1>6 DEF Declaring
    <2>2. Declarable(b)'
      BY <1>1, <2>1 DEF Declarable
    <2>3. Declaring(j)'
      BY <2>1, <2>2 DEF Declaring, Job, Declaration, Marker
    <2> QED BY <2>3 DEF JobInv
  <1>7. CASE Marking(j)
    <2>1. PICK b \in Binding : j = Job(<<Marker(b)>>, {}, {b}) /\ Declared(b)
      BY <1>7 DEF Marking
    <2>2. Marking(j)'
      BY <1>3, <2>1 DEF Marking, Job, Marker
    <2> QED BY <2>2 DEF JobInv
  <1>8. CASE Checkpointing(j)
    <2>1. PICK w \in Workflows, h \in WorkflowHead :
            j = Job(<<CheckpointFile(w, h)>>, {}, {}) /\ h \in {Genesis} \cup EventHeads(w)
      BY <1>8 DEF Checkpointing
    <2>2. EventHeads(w)' = EventHeads(w)
      BY <1>1 DEF EventHeads
    <2>3. Checkpointing(j)'
      BY <2>1, <2>2 DEF Checkpointing, Job, CheckpointFile, Genesis
    <2> QED BY <2>3 DEF JobInv
  <1> QED BY <1>4, <1>5, <1>6, <1>7, <1>8 DEF JobInv

(* The disk part of the invariant is a property of the disk alone.         *)
LEMMA DiskKept ==
    ASSUME UNCHANGED disk, DiskInv PROVE DiskInv'
  <1>1. hist' = hist /\ declared' = declared /\ marked' = marked /\ checkpoint' = checkpoint
    BY DEF disk
  <1>2. ASSUME NEW w \in Workflows PROVE WorkflowInv(w)'
    <2>1. EventHeads(w)' = EventHeads(w) /\ Genesis' = Genesis
      BY <1>1 DEF EventHeads, Genesis
    <2>2. WorkflowInv(w)
      BY DEF DiskInv
    <2> QED BY <1>1, <2>1, <2>2 DEF WorkflowInv
  <1> QED BY <1>1, <1>2 DEF DiskInv

(* What callers were told stays true while the disk does not change.       *)
LEMMA ToldKept ==
    ASSUME UNCHANGED disk
    PROVE  /\ \A b : Stored(b) => Stored(b)'
           /\ \A b : Declared(b) /\ b.gen \in marked[b.wf] => Declared(b)' /\ b.gen \in marked'[b.wf]
  BY DEF disk, Stored, Declared

(* Only the holder of the lock has anything to do.                         *)
LEMMA OthersIdle ==
    ASSUME StoreInv
    PROVE  /\ \A c, d \in Clients : lock = c /\ d # c => work[d] = Idle
           /\ lock = Free => \A c \in Clients : work[c] = Idle
  BY ClientsAssumption DEF StoreInv

(* Start keeps the invariant, if the job is one of those above.            *)
LEMMA Started ==
    ASSUME StoreInv, NEW c \in Clients, NEW j \in JobType, JobInv(j), Start(c, j)
    PROVE  StoreInv'
  <1>1. /\ lock = Free /\ lock' = c /\ work' = [work EXCEPT ![c] = j]
        /\ UNCHANGED <<disk, told, failures>>
    BY DEF Start, LockAvailable
  <1>2. DiskInv'
    BY <1>1, DiskKept DEF StoreInv
  <1>3. work' \in [Clients -> JobType]
    BY <1>1 DEF StoreInv, JobType
  <1>4. \A d \in Clients : work'[d] = IF d = c THEN j ELSE Idle
    BY <1>1, OthersIdle DEF StoreInv
  <1>5. ASSUME NEW d \in Clients PROVE JobInv(work[d])' /\ (work'[d] # Idle => lock' = d)
    <2>1. JobInv(j)'
      BY <1>1, JobKept
    <2>2. CASE d = c
      BY <1>1, <1>4, <2>1, <2>2
    <2>3. CASE d # c
      BY <1>4, <2>3, IdleJob
    <2> QED BY <2>2, <2>3
  <1>6. Idle' = Idle
    BY DEF Idle, Job
  <1>7. /\ lock' \in Clients \cup {Free} /\ failures' \in Nat
        /\ acked' \subseteq Batch /\ issued' \subseteq Binding
    BY <1>1 DEF StoreInv, told
  <1>8. \A b \in acked' : Stored(b)'
    BY <1>1, ToldKept DEF StoreInv, told
  <1>9. \A b \in issued' : Declared(b)' /\ b.gen \in marked'[b.wf]
    BY <1>1, ToldKept DEF StoreInv, told
  <1> QED BY <1>2, <1>3, <1>5, <1>6, <1>7, <1>8, <1>9 DEF StoreInv, JobType

(* Every job but a finished one has a file to publish.                     *)
LEMMA UnfinishedJobs ==
    ASSUME NEW j, Committing(j) \/ Declaring(j) \/ Marking(j) \/ Checkpointing(j)
    PROVE  j.files # << >>
  <1>1. \A f, s, r : Job(f, s, r).files = f
    BY DEF Job
  <1>2. \A x : <<x>> # << >>
    OBVIOUS
  <1>3. \A x, y : <<x, y>> # << >>
    OBVIOUS
  <1>4. CASE Committing(j)
    <2>1. PICK q \in Batch : j = Job(<<BatchFile(q)>>, {q}, {})
      BY <1>4 DEF Committing
    <2> QED BY <1>1, <1>2, <2>1
  <1>5. CASE Declaring(j)
    <2>1. PICK b \in Binding : j = Job(<<Declaration(b), Marker(b)>>, {}, {b})
      BY <1>5 DEF Declaring
    <2> QED BY <1>1, <1>3, <2>1
  <1>6. CASE Marking(j)
    <2>1. PICK b \in Binding : j = Job(<<Marker(b)>>, {}, {b})
      BY <1>6 DEF Marking
    <2> QED BY <1>1, <1>2, <2>1
  <1>7. CASE Checkpointing(j)
    <2>1. PICK w \in Workflows, h \in WorkflowHead : j = Job(<<CheckpointFile(w, h)>>, {}, {})
      BY <1>7 DEF Checkpointing
    <2> QED BY <1>1, <1>2, <2>1
  <1> QED BY <1>4, <1>5, <1>6, <1>7

(* Answer: the caller is told what the job has stored by then.             *)
LEMMA Answered ==
    ASSUME StoreInv, NEW c \in Clients, Answer(c) PROVE StoreInv'
  <1>1. /\ lock = c /\ work[c].files = << >> /\ lock' = Free
        /\ acked' = acked \cup work[c].batches /\ issued' = issued \cup work[c].receipts
        /\ work' = [work EXCEPT ![c] = Idle] /\ UNCHANGED <<disk, failures>>
    BY DEF Answer
  <1>2. DiskInv'
    BY <1>1, DiskKept DEF StoreInv
  <1>3. work' \in [Clients -> JobType]
    BY <1>1, IdleJob DEF StoreInv, JobType
  <1>4. \A d \in Clients : work'[d] = Idle
    BY <1>1, OthersIdle DEF StoreInv
  <1>5. ASSUME NEW d \in Clients PROVE JobInv(work[d])' /\ (work'[d] # Idle => lock' = d)
    BY <1>4, IdleJob
  <1>6. Idle' = Idle
    BY DEF Idle, Job
  <1>7. Finishing(work[c])
    <2>1. JobInv(work[c])
      BY DEF StoreInv
    <2>2. ~Committing(work[c]) /\ ~Declaring(work[c]) /\ ~Marking(work[c]) /\ ~Checkpointing(work[c])
      BY <1>1, UnfinishedJobs
    <2> QED BY <2>1, <2>2 DEF JobInv
  <1>8. work[c].batches \subseteq Batch /\ work[c].receipts \subseteq Binding
    BY DEF StoreInv
  <1>9. /\ lock' \in Clients \cup {Free} /\ failures' \in Nat
        /\ acked' \subseteq Batch /\ issued' \subseteq Binding
    BY <1>1, <1>8 DEF StoreInv
  <1>10. \A b \in acked' : Stored(b)'
    <2>1. \A b \in acked' : Stored(b)
      BY <1>1, <1>7 DEF StoreInv, Finishing
    <2> QED BY <1>1, <2>1, ToldKept
  <1>11. \A b \in issued' : Declared(b)' /\ b.gen \in marked'[b.wf]
    <2>1. \A b \in issued' : Declared(b) /\ b.gen \in marked[b.wf]
      BY <1>1, <1>7 DEF StoreInv, Finishing
    <2> QED BY <1>1, <2>1, ToldKept
  <1> QED BY <1>2, <1>3, <1>5, <1>6, <1>9, <1>10, <1>11 DEF StoreInv, JobType

(* Fail: whatever was published stays, and nobody is told anything.        *)
LEMMA Failed ==
    ASSUME StoreInv, NEW c \in Clients, Fail(c) PROVE StoreInv'
  <1>1. /\ lock = c /\ lock' = Free /\ failures' = failures + 1
        /\ work' = [work EXCEPT ![c] = Idle] /\ UNCHANGED <<disk, told>>
    BY DEF Fail
  <1>2. DiskInv'
    BY <1>1, DiskKept DEF StoreInv
  <1>3. work' \in [Clients -> JobType]
    BY <1>1, IdleJob DEF StoreInv, JobType
  <1>4. \A d \in Clients : work'[d] = Idle
    BY <1>1, OthersIdle DEF StoreInv
  <1>5. ASSUME NEW d \in Clients PROVE JobInv(work[d])' /\ (work'[d] # Idle => lock' = d)
    BY <1>4, IdleJob
  <1>6. Idle' = Idle
    BY DEF Idle, Job
  <1>7. /\ lock' \in Clients \cup {Free} /\ failures' \in Nat
        /\ acked' \subseteq Batch /\ issued' \subseteq Binding
    BY <1>1 DEF StoreInv, told
  <1>8. /\ \A b \in acked' : Stored(b)'
        /\ \A b \in issued' : Declared(b)' /\ b.gen \in marked'[b.wf]
    BY <1>1, ToldKept DEF StoreInv, told
  <1> QED BY <1>2, <1>3, <1>5, <1>6, <1>7, <1>8 DEF StoreInv, JobType

(* A rename leaves the holder with the rest of its files.                  *)
LEMMA Continued ==
    ASSUME StoreInv, NEW c \in Clients, work[c] # Idle,
           work' = [work EXCEPT ![c] = Job(Tail(@.files), @.batches, @.receipts)], UNCHANGED <<lock, told, failures>>,
           NEW j \in JobType, j = Job(Tail(work[c].files), work[c].batches, work[c].receipts), JobInv(j)', DiskInv',
           \A b \in Batch : Stored(b) => Stored(b)',
           \A b \in Binding : Declared(b) /\ b.gen \in marked[b.wf]
               => Declared(b)' /\ b.gen \in marked'[b.wf]
    PROVE  StoreInv'
  <1>1. lock = c
    BY DEF StoreInv
  <1>2. work \in [Clients -> JobType]
    BY DEF StoreInv, JobType
  <1>3. work' = [work EXCEPT ![c] = j]
    BY <1>2
  <1>4. work' \in [Clients -> JobType]
    BY <1>2, <1>3
  <1>5. \A d \in Clients : work'[d] = IF d = c THEN j ELSE Idle
    BY <1>1, <1>2, <1>3, OthersIdle
  <1>6. ASSUME NEW d \in Clients PROVE JobInv(work[d])' /\ (work'[d] # Idle => lock' = d)
    <2>1. CASE d = c
      BY <1>1, <1>5, <2>1
    <2>2. CASE d # c
      BY <1>5, <2>2, IdleJob
    <2> QED BY <2>1, <2>2
  <1>7. Idle' = Idle
    BY DEF Idle, Job
  <1>8. /\ lock' \in Clients \cup {Free} /\ failures' \in Nat
        /\ acked' \subseteq Batch /\ issued' \subseteq Binding
    BY DEF StoreInv, told
  <1>9. /\ \A b \in acked' : Stored(b)'
        /\ \A b \in issued' : Declared(b)' /\ b.gen \in marked'[b.wf]
    BY DEF StoreInv, told
  <1> QED BY <1>4, <1>6, <1>7, <1>8, <1>9 DEF StoreInv, JobType

(* The fields of a job.                                                    *)
LEMMA JobFields ==
    ASSUME NEW f, NEW s, NEW r
    PROVE  /\ Job(f, s, r).files = f /\ Job(f, s, r).batches = s /\ Job(f, s, r).receipts = r
  BY DEF Job

(* Short file lists.                                                       *)
LEMMA Singles == \A f, g : Head(<<f>>) = f /\ Tail(<<f>>) = << >> /\ Head(<<f, g>>) = f /\ Tail(<<f, g>>) = <<g>>
  OBVIOUS

(* Publish of a commit: the batch is stored, and the caller may be told.   *)
LEMMA PublishedCommit ==
    ASSUME StoreInv, NEW c \in Clients, Publish(c), Committing(work[c])
    PROVE  StoreInv'
  <1>1. PICK q \in Batch : work[c] = Job(<<BatchFile(q)>>, {q}, {}) /\ Appendable(q)
    BY DEF Committing
  <1> DEFINE j == Job(<< >>, {q}, {})
  <1>2. BatchFile(q) \in File
    BY DEF BatchFile, File
  <1>3. /\ work[c].files = <<BatchFile(q)>> /\ Head(work[c].files) = BatchFile(q)
        /\ Job(Tail(work[c].files), work[c].batches, work[c].receipts) = j
    <2>1. /\ work[c].files = <<BatchFile(q)>> /\ work[c].batches = {q} /\ work[c].receipts = {}
      BY <1>1, JobFields
    <2> QED BY <2>1, Singles
  <1>4. /\ work' = [work EXCEPT ![c] = Job(Tail(@.files), @.batches, @.receipts)] /\ UNCHANGED <<lock, told, failures>>
        /\ LET f == BatchFile(q)
           IN  PublishBatch(f) \/ PublishDeclaration(f) \/ PublishMarker(f) \/ PublishCheckpoint(f)
    BY <1>3 DEF Publish
  <1>5. PublishBatch(BatchFile(q))
    BY <1>4 DEF PublishDeclaration, PublishMarker, PublishCheckpoint, BatchFile
  <1>6. DiskInv' /\ Stored(q)' /\ \A b \in Batch : Stored(b) => Stored(b)'
    BY <1>1, <1>5, BatchPublished DEF StoreInv
  <1>7. j \in JobType /\ j.files = << >> /\ j.batches = {q} /\ j.receipts = {}
    BY DEF JobType, Job
  <1>8. JobInv(j)'
    <2>1. Finishing(j)'
      BY <1>6, <1>7 DEF Finishing
    <2> QED BY <1>7, <2>1 DEF JobInv
  <1>9. \A b \in Binding : Declared(b) /\ b.gen \in marked[b.wf]
               => Declared(b)' /\ b.gen \in marked'[b.wf]
    BY <1>5 DEF PublishBatch, Declared
  <1>10. work[c] # Idle
    <2>1. work[c].files # << >>
      BY DEF Publish
    <2> QED BY <2>1 DEF Idle, Job
  <1> HIDE DEF j
  <1> QED BY <1>3, <1>4, <1>6, <1>7, <1>8, <1>9, <1>10, Continued

(* Publish of a declaration: its marker is still missing.                  *)
LEMMA PublishedDeclaration ==
    ASSUME StoreInv, NEW c \in Clients, Publish(c), Declaring(work[c])
    PROVE  StoreInv'
  <1>1. PICK d \in Binding : work[c] = Job(<<Declaration(d), Marker(d)>>, {}, {d}) /\ Declarable(d)
    BY DEF Declaring
  <1> DEFINE j == Job(<<Marker(d)>>, {}, {d})
  <1>2. Marker(d) \in File
    BY DEF Marker, File
  <1>3. /\ work[c].files = <<Declaration(d), Marker(d)>> /\ Head(work[c].files) = Declaration(d)
        /\ Job(Tail(work[c].files), work[c].batches, work[c].receipts) = j
    <2>1. /\ work[c].files = <<Declaration(d), Marker(d)>>
          /\ work[c].batches = {} /\ work[c].receipts = {d}
      BY <1>1, JobFields
    <2> QED BY <2>1, Singles
  <1>4. /\ work' = [work EXCEPT ![c] = Job(Tail(@.files), @.batches, @.receipts)]
        /\ UNCHANGED <<lock, told, failures>>
        /\ LET f == Declaration(d)
           IN  PublishBatch(f) \/ PublishDeclaration(f) \/ PublishMarker(f) \/ PublishCheckpoint(f)
    BY <1>3 DEF Publish
  <1>5. PublishDeclaration(Declaration(d))
    BY <1>4 DEF PublishBatch, PublishMarker, PublishCheckpoint, Declaration
  <1>6. DiskInv' /\ Declared(d)' /\ \A b \in Binding : Declared(b) => Declared(b)'
    BY <1>1, <1>5, DeclarationPublished DEF StoreInv
  <1>7. j \in JobType /\ j.batches = {} /\ j.receipts = {d}
    <2>1. <<Marker(d)>> \in Seq(File)
      BY <1>2
    <2> QED BY <2>1 DEF JobType, Job
  <1>8. JobInv(j)'
    <2>1. Marking(j)'
      BY <1>6 DEF Marking, Job, Marker
    <2> QED BY <1>7, <2>1 DEF JobInv
  <1>9. \A b \in Binding : Declared(b) /\ b.gen \in marked[b.wf]
               => Declared(b)' /\ b.gen \in marked'[b.wf]
    BY <1>5, <1>6 DEF PublishDeclaration
  <1>10. \A b \in Batch : Stored(b) => Stored(b)'
    BY <1>5 DEF PublishDeclaration, Stored
  <1>11. work[c] # Idle
    <2>1. work[c].files # << >>
      BY DEF Publish
    <2> QED BY <2>1 DEF Idle, Job
  <1> HIDE DEF j
  <1> QED BY <1>3, <1>4, <1>6, <1>7, <1>8, <1>9, <1>10, <1>11, Continued

(* Publish of a marker: the registration may be reported.                  *)
LEMMA PublishedMarker ==
    ASSUME StoreInv, NEW c \in Clients, Publish(c), Marking(work[c])
    PROVE  StoreInv'
  <1>1. PICK d \in Binding : work[c] = Job(<<Marker(d)>>, {}, {d}) /\ Declared(d)
    BY DEF Marking
  <1> DEFINE j == Job(<< >>, {}, {d})
  <1>3. /\ work[c].files = <<Marker(d)>> /\ Head(work[c].files) = Marker(d)
        /\ Job(Tail(work[c].files), work[c].batches, work[c].receipts) = j
    <2>1. work[c].files = <<Marker(d)>> /\ work[c].batches = {} /\ work[c].receipts = {d}
      BY <1>1, JobFields
    <2> QED BY <2>1, Singles
  <1>4. /\ work' = [work EXCEPT ![c] = Job(Tail(@.files), @.batches, @.receipts)]
        /\ UNCHANGED <<lock, told, failures>>
        /\ LET f == Marker(d)
           IN  PublishBatch(f) \/ PublishDeclaration(f) \/ PublishMarker(f) \/ PublishCheckpoint(f)
    BY <1>3 DEF Publish
  <1>5. PublishMarker(Marker(d))
    BY <1>4 DEF PublishBatch, PublishDeclaration, PublishCheckpoint, Marker
  <1>6. DiskInv' /\ d.gen \in marked'[d.wf] /\ \A v \in Workflows : marked[v] \subseteq marked'[v]
    BY <1>1, <1>5, MarkerPublished DEF StoreInv
  <1>7. j \in JobType /\ j.files = << >> /\ j.batches = {} /\ j.receipts = {d}
    BY DEF JobType, Job
  <1>8. \A b : Declared(b) => Declared(b)'
    BY <1>5 DEF PublishMarker, Declared
  <1>9. JobInv(j)'
    <2>1. Finishing(j)'
      BY <1>1, <1>6, <1>7, <1>8 DEF Finishing
    <2> QED BY <1>7, <2>1 DEF JobInv
  <1>10. \A b \in Binding : Declared(b) /\ b.gen \in marked[b.wf]
               => Declared(b)' /\ b.gen \in marked'[b.wf]
    BY <1>6, <1>8 DEF Binding
  <1>11. \A b \in Batch : Stored(b) => Stored(b)'
    BY <1>5 DEF PublishMarker, Stored
  <1>12. work[c] # Idle
    <2>1. work[c].files # << >>
      BY DEF Publish
    <2> QED BY <2>1 DEF Idle, Job
  <1> HIDE DEF j
  <1> QED BY <1>3, <1>4, <1>6, <1>7, <1>9, <1>10, <1>11, <1>12, Continued

(* Publish of a checkpoint.                                                *)
LEMMA PublishedCheckpoint ==
    ASSUME StoreInv, NEW c \in Clients, Publish(c), Checkpointing(work[c])
    PROVE  StoreInv'
  <1>1. PICK w \in Workflows, h \in WorkflowHead :
          work[c] = Job(<<CheckpointFile(w, h)>>, {}, {}) /\ h \in {Genesis} \cup EventHeads(w)
    BY DEF Checkpointing
  <1>3. /\ work[c].files = <<CheckpointFile(w, h)>> /\ Head(work[c].files) = CheckpointFile(w, h)
        /\ Job(Tail(work[c].files), work[c].batches, work[c].receipts) = Idle
    <2>1. work[c].files = <<CheckpointFile(w, h)>> /\ work[c].batches = {} /\ work[c].receipts = {}
      BY <1>1, JobFields
    <2> QED BY <2>1, Singles DEF Idle
  <1>4. /\ work' = [work EXCEPT ![c] = Job(Tail(@.files), @.batches, @.receipts)]
        /\ UNCHANGED <<lock, told, failures>>
        /\ LET f == CheckpointFile(w, h)
           IN  PublishBatch(f) \/ PublishDeclaration(f) \/ PublishMarker(f) \/ PublishCheckpoint(f)
    BY <1>3 DEF Publish
  <1>5. PublishCheckpoint(CheckpointFile(w, h))
    BY <1>4 DEF PublishBatch, PublishDeclaration, PublishMarker, CheckpointFile
  <1>6. DiskInv'
    BY <1>1, <1>5, CheckpointPublished DEF StoreInv
  <1>7. \A b \in Binding : Declared(b) /\ b.gen \in marked[b.wf]
               => Declared(b)' /\ b.gen \in marked'[b.wf]
    BY <1>5 DEF PublishCheckpoint, Declared
  <1>8. \A b \in Batch : Stored(b) => Stored(b)'
    BY <1>5 DEF PublishCheckpoint, Stored
  <1>9. work[c] # Idle
    <2>1. work[c].files # << >>
      BY DEF Publish
    <2> QED BY <2>1 DEF Idle, Job
  <1> QED BY <1>3, <1>4, <1>6, <1>7, <1>8, <1>9, IdleJob, Continued

(* Publish keeps the invariant: a finished job has nothing to publish.     *)
LEMMA Published ==
    ASSUME StoreInv, NEW c \in Clients, Publish(c) PROVE StoreInv'
  <1>1. JobInv(work[c]) /\ ~Finishing(work[c])
    BY DEF StoreInv, Publish, Finishing
  <1> QED BY <1>1, PublishedCommit, PublishedDeclaration, PublishedMarker, PublishedCheckpoint DEF JobInv

----------------------------------------------------------------------------
(* The operations.  Each checks, while it holds the lock, what its job     *)
(* needs.                                                                  *)

(* Heads read from a valid history, and requests built from them.          *)
LEMMA RequestTypes ==
    ASSUME DiskInv
    PROVE  /\ \A w \in Workflows : PastHeads(w) \subseteq WorkflowHead
           /\ \A w \in Workflows : EventHeads(w) \subseteq WorkflowHead
           /\ Unguarded \in GuardHeads
           /\ \A G \in SUBSET Workflows : PastGuards(G) \subseteq GuardHeads
  <1>1. ASSUME NEW w \in Workflows PROVE PastHeads(w) \subseteq WorkflowHead
    <2>1. \A i \in DOMAIN hist[w] : hist[w][i] \in Batch
      BY DEF DiskInv
    <2> QED BY <2>1, HeadTypes DEF PastHeads
  <1>2. ASSUME NEW w \in Workflows, NEW x \in EventHeads(w) PROVE x \in WorkflowHead
    <2>1. PICK j \in DOMAIN hist[w] :
            x \in {[rev |-> hist[w][j].at.rev + i, last |-> hist[w][j].cmd.ids[i]] :
                      i \in DOMAIN hist[w][j].cmd.ids}
      BY <1>2 DEF EventHeads
    <2>2. hist[w][j] \in Batch
      BY <2>1 DEF DiskInv
    <2>3. hist[w][j].at.rev \in Nat /\ hist[w][j].cmd.ids \in Seq(Events)
      BY <2>2, CommandsAssumption DEF Batch, WorkflowHead, IsCommand
    <2>4. PICK i \in DOMAIN hist[w][j].cmd.ids :
            x = [rev |-> hist[w][j].at.rev + i, last |-> hist[w][j].cmd.ids[i]]
      BY <2>1
    <2>5. hist[w][j].at.rev + i \in Nat /\ hist[w][j].cmd.ids[i] \in Events
      <3>1. \A s \in Seq(Events) : \A k \in DOMAIN s : s[k] \in Events /\ k \in Nat
        OBVIOUS
      <3>2. i \in Nat /\ hist[w][j].cmd.ids[i] \in Events
        BY <2>3, <2>4, <3>1
      <3> QED BY <2>3, <3>2
    <2> QED BY <2>4, <2>5 DEF WorkflowHead
  <1>3. Unguarded \in GuardHeads
    BY DEF Unguarded, GuardHeads
  <1>4. ASSUME NEW G \in SUBSET Workflows, NEW f \in PastGuards(G) PROVE f \in GuardHeads
    <2>1. PICK h : /\ \A g \in G : h[g] \in PastHeads(g)
                   /\ f = [w \in Workflows |-> IF w \in G THEN h[w] ELSE NoGuard]
      BY <1>4 DEF PastGuards
    <2>2. \A g \in G : h[g] \in WorkflowHead
      BY <1>1, <2>1
    <2> QED BY <2>1, <2>2 DEF GuardHeads
  <1> QED BY <1>1, <1>2, <1>3, <1>4

(* prepare_commit accepts only a batch that continues its history.         *)
LEMMA AcceptedIsAppendable ==
    ASSUME DiskInv, NEW q \in Batch, Prepare(hist, q) = "append"
    PROVE  Appendable(q)
  <1>1. /\ SameKey(hist, q) = {} /\ HeadOf(hist[q.cmd.wf]) = q.at
        /\ NewRecords(hist, q)
    BY DEF Prepare, NewCommit
  <1>2. q.cmd \in Commands /\ q.cmd.wf \in Workflows
    BY CommandsAssumption DEF Batch, IsCommand
  <1>3. ASSUME NEW w \in InRoot(RootOf[q.cmd.wf]), NEW i \in DOMAIN hist[w]
        PROVE  Disjoint(q, hist[w][i])
    <2>1. hist[w][i] \in StoredIn(hist, RootOf[q.cmd.wf])
      BY DEF StoredIn
    <2>2. hist[w][i].cmd.key # q.cmd.key
      BY <1>1, <2>1 DEF SameKey
    <2>3. EventsOf(hist[w][i]) \cap EventsOf(q) = {} /\ IntentsOf(hist[w][i]) \cap IntentsOf(q) = {}
      BY <1>1, <2>1 DEF NewRecords
    <2> QED BY <2>2, <2>3 DEF Disjoint
  <1> QED BY <1>1, <1>3 DEF Appendable

(* A commit, raw or guarded, that takes the lock.                          *)
LEMMA StartedCommit ==
    ASSUME StoreInv, NEW c \in Clients, NEW q \in Batch, NEW outcome,
           outcome = "append" => Prepare(hist, q) = "append",
           StartCommit(c, outcome, q)
    PROVE  StoreInv'
  <1>1. CASE outcome = "append" /\ Start(c, Job(<<BatchFile(q)>>, {q}, {}))
    <2> DEFINE j == Job(<<BatchFile(q)>>, {q}, {})
    <2>1. Appendable(q)
      BY <1>1, AcceptedIsAppendable DEF StoreInv
    <2>2. BatchFile(q) \in File
      BY DEF BatchFile, File
    <2>3. j \in JobType /\ j.batches = {q} /\ j.receipts = {}
      <3>1. <<BatchFile(q)>> \in Seq(File)
        BY <2>2
      <3> QED BY <3>1 DEF JobType, Job
    <2>4. JobInv(j)
      <3>1. Committing(j)
        BY <2>1 DEF Committing
      <3> QED BY <2>3, <3>1 DEF JobInv
    <2> QED BY <1>1, <2>3, <2>4, Started
  <1>2. CASE /\ outcome = "existing"
             /\ Start(c, Job(<< >>, {b \in SameKey(hist, q) : SameRequest(b, q)}, {}))
    <2> DEFINE S == {b \in SameKey(hist, q) : SameRequest(b, q)}
               j == Job(<< >>, S, {})
    <2>1. ASSUME NEW b \in S PROVE b \in Batch /\ Stored(b)
      <3>1. PICK w \in InRoot(RootOf[q.cmd.wf]) : \E i \in DOMAIN hist[w] : b = hist[w][i]
        BY <2>1 DEF SameKey, StoredIn
      <3>2. PICK i \in DOMAIN hist[w] : b = hist[w][i]
        BY <3>1
      <3>3. w \in Workflows
        BY DEF InRoot
      <3>4. b \in Batch /\ b.cmd.wf = w
        BY <3>2, <3>3 DEF StoreInv, DiskInv, WorkflowInv
      <3> QED BY <3>2, <3>4 DEF Stored
    <2> HIDE DEF S
    <2>2. j \in JobType /\ j.files = << >> /\ j.batches = S /\ j.receipts = {}
      BY <2>1 DEF JobType, Job
    <2>3. JobInv(j)
      <3>1. Finishing(j)
        BY <2>1, <2>2 DEF Finishing
      <3>2. j.batches \subseteq Batch /\ j.receipts \subseteq Binding
        BY <2>1, <2>2
      <3> QED BY <3>1, <3>2 DEF JobInv
    <2>4. Start(c, j)
      BY <1>2 DEF S
    <2> QED BY <2>2, <2>3, <2>4, Started
  <1> QED BY <1>1, <1>2 DEF StartCommit

(* FileSystemStore::commit keeps the invariant.                            *)
LEMMA CommitKeeps ==
    ASSUME StoreInv, NEW c \in Clients, NEW cmd \in Commands, Commit(c, cmd)
    PROVE  StoreInv'
  <1>1. cmd.wf \in Workflows
    BY CommandsAssumption DEF IsCommand
  <1> DEFINE Q(at) == [cmd |-> cmd, at |-> at, heads |-> Unguarded]
  <1>2. PICK at \in PastHeads(cmd.wf) : StartCommit(c, Prepare(hist, Q(at)), Q(at))
    BY DEF Commit
  <1>3. Q(at) \in Batch
    <2>1. at \in WorkflowHead /\ Unguarded \in GuardHeads
      BY <1>1, RequestTypes DEF StoreInv
    <2> QED BY <2>1 DEF Batch
  <1> HIDE DEF Q
  <1> QED BY <1>2, <1>3, StartedCommit

(* FileSystemStore::guarded_commit and FileSystemGuardedStore::commit.     *)
LEMMA GuardedCommitKeeps ==
    ASSUME StoreInv, NEW c \in Clients, NEW cmd \in Commands,
           NEW G \in SUBSET Workflows, GuardedCommit(c, cmd, G)
    PROVE  StoreInv'
  <1>1. cmd.wf \in Workflows
    BY CommandsAssumption DEF IsCommand
  <1> DEFINE Q(at, heads) == [cmd |-> cmd, at |-> at, heads |-> heads]
  <1>2. PICK at \in PastHeads(cmd.wf), heads \in PastGuards(G) :
          StartCommit(c, PrepareGuarded(hist, Q(at, heads)), Q(at, heads))
    BY DEF GuardedCommit
  <1>3. Q(at, heads) \in Batch
    <2>1. at \in WorkflowHead /\ heads \in GuardHeads
      BY <1>1, RequestTypes DEF StoreInv
    <2> QED BY <2>1 DEF Batch
  <1> HIDE DEF Q
  <1>4. PrepareGuarded(hist, Q(at, heads)) = "append" => Prepare(hist, Q(at, heads)) = "append"
    BY DEF PrepareGuarded
  <1> QED BY <1>2, <1>3, <1>4, StartedCommit

(* A job that declares the next binding of a workflow and then marks it.   *)
LEMMA StartedDeclaration ==
    ASSUME StoreInv, NEW c \in Clients, NEW b \in Binding, Declarable(b),
           Start(c, Job(<<Declaration(b), Marker(b)>>, {}, {b}))
    PROVE  StoreInv'
  <1> DEFINE j == Job(<<Declaration(b), Marker(b)>>, {}, {b})
  <1>1. Declaration(b) \in File /\ Marker(b) \in File
    BY DEF Declaration, Marker, File
  <1>2. j \in JobType /\ j.batches = {} /\ j.receipts = {b}
    <2>1. <<Declaration(b), Marker(b)>> \in Seq(File)
      BY <1>1
    <2> QED BY <2>1 DEF JobType, Job
  <1>3. JobInv(j)
    <2>1. Declaring(j)
      BY DEF Declaring
    <2> QED BY <1>2, <2>1 DEF JobInv
  <1> QED BY <1>2, <1>3, Started

(* The first activation of a workflow declares generation one.             *)
LEMMA FirstActivationKeeps ==
    ASSUME StoreInv, NEW c \in Clients, NEW w \in Governed, NEW ps \in Configurations,
           FirstActivation(c, w, ps)
    PROVE  StoreInv'
  <1> DEFINE b == FirstBinding(w, ps, hist[w])
  <1>1. w \in Workflows /\ hist[w] \in Seq(Batch)
    BY ClientsAssumption DEF StoreInv, DiskInv
  <1>2. ps \in Seq(Profiles)
    <2>1. CASE \E p \in Profiles : ps = <<p>>
      BY <2>1
    <2>2. CASE \E p, r \in Profiles : ps = <<p, r>>
      BY <2>2
    <2> QED BY <2>1, <2>2 DEF Configurations
  <1>3. HeadOf(hist[w]) \in WorkflowHead
    BY <1>1, HeadOfType
  <1>4. b \in Binding /\ b.wf = w /\ b.gen = 1
    BY <1>1, <1>2, <1>3 DEF FirstBinding, Binding
  <1>5. declared[w] = << >> /\ Start(c, Job(<<Declaration(b), Marker(b)>>, {}, {b}))
    BY DEF FirstActivation, Registered
  <1>6. Declarable(b)
    BY <1>4, <1>5 DEF Declarable
  <1> HIDE DEF b
  <1> QED BY <1>4, <1>5, <1>6, StartedDeclaration

(* The current binding of a registered workflow is declared.               *)
LEMMA CurrentDeclared ==
    ASSUME DiskInv, NEW w \in Workflows, Registered(w)
    PROVE  /\ Current(w) \in Binding /\ Declared(Current(w))
           /\ Current(w).wf = w /\ Current(w).gen = Len(declared[w])
  <1>1. declared[w] \in Seq(Binding) /\ declared[w] # << >>
    BY DEF DiskInv, Registered
  <1>2. Len(declared[w]) \in DOMAIN declared[w]
    BY <1>1
  <1>3. declared[w][Len(declared[w])].gen = Len(declared[w]) /\ declared[w][Len(declared[w])].wf = w
    BY <1>2 DEF DiskInv, WorkflowInv
  <1> QED BY <1>1, <1>2, <1>3 DEF Current, Final, Declared

(* A repeated activation answers with the current binding, and publishes   *)
(* its marker if it is missing.                                            *)
LEMMA RepeatedActivationKeeps ==
    ASSUME StoreInv, NEW c \in Clients, NEW w \in Governed, NEW ps, NEW exact,
           RepeatedActivation(c, w, ps, exact)
    PROVE  StoreInv'
  <1> DEFINE b == Current(w)
  <1>1. w \in Workflows /\ Registered(w)
    BY ClientsAssumption DEF RepeatedActivation, RepeatAllowed
  <1>2. b \in Binding /\ Declared(b) /\ b.wf = w
    BY <1>1, CurrentDeclared DEF StoreInv
  <1>3. Start(c, Job(IF b.gen \in marked[w] THEN << >> ELSE <<Marker(b)>>, {}, {b}))
    BY DEF RepeatedActivation
  <1> HIDE DEF b
  <1>4. CASE b.gen \in marked[w]
    <2> DEFINE j == Job(<< >>, {}, {b})
    <2>1. j \in JobType /\ j.files = << >> /\ j.batches = {} /\ j.receipts = {b}
      BY <1>2 DEF JobType, Job
    <2>2. JobInv(j)
      <3>1. Finishing(j)
        BY <1>2, <1>4, <2>1 DEF Finishing
      <3> QED BY <1>2, <2>1, <3>1 DEF JobInv
    <2>3. Start(c, j)
      BY <1>3, <1>4
    <2> HIDE DEF j
    <2> QED BY <2>1, <2>2, <2>3, Started
  <1>5. CASE b.gen \notin marked[w]
    <2> DEFINE j == Job(<<Marker(b)>>, {}, {b})
    <2>1. Marker(b) \in File
      BY <1>2 DEF Marker, File
    <2>2. j \in JobType /\ j.batches = {} /\ j.receipts = {b}
      <3>1. <<Marker(b)>> \in Seq(File)
        BY <2>1
      <3> QED BY <1>2, <3>1 DEF JobType, Job
    <2>3. JobInv(j)
      <3>1. Marking(j)
        BY <1>2 DEF Marking
      <3> QED BY <1>2, <2>2, <3>1 DEF JobInv
    <2>4. Start(c, j)
      BY <1>3, <1>5
    <2> HIDE DEF j
    <2> QED BY <2>2, <2>3, <2>4, Started
  <1> QED BY <1>4, <1>5

(* add_guard_profile declares the generation after the current one.        *)
LEMMA AddGuardProfileKeeps ==
    ASSUME StoreInv, NEW c \in Clients, NEW b \in issued, NEW p \in Profiles,
           AddGuardProfile(c, b, p)
    PROVE  StoreInv'
  <1> DEFINE d == Evolve(b, p)
  <1>1. /\ Registered(b.wf) /\ b = Current(b.wf)
        /\ Start(c, Job(<<Declaration(d), Marker(d)>>, {}, {d}))
    BY DEF AddGuardProfile
  <1>2. b \in Binding /\ b.wf \in Workflows /\ b.gen \in Nat /\ b.profiles \in Seq(Profiles)
        /\ b.start \in WorkflowHead
    BY DEF StoreInv, Binding
  <1>3. b.gen = Len(declared[b.wf]) /\ b = Final(declared[b.wf])
    BY <1>1, <1>2, CurrentDeclared DEF StoreInv, Current
  <1>4. /\ Append(b.profiles, p) \in Seq(Profiles)
        /\ Len(Append(b.profiles, p)) = Len(b.profiles) + 1
        /\ \A i \in DOMAIN b.profiles : Append(b.profiles, p)[i] = b.profiles[i]
    BY <1>2, AppendFacts
  <1>5. /\ d.wf = b.wf /\ d.gen = b.gen + 1 /\ d.start = b.start
        /\ d.profiles = Append(b.profiles, p)
    BY DEF Evolve
  <1>6. d \in Binding
    BY <1>2, <1>4 DEF Evolve, Binding
  <1>7. ExtendsExactly(b, d)
    BY <1>4, <1>5 DEF ExtendsExactly
  <1>8. Declarable(d)
    BY <1>3, <1>5, <1>7 DEF Declarable
  <1> HIDE DEF d
  <1> QED BY <1>1, <1>6, <1>8, StartedDeclaration

(* write_checkpoint stores a checkpoint at an event of the history.        *)
LEMMA WriteCheckpointKeeps ==
    ASSUME StoreInv, NEW c \in Clients, NEW w \in Checkpointed, NEW h, WriteCheckpoint(c, w, h)
    PROVE  StoreInv'
  <1> DEFINE j == Job(<<CheckpointFile(w, h)>>, {}, {})
  <1>1. w \in Workflows /\ h \in {Genesis} \cup EventHeads(w) /\ Start(c, j)
    BY ClientsAssumption DEF WriteCheckpoint
  <1>2. h \in WorkflowHead
    BY <1>1, HeadTypes, RequestTypes DEF StoreInv
  <1>3. CheckpointFile(w, h) \in File
    BY <1>1, <1>2 DEF CheckpointFile, File
  <1>4. j \in JobType /\ j.batches = {} /\ j.receipts = {}
    <2>1. <<CheckpointFile(w, h)>> \in Seq(File)
      BY <1>3
    <2> QED BY <2>1 DEF JobType, Job
  <1>5. JobInv(j)
    <2>1. Checkpointing(j)
      BY <1>1, <1>2 DEF Checkpointing
    <2> QED BY <1>4, <2>1 DEF JobInv
  <1> HIDE DEF j
  <1> QED BY <1>1, <1>4, <1>5, Started

----------------------------------------------------------------------------
(* Initially the disk is empty and nobody has been told anything.          *)
LEMMA InitStoreInv ==
    ASSUME Init PROVE StoreInv
  <1>1. << >> \in Seq(Batch) /\ << >> \in Seq(Binding) /\ DOMAIN << >> = {}
    OBVIOUS
  <1>2. \A w \in Workflows : hist[w] = << >> /\ declared[w] = << >> /\ marked[w] = {} /\ checkpoint[w] = {}
    BY DEF Init
  <1>3. ASSUME NEW w \in Workflows PROVE WorkflowInv(w)
    BY <1>1, <1>2 DEF WorkflowInv, ChainedHistory, OneChain
  <1>4. ASSUME NEW r PROVE GloballyUnique(hist, r)
    <2>1. \A w \in InRoot(r) : hist[w] = << >>
      BY <1>2 DEF InRoot
    <2> QED BY <1>1, <2>1 DEF GloballyUnique
  <1>5. /\ hist \in [Workflows -> Seq(Batch)] /\ declared \in [Workflows -> Seq(Binding)]
        /\ marked \in [Workflows -> SUBSET Nat] /\ checkpoint \in [Workflows -> SUBSET WorkflowHead]
    BY <1>1 DEF Init
  <1>6. DiskInv
    BY <1>3, <1>4, <1>5 DEF DiskInv
  <1>7. work = [c \in Clients |-> Idle] /\ work \in [Clients -> JobType]
    BY IdleJob DEF Init
  <1>8. \A c \in Clients : JobInv(work[c]) /\ (work[c] # Idle => lock = c)
    BY <1>7, IdleJob
  <1> QED BY <1>6, <1>7, <1>8 DEF StoreInv, Init, JobType

(* Every step of any process keeps the invariant.                          *)
LEMMA NextStoreInv ==
    ASSUME StoreInv, [Next]_vars PROVE StoreInv'
  <1>1. ASSUME NEW c \in Clients, Mutate(c) PROVE StoreInv'
    <2>1. CASE \E cmd \in Commands : Commit(c, cmd)
      BY <2>1, CommitKeeps
    <2>2. CASE \E cmd \in Commands, G \in SUBSET Workflows : GuardedCommit(c, cmd, G)
      BY <2>2, GuardedCommitKeeps
    <2>3. CASE \E w \in Checkpointed : \E h \in OfferedHeads(w) : WriteCheckpoint(c, w, h)
      BY <2>3, WriteCheckpointKeeps
    <2> QED BY <1>1, <2>1, <2>2, <2>3 DEF Mutate
  <1>2. ASSUME NEW c \in Clients, Register(c) PROVE StoreInv'
    <2>1. CASE \E w \in Governed, ps \in Configurations : FirstActivation(c, w, ps)
      BY <2>1, FirstActivationKeeps
    <2>2. CASE \E w \in Governed, ps \in Configurations, exact \in BOOLEAN :
                  RepeatedActivation(c, w, ps, exact)
      BY <2>2, RepeatedActivationKeeps
    <2>3. CASE \E b \in issued, p \in Profiles : AddGuardProfile(c, b, p)
      BY <2>3, AddGuardProfileKeeps
    <2> QED BY <1>2, <2>1, <2>2, <2>3 DEF Register
  <1>3. CASE UNCHANGED vars
    <2>1. /\ UNCHANGED disk /\ lock' = lock /\ work' = work
          /\ acked' = acked /\ issued' = issued /\ failures' = failures
      BY <1>3 DEF vars, disk
    <2>2. DiskInv'
      BY <2>1, DiskKept DEF StoreInv
    <2>3. \A c \in Clients : JobInv(work[c])' /\ (work'[c] # Idle => lock' = c)
      <3>1. ASSUME NEW c \in Clients PROVE JobInv(work[c])'
        <4>1. PICK j : j = work[c]
          OBVIOUS
        <4>2. JobInv(j)'
          BY <2>1, <4>1, JobKept DEF StoreInv
        <4> QED BY <2>1, <4>1, <4>2
      <3> QED BY <2>1, <3>1 DEF StoreInv
    <2>4. /\ \A b \in acked' : Stored(b)'
          /\ \A b \in issued' : Declared(b)' /\ b.gen \in marked'[b.wf]
      BY <2>1, ToldKept DEF StoreInv
    <2>5. Idle' = Idle
      BY DEF Idle, Job
    <2> QED BY <2>1, <2>2, <2>3, <2>4, <2>5 DEF StoreInv
  <1> QED BY <1>1, <1>2, <1>3, Published, Answered, Failed DEF Next

(* The disk, the jobs in hand and everything callers were told agree, for  *)
(* every number of processes and whatever fails.                           *)
THEOREM StoreInvariant == Spec => []StoreInv
  <1>1. Init => StoreInv
    BY InitStoreInv
  <1>2. StoreInv /\ [Next]_vars => StoreInv'
    BY NextStoreInv
  <1> QED BY <1>1, <1>2, PTL DEF Spec

(* A commit some caller was told of is never lost.                         *)
THEOREM AcknowledgedIsStored == Spec => []AckedStored
  <1>1. StoreInv => AckedStored
    BY DEF StoreInv, Stored, AckedStored
  <1> QED BY <1>1, StoreInvariant, PTL

(* The receipts handed out name declared and marked ancestors of the       *)
(* current binding.                                                        *)
THEOREM ReceiptsAlwaysDescend == Spec => []ReceiptsDescend
  <1>1. StoreInv => ReceiptsDescend
    BY DEF StoreInv, Declared, DescendsFrom, ReceiptsDescend
  <1> QED BY <1>1, StoreInvariant, PTL

(* Checkpoints mark events of the history.                                 *)
THEOREM CheckpointsAlwaysValid == Spec => []CheckpointsValid
  <1>1. StoreInv => CheckpointsValid
    BY DEF StoreInv, DiskInv, WorkflowInv, CheckpointsValid
  <1> QED BY <1>1, StoreInvariant, PTL

(* Every variable keeps its type.                                          *)
THEOREM StoreTypes == Spec => []TypeOK
  <1>1. StoreInv => TypeOK
    BY DEF StoreInv, DiskInv, TypeOK
  <1> QED BY <1>1, StoreInvariant, PTL

----------------------------------------------------------------------------
(* The registry.  What a job was admitted under still holds when its file  *)
(* becomes visible.                                                        *)

(* A batch is published under a profile of its workflow, if that is        *)
(* registered, with every guard where the request saw it.                  *)
Admissible(q) ==
    /\ GuardsMatch(hist, q)
    /\ Registered(q.cmd.wf) =>
          MarkersPresent(RootOf[q.cmd.wf]) /\ OpenProfile(q.cmd.wf, GuardsOf(q))

(* A binding is declared once its predecessor is marked, and adds one      *)
(* profile to it.                                                          *)
Registrable(b) ==
    /\ ValidProfiles(b.wf, b.profiles) /\ PrefixKept(b, hist[b.wf])
    /\ Registered(b.wf) =>
          /\ Len(declared[b.wf]) \in marked[b.wf]
          /\ \E p \in Profiles : b.profiles = Append(Current(b.wf).profiles, p)

(* A batch or a declaration is the first file of its job.                  *)
Admitted(j) ==
    j.files # << >> =>
        /\ Head(j.files).kind = "batch" => Admissible(Head(j.files).batch)
        /\ Head(j.files).kind = "declaration" => Registrable(Head(j.files).binding)

RegistryOf(w) ==
    /\ \A i \in DOMAIN declared[w] : i < Len(declared[w]) => i \in marked[w]
    /\ Registered(w) => ValidProfiles(w, Current(w).profiles) /\ PrefixKept(Current(w), hist[w])

RegistryInv ==
    /\ \A w \in Workflows : RegistryOf(w)
    /\ \A c \in Clients : Admitted(work[c])

(* Nothing is published and nothing is promised without a file.            *)
LEMMA NothingToAdmit ==
    ASSUME NEW j, j.files = << >> PROVE Admitted(j) /\ Admitted(j)'
  BY DEF Admitted

LEMMA IdleAdmitted == Admitted(Idle) /\ Admitted(Idle)'
  <1>1. Idle.files = << >>
    BY DEF Idle, Job
  <1> QED BY <1>1 DEF Admitted

(* The registry is a property of the disk.                                 *)
LEMMA RegistryKept ==
    ASSUME UNCHANGED disk
    PROVE  /\ \A w : RegistryOf(w) => RegistryOf(w)'
           /\ \A q : Admissible(q) => Admissible(q)'
           /\ \A b : Registrable(b) => Registrable(b)'
  <1>1. hist' = hist /\ declared' = declared /\ marked' = marked
    BY DEF disk
  <1>2. \A w : RegistryOf(w) => RegistryOf(w)'
    BY <1>1 DEF RegistryOf, Registered, Current
  <1>3. \A q : Admissible(q) => Admissible(q)'
    BY <1>1 DEF Admissible, Registered, MarkersPresent, OpenProfile, Current
  <1>4. \A b : Registrable(b) => Registrable(b)'
    BY <1>1 DEF Registrable, Registered, Current
  <1> QED BY <1>2, <1>3, <1>4

LEMMA AdmittedKept ==
    ASSUME UNCHANGED disk, NEW j, Admitted(j) PROVE Admitted(j)'
  BY RegistryKept DEF Admitted

(* Start, Answer and Fail leave the disk alone: the registry invariant     *)
(* needs only that the job in hand was admitted.                           *)
LEMMA RegistryWithoutPublish ==
    ASSUME RegistryInv, UNCHANGED disk,
           \A c \in Clients : work'[c] = work[c] \/ work'[c] = Idle
                                \/ \E j : work'[c] = j /\ Admitted(j)
    PROVE  RegistryInv'
  <1>1. \A w \in Workflows : RegistryOf(w)'
    BY RegistryKept DEF RegistryInv
  <1>2. ASSUME NEW c \in Clients PROVE Admitted(work[c])'
    <2>1. PICK j : work'[c] = j /\ Admitted(j)
      BY IdleAdmitted DEF RegistryInv
    <2>2. Admitted(j)'
      BY <2>1, AdmittedKept
    <2> QED BY <2>1, <2>2 DEF Admitted
  <1> QED BY <1>1, <1>2 DEF RegistryInv

LEMMA StartedAdmitted ==
    ASSUME StoreInv, RegistryInv, NEW c \in Clients, NEW j, Start(c, j), Admitted(j)
    PROVE  RegistryInv'
  <1>1. UNCHANGED disk /\ \A d \in Clients : work'[d] = IF d = c THEN j ELSE work[d]
    BY DEF Start, StoreInv
  <1> QED BY <1>1, RegistryWithoutPublish

LEMMA EndedAdmitted ==
    ASSUME StoreInv, RegistryInv, NEW c \in Clients, Answer(c) \/ Fail(c)
    PROVE  RegistryInv'
  <1>1. UNCHANGED disk /\ \A d \in Clients : work'[d] = IF d = c THEN Idle ELSE work[d]
    BY DEF Answer, Fail, StoreInv
  <1> QED BY <1>1, RegistryWithoutPublish

(* The four renames, with the job they belong to.                          *)
LEMMA Renames ==
    ASSUME StoreInv, NEW c \in Clients, Publish(c)
    PROVE  /\ \A d \in Clients : d # c => work[d] = Idle /\ work'[d] = Idle
           /\ \/ \E q \in Batch :
                    /\ Appendable(q) /\ PublishBatch(BatchFile(q)) /\ work'[c].files = << >>
                    /\ work[c].files # << >> /\ Head(work[c].files) = BatchFile(q)
              \/ \E b \in Binding :
                    /\ Declarable(b) /\ PublishDeclaration(Declaration(b)) /\ work'[c].files = <<Marker(b)>>
                    /\ work[c].files # << >> /\ Head(work[c].files) = Declaration(b)
              \/ \E b \in Binding :
                    Declared(b) /\ PublishMarker(Marker(b)) /\ work'[c].files = << >>
              \/ UNCHANGED <<hist, declared, marked>> /\ work'[c].files = << >>
  <1>1. /\ work[c].files # << >>
        /\ LET f == Head(work[c].files)
           IN  PublishBatch(f) \/ PublishDeclaration(f) \/ PublishMarker(f) \/ PublishCheckpoint(f)
        /\ work' = [work EXCEPT ![c] = Job(Tail(@.files), @.batches, @.receipts)]
    BY DEF Publish
  <1>2. work \in [Clients -> JobType] /\ JobInv(work[c]) /\ ~Finishing(work[c])
    BY <1>1 DEF StoreInv, JobType, Finishing
  <1>3. lock = c
    <2>1. work[c] # Idle
      BY <1>1 DEF Idle, Job
    <2> QED BY <2>1 DEF StoreInv
  <1>4. \A d \in Clients : d # c => work[d] = Idle /\ work'[d] = Idle
    BY <1>1, <1>2, <1>3, OthersIdle
  <1>5. work'[c].files = Tail(work[c].files)
    BY <1>1, <1>2, JobFields
  <1>6. CASE Committing(work[c])
    <2>1. PICK q \in Batch : work[c] = Job(<<BatchFile(q)>>, {q}, {}) /\ Appendable(q)
      BY <1>6 DEF Committing
    <2>2. work[c].files = <<BatchFile(q)>>
      BY <2>1, JobFields
    <2>3. Head(work[c].files) = BatchFile(q) /\ work'[c].files = << >>
      BY <1>5, <2>2, Singles
    <2>4. PublishBatch(BatchFile(q))
      <3>1. PublishBatch(BatchFile(q)) \/ PublishDeclaration(BatchFile(q)) \/ PublishMarker(BatchFile(q)) \/ PublishCheckpoint(BatchFile(q))
        BY <1>1, <2>3
      <3> QED BY <3>1 DEF PublishDeclaration, PublishMarker, PublishCheckpoint, BatchFile
    <2> QED BY <1>1, <1>4, <2>1, <2>3, <2>4
  <1>7. CASE Declaring(work[c])
    <2>1. PICK b \in Binding : work[c] = Job(<<Declaration(b), Marker(b)>>, {}, {b}) /\ Declarable(b)
      BY <1>7 DEF Declaring
    <2>2. work[c].files = <<Declaration(b), Marker(b)>>
      BY <2>1, JobFields
    <2>3. Head(work[c].files) = Declaration(b) /\ work'[c].files = <<Marker(b)>>
      BY <1>5, <2>2, Singles
    <2>4. PublishDeclaration(Declaration(b))
      <3>1. PublishBatch(Declaration(b)) \/ PublishDeclaration(Declaration(b)) \/ PublishMarker(Declaration(b)) \/ PublishCheckpoint(Declaration(b))
        BY <1>1, <2>3
      <3> QED BY <3>1 DEF PublishBatch, PublishMarker, PublishCheckpoint, Declaration
    <2> QED BY <1>1, <1>4, <2>1, <2>3, <2>4
  <1>8. CASE Marking(work[c])
    <2>1. PICK b \in Binding : work[c] = Job(<<Marker(b)>>, {}, {b}) /\ Declared(b)
      BY <1>8 DEF Marking
    <2>2. work[c].files = <<Marker(b)>>
      BY <2>1, JobFields
    <2>3. Head(work[c].files) = Marker(b) /\ work'[c].files = << >>
      BY <1>5, <2>2, Singles
    <2>4. PublishMarker(Marker(b))
      <3>1. PublishBatch(Marker(b)) \/ PublishDeclaration(Marker(b)) \/ PublishMarker(Marker(b)) \/ PublishCheckpoint(Marker(b))
        BY <1>1, <2>3
      <3> QED BY <3>1 DEF PublishBatch, PublishDeclaration, PublishCheckpoint, Marker
    <2> QED BY <1>4, <2>1, <2>3, <2>4
  <1>9. CASE Checkpointing(work[c])
    <2>1. PICK w, h : work[c] = Job(<<CheckpointFile(w, h)>>, {}, {})
      BY <1>9 DEF Checkpointing
    <2>2. work[c].files = <<CheckpointFile(w, h)>>
      BY <2>1, JobFields
    <2>3. Head(work[c].files) = CheckpointFile(w, h) /\ work'[c].files = << >>
      BY <1>5, <2>2, Singles
    <2>4. PublishCheckpoint(CheckpointFile(w, h))
      <3>1. PublishBatch(CheckpointFile(w, h)) \/ PublishDeclaration(CheckpointFile(w, h)) \/ PublishMarker(CheckpointFile(w, h)) \/ PublishCheckpoint(CheckpointFile(w, h))
        BY <1>1, <2>3
      <3> QED BY <3>1 DEF PublishBatch, PublishDeclaration, PublishMarker, CheckpointFile
    <2> QED BY <1>4, <2>3, <2>4 DEF PublishCheckpoint
  <1> QED BY <1>2, <1>6, <1>7, <1>8, <1>9 DEF JobInv

(* A history that grows at its end keeps the prefix of a binding.          *)
LEMMA PrefixAppend ==
    ASSUME NEW s \in Seq(Batch), NEW q \in Batch, NEW b, PrefixKept(b, s)
    PROVE  PrefixKept(b, Append(s, q))
  <1>1. \A i \in DOMAIN s : i \in DOMAIN Append(s, q) /\ Append(s, q)[i] = s[i]
    BY AppendFacts
  <1> QED BY <1>1 DEF PrefixKept

(* Publish keeps the registry invariant.                                   *)
LEMMA PublishedAdmitted ==
    ASSUME StoreInv, RegistryInv, NEW c \in Clients, Publish(c)
    PROVE  RegistryInv'
  <1>1. \A d \in Clients : d # c => work[d] = Idle /\ work'[d] = Idle
    BY Renames
  <1>2. ASSUME Admitted(work[c])', \A w \in Workflows : RegistryOf(w)' PROVE RegistryInv'
    <2>1. ASSUME NEW d \in Clients PROVE Admitted(work[d])'
      <3>1. CASE d = c
        BY <1>2, <3>1
      <3>2. CASE d # c
        BY <1>1, <3>2, IdleAdmitted
      <3> QED BY <3>1, <3>2
    <2> QED BY <1>2, <2>1 DEF RegistryInv
  <1>3. ASSUME work'[c].files = << >> PROVE Admitted(work[c])'
    BY <1>3 DEF Admitted
  <1>4. \A w \in Workflows : hist[w] \in Seq(Batch) /\ declared[w] \in Seq(Binding) /\ RegistryOf(w)
    BY DEF StoreInv, DiskInv, RegistryInv
  <1>5. ASSUME NEW q \in Batch, PublishBatch(BatchFile(q)), work'[c].files = << >>
        PROVE  RegistryInv'
    <2>1. q.cmd.wf \in Workflows /\ declared' = declared /\ marked' = marked
          /\ hist' = [hist EXCEPT ![q.cmd.wf] = Append(@, q)]
      BY <1>5, CommandsAssumption DEF Batch, IsCommand, PublishBatch, BatchFile
    <2>2. ASSUME NEW w \in Workflows PROVE RegistryOf(w)'
      <3>1. hist'[w] = hist[w] \/ hist'[w] = Append(hist[w], q)
        BY <2>1 DEF StoreInv, DiskInv
      <3>2. \A b : PrefixKept(b, hist[w]) => PrefixKept(b, hist'[w])
        BY <1>4, <3>1, PrefixAppend
      <3> QED BY <1>4, <2>1, <3>2 DEF RegistryOf, Registered, Current
    <2> QED BY <1>2, <1>3, <1>5, <2>2
  <1>6. ASSUME NEW b \in Binding, Declarable(b), PublishDeclaration(Declaration(b)),
               work'[c].files = <<Marker(b)>>,
               work[c].files # << >>, Head(work[c].files) = Declaration(b)
        PROVE  RegistryInv'
    <2>1. b.wf \in Workflows /\ hist' = hist /\ marked' = marked
          /\ declared' = [declared EXCEPT ![b.wf] = Append(@, b)]
      BY <1>6 DEF Binding, PublishDeclaration, Declaration
    <2>2. Registrable(b)
      BY <1>6 DEF RegistryInv, Admitted, Declaration
    <2>3. ASSUME NEW w \in Workflows PROVE RegistryOf(w)'
      <3>1. CASE w # b.wf
        <4>1. declared'[w] = declared[w]
          BY <2>1, <3>1 DEF StoreInv, DiskInv
        <4> QED BY <1>4, <2>1, <4>1 DEF RegistryOf, Registered, Current
      <3>2. CASE w = b.wf
        <4>1. declared'[w] = Append(declared[w], b)
          BY <2>1, <3>2 DEF StoreInv, DiskInv
        <4>2. /\ DOMAIN declared'[w] = 1..(Len(declared[w]) + 1) /\ Len(declared'[w]) = Len(declared[w]) + 1
              /\ DOMAIN declared[w] = 1..Len(declared[w]) /\ Len(declared[w]) \in Nat
              /\ Final(declared'[w]) = b
          BY <1>4, <4>1, AppendFacts
        <4>3. ASSUME NEW i \in DOMAIN declared'[w], i < Len(declared'[w]) PROVE i \in marked'[w]
          <5>1. CASE i < Len(declared[w])
            BY <1>4, <2>1, <4>2, <5>1 DEF RegistryOf
          <5>2. CASE i = Len(declared[w])
            <6>1. Registered(b.wf)
              BY <3>2, <4>2, <4>3, <5>2 DEF Registered
            <6> QED BY <2>1, <2>2, <3>2, <5>2, <6>1 DEF Registrable
          <5> QED BY <4>2, <4>3, <5>1, <5>2
        <4>4. ValidProfiles(w, b.profiles) /\ PrefixKept(b, hist'[w])
          BY <2>1, <2>2, <3>2 DEF Registrable
        <4> QED BY <4>2, <4>3, <4>4 DEF RegistryOf, Current
      <3> QED BY <3>1, <3>2
    <2>4. Admitted(work[c])'
      <3>1. Head(work'[c].files).kind = "marker"
        BY <1>6, Singles DEF Marker
      <3> QED BY <3>1 DEF Admitted
    <2> QED BY <1>2, <2>3, <2>4
  <1>7. ASSUME NEW b \in Binding, PublishMarker(Marker(b)), work'[c].files = << >>
        PROVE  RegistryInv'
    <2>1. hist' = hist /\ declared' = declared /\ \A w \in Workflows : marked[w] \subseteq marked'[w]
      BY <1>7 DEF PublishMarker, Marker, Binding, StoreInv, DiskInv
    <2>2. \A w \in Workflows : RegistryOf(w)'
      BY <1>4, <2>1 DEF RegistryOf, Registered, Current
    <2> QED BY <1>2, <1>3, <1>7, <2>2
  <1>8. ASSUME UNCHANGED <<hist, declared, marked>>, work'[c].files = << >> PROVE RegistryInv'
    <2>1. \A w \in Workflows : RegistryOf(w)'
      BY <1>4, <1>8 DEF RegistryOf, Registered, Current
    <2> QED BY <1>2, <1>3, <1>8, <2>1
  <1> QED BY <1>5, <1>6, <1>7, <1>8, Renames

(* The guards of a request are the workflows it was built for, and a raw   *)
(* request has none.                                                       *)
LEMMA RequestGuards ==
    ASSUME DiskInv
    PROVE  /\ \A q : q.heads = Unguarded => GuardsOf(q) = {}
           /\ \A G \in SUBSET Workflows : \A q : q.heads \in PastGuards(G) => GuardsOf(q) = G
  <1>1. NoGuard \notin WorkflowHead
    BY DEF NoGuard, WorkflowHead
  <1>2. \A q : q.heads = Unguarded => GuardsOf(q) = {}
    BY DEF GuardsOf, Unguarded
  <1>3. ASSUME NEW G \in SUBSET Workflows, NEW q, q.heads \in PastGuards(G)
        PROVE  GuardsOf(q) = G
    <2>1. PICK h : /\ \A g \in G : h[g] \in PastHeads(g)
                   /\ q.heads = [w \in Workflows |-> IF w \in G THEN h[w] ELSE NoGuard]
      BY <1>3 DEF PastGuards
    <2>2. \A g \in G : h[g] # NoGuard
      BY <1>1, <2>1, RequestTypes
    <2> QED BY <2>1, <2>2 DEF GuardsOf
  <1> QED BY <1>2, <1>3

(* StartCommit with a batch that may be published.                         *)
LEMMA CommitAdmitted ==
    ASSUME StoreInv, RegistryInv, NEW c \in Clients, NEW q, NEW outcome,
           outcome = "append" => Admissible(q), StartCommit(c, outcome, q)
    PROVE  RegistryInv'
  <1>1. CASE outcome = "append" /\ Start(c, Job(<<BatchFile(q)>>, {q}, {}))
    <2> DEFINE j == Job(<<BatchFile(q)>>, {q}, {})
    <2>1. j.files = <<BatchFile(q)>>
      BY JobFields
    <2>2. Head(j.files) = BatchFile(q)
      BY <2>1, Singles
    <2>3. Head(j.files).kind = "batch" /\ Head(j.files).batch = q
      BY <2>2 DEF BatchFile
    <2> HIDE DEF j
    <2>4. Admitted(j)
      BY <1>1, <2>3 DEF Admitted
    <2>5. Start(c, j)
      BY <1>1 DEF j
    <2> QED BY <2>4, <2>5, StartedAdmitted
  <1>2. CASE \E S : Start(c, Job(<< >>, S, {}))
    <2>1. PICK S : Start(c, Job(<< >>, S, {}))
      BY <1>2
    <2>2. Job(<< >>, S, {}).files = << >>
      BY JobFields
    <2> QED BY <2>1, <2>2, NothingToAdmit, StartedAdmitted
  <1> QED BY <1>1, <1>2 DEF StartCommit

(* A raw commit names no guard, and its workflow is not registered.        *)
LEMMA RawCommitAdmitted ==
    ASSUME StoreInv, RegistryInv, NEW c \in Clients, NEW cmd \in Commands, Commit(c, cmd)
    PROVE  RegistryInv'
  <1> DEFINE Q(at) == [cmd |-> cmd, at |-> at, heads |-> Unguarded]
  <1>1. PICK at : RawAdmitted(cmd.wf) /\ StartCommit(c, Prepare(hist, Q(at)), Q(at))
    BY DEF Commit
  <1>2. GuardsOf(Q(at)) = {} /\ Q(at).cmd.wf = cmd.wf
    BY RequestGuards DEF StoreInv
  <1> HIDE DEF Q
  <1>3. Admissible(Q(at))
    BY <1>1, <1>2 DEF RawAdmitted, Admissible, GuardsMatch
  <1> QED BY <1>1, <1>3, CommitAdmitted

(* A guarded commit is decided while its guards are where it saw them and  *)
(* has the guards of one profile of the current binding.                   *)
LEMMA GuardedCommitAdmitted ==
    ASSUME StoreInv, RegistryInv, NEW c \in Clients, NEW cmd \in Commands,
           NEW G \in SUBSET Workflows, GuardedCommit(c, cmd, G)
    PROVE  RegistryInv'
  <1> DEFINE Q(at, heads) == [cmd |-> cmd, at |-> at, heads |-> heads]
  <1>1. PICK at \in PastHeads(cmd.wf), heads \in PastGuards(G) :
          StartCommit(c, PrepareGuarded(hist, Q(at, heads)), Q(at, heads))
    BY DEF GuardedCommit
  <1>2. GuardsOf(Q(at, heads)) = G /\ Q(at, heads).cmd.wf = cmd.wf
    BY RequestGuards DEF StoreInv
  <1> HIDE DEF Q
  <1>3. Registered(cmd.wf) => MarkersPresent(RootOf[cmd.wf]) /\ OpenProfile(cmd.wf, G)
    <2>1. ASSUME NEW b, NEW id, BoundProfile(cmd.wf, G, b, id) PROVE OpenProfile(cmd.wf, G)
      BY <2>1 DEF BoundProfile, OpenProfile, HasId, Profile
    <2> QED BY <2>1 DEF GuardedCommit, GuardedAdmitted, ProfileAdmits
  <1>4. PrepareGuarded(hist, Q(at, heads)) = "append" => GuardsMatch(hist, Q(at, heads))
    BY DEF PrepareGuarded
  <1>5. PrepareGuarded(hist, Q(at, heads)) = "append" => Admissible(Q(at, heads))
    BY <1>2, <1>3, <1>4 DEF Admissible
  <1> QED BY <1>1, <1>5, CommitAdmitted

(* A job that declares a binding which may be registered.                  *)
LEMMA DeclarationAdmitted ==
    ASSUME StoreInv, RegistryInv, NEW c \in Clients, NEW b, Registrable(b),
           Start(c, Job(<<Declaration(b), Marker(b)>>, {}, {b}))
    PROVE  RegistryInv'
  <1> DEFINE j == Job(<<Declaration(b), Marker(b)>>, {}, {b})
  <1>1. j.files = <<Declaration(b), Marker(b)>>
    BY JobFields
  <1>2. Head(j.files) = Declaration(b)
    BY <1>1, Singles
  <1>3. Head(j.files).kind = "declaration" /\ Head(j.files).binding = b
    BY <1>2 DEF Declaration
  <1> HIDE DEF j
  <1>4. Admitted(j)
    BY <1>3 DEF Admitted
  <1>5. Start(c, j)
    BY DEF j
  <1> QED BY <1>4, <1>5, StartedAdmitted

(* The first binding starts at the head its history has.                   *)
LEMMA FirstActivationAdmitted ==
    ASSUME StoreInv, RegistryInv, NEW c \in Clients, NEW w \in Governed, NEW ps,
           FirstActivation(c, w, ps)
    PROVE  RegistryInv'
  <1> DEFINE b == FirstBinding(w, ps, hist[w])
  <1>1. w \in Workflows /\ hist[w] \in Seq(Batch)
    BY ClientsAssumption DEF StoreInv, DiskInv
  <1>2. b.wf = w /\ b.profiles = ps /\ b.start = HeadOf(hist[w])
    BY DEF FirstBinding
  <1>3. PrefixKept(b, hist[w])
    <2>1. CASE hist[w] = << >>
      BY <1>2, <2>1 DEF HeadOf, PrefixKept
    <2>2. CASE hist[w] # << >>
      <3>1. Len(hist[w]) \in DOMAIN hist[w]
        BY <1>1, <2>2
      <3> QED BY <1>2, <2>2, <3>1 DEF HeadOf, Final, PrefixKept
    <2> QED BY <2>1, <2>2
  <1>4. /\ ValidProfiles(w, ps) /\ ~Registered(w)
        /\ Start(c, Job(<<Declaration(b), Marker(b)>>, {}, {b}))
    BY DEF FirstActivation
  <1> HIDE DEF b
  <1>5. Registrable(b)
    BY <1>2, <1>3, <1>4 DEF Registrable
  <1> QED BY <1>4, <1>5, DeclarationAdmitted

(* A repeated activation declares nothing.                                 *)
LEMMA RepeatedActivationAdmitted ==
    ASSUME StoreInv, RegistryInv, NEW c \in Clients, NEW w, NEW ps, NEW exact,
           RepeatedActivation(c, w, ps, exact)
    PROVE  RegistryInv'
  <1> DEFINE b == Current(w)
             files == IF b.gen \in marked[w] THEN << >> ELSE <<Marker(b)>>
             j == Job(files, {}, {b})
  <1>1. Start(c, j)
    BY DEF RepeatedActivation
  <1>2. j.files = files
    BY JobFields
  <1>3. files = << >> \/ Head(files).kind = "marker"
    BY Singles DEF Marker
  <1> HIDE DEF j, files
  <1>4. Admitted(j)
    BY <1>2, <1>3 DEF Admitted
  <1> QED BY <1>1, <1>4, StartedAdmitted

(* Evolution adds one profile under a new id to a binding that is marked.  *)
LEMMA AddGuardProfileAdmitted ==
    ASSUME StoreInv, RegistryInv, NEW c \in Clients, NEW b \in issued, NEW p \in Profiles,
           AddGuardProfile(c, b, p)
    PROVE  RegistryInv'
  <1> DEFINE d == Evolve(b, p)
  <1>1. /\ ValidProfiles(b.wf, <<p>>) /\ Registered(b.wf) /\ b = Current(b.wf)
        /\ PrefixKept(b, hist[b.wf]) /\ ~HasId(b, p.id)
        /\ Start(c, Job(<<Declaration(d), Marker(d)>>, {}, {d}))
    BY DEF AddGuardProfile
  <1>2. b.wf \in Workflows /\ b.profiles \in Seq(Profiles) /\ b.gen \in marked[b.wf]
    BY DEF StoreInv, Binding
  <1>3. b.gen = Len(declared[b.wf])
    BY <1>1, <1>2, CurrentDeclared DEF StoreInv
  <1>4. d.wf = b.wf /\ d.start = b.start /\ d.profiles = Append(b.profiles, p)
    BY DEF Evolve
  <1> HIDE DEF d
  <1>5. ValidProfiles(b.wf, Append(b.profiles, p))
    <2>1. ValidProfiles(b.wf, b.profiles)
      BY <1>1, <1>2 DEF RegistryInv, RegistryOf
    <2>2. /\ DOMAIN b.profiles = 1..Len(b.profiles) /\ Len(b.profiles) \in Nat
          /\ DOMAIN Append(b.profiles, p) = 1..(Len(b.profiles) + 1) /\ Append(b.profiles, p) # << >>
          /\ \A i \in 1..Len(b.profiles) : Append(b.profiles, p)[i] = b.profiles[i]
          /\ Append(b.profiles, p)[Len(b.profiles) + 1] = p
      BY <1>2, AppendFacts
    <2>3. \A g \in p.flows : RootOf[g] # RootOf[b.wf]
      <3>1. DOMAIN <<p>> = {1} /\ <<p>>[1] = p
        OBVIOUS
      <3> QED BY <1>1, <3>1 DEF ValidProfiles
    <2>4. \A i \in DOMAIN b.profiles : b.profiles[i].id # p.id
      BY <1>1 DEF HasId
    <2>5. \A i \in 1..(Len(b.profiles) + 1) : i \in 1..Len(b.profiles) \/ i = Len(b.profiles) + 1
      BY <2>2
    <2> QED BY <2>1, <2>2, <2>3, <2>4, <2>5 DEF ValidProfiles
  <1>6. Registrable(d)
    BY <1>1, <1>2, <1>3, <1>4, <1>5 DEF Registrable, PrefixKept
  <1> QED BY <1>1, <1>6, DeclarationAdmitted

(* A checkpoint is neither batch nor declaration.                          *)
LEMMA WriteCheckpointAdmitted ==
    ASSUME StoreInv, RegistryInv, NEW c \in Clients, NEW w, NEW h, WriteCheckpoint(c, w, h)
    PROVE  RegistryInv'
  <1> DEFINE j == Job(<<CheckpointFile(w, h)>>, {}, {})
  <1>1. Start(c, j)
    BY DEF WriteCheckpoint
  <1>2. j.files = <<CheckpointFile(w, h)>>
    BY JobFields
  <1>3. Head(j.files).kind = "checkpoint"
    BY <1>2, Singles DEF CheckpointFile
  <1> HIDE DEF j
  <1>4. Admitted(j)
    BY <1>3 DEF Admitted
  <1> QED BY <1>1, <1>4, StartedAdmitted

(* A step publishes a file of some process, or leaves the disk alone.      *)
LEMMA StepKinds ==
    ASSUME StoreInv, RegistryInv, [Next]_vars
    PROVE  /\ RegistryInv'
           /\ UNCHANGED <<hist, declared, marked>> \/ \E c \in Clients : Publish(c)
  <1>1. ASSUME NEW c \in Clients, Mutate(c) PROVE RegistryInv'
    BY <1>1, RawCommitAdmitted, GuardedCommitAdmitted, WriteCheckpointAdmitted DEF Mutate
  <1>2. ASSUME NEW c \in Clients, Register(c) PROVE RegistryInv'
    BY <1>2, FirstActivationAdmitted, RepeatedActivationAdmitted, AddGuardProfileAdmitted DEF Register
  <1>3. ASSUME UNCHANGED vars PROVE RegistryInv'
    BY <1>3, RegistryWithoutPublish DEF vars, disk
  <1>4. ASSUME NEW c \in Clients, Mutate(c) \/ Register(c) \/ Answer(c) \/ Fail(c)
        PROVE  UNCHANGED <<hist, declared, marked>>
    <2>1. ASSUME NEW j, Start(c, j) PROVE UNCHANGED <<hist, declared, marked>>
      BY <2>1 DEF Start, disk
    <2>2. CASE Mutate(c)
      BY <2>1, <2>2 DEF Mutate, Commit, GuardedCommit, StartCommit, WriteCheckpoint
    <2>3. CASE Register(c)
      BY <2>1, <2>3 DEF Register, FirstActivation, RepeatedActivation, AddGuardProfile
    <2>4. CASE Answer(c) \/ Fail(c)
      BY <2>4 DEF Answer, Fail, disk
    <2> QED BY <1>4, <2>2, <2>3, <2>4
  <1>5. ASSUME UNCHANGED vars PROVE UNCHANGED <<hist, declared, marked>>
    BY <1>5 DEF vars
  <1> QED BY <1>1, <1>2, <1>3, <1>4, <1>5, PublishedAdmitted, EndedAdmitted DEF Next

(* The registry is sound on the disk and in every job, without any         *)
(* assumption on the constants but what their constructors check.          *)
THEOREM RegistryInvariant == Spec => []RegistryInv
  <1>1. Init => RegistryInv
    <2> SUFFICES ASSUME Init PROVE RegistryInv
      OBVIOUS
    <2>1. DOMAIN << >> = {}
      OBVIOUS
    <2> QED BY <2>1, IdleAdmitted DEF Init, RegistryInv, RegistryOf, Registered
  <1>2. StoreInv /\ RegistryInv /\ [Next]_vars => RegistryInv'
    BY StepKinds
  <1> QED BY <1>1, <1>2, StoreInvariant, PTL DEF Spec

(* Once a workflow is registered, it grows only while all markers of its   *)
(* root are stored, by a batch with the guards of a declared profile, at   *)
(* the heads they have in that step; no raw writer, stale wrapper or       *)
(* interrupted activation gets past the registry.                          *)
THEOREM RegistryNeverBypassed == Spec => GuardedOnceRegistered
  <1> DEFINE Guarded ==
        \A w \in Workflows :
          hist'[w] # hist[w] /\ Registered(w) =>
             LET b == Final(hist'[w])
             IN  /\ MarkersPresent(RootOf[w])
                 /\ OpenProfile(w, GuardsOf(b))
                 /\ GuardsMatch(hist, b)
  <1>1. StoreInv /\ RegistryInv /\ [Next]_vars => [Guarded]_vars
    <2> SUFFICES ASSUME StoreInv, RegistryInv, [Next]_vars PROVE Guarded
      OBVIOUS
    <2>1. ASSUME NEW c \in Clients, Publish(c), hist' # hist
          PROVE  \E q \in Batch : PublishBatch(BatchFile(q)) /\ Admissible(q)
      <3>1. PICK q \in Batch : /\ PublishBatch(BatchFile(q))
                               /\ work[c].files # << >> /\ Head(work[c].files) = BatchFile(q)
        BY <2>1, Renames DEF PublishDeclaration, PublishMarker
      <3>2. Admissible(q)
        BY <3>1 DEF RegistryInv, Admitted, BatchFile
      <3> QED BY <3>1, <3>2
    <2>2. ASSUME NEW q \in Batch, PublishBatch(BatchFile(q)), Admissible(q) PROVE Guarded
      <3>1. q.cmd.wf \in Workflows /\ hist' = [hist EXCEPT ![q.cmd.wf] = Append(@, q)]
        BY <2>2, CommandsAssumption DEF Batch, IsCommand, PublishBatch, BatchFile
      <3>2. /\ hist \in [Workflows -> Seq(Batch)]
            /\ \A w \in Workflows : hist'[w] # hist[w] => w = q.cmd.wf /\ hist'[w] = Append(hist[w], q)
        BY <3>1 DEF StoreInv, DiskInv
      <3>3. \A w \in Workflows : hist'[w] # hist[w] => w = q.cmd.wf /\ Final(hist'[w]) = q
        <4>1. \A w \in Workflows : Final(Append(hist[w], q)) = q
          BY <3>2, AppendFacts
        <4> QED BY <3>2, <4>1
      <3> QED BY <2>2, <3>3 DEF Admissible
    <2> QED BY <2>1, <2>2, StepKinds
  <1> QED BY <1>1, StoreInvariant, RegistryInvariant, PTL DEF Spec, GuardedOnceRegistered

----------------------------------------------------------------------------
(* The store implements WorkflowLedger.                                    *)

(* The record algebra of the ledger is that of the store.                  *)
LEMMA SameAlgebra ==
    /\ \A s : Ledger!Final(s) = Final(s)
    /\ \A s : Ledger!HeadOf(s) = HeadOf(s)
    /\ \A h, r : Ledger!StoredIn(h, r) = StoredIn(h, r)
    /\ \A b : Ledger!GuardsOf(b) = GuardsOf(b)
    /\ \A b, d : Ledger!Disjoint(b, d) <=> Disjoint(b, d)
    /\ \A h, b : Ledger!GuardsMatch(h, b) <=> GuardsMatch(h, b)
    /\ \A w, ps : Ledger!ValidProfiles(w, ps) <=> ValidProfiles(w, ps)
  <1>1. \A s : Ledger!Final(s) = Final(s)
    BY DEF Ledger!Final, Final
  <1>2. \A s : Ledger!HeadOf(s) = HeadOf(s)
    BY <1>1 DEF Ledger!HeadOf, HeadOf, Ledger!EndOf, EndOf, Ledger!Genesis, Genesis
  <1>3. \A h, r : Ledger!StoredIn(h, r) = StoredIn(h, r)
    BY DEF Ledger!StoredIn, StoredIn, Ledger!InRoot, InRoot
  <1>4. \A b : Ledger!GuardsOf(b) = GuardsOf(b)
    BY DEF Ledger!GuardsOf, GuardsOf, Ledger!NoGuard, NoGuard
  <1>5. \A b, d : Ledger!Disjoint(b, d) <=> Disjoint(b, d)
    BY DEF Ledger!Disjoint, Disjoint, Ledger!EventsOf, EventsOf, Ledger!IntentsOf, IntentsOf
  <1>6. \A h, b : Ledger!GuardsMatch(h, b) <=> GuardsMatch(h, b)
    BY <1>2, <1>4 DEF Ledger!GuardsMatch, GuardsMatch
  <1>7. \A w, ps : Ledger!ValidProfiles(w, ps) <=> ValidProfiles(w, ps)
    BY DEF Ledger!ValidProfiles, ValidProfiles
  <1> QED BY <1>1, <1>2, <1>3, <1>4, <1>5, <1>6, <1>7

(* The profiles a workflow shows are those of its current binding.         *)
LEMMA ShownProfiles ==
    ASSUME NEW w \in Workflows
    PROVE  /\ Registered(w) => RegisteredProfiles[w] = Current(w).profiles
           /\ ~Registered(w) => RegisteredProfiles[w] = << >>
           /\ DOMAIN RegisteredProfiles = Workflows
  BY DEF RegisteredProfiles

(* The rename of a batch is a commit of the ledger.                        *)
LEMMA BatchCommits ==
    ASSUME StoreInv, NEW q \in Batch, Appendable(q), Admissible(q), PublishBatch(BatchFile(q))
    PROVE  Ledger!LNext
  <1> DEFINE w == q.cmd.wf
  <1>1. w \in Workflows /\ hist' = [hist EXCEPT ![w] = Append(@, q)] /\ declared' = declared
    BY CommandsAssumption DEF Batch, IsCommand, PublishBatch, BatchFile
  <1>2. hist[w] \in Seq(Batch) /\ hist'[w] = Append(hist[w], q)
    BY <1>1 DEF StoreInv, DiskInv
  <1>3. Len(hist'[w]) > Len(hist[w]) /\ Final(hist'[w]) = q
    BY <1>2, AppendFacts
  <1>4. q.at = Ledger!HeadOf(hist[w])
    BY SameAlgebra DEF Appendable
  <1>5. \A d \in Ledger!StoredIn(hist, RootOf[w]) : Ledger!Disjoint(q, d)
    BY SameAlgebra DEF Appendable, StoredIn
  <1>6. Ledger!GuardsMatch(hist, q)
    BY SameAlgebra DEF Admissible
  <1>7. RegisteredProfiles' = RegisteredProfiles
    BY <1>1 DEF RegisteredProfiles, Registered, Current
  <1>8. RegisteredProfiles[w] # << >> =>
          \E i \in DOMAIN RegisteredProfiles[w] : RegisteredProfiles[w][i].flows = Ledger!GuardsOf(q)
    BY <1>1, ShownProfiles, SameAlgebra DEF Admissible, OpenProfile
  <1>9. Ledger!LCommit(q)
    BY <1>1, <1>4, <1>5, <1>6, <1>7, <1>8 DEF Ledger!LCommit
  <1>10. Ledger!Final(hist'[w]) = q
    BY <1>3, SameAlgebra
  <1> QED BY <1>1, <1>3, <1>9, <1>10 DEF Ledger!LNext

(* The rename of a declaration is a registration, of a workflow that had   *)
(* none or of one profile more.                                            *)
LEMMA DeclarationRegisters ==
    ASSUME StoreInv, RegistryInv, NEW b \in Binding, Registrable(b),
           PublishDeclaration(Declaration(b))
    PROVE  Ledger!LNext
  <1> DEFINE w == b.wf
             ps == RegisteredProfiles[w]
  <1>1. w \in Workflows /\ b.profiles \in Seq(Profiles) /\ hist' = hist
        /\ declared' = [declared EXCEPT ![w] = Append(@, b)]
    BY DEF Binding, PublishDeclaration, Declaration
  <1>2. declared[w] \in Seq(Binding) /\ declared'[w] = Append(declared[w], b)
        /\ \A v \in Workflows : v # w => declared'[v] = declared[v]
    BY <1>1 DEF StoreInv, DiskInv
  <1>3. declared'[w] # << >> /\ Final(declared'[w]) = b
    BY <1>2, AppendFacts
  <1>4. RegisteredProfiles' = [RegisteredProfiles EXCEPT ![w] = b.profiles]
    <2>1. RegisteredProfiles = [v \in Workflows |->
                                  IF declared[v] # << >> THEN Final(declared[v]).profiles ELSE << >>]
      BY DEF RegisteredProfiles, Registered, Current
    <2>2. RegisteredProfiles' = [v \in Workflows |->
                                  IF declared'[v] # << >> THEN Final(declared'[v]).profiles ELSE << >>]
      BY DEF RegisteredProfiles, Registered, Current
    <2> QED BY <1>1, <1>2, <1>3, <2>1, <2>2
  <1>5. RegisteredProfiles'[w] = b.profiles
    BY <1>1, <1>4, ShownProfiles
  <1>6. ValidProfiles(w, b.profiles) /\ b.profiles # << >>
    BY DEF Registrable, ValidProfiles
  <1>7. CASE ~Registered(w)
    <2>1. ps = << >> /\ Len(RegisteredProfiles'[w]) > Len(ps)
      BY <1>1, <1>5, <1>6, <1>7, ShownProfiles
    <2>2. Ledger!LRegister(w, RegisteredProfiles'[w])
      BY <1>1, <1>4, <1>5, <1>6, <2>1, SameAlgebra DEF Ledger!LRegister
    <2> QED BY <1>1, <2>1, <2>2 DEF Ledger!LNext
  <1>8. CASE Registered(w)
    <2>1. ps = Current(w).profiles /\ Current(w) \in Binding
      BY <1>1, <1>8, ShownProfiles, CurrentDeclared DEF StoreInv
    <2>2. PICK p \in Profiles : b.profiles = Append(ps, p)
      BY <1>8, <2>1 DEF Registrable
    <2>3. ps \in Seq(Profiles) /\ ps # << >>
      BY <1>1, <1>8, <2>1 DEF Binding, RegistryInv, RegistryOf, ValidProfiles
    <2>4. Len(RegisteredProfiles'[w]) > Len(ps) /\ Final(RegisteredProfiles'[w]) = p
      BY <1>5, <2>2, <2>3, AppendFacts
    <2>5. Ledger!LExtend(w, p)
      <3>1. RegisteredProfiles' = [RegisteredProfiles EXCEPT ![w] = Append(@, p)]
        BY <1>4, <2>2
      <3> QED BY <1>1, <1>6, <2>2, <2>3, <3>1, SameAlgebra DEF Ledger!LExtend
    <2> QED BY <1>1, <2>4, <2>5, SameAlgebra DEF Ledger!LNext
  <1> QED BY <1>7, <1>8

(* Every step of the store is one atomic step of the ledger, or changes    *)
(* nothing it shows: the store implements WorkflowLedger, for any          *)
(* workflows, commands, profiles, processes and failures.                  *)
THEOREM LedgerImplemented == Spec => LedgerSpec
  <1>1. Init => Ledger!LInit
    BY DEF Init, Ledger!LInit, RegisteredProfiles, Registered, Current
  <1>2. StoreInv /\ RegistryInv /\ [Next]_vars => [Ledger!LNext]_(Ledger!ledger)
    <2> SUFFICES ASSUME StoreInv, RegistryInv, [Next]_vars
                 PROVE  Ledger!LNext \/ UNCHANGED Ledger!ledger
      OBVIOUS
    <2>1. ASSUME UNCHANGED <<hist, declared>> PROVE UNCHANGED Ledger!ledger
      BY <2>1 DEF Ledger!ledger, RegisteredProfiles, Registered, Current
    <2>2. ASSUME NEW c \in Clients, Publish(c) PROVE Ledger!LNext \/ UNCHANGED Ledger!ledger
      <3>1. ASSUME NEW q \in Batch, Appendable(q), PublishBatch(BatchFile(q)),
                   work[c].files # << >>, Head(work[c].files) = BatchFile(q)
            PROVE  Ledger!LNext
        <4>1. Admissible(q)
          BY <3>1 DEF RegistryInv, Admitted, BatchFile
        <4> QED BY <3>1, <4>1, BatchCommits
      <3>2. ASSUME NEW b \in Binding, PublishDeclaration(Declaration(b)),
                   work[c].files # << >>, Head(work[c].files) = Declaration(b)
            PROVE  Ledger!LNext
        <4>1. Registrable(b)
          BY <3>2 DEF RegistryInv, Admitted, Declaration
        <4> QED BY <3>2, <4>1, DeclarationRegisters
      <3> QED BY <2>1, <2>2, <3>1, <3>2, Renames DEF PublishMarker
    <2> QED BY <2>1, <2>2, StepKinds
  <1> QED BY <1>1, <1>2, StoreInvariant, RegistryInvariant, PTL DEF Spec, LedgerSpec, Ledger!LSpec

----------------------------------------------------------------------------
(* Causes.  The one thing a load checks that a commit does not.            *)

(* q names events of its own or of the history of its workflow.            *)
CausesHeldIn(h, q) ==
    \A x \in Causes(q) :
       x \in EventsOf(q) \/ \E i \in DOMAIN h[q.cmd.wf] : x \in EventsOf(h[q.cmd.wf][i])

CausesInv ==
    /\ \A w \in Workflows : CausesLocal(hist[w])
    /\ \A c \in Clients :
          work[c].files # << >> /\ Head(work[c].files).kind = "batch"
             => CausesHeldIn(hist, Head(work[c].files).batch)

(* Causes stay local when a batch names its own or earlier events.         *)
LEMMA CausesAppend ==
    ASSUME NEW s \in Seq(Batch), CausesLocal(s), NEW q \in Batch,
           \A x \in Causes(q) : x \in EventsOf(q) \/ \E i \in DOMAIN s : x \in EventsOf(s[i])
    PROVE  CausesLocal(Append(s, q))
  <1> DEFINE u == Append(s, q)
  <1>1. /\ DOMAIN u = 1..(Len(s) + 1) /\ DOMAIN s = 1..Len(s) /\ Len(s) \in Nat
        /\ \A i \in 1..Len(s) : u[i] = s[i]
        /\ u[Len(s) + 1] = q
    BY AppendFacts
  <1> SUFFICES ASSUME NEW i \in DOMAIN u, NEW x \in Causes(u[i])
               PROVE  \E j \in 1..i : x \in EventsOf(u[j])
    BY DEF CausesLocal
  <1>2. CASE i \in 1..Len(s)
    <2>1. PICK j \in 1..i : x \in EventsOf(s[j])
      BY <1>1, <1>2 DEF CausesLocal
    <2> QED BY <1>1, <1>2, <2>1
  <1>3. CASE i = Len(s) + 1
    BY <1>1, <1>3
  <1> QED BY <1>1, <1>2, <1>3

(* An event that a new commit names as a cause, and that it finds in its   *)
(* root, is in its own batch or in the history of its own workflow.        *)
LEMMA CausesFound ==
    ASSUME LocalCauses, DiskInv, NEW q \in Batch, CausesKnown(hist, q)
    PROVE  CausesHeldIn(hist, q)
  <1>2. q.cmd \in Commands /\ q.cmd.wf \in Workflows
    BY CommandsAssumption DEF Batch, IsCommand
  <1>4. ASSUME NEW x \in Causes(q), x \notin EventsOf(q)
        PROVE  \E i \in DOMAIN hist[q.cmd.wf] : x \in EventsOf(hist[q.cmd.wf][i])
    <2>1. PICK b \in StoredIn(hist, RootOf[q.cmd.wf]) : x \in EventsOf(b)
      BY <1>4 DEF CausesKnown
    <2>2. PICK w \in InRoot(RootOf[q.cmd.wf]) : \E i \in DOMAIN hist[w] : b = hist[w][i]
      BY <2>1 DEF StoredIn
    <2>3. PICK i \in DOMAIN hist[w] : b = hist[w][i]
      BY <2>2
    <2>4. w \in Workflows /\ RootOf[w] = RootOf[q.cmd.wf]
      BY DEF InRoot
    <2>5. b \in Batch /\ b.cmd.wf = w /\ b.cmd \in Commands
      <3>1. hist[w] \in Seq(Batch) /\ WorkflowInv(w)
        BY <2>4 DEF DiskInv
      <3>2. b \in Batch
        BY <2>3, <3>1
      <3>3. b.cmd.wf = w
        BY <2>3, <3>1 DEF WorkflowInv
      <3> QED BY <3>2, <3>3 DEF Batch
    <2>6. CASE w = q.cmd.wf
      BY <2>1, <2>3, <2>6
    <2>7. CASE w # q.cmd.wf
      <3>1. PICK t \in q.cmd.intents : t.cause = x
        BY <1>4 DEF Causes
      <3>2. PICK k \in 1..Len(b.cmd.ids) : x = b.cmd.ids[k]
        BY <2>1 DEF EventsOf
      <3>3. \E j \in 1..Len(q.cmd.ids) : t.cause = q.cmd.ids[j]
        BY <1>2, <2>4, <2>5, <2>7, <3>1, <3>2 DEF LocalCauses
      <3> QED BY <1>4, <3>1, <3>3 DEF EventsOf
    <2> QED BY <2>6, <2>7
  <1> QED BY <1>4 DEF CausesHeldIn

(* A process that starts with a batch found its causes.                    *)
LEMMA StartedCauses ==
    ASSUME LocalCauses, StoreInv, CausesInv, NEW c \in Clients, Mutate(c) \/ Register(c)
    PROVE  CausesInv'
  <1>1. ASSUME NEW j, Start(c, j),
               j.files # << >> /\ Head(j.files).kind = "batch" => CausesHeldIn(hist, Head(j.files).batch)
        PROVE  CausesInv'
    <2>1. hist' = hist /\ \A d \in Clients : work'[d] = IF d = c THEN j ELSE work[d]
      BY <1>1 DEF Start, disk, StoreInv
    <2>2. hist' = hist
      BY <2>1
    <2>3. \A w \in Workflows : CausesLocal(hist'[w])
      BY <2>1 DEF CausesInv
    <2>4. ASSUME NEW d \in Clients, work'[d].files # << >>, Head(work'[d].files).kind = "batch"
          PROVE  CausesHeldIn(hist', Head(work'[d].files).batch)
      <3>1. CASE d = c
        <4>1. work'[d] = j
          BY <2>1, <3>1
        <4> QED BY <1>1, <2>2, <2>4, <4>1
      <3>2. CASE d # c
        <4>1. work'[d] = work[d]
          BY <2>1, <3>2
        <4> QED BY <2>2, <2>4, <4>1 DEF CausesInv
      <3> QED BY <3>1, <3>2
    <2> QED BY <2>3, <2>4 DEF CausesInv
  <1>2. ASSUME NEW q \in Batch, NEW outcome, StartCommit(c, outcome, q),
               outcome = "append" => CausesKnown(hist, q)
        PROVE  CausesInv'
    <2>1. CASE outcome = "append" /\ Start(c, Job(<<BatchFile(q)>>, {q}, {}))
      <3>1. CausesHeldIn(hist, q)
        BY <1>2, <2>1, CausesFound DEF StoreInv
      <3>2. Job(<<BatchFile(q)>>, {q}, {}).files = <<BatchFile(q)>>
        BY JobFields
      <3>3. Head(<<BatchFile(q)>>).batch = q
        BY Singles DEF BatchFile
      <3> QED BY <1>1, <2>1, <3>1, <3>2, <3>3
    <2>2. CASE \E S : Start(c, Job(<< >>, S, {}))
      <3>1. PICK S : Start(c, Job(<< >>, S, {}))
        BY <2>2
      <3> QED BY <1>1, <3>1, JobFields
    <2> QED BY <1>2, <2>1, <2>2 DEF StartCommit
  <1>3. ASSUME NEW files, NEW S, files = << >> \/ Head(files).kind # "batch", Start(c, Job(files, {}, S))
        PROVE  CausesInv'
    BY <1>1, <1>3, JobFields
  <1>4. ASSUME NEW cmd \in Commands, Commit(c, cmd) PROVE CausesInv'
    <2> DEFINE Q(at) == [cmd |-> cmd, at |-> at, heads |-> Unguarded]
    <2>1. PICK at \in PastHeads(cmd.wf) : StartCommit(c, Prepare(hist, Q(at)), Q(at))
      BY <1>4 DEF Commit
    <2>2. Q(at) \in Batch
      <3>1. at \in WorkflowHead /\ Unguarded \in GuardHeads
        BY <2>1, RequestTypes, CommandsAssumption DEF StoreInv, IsCommand
      <3> QED BY <3>1 DEF Batch
    <2> HIDE DEF Q
    <2>3. Prepare(hist, Q(at)) = "append" => CausesKnown(hist, Q(at))
      BY DEF Prepare, NewCommit
    <2> QED BY <1>2, <2>1, <2>2, <2>3
  <1>5. ASSUME NEW cmd \in Commands, NEW G \in SUBSET Workflows, GuardedCommit(c, cmd, G)
        PROVE  CausesInv'
    <2> DEFINE Q(at, heads) == [cmd |-> cmd, at |-> at, heads |-> heads]
    <2>1. PICK at \in PastHeads(cmd.wf), heads \in PastGuards(G) :
            StartCommit(c, PrepareGuarded(hist, Q(at, heads)), Q(at, heads))
      BY <1>5 DEF GuardedCommit
    <2>2. Q(at, heads) \in Batch
      <3>1. at \in WorkflowHead /\ heads \in GuardHeads
        BY <2>1, RequestTypes, CommandsAssumption DEF StoreInv, IsCommand
      <3> QED BY <3>1 DEF Batch
    <2> HIDE DEF Q
    <2>3. PrepareGuarded(hist, Q(at, heads)) = "append" => CausesKnown(hist, Q(at, heads))
      BY DEF PrepareGuarded, Prepare, NewCommit
    <2> QED BY <1>2, <2>1, <2>2, <2>3
  <1>6. ASSUME NEW w, NEW h, WriteCheckpoint(c, w, h) PROVE CausesInv'
    <2>1. Head(<<CheckpointFile(w, h)>>).kind # "batch"
      BY Singles DEF CheckpointFile
    <2> QED BY <1>3, <1>6, <2>1 DEF WriteCheckpoint
  <1>7. ASSUME NEW b, Start(c, Job(<<Declaration(b), Marker(b)>>, {}, {b})) PROVE CausesInv'
    <2>1. Head(<<Declaration(b), Marker(b)>>).kind # "batch"
      BY Singles DEF Declaration
    <2> QED BY <1>3, <1>7, <2>1
  <1>8. ASSUME NEW w, NEW ps, NEW exact, RepeatedActivation(c, w, ps, exact) PROVE CausesInv'
    <2> DEFINE b == Current(w)
               files == IF b.gen \in marked[w] THEN << >> ELSE <<Marker(b)>>
    <2>1. Start(c, Job(files, {}, {b}))
      BY <1>8 DEF RepeatedActivation
    <2>2. files = << >> \/ Head(files).kind # "batch"
      BY Singles DEF Marker
    <2> HIDE DEF files
    <2> QED BY <1>3, <2>1, <2>2
  <1> QED BY <1>4, <1>5, <1>6, <1>7, <1>8 DEF Mutate, Register, FirstActivation, AddGuardProfile

(* Every step keeps the causes local.                                      *)
LEMMA CausesKept ==
    ASSUME LocalCauses, StoreInv, CausesInv, [Next]_vars PROVE CausesInv'
  <1>1. Idle.files = << >>
    BY DEF Idle, Job
  <1>2. ASSUME NEW c \in Clients, Answer(c) \/ Fail(c) PROVE CausesInv'
    <2>1. hist' = hist /\ \A d \in Clients : work'[d] = IF d = c THEN Idle ELSE work[d]
      BY <1>2 DEF Answer, Fail, disk, StoreInv
    <2> QED BY <1>1, <2>1 DEF CausesInv, CausesHeldIn
  <1>3. CASE UNCHANGED vars
    BY <1>3 DEF vars, CausesInv, CausesHeldIn
  <1>4. ASSUME NEW c \in Clients, Publish(c) PROVE CausesInv'
    <2>1. \A d \in Clients : d # c => work'[d] = Idle
      BY <1>4, Renames
    <2>2. ASSUME NEW q \in Batch, PublishBatch(BatchFile(q)), work'[c].files = << >>,
                 work[c].files # << >>, Head(work[c].files) = BatchFile(q)
          PROVE  CausesInv'
      <3>1. q.cmd.wf \in Workflows /\ hist' = [hist EXCEPT ![q.cmd.wf] = Append(@, q)]
        BY <2>2, CommandsAssumption DEF Batch, IsCommand, PublishBatch, BatchFile
      <3>2. CausesHeldIn(hist, q)
        BY <2>2 DEF CausesInv, BatchFile
      <3>3. ASSUME NEW w \in Workflows PROVE CausesLocal(hist'[w])
        <4>1. hist[w] \in Seq(Batch) /\ CausesLocal(hist[w])
          BY DEF StoreInv, DiskInv, CausesInv
        <4>2. CASE w = q.cmd.wf
          <5>1. hist'[w] = Append(hist[w], q)
            BY <3>1, <4>2 DEF StoreInv, DiskInv
          <5>2. \A x \in Causes(q) :
                   x \in EventsOf(q) \/ \E i \in DOMAIN hist[w] : x \in EventsOf(hist[w][i])
            BY <3>2, <4>2 DEF CausesHeldIn
          <5> QED BY <4>1, <5>1, <5>2, CausesAppend
        <4>3. CASE w # q.cmd.wf
          <5>1. hist'[w] = hist[w]
            BY <3>1, <4>3 DEF StoreInv, DiskInv
          <5> QED BY <4>1, <5>1
        <4> QED BY <4>2, <4>3
      <3> QED BY <1>1, <2>1, <2>2, <3>3 DEF CausesInv
    <2>3. ASSUME hist' = hist, work'[c].files = << >> \/ Head(work'[c].files).kind = "marker"
          PROVE  CausesInv'
      BY <1>1, <2>1, <2>3 DEF CausesInv
    <2>4. \A b : Head(<<Marker(b)>>).kind = "marker"
      BY Singles DEF Marker
    <2> QED BY <1>4, <2>2, <2>3, <2>4, Renames DEF PublishDeclaration, PublishMarker
  <1> QED BY <1>2, <1>3, <1>4, StartedCauses DEF Next

(* Causes stay local, when intents name events of their own workflow.      *)
LEMMA CausesInvariant == ASSUME LocalCauses PROVE Spec => []CausesInv
  <1>1. Init => CausesInv
    <2>1. DOMAIN << >> = {} /\ Idle.files = << >>
      BY DEF Idle, Job
    <2> QED BY <2>1 DEF Init, CausesInv, CausesLocal
  <1>2. StoreInv /\ CausesInv /\ [Next]_vars => CausesInv'
    BY CausesKept
  <1> QED BY <1>1, <1>2, StoreInvariant, PTL DEF Spec

(* No sequence of operations and failures makes a root unreadable, when    *)
(* intents name events of their own workflow.                              *)
THEOREM AlwaysReadable == ASSUME LocalCauses PROVE Spec => []Readable
  <1>1. StoreInv /\ CausesInv => Readable
    BY DEF StoreInv, DiskInv, WorkflowInv, CausesInv, Readable, Loads, ValidBatches, InRoot
  <1> QED BY <1>1, StoreInvariant, CausesInvariant, PTL

(* Whatever was interrupted, the host can finish it: at most the newest    *)
(* binding lacks its marker, and repeating the activation with the         *)
(* profiles that were declared is admitted and publishes it.               *)
THEOREM RegistryAlwaysRepairable == ASSUME LocalCauses PROVE Spec => []RegistryRepairable
  <1>1. Readable /\ StoreInv /\ RegistryInv => RegistryRepairable
    <2> SUFFICES ASSUME Readable, StoreInv, RegistryInv, NEW w \in Workflows, Registered(w)
                 PROVE  /\ \A i \in DOMAIN declared[w] : i < Len(declared[w]) => i \in marked[w]
                        /\ RepeatAllowed(w, Current(w).profiles, TRUE)
      BY DEF RegistryRepairable
    <2> DEFINE ps == Current(w).profiles
    <2>1. RegistryOf(w)
      BY DEF RegistryInv
    <2>2. ps \in Seq(Profiles)
      BY CurrentDeclared DEF StoreInv, Binding
    <2>3. \A i \in DOMAIN ps : ps[i] \in Profiles
      BY <2>2
    <2>4. \A i \in DOMAIN ps : \A g \in ps[i].flows : Loads(RootOf[g])
      BY <2>3, ProfilesAssumption DEF IsProfile, Readable
    <2>5. RootsLoad(w, ps)
      BY <2>4 DEF RootsLoad, Readable
    <2> QED BY <2>1, <2>5 DEF RegistryOf, RepeatAllowed, ConfigurationMatches
  <1> QED BY <1>1, StoreInvariant, RegistryInvariant, AlwaysReadable, PTL
=============================================================================
