------------------------- MODULE ConformanceProofs -------------------------
(***************************************************************************)
(* What the conformance and qualification scripts keep for any files,      *)
(* packages, rules and programs: the steps of ConformanceScan,             *)
(* PackageGraph and SoakRun preserve the invariants below.                 *)
(* OperationsProofs lifts them to the specification.                       *)
(***************************************************************************)
EXTENDS ConformanceScan, PackageGraph, SoakRun, SequenceTheorems, TLAPS

----------------------------------------------------------------------------
(* The scan.                                                               *)

ScanInv == DriftReported /\ LayersContained

(* Each surface has the rank of its layer.                                 *)
LEMMA LayerRank ==
  ASSUME NEW n \in 1..6
  PROVE  Rank(Layers[n]) = n
<1>1. n = 1 \/ n = 2 \/ n = 3 \/ n = 4 \/ n = 5 \/ n = 6
  OBVIOUS
<1>2. Layers[n] # "none" /\ Layers[n] # "runtime"
  BY <1>1 DEF Layers
<1>3. ASSUME NEW k \in 1..6, Layers[k] = Layers[n] PROVE k = n
  <2>1. k = 1 \/ k = 2 \/ k = 3 \/ k = 4 \/ k = 5 \/ k = 6
    OBVIOUS
  <2> QED BY <2>1, <1>1, <1>3 DEF Layers
<1>4. Rank(Layers[n]) = CHOOSE k \in 1..6 : Layers[k] = Layers[n]
  BY <1>2 DEF Rank
<1> QED BY <1>3, <1>4

(* ... by name.                                                            *)
LEMMA LayerRanks ==
  /\ Rank("flow3") = 1 /\ Rank("flow4a") = 2 /\ Rank("flow5a") = 3
  /\ Rank("flow6a") = 4 /\ Rank("v2") = 5 /\ Rank("flow7a") = 6
<1>1. /\ Layers[1] = "flow3" /\ Layers[2] = "flow4a" /\ Layers[3] = "flow5a"
      /\ Layers[4] = "flow6a" /\ Layers[5] = "v2" /\ Layers[6] = "flow7a"
  BY DEF Layers
<1> QED BY <1>1, LayerRank

(* A surface that may mention the symbols of a layer is not below it.      *)
LEMMA MentionsReachDown ==
  ASSUME NEW k \in 1..6, NEW surface \in MayMention[Layers[k]]
  PROVE  Rank(surface) \in Nat /\ k <= Rank(surface)
<1>1. surface \in {"flow3", "flow4a", "flow5a", "flow6a", "v2", "flow7a"}
  BY DEF MayMention, Layers, Upper
<1>2. CASE k = 1
  BY <1>1, <1>2, LayerRanks
<1>3. CASE k = 2
  BY <1>3, LayerRanks DEF MayMention, Layers, Upper
<1>4. CASE k = 3
  BY <1>4, LayerRanks DEF MayMention, Layers, Upper
<1>5. CASE k = 4
  BY <1>5, LayerRanks DEF MayMention, Layers
<1>6. CASE k = 5
  BY <1>6, LayerRanks DEF MayMention, Layers
<1>7. CASE k = 6
  BY <1>7, LayerRanks DEF MayMention, Layers
<1> QED BY <1>2, <1>3, <1>4, <1>5, <1>6, <1>7

(* What a scan without findings has seen.                                  *)
LEMMA NoScopeFinding ==
  ASSUME NEW f \in DOMAIN tree \ (Fixtures \cup TermAllowlist), ContentFindings(f) = {},
         Form[f] \in {"source", "interface"}, NEW k \in 1..6,
         NEW s \in PublicSymbols(Layers[k]), s \in tree[f].declares \cup tree[f].mentions
  PROVE  Exempt(f, Layers[k], s)
<1>1. f \in ProductionSources \/ Form[f] = "interface"
  BY DEF ProductionSources
<1>2. ContentFindings(f) = ScopeFindings(f, tree[f]) \cup TextFindings(f, tree[f])
  BY <1>1 DEF ContentFindings
<1>3. ScopeFindings(f, tree[f]) = {}
  BY <1>2
<1>4. Layers[k] \in DOMAIN ScopeRule
  BY DEF ScopeRule, Layers
<1>5. SUFFICES ASSUME ~Exempt(f, Layers[k], s) PROVE FALSE
  OBVIOUS
<1>6. Layers[k] \in {l \in DOMAIN ScopeRule :
                       \E x \in PublicSymbols(l) \cap (tree[f].declares \cup tree[f].mentions) : ~Exempt(f, l, x)}
  BY <1>4, <1>5
<1>7. [path |-> f, rule |-> ScopeRule[Layers[k]]] \in ScopeFindings(f, tree[f])
  BY <1>6 DEF ScopeFindings
<1> QED BY <1>3, <1>7

(* A scan without findings means the two properties, for what is on disk.  *)
LEMMA CleanScan ==
  ASSUME Scan, scan'.findings = {}
  PROVE  DriftReported' /\ LayersContained'
<1>1. /\ HashFindings = {} /\ UnregisteredFindings = {}
      /\ \A f \in DOMAIN tree \ (Fixtures \cup TermAllowlist) : ContentFindings(f) = {}
  BY DEF Scan
<1>2. tree' = tree /\ rules' = rules
  BY DEF Scan
<1>3. \A f \in DOMAIN rules.files : f \in DOMAIN tree /\ tree[f] = rules.files[f]
  BY <1>1 DEF HashFindings
<1>4. rules.inventory = Inventory
  BY <1>1 DEF HashFindings
<1>5. \A f \in DOMAIN tree : Form[f] \in {"source", "native"} /\ f \notin Fixtures => f \in DOMAIN rules.files
  <2>1. \A f \in ProductionSources \ DOMAIN rules.files :
            [path |-> f, rule |-> "SRC002"] \in UnregisteredFindings
    BY DEF UnregisteredFindings
  <2>2. \A f \in NativeSources : f \notin DOMAIN rules.files =>
            [path |-> f, rule |-> "SRC005"] \in UnregisteredFindings
    BY DEF UnregisteredFindings
  <2>3. ProductionSources \subseteq DOMAIN rules.files /\ NativeSources \subseteq DOMAIN rules.files
    BY <1>1, <2>1, <2>2
  <2> QED BY <2>3 DEF ProductionSources, NativeSources
<1>6. DriftReported'
  BY <1>2, <1>3, <1>4, <1>5 DEF DriftReported, Inventory
<1>7. ASSUME NEW f \in DOMAIN tree \ (Fixtures \cup TermAllowlist), NEW k \in 1..6,
             NEW s \in DeclaredIn(Layers[k]), k = 5 => s \notin LowerSymbols,
             Form[f] \in {"source", "interface"}, s \in tree[f].declares \cup tree[f].mentions
      PROVE  \/ \E j \in 1..Rank(SurfaceOf(f)) : s \in DeclaredIn(Layers[j])
             \/ s \in SharedSymbols /\ SurfaceOf(f) = "flow6a"
  <2>1. s \in PublicSymbols(Layers[k])
    BY <1>7 DEF PublicSymbols, Layers
  <2>2. Exempt(f, Layers[k], s)
    BY <2>1, <1>1, <1>7, NoScopeFinding
  <2>3. CASE SurfaceOf(f) \in MayMention[Layers[k]]
    <3>1. Rank(SurfaceOf(f)) \in Nat /\ k <= Rank(SurfaceOf(f))
      BY <2>3, MentionsReachDown
    <3>2. k \in 1..Rank(SurfaceOf(f))
      BY <3>1
    <3> QED BY <3>2
  <2> QED BY <2>2, <2>3 DEF Exempt
<1>8. ASSUME NEW f \in DOMAIN tree \ (Fixtures \cup TermAllowlist),
             NEW s \in UNION {DeclaredIn(Layers[k]) : k \in 1..6},
             Form[f] \in {"source", "interface"}, s \in tree[f].declares \cup tree[f].mentions
      PROVE  \/ \E j \in 1..Rank(SurfaceOf(f)) : s \in DeclaredIn(Layers[j])
             \/ s \in SharedSymbols /\ SurfaceOf(f) = "flow6a"
  <2>1. PICK k \in 1..6 : s \in DeclaredIn(Layers[k])
    OBVIOUS
  <2>2. CASE s \in LowerSymbols
    <3>1. PICK j \in 1..4 : s \in DeclaredIn(Layers[j])
      BY <2>2 DEF LowerSymbols
    <3>2. j \in 1..6 /\ j # 5
      OBVIOUS
    <3> QED BY <3>1, <3>2, <1>7, <1>8
  <2>3. CASE s \notin LowerSymbols
    BY <2>1, <2>3, <1>7, <1>8
  <2> QED BY <2>2, <2>3
<1>9. \A l : DeclaredIn(l)' = DeclaredIn(l)
  BY <1>2 DEF DeclaredIn
<1>10. \A f : SurfaceOf(f)' = SurfaceOf(f)
  BY <1>2 DEF SurfaceOf
<1>11. LayersContained'
  BY <1>2, <1>8, <1>9, <1>10 DEF LayersContained
<1> QED BY <1>6, <1>11

(* Nothing has been scanned at first.                                      *)
LEMMA ScanStart ==
  ASSUME ScanInit
  PROVE  ScanInv
BY DEF ScanInit, ScanInv, DriftReported, LayersContained, Clean, NotScanned

(* Every change of the repository and every scan keeps the invariant.      *)
LEMMA ScanKept ==
  ASSUME ScanInv, Conformance \/ UNCHANGED scanVars
  PROVE  ScanInv'
<1>1. CASE Commit
  <2>1. ~scan'.done
    BY <1>1 DEF Commit, NotScanned
  <2> QED BY <2>1 DEF ScanInv, DriftReported, LayersContained, Clean
<1>2. CASE Scan
  <2>1. CASE scan'.findings = {}
    BY <2>1, <1>2, CleanScan DEF ScanInv
  <2>2. CASE scan'.findings # {}
    BY <2>2 DEF ScanInv, DriftReported, LayersContained, Clean
  <2> QED BY <2>1, <2>2
<1>3. CASE UNCHANGED scanVars
  <2>1. tree' = tree /\ rules' = rules /\ scan' = scan
    BY <1>3 DEF scanVars
  <2>2. \A l : DeclaredIn(l)' = DeclaredIn(l)
    BY <2>1 DEF DeclaredIn
  <2>3. \A f : SurfaceOf(f)' = SurfaceOf(f)
    BY <2>1 DEF SurfaceOf
  <2>4. DriftReported'
    BY <2>1 DEF ScanInv, DriftReported, Clean
  <2>5. LayersContained'
    BY <2>1, <2>2, <2>3 DEF ScanInv, LayersContained, Clean
  <2> QED BY <2>4, <2>5 DEF ScanInv
<1> QED BY <1>1, <1>2, <1>3 DEF Conformance

(* Files that exist have a content of the three parts.                     *)
ScanTypes ==
    /\ DOMAIN tree \subseteq Files /\ {"files"} \subseteq DOMAIN rules /\ DOMAIN rules.files \subseteq Files
    /\ commits \in 0..MaxCommits
    /\ \A f \in DOMAIN tree : DOMAIN tree[f] = {"declares", "mentions", "text"}
    /\ scan.done \in BOOLEAN

LEMMA ScanTypesStart ==
  ASSUME ScanInit PROVE ScanTypes
<1>1. PICK R \in {Files} \cup {Files \ {f} : f \in Files} :
         rules = [files |-> [f \in R |-> tree[f]],
                  inventory |-> [f \in {g \in R : Section[g] = "flow7a"} |-> tree[f]]]
  BY DEF ScanInit
<1>2. R \subseteq Files
  OBVIOUS
<1>3. {"files"} \subseteq DOMAIN rules /\ DOMAIN rules.files = R
  BY <1>1
<1>4. DOMAIN tree = Files /\ \A f \in Files : DOMAIN tree[f] = {"declares", "mentions", "text"}
  BY ScanAssumption DEF ScanInit
<1>5. commits \in 0..MaxCommits /\ scan.done \in BOOLEAN
  BY ScanAssumption DEF ScanInit, NotScanned
<1> QED BY <1>2, <1>3, <1>4, <1>5 DEF ScanTypes

LEMMA ScanTypesKept ==
  ASSUME ScanTypes, Conformance \/ UNCHANGED scanVars
  PROVE  ScanTypes'
<1>1. CASE Scan
  BY <1>1 DEF Scan, ScanTypes
<1>2. CASE UNCHANGED scanVars
  BY <1>2 DEF scanVars, ScanTypes
<1>3. CASE Commit
  <2>1. commits' \in 0..MaxCommits /\ scan'.done \in BOOLEAN
    BY <1>3, ScanAssumption DEF Commit, ScanTypes, NotScanned
  <2>2. ASSUME NEW f \in Files, Write(f) PROVE ScanTypes'
    <3>1. PICK c \in ContentsOf(f) :
             tree' = [g \in DOMAIN tree \cup {f} |-> IF g = f THEN c ELSE tree[g]] /\ UNCHANGED rules
      BY <2>2 DEF Write
    <3>2. DOMAIN c = {"declares", "mentions", "text"}
      <4>1. PICK t \in Trees : c = t[f]
        BY <3>1 DEF ContentsOf
      <4> QED BY <4>1, ScanAssumption
    <3>3. /\ DOMAIN tree' = DOMAIN tree \cup {f} /\ tree'[f] = c
          /\ \A g \in DOMAIN tree : g # f => tree'[g] = tree[g]
      BY <3>1
    <3>4. \A g \in DOMAIN tree' : DOMAIN tree'[g] = {"declares", "mentions", "text"}
      <4>1. ASSUME NEW g \in DOMAIN tree' PROVE DOMAIN tree'[g] = {"declares", "mentions", "text"}
        <5>1. CASE g = f
          BY <3>2, <3>3, <5>1
        <5>2. CASE g # f
          BY <3>3, <5>2 DEF ScanTypes
        <5> QED BY <5>1, <5>2
      <4> QED BY <4>1
    <3>5. DOMAIN tree' \subseteq Files /\ rules' = rules
      BY <3>1, <3>3 DEF ScanTypes
    <3> QED BY <2>1, <3>4, <3>5 DEF ScanTypes
  <2>3. ASSUME NEW f \in Files, Delete(f) PROVE ScanTypes'
    BY <2>1, <2>3 DEF Delete, ScanTypes
  <2>4. ASSUME NEW f \in Files, Register(f) PROVE ScanTypes'
    BY <2>1, <2>4 DEF Register, ScanTypes
  <2>5. CASE rules' = [rules EXCEPT !.inventory = Inventory] /\ UNCHANGED tree
    BY <2>1, <2>5 DEF ScanTypes
  <2> QED BY <1>3, <2>2, <2>3, <2>4, <2>5 DEF Commit
<1> QED BY <1>1, <1>2, <1>3 DEF Conformance

LEMMA ScanTyped ==
  ASSUME ScanTypes PROVE ScanTypeOK
BY DEF ScanTypes, ScanTypeOK

----------------------------------------------------------------------------
(* The walk over the imports.                                              *)

Walks(r, g) ==
    [at : {"search"}, roots : SUBSET Discovered(r), stack : Seq(Discovered(r)), done : SUBSET Discovered(r),
     left : [Discovered(r) -> SUBSET DOMAIN g.imports], cycle : {<<>>}]

(* The stack is a path without repetition; what is done leads only to what *)
(* is done, and holds no cycle; an import that is no longer to be visited  *)
(* is done, and so is a root that was taken.                               *)
SearchInv(r, g, w) ==
    /\ w \in Walks(r, g)
    /\ \A j, k \in 1..Len(w.stack) : w.stack[j] = w.stack[k] => j = k
    /\ \A k \in 1..Len(w.stack) : w.stack[k] \notin w.done
    /\ \A k \in 1..(Len(w.stack) - 1) : w.stack[k + 1] \in Local(r, g, w.stack[k])
    /\ \A p \in w.done : Local(r, g, p) \subseteq w.done
    /\ \A p \in Discovered(r) : w.left[p] \subseteq Local(r, g, p) /\ Local(r, g, p) \ w.left[p] \subseteq w.done
    /\ Discovered(r) \ w.roots \subseteq w.done
    /\ \A stuck \in (SUBSET w.done) \ {{}} : \E p \in stuck : Local(r, g, p) \cap stuck = {}

CycleFound(r, c) ==
    /\ Len(c) > 1 /\ c[1] = c[Len(c)]
    /\ \A k \in 1..(Len(c) - 1) : c[k + 1] \in r.imports[c[k]]

GraphInv ==
    /\ DOMAIN graph.imports \subseteq InTree
    /\ walk.at = "search" => SearchInv(repo, graph, walk)
    /\ walk.at = "found" => CycleFound(repo, walk.cycle)
    /\ walk.at # "rest" => verdict = "none"
    /\ GraphVerdict

(* A step of the search that stays in it.                                  *)
LEMMA StillSearching ==
  ASSUME GraphInv, repo' = repo, graph' = graph, verdict' = "none",
         walk'.at = "search", SearchInv(repo, graph, walk')
  PROVE  GraphInv'
<1>1. \A p \in walk'.done : Local(repo, graph, p) \subseteq walk'.done
  BY DEF SearchInv
<1>2. GraphVerdict'
  BY <1>1 DEF GraphVerdict, Local, IsConfigured
<1>3. SearchInv(repo', graph', walk')
  OBVIOUS
<1> QED BY <1>2, <1>3 DEF GraphInv

(* A package that is neither done nor on the stack is entered.             *)
LEMMA PushKeeps ==
  ASSUME NEW r, NEW g, NEW w, SearchInv(r, g, w),
         NEW p \in Discovered(r), p \notin w.done,
         \A k \in 1..Len(w.stack) : w.stack[k] # p,
         w.stack # <<>> => p \in Local(r, g, w.stack[Len(w.stack)])
  PROVE  SearchInv(r, g, [w EXCEPT !.stack = Append(@, p)])
<1> DEFINE v == [w EXCEPT !.stack = Append(@, p)]
<1>1. w \in Walks(r, g) /\ w.stack \in Seq(Discovered(r))
  BY DEF SearchInv, Walks
<1>2. /\ v.stack = Append(w.stack, p) /\ v.roots = w.roots /\ v.done = w.done
      /\ v.left = w.left /\ v \in Walks(r, g)
  <2> DEFINE longer == Append(w.stack, p)
  <2>1. longer \in Seq(Discovered(r)) /\ v = [w EXCEPT !.stack = longer]
    BY <1>1
  <2> HIDE DEF longer, v
  <2>2. v.stack = longer /\ v.roots = w.roots /\ v.done = w.done /\ v.left = w.left /\ v \in Walks(r, g)
    BY <2>1, <1>1 DEF Walks
  <2> QED BY <2>2 DEF longer
<1> HIDE DEF v
<1> DEFINE n == Len(w.stack)
<1>3. /\ n \in Nat /\ Len(v.stack) = n + 1 /\ v.stack[n + 1] = p
      /\ \A k \in 1..n : v.stack[k] = w.stack[k]
  BY <1>1, <1>2
<1>4. w.stack # <<>> => n > 0
  BY <1>1
<1>5. \A j, k \in 1..Len(v.stack) : v.stack[j] = v.stack[k] => j = k
  <2>1. \A j, k \in 1..n : w.stack[j] = w.stack[k] => j = k
    BY DEF SearchInv
  <2>2. \A k \in 1..(n + 1) : k \in 1..n \/ k = n + 1
    BY <1>3
  <2> QED BY <1>3, <2>1, <2>2
<1>6. \A k \in 1..Len(v.stack) : v.stack[k] \notin v.done
  <2>1. \A k \in 1..(n + 1) : k \in 1..n \/ k = n + 1
    BY <1>3
  <2> QED BY <2>1, <1>2, <1>3 DEF SearchInv
<1>7. ASSUME NEW k \in 1..(Len(v.stack) - 1)
      PROVE  v.stack[k + 1] \in Local(r, g, v.stack[k])
  <2>1. k \in 1..n
    BY <1>3
  <2>2. CASE k = n
    <3>1. n > 0 => w.stack # <<>>
      BY <1>1
    <3> QED BY <2>1, <2>2, <3>1, <1>3
  <2>3. CASE k # n
    <3>1. k \in 1..(n - 1) /\ k + 1 \in 1..n
      BY <2>1, <2>3, <1>3
    <3> QED BY <3>1, <2>1, <1>3 DEF SearchInv
  <2> QED BY <2>2, <2>3
<1>8. SearchInv(r, g, v)
  BY <1>2, <1>5, <1>6, <1>7 DEF SearchInv
<1> QED BY <1>8 DEF v

(* An import of the package on top that is on the stack closes a cycle.    *)
LEMMA CycleCloses ==
  ASSUME NEW r, NEW g, NEW w, SearchInv(r, g, w), w.stack # <<>>,
         NEW p \in Local(r, g, w.stack[Len(w.stack)]),
         NEW k \in 1..Len(w.stack), w.stack[k] = p
  PROVE  CycleFound(r, SubSeq(w.stack, k, Len(w.stack)) \o <<p>>)
<1> DEFINE n == Len(w.stack) path == SubSeq(w.stack, k, n) c == path \o <<p>>
<1>1. w.stack \in Seq(Discovered(r)) /\ n \in Nat /\ n > 0 /\ k \in 1..n
  BY DEF SearchInv, Walks
<1>2. /\ path \in Seq(Discovered(r)) /\ Len(path) = n - k + 1
      /\ \A j \in 1..(n - k + 1) : path[j] = w.stack[k + j - 1]
  <2>1. \A i \in k..n : w.stack[i] \in Discovered(r)
    BY <1>1
  <2>2. n \in Int /\ k \in Int /\ k <= n
    BY <1>1
  <2> HIDE DEF n
  <2>3. path \in Seq(Discovered(r))
    BY <2>1, <2>2, SubSeqProperties
  <2>4. Len(path) = n - k + 1
    BY <2>2
  <2>5. \A j \in 1..(n - k + 1) : path[j] = w.stack[k + j - 1]
    BY <2>2
  <2> QED BY <2>3, <2>4, <2>5
<1> HIDE DEF path
<1>3. p \in Discovered(r)
  BY <1>1
<1>4. /\ Len(c) = n - k + 2 /\ c[n - k + 2] = p
      /\ \A j \in 1..(n - k + 1) : c[j] = w.stack[k + j - 1]
  <2> DEFINE m == n - k + 1
  <2>1. m \in Nat /\ Len(path) = m
    BY <1>1, <1>2
  <2>2. n - k + 2 = m + 1
    BY <1>1
  <2> HIDE DEF m
  <2>3. Len(c) = m + 1 /\ c[m + 1] = p /\ \A j \in 1..m : c[j] = path[j]
    <3>1. path \in Seq(Discovered(r)) /\ <<p>> \in Seq(Discovered(r)) /\ Len(<<p>>) = 1 /\ <<p>>[1] = p
      BY <1>2, <1>3
    <3>2. Len(c) = m + 1 /\ \A j \in 1..(m + 1) : c[j] = IF j <= m THEN path[j] ELSE <<p>>[j - m]
      BY <3>1, <2>1, ConcatProperties
    <3>3. (m + 1) - m = 1 /\ ~(m + 1 <= m) /\ m + 1 \in 1..(m + 1) /\ \A j \in 1..m : j \in 1..(m + 1) /\ j <= m
      BY <2>1
    <3> HIDE DEF c
    <3> QED BY <3>1, <3>2, <3>3
  <2> QED BY <2>1, <2>2, <2>3, <1>2 DEF m
<1> HIDE DEF c, n
<1>5. Len(c) > 1 /\ c[1] = c[Len(c)]
  BY <1>1, <1>4
<1>6. ASSUME NEW j \in 1..(Len(c) - 1)
      PROVE  c[j + 1] \in r.imports[c[j]]
  <2>1. j \in 1..(n - k + 1) /\ c[j] = w.stack[k + j - 1]
    BY <1>1, <1>4
  <2>2. CASE j = n - k + 1
    <3>1. c[j + 1] = p /\ c[j] = w.stack[n]
      BY <2>1, <2>2, <1>1, <1>4
    <3> QED BY <3>1 DEF Local, n
  <2>3. CASE j # n - k + 1
    <3>1. /\ c[j + 1] = w.stack[k + j] /\ k + j - 1 \in 1..(n - 1) /\ (k + j - 1) + 1 = k + j
      <4>0. n \in Nat /\ k \in 1..n /\ j \in 1..(n - k + 1) /\ j # n - k + 1
        BY <2>1, <2>3, <1>1
      <4>1. j + 1 \in 1..(n - k + 1) /\ k + (j + 1) - 1 = k + j
        BY <4>0
      <4>2. c[j + 1] = w.stack[k + (j + 1) - 1]
        BY <4>1, <1>4
      <4>3. c[j + 1] = w.stack[k + j]
        BY <4>1, <4>2
      <4>4. k + j - 1 \in 1..(n - 1) /\ (k + j - 1) + 1 = k + j
        BY <4>0
      <4> QED BY <4>3, <4>4
    <3>2. w.stack[(k + j - 1) + 1] \in Local(r, g, w.stack[k + j - 1])
      BY <3>1 DEF SearchInv, n
    <3> QED BY <2>1, <3>1, <3>2 DEF Local
  <2> QED BY <2>2, <2>3
<1> QED BY <1>5, <1>6 DEF CycleFound, c, path, n

(* The package on top, with no import left to visit, is done.              *)
LEMMA LeaveKeeps ==
  ASSUME NEW r, NEW g, NEW w, SearchInv(r, g, w), w.stack # <<>>,
         w.left[w.stack[Len(w.stack)]] = {}
  PROVE  SearchInv(r, g, [w EXCEPT !.stack = SubSeq(@, 1, Len(@) - 1), !.done = @ \cup {w.stack[Len(w.stack)]}])
<1> DEFINE n == Len(w.stack) top == w.stack[n]
           v == [w EXCEPT !.stack = SubSeq(@, 1, Len(@) - 1), !.done = @ \cup {w.stack[Len(w.stack)]}]
<1>1. w \in Walks(r, g) /\ w.stack \in Seq(Discovered(r)) /\ n \in Nat /\ n > 0
  BY DEF SearchInv, Walks
<1>2. n \in 1..n /\ top \in Discovered(r) /\ top \notin w.done /\ Local(r, g, top) \subseteq w.done
  BY <1>1 DEF SearchInv
<1>3. /\ v.stack = SubSeq(w.stack, 1, n - 1) /\ v.done = w.done \cup {top} /\ v.roots = w.roots
      /\ v.left = w.left
  BY <1>1 DEF Walks
<1>4. /\ v.stack \in Seq(Discovered(r)) /\ Len(v.stack) = n - 1
      /\ \A k \in 1..(n - 1) : v.stack[k] = w.stack[k]
  BY <1>1, <1>3
<1>5. v \in Walks(r, g)
  <2>1. SubSeq(w.stack, 1, n - 1) \in Seq(Discovered(r)) /\ w.done \cup {top} \in SUBSET Discovered(r)
    BY <1>1, <1>2, <1>3, <1>4 DEF Walks
  <2> DEFINE rest == SubSeq(w.stack, 1, n - 1) all == w.done \cup {top}
  <2>2. v = [w EXCEPT !.stack = rest, !.done = all]
    OBVIOUS
  <2> HIDE DEF rest, all, v
  <2> QED BY <2>1, <2>2, <1>1 DEF Walks, rest, all
<1> HIDE DEF v
<1>6. \A k \in 1..(n - 1) : k \in 1..n /\ k # n /\ w.stack[k] # top
  BY <1>1, <1>2 DEF SearchInv
<1>7. /\ \A j, k \in 1..Len(v.stack) : v.stack[j] = v.stack[k] => j = k
      /\ \A k \in 1..Len(v.stack) : v.stack[k] \notin v.done
  <2>1. /\ \A j, k \in 1..n : w.stack[j] = w.stack[k] => j = k
        /\ \A k \in 1..n : w.stack[k] \notin w.done
    BY DEF SearchInv
  <2> HIDE DEF top
  <2> QED BY <2>1, <1>3, <1>4, <1>6
<1>8. ASSUME NEW k \in 1..(Len(v.stack) - 1)
      PROVE  v.stack[k + 1] \in Local(r, g, v.stack[k])
  <2>1. k \in 1..(n - 1) /\ k + 1 \in 1..(n - 1)
    BY <1>1, <1>4
  <2> QED BY <2>1, <1>4 DEF SearchInv
<1>9. ASSUME NEW stuck \in (SUBSET v.done) \ {{}}
      PROVE  \E p \in stuck : Local(r, g, p) \cap stuck = {}
  <2>1. CASE stuck = {top}
    BY <2>1, <1>2
  <2>2. CASE stuck # {top}
    <3>1. stuck \ {top} \in (SUBSET w.done) \ {{}}
      BY <2>2, <1>3
    <3>2. PICK p \in stuck \ {top} : Local(r, g, p) \cap (stuck \ {top}) = {}
      BY <3>1 DEF SearchInv
    <3>3. Local(r, g, p) \subseteq w.done
      BY <3>1, <3>2 DEF SearchInv
    <3> QED BY <3>2, <3>3, <1>2
  <2> QED BY <2>1, <2>2
<1>10. \A p \in v.done : Local(r, g, p) \subseteq v.done
  BY <1>2, <1>3 DEF SearchInv
<1>11. /\ \A p \in Discovered(r) : v.left[p] \subseteq Local(r, g, p) /\ Local(r, g, p) \ v.left[p] \subseteq v.done
       /\ Discovered(r) \ v.roots \subseteq v.done
  BY <1>3 DEF SearchInv
<1>12. SearchInv(r, g, v)
  BY <1>5, <1>7, <1>8, <1>9, <1>10, <1>11 DEF SearchInv
<1> QED BY <1>12 DEF v

(* Nothing is walked at first.                                             *)
LEMMA GraphStart ==
  ASSUME GraphInit
  PROVE  GraphInv
<1>1. PICK P \in {InTree, {Facade}} : graph = Registration(repo, P)
  BY DEF GraphInit
<1>2. DOMAIN graph.imports = P /\ P \subseteq InTree
  BY <1>1, GraphAssumption DEF Registration
<1> QED BY <1>2 DEF GraphInit, GraphInv, GraphVerdict, Resting1

(* The walk starts with every package of the tree as a root.               *)
LEMMA CheckStartKeeps ==
  ASSUME GraphInv, CheckStart
  PROVE  GraphInv'
<1> DEFINE D == Discovered(repo) left == [p \in D |-> Local(repo, graph, p)]
<1>1. /\ repo' = repo /\ graph' = graph /\ verdict' = "none"
      /\ walk' = [at |-> "search", roots |-> D, stack |-> <<>>, done |-> {}, left |-> left, cycle |-> <<>>]
  BY DEF CheckStart, Roots
<1>2. left \in [D -> SUBSET DOMAIN graph.imports] /\ \A p \in D : left[p] = Local(repo, graph, p)
  BY DEF Local, IsConfigured
<1> HIDE DEF D, left
<1>3. walk'.stack = <<>> /\ walk'.done = {} /\ walk'.roots = D /\ walk'.left = left /\ walk'.at = "search"
  BY <1>1
<1>4. walk' \in Walks(repo, graph)
  BY <1>1, <1>2 DEF Walks, D
<1>5. SearchInv(repo, graph, walk')
  BY <1>2, <1>3, <1>4 DEF SearchInv, D
<1> QED BY <1>1, <1>3, <1>5, StillSearching

(* A root is entered, or it is done and leaves the roots.                  *)
LEMMA NextRootKeeps ==
  ASSUME GraphInv, NextRoot
  PROVE  GraphInv'
<1> DEFINE p == First(walk.roots)
<1>1. /\ SearchInv(repo, graph, walk) /\ verdict = "none" /\ walk.stack = <<>> /\ walk.roots # {}
      /\ repo' = repo /\ graph' = graph /\ verdict' = verdict
      /\ walk' = IF p \in walk.done THEN [walk EXCEPT !.roots = @ \ {p}]
                 ELSE [walk EXCEPT !.stack = Append(@, p)]
  BY DEF NextRoot, Searching, Push, GraphInv
<1>2. p \in walk.roots /\ walk.roots \subseteq Discovered(repo) /\ walk \in Walks(repo, graph)
  BY <1>1 DEF First, SearchInv, Walks
<1>3. CASE p \in walk.done
  <2> DEFINE fewer == walk.roots \ {p}
  <2>1. walk' = [walk EXCEPT !.roots = fewer] /\ fewer \subseteq Discovered(repo)
    BY <1>1, <1>2, <1>3
  <2>2. Discovered(repo) \ fewer \subseteq walk.done
    BY <1>1, <1>3 DEF SearchInv
  <2> HIDE DEF fewer
  <2>3. /\ walk'.roots = fewer /\ walk'.stack = walk.stack /\ walk'.done = walk.done /\ walk'.left = walk.left
        /\ walk' \in Walks(repo, graph) /\ walk'.at = "search"
    BY <2>1, <1>2 DEF Walks
  <2>4. SearchInv(repo, graph, walk')
    BY <2>2, <2>3, <1>1 DEF SearchInv
  <2> QED BY <2>3, <2>4, <1>1, StillSearching
<1>4. CASE p \notin walk.done
  <2>1. walk' = [walk EXCEPT !.stack = Append(@, p)]
    BY <1>1, <1>4
  <2>2. SearchInv(repo, graph, walk')
    <3>1. \A k \in 1..Len(walk.stack) : walk.stack[k] # p
      <4>1. Len(walk.stack) = 0
        BY <1>1
      <4> QED BY <4>1
    <3>2. p \in Discovered(repo)
      BY <1>2
    <3> HIDE DEF p
    <3>3. SearchInv(repo, graph, walk) /\ walk.stack = <<>>
      BY <1>1
    <3>4. SearchInv(repo, graph, [walk EXCEPT !.stack = Append(@, p)])
      BY <3>1, <3>2, <3>3, <1>4, PushKeeps
    <3> QED BY <3>4, <2>1
  <2>3. walk'.at = "search"
    BY <2>2 DEF SearchInv, Walks
  <2> QED BY <2>2, <2>3, <1>1, StillSearching
<1> QED BY <1>3, <1>4

(* The next import is on the stack, done, or entered.                      *)
LEMMA VisitKeeps ==
  ASSUME GraphInv, Visit
  PROVE  GraphInv'
<1> DEFINE n == Len(walk.stack) p == First(walk.left[Top])
<1>1. /\ SearchInv(repo, graph, walk) /\ verdict = "none" /\ walk.stack # <<>> /\ walk.left[Top] # {}
      /\ repo' = repo /\ graph' = graph /\ verdict' = verdict
  BY DEF Visit, Searching, GraphInv
<1>2. /\ walk \in Walks(repo, graph) /\ walk.stack \in Seq(Discovered(repo)) /\ n \in Nat /\ n > 0
      /\ n \in 1..n /\ DOMAIN walk.left = Discovered(repo)
  BY <1>1 DEF SearchInv, Walks
<1>3. Top \in Discovered(repo) /\ Top = walk.stack[Len(walk.stack)]
  BY <1>2 DEF Top
<1>4. p \in walk.left[Top] /\ p \in Local(repo, graph, Top)
  BY <1>1, <1>3 DEF First, SearchInv
<1>5. CASE p \in OnStack
  <2> DEFINE k == CHOOSE k \in 1..Len(walk.stack) : walk.stack[k] = p
             c == SubSeq(walk.stack, k, Len(walk.stack)) \o <<p>>
  <2>1. walk' = [walk EXCEPT !.at = "found", !.cycle = c]
    BY <1>5 DEF Visit
  <2>2. k \in 1..Len(walk.stack) /\ walk.stack[k] = p
    BY <1>5 DEF OnStack
  <2>3. CycleFound(repo, c)
    <3> HIDE DEF k, p
    <3> QED BY <2>2, <1>1, <1>3, <1>4, CycleCloses
  <2> HIDE DEF c
  <2>4. walk'.at = "found" /\ walk'.cycle = c
    BY <2>1, <1>2 DEF Walks
  <2>5. GraphVerdict'
    BY <2>3, <2>4, <1>1 DEF GraphVerdict, CycleFound
  <2>6. CycleFound(repo', walk'.cycle)
    BY <2>3, <2>4, <1>1
  <2> QED BY <2>4, <2>5, <2>6, <1>1 DEF GraphInv
<1>6. CASE p \notin OnStack /\ p \in walk.done
  <2> DEFINE less == [walk.left EXCEPT ![Top] = walk.left[Top] \ {p}]
  <2>1. walk' = [walk EXCEPT !.left = less]
    <3>1. walk' = [walk EXCEPT !.left[Top] = @ \ {p}]
      BY <1>6 DEF Visit
    <3> QED BY <3>1
  <2>2. /\ less \in [Discovered(repo) -> SUBSET DOMAIN graph.imports]
        /\ less[Top] = walk.left[Top] \ {p} /\ \A q \in Discovered(repo) \ {Top} : less[q] = walk.left[q]
    BY <1>2, <1>3 DEF Walks
  <2> HIDE DEF less, p
  <2>3. /\ walk'.left = less /\ walk'.stack = walk.stack /\ walk'.done = walk.done /\ walk'.roots = walk.roots
        /\ walk' \in Walks(repo, graph) /\ walk'.at = "search"
    BY <2>1, <2>2, <1>2 DEF Walks
  <2>4. ASSUME NEW q \in Discovered(repo)
        PROVE  less[q] \subseteq Local(repo, graph, q) /\ Local(repo, graph, q) \ less[q] \subseteq walk.done
    <3>1. walk.left[q] \subseteq Local(repo, graph, q) /\ Local(repo, graph, q) \ walk.left[q] \subseteq walk.done
      BY <1>1 DEF SearchInv
    <3> QED BY <3>1, <2>2, <1>6
  <2>5. SearchInv(repo, graph, walk')
    BY <2>3, <2>4, <1>1 DEF SearchInv
  <2> QED BY <2>3, <2>5, <1>1, StillSearching
<1>7. CASE p \notin OnStack /\ p \notin walk.done
  <2>1. p \in DOMAIN walk.left /\ walk' = [walk EXCEPT !.stack = Append(@, p)]
    BY <1>7 DEF Visit, Push
  <2>2. \A k \in 1..Len(walk.stack) : walk.stack[k] # p
    BY <1>7 DEF OnStack
  <2> HIDE DEF p
  <2>3. SearchInv(repo, graph, walk')
    BY <2>1, <2>2, <1>1, <1>2, <1>3, <1>4, <1>7, PushKeeps
  <2>4. walk'.at = "search"
    BY <2>3 DEF SearchInv, Walks
  <2> QED BY <2>3, <2>4, <1>1, StillSearching
<1> QED BY <1>5, <1>6, <1>7

(* Every step of the check, and every change between two checks.           *)
LEMMA GraphKept ==
  ASSUME GraphInv, CheckGraph \/ UNCHANGED graphVars
  PROVE  GraphInv'
<1>1. CASE RepoChanges
  <2>1. walk' = walk /\ walk.at = "rest" /\ verdict' = "none"
    BY <1>1 DEF RepoChanges, Resting1
  <2>2. DOMAIN graph'.imports \subseteq InTree
    <3>1. CASE graph' = Registration(repo, Discovered(repo))
      BY <3>1 DEF Registration, Discovered
    <3> QED BY <3>1, <1>1 DEF RepoChanges, GraphInv
  <2>3. GraphVerdict'
    BY <2>1 DEF GraphVerdict
  <2> QED BY <2>1, <2>2, <2>3 DEF GraphInv
<1>2. CASE CheckStart
  BY <1>2, CheckStartKeeps
<1>3. CASE NextRoot
  BY <1>3, NextRootKeeps
<1>4. CASE Visit
  BY <1>4, VisitKeeps
<1>5. CASE WalkCrashes
  <2> DEFINE p == First(walk.left[Top])
  <2>1. /\ SearchInv(repo, graph, walk) /\ walk.stack # <<>> /\ walk.left[Top] # {} /\ p \notin DOMAIN walk.left
        /\ walk' = [at |-> "rest"] /\ verdict' = "crash" /\ repo' = repo /\ graph' = graph
    BY <1>5 DEF WalkCrashes, Searching, GraphInv, Resting1
  <2>2. /\ walk.stack \in Seq(Discovered(repo)) /\ Len(walk.stack) \in 1..Len(walk.stack)
        /\ walk.left \in [Discovered(repo) -> SUBSET DOMAIN graph.imports]
    BY <2>1 DEF SearchInv, Walks
  <2>3. p \in DOMAIN graph.imports /\ p \notin Discovered(repo)
    <3>1. Top \in Discovered(repo)
      BY <2>2 DEF Top
    <3>2. p \in walk.left[Top]
      BY <2>1 DEF First
    <3> QED BY <3>1, <3>2, <2>1, <2>2
  <2>4. p \notin DOMAIN repo.imports
    BY <2>3 DEF Discovered, GraphInv
  <2> HIDE DEF p
  <2>5. GraphVerdict'
    BY <2>1, <2>3, <2>4 DEF GraphVerdict
  <2> QED BY <2>1, <2>5 DEF GraphInv
<1>6. CASE Leave
  <2>1. /\ SearchInv(repo, graph, walk) /\ walk.stack # <<>> /\ walk.left[Top] = {} /\ verdict = "none"
        /\ repo' = repo /\ graph' = graph /\ verdict' = verdict
        /\ walk' = [walk EXCEPT !.stack = SubSeq(@, 1, Len(@) - 1),
                                !.done = @ \cup {walk.stack[Len(walk.stack)]}]
    BY <1>6 DEF Leave, Searching, GraphInv, Top
  <2>2. SearchInv(repo, graph, walk')
    BY <2>1, LeaveKeeps DEF Top
  <2>3. walk'.at = "search"
    BY <2>2 DEF SearchInv, Walks
  <2> QED BY <2>1, <2>2, <2>3, StillSearching
<1>7. CASE CheckEnds
  <2>1. /\ walk.at = "found" \/ (walk.at = "search" /\ walk.stack = <<>> /\ walk.roots = {})
        /\ verdict' = IF walk.cycle # <<>> \/ Reported(repo, graph) THEN "fail" ELSE "pass"
        /\ walk' = [at |-> "rest"] /\ repo' = repo /\ graph' = graph
    BY <1>7 DEF CheckEnds, Resting1
  <2>2. walk.at = "found" => walk.cycle # <<>>
    <3>1. Len(<<>>) = 0
      OBVIOUS
    <3> QED BY <3>1 DEF GraphInv, CycleFound
  <2>3. ASSUME verdict' = "pass"
        PROVE  /\ Discovered(repo) = DOMAIN graph.imports /\ NoCycle(Discovered(repo))
               /\ \A p \in Packages \ AllowedImporters :
                     p \in DOMAIN repo.imports => repo.imports[p] \cap Internal = {}
    <3>1. walk.at = "search" /\ walk.roots = {} /\ ~Reported(repo, graph)
      BY <2>1, <2>2, <2>3
    <3>2. Discovered(repo) = DOMAIN graph.imports /\ ~PrivateImport(repo)
      BY <3>1 DEF Reported
    <3>3. SearchInv(repo, graph, walk)
      BY <3>1 DEF GraphInv
    <3>4. walk.done = Discovered(repo)
      BY <3>1, <3>3 DEF SearchInv, Walks
    <3>5. ASSUME NEW stuck \in (SUBSET Discovered(repo)) \ {{}}
          PROVE  \E p \in stuck : repo.imports[p] \cap stuck = {}
      <4>1. PICK p \in stuck : Local(repo, graph, p) \cap stuck = {}
        BY <3>3, <3>4 DEF SearchInv
      <4>2. repo.imports[p] \cap stuck \subseteq Local(repo, graph, p)
        BY <3>2 DEF Local, IsConfigured
      <4> QED BY <4>1, <4>2
    <3> QED BY <3>2, <3>5 DEF NoCycle, PrivateImport
  <2>4. GraphVerdict'
    <3>1. walk'.at = "rest" /\ verdict' \in {"pass", "fail"}
      BY <2>1
    <3>2. verdict' = "pass" =>
             /\ Discovered(repo') = DOMAIN graph'.imports
             /\ \A stuck \in (SUBSET Discovered(repo')) \ {{}} : \E p \in stuck : repo'.imports[p] \cap stuck = {}
             /\ \A p \in Packages \ AllowedImporters :
                   p \in DOMAIN repo'.imports => repo'.imports[p] \cap Internal = {}
      BY <2>1, <2>3 DEF NoCycle
    <3> QED BY <3>1, <3>2 DEF GraphVerdict, NoCycle
  <2> QED BY <2>1, <2>4 DEF GraphInv
<1>8. CASE UNCHANGED graphVars
  <2>1. repo' = repo /\ graph' = graph /\ walk' = walk /\ verdict' = verdict
    BY <1>8 DEF graphVars
  <2>2. GraphVerdict'
    BY <2>1 DEF GraphInv, GraphVerdict, NoCycle, Local, IsConfigured
  <2>3. SearchInv(repo, graph, walk) => SearchInv(repo', graph', walk')
    BY <2>1
  <2>4. CycleFound(repo, walk.cycle) => CycleFound(repo', walk'.cycle)
    BY <2>1
  <2> QED BY <2>1, <2>2, <2>3, <2>4 DEF GraphInv
<1> QED BY <1>1, <1>2, <1>3, <1>4, <1>5, <1>6, <1>7, <1>8 DEF CheckGraph

(* The facade stays in the checkout.                                       *)
GraphTypes ==
    /\ {"imports"} \subseteq DOMAIN repo
    /\ Facade \in DOMAIN repo.imports /\ DOMAIN repo.imports \subseteq Packages
    /\ {"at"} \subseteq DOMAIN walk /\ walk.at \in {"rest", "search", "found"}
    /\ verdict \in {"none", "pass", "fail", "crash"}
    /\ changes \in 0..MaxChanges

LEMMA GraphTypesStart ==
  ASSUME GraphInit PROVE GraphTypes
<1>1. DOMAIN repo.imports = Packages /\ {"imports"} \subseteq DOMAIN repo
  BY DEF GraphInit
<1>2. Facade \in Packages /\ MaxChanges \in Nat
  BY GraphAssumption DEF Packages
<1> QED BY <1>1, <1>2 DEF GraphInit, GraphTypes, Resting1

LEMMA GraphTypesKept ==
  ASSUME GraphTypes, CheckGraph \/ UNCHANGED graphVars
  PROVE  GraphTypes'
<1>1. CASE RepoChanges
  <2>1. changes' \in 0..MaxChanges /\ verdict' = "none" /\ walk' = walk
    BY <1>1, GraphAssumption DEF RepoChanges, GraphTypes
  <2>2. {"imports"} \subseteq DOMAIN repo' /\ Facade \in DOMAIN repo'.imports
        /\ DOMAIN repo'.imports \subseteq Packages
    <3>1. CASE ImportChanges
      BY <3>1 DEF ImportChanges, GraphTypes
    <3>2. CASE PackageRemoved
      BY <3>2 DEF PackageRemoved, GraphTypes
    <3>3. CASE FileChanges \/ LineChanges
      BY <3>3 DEF FileChanges, LineChanges, GraphTypes
    <3>4. CASE repo' = repo
      BY <3>4 DEF GraphTypes
    <3> QED BY <1>1, <3>1, <3>2, <3>3, <3>4 DEF RepoChanges
  <2> QED BY <2>1, <2>2 DEF GraphTypes
<1>2. ASSUME UNCHANGED <<repo, changes>>, verdict' \in {"none", "pass", "fail", "crash"},
             {"at"} \subseteq DOMAIN walk', walk'.at \in {"rest", "search", "found"}
      PROVE  GraphTypes'
  BY <1>2 DEF GraphTypes
<1>3. CASE CheckStart
  <2>1. {"at"} \subseteq DOMAIN walk' /\ walk'.at = "search"
    BY <1>3 DEF CheckStart
  <2> QED BY <1>2, <1>3, <2>1 DEF CheckStart, GraphTypes
<1>4. CASE NextRoot \/ Visit \/ Leave
  <2>1. UNCHANGED <<repo, changes, verdict>>
    BY <1>4 DEF NextRoot, Visit, Leave, Searching
  <2>2. {"at"} \subseteq DOMAIN walk' /\ walk'.at \in {"rest", "search", "found"}
    BY <1>4 DEF NextRoot, Visit, Leave, Push, GraphTypes
  <2> QED BY <1>2, <2>1, <2>2 DEF GraphTypes
<1>5. CASE WalkCrashes \/ CheckEnds
  <2>1. {"at"} \subseteq DOMAIN walk' /\ walk'.at = "rest"
    BY <1>5 DEF WalkCrashes, CheckEnds, Resting1
  <2>2. UNCHANGED <<repo, changes>> /\ verdict' \in {"pass", "fail", "crash"}
    BY <1>5 DEF WalkCrashes, CheckEnds, Searching
  <2> QED BY <1>2, <2>1, <2>2
<1>6. CASE UNCHANGED graphVars
  BY <1>6 DEF graphVars, GraphTypes
<1> QED BY <1>1, <1>3, <1>4, <1>5, <1>6 DEF CheckGraph

LEMMA GraphTyped ==
  ASSUME GraphTypes PROVE GraphTypeOK
BY DEF GraphTypes, GraphTypeOK

----------------------------------------------------------------------------
(* The soak.                                                               *)

Outcomes == [name : {Checks[k].name : k \in 1..Len(Checks)}, ok : BOOLEAN]
LogLines == [soak : Nat, cycle : Nat, checks : Seq(Outcomes), ok : BOOLEAN, given : Programs]
SoakStates ==
    [at : {"loop", "check", "state", "final"}, id : Nat, given : Programs, target : Nat, cycle : Nat,
     left : SUBSET (1..Len(Checks)), ran : Seq(Outcomes), failed : BOOLEAN, stop : BOOLEAN,
     late : BOOLEAN]
SoakFiles ==
    [status : {"running", "failed", "passed", "interrupted"}, soak : Nat, completed : Nat,
     finisher : Nat]
        \cup {[status |-> "absent"]}

(* The first n cycles of a soak are in the log, and passed every check.    *)
Logged(log, id, n) ==
    \A m \in 1..n : \E k \in 1..Len(log) :
        log[k].soak = id /\ log[k].cycle = m /\ log[k].ok /\ AllPassed(log[k])

(* The lines of a soak are in the order of its cycles; no line is from a   *)
(* soak that was not started yet.                                          *)
LogOrdered(log, n) ==
    /\ \A k \in 1..Len(log) : log[k].soak <= n
    /\ \A k, l \in 1..Len(log) :
          k < l /\ log[k].soak = log[l].soak => log[k].cycle < log[l].cycle

HasPassed(ran, k) == \E m \in 1..Len(ran) : ran[m] = [name |-> Checks[k].name, ok |-> TRUE]

(* A soak s at work, the n-th: its log lines are those of its cycles, the  *)
(* cycle at hand has passed what it does not have left, and once it has    *)
(* finished a cycle the state file is its own; before, it is not.          *)
AtWork(s, log, n, f) ==
    /\ s \in SoakStates /\ s.id = n /\ n # 0
    /\ \A k \in 1..Len(log) : log[k].soak = n =>
          log[k].cycle <= s.cycle /\ (s.at = "check" => log[k].cycle < s.cycle)
    /\ s.cycle = 0 => \A k \in 1..Len(log) : log[k].soak # n
    /\ s.at \in {"loop", "final"} =>
          /\ Logged(log, n, s.cycle) /\ ~s.failed
          /\ s.cycle > 0 => f = [status |-> "running", soak |-> n, completed |-> s.cycle, finisher |-> 0]
    /\ s.at \in {"check", "state"} => s.cycle > 0 /\ Logged(log, n, s.cycle - 1)
    /\ s.at = "check" => IF s.failed THEN s.left = {}
                         ELSE \A k \in Commands(s.given) \ s.left : HasPassed(s.ran, k)
    /\ s.at = "state" => \E k \in 1..Len(log) : log[k].soak = n /\ log[k].cycle = s.cycle
    /\ s.at = "state" /\ ~s.failed => Logged(log, n, s.cycle)
    /\ f.status # "absent" => f.finisher # n /\ (s.cycle = 0 => f.soak # n)

(* What a state file f says is in the log, and names no later soak.        *)
FileTrue(f, log, n) ==
    f.status # "absent" =>
        /\ f.soak <= n /\ f.finisher <= n /\ f.completed > 0
        /\ Logged(log, f.soak, f.completed - 1)
        /\ \E k \in 1..Len(log) : log[k].soak = f.soak /\ log[k].cycle = f.completed
        /\ f.status = "running" \/ f.finisher = f.soak => Logged(log, f.soak, f.completed)
        /\ f.finisher \notin {0, f.soak} => \A k \in 1..Len(log) : log[k].soak # f.finisher

SoakInv ==
    /\ soaks \in Nat /\ cycleLog \in Seq(LogLines) /\ stateFile \in SoakFiles
    /\ LogOrdered(cycleLog, soaks)
    /\ FileTrue(stateFile, cycleLog, soaks)
    /\ soak = NoSoak \/ AtWork(soak, cycleLog, soaks, stateFile)

LEMMA LineTypes ==
  ASSUME NEW log \in Seq(LogLines), NEW k \in 1..Len(log)
  PROVE  log[k].soak \in Nat /\ log[k].cycle \in Nat
<1>1. log[k] \in LogLines
  OBVIOUS
<1> QED BY <1>1 DEF LogLines

(* Lines are only added, and a line says what it said.                     *)
LEMMA LineAdded ==
  ASSUME NEW log \in Seq(LogLines), NEW line \in LogLines
  PROVE  /\ Append(log, line) \in Seq(LogLines) /\ Len(Append(log, line)) = Len(log) + 1
         /\ \A k \in 1..Len(log) : Append(log, line)[k] = log[k]
         /\ Append(log, line)[Len(log) + 1] = line
         /\ \A id, n : Logged(log, id, n) => Logged(Append(log, line), id, n)
<1>1. /\ Append(log, line) \in Seq(LogLines) /\ Len(Append(log, line)) = Len(log) + 1
      /\ \A k \in 1..Len(log) : Append(log, line)[k] = log[k]
      /\ Append(log, line)[Len(log) + 1] = line /\ Len(log) \in Nat
  OBVIOUS
<1>2. 1..Len(log) \subseteq 1..Len(Append(log, line))
  BY <1>1
<1>3. \A id, n : Logged(log, id, n) => Logged(Append(log, line), id, n)
  BY <1>1, <1>2 DEF Logged
<1> QED BY <1>1, <1>3

(* The last cycle completes the first n.                                   *)
LEMMA LoggedNext ==
  ASSUME NEW log, NEW id, NEW n \in Nat, n > 0, Logged(log, id, n - 1), NEW k \in 1..Len(log),
         log[k].soak = id, log[k].cycle = n, log[k].ok, AllPassed(log[k])
  PROVE  Logged(log, id, n)
<1>1. \A m \in 1..n : m = n \/ m \in 1..(n - 1)
  OBVIOUS
<1> QED BY <1>1 DEF Logged

(* A soak starts from nothing, and stops without a trace.                  *)
LEMMA SoakStartKeeps ==
  ASSUME SoakInv, SoakStart PROVE SoakInv'
<1>1. PICK given \in Programs, target \in 0..MaxSoakCycles :
         soak' = [at |-> "loop", id |-> soaks + 1, given |-> given, target |-> target,
                  cycle |-> 0, left |-> {}, ran |-> <<>>, failed |-> FALSE,
                  stop |-> FALSE, late |-> FALSE]
  BY DEF SoakStart
<1>2. soaks' = soaks + 1 /\ soaks \in Nat /\ cycleLog' = cycleLog /\ stateFile' = stateFile
  BY DEF SoakStart, SoakInv
<1>3. soak' \in SoakStates
  BY <1>1, <1>2, SoakAssumption DEF SoakStates
<1>4. cycleLog \in Seq(LogLines) /\ \A k \in 1..Len(cycleLog) : cycleLog[k].soak \in Nat
  BY LineTypes DEF SoakInv
<1>5. \A k \in 1..Len(cycleLog) : cycleLog[k].soak <= soaks
  BY DEF SoakInv, LogOrdered
<1>6. \A k \in 1..Len(cycleLog) : cycleLog[k].soak # soaks + 1 /\ cycleLog[k].soak <= soaks + 1
  BY <1>2, <1>4, <1>5
<1>7. LogOrdered(cycleLog, soaks + 1)
  BY <1>6 DEF SoakInv, LogOrdered
<1>8. Logged(cycleLog, soaks + 1, 0)
  BY DEF Logged
<1>9. FileTrue(stateFile, cycleLog, soaks) /\ stateFile \in SoakFiles
  BY DEF SoakInv
<1>10. stateFile.status # "absent" =>
          /\ stateFile.soak \in Nat /\ stateFile.finisher \in Nat
          /\ stateFile.soak <= soaks /\ stateFile.finisher <= soaks
  BY <1>9 DEF FileTrue, SoakFiles
<1>11. stateFile.status # "absent" =>
          /\ stateFile.soak <= soaks + 1 /\ stateFile.finisher <= soaks + 1
          /\ stateFile.soak # soaks + 1 /\ stateFile.finisher # soaks + 1
  BY <1>2, <1>10
<1>12. FileTrue(stateFile, cycleLog, soaks + 1)
  BY <1>9, <1>11 DEF FileTrue
<1>13. AtWork(soak', cycleLog, soaks + 1, stateFile)
  <2>1. soaks + 1 # 0
    BY <1>2
  <2> QED BY <1>1, <1>2, <1>3, <1>6, <1>8, <1>11, <2>1 DEF AtWork
<1> QED BY <1>2, <1>7, <1>12, <1>13 DEF SoakInv

(* The steps that change the soak alone.                                   *)
LEMMA SoakAloneKeeps ==
  ASSUME SoakInv, StopRequested \/ DeadlinePasses \/ BeginCycle \/ LeaveLoop \/ RunCheck \/ SoakDies
  PROVE  SoakInv'
<1>1. soaks' = soaks /\ cycleLog' = cycleLog /\ stateFile' = stateFile
  BY DEF StopRequested, DeadlinePasses, BeginCycle, LeaveLoop, RunCheck, SoakDies
<1>2. SUFFICES soak' = NoSoak \/ AtWork(soak', cycleLog, soaks, stateFile)
  BY <1>1 DEF SoakInv
<1>3. CASE SoakDies
  BY <1>3 DEF SoakDies
<1> SUFFICES ASSUME ~SoakDies PROVE AtWork(soak', cycleLog, soaks, stateFile)
  BY <1>3
<1>4. AtWork(soak, cycleLog, soaks, stateFile) /\ soak \in SoakStates
  <2>1. StopRequested \/ DeadlinePasses => soak # NoSoak
    BY DEF StopRequested, DeadlinePasses
  <2>2. BeginCycle \/ LeaveLoop \/ RunCheck => soak.at \in {"loop", "check"}
    BY DEF BeginCycle, LeaveLoop, RunCheck
  <2>3. soak # NoSoak
    BY <2>1, <2>2 DEF NoSoak
  <2>4. AtWork(soak, cycleLog, soaks, stateFile)
    BY <2>3 DEF SoakInv
  <2> QED BY <2>4 DEF AtWork
<1>5. CASE StopRequested
  <2>1. soak' = [soak EXCEPT !.stop = TRUE]
    BY <1>5 DEF StopRequested
  <2> QED BY <1>4, <2>1 DEF AtWork, SoakStates
<1>6. CASE DeadlinePasses
  <2>1. soak' = [soak EXCEPT !.late = TRUE]
    BY <1>6 DEF DeadlinePasses
  <2> QED BY <1>4, <2>1 DEF AtWork, SoakStates
<1>7. CASE BeginCycle
  <2>1. /\ soak.at = "loop"
        /\ soak' = [soak EXCEPT !.at = "check", !.cycle = soak.cycle + 1,
                                !.left = Commands(soak.given), !.ran = <<>>]
    BY <1>7 DEF BeginCycle
  <2>2. Commands(soak.given) \subseteq 1..Len(Checks)
    BY DEF Commands
  <2>3. /\ soak' \in SoakStates /\ soak'.cycle = soak.cycle + 1 /\ soak'.at = "check"
        /\ soak'.id = soak.id /\ soak'.left = Commands(soak'.given) /\ soak'.failed = soak.failed
        /\ soak.cycle \in Nat
    <3>1. soak.cycle \in Nat /\ soak.cycle + 1 \in Nat /\ <<>> \in Seq(Outcomes)
      BY <1>4 DEF SoakStates
    <3> HIDE DEF Commands
    <3>2. soak' \in SoakStates
      BY <1>4, <2>1, <2>2, <3>1 DEF SoakStates
    <3> QED BY <1>4, <2>1, <3>1, <3>2 DEF SoakStates
  <2>4. \A k \in 1..Len(cycleLog) : cycleLog[k].soak = soaks =>
           cycleLog[k].cycle <= soak'.cycle /\ cycleLog[k].cycle < soak'.cycle
    <3>1. \A k \in 1..Len(cycleLog) : cycleLog[k].cycle \in Nat
      BY LineTypes DEF SoakInv
    <3>2. \A k \in 1..Len(cycleLog) : cycleLog[k].soak = soaks => cycleLog[k].cycle <= soak.cycle
      BY <1>4 DEF AtWork
    <3> QED BY <2>3, <3>1, <3>2
  <2>5. Logged(cycleLog, soaks, soak'.cycle - 1) /\ ~soak.failed
    BY <1>4, <2>1, <2>3 DEF AtWork
  <2>6. soak'.cycle # 0
    BY <2>3
  <2> QED BY <1>4, <2>3, <2>4, <2>5, <2>6 DEF AtWork
<1>8. CASE LeaveLoop
  <2>1. soak.at = "loop" /\ soak' = [soak EXCEPT !.at = "final"]
    BY <1>8 DEF LeaveLoop
  <2> QED BY <1>4, <2>1 DEF AtWork, SoakStates
<1>9. CASE RunCheck
  <2>1. PICK k \in soak.left, ok \in BOOLEAN :
           soak' = [soak EXCEPT !.ran = Append(soak.ran, [name |-> Checks[k].name, ok |-> ok]),
                                !.left = IF ok THEN soak.left \ {k} ELSE {}, !.failed = ~ok]
    BY <1>9 DEF RunCheck
  <2> DEFINE out == [name |-> Checks[k].name, ok |-> ok]
  <2>2. k \in 1..Len(Checks) /\ out \in Outcomes /\ soak.ran \in Seq(Outcomes) /\ soak.at = "check"
    BY <1>4, <1>9 DEF SoakStates, Outcomes, RunCheck
  <2> HIDE DEF out
  <2>3. /\ Append(soak.ran, out) \in Seq(Outcomes) /\ Len(Append(soak.ran, out)) = Len(soak.ran) + 1
        /\ \A m \in 1..Len(soak.ran) : Append(soak.ran, out)[m] = soak.ran[m]
        /\ Append(soak.ran, out)[Len(soak.ran) + 1] = out /\ Len(soak.ran) \in Nat
    BY <2>2
  <2>4. /\ soak' = [soak EXCEPT !.ran = Append(soak.ran, out),
                                !.left = IF ok THEN soak.left \ {k} ELSE {}, !.failed = ~ok]
    BY <2>1 DEF out
  <2>5. /\ soak' \in SoakStates /\ soak'.at = "check" /\ soak'.cycle = soak.cycle /\ soak'.id = soak.id
        /\ soak'.given = soak.given /\ soak'.late = soak.late
        /\ soak'.failed = ~ok /\ soak'.ran = Append(soak.ran, out)
        /\ soak'.left = IF ok THEN soak.left \ {k} ELSE {}
    BY <1>4, <2>2, <2>3, <2>4 DEF SoakStates
  <2>6. ASSUME ok, NEW j \in Commands(soak.given) \ soak'.left PROVE HasPassed(soak'.ran, j)
    <3>1. CASE j = k
      <4>1. out = [name |-> Checks[j].name, ok |-> TRUE]
        BY <2>6, <3>1 DEF out
      <4>2. Len(soak.ran) + 1 \in 1..Len(soak'.ran)
        BY <2>3, <2>5
      <4> QED BY <2>3, <2>5, <4>1, <4>2 DEF HasPassed
    <3>2. CASE j # k
      <4>1. j \notin soak.left /\ ~soak.failed
        BY <1>4, <2>2, <2>5, <2>6, <3>2 DEF AtWork
      <4>2. HasPassed(soak.ran, j)
        BY <1>4, <2>2, <2>6, <4>1 DEF AtWork
      <4>3. 1..Len(soak.ran) \subseteq 1..Len(soak'.ran)
        BY <2>3, <2>5
      <4> QED BY <2>3, <2>5, <4>2, <4>3 DEF HasPassed
    <3> QED BY <3>1, <3>2
  <2> QED BY <1>4, <2>2, <2>5, <2>6 DEF AtWork
<1> QED BY <1>5, <1>6, <1>7, <1>8, <1>9

(* The line of a cycle.                                                    *)
LEMMA LogCycleKeeps ==
  ASSUME SoakInv, LogCycle PROVE SoakInv'
<1> DEFINE line == [soak |-> soak.id, cycle |-> soak.cycle, checks |-> soak.ran,
                    ok |-> ~soak.failed, given |-> soak.given]
           log == Append(cycleLog, line)
<1>1. /\ soak.at = "check" /\ soak.left = {} /\ cycleLog' = log
      /\ soak' = [soak EXCEPT !.at = "state"] /\ soaks' = soaks /\ stateFile' = stateFile
  BY DEF LogCycle
<1>2. AtWork(soak, cycleLog, soaks, stateFile) /\ soak \in SoakStates /\ soak.id = soaks
  BY <1>1 DEF SoakInv, NoSoak, AtWork
<1>3. /\ line \in LogLines /\ line.soak = soaks /\ line.cycle = soak.cycle /\ line.ok = ~soak.failed
      /\ line.checks = soak.ran /\ line.given = soak.given
  BY <1>2 DEF SoakStates, LogLines
<1>4. ~soak.failed => AllPassed(line)
  BY <1>1, <1>2, <1>3 DEF AtWork, AllPassed, HasPassed
<1> HIDE DEF line
<1>5. /\ log \in Seq(LogLines) /\ Len(log) = Len(cycleLog) + 1 /\ Len(cycleLog) \in Nat
      /\ \A k \in 1..Len(cycleLog) : log[k] = cycleLog[k]
      /\ log[Len(cycleLog) + 1] = line
      /\ \A id, n : Logged(cycleLog, id, n) => Logged(log, id, n)
  BY <1>3, LineAdded DEF SoakInv
<1> HIDE DEF log
<1>6. \A k \in 1..Len(log) : k \in 1..Len(cycleLog) \/ k = Len(cycleLog) + 1
  BY <1>5
<1>7. \A k \in 1..Len(cycleLog) : cycleLog[k].soak = soaks => cycleLog[k].cycle < soak.cycle
  BY <1>1, <1>2 DEF AtWork
<1>8. soak.cycle \in Nat /\ soaks \in Nat
  BY <1>2 DEF SoakStates, SoakInv
<1>9. LogOrdered(log, soaks)
  <2>1. \A k \in 1..Len(log) : log[k].soak <= soaks
    BY <1>3, <1>5, <1>6, <1>8 DEF SoakInv, LogOrdered
  <2>2. ASSUME NEW k \in 1..Len(log), NEW l \in 1..Len(log), k < l, log[k].soak = log[l].soak
        PROVE  log[k].cycle < log[l].cycle
    <3>1. k \in 1..Len(cycleLog)
      BY <1>5, <1>6, <2>2
    <3>2. CASE l \in 1..Len(cycleLog)
      BY <1>5, <2>2, <3>1, <3>2 DEF SoakInv, LogOrdered
    <3>3. CASE l = Len(cycleLog) + 1
      BY <1>3, <1>5, <1>7, <2>2, <3>1, <3>3
    <3> QED BY <1>6, <3>2, <3>3
  <2> QED BY <2>1, <2>2 DEF LogOrdered
<1>10. /\ soak' \in SoakStates /\ soak'.at = "state" /\ soak'.cycle = soak.cycle /\ soak'.id = soak.id
       /\ soak'.failed = soak.failed /\ soak'.late = soak.late
  BY <1>1, <1>2 DEF SoakStates
<1>11. Logged(log, soaks, soak.cycle - 1) /\ soak.cycle > 0
  BY <1>1, <1>2, <1>5 DEF AtWork
<1>12. ~soak.failed => Logged(log, soaks, soak.cycle)
  <2>1. Len(cycleLog) + 1 \in 1..Len(log)
    BY <1>5
  <2> QED BY <1>3, <1>4, <1>5, <1>8, <1>11, <2>1, LoggedNext
<1>13. \A k \in 1..Len(log) : log[k].soak = soaks => log[k].cycle <= soak.cycle
  <2>1. \A k \in 1..Len(cycleLog) : cycleLog[k].cycle \in Nat
    BY LineTypes DEF SoakInv
  <2> QED BY <1>3, <1>5, <1>6, <1>7, <1>8, <2>1
<1>14. \E k \in 1..Len(log) : log[k].soak = soaks /\ log[k].cycle = soak.cycle
  <2>1. Len(cycleLog) + 1 \in 1..Len(log)
    BY <1>5
  <2> QED BY <1>3, <1>5, <2>1
<1>15. stateFile.status # "absent" => stateFile.finisher # soaks
  BY <1>2 DEF AtWork
<1>16. soak.cycle # 0
  BY <1>8, <1>11
<1>17. AtWork(soak', log, soaks, stateFile)
  BY <1>2, <1>10, <1>11, <1>12, <1>13, <1>14, <1>15, <1>16 DEF AtWork
<1>18. FileTrue(stateFile, log, soaks)
  <2>1. FileTrue(stateFile, cycleLog, soaks)
    BY DEF SoakInv
  <2>2. 1..Len(cycleLog) \subseteq 1..Len(log)
    BY <1>5
  <2>3. \A x : x # soaks /\ (\A k \in 1..Len(cycleLog) : cycleLog[k].soak # x)
             => \A k \in 1..Len(log) : log[k].soak # x
    BY <1>3, <1>5, <1>6
  <2> QED BY <1>5, <1>15, <2>1, <2>2, <2>3 DEF FileTrue
<1> QED BY <1>1, <1>5, <1>9, <1>17, <1>18 DEF SoakInv

(* The state of a cycle.                                                   *)
LEMMA WriteStateKeeps ==
  ASSUME SoakInv, WriteState PROVE SoakInv'
<1>1. soaks' = soaks /\ cycleLog' = cycleLog /\ soak.at = "state"
  BY DEF WriteState
<1>2. AtWork(soak, cycleLog, soaks, stateFile) /\ soak \in SoakStates /\ soak.id = soaks /\ soaks \in Nat
  BY <1>1 DEF SoakInv, NoSoak, AtWork
<1>3. /\ stateFile' = [status |-> IF soak.failed THEN "failed" ELSE "running", soak |-> soaks,
                       completed |-> soak.cycle, finisher |-> 0]
      /\ soak' = IF soak.failed THEN NoSoak ELSE [soak EXCEPT !.at = IF Over THEN "final" ELSE "loop"]
  BY <1>2 DEF WriteState, CycleState
<1>4. /\ soak.cycle \in Nat /\ soak.cycle > 0 /\ Logged(cycleLog, soaks, soak.cycle - 1)
      /\ ~soak.failed => Logged(cycleLog, soaks, soak.cycle)
      /\ \E k \in 1..Len(cycleLog) : cycleLog[k].soak = soaks /\ cycleLog[k].cycle = soak.cycle
  BY <1>1, <1>2 DEF AtWork, SoakStates
<1>5. soaks # 0
  BY <1>1, <1>2 DEF SoakInv, AtWork
<1>6. stateFile' \in SoakFiles
  BY <1>2, <1>3, <1>4 DEF SoakFiles
<1>7. /\ stateFile'.soak = soaks /\ stateFile'.completed = soak.cycle /\ stateFile'.finisher = 0
      /\ stateFile'.status = "running" => ~soak.failed
  BY <1>3
<1>8. FileTrue(stateFile', cycleLog, soaks)
  BY <1>2, <1>4, <1>5, <1>7 DEF FileTrue
<1>9. CASE soak.failed
  BY <1>1, <1>3, <1>6, <1>8, <1>9 DEF SoakInv
<1>10. CASE ~soak.failed
  <2>1. /\ soak' \in SoakStates /\ soak'.at \in {"loop", "final"} /\ soak'.cycle = soak.cycle
        /\ soak'.id = soaks /\ ~soak'.failed
    BY <1>2, <1>3, <1>10 DEF SoakStates
  <2>2. stateFile' = [status |-> "running", soak |-> soaks, completed |-> soak'.cycle, finisher |-> 0]
    BY <1>3, <1>10, <2>1
  <2>3. \A k \in 1..Len(cycleLog) : cycleLog[k].soak = soaks => cycleLog[k].cycle <= soak.cycle
    BY <1>2 DEF AtWork
  <2>4. AtWork(soak', cycleLog, soaks, stateFile')
    BY <1>4, <1>5, <1>7, <1>10, <2>1, <2>2, <2>3 DEF AtWork
  <2> QED BY <1>1, <1>6, <1>8, <2>4 DEF SoakInv
<1> QED BY <1>9, <1>10

(* The state that is read back and completed.                              *)
LEMMA FinishSoakKeeps ==
  ASSUME SoakInv, FinishSoak PROVE SoakInv'
<1>1. soaks' = soaks /\ cycleLog' = cycleLog /\ soak.at = "final" /\ soak' = NoSoak
  BY DEF FinishSoak
<1>2. AtWork(soak, cycleLog, soaks, stateFile) /\ soak \in SoakStates /\ soak.id = soaks /\ soaks \in Nat
  BY <1>1 DEF SoakInv, NoSoak, AtWork
<1>3. stateFile \in SoakFiles /\ FileTrue(stateFile, cycleLog, soaks)
  BY DEF SoakInv
<1>4. CASE stateFile.status = "absent"
  BY <1>1, <1>4 DEF SoakInv, FinishSoak
<1>5. CASE stateFile.status # "absent"
  <2>1. stateFile' = [stateFile EXCEPT !.status = IF soak.stop THEN "interrupted" ELSE "passed",
                                       !.finisher = soaks]
    BY <1>2, <1>5 DEF FinishSoak
  <2>2. /\ stateFile' \in SoakFiles /\ stateFile'.status \in {"interrupted", "passed"}
        /\ stateFile'.soak = stateFile.soak /\ stateFile'.completed = stateFile.completed
        /\ stateFile'.finisher = soaks
    <3>1. stateFile \in [status : {"running", "failed", "passed", "interrupted"}, soak : Nat,
                         completed : Nat, finisher : Nat]
      BY <1>3, <1>5 DEF SoakFiles
    <3> QED BY <1>2, <2>1, <3>1 DEF SoakFiles
  <2>3. /\ stateFile.soak <= soaks /\ stateFile.completed > 0
        /\ Logged(cycleLog, stateFile.soak, stateFile.completed - 1)
        /\ \E k \in 1..Len(cycleLog) :
              cycleLog[k].soak = stateFile.soak /\ cycleLog[k].cycle = stateFile.completed
    BY <1>3, <1>5 DEF FileTrue
  <2>4. CASE soak.cycle = 0
    <3>1. /\ stateFile.soak # soaks
          /\ \A k \in 1..Len(cycleLog) : cycleLog[k].soak # soaks
      BY <1>2, <1>5, <2>4 DEF AtWork
    <3>2. FileTrue(stateFile', cycleLog, soaks)
      BY <1>2, <2>2, <2>3, <3>1 DEF FileTrue
    <3> QED BY <1>1, <2>2, <3>2 DEF SoakInv
  <2>5. CASE soak.cycle # 0
    <3>1. /\ Logged(cycleLog, soaks, soak.cycle)
          /\ stateFile = [status |-> "running", soak |-> soaks, completed |-> soak.cycle, finisher |-> 0]
      BY <1>1, <1>2, <2>5 DEF AtWork, SoakStates
    <3>2. stateFile.soak = soaks /\ Logged(cycleLog, stateFile.soak, stateFile.completed)
      BY <3>1
    <3>3. FileTrue(stateFile', cycleLog, soaks)
      BY <1>2, <2>2, <2>3, <3>2 DEF FileTrue
    <3> QED BY <1>1, <2>2, <3>3 DEF SoakInv
  <2> QED BY <2>4, <2>5
<1> QED BY <1>4, <1>5

(* Nothing was soaked at first.                                            *)
LEMMA SoakStarts ==
  ASSUME SoakInit PROVE SoakInv
<1>1. cycleLog = <<>> /\ Len(cycleLog) = 0 /\ cycleLog \in Seq(LogLines) /\ 1..0 = {}
  BY DEF SoakInit
<1>2. stateFile \in SoakFiles /\ stateFile.status = "absent"
  BY DEF SoakInit, SoakFiles
<1> QED BY <1>1, <1>2 DEF SoakInit, SoakInv, LogOrdered, FileTrue

LEMMA SoakKept ==
  ASSUME SoakInv, Soaking \/ UNCHANGED soakVars PROVE SoakInv'
<1>1. CASE UNCHANGED soakVars
  BY <1>1 DEF soakVars, SoakInv
<1> QED BY <1>1, SoakStartKeeps, SoakAloneKeeps, LogCycleKeeps, WriteStateKeeps, FinishSoakKeeps DEF Soaking

(* What a report of a soak says is in its log.                             *)
LEMMA SoakIsHonest ==
  ASSUME SoakInv PROVE SoakHonest
<1>1. \A id, n : Logged(cycleLog, id, n) <=> Through(id, n)
  BY DEF Logged, Through, CyclesOf
<1>2. FileTrue(stateFile, cycleLog, soaks)
  BY DEF SoakInv
<1>3. \A id : \A k, l \in CyclesOf(id) : k < l => cycleLog[k].cycle < cycleLog[l].cycle
  BY DEF SoakInv, LogOrdered, CyclesOf
<1>4. \A id : CyclesOf(id) = {k \in 1..Len(cycleLog) : cycleLog[k].soak = id}
  BY DEF CyclesOf
<1> QED BY <1>1, <1>2, <1>3, <1>4 DEF SoakHonest, FileTrue

(* How many soaks were started.                                            *)
LEMMA SoaksBounded ==
  ASSUME soaks \in 0..MaxSoaks, Soaking \/ UNCHANGED soakVars
  PROVE  soaks' \in 0..MaxSoaks
<1>1. \/ soaks' = soaks
      \/ soaks < MaxSoaks /\ soaks' = soaks + 1
  BY DEF Soaking, soakVars, SoakStart, StopRequested, DeadlinePasses, BeginCycle, LeaveLoop, RunCheck,
         SoakDies, LogCycle, WriteState, FinishSoak
<1> QED BY <1>1, SoakAssumption

LEMMA SoakTyped ==
  ASSUME SoakInv, soaks \in 0..MaxSoaks PROVE SoakTypeOK
<1>1. soak.at \in {"none", "loop", "check", "state", "final"}
  BY DEF SoakInv, NoSoak, AtWork, SoakStates
<1>2. stateFile.status \in {"absent", "running", "failed", "passed", "interrupted"}
  BY DEF SoakInv, SoakFiles
<1> QED BY <1>1, <1>2 DEF SoakTypeOK
=============================================================================
