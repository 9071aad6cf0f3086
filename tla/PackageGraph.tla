---------------------------- MODULE PackageGraph ----------------------------
(***************************************************************************)
(* conformance/check_phase1c_package_graph.py: compares the orchestration  *)
(* packages of the checkout with the registered graph, and walks their     *)
(* imports depth first for a cycle.  Between two checks the checkout is    *)
(* changed and the registration is brought up to date.  A file is its      *)
(* text, a text stands for its digest and has as many lines as its number. *)
(***************************************************************************)
EXTENDS Integers, Sequences, FiniteSets
LOCAL INSTANCE FiniteSetsExt

CONSTANTS
    InTree,             \* packages under closed_loop/orchestration
    Outside,            \* other packages of the repository
    Facade,             \* the facade; the other packages of the tree are internal
    AllowedImporters,   \* allowed_internal_importers
    ForbiddenImports,   \* packages with a forbidden fragment in their name
    SourceFiles,        \* source files of the tree
    Anchored,           \* of them, those whose digest is registered
    InterfaceLines,     \* lines of the interface of the facade
    AdditionLines,      \* lines that declare a symbol of the allowlist
    MaxChanges          \* bound: changes of the checkout and the registration

Packages == InTree \cup Outside
Internal == InTree \ {Facade}

ASSUME GraphAssumption ==
    /\ Facade \in InTree /\ AllowedImporters \subseteq Packages
    /\ Anchored \subseteq SourceFiles
    /\ ForbiddenImports \subseteq Outside /\ AdditionLines \subseteq InterfaceLines
    /\ MaxChanges \in Nat

VARIABLES
    repo,       \* the checkout: imports of every manifest, sources, interface lines
    graph,      \* phase1c-a-package-graph.json and the registered sections
    walk,       \* the depth first search
    verdict,    \* what the check said of this checkout
    changes     \* changes so far

graphVars == <<repo, graph, walk, verdict, changes>>

Discovered(r) == DOMAIN r.imports \cap InTree
IsConfigured(g, p) == p \in DOMAIN g.imports

(* The metrics: files, lines, and imports among configured packages.       *)
Local(r, g, p) == {q \in r.imports[p] : IsConfigured(g, q)}
Measured(r, g) ==
    [files |-> Cardinality({f \in SourceFiles : r.text[f] # 0}),
     loc   |-> MapThenSumSet(LAMBDA f : r.text[f], SourceFiles),
     edges |-> Cardinality({e \in Discovered(r) \X Packages : e[2] \in Local(r, g, e[1])})]

(* A registration of the checkout with the packages P.                     *)
Registration(r, P) ==
    LET listed == [imports |-> [p \in P |-> r.imports[p]]]
    IN  [imports |-> listed.imports, text |-> r.text, lines |-> r.lines, measured |-> Measured(r, listed)]

Resting1 == [at |-> "rest"]

GraphInit ==
    /\ \E deps \in [InTree -> SUBSET InTree] :
          /\ \A p \in InTree : Facade \notin deps[p]
          /\ \A p, q \in Internal : q \in deps[p] => p \notin deps[q]
          /\ repo = [imports |-> [p \in Packages |-> IF p \in InTree THEN deps[p] ELSE {}],
                     text |-> [f \in SourceFiles |-> 1], lines |-> InterfaceLines]
    /\ \E P \in {InTree, {Facade}} : graph = Registration(repo, P)
    /\ walk = Resting1 /\ verdict = "none" /\ changes = 0

----------------------------------------------------------------------------
(* The checkout changes, and the registration after it.                    *)

ImportChanges == \E p \in DOMAIN repo.imports, q \in Packages :
    repo' = [repo EXCEPT !.imports[p] = IF q \in @ THEN @ \ {q} ELSE @ \cup {q}]
PackageRemoved == \E p \in (DOMAIN repo.imports \cap InTree) \ {Facade} :
    repo' = [repo EXCEPT !.imports = [q \in DOMAIN @ \ {p} |-> @[q]]]
FileChanges == \E f \in SourceFiles, t \in 0..2 :
    t # repo.text[f] /\ repo' = [repo EXCEPT !.text[f] = t]
LineChanges == \E l \in InterfaceLines :
    repo' = [repo EXCEPT !.lines = IF l \in @ THEN @ \ {l} ELSE @ \cup {l}]

RepoChanges ==
    /\ walk = Resting1 /\ changes < MaxChanges /\ changes' = changes + 1 /\ verdict' = "none"
    /\ \/ /\ ImportChanges \/ PackageRemoved \/ FileChanges \/ LineChanges
          /\ UNCHANGED graph
       \/ graph' = Registration(repo, Discovered(repo)) /\ UNCHANGED repo
    /\ UNCHANGED walk

----------------------------------------------------------------------------
(* The checks of main besides the cycle: TRUE where an error is reported.  *)

(* private_import_violations, over every manifest of the repository.       *)
PrivateImport(r) == \E p \in DOMAIN r.imports \ AllowedImporters : r.imports[p] \cap Internal # {}

(* check_additive_facade_interface: what declares no allowed symbol is     *)
(* exactly the base, and the additions are exactly the reviewed ones.      *)
InterfaceDiffers(r, g) ==
    \/ r.lines \ AdditionLines # g.lines \ AdditionLines
    \/ r.lines \cap AdditionLines # g.lines \cap AdditionLines

(* check_semantic_corpus and the compatibility artifacts: only the files   *)
(* that are listed there are digested.                                     *)
Drifted(r, g) == \E f \in Anchored : g.text[f] # 0 /\ r.text[f] # g.text[f]

Reported(r, g) ==
    \/ Discovered(r) # DOMAIN g.imports
    \/ \E p \in Discovered(r) : r.imports[p] # IF IsConfigured(g, p) THEN g.imports[p] ELSE {}
    \/ \E p \in Discovered(r) : r.imports[p] \cap ForbiddenImports # {}
    \/ \E p \in Discovered(r) \ {Facade} : Facade \in r.imports[p]
    \/ PrivateImport(r)
    \/ Measured(r, g) # g.measured
    \/ \E f \in SourceFiles : r.text[f] # 0 /\ g.text[f] = 0
    \/ Drifted(r, g)
    \/ InterfaceDiffers(r, g)

----------------------------------------------------------------------------
(* cycle: the recursion as a stack.  A deterministic choice stands for the *)
(* sorted order.                                                           *)

First(S) == CHOOSE p \in S : TRUE
OnStack == {walk.stack[k] : k \in 1..Len(walk.stack)}
Top == walk.stack[Len(walk.stack)]

(* Mutant: only what the facade reaches is searched.                       *)
RootsFacade(r) == {Facade}

Roots(r) == Discovered(r)

CheckStart ==
    /\ walk = Resting1 /\ verdict = "none"
    /\ walk' = [at |-> "search", roots |-> Roots(repo), stack |-> <<>>, done |-> {},
                left |-> [p \in Discovered(repo) |-> Local(repo, graph, p)], cycle |-> <<>>]
    /\ UNCHANGED <<repo, graph, verdict, changes>>

Push(p) == walk' = [walk EXCEPT !.stack = Append(@, p)]
Searching == walk.at = "search" /\ UNCHANGED <<repo, graph, changes>>

NextRoot ==
    /\ Searching /\ walk.stack = <<>> /\ walk.roots # {}
    /\ LET p == First(walk.roots)
       IN  IF p \in walk.done THEN walk' = [walk EXCEPT !.roots = @ \ {p}] ELSE Push(p)
    /\ UNCHANGED verdict

(* The next import of the package on top.                                  *)
Visit ==
    /\ Searching /\ walk.stack # <<>> /\ walk.left[Top] # {}
    /\ LET p == First(walk.left[Top])
       IN  IF p \in OnStack
           THEN LET k == CHOOSE k \in 1..Len(walk.stack) : walk.stack[k] = p
                IN  walk' = [walk EXCEPT !.at = "found",
                                         !.cycle = SubSeq(walk.stack, k, Len(walk.stack)) \o <<p>>]
           ELSE IF p \in walk.done THEN walk' = [walk EXCEPT !.left[Top] = @ \ {p}]
           ELSE p \in DOMAIN walk.left /\ Push(p)
    /\ UNCHANGED verdict

(* edges[node] of a configured package without a manifest: a KeyError, and *)
(* the errors collected so far are not printed.                            *)
WalkCrashes ==
    /\ Searching /\ walk.stack # <<>> /\ walk.left[Top] # {}
    /\ First(walk.left[Top]) \notin DOMAIN walk.left
    /\ walk' = Resting1 /\ verdict' = "crash"

Leave ==
    /\ Searching /\ walk.stack # <<>> /\ walk.left[Top] = {}
    /\ walk' = [walk EXCEPT !.stack = SubSeq(@, 1, Len(@) - 1), !.done = @ \cup {Top}]
    /\ UNCHANGED verdict

CheckEnds ==
    /\ \/ walk.at = "found"
       \/ walk.at = "search" /\ walk.stack = <<>> /\ walk.roots = {}
    /\ verdict' = IF walk.cycle # <<>> \/ Reported(repo, graph) THEN "fail" ELSE "pass"
    /\ walk' = Resting1
    /\ UNCHANGED <<repo, graph, changes>>

CheckGraph == RepoChanges \/ CheckStart \/ NextRoot \/ Visit \/ WalkCrashes \/ Leave \/ CheckEnds

----------------------------------------------------------------------------
(* Properties.                                                             *)

GraphTypeOK ==
    /\ Facade \in DOMAIN repo.imports /\ DOMAIN repo.imports \subseteq Packages
    /\ walk.at \in {"rest", "search", "found"} /\ verdict \in {"none", "pass", "fail", "crash"}
    /\ changes \in 0..MaxChanges

(* The search is right: a reported cycle is a cycle of imports, a package  *)
(* that is done leads to no package on the stack, and a checkout that      *)
(* passes has none, is the registered one, and lets nobody else into its   *)
(* internal packages.  The search crashes only on a checkout that lacks a  *)
(* registered package.                                                     *)
NoCycle(P) == \A stuck \in (SUBSET P) \ {{}} : \E p \in stuck : repo.imports[p] \cap stuck = {}
GraphVerdict ==
    /\ walk.at = "found" =>
          /\ Len(walk.cycle) > 1 /\ walk.cycle[1] = walk.cycle[Len(walk.cycle)]
          /\ \A k \in 1..(Len(walk.cycle) - 1) : walk.cycle[k + 1] \in repo.imports[walk.cycle[k]]
    /\ walk.at = "search" =>
          \A p \in walk.done : Local(repo, graph, p) \subseteq walk.done
    /\ verdict = "pass" =>
          /\ Discovered(repo) = DOMAIN graph.imports /\ NoCycle(Discovered(repo))
          /\ \A p \in Packages \ AllowedImporters :
                p \in DOMAIN repo.imports => repo.imports[p] \cap Internal = {}
    /\ verdict = "crash" => ~(DOMAIN graph.imports \subseteq DOMAIN repo.imports)
=============================================================================
