--------------------------- MODULE ConformanceScan ---------------------------
(***************************************************************************)
(* conformance/boundary_scan.py: the registered files have the registered  *)
(* content, nothing else is a production source, and what a source may     *)
(* mention depends on the package surface it is registered in.  The        *)
(* symbols of a layer are read from its interfaces as they are now.        *)
(* A file is one of a small set; a content stands for its digest, and says *)
(* which symbols it declares, which it mentions, and which class of text   *)
(* that some rule matches it holds.                                        *)
(***************************************************************************)
EXTENDS Integers, FiniteSets
LOCAL INSTANCE TLC

CONSTANTS
    Files,          \* paths of the repository
    Form,           \* Form[f]: "source", "interface", "test", "native", "manifest" or "serialized"
    Section,        \* Section[f]: the surface a path is registered for
    Trees,          \* repositories to start from: the content of every file
    SharedSymbols,  \* the three retry symbols that effects and orchestration share
    Fixtures,       \* negative fixtures: left out of the scan of the repository
    TermAllowlist,  \* term_path_allowlist
    MaxCommits      \* bound: changes of the repository and its registration

(* Surfaces, from the lowest layer; "runtime" is the frozen baseline.      *)
Layers == <<"flow3", "flow4a", "flow5a", "flow6a", "v2", "flow7a">>
Surfaces == {Layers[k] : k \in 1..6} \cup {"runtime"}

ASSUME ScanAssumption ==
    /\ Form \in [Files -> {"source", "interface", "test", "native", "manifest", "serialized"}]
    /\ Section \in [Files -> Surfaces] /\ MaxCommits \in Nat
    /\ \A t \in Trees : DOMAIN t = Files /\ \A f \in Files : DOMAIN t[f] = {"declares", "mentions", "text"}

VARIABLES
    tree,       \* tree[f]: the content of the file, for the files that exist
    rules,      \* boundary-rules.json: the registered files and contents, the inventory
    scan,       \* the findings of the last scan of this tree
    commits     \* changes so far

scanVars == <<tree, rules, scan, commits>>

NotScanned == [done |-> FALSE, findings |-> {}]

(* A registered repository: each file has one of the contents.             *)
ScanInit ==
    /\ tree \in Trees
    /\ \E R \in {Files} \cup {Files \ {f} : f \in Files} :
          rules = [files |-> [f \in R |-> tree[f]],
                   inventory |-> [f \in {g \in R : Section[g] = "flow7a"} |-> tree[f]]]
    /\ scan = NotScanned /\ commits = 0

----------------------------------------------------------------------------
(* Changes: of a file, of its registration, of the digest over the section *)
(* of the orchestration.                                                   *)

(* The contents a file may be changed to.                                  *)
ContentsOf(f) == {t[f] : t \in Trees}
Write(f) == \E c \in ContentsOf(f) :
    tree' = [g \in DOMAIN tree \cup {f} |-> IF g = f THEN c ELSE tree[g]] /\ UNCHANGED rules
Delete(f) == f \in DOMAIN tree /\ tree' = [g \in DOMAIN tree \ {f} |-> tree[g]] /\ UNCHANGED rules
Register(f) ==
    /\ f \in DOMAIN tree /\ UNCHANGED tree
    /\ rules' = [rules EXCEPT !.files = [g \in DOMAIN @ \cup {f} |-> IF g = f THEN tree[f] ELSE @[g]]]
Inventory == [f \in {g \in DOMAIN rules.files : Section[g] = "flow7a"} |-> rules.files[f]]
Commit ==
    /\ commits < MaxCommits /\ commits' = commits + 1 /\ scan' = NotScanned
    /\ \/ \E f \in Files : Write(f) \/ Delete(f) \/ Register(f)
       \/ rules' = [rules EXCEPT !.inventory = Inventory] /\ UNCHANGED tree

----------------------------------------------------------------------------
(* Symbols and surfaces.                                                   *)

(* is_..._surface: a registered production or interface path.              *)
SurfaceOf(f) ==
    IF f \in DOMAIN rules.files /\ Form[f] \in {"source", "native", "interface"} THEN Section[f] ELSE "none"

(* ..._public_symbols: declared by a registered interface of the layer.    *)
DeclaredIn(layer) ==
    UNION {tree[f].declares : f \in {g \in DOMAIN rules.files \cap DOMAIN tree :
                                       Form[g] = "interface" /\ Section[g] = layer}}

(* Mutant: the symbols of the layer itself are taken for inherited ones.   *)
LowerSymbolsAndOwn == UNION {DeclaredIn(Layers[k]) : k \in 1..5}

(* The layers below "v2" keep their symbols, whoever declares them again.  *)
LowerSymbols == UNION {DeclaredIn(Layers[k]) : k \in 1..4}
PublicSymbols(layer) == IF layer = "v2" THEN DeclaredIn("v2") \ LowerSymbols ELSE DeclaredIn(layer)

----------------------------------------------------------------------------
(* scan_source_or_interface.                                               *)

Upper == {"flow5a", "flow6a", "v2", "flow7a"}
Everywhere == Surfaces \cup {"none"}

(* The surfaces on which a class of text is reported, and the rule: the    *)
(* rules that hold for all code but for some layers, the rules of a layer, *)
(* and the guards that code must hold.                                     *)
BaselineRules ==
    [external_identifier  |-> [rule |-> "DOM001", on |-> Everywhere],
     pack_vocabulary      |-> [rule |-> "DOM002", on |-> Everywhere \ Upper],
     product_branch       |-> [rule |-> "DOM003", on |-> Everywhere],
     domain_vocabulary    |-> [rule |-> "DOM004", on |-> Everywhere],
     secret_field         |-> [rule |-> "SEC001", on |-> Everywhere],
     fencing_token_field  |-> [rule |-> "SEC001", on |-> Everywhere \ {"flow6a", "flow7a"}],
     credential_value     |-> [rule |-> "SEC002", on |-> Everywhere],
     unversioned_record   |-> [rule |-> "DUR001", on |-> Everywhere],
     success_accepts      |-> [rule |-> "REV001", on |-> Everywhere],
     unguarded_acceptance |-> [rule |-> "REV002", on |-> Everywhere],
     review_guards_absent |-> [rule |-> "REV003", on |-> Everywhere],
     attestation          |-> [rule |-> "AUTH001", on |-> Everywhere \ {"flow5a"}],
     later_runtime        |-> [rule |-> "SCOPE001", on |-> Everywhere \ {"flow6a", "flow7a", "v2"}]]

LayerRules ==
    [later_identifier     |-> [rule |-> "FLOW4B001", on |-> Everywhere \ Upper],
     trusted_registry     |-> [rule |-> "FLOW4B001", on |-> Everywhere \ (Upper \cup {"flow4a"})],
     provider_call        |-> [rule |-> "FLOW4B001", on |-> Everywhere \ Upper],
     coordination         |-> [rule |-> "FLOW5A001", on |-> {"flow5a"}],
     review_bypass        |-> [rule |-> "FLOW5A002", on |-> {"flow5a"}],
     storage_duplicate    |-> [rule |-> "FLOW5A003", on |-> {"flow5a"}],
     product_vocabulary   |-> [rule |-> "FLOW5A004", on |-> {"flow5a"}],
     concrete_effect      |-> [rule |-> "FLOW6A001", on |-> {"flow6a"}],
     governance_duplicate |-> [rule |-> "FLOW6A003", on |-> {"flow6a"}],
     later_phase          |-> [rule |-> "FLOW6A004", on |-> {"flow6a"}],
     active_shortcut      |-> [rule |-> "FLOW7A001", on |-> {"flow7a"}],
     effect_duplicate     |-> [rule |-> "FLOW7A002", on |-> {"flow7a"}],
     ambient_call         |-> [rule |-> "FLOW7A003", on |-> {"flow7a"}],
     effect_port_call     |-> [rule |-> "FLOW7A004", on |-> {"flow7a"}],
     operator_vocabulary  |-> [rule |-> "FLOW7A005", on |-> {"flow7a"}]]

AnchorRules ==
    [append_unguarded     |-> [rule |-> "IDEM001", on |-> Everywhere],
     containment_absent   |-> [rule |-> "PATH001", on |-> Everywhere],
     realpath_absent      |-> [rule |-> "PATH002", on |-> Everywhere],
     plain                |-> [rule |-> "none", on |-> {}]]

TextRules == BaselineRules @@ LayerRules @@ AnchorRules

(* Only in the interface of the contract layer.                            *)
InterfaceRules == [later_contract |-> "SCOPE002", side_effect |-> "API002"]

ScopeRule ==
    [flow3 |-> "SCOPE001", flow4a |-> "SCOPE003", flow5a |-> "SCOPE005",
     flow6a |-> "SCOPE007", v2 |-> "SCOPE011", flow7a |-> "SCOPE009"]

(* The surfaces that may mention the public symbols of a layer: itself and *)
(* the layers above it.                                                    *)
MayMention ==
    [flow3 |-> {"flow3", "flow4a"} \cup Upper, flow4a |-> {"flow4a"} \cup Upper, flow5a |-> Upper,
     flow6a |-> {"flow6a", "v2", "flow7a"}, v2 |-> {"v2", "flow7a"}, flow7a |-> {"flow7a"}]

Exempt(f, layer, symbol) ==
    \/ SurfaceOf(f) \in MayMention[layer]
    \/ layer = "flow7a" /\ SurfaceOf(f) = "flow6a" /\ symbol \in SharedSymbols

ScopeFindings(f, content) ==
    {[path |-> f, rule |-> ScopeRule[layer]] : layer \in
        {l \in DOMAIN ScopeRule : \E s \in PublicSymbols(l) \cap (content.declares \cup content.mentions) :
                                     ~Exempt(f, l, s)}}

TextFindings(f, content) ==
    {[path |-> f, rule |-> TextRules[t].rule] : t \in
        {t \in {content.text} \cap DOMAIN TextRules : SurfaceOf(f) \in TextRules[t].on}}
      \cup {[path |-> f, rule |-> InterfaceRules[t]] : t \in
        {t \in {content.text} \cap DOMAIN InterfaceRules :
           SurfaceOf(f) = "flow3" /\ Form[f] = "interface"}}

----------------------------------------------------------------------------
(* scan_manifest and scan_serialized.                                      *)

ManifestFindings(f, content) ==
    IF content.text \in {"external_identifier", "pack_dependency"} THEN {[path |-> f, rule |-> "DEP001"]} ELSE {}
SerializedFindings(f, content) ==
    CASE content.text = "secret_field"     -> {[path |-> f, rule |-> "SEC001"]}
      [] content.text = "credential_value" -> {[path |-> f, rule |-> "SEC002"]}
      [] OTHER                             -> {}

----------------------------------------------------------------------------
(* hash_findings and scan_repository.                                      *)

(* Mutant: a section is left out of the comparison of digests.             *)
HashFindingsPartial ==
    {[path |-> f, rule |-> "drift"] : f \in
        {g \in DOMAIN rules.files : Section[g] # "flow6a" /\ (g \notin DOMAIN tree \/ tree[g] # rules.files[g])}}

(* A registered file that is missing has drifted as well; the inventory of *)
(* the orchestration is the one that was approved.                         *)
HashFindings ==
    {[path |-> f, rule |-> "drift"] : f \in
        {g \in DOMAIN rules.files : g \notin DOMAIN tree \/ tree[g] # rules.files[g]}}
      \cup {[path |-> "boundary-rules.json", rule |-> "API009"] : k \in
        {k \in {1} : rules.inventory # Inventory}}

ProductionSources == {f \in DOMAIN tree : Form[f] = "source" /\ f \notin Fixtures}
NativeSources == {f \in DOMAIN tree : Form[f] = "native"}

(* New sources outside the registration.                                   *)
UnregisteredFindings ==
    {[path |-> f, rule |-> "SRC002"] : f \in ProductionSources \ DOMAIN rules.files}
      \cup {[path |-> f, rule |-> "SRC005"] : f \in
        {g \in NativeSources : g \notin DOMAIN rules.files \/ Section[g] # "flow4a"}}

ContentFindings(f) ==
    CASE Form[f] = "manifest"   -> ManifestFindings(f, tree[f])
      [] Form[f] = "serialized" -> SerializedFindings(f, tree[f])
      [] f \in ProductionSources \/ Form[f] = "interface" ->
            ScopeFindings(f, tree[f]) \cup TextFindings(f, tree[f])
      [] OTHER -> {}

(* An interface that is registered and missing ends the scan with an error *)
(* in place of findings.                                                   *)
Scan ==
    /\ ~scan.done
    /\ scan' = [done |-> TRUE,
                findings |-> HashFindings \cup UnregisteredFindings
                   \cup UNION {ContentFindings(f) : f \in DOMAIN tree \ (Fixtures \cup TermAllowlist)}]
    /\ UNCHANGED <<tree, rules, commits>>

Conformance == Commit \/ Scan

----------------------------------------------------------------------------
(* Properties.                                                             *)

Clean == scan.done /\ scan.findings = {}
ScanTypeOK ==
    /\ DOMAIN tree \subseteq Files /\ DOMAIN rules.files \subseteq Files /\ commits \in 0..MaxCommits
    /\ \A f \in DOMAIN tree : DOMAIN tree[f] = {"declares", "mentions", "text"}
    /\ scan.done \in BOOLEAN

(* Nothing is in the product that was not approved: in a clean repository  *)
(* every production source, MoonBit or C, has the content it was           *)
(* registered with, no registered file is gone, and the orchestration is   *)
(* the approved inventory.                                                 *)
DriftReported ==
    Clean =>
        /\ \A f \in DOMAIN tree : Form[f] \in {"source", "native"} /\ f \notin Fixtures =>
              f \in DOMAIN rules.files /\ tree[f] = rules.files[f]
        /\ DOMAIN rules.files \subseteq DOMAIN tree
        /\ \A f \in DOMAIN tree : f \in DOMAIN rules.files /\ Section[f] = "flow7a" =>
              rules.inventory[f] = tree[f]

(* Layering: in a clean repository a source or interface that is scanned   *)
(* mentions a public symbol only if some layer that declares it is not     *)
(* above its own, but for the three shared symbols; this holds after any   *)
(* change of what an interface declares and where a file is registered.    *)
Rank(surface) == IF surface \in {"none", "runtime"} THEN 0 ELSE CHOOSE k \in 1..6 : Layers[k] = surface
LayersContained ==
    Clean =>
        \A f \in DOMAIN tree \ (Fixtures \cup TermAllowlist), s \in UNION {DeclaredIn(Layers[k]) : k \in 1..6} :
           (Form[f] \in {"source", "interface"} /\ s \in tree[f].declares \cup tree[f].mentions) =>
              \/ \E k \in 1..Rank(SurfaceOf(f)) : s \in DeclaredIn(Layers[k])
              \/ s \in SharedSymbols /\ SurfaceOf(f) = "flow6a"
=============================================================================
