--------------------------- MODULE PlanWorksheets ---------------------------
(***************************************************************************)
(* scripts/worksheet_merge.py and scripts/input_rebindings.py: a plan is   *)
(* exported as a worksheet, two people edit copies of it, and the copies   *)
(* are merged; inputs shared by many items are rebound through a mapping.  *)
(* People decide on what a preview or an inventory showed them, while the  *)
(* sheets may be edited further; a sheet stands for its bytes and digest.  *)
(* A row keeps two of the editable fields: inputs, and dependencies, which *)
(* must stay acyclic.  The order within a list is abstracted.              *)
(***************************************************************************)
EXTENDS RunKernel

CONSTANTS
    Refs,           \* input artifacts
    InputLists,     \* bound: the lists of inputs that people write; never an empty one
    MaxEdits        \* bound: edits of a cell

ASSUME WorksheetAssumption ==
    /\ InputLists \subseteq (SUBSET Refs) \ {{}} /\ Refs # {}
    /\ MaxEdits \in Nat

VARIABLES
    sheet,          \* sheet[s]: the worksheet base, left or right
    edits,          \* edits so far
    resolution,     \* what a person chose for the conflicts of a preview
    merged,         \* the merged worksheet, with what it was made from
    mapping,        \* replacements a person wrote down from an inventory
    rebound         \* the rebound worksheet, with what it was made from

worksheetVars == <<sheet, edits, resolution, merged, mapping, rebound>>

Branches == {"left", "right"}
Fields == {"inputs", "deps"}
Values == [inputs |-> InputLists, deps |-> SUBSET Items]
Rows == [inputs : (SUBSET Refs) \ {{}}, deps : SUBSET Items]
Cells == Items \X Fields
CellOf(s, c) == s[c[1]][c[2]]
Missing == [made |-> FALSE]

(* The exported worksheet, of a plan without dependencies; both branches   *)
(* start from it.                                                          *)
Exported == [i \in Items |-> [inputs |-> Refs, deps |-> {}]]
WorksheetInit ==
    /\ sheet = [s \in Branches \cup {"base"} |-> Exported]
    /\ edits = 0 /\ resolution = Missing /\ merged = Missing /\ mapping = Missing /\ rebound = Missing

(* validate_graph: it gets stuck on a set of items that all wait for an    *)
(* item of the set.                                                        *)
Acyclic(s) == \A stuck \in (SUBSET Items) \ {{}} : \E i \in stuck : s[i].deps \cap stuck = {}

(* Bound: one worksheet is saved; what happens after it is of no interest. *)
EditCell(b, c) ==
    /\ ~merged.made /\ ~rebound.made
    /\ edits < MaxEdits /\ edits' = edits + 1
    /\ \E v \in Values[c[2]] :
          v # CellOf(sheet[b], c) /\ sheet' = [sheet EXCEPT ![b][c[1]][c[2]] = v]
    /\ UNCHANGED <<resolution, merged, mapping, rebound>>

----------------------------------------------------------------------------
(* merge                                                                   *)

(* Both branches changed the cell, to different values.                    *)
Conflicting(base, left, right, c) ==
    Cardinality({CellOf(base, c), CellOf(left, c), CellOf(right, c)}) = 3
Conflicts == {c \in Cells : Conflicting(sheet["base"], sheet["left"], sheet["right"], c)}

(* A branch whose own graph is cyclic is refused before anything is shown. *)
Mergeable == \A s \in DOMAIN sheet : Acyclic(sheet[s])

(* merge preview, and the person who fills in its template.                *)
Resolve ==
    /\ Mergeable /\ Conflicts # {} /\ ~(resolution.made /\ resolution.sheets = sheet)
    /\ \E choice \in [Conflicts -> {"base", "left", "right"}] :
          resolution' = [made |-> TRUE, sheets |-> sheet, choice |-> choice]
    /\ UNCHANGED <<sheet, edits, merged, mapping, rebound>>

(* Mutant: the digests of the resolution are not compared.                 *)
ResolutionUnbound == resolution.made /\ DOMAIN resolution.choice = Conflicts

(* The resolution names the bytes at hand, and every conflict once.        *)
ResolutionCurrent ==
    resolution.made /\ resolution.sheets = sheet /\ DOMAIN resolution.choice = Conflicts

(* A change of one branch is taken, the same change of both as well.       *)
MergedCell(c) ==
    LET base == CellOf(sheet["base"], c) left == CellOf(sheet["left"], c) right == CellOf(sheet["right"], c)
    IN  IF c \in Conflicts THEN CellOf(sheet[resolution.choice[c]], c)
        ELSE IF left = base THEN right ELSE left
MergedSheet ==
    [i \in Items |-> [inputs |-> MergedCell(<<i, "inputs">>), deps |-> MergedCell(<<i, "deps">>)]]

(* save: a new file, unless the merged plan is cyclic.                     *)
MergeSave ==
    /\ ~merged.made /\ Mergeable
    /\ Conflicts = {} \/ ResolutionCurrent
    /\ Acyclic(MergedSheet)
    /\ merged' = [made |-> TRUE, rows |-> MergedSheet, from |-> sheet,
                  seen |-> IF Conflicts = {} THEN Missing ELSE resolution]
    /\ UNCHANGED <<sheet, edits, resolution, mapping, rebound>>

----------------------------------------------------------------------------
(* inventory and plan_rebindings, of the left branch                       *)

Known(s) == UNION {s[i].inputs : i \in Items}

(* A person writes a mapping for inputs that the inventory lists.          *)
WriteMapping ==
    /\ ~rebound.made /\ ~(mapping.made /\ mapping.of = sheet["left"])
    /\ \E froms \in (SUBSET Known(sheet["left"])) \ {{}} : \E to \in [froms -> Refs] :
          /\ \A ref \in froms : to[ref] # ref
          /\ mapping' = [made |-> TRUE, of |-> sheet["left"], to |-> to]
    /\ UNCHANGED <<sheet, edits, resolution, merged, rebound>>

Replacement(to, ref) == IF ref \in DOMAIN to THEN to[ref] ELSE ref
Replaced(to, refs) == {Replacement(to, ref) : ref \in refs}

(* The mapping names these bytes, and only inputs they hold.               *)
MappingCurrent ==
    mapping.made /\ mapping.of = sheet["left"] /\ DOMAIN mapping.to \subseteq Known(sheet["left"])

(* rebind: refused when two inputs of an item would become the same.       *)
Rebind ==
    /\ ~rebound.made /\ MappingCurrent
    /\ \A i \in Items : Cardinality(Replaced(mapping.to, sheet["left"][i].inputs))
                          = Cardinality(sheet["left"][i].inputs)
    /\ rebound' = [made |-> TRUE, seen |-> mapping,
                   rows |-> [i \in Items |-> [sheet["left"][i] EXCEPT !.inputs = Replaced(mapping.to, @)]]]
    /\ UNCHANGED <<sheet, edits, resolution, merged, mapping>>

Merging == (\E b \in Branches, c \in Cells : EditCell(b, c)) \/ Resolve \/ MergeSave
Rebinding == (\E i \in Items : EditCell("left", <<i, "inputs">>)) \/ WriteMapping \/ Rebind

----------------------------------------------------------------------------
(* Properties.                                                             *)

WorksheetTypeOK ==
    /\ \A s \in DOMAIN sheet : sheet[s] \in [Items -> Rows]
    /\ edits \in 0..MaxEdits
    /\ merged.made => merged.rows \in [Items -> Rows]
    /\ rebound.made => rebound.rows \in [Items -> Rows]

(* A saved worksheet is what its people asked for.  Merged: no edit of a   *)
(* branch is lost except to a choice of a person who was shown both        *)
(* values of that cell, and two acyclic branches are never merged into a   *)
(* cyclic plan.  Rebound: the inputs of every item are the ones the person *)
(* was shown, replaced one for one, and nothing else changed.              *)
EditKept(b, c) ==
    CellOf(merged.from[b], c) \in {CellOf(merged.from["base"], c), CellOf(merged.rows, c)}
ShownConflict(c) ==
    /\ merged.seen.made /\ c \in DOMAIN merged.seen.choice
    /\ \A s \in DOMAIN merged.from : CellOf(merged.seen.sheets[s], c) = CellOf(merged.from[s], c)
    /\ CellOf(merged.rows, c) = CellOf(merged.from[merged.seen.choice[c]], c)
WorksheetsKeepIntent ==
    /\ merged.made =>
          /\ Acyclic(merged.rows)
          /\ \A c \in Cells, b \in Branches : EditKept(b, c) \/ ShownConflict(c)
          /\ \A c \in Cells : \E s \in DOMAIN merged.from : CellOf(merged.rows, c) = CellOf(merged.from[s], c)
    /\ rebound.made =>
          \A i \in Items :
             LET shown == rebound.seen.of[i]
             IN  /\ rebound.rows[i].deps = shown.deps
                 /\ \A ref \in shown.inputs : Replacement(rebound.seen.to, ref) \in rebound.rows[i].inputs
                 /\ Cardinality(rebound.rows[i].inputs) = Cardinality(shown.inputs)
=============================================================================
