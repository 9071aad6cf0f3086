------------------------------ MODULE PlanForms ------------------------------
(***************************************************************************)
(* scripts/shared_table_plan.py writes a plan form that repeats some steps *)
(* of a source graph for every row of a table; scripts/graph_explorer.py   *)
(* publishes a page that binds the source graph, the map that the native   *)
(* program makes of it and a form to resume.  The page is made in several  *)
(* reads while the source and the form may be rewritten.                   *)
(* A step of an expanded plan is <<row, step>>; a shared step has row "".  *)
(***************************************************************************)
EXTENDS RunKernel

CONSTANTS
    TableRows,      \* keys of the table
    Written,        \* the dependencies that people write in a source, good or bad
    MaxRewrites     \* bound: how often the source or the form is rewritten

ASSUME FormAssumption ==
    /\ "" \notin TableRows /\ TableRows # {} /\ MaxRewrites \in Nat
    /\ Written \subseteq [Items -> SUBSET Items]

VARIABLES
    source,     \* the source graph: its dependencies, and the rest of its text
    form,       \* the plan form on disk
    explorer,   \* the explorer at work, and what it has read
    page,       \* the page it published
    rewrites    \* rewrites of the source and the form so far

formVars == <<source, form, explorer, page, rewrites>>

Graphs1 == [Items -> SUBSET Items]
NoForm == [made |-> FALSE]
NoMap == [made |-> FALSE]
NoPage == [made |-> FALSE]
Resting == [at |-> "none"]

(* validate_dag of the table, the frontier of the explorer: no set of      *)
(* steps that all wait for a step of the set.                              *)
Ordered(steps, deps) ==
    /\ \A s \in steps : deps[s] \subseteq steps
    /\ \A stuck \in (SUBSET steps) \ {{}} : \E s \in stuck : deps[s] \cap stuck = {}

FormInit ==
    /\ \E deps \in Written : source = [deps |-> deps, rest |-> 0]
    /\ form = NoForm /\ explorer = Resting /\ page = NoPage /\ rewrites = 0

(* Somebody saves another source graph, or restores an earlier one.        *)
Rewrite ==
    /\ rewrites < MaxRewrites /\ rewrites' = rewrites + 1
    /\ \E deps \in Written, rest \in 0..1 :
          [deps |-> deps, rest |-> rest] # source /\ source' = [deps |-> deps, rest |-> rest]
    /\ UNCHANGED <<form, explorer, page>>

----------------------------------------------------------------------------
(* expand: the repeated steps once per row, the others once.               *)

RowsOf(i, repeated) == IF i \in repeated THEN TableRows ELSE {""}
Expanded(repeated) == {s \in (TableRows \cup {""}) \X Items : s[1] \in RowsOf(s[2], repeated)}

(* Mutant: a repeated step waits for the copies of every row.              *)
ExpandedDepsAll(deps, repeated, s) ==
    UNION {{<<k, d>> : k \in RowsOf(d, repeated)} : d \in deps[s[2]]}

(* A copy waits for the copy of its row, a shared step for all copies.     *)
ExpandedDeps(deps, repeated, s) ==
    UNION {{<<k, d>> : k \in IF d \in repeated /\ s[2] \in repeated THEN {s[1]} ELSE RowsOf(d, repeated)} :
           d \in deps[s[2]]}

(* save: the source is read once, and the form carries it in full.  It is  *)
(* a new file; somebody may remove it and save another in its place.       *)
SaveForm ==
    /\ Ordered(Items, source.deps)
    /\ form.made => rewrites < MaxRewrites
    /\ rewrites' = IF form.made THEN rewrites + 1 ELSE rewrites
    /\ \E repeated \in (SUBSET Items) \ {{}} :
          form' = [made |-> TRUE, source |-> source, repeated |-> repeated, steps |-> Expanded(repeated),
                   deps |-> [s \in Expanded(repeated) |-> ExpandedDeps(source.deps, repeated, s)]]
    /\ UNCHANGED <<source, explorer, page>>

----------------------------------------------------------------------------
(* main of the explorer, with --author and perhaps --resume.  Whatever is  *)
(* refused leaves no page.                                                 *)

(* author_source reads the source, then has the native program map it.     *)
ReadSource ==
    /\ explorer = Resting /\ ~page.made
    /\ \E resume \in BOOLEAN :
          explorer' = [at |-> "map", raw |-> source, resume |-> resume, map |-> NoMap, form |-> NoForm,
                       seen |-> 0]
    /\ UNCHANGED <<source, form, page, rewrites>>

(* graph-map of the native program: the source it reads, if it has a map.  *)
NativeMap ==
    /\ explorer.at = "map"
    /\ explorer' = IF Ordered(Items, source.deps)
                   THEN [explorer EXCEPT !.at = "compare", !.map = source] ELSE Resting
    /\ UNCHANGED <<source, form, page, rewrites>>

(* The native report has the dependencies of the full source.              *)
ReportMatches(map, raw) == map.deps = raw.deps

Compare ==
    /\ explorer.at = "compare"
    /\ explorer' = IF source = explorer.raw /\ ReportMatches(explorer.map, explorer.raw)
                   THEN [explorer EXCEPT !.at = "resume"] ELSE Resting
    /\ UNCHANGED <<source, form, page, rewrites>>

(* read_resume_form: the form was made from this very source, every added  *)
(* step is a copy of a step of it, and the edited plan can be ordered.     *)
Resumable(f, raw) ==
    /\ f.source = raw
    /\ \A s \in f.steps : s[2] \in Items
    /\ \A s \in f.steps : s \notin f.deps[s]
    /\ Ordered(f.steps, f.deps)

Resume ==
    /\ explorer.at = "resume"
    /\ explorer' = IF ~explorer.resume THEN [explorer EXCEPT !.at = "render"]
                   ELSE IF form.made /\ Resumable(form, explorer.raw)
                   THEN [explorer EXCEPT !.at = "render", !.form = form]
                   ELSE Resting
    /\ UNCHANGED <<source, form, page, rewrites>>

(* Mutant: the source is not read again before the page is written.        *)
SourceStillTrusted(raw) == TRUE

(* After the page is rendered, the source must have the bytes it had ...   *)
SourceStill(raw) == source = raw

RecheckSource ==
    /\ explorer.at = "render"
    /\ explorer' = IF SourceStill(explorer.raw)
                   THEN [explorer EXCEPT !.at = IF explorer.resume THEN "form" ELSE "write", !.seen = rewrites]
                   ELSE Resting
    /\ UNCHANGED <<source, form, page, rewrites>>

(* ... and then the form that is resumed, in a read of its own.            *)
RecheckForm ==
    /\ explorer.at = "form"
    /\ explorer' = IF form = explorer.form THEN [explorer EXCEPT !.at = "write"] ELSE Resting
    /\ UNCHANGED <<source, form, page, rewrites>>

(* open "xb": a new page.  It remembers what was on disk, and whether that *)
(* was rewritten since the source was read for the last time (history).    *)
WritePage ==
    /\ explorer.at = "write" /\ explorer' = Resting
    /\ page' = [made |-> TRUE, raw |-> explorer.raw, map |-> explorer.map, form |-> explorer.form,
                onDisk |-> [source |-> source, form |-> form], raced |-> rewrites # explorer.seen]
    /\ UNCHANGED <<source, form, rewrites>>

Forms ==
    \/ Rewrite \/ SaveForm \/ ReadSource \/ NativeMap \/ Compare \/ Resume
    \/ RecheckSource \/ RecheckForm \/ WritePage

----------------------------------------------------------------------------
(* Properties.                                                             *)

FormTypeOK ==
    /\ source \in [deps : Graphs1, rest : 0..1] /\ rewrites \in 0..MaxRewrites
    /\ explorer.at \in {"none", "map", "compare", "resume", "render", "form", "write"}
    /\ form.made => form.steps \subseteq (TableRows \cup {""}) \X Items

(* An expanded form means the source: leaving the rows out of it gives the *)
(* steps and the links of the source back, no copy waits for a copy of     *)
(* another row, and the explorer takes the form for that source.           *)
ExpansionSound ==
    form.made =>
        /\ {s[2] : s \in form.steps} = Items
        /\ \A s \in form.steps : {d[2] : d \in form.deps[s]} = form.source.deps[s[2]]
        /\ \A s \in form.steps : \A d \in form.deps[s] : s[1] = d[1] \/ s[1] = "" \/ d[1] = ""
        /\ \A s \in form.steps : s[1] = "" =>
              \A d \in form.source.deps[s[2]] : {t \in form.steps : t[2] = d} \subseteq form.deps[s]
        /\ Resumable(form, form.source)

(* A page is made of one source: the map it shows has the links of the     *)
(* text it embeds and the form it resumes was made from that text, although*)
(* each of them was read at another moment.  The text and the form are the *)
(* ones on disk when the page is written, unless one of them was rewritten *)
(* between the last reading of the source and the writing: the re-checks   *)
(* leave no other window.                                                  *)
PublishedFromOneSource ==
    page.made =>
        /\ page.map.deps = page.raw.deps
        /\ page.form.made => page.form.source = page.raw
        /\ page.onDisk.source # page.raw \/ (page.form.made /\ page.onDisk.form # page.form) => page.raced
=============================================================================
