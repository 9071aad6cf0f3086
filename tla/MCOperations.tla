---------------------------- MODULE MCOperations ----------------------------
(* A small workspace and a small repository for every session.             *)
EXTENDS Operations
CONSTANTS a, b, facade, inner, leaf, ext
MCDependsOn == [i \in Items |-> IF i = b THEN {a} ELSE {}]
MCSessions ==
    {{"supervisor", "kill"}, {"supervisor", "operator"}, {"supervisor", "batch"}, {"operator", "batch"},
     {"review"}, {"merge"}, {"rebind"}, {"forms"}, {"graph"}, {"scan"}, {"soak"}}
Workspace(imported, failures, served, budget, kills) ==
    [imported |-> imported, failures |-> failures, served |-> served, budget |-> budget, kills |-> kills]
MCWorkspaces == {Workspace(FALSE, 0, Items, 2, 1), Workspace(TRUE, 2, {a}, 1, 2)}
MCPrivileged == {a}
MCAttempts == [i \in Items |-> IF i = a THEN 2 ELSE 0]
MCReports == {[attempt |-> 1, status |-> "succeeded", id |-> x] : x \in {1, 2}}
(* No order, the two orders, and a cycle.                                  *)
MCWritten == {[i \in Items |-> IF i = a THEN A ELSE B] : A \in {{}, {b}}, B \in {{}, {a}}}
MCPrograms == {{"moongate"}, {"moonbook", "moonclaw", "moongate"}}

(* Two interfaces, two sources that mention their symbols, and a file for  *)
(* each other kind of finding.                                             *)
MCFiles == {"v2_mbti", "flow7_mbti", "flow5_mbt", "flow6_mbt", "native_c", "moon_pkg", "state_json",
            "fixture_mbt"}
MCForm == [f \in MCFiles |->
    CASE f \in {"v2_mbti", "flow7_mbti"} -> "interface" [] f = "native_c" -> "native"
      [] f = "moon_pkg" -> "manifest" [] f = "state_json" -> "serialized" [] OTHER -> "source"]
MCSection == [f \in MCFiles |->
    CASE f = "v2_mbti" -> "v2" [] f = "flow7_mbti" -> "flow7a" [] f = "flow5_mbt" -> "flow5a"
      [] f = "flow6_mbt" -> "flow6a" [] f = "native_c" -> "flow4a" [] OTHER -> "runtime"]
Text(t) == [declares |-> {}, mentions |-> {}, text |-> t]
Plain == Text("plain")
MCTrees ==
    {[f \in MCFiles |->
        CASE f = "v2_mbti" -> v2 [] f = "flow7_mbti" -> flow7 [] f = "flow5_mbt" -> flow5
          [] f = "flow6_mbt" -> flow6 [] f = "native_c" -> native [] f = "moon_pkg" -> manifest
          [] f = "fixture_mbt" -> Text("domain_vocabulary") [] OTHER -> Plain] :
        v2 \in {Plain, [Plain EXCEPT !.declares = {"authorization"}]},
        flow7 \in {[Plain EXCEPT !.declares = {s}] : s \in {"retry", "authorization"}},
        flow5 \in {Plain, Text("coordination"), [Plain EXCEPT !.mentions = {"authorization"}]},
        flow6 \in {Plain, [Plain EXCEPT !.mentions = {"retry"}]},
        native \in {Plain, Text("pack_vocabulary")},
        manifest \in {Plain, Text("external_identifier")}}
=============================================================================
