--------------------------- MODULE MCGuardedStore ---------------------------
(* Small instances of GuardedStore: work and notes share root "A", policy  *)
(* is alone in root "B" and guards work.                                   *)
EXTENDS GuardedStore, TLC

MCRootOf == [w \in Workflows |-> IF w = "policy" THEN "B" ELSE "A"]

Cmd(key, wf, ids, intents) == [key |-> key, wf |-> wf, ids |-> ids, intents |-> intents]
Intent(id, cause) == [id |-> id, cause |-> cause]

(* k1 commits two events and an intent; policy guards work; a second       *)
(* caller reuses the key k1 for another body, or k2 reuses an event of k1  *)
(* for notes, in the same root.                                            *)
Batches == {Cmd("k1", "work", <<"e1", "e2">>, {Intent("i1", "e1")}), Cmd("k4", "policy", <<"e4">>, {})}
GovernedCommands == Batches \cup {Cmd("k1", "work", <<"e3">>, {})}
SharedCommands   == Batches \cup {Cmd("k2", "notes", <<"e2">>, {Intent("i2", "e2")})}

(* Two workflows of one root, where the intent of k5 names an event of the *)
(* other workflow.                                                         *)
ForeignCause ==
    {Cmd("k4", "work", <<"e1">>, {}),
     Cmd("k5", "notes", <<"e2">>, {Intent("i1", "e1")}),
     Cmd("k6", "notes", <<"e3">>, {Intent("i2", "e2")})}

P(id, flows) == [id |-> id, flows |-> flows]
ClientSymmetry == Permutations(Clients)
MCProfiles == {P("default", {"policy"}), P("claim", {"policy"})}
=============================================================================
