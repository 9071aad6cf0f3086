------------------------- MODULE DispatchOwnership -------------------------
(***************************************************************************)
(* What the dispatch protocol promises about external effects: an effect   *)
(* is owned at most once and only while its work is open, it is performed  *)
(* at most once and only by its owner, and the outcome that is recorded    *)
(* for it is recorded once, after the call.                                *)
(***************************************************************************)
CONSTANT Effects

VARIABLES
    open,       \* the work has not been cancelled
    owned,      \* the effects that have an owner
    calls,      \* calls[e]: how often the provider was asked to perform e
    recorded    \* the outcomes recorded: pairs of an effect and an outcome

vars == <<open, owned, calls, recorded>>

Outcomes == {"success", "failure", "unknown"}
Settled(e) == \E o \in Outcomes : <<e, o>> \in recorded

Init ==
    /\ open = TRUE
    /\ owned = {}
    /\ calls = [e \in Effects |-> 0]
    /\ recorded = {}

Own(e) ==
    /\ open /\ e \notin owned
    /\ owned' = owned \cup {e}
    /\ UNCHANGED <<open, calls, recorded>>

Perform(e) ==
    /\ e \in owned /\ calls[e] = 0 /\ ~Settled(e)
    /\ calls' = [calls EXCEPT ![e] = 1]
    /\ UNCHANGED <<open, owned, recorded>>

Record(e) ==
    /\ calls[e] = 1 /\ ~Settled(e)
    /\ \E o \in Outcomes : recorded' = recorded \cup {<<e, o>>}
    /\ UNCHANGED <<open, owned, calls>>

Close ==
    /\ open
    /\ open' = FALSE
    /\ UNCHANGED <<owned, calls, recorded>>

Next == Close \/ \E e \in Effects : Own(e) \/ Perform(e) \/ Record(e)

Spec == Init /\ [][Next]_vars
=============================================================================
