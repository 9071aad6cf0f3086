--------------------------- MODULE WorkflowLedger ---------------------------
(***************************************************************************)
(* What closed_loop/storage promises the closed loop: per workflow one     *)
(* append-only log, extended only at its head, once per command key, and,  *)
(* once the workflow is registered, only while every guard workflow of one *)
(* registered profile still has the head the caller saw.  No locks, files, *)
(* markers or failures.                                                    *)
(***************************************************************************)
EXTENDS StorageKernel

VARIABLES
    log,        \* log[w]: the committed batches of w
    profiles    \* profiles[w]: the guard profiles registered for w

ledger == <<log, profiles>>

LInit ==
    /\ log = [w \in Workflows |-> << >>]
    /\ profiles = [w \in Workflows |-> << >>]

(* One batch takes effect: at its head, with a fresh key and fresh event   *)
(* and intent identities, with every guard at the head it names, under a   *)
(* registered profile if there is one.                                     *)
LCommit(b) ==
    LET w == b.cmd.wf
    IN  /\ b.at = HeadOf(log[w])
        /\ \A d \in StoredIn(log, RootOf[w]) : Disjoint(b, d)
        /\ GuardsMatch(log, b)
        /\ profiles[w] # << >> =>
              \E i \in DOMAIN profiles[w] : profiles[w][i].flows = GuardsOf(b)
        /\ log' = [log EXCEPT ![w] = Append(@, b)]
        /\ UNCHANGED profiles

(* Registration is for good: it starts with one or more profiles, and      *)
(* afterwards grows by one profile at a time.                              *)
LRegister(w, ps) ==
    /\ profiles[w] = << >> /\ ValidProfiles(w, ps)
    /\ profiles' = [profiles EXCEPT ![w] = ps]
    /\ UNCHANGED log

LExtend(w, p) ==
    /\ profiles[w] # << >> /\ ValidProfiles(w, Append(profiles[w], p))
    /\ profiles' = [profiles EXCEPT ![w] = Append(@, p)]
    /\ UNCHANGED log

(* The batch or profile a step adds is read off the step itself.           *)
LNext ==
    \E w \in Workflows :
        \/ Len(log'[w]) > Len(log[w]) /\ LCommit(Final(log'[w]))
        \/ Len(profiles'[w]) > Len(profiles[w]) /\ LRegister(w, profiles'[w])
        \/ Len(profiles'[w]) > Len(profiles[w]) /\ LExtend(w, Final(profiles'[w]))

LSpec == LInit /\ [][LNext]_ledger
=============================================================================
