-------------------------- MODULE MCEffectDispatch --------------------------
(* Small instances of EffectDispatch.                                      *)
EXTENDS EffectDispatch, TLC

(* Every effect uses a capability of its own, or they all share one.       *)
MCOwnCapability == [e \in Effects |-> e]
MCSharedCapability == [e \in Effects |-> "mail"]

MCSymmetry == Permutations(Dispatchers)
=============================================================================
