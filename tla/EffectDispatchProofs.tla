------------------------ MODULE EffectDispatchProofs ------------------------
(***************************************************************************)
(* What holds of the dispatch of effects for any dispatchers, effects,     *)
(* keys, clock and length of the stream.  The argument is about heads: a   *)
(* claim was prepared on a head at which its effect was free and the work  *)
(* open, and it is fresh only if that head is still the last one.          *)
(***************************************************************************)
EXTENDS EffectDispatch, FiniteSetTheorems, WellFoundedInduction, TLAPS

(* The last element of a non-empty set of positions is one of them.        *)
LEMMA LastIsIn ==
  ASSUME NEW n \in Nat, NEW L, L \subseteq 1..n, L # {}
  PROVE  Max(L) \in L
<1> DEFINE T == {n - i : i \in L}
<1>1. T \subseteq Nat /\ T # {}
  <2>1. \A i \in L : n - i \in Nat
    OBVIOUS
  <2> QED BY <2>1
<1>2. PICK x \in T : \A y \in T : ~ (<<y, x>> \in OpToRel(<, Nat))
  <2> HIDE DEF T
  <2> QED BY <1>1, WFMin, NatLessThanWellFounded
<1>3. \A y \in T : x <= y
  <2> TAKE y \in T
  <2>1. x \in Nat /\ y \in Nat
    BY <1>1
  <2>2. ~ (y < x)
    <3> HIDE DEF T
    <3> SUFFICES ASSUME y < x PROVE FALSE
      OBVIOUS
    <3>1. <<y, x>> \in OpToRel(<, Nat)
      BY <2>1 DEF OpToRel
    <3> QED BY <3>1, <1>2
  <2> HIDE DEF T
  <2> QED BY <2>1, <2>2
<1>4. PICK m \in L : x = n - m
  OBVIOUS
<1>5. \A y \in L : m >= y
  <2> TAKE y \in L
  <2>1. n - y \in T
    OBVIOUS
  <2> QED BY <2>1, <1>3, <1>4
<1> QED BY <1>5 DEF Max

(* The kind of a fact tells its fields.                                    *)
LEMMA FactKinds ==
  ASSUME NEW f \in Facts
  PROVE  /\ f.kind \in LeaseKinds => f \in LeaseFacts
         /\ f.kind = "claim" => f \in ClaimFacts
         /\ f.kind = "observed" => f.effect \in Effects /\ f.outcome \in Outcomes
BY DEF Facts, LeaseFacts, ClaimFacts, LeaseKinds, LegacyKinds, PolicyKinds

(* The lease that a fold reads is an event of the stream.                  *)
LEMMA LeaseTyped ==
  ASSUME NEW s \in Seq(Facts)
  PROVE  /\ Lease(s) \in LeaseFacts \cup {NoLease}
         /\ Active(s) => Lease(s) \in LeaseFacts
         /\ Lease(s).epoch \in Nat /\ Lease(s).until \in Times
<1> DEFINE L == {i \in DOMAIN s : s[i].kind \in LeaseKinds}
<1>0. MaxTime \in Nat
  BY DispatchAssumption
<1>1. CASE L = {}
  <2>1. Lease(s) = NoLease
    BY <1>1 DEF Lease
  <2> QED BY <2>1, <1>0 DEF NoLease, Active, Times
<1>2. CASE L # {}
  <2>1. L \subseteq 1..Len(s) /\ Len(s) \in Nat
    OBVIOUS
  <2>2. Max(L) \in L
    <3> HIDE DEF L
    <3> QED BY <2>1, <1>2, LastIsIn
  <2>3. Lease(s) = s[Max(L)]
    BY <1>2 DEF Lease
  <2>4. Lease(s) \in LeaseFacts
    BY <2>2, <2>3, FactKinds
  <2> QED BY <2>4 DEF LeaseFacts
<1> QED BY <1>1, <1>2

(* A lease event is a fact.                                                *)
LEMMA LeaseFactTyped ==
  ASSUME TypeOK, NEW kind \in LeaseKinds, NEW epoch \in Nat, NEW until \in Times
  PROVE  <<LeaseFact(kind, epoch, until)>> \in Seq(Facts)
<1>1. now \in Times
  BY DispatchAssumption DEF TypeOK, Times
<1>2. LeaseFact(kind, epoch, until) \in LeaseFacts
  BY <1>1 DEF LeaseFact, LeaseFacts
<1> QED BY <1>2 DEF Facts

(* So is a fact that names only its effect.                                *)
LEMMA EffectTyped ==
  ASSUME NEW e \in Effects, NEW kind \in {"start"} \cup LegacyKinds \cup PolicyKinds
  PROVE  Effect(kind, e) \in Facts
BY DEF Effect, Facts

(* A commit of facts leaves a stream of facts.                             *)
LEMMA CommitTyped ==
  ASSUME work \in Seq(Facts), NEW facts \in Seq(Facts), Commit(facts)
  PROVE  work' \in Seq(Facts)
BY DEF Commit

(* The claim of a dispatch that has none yet has the fields of a claim.    *)
LEMMA UnclaimedTyped ==
  ASSUME NEW e \in Effects
  PROVE  Unclaimed(e) \in ClaimFacts
<1>1. (CHOOSE k \in Keys : TRUE) \in Keys
  BY DispatchAssumption
<1> QED BY <1>1, DispatchAssumption DEF Unclaimed, ClaimFacts, Times

DispatchStates == [at : Places, entry : {"unbound", "bound"}, fresh : BOOLEAN,
                   claim : ClaimFacts, outcome : Outcomes]

(* What Dispatch builds, field by field.                                   *)
LEMMA DispatchTyped ==
  ASSUME NEW place \in Places, NEW entry \in {"unbound", "bound"}, NEW fresh \in BOOLEAN,
         NEW claim \in ClaimFacts, NEW outcome \in Outcomes
  PROVE  /\ Dispatch(place, entry, fresh, claim, outcome) \in DispatchStates
         /\ Dispatch(place, entry, fresh, claim, outcome).at = place
         /\ Dispatch(place, entry, fresh, claim, outcome).entry = entry
         /\ Dispatch(place, entry, fresh, claim, outcome).fresh = fresh
         /\ Dispatch(place, entry, fresh, claim, outcome).claim = claim
         /\ Dispatch(place, entry, fresh, claim, outcome).outcome = outcome
BY DEF Dispatch, DispatchStates

(* Setting one dispatch keeps the type of all.                             *)
LEMMA SetTyped ==
  ASSUME op \in [Dispatchers -> DispatchStates], NEW d \in Dispatchers,
         NEW o \in DispatchStates, Set(d, o)
  PROVE  op' \in [Dispatchers -> DispatchStates]
BY DEF Set

(* An idle dispatch is a dispatch.                                         *)
LEMMA IdleTyped == Idle \in DispatchStates
<1>1. Unclaimed(Source) \in ClaimFacts
  BY UnclaimedTyped, DispatchAssumption
<1> QED BY <1>1 DEF Idle, Dispatch, DispatchStates, Places, Outcomes

(* The types hold initially.                                               *)
LEMMA InitTypes == ASSUME Init PROVE TypeOK
<1>1. work \in Seq(Facts)
  <2>1. \A e \in Historical : Effect("legacy-observed", e) \in Facts
    BY EffectTyped, DispatchAssumption DEF LegacyKinds
  <2>2. CASE work = <<>>
    BY <2>2
  <2>3. ASSUME NEW e \in Historical, work = <<Effect("legacy-observed", e)>>
        PROVE  work \in Seq(Facts)
    BY <2>1, <2>3
  <2> QED BY <2>2, <2>3 DEF Init
<1>2. op \in [Dispatchers -> DispatchStates]
  BY IdleTyped DEF Init
<1> QED BY <1>1, <1>2, DispatchAssumption DEF Init, TypeOK, DispatchStates

(* Every step keeps the types, one action after the other.                 *)
LEMMA TypesKept == ASSUME TypeOK, [Next]_vars PROVE TypeOK'
<1> USE DEF DispatchStates
<1>0. work \in Seq(Facts) /\ now \in Times /\ MaxTime \in Nat
  BY DispatchAssumption DEF TypeOK, Times
<1>1. CASE Tick
  BY <1>1, <1>0 DEF TypeOK, Tick
<1>2. CASE ClaimLease
  <2>1. PICK u \in now + 1 .. MaxTime + 1 : Commit(<<LeaseFact("claimed", 1, u)>>)
    BY <1>2 DEF ClaimLease
  <2>2. u \in Times
    BY <1>0 DEF Times
  <2>3. work' \in Seq(Facts)
    BY <1>0, <2>1, <2>2, LeaseFactTyped, CommitTyped DEF LeaseKinds
  <2> QED BY <1>2, <2>3 DEF TypeOK, ClaimLease
<1>3. CASE RenewLease
  <2>1. PICK u \in Lease(work).until + 1 .. MaxTime + 1 :
          Commit(<<LeaseFact("renewed", Lease(work).epoch, u)>>)
    BY <1>3 DEF RenewLease
  <2>2. u \in Times /\ Lease(work).epoch \in Nat
    BY <1>0, LeaseTyped DEF Times
  <2>3. work' \in Seq(Facts)
    BY <1>0, <2>1, <2>2, LeaseFactTyped, CommitTyped DEF LeaseKinds
  <2> QED BY <1>3, <2>3 DEF TypeOK, RenewLease
<1>4. CASE ReleaseLease
  <2>1. Lease(work).until \in Times /\ Lease(work).epoch \in Nat
    BY <1>0, LeaseTyped
  <2>2. work' \in Seq(Facts)
    BY <1>0, <1>4, <2>1, LeaseFactTyped, CommitTyped DEF LeaseKinds, ReleaseLease
  <2> QED BY <1>4, <2>2 DEF TypeOK, ReleaseLease
<1>5. CASE ExpireLease
  <2>1. Lease(work).until \in Times /\ Lease(work).epoch \in Nat
    BY <1>0, LeaseTyped
  <2>2. work' \in Seq(Facts)
    BY <1>0, <1>5, <2>1, LeaseFactTyped, CommitTyped DEF LeaseKinds, ExpireLease
  <2> QED BY <1>5, <2>2 DEF TypeOK, ExpireLease
<1>6. CASE ReclaimLease
  <2>1. PICK u \in now + 1 .. MaxTime + 1 :
          Commit(<<LeaseFact("reclaimed", Lease(work).epoch + 1, u)>>)
    BY <1>6 DEF ReclaimLease
  <2>2. u \in Times /\ Lease(work).epoch + 1 \in Nat
    BY <1>0, LeaseTyped DEF Times
  <2>3. work' \in Seq(Facts)
    BY <1>0, <2>1, <2>2, LeaseFactTyped, CommitTyped DEF LeaseKinds
  <2> QED BY <1>6, <2>3 DEF TypeOK, ReclaimLease
<1>7. CASE Approve
  <2>1. gov' \in 0..Approval /\ proposal' \in Nat
    BY <1>0, <1>7, DispatchAssumption DEF TypeOK, Approve
  <2> QED BY <1>7, <2>1 DEF TypeOK, Approve
<1>8. ASSUME NEW head \in Nat, CancelAt(head) PROVE TypeOK'
  <2>1. <<[kind |-> "cancelled", prefix |-> proposal, head |-> head]>> \in Seq(Facts)
    BY DEF TypeOK, Facts
  <2>2. work' \in Seq(Facts)
    BY <1>0, <1>8, <2>1, CommitTyped DEF CancelAt
  <2> QED BY <1>8, <2>2 DEF TypeOK, CancelAt
<1>9. CASE Cancel
  BY <1>8, <1>9 DEF Cancel, TypeOK
<1>10. CASE CancelClaimFirst
  <2>1. Len(work) - 2 \in Nat
    BY <1>0, <1>10 DEF CancelClaimFirst, TypeOK
  <2> QED BY <1>8, <1>10, <2>1 DEF CancelClaimFirst
<1>11. ASSUME NEW e \in Effects, Activate(e) PROVE TypeOK'
  <2>1. <<[kind |-> "activated", capability |-> CapabilityOf[e]]>> \in Seq(Facts)
    BY DEF Facts
  <2>2. work' \in Seq(Facts)
    BY <1>0, <1>11, <2>1, CommitTyped DEF Activate
  <2> QED BY <1>11, <2>2 DEF TypeOK, Activate
<1>12. ASSUME NEW e \in Effects, LegacyReceipt(e) PROVE TypeOK'
  <2>1. <<Effect("legacy-receipt", e)>> \in Seq(Facts)
    BY EffectTyped DEF LegacyKinds
  <2>2. work' \in Seq(Facts)
    BY <1>0, <1>12, <2>1, CommitTyped DEF LegacyReceipt
  <2> QED BY <1>12, <2>2 DEF TypeOK, LegacyReceipt
<1>13. ASSUME NEW e \in Effects, Perform(e) PROVE TypeOK'
  BY <1>13 DEF TypeOK, Perform
<1>14. ASSUME NEW d \in Dispatchers, DispatchStep(d) PROVE TypeOK'
  <2>0. op[d] \in DispatchStates /\ op[d].claim \in ClaimFacts
    BY DEF TypeOK
  <2>1. ASSUME NEW e \in Effects, NEW k \in Keys, NEW entry \in Entries,
               Prepare(d, e, k, entry)
        PROVE  TypeOK'
    <3>1. PICK u \in now + 1 .. Lease(work).until :
            Set(d, Dispatch("prepared", entry, FALSE,
                            Claim(e, k, Lease(work).epoch, u, Len(work)), "unknown"))
      BY <2>1 DEF Prepare
    <3>2. Claim(e, k, Lease(work).epoch, u, Len(work)) \in ClaimFacts
      <4>1. u \in Times /\ Lease(work).epoch \in Nat /\ Len(work) \in Nat /\ gov \in Nat
        BY <1>0, LeaseTyped, DispatchAssumption DEF Times, TypeOK
      <4> QED BY <4>1, <1>0 DEF Claim, ClaimFacts
    <3>3. op' \in [Dispatchers -> DispatchStates]
      <4>1. entry \in {"unbound", "bound"}
        BY DispatchAssumption
      <4>2. Dispatch("prepared", entry, FALSE, Claim(e, k, Lease(work).epoch, u, Len(work)),
                     "unknown") \in DispatchStates
        BY <3>2, <4>1 DEF Dispatch, Places, Outcomes
      <4> QED BY <3>1, <4>2 DEF Set, TypeOK
    <3> QED BY <2>1, <3>3 DEF TypeOK, Prepare
  <2>2. CASE CommitClaim(d)
    <3>1. work' \in Seq(Facts)
      <4>1. op[d].claim \in Facts /\ Effect("start", op[d].claim.effect) \in Facts
        BY <2>0, EffectTyped DEF ClaimFacts, Facts
      <4>2. <<op[d].claim, Effect("start", op[d].claim.effect)>> \in Seq(Facts)
        BY <4>1
      <4> QED BY <1>0, <2>2, <4>2, CommitTyped DEF CommitClaim
    <3>2. Owned(op[d]) \in DispatchStates
      BY <2>0 DEF Owned, Dispatch, Places, Outcomes
    <3>3. op' \in [Dispatchers -> DispatchStates]
      BY <2>2, <3>2, IdleTyped DEF CommitClaim, Set, TypeOK
    <3> QED BY <2>2, <3>1, <3>3 DEF TypeOK, CommitClaim
  <2>3. ASSUME NEW e \in Effects, Resume(d, e) PROVE TypeOK'
    <3>1. Dispatch("recovery-policy", "bound", FALSE, Unclaimed(e), "unknown") \in DispatchStates
      BY UnclaimedTyped DEF Dispatch, Places, Outcomes
    <3>2. op' \in [Dispatchers -> DispatchStates]
      BY <2>3, <3>1 DEF Resume, Set, TypeOK
    <3> QED BY <2>3, <3>2 DEF TypeOK, Resume
  <2>4. ASSUME NEW place \in Places, Goto(d, place)
        PROVE  op' \in [Dispatchers -> DispatchStates]
    <3>1. Dispatch(place, op[d].entry, op[d].fresh, op[d].claim, op[d].outcome) \in DispatchStates
      BY <2>0 DEF Dispatch
    <3> QED BY <2>4, <3>1 DEF Goto, Set, TypeOK
  <2>5. ASSUME NEW kind \in PolicyKinds, NEW next \in Places, NEW allowed,
               BindPolicy(d, kind, next, allowed)
        PROVE  TypeOK'
    <3>1. work' \in Seq(Facts)
      <4>0. op[d].claim.effect \in Effects
        BY <2>0 DEF ClaimFacts
      <4>1. Effect(kind, op[d].claim.effect) \in Facts
        BY <4>0, EffectTyped
      <4>2. <<Effect(kind, op[d].claim.effect)>> \in Seq(Facts)
        BY <4>1
      <4> QED BY <1>0, <2>5, <4>2, CommitTyped DEF BindPolicy
    <3>2. op' \in [Dispatchers -> DispatchStates]
      BY <2>4, <2>5 DEF BindPolicy
    <3> QED BY <2>5, <3>1, <3>2 DEF TypeOK, BindPolicy
  <2>6. CASE BindRecoveryPolicy(d)
    BY <2>5, <2>6 DEF BindRecoveryPolicy, PolicyKinds, Places
  <2>7. CASE BindRetryPolicy(d)
    BY <2>5, <2>7 DEF BindRetryPolicy, PolicyKinds, Places
  <2>8. CASE CallProvider(d)
    <3>1. op' \in [Dispatchers -> DispatchStates]
      BY <2>4, <2>8 DEF CallProvider, Places
    <3>2. calls' \in [Effects -> Nat]
      <4>1. op[d].claim.effect \in Effects
        BY <2>0 DEF ClaimFacts
      <4>2. calls' = [calls EXCEPT ![op[d].claim.effect] = calls[op[d].claim.effect] + 1]
        BY <2>8 DEF CallProvider
      <4> QED BY <4>1, <4>2 DEF TypeOK
    <3> QED BY <2>8, <3>1, <3>2 DEF TypeOK, CallProvider
  <2>9. CASE ReceiveAnswer(d)
    <3>1. \A a : Dispatch("answered", op[d].entry, TRUE, op[d].claim, Normalize(a)) \in DispatchStates
      BY <2>0 DEF Dispatch, Places, Outcomes, Normalize
    <3>2. op' \in [Dispatchers -> DispatchStates]
      <4>1. PICK a : Set(d, Dispatch("answered", op[d].entry, TRUE, op[d].claim, Normalize(a)))
        BY <2>9 DEF ReceiveAnswer
      <4>2. Dispatch("answered", op[d].entry, TRUE, op[d].claim, Normalize(a)) \in DispatchStates
        BY <3>1
      <4> QED BY <4>1, <4>2 DEF Set, TypeOK
    <3> QED BY <2>9, <3>2 DEF TypeOK, ReceiveAnswer
  <2>10. ASSUME Return(d) PROVE op' \in [Dispatchers -> DispatchStates]
    BY <2>10, IdleTyped DEF Return, Set, TypeOK
  <2>11. CASE PersistObservation(d)
    <3>1. work' \in Seq(Facts)
      <4>1. Observation(d) \in Facts
        BY <2>0 DEF Observation, Facts, ClaimFacts
      <4>2. <<Observation(d)>> \in Seq(Facts)
        BY <4>1
      <4> QED BY <1>0, <2>11, <4>2, CommitTyped DEF PersistObservation
    <3> QED BY <2>11, <3>1, <2>10 DEF TypeOK, PersistObservation
  <2>12. CASE Abandon(d)
    BY <2>12, <2>10 DEF TypeOK, Abandon
  <2> QED BY <1>14, <2>1, <2>2, <2>3, <2>6, <2>7, <2>8, <2>9, <2>11, <2>12 DEF DispatchStep
<1>15. CASE UNCHANGED vars
  BY <1>15 DEF TypeOK, vars
<1> QED BY <1>1, <1>2, <1>3, <1>4, <1>5, <1>6, <1>7, <1>9, <1>10, <1>11, <1>12, <1>13,
           <1>14, <1>15 DEF Next, LeaseStep

(* Every variable keeps its type, for any effects, dispatchers and bounds. *)
THEOREM DispatchTypes == Spec => []TypeOK
<1>1. Init => TypeOK
  BY InitTypes
<1>2. TypeOK /\ [Next]_vars => TypeOK'
  BY TypesKept
<1> QED BY <1>1, <1>2, PTL DEF Spec

(***************************************************************************)
(* The inductive invariant.  A prepared claim is still sound as far as the *)
(* head it names; a process that owns its effect has a claim in the        *)
(* stream and no rival; the calls of the provider count the owners that    *)
(* got past the call.                                                      *)
(***************************************************************************)
EffectOf(d) == op[d].claim.effect
Called == {"calling", "answered"}
Waiting == {"recovery-policy", "retry-policy", "call"}

PreparedInv(d) ==
    At(d, "prepared") =>
        /\ ~op[d].fresh /\ op[d].claim.base <= Len(work)
        /\ \A i \in Of(work, "claim") : work[i].effect = EffectOf(d) => op[d].claim.base < i
        /\ \A i \in Of(work, "cancelled") : op[d].claim.base < i

OwnerInv(d) ==
    /\ op[d].fresh => HasClaim(work, EffectOf(d)) /\ op[d].at \in Waiting \cup Called
    /\ op[d].fresh => ~Has(work, "observed", EffectOf(d))
    /\ op[d].fresh /\ op[d].at \in Waiting => calls[EffectOf(d)] = 0
    /\ op[d].at \in Called => op[d].fresh /\ calls[EffectOf(d)] = 1
    /\ At(d, "answered") /\ op[d].outcome # "unknown" => fate[EffectOf(d)] = op[d].outcome

Exclusive ==
    \A d, r \in Dispatchers :
        op[d].fresh /\ op[r].fresh /\ EffectOf(d) = EffectOf(r) => d = r

EffectInv(e) ==
    /\ calls[e] <= 1
    /\ calls[e] > 0 => HasClaim(work, e)
    /\ Has(work, "observed", e) => calls[e] = 1

OwnershipInv ==
    /\ \A d \in Dispatchers : PreparedInv(d) /\ OwnerInv(d)
    /\ Exclusive
    /\ \A e \in Effects : EffectInv(e)
    /\ KnownIsTrue

(***************************************************************************)
(* Streams only grow.                                                      *)
(***************************************************************************)
Grows == /\ Len(work) <= Len(work')
         /\ \A i \in 1..Len(work) : work'[i] = work[i]
NoNew(kind) == Of(work', kind) = Of(work, kind)

(* What a commit of one fact does to the stream.                           *)
LEMMA CommitOne ==
  ASSUME work \in Seq(Facts), NEW f \in Facts, Commit(<<f>>)
  PROVE  /\ Grows /\ Len(work') = Len(work) + 1 /\ work'[Len(work) + 1] = f
         /\ \A k : f.kind # k => NoNew(k)
<1>1. work' = work \o <<f>>
  BY DEF Commit
<1>2. /\ Len(work') = Len(work) + 1 /\ work'[Len(work) + 1] = f
      /\ \A i \in 1..Len(work) : work'[i] = work[i]
  BY <1>1
<1>3. DOMAIN work = 1..Len(work) /\ DOMAIN work' = 1..Len(work) + 1 /\ Len(work) \in Nat
  BY <1>1
<1>4. ASSUME NEW k, f.kind # k PROVE NoNew(k)
  BY <1>2, <1>3, <1>4 DEF NoNew, Of
<1> QED BY <1>2, <1>3, <1>4 DEF Grows

(* What the commit of a claim with its start does to the stream.           *)
LEMMA CommitTwo ==
  ASSUME work \in Seq(Facts), NEW f \in Facts, NEW g \in Facts, Commit(<<f, g>>)
  PROVE  /\ Grows /\ Len(work') = Len(work) + 2
         /\ work'[Len(work) + 1] = f /\ work'[Len(work) + 2] = g
         /\ \A k : f.kind # k /\ g.kind # k => NoNew(k)
<1>1. work' = work \o <<f, g>>
  BY DEF Commit
<1>2. /\ Len(work') = Len(work) + 2 /\ work'[Len(work) + 1] = f /\ work'[Len(work) + 2] = g
      /\ \A i \in 1..Len(work) : work'[i] = work[i]
  BY <1>1
<1>3. DOMAIN work = 1..Len(work) /\ DOMAIN work' = 1..Len(work) + 2 /\ Len(work) \in Nat
  BY <1>1
<1>4. ASSUME NEW k, f.kind # k, g.kind # k PROVE NoNew(k)
  BY <1>2, <1>3, <1>4 DEF NoNew, Of
<1> QED BY <1>2, <1>3, <1>4 DEF Grows

(* A stream that does not change has nothing new.                          *)
LEMMA Unchanging ==
  ASSUME work \in Seq(Facts), UNCHANGED work
  PROVE  Grows /\ \A k : NoNew(k)
BY DEF Grows, NoNew

(* What growing keeps.                                                     *)
LEMMA GrowthKeeps ==
  ASSUME work \in Seq(Facts), work' \in Seq(Facts), Grows, NEW k, NEW e
  PROVE  /\ \A i \in Of(work', k) : i \in Of(work, k) \/ i > Len(work)
         /\ Has(work, k, e) => Has(work', k, e)
         /\ NoNew(k) => (Has(work', k, e) <=> Has(work, k, e))
<1>1. DOMAIN work = 1..Len(work) /\ DOMAIN work' = 1..Len(work') /\ Len(work) \in Nat
      /\ Len(work') \in Nat
  OBVIOUS
<1>2. \A i \in Of(work, k) : i \in Of(work', k) /\ work'[i] = work[i]
  BY <1>1 DEF Of, Grows
<1>3. \A i \in Of(work', k) : i \in Of(work, k) \/ i > Len(work)
  BY <1>1 DEF Of, Grows
<1>4. Has(work, k, e) => Has(work', k, e)
  BY <1>2 DEF Has
<1>5. NoNew(k) => (Has(work', k, e) => Has(work, k, e))
  BY <1>2 DEF Has, NoNew
<1> QED BY <1>3, <1>4, <1>5

(* A dispatch that does not move stays sound as long as nobody else calls  *)
(* or observes the effect it owns.                                         *)
LEMMA DispatchKept ==
  ASSUME TypeOK, TypeOK', Grows, NEW d \in Dispatchers,
         PreparedInv(d), OwnerInv(d), op'[d] = op[d],
         op[d].fresh => /\ calls'[EffectOf(d)] = calls[EffectOf(d)]
                        /\ Has(work', "observed", EffectOf(d)) =>
                              Has(work, "observed", EffectOf(d)),
         fate[EffectOf(d)] # "none" => fate'[EffectOf(d)] = fate[EffectOf(d)]
  PROVE  PreparedInv(d)' /\ OwnerInv(d)'
<1>0. work \in Seq(Facts) /\ work' \in Seq(Facts) /\ EffectOf(d)' = EffectOf(d)
  BY DEF TypeOK, EffectOf
<1>00. op[d].claim.base \in Nat /\ Len(work) \in Nat /\ Len(work') \in Nat
       /\ op[d].outcome \in Outcomes
  <2>1. op[d].claim \in ClaimFacts /\ op[d].outcome \in Outcomes
    BY DEF TypeOK
  <2>2. op[d].claim.base \in Nat
    BY <2>1 DEF ClaimFacts
  <2>3. Len(work) \in Nat /\ Len(work') \in Nat
    BY <1>0
  <2> QED BY <2>1, <2>2, <2>3
<1>1. PreparedInv(d)'
  <2> SUFFICES ASSUME At(d, "prepared") PROVE PreparedInv(d)'
    BY DEF PreparedInv, At
  <2>1. \A i \in Of(work', "claim") : work'[i].effect = EffectOf(d) => op[d].claim.base < i
    <3> TAKE i \in Of(work', "claim")
    <3>1. CASE i \in Of(work, "claim")
      <4>1. work'[i] = work[i]
        BY <1>0, <3>1 DEF Of, Grows
      <4> QED BY <4>1, <3>1 DEF PreparedInv
    <3>2. CASE i > Len(work)
      <4>1. i \in Nat
        BY <1>0 DEF Of
      <4> QED BY <3>2, <4>1, <1>00 DEF PreparedInv
    <3> QED BY <3>1, <3>2, <1>0, GrowthKeeps
  <2>2. \A i \in Of(work', "cancelled") : op[d].claim.base < i
    <3> TAKE i \in Of(work', "cancelled")
    <3>1. i \in Nat
      BY <1>0 DEF Of
    <3>2. i \in Of(work, "cancelled") \/ i > Len(work)
      BY <1>0, GrowthKeeps
    <3>3. op[d].claim.base <= Len(work) /\ \A j \in Of(work, "cancelled") : op[d].claim.base < j
      BY DEF PreparedInv
    <3> QED BY <3>1, <3>2, <3>3, <1>00
  <2> QED BY <2>1, <2>2, <1>0, <1>00 DEF PreparedInv, Grows, At
<1>2. OwnerInv(d)'
  <2>1. op[d].fresh => HasClaim(work, EffectOf(d))'
    BY <1>0, GrowthKeeps DEF OwnerInv, HasClaim
  <2>2. At(d, "answered") /\ op[d].outcome # "unknown" => fate'[EffectOf(d)] = op[d].outcome
    BY <1>00 DEF OwnerInv, Outcomes
  <2> QED BY <2>1, <2>2, <1>0 DEF OwnerInv, At
<1> QED BY <1>1, <1>2

(* A step that moves one dispatch at most keeps the rest of the invariant. *)
LEMMA RestKept ==
  ASSUME TypeOK, TypeOK', OwnershipInv, Grows, NEW d \in Dispatchers,
         \A r \in Dispatchers \ {d} : op'[r] = op[r],
         PreparedInv(d)', OwnerInv(d)',
         op'[d].fresh => op[d].fresh /\ EffectOf(d)' = EffectOf(d),
         NoNew("observed"), UNCHANGED <<calls, fate>>
  PROVE  OwnershipInv'
<1>0. work \in Seq(Facts) /\ work' \in Seq(Facts)
  BY DEF TypeOK
<1>1. ASSUME NEW e PROVE /\ HasClaim(work, e) => HasClaim(work', e)
                         /\ Has(work', "observed", e) <=> Has(work, "observed", e)
  BY <1>0, GrowthKeeps DEF HasClaim
<1>2. ASSUME NEW r \in Dispatchers PROVE PreparedInv(r)' /\ OwnerInv(r)'
  <2>1. CASE r = d
    BY <2>1
  <2>2. CASE r # d
    BY <2>2, <1>1, DispatchKept DEF OwnershipInv
  <2> QED BY <2>1, <2>2
<1>3. Exclusive'
  BY DEF Exclusive, OwnershipInv, EffectOf
<1>4. ASSUME NEW e \in Effects PROVE EffectInv(e)'
  BY <1>1 DEF EffectInv, OwnershipInv
<1>5. KnownIsTrue'
  <2>1. \A i \in Of(work', "observed") : i \in Of(work, "observed") /\ work'[i] = work[i]
    BY <1>0 DEF NoNew, Grows, Of
  <2> QED BY <2>1 DEF KnownIsTrue, OwnershipInv
<1> QED BY <1>2, <1>3, <1>4, <1>5 DEF OwnershipInv

(* Steps that leave the dispatches alone, and append no observation.       *)
LEMMA QuietKept ==
  ASSUME TypeOK, TypeOK', OwnershipInv, Grows, NoNew("observed"),
         UNCHANGED <<op, calls, fate>>
  PROVE  OwnershipInv'
<1>0. work \in Seq(Facts) /\ work' \in Seq(Facts)
  BY DEF TypeOK
<1>1. ASSUME NEW e PROVE /\ HasClaim(work, e) => HasClaim(work', e)
                         /\ Has(work', "observed", e) <=> Has(work, "observed", e)
  BY <1>0, GrowthKeeps DEF HasClaim
<1>2. ASSUME NEW r \in Dispatchers PROVE PreparedInv(r)' /\ OwnerInv(r)'
  BY <1>1, DispatchKept DEF OwnershipInv
<1>3. Exclusive'
  BY DEF Exclusive, OwnershipInv, EffectOf
<1>4. ASSUME NEW e \in Effects PROVE EffectInv(e)'
  BY <1>1 DEF EffectInv, OwnershipInv
<1>5. KnownIsTrue'
  <2>1. \A i \in Of(work', "observed") : i \in Of(work, "observed") /\ work'[i] = work[i]
    BY <1>0 DEF NoNew, Grows, Of
  <2> QED BY <2>1 DEF KnownIsTrue, OwnershipInv
<1> QED BY <1>2, <1>3, <1>4, <1>5 DEF OwnershipInv

(* Lease events are neither claims nor observations.                       *)
LEMMA LeaseStepKeeps ==
  ASSUME TypeOK, TypeOK', OwnershipInv, LeaseStep
  PROVE  OwnershipInv'
<1>0. work \in Seq(Facts)
  BY DEF TypeOK
<1>a. PICK kind \in LeaseKinds : \E epoch, until :
        Commit(<<LeaseFact(kind, epoch, until)>>) /\ UNCHANGED <<op, calls, fate>>
  BY DEF LeaseStep, ClaimLease, RenewLease, ReleaseLease, ExpireLease, ReclaimLease, LeaseKinds
<1>1. PICK epoch, until :
        Commit(<<LeaseFact(kind, epoch, until)>>) /\ UNCHANGED <<op, calls, fate>>
  BY <1>a
<1>2. LeaseFact(kind, epoch, until).kind \notin {"observed", "claim"}
  BY DEF LeaseFact, LeaseKinds
<1>3. work' = work \o <<LeaseFact(kind, epoch, until)>>
  BY <1>1 DEF Commit
<1>4. LeaseFact(kind, epoch, until) \in Facts
  <2>1. work' \in Seq(Facts)
    BY DEF TypeOK
  <2>2. Len(work') = Len(work) + 1 /\ work'[Len(work) + 1] = LeaseFact(kind, epoch, until)
        /\ Len(work) \in Nat
    BY <1>0, <1>3
  <2>3. Len(work) + 1 \in DOMAIN work'
    BY <2>1, <2>2
  <2> QED BY <2>1, <2>2, <2>3
<1> QED BY <1>0, <1>1, <1>2, <1>4, CommitOne, QuietKept

(* Nor are the other facts committed outside a dispatch.                   *)
LEMMA QuietCommitKeeps ==
  ASSUME TypeOK, TypeOK', OwnershipInv, NEW f \in Facts, f.kind # "observed",
         Commit(<<f>>), UNCHANGED <<op, calls, fate>>
  PROVE  OwnershipInv'
<1>1. work \in Seq(Facts)
  BY DEF TypeOK
<1> QED BY <1>1, CommitOne, QuietKept

(* A cancellation comes after the head of every claim in preparation.      *)
LEMMA CancelKeeps ==
  ASSUME TypeOK, TypeOK', OwnershipInv, Cancel \/ CancelClaimFirst
  PROVE  OwnershipInv'
<1>1. PICK head \in Nat : CancelAt(head)
  <2>1. work \in Seq(Facts) /\ proposal \in Nat
    BY DEF TypeOK
  <2>2. CancelClaimFirst => Len(work) - 2 \in Nat
    BY <2>1 DEF CancelClaimFirst
  <2> QED BY <2>1, <2>2 DEF Cancel, CancelClaimFirst
<1>2. [kind |-> "cancelled", prefix |-> proposal, head |-> head] \in Facts
  BY DEF Facts, TypeOK
<1> QED BY <1>1, <1>2, QuietCommitKeeps DEF CancelAt

(* Activations and receipts are quiet commits.                             *)
LEMMA EffectStepKeeps ==
  ASSUME TypeOK, TypeOK', OwnershipInv, NEW e \in Effects, Activate(e) \/ LegacyReceipt(e)
  PROVE  OwnershipInv'
<1>1. [kind |-> "activated", capability |-> CapabilityOf[e]] \in Facts
  BY DEF Facts
<1>2. Effect("legacy-receipt", e) \in Facts /\ Effect("legacy-receipt", e).kind # "observed"
  BY EffectTyped DEF LegacyKinds, Effect
<1>3. CASE Activate(e)
  BY <1>1, <1>3, QuietCommitKeeps DEF Activate
<1>4. CASE LegacyReceipt(e)
  BY <1>2, <1>4, QuietCommitKeeps DEF LegacyReceipt
<1> QED BY <1>3, <1>4

(* The provider acts: what became of an effect is decided once.            *)
LEMMA PerformKeeps ==
  ASSUME TypeOK, TypeOK', OwnershipInv, NEW e \in Effects, Perform(e)
  PROVE  OwnershipInv'
<1>0. work \in Seq(Facts) /\ UNCHANGED <<work, op, calls>> /\ Grows /\ \A k : NoNew(k)
  BY Unchanging DEF TypeOK, Perform
<1>1. \A f \in Effects : fate[f] # "none" => fate'[f] = fate[f]
  BY DEF Perform, TypeOK
<1>2. ASSUME NEW d \in Dispatchers PROVE PreparedInv(d)' /\ OwnerInv(d)'
  <2>1. EffectOf(d) \in Effects
    BY DEF TypeOK, ClaimFacts, EffectOf
  <2> QED BY <1>0, <1>1, <2>1, DispatchKept DEF OwnershipInv
<1>3. Exclusive' /\ \A f \in Effects : EffectInv(f)'
  BY <1>0 DEF Exclusive, EffectInv, OwnershipInv, EffectOf, HasClaim, Has, Of
<1>4. KnownIsTrue'
  <2>1. \A i \in Of(work, "observed") : work[i].effect \in Effects /\ work[i].outcome \in Outcomes
    BY <1>0, FactKinds DEF Of
  <2> QED BY <1>0, <1>1, <2>1 DEF KnownIsTrue, OwnershipInv, Outcomes, Of
<1> QED BY <1>2, <1>3, <1>4 DEF OwnershipInv

(* A claim is prepared on a head at which nobody holds the effect.         *)
LEMMA PrepareKeeps ==
  ASSUME TypeOK, TypeOK', OwnershipInv, NEW d \in Dispatchers,
         NEW e \in Effects, NEW k \in Keys, NEW entry \in Entries, Prepare(d, e, k, entry)
  PROVE  OwnershipInv'
<1>0. work \in Seq(Facts) /\ UNCHANGED <<work, calls, fate>> /\ Grows /\ NoNew("observed")
  BY Unchanging DEF TypeOK, Prepare
<1>1. PICK c : /\ c.effect = e /\ c.base = Len(work)
               /\ Set(d, Dispatch("prepared", entry, FALSE, c, "unknown"))
  BY DEF Prepare, Claim
<1>2. op' = [op EXCEPT ![d] = Dispatch("prepared", entry, FALSE, c, "unknown")]
  BY <1>1 DEF Set
<1>3. /\ op'[d].at = "prepared" /\ ~op'[d].fresh /\ op'[d].claim = c
      /\ \A r \in Dispatchers \ {d} : op'[r] = op[r]
  BY <1>2 DEF TypeOK, Dispatch
<1>4. ~HasClaim(work, e) /\ Of(work, "cancelled") = {}
  BY DEF Prepare, Eligible, Open, Cancelled
<1>5. PreparedInv(d)'
  <2>1. \A i \in Of(work, "claim") : work[i].effect # e
    BY <1>4 DEF HasClaim, Has
  <2>2. Of(work', "claim") = Of(work, "claim") /\ Of(work', "cancelled") = {}
    BY <1>0, <1>4
  <2> QED BY <1>0, <1>1, <1>3, <2>1, <2>2 DEF PreparedInv, EffectOf, At
<1>6. OwnerInv(d)'
  BY <1>3 DEF OwnerInv, At, Called
<1> QED BY <1>0, <1>3, <1>5, <1>6, RestKept

(* A dispatch that ends, or stops, owns nothing any more.                  *)
LEMMA ReturnKeeps ==
  ASSUME TypeOK, TypeOK', OwnershipInv, NEW d \in Dispatchers,
         Set(d, Idle), UNCHANGED <<work, calls, fate>>
  PROVE  OwnershipInv'
<1>0. work \in Seq(Facts) /\ Grows /\ NoNew("observed")
  BY Unchanging DEF TypeOK
<1>1. /\ op'[d].at = "idle" /\ ~op'[d].fresh
      /\ \A r \in Dispatchers \ {d} : op'[r] = op[r]
  BY DEF TypeOK, Set, Idle, Dispatch
<1>2. PreparedInv(d)' /\ OwnerInv(d)'
  BY <1>1 DEF PreparedInv, OwnerInv, At, Called
<1> QED BY <1>0, <1>1, <1>2, RestKept

(* A fresh commit finds the head its claim names, so nobody else has       *)
(* claimed the effect and the work is not cancelled.                       *)
LEMMA FreshIsFirst ==
  ASSUME TypeOK, OwnershipInv, NEW d \in Dispatchers, At(d, "prepared"),
         CommitOutcome(op[d].claim) = "fresh"
  PROVE  ~HasClaim(work, EffectOf(d)) /\ ~Cancelled(work)
<1>1. op[d].claim.base = Len(work)
  BY DEF CommitOutcome
<1>2. work \in Seq(Facts) /\ Len(work) \in Nat
  BY DEF TypeOK
<1>3. \A k, i : i \in Of(work, k) => i \in Nat /\ i <= Len(work)
  BY <1>2 DEF Of
<1>4. \A i \in Of(work, "claim") : work[i].effect # EffectOf(d)
  BY <1>1, <1>2, <1>3 DEF PreparedInv, OwnershipInv
<1>5. Of(work, "cancelled") = {}
  BY <1>1, <1>2, <1>3 DEF PreparedInv, OwnershipInv
<1> QED BY <1>4, <1>5 DEF HasClaim, Has, Cancelled

(* The claim makes its dispatch the only owner of the effect.              *)
LEMMA FreshClaimKeeps ==
  ASSUME TypeOK, TypeOK', OwnershipInv, NEW d \in Dispatchers, CommitClaim(d),
         CommitOutcome(op[d].claim) = "fresh"
  PROVE  OwnershipInv'
<1> DEFINE c == op[d].claim
           e == EffectOf(d)
<1>0. /\ work \in Seq(Facts) /\ work' \in Seq(Facts) /\ At(d, "prepared")
      /\ UNCHANGED <<calls, fate>> /\ e \in Effects /\ c \in ClaimFacts /\ c.effect = e
  BY DEF TypeOK, CommitClaim, ClaimFacts, EffectOf
<1>1. c \in Facts /\ c.kind = "claim"
  BY <1>0 DEF ClaimFacts, Facts
<1>2. Effect("start", e) \in Facts /\ Effect("start", e).kind = "start"
  BY <1>0, EffectTyped DEF Effect
<1>3. Commit(<<c, Effect("start", e)>>)
  BY DEF CommitClaim, EffectOf
<1>4. Grows /\ Len(work') = Len(work) + 2 /\ work'[Len(work) + 1] = c /\ NoNew("observed")
  <2> HIDE DEF c, e
  <2> QED BY <1>0, <1>1, <1>2, <1>3, CommitTwo
<1>5. ~HasClaim(work, e)
  BY <1>0, FreshIsFirst
<1>6. HasClaim(work', e)
  <2>1. Len(work) + 1 \in DOMAIN work'
    BY <1>0, <1>4
  <2> QED BY <2>1, <1>0, <1>1, <1>4 DEF HasClaim, Has, Of
<1>7. /\ \A r \in Dispatchers \ {d} : op'[r] = op[r]
      /\ op'[d].at \in Waiting /\ op'[d].fresh /\ op'[d].claim = c
  BY <1>0 DEF CommitClaim, MayInvoke, Set, Owned, Dispatch, TypeOK, Waiting
<1>8. \A f : /\ HasClaim(work, f) => HasClaim(work', f)
             /\ Has(work', "observed", f) <=> Has(work, "observed", f)
  BY <1>0, <1>4, GrowthKeeps DEF HasClaim
<1>9. calls[e] = 0 /\ ~Has(work, "observed", e)
  BY <1>0, <1>5 DEF OwnershipInv, EffectInv, TypeOK
<1>10. ASSUME NEW r \in Dispatchers PROVE PreparedInv(r)' /\ OwnerInv(r)'
  <2>1. CASE r = d
    BY <2>1, <1>0, <1>6, <1>7, <1>8, <1>9
       DEF PreparedInv, OwnerInv, At, EffectOf, Waiting, Called
  <2>2. CASE r # d
    BY <2>2, <1>0, <1>4, <1>7, <1>8, DispatchKept DEF OwnershipInv
  <2> QED BY <2>1, <2>2
<1>11. Exclusive'
  <2>1. \A r \in Dispatchers : op[r].fresh => EffectOf(r) # e
    BY <1>5 DEF OwnershipInv, OwnerInv
  <2> QED BY <2>1, <1>0, <1>7 DEF Exclusive, OwnershipInv, EffectOf
<1>12. ASSUME NEW f \in Effects PROVE EffectInv(f)'
  BY <1>0, <1>8 DEF EffectInv, OwnershipInv
<1>13. KnownIsTrue'
  <2>1. \A i \in Of(work', "observed") : i \in Of(work, "observed") /\ work'[i] = work[i]
    BY <1>0, <1>4 DEF NoNew, Grows, Of
  <2> QED BY <2>1, <1>0 DEF KnownIsTrue, OwnershipInv
<1> QED BY <1>10, <1>11, <1>12, <1>13 DEF OwnershipInv

(* A commit that is not fresh entitles its caller to nothing.              *)
LEMMA CommitClaimKeeps ==
  ASSUME TypeOK, TypeOK', OwnershipInv, NEW d \in Dispatchers, CommitClaim(d)
  PROVE  OwnershipInv'
<1>1. CASE CommitOutcome(op[d].claim) = "fresh"
  BY <1>1, FreshClaimKeeps
<1>2. CASE CommitOutcome(op[d].claim) # "fresh"
  BY <1>2, ReturnKeeps DEF CommitClaim, MayInvoke
<1> QED BY <1>1, <1>2

(* A restart owns nothing.                                                 *)
LEMMA ResumeKeeps ==
  ASSUME TypeOK, TypeOK', OwnershipInv, NEW d \in Dispatchers, NEW e \in Effects, Resume(d, e)
  PROVE  OwnershipInv'
<1>0. work \in Seq(Facts) /\ UNCHANGED <<work, calls, fate>> /\ Grows /\ NoNew("observed")
  BY Unchanging DEF TypeOK, Resume
<1>1. /\ op'[d].at = "recovery-policy" /\ ~op'[d].fresh
      /\ \A r \in Dispatchers \ {d} : op'[r] = op[r]
  BY DEF Resume, TypeOK, Set, Dispatch
<1>2. PreparedInv(d)' /\ OwnerInv(d)'
  BY <1>1 DEF PreparedInv, OwnerInv, At, Called
<1> QED BY <1>0, <1>1, <1>2, RestKept

(* Binding a policy moves the dispatch and keeps what it owns.             *)
LEMMA BindPolicyKeeps ==
  ASSUME TypeOK, TypeOK', OwnershipInv, NEW d \in Dispatchers,
         BindRecoveryPolicy(d) \/ BindRetryPolicy(d)
  PROVE  OwnershipInv'
<1>a. PICK kind \in PolicyKinds, next \in Waiting :
        \E allowed : kind \in Waiting /\ BindPolicy(d, kind, next, allowed)
  BY DEF BindRecoveryPolicy, BindRetryPolicy, PolicyKinds, Waiting
<1>1. PICK allowed : kind \in Waiting /\ BindPolicy(d, kind, next, allowed)
  BY <1>a
<1>2. /\ work \in Seq(Facts) /\ work' \in Seq(Facts) /\ EffectOf(d) \in Effects
      /\ UNCHANGED <<calls, fate>> /\ op[d].at \in Waiting
  BY <1>1 DEF TypeOK, BindPolicy, ClaimFacts, EffectOf, At
<1>3. Effect(kind, EffectOf(d)) \in Facts /\ Effect(kind, EffectOf(d)).kind # "observed"
  BY <1>2, EffectTyped DEF PolicyKinds, Effect
<1>4. Grows /\ NoNew("observed")
  <2>1. Commit(<<Effect(kind, EffectOf(d))>>) \/ UNCHANGED work
    BY <1>1 DEF BindPolicy, EffectOf
  <2> QED BY <2>1, <1>2, <1>3, CommitOne, Unchanging
<1>5. /\ op'[d].at = next /\ op'[d].fresh = op[d].fresh /\ op'[d].claim = op[d].claim
      /\ \A r \in Dispatchers \ {d} : op'[r] = op[r]
  BY <1>1 DEF TypeOK, BindPolicy, Goto, Set, Dispatch
<1>6. \A f : /\ HasClaim(work, f) => HasClaim(work', f)
             /\ Has(work', "observed", f) <=> Has(work, "observed", f)
  BY <1>2, <1>4, GrowthKeeps DEF HasClaim
<1>7. PreparedInv(d)' /\ OwnerInv(d)'
  BY <1>2, <1>5, <1>6 DEF OwnershipInv, PreparedInv, OwnerInv, At, EffectOf, Waiting, Called
<1> QED BY <1>2, <1>4, <1>5, <1>7, RestKept DEF EffectOf

(* The only owner makes the first call.                                    *)
LEMMA CallProviderKeeps ==
  ASSUME TypeOK, TypeOK', OwnershipInv, NEW d \in Dispatchers, CallProvider(d)
  PROVE  OwnershipInv'
<1> DEFINE e == EffectOf(d)
<1>1. /\ work \in Seq(Facts) /\ UNCHANGED <<work, fate>> /\ e \in Effects
      /\ op[d].at \in Waiting /\ op[d].fresh /\ Grows /\ NoNew("observed")
  BY Unchanging DEF TypeOK, CallProvider, ClaimFacts, EffectOf, At, Waiting
<1>2. calls[e] = 0 /\ HasClaim(work, e) /\ ~Has(work, "observed", e)
  BY <1>1 DEF OwnershipInv, OwnerInv
<1>3. calls'[e] = 1 /\ \A f \in Effects \ {e} : calls'[f] = calls[f]
  BY <1>1, <1>2 DEF CallProvider, EffectOf, TypeOK
<1>4. /\ op'[d].at = "calling" /\ op'[d].fresh /\ op'[d].claim = op[d].claim
      /\ \A r \in Dispatchers \ {d} : op'[r] = op[r]
  BY <1>1 DEF TypeOK, CallProvider, Goto, Set, Dispatch
<1>5. \A f : (HasClaim(work', f) <=> HasClaim(work, f))
             /\ (Has(work', "observed", f) <=> Has(work, "observed", f))
  BY <1>1 DEF HasClaim, Has, Of
<1>6. ASSUME NEW r \in Dispatchers PROVE PreparedInv(r)' /\ OwnerInv(r)'
  <2>1. CASE r = d
    BY <2>1, <1>1, <1>2, <1>3, <1>4, <1>5
       DEF PreparedInv, OwnerInv, At, EffectOf, Waiting, Called
  <2>2. CASE r # d
    <3>1. op[r].fresh => EffectOf(r) # e /\ EffectOf(r) \in Effects
      BY <2>2, <1>1 DEF OwnershipInv, Exclusive, TypeOK, ClaimFacts, EffectOf
    <3> QED BY <2>2, <3>1, <1>1, <1>3, <1>4, <1>5, DispatchKept DEF OwnershipInv
  <2> QED BY <2>1, <2>2
<1>7. Exclusive'
  BY <1>1, <1>4 DEF Exclusive, OwnershipInv, EffectOf
<1>8. ASSUME NEW f \in Effects PROVE EffectInv(f)'
  BY <1>2, <1>3, <1>5 DEF EffectInv, OwnershipInv
<1>9. KnownIsTrue'
  BY <1>1 DEF KnownIsTrue, OwnershipInv, Of
<1> QED BY <1>6, <1>7, <1>8, <1>9 DEF OwnershipInv

(* A definite answer says what became of the effect.                       *)
LEMMA ReceiveAnswerKeeps ==
  ASSUME TypeOK, TypeOK', OwnershipInv, NEW d \in Dispatchers, ReceiveAnswer(d)
  PROVE  OwnershipInv'
<1>1. /\ work \in Seq(Facts) /\ UNCHANGED <<work, calls, fate>> /\ At(d, "calling")
      /\ Grows /\ NoNew("observed") /\ EffectOf(d) \in Effects
  BY Unchanging DEF TypeOK, ReceiveAnswer, ClaimFacts, EffectOf
<1>2. PICK a \in Answers(fate[EffectOf(d)]) :
        Set(d, Dispatch("answered", op[d].entry, TRUE, op[d].claim, Normalize(a)))
  BY DEF ReceiveAnswer, EffectOf
<1>3. /\ op'[d].at = "answered" /\ op'[d].fresh /\ op'[d].claim = op[d].claim
      /\ op'[d].outcome = Normalize(a) /\ \A r \in Dispatchers \ {d} : op'[r] = op[r]
  BY <1>2 DEF TypeOK, Set, Dispatch
<1>4. Normalize(a) # "unknown" => fate[EffectOf(d)] = Normalize(a)
  BY DEF Normalize, Answers
<1>5. op[d].fresh /\ calls[EffectOf(d)] = 1
  BY <1>1 DEF OwnershipInv, OwnerInv, At, Called
<1>6. \A f : (HasClaim(work', f) <=> HasClaim(work, f))
             /\ (Has(work', "observed", f) <=> Has(work, "observed", f))
  BY <1>1 DEF HasClaim, Has, Of
<1>7. PreparedInv(d)' /\ OwnerInv(d)'
  BY <1>1, <1>3, <1>4, <1>5, <1>6
     DEF OwnershipInv, PreparedInv, OwnerInv, At, EffectOf, Waiting, Called
<1> QED BY <1>1, <1>3, <1>5, <1>7, RestKept DEF EffectOf

(* The observation is the first of its effect, and it is true.             *)
LEMMA PersistObservationKeeps ==
  ASSUME TypeOK, TypeOK', OwnershipInv, NEW d \in Dispatchers, PersistObservation(d)
  PROVE  OwnershipInv'
<1> DEFINE e == EffectOf(d)
<1>1. /\ work \in Seq(Facts) /\ work' \in Seq(Facts) /\ UNCHANGED <<calls, fate>>
      /\ At(d, "answered") /\ e \in Effects /\ op[d].outcome \in Outcomes
  BY DEF TypeOK, PersistObservation, ClaimFacts, EffectOf
<1>2. /\ Observation(d) \in Facts /\ Observation(d).kind = "observed"
      /\ Observation(d).effect = e /\ Observation(d).outcome = op[d].outcome
  BY <1>1 DEF Observation, Facts, EffectOf
<1>3. Grows /\ Len(work') = Len(work) + 1 /\ work'[Len(work) + 1] = Observation(d)
  BY <1>1, <1>2, CommitOne DEF PersistObservation
<1>4. op[d].fresh /\ calls[e] = 1
      /\ (op[d].outcome # "unknown" => fate[e] = op[d].outcome)
  BY <1>1 DEF OwnershipInv, OwnerInv, At, Called
<1>5. /\ op'[d].at = "idle" /\ ~op'[d].fresh
      /\ \A r \in Dispatchers \ {d} : op'[r] = op[r]
  BY DEF PersistObservation, Return, Set, TypeOK, Idle, Dispatch
<1>6. \A i \in Of(work', "observed") :
        \/ i \in Of(work, "observed") /\ work'[i] = work[i]
        \/ i = Len(work) + 1
  BY <1>1, <1>3 DEF Of, Grows
<1>7. ASSUME NEW f
      PROVE  /\ HasClaim(work, f) => HasClaim(work', f)
             /\ Has(work', "observed", f) => Has(work, "observed", f) \/ f = e
  <2>1. HasClaim(work, f) => HasClaim(work', f)
    BY <1>1, <1>3, GrowthKeeps DEF HasClaim
  <2>2. Has(work', "observed", f) => Has(work, "observed", f) \/ f = e
    BY <1>2, <1>3, <1>6 DEF Has
  <2> QED BY <2>1, <2>2
<1>8. ASSUME NEW r \in Dispatchers PROVE PreparedInv(r)' /\ OwnerInv(r)'
  <2>1. CASE r = d
    BY <2>1, <1>5 DEF PreparedInv, OwnerInv, At, Called
  <2>2. CASE r # d
    <3>1. op[r].fresh => EffectOf(r) # e
      BY <2>2, <1>4 DEF OwnershipInv, Exclusive
    <3> QED BY <2>2, <3>1, <1>1, <1>3, <1>5, <1>7, DispatchKept DEF OwnershipInv
  <2> QED BY <2>1, <2>2
<1>9. Exclusive'
  BY <1>5 DEF Exclusive, OwnershipInv, EffectOf
<1>10. ASSUME NEW f \in Effects PROVE EffectInv(f)'
  BY <1>1, <1>4, <1>7 DEF EffectInv, OwnershipInv
<1>11. KnownIsTrue'
  BY <1>1, <1>2, <1>3, <1>4, <1>6 DEF KnownIsTrue, OwnershipInv
<1> QED BY <1>8, <1>9, <1>10, <1>11 DEF OwnershipInv

(* Every step of a dispatcher keeps the invariant.                         *)
LEMMA DispatchStepKeeps ==
  ASSUME TypeOK, TypeOK', OwnershipInv, NEW d \in Dispatchers, DispatchStep(d)
  PROVE  OwnershipInv'
<1>1. CASE Abandon(d)
  BY <1>1, ReturnKeeps DEF Abandon, Return
<1> QED BY <1>1, PrepareKeeps, CommitClaimKeeps, ResumeKeeps, BindPolicyKeeps,
           CallProviderKeeps, ReceiveAnswerKeeps, PersistObservationKeeps DEF DispatchStep

(* The inductive invariant: no step of a dispatcher, of the lease, of the  *)
(* approval or of the provider breaks it, for any number of each.          *)
THEOREM DispatchInvariant == Spec => [](TypeOK /\ OwnershipInv)
<1>1. Init => TypeOK /\ OwnershipInv
  <2> SUFFICES ASSUME Init PROVE OwnershipInv
    BY InitTypes
  <2>1. \A i \in DOMAIN work : work[i].kind = "legacy-observed"
    BY DEF Init, Effect
  <2>2. Of(work, "claim") = {} /\ Of(work, "observed") = {}
    BY <2>1 DEF Of
  <2>3. \A d \in Dispatchers : op[d].at = "idle" /\ ~op[d].fresh
    BY DEF Init, Idle, Dispatch
  <2>4. \A e \in Effects : calls[e] = 0
    BY DEF Init
  <2>5. \A d \in Dispatchers : PreparedInv(d) /\ OwnerInv(d)
    BY <2>3 DEF PreparedInv, OwnerInv, At, Called
  <2>6. Exclusive /\ KnownIsTrue
    BY <2>2, <2>3 DEF Exclusive, KnownIsTrue
  <2>7. \A e \in Effects : EffectInv(e)
    BY <2>2, <2>4 DEF EffectInv, Has
  <2> QED BY <2>5, <2>6, <2>7 DEF OwnershipInv
<1>2. TypeOK /\ OwnershipInv /\ [Next]_vars => TypeOK' /\ OwnershipInv'
  <2> SUFFICES ASSUME TypeOK, OwnershipInv, [Next]_vars, TypeOK' PROVE OwnershipInv'
    BY TypesKept
  <2>0. work \in Seq(Facts)
    BY DEF TypeOK
  <2>1. CASE Tick \/ Approve \/ UNCHANGED vars
    BY <2>0, <2>1, Unchanging, QuietKept DEF Tick, Approve, vars
  <2>2. CASE LeaseStep
    BY <2>2, LeaseStepKeeps
  <2>3. CASE Cancel \/ CancelClaimFirst
    BY <2>3, CancelKeeps
  <2>4. ASSUME NEW e \in Effects, Activate(e) \/ LegacyReceipt(e) \/ Perform(e)
        PROVE  OwnershipInv'
    BY <2>4, EffectStepKeeps, PerformKeeps
  <2>5. ASSUME NEW d \in Dispatchers, DispatchStep(d) PROVE OwnershipInv'
    BY <2>5, DispatchStepKeeps
  <2> QED BY <2>1, <2>2, <2>3, <2>4, <2>5 DEF Next
<1> QED BY <1>1, <1>2, PTL DEF Spec

(* Whatever is claimed, repeated, raced and restarted, the provider is     *)
(* asked to perform an effect at most once.                                *)
THEOREM CalledAtMostOnce == Spec => []AtMostOneCall
<1>1. OwnershipInv => AtMostOneCall
  BY DEF OwnershipInv, EffectInv, AtMostOneCall
<1> QED BY <1>1, DispatchInvariant, PTL

(* An effect that the stream shows as eligible was never attempted.        *)
THEOREM EligibleNeverCalled == Spec => []EligibleUntouched
<1>1. TypeOK /\ OwnershipInv => EligibleUntouched
  BY DEF TypeOK, OwnershipInv, EffectInv, EligibleUntouched, Eligible
<1> QED BY <1>1, DispatchInvariant, PTL

(* A definite outcome in the stream is what happened at the provider.      *)
THEOREM RecordedIsTrue == Spec => []KnownIsTrue
<1>1. OwnershipInv => KnownIsTrue
  BY DEF OwnershipInv
<1> QED BY <1>1, DispatchInvariant, PTL

(***************************************************************************)
(* Every step implements one of the abstract specification, or stutters.   *)
(***************************************************************************)

(* Without an observation the recorded outcomes stay.                      *)
LEMMA SameRecorded ==
  ASSUME work \in Seq(Facts), Grows, NoNew("observed")
  PROVE  Recorded' = Recorded
<1>1. \A i \in Of(work, "observed") : work'[i] = work[i]
  BY DEF Of, Grows
<1> QED BY <1>1 DEF Recorded, NoNew

(* An effect without an observation has no outcome.                        *)
LEMMA Unrecorded ==
  ASSUME NEW e, ~Has(work, "observed", e)
  PROVE  \A o : <<e, o>> \notin Recorded
BY DEF Has, Recorded

(* Without a claim the owned effects stay.                                 *)
LEMMA SameClaimed ==
  ASSUME work \in Seq(Facts), work' \in Seq(Facts), Grows, NoNew("claim")
  PROVE  Claimed' = Claimed
BY GrowthKeeps DEF Claimed, HasClaim

(* Facts that own, record and close nothing are a stuttering step.         *)
LEMMA Stutters ==
  ASSUME TypeOK, TypeOK', Grows, \A k \in {"claim", "observed", "cancelled"} : NoNew(k),
         UNCHANGED calls
  PROVE  UNCHANGED OwnedOnce!vars
<1>1. work \in Seq(Facts) /\ work' \in Seq(Facts)
  BY DEF TypeOK
<1>2. Uncancelled' = Uncancelled
  BY DEF NoNew, Uncancelled, Cancelled
<1> QED BY <1>1, <1>2, SameRecorded, SameClaimed DEF OwnedOnce!vars

(* A cancellation closes the work.                                         *)
LEMMA CancelCloses ==
  ASSUME TypeOK, TypeOK', Cancel \/ CancelClaimFirst
  PROVE  OwnedOnce!Close
<1>0. work \in Seq(Facts) /\ work' \in Seq(Facts) /\ proposal \in Nat
      /\ Uncancelled /\ UNCHANGED calls
  BY DEF TypeOK, Cancel, CancelClaimFirst, CancelAt, Open, Uncancelled
<1>1. PICK head \in Nat : CancelAt(head)
  BY <1>0 DEF Cancel, CancelClaimFirst
<1> DEFINE f == [kind |-> "cancelled", prefix |-> proposal, head |-> head]
<1>2. f \in Facts /\ f.kind = "cancelled"
  BY <1>0 DEF Facts
<1>3. /\ Grows /\ NoNew("claim") /\ NoNew("observed")
      /\ Len(work') = Len(work) + 1 /\ work'[Len(work) + 1] = f
  BY <1>0, <1>1, <1>2, CommitOne DEF CancelAt
<1>4. ~Uncancelled'
  <2>1. Len(work) + 1 \in DOMAIN work'
    BY <1>0, <1>3
  <2> QED BY <2>1, <1>2, <1>3 DEF Uncancelled, Cancelled, Of
<1> QED BY <1>0, <1>3, <1>4, SameRecorded, SameClaimed DEF OwnedOnce!Close

(* A fresh claim owns its effect.                                          *)
LEMMA FreshClaimOwns ==
  ASSUME TypeOK, TypeOK', OwnershipInv, NEW d \in Dispatchers, CommitClaim(d),
         CommitOutcome(op[d].claim) = "fresh"
  PROVE  OwnedOnce!Own(EffectOf(d))
<1> DEFINE c == op[d].claim
           e == EffectOf(d)
<1>0. /\ work \in Seq(Facts) /\ work' \in Seq(Facts) /\ At(d, "prepared")
      /\ UNCHANGED calls /\ e \in Effects /\ c \in ClaimFacts /\ c.effect = e
  BY DEF TypeOK, CommitClaim, ClaimFacts, EffectOf
<1>1. c \in Facts /\ c.kind = "claim"
  BY <1>0 DEF ClaimFacts, Facts
<1>2. Effect("start", e) \in Facts /\ Effect("start", e).kind = "start"
  BY <1>0, EffectTyped DEF Effect
<1>3. Commit(<<c, Effect("start", e)>>)
  BY DEF CommitClaim, EffectOf
<1>4. /\ Grows /\ NoNew("observed") /\ NoNew("cancelled") /\ Len(work') = Len(work) + 2
      /\ work'[Len(work) + 1] = c /\ work'[Len(work) + 2] = Effect("start", e)
  <2> HIDE DEF c, e
  <2> QED BY <1>0, <1>1, <1>2, <1>3, CommitTwo
<1>5. e \notin Claimed /\ Uncancelled
  BY <1>0, FreshIsFirst DEF Claimed, Uncancelled
<1>6. Uncancelled' = Uncancelled
  BY <1>4 DEF NoNew, Uncancelled, Cancelled
<1>7. Claimed' = Claimed \cup {e}
  <2>1. Of(work', "claim") = Of(work, "claim") \cup {Len(work) + 1}
    BY <1>0, <1>1, <1>2, <1>4 DEF Of, Grows
  <2>2. \A i \in Of(work, "claim") : work'[i] = work[i]
    BY <1>0, <1>4 DEF Of, Grows
  <2>3. \A f : HasClaim(work', f) <=> HasClaim(work, f) \/ f = e
    BY <2>1, <2>2, <1>0, <1>4 DEF HasClaim, Has
  <2> QED BY <2>3, <1>0 DEF Claimed
<1>8. Recorded' = Recorded
  BY <1>0, <1>4, SameRecorded
<1> QED BY <1>0, <1>5, <1>6, <1>7, <1>8 DEF OwnedOnce!Own

(* The call performs the effect.                                           *)
LEMMA CallPerforms ==
  ASSUME TypeOK, TypeOK', OwnershipInv, NEW d \in Dispatchers, CallProvider(d)
  PROVE  OwnedOnce!Perform(EffectOf(d))
<1> DEFINE e == EffectOf(d)
<1>1. UNCHANGED work /\ e \in Effects /\ op[d].at \in Waiting /\ op[d].fresh
  BY DEF TypeOK, CallProvider, ClaimFacts, EffectOf, At, Waiting
<1>2. calls[e] = 0 /\ HasClaim(work, e) /\ ~Has(work, "observed", e)
  BY <1>1 DEF OwnershipInv, OwnerInv
<1>3. calls' = [calls EXCEPT ![e] = 1]
  BY <1>1, <1>2 DEF CallProvider, EffectOf, TypeOK
<1>4. e \in Claimed /\ ~OwnedOnce!Settled(e)
  BY <1>1, <1>2, Unrecorded DEF Claimed, OwnedOnce!Settled
<1>5. UNCHANGED <<Uncancelled, Claimed, Recorded>>
  BY <1>1 DEF Uncancelled, Cancelled, Claimed, HasClaim, Has, Of, Recorded
<1> QED BY <1>2, <1>3, <1>4, <1>5 DEF OwnedOnce!Perform

(* The observation records the outcome.                                    *)
LEMMA ObservationRecords ==
  ASSUME TypeOK, TypeOK', OwnershipInv, NEW d \in Dispatchers, PersistObservation(d)
  PROVE  OwnedOnce!Record(EffectOf(d))
<1> DEFINE e == EffectOf(d)
           o == op[d].outcome
<1>1. /\ work \in Seq(Facts) /\ work' \in Seq(Facts) /\ UNCHANGED calls
      /\ At(d, "answered") /\ e \in Effects /\ o \in Outcomes
  BY DEF TypeOK, PersistObservation, ClaimFacts, EffectOf
<1>2. /\ Observation(d) \in Facts /\ Observation(d).kind = "observed"
      /\ Observation(d).effect = e /\ Observation(d).outcome = o
  BY <1>1 DEF Observation, Facts, EffectOf
<1>3. /\ Grows /\ NoNew("claim") /\ NoNew("cancelled")
      /\ Len(work') = Len(work) + 1 /\ work'[Len(work) + 1] = Observation(d)
  BY <1>1, <1>2, CommitOne DEF PersistObservation
<1>4. calls[e] = 1 /\ ~OwnedOnce!Settled(e)
  <2>1. calls[e] = 1 /\ ~Has(work, "observed", e)
    BY <1>1 DEF OwnershipInv, OwnerInv, At, Called
  <2> QED BY <2>1, Unrecorded DEF OwnedOnce!Settled
<1>5. Recorded' = Recorded \cup {<<e, o>>}
  <2>1. Of(work', "observed") = Of(work, "observed") \cup {Len(work) + 1}
    BY <1>1, <1>2, <1>3 DEF Of, Grows
  <2>2. \A i \in Of(work, "observed") : work'[i] = work[i]
    BY <1>1, <1>3 DEF Of, Grows
  <2> QED BY <2>1, <2>2, <1>2, <1>3 DEF Recorded
<1>6. UNCHANGED <<Uncancelled, Claimed>>
  BY <1>1, <1>3, SameClaimed DEF Uncancelled, Cancelled, NoNew
<1>7. o \in OwnedOnce!Outcomes
  BY <1>1 DEF Outcomes, OwnedOnce!Outcomes
<1> QED BY <1>1, <1>4, <1>5, <1>6, <1>7 DEF OwnedOnce!Record

(* Every other step of a dispatcher appends no claim and no observation.   *)
LEMMA OtherDispatchStutters ==
  ASSUME TypeOK, TypeOK', NEW d \in Dispatchers,
         \/ \E e \in Effects, k \in Keys, entry \in Entries : Prepare(d, e, k, entry)
         \/ CommitClaim(d) /\ CommitOutcome(op[d].claim) # "fresh"
         \/ \E e \in Effects : Resume(d, e)
         \/ BindRecoveryPolicy(d) \/ BindRetryPolicy(d) \/ ReceiveAnswer(d) \/ Abandon(d)
  PROVE  UNCHANGED OwnedOnce!vars
<1>0. work \in Seq(Facts)
  BY DEF TypeOK
<1>1. CASE UNCHANGED <<work, calls>>
  BY <1>0, <1>1, Unchanging, Stutters
<1>2. ASSUME NEW kind \in PolicyKinds, Commit(<<Effect(kind, EffectOf(d))>>), UNCHANGED calls
      PROVE  UNCHANGED OwnedOnce!vars
  <2>1. EffectOf(d) \in Effects
    BY DEF TypeOK, ClaimFacts, EffectOf
  <2>2. /\ Effect(kind, EffectOf(d)) \in Facts
        /\ Effect(kind, EffectOf(d)).kind \notin {"claim", "observed", "cancelled"}
    BY <2>1, EffectTyped DEF PolicyKinds, Effect
  <2> QED BY <1>0, <1>2, <2>2, CommitOne, Stutters
<1>3. CASE BindRecoveryPolicy(d)
  BY <1>1, <1>2, <1>3 DEF BindRecoveryPolicy, BindPolicy, PolicyKinds, EffectOf
<1>4. CASE BindRetryPolicy(d)
  BY <1>1, <1>2, <1>4 DEF BindRetryPolicy, BindPolicy, PolicyKinds, EffectOf
<1> QED BY <1>1, <1>3, <1>4 DEF Prepare, CommitClaim, Resume, ReceiveAnswer, Abandon

(* Lease events are stuttering steps.                                      *)
LEMMA LeaseStepStutters ==
  ASSUME TypeOK, TypeOK', LeaseStep
  PROVE  UNCHANGED OwnedOnce!vars
<1>a. PICK kind \in LeaseKinds : \E epoch, until :
        Commit(<<LeaseFact(kind, epoch, until)>>) /\ UNCHANGED calls
  BY DEF LeaseStep, ClaimLease, RenewLease, ReleaseLease, ExpireLease, ReclaimLease, LeaseKinds
<1>1. PICK epoch, until :
        Commit(<<LeaseFact(kind, epoch, until)>>) /\ UNCHANGED calls
  BY <1>a
<1> DEFINE f == LeaseFact(kind, epoch, until)
<1>2. work \in Seq(Facts) /\ work' \in Seq(Facts) /\ work' = work \o <<f>>
  BY <1>1 DEF TypeOK, Commit
<1>3. f \in Facts
  <2>1. Len(work') = Len(work) + 1 /\ work'[Len(work) + 1] = f /\ Len(work) \in Nat
    BY <1>2
  <2>2. Len(work) + 1 \in DOMAIN work'
    BY <1>2, <2>1
  <2> QED BY <1>2, <2>1, <2>2
<1>4. f.kind \notin {"claim", "observed", "cancelled"}
  BY DEF LeaseFact, LeaseKinds
<1> QED BY <1>1, <1>2, <1>3, <1>4, CommitOne, Stutters

(* Activations and receipts are stuttering steps.                          *)
LEMMA EffectStepStutters ==
  ASSUME TypeOK, TypeOK', NEW e \in Effects, Activate(e) \/ LegacyReceipt(e)
  PROVE  UNCHANGED OwnedOnce!vars
<1>1. PICK f \in Facts : /\ Commit(<<f>>) /\ UNCHANGED calls
                         /\ f.kind \notin {"claim", "observed", "cancelled"}
  <2>1. [kind |-> "activated", capability |-> CapabilityOf[e]] \in Facts
    BY DEF Facts
  <2>2. /\ Effect("legacy-receipt", e) \in Facts
        /\ Effect("legacy-receipt", e).kind = "legacy-receipt"
    BY EffectTyped DEF LegacyKinds, Effect
  <2> QED BY <2>1, <2>2 DEF Activate, LegacyReceipt
<1>2. work \in Seq(Facts)
  BY DEF TypeOK
<1> QED BY <1>1, <1>2, CommitOne, Stutters

(* The dispatch protocol implements the abstract specification of owned    *)
(* effects, for any dispatchers, effects, keys and bounds.                 *)
THEOREM OwnershipImplemented == Spec => ImplementsOwnership
<1>1. Init => OwnedOnce!Init
  <2> SUFFICES ASSUME Init PROVE OwnedOnce!Init
    OBVIOUS
  <2>1. \A i \in DOMAIN work : work[i].kind = "legacy-observed"
    BY DEF Init, Effect
  <2>2. Of(work, "claim") = {} /\ Of(work, "observed") = {} /\ Of(work, "cancelled") = {}
    BY <2>1 DEF Of
  <2>3. Uncancelled /\ Claimed = {} /\ Recorded = {}
    BY <2>2 DEF Uncancelled, Cancelled, Claimed, HasClaim, Has, Recorded
  <2> QED BY <2>3 DEF Init, OwnedOnce!Init
<1>2. /\ TypeOK /\ OwnershipInv /\ TypeOK' /\ [Next]_vars
      => [OwnedOnce!Next]_(OwnedOnce!vars)
  <2> SUFFICES ASSUME TypeOK, OwnershipInv, TypeOK', [Next]_vars
               PROVE  OwnedOnce!Next \/ UNCHANGED OwnedOnce!vars
    OBVIOUS
  <2>0. work \in Seq(Facts)
    BY DEF TypeOK
  <2>1. CASE Tick \/ Approve \/ UNCHANGED vars
    BY <2>0, <2>1, Unchanging, Stutters DEF Tick, Approve, vars
  <2>2. CASE LeaseStep
    BY <2>2, LeaseStepStutters
  <2>3. CASE Cancel \/ CancelClaimFirst
    BY <2>3, CancelCloses DEF OwnedOnce!Next
  <2>4. ASSUME NEW e \in Effects, Activate(e) \/ LegacyReceipt(e)
        PROVE  UNCHANGED OwnedOnce!vars
    BY <2>4, EffectStepStutters
  <2>5. ASSUME NEW e \in Effects, Perform(e) PROVE UNCHANGED OwnedOnce!vars
    BY <2>0, <2>5, Unchanging, Stutters DEF Perform
  <2>6. ASSUME NEW d \in Dispatchers, DispatchStep(d)
        PROVE  OwnedOnce!Next \/ UNCHANGED OwnedOnce!vars
    <3>0. EffectOf(d) \in Effects
      BY DEF TypeOK, ClaimFacts, EffectOf
    <3>1. CASE CommitClaim(d) /\ CommitOutcome(op[d].claim) = "fresh"
      BY <3>0, <3>1, FreshClaimOwns DEF OwnedOnce!Next
    <3>2. CASE CallProvider(d)
      BY <3>0, <3>2, CallPerforms DEF OwnedOnce!Next
    <3>3. CASE PersistObservation(d)
      BY <3>0, <3>3, ObservationRecords DEF OwnedOnce!Next
    <3> QED BY <2>6, <3>1, <3>2, <3>3, OtherDispatchStutters DEF DispatchStep
  <2> QED BY <2>1, <2>2, <2>3, <2>4, <2>5, <2>6 DEF Next
<1> QED BY <1>1, <1>2, DispatchInvariant, PTL DEF Spec, ImplementsOwnership, OwnedOnce!Spec

(***************************************************************************)
(* Every stream that races leave behind can be folded again.  A fold only  *)
(* looks at what precedes a fact, so what it checked of the old facts      *)
(* still holds of a longer stream, and each commit has to answer for its   *)
(* own facts only.                                                         *)
(***************************************************************************)
Extends(t, s) == /\ Len(s) <= Len(t)
                 /\ \A i \in 1..Len(s) : t[i] = s[i]

(* Prefixes within the old stream are what they were.                      *)
LEMMA PrefixKept ==
  ASSUME NEW s \in Seq(Facts), NEW t \in Seq(Facts), Extends(t, s), NEW n \in Nat, n <= Len(s)
  PROVE  Prefix(t, n) = Prefix(s, n)
<1>0. Len(s) \in Nat /\ Len(t) \in Nat /\ n <= Len(t)
  BY DEF Extends
<1>1. Prefix(t, n) \in Seq(Facts) /\ Prefix(s, n) \in Seq(Facts)
  BY <1>0 DEF Prefix
<1>2. Len(Prefix(t, n)) = n /\ Len(Prefix(s, n)) = n
  BY <1>0 DEF Prefix
<1>3. \A i \in 1..n : Prefix(t, n)[i] = Prefix(s, n)[i]
  BY <1>0 DEF Prefix, Extends
<1> QED BY <1>1, <1>2, <1>3

(* The whole stream is a prefix of what extends it.                        *)
LEMMA WholePrefix ==
  ASSUME NEW s \in Seq(Facts)
  PROVE  Prefix(s, Len(s)) = s
<1>1. Len(s) \in Nat
  OBVIOUS
<1>2. Prefix(s, Len(s)) \in Seq(Facts) /\ Len(Prefix(s, Len(s))) = Len(s)
  BY <1>1 DEF Prefix
<1>3. \A i \in 1..Len(s) : Prefix(s, Len(s))[i] = s[i]
  BY <1>1 DEF Prefix
<1> QED BY <1>1, <1>2, <1>3

(* The old facts of a kind are there, in their places.                     *)
LEMMA OldFacts ==
  ASSUME NEW s \in Seq(Facts), NEW t \in Seq(Facts), Extends(t, s), NEW k
  PROVE  /\ \A i \in Of(s, k) : i \in Of(t, k) /\ t[i] = s[i] /\ i \in 1..Len(s)
         /\ \A i \in Of(t, k) : i \in Of(s, k) \/ (i \in Nat /\ i > Len(s))
<1>1. /\ DOMAIN s = 1..Len(s) /\ DOMAIN t = 1..Len(t) /\ Len(s) \in Nat /\ Len(t) \in Nat
  OBVIOUS
<1> QED BY <1>1 DEF Of, Extends

(* What a fold checked of the old facts.                                   *)
LEMMA OldBindings ==
  ASSUME NEW s \in Seq(Facts), NEW t \in Seq(Facts), Extends(t, s),
         NEW g, Folds(s, g)
  PROVE  /\ \A i \in Of(s, "claim") : ClaimBound(t, i)
         /\ \A i \in Of(s, "observed") : ObservationBound(t, i)
         /\ \A i \in Of(s, "cancelled") : CancellationBound(t, g, i)
<1>0. /\ DOMAIN s = 1..Len(s) /\ DOMAIN t = 1..Len(t) /\ Len(s) \in Nat /\ Len(t) \in Nat
      /\ Len(s) <= Len(t) /\ \A i \in 1..Len(s) : t[i] = s[i]
  BY DEF Extends
<1>1. ASSUME NEW i \in Of(s, "claim") PROVE ClaimBound(t, i)
  <2>1. /\ ClaimBound(s, i) /\ t[i] = s[i] /\ i \in 1..Len(s)
    BY OldFacts DEF Folds
  <2>2. s[i].base = i - 1 /\ i + 1 \in DOMAIN s
    BY <2>1 DEF ClaimBound
  <2>3. Prefix(t, t[i].base) = Prefix(s, s[i].base)
    BY <2>1, <2>2, <1>0, PrefixKept
  <2>4. i + 1 \in DOMAIN t /\ t[i + 1] = s[i + 1]
    BY <2>2, <1>0
  <2> QED BY <2>1, <2>2, <2>3, <2>4 DEF ClaimBound
<1>2. ASSUME NEW i \in Of(s, "observed") PROVE ObservationBound(t, i)
  <2>1. PICK j \in Of(s, "start") : j < i /\ s[j].effect = s[i].effect
    BY DEF Folds, ObservationBound
  <2>2. j \in Of(t, "start") /\ t[j] = s[j] /\ t[i] = s[i]
    BY OldFacts
  <2> QED BY <2>1, <2>2 DEF ObservationBound
<1>3. ASSUME NEW i \in Of(s, "cancelled") PROVE CancellationBound(t, g, i)
  <2>1. /\ CancellationBound(s, g, i) /\ t[i] = s[i] /\ i \in 1..Len(s)
    BY OldFacts DEF Folds
  <2>2. s[i].head \in Nat
    <3>1. s[i] \in Facts /\ s[i].kind = "cancelled"
      BY DEF Of
    <3> QED BY <3>1 DEF Facts, LeaseFacts, ClaimFacts, LeaseKinds, LegacyKinds, PolicyKinds
  <2>3. ASSUME NEW h \in Nat, ClaimFirst(s, h) PROVE ClaimFirst(t, h)
    <3>1. h + 1 \in 1..Len(s) /\ h + 2 \in 1..Len(s)
      BY <1>0, <2>3 DEF ClaimFirst
    <3>2. t[h + 1] = s[h + 1] /\ t[h + 2] = s[h + 2] /\ h + 2 \in DOMAIN t
      BY <1>0, <3>1
    <3> QED BY <2>3, <3>2 DEF ClaimFirst
  <2> QED BY <2>1, <2>2, <2>3 DEF CancellationBound
<1> QED BY <1>1, <1>2, <1>3

(* What a fold does not bind to a position: the claims, starts and         *)
(* observations name different effects, and activations are clean.         *)
Disjoint(s) ==
    /\ Unique(s, "claim") /\ Unique(s, "start") /\ Unique(s, "observed")
    /\ ActivationsClean(s)

(* A kind that got no new fact is as it was.                               *)
LEMMA SameKind ==
  ASSUME NEW s \in Seq(Facts), NEW t \in Seq(Facts), Extends(t, s), NEW k,
         \A i \in DOMAIN t : i > Len(s) => t[i].kind # k
  PROVE  /\ Of(t, k) = Of(s, k)
         /\ \A e : Has(t, k, e) <=> Has(s, k, e)
         /\ Unique(s, k) => Unique(t, k)
<1>0. /\ \A i \in Of(s, k) : i \in Of(t, k) /\ t[i] = s[i]
      /\ \A i \in Of(t, k) : i \in Of(s, k) \/ (i \in Nat /\ i > Len(s))
  BY OldFacts
<1>1. \A i \in Of(t, k) : i \in Of(s, k)
  BY <1>0 DEF Of
<1>2. \A i \in Of(s, k) : i \in Of(t, k) /\ t[i] = s[i]
  BY <1>0
<1>3. Of(t, k) = Of(s, k)
  BY <1>1, <1>2
<1> QED BY <1>2, <1>3 DEF Has, Unique

(* A new fact of a kind keeps it unique if its effect had none.            *)
LEMMA NewKind ==
  ASSUME NEW s \in Seq(Facts), NEW t \in Seq(Facts), Extends(t, s), NEW k, NEW n,
         \A i \in Of(t, k) : i > Len(s) => i = n,
         ~Has(s, k, t[n].effect), Unique(s, k)
  PROVE  Unique(t, k)
<1>1. \A i \in Of(t, k) : i = n \/ (i \in Of(s, k) /\ t[i] = s[i])
  BY OldFacts
<1>2. \A i \in Of(s, k) : s[i].effect # t[n].effect
  BY DEF Has
<1> QED BY <1>1, <1>2 DEF Unique

(* A stream that got no activation and no legacy fact keeps both apart.    *)
LEMMA SameActivations ==
  ASSUME NEW s \in Seq(Facts), NEW t \in Seq(Facts), Extends(t, s), ActivationsClean(s),
         \A i \in DOMAIN t :
            i > Len(s) => t[i].kind \notin {"activated", "legacy-observed", "legacy-receipt"}
  PROVE  ActivationsClean(t)
<1>1. Of(t, "activated") = Of(s, "activated")
  BY SameKind
<1>2. \A i \in Of(s, "activated") : t[i] = s[i]
  BY OldFacts
<1>3. \A e : Legacy(t, e) <=> Legacy(s, e)
  <2>1. \A e : Has(t, "legacy-observed", e) <=> Has(s, "legacy-observed", e)
    BY SameKind
  <2>2. \A e : Has(t, "legacy-receipt", e) <=> Has(s, "legacy-receipt", e)
    BY SameKind
  <2> QED BY <2>1, <2>2 DEF Legacy, LegacyKinds
<1> QED BY <1>1, <1>2, <1>3 DEF ActivationsClean

(* An activation keeps them apart if its capability has neither.           *)
LEMMA NewActivation ==
  ASSUME NEW s \in Seq(Facts), NEW t \in Seq(Facts), Extends(t, s), ActivationsClean(s),
         Len(t) = Len(s) + 1, NEW e \in Effects,
         t[Len(t)] = [kind |-> "activated", capability |-> CapabilityOf[e]],
         ~Activated(s, e), CleanCapability(s, e)
  PROVE  ActivationsClean(t)
<1>0. Len(s) \in Nat /\ Len(t) \in Nat /\ DOMAIN t = 1..Len(t)
  OBVIOUS
<1>1. \A i \in DOMAIN t : i > Len(s) => i = Len(t) /\ t[i].kind = "activated"
  BY <1>0
<1>2. \A f : Legacy(t, f) <=> Legacy(s, f)
  <2>1. \A f : Has(t, "legacy-observed", f) <=> Has(s, "legacy-observed", f)
    BY <1>1, SameKind
  <2>2. \A f : Has(t, "legacy-receipt", f) <=> Has(s, "legacy-receipt", f)
    BY <1>1, SameKind
  <2> QED BY <2>1, <2>2 DEF Legacy, LegacyKinds
<1>3. \A i \in Of(t, "activated") :
        \/ i = Len(t) /\ t[i].capability = CapabilityOf[e]
        \/ i \in Of(s, "activated") /\ t[i] = s[i] /\ s[i].capability # CapabilityOf[e]
  <2>1. \A i \in Of(s, "activated") : s[i].capability # CapabilityOf[e]
    BY DEF Activated
  <2>2. \A i \in Of(t, "activated") :
          (i \in Of(s, "activated") /\ t[i] = s[i]) \/ (i \in DOMAIN t /\ i > Len(s))
    <3>1. \A i \in Of(t, "activated") : i \in DOMAIN t
      BY DEF Of
    <3> QED BY <3>1, OldFacts
  <2> QED BY <1>1, <2>1, <2>2
<1>4. \A f \in Effects : Legacy(t, f) => CapabilityOf[f] # CapabilityOf[e]
  BY <1>2 DEF CleanCapability
<1> QED BY <1>2, <1>3, <1>4 DEF ActivationsClean

(* So does a legacy fact whose capability is not activated.                *)
LEMMA NewLegacy ==
  ASSUME NEW s \in Seq(Facts), NEW t \in Seq(Facts), Extends(t, s), ActivationsClean(s),
         Len(t) = Len(s) + 1, NEW e \in Effects, t[Len(t)].kind \in LegacyKinds,
         t[Len(t)].effect = e, ~Activated(s, e)
  PROVE  ActivationsClean(t)
<1>0. Len(s) \in Nat /\ Len(t) \in Nat /\ DOMAIN t = 1..Len(t)
  OBVIOUS
<1>1. \A i \in DOMAIN t : i > Len(s) => i = Len(t)
  BY <1>0
<1>2. Of(t, "activated") = Of(s, "activated")
  BY <1>1, SameKind DEF LegacyKinds
<1>3. \A i \in Of(s, "activated") : t[i] = s[i] /\ s[i].capability # CapabilityOf[e]
  BY OldFacts DEF Activated
<1>4. \A f : Legacy(t, f) => Legacy(s, f) \/ f = e
  <2> SUFFICES ASSUME NEW f, NEW k \in LegacyKinds, Has(t, k, f), f # e
               PROVE  Has(s, k, f)
    BY DEF Legacy
  <2>1. PICK i \in Of(t, k) : t[i].effect = f
    BY DEF Has
  <2>2. i \in DOMAIN t /\ i # Len(t)
    BY <2>1 DEF Of
  <2>3. i \in Of(s, k) /\ t[i] = s[i]
    BY <1>1, <2>1, <2>2, OldFacts
  <2> QED BY <2>1, <2>3 DEF Has
<1> QED BY <1>2, <1>3, <1>4 DEF ActivationsClean

(***************************************************************************)
(* What one new fact has to satisfy for the stream to be folded again.     *)
(***************************************************************************)
LEMMA FoldsOneMore ==
  ASSUME NEW s \in Seq(Facts), NEW t \in Seq(Facts), Extends(t, s), NEW g, Folds(s, g),
         Len(t) = Len(s) + 1, NEW f, t[Len(t)] = f,
         f.kind \notin PolicyKinds \cup {"claim", "start"},
         Cancelled(s) => f.kind \in AllowedAfterCancel,
         f.kind = "observed" => ~Has(s, "observed", f.effect) /\ Has(s, "start", f.effect),
         f.kind = "cancelled" => CancellationBound(t, g, Len(t)),
         ActivationsClean(t)
  PROVE  Folds(t, g)
<1>0. /\ Len(s) \in Nat /\ Len(t) \in Nat /\ DOMAIN t = 1..Len(t) /\ DOMAIN s = 1..Len(s)
      /\ Len(t) \in DOMAIN t
  OBVIOUS
<1>1. \A i \in DOMAIN t : i > Len(s) => i = Len(t)
  BY <1>0
<1>2. \A i \in DOMAIN t : i = Len(t) \/ (i \in DOMAIN s /\ t[i] = s[i])
  BY <1>0 DEF Extends
<1>3. ASSUME NEW k PROVE \A i \in Of(t, k) : i \in DOMAIN t /\
                            ((i \in Of(s, k) /\ t[i] = s[i]) \/ (i = Len(t) /\ f.kind = k))
  <2>1. \A i \in Of(t, k) : i \in DOMAIN t /\ t[i].kind = k
    BY DEF Of
  <2>2. \A i \in Of(t, k) : i \in Of(s, k) \/ i = Len(t)
    BY <1>1, <2>1, OldFacts
  <2>3. \A i \in Of(s, k) : t[i] = s[i]
    BY OldFacts
  <2> QED BY <2>1, <2>2, <2>3
<1>4. Catalogued(t)
  BY <1>2 DEF Folds, Catalogued
<1>5. PendingRespected(t)
  <2> SUFFICES ASSUME NEW c \in Of(t, "cancelled"), NEW i \in DOMAIN t, c < i
               PROVE  t[i].kind \in AllowedAfterCancel
    BY DEF PendingRespected
  <2>1. c \in DOMAIN t
    BY <1>3
  <2>2. c # Len(t)
    BY <2>1, <1>0
  <2>3. c \in Of(s, "cancelled")
    BY <2>2, <1>3
  <2>4. CASE i = Len(t)
    BY <2>3, <2>4 DEF Cancelled
  <2>5. CASE i \in DOMAIN s /\ t[i] = s[i]
    BY <2>3, <2>5 DEF Folds, PendingRespected
  <2> QED BY <1>2, <2>4, <2>5
<1>6. Unique(t, "claim") /\ Unique(t, "start")
  <2>1. \A i \in DOMAIN t : i > Len(s) => t[i].kind # "claim" /\ t[i].kind # "start"
    BY <1>1
  <2> QED BY <2>1, SameKind DEF Folds
<1>7. Unique(t, "observed")
  <2>1. CASE f.kind # "observed"
    <3>1. \A i \in DOMAIN t : i > Len(s) => t[i].kind # "observed"
      BY <1>1, <2>1
    <3> QED BY <3>1, SameKind DEF Folds
  <2>2. CASE f.kind = "observed"
    <3>1. \A i \in Of(t, "observed") : i > Len(s) => i = Len(t)
      BY <1>1, <1>3
    <3> QED BY <3>1, <2>2, NewKind DEF Folds
  <2> QED BY <2>1, <2>2
<1>8. \A i \in Of(t, "claim") : ClaimBound(t, i)
  BY <1>3, OldBindings
<1>9. \A i \in Of(t, "observed") : ObservationBound(t, i)
  <2>1. ASSUME f.kind = "observed" PROVE ObservationBound(t, Len(t))
    <3>1. PICK j \in Of(s, "start") : s[j].effect = f.effect
      BY <2>1 DEF Has
    <3>2. j \in Of(t, "start") /\ t[j] = s[j] /\ j \in 1..Len(s)
      BY OldFacts
    <3> QED BY <3>1, <3>2, <1>0 DEF ObservationBound
  <2> QED BY <2>1, <1>3, OldBindings
<1>10. \A i \in Of(t, "cancelled") : CancellationBound(t, g, i)
  BY <1>3, OldBindings
<1>11. Cardinality(Of(t, "cancelled")) <= 1
  <2>1. CASE f.kind # "cancelled"
    <3>1. \A i \in DOMAIN t : i > Len(s) => t[i].kind # "cancelled"
      BY <1>1, <2>1
    <3>2. Of(t, "cancelled") = Of(s, "cancelled")
      BY <3>1, SameKind
    <3> QED BY <3>2 DEF Folds
  <2>2. CASE f.kind = "cancelled"
    <3>1. Of(s, "cancelled") = {}
      BY <2>2 DEF AllowedAfterCancel, LegacyKinds, Cancelled
    <3>2. Of(t, "cancelled") = {Len(t)}
      <4>1. Len(t) \in Of(t, "cancelled")
        BY <1>0, <2>2 DEF Of
      <4> QED BY <4>1, <3>1, <1>3
    <3>3. Cardinality({Len(t)}) = 1
      BY FS_Singleton
    <3>4. 1 <= 1
      OBVIOUS
    <3> QED BY <3>2, <3>3, <3>4, Zenon
  <2> QED BY <2>1, <2>2
<1> QED BY <1>4, <1>5, <1>6, <1>7, <1>8, <1>9, <1>10, <1>11 DEF Folds

(***************************************************************************)
(* What a claim and its start have to satisfy: nobody holds the effect,    *)
(* the work is open, and the claim is sound at the head it names.          *)
(***************************************************************************)
ClaimSound(s, c) ==
    /\ Activated(s, c.effect) /\ Eligible(s, c.effect)
    /\ LeaseCurrent(s, c.at) /\ Lease(s).epoch = c.epoch
    /\ c.at < c.until /\ c.until <= Lease(s).until

StartsClaimed(s) == \A i \in Of(s, "start") : HasClaim(s, s[i].effect)

LEMMA FoldsClaim ==
  ASSUME NEW s \in Seq(Facts), NEW t \in Seq(Facts), Extends(t, s), NEW g, Folds(s, g),
         Len(t) = Len(s) + 2, NEW c \in ClaimFacts, t[Len(s) + 1] = c,
         t[Len(s) + 2] = Effect("start", c.effect),
         StartsClaimed(s), c.base = Len(s), ClaimSound(s, c)
  PROVE  Folds(t, g)
<1> DEFINE n == Len(s)
           e == c.effect
<1>0. /\ n \in Nat /\ Len(t) \in Nat /\ DOMAIN t = 1..Len(t) /\ DOMAIN s = 1..n
      /\ n + 1 \in DOMAIN t /\ n + 2 \in DOMAIN t
  OBVIOUS
<1>a. c.kind = "claim" /\ t[n + 2].kind = "start" /\ t[n + 2].effect = e
  BY DEF ClaimFacts, Effect
<1>1. \A i \in DOMAIN t : i > n => i = n + 1 \/ i = n + 2
  BY <1>0
<1>2. \A i \in DOMAIN t : i = n + 1 \/ i = n + 2 \/ (i \in DOMAIN s /\ t[i] = s[i])
  BY <1>0 DEF Extends
<1>3. \A i \in DOMAIN t : i > n => t[i].kind \in {"claim", "start"}
  BY <1>1, <1>a
<1>4. ~Cancelled(s) /\ ~HasClaim(s, e)
  BY DEF ClaimSound, LeaseCurrent, Eligible
<1>5. Of(t, "cancelled") = {}
  <2>1. \A i \in DOMAIN t : i > n => t[i].kind # "cancelled"
    BY <1>3
  <2>2. Of(t, "cancelled") = Of(s, "cancelled")
    BY <2>1, SameKind
  <2> QED BY <2>2, <1>4 DEF Cancelled
<1>6. Catalogued(t)
  <2>1. t[n + 1].kind \notin PolicyKinds /\ t[n + 2].kind \notin PolicyKinds
    BY <1>a DEF PolicyKinds
  <2> QED BY <1>2, <2>1 DEF Folds, Catalogued
<1>7. Unique(t, "claim")
  <2>1. \A i \in Of(t, "claim") : i > n => i = n + 1
    BY <1>1, <1>a DEF Of
  <2>2. ~Has(s, "claim", t[n + 1].effect)
    BY <1>4 DEF HasClaim
  <2> QED BY <2>1, <2>2, NewKind DEF Folds
<1>8. Unique(t, "start")
  <2>1. \A i \in Of(t, "start") : i > n => i = n + 2
    BY <1>1, <1>a DEF Of
  <2>2. ~Has(s, "start", t[n + 2].effect)
    BY <1>4, <1>a DEF StartsClaimed, Has
  <2> QED BY <2>1, <2>2, NewKind DEF Folds
<1>9. Unique(t, "observed") /\ Of(t, "observed") = Of(s, "observed")
  <2>1. \A i \in DOMAIN t : i > n => t[i].kind # "observed"
    BY <1>3
  <2> QED BY <2>1, SameKind DEF Folds
<1>10. ActivationsClean(t)
  <2>1. \A i \in DOMAIN t :
          i > n => t[i].kind \notin {"activated", "legacy-observed", "legacy-receipt"}
    BY <1>3
  <2> QED BY <2>1, SameActivations DEF Folds
<1>11. ClaimBound(t, n + 1)
  <2>1. Prefix(t, n) = s
    BY <1>0, PrefixKept, WholePrefix DEF Extends
  <2>2. n = (n + 1) - 1 /\ n + 1 + 1 = n + 2
    BY <1>0
  <2> QED BY <2>1, <2>2, <1>0 DEF ClaimBound, ClaimSound
<1>12. \A i \in Of(t, "claim") : ClaimBound(t, i)
  <2>1. \A i \in Of(t, "claim") : i \in Of(s, "claim") \/ i = n + 1
    <3>1. \A i \in Of(t, "claim") : i \in DOMAIN t /\ t[i].kind = "claim"
      BY DEF Of
    <3>2. \A i \in Of(t, "claim") : i \in Of(s, "claim") \/ i > n
      BY OldFacts
    <3> QED BY <3>1, <3>2, <1>1, <1>a
  <2> QED BY <2>1, <1>11, OldBindings
<1>13. Cardinality(Of(t, "cancelled")) <= 1
  <2>1. Cardinality({}) = 0
    BY FS_EmptySet
  <2>2. 0 <= 1
    OBVIOUS
  <2> QED BY <1>5, <2>1, <2>2, Zenon
<1>14. \A i \in Of(t, "observed") : ObservationBound(t, i)
  BY <1>9, OldBindings
<1> QED BY <1>5, <1>6, <1>7, <1>8, <1>9, <1>10, <1>12, <1>13, <1>14
        DEF Folds, PendingRespected

(***************************************************************************)
(* The inductive invariant: what the property says, that a start never     *)
(* comes without its claim, and that a prepared claim is sound as long as  *)
(* its head is the last one.                                               *)
(***************************************************************************)
PreparedSound(d) ==
    At(d, "prepared") /\ op[d].claim.base = Len(work) => ClaimSound(work, op[d].claim)

FoldInv ==
    /\ ReadableUnbound
    /\ StartsClaimed(work)
    /\ \A d \in Dispatchers : PreparedSound(d)

(* A fold depends on the approval only once the work is cancelled.         *)
LEMMA FoldsLater ==
  ASSUME Folds(work', gov),
         UNCHANGED <<gov, proposal>> \/ Of(work', "cancelled") = {}
  PROVE  Current'
<1>1. CASE UNCHANGED <<gov, proposal>>
  BY <1>1 DEF Current, Folds, Catalogued, PendingRespected, Unique, ActivationsClean,
     ClaimBound, ObservationBound, CancellationBound, ClaimFirst
<1>2. CASE Of(work', "cancelled") = {}
  BY <1>2 DEF Current, Folds, Catalogued, PendingRespected, Unique, ActivationsClean,
     ClaimBound, ObservationBound, CancellationBound, ClaimFirst
<1> QED BY <1>1, <1>2

(* A stream without policies was always without policies.                  *)
LEMMA CataloguedBefore ==
  ASSUME TypeOK, TypeOK', Grows, Catalogued(work)'
  PROVE  Catalogued(work)
<1>1. /\ DOMAIN work = 1..Len(work) /\ DOMAIN work' = 1..Len(work')
      /\ Len(work) \in Nat /\ Len(work') \in Nat
  BY DEF TypeOK
<1> QED BY <1>1 DEF Catalogued, Grows

(* A step that appends no start keeps every start claimed.                 *)
LEMMA StartsKept ==
  ASSUME TypeOK, TypeOK', Grows, StartsClaimed(work), NoNew("start")
  PROVE  StartsClaimed(work)'
<1>1. work \in Seq(Facts) /\ work' \in Seq(Facts)
  BY DEF TypeOK
<1>2. \A i \in Of(work, "start") : work'[i] = work[i] /\ HasClaim(work, work[i].effect)
  BY <1>1 DEF StartsClaimed, Of, Grows
<1>3. \A e : HasClaim(work, e) => HasClaim(work', e)
  BY <1>1, GrowthKeeps DEF HasClaim
<1>4. \A i \in Of(work', "start") : HasClaim(work', work'[i].effect)
  BY <1>2, <1>3 DEF NoNew
<1> QED BY <1>4 DEF StartsClaimed, HasClaim, Has, Of

(* A claim in preparation is not touched by what others do: it stays sound *)
(* while its head is the last one, and afterwards nothing is said of it.   *)
LEMMA PreparedKept ==
  ASSUME TypeOK, TypeOK', OwnershipInv, FoldInv, NEW d \in Dispatchers, op'[d] = op[d],
         work' = work \/ Len(work') > Len(work)
  PROVE  PreparedSound(d)'
<1>1. op[d].claim.base \in Nat /\ Len(work) \in Nat /\ Len(work') \in Nat
  BY DEF TypeOK, ClaimFacts
<1>2. CASE work' = work
  BY <1>2 DEF FoldInv, PreparedSound, At
<1>3. CASE Len(work') > Len(work)
  <2>1. At(d, "prepared") => op[d].claim.base <= Len(work)
    BY DEF OwnershipInv, PreparedInv
  <2> QED BY <2>1, <1>1, <1>3 DEF PreparedSound, At
<1> QED BY <1>2, <1>3

(* A step that leaves the stream alone, and prepares nothing.              *)
LEMMA StillReadable ==
  ASSUME TypeOK, TypeOK', OwnershipInv, FoldInv, UNCHANGED <<work, gov, proposal>>,
         \A d \in Dispatchers : op'[d] = op[d] \/ op'[d].at # "prepared"
  PROVE  FoldInv'
<1>1. ReadableUnbound'
  BY FoldsLater DEF FoldInv, ReadableUnbound, Current, Catalogued
<1>2. StartsClaimed(work)'
  BY DEF FoldInv, StartsClaimed, HasClaim, Has, Of
<1>3. \A d \in Dispatchers : PreparedSound(d)'
  BY PreparedKept DEF PreparedSound, At
<1> QED BY <1>1, <1>2, <1>3 DEF FoldInv

(* A step that commits one fact, which answers for itself or is a policy.  *)
LEMMA OneMoreReadable ==
  ASSUME TypeOK, TypeOK', OwnershipInv, FoldInv, Current, UNCHANGED <<gov, proposal>>,
         NEW f \in Facts, Commit(<<f>>), f.kind \notin {"claim", "start"},
         \A d \in Dispatchers : op'[d] = op[d] \/ op'[d].at # "prepared",
         Cancelled(work) => f.kind \in AllowedAfterCancel,
         f.kind = "observed" =>
            ~Has(work, "observed", f.effect) /\ Has(work, "start", f.effect),
         f.kind = "cancelled" => CancellationBound(work', gov, Len(work')),
         ActivationsClean(work')
  PROVE  FoldInv'
<1>0. work \in Seq(Facts) /\ work' \in Seq(Facts) /\ Len(work) \in Nat
  BY DEF TypeOK
<1>1. /\ Grows /\ Len(work') = Len(work) + 1 /\ work'[Len(work')] = f
      /\ NoNew("start") /\ Extends(work', work)
  BY <1>0, CommitOne DEF Grows, Extends
<1>2. ReadableUnbound'
  <2> SUFFICES ASSUME Catalogued(work)' PROVE Current'
    BY DEF ReadableUnbound
  <2>1. f.kind \notin PolicyKinds
    <3>1. Len(work') \in DOMAIN work'
      BY <1>0, <1>1
    <3> QED BY <3>1, <1>1 DEF Catalogued
  <2>2. Folds(work', gov)
    <3>1. f.kind \notin PolicyKinds \cup {"claim", "start"}
      BY <2>1
    <3>2. Folds(work, gov)
      BY DEF Current
    <3> QED BY <1>0, <1>1, <3>1, <3>2, FoldsOneMore
  <2> QED BY <2>2, FoldsLater
<1>3. StartsClaimed(work)'
  BY <1>1, StartsKept DEF FoldInv
<1>4. \A d \in Dispatchers : PreparedSound(d)'
  <2>1. Len(work') > Len(work)
    BY <1>0, <1>1
  <2> QED BY <2>1, PreparedKept DEF PreparedSound, At
<1> QED BY <1>2, <1>3, <1>4 DEF FoldInv

(* Lease events: while the work is open, or to settle what it left.        *)
LEMMA LeaseStepReadable ==
  ASSUME TypeOK, TypeOK', OwnershipInv, FoldInv, LeaseStep
  PROVE  FoldInv'
<1>a. PICK kind \in LeaseKinds : \E epoch, until :
        /\ Commit(<<LeaseFact(kind, epoch, until)>>) /\ UNCHANGED <<gov, proposal, op>>
        /\ Current /\ (Cancelled(work) => kind \in {"released", "expired"})
  BY DEF LeaseStep, ClaimLease, RenewLease, ReleaseLease, ExpireLease, ReclaimLease,
         LeaseKinds, Open
<1>1. PICK epoch, until :
        /\ Commit(<<LeaseFact(kind, epoch, until)>>) /\ UNCHANGED <<gov, proposal, op>>
        /\ Current /\ (Cancelled(work) => kind \in {"released", "expired"})
  BY <1>a
<1> DEFINE f == LeaseFact(kind, epoch, until)
<1>0. work \in Seq(Facts) /\ work' \in Seq(Facts) /\ work' = work \o <<f>>
  BY <1>1 DEF TypeOK, Commit
<1>2. f.kind = kind /\ kind \notin {"claim", "start", "observed", "cancelled", "activated",
                                    "legacy-observed", "legacy-receipt"}
  BY DEF LeaseFact, LeaseKinds
<1>3. Len(work') = Len(work) + 1 /\ work'[Len(work) + 1] = f /\ Len(work) \in Nat
  <2> HIDE DEF f
  <2> QED BY <1>0
<1>4. f \in Facts
  <2>1. Len(work) + 1 \in DOMAIN work'
    BY <1>0, <1>3
  <2> QED BY <2>1, <1>0, <1>3
<1>5. Cancelled(work) => f.kind \in AllowedAfterCancel
  BY <1>1, <1>2 DEF AllowedAfterCancel
<1>6. ActivationsClean(work')
  <2>1. Extends(work', work)
    <3> HIDE DEF f
    <3> QED BY <1>0, <1>1, <1>4, CommitOne DEF Grows, Extends
  <2>2. \A i \in DOMAIN work' : i > Len(work) => work'[i] = f
    BY <1>0, <1>3
  <2>3. \A i \in DOMAIN work' : i > Len(work) =>
          work'[i].kind \notin {"activated", "legacy-observed", "legacy-receipt"}
    BY <2>2, <1>2
  <2> QED BY <2>1, <2>3, <1>0, <1>1, SameActivations DEF Current, Folds
<1>7. Commit(<<f>>)
  BY <1>1
<1> HIDE DEF f
<1> QED BY <1>1, <1>2, <1>4, <1>5, <1>6, <1>7, OneMoreReadable

(* Activations and receipts keep the two apart.                            *)
LEMMA EffectStepReadable ==
  ASSUME TypeOK, TypeOK', OwnershipInv, FoldInv, NEW e \in Effects,
         Activate(e) \/ LegacyReceipt(e)
  PROVE  FoldInv'
<1>0. /\ work \in Seq(Facts) /\ work' \in Seq(Facts) /\ Len(work) \in Nat
      /\ Current /\ ActivationsClean(work)
      /\ UNCHANGED <<gov, proposal, op>>
  BY DEF TypeOK, Activate, LegacyReceipt, Open, Current, Folds
<1>1. CASE Activate(e)
  <2> DEFINE f == [kind |-> "activated", capability |-> CapabilityOf[e]]
  <2>1. f \in Facts /\ f.kind = "activated" /\ Commit(<<f>>)
    BY <1>1 DEF Facts, Activate
  <2>2. Grows /\ Len(work') = Len(work) + 1 /\ work'[Len(work')] = f
    <3> HIDE DEF f
    <3> QED BY <1>0, <2>1, CommitOne
  <2>3. Extends(work', work)
    BY <2>2 DEF Grows, Extends
  <2>4. ActivationsClean(work')
    BY <1>0, <1>1, <2>2, <2>3, NewActivation DEF Activate
  <2>5. ~Cancelled(work)
    BY <1>1 DEF Activate, Open
  <2> HIDE DEF f
  <2> QED BY <1>0, <2>1, <2>4, <2>5, OneMoreReadable
<1>2. CASE LegacyReceipt(e)
  <2> DEFINE f == Effect("legacy-receipt", e)
  <2>1. f \in Facts /\ f.kind = "legacy-receipt" /\ f.effect = e /\ Commit(<<f>>)
    BY <1>2, EffectTyped DEF LegacyReceipt, LegacyKinds, Effect
  <2>2. Grows /\ Len(work') = Len(work) + 1 /\ work'[Len(work')] = f
    <3> HIDE DEF f
    <3> QED BY <1>0, <2>1, CommitOne
  <2>3. Extends(work', work)
    BY <2>2 DEF Grows, Extends
  <2>4. f.kind \in LegacyKinds
    BY <2>1 DEF LegacyKinds
  <2>5. ActivationsClean(work')
    <3> HIDE DEF f
    <3> QED BY <1>0, <1>2, <2>1, <2>2, <2>3, <2>4, NewLegacy DEF LegacyReceipt
  <2>6. f.kind \in AllowedAfterCancel
    BY <2>4 DEF AllowedAfterCancel
  <2> HIDE DEF f
  <2> QED BY <1>0, <2>1, <2>5, <2>6, OneMoreReadable
<1> QED BY <1>1, <1>2

(* A commit that is neither an activation nor a legacy fact.               *)
LEMMA OtherFact ==
  ASSUME TypeOK, TypeOK', Current, NEW f \in Facts, Commit(<<f>>),
         f.kind \notin {"activated", "legacy-observed", "legacy-receipt"}
  PROVE  /\ Extends(work', work) /\ Len(work') = Len(work) + 1 /\ work'[Len(work')] = f
         /\ ActivationsClean(work')
<1>0. work \in Seq(Facts) /\ work' \in Seq(Facts) /\ Len(work) \in Nat
  BY DEF TypeOK
<1>1. Grows /\ Len(work') = Len(work) + 1 /\ work'[Len(work')] = f
  BY <1>0, CommitOne
<1>2. Extends(work', work)
  BY <1>1 DEF Grows, Extends
<1>3. \A i \in DOMAIN work' : i > Len(work) => work'[i] = f
  BY <1>0, <1>1
<1>4. \A i \in DOMAIN work' : i > Len(work) =>
        work'[i].kind \notin {"activated", "legacy-observed", "legacy-receipt"}
  BY <1>3
<1> QED BY <1>0, <1>1, <1>2, <1>4, SameActivations DEF Current, Folds

(* Both cancellations name the head they follow, or the one that the claim *)
(* of the source effect overtook.                                          *)
LEMMA CancelReadable ==
  ASSUME TypeOK, TypeOK', OwnershipInv, FoldInv, Cancel \/ CancelClaimFirst
  PROVE  FoldInv'
<1>a. PICK head \in Nat :
        /\ CancelAt(head)
        /\ \/ proposal = Len(work) /\ head = proposal
           \/ head = Len(work) - 2 /\ proposal < head /\ ClaimFirst(work, head)
  <2>1. work \in Seq(Facts) /\ proposal \in Nat
    BY DEF TypeOK
  <2>2. CancelClaimFirst => Len(work) - 2 \in Nat
    BY <2>1 DEF CancelClaimFirst
  <2> QED BY <2>1, <2>2 DEF Cancel, CancelClaimFirst
<1> DEFINE f == [kind |-> "cancelled", prefix |-> proposal, head |-> head]
<1>0. /\ work \in Seq(Facts) /\ work' \in Seq(Facts) /\ Len(work) \in Nat /\ Len(work') \in Nat
      /\ Current /\ ~Cancelled(work) /\ gov = Approval /\ UNCHANGED <<gov, proposal, op>>
  BY <1>a DEF TypeOK, Cancel, CancelClaimFirst, Open, CancelAt
<1>1. /\ f \in Facts /\ f.kind = "cancelled" /\ f.prefix = proposal /\ f.head = head
      /\ Commit(<<f>>)
  BY <1>a DEF Facts, TypeOK, CancelAt
<1>2. /\ Extends(work', work) /\ Len(work') = Len(work) + 1 /\ work'[Len(work')] = f
      /\ ActivationsClean(work')
  <2> HIDE DEF f
  <2> QED BY <1>0, <1>1, OtherFact
<1>3. CancellationBound(work', gov, Len(work'))
  <2>1. CASE proposal = Len(work) /\ head = proposal
    <3>1. f.prefix = Len(work') - 1 /\ f.head = f.prefix
      BY <1>0, <1>1, <1>2, <2>1
    <3> QED BY <1>0, <1>1, <1>2, <3>1 DEF CancellationBound
  <2>2. CASE head = Len(work) - 2 /\ proposal < head /\ ClaimFirst(work, head)
    <3>1. head = Len(work') - 3
      BY <1>0, <1>2, <2>2
    <3>2. head + 1 \in 1..Len(work) /\ head + 2 \in 1..Len(work)
      BY <1>0, <2>2 DEF ClaimFirst
    <3>3. head + 2 \in DOMAIN work' /\ work'[head + 1] = work[head + 1]
          /\ work'[head + 2] = work[head + 2]
      BY <1>0, <1>2, <3>2 DEF Extends
    <3>4. ClaimFirst(work', head)
      BY <2>2, <3>3 DEF ClaimFirst
    <3> QED BY <1>0, <1>1, <1>2, <2>2, <3>1, <3>4 DEF CancellationBound
  <2> QED BY <1>a, <2>1, <2>2
<1> HIDE DEF f
<1> QED BY <1>0, <1>1, <1>2, <1>3, OneMoreReadable

(* Whoever waits for an answer has started its effect, and nobody recorded *)
(* an outcome of it.                                                       *)
LEMMA AnswerExpected ==
  ASSUME TypeOK, OwnershipInv, Current, NEW d \in Dispatchers, At(d, "answered")
  PROVE  /\ ~Has(work, "observed", EffectOf(d))
         /\ Has(work, "start", EffectOf(d))
<1>0. work \in Seq(Facts) /\ DOMAIN work = 1..Len(work) /\ Len(work) \in Nat
  BY DEF TypeOK
<1>1. HasClaim(work, EffectOf(d)) /\ ~Has(work, "observed", EffectOf(d))
  BY DEF OwnershipInv, OwnerInv, At, Called
<1>2. PICK i \in Of(work, "claim") : work[i].effect = EffectOf(d)
  BY <1>1 DEF HasClaim, Has
<1>3. i + 1 \in DOMAIN work /\ work[i + 1] = Effect("start", EffectOf(d))
  BY <1>2 DEF Current, Folds, ClaimBound
<1>4. i + 1 \in Of(work, "start") /\ work[i + 1].effect = EffectOf(d)
  BY <1>3 DEF Of, Effect
<1> QED BY <1>1, <1>4 DEF Has

(* The observation of an answer.                                           *)
LEMMA AnswerTyped ==
  ASSUME TypeOK, NEW d \in Dispatchers
  PROVE  /\ Observation(d) \in Facts /\ Observation(d).kind = "observed"
         /\ Observation(d).effect = EffectOf(d)
<1>1. EffectOf(d) \in Effects /\ op[d].outcome \in Outcomes
  BY DEF TypeOK, ClaimFacts, EffectOf
<1> QED BY <1>1 DEF Observation, Facts, EffectOf

(* Recording an answer, whenever it comes.                                 *)
LEMMA PersistReadable ==
  ASSUME TypeOK, TypeOK', OwnershipInv, FoldInv, NEW d \in Dispatchers, PersistObservation(d)
  PROVE  FoldInv'
<1>1. /\ Current /\ Commit(<<Observation(d)>>) /\ UNCHANGED <<gov, proposal>>
      /\ At(d, "answered")
  BY DEF PersistObservation
<1>2. \A r \in Dispatchers : op'[r] = op[r] \/ op'[r].at # "prepared"
  BY DEF PersistObservation, Return, Set, Idle, Dispatch, TypeOK
<1>3. Observation(d).kind \in AllowedAfterCancel
  BY AnswerTyped DEF AllowedAfterCancel
<1>4. ActivationsClean(work')
  BY <1>1, AnswerTyped, OtherFact
<1> QED BY <1>1, <1>2, <1>3, <1>4, AnswerTyped, AnswerExpected, OneMoreReadable

(* Binding a policy makes the stream one that no fold accepts, or changes  *)
(* nothing.                                                                *)
LEMMA BindReadable ==
  ASSUME TypeOK, TypeOK', OwnershipInv, FoldInv, NEW d \in Dispatchers,
         BindRecoveryPolicy(d) \/ BindRetryPolicy(d)
  PROVE  FoldInv'
<1>a. PICK kind \in PolicyKinds, next \in Waiting :
        \E allowed : /\ BindPolicy(d, kind, next, allowed)
                     /\ kind = "retry-policy" => ~Cancelled(work)
  BY DEF BindRecoveryPolicy, BindRetryPolicy, PolicyKinds, Waiting, BindPolicy
<1>1. /\ Current /\ UNCHANGED <<gov, proposal>>
      /\ Commit(<<Effect(kind, EffectOf(d))>>) \/ UNCHANGED work
      /\ Goto(d, next)
      /\ kind = "retry-policy" => ~Cancelled(work)
  BY <1>a DEF BindPolicy, EffectOf
<1>2. \A r \in Dispatchers : op'[r] = op[r] \/ op'[r].at # "prepared"
  BY <1>1 DEF Goto, Set, Dispatch, TypeOK, Waiting
<1>3. CASE UNCHANGED work
  BY <1>1, <1>2, <1>3, StillReadable
<1>4. CASE Commit(<<Effect(kind, EffectOf(d))>>)
  <2> DEFINE f == Effect(kind, EffectOf(d))
  <2>1. f \in Facts
    <3>1. EffectOf(d) \in Effects
      BY DEF TypeOK, ClaimFacts, EffectOf
    <3> QED BY <3>1, EffectTyped
  <2>2. f.kind = kind /\ f.kind \in {"recovery-policy", "retry-policy"}
    BY DEF Effect, PolicyKinds
  <2>3. Commit(<<f>>)
    BY <1>4
  <2> HIDE DEF f
  <2>4. ActivationsClean(work')
    BY <1>1, <2>1, <2>2, <2>3, OtherFact
  <2>5. Cancelled(work) => f.kind \in AllowedAfterCancel
    BY <1>1, <2>2 DEF AllowedAfterCancel
  <2> QED BY <1>1, <1>2, <2>1, <2>2, <2>3, <2>4, <2>5, OneMoreReadable
<1> QED BY <1>1, <1>3, <1>4

(* A fresh claim was prepared at the last head, where it is sound.         *)
LEMMA FreshClaimReadable ==
  ASSUME TypeOK, TypeOK', OwnershipInv, FoldInv, NEW d \in Dispatchers, CommitClaim(d),
         CommitOutcome(op[d].claim) = "fresh"
  PROVE  FoldInv'
<1> DEFINE c == op[d].claim
           e == c.effect
<1>0. /\ work \in Seq(Facts) /\ work' \in Seq(Facts) /\ Len(work) \in Nat
      /\ UNCHANGED <<gov, proposal>> /\ c \in ClaimFacts /\ e \in Effects /\ At(d, "prepared")
      /\ c.base = Len(work)
  BY DEF TypeOK, CommitClaim, ClaimFacts, CommitOutcome
<1>1. /\ c \in Facts /\ c.kind = "claim"
      /\ Effect("start", e) \in Facts /\ Effect("start", e).kind = "start"
      /\ Effect("start", e).effect = e /\ Commit(<<c, Effect("start", e)>>)
  BY <1>0, EffectTyped DEF ClaimFacts, Facts, Effect, CommitClaim
<1>2. /\ Grows /\ Len(work') = Len(work) + 2 /\ work'[Len(work) + 1] = c
      /\ work'[Len(work) + 2] = Effect("start", e)
  <2> HIDE DEF c, e
  <2> QED BY <1>0, <1>1, CommitTwo
<1>3. Extends(work', work)
  BY <1>2 DEF Grows, Extends
<1>4. ClaimSound(work, c) /\ StartsClaimed(work)
  BY <1>0 DEF FoldInv, PreparedSound
<1>5. \A r \in Dispatchers : op'[r] = op[r] \/ op'[r].at # "prepared"
  BY DEF CommitClaim, MayInvoke, Set, Owned, Dispatch, TypeOK
<1>6. ReadableUnbound'
  <2> SUFFICES ASSUME Catalogued(work)' PROVE Current'
    BY DEF ReadableUnbound
  <2>1. Folds(work, gov)
    BY <1>2, CataloguedBefore DEF FoldInv, ReadableUnbound, Current
  <2>2. Folds(work', gov)
    <3> HIDE DEF c, e
    <3>1. work'[Len(work) + 2] = Effect("start", c.effect)
      BY <1>2 DEF e
    <3> QED BY <1>0, <1>2, <1>3, <1>4, <2>1, <3>1, FoldsClaim
  <2> QED BY <1>0, <2>2, FoldsLater
<1>7. StartsClaimed(work)'
  <2>1. Len(work) + 1 \in Of(work', "claim")
    <3>1. Len(work) + 1 \in DOMAIN work'
      BY <1>0, <1>2
    <3> QED BY <3>1, <1>1, <1>2 DEF Of
  <2>2. HasClaim(work', e)
    BY <2>1, <1>2 DEF HasClaim, Has
  <2>3. \A f : HasClaim(work, f) => HasClaim(work', f)
    BY <1>0, <1>2, GrowthKeeps DEF HasClaim
  <2>4. ASSUME NEW i \in Of(work', "start") PROVE HasClaim(work', work'[i].effect)
    <3>1. i \in DOMAIN work' /\ work'[i].kind = "start"
      BY DEF Of
    <3>2. CASE i \in 1..Len(work)
      <4>1. work'[i] = work[i] /\ i \in Of(work, "start")
        BY <3>1, <3>2, <1>0, <1>2 DEF Grows, Of
      <4> QED BY <4>1, <2>3, <1>4 DEF StartsClaimed
    <3>3. CASE i \notin 1..Len(work)
      <4>1. i = Len(work) + 1 \/ i = Len(work) + 2
        BY <3>1, <3>3, <1>0, <1>2
      <4>2. i = Len(work) + 2
        BY <4>1, <3>1, <1>1, <1>2
      <4> QED BY <4>2, <2>2, <1>1, <1>2
    <3> QED BY <3>2, <3>3
  <2> QED BY <2>4 DEF StartsClaimed, HasClaim, Has, Of
<1>8. \A r \in Dispatchers : PreparedSound(r)'
  <2>1. Len(work') > Len(work)
    BY <1>0, <1>2
  <2> QED BY <2>1, <1>5, PreparedKept DEF PreparedSound, At
<1> QED BY <1>6, <1>7, <1>8 DEF FoldInv

(* A claim is prepared where it is sound.                                  *)
LEMMA PrepareReadable ==
  ASSUME TypeOK, TypeOK', OwnershipInv, FoldInv, NEW d \in Dispatchers,
         NEW e \in Effects, NEW k \in Keys, NEW entry \in Entries, Prepare(d, e, k, entry)
  PROVE  FoldInv'
<1>1. PICK u \in now + 1 .. Lease(work).until :
        Set(d, Dispatch("prepared", entry, FALSE,
                        Claim(e, k, Lease(work).epoch, u, Len(work)), "unknown"))
  BY DEF Prepare
<1> DEFINE c == Claim(e, k, Lease(work).epoch, u, Len(work))
<1>0. /\ UNCHANGED <<work, gov, proposal>> /\ work \in Seq(Facts)
      /\ now \in Nat /\ Lease(work).until \in Nat
  BY LeaseTyped, DispatchAssumption DEF Prepare, TypeOK, Times
<1>2. /\ op'[d].claim = c /\ \A r \in Dispatchers \ {d} : op'[r] = op[r]
  BY <1>1 DEF Set, Dispatch, TypeOK
<1>3. c.effect = e /\ c.epoch = Lease(work).epoch /\ c.at = now /\ c.until = u
  BY DEF Claim
<1>4. ClaimSound(work, c)
  <2>1. now < u /\ u <= Lease(work).until
    BY <1>0, <1>1
  <2> HIDE DEF c
  <2> QED BY <1>3, <2>1 DEF ClaimSound, Prepare
<1>5. PreparedSound(d)'
  BY <1>0, <1>2, <1>4 DEF PreparedSound, At
<1>6. \A r \in Dispatchers \ {d} : PreparedSound(r)'
  BY <1>0, <1>2, PreparedKept
<1>7. ReadableUnbound'
  BY <1>0, FoldsLater DEF FoldInv, ReadableUnbound, Current, Catalogued
<1>8. StartsClaimed(work)'
  BY <1>0 DEF FoldInv, StartsClaimed, HasClaim, Has, Of
<1> QED BY <1>5, <1>6, <1>7, <1>8 DEF FoldInv

(* Every step of a dispatcher keeps the stream readable.                   *)
LEMMA DispatchStepReadable ==
  ASSUME TypeOK, TypeOK', OwnershipInv, FoldInv, NEW d \in Dispatchers, DispatchStep(d)
  PROVE  FoldInv'
<1>1. ASSUME Return(d) PROVE \A r \in Dispatchers : op'[r] = op[r] \/ op'[r].at # "prepared"
  BY <1>1 DEF Return, Set, Idle, Dispatch, TypeOK
<1>2. CASE Abandon(d)
  BY <1>1, <1>2, StillReadable DEF Abandon
<1>3. CASE CommitClaim(d)
  <2>1. CASE CommitOutcome(op[d].claim) = "fresh"
    BY <1>3, <2>1, FreshClaimReadable
  <2>2. CASE CommitOutcome(op[d].claim) # "fresh"
    BY <1>1, <1>3, <2>2, StillReadable DEF CommitClaim, MayInvoke, Return
  <2> QED BY <2>1, <2>2
<1>4. ASSUME NEW e \in Effects, Resume(d, e) PROVE FoldInv'
  <2>1. \A r \in Dispatchers : op'[r] = op[r] \/ op'[r].at # "prepared"
    BY <1>4 DEF Resume, Set, Dispatch, TypeOK
  <2> QED BY <1>4, <2>1, StillReadable DEF Resume
<1>5. CASE CallProvider(d)
  <2>1. \A r \in Dispatchers : op'[r] = op[r] \/ op'[r].at # "prepared"
    BY <1>5 DEF CallProvider, Goto, Set, Dispatch, TypeOK
  <2> QED BY <1>5, <2>1, StillReadable DEF CallProvider
<1>6. CASE ReceiveAnswer(d)
  <2>1. \A r \in Dispatchers : op'[r] = op[r] \/ op'[r].at # "prepared"
    BY <1>6 DEF ReceiveAnswer, Set, Dispatch, TypeOK
  <2> QED BY <1>6, <2>1, StillReadable DEF ReceiveAnswer
<1> QED BY <1>2, <1>3, <1>4, <1>5, <1>6, PrepareReadable, BindReadable, PersistReadable
        DEF DispatchStep

(* An approval only goes on while nothing is cancelled.                    *)
LEMMA ApproveReadable ==
  ASSUME TypeOK, TypeOK', OwnershipInv, FoldInv, Approve
  PROVE  FoldInv'
<1>0. UNCHANGED <<work, op>> /\ gov # Approval
  BY DispatchAssumption DEF Approve, TypeOK
<1>1. ReadableUnbound'
  <2> SUFFICES ASSUME Catalogued(work) PROVE Current'
    BY <1>0 DEF ReadableUnbound, Catalogued
  <2>1. Folds(work, gov)
    BY DEF FoldInv, ReadableUnbound, Current
  <2>2. Of(work, "cancelled") = {}
    BY <1>0, <2>1 DEF Folds, CancellationBound
  <2>3. work' = work
    BY <1>0
  <2> QED BY <2>1, <2>2, <2>3, FoldsLater
<1>2. StartsClaimed(work)'
  BY <1>0 DEF FoldInv, StartsClaimed, HasClaim, Has, Of
<1>3. \A d \in Dispatchers : PreparedSound(d)'
  BY <1>0, PreparedKept
<1> QED BY <1>1, <1>2, <1>3 DEF FoldInv

(* The inductive invariant of readable streams: whatever leases, claims,   *)
(* activations, approvals, cancellations and answers are raced.            *)
THEOREM ReadabilityInvariant == Spec => [](TypeOK /\ OwnershipInv /\ FoldInv)
<1>1. Init => FoldInv
  <2> SUFFICES ASSUME Init PROVE FoldInv
    OBVIOUS
  <2>1. \A i \in DOMAIN work : work[i].kind = "legacy-observed"
    BY DEF Init, Effect
  <2>2. \A k : k # "legacy-observed" => Of(work, k) = {}
    BY <2>1 DEF Of
  <2>3. Cardinality(Of(work, "cancelled")) <= 1
    <3>1. Of(work, "cancelled") = {}
      BY <2>2
    <3>2. Cardinality({}) = 0
      BY FS_EmptySet
    <3>3. 0 <= 1
      OBVIOUS
    <3> QED BY <3>1, <3>2, <3>3, Zenon
  <2>4. /\ Of(work, "cancelled") = {} /\ Of(work, "claim") = {} /\ Of(work, "start") = {}
        /\ Of(work, "observed") = {} /\ Of(work, "activated") = {}
    BY <2>2
  <2>5. Catalogued(work)
    BY <2>1 DEF Catalogued, PolicyKinds
  <2>6. ReadableUnbound
    BY <2>3, <2>4, <2>5
       DEF ReadableUnbound, Current, Folds, PendingRespected, Unique, ActivationsClean
  <2>7. \A d \in Dispatchers : PreparedSound(d)
    BY DEF Init, PreparedSound, At, Idle, Dispatch
  <2> QED BY <2>4, <2>6, <2>7 DEF FoldInv, StartsClaimed
<1>2. TypeOK /\ TypeOK' /\ OwnershipInv /\ FoldInv /\ [Next]_vars => FoldInv'
  <2> SUFFICES ASSUME TypeOK, TypeOK', OwnershipInv, FoldInv, [Next]_vars PROVE FoldInv'
    OBVIOUS
  <2>1. CASE Tick \/ UNCHANGED vars
    BY <2>1, StillReadable DEF Tick, vars
  <2>2. CASE LeaseStep
    BY <2>2, LeaseStepReadable
  <2>3. CASE Approve
    BY <2>3, ApproveReadable
  <2>4. CASE Cancel \/ CancelClaimFirst
    BY <2>4, CancelReadable
  <2>5. ASSUME NEW e \in Effects, Activate(e) \/ LegacyReceipt(e) PROVE FoldInv'
    BY <2>5, EffectStepReadable
  <2>6. ASSUME NEW e \in Effects, Perform(e) PROVE FoldInv'
    BY <2>6, StillReadable DEF Perform
  <2>7. ASSUME NEW d \in Dispatchers, DispatchStep(d) PROVE FoldInv'
    BY <2>7, DispatchStepReadable
  <2> QED BY <2>1, <2>2, <2>3, <2>4, <2>5, <2>6, <2>7 DEF Next
<1> QED BY <1>1, <1>2, DispatchInvariant, PTL DEF Spec

(* Whatever commits are raced, every stream they leave behind passes every *)
(* later fold, as long as no policy is bound.                              *)
THEOREM RacedStreamsReadable == Spec => []ReadableUnbound
<1>1. FoldInv => ReadableUnbound
  BY DEF FoldInv
<1> QED BY <1>1, ReadabilityInvariant, PTL

(* And so the answer of a provider can still be recorded, whatever was     *)
(* committed during the call.                                              *)
THEOREM AnswersRecordable == Spec => []AnswerRecordable
<1>1. TypeOK /\ OwnershipInv /\ FoldInv => AnswerRecordable
  <2> SUFFICES ASSUME TypeOK, OwnershipInv, FoldInv, NEW d \in Dispatchers,
                      At(d, "answered"), Catalogued(work)
               PROVE  Folds(Append(work, Observation(d)), gov)
    BY DEF AnswerRecordable
  <2> DEFINE f == Observation(d)
             t == Append(work, f)
  <2>0. work \in Seq(Facts) /\ Len(work) \in Nat
    BY DEF TypeOK
  <2>1. f \in Facts /\ f.kind = "observed" /\ f.effect = EffectOf(d)
    BY AnswerTyped
  <2>2. /\ t \in Seq(Facts) /\ Len(t) = Len(work) + 1 /\ t[Len(t)] = f
        /\ \A i \in 1..Len(work) : t[i] = work[i]
    <3> HIDE DEF f
    <3> QED BY <2>0, <2>1
  <2>3. Extends(t, work)
    <3> HIDE DEF t
    <3> QED BY <2>0, <2>2 DEF Extends
  <2>4. Current /\ Folds(work, gov)
    BY DEF FoldInv, ReadableUnbound, Current
  <2>5. ~Has(work, "observed", f.effect) /\ Has(work, "start", f.effect)
    BY <2>1, <2>4, AnswerExpected
  <2>6. ActivationsClean(t)
    <3> HIDE DEF t, f
    <3>1. \A i \in DOMAIN t : i > Len(work) => t[i] = f
      BY <2>0, <2>2
    <3>2. \A i \in DOMAIN t : i > Len(work) =>
            t[i].kind \notin {"activated", "legacy-observed", "legacy-receipt"}
      BY <2>1, <3>1
    <3> QED BY <2>0, <2>2, <2>3, <2>4, <3>2, SameActivations DEF Folds
  <2>7. f.kind \in AllowedAfterCancel /\ f.kind \notin PolicyKinds \cup {"claim", "start"}
    BY <2>1 DEF AllowedAfterCancel, PolicyKinds
  <2> HIDE DEF t, f
  <2>8. Folds(t, gov)
    BY <2>0, <2>1, <2>2, <2>3, <2>4, <2>5, <2>6, <2>7, FoldsOneMore
  <2> QED BY <2>8 DEF t, f
<1> QED BY <1>1, ReadabilityInvariant, PTL
=============================================================================
