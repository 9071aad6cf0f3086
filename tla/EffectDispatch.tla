--------------------------- MODULE EffectDispatch ---------------------------
(***************************************************************************)
(* How external effects of one governed work are claimed and performed.    *)
(* Everything durable is a fact of the work's stream, or one of the        *)
(* approval events of its governance stream.  A commit is atomic: it       *)
(* appends to the head the caller folded, with the governance head as a    *)
(* guard, so a commit that loses a race leaves no trace.  Dispatchers are  *)
(* processes that may stop at any step; the provider is outside.           *)
(*                                                                         *)
(* The work is modelled from the point where its intents are committed:    *)
(* revision 0 is that prefix.  Legacy facts can only come from before V3:  *)
(* the V2 dispatcher always refuses to run.                                *)
(***************************************************************************)
EXTENDS Integers, Sequences, FiniteSetsExt

CONSTANTS
    Dispatchers,    \* the processes that dispatch effects
    Effects,        \* the effects whose intents are committed
    CapabilityOf,   \* CapabilityOf[e]: the capability that e uses
    Source,         \* the intent a cancellation names: that of the last attempt
    Historical,     \* the effects that a V2 dispatcher may have performed
    Keys,           \* the command keys that callers use
    Entries,        \* the entry points: "unbound", or "bound" to policies
    Approval,       \* the length of an approval (six events in the code)
    MaxTime,        \* bound: the clock
    MaxFacts        \* bound: the length of the work's stream

ASSUME DispatchAssumption ==
    /\ Source \in Effects /\ Historical \subseteq Effects
    /\ CapabilityOf \in [Effects -> STRING] /\ Keys # {}
    /\ Entries \subseteq {"unbound", "bound"}
    /\ Approval \in Nat \ {0} /\ MaxTime \in Nat /\ MaxFacts \in Nat

VARIABLES
    work,       \* the facts of the work's stream
    gov,        \* how many events of the approval are committed
    proposal,   \* the revision that the approved cancellation names
    now,        \* the clock that callers pass
    op,         \* op[d]: where the dispatch of d is
    calls,      \* calls[e]: how often the provider was asked to perform e
    fate        \* fate[e]: what became of e at the provider

vars == <<work, gov, proposal, now, op, calls, fate>>

LeaseKinds == {"claimed", "renewed", "reclaimed", "released", "expired"}
LegacyKinds == {"legacy-observed", "legacy-receipt"}
PolicyKinds == {"recovery-policy", "retry-policy"}
Times == 0..MaxTime + 1
Outcomes == {"success", "failure", "unknown"}

LeaseFacts == [kind : LeaseKinds, epoch : Nat, from : Times, until : Times]
ClaimFacts == [kind : {"claim"}, effect : Effects, key : Keys, epoch : Nat,
               at : Times, until : Times, base : Nat, gov : Nat]
Facts ==
    LeaseFacts \cup ClaimFacts
    \cup [kind : {"start"} \cup LegacyKinds \cup PolicyKinds, effect : Effects]
    \cup [kind : {"activated"}, capability : {CapabilityOf[e] : e \in Effects}]
    \cup [kind : {"observed"}, effect : Effects, outcome : Outcomes]
    \cup [kind : {"cancelled"}, prefix : Nat, head : Nat]

Effect(kind, e) == [kind |-> kind, effect |-> e]

(***************************************************************************)
(* What a fold of the stream s reads.                                      *)
(***************************************************************************)
Prefix(s, n) == SubSeq(s, 1, n)
Of(s, kind) == {i \in DOMAIN s : s[i].kind = kind}
Has(s, kind, e) == \E i \in Of(s, kind) : s[i].effect = e

Cancelled(s) == Of(s, "cancelled") # {}
Activated(s, e) == \E i \in Of(s, "activated") : s[i].capability = CapabilityOf[e]
HasClaim(s, e) == Has(s, "claim", e)
Legacy(s, e) == \E k \in LegacyKinds : Has(s, k, e)

(* The last lease event of s, if there is one.                             *)
NoLease == [kind |-> "none", epoch |-> 0, from |-> 0, until |-> 0]
Lease(s) ==
    LET L == {i \in DOMAIN s : s[i].kind \in LeaseKinds}
    IN  IF L = {} THEN NoLease ELSE s[Max(L)]
Active(s) == Lease(s).kind \in {"claimed", "renewed", "reclaimed"}

(* The lease authorises work at time t: it is active and in its window.    *)
LeaseCurrent(s, t) ==
    /\ ~Cancelled(s) /\ Active(s)
    /\ Lease(s).from <= t /\ t < Lease(s).until

(* state_for, as far as dispatch takes an effect.                          *)
Attempted(s, e) == HasClaim(s, e) /\ ~Has(s, "observed", e)

(* Mutant: only a claim under the current lease takes the effect.          *)
EligibleInLease(s, e) ==
    /\ ~Legacy(s, e)
    /\ \A i \in Of(s, "claim") : s[i].effect = e => s[i].epoch # Lease(s).epoch
Eligible(s, e) == ~HasClaim(s, e) /\ ~Legacy(s, e)

(***************************************************************************)
(* fold_governed_recovery_v3: what every fold of a stream s, with g events *)
(* of the approval, checks again before it returns.  Everything that reads *)
(* or extends the stream starts with it.                                   *)
(***************************************************************************)

(* The orchestration fold lists the V3 kinds it knows; the policies are    *)
(* not among them.                                                         *)
Catalogued(s) == \A i \in DOMAIN s : s[i].kind \notin PolicyKinds

(* Mutant: a cancelled work takes no observation.                          *)
AllowedAfterCancelSettled == {"released", "expired", "recovery-policy"} \cup LegacyKinds
AllowedAfterCancel == {"observed", "released", "expired", "recovery-policy"} \cup LegacyKinds
PendingRespected(s) ==
    \A c \in Of(s, "cancelled"), i \in DOMAIN s :
        c < i => s[i].kind \in AllowedAfterCancel

Unique(s, kind) ==
    \A i, j \in Of(s, kind) : s[i].effect = s[j].effect => i = j

(* An activated capability has no legacy facts, before or after.           *)
ActivationsClean(s) ==
    \A i \in Of(s, "activated") :
        /\ \A j \in Of(s, "activated") : s[i].capability = s[j].capability => i = j
        /\ \A e \in Effects : Legacy(s, e) => CapabilityOf[e] # s[i].capability

(* A claim is refolded on the prefix that it names.                        *)
ClaimBound(s, i) ==
    LET c == s[i]
        p == Prefix(s, c.base)
    IN  /\ c.base = i - 1
        /\ Activated(p, c.effect) /\ Eligible(p, c.effect)
        /\ LeaseCurrent(p, c.at) /\ Lease(p).epoch = c.epoch
        /\ c.at < c.until /\ c.until <= Lease(p).until
        /\ i + 1 \in DOMAIN s /\ s[i + 1] = Effect("start", c.effect)

(* Mutant: an answer is recorded under an active lease only.               *)
ObservationBoundLeased(s, i) ==
    /\ Active(Prefix(s, i - 1))
    /\ \E j \in Of(s, "start") : j < i /\ s[j].effect = s[i].effect
ObservationBound(s, i) ==
    \E j \in Of(s, "start") : j < i /\ s[j].effect = s[i].effect

(* The claim of the source effect is all that may come between the head    *)
(* that was authorised and the cancellation.                               *)
ClaimFirst(s, head) ==
    /\ head + 2 \in DOMAIN s
    /\ s[head + 1].kind = "claim" /\ s[head + 1].effect = Source
    /\ s[head + 2] = Effect("start", Source)

CancellationBound(s, g, i) ==
    LET c == s[i]
    IN  /\ g = Approval /\ c.prefix = proposal
        /\ \/ c.prefix = i - 1 /\ c.head = c.prefix
           \/ c.prefix < c.head /\ c.head = i - 3 /\ ClaimFirst(s, c.head)

Folds(s, g) ==
    /\ Catalogued(s) /\ PendingRespected(s)
    /\ Unique(s, "claim") /\ Unique(s, "start") /\ Unique(s, "observed")
    /\ ActivationsClean(s)
    /\ \A i \in Of(s, "claim") : ClaimBound(s, i)
    /\ \A i \in Of(s, "observed") : ObservationBound(s, i)
    /\ Cardinality(Of(s, "cancelled")) <= 1
    /\ \A i \in Of(s, "cancelled") : CancellationBound(s, g, i)

Current == Folds(work, gov)
Open == Current /\ ~Cancelled(work)

Commit(facts) ==
    /\ Len(work) + Len(facts) <= MaxFacts
    /\ work' = work \o facts

(***************************************************************************)
(* The work's lease.                                                       *)
(***************************************************************************)
LeaseFact(kind, epoch, until) ==
    [kind |-> kind, epoch |-> epoch, from |-> now, until |-> until]

ClaimLease ==
    /\ Open /\ Lease(work).kind = "none"
    /\ \E u \in now + 1 .. MaxTime + 1 : Commit(<<LeaseFact("claimed", 1, u)>>)
    /\ UNCHANGED <<gov, proposal, now, op, calls, fate>>

RenewLease ==
    /\ Open /\ LeaseCurrent(work, now)
    /\ \E u \in Lease(work).until + 1 .. MaxTime + 1 :
          Commit(<<LeaseFact("renewed", Lease(work).epoch, u)>>)
    /\ UNCHANGED <<gov, proposal, now, op, calls, fate>>

(* Releases and expiries settle a lease that a cancellation left behind.   *)
ReleaseLease ==
    /\ Current /\ Active(work)
    /\ Lease(work).from <= now /\ now < Lease(work).until
    /\ Commit(<<LeaseFact("released", Lease(work).epoch, Lease(work).until)>>)
    /\ UNCHANGED <<gov, proposal, now, op, calls, fate>>

ExpireLease ==
    /\ Current /\ Active(work) /\ Lease(work).until <= now
    /\ Commit(<<LeaseFact("expired", Lease(work).epoch, Lease(work).until)>>)
    /\ UNCHANGED <<gov, proposal, now, op, calls, fate>>

ReclaimLease ==
    /\ Open /\ Lease(work).kind \in {"released", "expired"}
    /\ \E u \in now + 1 .. MaxTime + 1 :
          Commit(<<LeaseFact("reclaimed", Lease(work).epoch + 1, u)>>)
    /\ UNCHANGED <<gov, proposal, now, op, calls, fate>>

(***************************************************************************)
(* Capabilities, legacy facts, and the cancellation of the work.           *)
(***************************************************************************)
(* Mutant: only the effect itself is looked at.                            *)
CleanCapabilitySelf(s, e) == ~Legacy(s, e)
CleanCapability(s, e) ==
    \A f \in Effects : CapabilityOf[f] = CapabilityOf[e] => ~Legacy(s, f)

Activate(e) ==
    /\ Open /\ ~Activated(work, e) /\ CleanCapability(work, e)
    /\ Commit(<<[kind |-> "activated", capability |-> CapabilityOf[e]]>>)
    /\ UNCHANGED <<gov, proposal, now, op, calls, fate>>

LegacyReceipt(e) ==
    /\ Current /\ ~Activated(work, e)
    /\ Has(work, "legacy-observed", e) /\ ~Has(work, "legacy-receipt", e)
    /\ Commit(<<Effect("legacy-receipt", e)>>)
    /\ UNCHANGED <<gov, proposal, now, op, calls, fate>>

(* The first event of the approval names a proposal made at the head.      *)
Approve ==
    /\ gov < Approval
    /\ gov' = gov + 1
    /\ IF gov = 0 THEN Open /\ proposal' = Len(work) ELSE proposal' = proposal
    /\ UNCHANGED <<work, now, op, calls, fate>>

CancelAt(head) ==
    /\ Commit(<<[kind |-> "cancelled", prefix |-> proposal, head |-> head]>>)
    /\ UNCHANGED <<gov, proposal, now, op, calls, fate>>

Cancel ==
    /\ Open /\ gov = Approval /\ proposal = Len(work)
    /\ CancelAt(proposal)

(* A cancellation authorised at an earlier head may still follow the claim *)
(* that overtook it, and nothing else.                                     *)
CancelClaimFirst ==
    LET head == Len(work) - 2
    IN  /\ Open /\ gov = Approval /\ proposal < head
        /\ ClaimFirst(work, head)
        /\ Activated(Prefix(work, head), Source) /\ Eligible(Prefix(work, head), Source)
        /\ CancelAt(head)

Tick ==
    /\ now < MaxTime
    /\ now' = now + 1
    /\ UNCHANGED <<work, gov, proposal, op, calls, fate>>

(***************************************************************************)
(* The dispatch of an effect.  fresh says that this very process committed *)
(* the claim; it is never read back from the stream.                       *)
(***************************************************************************)
Claim(e, k, epoch, until, base) ==
    [kind |-> "claim", effect |-> e, key |-> k, epoch |-> epoch,
     at |-> now, until |-> until, base |-> base, gov |-> gov]
Unclaimed(e) ==
    [kind |-> "claim", effect |-> e, key |-> CHOOSE k \in Keys : TRUE, epoch |-> 0,
     at |-> 0, until |-> 0, base |-> 0, gov |-> 0]
Dispatch(place, entry, fresh, claim, outcome) ==
    [at |-> place, entry |-> entry, fresh |-> fresh, claim |-> claim, outcome |-> outcome]
Idle == Dispatch("idle", "unbound", FALSE, Unclaimed(Source), "unknown")
At(d, place) == op[d].at = place
Set(d, o) == op' = [op EXCEPT ![d] = o]
Goto(d, place) ==
    Set(d, Dispatch(place, op[d].entry, op[d].fresh, op[d].claim, op[d].outcome))
Return(d) == Set(d, Idle)

(* prepare_dispatch_claim_v3, on the projection the caller folded.         *)
Prepare(d, e, k, entry) ==
    /\ At(d, "idle")
    /\ Open /\ Eligible(work, e) /\ Activated(work, e) /\ LeaseCurrent(work, now)
    /\ \E u \in now + 1 .. Lease(work).until :
          Set(d, Dispatch("prepared", entry, FALSE,
                          Claim(e, k, Lease(work).epoch, u, Len(work)), "unknown"))
    /\ UNCHANGED <<work, gov, proposal, now, calls, fate>>

(* How the store answers the commit of c, in the order it looks.           *)
SameKey(s, c) == {i \in Of(s, "claim") : s[i].key = c.key}

(* Mutant: the head of the work is not compared.                           *)
CommitOutcomeAnyHead(c) ==
    IF SameKey(work, c) # {}
    THEN IF \E i \in SameKey(work, c) : work[i] = c THEN "already" ELSE "conflict"
    ELSE IF c.gov # gov THEN "stale" ELSE "fresh"

CommitOutcome(c) ==
    IF SameKey(work, c) # {}
    THEN IF \E i \in SameKey(work, c) : work[i] = c THEN "already" ELSE "conflict"
    ELSE IF c.gov # gov THEN "stale"
    ELSE IF c.base # Len(work) THEN "lost" ELSE "fresh"

(* Mutant: a repeated commit entitles its caller as well.                  *)
MayInvokeRepeated(outcome) == outcome \in {"fresh", "already"}
MayInvoke(outcome) == outcome = "fresh"

(* The bound entry binds its policies before it calls.                     *)
Owned(o) ==
    Dispatch(IF o.entry = "bound" THEN "recovery-policy" ELSE "call",
             o.entry, TRUE, o.claim, "unknown")

CommitClaim(d) ==
    LET c == op[d].claim
        outcome == CommitOutcome(c)
    IN  /\ At(d, "prepared")
        /\ IF outcome = "fresh"
           THEN Commit(<<c, Effect("start", c.effect)>>)
           ELSE UNCHANGED work
        /\ Set(d, IF MayInvoke(outcome) THEN Owned(op[d]) ELSE Idle)
        /\ UNCHANGED <<gov, proposal, now, calls, fate>>

(* A restart that finds the claim in the stream finishes its policies, and *)
(* stays query-only.                                                       *)
Resume(d, e) ==
    /\ At(d, "idle") /\ "bound" \in Entries
    /\ Current /\ Attempted(work, e)
    /\ Set(d, Dispatch("recovery-policy", "bound", FALSE, Unclaimed(e), "unknown"))
    /\ UNCHANGED <<work, gov, proposal, now, calls, fate>>

(* Each binding follows a fold.  One that loses its race after it is       *)
(* ignored, and the operation goes on to its next fold.                    *)
BindPolicy(d, kind, next, allowed) ==
    /\ At(d, kind)
    /\ Current /\ allowed /\ HasClaim(work, op[d].claim.effect)
    /\ Commit(<<Effect(kind, op[d].claim.effect)>>) \/ UNCHANGED work
    /\ Goto(d, next)
    /\ UNCHANGED <<gov, proposal, now, calls, fate>>

BindRecoveryPolicy(d) ==
    BindPolicy(d, "recovery-policy", "retry-policy", Attempted(work, op[d].claim.effect))

BindRetryPolicy(d) == BindPolicy(d, "retry-policy", "call", ~Cancelled(work))

(* invoke_fresh_guarded_effect_candidate_v3: nothing looks at the clock or *)
(* at the lease again.                                                     *)
CallProvider(d) ==
    LET e == op[d].claim.effect
    IN  /\ At(d, "call") /\ op[d].fresh /\ Current
        /\ \E i \in Of(work, "claim") : work[i] = op[d].claim
        /\ op[d].entry = "bound" => \A k \in PolicyKinds : Has(work, k, e)
        /\ calls' = [calls EXCEPT ![e] = @ + 1]
        /\ Goto(d, "calling")
        /\ UNCHANGED <<work, gov, proposal, now, fate>>

(* The provider performs the effect, or fails for good, when it pleases.   *)
Perform(e) ==
    /\ calls[e] > 0 /\ fate[e] = "none"
    /\ \E f \in {"success", "failure"} : fate' = [fate EXCEPT ![e] = f]
    /\ UNCHANGED <<work, gov, proposal, now, op, calls>>

(* What a provider may answer truthfully; or its answer is for some other  *)
(* call, or is lost.                                                       *)
Answers(f) ==
    {"unknown", "mismatched"} \cup (IF f = "none" THEN {"not-applied"} ELSE {f})

(* Mutants: an effect that was not applied is reported as a failure, or    *)
(* the answer is recorded as it came.                                      *)
NormalizeNotApplied(answer) ==
    IF answer = "not-applied" THEN "failure"
    ELSE IF answer \in {"success", "failure"} THEN answer ELSE "unknown"
NormalizeRaw(answer) == answer
Normalize(answer) == IF answer \in {"success", "failure"} THEN answer ELSE "unknown"

ReceiveAnswer(d) ==
    /\ At(d, "calling")
    /\ \E a \in Answers(fate[op[d].claim.effect]) :
          Set(d, Dispatch("answered", op[d].entry, TRUE, op[d].claim, Normalize(a)))
    /\ UNCHANGED <<work, gov, proposal, now, calls, fate>>

Observation(d) == [kind |-> "observed", effect |-> op[d].claim.effect,
                   outcome |-> op[d].outcome]

(* Best effort: a race that is lost, or a fold that fails, drops it.       *)
PersistObservation(d) ==
    /\ At(d, "answered") /\ Current
    /\ Commit(<<Observation(d)>>)
    /\ Return(d)
    /\ UNCHANGED <<gov, proposal, now, calls, fate>>

(* The process stops, or the operation raises or gives up.                 *)
Abandon(d) ==
    /\ ~At(d, "idle")
    /\ Return(d)
    /\ UNCHANGED <<work, gov, proposal, now, calls, fate>>

Init ==
    /\ work \in {<<>>} \cup {<<Effect("legacy-observed", e)>> : e \in Historical}
    /\ gov = 0 /\ proposal = 0 /\ now = 0
    /\ op = [d \in Dispatchers |-> Idle]
    /\ calls = [e \in Effects |-> 0]
    /\ fate = [e \in Effects |-> "none"]

LeaseStep == ClaimLease \/ RenewLease \/ ReleaseLease \/ ExpireLease \/ ReclaimLease

DispatchStep(d) ==
    \/ \E e \in Effects, k \in Keys, entry \in Entries : Prepare(d, e, k, entry)
    \/ CommitClaim(d)
    \/ \E e \in Effects : Resume(d, e)
    \/ BindRecoveryPolicy(d) \/ BindRetryPolicy(d)
    \/ CallProvider(d) \/ ReceiveAnswer(d) \/ PersistObservation(d) \/ Abandon(d)

Next ==
    \/ Tick \/ LeaseStep \/ Approve \/ Cancel \/ CancelClaimFirst
    \/ \E e \in Effects : Activate(e) \/ LegacyReceipt(e) \/ Perform(e)
    \/ \E d \in Dispatchers : DispatchStep(d)

Spec == Init /\ [][Next]_vars

(***************************************************************************)
(* Properties.                                                             *)
(***************************************************************************)
Places == {"idle", "prepared", "recovery-policy", "retry-policy", "call", "calling", "answered"}

(* Every variable has its type: the facts are the kinds the code writes.   *)
TypeOK ==
    /\ work \in Seq(Facts) /\ gov \in 0..Approval /\ proposal \in Nat /\ now \in 0..MaxTime
    /\ op \in [Dispatchers -> [at : Places, entry : {"unbound", "bound"}, fresh : BOOLEAN,
                               claim : ClaimFacts, outcome : Outcomes]]
    /\ calls \in [Effects -> Nat]
    /\ fate \in [Effects -> {"none", "success", "failure"}]

(* However many processes claim, repeat and restart, the provider is asked *)
(* to perform an effect at most once: only the process whose commit was    *)
(* fresh calls it.                                                         *)
AtMostOneCall == \A e \in Effects : calls[e] <= 1

(* An effect that the stream shows as eligible was never attempted, so a   *)
(* later claim of it cannot repeat it.                                     *)
EligibleUntouched == \A e \in Effects : Eligible(work, e) => calls[e] = 0

(* A definite outcome in the stream is what happened at the provider, even *)
(* when the provider performed the effect after it answered.               *)
KnownIsTrue ==
    \A i \in Of(work, "observed") :
        work[i].outcome # "unknown" => fate[work[i].effect] = work[i].outcome

(* Whatever commits are raced, every stream they leave behind passes every *)
(* later fold, as long as no policy is bound.                              *)
ReadableUnbound == Catalogued(work) => Current

(* And so an answer can still be recorded, whatever lease events,          *)
(* activations and cancellation were committed during the call.            *)
AnswerRecordable ==
    \A d \in Dispatchers :
        At(d, "answered") /\ Catalogued(work) => Folds(Append(work, Observation(d)), gov)

(* The stream can be folded: the bound entry refolds it before it calls.   *)
Readable == Current

(* The protocol implements the abstract one: effects are owned once, while *)
(* the work is open, performed once and by their owner, recorded once.     *)
Uncancelled == ~Cancelled(work)
Claimed == {e \in Effects : HasClaim(work, e)}
Recorded == {<<work[i].effect, work[i].outcome>> : i \in Of(work, "observed")}

OwnedOnce == INSTANCE DispatchOwnership WITH
    open <- Uncancelled, owned <- Claimed, recorded <- Recorded

ImplementsOwnership == OwnedOnce!Spec
=============================================================================
