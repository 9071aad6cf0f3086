--------------------------- MODULE ReviewExchange ---------------------------
(***************************************************************************)
(* scripts/review_packet.py and scripts/review_return.py: a result that    *)
(* waits for its review is exported as a packet, judged offline, and comes *)
(* back as a receipt that the native review-outcome command records.  The  *)
(* scripts only read, with one command per read, while other commands may  *)
(* change the run and anybody may write the artifact the result names.     *)
(* A packet, a worksheet and a receipt are new files; what was only partly *)
(* written when its writer was killed does not open.                       *)
(***************************************************************************)
EXTENDS RunKernel

CONSTANTS
    Contents,       \* contents of an output artifact; each stands for its digest
    MaxAttempts,    \* bound: MaxAttempts[i] attempts of item i
    Operator,       \* the operator transitions made meanwhile
    Reports         \* bound: the reports adapters make

ASSUME ReviewAssumption ==
    /\ Contents \subseteq Nat \ {0} /\ MaxAttempts \in [Items -> Nat]
    /\ Operator \subseteq Transitions /\ Reports \subseteq [attempt : Nat, status : ReportStatuses, id : Nat]

VARIABLES
    store,      \* events.json: the run
    artifact,   \* artifact[i]: the output artifact of item i in the workspace
    export,     \* the script at work: export or prepare
    packet,     \* the packet file
    worksheet,  \* the worksheet that was returned with findings, and its packet
    receipt,    \* the prepared receipt
    submit,     \* the native review-outcome command, between read and write
    judged      \* every worksheet a reviewer returned (history)

reviewVars == <<store, artifact, export, packet, worksheet, receipt, submit, judged>>

NoPacket == [item |-> "none"]
NoFindings == [manifest |-> NoPacket, decision |-> "none"]
NoExport == [at |-> "none"]
NoSubmit == [at |-> "none"]

ReviewInit ==
    /\ store = GraphRun /\ artifact = [i \in Items |-> 0]
    /\ export = NoExport /\ packet = NoPacket /\ worksheet = NoFindings /\ receipt = NoPacket
    /\ submit = NoSubmit /\ judged = {}

exchangeFiles == <<packet, worksheet, receipt, submit, judged>>

----------------------------------------------------------------------------
(* The rest of the workspace: every other command reads the run and writes *)
(* it back, and every program may write an artifact.                       *)

Reviewable == {i \in Items : MaxAttempts[i] > 0}

(* append_transition; prepare-next, and a start that counts an attempt,    *)
(* within the bound.                                                       *)
Transitioned(i) ==
    UNION {Transition(store, i, t) :
              t \in {u \in Operator : u = "start" => store.item[i].attempt_count < MaxAttempts[i]}}
Commanded(i) ==
    Advance(store) \cup Transitioned(i)
      \cup (IF NextAttempt(store, i) <= MaxAttempts[i] THEN PrepareNext(store, {i} \cap Runnable(store)) ELSE {})

OtherCommand ==
    /\ \E i \in Reviewable : \E m \in Commanded(i) : m # store /\ store' = m
    /\ UNCHANGED <<artifact, export, exchangeFiles>>

(* reconcile-attempt: an adapter reports on the active attempt, as often   *)
(* as it likes, a success with any digest.  Also an item that a review     *)
(* rejected is blocked and takes the next report.                          *)
ResultArrives ==
    /\ \E i \in Reviewable, R \in Reports :
          \E d \in (IF R.status = "succeeded" THEN Contents ELSE {0}) : store' \in Reconcile(store, i, R, d)
    /\ UNCHANGED <<artifact, export, exchangeFiles>>

(* Bound: the artifacts of items that have attempts.                       *)
ArtifactWritten ==
    /\ \E i \in Reviewable, c \in Contents :
          artifact[i] # c /\ artifact' = [artifact EXCEPT ![i] = c]
    /\ UNCHANGED <<store, export, exchangeFiles>>

----------------------------------------------------------------------------
(* prepare_packet, for an export and again for a preparation.              *)

(* select_item: one item that waits for its review with a current success. *)
Selectable(s) == s.status = "review" /\ s.attempt_status = "succeeded"

ReadStatus(mode, i) ==
    /\ export = NoExport /\ Selectable(store.item[i])
    /\ export' = [at |-> "history", mode |-> mode, item |-> i, before |-> store]
    /\ UNCHANGED <<store, artifact, exchangeFiles>>

(* A script that refuses leaves nothing behind.                            *)
Refuse == export' = NoExport

(* current_result: the history has the head of the status, and the one     *)
(* event of the result names the artifacts.                                *)
ReadHistory ==
    /\ export.at = "history"
    /\ IF store = export.before THEN export' = [export EXCEPT !.at = "artifacts"] ELSE Refuse
    /\ UNCHANGED <<store, artifact, exchangeFiles>>

(* Mutant: the bytes are packed without comparing their digest.            *)
DigestUnchecked(claimed, content) == TRUE

(* The artifacts that were read have the digest the result recorded.       *)
DigestObserved(claimed, content) == content = claimed

ReadArtifacts ==
    /\ export.at = "artifacts"
    /\ LET i == export.item
       IN  IF DigestObserved(export.before.item[i].digest, artifact[i])
           THEN export' = [at |-> "again", mode |-> export.mode, item |-> i, before |-> export.before,
                           content |-> artifact[i]]
           ELSE Refuse
    /\ UNCHANGED <<store, artifact, exchangeFiles>>

(* The status is read once more and must not have changed.                 *)
ReadAgain ==
    /\ export.at = "again"
    /\ IF store = export.before THEN export' = [export EXCEPT !.at = "publish"] ELSE Refuse
    /\ UNCHANGED <<store, artifact, exchangeFiles>>

Manifest ==
    LET s == export.before.item[export.item]
    IN  [item |-> export.item, attempt |-> s.attempt, result |-> s.result, digest |-> s.digest,
         content |-> export.content]

(* os.O_EXCL: a new packet; an earlier one stays with its reader.          *)
PublishPacket ==
    /\ export.at = "publish" /\ export.mode = "export"
    /\ packet' = Manifest /\ Refuse
    /\ UNCHANGED <<store, artifact, worksheet, receipt, submit, judged>>

ExportKilled ==
    /\ export # NoExport /\ Refuse
    /\ UNCHANGED <<store, artifact, exchangeFiles>>

----------------------------------------------------------------------------
(* review_return: worksheet, findings, receipt.                            *)

(* read_packet and validate_findings: the reviewer fills in the worksheet  *)
(* of the packet at hand, an acceptance with every criterion satisfied.    *)
Judge ==
    /\ packet # NoPacket /\ worksheet.manifest # packet
    /\ \E d \in {"accepted", "rejected"} : worksheet' = [manifest |-> packet, decision |-> d]
    /\ judged' = judged \cup {worksheet'}
    /\ UNCHANGED <<store, artifact, export, packet, receipt, submit>>

(* prepare_receipt: nothing the reviewer was bound to has changed.         *)
SameResult(current, manifest) == current = manifest

PublishReceipt ==
    /\ export.at = "publish" /\ export.mode = "prepare" /\ Refuse
    /\ LET m == worksheet.manifest
       IN  receipt' = IF SameResult(Manifest, m)
                      THEN [item |-> m.item, attempt |-> m.attempt, result |-> m.result, digest |-> m.digest,
                            decision |-> worksheet.decision]
                      ELSE receipt
    /\ UNCHANGED <<store, artifact, packet, worksheet, submit, judged>>

----------------------------------------------------------------------------
(* review_outcome: the command reads the run and writes it back reviewed,  *)
(* over whatever was written in between.                                   *)

SubmitRead ==
    /\ submit = NoSubmit /\ receipt # NoPacket
    /\ \E m \in Review(store, receipt.item,
                       [attempt |-> receipt.attempt, result |-> receipt.result, digest |-> receipt.digest,
                        decision |-> receipt.decision]) :
          submit' = [at |-> "write", next |-> m]
    /\ UNCHANGED <<store, artifact, export, packet, worksheet, receipt, judged>>

SubmitWrite ==
    /\ submit # NoSubmit /\ submit' = NoSubmit
    /\ store' = submit.next
    /\ UNCHANGED <<artifact, export, packet, worksheet, receipt, judged>>

Exchange ==
    \/ OtherCommand \/ ResultArrives \/ ArtifactWritten
    \/ \E i \in Items : ReadStatus("export", i)
    \/ worksheet # NoFindings /\ ReadStatus("prepare", worksheet.manifest.item)
    \/ ReadHistory \/ ReadArtifacts \/ ReadAgain \/ PublishPacket \/ ExportKilled
    \/ Judge \/ PublishReceipt \/ SubmitRead \/ SubmitWrite

----------------------------------------------------------------------------
(* Properties.                                                             *)

ReviewTypeOK ==
    /\ store \in Runs /\ artifact \in [Items -> Contents \cup {0}]
    /\ submit # NoSubmit => submit.next \in Runs

(* A person made review v of item i: of this attempt and this success,     *)
(* from bytes with the digest the result claimed.                          *)
Made(i, v) ==
    \E j \in judged :
       /\ j.manifest.item = i /\ j.decision = v.decision
       /\ j.manifest.attempt = v.attempt /\ j.manifest.result = v.result /\ v.result.status = "succeeded"
       /\ j.manifest.digest = v.digest /\ j.manifest.content = v.digest

(* Every review that is recorded was made, although the packet was read in *)
(* four steps, the artifact could be rewritten, the attempt reported again *)
(* and another attempt opened at any moment in between; and what an item   *)
(* is accepted with is still the result the review is of.                  *)
ReceiptCurrent ==
    \A i \in Items :
        LET s == store.item[i]
        IN  /\ s.review # NoReceipt => Made(i, s.review)
            /\ s.status = "accepted" => s.review # NoReceipt /\ Binds(s, s.review)
=============================================================================
