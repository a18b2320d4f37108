---------------------------- MODULE QuorumRound ----------------------------
(***************************************************************************)
(* One round at one node, from the point of view of its quorum messages:   *)
(* signatures of finalizers on the blocks of the round are verified,       *)
(* accumulated per block and turned into a quorum certificate.  A          *)
(* finalizer may sign several blocks of the round; a message may reach the *)
(* node more than once; the epoch may advance while the round goes on.     *)
(***************************************************************************)
EXTENDS Certificates

CONSTANTS
    Blocks,         \* the live blocks of the current round
    BlockEpoch,     \* block -> epoch
    FirstEpoch      \* the current epoch when the round starts

ASSUME BlocksAssumption ==
    /\ BlockEpoch \in [Blocks -> DOMAIN Committee]
    /\ FirstEpoch \in DOMAIN Committee

VARIABLES
    currentEpoch,
    messages,       \* smBakerIdToQuorumMessage: baker id -> the block last signed
    accumulated,    \* smBlockToWeightsAndSignatures: block -> what was accumulated
    delivered,      \* every message the node was given
    qc              \* the certificate that ended the round

vars == <<currentEpoch, messages, accumulated, delivered, qc>>

Absent == [absent |-> TRUE]

(* A quorum message of the current round: finalizer index in the committee
   of the epoch of the block, and the block. *)
QuorumMessage == UNION {{[ix |-> i, block |-> b] : i \in DOMAIN Committee[BlockEpoch[b]]} : b \in Blocks}

Finalizer(qm) == Committee[BlockEpoch[qm.block]][qm.ix]

BakerIds == UNION {Ids(Committee[e]) : e \in DOMAIN Committee}

(* Weight, aggregate signature (how often each index is in it) and the set
   of signatories of a block. *)
Nothing == [weight |-> 0, signature |-> <<>>, signatories |-> {}]

TypeOK ==
    /\ currentEpoch \in DOMAIN Committee
    /\ DOMAIN messages \subseteq BakerIds
    /\ \A f \in DOMAIN messages : messages[f] \in Blocks
    /\ \A b \in Blocks :
        /\ accumulated[b].weight \in Nat
        /\ accumulated[b].signatories \subseteq DOMAIN Committee[BlockEpoch[b]]
        /\ DOMAIN accumulated[b].signature = accumulated[b].signatories
    /\ delivered \subseteq QuorumMessage
    /\ qc # Absent => qc.block \in Blocks
-----------------------------------------------------------------------------
(* aggSig <> qmSignature *)
addSignature(sig, i) ==
    [j \in DOMAIN sig \cup {i} |-> (IF j \in DOMAIN sig THEN sig[j] ELSE 0) + (IF j = i THEN 1 ELSE 0)]

(* What is accumulated for the message's block, after the message. *)
addQuorumMessage_allBlocks(qm) ==
    [b \in Blocks |->
        [weight |-> accumulated[b].weight + Finalizer(qm).weight,
         signature |-> IF b = qm.block THEN addSignature(accumulated[b].signature, qm.ix)
                       ELSE accumulated[b].signature,
         signatories |-> IF b = qm.block THEN accumulated[b].signatories \cup {qm.ix}
                         ELSE accumulated[b].signatories]]
addQuorumMessage(qm) ==
    [accumulated EXCEPT ![qm.block] =
        [weight |-> @.weight + Finalizer(qm).weight,
         signature |-> addSignature(@.signature, qm.ix),
         signatories |-> @.signatories \cup {qm.ix}]]

(* A certificate for b if the accumulated weight reaches the threshold in
   the committee of the current epoch. *)
makeQuorumCertificate_strict(b, acc) ==
    IF acc[b].weight * ThresholdDen > ThresholdNum * committeeTotalWeight(Committee[currentEpoch])
    THEN [block |-> b, signature |-> acc[b].signature, signatories |-> acc[b].signatories]
    ELSE Absent
makeQuorumCertificate(b, acc) ==
    IF ReachesThreshold(acc[b].weight, Committee[currentEpoch])
    THEN [block |-> b, signature |-> acc[b].signature, signatories |-> acc[b].signatories]
    ELSE Absent

(* checkQuorumCertificate: the signatories have the weight in the committee
   of the certificate's epoch, and the aggregate holds exactly one signature
   of each of them. *)
checkQuorumCertificate(cert) ==
    LET c == Committee[BlockEpoch[cert.block]]
    IN  /\ ReachesThreshold(SignedWeight(c, {c[i].id : i \in cert.signatories}), c)
        /\ cert.signature = [i \in cert.signatories |-> 1]
-----------------------------------------------------------------------------
Init ==
    /\ currentEpoch = FirstEpoch
    /\ messages = <<>>
    /\ accumulated = [b \in Blocks |-> Nothing]
    /\ delivered = {}
    /\ qc = Absent

(* receiveQuorumMessage and processQuorumMessage for a message of the
   current round on a live block: one equal to the finalizer's last message
   is a duplicate; any other is processed, also when it is flagged as double
   signing (ReceivedNoRelay). *)
ReceiveQuorumMessage(qm) ==
    /\ qc = Absent
    /\ BlockEpoch[qm.block] <= currentEpoch
    /\ LET id == Finalizer(qm).id
       IN  /\ ~(id \in DOMAIN messages /\ messages[id] = qm.block)
           /\ messages' = [f \in DOMAIN messages \cup {id} |->
                            IF f = id THEN qm.block ELSE messages[f]]
    /\ delivered' = delivered \cup {qm}
    /\ accumulated' = addQuorumMessage(qm)
    /\ qc' = makeQuorumCertificate(qm.block, accumulated')
    /\ UNCHANGED currentEpoch

(* A block past the trigger time is finalized in the middle of the round
   (checkedAdvanceEpoch), through a certificate for an earlier round. *)
AdvanceEpoch ==
    /\ qc = Absent
    /\ currentEpoch = FirstEpoch
    /\ currentEpoch + 1 \in DOMAIN Committee
    /\ currentEpoch' = currentEpoch + 1
    /\ UNCHANGED <<messages, accumulated, delivered, qc>>

Next ==
    \/ \E qm \in QuorumMessage : ReceiveQuorumMessage(qm)
    \/ AdvanceEpoch

Spec == Init /\ [][Next]_vars
-----------------------------------------------------------------------------
(* A certificate that the node makes (makeQuorumCertificate) is one that
   every node accepts (checkQuorumCertificate), although finalizers sign
   several blocks of the round and the epoch advances in the meantime, unless
   some signature is in its aggregate twice: nothing else can be wrong with
   the weights and signatories that were kept. *)
CertificateAcceptedIfOnce ==
    qc # Absent /\ (\A i \in DOMAIN qc.signature : qc.signature[i] = 1) => checkQuorumCertificate(qc)

(* The same whatever is delivered again (the precondition of addQuorumMessage,
   that the finalizer is not present already, would give it). *)
CertificateAccepted == qc # Absent => checkQuorumCertificate(qc)

(* No certificate is missed: while the round goes on, the messages the node
   was given for a block do not reach the threshold of its committee. *)
CertificateNotMissed ==
    qc = Absent =>
        \A b \in Blocks :
            LET c == Committee[BlockEpoch[b]]
            IN  ~ReachesThreshold(
                    SignedWeight(c, {c[qm.ix].id : qm \in {m \in delivered : m.block = b}}), c)
=============================================================================
