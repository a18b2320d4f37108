---------------------------- MODULE BFTVoting ----------------------------
(***************************************************************************)
(* What the finalizers of ConcordiumBFT promise each other, at the level   *)
(* of the messages they sign: quorum messages (votes for a block) and      *)
(* timeout messages (a round is given up, naming the round of the highest  *)
(* quorum certificate known).  A block is finalized once it and a child in *)
(* the next round of the same epoch are both certified.                    *)
(*                                                                         *)
(* A block hash determines the block, so the blocks that can ever exist    *)
(* are a constant set and their round, epoch and parent are constant       *)
(* functions of it.  Finalizers outside Honest may sign anything at any    *)
(* time, which is expressed by counting their signatures as present in     *)
(* every certificate.                                                      *)
(***************************************************************************)
EXTENDS Integers

CONSTANTS
    Finalizers,     \* the baker identities that sit in finalization committees
    Honest,         \* the finalizers that run the code and keep their storage
    Epochs,
    Rounds,         \* the rounds that can be given up (all, or a bound for TLC)
    Quorums,        \* epoch -> sets of finalizers whose weight reaches the threshold
    Blocks,
    Genesis,
    Round,          \* block -> round
    Epoch,          \* block -> epoch
    Parent,         \* block -> parent block (the block of its QC)
    Ancestors       \* block -> the blocks on its chain, itself included

ASSUME CommitteeAssumption ==
    /\ Honest \subseteq Finalizers
    /\ Rounds \subseteq Nat
    /\ Quorums \in [Epochs -> SUBSET SUBSET Finalizers]

(* Weight thresholds and the bound on dishonest weight make two quorums of
   one epoch share an honest finalizer.  Across epochs with different
   committees nothing in the code enforces it: it is what agreement asks of
   the way committees change. *)
ASSUME QuorumIntersection ==
    \A e1, e2 \in Epochs : \A Q1 \in Quorums[e1], Q2 \in Quorums[e2] :
        Q1 \cap Q2 \cap Honest # {}

ASSUME BlockAssumption ==
    /\ Genesis \in Blocks
    /\ Round \in [Blocks -> Nat]
    /\ Epoch \in [Blocks -> Epochs]
    /\ Parent \in [Blocks -> Blocks]
    /\ Round[Genesis] = 0
    /\ \A b \in Blocks \ {Genesis} : Round[Parent[b]] < Round[b]

ASSUME AncestorsAssumption ==
    /\ Ancestors \in [Blocks -> SUBSET Blocks]
    /\ Ancestors[Genesis] = {Genesis}
    /\ \A b \in Blocks \ {Genesis} : Ancestors[b] = {b} \cup Ancestors[Parent[b]]

VARIABLES
    votes,          \* the <<finalizer, block>> pairs with a quorum message signed
    timeouts,       \* the timeout messages signed
    highestQC,      \* finalizer -> round of the highest QC it has relied on in a signature
    lastSigned      \* finalizer -> prsLastSignedRound, kept on disk

vars == <<votes, timeouts, highestQC, lastSigned>>

TimeoutMessages == [fin : Honest, round : Nat, qcRound : Nat]

TypeOK ==
    /\ votes \subseteq Honest \X Blocks
    /\ timeouts \subseteq TimeoutMessages
    /\ highestQC \in [Honest -> Nat]
    /\ lastSigned \in [Honest -> Nat]
-----------------------------------------------------------------------------
(* The finalizers whose signature on block b can be had. *)
Signatories(b) == {f \in Finalizers : f \in Honest => <<f, b>> \in votes}

(* A valid quorum certificate for b exists (checkQuorumCertificate).  The
   genesis block has one by definition. *)
Certified(b) ==
    \/ b = Genesis
    \/ \E Q \in Quorums[Epoch[b]] : Q \subseteq Signatories(b)

(* The finalizers whose timeout signature for round r can be had, naming a
   QC of a round no later than that of p. *)
TimeoutSignatories(r, p) ==
    {f \in Finalizers : f \in Honest =>
        \E t \in timeouts : t.fin = f /\ t.round = r /\ t.qcRound <= Round[p]}

(* A timeout certificate for round r exists that justifies a block with
   parent p: tcMaxRound is at most the round of p, and the signers have
   enough weight in the committee of the epoch of p. *)
TimedOut_anyQC(r, p) ==
    \E Q \in Quorums[Epoch[p]] : \A f \in Q \cap Honest :
        \E t \in timeouts : t.fin = f /\ t.round = r
TimedOut(r, p) == \E Q \in Quorums[Epoch[p]] : Q \subseteq TimeoutSignatories(r, p)

(* The checks of processBlock that matter to agreement: the parent is
   certified by the block's QC, and a gap in rounds is justified by a TC. *)
Justified(b) ==
    /\ b # Genesis
    /\ Certified(Parent[b])
    /\ \/ Round[b] = Round[Parent[b]] + 1
       \/ TimedOut(Round[b] - 1, Parent[b])

(* checkFinality: b is certified, and so is a child in the next round and
   the same epoch. *)
Finalized(b) ==
    /\ Certified(b)
    /\ \E c \in Blocks \ {Genesis} :
        /\ Parent[c] = b
        /\ Round[c] = Round[b] + 1
        /\ Epoch[c] = Epoch[b]
        /\ Certified(c)
-----------------------------------------------------------------------------
Init ==
    /\ votes = {}
    /\ timeouts = {}
    /\ highestQC = [f \in Honest |-> 0]
    /\ lastSigned = [f \in Honest |-> 0]

Max2(i, j) == IF i < j THEN j ELSE i

(* validateBlock: a block that passed processBlock (so that the QC in it is
   known to the node) is signed, if nothing was signed in its round or a
   later one.  The record of what was signed is on disk before the message
   is sent, so a crash and restart changes nothing here. *)
Vote_unchecked(f, b) ==
    /\ Justified(b)
    /\ votes' = votes \cup {<<f, b>>}
    /\ highestQC' = [highestQC EXCEPT ![f] = Max2(@, Round[Parent[b]])]
    /\ lastSigned' = [lastSigned EXCEPT ![f] = Max2(@, Round[b])]
    /\ UNCHANGED timeouts
Vote(f, b) ==
    /\ lastSigned[f] + 1 <= Round[b]
    /\ votes' = votes \cup {<<f, b>>}
    /\ Justified(b)
    /\ highestQC' = [highestQC EXCEPT ![f] = Max2(@, Round[Parent[b]])]
    /\ lastSigned' = [lastSigned EXCEPT ![f] = Round[b]]
    /\ UNCHANGED timeouts

(* uponTimeoutEvent: a timeout message for round r names the highest QC
   known, for a block q that is no earlier than what was relied on before;
   the round counts as signed from then on. *)
Timeout_staleQC(f, r, q) ==
    /\ lastSigned[f] <= r
    /\ Round[q] < r
    /\ Certified(q)
    /\ timeouts' = timeouts \cup {[fin |-> f, round |-> r, qcRound |-> Round[q]]}
    /\ lastSigned' = [lastSigned EXCEPT ![f] = r]
    /\ UNCHANGED <<votes, highestQC>>
Timeout(f, r, q) ==
    /\ lastSigned[f] <= r
    /\ highestQC[f] <= Round[q]
    /\ Round[q] < r
    /\ timeouts' = timeouts \cup {[fin |-> f, round |-> r, qcRound |-> Round[q]]}
    /\ Certified(q)
    /\ highestQC' = [highestQC EXCEPT ![f] = Round[q]]
    /\ lastSigned' = [lastSigned EXCEPT ![f] = r]
    /\ UNCHANGED votes

Next ==
    \E f \in Honest :
        \/ \E b \in Blocks : Vote(f, b)
        \/ \E r \in Rounds, q \in Blocks : Timeout(f, r, q)

Spec == Init /\ [][Next]_vars
-----------------------------------------------------------------------------
(* Agreement: once a block is finalized, every certified block of its round
   or a later one is a descendant of it; no honest finalizer's restart, no
   choice of timeouts and nothing a dishonest finalizer signs can certify a
   block on another branch (processCertifiedBlock, Finality.hs). *)
CertifiedExtendsFinalized ==
    \A b \in Blocks : Finalized(b) =>
        \A c \in Blocks : Round[b] <= Round[c] /\ Certified(c) => b \in Ancestors[c]

(* At most one block is certified in a round: the quorum messages that
   validateBlock signs never complete two quorum certificates in one round. *)
OneCertificatePerRound ==
    \A b, c \in Blocks :
        Round[b] = Round[c] /\ Certified(b) /\ Certified(c) => b = c

(* A timeout message never hides a certificate the signer has relied on:
   whatever f signed before giving up round r had a parent certified no
   later than the QC round named in the timeout message, also when f
   restarted in between (uponTimeoutEvent after validateBlock). *)
TimeoutCoversVotes ==
    \A t \in timeouts : \A b \in Blocks :
        <<t.fin, b>> \in votes /\ Round[b] <= t.round => Round[Parent[b]] <= t.qcRound
=============================================================================
