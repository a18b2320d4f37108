---------------------------- MODULE TimeoutRound ----------------------------
(***************************************************************************)
(* One round at one node, from the point of view of its timeout messages:  *)
(* they are received with quorum certificates of up to three epochs, kept  *)
(* for two consecutive epochs at most, and turned into a timeout           *)
(* certificate when their weight reaches the threshold.  Meanwhile the     *)
(* highest certified block and the last finalized block may advance, and   *)
(* with them the committees the node knows.                                *)
(***************************************************************************)
EXTENDS Certificates

CONSTANTS
    QCs,        \* the quorum certificates, [round, epoch], of rounds before this one
    GenesisQC

ASSUME QCsAssumption ==
    /\ DOMAIN Committee \subseteq Nat
    /\ QCs \subseteq [round : Nat, epoch : DOMAIN Committee]
    /\ GenesisQC \in QCs
    /\ \A p, q \in QCs :
        /\ p.round <= q.round => p.epoch <= q.epoch
        /\ p.round = q.round => p = q

VARIABLES
    lfEpoch,    \* epoch of the last finalized block
    highestQC,  \* the certificate of the highest certified block
    tms,        \* currentTimeoutMessages
    received,   \* every timeout message accepted in this round
    tc          \* the certificate that ended the round, with the QC it goes with

vars == <<lfEpoch, highestQC, tms, received, tc>>

Absent == [absent |-> TRUE]

(* A timeout message of the current round: finalizer index in the committee
   of the epoch of its QC, and the QC. *)
TimeoutMessage == UNION {{[ix |-> i, qc |-> q] : i \in DOMAIN Committee[q.epoch]} : q \in QCs}

(* A map from finalizer index to message, as a set: the index is in the
   message.  insertTimeout replaces a message of the same index. *)
insertTimeout(m, tm) == {t \in m : t.ix # tm.ix} \cup {tm}

(* getBakersForEpoch: the epochs next to that of the last finalized block
   (an epoch further ahead is known only before the next payday). *)
KnownEpoch(e) == e \in {lfEpoch - 1, lfEpoch, lfEpoch + 1} \cap DOMAIN Committee

Indices(m) == {t.ix : t \in m}

TypeOK ==
    /\ lfEpoch \in DOMAIN Committee
    /\ highestQC \in QCs
    /\ tms = Absent \/ tms \in [first : DOMAIN Committee,
                                firstTimeouts : SUBSET TimeoutMessage,
                                secondTimeouts : SUBSET TimeoutMessage]
    /\ received \subseteq TimeoutMessage
    /\ tc = Absent \/ tc \in [messages : [first : DOMAIN Committee,
                                          firstTimeouts : SUBSET TimeoutMessage,
                                          secondTimeouts : SUBSET TimeoutMessage],
                              qc : QCs]
-----------------------------------------------------------------------------
Stored(first, firstTimeouts, secondTimeouts) ==
    [first |-> first, firstTimeouts |-> firstTimeouts, secondTimeouts |-> secondTimeouts]

(* The messages after tm is added, or the old ones when tm is too old to be
   kept. *)
updateTimeoutMessages_resets(ms, tm) ==
    LET e == tm.qc.epoch
    IN  IF ms = Absent THEN Stored(e, {tm}, {}) ELSE
        CASE e = ms.first -> [ms EXCEPT !.firstTimeouts = insertTimeout(@, tm)]
          [] e = ms.first + 1 -> [ms EXCEPT !.secondTimeouts = insertTimeout(@, tm)]
          [] e + 1 = ms.first /\ ms.secondTimeouts = {} -> Stored(e, {tm}, ms.firstTimeouts)
          [] e >= ms.first + 2 -> Stored(e, {tm}, {})
          [] OTHER -> ms
updateTimeoutMessages(ms, tm) ==
    LET e == tm.qc.epoch
    IN  IF ms = Absent THEN Stored(e, {tm}, {}) ELSE
        CASE e = ms.first -> [ms EXCEPT !.firstTimeouts = insertTimeout(@, tm)]
          [] e = ms.first + 1 -> [ms EXCEPT !.secondTimeouts = insertTimeout(@, tm)]
          [] e + 1 = ms.first /\ ms.secondTimeouts = {} -> Stored(e, {tm}, ms.firstTimeouts)
          [] e = ms.first + 2 /\ ms.secondTimeouts # {} ->
                Stored(ms.first + 1, ms.secondTimeouts, {tm})
          [] e >= ms.first + (IF ms.secondTimeouts = {} THEN 2 ELSE 3) -> Stored(e, {tm}, {})
          [] OTHER -> ms

(* The baker ids behind the messages of epoch e, nothing when the committee
   of e is no longer known. *)
SignerIds(e, m) == IF KnownEpoch(e) THEN bakerIdsFor(Committee[e], Indices(m)) ELSE <<>>

(* The weight that processTimeout attributes to the messages, in the
   committee of the epoch of the highest certified block. *)
voterPowerSum_separate(ms, qcEpoch) ==
    weightInPass(Committee[qcEpoch], SignerIds(ms.first, ms.firstTimeouts))
        + weightInPass(Committee[qcEpoch], SignerIds(ms.first + 1, ms.secondTimeouts))
voterPowerSum(ms, qcEpoch) ==
    weightInPass(Committee[qcEpoch],
                 listUnion(SignerIds(ms.first, ms.firstTimeouts),
                           SignerIds(ms.first + 1, ms.secondTimeouts)))

(* checkTimeoutCertificate, with the signatures valid: every index is in its
   committee, and the signers have enough weight in the committee of the QC. *)
checkTimeoutCertificate(ms, qcEpoch) ==
    LET idsOf(e, m) == {Committee[e][i].id : i \in Indices(m)}
        bids == idsOf(ms.first, ms.firstTimeouts)
                    \cup (IF ms.secondTimeouts = {} THEN {}
                          ELSE idsOf(ms.first + 1, ms.secondTimeouts))
    IN  ReachesThreshold(weightInPass(Committee[qcEpoch], ascending(bids)), Committee[qcEpoch])
-----------------------------------------------------------------------------
Init ==
    /\ lfEpoch = GenesisQC.epoch
    /\ highestQC = GenesisQC
    /\ tms = Absent
    /\ received = {}
    /\ tc = Absent

(* The lookup of an earlier message of the same finalizer, in the map for
   the epoch of the QC: a second message there is a duplicate or is flagged
   as double signing, and is not processed in either case. *)
AlreadyStored(tm) ==
    tms # Absent /\ \E t \in tms.firstTimeouts \cup tms.secondTimeouts :
                        t.ix = tm.ix /\ t.qc.epoch = tm.qc.epoch

(* The highest certified block after q is known to be certified. *)
checkedUpdateHighestCertifiedBlock_unchecked(q) == q
checkedUpdateHighestCertifiedBlock(q) == IF q.round > highestQC.round THEN q ELSE highestQC

(* receiveTimeoutMessage, executeTimeoutMessage and processTimeout for a
   message of the current round whose QC is valid.  A QC higher than any
   known one becomes the highest certified block first. *)
ReceiveTimeoutMessage(tm) ==
    /\ tc = Absent
    /\ tm.qc.epoch >= lfEpoch
    /\ KnownEpoch(tm.qc.epoch)
    /\ ~AlreadyStored(tm)
    /\ highestQC' = checkedUpdateHighestCertifiedBlock(tm.qc)
    /\ received' = received \cup {tm}
    /\ LET new == updateTimeoutMessages(tms, tm)
           enough == /\ new # tms
                     /\ KnownEpoch(highestQC'.epoch)
                     /\ ReachesThreshold(voterPowerSum(new, highestQC'.epoch),
                                         Committee[highestQC'.epoch])
       IN  /\ tms' = new
           /\ tc' = IF enough THEN [messages |-> new, qc |-> highestQC'] ELSE tc
    /\ UNCHANGED lfEpoch

(* A certified block of an earlier round arrives with a block or by catch-up
   (checkedUpdateHighestCertifiedBlock). *)
LearnQC(q) ==
    /\ tc = Absent
    /\ KnownEpoch(q.epoch)
    /\ highestQC' = checkedUpdateHighestCertifiedBlock(q)
    /\ UNCHANGED <<lfEpoch, tms, received, tc>>

(* A block of epoch e on the chain of the highest certified block becomes
   the last finalized block (processFinalizationHelper). *)
AdvanceFinalized(e) ==
    /\ tc = Absent
    /\ e \in lfEpoch + 1 .. highestQC.epoch
    /\ lfEpoch' = e
    /\ UNCHANGED <<highestQC, tms, received, tc>>

Next ==
    \/ \E tm \in TimeoutMessage : ReceiveTimeoutMessage(tm)
    \/ \E q \in QCs : LearnQC(q)
    \/ \E e \in DOMAIN Committee : AdvanceFinalized(e)

Spec == Init /\ [][Next]_vars
-----------------------------------------------------------------------------
(* The documented invariants of TimeoutMessages, through every shift of the
   two-epoch window: the first epoch is never empty, every message is filed
   under the epoch of its own QC, and no finalizer index has two. *)
WindowWellFormed ==
    tms # Absent =>
        /\ tms.firstTimeouts # {}
        /\ \A t \in tms.firstTimeouts : t.qc.epoch = tms.first
        /\ \A t \in tms.secondTimeouts : t.qc.epoch = tms.first + 1
        /\ \A t, u \in tms.firstTimeouts : t.ix = u.ix => t = u
        /\ \A t, u \in tms.secondTimeouts : t.ix = u.ix => t = u

(* Moving the window (updateTimeoutMessages) loses no message of an epoch
   that the window covers: whatever the order of arrival, each accepted
   message for one of the two epochs is there to be counted. *)
WindowKeepsMessages ==
    tms # Absent =>
        \A t \in received : t.qc.epoch \in {tms.first, tms.first + 1} =>
            t \in tms.firstTimeouts \cup tms.secondTimeouts

(* The newest epoch that was received is always within the window, so that
   old messages cannot displace newer ones (updateTimeoutMessages). *)
WindowCoversNewest ==
    \A t \in received : tms # Absent /\ t.qc.epoch <= tms.first + 1

(* A certificate that the node makes is one that every node accepts
   (checkTimeoutCertificate) with respect to the certified block it is
   paired with in advanceRoundWithTimeout: the two ways of counting weight,
   in processTimeout and in the check, agree at least in this direction. *)
CertificateAccepted ==
    tc # Absent => checkTimeoutCertificate(tc.messages, tc.qc.epoch)

(* The round of the certified block that goes with the certificate is no
   lower than any QC round in it, and its epoch at most two above the
   certificate's first one: what RoundTimeout documents and
   prepareBakeBlockInputs relies on. *)
CertificateCovered ==
    tc # Absent =>
        /\ \A t \in tc.messages.firstTimeouts \cup tc.messages.secondTimeouts :
            /\ t.qc.round <= tc.qc.round
            /\ t.qc.epoch <= tc.qc.epoch
        /\ tc.qc.epoch <= tc.messages.first + 2
=============================================================================
