--------------------------- MODULE SkovHandlers ---------------------------
(***************************************************************************)
(* What a node does with blocks, quorum messages and timeout messages:     *)
(* Consensus/Blocks.hs, Consensus/Quorum.hs and Consensus/Timeout.hs, as   *)
(* operators on SkovData.  An operation that the code delays to a time is  *)
(* put into tasks.  Other finalizers sign only certs with quorum messages. *)
(***************************************************************************)
EXTENDS SkovFinality

validQC(b) == b \in certs

(* The weight of fins in the committee of epoch e reaches the threshold. *)
Enough(fins, e) == 3 * Cardinality(fins \cap Committee[e]) >= 2 * Cardinality(Committee[e])

(* No finalizer that has signed a block with a parent in round n gives up
   its round, or a later one, naming a QC of a round before n: a timeout
   certificate for round r exists only from the bound on. *)
TimeoutBound(r) ==
    Max({0} \cup {Round[Parent[c]] : c \in {d \in certs \ {Genesis} : Round[d] <= r}})

(* checkTimeoutCertificate, with the committees of the epochs around the last
   finalized block and of epoch e for the weight. *)
validTC(sd, tc, e) ==
    /\ Epoch[sd.lastFin] - 1 <= tc.minEpoch /\ tc.minEpoch <= Epoch[sd.lastFin] + 1
    /\ tc.minEpoch = Epoch[sd.lastFin] + 1 => tc.maxEpoch = tc.minEpoch
    /\ Enough(tc.fins, e)
    /\ Self \in tc.fins \/ tc.maxRound >= TimeoutBound(tc.round)
-----------------------------------------------------------------------------
(* The certified block to build on.  With a timed out round it is the
   highest one, unless that is in a later epoch than the one the timeout was
   established with. *)
bakeParent(sd) ==
    IF sd.prevTimeout # None /\ Epoch[sd.highestCB] > Epoch[sd.prevTimeout.cb]
    THEN sd.prevTimeout.cb
    ELSE sd.highestCB

(* The entry that goes into a block on top of parent. *)
bakeEntry(sd, parent) == IF sd.epoch > Epoch[parent] THEN sd.epochEntry ELSE None

(* The block that this node makes in its round, if it is the leader. *)
ownBlocks(sd) ==
    {b \in Blocks :
        /\ Baker[b] = Self /\ Round[b] = sd.round /\ Epoch[b] = sd.epoch
        /\ Parent[b] = bakeParent(sd)
        /\ BlockEntry[b] = bakeEntry(sd, Parent[b])
        /\ (BlockTC[b] = None) = (sd.prevTimeout = None)}

(* bakeBlock: the round is recorded on disk before the block is added. *)
bakeBlock(sd, b) ==
    LET s1 == require(sd, bakersKnown(sd, Epoch[Parent[b]]), "bakeBlock: QC bakers")
        s2 == require(s1, Parent[b] \in getLiveOrLastFinalized(sd), "bakeBlock: parent")
        s3 == updateFocusBlockTo(s2, Parent[b])
        s4 == setPersistentRoundStatus(s3, [s3.prs EXCEPT !.baked = Round[b]])
    IN  [addBlock(s4, b) EXCEPT !.focus = b, !.tasks = @ \cup {[do |-> "send", block |-> b]}]

(* makeBlock, with prepareBakeBlockInputs: the first attempt in a round is
   the only one. *)
makeBlock_notPersisted(sd) ==
    IF isConsensusShutdown(sd) \/ ~sd.eligible \/ ownBlocks(sd) = {}
    THEN [sd EXCEPT !.eligible = isConsensusShutdown(sd) /\ @]
    ELSE bakeBlock([sd EXCEPT !.eligible = FALSE], CHOOSE b \in ownBlocks(sd) : TRUE)
makeBlock(sd) ==
    LET parent == bakeParent(sd)
        entry == bakeEntry(sd, parent)
        tried == [sd EXCEPT !.eligible = FALSE]
        checked == require(tried, sd.epoch > Epoch[parent] => entry # None, "makeBlock: entry")
    IN  CASE isConsensusShutdown(sd) -> sd
          [] ~isConsensusShutdown(sd) /\ ~(sd.eligible /\ sd.round > sd.prs.baked) -> tried
          [] OTHER ->
                IF (entry # None => Round[entry] <= Round[parent]) /\ ownBlocks(sd) # {}
                THEN bakeBlock(checked, CHOOSE b \in ownBlocks(sd) : TRUE)
                ELSE checked
-----------------------------------------------------------------------------
(* processQuorumMessage; the weight is compared with the total of the
   committee of the current epoch.  "bake" is the continuation: makeBlock,
   or nothing during catch-up. *)
processQuorumMessage(sd, qm, bake) ==
    LET s1 == [sd EXCEPT !.qms = @ \cup {qm}]
        signers == {m.fin : m \in {m \in s1.qms : m.block = qm.block}}
        s2 == recordCheckedQuorumCertificate(
                advanceRoundWithQuorum(processCertifiedBlock(s1, qm.block), qm.block), {qm.block})
    IN  IF sd.round # Round[qm.block] THEN sd
        ELSE IF 3 * Cardinality(signers) >= 2 * Cardinality(Committee[s1.epoch])
        THEN IF bake THEN makeBlock(s2) ELSE s2
        ELSE s1

(* receiveQuorumMessage: the message is for a live block of the current round
   or a later one, and new.  A late or repeated one is no fault of the sender. *)
signedByFinalizer(sd, b, fin) == bakersKnown(sd, Epoch[b]) /\ fin \in Committee[Epoch[b]]
lateQuorumMessage(sd, qm) ==
    \/ isConsensusShutdown(sd)
    \/ /\ Epoch[qm.block] <= sd.epoch
       /\ \/ Round[qm.block] < sd.round
          \/ signedByFinalizer(sd, qm.block, qm.fin) /\ qm \in sd.qms
acceptsQuorumMessage(sd, qm) ==
    /\ ~lateQuorumMessage(sd, qm)
    /\ Epoch[qm.block] <= sd.epoch
    /\ signedByFinalizer(sd, qm.block, qm.fin)
    /\ qm.block \in memoryAlive(sd)

(* receiveFinalizationMessage for a quorum message. *)
receiveQuorumMessage(sd, qm) ==
    IF acceptsQuorumMessage(sd, qm) THEN processQuorumMessage(sd, qm, TRUE) ELSE sd
-----------------------------------------------------------------------------
(* updateTimeoutMessages keeps the messages of the newest two epochs (of the
   QCs named); a finalizer's later message of an epoch replaces the earlier. *)
updateTimeoutMessages(tms, tm) ==
    LET all == {t \in tms : t.fin # tm.fin \/ Epoch[t.qc] # Epoch[tm.qc]} \cup {tm}
        newest == Max({Epoch[t.qc] : t \in all})
    IN  {t \in all : Epoch[t.qc] >= newest - 1}

makeTimeoutCertificate(round, tms) ==
    [round |-> round, fins |-> {t.fin : t \in tms},
     minEpoch |-> Min({Epoch[t.qc] : t \in tms}),
     maxEpoch |-> Max({Epoch[t.qc] : t \in tms}),
     maxRound |-> Max({Round[t.qc] : t \in tms})]

(* processTimeout *)
processTimeout(sd, tm) ==
    LET s1 == [sd EXCEPT !.tms = updateTimeoutMessages(@, tm)]
        fins == {t.fin : t \in {t \in s1.tms : bakersKnown(sd, Epoch[t.qc]) /\ t.fin \in Committee[Epoch[t.qc]]}}
        e == Epoch[sd.highestCB]
    IN  IF tm \in s1.tms /\ bakersKnown(sd, e) /\ Enough(fins, e)
        THEN makeBlock(advanceRoundWithTimeout(s1,
                [tc |-> makeTimeoutCertificate(sd.round, s1.tms), cb |-> sd.highestCB]))
        ELSE s1

(* The early returns of receiveTimeoutMessage before the check for double
   signing; the first two are no fault of the sender. *)
lateTimeoutMessage(sd, tm) == isConsensusShutdown(sd) \/ tm.round < sd.round
verifiesTimeoutMessage(sd, tm) ==
    /\ Round[tm.qc] >= Round[sd.lastFin] /\ Epoch[tm.qc] >= Epoch[sd.lastFin]
    /\ Epoch[tm.qc] <= sd.epoch
    /\ bakersKnown(sd, Epoch[tm.qc]) /\ tm.fin \in Committee[Epoch[tm.qc]]
    /\ tm.round > sd.round => Round[tm.qc] >= tm.round - 1
firstTimeoutMessage(sd, tm) == \A t \in sd.tms : t.fin = tm.fin => Epoch[t.qc] # Epoch[tm.qc]

(* A QC of the round was checked before and the highest is no lower. *)
knownQC(sd, b) == Round[b] <= Round[sd.highestCB] /\ \E c \in sd.qcs : Round[c] = Round[b]

(* The message itself or its QC can be acted on: after the checks, the QC was
   checked before (and then has the same epoch) or is for a block we have. *)
acceptsTimeoutMessage(sd, tm) ==
    /\ ~lateTimeoutMessage(sd, tm)
    /\ verifiesTimeoutMessage(sd, tm)
    /\ firstTimeoutMessage(sd, tm)
    /\ IF knownQC(sd, tm.qc)
       THEN \E c \in sd.qcs : Round[c] = Round[tm.qc] /\ Epoch[c] = Epoch[tm.qc]
       ELSE tm.qc \in recentAliveOrFinalized(sd) /\ validQC(tm.qc)

(* executeTimeoutMessage: a QC that was not checked before is processed like
   any other, and may advance the round, before the message itself. *)
checkedQC(sd, b) ==
    IF sd.round <= Round[b] THEN advanceRoundWithQuorum(sd, b) ELSE checkedUpdateHighestCertifiedBlock(sd, b)
executeTimeoutMessage(sd, tm) ==
    processTimeout(
        IF knownQC(sd, tm.qc) THEN sd
        ELSE checkedQC(processCertifiedBlock(recordCheckedQuorumCertificate(sd, {tm.qc}), tm.qc), tm.qc),
        tm)

(* receiveFinalizationMessage for a timeout message. *)
receiveTimeoutMessage(sd, tm) ==
    IF acceptsTimeoutMessage(sd, tm) THEN executeTimeoutMessage(sd, tm) ELSE sd

(* uponTimeoutEvent: equality is allowed, so that a node that signed a block
   may still give up its round. *)
uponTimeoutEvent_sendFirst(sd) ==
    LET tm == [fin |-> Self, round |-> sd.round, qc |-> sd.highestCB]
        s1 == send(sd, [type |-> "tm", msg |-> tm])
    IN  IF isConsensusShutdown(sd) \/ ~bakersKnown(sd, Epoch[sd.highestCB])
           \/ Self \notin Committee[Epoch[sd.highestCB]] \/ sd.round < prsLastSignedRound(sd.prs)
        THEN sd
        ELSE processTimeout(setPersistentRoundStatus(s1, [s1.prs EXCEPT !.tm = tm]), tm)
uponTimeoutEvent_afterShutdown(sd) ==
    LET tm == [fin |-> Self, round |-> sd.round, qc |-> sd.highestCB]
        s1 == setPersistentRoundStatus(sd, [sd.prs EXCEPT !.tm = tm])
    IN  IF /\ bakersKnown(sd, Epoch[sd.highestCB]) /\ Self \in Committee[Epoch[sd.highestCB]]
           /\ sd.round >= prsLastSignedRound(sd.prs)
        THEN processTimeout(send(s1, [type |-> "tm", msg |-> tm]), tm)
        ELSE sd
uponTimeoutEvent(sd) ==
    LET tm == [fin |-> Self, round |-> sd.round, qc |-> sd.highestCB]
        s1 == setPersistentRoundStatus(sd, [sd.prs EXCEPT !.tm = tm])
    IN  IF /\ ~isConsensusShutdown(sd)
           /\ bakersKnown(sd, Epoch[sd.highestCB]) /\ Self \in Committee[Epoch[sd.highestCB]]
           /\ sd.round >= prsLastSignedRound(sd.prs)
        THEN processTimeout(send(s1, [type |-> "tm", msg |-> tm]), tm)
        ELSE sd
-----------------------------------------------------------------------------
(* validateBlock *)
validateBlock_timedOut(sd, b) ==
    LET s1 == setPersistentRoundStatus(sd, [sd.prs EXCEPT !.qm = b])
    IN  IF /\ b \in sd.live /\ Round[b] = sd.round /\ Epoch[b] = sd.epoch
           /\ sd.prs.qm # None => Round[sd.prs.qm] < Round[b]
        THEN processQuorumMessage(send(s1, [type |-> "qm", block |-> b]), [fin |-> Self, block |-> b], TRUE)
        ELSE sd
validateBlock(sd, b) ==
    LET s1 == setPersistentRoundStatus(sd, [sd.prs EXCEPT !.qm = b])
    IN  IF /\ b \in sd.live
           /\ Round[b] = sd.round
           /\ prsLastSignedRound(sd.prs) + 1 <= Round[b]
           /\ Epoch[b] = sd.epoch
        THEN processQuorumMessage(send(s1, [type |-> "qm", block |-> b]), [fin |-> Self, block |-> b], TRUE)
        ELSE sd

(* checkedValidateBlock waits for the time of the block. *)
checkedValidateBlock(sd, b) ==
    IF bakersKnown(sd, Epoch[b]) /\ Self \in Committee[Epoch[b]]
    THEN [sd EXCEPT !.tasks = @ \cup {[do |-> "validate", block |-> b]}]
    ELSE sd

(* The continuation that makeBlock schedules for the time of the block. *)
distributeBlock(sd, b) == checkedValidateBlock(send(sd, [type |-> "block", block |-> b]), b)
=============================================================================
