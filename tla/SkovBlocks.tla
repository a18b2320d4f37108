---------------------------- MODULE SkovBlocks ----------------------------
(***************************************************************************)
(* Receiving and executing a block (uponReceivingBlock and executeBlock of *)
(* Consensus/Blocks.hs), and the data that ends a catch-up response        *)
(* (processCatchUpTerminalData of Consensus/CatchUp.hs).                   *)
(***************************************************************************)
EXTENDS SkovHandlers

(* The epoch of a block is that of its parent, or the next one if the
   transition was triggered. *)
epochFollows(b) ==
    \/ Epoch[b] = Epoch[Parent[b]]
    \/ Epoch[b] = Epoch[Parent[b]] + 1 /\ Parent[b] \in Trigger

(* uponReceivingBlock with receiveBlockKnownParent: the block waits for its
   execution, which follows under another acquisition of the lock.  A second
   block of the baker in the round is executed too; only a block whose own
   witness is there is not. *)
acceptsBlock(sd, b) ==
    /\ ~isConsensusShutdown(sd)
    /\ Epoch[b] >= Epoch[sd.lastFin] /\ Round[b] > Round[sd.lastFin]
    /\ b \notin memoryStatus(sd)
    /\ Parent[b] \in recentAliveOrFinalized(sd)
    /\ bakersKnown(sd, Epoch[b]) \/ Epoch[b] = Epoch[Parent[b]] + 1
    /\ epochFollows(b)
    /\ b \notin roundBakerExistingBlock(sd, b)
uponReceivingBlock(sd, b) ==
    IF acceptsBlock(sd, b)
    THEN [sd EXCEPT !.exec = b,
                    !.existing = IF roundBakerExistingBlock(sd, b) = {} THEN @ \cup {b} ELSE @]
    ELSE sd
-----------------------------------------------------------------------------
(* checkTC: a timeout certificate is there exactly if a round is skipped. *)
checkTC(sd, b) ==
    LET p == Parent[b]
        tc == BlockTC[b]
    IN  IF Round[b] > Round[p] + 1
        THEN /\ tc # None
             /\ tc.round = Round[b] - 1
             /\ Round[p] >= tc.maxRound /\ Epoch[p] >= tc.maxEpoch
             /\ validTC(sd, tc, Epoch[p])
        ELSE tc = None

(* checkEpochFinalizationEntry: the part that needs only the certificates,
   and the part that needs the block they finalize. *)
entryCertified(b) ==
    LET entry == BlockEntry[b]
    IN  IF Epoch[b] = Epoch[Parent[b]] + 1
        THEN /\ entry # None
             /\ Epoch[Parent[entry]] = Epoch[Parent[b]]
             /\ Round[entry] <= Round[Parent[b]]
             /\ IsEntry(entry) /\ validQC(entry) /\ validQC(Parent[entry])
        ELSE entry = None
entryOnChain(sd, b) ==
    BlockEntry[b] # None =>
        LET fin == Parent[BlockEntry[b]]
        IN  fin \in Trigger /\ (fin \in recentAliveOrFinalized(sd) \/ memberBlock(sd, fin))

(* What processBlock does with a block that passes every check: the certified
   parent and the epoch finalization entry may finalize blocks, and the
   certificates may advance the round. *)
blockEntry(sd, entry) ==
    IF entry # None /\ Parent[entry] \in sd.live THEN processFinalizationEntry(sd, entry) ELSE sd
blockRound(sd, b) ==
    CASE sd.round >= Round[b] -> checkedUpdateHighestCertifiedBlock(sd, Parent[b])
      [] sd.round < Round[b] /\ BlockTC[b] # None ->
            advanceRoundWithTimeout(sd, [tc |-> BlockTC[b], cb |-> Parent[b]])
      [] sd.round < Round[b] /\ BlockTC[b] = None -> advanceRoundWithQuorum(sd, Parent[b])
acceptBlock(sd, b) ==
    checkedValidateBlock(
        blockRound(blockEntry(processCertifiedBlock(addBlock(sd, b), Parent[b]), BlockEntry[b]), b), b)

(* processBlock, followed by checkedValidateBlock if the block is accepted.
   The certificates that pass are recorded even if a later check fails. *)
processBlock(sd, b) ==
    LET p == Parent[b]
        s1 == recordCheckedQuorumCertificate(sd, {p})
        s2 == IF BlockEntry[b] = None THEN s1
              ELSE recordCheckedQuorumCertificate(s1, {BlockEntry[b], Parent[BlockEntry[b]]})
    IN  CASE ~(/\ Round[p] < Round[b]
               /\ Epoch[p] = Epoch[b] \/ bakersKnown(sd, Epoch[p])
               /\ validQC(p)) -> sd
          [] OTHER ->
                IF ~(checkTC(sd, b) /\ entryCertified(b)) THEN s1
                ELSE IF ~entryOnChain(sd, b) \/ b \in Invalid THEN s2
                ELSE acceptBlock(s2, b)

(* executeBlock *)
executeBlock_stale(sd) ==
    IF isConsensusShutdown(sd) THEN [sd EXCEPT !.exec = None]
    ELSE processBlock([sd EXCEPT !.exec = None], sd.exec)
executeBlock(sd) ==
    LET s1 == [sd EXCEPT !.exec = None]
    IN  IF ~isConsensusShutdown(sd) /\ Parent[sd.exec] \in getLiveOrLastFinalized(sd)
        THEN processBlock(s1, sd.exec)
        ELSE s1
-----------------------------------------------------------------------------
(* processQC of processCatchUpTerminalData *)
catchUpQC_newRoundOnly(sd, qc) ==
    IF qc # None /\ qc \in sd.live /\ sd.round <= Round[qc] /\ bakersKnown(sd, Epoch[qc])
    THEN advanceRoundWithQuorum(processCertifiedBlock(recordCheckedQuorumCertificate(sd, {qc}), qc), qc)
    ELSE sd
catchUpRound(sd, qc) ==
    IF sd.round <= Round[qc] THEN advanceRoundWithQuorum(sd, qc) ELSE [sd EXCEPT !.highestCB = qc]
catchUpQC(sd, qc) ==
    IF qc # None /\ qc \in sd.live /\ Round[sd.highestCB] < Round[qc] /\ bakersKnown(sd, Epoch[qc])
    THEN catchUpRound(processCertifiedBlock(recordCheckedQuorumCertificate(sd, {qc}), qc), qc)
    ELSE sd

(* processFE with catchupFinalizationEntry *)
catchUpFE(sd, entry) ==
    IF entry # None /\ Parent[entry] \in sd.live /\ bakersKnown(sd, Epoch[entry])
    THEN processFinalizationEntry(
            recordCheckedQuorumCertificate(recordCheckedQuorumCertificate(sd, {Parent[entry]}), {entry}), entry)
    ELSE sd

(* processTC with certifiedBlockAndBakersForTC; ok is FALSE where the code
   gives up on the rest of the data. *)
catchUpTimeout(sd, tc, cb) ==
    IF Round[cb] >= tc.maxRound /\ Epoch[cb] >= tc.maxEpoch /\ validTC(sd, tc, Epoch[cb])
    THEN [ok |-> TRUE, sd |-> advanceRoundWithTimeout(sd, [tc |-> tc, cb |-> cb])]
    ELSE [ok |-> FALSE, sd |-> sd]
catchUpTC(sd, qc, tc) ==
    LET cb == sd.highestCB
        other == qc # None /\ Epoch[qc] # Epoch[cb]
    IN  IF tc = None \/ sd.round > tc.round THEN [ok |-> TRUE, sd |-> sd]
        ELSE IF ~other
        THEN catchUpTimeout(require(sd, bakersKnown(sd, Epoch[cb]), "certifiedBlockAndBakersForTC"), tc, cb)
        ELSE IF qc \in getLiveOrLastFinalized(sd) /\ bakersKnown(sd, Epoch[qc])
        THEN catchUpTimeout(processCertifiedBlock(recordCheckedQuorumCertificate(sd, {qc}), qc), tc, qc)
        ELSE [ok |-> FALSE, sd |-> sd]

(* processQM and processTM *)
catchUpQM(r, qm) ==
    IF ~r.ok \/ qm = None \/ lateQuorumMessage(r.sd, qm) THEN r
    ELSE IF acceptsQuorumMessage(r.sd, qm)
    THEN [r EXCEPT !.sd = processQuorumMessage(@, qm, FALSE)]
    ELSE [r EXCEPT !.ok = FALSE]
catchUpTM(r, tm) ==
    IF \/ ~r.ok \/ tm = None \/ lateTimeoutMessage(r.sd, tm)
       \/ verifiesTimeoutMessage(r.sd, tm) /\ ~firstTimeoutMessage(r.sd, tm)
    THEN r
    ELSE IF acceptsTimeoutMessage(r.sd, tm)
    THEN [r EXCEPT !.sd = executeTimeoutMessage(@, tm)]
    ELSE [r EXCEPT !.ok = FALSE]

(* processCatchUpTerminalData, with at most one message of each kind. *)
makeBlockIf(r) == IF r.ok THEN makeBlock(r.sd) ELSE r.sd
processCatchUpTerminalData(sd, cu) ==
    makeBlockIf(catchUpTM(catchUpQM(
        catchUpTC(catchUpFE(catchUpQC(sd, cu.qc), cu.fe), cu.qc, cu.tc), cu.qm), cu.tm))
=============================================================================
