--------------------------- MODULE SkovFinality ---------------------------
(***************************************************************************)
(* Finalization and the advance of rounds and epochs: Consensus/Finality.hs*)
(* and the round operations of Consensus.hs, as operators on SkovData.     *)
(***************************************************************************)
EXTENDS SkovData

(* A certified block finalizes its parent if that is in the round before
   and in the same epoch; the certified block then names the entry. *)
IsEntry(b) == b # Genesis /\ Round[b] = Round[Parent[b]] + 1 /\ Epoch[b] = Epoch[Parent[b]]

(* The blocks that become final, the blocks to remove and the branches left
   when newFin is finalized.  The trunk is pruned from the top, following
   parents from newFin; a block of the limbs survives if its parent is
   newFin or a survivor one level below. *)
pruneBranches_keepsLimbs(sd, newFin) ==
    LET delta == Height[newFin] - Height[sd.lastFin]
        trunk == SubSeq(sd.branches, 1, delta)
        limbs == SubSeq(sd.branches, delta + 1, Len(sd.branches))
        finalized == {b \in Ancestors[newFin] : Height[b] > Height[sd.lastFin]}
    IN  [finalized |-> finalized, removed |-> UNION Range(trunk) \ finalized, branches |-> limbs]
pruneBranches(sd, newFin) ==
    LET delta == Height[newFin] - Height[sd.lastFin]
        trunk == SubSeq(sd.branches, 1, delta)
        limbs == SubSeq(sd.branches, delta + 1, Len(sd.branches))
        finalized == {b \in Ancestors[newFin] : Height[b] > Height[sd.lastFin]}
        pruneLimb(acc, brs) ==
            LET survivors == {b \in brs : Parent[b] \in acc.parents}
            IN  [parents |-> survivors, branches |-> Append(acc.branches, survivors),
                 removed |-> acc.removed \cup (brs \ survivors)]
        pruned == FoldLeft(pruneLimb, [parents |-> {newFin}, branches |-> <<>>, removed |-> {}], limbs)
    IN  [finalized |-> finalized,
         removed |-> (UNION Range(trunk) \ finalized) \cup pruned.removed,
         branches |-> pruned.branches]

(* The first newly finalized block with the shutdown flag, unless the flag
   was already set in the last finalized block. *)
terminalBlockOf(sd, newFin, finalized) ==
    IF newFin \in Shutdown /\ sd.lastFin \notin Shutdown
    THEN CHOOSE b \in finalized \cap Shutdown : \A c \in finalized \cap Shutdown : Height[b] <= Height[c]
    ELSE sd.terminal

(* writeFinalizedBlocks, or writeCertifiedBlockWithFinalization if the
   successor is given: one transaction stores the new finalized blocks, drops
   the certified blocks up to the round of the last of them (from the block
   store too if they are not finalized) and stores the entry. *)
writeFinalizedBlocks_keepsCerts(d, newFin, finalized, entry, cert) ==
    [d EXCEPT !.fins = @ \cup finalized, !.certs = @ \cup ({cert} \ {None}), !.latest = entry]
writeFinalizedBlocks(d, newFin, finalized, entry, cert) ==
    [d EXCEPT !.fins = @ \cup finalized,
              !.certs = {c \in @ : Round[c] > Round[newFin]} \cup ({cert} \ {None}),
              !.latest = entry]

(* checkedAdvanceEpoch *)
checkedAdvanceEpoch(sd, entry, newFin) ==
    LET s1 == require(sd, sd.epoch >= Epoch[newFin], "checkedAdvanceEpoch")
    IN  IF sd.epoch = Epoch[newFin] /\ newFin \in Trigger
        THEN [s1 EXCEPT !.epoch = @ + 1, !.epochEntry = entry]
        ELSE s1

(* processFinalizationHelper: the focus block is moved if it would not
   survive; the branches are pruned; the blocks, the entry and the successor
   are stored; then the block tables and the last finalized block follow. *)
processFinalizationHelper(sd, newFin, entry, cert) ==
    LET survives == newFin \in Ancestors[sd.focus]
        s1 == IF survives THEN sd ELSE updateFocusBlockTo(sd, newFin)
        pr == pruneBranches(s1, newFin)
        s2 == require(s1, parentsLive(s1, UNION Range(s1.branches)), "pruneBranches")
        s3 == require(s2, Epoch[newFin] \in {Epoch[sd.lastFin], Epoch[sd.lastFin] + 1},
                      "checkedAdvanceEpochBakers")
        s4 == writeDB(s3, writeFinalizedBlocks(s3.db, newFin, pr.finalized, entry, cert))
        s5 == [s4 EXCEPT !.live = @ \ (pr.finalized \cup pr.removed),
                         !.dead = @ \cup pr.removed,
                         !.branches = pr.branches,
                         !.terminal = terminalBlockOf(sd, newFin, pr.finalized),
                         !.lastFin = newFin, !.finEntry = entry,
                         !.existing = {b \in @ : Round[b] > Round[newFin]},
                         !.qcs = {b \in @ : Round[b] >= Round[newFin]}]
    IN  checkedAdvanceEpoch(s5, entry, newFin)

processFinalizationEntry(sd, entry) == processFinalizationHelper(sd, Parent[entry], entry, None)

(* writeCertifiedBlock: at most one certified block is kept per round. *)
writeCertifiedBlock(sd, b) ==
    writeDB(sd, [sd.db EXCEPT !.certs = {c \in @ : Round[c] # Round[b]} \cup {b}])

(* processCertifiedBlock, which is checkFinality of the protocol. *)
processCertifiedBlock(sd, b) ==
    IF memberBlock(sd, b) THEN sd
    ELSE IF IsEntry(b) /\ Parent[b] # sd.lastFin
    THEN processFinalizationHelper(require(sd, parentsLive(sd, {b}), "processCertifiedBlock"),
                                   Parent[b], b, b)
    ELSE writeCertifiedBlock(sd, b)
-----------------------------------------------------------------------------
(* onNewRound *)
onNewRound(sd) == [sd EXCEPT !.timer = TRUE, !.qms = {}, !.tms = {}]

advanceRoundWithTimeout(sd, rt) ==
    LET s1 == [onNewRound(require(sd, rt.tc.round >= sd.round, "advanceRoundWithTimeout"))
               EXCEPT !.highestCB = IF Round[@] < Round[rt.cb] THEN rt.cb ELSE @,
                      !.round = rt.tc.round + 1,
                      !.prevTimeout = rt,
                      !.eligible = TRUE]
    IN  setPersistentRoundStatus(s1, [s1.prs EXCEPT !.tc = rt.tc])

(* The latest timeout is cleared in memory only. *)
advanceRoundWithQuorum_keepsTimeout(sd, b) ==
    [onNewRound(sd) EXCEPT !.round = Round[b] + 1, !.highestCB = b, !.eligible = TRUE, !.prs.tc = None]
advanceRoundWithQuorum(sd, b) ==
    [onNewRound(require(sd, Round[b] >= sd.round, "advanceRoundWithQuorum"))
     EXCEPT !.round = Round[b] + 1,
            !.prevTimeout = None,
            !.highestCB = b,
            !.eligible = TRUE,
            !.prs.tc = None]

checkedUpdateHighestCertifiedBlock_unchecked(sd, b) == [sd EXCEPT !.highestCB = b]
checkedUpdateHighestCertifiedBlock(sd, b) ==
    IF Round[sd.highestCB] < Round[b] THEN [sd EXCEPT !.highestCB = b] ELSE sd
=============================================================================
