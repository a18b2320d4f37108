----------------------------- MODULE SkovNode -----------------------------
(***************************************************************************)
(* One node of ConcordiumBFT: the operations of SkovBlocks run one at a    *)
(* time under the lock, in any order the network and the timers choose,    *)
(* and the node may stop at any write or send and start again from what is *)
(* on disk (TreeState/StartUp.hs).                                         *)
(*                                                                         *)
(* The environment is the other finalizers and bakers, restricted to what  *)
(* BFTVoting shows of them: the blocks that get a quorum certificate       *)
(* (certs) are consistent, and timeout messages respect TimeoutBound.      *)
(***************************************************************************)
EXTENDS SkovBlocks

CONSTANTS
    Senders,        \* the other finalizers that send messages to this node
    Worlds,         \* what certs may be
    TimeoutRounds,  \* the rounds that may be given up
    MaxCrashes,     \* how often the node stops
    MayDamage       \* a stop may damage the file of block states

VARIABLES
    sd,             \* the state of the node
    crashes         \* how often it stopped

vars == <<sd, certs, crashes>>
-----------------------------------------------------------------------------
lastFinalizedBlock(d) == CHOOSE b \in d.fins : \A c \in d.fins : Height[c] <= Height[b]

(* The QC of a block finalizes its parent if the block has neither a timeout
   certificate nor an epoch finalization entry.  Finalized blocks are removed
   down to one that is finalized so and can be loaded; only Genesis may be
   left without an entry. *)
rollFinalized(d, intact) ==
    LET child(b) == CHOOSE c \in d.fins : c # b /\ Parent[c] = b
        explicit(c) == BlockTC[c] = None /\ BlockEntry[c] = None
        targets == {b \in (d.fins \cap intact) \ {lastFinalizedBlock(d)} : b = Genesis \/ explicit(child(b))}
        target == CHOOSE b \in targets : \A c \in targets : Height[c] <= Height[b]
    IN  [d EXCEPT !.fins = Ancestors[target], !.latest = IF explicit(child(target)) THEN child(target) ELSE None]

(* rollBackBlocksUntil: the certified blocks whose states cannot be loaded are
   removed, all of them if that of the last finalized block is damaged.  The
   round status stays as it is.  A stop in the middle leaves a database from
   which the same is reached. *)
rollBackBlocksUntil_keepsCertified(d, intact) ==
    IF lastFinalizedBlock(d) \in intact THEN [d EXCEPT !.certs = @ \cap intact] ELSE rollFinalized(d, intact)
rollBackBlocksUntil(d, intact) ==
    IF lastFinalizedBlock(d) \in intact THEN [d EXCEPT !.certs = @ \cap intact]
    ELSE rollFinalized([d EXCEPT !.certs = {}], intact)

(* The blocks whose states may be left intact.  States are written one after
   the other, a block after its parent; that of Genesis is not lost. *)
intactBlocks(d) ==
    LET all == d.fins \cup d.certs
    IN  IF MayDamage THEN {S \in SUBSET all : Genesis \in S /\ \A b \in S : Parent[b] \in S} ELSE {all}

(* The first block of the chain of b that has the shutdown flag. *)
findShutdownTriggerBlock(b) ==
    CHOOSE c \in Ancestors[b] \cap Shutdown : \A d \in Ancestors[b] \cap Shutdown : Height[c] <= Height[d]

(* loadSkovData: the state as of the last finalized block. *)
loadSkovData(disk) ==
    LET d == disk.db
        lastFin == lastFinalizedBlock(d)
        shutdown == lastFin \in Shutdown
        newEpoch == lastFin \in Trigger /\ ~shutdown
        ok == IF d.latest = None THEN lastFin = Genesis ELSE Parent[d.latest] = lastFin
    IN  require(
            [mkInitialSkovData EXCEPT
                !.round = Round[lastFin] + 1,
                !.epoch = Epoch[lastFin] + (IF newEpoch THEN 1 ELSE 0),
                !.epochEntry = IF newEpoch THEN d.latest ELSE None,
                !.highestCB = lastFin, !.lastFin = lastFin, !.focus = lastFin,
                !.finEntry = d.latest,
                !.terminal = IF shutdown THEN findShutdownTriggerBlock(lastFin) ELSE None,
                !.qcs = IF d.latest = None THEN {} ELSE {lastFin},
                !.prs = d.prs, !.db = d, !.sent = disk.sent,
                !.tasks = IF shutdown THEN {} ELSE @],
            ok, "loadSkovData")

(* The blocks of loadCertifiedBlocks, in the order of their rounds. *)
loadCertBlocks(s) ==
    LET blocks == SetToSortSeq(s.db.certs, LAMBDA b, c : Round[b] < Round[c])
        loadCertBlock(t, b) ==
            [addBlock(t, b) EXCEPT
                !.highestCB = b,
                !.prevTimeout = IF Round[b] >= t.round THEN None ELSE @,
                !.round = IF Round[b] >= t.round THEN Round[b] + 1 ELSE @,
                !.existing = @ \cup {b},
                !.qcs = @ \cup {b}]
    IN  FoldLeft(loadCertBlock, s, blocks)

(* The last timeout certificate is paired with the highest certified block
   or, if it is not valid for the committee of that one, with the highest one
   of the epoch of the last finalized block. *)
loadLastTimeout_highest(s) ==
    LET tc == s.db.prs.tc
    IN  IF tc = None \/ tc.round < s.round THEN s
        ELSE [s EXCEPT !.prevTimeout = [tc |-> tc, cb |-> s.highestCB], !.round = tc.round + 1]
loadLastTimeout(s) ==
    LET tc == s.db.prs.tc
        lfEpoch == Epoch[s.lastFin]
        inEpoch == {c \in s.db.certs : Epoch[c] = lfEpoch}
        candidate == IF inEpoch = {} THEN s.lastFin
                     ELSE CHOOSE c \in inEpoch : \A d \in inEpoch : Round[d] <= Round[c]
        requiresTCCheck == Epoch[s.highestCB] >= nextPayday(s)
        tcOKForHCB == Epoch[s.highestCB] = lfEpoch + 1 /\ validTC(s, tc, lfEpoch + 1)
        compatible(c) == /\ Round[c] < tc.round /\ Round[c] >= tc.maxRound
                         /\ Epoch[c] >= tc.maxEpoch /\ Epoch[c] <= 2 + tc.minEpoch
        setLastTimeout(t, c) == [t EXCEPT !.prevTimeout = [tc |-> tc, cb |-> c], !.round = tc.round + 1]
        failLoad(t) == [t EXCEPT !.eligible = FALSE]
        checked == require(s, validTC(s, tc, lfEpoch), "loadCertifiedBlocks: timeout")
    IN  CASE tc = None -> s
          [] tc # None ->
            IF tc.round < s.round THEN s
            ELSE IF (~requiresTCCheck \/ tcOKForHCB) /\ compatible(s.highestCB)
            THEN setLastTimeout(s, s.highestCB)
            ELSE IF requiresTCCheck /\ ~tcOKForHCB
            THEN IF compatible(candidate) THEN setLastTimeout(checked, candidate) ELSE failLoad(checked)
            ELSE failLoad(s)

(* The own timeout message counts again if it is for the current round. *)
loadTimeoutMessage(s) ==
    LET tm == s.db.prs.tm
        expected == IF s.prevTimeout # None THEN s.prevTimeout.tc.round + 1 ELSE Round[s.highestCB] + 1
        checked == require(s, s.round = expected, "loadCertifiedBlocks: round")
    IN  IF tm # None /\ tm.round = s.round THEN [checked EXCEPT !.tms = {tm}] ELSE checked

load(disk) == loadTimeoutMessage(loadLastTimeout(loadCertBlocks(loadSkovData(disk))))

(* Starting from disk.  A node that has removed blocks does not make one in
   the round it starts in, unless it was stopped once more after the removal. *)
initialiseExistingSkovV1(disk) ==
    UNION {LET kept == rollBackBlocksUntil(disk.db, intact)
               skov == load([disk EXCEPT !.db = kept])
               rolled == [skov EXCEPT !.rolledBack = skov.round]
           IN  IF kept = disk.db THEN {skov} ELSE {rolled, [rolled EXCEPT !.eligible = FALSE]} :
            intact \in intactBlocks(disk.db)}
-----------------------------------------------------------------------------
(* The blocks of S have certificates together: they are valid, certified
   once per round, with a certified parent, and extend what is final. *)
Consistent(S) ==
    /\ Genesis \in S
    /\ \A c \in S \ {Genesis} :
        /\ c \notin Invalid /\ Parent[c] \in S /\ epochFollows(c)
        /\ IF Round[c] > Round[Parent[c]] + 1
           THEN BlockTC[c] # None /\ \A d \in S \ {Genesis} :
                    Round[d] < Round[c] => Round[Parent[d]] <= BlockTC[c].maxRound
           ELSE BlockTC[c] = None
        /\ Epoch[c] # Epoch[Parent[c]] => BlockEntry[c] \in S
    /\ \A c, d \in S :
        /\ Round[c] = Round[d] => c = d
        /\ IsEntry(c) /\ Round[d] >= Round[Parent[c]] => Parent[c] \in Ancestors[d]

Init ==
    /\ certs \in {S \in Worlds : Consistent(S)}
    /\ sd = mkInitialSkovData
    /\ crashes = 0

(* A block of this node exists once the node has sent it. *)
exists(b) == \A c \in Ancestors[b] : Baker[c] = Self => [type |-> "block", block |-> c] \in sd.sent

(* The certificates, messages and timeout certificates others may hold. *)
knownCerts == {c \in certs : exists(c)}
quorumMessages == {[fin |-> f, block |-> c] : f \in Senders, c \in knownCerts \ {Genesis}}
timeoutMessages ==
    {tm \in [fin : Senders, round : TimeoutRounds, qc : knownCerts] :
        Round[tm.qc] < tm.round /\ Round[tm.qc] >= TimeoutBound(tm.round)}
peerTimeouts(qc) ==
    IF qc = None THEN {}
    ELSE LET usable == {q \in knownCerts : Round[q] <= Round[qc] /\ Epoch[qc] - Epoch[q] <= 1}
             signed(q) == {[fin |-> f, qc |-> q] : f \in Committee[Epoch[q]] \ {Self}}
         IN  {tc \in {makeTimeoutCertificate(r, signed(q1) \cup signed(q2)) :
                        r \in {t \in TimeoutRounds : t > Round[qc]}, q1 \in usable, q2 \in usable} :
                tc.maxRound >= TimeoutBound(tc.round)}

(* The latest finalization entry of a peer with highest QC qc. *)
latestEntry(qc) ==
    LET entries == IF qc = None THEN {} ELSE {c \in Ancestors[qc] : IsEntry(c)}
    IN  {c \in entries : \A d \in entries : Height[d] <= Height[c]}

(* A block whose round has passed is never signed: the delayed call of
   validateBlock does nothing, and is left out. *)
pendingTasks(h) == {t \in h.tasks : t.do = "validate" => Round[t.block] >= h.round}

(* The operation ends with state h, or the node stops at one of its writes or
   sends and starts again. *)
Finish(h) ==
    /\ UNCHANGED certs
    /\ \/ sd' = [h EXCEPT !.log = {}, !.tasks = pendingTasks(h)] /\ UNCHANGED crashes
       \/ /\ crashes < MaxCrashes
          /\ crashes' = crashes + 1
          /\ \E disk \in h.log : sd' \in initialiseExistingSkovV1(disk)
-----------------------------------------------------------------------------
(* One thread takes messages from the network: a received block is executed
   before the next message is looked at. *)
ReceiveBlock(b) == sd.exec = None /\ exists(b) /\ Finish(uponReceivingBlock(sd, b))

ExecuteBlock == sd.exec # None /\ Finish(executeBlock(sd))

ReceiveQuorumMessage(qm) == sd.exec = None /\ Finish(receiveQuorumMessage(sd, qm))

ReceiveTimeoutMessage(tm) == sd.exec = None /\ Finish(receiveTimeoutMessage(sd, tm))

(* Blocks imported from a file end with an entry for the last of them
   (importBlocks, receiveFinalization); the import precedes startEvents. *)
ImportFinalization(c) ==
    /\ sd.exec = None /\ [do |-> "start"] \in sd.tasks /\ IsEntry(c)
    /\ Finish(catchUpFE(sd, c))

(* A peer whose current round follows qc or tc ends a catch-up response.  It
   sends no certificates if this node's round was no earlier; that was the
   round at the time of the request, and this node may have advanced since. *)
ReceiveCatchUp(qc, tc) ==
    LET round == IF tc # None THEN tc.round + 1 ELSE IF qc # None THEN Round[qc] + 1 ELSE sd.round
        messages == {[qm |-> None, tm |-> None]}
                    \cup {[qm |-> m, tm |-> None] : m \in {m \in quorumMessages : Round[m.block] = round}}
                    \cup {[qm |-> None, tm |-> m] : m \in {m \in timeoutMessages : m.round = round}}
    IN  /\ sd.exec = None
        /\ \E fe \in {None} \cup latestEntry(qc), m \in messages :
                Finish(processCatchUpTerminalData(
                    sd, [qc |-> qc, fe |-> fe, tc |-> tc, qm |-> m.qm, tm |-> m.tm]))

(* The timer thread starts the timeout event, which then waits for the lock;
   resetting the timer does not stop it any more. *)
TimerFires ==
    /\ sd.timer /\ ~sd.fired /\ sd.round \in TimeoutRounds
    /\ sd' = [sd EXCEPT !.timer = FALSE, !.fired = TRUE]
    /\ UNCHANGED <<certs, crashes>>

UponTimeoutEvent ==
    /\ sd.fired /\ sd.round \in TimeoutRounds
    /\ Finish(uponTimeoutEvent([sd EXCEPT !.fired = FALSE]))

(* startEvents, checkedValidateBlock and makeBlock delay the rest of their
   work to a time. *)
RunTask(t) ==
    LET s1 == [sd EXCEPT !.tasks = @ \ {t}]
    IN  CASE t.do = "start" -> Finish(makeBlock([s1 EXCEPT !.timer = TRUE]))
          [] t.do = "send" -> Finish(distributeBlock(s1, t.block))
          [] t.do = "validate" -> Finish(validateBlock(s1, t.block))

(* The node stops between two operations. *)
Crash ==
    /\ crashes < MaxCrashes
    /\ crashes' = crashes + 1
    /\ sd' \in initialiseExistingSkovV1([db |-> sd.db, sent |-> sd.sent])
    /\ UNCHANGED certs

(* Without catch-up. *)
GossipNext ==
    \/ \E b \in Blocks : ReceiveBlock(b)
    \/ ExecuteBlock
    \/ \E qm \in quorumMessages : ReceiveQuorumMessage(qm)
    \/ \E tm \in timeoutMessages : ReceiveTimeoutMessage(tm)
    \/ TimerFires
    \/ UponTimeoutEvent
    \/ \E t \in sd.tasks : RunTask(t)
    \/ Crash

Next ==
    \/ GossipNext
    \/ \E c \in knownCerts : ImportFinalization(c)
    \/ \E qc \in {None} \cup knownCerts : \E tc \in {None} \cup peerTimeouts(qc) : ReceiveCatchUp(qc, tc)

GossipSpec == Init /\ [][GossipNext]_vars

Spec == Init /\ [][Next]_vars

(* Weak fairness of ExecuteBlock, of ReceiveBlock of every block that would be
   accepted (some peer sends it until it is known), and of ReceiveCatchUp from
   every peer that has a certificate to offer.  Each of these steps disables
   itself, so that it is not enabled again and again. *)
Fairness ==
    /\ []<>(sd.exec = None)
    /\ \A b \in Blocks : []<>~(sd.exec = None /\ exists(b) /\ acceptsBlock(sd, b))
    /\ \A c \in Blocks : []<>~(sd.exec = None /\ c \in knownCerts /\ catchUpQC(sd, c) # sd)

FairSpec == Spec /\ Fairness
-----------------------------------------------------------------------------
signedBlocks == {m.block : m \in {m \in sd.sent : m.type = "qm"}}
signedTimeouts == {m.msg : m \in {m \in sd.sent : m.type = "tm"}}
bakedBlocks == {m.block : m \in {m \in sd.sent : m.type = "block"}}

(* The state has the shape of SkovData: rounds, epochs and blocks where they
   belong, and every queue of messages one of signed messages. *)
TypeOK ==
    /\ sd.round \in Nat \ {0} /\ sd.epoch \in Nat
    /\ {sd.highestCB, sd.lastFin, sd.focus} \cup sd.live \cup sd.dead \subseteq Blocks
    /\ {sd.epochEntry, sd.finEntry, sd.terminal, sd.exec} \subseteq Blocks \cup {None}
    /\ sd.existing \cup sd.qcs \cup sd.db.fins \cup sd.db.certs \subseteq Blocks
    /\ sd.branches \in Seq(SUBSET Blocks)
    /\ sd.qms \subseteq [fin : UNION Range(Committee), block : Blocks]
    /\ sd.tms \subseteq [fin : UNION Range(Committee), round : Nat, qc : Blocks]
    /\ {sd.timer, sd.fired, sd.eligible} \subseteq BOOLEAN
    /\ sd.log = {} /\ crashes \in 0 .. MaxCrashes

(* No operation, and no start from what is on disk after a stop at any write
   or send, calls error, fails an assertion or throws
   TreeStateInvariantViolation: the parent of every block that is walked is
   live, the bakers asked for are known, the entry for a new epoch is there. *)
NoInternalError == sd.errors = {}

(* The invariants of SkovData and RoundStatus, Implementation.hs and Types.hs:
   the current round follows the timeout or the highest certified block, and
   is no earlier than any live or finalized block; the epoch is that of the
   last finalized block, or the next one exactly if that block triggered the
   transition; then the entry that finalized a trigger block is there.  The
   collected messages are for the current round.  The terminal block is the
   first finalized block with the shutdown flag, if the last one has it. *)
RoundStatusInvariant ==
    /\ sd.round = 1 + (IF sd.prevTimeout = None THEN Round[sd.highestCB] ELSE sd.prevTimeout.tc.round)
    /\ sd.round > Round[sd.highestCB]
    /\ \A b \in sd.live \cup sd.db.fins : Round[b] <= sd.round /\ Epoch[b] <= sd.epoch
    /\ sd.epoch = Epoch[sd.lastFin] + (IF sd.lastFin \in Trigger THEN 1 ELSE 0)
    /\ sd.epoch > Epoch[sd.lastFin] =>
            /\ sd.epochEntry # None
            /\ Parent[sd.epochEntry] \in Trigger \cap Ancestors[sd.lastFin]
            /\ Epoch[sd.epochEntry] = Epoch[sd.lastFin]
    /\ \A m \in sd.tms : m.round = sd.round
    /\ \A m \in sd.qms : Round[m.block] = sd.round
    /\ sd.terminal = None <=> sd.lastFin \notin Shutdown
    /\ sd.terminal # None => sd.terminal \in Ancestors[sd.lastFin] \cap Shutdown
                             /\ Parent[sd.terminal] \notin Shutdown

(* After any interleaving of additions, finalizations and restarts, the
   branches hold exactly the live blocks, each at its height above the last
   finalized block and on top of it or of another live block; the focus block
   of the pending transactions is one of them or the last finalized block (the
   invariants of branches in SkovData; addToBranches, pruneBranches,
   updateFocusBlockTo). *)
BranchesAreTheLiveTree ==
    /\ \A i \in 1 .. Len(sd.branches) :
        sd.branches[i] = {b \in sd.live : Height[b] = Height[sd.lastFin] + i}
    /\ sd.live = UNION Range(sd.branches)
    /\ parentsLive(sd, sd.live)
    /\ \A b \in sd.live : sd.lastFin \in Ancestors[b]
    /\ sd.focus \in getLiveOrLastFinalized(sd)

(* What was sent is covered by what is on disk, wherever the node stops: no
   signature or block is sent before the record that forbids another one in
   its round (setPersistentRoundStatus before sendQuorumMessage,
   sendTimeoutMessage and sendBlock). *)
SentIsOnDisk ==
    /\ \A b \in signedBlocks : Round[b] <= prsLastSignedRound(sd.db.prs)
    /\ \A t \in signedTimeouts : t.round <= prsLastSignedRound(sd.db.prs)
    /\ \A b \in bakedBlocks : Round[b] <= sd.db.prs.baked

(* The node makes at most one block in a round, restarts included (makeBlock
   with prsLastBakedRound). *)
OneBlockPerRound == \A b, c \in bakedBlocks : Round[b] = Round[c] => b = c

(* Finality is for good: a finalized block stays finalized on disk and in the
   tree, over restarts too, and between restarts the round, the epoch and the
   round of the highest certified block never go back. *)
NothingIsUndone ==
    [][/\ sd.db.fins \subseteq sd'.db.fins
       /\ sd.lastFin \in Ancestors[sd'.lastFin]
       /\ sd.epoch <= sd'.epoch
       /\ crashes' = crashes =>
            sd.round <= sd'.round /\ Round[sd.highestCB] <= Round[sd'.highestCB]]_vars

(* Once the consensus is shut down it makes no block and signs no timeout
   message any more, whatever timers were running, and stays shut down over
   restarts (isConsensusShutdown in makeBlock and uponTimeoutEvent). *)
ShutdownIsFinal ==
    [][sd.terminal # None =>
        /\ sd'.terminal = sd.terminal
        /\ sd'.db.prs.baked = sd.db.prs.baked
        /\ signedTimeouts' = signedTimeouts]_vars

(* Every finalization that the rest of the network can prove reaches this
   node, whatever it signed, gave up or rejected before and wherever it
   stopped (uponReceivingBlock, executeBlock, processCatchUpTerminalData). *)
CaughtUp ==
    \A c \in Blocks : (c \in knownCerts /\ IsEntry(c)) ~> (Parent[c] \in sd.db.fins)

(* What is on disk is a tree state to start from: one certified block per
   round, each after the last finalized block and on top of it or of another
   certified one. *)
DiskIsATree ==
    \A c \in sd.db.certs :
        /\ Round[c] > Round[lastFinalizedBlock(sd.db)]
        /\ Parent[c] \in sd.db.certs \cup {lastFinalizedBlock(sd.db)}
        /\ \A d \in sd.db.certs : Round[c] = Round[d] => c = d

(* A round timeout in use fits its certified block, so that a block can be
   built on it (RoundTimeout, Types.hs): the block is live or last finalized,
   is no earlier than the QCs named in the timeout certificate, and the
   certificate is valid for the committee of its epoch. *)
fits(rt) ==
    /\ Round[rt.cb] >= rt.tc.maxRound /\ Epoch[rt.cb] >= rt.tc.maxEpoch
    /\ Enough(rt.tc.fins, Epoch[rt.cb])
    /\ Round[rt.cb] <= Round[sd.highestCB]
RoundTimeoutFits == sd.prevTimeout # None => fits(sd.prevTimeout)

(* Whatever states of blocks a stop has damaged, the node starts from what is
   left and goes on without an internal error, with a tree on disk and in
   memory and a round status that agree, and with no signature forgotten
   (rollBackBlocksUntil, loadSkovData, loadCertifiedBlocks).  A round timeout
   fits at every start, also if the stored certificate is ahead of the blocks
   that are left, and at all times if none were removed.  After a removal it
   may fail for a later round: the own timeout message, which is loaded again,
   can name a QC that is not there any more. *)
RestartIsSound ==
    /\ NoInternalError /\ DiskIsATree /\ SentIsOnDisk /\ RoundStatusInvariant /\ BranchesAreTheLiveTree
    /\ RoundTimeoutFits \/ (sd.rolledBack # 0 /\ sd.prevTimeout.tc.round >= sd.rolledBack)

(* The signatures of the node, over restarts, are those of an honest
   finalizer of BFTVoting, whose other finalizers may sign anything: it signs
   no block in a round it signed before, none in a round it gave up, and
   names in a timeout message a QC no earlier than any it relied on. *)
Voting == INSTANCE BFTVoting WITH
    Finalizers <- UNION Range(Committee), Honest <- {Self},
    Epochs <- DOMAIN Committee, Rounds <- TimeoutRounds,
    Quorums <- [e \in DOMAIN Committee |-> {Committee[e] \ {Self}}],
    votes <- {<<Self, b>> : b \in signedBlocks},
    timeouts <- {[fin |-> Self, round |-> t.round, qcRound |-> Round[t.qc]] : t \in signedTimeouts},
    highestQC <- [f \in {Self} |-> Max({0} \cup {Round[Parent[b]] : b \in signedBlocks}
                                            \cup {Round[t.qc] : t \in signedTimeouts})],
    lastSigned <- [f \in {Self} |-> Max({0} \cup {Round[b] : b \in signedBlocks}
                                             \cup {t.round : t \in signedTimeouts})]
ImplementsVoting == Voting!Spec

(* A block this node makes passes the check of the timeout certificate that
   every other node makes (checkTC). *)
OwnBlocksCheck ==
    \A b \in sd.live : Baker[b] = Self => ((BlockTC[b] = None) <=> (Round[b] = Round[Parent[b]] + 1))
=============================================================================
