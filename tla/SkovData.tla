----------------------------- MODULE SkovData -----------------------------
(***************************************************************************)
(* The consensus state of one node (SkovData, with the round status, the   *)
(* persistent round status and what is on disk) as a record, and the       *)
(* operations on it of TreeState/Implementation.hs.                        *)
(*                                                                         *)
(* A block hash determines the block, so blocks are a constant set and     *)
(* everything a block contains is a constant function of it.  A quorum     *)
(* certificate is named by its block, a finalization entry by its          *)
(* successor block (the block it finalizes is the parent of that).         *)
(***************************************************************************)
EXTENDS Integers, Sequences, FiniteSets, FiniteSetsExt, SequencesExt

CONSTANTS
    Self,           \* the finalizer and baker this node is
    Committee,      \* epoch -> finalizers, each of weight 1
    Paydays,        \* the epochs at which committees may change
    Blocks, Genesis,
    Round, Epoch, Parent, Height, Baker,
    Ancestors,      \* block -> the blocks on its chain, itself included
    BlockTC,        \* block -> timeout certificate in it, or None
    BlockEntry,     \* block -> epoch finalization entry in it, or None
    Trigger,        \* blocks whose state has epochTransitionTriggered
    Shutdown,       \* blocks whose state has shutdownTriggered
    Invalid,        \* blocks that fail execution
    None

ASSUME TreeAssumption ==
    /\ Genesis \in Blocks /\ Genesis \notin Trigger \cup Shutdown
    /\ \A b \in Blocks \ {Genesis} :
        /\ Parent[b] \in Blocks
        /\ Height[b] = Height[Parent[b]] + 1
        /\ Ancestors[b] = {b} \cup Ancestors[Parent[b]]

(* Time moves forward along a chain: a trigger stays set within its epoch,
   shutdown for good. *)
ASSUME FlagsAssumption ==
    \A b \in Blocks \ {Genesis} :
        /\ Parent[b] \in Trigger /\ Epoch[Parent[b]] = Epoch[b] => b \in Trigger
        /\ Parent[b] \in Shutdown => b \in Shutdown

(* The leader of a round is determined by the round and the epoch. *)
ASSUME LeaderAssumption ==
    \A b, c \in Blocks : Round[b] = Round[c] /\ Epoch[b] = Epoch[c] => Baker[b] = Baker[c]

VARIABLE
    certs           \* the blocks for which a quorum certificate can be had

-----------------------------------------------------------------------------
(* PersistentRoundStatus at genesis. *)
initialPersistentRoundStatus == [qm |-> None, tm |-> None, baked |-> 0, tc |-> None]

(* mkInitialSkovData.  "timer" is the armed round timer, "fired" a timeout
   event that has started and waits for the lock; "tasks" are the actions
   scheduled for a time; "exec" is the block received and not yet executed;
   "sent" is every message sent; "log" the disk contents (with what was sent)
   after each write and send of the running operation; "errors" the calls of
   error and failed assertions; "rolledBack" the round of the last start if
   it found blocks it could not load, else 0. *)
mkInitialSkovData ==
    [round |-> 1, epoch |-> 0, highestCB |-> Genesis, prevTimeout |-> None,
     eligible |-> TRUE, epochEntry |-> None,
     lastFin |-> Genesis, finEntry |-> None, terminal |-> None,
     live |-> {}, dead |-> {}, branches |-> <<>>, focus |-> Genesis,
     existing |-> {}, qcs |-> {}, qms |-> {}, tms |-> {},
     prs |-> initialPersistentRoundStatus,
     timer |-> FALSE, fired |-> FALSE, tasks |-> {[do |-> "start"]}, exec |-> None,
     db |-> [fins |-> {Genesis}, certs |-> {}, latest |-> None,
             prs |-> initialPersistentRoundStatus],
     sent |-> {}, log |-> {}, errors |-> {}, rolledBack |-> 0]

isConsensusShutdown(sd) == sd.terminal # None

(* A precondition whose failure the code turns into error or an assertion
   failure. *)
require(sd, ok, what) == IF ok THEN sd ELSE [sd EXCEPT !.errors = @ \cup {what}]

(* A write transaction on the tree state database. *)
writeDB(sd, d) == [sd EXCEPT !.db = d, !.log = @ \cup {[db |-> d, sent |-> sd.sent]}]

(* sendQuorumMessage, sendTimeoutMessage, sendBlock. *)
send(sd, msg) ==
    [sd EXCEPT !.sent = @ \cup {msg},
               !.log = @ \cup {[db |-> sd.db, sent |-> sd.sent \cup {msg}]}]

setPersistentRoundStatus(sd, p) == writeDB([sd EXCEPT !.prs = p], [sd.db EXCEPT !.prs = p])

(* prsLastSignedRound: 0 if nothing was signed. *)
prsLastSignedRound(p) ==
    Max({0} \cup (IF p.qm = None THEN {} ELSE {Round[p.qm]})
            \cup (IF p.tm = None THEN {} ELSE {p.tm.round}))
-----------------------------------------------------------------------------
getLiveOrLastFinalized(sd) == sd.live \cup {sd.lastFin}

(* The blocks that getMemoryBlockStatus finds alive: the focus block is
   looked at before the live blocks. *)
memoryAlive(sd) == (sd.live \cup {sd.focus}) \ {sd.lastFin}

memoryStatus(sd) == getLiveOrLastFinalized(sd) \cup {sd.focus} \cup sd.dead

memberBlock(sd, b) == b \in sd.db.fins \cup sd.db.certs

(* BlockFinalized (the last one) or BlockAlive according to
   getRecentBlockStatus; an older finalized block, or a certified one that
   is only on disk, is OldFinalized. *)
recentAliveOrFinalized(sd) == memoryAlive(sd) \cup {sd.lastFin}

(* nextPayday of the epoch bakers of the last finalized block. *)
nextPayday(sd) == Min({e \in Paydays : e > Epoch[sd.lastFin]})

(* getBakersForEpoch gives an answer. *)
bakersKnown(sd, e) ==
    LET cur == Epoch[sd.lastFin]
    IN  (cur - 1 <= e /\ e <= cur + 1) \/ (cur <= e /\ e < nextPayday(sd))

(* parentOfLive succeeds on every block of bs. *)
parentsLive(sd, bs) == \A b \in bs : Parent[b] \in getLiveOrLastFinalized(sd)

(* addToBranches *)
addToBranches(sd, b) ==
    LET i == Height[b] - Height[sd.lastFin]
        n == Len(sd.branches)
        s1 == require(sd, 1 <= i /\ i <= n + 1, "addToBranches")
    IN  CASE 1 <= i /\ i <= n -> [s1 EXCEPT !.branches[i] = @ \cup {b}]
          [] i = n + 1 -> [s1 EXCEPT !.branches = Append(@, {b})]
          [] OTHER -> s1

(* makeLiveBlock and addToBranches, as addBlock does. *)
addBlock(sd, b) == addToBranches([sd EXCEPT !.live = @ \cup {b}], b)

(* updateFocusBlockTo walks from the old and from the new focus block to
   their last common ancestor. *)
updateFocusBlockTo(sd, new) ==
    LET walked == (Ancestors[sd.focus] \ Ancestors[new]) \cup (Ancestors[new] \ Ancestors[sd.focus])
    IN  [require(sd, parentsLive(sd, walked), "updateFocusBlockTo") EXCEPT !.focus = new]

(* The witnesses are kept by round. *)
recordCheckedQuorumCertificate(sd, bs) ==
    [sd EXCEPT !.qcs = {c \in @ : \A b \in bs : Round[b] # Round[c]} \cup bs]

(* The witness that the block's baker signed a block in its round. *)
roundBakerExistingBlock(sd, b) ==
    {w \in sd.existing : Round[w] = Round[b] /\ Baker[w] = Baker[b]}
=============================================================================
