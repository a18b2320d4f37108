------------------------- MODULE BFTVoting_proofs -------------------------
(***************************************************************************)
(* Agreement of BFTVoting for every committee, every tree of blocks and    *)
(* every number of rounds.  The inductive invariant says of each block an  *)
(* honest finalizer voted for how it relates to what could be finalized    *)
(* before it: either it extends the block, or the finalization can no      *)
(* longer happen.                                                          *)
(***************************************************************************)
EXTENDS BFTVoting, TLAPS

Voted(b) == \E f \in Honest : <<f, b>> \in votes

(* c can no longer be certified: the honest part of a quorum has signed in
   its round or later, and not for c. *)
Refused(c) ==
    \E e \in Epochs : \E Q \in Quorums[e] : \A f \in Q \cap Honest :
        <<f, c>> \notin votes /\ Round[c] <= lastSigned[f]

(* A vote is for a justified block, is recorded as signed, and relied on the
   parent's certificate. *)
VotesJustified ==
    \A f \in Honest, b \in Blocks : <<f, b>> \in votes =>
        /\ Justified(b)
        /\ Round[b] <= lastSigned[f]
        /\ Round[Parent[b]] <= highestQC[f]

OneVotePerRound ==
    \A f \in Honest, b, c \in Blocks :
        <<f, b>> \in votes /\ <<f, c>> \in votes /\ Round[b] = Round[c] => b = c

TimeoutsRecorded ==
    \A t \in timeouts : t.round <= lastSigned[t.fin]

(* c is a child of its parent in the next round, so that certifying c may
   finalize the parent. *)
Consecutive(c) == c # Genesis /\ Round[c] = Round[Parent[c]] + 1

VotesExtendFinalizable ==
    \A b, c \in Blocks :
        Voted(b) /\ Consecutive(c) /\ Round[c] < Round[b]
            => Parent[c] \in Ancestors[b] \/ Refused(c)

IndInv ==
    /\ TypeOK
    /\ VotesJustified
    /\ OneVotePerRound
    /\ TimeoutsRecorded
    /\ TimeoutCoversVotes
    /\ VotesExtendFinalizable
-----------------------------------------------------------------------------
(* Every block is on its own chain, and a parent's chain is part of it. *)
LEMMA AncestorsOfParent ==
    ASSUME NEW b \in Blocks
    PROVE  /\ b \in Ancestors[b]
           /\ Parent[b] \in Blocks
           /\ b # Genesis => Ancestors[Parent[b]] \subseteq Ancestors[b]
BY BlockAssumption, AncestorsAssumption

(* Rounds rise along a chain, so that no other block is in round 0. *)
LEMMA OnlyGenesisAtStart ==
    /\ Genesis \in Blocks /\ Round[Genesis] = 0
    /\ \A b \in Blocks : Round[b] = 0 => b = Genesis
<1>1. ASSUME NEW b \in Blocks, b # Genesis
      PROVE  Round[b] # 0
  <2>1. Parent[b] \in Blocks
    BY BlockAssumption
  <2>2. Round[Parent[b]] \in Nat /\ Round[Parent[b]] < Round[b]
    BY <1>1, <2>1, BlockAssumption
  <2>. QED
    BY <2>2
<1>. QED
  BY <1>1, BlockAssumption

(* A certified block other than genesis has an honest vote. *)
LEMMA CertifiedHasVote ==
    ASSUME NEW b \in Blocks, Certified(b), b # Genesis
    PROVE  Voted(b)
<1>1. PICK Q \in Quorums[Epoch[b]] : Q \subseteq Signatories(b)
  BY DEF Certified
<1>2. Epoch[b] \in Epochs
  BY BlockAssumption
<1>3. PICK f \in Q \cap Honest : TRUE
  BY <1>2, QuorumIntersection
<1>. QED
  BY <1>1, <1>3 DEF Signatories, Voted

(* Two quorums of votes share an honest voter, who votes once in a round. *)
LEMMA CertifiedUnique ==
    ASSUME TypeOK, VotesJustified, OneVotePerRound,
           NEW b \in Blocks, NEW c \in Blocks,
           Certified(b), Certified(c), Round[b] = Round[c]
    PROVE  b = c
<1>1. CASE b = Genesis \/ c = Genesis
  BY <1>1, OnlyGenesisAtStart
<1>2. CASE b # Genesis /\ c # Genesis
  <2>1. PICK Q1 \in Quorums[Epoch[b]] : Q1 \subseteq Signatories(b)
    BY <1>2 DEF Certified
  <2>2. PICK Q2 \in Quorums[Epoch[c]] : Q2 \subseteq Signatories(c)
    BY <1>2 DEF Certified
  <2>3. Epoch[b] \in Epochs /\ Epoch[c] \in Epochs
    BY BlockAssumption
  <2>4. PICK f \in Q1 \cap Q2 \cap Honest : TRUE
    BY <2>3, QuorumIntersection
  <2>5. <<f, b>> \in votes /\ <<f, c>> \in votes
    BY <2>1, <2>2, <2>4 DEF Signatories
  <2>. QED
    BY <2>4, <2>5 DEF OneVotePerRound
<1>. QED
  BY <1>1, <1>2

(* What was refused is never certified. *)
LEMMA RefusedNotCertified ==
    ASSUME NEW c \in Blocks, c # Genesis, Refused(c)
    PROVE  ~Certified(c)
<1>. SUFFICES ASSUME Certified(c) PROVE FALSE
  OBVIOUS
<1>1. PICK Q1 \in Quorums[Epoch[c]] : Q1 \subseteq Signatories(c)
  BY DEF Certified
<1>2. PICK e \in Epochs : \E Q2 \in Quorums[e] : \A f \in Q2 \cap Honest : <<f, c>> \notin votes
  BY DEF Refused
<1>3. PICK Q2 \in Quorums[e] : \A f \in Q2 \cap Honest : <<f, c>> \notin votes
  BY <1>2
<1>4. PICK f \in Q1 \cap Q2 \cap Honest : TRUE
  BY <1>2, QuorumIntersection, BlockAssumption
<1>. QED
  BY <1>1, <1>3, <1>4 DEF Signatories
-----------------------------------------------------------------------------
(* Signatures are never withdrawn: a certificate that exists keeps existing,
   and so does a justification. *)
LEMMA CertificatesPersist ==
    ASSUME TypeOK, votes \subseteq votes', timeouts \subseteq timeouts', NEW b \in Blocks
    PROVE  /\ Certified(b) => Certified(b)'
           /\ Justified(b) => Justified(b)'
<1>1. ASSUME NEW c \in Blocks, Certified(c) PROVE Certified(c)'
  BY <1>1 DEF Certified, Signatories
<1>2. ASSUME NEW r, NEW p \in Blocks, TimedOut(r, p) PROVE TimedOut(r, p)'
  <2>1. TimeoutSignatories(r, p) \subseteq TimeoutSignatories(r, p)'
    BY DEF TimeoutSignatories
  <2>. QED
    BY <1>2, <2>1 DEF TimedOut
<1>3. Parent[b] \in Blocks
  BY BlockAssumption
<1>. QED
  BY <1>1, <1>2, <1>3 DEF Justified

(* A vote is only cast above everything signed, so a refusal stands. *)
LEMMA RefusalsPersist ==
    ASSUME TypeOK, NEW c \in Blocks, Refused(c),
           \A f \in Honest : lastSigned[f] <= lastSigned'[f],
           \A f \in Honest : lastSigned'[f] \in Nat,
           \A f \in Honest : <<f, c>> \in votes' /\ <<f, c>> \notin votes => lastSigned[f] < Round[c]
    PROVE  Refused(c)'
<1>1. PICK e \in Epochs : \E Q \in Quorums[e] : \A f \in Q \cap Honest :
        <<f, c>> \notin votes /\ Round[c] <= lastSigned[f]
  BY DEF Refused
<1>2. PICK Q \in Quorums[e] : \A f \in Q \cap Honest :
        <<f, c>> \notin votes /\ Round[c] <= lastSigned[f]
  BY <1>1
<1>3. ASSUME NEW f \in Q \cap Honest
      PROVE  <<f, c>> \notin votes' /\ Round[c] <= lastSigned'[f]
  <2>1. Round[c] \in Nat /\ lastSigned[f] \in Nat /\ lastSigned'[f] \in Nat
    BY BlockAssumption DEF TypeOK
  <2>. QED
    BY <1>2, <2>1
<1>. QED
  BY <1>3 DEF Refused

(* Nobody has voted at first, and no certificate exists. *)
LEMMA InitIndInv == Init => IndInv
BY BlockAssumption DEF Init, IndInv, TypeOK, VotesJustified, OneVotePerRound, TimeoutsRecorded,
    TimeoutCoversVotes, VotesExtendFinalizable, Voted

(* The block an honest finalizer votes for extends everything that could
   still be finalized by a certificate of an earlier round. *)
LEMMA JustifiedExtends ==
    ASSUME IndInv, NEW b \in Blocks, Justified(b),
           NEW c \in Blocks, Consecutive(c), Round[c] < Round[b]
    PROVE  Parent[c] \in Ancestors[b] \/ Refused(c)
<1>. DEFINE p == Parent[b]
<1>a. /\ p \in Blocks /\ Parent[c] \in Blocks
      /\ Round[p] \in Nat /\ Round[b] \in Nat /\ Round[c] \in Nat /\ Round[Parent[c]] \in Nat
      /\ b # Genesis /\ c # Genesis /\ Certified(p)
  BY BlockAssumption DEF Justified, Consecutive
<1>b. Ancestors[p] \subseteq Ancestors[b] /\ p \in Ancestors[b] /\ Parent[c] \in Ancestors[c]
  BY <1>a, AncestorsOfParent
<1>c. Round[c] = Round[Parent[c]] + 1
  BY DEF Consecutive
<1>1. CASE Round[c] < Round[p]
  <2>0. p # Genesis
    BY <1>1, <1>a, BlockAssumption
  <2>1. Voted(p)
    BY <2>0, <1>a, CertifiedHasVote
  <2>. QED
    BY <1>1, <2>1, <1>a, <1>b DEF IndInv, VotesExtendFinalizable
<1>2. CASE Round[c] = Round[p]
  <2>0. Round[p] # 0
    BY <1>2, <1>a, <1>c
  <2>1. p # Genesis
    BY <2>0, BlockAssumption
  <2>2. CASE c = p
    BY <2>2, <1>b
  <2>3. CASE c # p
    <3>1. PICK Q \in Quorums[Epoch[p]] : Q \subseteq Signatories(p)
      BY <1>a, <2>1 DEF Certified
    <3>2. ASSUME NEW f \in Q \cap Honest
          PROVE  <<f, c>> \notin votes /\ Round[c] <= lastSigned[f]
      <4>1. <<f, p>> \in votes
        BY <3>1 DEF Signatories
      <4>. QED
        BY <4>1, <2>3, <1>2, <1>a DEF IndInv, OneVotePerRound, VotesJustified
    <3>3. Epoch[p] \in Epochs
      BY <1>a, BlockAssumption
    <3>. QED
      BY <3>2, <3>3 DEF Refused
  <2>. QED
    BY <2>2, <2>3
<1>3. CASE Round[p] < Round[c]
  <2>1. PICK Q \in Quorums[Epoch[p]] : Q \subseteq TimeoutSignatories(Round[b] - 1, p)
    BY <1>3, <1>a DEF Justified, TimedOut
  <2>2. Epoch[p] \in Epochs
    BY <1>a, BlockAssumption
  <2>3. ASSUME NEW f \in Q \cap Honest
        PROVE  \E t \in timeouts : t.fin = f /\ t.round = Round[b] - 1 /\ t.qcRound <= Round[p]
    BY <2>1 DEF TimeoutSignatories
  <2>4. CASE \E f \in Q \cap Honest : <<f, c>> \in votes
    <3>1. PICK f \in Q \cap Honest : <<f, c>> \in votes
      BY <2>4
    <3>2. PICK t \in timeouts : t.fin = f /\ t.round = Round[b] - 1 /\ t.qcRound <= Round[p]
      BY <2>3
    <3>3. t.qcRound \in Nat
      BY DEF IndInv, TypeOK, TimeoutMessages
    <3>4. Round[Parent[c]] <= t.qcRound
      BY <3>1, <3>2, <1>a DEF IndInv, TimeoutCoversVotes
    <3>5. Round[Parent[c]] = Round[p]
      BY <3>2, <3>3, <3>4, <1>3, <1>a, <1>c
    <3>6. Certified(Parent[c])
      BY <3>1 DEF IndInv, VotesJustified, Justified
    <3>7. Parent[c] = p
      BY <3>5, <3>6, <1>a, CertifiedUnique DEF IndInv
    <3>. QED
      BY <3>7, <1>b
  <2>5. CASE \A f \in Q \cap Honest : <<f, c>> \notin votes
    <3>1. ASSUME NEW f \in Q \cap Honest PROVE Round[c] <= lastSigned[f]
      <4>1. PICK t \in timeouts : t.fin = f /\ t.round = Round[b] - 1
        BY <2>3
      <4>2. t.round <= lastSigned[f] /\ lastSigned[f] \in Nat
        BY <4>1 DEF IndInv, TimeoutsRecorded, TypeOK
      <4>. QED
        BY <4>1, <4>2, <1>a
    <3>. QED
      BY <3>1, <2>5, <2>2 DEF Refused
  <2>. QED
    BY <2>4, <2>5
<1>. QED
  BY <1>1, <1>2, <1>3, <1>a

(* A vote of the rules keeps the inductive invariant. *)
LEMMA VotePreserves ==
    ASSUME IndInv, NEW g \in Honest, NEW v \in Blocks, Vote(g, v)
    PROVE  IndInv'
<1>. USE DEF IndInv
<1>a. /\ Round[v] \in Nat /\ Round[Parent[v]] \in Nat
      /\ Parent[v] \in Blocks
      /\ \A f \in Honest : lastSigned[f] \in Nat /\ highestQC[f] \in Nat
      /\ Justified(v)
      /\ votes' = votes \cup {<<g, v>>}
      /\ timeouts' = timeouts
  BY BlockAssumption DEF TypeOK, Vote
<1>b. /\ lastSigned[g] < Round[v]
      /\ lastSigned' = [lastSigned EXCEPT ![g] = Round[v]]
      /\ highestQC' = [highestQC EXCEPT ![g] = Max2(@, Round[Parent[v]])]
  BY <1>a DEF Vote
<1>c. TypeOK'
  BY <1>a, <1>b DEF TypeOK, Max2
<1>d. \A f \in Honest :
        /\ lastSigned'[f] = IF f = g THEN Round[v] ELSE lastSigned[f]
        /\ lastSigned[f] <= lastSigned'[f]
        /\ lastSigned'[f] \in Nat
        /\ highestQC[f] <= highestQC'[f]
  BY <1>a, <1>b DEF TypeOK, Max2
<1>e. Round[Parent[v]] <= highestQC'[g]
  BY <1>a, <1>b DEF TypeOK, Max2
<1>1. VotesJustified'
  <2>. SUFFICES ASSUME NEW f \in Honest, NEW b \in Blocks, <<f, b>> \in votes'
                PROVE  Justified(b)' /\ Round[b] <= lastSigned'[f] /\ Round[Parent[b]] <= highestQC'[f]
    BY DEF VotesJustified
  <2>0. Round[b] \in Nat /\ Round[Parent[b]] \in Nat /\ highestQC'[f] \in Nat
    BY <1>c, BlockAssumption DEF TypeOK
  <2>1. CASE <<f, b>> \in votes
    <3>1. Justified(b) /\ Round[b] <= lastSigned[f] /\ Round[Parent[b]] <= highestQC[f]
      BY <2>1 DEF VotesJustified
    <3>2. Justified(b)'
      BY <3>1, <1>a, CertificatesPersist
    <3>. QED
      BY <3>1, <3>2, <1>a, <1>d, <2>0
  <2>2. CASE f = g /\ b = v
    <3>1. Justified(v)'
      BY <1>a, CertificatesPersist
    <3>. QED
      BY <2>2, <3>1, <1>a, <1>d, <1>e
  <2>. QED
    BY <2>1, <2>2, <1>a
<1>2. OneVotePerRound'
  <2>. SUFFICES ASSUME NEW f \in Honest, NEW b \in Blocks, NEW c \in Blocks,
                       <<f, b>> \in votes', <<f, c>> \in votes', Round[b] = Round[c]
                PROVE  b = c
    BY DEF OneVotePerRound
  <2>1. ASSUME NEW d \in Blocks, <<g, d>> \in votes, Round[d] = Round[v] PROVE FALSE
    BY <2>1, <1>a, <1>b DEF VotesJustified
  <2>. QED
    BY <2>1, <1>a DEF OneVotePerRound
<1>3. TimeoutsRecorded'
  <2>. SUFFICES ASSUME NEW t \in timeouts PROVE t.round <= lastSigned'[t.fin]
    BY <1>a DEF TimeoutsRecorded
  <2>1. t.fin \in Honest /\ t.round \in Nat /\ t.round <= lastSigned[t.fin]
    BY DEF TypeOK, TimeoutMessages, TimeoutsRecorded
  <2>. QED
    BY <2>1, <1>a, <1>d
<1>4. TimeoutCoversVotes'
  <2>. SUFFICES ASSUME NEW t \in timeouts, NEW b \in Blocks, <<t.fin, b>> \in votes',
                       Round[b] <= t.round
                PROVE  Round[Parent[b]] <= t.qcRound
    BY <1>a DEF TimeoutCoversVotes
  <2>1. CASE <<t.fin, b>> \in votes
    BY <2>1 DEF TimeoutCoversVotes
  <2>2. CASE t.fin = g /\ b = v
    <3>1. t.round <= lastSigned[g] /\ t.round \in Nat
      BY <2>2 DEF TimeoutsRecorded, TypeOK, TimeoutMessages
    <3>. QED
      BY <2>2, <3>1, <1>a, <1>b
  <2>. QED
    BY <2>1, <2>2, <1>a
<1>5. VotesExtendFinalizable'
  <2>. SUFFICES ASSUME NEW b \in Blocks, NEW c \in Blocks, Voted(b)',
                       Consecutive(c), Round[c] < Round[b]
                PROVE  Parent[c] \in Ancestors[b] \/ Refused(c)'
    BY DEF VotesExtendFinalizable, Consecutive
  <2>1. Parent[c] \in Ancestors[b] \/ Refused(c)
    <3>1. CASE b = v
      BY <3>1, <1>a, JustifiedExtends
    <3>2. CASE b # v
      <4>1. Voted(b)
        BY <3>2, <1>a DEF Voted
      <4>. QED
        BY <4>1 DEF VotesExtendFinalizable
    <3>. QED
      BY <3>1, <3>2
  <2>2. \A f \in Honest : <<f, c>> \in votes' /\ <<f, c>> \notin votes => lastSigned[f] < Round[c]
    BY <1>a, <1>b
  <2>. QED
    BY <2>1, <2>2, <1>d, RefusalsPersist
<1>. QED
  BY <1>c, <1>1, <1>2, <1>3, <1>4, <1>5

(* So does a timeout of the rules. *)
LEMMA TimeoutPreserves ==
    ASSUME IndInv, NEW g \in Honest, NEW r \in Rounds, NEW q \in Blocks, Timeout(g, r, q)
    PROVE  IndInv'
<1>. USE DEF IndInv
<1>. DEFINE m == [fin |-> g, round |-> r, qcRound |-> Round[q]]
<1>a. /\ r \in Nat /\ Round[q] \in Nat
      /\ \A f \in Honest : lastSigned[f] \in Nat /\ highestQC[f] \in Nat
      /\ lastSigned[g] <= r
      /\ highestQC[g] <= Round[q]
      /\ votes' = votes
      /\ timeouts' = timeouts \cup {m}
  BY BlockAssumption, CommitteeAssumption DEF TypeOK, Timeout
<1>b. /\ lastSigned' = [lastSigned EXCEPT ![g] = r]
      /\ highestQC' = [highestQC EXCEPT ![g] = Round[q]]
  BY DEF Timeout
<1>c. TypeOK'
  BY <1>a, <1>b DEF TypeOK, TimeoutMessages
<1>d. \A f \in Honest :
        /\ lastSigned'[f] = IF f = g THEN r ELSE lastSigned[f]
        /\ lastSigned[f] <= lastSigned'[f]
        /\ lastSigned'[f] \in Nat
        /\ highestQC[f] <= highestQC'[f]
        /\ highestQC'[f] \in Nat
  BY <1>a, <1>b DEF TypeOK
<1>1. VotesJustified'
  <2>. SUFFICES ASSUME NEW f \in Honest, NEW b \in Blocks, <<f, b>> \in votes
                PROVE  Justified(b)' /\ Round[b] <= lastSigned'[f] /\ Round[Parent[b]] <= highestQC'[f]
    BY <1>a DEF VotesJustified
  <2>1. Justified(b) /\ Round[b] <= lastSigned[f] /\ Round[Parent[b]] <= highestQC[f]
    BY DEF VotesJustified
  <2>2. Justified(b)'
    BY <2>1, <1>a, CertificatesPersist
  <2>3. Round[b] \in Nat /\ Round[Parent[b]] \in Nat
    BY BlockAssumption
  <2>. QED
    BY <2>1, <2>2, <2>3, <1>a, <1>d
<1>2. OneVotePerRound'
  BY <1>a DEF OneVotePerRound
<1>3. TimeoutsRecorded'
  <2>. SUFFICES ASSUME NEW t \in timeouts' PROVE t.round <= lastSigned'[t.fin]
    BY DEF TimeoutsRecorded
  <2>1. CASE t = m
    BY <2>1, <1>a, <1>d
  <2>2. CASE t \in timeouts
    <3>1. t.fin \in Honest /\ t.round \in Nat /\ t.round <= lastSigned[t.fin]
      BY <2>2 DEF TypeOK, TimeoutMessages, TimeoutsRecorded
    <3>. QED
      BY <3>1, <1>a, <1>d
  <2>. QED
    BY <2>1, <2>2, <1>a
<1>4. TimeoutCoversVotes'
  <2>. SUFFICES ASSUME NEW t \in timeouts', NEW b \in Blocks, <<t.fin, b>> \in votes,
                       Round[b] <= t.round
                PROVE  Round[Parent[b]] <= t.qcRound
    BY <1>a DEF TimeoutCoversVotes
  <2>1. CASE t = m
    <3>1. Round[Parent[b]] <= highestQC[g] /\ Round[Parent[b]] \in Nat
      BY <2>1, BlockAssumption DEF VotesJustified
    <3>. QED
      BY <2>1, <3>1, <1>a
  <2>2. CASE t \in timeouts
    BY <2>2 DEF TimeoutCoversVotes
  <2>. QED
    BY <2>1, <2>2, <1>a
<1>5. VotesExtendFinalizable'
  <2>. SUFFICES ASSUME NEW b \in Blocks, NEW c \in Blocks, Voted(b),
                       Consecutive(c), Round[c] < Round[b]
                PROVE  Parent[c] \in Ancestors[b] \/ Refused(c)'
    BY <1>a DEF VotesExtendFinalizable, Consecutive, Voted
  <2>1. Parent[c] \in Ancestors[b] \/ Refused(c)
    BY DEF VotesExtendFinalizable
  <2>2. \A f \in Honest : <<f, c>> \in votes' /\ <<f, c>> \notin votes => lastSigned[f] < Round[c]
    BY <1>a
  <2>. QED
    BY <2>1, <2>2, <1>d, RefusalsPersist
<1>. QED
  BY <1>c, <1>1, <1>2, <1>3, <1>4, <1>5

(* And a step that changes nothing. *)
LEMMA StutterPreserves ==
    ASSUME IndInv, UNCHANGED vars
    PROVE  IndInv'
<1>. USE DEF IndInv, vars
<1>1. TypeOK'
  BY DEF TypeOK
<1>2. VotesJustified'
  BY DEF VotesJustified, Justified, Certified, Signatories, TimedOut, TimeoutSignatories
<1>3. OneVotePerRound' /\ TimeoutsRecorded' /\ TimeoutCoversVotes'
  BY DEF OneVotePerRound, TimeoutsRecorded, TimeoutCoversVotes
<1>4. VotesExtendFinalizable'
  BY DEF VotesExtendFinalizable, Voted, Refused, Consecutive
<1>. QED
  BY <1>1, <1>2, <1>3, <1>4

(* The invariant is inductive: every behaviour of the finalizers keeps it. *)
THEOREM Inductive == Spec => []IndInv
<1>1. IndInv /\ [Next]_vars => IndInv'
  BY VotePreserves, TimeoutPreserves, StutterPreserves DEF Next
<1>. QED
  BY <1>1, InitIndInv, PTL DEF Spec

(* Type correctness of the signing records (PersistentRoundStatus). *)
THEOREM TypeCorrect == Spec => []TypeOK
BY Inductive, PTL DEF IndInv

(* No round has two certificates, whatever the dishonest finalizers sign
   (checkQuorumCertificate with the threshold of the committee). *)
THEOREM CertificatesUnique == Spec => []OneCertificatePerRound
<1>1. IndInv => OneCertificatePerRound
  BY CertifiedUnique DEF IndInv, OneCertificatePerRound
<1>. QED
  BY <1>1, Inductive, PTL

(* A timeout message names a QC no lower than any its signer has relied on
   (uponTimeoutEvent). *)
THEOREM TimeoutsCoverVotes == Spec => []TimeoutCoversVotes
BY Inductive, PTL DEF IndInv

(* Agreement: a certified block is on the chain of every block finalized in
   its round or before (checkFinality in processCertifiedBlock). *)
THEOREM Agreement == Spec => []CertifiedExtendsFinalized
<1>1. ASSUME IndInv, NEW b \in Blocks, Finalized(b),
             NEW c \in Blocks, Round[b] <= Round[c], Certified(c)
      PROVE  b \in Ancestors[c]
  <2>1. PICK d \in Blocks \ {Genesis} : Parent[d] = b /\ Round[d] = Round[b] + 1 /\ Certified(d)
    BY <1>1 DEF Finalized
  <2>2. Round[b] \in Nat /\ Round[c] \in Nat /\ Round[d] \in Nat
    BY BlockAssumption
  <2>3. CASE Round[c] = Round[b]
    <3>1. c = b
      BY <2>3, <1>1, CertifiedUnique DEF IndInv, Finalized
    <3>. QED
      BY <3>1, AncestorsOfParent
  <2>4. CASE Round[c] = Round[d]
    <3>1. c = d
      BY <2>4, <2>1, <1>1, CertifiedUnique DEF IndInv
    <3>. QED
      BY <3>1, <2>1, AncestorsOfParent
  <2>5. CASE Round[d] < Round[c]
    <3>0. Round[c] # 0
      BY <2>5, <2>2
    <3>1. c # Genesis
      BY <3>0, BlockAssumption
    <3>2. Voted(c)
      BY <3>1, <1>1, CertifiedHasVote
    <3>3. Consecutive(d)
      BY <2>1 DEF Consecutive
    <3>4. b \in Ancestors[c] \/ Refused(d)
      BY <3>2, <3>3, <2>1, <2>5, <1>1 DEF IndInv, VotesExtendFinalizable
    <3>. QED
      BY <3>4, <2>1, RefusedNotCertified
  <2>. QED
    BY <2>1, <2>2, <2>3, <2>4, <2>5, <1>1
<1>2. IndInv => CertifiedExtendsFinalized
  BY <1>1 DEF CertifiedExtendsFinalized
<1>. QED
  BY <1>2, Inductive, PTL
=============================================================================
