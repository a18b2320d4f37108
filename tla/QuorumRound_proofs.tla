------------------------- MODULE QuorumRound_proofs -------------------------
(***************************************************************************)
(* Proofs about QuorumRound, for any committees, blocks and order of       *)
(* messages: the weight that is accumulated for a block is that of its     *)
(* signatories, so that a certificate that is made is accepted and none is *)
(* missed, as long as the committee of the epoch that the round moves into *)
(* weighs as much as that of the blocks.                                   *)
(***************************************************************************)
EXTENDS QuorumRound, FoldTheorems, SequenceTheorems

(* The committee of a block. *)
Of(b) == Committee[BlockEpoch[b]]

(* What is accumulated for a block: every signatory is in the aggregate, and
   the weight is that of the signatories, or more if one is in it twice. *)
Kept(b, a) ==
    /\ a.weight \in Nat /\ a.signatories \subseteq DOMAIN Of(b)
    /\ a.signature = [i \in a.signatories |-> a.signature[i]]
    /\ \A i \in a.signatories : a.signature[i] \in Nat \ {0}
    /\ WeightAt(Of(b), a.signatories) <= a.weight
    /\ (\A i \in a.signatories : a.signature[i] = 1) => a.weight = WeightAt(Of(b), a.signatories)

(* The inductive invariant: besides this, the signatories are those whose
   messages were delivered, and a certificate is made of what is accumulated
   for a block of an epoch that has begun. *)
Inv ==
    /\ currentEpoch \in {FirstEpoch, FirstEpoch + 1} \cap DOMAIN Committee
    /\ delivered \subseteq QuorumMessage
    /\ accumulated = [b \in Blocks |-> accumulated[b]]
    /\ \A b \in Blocks :
        /\ Kept(b, accumulated[b])
        /\ accumulated[b].signatories = {m.ix : m \in {m \in delivered : m.block = b}}
    /\ qc = Absent \/ \E b \in Blocks :
        /\ qc = [block |-> b, signature |-> accumulated[b].signature, signatories |-> accumulated[b].signatories]
        /\ BlockEpoch[b] <= currentEpoch
        /\ ReachesThreshold(accumulated[b].weight, Committee[currentEpoch])
-----------------------------------------------------------------------------
(* A committee is a finite sequence of members with weights. *)
LEMMA CommitteeWeights ==
    ASSUME NEW b \in Blocks
    PROVE  /\ IsFiniteSet(DOMAIN Of(b)) /\ DOMAIN Of(b) \subseteq Nat
           /\ \A i \in DOMAIN Of(b) : Of(b)[i].weight \in Nat /\ Of(b)[i].id \in Nat
<1>1. BlockEpoch[b] \in DOMAIN Committee
  BY BlocksAssumption
<1>2. Of(b) \in Seq([id : Nat, weight : Nat])
  BY <1>1, CommitteesAssumption DEF Of
<1>3. DOMAIN Of(b) = 1 .. Len(Of(b)) /\ Len(Of(b)) \in Nat
  BY <1>2
<1>4. IsFiniteSet(1 .. Len(Of(b)))
  BY <1>3, FS_Interval
<1>5. \A i \in DOMAIN Of(b) : Of(b)[i] \in [id : Nat, weight : Nat]
  BY <1>2, <1>3, ElementOfSeq
<1> QED BY <1>3, <1>4, <1>5

(* The weight of every subset of its positions is a number. *)
LEMMA SubsetWeights ==
    ASSUME NEW b \in Blocks, NEW S \in SUBSET DOMAIN Of(b)
    PROVE  IsFiniteSet(S) /\ WeightAt(Of(b), S) \in Nat
<1>1. IsFiniteSet(S)
  BY CommitteeWeights, FS_Subset
<1>2. \A i \in S : Of(b)[i].weight \in Nat
  BY CommitteeWeights
<1> QED BY <1>1, <1>2, WeightAtChosen

(* The members have different ids: the weight of the ids of some of them is
   that of their positions. *)
LEMMA SignedWeightIsWeightAt ==
    ASSUME NEW b \in Blocks, NEW S \in SUBSET DOMAIN Of(b)
    PROVE  SignedWeight(Of(b), {Of(b)[i].id : i \in S}) = WeightAt(Of(b), S)
<1> DEFINE c == Of(b)
           T == {i \in DOMAIN c : c[i].id \in {c[j].id : j \in S}}
<1>1. BlockEpoch[b] \in DOMAIN Committee
  BY BlocksAssumption
<1>2. \A i, j \in DOMAIN c : i < j => c[i].id < c[j].id
  BY <1>1, CommitteesSorted DEF Of
<1>3. \A i, j \in DOMAIN c : c[i].id = c[j].id => i = j
  BY <1>2, CommitteeWeights
<1>4. T = S
  BY <1>3
<1> QED BY <1>4 DEF SignedWeight, WeightAt

(* One more message. *)
LEMMA AddKept ==
    ASSUME NEW b \in Blocks, NEW a, Kept(b, a), NEW ix \in DOMAIN Of(b)
    PROVE  Kept(b, [weight |-> a.weight + Of(b)[ix].weight,
                    signature |-> addSignature(a.signature, ix),
                    signatories |-> a.signatories \cup {ix}])
<1> DEFINE w == a.weight + Of(b)[ix].weight
           S == a.signatories \cup {ix}
           s == addSignature(a.signature, ix)
<1>1. Of(b)[ix].weight \in Nat /\ w \in Nat /\ S \in SUBSET DOMAIN Of(b)
  BY CommitteeWeights DEF Kept
<1>2. DOMAIN a.signature = a.signatories
  BY DEF Kept
<1>3. s = [j \in S |-> (IF j \in a.signatories THEN a.signature[j] ELSE 0) + (IF j = ix THEN 1 ELSE 0)]
  BY <1>2 DEF addSignature
<1>4. \A j \in S : s[j] \in Nat \ {0}
  <2> SUFFICES ASSUME NEW j \in S PROVE s[j] \in Nat \ {0}
    OBVIOUS
  <2>1. s[j] = (IF j \in a.signatories THEN a.signature[j] ELSE 0) + (IF j = ix THEN 1 ELSE 0)
    BY <1>3
  <2> HIDE DEF s
  <2>2. CASE j \in a.signatories
    <3>1. a.signature[j] \in Nat \ {0}
      BY <2>2 DEF Kept
    <3> QED BY <2>1, <2>2, <3>1
  <2>3. CASE j \notin a.signatories
    BY <2>1, <2>3
  <2> QED BY <2>2, <2>3
<1>5. s = [j \in S |-> s[j]]
  BY <1>3
<1>6. /\ WeightAt(Of(b), S) <= w
      /\ (\A j \in S : s[j] = 1) => w = WeightAt(Of(b), S)
  <2>1. WeightAt(Of(b), a.signatories) \in Nat /\ IsFiniteSet(a.signatories) /\ a.weight \in Nat
        /\ WeightAt(Of(b), a.signatories) <= a.weight
    BY SubsetWeights DEF Kept
  <2>2. CASE ix \in a.signatories
    <3>1. S = a.signatories
      BY <2>2
    <3>2. s[ix] = a.signature[ix] + 1 /\ a.signature[ix] \in Nat \ {0}
      BY <1>3, <2>2 DEF Kept
    <3>3. s[ix] # 1 /\ ix \in S
      <4> HIDE DEF s
      <4> QED BY <3>2
    <3>4. WeightAt(Of(b), S) = WeightAt(Of(b), a.signatories)
      BY <3>1
    <3>5. WeightAt(Of(b), S) <= w
      <4> HIDE DEF S
      <4> QED BY <1>1, <2>1, <3>4
    <3> QED BY <3>3, <3>5
  <2>3. CASE ix \notin a.signatories
    <3>1. \A i \in a.signatories \cup {ix} : Of(b)[i].weight \in Nat
      BY <1>1, CommitteeWeights
    <3>2. WeightAt(Of(b), S) = WeightAt(Of(b), a.signatories) + Of(b)[ix].weight
      BY <2>1, <2>3, <3>1, WeightAtAdd
    <3>3. ASSUME \A j \in S : s[j] = 1 PROVE \A j \in a.signatories : a.signature[j] = 1
      <4> SUFFICES ASSUME NEW j \in a.signatories PROVE a.signature[j] = 1
        OBVIOUS
      <4>1. j # ix /\ s[j] = 1 /\ a.signature[j] \in Nat
        BY <2>3, <3>3 DEF Kept
      <4>2. s[j] = a.signature[j] + 0
        BY <1>3, <4>1
      <4> QED BY <4>1, <4>2
    <3>4. (\A j \in S : s[j] = 1) => a.weight = WeightAt(Of(b), a.signatories)
      BY <3>3 DEF Kept
    <3> HIDE DEF s
    <3> QED BY <1>1, <2>1, <3>2, <3>4
  <2> QED BY <2>2, <2>3
<1> HIDE DEF s
<1> QED BY <1>1, <1>4, <1>5, <1>6 DEF Kept, s
-----------------------------------------------------------------------------
(* A round starts with nothing. *)
LEMMA InvInit == Init => Inv
<1> SUFFICES ASSUME Init PROVE Inv
  OBVIOUS
<1>1. accumulated = [b \in Blocks |-> Nothing] /\ delivered = {} /\ qc = Absent /\ currentEpoch = FirstEpoch
  BY DEF Init
<1>2. ASSUME NEW b \in Blocks PROVE Kept(b, Nothing)
  <2>1. {} \in SUBSET DOMAIN Of(b) /\ IsFiniteSet({}) /\ \A i \in {} : Of(b)[i].weight \in Nat
    BY FS_EmptySet
  <2>2. WeightAt(Of(b), {}) = 0
    BY <2>1, WeightAtChosen
  <2>3. Nothing.weight = 0 /\ Nothing.signatories = {} /\ Nothing.signature = <<>>
    BY DEF Nothing
  <2>4. <<>> = [i \in {} |-> <<>>[i]]
    OBVIOUS
  <2> QED BY <2>2, <2>3, <2>4 DEF Kept
<1>3. \A b \in Blocks : accumulated[b] = Nothing
  BY <1>1
<1>4. \A b \in Blocks : accumulated[b].signatories = {m.ix : m \in {m \in delivered : m.block = b}}
  BY <1>1, <1>3 DEF Nothing
<1>5. FirstEpoch \in DOMAIN Committee
  BY BlocksAssumption
<1> QED BY <1>1, <1>2, <1>3, <1>4, <1>5 DEF Inv

(* The advance of the epoch leaves what is accumulated alone. *)
LEMMA InvAdvanceEpoch == Inv /\ AdvanceEpoch => Inv'
<1> SUFFICES ASSUME Inv, AdvanceEpoch PROVE Inv'
  OBVIOUS
<1>1. UNCHANGED <<accumulated, delivered, qc>> /\ qc = Absent
      /\ currentEpoch' \in {FirstEpoch, FirstEpoch + 1} \cap DOMAIN Committee
  BY DEF AdvanceEpoch
<1> QED BY <1>1 DEF Inv

(* A message is accumulated for its block (receiveQuorumMessage and
   processQuorumMessage), and a certificate made of it if there is enough. *)
LEMMA InvReceiveQuorumMessage ==
    ASSUME Inv, NEW qm \in QuorumMessage, ReceiveQuorumMessage(qm)
    PROVE  Inv'
<1> DEFINE b == qm.block
           new == [weight |-> accumulated[b].weight + Of(b)[qm.ix].weight,
                   signature |-> addSignature(accumulated[b].signature, qm.ix),
                   signatories |-> accumulated[b].signatories \cup {qm.ix}]
<1>1. b \in Blocks /\ qm.ix \in DOMAIN Of(b)
  BY DEF QuorumMessage, Of
<1>2. /\ accumulated' = [accumulated EXCEPT ![b] = new] /\ delivered' = delivered \cup {qm}
      /\ qc' = makeQuorumCertificate(b, accumulated') /\ currentEpoch' = currentEpoch
      /\ BlockEpoch[b] <= currentEpoch
  BY DEF ReceiveQuorumMessage, addQuorumMessage, Finalizer, Of
<1>3. Kept(b, new)
  BY <1>1, AddKept DEF Inv
<1>4. new.signatories = accumulated[b].signatories \cup {qm.ix}
  OBVIOUS
<1> HIDE DEF new
<1>5. /\ accumulated' = [d \in Blocks |-> accumulated'[d]] /\ accumulated'[b] = new
      /\ \A d \in Blocks \ {b} : accumulated'[d] = accumulated[d]
  BY <1>1, <1>2 DEF Inv
<1>6. \A d \in Blocks : Kept(d, accumulated'[d])
  BY <1>3, <1>5 DEF Inv
<1>7. ASSUME NEW d \in Blocks
      PROVE  accumulated'[d].signatories = {m.ix : m \in {m \in delivered' : m.block = d}}
  <2>1. accumulated[d].signatories = {m.ix : m \in {m \in delivered : m.block = d}}
    BY DEF Inv
  <2>2. CASE d = b
    BY <1>2, <1>4, <1>5, <2>1, <2>2
  <2>3. CASE d # b
    BY <1>2, <1>5, <2>1, <2>3
  <2> QED BY <2>2, <2>3
<1>8. qc' = Absent \/ \E d \in Blocks :
        /\ qc' = [block |-> d, signature |-> accumulated'[d].signature,
                  signatories |-> accumulated'[d].signatories]
        /\ BlockEpoch[d] <= currentEpoch'
        /\ ReachesThreshold(accumulated'[d].weight, Committee[currentEpoch'])
  BY <1>1, <1>2 DEF makeQuorumCertificate
<1>9. delivered' \subseteq QuorumMessage /\ currentEpoch' \in {FirstEpoch, FirstEpoch + 1} \cap DOMAIN Committee
  BY <1>2 DEF Inv
<1> QED BY <1>5, <1>6, <1>7, <1>8, <1>9 DEF Inv

(* No step leaves the inductive invariant. *)
LEMMA InvNext == Inv /\ [Next]_vars => Inv'
<1> SUFFICES ASSUME Inv, [Next]_vars PROVE Inv'
  OBVIOUS
<1>1. ASSUME NEW qm \in QuorumMessage, ReceiveQuorumMessage(qm) PROVE Inv'
  BY <1>1, InvReceiveQuorumMessage
<1>2. CASE AdvanceEpoch
  BY <1>2, InvAdvanceEpoch
<1>3. CASE UNCHANGED vars
  BY <1>3 DEF Inv, vars
<1> QED BY <1>1, <1>2, <1>3 DEF Next

(* The inductive invariant holds in every state of a round. *)
THEOREM InvHolds == Spec => []Inv
<1> QED BY InvInit, InvNext, PTL DEF Spec
-----------------------------------------------------------------------------
(* The total weight of a committee is a number. *)
LEMMA TotalWeight ==
    ASSUME NEW e \in DOMAIN Committee
    PROVE  committeeTotalWeight(Committee[e]) \in Nat
<1> DEFINE c == Committee[e]
<1>1. c \in Seq([id : Nat, weight : Nat])
  BY CommitteesAssumption
<1>2. DOMAIN c = 1 .. Len(c) /\ Len(c) \in Nat
  BY <1>1
<1>3. IsFiniteSet(DOMAIN c)
  BY <1>2, FS_Interval
<1> HIDE DEF c
<1>4. \A i \in DOMAIN c : c[i].weight \in Nat
  <2>1. \A i \in DOMAIN c : c[i] \in [id : Nat, weight : Nat]
    BY <1>1, <1>2, ElementOfSeq
  <2> QED BY <2>1
<1>5. WeightAt(c, DOMAIN c) \in Nat
  BY <1>3, <1>4, WeightAtChosen
<1> QED BY <1>5 DEF WeightAt, committeeTotalWeight, c

(* A weight that reaches the threshold of a committee reaches that of one
   that weighs no more. *)
LEMMA LighterThreshold ==
    ASSUME NEW w \in Nat, NEW d \in DOMAIN Committee, NEW e \in DOMAIN Committee,
           committeeTotalWeight(Committee[d]) <= committeeTotalWeight(Committee[e]),
           ReachesThreshold(w, Committee[e])
    PROVE  ReachesThreshold(w, Committee[d])
<1> DEFINE t == committeeTotalWeight(Committee[d])
           u == committeeTotalWeight(Committee[e])
<1>1. t \in Nat /\ u \in Nat /\ t <= u /\ w * ThresholdDen >= ThresholdNum * u
  BY TotalWeight DEF ReachesThreshold
<1>2. ThresholdNum \in Nat /\ ThresholdDen \in Nat /\ w * ThresholdDen \in Int
  BY ThresholdAssumption
<1> HIDE DEF t, u
<1>3. ThresholdNum * t <= ThresholdNum * u
  BY <1>1, <1>2
<1>4. ThresholdNum * t \in Int /\ ThresholdNum * u \in Int
  BY <1>1, <1>2
<1>5. w * ThresholdDen >= ThresholdNum * t
  BY <1>1, <1>2, <1>3, <1>4
<1> QED BY <1>5 DEF ReachesThreshold, t

(* The committee of an epoch that the round is in weighs no less, or no more,
   than those of the blocks that are certified in it. *)
NoLighter ==
    \A b \in Blocks, e \in {FirstEpoch, FirstEpoch + 1} \cap DOMAIN Committee :
        BlockEpoch[b] <= e => committeeTotalWeight(Of(b)) <= committeeTotalWeight(Committee[e])

NoHeavier ==
    \A b \in Blocks, e \in {FirstEpoch, FirstEpoch + 1} \cap DOMAIN Committee :
        BlockEpoch[b] <= e => committeeTotalWeight(Committee[e]) <= committeeTotalWeight(Of(b))

(* A certificate that the node makes is one that every node accepts, unless a
   signature is in its aggregate twice, for any committees of which the one
   the round moves into is not lighter than that of the blocks
   (makeQuorumCertificate against checkQuorumCertificate). *)
THEOREM CertificateAcceptedIfOnceHolds ==
    ASSUME NoLighter
    PROVE  Spec => []CertificateAcceptedIfOnce
<1>1. Inv => CertificateAcceptedIfOnce
  <2> SUFFICES ASSUME Inv, qc # Absent, \A i \in DOMAIN qc.signature : qc.signature[i] = 1
               PROVE  checkQuorumCertificate(qc)
    BY DEF CertificateAcceptedIfOnce
  <2>1. PICK b \in Blocks :
          /\ qc = [block |-> b, signature |-> accumulated[b].signature, signatories |-> accumulated[b].signatories]
          /\ BlockEpoch[b] <= currentEpoch
          /\ ReachesThreshold(accumulated[b].weight, Committee[currentEpoch])
    BY DEF Inv
  <2> DEFINE S == accumulated[b].signatories
  <2>2. Kept(b, accumulated[b])
    BY DEF Inv
  <2>3. qc.block = b /\ qc.signatories = S /\ qc.signature = accumulated[b].signature
    BY <2>1
  <2>4. qc.signature = [i \in S |-> qc.signature[i]]
    BY <2>2, <2>3 DEF Kept
  <2>5. qc.signature = [i \in qc.signatories |-> 1]
    BY <2>3, <2>4
  <2>6. accumulated[b].weight = WeightAt(Of(b), S) /\ S \in SUBSET DOMAIN Of(b) /\ accumulated[b].weight \in Nat
    BY <2>2, <2>3, <2>4 DEF Kept
  <2>7. BlockEpoch[b] \in DOMAIN Committee /\ currentEpoch \in DOMAIN Committee
        /\ committeeTotalWeight(Of(b)) <= committeeTotalWeight(Committee[currentEpoch])
    BY <2>1, BlocksAssumption DEF Inv, NoLighter
  <2>8. ReachesThreshold(accumulated[b].weight, Of(b))
    BY <2>1, <2>6, <2>7, LighterThreshold DEF Of
  <2>9. ReachesThreshold(SignedWeight(Of(b), {Of(b)[i].id : i \in S}), Of(b))
    BY <2>6, <2>8, SignedWeightIsWeightAt
  <2> HIDE DEF S
  <2> QED BY <2>3, <2>5, <2>9 DEF checkQuorumCertificate, Of
<1> QED BY <1>1, InvHolds, PTL

(* While the round goes on, no block has accumulated enough for its committee. *)
Short == qc = Absent => \A b \in Blocks : ~ReachesThreshold(accumulated[b].weight, Of(b))

(* No committee is without weight. *)
SomeWeight == \A b \in Blocks : committeeTotalWeight(Of(b)) > 0

(* Every message keeps a block short of its threshold, unless it makes the certificate. *)
LEMMA ShortNext ==
    ASSUME Inv, Short, [Next]_vars, NoHeavier
    PROVE  Short'
<1>1. ASSUME NEW qm \in QuorumMessage, ReceiveQuorumMessage(qm) PROVE Short'
  <2> SUFFICES ASSUME qc' = Absent, NEW d \in Blocks
               PROVE  ~ReachesThreshold(accumulated'[d].weight, Of(d))
    BY DEF Short, Of, ReachesThreshold
  <2> DEFINE b == qm.block
  <2>1. b \in Blocks
    BY DEF QuorumMessage
  <2>2. /\ qc = Absent /\ qc' = makeQuorumCertificate(b, accumulated') /\ currentEpoch' = currentEpoch
        /\ BlockEpoch[b] <= currentEpoch
    BY <1>1 DEF ReceiveQuorumMessage
  <2>3. CASE d # b
    <3>1. accumulated'[d] = accumulated[d]
      BY <1>1, <2>3 DEF ReceiveQuorumMessage, addQuorumMessage, Inv
    <3> QED BY <2>2, <3>1 DEF Short
  <2>4. CASE d = b
    <3>1. [block |-> b, signature |-> accumulated'[b].signature, signatories |-> accumulated'[b].signatories] # Absent
      <4>1. "block" \notin DOMAIN Absent
        BY DEF Absent
      <4> QED BY <4>1
    <3>2. ~ReachesThreshold(accumulated'[b].weight, Committee[currentEpoch])
      BY <2>2, <3>1 DEF makeQuorumCertificate
    <3>3. accumulated'[b].weight \in Nat
      BY <1>1, <2>1, InvReceiveQuorumMessage DEF Inv, Kept
    <3>4. BlockEpoch[b] \in DOMAIN Committee /\ currentEpoch \in DOMAIN Committee
          /\ committeeTotalWeight(Committee[currentEpoch]) <= committeeTotalWeight(Of(b))
      BY <2>1, <2>2, BlocksAssumption DEF Inv, NoHeavier
    <3>5. ReachesThreshold(accumulated'[b].weight, Of(b)) =>
            ReachesThreshold(accumulated'[b].weight, Committee[currentEpoch])
      BY <3>3, <3>4, LighterThreshold DEF Of
    <3> QED BY <2>4, <3>2, <3>5
  <2> QED BY <2>3, <2>4
<1>2. CASE AdvanceEpoch \/ UNCHANGED vars
  BY <1>2 DEF AdvanceEpoch, vars, Short
<1> QED BY <1>1, <1>2 DEF Next

(* No certificate is missed: while the round goes on, the messages the node
   was given for a block do not reach the threshold of its committee, for any
   committees with some weight of which the one the round moves into is not
   heavier than that of the blocks (processQuorumMessage). *)
THEOREM CertificateNotMissedHolds ==
    ASSUME NoHeavier, SomeWeight
    PROVE  Spec => []CertificateNotMissed
<1>1. Init => Short
  <2> SUFFICES ASSUME Init, NEW b \in Blocks PROVE ~ReachesThreshold(accumulated[b].weight, Of(b))
    BY DEF Short
  <2> DEFINE t == committeeTotalWeight(Of(b))
  <2>1. accumulated[b].weight = 0
    BY DEF Init, Nothing
  <2>2. t \in Nat /\ t > 0
    BY BlocksAssumption, TotalWeight DEF SomeWeight, Of
  <2>3. ThresholdNum \in Nat \ {0} /\ ThresholdDen \in Nat
    BY ThresholdAssumption
  <2> HIDE DEF t
  <2>4. ThresholdNum * t > 0 /\ 0 * ThresholdDen = 0
    BY <2>2, <2>3
  <2>5. ~(0 * ThresholdDen >= ThresholdNum * t)
    BY <2>2, <2>3, <2>4
  <2> QED BY <2>1, <2>5 DEF ReachesThreshold, t
<1>2. Inv /\ Short /\ [Next]_vars => Short'
  BY ShortNext
<1>3. Inv /\ Short => CertificateNotMissed
  <2> SUFFICES ASSUME Inv, Short, qc = Absent, NEW b \in Blocks,
                      ReachesThreshold(SignedWeight(Of(b),
                          {Of(b)[qm.ix].id : qm \in {m \in delivered : m.block = b}}), Of(b))
               PROVE  FALSE
    BY DEF CertificateNotMissed, Of
  <2> DEFINE S == accumulated[b].signatories
             w == accumulated[b].weight
             v == WeightAt(Of(b), S)
             t == committeeTotalWeight(Of(b))
  <2>1. Kept(b, accumulated[b]) /\ S = {m.ix : m \in {m \in delivered : m.block = b}}
    BY DEF Inv
  <2>2. {Of(b)[qm.ix].id : qm \in {m \in delivered : m.block = b}} = {Of(b)[i].id : i \in S}
    BY <2>1
  <2>3. S \in SUBSET DOMAIN Of(b) /\ v <= w /\ w \in Nat
    BY <2>1 DEF Kept
  <2>4. v \in Nat
    BY <2>3, SubsetWeights
  <2>5. v * ThresholdDen >= ThresholdNum * t
    BY <2>2, <2>3, SignedWeightIsWeightAt DEF ReachesThreshold
  <2>6. ~(w * ThresholdDen >= ThresholdNum * t)
    BY DEF Short, ReachesThreshold
  <2>7. t \in Nat /\ ThresholdNum \in Nat /\ ThresholdDen \in Nat
    BY BlocksAssumption, TotalWeight, ThresholdAssumption DEF Of
  <2> HIDE DEF S, v, w, t
  <2>8. v * ThresholdDen <= w * ThresholdDen
    BY <2>3, <2>4, <2>7
  <2>9. v * ThresholdDen \in Int /\ w * ThresholdDen \in Int /\ ThresholdNum * t \in Int
    BY <2>3, <2>4, <2>7
  <2> QED BY <2>5, <2>6, <2>8, <2>9
<1> QED BY <1>1, <1>2, <1>3, InvHolds, PTL DEF Spec
=============================================================================
