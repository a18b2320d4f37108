---------------------------- MODULE Certificates ----------------------------
(***************************************************************************)
(* Finalization committees, and how the weight behind a certificate is     *)
(* counted: when a node assembles one from the messages it holds, and when *)
(* it checks one that it was given.  A committee is a sequence of          *)
(* [id, weight] records in ascending order of baker id; a finalizer index  *)
(* is a position in it.  The signature threshold is a fraction.            *)
(***************************************************************************)
EXTENDS Integers, Sequences, FiniteSets, FiniteSetsExt, SequencesExt

CONSTANTS
    Committee,          \* epoch -> finalization committee
    ThresholdNum,       \* genesisSignatureThreshold = ThresholdNum / ThresholdDen
    ThresholdDen

ASSUME CommitteesAssumption ==
    \A e \in DOMAIN Committee : Committee[e] \in Seq([id : Nat, weight : Nat])

ASSUME CommitteesSorted ==
    \A e \in DOMAIN Committee : \A i, j \in DOMAIN Committee[e] :
        i < j => Committee[e][i].id < Committee[e][j].id

ASSUME ThresholdAssumption ==
    /\ ThresholdNum \in Nat \ {0}
    /\ ThresholdDen \in Nat \ {0}
    /\ ThresholdNum <= ThresholdDen

Ids(c) == {c[i].id : i \in DOMAIN c}

committeeTotalWeight(c) == MapThenSumSet(LAMBDA i : c[i].weight, DOMAIN c)

(* The weight in c of the members named in the set ids: the reference for
   every way of counting. *)
SignedWeight(c, ids) ==
    MapThenSumSet(LAMBDA i : c[i].weight, {i \in DOMAIN c : c[i].id \in ids})

ReachesThreshold(weight, c) ==
    weight * ThresholdDen >= ThresholdNum * committeeTotalWeight(c)

(* finalizerByIndex over a set of indices, in ascending order; an index
   outside the committee gives nothing. *)
bakerIdsFor(c, indices) ==
    LET members == SelectSeq([i \in DOMAIN c |-> [ix |-> i, id |-> c[i].id]],
                             LAMBDA m : m.ix \in indices)
    IN  [i \in DOMAIN members |-> members[i].id]

(* One pass over the committee, consuming the list of baker ids from its
   head: an id that is not met stays at the head and stops the counting. *)
weightInPass(c, bids) ==
    LET step(acc, fin) ==
            IF acc.bids # <<>> /\ Head(acc.bids) = fin.id
            THEN [sum |-> acc.sum + fin.weight, bids |-> Tail(acc.bids)]
            ELSE acc
    IN  FoldLeft(step, [sum |-> 0, bids |-> bids], c).sum

(* Data.List.union: what is new in ys goes after xs. *)
listUnion(xs, ys) == xs \o SelectSeq(ys, LAMBDA y : ~Contains(xs, y))

(* Set.toAscList *)
ascending(S) == SetToSortSeq(S, <)
=============================================================================
