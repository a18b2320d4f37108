-------------------------- MODULE MC_TimeoutRound --------------------------
(* Four finalizers per epoch, threshold 2/3, QCs of three epochs.  The
   committee changes after epoch 0, or after epoch 1 and with it the weights. *)
EXTENDS TimeoutRound

MCQCs == {[round |-> 0, epoch |-> 0], [round |-> 2, epoch |-> 1],
          [round |-> 3, epoch |-> 1], [round |-> 4, epoch |-> 2]}
MCGenesisQC == [round |-> 0, epoch |-> 0]

Members(ids) == [i \in DOMAIN ids |-> [id |-> ids[i], weight |-> 1]]

Early == Members(<<1, 2, 3, 5>>)
Late == Members(<<2, 3, 4, 5>>)
ChangeAfterEpoch0 == [e \in 0 .. 2 |-> IF e = 0 THEN Early ELSE Late]
ChangeAfterEpoch1 ==
    [e \in 0 .. 2 |-> IF e <= 1 THEN Early ELSE [i \in 1 .. 4 |->
        [id |-> Late[i].id, weight |-> IF i <= 2 THEN 2 ELSE 1]]]
=============================================================================
