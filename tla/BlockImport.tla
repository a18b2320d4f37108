---------------------------- MODULE BlockImport -----------------------------
(***************************************************************************)
(* The out-of-band catch-up: before it goes on the network, a node imports *)
(* blocks from a file or from the chunks that an index on a server lists   *)
(* (bin/cli.rs; ImportExport.hs and MultiVersion.hs for the files).        *)
(*                                                                         *)
(* The chain is a sequence of periods, each from one genesis to the next,  *)
(* and heights count from the genesis of the period.  A period ends when   *)
(* its last block is finalized.  The finalization entries are those of     *)
(* ConcordiumBFT, one at the end of a period.                              *)
(***************************************************************************)
EXTENDS Naturals, Sequences, SequencesExt

CONSTANTS
    Periods,        \* the height of the last exported block of each period
    ChunkSize

ASSUME ImportAssumption == Periods \in Seq(Nat \ {0}) /\ Periods # <<>> /\ ChunkSize \in Nat \ {0}

VARIABLES
    import          \* at: where it is; next: the next chunk of the index; todo: what is left of a file;
                    \* mayskip, base: as in import_missing_blocks; have: the blocks of the node;
                    \* stop: 1 when import_stopped is set, 2 when the consensus is told too;
                    \* troubled: a download failed or was cut short

(* The file of a chunk, and its line in the index.  exportBlocksToChunk writes
   one block more than it counts if there is one; the next chunk repeats it. *)
exportBlocksToChunk(first, last) ==
    [blocks |-> SetToSortSeq(first..Min({first + ChunkSize, last}), <), count |-> Min({ChunkSize, last - first + 1})]

chunk(gen, first, last) ==
    LET written == exportBlocksToChunk(first, last)
        lastExported == first + written.count - 1
        fin == IF lastExported < last THEN 0 ELSE 1
    IN  [gen |-> gen, last |-> lastExported, blockCount |-> written.count, finCount |-> fin,
         data |-> IF fin = 1 THEN Append(written.blocks, last) ELSE written.blocks]

writeChunks(gen) ==
    [i \in 1..((Periods[gen] + ChunkSize - 1) \div ChunkSize) |-> chunk(gen, 1 + (i - 1) * ChunkSize, Periods[gen])]

Index == FlattenSeq([gen \in DOMAIN Periods |-> writeChunks(gen)])

(* "unexpected end of file" *)
EndOfFile == [gen |-> 0, kind |-> "eof", height |-> 0]

(* What importBlocksV3 reads of a file: as many blocks and finalization entries
   as the header says.  The rest is skipped. *)
items(c) ==
    [i \in 1..(c.blockCount + c.finCount) |->
        [gen |-> c.gen, kind |-> IF i <= c.blockCount THEN "block" ELSE "fin", height |-> c.data[i]]]
-----------------------------------------------------------------------------
(* A node has finalized blocks and perhaps one more; the last block of a
   period that is not the latest is not finalized, or it would be in the next. *)
Positions ==
    {p \in [gen : DOMAIN Periods, final : 0..Max(ToSet(Periods)), height : 0..Max(ToSet(Periods))] :
        /\ p.final < Periods[p.gen] \/ (p.gen = Len(Periods) /\ p.final = Periods[p.gen])
        /\ p.height \in p.final..Min({p.final + 1, Periods[p.gen]})}

NoImport ==
    LET genesis == [gen |-> 1, height |-> 0, final |-> 0]
    IN  [at |-> "done", next |-> 1, todo |-> <<>>, mayskip |-> TRUE, base |-> genesis, have |-> genesis,
         stop |-> 0, troubled |-> TRUE]

(* maybe_do_out_of_band_catchup: from a file, from an index, or not at all. *)
InitImport ==
    import \in {NoImport}
       \cup {[NoImport EXCEPT !.at = "blocks", !.next = Len(Index) + 1, !.have = p, !.todo = items(Index[i])]
                : p \in Positions, i \in DOMAIN Index}
       \cup {[NoImport EXCEPT !.at = "index", !.have = p, !.troubled = FALSE] : p \in Positions}

(* import_missing_blocks up to its loop: the index may be missing or wrong. *)
ReadIndex ==
    /\ import.at = "index"
    /\ import' \in {[import EXCEPT !.at = "chunk", !.base = import.have],
                    [import EXCEPT !.at = "done", !.troubled = TRUE]}

(* download_chunk: a whole file, an error, or, since an error of the stream
   ends the loop like the end of the file, a part of it. *)
download_chunk(c) ==
    {[at |-> "blocks", todo |-> items(c), troubled |-> FALSE], [at |-> "done", todo |-> <<>>, troubled |-> TRUE],
     [at |-> "blocks", todo |-> <<>>, troubled |-> TRUE]} \cup
    {[at |-> "blocks", todo |-> Append(SubSeq(items(c), 1, i), EndOfFile), troubled |-> TRUE]
        : i \in 0..(Len(items(c)) - 1)}

skips_always(c) == c.gen < import.base.gen \/ c.last <= import.base.final
skips(c) == import.mayskip /\ (c.gen < import.base.gen \/ c.last <= import.base.final)

(* The loop of import_missing_blocks. *)
NextChunk ==
    /\ import.at = "chunk"
    /\ IF import.next > Len(Index) \/ import.stop > 0
       THEN import' = [import EXCEPT !.at = "done"]
       ELSE IF skips(Index[import.next])
       THEN import' = [import EXCEPT !.next = @ + 1]
       ELSE \E file \in download_chunk(Index[import.next]) :
                import' = [import EXCEPT !.next = @ + 1, !.mayskip = FALSE, !.at = file.at, !.todo = file.todo,
                                         !.troubled = @ \/ file.troubled]

(* receiveExecuteBlock: the positions a block leads to, none for an error.  A
   block of an earlier period and one that is there already are no error. *)
receiveExecuteBlock(have, item) ==
    IF item.gen < have.gen \/ (item.gen = have.gen /\ item.height <= have.height) THEN {have}
    ELSE IF item.gen = have.gen /\ item.height = have.height + 1
    THEN {[have EXCEPT !.height = item.height, !.final = f] : f \in have.final..have.height}
    ELSE {}

(* receiveFinalization, which may lead to the next period. *)
receiveFinalization(have, item) ==
    IF item.gen < have.gen THEN {have}
    ELSE IF item.gen = have.gen /\ item.height \in (have.final + 1)..have.height
    THEN {IF item.height = Periods[have.gen] /\ have.gen < Len(Periods)
          THEN [gen |-> have.gen + 1, height |-> 0, final |-> 0]
          ELSE [have EXCEPT !.final = item.height]}
    ELSE {}

doImport(have, item, shouldStop) ==
    CASE item.kind = "block" -> IF shouldStop THEN {have} ELSE receiveExecuteBlock(have, item)
      [] item.kind = "fin" -> receiveFinalization(have, item)
      [] OTHER -> {}

(* import_blocks, item by item: an error ends the import. *)
ImportItem ==
    /\ import.at = "blocks"
    /\ IF import.todo = <<>> THEN import' = [import EXCEPT !.at = "chunk"]
       ELSE LET results == doImport(import.have, Head(import.todo), import.stop = 2)
            IN  IF results = {} THEN import' = [import EXCEPT !.at = "done", !.todo = <<>>]
                ELSE \E have \in results : import' = [import EXCEPT !.have = have, !.todo = Tail(@)]

(* The task that waits for a shutdown message: the flag, then the consensus. *)
StopImport ==
    /\ import.at # "done" /\ import.stop < 2
    /\ import' = [import EXCEPT !.stop = @ + 1]

ImportStep == ReadIndex \/ NextChunk \/ ImportItem
-----------------------------------------------------------------------------
(* An import from an index that nothing stops and whose downloads succeed leaves
   the node with every exported block, whatever it had before: no chunk with a
   missing block is skipped, across the periods too, and none of the blocks is
   refused ("We skip chunks until the first chunk that is at least at the current
   genesis index and finalized height relative to genesis", bin/cli.rs). *)
ImportIsComplete ==
    import.at = "done" /\ ~import.troubled /\ import.stop = 0 =>
        import.have.gen = Len(Periods) /\ import.have.height = Periods[Len(Periods)]
=============================================================================
