------------------------------- MODULE KvCache ------------------------------
(***************************************************************************)
(* The self-attention cache of the text decoder, ggml/whisper.cpp: cells   *)
(* shared by the sequences of several decoders.  A cell has the position   *)
(* of the token it was computed for and the sequences that may attend to   *)
(* it.  What was computed is represented by the decoder that computed it:  *)
(* a decoder computes at most one token per position.                      *)
(***************************************************************************)
EXTENDS Integers, FiniteSets

CONSTANT Size   \* cache.size

ASSUME SizeAssumption == Size \in Nat \ {0}

Cell == 0..(Size - 1)

Free == [pos |-> -1, by |-> -1, seqs |-> {}]

\* whisper_kv_cache_clear
Cleared == [head |-> 0, cells |-> [c \in Cell |-> Free]]

Used(cells) == {c \in Cell : cells[c].pos >= 0}

MinOf(S) == CHOOSE x \in S : \A y \in S : x <= y

NoSlot == -1

(***************************************************************************)
(* whisper_kv_cache_find_slot: n contiguous cells that are free, the first *)
(* from the head on or else the first of all.                              *)
(***************************************************************************)
Fits(cache, n, h) == \A c \in h..(h + n - 1) : cache.cells[c].pos < 0

\* a variant: a taken cell skips as many cells as are needed
FindSlotByBatch(cache, n) ==
    LET fitting(from) == {h \in from..(Size - n) : (h - from) % n = 0 /\ Fits(cache, n, h)}
        slots == IF fitting(cache.head) # {} THEN fitting(cache.head) ELSE fitting(0)
    IN  IF slots = {} THEN NoSlot ELSE MinOf(slots)

FindSlot(cache, n) ==
    LET first(from) == CHOOSE h \in from..(Size - n) :
                           /\ Fits(cache, n, h)
                           /\ \A g \in from..(h - 1) : ~Fits(cache, n, g)
        some(from)  == \E h \in from..(Size - n) : Fits(cache, n, h)
    IN  IF some(cache.head) THEN first(cache.head)
        ELSE IF some(0) THEN first(0) ELSE NoSlot

\* a variant: a taken cell skips as many cells as are needed
ScanByBatch(cache, n) ==
    LET scan[h \in 0..Size] == [tested \in Nat |->
            IF h + n > Size THEN scan[0][tested + Size - h]
            ELSE IF \A k \in 0..(n - 1) : cache.cells[h + k].pos < 0 THEN h
            ELSE IF tested + n >= Size THEN NoSlot
            ELSE scan[h + n][tested + n]]
    IN  IF n > Size THEN NoSlot ELSE scan[cache.head][0]

\* The loop that looks for it: it goes on behind the first cell that is taken, and
\* from the start, until as many cells were tested as there are.
Scan(cache, n) ==
    LET scan[h \in 0..Size] == [tested \in Nat |->
            IF h + n > Size THEN scan[0][tested + Size - h]
            ELSE LET taken == {k \in 0..(n - 1) : cache.cells[h + k].pos >= 0}
                     skip  == MinOf(taken) + 1
                 IN  IF taken = {} THEN h
                     ELSE IF tested + skip >= Size THEN NoSlot
                     ELSE scan[h + skip][tested + skip]]
    IN  IF n > Size THEN NoSlot ELSE scan[cache.head][0]

\* The slot is filled with the batch: position and sequence of each token, and
\* who computed it.
Fill(cache, slot, batch) ==
    [head |-> slot,
     cells |-> [c \in Cell |->
         IF c - slot \in DOMAIN batch
         THEN [pos |-> batch[c - slot].pos, by |-> batch[c - slot].seq,
               seqs |-> cache.cells[c].seqs \cup {batch[c - slot].seq}]
         ELSE cache.cells[c]]]

\* whisper_kv_cache_cell_max: the graph reads the cells below it.
CellMax(cells) ==
    LET used == {c \in Used(cells) \ {0} : cells[c].seqs # {}}
    IN  IF used = {} THEN 1 ELSE 1 - MinOf({-c : c \in used})

\* whisper_kv_cache_seq_rm and whisper_kv_cache_seq_cp, over all positions: what
\* they do to the sequences of a cell that is in use.
SeqRm(seqs, seq) == seqs \ {seq}
SeqCp(seqs, src, dst) == IF src \in seqs THEN seqs \cup {dst} ELSE seqs

\* The cache when such calls have left labels[c] of the sequences of cell c: a
\* cell without sequences is free.  The last copy starts the next search at cell 0.
Relabelled(cache, labels) ==
    [head |-> 0,
     cells |-> [c \in Cell |->
         IF labels[c] = {} THEN Free
         ELSE [pos |-> cache.cells[c].pos, by |-> cache.cells[c].by, seqs |-> labels[c]]]]
=============================================================================
