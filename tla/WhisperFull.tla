----------------------------- MODULE WhisperFull ----------------------------
(***************************************************************************)
(* One inference of Whisper: WhisperGGML_infer (voiceinput.cpp) and        *)
(* whisper_full_with_state (ggml/whisper.cpp) with the parameters the app  *)
(* gives it: one temperature, no grammar, and either a single decoder or a *)
(* beam of them.  Windows of audio are decoded one after the other; the    *)
(* decoders of a window share the cache of KvCache.                        *)
(*                                                                         *)
(* Probabilities are not computed: a decoder samples any token that        *)
(* whisper_process_logits leaves possible, and a ranking is any order.     *)
(* Times are multiples of some seconds.                                    *)
(***************************************************************************)
EXTENDS KvCache, Sequences

CONSTANTS
    Beam,        \* the beam size, decoding_mode of WhisperGGML_infer
    TextCtx,     \* n_text_ctx, the positions the text decoder knows
    Slack,       \* 4 of them are kept free
    PromptInit,  \* how many tokens say what to do, but for the one that
                 \* switches the timestamps off
    Prompts,     \* the lengths of the initial prompt
    Chunk,       \* 100*WHISPER_CHUNK_SIZE, the length of a window
    Margin,      \* the 100 frames that are left undecoded
    NearEnd,     \* the 500 frames near the end
    FirstStamp,  \* max_initial_ts
    Stamps,      \* the timestamps a token may name
    Audio,       \* the lengths of the audio
    DullLength   \* how long a sequence must be before its entropy counts

ASSUME WhisperAssumption ==
    /\ {Beam, TextCtx, PromptInit, Chunk, Margin} \subseteq Nat \ {0}
    /\ {Slack, NearEnd, FirstStamp, DullLength} \subseteq Nat
    /\ PromptInit < Slack /\ Slack < TextCtx \div 2
    /\ Prompts \subseteq Nat
    /\ Stamps \subseteq 0..Chunk /\ Audio \subseteq Nat

MaxText == TextCtx \div 2 - Slack    \* n_max, the tokens sampled in a window
MaxPast == TextCtx \div 2            \* what the prompt takes of earlier text
Temporary(j) == Beam + j    \* WHISPER_MAX_DECODERS + j

\* Tokens: text, the end of the text, or a timestamp (a natural number).
Text == -2
Eot == -1

VARIABLES
    pc,
    seek,
    seekEnd,
    abort,       \* where the abort callback ends it: nowhere, unless the language
                 \* is forbidden; then in the encoder or, when the detection of the
                 \* language has encoded the first window, in the decoder
    decoders,    \* n_decoders_cur
    promptPast,  \* the length of prompt_past
    prompt,      \* the length of the prompt
    kv,          \* kv_self
    dec,         \* the decoders
    step,        \* i, the tokens sampled in this window so far
    segments,    \* result_all.size()
    result       \* what whisper_full returns

inputs == <<seekEnd, abort, decoders>>

vars == <<pc, seek, inputs, promptPast, prompt, kv, dec, step, segments, result>>

Decoder == 1..decoders

NoTimestamps == seekEnd <= Chunk

Fresh == [tokens |-> <<>>, by |-> <<>>, delta |-> Chunk, hasTs |-> FALSE, len |-> 0,
          failed |-> FALSE, completed |-> FALSE]

Live == {j \in Decoder : ~dec[j].failed /\ ~dec[j].completed}

Init ==
    /\ pc = "start"
    /\ seek = 0 /\ seekEnd \in Audio
    /\ abort \in {"never", "encode", "decode"}
    /\ decoders \in {1, Beam}
    /\ promptPast \in Prompts
    /\ prompt = 0
    /\ kv = Cleared
    /\ dec = [j \in Decoder |-> Fresh]
    /\ step = 0
    /\ segments = 0
    /\ result = 0

Return(code) ==
    /\ pc' = "done"
    /\ result' = code
    /\ UNCHANGED <<seek, inputs, promptPast, prompt, kv, dec, step, segments>>

-----------------------------------------------------------------------------
(* Windows.                                                                *)

\* Less than a second of audio is not decoded.
Begin ==
    /\ pc = "start"
    /\ IF seekEnd < Margin THEN Return(0)
       ELSE /\ pc' = "window"
            /\ UNCHANGED <<seek, inputs, promptPast, prompt, kv, dec, step, segments,
                           result>>

\* Stop near the end, else encode the window; the callback that looks for a
\* forbidden language aborts after it.
Window ==
    /\ pc = "window"
    /\ IF seek + Margin >= seekEnd THEN Return(0)
       ELSE IF abort = "encode" THEN Return(-6)
       ELSE /\ pc' = "prompt"
            /\ promptPast' = IF seek > 0 /\ seek + NearEnd >= seekEnd THEN 0 ELSE promptPast
            /\ UNCHANGED <<seek, inputs, prompt, kv, dec, step, segments, result>>

\* The prompt is decoded for the first decoder.
PromptBatch(n) == [k \in 0..(n - 1) |-> [pos |-> k, seq |-> 1]]

\* The prompt's cells are shared by all decoders.
Shared(cache) ==
    LET all(seqs) == IF 1 \in seqs THEN seqs \cup Decoder ELSE seqs
    IN  Relabelled(cache, [c \in Cell |-> all(cache.cells[c].seqs)])

\* a variant: all of the earlier text is taken
TakenAll(n) == n

\* Only the last tokens of the earlier text are ever taken.
Taken(n) == IF n < MaxPast THEN n ELSE MaxPast

\* Earlier text with a token before it, and the tokens that say what to do.
PromptLength ==
    PromptInit + (IF NoTimestamps THEN 1 ELSE 0)
      + (IF promptPast = 0 THEN 0 ELSE 1 + Taken(promptPast))

Prompt ==
    /\ pc = "prompt"
    /\ LET n    == PromptLength
           slot == FindSlot(Cleared, n)
       IN  IF slot = NoSlot \/ abort = "decode" THEN Return(-7)
           ELSE /\ pc' = "sample"
                /\ prompt' = n
                /\ kv' = Shared(Fill(Cleared, slot, PromptBatch(n)))
                /\ dec' = [j \in Decoder |-> Fresh]
                /\ step' = 0
                /\ UNCHANGED <<seek, inputs, promptPast, segments, result>>

-----------------------------------------------------------------------------
(* Sampling.                                                               *)

IsStamp(t) == t >= 0

\* What whisper_process_logits leaves: timestamps come in pairs, begin early and
\* never go back, and there are none when they are switched off.
Possible(d) ==
    LET n      == Len(d.tokens)
        last   == n > 0 /\ IsStamp(d.tokens[n])
        before == n < 2 \/ IsStamp(d.tokens[n - 1])
        stamps == IF NoTimestamps \/ (last /\ before) THEN {}
                  ELSE {t \in Stamps : (n > 0 \/ t <= FirstStamp) /\ (d.hasTs => t >= d.delta)}
    IN  {Eot} \cup stamps \cup (IF last /\ ~before THEN {} ELSE {Text})

\* A candidate is a decoder's sequence with one more token.
Extended(d, t) == [d EXCEPT !.tokens = Append(@, t)]

\* a variant: sequences are copied in place, one decoder after the other
MovedInPlace(seqs, from, live) ==
    LET upTo[j \in {0} \cup Decoder] ==
            IF j = 0 THEN seqs
            ELSE IF j \notin live \/ from[j] = j THEN upTo[j - 1]
            ELSE SeqCp(SeqRm(upTo[j - 1], j), from[j], j)
    IN  upTo[decoders]

\* a variant: the temporary ids stay
MovedKeepingTemporaries(seqs, from, live) ==
    (seqs \ live) \cup {j \in live : from[j] \in seqs}
        \cup {Temporary(j) : j \in {k \in live : from[k] \in seqs}}

\* The sequences of a cell when live decoder j continues that of from[j].  First all
\* are copied to temporary ids, then these take the places.
Moved(seqs, from, live) ==
    LET copied[j \in {0} \cup Decoder] ==
            IF j = 0 THEN seqs
            ELSE IF j \notin live THEN copied[j - 1]
            ELSE SeqCp(copied[j - 1], from[j], Temporary(j))
        placed[j \in {0} \cup Decoder] ==
            IF j = 0 THEN copied[decoders]
            ELSE IF j \notin live THEN placed[j - 1]
            ELSE SeqRm(SeqCp(SeqRm(placed[j - 1], j), Temporary(j), j), Temporary(j))
    IN  placed[decoders]

\* The cache follows the sequences.
Reorder(cache, from, live) ==
    Relabelled(cache, [c \in Cell |-> Moved(cache.cells[c].seqs, from, live)])

\* Greedily: the decoder takes a token.
SampleGreedy ==
    /\ pc = "sample" /\ decoders = 1
    /\ \E t \in Possible(dec[1]) : dec' = [dec EXCEPT ![1] = Extended(@, t)]
    /\ pc' = "update"
    /\ UNCHANGED <<seek, inputs, promptPast, prompt, kv, step, segments, result>>

\* By beam: the live decoders take candidates in the order of their sums.  These
\* are drawn at random, with repetition, and a list that is exhausted is begun
\* again: any decoder may continue any live sequence with any possible token.
SampleBeam ==
    /\ pc = "sample" /\ decoders > 1
    /\ \E from \in [Live -> Live] :
        \E tokens \in [Live -> {Eot, Text} \cup Stamps] :
            /\ \A j \in Live : tokens[j] \in Possible(dec[from[j]])
            /\ dec' = [j \in Decoder |->
                   IF j \in Live THEN Extended(dec[from[j]], tokens[j]) ELSE dec[j]]
            /\ kv' = Reorder(kv, from, Live)
    /\ pc' = "update"
    /\ UNCHANGED <<seek, inputs, promptPast, prompt, step, segments, result>>

-----------------------------------------------------------------------------
(* What the new token means for its decoder.                               *)

AtEnd(d) == seek + d.delta + Margin >= seekEnd

Stamped(d, t) ==
    IF t <= 0 THEN d
    ELSE IF d.hasTs /\ d.delta > t /\ d.len < step THEN [d EXCEPT !.failed = TRUE]
    ELSE [d EXCEPT !.delta = t, !.len = step + 1, !.hasTs = TRUE]

\* a variant: an end without a timestamp is taken for a result
EndedAnyway(d) == [d EXCEPT !.completed = TRUE]

\* The end of the segment: without a timestamp it is a result only when the
\* audio ends with it.
Ended(d) ==
    IF d.len > 0 THEN [d EXCEPT !.completed = TRUE]
    ELSE IF AtEnd(d) THEN [d EXCEPT !.completed = TRUE, !.len = step + 1]
    ELSE [d EXCEPT !.failed = TRUE]

\* The repetitive and the endless fail.
Judged(j, d, dull, anyCompleted) ==
    IF \/ anyCompleted /\ j > 1 /\ d.len > DullLength /\ dull
       \/ step = MaxText - 1 /\ (d.len = 0 \/ 2 * d.delta < Chunk)
    THEN [d EXCEPT !.failed = TRUE] ELSE d

Updated(j, dull, anyCompleted) ==
    LET t == dec[j].tokens[Len(dec[j].tokens)]
        d == Stamped(dec[j], t)
    IN  IF d.failed THEN d
        ELSE IF t = Eot \/ (d.hasTs /\ AtEnd(d)) THEN Ended(d)
        ELSE Judged(j, d, dull, anyCompleted)

Update ==
    /\ pc = "update"
    /\ LET anyCompleted == \E j \in Decoder : dec[j].completed
       IN  \E dull \in SUBSET Live :
             dec' = [j \in Decoder |->
                 IF j \in Live THEN Updated(j, j \in dull, anyCompleted) ELSE dec[j]]
    /\ pc' = IF \A j \in Decoder : dec'[j].failed \/ dec'[j].completed
             THEN "rank" ELSE "decode"
    /\ UNCHANGED <<seek, inputs, promptPast, prompt, kv, step, segments, result>>

\* One token per live decoder, in order, at the same position.
Batch(live) ==
    LET rank(j) == Cardinality({k \in live : k < j})
    IN  [n \in 0..(Cardinality(live) - 1) |->
            [pos |-> prompt + step, seq |-> CHOOSE j \in live : rank(j) = n]]

Decode ==
    /\ pc = "decode"
    /\ LET slot == FindSlot(kv, Cardinality(Live))
       IN  IF slot = NoSlot THEN Return(-8)
           ELSE /\ kv' = Fill(kv, slot, Batch(Live))
                /\ dec' = [j \in Decoder |->
                       IF j \in Live THEN [dec[j] EXCEPT !.by = Append(@, j)] ELSE dec[j]]
                /\ step' = step + 1
                /\ pc' = IF step + 1 = MaxText THEN "rank" ELSE "sample"
                /\ UNCHANGED <<seek, inputs, promptPast, prompt, segments, result>>

-----------------------------------------------------------------------------
(* The result of the window.                                               *)

Texts(tokens) == Cardinality({k \in DOMAIN tokens : tokens[k] = Text})

\* a variant: what follows the last timestamp is dropped
SegmentsClosed(tokens) ==
    LET from[k \in 1..(Len(tokens) + 1)] == [open \in Nat |->
            IF k > Len(tokens) THEN <<>>
            ELSE IF tokens[k] > 0
            THEN (IF open > 0 THEN <<open>> ELSE <<>>) \o from[k + 1][0]
            ELSE from[k + 1][IF tokens[k] = Text THEN open + 1 ELSE open]]
    IN  from[1][0]

\* Segments end at timestamps; what is left at the end is one more.
Segments(tokens) ==
    LET from[k \in 1..(Len(tokens) + 1)] == [open \in Nat |->
            IF k > Len(tokens) THEN IF open > 0 THEN <<open>> ELSE <<>>
            ELSE IF tokens[k] > 0
            THEN (IF open > 0 THEN <<open>> ELSE <<>>) \o from[k + 1][0]
            ELSE from[k + 1][IF tokens[k] = Text THEN open + 1 ELSE open]]
    IN  from[1][0]

\* a variant: a failed window does not move the seek
AdvanceOnSuccess(best) == IF best.failed THEN seek ELSE seek + best.delta

Advance(best) == seek + best.delta

\* The sequences that did not fail are cut to their result; the best of them is
\* output, or the first decoder's as it is when all failed.
Finish ==
    /\ pc = "rank"
    /\ \E dull \in SUBSET Decoder :
        LET cut(j) == IF dec[j].failed THEN dec[j]
                      ELSE [dec[j] EXCEPT !.tokens = SubSeq(@, 1, dec[j].len),
                                          !.failed = dec[j].len > DullLength /\ j \in dull]
            good == {j \in Decoder : ~cut(j).failed}
            past == prompt - PromptInit - (IF NoTimestamps THEN 1 ELSE 0)
            kept == IF past > 0 THEN past - 1 ELSE 0
        IN  \E j \in (IF good = {} THEN {1} ELSE good) :
              /\ segments' = segments + Len(Segments(cut(j).tokens))
              /\ promptPast' = Taken(kept + cut(j).len)
              /\ seek' = Advance(cut(j))
    /\ pc' = "window"
    /\ UNCHANGED <<inputs, prompt, kv, dec, step, result>>

-----------------------------------------------------------------------------
Next == Begin \/ Window \/ Prompt \/ SampleGreedy \/ SampleBeam \/ Update \/ Decode \/ Finish

\* The inference runs on a thread of its own: it goes on as long as it can.
Spec == Init /\ [][Next]_vars /\ WF_vars(Next)

-----------------------------------------------------------------------------
(* Properties.                                                             *)

\* Types, and the lengths that go together: the tokens of a live decoder are one
\* more than what it has decoded while a token waits to be decoded.
TypeOK ==
    /\ pc \in {"start", "window", "prompt", "sample", "update", "decode", "rank", "done"}
    /\ seek \in Nat /\ seekEnd \in Audio /\ abort \in {"never", "encode", "decode"}
    /\ promptPast \in Nat /\ decoders \in {1, Beam}
    /\ kv.head \in Cell
    /\ \A c \in Cell : /\ kv.cells[c].pos \in -1..(TextCtx - 1)
                       /\ kv.cells[c].seqs \subseteq Decoder
                       /\ kv.cells[c].pos = -1 <=> kv.cells[c].seqs = {}
    /\ step \in 0..MaxText
    /\ segments \in Nat /\ result \in {0, -6, -7, -8}
    /\ \A j \in Decoder :
         /\ dec[j].len <= Len(dec[j].tokens)
         /\ pc \in {"sample", "update", "decode"} /\ j \in Live =>
              /\ Len(dec[j].by) = step
              /\ Len(dec[j].tokens) = step + IF pc = "sample" THEN 0 ELSE 1

\* When a token is decoded, each live decoder attends to the prompt and to its own
\* sequence, once each and nothing else, however the beam has been reordered, some
\* decoders have ended, and cells were freed and reused.
OwnHistory ==
    pc \in {"sample", "update"} =>
        \A j \in Live :
            LET mine == {c \in 0..(CellMax(kv.cells) - 1) : j \in kv.cells[c].seqs}
            IN  /\ {<<kv.cells[c].pos, kv.cells[c].by>> : c \in mine} =
                       {<<p, 1>> : p \in 0..(prompt - 1)}
                         \cup {<<prompt + k - 1, dec[j].by[k]>> : k \in 1..step}
                /\ Cardinality(mine) = prompt + step

\* The loop that looks for free cells finds the first that fit, for a batch of any
\* size and however the used cells lie: it passes no slot over when it skips, and it
\* stops only when there is none.
SearchIsFirstFit ==
    pc = "decode" => \A n \in 1..(Size + 1) : Scan(kv, n) = FindSlot(kv, n)

\* A cache with room for the longest prompt and a whole sequence per decoder is
\* enough, in spite of the holes that reordering leaves and of the search for
\* contiguous cells: 3 * n_text_ctx is more than that for the 5 decoders of the app.
CacheSuffices == result # -8

\* No token is decoded at a position the model does not know, whatever the prompt
\* and the length of the text: with timestamps the slack is one more than the
\* prompt needs, and without them the last step ends every sequence.
PositionsInContext ==
    \A c \in Cell : kv.cells[c].pos < TextCtx

\* What did not fail has a result: the text of a window is never lost to a sequence
\* that is cut to nothing.
RankedHasResult ==
    pc = "rank" => \A j \in Decoder : ~dec[j].failed => dec[j].len > 0

\* Splitting a sequence at its timestamps loses no text and makes no empty segment.
SplitKeepsText ==
    \A j \in Decoder :
        LET parts == Segments(dec[j].tokens)
            sum[k \in 0..Len(parts)] == IF k = 0 THEN 0 ELSE sum[k - 1] + parts[k]
        IN  /\ sum[Len(parts)] = Texts(dec[j].tokens)
            /\ \A k \in DOMAIN parts : parts[k] > 0

\* The inference ends: every window, also one whose decoders all fail, moves on
\* through the audio.
Ends == <>(pc = "done")
=============================================================================
