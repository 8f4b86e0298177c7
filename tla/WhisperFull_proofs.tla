-------------------------- MODULE WhisperFull_proofs ------------------------
(***************************************************************************)
(* Proofs about WhisperFull for any beam, context, prompt and audio: no    *)
(* token is decoded at a position the model does not know, what did not    *)
(* fail has a result, a cache as large as the app's always has room, every *)
(* decoder attends to its own history, the search for free cells finds the *)
(* first that fit, and no text is lost when a window is split.             *)
(***************************************************************************)
EXTENDS WhisperFull, FiniteSetTheorems, FunctionTheorems, NaturalsInduction,
        SequenceTheorems, TLAPS

-----------------------------------------------------------------------------
(* The strengthening.                                                      *)

Token == {Text, Eot} \cup Stamps

Sequence ==
    [tokens : Seq(Token), by : Seq(Nat), delta : Nat, hasTs : BOOLEAN, len : Nat,
     failed : BOOLEAN, completed : BOOLEAN]

Decoding == pc \in {"sample", "update", "decode"}

Types ==
    /\ pc \in {"start", "window", "prompt", "sample", "update", "decode", "rank", "done"}
    /\ decoders \in {1, Beam}
    /\ seekEnd \in Nat
    /\ promptPast \in Nat /\ prompt \in Nat
    /\ dec \in [Decoder -> Sequence]
    /\ step \in Nat
    /\ Decoding => step < MaxText
    /\ result \in {0, -6, -7, -8}

(* The prompt leaves a text of MaxText tokens room in the context, and one *)
(* token less when the timestamps are switched off.                        *)
PromptBounded ==
    Decoding => prompt <= PromptInit + 1 + MaxPast + (IF NoTimestamps THEN 1 ELSE 0)

(* Without timestamps nothing has a result before it ends, so that all     *)
(* sequences end with the last token that is sampled.                      *)
NoStampsNoResult ==
    Decoding /\ NoTimestamps =>
        /\ \A j \in Live : dec[j].len = 0
        /\ pc = "update" =>
              \A j \in Live : dec[j].tokens[Len(dec[j].tokens)] \in {Text, Eot}
        /\ pc = "decode" => step < MaxText - 1

(* What was completed has a result, and so has what is still alive when    *)
(* the text is full.                                                       *)
Results ==
    /\ \A j \in Decoder : dec[j].completed => dec[j].len > 0
    /\ pc = "update" => \A j \in Live : dec[j].tokens # <<>>
    /\ pc = "decode" /\ step = MaxText - 1 => \A j \in Live : dec[j].len > 0
    /\ RankedHasResult

(* The cells hold no position that was not decoded yet.                    *)
Positions ==
    /\ kv.head \in Nat
    /\ \A c \in Cell : kv.cells[c].pos \in Int /\ kv.cells[c].pos < TextCtx
    /\ Decoding => \A c \in Cell : kv.cells[c].pos < prompt + step

IInv == Types /\ PromptBounded /\ NoStampsNoResult /\ Results /\ Positions

(* The cells from the frontier on were never used in this window.          *)
Frontier == prompt + decoders * step

RoomAhead ==
    /\ CacheSuffices
    /\ Decoding =>
          /\ kv.head <= Frontier
          /\ \A c \in Cell : c >= Frontier => kv.cells[c].pos < 0

(* A cache for the longest prompt and a whole text per decoder.            *)
SizeSuffices == Size >= PromptInit + 1 + MaxPast + Beam * MaxText

-----------------------------------------------------------------------------
(* Facts about numbers and about the operators of the model.               *)

(* A set of natural numbers that is not empty has a least element. *)
LEMMA LeastOf ==
    ASSUME NEW S \in SUBSET Nat, S # {}
    PROVE  \E x \in S : \A y \in S : x <= y
<1> DEFINE Less == {ss \in Nat \X Nat : ss[1] < ss[2]}
<1>1. IsWellFoundedOn(Less, Nat)
  BY NatLessThanWellFounded DEF OpToRel
<1>2. \A x, y \in Nat : <<y, x>> \notin Less => x <= y
  OBVIOUS
<1> HIDE DEF Less
<1>3. PICK x \in S : \A y \in S : <<y, x>> \notin Less
  BY <1>1, WFMin
<1> QED
  BY <1>2, <1>3

(* What the assumption on the constants says of the bounds derived from it.*)
LEMMA Constants ==
    /\ Beam \in Nat \ {0} /\ TextCtx \in Nat /\ Slack \in Nat /\ PromptInit \in Nat
    /\ Chunk \in Nat /\ Size \in Nat \ {0}
    /\ MaxText \in Nat \ {0} /\ MaxPast \in Nat
    /\ PromptInit + 1 + MaxPast + MaxText <= TextCtx
    /\ Stamps \subseteq Nat /\ Audio \subseteq Nat /\ Prompts \subseteq Nat
<1>1. TextCtx \div 2 \in Nat /\ 2 * (TextCtx \div 2) <= TextCtx
  BY WhisperAssumption
<1> QED
  BY <1>1, WhisperAssumption, SizeAssumption DEF MaxText, MaxPast

(* Free cells that fit ahead of the head are found, or some before them. *)
LEMMA FindSlotAhead ==
    ASSUME NEW cache, cache.head \in Nat, NEW n \in Nat,
           NEW h \in Nat, h >= cache.head, h + n <= Size, Fits(cache, n, h)
    PROVE  FindSlot(cache, n) \in cache.head..h
<1> DEFINE S == {x \in cache.head..(Size - n) : Fits(cache, n, x)}
<1>1. h \in S /\ S \subseteq Nat
  BY SizeAssumption
<1>2. PICK m \in S : \A y \in S : m <= y
  BY <1>1, LeastOf
<1> DEFINE First(x) == /\ Fits(cache, n, x)
                       /\ \A g \in cache.head..(x - 1) : ~Fits(cache, n, g)
<1>3. First(m)
  BY <1>2, SizeAssumption
<1>4. \A x \in cache.head..(Size - n) : First(x) => x <= h
  BY <1>1
<1>5. FindSlot(cache, n) = CHOOSE x \in cache.head..(Size - n) : First(x)
  BY <1>1 DEF FindSlot
<1> HIDE DEF First
<1>6. (CHOOSE x \in cache.head..(Size - n) : First(x)) \in cache.head..(Size - n)
      /\ First(CHOOSE x \in cache.head..(Size - n) : First(x))
  BY <1>2, <1>3
<1> QED
  BY <1>4, <1>5, <1>6, SizeAssumption

(* What is found is a number, or nothing is. *)
LEMMA FindSlotType ==
    ASSUME NEW cache, cache.head \in Nat, NEW n \in Nat,
           FindSlot(cache, n) # NoSlot
    PROVE  FindSlot(cache, n) \in Nat
<1>1. CASE \E x \in cache.head..(Size - n) : Fits(cache, n, x)
  <2>1. PICK x \in cache.head..(Size - n) : Fits(cache, n, x)
    BY <1>1
  <2>2. FindSlot(cache, n) \in cache.head..x
    BY <2>1, FindSlotAhead, SizeAssumption
  <2> QED
    BY <2>1, <2>2, SizeAssumption
<1>2. CASE ~\E x \in cache.head..(Size - n) : Fits(cache, n, x)
  <2> DEFINE again == [head |-> 0, cells |-> cache.cells]
  <2>1. FindSlot(cache, n) = FindSlot(again, n)
    BY <1>2 DEF FindSlot, Fits
  <2>2. PICK x \in 0..(Size - n) : Fits(again, n, x)
    BY <1>2, SizeAssumption DEF FindSlot, Fits
  <2>3. FindSlot(again, n) \in 0..x
    BY <2>2, FindSlotAhead, SizeAssumption
  <2> QED
    BY <2>1, <2>2, <2>3, SizeAssumption
<1> QED
  BY <1>1, <1>2

(* In an empty cache a batch that fits is put at the start. *)
LEMMA FindSlotCleared ==
    ASSUME NEW n \in Nat, FindSlot(Cleared, n) # NoSlot
    PROVE  FindSlot(Cleared, n) = 0 /\ n <= Size
<1>1. PICK x \in 0..(Size - n) : Fits(Cleared, n, x)
  BY SizeAssumption DEF FindSlot, Cleared
<1>2. n <= Size /\ Fits(Cleared, n, 0)
  BY <1>1, SizeAssumption DEF Fits, Cleared, Cell, Free
<1>3. FindSlot(Cleared, n) \in 0..0
  BY <1>2, FindSlotAhead DEF Cleared
<1> QED
  BY <1>2, <1>3

(* At most every decoder is alive. *)
LEMMA LiveCount ==
    ASSUME decoders \in Nat
    PROVE  Cardinality(Live) \in Nat /\ Cardinality(Live) <= decoders
<1>1. IsFiniteSet(1..decoders) /\ Cardinality(1..decoders) = decoders
  BY FS_Interval
<1>2. Live \in SUBSET (1..decoders)
  BY DEF Live, Decoder
<1> QED
  BY <1>1, <1>2, FS_Subset, FS_CardinalityType

(* Tokens can be compared.                                                 *)
LEMMA TokenIsInt == \A t \in Token : t \in Int
  BY Constants DEF Token, Text, Eot

(* What an update makes of one sequence. *)
LEMMA UpdatedFacts ==
    ASSUME Types, NEW j \in Decoder, NEW dull \in BOOLEAN, NEW any \in BOOLEAN,
           dec[j].tokens # <<>>, step < MaxText,
           ~dec[j].failed, ~dec[j].completed
    PROVE  LET d == Updated(j, dull, any)
               t == dec[j].tokens[Len(dec[j].tokens)]
           IN  /\ d \in Sequence
               /\ d.completed => d.len > 0
               /\ ~d.failed /\ ~d.completed /\ step = MaxText - 1 => d.len > 0
               /\ t \in {Text, Eot} /\ dec[j].len = 0 /\ ~d.failed /\ ~d.completed =>
                     d.len = 0
<1> DEFINE t == dec[j].tokens[Len(dec[j].tokens)]
           s == Stamped(dec[j], t)
<1>1. dec[j] \in Sequence /\ step \in Nat
  BY DEF Types
<1>2. t \in Token
  <2>1. dec[j].tokens \in Seq(Token) /\ dec[j].tokens # <<>>
    BY <1>1 DEF Sequence
  <2>2. Len(dec[j].tokens) \in 1..Len(dec[j].tokens)
    BY <2>1, EmptySeq, LenProperties
  <2> QED
    BY <2>1, <2>2, ElementOfSeq
<1> HIDE DEF t
<1>3. t \in Int
  BY <1>2, TokenIsInt
<1>4. s \in Sequence /\ ~s.completed
  <2>1. CASE t <= 0
    BY <1>1, <2>1 DEF Stamped
  <2>2. CASE ~(t <= 0)
    <3>1. t \in Nat
      BY <1>3, <2>2
    <3>2. [dec[j] EXCEPT !.failed = TRUE] \in Sequence
      BY <1>1 DEF Sequence
    <3>3. [dec[j] EXCEPT !.delta = t, !.len = step + 1, !.hasTs = TRUE] \in Sequence
      <4>1. step + 1 \in Nat
        BY <1>1
      <4> QED
        BY <1>1, <3>1, <4>1 DEF Sequence
    <3> QED
      BY <1>1, <2>2, <3>2, <3>3 DEF Stamped, Sequence
  <2> QED
    BY <2>1, <2>2
<1>5. t \in {Text, Eot} => s = dec[j]
  BY <1>3 DEF Stamped, Text, Eot
<1>6. Updated(j, dull, any) = IF s.failed THEN s
                              ELSE IF t = Eot \/ (s.hasTs /\ AtEnd(s)) THEN Ended(s)
                              ELSE Judged(j, s, dull, any)
  BY DEF Updated, t
<1> HIDE DEF s
<1>7. CASE s.failed
  BY <1>4, <1>5, <1>6, <1>7 DEF Sequence
<1>8. ASSUME ~s.failed
      PROVE  /\ Ended(s) \in Sequence /\ (Ended(s).failed \/ Ended(s).completed)
             /\ Ended(s).completed => Ended(s).len > 0
  <2>1. step + 1 \in Nat /\ step + 1 > 0
    BY <1>1
  <2>2. s.len > 0 => [s EXCEPT !.completed = TRUE] \in Sequence
    BY <1>4 DEF Sequence
  <2>3. [s EXCEPT !.completed = TRUE, !.len = step + 1] \in Sequence
    BY <1>4, <2>1 DEF Sequence
  <2>4. [s EXCEPT !.failed = TRUE] \in Sequence
    BY <1>4 DEF Sequence
  <2> QED
    BY <1>4, <2>1, <2>2, <2>3, <2>4 DEF Ended, Sequence
<1>9. ASSUME ~s.failed
      PROVE  /\ Judged(j, s, dull, any) \in Sequence
             /\ ~Judged(j, s, dull, any).completed
             /\ Judged(j, s, dull, any).len = s.len
             /\ ~Judged(j, s, dull, any).failed /\ step = MaxText - 1 => s.len # 0
  BY <1>4 DEF Judged, Sequence
<1>10. s.len \in Nat
  BY <1>4 DEF Sequence
<1> QED
  BY <1>5, <1>6, <1>7, <1>8, <1>9, <1>10 DEF s, t

(* The labels of the cells do not matter to where the tokens are. *)
LEMMA RelabelledFacts ==
    ASSUME NEW cache, NEW labels
    PROVE  /\ Relabelled(cache, labels).head = 0
           /\ \A c \in Cell :
                 Relabelled(cache, labels).cells[c].pos \in {-1, cache.cells[c].pos}
  BY DEF Relabelled, Free

-----------------------------------------------------------------------------
(* The initial states and the steps.                                       *)

(* The inductive invariants hold before an inference begins.               *)
LEMMA InitIInv == Init => IInv /\ RoomAhead
<1> SUFFICES ASSUME Init PROVE IInv /\ RoomAhead
  OBVIOUS
<1>1. Fresh \in Sequence /\ ~Fresh.completed
  BY Constants DEF Fresh, Sequence
<1>2. Types
  BY <1>1, Constants DEF Init, Types, Decoding
<1>3. Positions
  BY Constants DEF Init, Positions, Cleared, Free, Decoding
<1> QED
  BY <1>1, <1>2, <1>3 DEF Init, IInv, PromptBounded, NoStampsNoResult, Results, Decoding,
     RankedHasResult, RoomAhead, CacheSuffices

(* A return, the beginning and a window change nothing but where it is. *)
LEMMA QuietStep ==
    ASSUME IInv, Begin \/ Window \/ UNCHANGED vars
    PROVE  IInv'
<1>1. /\ pc' \in {"window", "prompt", "done"} \/ pc' = pc
      /\ result' \in {0, -6, -7, -8}
      /\ promptPast' \in {0, promptPast}
      /\ UNCHANGED <<inputs, prompt, kv, dec, step>>
  BY DEF Begin, Window, Return, vars, IInv, Types
<1> QED
  BY <1>1 DEF IInv, Types, PromptBounded, NoStampsNoResult, Results, Positions,
     RankedHasResult, Decoding, inputs, Live, Decoder, NoTimestamps

(* Prompt: the cache is cleared and the prompt laid out from its first cell.*)
LEMMA PromptStep ==
    ASSUME IInv, Prompt
    PROVE  IInv'
<1>1. CASE Return(-7)
  BY <1>1 DEF Return, IInv, Types, PromptBounded, NoStampsNoResult, Results, Positions,
     RankedHasResult, Decoding, inputs, Live, Decoder, NoTimestamps
<1>2. CASE ~Return(-7)
  <2> DEFINE n == PromptLength
  <2>1. /\ FindSlot(Cleared, n) # NoSlot
        /\ pc' = "sample" /\ prompt' = n /\ step' = 0
        /\ kv' = Shared(Fill(Cleared, FindSlot(Cleared, n), PromptBatch(n)))
        /\ dec' = [j \in Decoder |-> Fresh]
        /\ UNCHANGED <<inputs, promptPast, result>>
    BY <1>2 DEF Prompt
  <2>2. Taken(promptPast) \in Nat /\ Taken(promptPast) <= MaxPast
    BY Constants DEF Taken, IInv, Types
  <2>3. n \in Nat /\ n <= PromptInit + 1 + MaxPast + (IF NoTimestamps THEN 1 ELSE 0)
    BY <2>2, Constants DEF PromptLength
  <2>4. Fresh \in Sequence /\ ~Fresh.completed /\ Fresh.len = 0 /\ ~Fresh.failed
    BY Constants DEF Fresh, Sequence
  <2>5. Types'
    BY <2>1, <2>3, <2>4, Constants DEF IInv, Types, Decoding, inputs, Decoder
  <2>6. PromptBounded'
    BY <2>1, <2>3 DEF PromptBounded, NoTimestamps, inputs
  <2>7. NoStampsNoResult' /\ Results'
    BY <2>1, <2>4 DEF NoStampsNoResult, Results, RankedHasResult, Live, Decoder, inputs,
       NoTimestamps, Fresh
  <2>8. Positions'
    <3> DEFINE filled == Fill(Cleared, 0, PromptBatch(n))
    <3>1. kv' = Shared(filled) /\ n <= Size
      BY <2>1, <2>3, FindSlotCleared
    <3>2. \A c \in Cell : filled.cells[c].pos \in -1..(n - 1)
      BY <2>3, SizeAssumption DEF Fill, PromptBatch, Cleared, Free, Cell
    <3>4. kv' = Relabelled(filled, [c \in Cell |->
                  IF 1 \in filled.cells[c].seqs THEN filled.cells[c].seqs \cup Decoder
                  ELSE filled.cells[c].seqs])
      BY <3>1 DEF Shared
    <3> HIDE DEF filled, n
    <3>6. kv'.head = 0 /\ \A c \in Cell : kv'.cells[c].pos \in {-1, filled.cells[c].pos}
      BY <3>4, RelabelledFacts
    <3>3. kv'.head = 0 /\ \A c \in Cell : kv'.cells[c].pos \in -1..(n - 1)
      BY <3>2, <3>6, <2>3
    <3>5. n <= TextCtx
      BY <2>3, Constants
    <3> QED
      BY <2>1, <2>3, <3>3, <3>5, Constants DEF Positions
  <2> QED
    BY <2>5, <2>6, <2>7, <2>8 DEF IInv
<1> QED
  BY <1>1, <1>2

(* A decoder takes a token that is possible: a live sequence, with it. *)
LEMMA ExtendedFacts ==
    ASSUME Types, NEW j \in Decoder, NEW t \in Token, NEW any \in BOOLEAN
    PROVE  LET d == Extended(dec[j], t)
           IN  /\ d \in Sequence /\ d.tokens # <<>> /\ d.tokens[Len(d.tokens)] = t
               /\ d.len = dec[j].len
               /\ d.failed = dec[j].failed /\ d.completed = dec[j].completed
<1>1. dec[j] \in Sequence /\ dec[j].tokens \in Seq(Token)
  BY DEF Types, Sequence
<1> DEFINE s == Append(dec[j].tokens, t)
<1>2. s \in Seq(Token) /\ s # <<>> /\ s[Len(dec[j].tokens) + 1] = t
      /\ Len(s) = Len(dec[j].tokens) + 1
  BY <1>1, AppendProperties
<1> HIDE DEF s
<1>3. Extended(dec[j], t) = [dec[j] EXCEPT !.tokens = s]
  BY DEF Extended, s
<1> QED
  BY <1>1, <1>2, <1>3 DEF Sequence

(* Whatever is possible is a token; it is no timestamp when these are off. *)
LEMMA PossibleFacts ==
    ASSUME NEW d, NEW t \in Possible(d)
    PROVE  t \in Token /\ (NoTimestamps => t \in {Text, Eot})
  BY DEF Possible, Token

(* A sequence after sampling is one of those before, longer if it is alive. *)
SampledFrom(d, e) ==
    /\ e \in Sequence
    /\ e.len = d.len /\ e.failed = d.failed /\ e.completed = d.completed
    /\ ~e.failed /\ ~e.completed =>
          /\ e.tokens # <<>>
          /\ NoTimestamps => e.tokens[Len(e.tokens)] \in {Text, Eot}

(* What either way of sampling does to the decoders.                       *)
LEMMA SampleFacts ==
    ASSUME Types, SampleGreedy \/ SampleBeam
    PROVE  /\ \A j \in Decoder : \E k \in Decoder : SampledFrom(dec[k], dec'[j])
           /\ dec' \in [Decoder -> Sequence]
           /\ kv' = kv \/ \E labels : kv' = Relabelled(kv, labels)
           /\ pc = "sample" /\ pc' = "update"
           /\ UNCHANGED <<inputs, promptPast, prompt, step, result>>
<1>1. \A k \in Decoder : \A t \in Possible(dec[k]) :
          SampledFrom(dec[k], Extended(dec[k], t))
  <2> TAKE k \in Decoder
  <2> TAKE t \in Possible(dec[k])
  <2>1. t \in Token /\ (NoTimestamps => t \in {Text, Eot})
    BY PossibleFacts
  <2> QED
    BY <2>1, ExtendedFacts DEF SampledFrom
<1>2. \A k \in Decoder : k \notin Live => SampledFrom(dec[k], dec[k])
  BY DEF SampledFrom, Live, Types
<1>3. CASE SampleGreedy
  <2>1. PICK t \in Possible(dec[1]) : dec' = [dec EXCEPT ![1] = Extended(@, t)]
    BY <1>3 DEF SampleGreedy
  <2>2. Decoder = {1} /\ dec'[1] = Extended(dec[1], t) /\ DOMAIN dec' = Decoder
    BY <1>3, <2>1 DEF SampleGreedy, Decoder, Types
  <2>3. SampledFrom(dec[1], dec'[1])
    BY <1>1, <2>2
  <2>4. dec' = [j \in Decoder |-> dec'[j]]
    BY <2>1, <2>2 DEF Types
  <2>5. dec' \in [Decoder -> Sequence]
    BY <2>2, <2>3, <2>4 DEF SampledFrom
  <2> QED
    BY <1>3, <2>2, <2>3, <2>5 DEF SampleGreedy
<1>4. CASE SampleBeam
  <2>1. PICK from \in [Live -> Live], tokens \in [Live -> {Eot, Text} \cup Stamps] :
            /\ \A j \in Live : tokens[j] \in Possible(dec[from[j]])
            /\ dec' = [j \in Decoder |->
                   IF j \in Live THEN Extended(dec[from[j]], tokens[j]) ELSE dec[j]]
            /\ kv' = Reorder(kv, from, Live)
    BY <1>4 DEF SampleBeam
  <2>2. \A j \in Decoder : \E k \in Decoder : SampledFrom(dec[k], dec'[j])
    <3> TAKE j \in Decoder
    <3>1. CASE j \in Live
      <4>1. from[j] \in Decoder /\ tokens[j] \in Possible(dec[from[j]])
        BY <2>1, <3>1 DEF Live
      <4>2. dec'[j] = Extended(dec[from[j]], tokens[j])
        BY <2>1, <3>1
      <4> QED
        BY <1>1, <4>1, <4>2
    <3>2. CASE j \notin Live
      BY <1>2, <2>1, <3>2
    <3> QED
      BY <3>1, <3>2
  <2>3. dec' \in [Decoder -> Sequence]
    BY <2>1, <2>2 DEF SampledFrom
  <2>4. \E labels : kv' = Relabelled(kv, labels)
    BY <2>1 DEF Reorder
  <2> QED
    BY <1>4, <2>2, <2>3, <2>4 DEF SampleBeam
<1> QED
  BY <1>3, <1>4

(* SampleGreedy and SampleBeam preserve the invariant.                     *)
LEMMA SampleStep ==
    ASSUME IInv, SampleGreedy \/ SampleBeam
    PROVE  IInv'
<1>1. Types
  BY DEF IInv
<1>2. Types'
  BY <1>1, SampleFacts DEF Types, Decoding, inputs, Decoder
<1>3. PromptBounded'
  BY <1>1, SampleFacts DEF IInv, PromptBounded, Decoding, NoTimestamps, inputs
<1>4. NoStampsNoResult'
  BY <1>1, SampleFacts DEF IInv, NoStampsNoResult, Decoding, NoTimestamps, inputs, Live,
     Decoder, SampledFrom
<1>5. Results'
  BY <1>1, SampleFacts DEF IInv, Results, RankedHasResult, inputs, Live, Decoder, SampledFrom
<1>6. Positions'
  <2>1. kv'.head \in Nat /\ \A c \in Cell : kv'.cells[c].pos \in {-1, kv.cells[c].pos}
    BY <1>1, SampleFacts, RelabelledFacts DEF IInv, Positions
  <2>2. prompt \in Nat /\ step \in Nat /\ TextCtx \in Nat
    BY <1>1, Constants DEF Types
  <2> QED
    BY <1>1, <2>1, <2>2, SampleFacts DEF IInv, Positions, Decoding
<1> QED
  BY <1>2, <1>3, <1>4, <1>5, <1>6 DEF IInv

(* Update: what it makes of a decoder that ends, fails or goes on.         *)
LEMMA UpdateStep ==
    ASSUME IInv, Update
    PROVE  IInv'
<1> DEFINE any == \E j \in Decoder : dec[j].completed
<1>1. PICK dull \in SUBSET Live :
          dec' = [j \in Decoder |->
                     IF j \in Live THEN Updated(j, j \in dull, any) ELSE dec[j]]
  BY DEF Update
<1>2. /\ Types /\ pc = "update" /\ step < MaxText
      /\ \A j \in Live : dec[j].tokens # <<>>
      /\ NoTimestamps => \A j \in Live : /\ dec[j].len = 0
                                         /\ dec[j].tokens[Len(dec[j].tokens)] \in {Text, Eot}
      /\ UNCHANGED <<inputs, promptPast, prompt, kv, step, result>>
      /\ pc' \in {"rank", "decode"}
      /\ pc' = "rank" => \A j \in Decoder : dec'[j].failed \/ dec'[j].completed
  BY DEF Update, IInv, Types, Decoding, NoStampsNoResult, Results
<1> HIDE DEF any
<1>3. \A j \in Decoder :
          /\ dec'[j] \in Sequence
          /\ dec'[j].completed => dec'[j].len > 0
          /\ ~dec'[j].failed /\ ~dec'[j].completed =>
                /\ step = MaxText - 1 => dec'[j].len > 0
                /\ NoTimestamps => dec'[j].len = 0
  <2> TAKE j \in Decoder
  <2>1. CASE j \in Live
    <3>1. dec'[j] = Updated(j, j \in dull, any)
      BY <1>1, <2>1
    <3>2. (j \in dull) \in BOOLEAN /\ any \in BOOLEAN
      BY DEF any
    <3>3. ~dec[j].failed /\ ~dec[j].completed /\ dec[j].tokens # <<>>
      BY <1>2, <2>1 DEF Live
    <3> DEFINE d == Updated(j, j \in dull, any)
    <3>4. /\ d \in Sequence /\ (d.completed => d.len > 0)
          /\ ~d.failed /\ ~d.completed =>
                /\ step = MaxText - 1 => d.len > 0
                /\ dec[j].tokens[Len(dec[j].tokens)] \in {Text, Eot} /\ dec[j].len = 0 =>
                      d.len = 0
      BY <1>2, <3>2, <3>3, UpdatedFacts
    <3> HIDE DEF d
    <3> QED
      BY <1>2, <2>1, <3>1, <3>4 DEF d
  <2>2. CASE j \notin Live
    BY <1>1, <1>2, <2>2 DEF Live, Types, IInv, Results
  <2> QED
    BY <2>1, <2>2
<1>4. dec' \in [Decoder -> Sequence]
  BY <1>1, <1>3
<1>5. Types'
  BY <1>2, <1>4 DEF Types, Decoding, inputs, Decoder
<1>6. PromptBounded'
  BY <1>2 DEF IInv, PromptBounded, Decoding, NoTimestamps, inputs
<1>7. NoStampsNoResult'
  <2>1. pc' = "decode" /\ NoTimestamps => step # MaxText - 1
    <3>1. pc' = "decode" => \E j \in Decoder : ~dec'[j].failed /\ ~dec'[j].completed
      BY DEF Update
    <3> QED
      BY <1>3, <3>1
  <2>2. step \in Nat /\ MaxText \in Nat
    BY <1>2, Constants DEF Types
  <2> QED
    BY <1>2, <1>3, <2>1, <2>2 DEF NoStampsNoResult, Decoding, NoTimestamps, inputs, Live, Decoder
<1>8. Results'
  BY <1>2, <1>3 DEF Results, RankedHasResult, inputs, Live, Decoder
<1>9. Positions'
  BY <1>2 DEF IInv, Positions, Decoding
<1> QED
  BY <1>5, <1>6, <1>7, <1>8, <1>9 DEF IInv

(* Decode: the tokens sampled take one cell each.                          *)
LEMMA DecodeStep ==
    ASSUME IInv, Decode
    PROVE  IInv'
<1> DEFINE n == Cardinality(Live)
           slot == FindSlot(kv, n)
<1>1. CASE Return(-8)
  BY <1>1 DEF Return, IInv, Types, PromptBounded, NoStampsNoResult, Results, Positions,
     RankedHasResult, Decoding, inputs, Live, Decoder, NoTimestamps
<1>2. CASE ~Return(-8)
  <2>1. /\ slot # NoSlot /\ pc = "decode"
        /\ kv' = Fill(kv, slot, Batch(Live))
        /\ dec' = [j \in Decoder |->
               IF j \in Live THEN [dec[j] EXCEPT !.by = Append(@, j)] ELSE dec[j]]
        /\ step' = step + 1
        /\ pc' = IF step + 1 = MaxText THEN "rank" ELSE "sample"
        /\ UNCHANGED <<seek, inputs, promptPast, prompt, segments, result>>
    BY <1>2 DEF Decode
  <2>2. /\ Types /\ step \in Nat /\ step < MaxText /\ MaxText \in Nat /\ decoders \in Nat
        /\ prompt \in Nat /\ kv.head \in Nat
    BY <2>1, Constants, SMTT(30) DEF IInv, Types, Decoding, Positions
  <2>3. \A j \in Decoder :
            /\ dec'[j] \in Sequence
            /\ dec'[j].len = dec[j].len
            /\ dec'[j].failed = dec[j].failed /\ dec'[j].completed = dec[j].completed
    <3> TAKE j \in Decoder
    <3>1. dec[j] \in Sequence /\ j \in Nat /\ dec[j].by \in Seq(Nat)
      BY <2>2 DEF Types, Decoder, Sequence
    <3>2. Append(dec[j].by, j) \in Seq(Nat)
      BY <3>1, AppendProperties
    <3> QED
      BY <2>1, <3>1, <3>2 DEF Sequence
  <2>4. Types'
    <3>1. UNCHANGED <<seekEnd, abort, decoders, promptPast, prompt, result>>
      BY <2>1 DEF inputs
    <3>2. dec' \in [Decoder -> Sequence]
      BY <2>1, <2>3
    <3>3. Decoder' = Decoder
      BY <3>1 DEF Decoder
    <3>4. pc' \in {"rank", "sample"} /\ step' \in Nat /\ (Decoding' => step' < MaxText)
      <4>1. pc' = "rank" => ~Decoding'
        BY DEF Decoding
      <4> QED
        BY <2>1, <2>2, <4>1
    <3> QED
      BY <2>2, <3>1, <3>2, <3>3, <3>4 DEF Types
  <2>5. PromptBounded'
    BY <2>1 DEF IInv, PromptBounded, Decoding, NoTimestamps, inputs
  <2>6. NoStampsNoResult'
    BY <2>1, <2>3 DEF IInv, NoStampsNoResult, Decoding, NoTimestamps, inputs, Live, Decoder
  <2>7. Results'
    <3>1. step + 1 = MaxText => \A j \in Live : dec[j].len > 0
      BY <2>1, <2>2 DEF IInv, Results
    <3> QED
      BY <2>1, <2>3, <3>1 DEF IInv, Results, RankedHasResult, inputs, Live, Decoder
  <2>8. Positions'
    <3>1. n \in Nat /\ slot \in Nat
      BY <2>1, <2>2, LiveCount, FindSlotType
    <3>2. \A c \in Cell : kv'.cells[c].pos \in {prompt + step, kv.cells[c].pos}
      BY <2>1, <2>2, <3>1 DEF Fill, Batch
    <3>3. kv'.head = slot
      BY <2>1 DEF Fill
    <3>4. prompt + step < TextCtx
      BY <2>1, <2>2, Constants, SMTT(30) DEF IInv, PromptBounded, NoStampsNoResult, Decoding
    <3>5. \A c \in Cell : kv.cells[c].pos \in Int /\ kv.cells[c].pos < prompt + step
                          /\ kv.cells[c].pos < TextCtx
      BY <2>1 DEF IInv, Positions, Decoding
    <3> HIDE DEF slot, n
    <3>6. \A c \in Cell : kv'.cells[c].pos \in Int /\ kv'.cells[c].pos < prompt + (step + 1)
                          /\ kv'.cells[c].pos < TextCtx
      BY <2>2, <3>2, <3>4, <3>5
    <3> QED
      BY <2>1, <3>1, <3>3, <3>6, Constants DEF Positions
  <2> QED
    BY <2>4, <2>5, <2>6, <2>7, <2>8 DEF IInv
<1> QED
  BY <1>1, <1>2

(* Finish: the window is left, or the inference ends.                      *)
LEMMA FinishStep ==
    ASSUME IInv, Finish
    PROVE  IInv'
<1>1. pc = "rank" /\ pc' = "window" /\ UNCHANGED <<inputs, prompt, kv, dec, step, result>>
  BY DEF Finish
<1>2. promptPast' \in Nat
  <2> DEFINE cut(j, dull) ==
                 IF dec[j].failed THEN dec[j]
                 ELSE [dec[j] EXCEPT !.tokens = SubSeq(@, 1, dec[j].len),
                                     !.failed = dec[j].len > DullLength /\ j \in dull]
             past == prompt - PromptInit - (IF NoTimestamps THEN 1 ELSE 0)
             kept == IF past > 0 THEN past - 1 ELSE 0
  <2>1. \A j \in Decoder : dec[j] \in Sequence
    BY DEF IInv, Types
  <2>2. \A j \in Decoder : \A dull : cut(j, dull).len \in Nat
    BY <2>1 DEF Sequence
  <2>3. 1 \in Decoder /\ kept \in Nat
    BY Constants DEF IInv, Types, Decoder
  <2>4. PICK dull \in SUBSET Decoder, j \in Decoder :
            promptPast' = Taken(kept + cut(j, dull).len)
    BY <2>3 DEF Finish
  <2> HIDE DEF cut, kept
  <2>5. kept + cut(j, dull).len \in Nat
    BY <2>2, <2>3
  <2> QED
    BY <2>4, <2>5, Constants DEF Taken
<1> QED
  BY <1>1, <1>2 DEF IInv, Types, PromptBounded, NoStampsNoResult, Results, Positions,
     RankedHasResult, Decoding, inputs, Live, Decoder, NoTimestamps

(* The inductive invariant holds in every state of an inference.           *)
LEMMA IInvAlways == Spec => []IInv
<1>1. ASSUME IInv, [Next]_vars PROVE IInv'
  BY <1>1, QuietStep, PromptStep, SampleStep, UpdateStep, DecodeStep, FinishStep DEF Next
<1> QED
  BY InitIInv, <1>1, PTL DEF Spec

-----------------------------------------------------------------------------
(* The cache: as large as the app makes it, it has room for every token.   *)

(* Multiplication by a natural number keeps the order.                     *)
LEMMA ProductBound ==
    ASSUME NEW a \in Nat, NEW b \in Nat, NEW c \in Nat, b <= c
    PROVE  a * b \in Nat /\ a * c \in Nat /\ a * b <= a * c /\ a * (b + 1) = a * b + a
<1>1. c - b \in Nat /\ a * (c - b) \in Nat /\ a * b \in Nat
  OBVIOUS
<1>2. a * c = a * b + a * (c - b)
  OBVIOUS
<1> QED
  BY <1>1, <1>2

(* Wherever a token is decoded, the cells it needs are left at the frontier. *)
LEMMA FrontierFits ==
    ASSUME SizeSuffices, IInv, pc = "decode"
    PROVE  /\ Frontier \in Nat
           /\ Frontier + decoders <= Size
           /\ prompt + decoders * (step + 1) = Frontier + decoders
<1> DEFINE extra == IF NoTimestamps THEN 1 ELSE 0
<1>1. /\ step \in Nat /\ prompt \in Nat /\ decoders \in {1, Beam}
      /\ prompt <= PromptInit + 1 + MaxPast + extra
      /\ step + 1 <= MaxText - extra
  BY Constants DEF IInv, Types, PromptBounded, NoStampsNoResult, Decoding
<1>2. extra \in {0, 1}
  OBVIOUS
<1> HIDE DEF extra
<1>3. Beam \in Nat /\ Beam >= 1 /\ MaxText \in Nat /\ MaxText >= 1 /\ MaxPast \in Nat
      /\ PromptInit \in Nat /\ decoders \in Nat /\ decoders >= 1 /\ Size \in Nat
  BY <1>1, Constants
<1>4. decoders * (step + 1) + extra <= Beam * MaxText
  <2>1. CASE decoders = 1
    <3>1. MaxText <= Beam * MaxText
      <4>1. MaxText * 1 <= MaxText * Beam
        BY <1>3, ProductBound
      <4> QED
        BY <4>1, <1>3
    <3>2. Beam * MaxText \in Nat /\ decoders * (step + 1) = step + 1
      BY <2>1, <1>1, <1>3
    <3> QED
      BY <1>1, <1>2, <1>3, <3>1, <3>2
  <2>2. CASE decoders = Beam
    <3>1. Beam * (step + 1) <= Beam * (MaxText - extra) /\ Beam * (step + 1) \in Nat
      BY <1>1, <1>2, <1>3, ProductBound
    <3>2. Beam * (MaxText - extra) + extra <= Beam * MaxText
      BY <1>2, <1>3
    <3> QED
      BY <2>2, <1>2, <1>3, <3>1, <3>2
  <2> QED
    BY <1>1, <2>1, <2>2
<1>5. decoders * step \in Nat /\ decoders * (step + 1) = decoders * step + decoders
  BY <1>1, <1>3, ProductBound
<1>6. Beam * MaxText \in Nat
  BY <1>3
<1> QED
  BY <1>1, <1>2, <1>3, <1>4, <1>5, <1>6 DEF Frontier, SizeSuffices

(* Every step leaves the cells beyond the frontier free.                   *)
LEMMA RoomStep ==
    ASSUME SizeSuffices, IInv, RoomAhead, [Next]_vars
    PROVE  RoomAhead'
<1>1. CASE Begin \/ Window \/ UNCHANGED vars
  BY <1>1 DEF Begin, Window, Return, vars, inputs, RoomAhead, CacheSuffices, Decoding, Frontier
<1>2. CASE Prompt
  <2>1. CASE Return(-7)
    BY <2>1 DEF Return, RoomAhead, CacheSuffices, Decoding
  <2>2. CASE ~Return(-7)
    <3> DEFINE n == PromptLength
               filled == Fill(Cleared, 0, PromptBatch(n))
    <3>1. /\ FindSlot(Cleared, n) # NoSlot
          /\ prompt' = n /\ step' = 0
          /\ kv' = Shared(Fill(Cleared, FindSlot(Cleared, n), PromptBatch(n)))
          /\ UNCHANGED <<inputs, result>>
      BY <1>2, <2>2 DEF Prompt
    <3>2. n \in Nat
      BY Constants DEF PromptLength, Taken, IInv, Types
    <3>3. kv' = Shared(filled)
      BY <3>1, <3>2, FindSlotCleared
    <3>4. \A c \in Cell : c >= n => filled.cells[c].pos < 0
      BY <3>2, SizeAssumption DEF Fill, PromptBatch, Cleared, Free, Cell
    <3>5. kv' = Relabelled(filled, [c \in Cell |->
                  IF 1 \in filled.cells[c].seqs THEN filled.cells[c].seqs \cup Decoder
                  ELSE filled.cells[c].seqs])
      BY <3>3 DEF Shared
    <3> HIDE DEF filled, n
    <3>6. kv'.head = 0 /\ \A c \in Cell : kv'.cells[c].pos \in {-1, filled.cells[c].pos}
      BY <3>5, RelabelledFacts
    <3>7. decoders' \in Nat
      BY <3>1, Constants DEF IInv, Types, inputs
    <3>8. Frontier' = n
      <4>1. \A a \in Nat : a * 0 = 0 /\ n + 0 = n
        BY <3>2
      <4> QED
        BY <3>1, <3>7, <4>1 DEF Frontier
    <3> QED
      BY <3>1, <3>2, <3>4, <3>6, <3>8 DEF RoomAhead, CacheSuffices
  <2> QED
    BY <2>1, <2>2
<1>3. CASE SampleGreedy \/ SampleBeam
  <2>1. /\ kv' = kv \/ \E labels : kv' = Relabelled(kv, labels)
        /\ pc = "sample" /\ UNCHANGED <<inputs, prompt, step, result>>
    BY <1>3, SampleFacts DEF IInv
  <2>2. kv'.head \in {0, kv.head} /\ \A c \in Cell : kv'.cells[c].pos \in {-1, kv.cells[c].pos}
    BY <2>1, RelabelledFacts
  <2>3. Frontier' = Frontier
    BY <2>1 DEF Frontier, inputs
  <2>4. Frontier >= 0
    <3>1. prompt \in Nat /\ decoders \in Nat /\ step \in Nat
      BY Constants DEF IInv, Types
    <3>2. decoders * step \in Nat
      BY <3>1, ProductBound
    <3> QED
      BY <3>1, <3>2 DEF Frontier
  <2> QED
    BY <2>1, <2>2, <2>3, <2>4 DEF RoomAhead, CacheSuffices, Decoding
<1>4. CASE Update
  BY <1>4 DEF Update, inputs, RoomAhead, CacheSuffices, Decoding, Frontier
<1>5. CASE Decode
  <2> DEFINE n == Cardinality(Live)
             slot == FindSlot(kv, n)
  <2>1. /\ Frontier \in Nat /\ Frontier + decoders <= Size
        /\ prompt + decoders * (step + 1) = Frontier + decoders
    BY <1>5, FrontierFits DEF Decode
  <2>2. decoders \in Nat /\ Size \in Nat /\ kv.head \in Nat
    BY Constants DEF IInv, Types, Positions
  <2>3. n \in Nat /\ n <= decoders
    BY <2>2, LiveCount
  <2>4. /\ kv.head <= Frontier /\ result # -8
        /\ \A c \in Cell : c >= Frontier => kv.cells[c].pos < 0
    BY <1>5 DEF Decode, RoomAhead, CacheSuffices, Decoding
  <2>5. Fits(kv, n, Frontier)
    BY <2>1, <2>2, <2>3, <2>4 DEF Fits, Cell
  <2>6. slot \in kv.head..Frontier
    BY <2>1, <2>2, <2>3, <2>4, <2>5, FindSlotAhead
  <2>7. slot # NoSlot
    BY <2>2, <2>6 DEF NoSlot
  <2>8. /\ kv' = Fill(kv, slot, Batch(Live)) /\ step' = step + 1
        /\ UNCHANGED <<inputs, prompt, result>>
    BY <1>5, <2>7 DEF Decode
  <2>9. Frontier' = Frontier + decoders
    BY <2>1, <2>8 DEF Frontier, inputs
  <2>10. kv'.head = slot /\ \A c \in Cell : c - slot >= n => kv'.cells[c].pos = kv.cells[c].pos
    BY <2>2, <2>3, <2>6, <2>8 DEF Fill, Batch, Cell
  <2> HIDE DEF n, slot
  <2>11. \A c \in Cell : c >= Frontier + decoders => c - slot >= n /\ c >= Frontier
    BY <2>1, <2>2, <2>3, <2>6 DEF Cell
  <2> QED
    BY <2>1, <2>2, <2>4, <2>6, <2>8, <2>9, <2>10, <2>11 DEF RoomAhead, CacheSuffices
<1>6. CASE Finish
  BY <1>6 DEF Finish, inputs, RoomAhead, CacheSuffices, Decoding
<1> QED
  BY <1>1, <1>2, <1>3, <1>4, <1>5, <1>6 DEF Next

-----------------------------------------------------------------------------
(* The theorems.                                                           *)

(* No token is decoded at a position the model does not know. *)
THEOREM PositionsKnown == Spec => []PositionsInContext
<1>1. IInv => PositionsInContext
  BY DEF IInv, Positions, PositionsInContext
<1> QED
  BY IInvAlways, <1>1, PTL

(* What did not fail has a result. *)
THEOREM RankedResults == Spec => []RankedHasResult
<1>1. IInv => RankedHasResult
  BY DEF IInv, Results
<1> QED
  BY IInvAlways, <1>1, PTL

(* A cache with room for the longest prompt and a whole text per decoder is *)
(* enough, whatever holes the reordering leaves.                            *)
THEOREM CacheEnough ==
    ASSUME SizeSuffices
    PROVE  Spec => []CacheSuffices
<1>1. ASSUME IInv, RoomAhead, [Next]_vars PROVE RoomAhead'
  BY <1>1, RoomStep
<1>2. RoomAhead => CacheSuffices
  BY DEF RoomAhead
<1> QED
  BY InitIInv, IInvAlways, <1>1, <1>2, PTL DEF Spec

-----------------------------------------------------------------------------
(* The operators: what the reordering makes of a cell, what a slot is,     *)
(* and what a batch holds.                                                 *)

(* Induction over the first natural numbers, for the sets of this proof.   *)
LEMMA UpTo ==
    ASSUME NEW n \in Nat, NEW S, 0 \in S, \A j \in 1..n : j - 1 \in S => j \in S
    PROVE  \A j \in 0..n : j \in S
<1> SUFFICES ASSUME {j \in 0..n : j \notin S} # {} PROVE FALSE
  OBVIOUS
<1> DEFINE Bad == {j \in 0..n : j \notin S}
<1>1. PICK j \in Bad : \A k \in Bad : j <= k
  <2>1. Bad \in SUBSET Nat /\ Bad # {}
    OBVIOUS
  <2> HIDE DEF Bad
  <2> QED
    BY <2>1, LeastOf
<1>2. j \in 1..n /\ j - 1 \in 0..n
  BY <1>1
<1>3. j - 1 \in S
  BY <1>1, <1>2
<1> QED
  BY <1>1, <1>2, <1>3

(* The temporary ids are not those of decoders.                            *)
LEMMA Temporaries ==
    ASSUME decoders \in {1, Beam}
    PROVE  /\ decoders \in Nat
           /\ \A j \in Decoder : Temporary(j) \notin Decoder
           /\ \A j, k \in Decoder : Temporary(j) = Temporary(k) => j = k
  BY Constants DEF Temporary, Decoder

(* What the calls that reorder the cache make of the labels of a cell.     *)
LEMMA MovedForm ==
    ASSUME decoders \in {1, Beam}, NEW seqs \in SUBSET Decoder,
           NEW live \in SUBSET Decoder, NEW from \in [live -> live]
    PROVE  Moved(seqs, from, live) = (seqs \ live) \cup {j \in live : from[j] \in seqs}
<1> DEFINE n == decoders
           D == {0} \cup Decoder
           good == {k \in live : from[k] \in seqs}
           Named(K) == {Temporary(k) : k \in K}
           C(j) == seqs \cup Named(good \cap 0..j)
           P(j) == (seqs \ (live \cap 0..j)) \cup (good \cap 0..j) \cup Named(good \ 0..j)
           CStep(f, j) == IF j = 0 THEN seqs ELSE IF j \notin live THEN f[j - 1]
                          ELSE SeqCp(f[j - 1], from[j], Temporary(j))
           PStep(c, f, j) == IF j = 0 THEN c ELSE IF j \notin live THEN f[j - 1]
                          ELSE SeqRm(SeqCp(SeqRm(f[j - 1], j), Temporary(j), j), Temporary(j))
<1>0. n \in Nat /\ D = 0..n /\ Decoder = 1..n /\ n \in D
  BY Temporaries DEF Decoder
<1>a. /\ good \subseteq live /\ live \subseteq Decoder /\ 0 \notin Decoder
      /\ Decoder \subseteq 0..n
      /\ 0..0 = {0}
  BY <1>0
<1>b. \A j \in Decoder : 0..j = 0..(j - 1) \cup {j} /\ j \notin 0..(j - 1)
  BY <1>0
<1>c. \A j \in live : j \in good <=> from[j] \in seqs
  OBVIOUS
<1>d. \A j \in live : from[j] \in Decoder
  OBVIOUS
<1> HIDE DEF good
<1>1. C(0) = seqs /\ P(0) = C(n) /\ P(n) = (seqs \ live) \cup good
  <2>1. good \cap 0..0 = {} /\ live \cap 0..0 = {} /\ good \ 0..0 = good /\ good \cap 0..n = good
        /\ live \cap 0..n = live /\ good \ 0..n = {}
    BY <1>a
  <2>2. Named({}) = {}
    OBVIOUS
  <2> HIDE DEF Named
  <2> QED
    BY <2>1, <2>2
<1>2. \A j \in Decoder : C(j) = IF j \notin live THEN C(j - 1)
                               ELSE SeqCp(C(j - 1), from[j], Temporary(j))
  <2> TAKE j \in Decoder
  <2>1. CASE j \notin live
    <3>1. good \cap 0..j = good \cap 0..(j - 1)
      BY <1>a, <1>b, <2>1
    <3> HIDE DEF Named
    <3> QED
      BY <2>1, <3>1
  <2>2. CASE j \in live
    <3>1. from[j] \notin Named(good \cap 0..(j - 1))
      BY <1>a, <1>d, <2>2, Temporaries
    <3>2. from[j] \in C(j - 1) <=> from[j] \in seqs
      BY <3>1
    <3>3. good \cap 0..j = (good \cap 0..(j - 1)) \cup (IF from[j] \in seqs THEN {j} ELSE {})
      BY <1>a, <1>b, <1>c, <2>2
    <3>4. \A K : Named(K \cup {j}) = Named(K) \cup {Temporary(j)}
      OBVIOUS
    <3> HIDE DEF Named
    <3> QED
      BY <2>2, <3>2, <3>3, <3>4, ZenonT(60) DEF SeqCp
  <2> QED
    BY <2>1, <2>2
<1>3. \A j \in Decoder :
         P(j) = IF j \notin live THEN P(j - 1)
                ELSE SeqRm(SeqCp(SeqRm(P(j - 1), j), Temporary(j), j), Temporary(j))
  <2> TAKE j \in Decoder
  <2>1. CASE j \notin live
    <3>1. good \cap 0..j = good \cap 0..(j - 1) /\ live \cap 0..j = live \cap 0..(j - 1)
          /\ good \ 0..j = good \ 0..(j - 1)
      BY <1>a, <1>b, <2>1
    <3> HIDE DEF Named
    <3> QED
      BY <2>1, <3>1
  <2>2. CASE j \in live
    <3> DEFINE below == 0..(j - 1)
               later == good \ 0..j
               is == IF from[j] \in seqs THEN {j} ELSE {}
    <3>1. good \cap 0..j = (good \cap below) \cup is /\ live \cap 0..j = (live \cap below) \cup {j}
          /\ good \ below = later \cup is /\ j \notin below
      BY <1>a, <1>b, <1>c, <2>2
    <3>2. Named(later \cup is) = Named(later) \cup (IF from[j] \in seqs THEN {Temporary(j)} ELSE {})
      OBVIOUS
    <3>3. Temporary(j) \notin Named(later) /\ Temporary(j) \notin Decoder
      BY <1>a, <1>b, Temporaries
    <3>4. j \notin Named(later) /\ j \notin good \cap below
      BY <1>a, <1>b, Temporaries
    <3>5. P(j - 1) = (seqs \ (live \cap below)) \cup (good \cap below) \cup Named(good \ below)
          /\ P(j) = (seqs \ (live \cap 0..j)) \cup (good \cap 0..j) \cup Named(later)
      OBVIOUS
    <3>6. seqs \subseteq Decoder /\ good \subseteq Decoder /\ j \in Decoder
      BY <1>a
    <3> HIDE DEF Named, below, later, P
    <3>7. CASE from[j] \in seqs
      BY <2>2, <3>1, <3>2, <3>3, <3>4, <3>5, <3>6, <3>7 DEF SeqCp, SeqRm
    <3>8. CASE from[j] \notin seqs
      BY <2>2, <3>1, <3>2, <3>3, <3>4, <3>5, <3>6, <3>8 DEF SeqCp, SeqRm
    <3> QED
      BY <3>7, <3>8
  <2> QED
    BY <2>1, <2>2
<1> DEFINE copied == CHOOSE f : f = [j \in D |-> CStep(f, j)]
<1> HIDE DEF C, P
<1>4. copied = [j \in D |-> CStep(copied, j)]
  <2> DEFINE g == [j \in D |-> C(j)]
  <2>1. \A j \in D : C(j) = CStep(g, j)
    BY <1>0, <1>1, <1>2
  <2>2. g = [j \in D |-> CStep(g, j)]
    BY <2>1
  <2> HIDE DEF g, CStep
  <2> QED
    BY <2>2
<1> HIDE DEF copied
<1>5. copied[n] = C(n)
  <2> DEFINE S == {j \in D : copied[j] = C(j)}
  <2>1. 0 \in S
    BY <1>0, <1>1, <1>4
  <2>2. \A j \in 1..n : j - 1 \in S => j \in S
    BY <1>0, <1>2, <1>4
  <2> HIDE DEF S
  <2>3. n \in S
    BY <1>0, <2>1, <2>2, UpTo
  <2> QED
    BY <2>3 DEF S
<1> DEFINE placed == CHOOSE f : f = [j \in D |-> PStep(copied[n], f, j)]
<1>6. placed = [j \in D |-> PStep(copied[n], placed, j)]
  <2> DEFINE g == [j \in D |-> P(j)]
  <2>1. \A j \in D : P(j) = PStep(copied[n], g, j)
    BY <1>0, <1>1, <1>3, <1>5
  <2>2. g = [j \in D |-> PStep(copied[n], g, j)]
    BY <2>1
  <2> HIDE DEF g, PStep
  <2> QED
    BY <2>2
<1> HIDE DEF placed
<1>7. placed[n] = P(n)
  <2> DEFINE S == {j \in D : placed[j] = P(j)}
  <2>1. 0 \in S
    BY <1>0, <1>1, <1>5, <1>6
  <2>2. \A j \in 1..n : j - 1 \in S => j \in S
    BY <1>0, <1>3, <1>6
  <2> HIDE DEF S
  <2>3. n \in S
    BY <1>0, <2>1, <2>2, UpTo
  <2> QED
    BY <2>3 DEF S
<1>8. Moved(seqs, from, live) = placed[n]
  BY DEF Moved, placed, copied
<1> QED
  BY <1>1, <1>7, <1>8 DEF good

(* What FindSlot returns: the first that fits from the head on, or else    *)
(* the first of all.                                                       *)
FirstFit(cache, n, from, slot) ==
    /\ slot \in from..(Size - n) /\ Fits(cache, n, slot)
    /\ \A g \in from..(slot - 1) : ~Fits(cache, n, g)

NoFit(cache, n, from) == \A h \in from..(Size - n) : ~Fits(cache, n, h)

(* FindSlot is the first fit, or there is none.                            *)
LEMMA FindSlotCases ==
    ASSUME NEW cache, cache.head \in Nat, NEW n \in Nat
    PROVE  \/ FirstFit(cache, n, cache.head, FindSlot(cache, n))
           \/ NoFit(cache, n, cache.head) /\ FirstFit(cache, n, 0, FindSlot(cache, n))
           \/ NoFit(cache, n, cache.head) /\ NoFit(cache, n, 0) /\ FindSlot(cache, n) = NoSlot
<1> DEFINE Chosen(from) == CHOOSE h \in from..(Size - n) :
                              /\ Fits(cache, n, h)
                              /\ \A g \in from..(h - 1) : ~Fits(cache, n, g)
           Some(from) == \E h \in from..(Size - n) : Fits(cache, n, h)
<1>1. ASSUME NEW from \in Nat, Some(from)
      PROVE  FirstFit(cache, n, from, Chosen(from))
  <2> DEFINE S == {x \in from..(Size - n) : Fits(cache, n, x)}
  <2>1. S # {} /\ S \subseteq Nat
    BY <1>1, SizeAssumption
  <2> HIDE DEF S
  <2>2. PICK m \in S : \A y \in S : m <= y
    BY <2>1, LeastOf
  <2>3. /\ m \in from..(Size - n) /\ Fits(cache, n, m)
        /\ \A g \in from..(m - 1) : ~Fits(cache, n, g)
    BY <2>2, SizeAssumption DEF S
  <2> QED
    BY <2>3 DEF FirstFit
<1>2. FindSlot(cache, n) = IF Some(cache.head) THEN Chosen(cache.head)
                           ELSE IF Some(0) THEN Chosen(0) ELSE NoSlot
  BY DEF FindSlot
<1>3. \A from \in Nat : ~Some(from) <=> NoFit(cache, n, from)
  BY DEF NoFit
<1> HIDE DEF Chosen, Some
<1> QED
  BY <1>1, <1>2, <1>3

(* The slot that is found fits.                                            *)
LEMMA FindSlotFits ==
    ASSUME NEW cache, cache.head \in Nat, NEW n \in Nat,
           FindSlot(cache, n) # NoSlot
    PROVE  LET slot == FindSlot(cache, n)
           IN  slot \in Nat /\ slot + n <= Size /\ Fits(cache, n, slot)
<1>1. PICK from \in Nat : FirstFit(cache, n, from, FindSlot(cache, n))
  BY FindSlotCases
<1> QED
  BY <1>1, SizeAssumption DEF FirstFit

(* The graph reads every cell that holds something.                        *)
LEMMA CellMaxFacts ==
    ASSUME NEW cells, \A c \in Cell : cells[c].seqs # {} => cells[c].pos >= 0
    PROVE  /\ CellMax(cells) \in 1..Size
           /\ \A c \in Cell : cells[c].seqs # {} => c < CellMax(cells)
<1> DEFINE used == {c \in Used(cells) \ {0} : cells[c].seqs # {}}
           M == {-c : c \in used}
<1>0. /\ Size \in Nat /\ Size >= 1 /\ Cell = 0..(Size - 1)
      /\ \A c \in used : c \in Int /\ 1 <= c /\ c < Size
      /\ \A c \in Cell : cells[c].seqs # {} => c = 0 \/ c \in used
  <2>1. Size \in Nat /\ Size >= 1 /\ Cell = 0..(Size - 1)
    BY SizeAssumption DEF Cell
  <2>2. \A c \in used : c \in Cell /\ c # 0
    BY DEF Used
  <2>3. \A c \in Cell : cells[c].seqs # {} => c = 0 \/ c \in used
    BY DEF Used
  <2> HIDE DEF used
  <2> QED
    BY <2>1, <2>2, <2>3
<1>1. CellMax(cells) = IF used = {} THEN 1 ELSE 1 - MinOf(M)
  BY DEF CellMax
<1> HIDE DEF used
<1>2. CASE used = {}
  <2>1. CellMax(cells) = 1
    BY <1>1, <1>2
  <2> HIDE DEF M
  <2> QED
    <3>0. 1 \in 1..Size
      BY <1>0
    <3>1. \A c \in Cell : cells[c].seqs # {} => c = 0
      BY <1>0, <1>2
    <3>2. \A c : c = 0 => c < 1
      OBVIOUS
    <3> QED
      BY <2>1, <3>0, <3>1, <3>2
<1>3. CASE used # {}
  <2> DEFINE S == {Size - c : c \in used}
  <2>1. S # {} /\ S \subseteq Nat
    <3>1. \A c \in used : Size - c \in Nat
      BY <1>0
    <3> QED
      BY <1>3, <3>1
  <2>2. PICK x \in S : \A y \in S : x <= y
    <3> HIDE DEF S
    <3> QED
      BY <2>1, LeastOf
  <2>3. PICK m \in used : x = Size - m
    BY <2>2
  <2>4. \A c \in used : -m <= -c /\ Size - c \in S
    <3> TAKE c \in used
    <3>1. x <= Size - c
      BY <2>2
    <3> QED
      BY <1>0, <2>3, <3>1
  <2>5. -m \in M /\ \A y \in M : -m <= y
    BY <2>4
  <2>6. MinOf(M) \in M /\ \A y \in M : MinOf(M) <= y
    <3> HIDE DEF M
    <3> QED
      BY <2>5 DEF MinOf
  <2>7. PICK k \in used : MinOf(M) = -k
    BY <2>6
  <2>8. \A c \in used : c <= k
    <3> TAKE c \in used
    <3>1. -c \in M
      OBVIOUS
    <3> QED
      <4>1. -k <= -c /\ c \in Int /\ k \in Int
        BY <1>0, <2>6, <2>7, <3>1
      <4> QED
        BY <4>1
  <2> QED
    <3>1. CellMax(cells) = 1 - (-k) /\ k \in Int /\ 1 <= k /\ k < Size
      BY <1>0, <1>1, <1>3, <2>7
    <3>2. CellMax(cells) = k + 1
      BY <3>1
    <3> QED
      BY <1>0, <2>8, <3>1, <3>2
<1> QED
  BY <1>2, <1>3

(* The batch holds one token of every live decoder.                        *)
LEMMA BatchFacts ==
    ASSUME NEW live \in SUBSET Nat, IsFiniteSet(live)
    PROVE  LET n == Cardinality(live)
               b == Batch(live)
           IN  /\ n \in Nat /\ DOMAIN b = 0..(n - 1)
               /\ \A i \in 0..(n - 1) : b[i].pos = prompt + step /\ b[i].seq \in live
               /\ \A i, k \in 0..(n - 1) : b[i].seq = b[k].seq => i = k
               /\ \A j \in live : \E i \in 0..(n - 1) : b[i].seq = j
<1> DEFINE n == Cardinality(live)
           below(j) == {k \in live : k < j}
           rank(j) == Cardinality(below(j))
           f == [j \in live |-> rank(j)]
           who(i) == CHOOSE j \in live : rank(j) = i
<1>1. n \in Nat
  BY FS_CardinalityType
<1>2. \A j \in live : IsFiniteSet(below(j)) /\ rank(j) \in 0..(n - 1)
  <2> TAKE j \in live
  <2>1. below(j) \in SUBSET live /\ j \notin below(j)
    OBVIOUS
  <2>2. IsFiniteSet(below(j)) /\ rank(j) <= n /\ rank(j) # n /\ rank(j) \in Nat
    <3> HIDE DEF below
    <3> QED
      BY <2>1, FS_Subset, FS_CardinalityType
  <2> QED
    BY <1>1, <2>2
<1>3. \A j, k \in live : j < k => rank(j) < rank(k)
  <2> TAKE j, k \in live
  <2> HAVE j < k
  <2>1. below(j) \in SUBSET below(k) /\ j \in below(k) /\ j \notin below(j)
    <3>1. j \in Nat /\ k \in Nat /\ j < k /\ \A i \in live : i \in Nat
      OBVIOUS
    <3>2. \A i \in below(j) : i \in live /\ i < k
      BY <3>1
    <3>3. j \in below(k) /\ ~(j < j)
      BY <3>1
    <3> QED
      BY <3>2, <3>3
  <2>2. IsFiniteSet(below(k))
    BY <1>2
  <2>3. rank(j) \in Nat /\ rank(k) \in Nat
    BY <1>1, <1>2
  <2> HIDE DEF below
  <2>4. rank(j) <= rank(k) /\ rank(j) # rank(k)
    BY <2>1, <2>2, FS_Subset
  <2> QED
    BY <2>3, <2>4
<1>4. \A j, k \in live : rank(j) = rank(k) => j = k
  <2> TAKE j, k \in live
  <2> HAVE rank(j) = rank(k)
  <2>1. rank(j) \in Nat /\ rank(k) \in Nat /\ j \in Nat /\ k \in Nat
    BY <1>1, <1>2
  <2>2. ~(j < k) /\ ~(k < j)
    BY <1>3, <2>1
  <2> QED
    BY <2>1, <2>2
<1> HIDE DEF rank
<1>5. f \in Injection(live, 0..(n - 1))
  <2>1. f \in [live -> 0..(n - 1)]
    BY <1>2
  <2>2. \A j, k \in live : f[j] = f[k] => j = k
    BY <1>4
  <2> HIDE DEF f
  <2> QED
    BY <2>1, <2>2 DEF Injection, IsInjective
<1>6. IsFiniteSet(0..(n - 1)) /\ Cardinality(0..(n - 1)) = n
  <2>1. n - 1 \in Int /\ 0 \in Int
    BY <1>1
  <2> HIDE DEF n
  <2>2. IsFiniteSet(0..(n - 1)) /\ Cardinality(0..(n - 1)) = IF 0 > n - 1 THEN 0 ELSE n - 1 - 0 + 1
    BY <2>1, FS_Interval
  <2>3. (IF 0 > n - 1 THEN 0 ELSE n - 1 - 0 + 1) = n
    BY <1>1
  <2> QED
    BY <2>2, <2>3
<1>7. f \in Surjection(live, 0..(n - 1))
  <2> HIDE DEF f
  <2> QED
    BY <1>5, <1>6, FS_Injection
<1>8. \A i \in 0..(n - 1) : who(i) \in live /\ rank(who(i)) = i
  <2> TAKE i \in 0..(n - 1)
  <2>1. \E j \in live : rank(j) = i
    BY <1>7 DEF Surjection
  <2> QED
    BY <2>1
<1>9. \A j \in live : who(rank(j)) = j /\ rank(j) \in 0..(n - 1)
  BY <1>2, <1>4, <1>8
<1>10. Batch(live) = [i \in 0..(n - 1) |-> [pos |-> prompt + step, seq |-> who(i)]]
  BY DEF Batch, rank
<1> HIDE DEF who, n
<1> QED
  BY <1>1, <1>8, <1>9, <1>10 DEF n

-----------------------------------------------------------------------------
(* The histories of the decoders.                                          *)

(* Who computed the token at position p of the sequence of decoder j.      *)
Author(j, p) == IF p < prompt THEN 1 ELSE dec[j].by[p - prompt + 1]

(* The cells that decoder j attends to.                                    *)
Attended(j) == {c \in Cell : j \in kv.cells[c].seqs}

(* A cell is free, or holds a token of some sequence.                      *)
CellsKnown ==
    /\ kv.head \in Cell
    /\ \A c \in Cell : /\ kv.cells[c].pos \in Int /\ kv.cells[c].pos >= -1
                       /\ kv.cells[c].seqs \subseteq Decoder
                       /\ kv.cells[c].pos = -1 <=> kv.cells[c].seqs = {}

(* The lengths of the sequences.                                           *)
Lengths ==
    /\ step <= MaxText
    /\ pc \in {"sample", "decode"} => Live # {}
    /\ \A j \in Decoder : dec[j].len <= Len(dec[j].tokens)
    /\ Decoding => \A j \in Live :
          /\ Len(dec[j].by) = step
          /\ Len(dec[j].tokens) = step + IF pc = "sample" THEN 0 ELSE 1

(* A live decoder attends to every position once, to what was computed for *)
(* its own sequence, and to nothing else.                                  *)
Histories ==
    Decoding => \A j \in Live :
        /\ \A c \in Attended(j) : /\ kv.cells[c].pos < prompt + step
                                  /\ kv.cells[c].by = Author(j, kv.cells[c].pos)
        /\ \A p \in 0..(prompt + step - 1) : \E c \in Attended(j) : kv.cells[c].pos = p
        /\ \A c, e \in Attended(j) : kv.cells[c].pos = kv.cells[e].pos => c = e

HistoryInv == CellsKnown /\ Lengths /\ Histories

(* The initial states.                                                     *)
LEMMA InitHistory == Init => HistoryInv
<1> SUFFICES ASSUME Init PROVE HistoryInv
  OBVIOUS
<1>1. CellsKnown
  BY SizeAssumption DEF Init, CellsKnown, Cleared, Cell, Free
<1>2. Fresh.len = 0 /\ Len(Fresh.tokens) = 0
  BY DEF Fresh
<1> QED
  BY <1>1, <1>2, Constants DEF Init, HistoryInv, Lengths, Histories, Decoding

(* A step that only moves on, or returns.                                  *)
LEMMA QuietHistory ==
    ASSUME IInv, HistoryInv,
           \/ UNCHANGED vars
           \/ pc' \notin {"sample", "update", "decode"} /\ UNCHANGED <<inputs, prompt, kv, dec, step>>
    PROVE  HistoryInv'
<1>1. pc' = pc \/ pc' \notin {"sample", "update", "decode"}
  BY DEF vars
<1>2. UNCHANGED <<inputs, prompt, kv, dec, step>>
  BY DEF vars
<1>3. CellsKnown'
  BY <1>2 DEF HistoryInv, CellsKnown, inputs, Decoder
<1>4. Lengths'
  BY <1>1, <1>2 DEF HistoryInv, Lengths, Decoding, inputs, Decoder, Live
<1>5. Histories'
  BY <1>1, <1>2 DEF HistoryInv, Histories, Decoding, inputs, Decoder, Live, Attended, Author
<1> QED
  BY <1>3, <1>4, <1>5 DEF HistoryInv

(* The prompt is laid out from the first cell on, for every decoder.       *)
LEMMA PromptHistory ==
    ASSUME IInv, HistoryInv, Prompt, ~Return(-7)
    PROVE  HistoryInv'
<1> DEFINE n == PromptLength
           filled == Fill(Cleared, 0, PromptBatch(n))
           all(seqs) == IF 1 \in seqs THEN seqs \cup Decoder ELSE seqs
<1>1. /\ FindSlot(Cleared, n) # NoSlot
      /\ pc' = "sample" /\ prompt' = n /\ step' = 0
      /\ kv' = Shared(Fill(Cleared, FindSlot(Cleared, n), PromptBatch(n)))
      /\ dec' = [j \in Decoder |-> Fresh]
      /\ decoders' = decoders
  BY DEF Prompt, inputs
<1>2. n \in Nat
  <2>1. Taken(promptPast) \in Nat
    BY Constants DEF Taken, IInv, Types
  <2> QED
    BY <2>1, Constants DEF PromptLength
<1>3. kv' = Shared(filled) /\ n <= Size
  BY <1>1, <1>2, FindSlotCleared
<1>4. Decoder' = Decoder /\ 1 \in Decoder
  BY <1>1, Constants DEF Decoder, IInv, Types
<1>5. kv' = Relabelled(filled, [c \in Cell |-> all(filled.cells[c].seqs)])
  BY <1>3 DEF Shared
<1>6. \A c \in Cell : /\ c < n => /\ filled.cells[c].pos = c /\ filled.cells[c].by = 1
                                  /\ filled.cells[c].seqs = {1}
                      /\ c >= n => filled.cells[c].seqs = {}
  BY <1>2, SizeAssumption DEF Fill, PromptBatch, Cleared, Free, Cell
<1> HIDE DEF filled
<1>7. /\ kv'.head = 0
      /\ \A c \in Cell : /\ c < n => /\ kv'.cells[c].pos = c /\ kv'.cells[c].by = 1
                                     /\ kv'.cells[c].seqs = Decoder
                         /\ c >= n => kv'.cells[c].pos = -1 /\ kv'.cells[c].seqs = {}
  <2>1. \A c \in Cell : c < n => all(filled.cells[c].seqs) = Decoder
    BY <1>4, <1>6
  <2>2. \A c \in Cell : c >= n => all(filled.cells[c].seqs) = {}
    BY <1>6
  <2> HIDE DEF all
  <2> QED
    BY <1>4, <1>5, <1>6, <2>1, <2>2 DEF Relabelled, Free
<1> HIDE DEF n, all
<1>8. CellsKnown'
  <2>1. \A c \in Cell : c \in Nat /\ (c < n \/ c >= n)
    BY <1>2 DEF Cell
  <2>2. 0 \in Cell
    BY SizeAssumption DEF Cell
  <2> QED
    BY <1>4, <1>7, <2>1, <2>2 DEF CellsKnown
<1>9. Fresh.len = 0 /\ Fresh.tokens = <<>> /\ Fresh.by = <<>>
  BY DEF Fresh
<1>10. Lengths'
  <2>1. 1 \in Live'
    BY <1>1, <1>4 DEF Live, Fresh
  <2> QED
    BY <1>1, <1>4, <1>9, <2>1, Constants DEF Lengths, Live
<1>11. Histories'
  <2> SUFFICES ASSUME NEW j \in Live'
               PROVE  (/\ \A c \in Attended(j) : /\ kv.cells[c].pos < prompt + step
                                               /\ kv.cells[c].by = Author(j, kv.cells[c].pos)
                       /\ \A p \in 0..(prompt + step - 1) :
                             \E c \in Attended(j) : kv.cells[c].pos = p
                       /\ \A c, e \in Attended(j) :
                             kv.cells[c].pos = kv.cells[e].pos => c = e)'
    BY DEF Histories
  <2>1. j \in Decoder
    BY <1>4 DEF Live
  <2>2. Attended(j)' = 0..(n - 1)
    <3>1. Attended(j)' = {c \in Cell : j \in kv'.cells[c].seqs}
      BY DEF Attended
    <3>2. \A c \in Cell : c \in Int /\ 0 <= c /\ (j \in kv'.cells[c].seqs <=> c < n)
      BY <1>2, <1>7, <2>1, SizeAssumption DEF Cell
    <3>3. \A c \in 0..(n - 1) : c \in Cell /\ c < n
      BY <1>2, <1>3, SizeAssumption DEF Cell, n
    <3> QED
      BY <1>2, <3>1, <3>2, <3>3
  <2>3. \A c \in 0..(n - 1) : c \in Cell /\ c \in Int /\ c < n
    BY <1>2, <1>3, SizeAssumption DEF Cell, n
  <2>4. \A c \in 0..(n - 1) : kv'.cells[c].pos = c /\ kv'.cells[c].by = 1
    BY <1>7, <2>3
  <2>5. \A c \in 0..(n - 1) : Author(j, c)' = 1
    BY <1>1, <2>3 DEF Author
  <2>6. prompt' + step' = n /\ 0..(prompt' + step' - 1) = 0..(n - 1)
    <3> HIDE DEF n
    <3> QED
      BY <1>1, <1>2
  <2>7. \A c \in 0..(n - 1) : Author(j, kv.cells[c].pos)' = 1
    BY <2>4, <2>5
  <2> HIDE DEF n
  <2>8. (\A c \in Attended(j) : /\ kv.cells[c].pos < prompt + step
                                /\ kv.cells[c].by = Author(j, kv.cells[c].pos))'
    BY <2>2, <2>3, <2>4, <2>6, <2>7
  <2>9. (\A p \in 0..(prompt + step - 1) : \E c \in Attended(j) : kv.cells[c].pos = p)'
    BY <2>2, <2>4, <2>6
  <2>10. (\A c, e \in Attended(j) : kv.cells[c].pos = kv.cells[e].pos => c = e)'
    BY <2>2, <2>4
  <2> QED
    BY <2>8, <2>9, <2>10
<1> QED
  BY <1>8, <1>10, <1>11 DEF HistoryInv

(* What either way of sampling does: every live decoder continues the      *)
(* sequence of one of them, and the cells follow.                          *)
Continued(seqs, from) == (seqs \ Live) \cup {j \in Live : from[j] \in seqs}

Continue(from, tokens) ==
    /\ dec' = [j \in Decoder |->
                 IF j \in Live THEN Extended(dec[from[j]], tokens[j]) ELSE dec[j]]
    /\ kv'.head \in Cell
    /\ \A c \in Cell :
          /\ kv'.cells[c].seqs = Continued(kv.cells[c].seqs, from)
          /\ kv'.cells[c].seqs = {} => kv'.cells[c].pos = -1
          /\ kv'.cells[c].seqs # {} => /\ kv'.cells[c].pos = kv.cells[c].pos
                                       /\ kv'.cells[c].by = kv.cells[c].by

(* Sampling continues sequences with tokens.                               *)
LEMMA SampleContinues ==
    ASSUME IInv, HistoryInv, SampleGreedy \/ SampleBeam
    PROVE  \E from \in [Live -> Live], tokens \in [Live -> Token] : Continue(from, tokens)
<1>1. /\ Types /\ CellsKnown /\ Live \subseteq Decoder
      /\ Live # {} /\ 0 \in Cell
  BY SizeAssumption DEF IInv, HistoryInv, Lengths, SampleGreedy, SampleBeam, Live, Cell
<1>2. CASE SampleGreedy
  <2>1. PICK t \in Possible(dec[1]) : dec' = [dec EXCEPT ![1] = Extended(@, t)]
    BY <1>2 DEF SampleGreedy
  <2>2. Decoder = {1} /\ Live = {1} /\ kv' = kv
    <3>1. decoders = 1 /\ kv' = kv
      BY <1>2 DEF SampleGreedy
    <3>2. Decoder = {1}
      BY <3>1 DEF Decoder
    <3> QED
      BY <1>1, <3>1, <3>2
  <2>3. t \in Token
    BY PossibleFacts
  <2> DEFINE from == [j \in Live |-> j]
             tokens == [j \in Live |-> t]
  <2>4. dec' = [j \in Decoder |->
                 IF j \in Live THEN Extended(dec[from[j]], tokens[j]) ELSE dec[j]]
    BY <1>1, <2>1, <2>2 DEF Types
  <2>5. \A c \in Cell : Continued(kv.cells[c].seqs, from) = kv.cells[c].seqs
    BY <1>1, <2>2 DEF CellsKnown, Continued
  <2>6. Continue(from, tokens)
    BY <1>1, <2>2, <2>4, <2>5 DEF Continue, CellsKnown
  <2>7. from \in [Live -> Live] /\ tokens \in [Live -> Token]
    BY <2>3
  <2> QED
    BY <2>6, <2>7
<1>3. CASE SampleBeam
  <2>1. PICK from \in [Live -> Live], tokens \in [Live -> {Eot, Text} \cup Stamps] :
            /\ dec' = [j \in Decoder |->
                   IF j \in Live THEN Extended(dec[from[j]], tokens[j]) ELSE dec[j]]
            /\ kv' = Reorder(kv, from, Live)
    BY <1>3 DEF SampleBeam
  <2>2. tokens \in [Live -> Token]
    BY DEF Token
  <2>3. \A c \in Cell : Moved(kv.cells[c].seqs, from, Live) = Continued(kv.cells[c].seqs, from)
    <3> TAKE c \in Cell
    <3>1. decoders \in {1, Beam} /\ kv.cells[c].seqs \in SUBSET Decoder /\ Live \in SUBSET Decoder
      BY <1>1 DEF Types, CellsKnown
    <3> QED
      BY <3>1, MovedForm DEF Continued
  <2>4. /\ kv'.head = 0
        /\ \A c \in Cell : kv'.cells[c] =
              IF Continued(kv.cells[c].seqs, from) = {} THEN Free
              ELSE [pos |-> kv.cells[c].pos, by |-> kv.cells[c].by,
                    seqs |-> Continued(kv.cells[c].seqs, from)]
    BY <2>1, <2>3 DEF Reorder, Relabelled
  <2>5. \A c \in Cell :
          /\ kv'.cells[c].seqs = Continued(kv.cells[c].seqs, from)
          /\ kv'.cells[c].seqs = {} => kv'.cells[c].pos = -1
          /\ kv'.cells[c].seqs # {} => /\ kv'.cells[c].pos = kv.cells[c].pos
                                       /\ kv'.cells[c].by = kv.cells[c].by
    <3> TAKE c \in Cell
    <3> DEFINE new == Continued(kv.cells[c].seqs, from)
               cell == kv'.cells[c]
    <3>0. cell = IF new = {} THEN Free
                 ELSE [pos |-> kv.cells[c].pos, by |-> kv.cells[c].by, seqs |-> new]
      BY <2>4
    <3> HIDE DEF new, cell
    <3>1. /\ cell.seqs = new
          /\ new = {} => cell.pos = -1
          /\ new # {} => cell.pos = kv.cells[c].pos /\ cell.by = kv.cells[c].by
      BY <3>0 DEF Free
    <3> QED
      BY <3>1 DEF new, cell
  <2>6. Continue(from, tokens)
    BY <1>1, <2>1, <2>4, <2>5 DEF Continue
  <2> QED
    BY <2>2, <2>6
<1> QED
  BY <1>2, <1>3

(* Sampling keeps every history: that of the sequence that is continued.   *)
LEMMA SampleHistory ==
    ASSUME IInv, HistoryInv, SampleGreedy \/ SampleBeam
    PROVE  HistoryInv'
<1>1. PICK from \in [Live -> Live], tokens \in [Live -> Token] : Continue(from, tokens)
  BY SampleContinues
<1>2. /\ Types /\ CellsKnown /\ Lengths /\ Histories /\ Live \subseteq Decoder
      /\ pc = "sample" /\ pc' = "update" /\ UNCHANGED <<inputs, prompt, step>>
  BY SampleFacts DEF IInv, HistoryInv, Live
<1>3. Decoder' = Decoder /\ Decoding /\ Live # {} /\ prompt \in Nat /\ step \in Nat
  BY <1>2 DEF Decoder, inputs, Decoding, Lengths, Types
<1>4. \A j \in Live : /\ dec'[j].by = dec[from[j]].by
                      /\ dec'[j].len = dec[from[j]].len
                      /\ dec'[j].failed = dec[from[j]].failed
                      /\ dec'[j].completed = dec[from[j]].completed
                      /\ Len(dec'[j].tokens) = Len(dec[from[j]].tokens) + 1
                      /\ Len(dec[from[j]].tokens) \in Nat /\ dec[from[j]].len \in Nat
  <2> TAKE j \in Live
  <2>1. from[j] \in Decoder /\ j \in Decoder /\ tokens[j] \in Token
    BY <1>2
  <2>2. dec[from[j]] \in Sequence /\ dec[from[j]].tokens \in Seq(Token)
    BY <1>2, <2>1 DEF Types, Sequence
  <2>3. dec'[j] = Extended(dec[from[j]], tokens[j])
    BY <1>1, <2>1 DEF Continue
  <2>4. Len(Append(dec[from[j]].tokens, tokens[j])) = Len(dec[from[j]].tokens) + 1
        /\ Len(dec[from[j]].tokens) \in Nat
    BY <2>1, <2>2, AppendProperties, LenProperties
  <2> QED
    BY <2>2, <2>3, <2>4 DEF Extended, Sequence
<1>5. \A j \in Decoder : j \notin Live => dec'[j] = dec[j]
  BY <1>1 DEF Continue
<1>6. Live' = Live
  BY <1>2, <1>3, <1>4, <1>5 DEF Live
<1>7. CellsKnown'
  <2>1. \A c \in Cell : Continued(kv.cells[c].seqs, from) \subseteq Decoder
    BY <1>2 DEF Continued, CellsKnown
  <2>2. \A c \in Cell : kv.cells[c].seqs = {} => Continued(kv.cells[c].seqs, from) = {}
    BY DEF Continued
  <2>3. \A c \in Cell : /\ kv'.cells[c].pos \in Int /\ kv'.cells[c].pos >= -1
                        /\ kv'.cells[c].seqs \subseteq Decoder
                        /\ kv'.cells[c].pos = -1 <=> kv'.cells[c].seqs = {}
    <3> TAKE c \in Cell
    <3>1. /\ kv'.cells[c].seqs \subseteq Decoder
          /\ kv.cells[c].pos \in Int /\ kv.cells[c].pos >= -1
          /\ kv.cells[c].pos = -1 => kv'.cells[c].seqs = {}
      BY <1>1, <1>2, <2>1, <2>2 DEF CellsKnown, Continue
    <3>2. CASE kv'.cells[c].seqs = {}
      BY <1>1, <3>1, <3>2 DEF Continue
    <3>3. CASE kv'.cells[c].seqs # {}
      BY <1>1, <3>1, <3>3 DEF Continue
    <3> QED
      BY <3>2, <3>3
  <2>4. kv'.head \in Cell
    BY <1>1 DEF Continue
  <2> QED
    BY <1>3, <2>3, <2>4 DEF CellsKnown
<1>8. Lengths'
  <2>1. \A j \in Decoder : dec'[j].len <= Len(dec'[j].tokens)
    <3> TAKE j \in Decoder
    <3>1. CASE j \in Live
      <4>1. from[j] \in Decoder
        BY <1>2, <3>1
      <4>2. dec[from[j]].len <= Len(dec[from[j]].tokens)
        BY <1>2, <4>1 DEF Lengths
      <4> QED
        BY <1>4, <3>1, <4>2
    <3>2. CASE j \notin Live
      BY <1>2, <1>5, <3>2 DEF Lengths
    <3> QED
      BY <3>1, <3>2
  <2>2. \A j \in Live : /\ Len(dec'[j].by) = step'
                        /\ Len(dec'[j].tokens) = step' + IF pc' = "sample" THEN 0 ELSE 1
    <3> TAKE j \in Live
    <3>1. Len(dec[from[j]].by) = step /\ Len(dec[from[j]].tokens) = step + 0
      BY <1>2, <1>3 DEF Lengths
    <3>2. step' = step /\ step \in Nat /\ (IF pc' = "sample" THEN 0 ELSE 1) = 1
      BY <1>2, <1>3
    <3>3. Len(dec'[j].by) = Len(dec[from[j]].by)
          /\ Len(dec'[j].tokens) = Len(dec[from[j]].tokens) + 1
      BY <1>4
    <3> QED
      BY <3>1, <3>2, <3>3
  <2>3. step' <= MaxText /\ pc' \notin {"sample", "decode"}
    BY <1>2 DEF Lengths
  <2> QED
    BY <1>3, <1>6, <2>1, <2>2, <2>3 DEF Lengths
<1>9. Histories'
  <2> SUFFICES ASSUME NEW j \in Live
               PROVE  (/\ \A c \in Attended(j) : /\ kv.cells[c].pos < prompt + step
                                                 /\ kv.cells[c].by = Author(j, kv.cells[c].pos)
                       /\ \A p \in 0..(prompt + step - 1) :
                             \E c \in Attended(j) : kv.cells[c].pos = p
                       /\ \A c, e \in Attended(j) :
                             kv.cells[c].pos = kv.cells[e].pos => c = e)'
    BY <1>6 DEF Histories
  <2> DEFINE k == from[j]
  <2>1. Attended(j)' = Attended(k)
    <3>1. \A c \in Cell : j \in kv'.cells[c].seqs <=> k \in kv.cells[c].seqs
      BY <1>1 DEF Continue, Continued
    <3> QED
      BY <3>1 DEF Attended
  <2>2. \A c \in Attended(k) : kv'.cells[c].pos = kv.cells[c].pos
                               /\ kv'.cells[c].by = kv.cells[c].by
    <3> TAKE c \in Attended(k)
    <3>1. c \in Cell /\ j \in kv'.cells[c].seqs
      BY <2>1 DEF Attended
    <3> QED
      BY <1>1, <3>1 DEF Continue
  <2>3. \A p : Author(j, p)' = Author(k, p)
    BY <1>2, <1>4 DEF Author
  <2>4. k \in Live
    OBVIOUS
  <2>5. /\ \A c \in Attended(k) : /\ kv.cells[c].pos < prompt + step
                                  /\ kv.cells[c].by = Author(k, kv.cells[c].pos)
        /\ \A p \in 0..(prompt + step - 1) : \E c \in Attended(k) : kv.cells[c].pos = p
        /\ \A c, e \in Attended(k) : kv.cells[c].pos = kv.cells[e].pos => c = e
    BY <1>2, <1>3, <2>4 DEF Histories
  <2> HIDE DEF k
  <2>6. \A c \in Attended(k) : Author(j, kv.cells[c].pos)' = Author(k, kv.cells[c].pos)
    BY <2>2, <2>3
  <2>7. (\A c \in Attended(j) : /\ kv.cells[c].pos < prompt + step
                                /\ kv.cells[c].by = Author(j, kv.cells[c].pos))'
    BY <1>2, <2>1, <2>2, <2>5, <2>6
  <2>8. (\A p \in 0..(prompt + step - 1) : \E c \in Attended(j) : kv.cells[c].pos = p)'
    BY <1>2, <2>1, <2>2, <2>5
  <2>9. (\A c, e \in Attended(j) : kv.cells[c].pos = kv.cells[e].pos => c = e)'
    BY <2>1, <2>2, <2>5
  <2> QED
    BY <2>7, <2>8, <2>9
<1> QED
  BY <1>7, <1>8, <1>9 DEF HistoryInv

(* An update leaves the tokens of a sequence, and its result ends with the *)
(* token that was sampled or where it did.                                 *)
LEMMA UpdatedKeeps ==
    ASSUME Types, NEW j \in Decoder, NEW dull, NEW any
    PROVE  LET d == Updated(j, dull, any)
           IN  d.tokens = dec[j].tokens /\ d.by = dec[j].by /\ d.len \in {dec[j].len, step + 1}
<1> DEFINE t == dec[j].tokens[Len(dec[j].tokens)]
           s == Stamped(dec[j], t)
           Kept(d, e) == /\ d.tokens = e.tokens /\ d.by = e.by /\ d.len \in {e.len, step + 1}
                         /\ d \in [DOMAIN e -> {d[x] : x \in DOMAIN d}]
<1>1. dec[j] \in Sequence
  BY DEF Types
<1>2. \A d : [d EXCEPT !.failed = TRUE].tokens = d.tokens
  OBVIOUS
<1> HIDE DEF t
<1>3. s.tokens = dec[j].tokens /\ s.by = dec[j].by /\ s.len \in {dec[j].len, step + 1}
      /\ DOMAIN s = DOMAIN dec[j]
  BY <1>1 DEF Stamped, Sequence
<1> HIDE DEF s
<1>4. DOMAIN s = {"tokens", "by", "delta", "hasTs", "len", "failed", "completed"}
  BY <1>1, <1>3 DEF Sequence
<1>5. Ended(s).tokens = s.tokens /\ Ended(s).by = s.by /\ Ended(s).len \in {s.len, step + 1}
  BY <1>4 DEF Ended
<1>6. Judged(j, s, dull, any).tokens = s.tokens /\ Judged(j, s, dull, any).by = s.by
      /\ Judged(j, s, dull, any).len = s.len
  BY <1>4 DEF Judged
<1> QED
  BY <1>3, <1>5, <1>6 DEF Updated, s, t

(* An update keeps the histories of those that go on.                      *)
LEMMA UpdateHistory ==
    ASSUME IInv, HistoryInv, Update
    PROVE  HistoryInv'
<1> DEFINE any == \E j \in Decoder : dec[j].completed
<1>1. PICK dull \in SUBSET Live :
          dec' = [j \in Decoder |->
                     IF j \in Live THEN Updated(j, j \in dull, any) ELSE dec[j]]
  BY DEF Update
<1> HIDE DEF any
<1>2. /\ Types /\ CellsKnown /\ Lengths /\ Histories /\ pc = "update" /\ Decoding
      /\ UNCHANGED <<inputs, prompt, kv, step>>
      /\ pc' = IF \A j \in Decoder : dec'[j].failed \/ dec'[j].completed
               THEN "rank" ELSE "decode"
  BY DEF Update, IInv, HistoryInv, Decoding
<1>3. Decoder' = Decoder
  BY <1>2 DEF Decoder, inputs
<1>4. \A j \in Decoder : /\ dec'[j].tokens = dec[j].tokens /\ dec'[j].by = dec[j].by
                         /\ \/ dec'[j].len = dec[j].len
                            \/ j \in Live /\ dec'[j].len = step + 1
  <2> TAKE j \in Decoder
  <2>1. CASE j \in Live
    <3> DEFINE d == Updated(j, j \in dull, any)
    <3>1. dec'[j] = d
      BY <1>1, <2>1
    <3>2. d.tokens = dec[j].tokens /\ d.by = dec[j].by /\ d.len \in {dec[j].len, step + 1}
      BY <1>2, UpdatedKeeps
    <3> HIDE DEF d
    <3> QED
      BY <2>1, <3>1, <3>2
  <2>2. CASE j \notin Live
    <3>1. dec'[j] = dec[j]
      BY <1>1, <2>2
    <3> QED
      BY <3>1
  <2> QED
    BY <2>1, <2>2
<1>5. Live' \subseteq Live
  <2>1. \A j \in Decoder : j \notin Live => dec'[j] = dec[j]
    BY <1>1
  <2> QED
    BY <1>3, <2>1 DEF Live
<1>6. CellsKnown'
  BY <1>2, <1>3 DEF CellsKnown
<1>7. Lengths'
  <2>1. \A j \in Live : Len(dec[j].by) = step /\ Len(dec[j].tokens) = step + 1
    BY <1>2 DEF Lengths
  <2>2. \A j \in Decoder : dec'[j].len <= Len(dec'[j].tokens)
    <3> TAKE j \in Decoder
    <3>1. step \in Nat /\ dec[j].len <= Len(dec[j].tokens)
      BY <1>2 DEF Lengths, Types
    <3> QED
      BY <1>4, <2>1, <3>1
  <2>3. step' <= MaxText /\ pc' # "sample"
    BY <1>2 DEF Lengths
  <2>4. pc' = "decode" => Live' # {}
    BY <1>2, <1>3 DEF Live
  <2>5. \A j \in Live' : /\ Len(dec'[j].by) = step'
                         /\ Len(dec'[j].tokens) = step' + IF pc' = "sample" THEN 0 ELSE 1
    <3> TAKE j \in Live'
    <3>1. j \in Live /\ j \in Decoder /\ step' = step /\ (IF pc' = "sample" THEN 0 ELSE 1) = 1
      BY <1>2, <1>5, <2>3 DEF Live
    <3> QED
      BY <1>4, <2>1, <3>1
  <2> QED
    BY <1>3, <2>2, <2>3, <2>4, <2>5 DEF Lengths
<1>8. Histories'
  <2>1. \A j \in Live : \A p : Author(j, p)' = Author(j, p)
    BY <1>2, <1>4 DEF Author, Live
  <2>2. \A j : Attended(j)' = Attended(j)
    BY <1>2 DEF Attended
  <2>3. \A j \in Live :
            /\ \A c \in Attended(j) : /\ kv.cells[c].pos < prompt + step
                                      /\ kv.cells[c].by = Author(j, kv.cells[c].pos)
            /\ \A p \in 0..(prompt + step - 1) : \E c \in Attended(j) : kv.cells[c].pos = p
            /\ \A c, e \in Attended(j) : kv.cells[c].pos = kv.cells[e].pos => c = e
    BY <1>2 DEF Histories
  <2>4. \A j \in Live : \A c \in Attended(j) : Author(j, kv.cells[c].pos)' = Author(j, kv.cells[c].pos)
    BY <1>2, <1>4 DEF Author, Live
  <2> QED
    BY <1>2, <1>5, <2>2, <2>3, <2>4 DEF Histories
<1> QED
  BY <1>6, <1>7, <1>8 DEF HistoryInv

(* What a decoding step does: every live decoder gets a cell of its own,   *)
(* one that was free.                                                      *)
Decoded(cell) ==
    /\ cell \in [Live -> Cell]
    /\ \A j, k \in Live : cell[j] = cell[k] => j = k
    /\ \A j \in Live :
          /\ kv.cells[cell[j]].seqs = {}
          /\ kv'.cells[cell[j]].pos = prompt + step
          /\ kv'.cells[cell[j]].by = j
          /\ kv'.cells[cell[j]].seqs = {j}
    /\ \A c \in Cell : (\A j \in Live : c # cell[j]) => kv'.cells[c] = kv.cells[c]

(* Decoding fills such cells.                                              *)
LEMMA DecodeFills ==
    ASSUME IInv, HistoryInv, Decode, ~Return(-8)
    PROVE  kv'.head \in Cell /\ \E cell : Decoded(cell)
<1> DEFINE n == Cardinality(Live)
           slot == FindSlot(kv, n)
           b == Batch(Live)
<1>1. /\ slot # NoSlot /\ pc = "decode" /\ kv' = Fill(kv, slot, b)
      /\ CellsKnown /\ Live # {} /\ Types
  BY DEF Decode, IInv, HistoryInv, Lengths
<1>2. Live \in SUBSET Nat /\ IsFiniteSet(Live)
  <2>1. decoders \in Nat /\ Live \in SUBSET (1..decoders)
    BY <1>1, Constants DEF Types, Live, Decoder
  <2>2. 1 \in Int /\ decoders \in Int
    BY <2>1
  <2>3. IsFiniteSet(1..decoders)
    BY <2>2, FS_Interval
  <2>4. IsFiniteSet(Live)
    BY <2>1, <2>3, FS_Subset
  <2> QED
    BY <2>1, <2>4
<1>3. /\ n \in Nat /\ DOMAIN b = 0..(n - 1)
      /\ \A i \in 0..(n - 1) : b[i].pos = prompt + step /\ b[i].seq \in Live
      /\ \A i, k \in 0..(n - 1) : b[i].seq = b[k].seq => i = k
      /\ \A j \in Live : \E i \in 0..(n - 1) : b[i].seq = j
  BY <1>2, BatchFacts
<1>4. n > 0
  BY <1>1, <1>3
<1>5. slot \in Nat /\ slot + n <= Size /\ Fits(kv, n, slot)
  <2>1. kv.head \in Nat
    BY <1>1, SizeAssumption DEF CellsKnown, Cell
  <2> QED
    BY <1>1, <1>3, <2>1, FindSlotFits
<1> HIDE DEF n, slot, b
<1>6. Size \in Nat /\ Cell = 0..(Size - 1)
  BY SizeAssumption DEF Cell
<1>7. \A i \in 0..(n - 1) :
          /\ slot + i \in Cell /\ (slot + i) - slot = i
          /\ kv.cells[slot + i].seqs = {}
  <2> TAKE i \in 0..(n - 1)
  <2>1. slot + i \in Cell /\ (slot + i) - slot = i /\ slot + i \in slot..(slot + n - 1)
    BY <1>3, <1>5, <1>6
  <2>2. kv.cells[slot + i].pos < 0
    BY <1>5, <2>1 DEF Fits
  <2>3. kv.cells[slot + i].pos = -1
    BY <1>1, <2>1, <2>2 DEF CellsKnown
  <2> QED
    BY <1>1, <2>1, <2>3 DEF CellsKnown
<1>8. /\ kv'.head = slot
      /\ \A c \in Cell : kv'.cells[c] =
            IF c - slot \in 0..(n - 1)
            THEN [pos |-> b[c - slot].pos, by |-> b[c - slot].seq,
                  seqs |-> kv.cells[c].seqs \cup {b[c - slot].seq}]
            ELSE kv.cells[c]
  <2>1. kv' = Fill(kv, slot, b) /\ DOMAIN b = 0..(n - 1)
    BY <1>1, <1>3
  <2> QED
    BY <2>1 DEF Fill
<1>9. \A i \in 0..(n - 1) :
          /\ kv'.cells[slot + i].pos = prompt + step
          /\ kv'.cells[slot + i].by = b[i].seq
          /\ kv'.cells[slot + i].seqs = {b[i].seq}
  <2> TAKE i \in 0..(n - 1)
  <2> DEFINE c == slot + i
             new == kv'.cells[c]
  <2>1. c \in Cell /\ c - slot = i /\ kv.cells[c].seqs = {} /\ i \in 0..(n - 1)
    BY <1>7
  <2>2. new = [pos |-> b[i].pos, by |-> b[i].seq,
               seqs |-> kv.cells[c].seqs \cup {b[i].seq}]
    <3> HIDE DEF c
    <3> QED
      BY <1>8, <2>1
  <2>3. new.pos = b[i].pos /\ new.by = b[i].seq /\ new.seqs = {b[i].seq}
    <3> HIDE DEF c, new
    <3> QED
      BY <2>1, <2>2
  <2> QED
    BY <1>3, <2>3
<1> DEFINE place(j) == CHOOSE i \in 0..(n - 1) : b[i].seq = j
           cell == [j \in Live |-> slot + place(j)]
<1>10. \A j \in Live : place(j) \in 0..(n - 1) /\ b[place(j)].seq = j
  BY <1>3
<1>11. \A i \in 0..(n - 1) : b[i].seq \in Live /\ place(b[i].seq) = i
  BY <1>3
<1> HIDE DEF place
<1>12. cell \in [Live -> Cell] /\ \A j \in Live : cell[j] = slot + place(j)
  BY <1>7, <1>10
<1>13. \A j, k \in Live : cell[j] = cell[k] => j = k
  <2> TAKE j, k \in Live
  <2>1. place(j) \in Int /\ place(k) \in Int /\ slot \in Int
    BY <1>5, <1>10
  <2>2. cell[j] = slot + place(j) /\ cell[k] = slot + place(k)
    BY <1>12
  <2> HIDE DEF cell
  <2>a. \A x, y, z \in Int : z + x = z + y => x = y
    OBVIOUS
  <2>3. slot + place(j) = slot + place(k) => place(j) = place(k)
    BY <2>1, <2>a
  <2> QED
    BY <1>10, <2>2, <2>3
<1>14. \A c \in Cell : (\A j \in Live : c # cell[j]) => kv'.cells[c] = kv.cells[c]
  <2> TAKE c \in Cell
  <2> HAVE \A j \in Live : c # cell[j]
  <2>1. CASE c - slot \in 0..(n - 1)
    <3>1. c = slot + (c - slot)
      BY <1>5, <1>6
    <3>2. b[c - slot].seq \in Live /\ cell[b[c - slot].seq] = slot + (c - slot)
      BY <1>11, <1>12, <2>1
    <3> QED
      BY <3>1, <3>2
  <2>2. CASE c - slot \notin 0..(n - 1)
    BY <1>8, <2>2
  <2> QED
    BY <2>1, <2>2
<1> HIDE DEF cell
<1>15. \A j \in Live :
          /\ kv.cells[cell[j]].seqs = {}
          /\ kv'.cells[cell[j]].pos = prompt + step
          /\ kv'.cells[cell[j]].by = j
          /\ kv'.cells[cell[j]].seqs = {j}
  BY <1>7, <1>9, <1>10, <1>12
<1>16. kv'.head \in Cell
  BY <1>3, <1>4, <1>5, <1>6, <1>8
<1> QED
  BY <1>12, <1>13, <1>14, <1>15, <1>16 DEF Decoded

(* Decoding adds the new token to every history.                           *)
LEMMA DecodeHistory ==
    ASSUME IInv, HistoryInv, Decode, ~Return(-8)
    PROVE  HistoryInv'
<1>1. PICK cell : Decoded(cell)
  BY DecodeFills
<1>2. /\ Types /\ CellsKnown /\ Lengths /\ Histories /\ pc = "decode" /\ Decoding
      /\ dec' = [j \in Decoder |->
               IF j \in Live THEN [dec[j] EXCEPT !.by = Append(@, j)] ELSE dec[j]]
      /\ step' = step + 1
      /\ pc' = IF step + 1 = MaxText THEN "rank" ELSE "sample"
      /\ UNCHANGED <<inputs, prompt>>
      /\ kv'.head \in Cell
  BY DecodeFills DEF Decode, IInv, HistoryInv, Decoding
<1>3. Decoder' = Decoder /\ Live \subseteq Decoder /\ prompt \in Nat /\ step \in Nat
      /\ step < MaxText /\ MaxText \in Nat /\ Live # {}
  BY <1>2, Constants DEF Decoder, inputs, Live, Types, Lengths
<1>4. \A j \in Decoder :
          /\ dec'[j].tokens = dec[j].tokens /\ dec'[j].len = dec[j].len
          /\ dec'[j].failed = dec[j].failed /\ dec'[j].completed = dec[j].completed
  BY <1>2 DEF Types, Sequence
<1>5. \A j \in Live :
          /\ Len(dec[j].by) = step /\ Len(dec'[j].by) = step + 1
          /\ \A i \in 1..step : dec'[j].by[i] = dec[j].by[i]
          /\ dec'[j].by[step + 1] = j
  <2> TAKE j \in Live
  <2>1. dec[j] \in Sequence /\ dec[j].by \in Seq(Nat) /\ j \in Nat
    BY <1>2, <1>3 DEF Types, Sequence, Decoder
  <2>2. dec'[j].by = Append(dec[j].by, j)
    BY <1>2, <1>3, <2>1 DEF Sequence
  <2>3. Len(dec[j].by) = step
    BY <1>2 DEF Lengths
  <2> QED
    BY <2>1, <2>2, <2>3, AppendProperties
<1>6. Live' = Live
  BY <1>3, <1>4 DEF Live
<1>7. CellsKnown'
  <2>1. \A c \in Cell : /\ kv'.cells[c].pos \in Int /\ kv'.cells[c].pos >= -1
                        /\ kv'.cells[c].seqs \subseteq Decoder
                        /\ kv'.cells[c].pos = -1 <=> kv'.cells[c].seqs = {}
    <3> TAKE c \in Cell
    <3>1. CASE \E j \in Live : c = cell[j]
      <4>1. PICK j \in Live : c = cell[j]
        BY <3>1
      <4>2. kv'.cells[c].pos = prompt + step /\ kv'.cells[c].seqs = {j}
        BY <1>1, <4>1 DEF Decoded
      <4> QED
        BY <1>3, <4>2
    <3>2. CASE \A j \in Live : c # cell[j]
      <4>1. kv'.cells[c] = kv.cells[c]
        BY <1>1, <3>2 DEF Decoded
      <4> QED
        BY <1>2, <4>1 DEF CellsKnown
    <3> QED
      BY <3>1, <3>2
  <2> QED
    BY <1>2, <1>3, <2>1 DEF CellsKnown
<1>8. Lengths'
  <2>1. \A j \in Live' : /\ Len(dec'[j].by) = step'
                         /\ Len(dec'[j].tokens) = step' + 0
    <3> TAKE j \in Live'
    <3>1. j \in Live /\ Len(dec[j].tokens) = step + 1
      BY <1>2, <1>6 DEF Lengths
    <3> QED
      BY <1>2, <1>3, <1>4, <1>5, <3>1, SMTT(30)
  <2>2. \A j \in Decoder : dec'[j].len <= Len(dec'[j].tokens)
    BY <1>2, <1>4 DEF Lengths
  <2>3. Decoding' => pc' = "sample"
    BY <1>2 DEF Decoding
  <2>4. step' <= MaxText /\ Live' # {}
    BY <1>2, <1>3, <1>6
  <2> QED
    BY <1>3, <2>1, <2>2, <2>3, <2>4 DEF Lengths
<1>9. Histories'
  <2> SUFFICES ASSUME NEW j \in Live
               PROVE  (/\ \A c \in Attended(j) : /\ kv.cells[c].pos < prompt + step
                                                 /\ kv.cells[c].by = Author(j, kv.cells[c].pos)
                       /\ \A p \in 0..(prompt + step - 1) :
                             \E c \in Attended(j) : kv.cells[c].pos = p
                       /\ \A c, e \in Attended(j) :
                             kv.cells[c].pos = kv.cells[e].pos => c = e)'
    BY <1>6 DEF Histories
  <2> DEFINE own == cell[j]
  <2>a. PICK end \in Nat : end = prompt + step
    BY <1>3
  <2>0. prompt' = prompt /\ step' = step + 1 /\ prompt' + step' = end + 1
    BY <1>2, <1>3, <2>a
  <2>1. /\ own \in Cell /\ own \notin Attended(j)
        /\ kv'.cells[own].pos = end /\ kv'.cells[own].by = j
    BY <1>1, <2>a DEF Decoded, Attended
  <2>2. Attended(j)' = Attended(j) \cup {own}
    <3>1. \A c \in Cell : j \in kv'.cells[c].seqs <=> c = own \/ j \in kv.cells[c].seqs
      <4> TAKE c \in Cell
      <4>1. CASE \E k \in Live : c = cell[k]
        <5>1. PICK k \in Live : c = cell[k]
          BY <4>1
        <5>2. kv'.cells[c].seqs = {k} /\ kv.cells[c].seqs = {} /\ (c = own <=> j = k)
          BY <1>1, <5>1 DEF Decoded
        <5> QED
          BY <5>2
      <4>2. CASE \A k \in Live : c # cell[k]
        BY <1>1, <4>2 DEF Decoded
      <4> QED
        BY <4>1, <4>2
    <3> QED
      BY <2>1, <3>1 DEF Attended
  <2>3. \A c \in Attended(j) : kv'.cells[c] = kv.cells[c] /\ c \in Cell
    <3> TAKE c \in Attended(j)
    <3>1. c \in Cell /\ \A k \in Live : c # cell[k]
      BY <1>1 DEF Attended, Decoded
    <3> QED
      BY <1>1, <3>1 DEF Decoded
  <2>4. /\ \A c \in Attended(j) : /\ kv.cells[c].pos < end
                                  /\ kv.cells[c].by = Author(j, kv.cells[c].pos)
        /\ \A p \in 0..(end - 1) : \E c \in Attended(j) : kv.cells[c].pos = p
        /\ \A c, e \in Attended(j) : kv.cells[c].pos = kv.cells[e].pos => c = e
    <3>1. /\ \A c \in Attended(j) : /\ kv.cells[c].pos < prompt + step
                                    /\ kv.cells[c].by = Author(j, kv.cells[c].pos)
          /\ \A p \in 0..(prompt + step - 1) : \E c \in Attended(j) : kv.cells[c].pos = p
          /\ \A c, e \in Attended(j) : kv.cells[c].pos = kv.cells[e].pos => c = e
      BY <1>2 DEF Histories
    <3>2. 0..(prompt + step - 1) = 0..(end - 1)
      <4>1. prompt + step - 1 = end - 1
        BY <1>3, <2>a
      <4> QED
        BY <4>1
    <3> QED
      BY <2>a, <3>1, <3>2
  <2>5. \A c \in Attended(j) : kv.cells[c].pos \in Nat
    <3> TAKE c \in Attended(j)
    <3>1. c \in Cell /\ kv.cells[c].seqs # {}
      BY DEF Attended
    <3> QED
      BY <1>2, <3>1 DEF CellsKnown
  <2>6. \A p \in 0..(end - 1) : Author(j, p)' = Author(j, p)
    <3> TAKE p \in 0..(end - 1)
    <3>1. CASE p < prompt
      BY <2>0, <3>1 DEF Author
    <3>2. CASE ~(p < prompt)
      <4>1. p - prompt + 1 \in 1..step
        BY <1>3, <2>0, <3>2
      <4>2. dec'[j].by[p - prompt + 1] = dec[j].by[p - prompt + 1]
        BY <1>5, <4>1
      <4> QED
        BY <2>0, <3>2, <4>2 DEF Author
    <3> QED
      BY <3>1, <3>2
  <2>7. Author(j, end)' = j
    <3>1. ~(end < prompt) /\ end - prompt + 1 = step + 1
      BY <1>3, <2>a
    <3>2. dec'[j].by[end - prompt + 1] = j /\ ~(end < prompt')
      BY <1>5, <2>0, <3>1
    <3> QED
      BY <2>0, <3>2 DEF Author
  <2> HIDE DEF own
  <2>8. (\A c \in Attended(j) : /\ kv.cells[c].pos < prompt + step
                                /\ kv.cells[c].by = Author(j, kv.cells[c].pos))'
    <3> SUFFICES ASSUME NEW c \in Attended(j) \cup {own}
                 PROVE  (/\ kv.cells[c].pos < prompt + step
                         /\ kv.cells[c].by = Author(j, kv.cells[c].pos))'
      BY <2>2
    <3>1. CASE c = own
      <4>1. kv'.cells[c].pos = end /\ kv'.cells[c].by = j /\ end < prompt' + step'
        BY <2>0, <2>1, <3>1
      <4>2. Author(j, kv.cells[c].pos)' = Author(j, end)'
        BY <4>1
      <4> QED
        BY <2>7, <4>1, <4>2
    <3>2. CASE c # own
      <4>1. /\ kv'.cells[c] = kv.cells[c] /\ kv.cells[c].pos \in 0..(end - 1)
            /\ kv.cells[c].by = Author(j, kv.cells[c].pos)
        BY <2>0, <2>3, <2>4, <2>5, <3>2
      <4>2. Author(j, kv.cells[c].pos)' = Author(j, kv.cells[c].pos)
        BY <2>6, <4>1
      <4> QED
        BY <2>0, <4>1, <4>2
    <3> QED
      BY <3>1, <3>2
  <2>9. (\A p \in 0..(prompt + step - 1) : \E c \in Attended(j) : kv.cells[c].pos = p)'
    <3>1. prompt' + step' - 1 = end /\ end \in Nat
      <4>1. prompt' = prompt /\ step' = step + 1 /\ prompt \in Int /\ step \in Int
        BY <1>3, <2>0
      <4>2. prompt + (step + 1) - 1 = end
        BY <1>3, <2>a
      <4> QED
        BY <4>1, <4>2
    <3>2. \A p \in 0..(prompt' + step' - 1) : p = end \/ p \in 0..(end - 1)
      BY <3>1
    <3> QED
      BY <2>1, <2>2, <2>3, <2>4, <3>2
  <2>10. (\A c, e \in Attended(j) : kv.cells[c].pos = kv.cells[e].pos => c = e)'
    <3>1. \A c \in Attended(j) : kv'.cells[c].pos = kv.cells[c].pos /\ kv.cells[c].pos # end
      BY <2>0, <2>3, <2>4, <2>5
    <3> QED
      BY <2>1, <2>2, <2>4, <3>1
  <2> QED
    BY <2>8, <2>9, <2>10
<1> QED
  BY <1>7, <1>8, <1>9 DEF HistoryInv

(* Every step keeps the histories.                                         *)
LEMMA HistoryStep ==
    ASSUME IInv, HistoryInv, [Next]_vars
    PROVE  HistoryInv'
<1>1. ASSUME NEW code, Return(code) PROVE HistoryInv'
  BY <1>1, QuietHistory DEF Return
<1>2. CASE Begin
  <2>1. CASE Return(0)
    BY <1>1, <2>1
  <2>2. CASE ~Return(0)
    BY <1>2, <2>2, QuietHistory DEF Begin
  <2> QED
    BY <2>1, <2>2
<1>3. CASE Window
  <2>1. CASE Return(0) \/ Return(-6)
    BY <1>1, <2>1
  <2>2. CASE ~Return(0) /\ ~Return(-6)
    BY <1>3, <2>2, QuietHistory DEF Window
  <2> QED
    BY <2>1, <2>2
<1>4. CASE Prompt
  BY <1>1, <1>4, PromptHistory
<1>5. CASE SampleGreedy \/ SampleBeam
  BY <1>5, SampleHistory
<1>6. CASE Update
  BY <1>6, UpdateHistory
<1>7. CASE Decode
  BY <1>1, <1>7, DecodeHistory
<1>8. CASE Finish
  BY <1>8, QuietHistory DEF Finish
<1>9. CASE UNCHANGED vars
  BY <1>9, QuietHistory
<1> QED
  BY <1>2, <1>3, <1>4, <1>5, <1>6, <1>7, <1>8, <1>9 DEF Next

(* Every history is kept.                                                  *)
LEMMA HistoryAlways == Spec => []HistoryInv
<1>1. Init => HistoryInv
  BY InitHistory
<1>2. IInv /\ HistoryInv /\ [Next]_vars => HistoryInv'
  BY HistoryStep
<1> QED
  BY <1>1, <1>2, IInvAlways, PTL DEF Spec

(* What a decoder attends to is its own history.                           *)
LEMMA HistoryIsOwn == IInv /\ HistoryInv => OwnHistory
<1> SUFFICES ASSUME IInv, HistoryInv, pc \in {"sample", "update"}, NEW j \in Live
             PROVE  LET mine == {c \in 0..(CellMax(kv.cells) - 1) : j \in kv.cells[c].seqs}
                    IN  /\ {<<kv.cells[c].pos, kv.cells[c].by>> : c \in mine} =
                               {<<p, 1>> : p \in 0..(prompt - 1)}
                                 \cup {<<prompt + k - 1, dec[j].by[k]>> : k \in 1..step}
                        /\ Cardinality(mine) = prompt + step
  BY DEF OwnHistory
<1> DEFINE mine == {c \in 0..(CellMax(kv.cells) - 1) : j \in kv.cells[c].seqs}
           own == Attended(j)
           pos(c) == kv.cells[c].pos
           f == [c \in own |-> pos(c)]
<1>1. CellsKnown /\ Types /\ Histories /\ Decoding /\ prompt \in Nat /\ step \in Nat
  BY DEF HistoryInv, IInv, Types, Decoding
<1>2. PICK end \in Nat : end = prompt + step
  BY <1>1
<1>3. /\ \A c \in own : pos(c) < end /\ kv.cells[c].by = Author(j, pos(c))
      /\ \A p \in 0..(end - 1) : \E c \in own : pos(c) = p
      /\ \A c, e \in own : pos(c) = pos(e) => c = e
  <2>1. /\ \A c \in own : /\ pos(c) < prompt + step
                          /\ kv.cells[c].by = Author(j, pos(c))
        /\ \A p \in 0..(prompt + step - 1) : \E c \in own : pos(c) = p
        /\ \A c, e \in own : pos(c) = pos(e) => c = e
    BY <1>1 DEF Histories
  <2>2. prompt + step - 1 = end - 1
    BY <1>1, <1>2
  <2> QED
    BY <1>2, <2>1, <2>2
<1>4. \A c \in own : c \in Cell /\ pos(c) \in 0..(end - 1)
  <2>1. \A c \in own : c \in Cell /\ pos(c) \in Int /\ pos(c) >= -1 /\ pos(c) # -1
    BY <1>1 DEF Attended, CellsKnown
  <2> HIDE DEF own, pos
  <2> QED
    BY <1>3, <2>1
<1>5. mine = own
  <2>1. \A c \in Cell : kv.cells[c].seqs # {} => kv.cells[c].pos >= 0
    <3> TAKE c \in Cell
    <3>1. kv.cells[c].pos \in Int /\ kv.cells[c].pos >= -1
          /\ (kv.cells[c].pos = -1 <=> kv.cells[c].seqs = {})
      BY <1>1 DEF CellsKnown
    <3> QED
      BY <3>1
  <2>2. /\ CellMax(kv.cells) \in 1..Size
        /\ \A c \in Cell : kv.cells[c].seqs # {} => c < CellMax(kv.cells)
    BY <2>1, CellMaxFacts
  <2>3. Size \in Nat /\ Cell = 0..(Size - 1)
    BY SizeAssumption DEF Cell
  <2>4. \A c \in 0..(CellMax(kv.cells) - 1) : c \in Cell
    BY <2>2, <2>3
  <2>5. \A c \in Cell : c < CellMax(kv.cells) => c \in 0..(CellMax(kv.cells) - 1)
    BY <2>2, <2>3
  <2> QED
    BY <2>2, <2>4, <2>5 DEF Attended
<1>6. Cardinality(own) = end
  <2>1. f \in [own -> 0..(end - 1)]
    BY <1>4
  <2>2. f \in Bijection(own, 0..(end - 1))
    <3>1. \A c, e \in own : f[c] = f[e] => c = e
      BY <1>3
    <3>2. \A p \in 0..(end - 1) : \E c \in own : f[c] = p
      BY <1>3
    <3> HIDE DEF f, own
    <3> QED
      BY <2>1, <3>1, <3>2 DEF Bijection, Injection, Surjection, IsInjective
  <2>3. end - 1 \in Int /\ 0 \in Int
    BY <1>2
  <2>4. /\ IsFiniteSet(0..(end - 1))
        /\ Cardinality(0..(end - 1)) = IF 0 > end - 1 THEN 0 ELSE end - 1 - 0 + 1
    BY <2>3, FS_Interval
  <2>5. (IF 0 > end - 1 THEN 0 ELSE end - 1 - 0 + 1) = end
    BY <1>2
  <2> HIDE DEF f, own
  <2>6. ExistsBijection(own, 0..(end - 1))
    BY <2>2 DEF ExistsBijection
  <2>7. ExistsBijection(0..(end - 1), own)
    BY <2>6, Fun_ExistsBijSymmetric
  <2>8. Cardinality(own) = Cardinality(0..(end - 1))
    BY <2>4, <2>7, FS_Bijection
  <2> QED
    BY <2>4, <2>5, <2>8
<1> HIDE DEF f, mine
<1>7. {<<pos(c), kv.cells[c].by>> : c \in own} =
          {<<p, 1>> : p \in 0..(prompt - 1)}
            \cup {<<prompt + k - 1, dec[j].by[k]>> : k \in 1..step}
  <2>1. {<<pos(c), kv.cells[c].by>> : c \in own} = {<<p, Author(j, p)>> : p \in 0..(end - 1)}
    <3> HIDE DEF own, pos
    <3> QED
      BY <1>3, <1>4
  <2>2. \A p \in 0..(prompt - 1) : p \in 0..(end - 1) /\ Author(j, p) = 1
    BY <1>1, <1>2 DEF Author
  <2>3. \A k \in 1..step : /\ prompt + k - 1 \in 0..(end - 1)
                           /\ Author(j, prompt + k - 1) = dec[j].by[k]
    <3> TAKE k \in 1..step
    <3>1. /\ prompt + k - 1 \in 0..(end - 1) /\ ~(prompt + k - 1 < prompt)
          /\ (prompt + k - 1) - prompt + 1 = k
      BY <1>1, <1>2
    <3> QED
      BY <3>1 DEF Author
  <2>4. \A p \in 0..(end - 1) : p \in 0..(prompt - 1) \/ \E k \in 1..step : p = prompt + k - 1
    <3> TAKE p \in 0..(end - 1)
    <3>1. CASE p < prompt
      BY <1>1, <3>1
    <3>2. CASE ~(p < prompt)
      <4>1. p - prompt + 1 \in 1..step /\ p = prompt + (p - prompt + 1) - 1
        BY <1>1, <1>2, <3>2
      <4> QED
        BY <4>1
    <3> QED
      BY <3>1, <3>2
  <2> QED
    <3>1. ASSUME NEW p \in 0..(end - 1)
          PROVE  <<p, Author(j, p)>> \in {<<i, 1>> : i \in 0..(prompt - 1)}
                     \cup {<<prompt + k - 1, dec[j].by[k]>> : k \in 1..step}
      BY <2>2, <2>3, <2>4
    <3>2. ASSUME NEW p \in 0..(prompt - 1)
          PROVE  <<p, 1>> \in {<<i, Author(j, i)>> : i \in 0..(end - 1)}
      BY <2>2
    <3>3. ASSUME NEW k \in 1..step
          PROVE  <<prompt + k - 1, dec[j].by[k]>> \in {<<i, Author(j, i)>> : i \in 0..(end - 1)}
      BY <2>3
    <3> QED
      BY <2>1, <3>1, <3>2, <3>3
<1>8. /\ {<<kv.cells[c].pos, kv.cells[c].by>> : c \in mine} =
             {<<p, 1>> : p \in 0..(prompt - 1)}
               \cup {<<prompt + k - 1, dec[j].by[k]>> : k \in 1..step}
      /\ Cardinality(mine) = prompt + step
  <2> HIDE DEF own
  <2> QED
    BY <1>2, <1>5, <1>6, <1>7
<1> QED
  BY <1>8 DEF mine

(* Theorem: when a token is decoded each live decoder attends to the       *)
(* prompt and its own sequence, once each and to nothing else.             *)
THEOREM OwnHistories == Spec => []OwnHistory
<1> QED
  BY IInvAlways, HistoryAlways, HistoryIsOwn, PTL

-----------------------------------------------------------------------------
(* The segments of a window.                                               *)

Part == Seq(Nat \ {0})

Closed(open) == IF open > 0 THEN <<open>> ELSE <<>>

(* What the recursion of Segments says of f at token k.                    *)
Row(f, tokens, k, open) ==
    IF k > Len(tokens) THEN Closed(open)
    ELSE IF tokens[k] > 0 THEN Closed(open) \o f[k + 1][0]
    ELSE f[k + 1][IF tokens[k] = Text THEN open + 1 ELSE open]

(* f satisfies the recursion of Segments from the m-th token on.           *)
Splits(f, tokens, m) ==
    f = [k \in m..(Len(tokens) + 1) |-> [open \in Nat |-> Row(f, tokens, k, open)]]

(* The recursion of Segments has a solution.                               *)
LEMMA SplitsExists ==
    ASSUME NEW tokens, Len(tokens) \in Nat
    PROVE  \E f : Splits(f, tokens, 1)
<1> DEFINE L == Len(tokens)
           S == {m \in 0..L : \E f : Splits(f, tokens, L + 1 - m)}
<1>1. 0 \in S
  <2> DEFINE f == [k \in (L + 1)..(L + 1) |-> [open \in Nat |-> Closed(open)]]
  <2>1. \A k \in (L + 1)..(L + 1) : \A open \in Nat : Row(f, tokens, k, open) = Closed(open)
    BY DEF Row
  <2> HIDE DEF f
  <2>2. [k \in (L + 1)..(L + 1) |-> [open \in Nat |-> Closed(open)]] =
        [k \in (L + 1)..(L + 1) |-> [open \in Nat |-> Row(f, tokens, k, open)]]
    BY <2>1
  <2>3. Splits(f, tokens, L + 1)
    BY <2>2 DEF Splits, f
  <2>4. L + 1 - 0 = L + 1
    OBVIOUS
  <2> QED
    BY <2>3, <2>4
<1>2. \A m \in 1..L : m - 1 \in S => m \in S
  <2> SUFFICES ASSUME NEW m \in 1..L, m - 1 \in S
               PROVE  \E f : Splits(f, tokens, L + 1 - m)
    OBVIOUS
  <2> DEFINE b == L + 1 - m
  <2>1. /\ b \in Nat /\ b <= L /\ L + 1 - (m - 1) = b + 1
        /\ b..(L + 1) = {b} \cup (b + 1)..(L + 1)
        /\ b \notin (b + 1)..(L + 1)
        /\ \A k \in b..(L + 1) : k > L \/ k + 1 \in (b + 1)..(L + 1)
    OBVIOUS
  <2>2. PICK f : Splits(f, tokens, b + 1)
    BY <2>1
  <2> HIDE DEF b
  <2> DEFINE g == [k \in b..(L + 1) |->
                      IF k = b THEN [open \in Nat |-> Row(f, tokens, b, open)] ELSE f[k]]
  <2>3. \A k \in (b + 1)..(L + 1) : g[k] = f[k] /\ f[k] = [open \in Nat |-> Row(f, tokens, k, open)]
    <3>1. f = [k \in (b + 1)..(L + 1) |-> [open \in Nat |-> Row(f, tokens, k, open)]]
      BY <2>2 DEF Splits
    <3> QED
      BY <2>1, <3>1
  <2>4. g[b] = [open \in Nat |-> Row(f, tokens, b, open)]
    BY <2>1
  <2>5. DOMAIN g = b..(L + 1) /\ g = [k \in b..(L + 1) |-> g[k]]
    OBVIOUS
  <2> HIDE DEF g
  <2>6. \A k \in b..(L + 1) : g[k] = [open \in Nat |-> Row(g, tokens, k, open)]
    <3> TAKE k \in b..(L + 1)
    <3>1. k > Len(tokens) \/ f[k + 1] = g[k + 1]
      BY <2>1, <2>3
    <3>2. \A open \in Nat : Row(f, tokens, k, open) = Row(g, tokens, k, open)
      BY <3>1 DEF Row
    <3>3. g[k] = [open \in Nat |-> Row(f, tokens, k, open)]
      BY <2>1, <2>3, <2>4
    <3> QED
      BY <3>2, <3>3
  <2>7. Splits(g, tokens, b)
    BY <2>5, <2>6 DEF Splits
  <2> QED
    BY <2>7 DEF b
<1>3. L \in S
  <2> HIDE DEF S
  <2>1. \A m \in 0..L : m \in S
    BY <1>1, <1>2, UpTo
  <2> QED
    BY <2>1
<1>4. L + 1 - L = 1
  OBVIOUS
<1> QED
  BY <1>3, <1>4

(* Segments is read off a solution.                                        *)
LEMMA SegmentsIs ==
    ASSUME NEW tokens, Len(tokens) \in Nat
    PROVE  \E f : Splits(f, tokens, 1) /\ Segments(tokens) = f[1][0]
<1> DEFINE F == CHOOSE f : f = [k \in 1..(Len(tokens) + 1) |->
                                    [open \in Nat |-> Row(f, tokens, k, open)]]
<1>1. Segments(tokens) = F[1][0]
  BY DEF Segments, Row, Closed
<1>2. \E f : f = [k \in 1..(Len(tokens) + 1) |-> [open \in Nat |-> Row(f, tokens, k, open)]]
  BY SplitsExists DEF Splits
<1>3. F = [k \in 1..(Len(tokens) + 1) |-> [open \in Nat |-> Row(F, tokens, k, open)]]
  BY <1>2
<1> HIDE DEF F
<1> QED
  BY <1>1, <1>3 DEF Splits

(* The numbers of s add up to n: f holds the sums of its prefixes.         *)
Adds(f, s, n) ==
    /\ f \in [0..Len(s) -> Nat]
    /\ f[0] = 0 /\ f[Len(s)] = n
    /\ \A k \in 1..Len(s) : f[k] = f[k - 1] + s[k]

AddsUp(s, n) == \E f : Adds(f, s, n)

(* No numbers add up to nothing.                                           *)
LEMMA AddsEmpty == AddsUp(<<>>, 0)
<1> DEFINE f == [k \in 0..0 |-> 0]
<1>1. f \in [0..0 -> Nat] /\ f[0] = 0
  OBVIOUS
<1>2. Len(<<>>) = 0 /\ \A k : k \notin 1..0
  OBVIOUS
<1> HIDE DEF f
<1> QED
  BY <1>1, <1>2 DEF AddsUp, Adds

(* One more number in front.                                               *)
LEMMA AddsFront ==
    ASSUME NEW s \in Part, NEW n \in Nat, AddsUp(s, n), NEW x \in Nat \ {0}
    PROVE  <<x>> \o s \in Part /\ AddsUp(<<x>> \o s, n + x)
<1> DEFINE t == <<x>> \o s
           L == Len(s)
<1>1. s \in Seq(Nat \ {0}) /\ <<x>> \in Seq(Nat \ {0}) /\ Len(<<x>>) = 1 /\ <<x>>[1] = x /\ L \in Nat
  BY DEF Part
<1>2. /\ t \in Seq(Nat \ {0}) /\ Len(t) = 1 + L
      /\ \A i \in 1..(1 + L) : t[i] = IF i <= 1 THEN <<x>>[1] ELSE s[i - 1]
  <2>1. /\ t \in Seq(Nat \ {0}) /\ Len(t) = Len(<<x>>) + Len(s)
        /\ \A i \in 1..(Len(<<x>>) + Len(s)) :
              t[i] = IF i <= Len(<<x>>) THEN <<x>>[i] ELSE s[i - Len(<<x>>)]
    BY <1>1, ConcatProperties
  <2> HIDE DEF t
  <2>2. \A i \in 1..(1 + L) : t[i] = IF i <= 1 THEN <<x>>[i] ELSE s[i - 1]
    BY <1>1, <2>1
  <2>3. \A i \in 1..(1 + L) : i <= 1 => i = 1
    BY <1>1
  <2> QED
    BY <1>1, <2>1, <2>2, <2>3
<1>3. PICK f : Adds(f, s, n)
  BY DEF AddsUp
<1> DEFINE g == [k \in 0..(1 + L) |-> IF k = 0 THEN 0 ELSE x + f[k - 1]]
<1>4. /\ f \in [0..L -> Nat] /\ f[0] = 0 /\ f[L] = n
      /\ \A k \in 1..L : f[k] = f[k - 1] + s[k]
  BY <1>3 DEF Adds
<1> HIDE DEF t, L
<1>5. \A k \in 1..(1 + L) : k - 1 \in 0..L /\ k \in 0..(1 + L) /\ k # 0 /\ f[k - 1] \in Nat
  <2> TAKE k \in 1..(1 + L)
  <2>1. k - 1 \in 0..L /\ k \in 0..(1 + L) /\ k # 0
    BY <1>1
  <2> QED
    BY <1>4, <2>1
<1>6. g \in [0..(1 + L) -> Nat]
  <2>1. \A k \in 0..(1 + L) : k # 0 => k \in 1..(1 + L)
    BY <1>1
  <2>2. \A k \in 1..(1 + L) : x + f[k - 1] \in Nat
    BY <1>5
  <2> QED
    BY <2>1, <2>2
<1>7. g[0] = 0 /\ \A k \in 1..(1 + L) : g[k] = x + f[k - 1]
  BY <1>1, <1>5
<1>8. g[1 + L] = n + x
  <2>1. 1 + L \in 1..(1 + L) /\ (1 + L) - 1 = L
    BY <1>1
  <2> HIDE DEF g
  <2>2. g[1 + L] = x + n
    BY <1>4, <1>7, <2>1
  <2> QED
    BY <2>2
<1> HIDE DEF g
<1>9. \A k \in 1..(1 + L) : g[k] = g[k - 1] + t[k]
  <2> TAKE k \in 1..(1 + L)
  <2>1. CASE k = 1
    <3>1. k - 1 = 0 /\ g[k] = x + f[0] /\ t[k] = x
      BY <1>1, <1>2, <1>7, <2>1
    <3> QED
      BY <1>4, <1>7, <3>1
  <2>2. CASE k # 1
    <3>1. k - 1 \in 1..(1 + L) /\ k - 1 \in 1..L /\ ~(k <= 1)
      BY <1>1, <2>2
    <3>2. g[k] = x + f[k - 1] /\ g[k - 1] = x + f[(k - 1) - 1] /\ t[k] = s[k - 1]
      BY <1>2, <1>7, <3>1
    <3>3. f[k - 1] = f[(k - 1) - 1] + s[k - 1]
      BY <1>4, <3>1
    <3>4. f[(k - 1) - 1] \in Nat /\ s[k - 1] \in Nat
      <4>1. k - 1 \in 1..Len(s)
        BY <3>1 DEF L
      <4> QED
        BY <1>1, <1>5, <3>1, <4>1, ElementOfSeq
    <3> QED
      BY <3>2, <3>3, <3>4
  <2> QED
    BY <2>1, <2>2
<1>10. Adds(g, t, n + x)
  BY <1>2, <1>6, <1>7, <1>8, <1>9 DEF Adds
<1>11. t \in Part
  BY <1>2 DEF Part
<1> QED
  BY <1>10, <1>11 DEF AddsUp, t

(* What a sequence adds up to is what the recursion over it computes.      *)
LEMMA AddsIsSum ==
    ASSUME NEW s, Len(s) \in Nat, NEW n, AddsUp(s, n)
    PROVE  LET sum[k \in 0..Len(s)] == IF k = 0 THEN 0 ELSE sum[k - 1] + s[k]
           IN  sum[Len(s)] = n
<1> DEFINE L == Len(s)
           F == CHOOSE sum : sum = [k \in 0..L |-> IF k = 0 THEN 0 ELSE sum[k - 1] + s[k]]
<1>1. PICK f : Adds(f, s, n)
  BY DEF AddsUp
<1>2. f = [k \in 0..L |-> IF k = 0 THEN 0 ELSE f[k - 1] + s[k]]
  <2>1. f = [k \in 0..L |-> f[k]]
    BY <1>1 DEF Adds
  <2>2. \A k \in 0..L : f[k] = IF k = 0 THEN 0 ELSE f[k - 1] + s[k]
    BY <1>1 DEF Adds
  <2> QED
    BY <2>1, <2>2
<1>3. F = [k \in 0..L |-> IF k = 0 THEN 0 ELSE F[k - 1] + s[k]]
  BY <1>2
<1> HIDE DEF F
<1> DEFINE S == {k \in 0..L : F[k] = f[k]}
<1>4. 0 \in S
  BY <1>1, <1>3 DEF Adds
<1>5. \A k \in 1..L : k - 1 \in S => k \in S
  <2> TAKE k \in 1..L
  <2> HAVE k - 1 \in S
  <2>1. k \in 0..L /\ F[k] = F[k - 1] + s[k]
    BY <1>3
  <2>2. f[k] = f[k - 1] + s[k]
    BY <1>1 DEF Adds
  <2> QED
    BY <2>1, <2>2
<1>6. L \in S
  <2> HIDE DEF S
  <2>1. \A k \in 0..L : k \in S
    BY <1>4, <1>5, UpTo
  <2> QED
    BY <2>1
<1>7. F[L] = n
  BY <1>1, <1>6 DEF Adds
<1> QED
  BY <1>7 DEF F

(* The text from token k on.                                               *)
TextsFrom(tokens, k) == {i \in k..Len(tokens) : tokens[i] = Text}

(* How much text follows, token by token.                                  *)
LEMMA TextsFromFacts ==
    ASSUME NEW tokens, Len(tokens) \in Nat
    PROVE  /\ TextsFrom(tokens, Len(tokens) + 1) = {}
           /\ \A k \in 1..(Len(tokens) + 1) : Cardinality(TextsFrom(tokens, k)) \in Nat
           /\ \A k \in 1..Len(tokens) :
                 Cardinality(TextsFrom(tokens, k)) =
                     Cardinality(TextsFrom(tokens, k + 1)) + (IF tokens[k] = Text THEN 1 ELSE 0)
<1> DEFINE L == Len(tokens)
<1>1. \A k \in 1..(L + 1) : IsFiniteSet(TextsFrom(tokens, k))
  <2> TAKE k \in 1..(L + 1)
  <2>1. k \in Int /\ L \in Int
    OBVIOUS
  <2>2. IsFiniteSet(k..L)
    BY <2>1, FS_Interval
  <2>3. TextsFrom(tokens, k) \in SUBSET (k..L)
    BY DEF TextsFrom
  <2> QED
    BY <2>2, <2>3, FS_Subset
<1>2. \A k \in 1..(L + 1) : Cardinality(TextsFrom(tokens, k)) \in Nat
  BY <1>1, FS_CardinalityType
<1>3. \A k \in 1..L : Cardinality(TextsFrom(tokens, k)) =
          Cardinality(TextsFrom(tokens, k + 1)) + (IF tokens[k] = Text THEN 1 ELSE 0)
  <2> TAKE k \in 1..L
  <2>1. k..L = {k} \cup (k + 1)..L /\ k \notin (k + 1)..L /\ k + 1 \in 1..(L + 1)
    OBVIOUS
  <2>2. IsFiniteSet(TextsFrom(tokens, k + 1)) /\ Cardinality(TextsFrom(tokens, k + 1)) \in Nat
    BY <1>1, <1>2, <2>1
  <2> HIDE DEF L
  <2>3. CASE tokens[k] = Text
    <3>1. TextsFrom(tokens, k) = TextsFrom(tokens, k + 1) \cup {k}
      BY <2>1, <2>3 DEF TextsFrom, L
    <3>2. k \notin TextsFrom(tokens, k + 1)
      BY <2>1 DEF TextsFrom, L
    <3> QED
      BY <2>2, <2>3, <3>1, <3>2, FS_AddElement
  <2>4. CASE tokens[k] # Text
    <3>1. TextsFrom(tokens, k) = TextsFrom(tokens, k + 1)
      BY <2>1, <2>4 DEF TextsFrom, L
    <3> QED
      BY <2>2, <2>4, <3>1
  <2> QED
    BY <2>3, <2>4
<1>4. TextsFrom(tokens, L + 1) = {}
  BY DEF TextsFrom
<1> QED
  BY <1>2, <1>3, <1>4

(* A segment that is closed holds the text that was open.                  *)
LEMMA ClosedFront ==
    ASSUME NEW s \in Part, NEW n \in Nat, AddsUp(s, n), NEW open \in Nat
    PROVE  Closed(open) \o s \in Part /\ AddsUp(Closed(open) \o s, n + open)
<1>1. CASE open = 0
  <2>1. Closed(open) \o s = s
    <3>1. Closed(open) = <<>>
      BY <1>1 DEF Closed
    <3> QED
      BY <3>1, ConcatEmptySeq DEF Part
  <2>2. n + open = n
    BY <1>1
  <2> QED
    BY <2>1, <2>2
<1>2. CASE open # 0
  <2>1. Closed(open) = <<open>> /\ open \in Nat \ {0}
    BY <1>2 DEF Closed
  <2> QED
    BY <2>1, AddsFront
<1> QED
  BY <1>1, <1>2

(* The last segment holds what was open.                                   *)
LEMMA ClosedAdds ==
    ASSUME NEW open \in Nat
    PROVE  Closed(open) \in Part /\ AddsUp(Closed(open), open)
<1>1. <<>> \in Part
  BY DEF Part
<1>2. Closed(open) \o <<>> \in Part /\ AddsUp(Closed(open) \o <<>>, 0 + open)
  BY <1>1, AddsEmpty, ClosedFront
<1>3. Closed(open) \o <<>> = Closed(open)
  <2>1. Closed(open) \in Seq(Nat)
    BY DEF Closed
  <2> QED
    BY <2>1, ConcatEmptySeq
<1> QED
  BY <1>2, <1>3

(* From each token on the segments hold the text that is open and what     *)
(* follows, and none of them is empty.                                     *)
Kept(f, tokens, k) ==
    \A open \in Nat : /\ f[k][open] \in Part
                      /\ AddsUp(f[k][open], open + Cardinality(TextsFrom(tokens, k)))

(* The recursion keeps the text.                                           *)
LEMMA SplitsKeeps ==
    ASSUME NEW tokens \in Seq(Int), NEW f, Splits(f, tokens, 1)
    PROVE  Kept(f, tokens, 1)
<1> DEFINE L == Len(tokens)
           S == {m \in 0..L : Kept(f, tokens, L + 1 - m)}
<1>0. L \in Nat
  BY LenProperties
<1>1. \A k \in 1..(L + 1) : \A open \in Nat : f[k][open] = Row(f, tokens, k, open)
  <2>1. f = [k \in 1..(L + 1) |-> [open \in Nat |-> Row(f, tokens, k, open)]]
    BY DEF Splits
  <2>2. \A k \in 1..(L + 1) : f[k] = [open \in Nat |-> Row(f, tokens, k, open)]
    BY <2>1
  <2> QED
    BY <2>2
<1>2. 0 \in S
  <2>1. L + 1 \in 1..(L + 1) /\ L + 1 > L /\ L + 1 - 0 = L + 1
    BY <1>0
  <2>2. \A open \in Nat : f[L + 1][open] = Closed(open)
    BY <1>1, <2>1 DEF Row
  <2>3. Cardinality(TextsFrom(tokens, L + 1)) = 0
    BY <1>0, TextsFromFacts, FS_EmptySet
  <2>4. Kept(f, tokens, L + 1)
    BY <2>2, <2>3, ClosedAdds DEF Kept
  <2> QED
    BY <1>0, <2>1, <2>4
<1>3. \A m \in 1..L : m - 1 \in S => m \in S
  <2> SUFFICES ASSUME NEW m \in 1..L, m - 1 \in S
               PROVE  Kept(f, tokens, L + 1 - m)
    OBVIOUS
  <2>0. PICK k \in 1..L : k = L + 1 - m
    <3>1. L + 1 - m \in 1..L
      BY <1>0
    <3> QED
      BY <3>1
  <2> SUFFICES ASSUME NEW open \in Nat
               PROVE  /\ f[k][open] \in Part
                      /\ AddsUp(f[k][open], open + Cardinality(TextsFrom(tokens, k)))
    BY <2>0 DEF Kept
  <2> DEFINE n == Cardinality(TextsFrom(tokens, k + 1))
             isText == tokens[k] = Text
  <2>1. Kept(f, tokens, k + 1)
    <3>1. L + 1 - (m - 1) = k + 1
      BY <1>0, <2>0
    <3> QED
      BY <3>1
  <2>2. n \in Nat /\ Cardinality(TextsFrom(tokens, k)) = n + (IF isText THEN 1 ELSE 0)
    <3>1. k + 1 \in 1..(L + 1)
      BY <1>0
    <3> QED
      BY <1>0, <3>1, TextsFromFacts
  <2>3. tokens[k] \in Int
    BY <1>0, ElementOfSeq
  <2>4. f[k][open] = Row(f, tokens, k, open) /\ ~(k > L)
    BY <1>0, <1>1
  <2>5. /\ \A o \in Nat : f[k + 1][o] \in Part /\ AddsUp(f[k + 1][o], o + n)
    BY <2>1 DEF Kept
  <2> HIDE DEF n
  <2>6. CASE tokens[k] > 0
    <3>1. f[k][open] = Closed(open) \o f[k + 1][0] /\ ~isText
      <4>1. ~isText
        BY <2>3, <2>6 DEF Text
      <4>2. Row(f, tokens, k, open) = Closed(open) \o f[k + 1][0]
        BY <2>4, <2>6 DEF Row
      <4> QED
        BY <2>4, <4>1, <4>2
    <3>2. f[k + 1][0] \in Part /\ AddsUp(f[k + 1][0], n)
      <4>1. 0 + n = n
        BY <2>2
      <4> QED
        BY <2>5, <4>1
    <3>3. n + open = open + (n + 0)
      BY <2>2
    <3>4. /\ Closed(open) \o f[k + 1][0] \in Part
          /\ AddsUp(Closed(open) \o f[k + 1][0], n + open)
      BY <2>2, <3>2, ClosedFront
    <3>5. Cardinality(TextsFrom(tokens, k)) = n + 0
      BY <2>2, <3>1
    <3> QED
      BY <3>1, <3>3, <3>4, <3>5
  <2>7. CASE ~(tokens[k] > 0) /\ isText
    <3>1. f[k][open] = f[k + 1][open + 1]
      BY <2>4, <2>7 DEF Row
    <3>2. open + 1 \in Nat /\ (open + 1) + n = open + (n + 1)
      BY <2>2
    <3>3. Cardinality(TextsFrom(tokens, k)) = n + 1
      BY <2>2, <2>7
    <3> QED
      BY <2>5, <3>1, <3>2, <3>3
  <2>8. CASE ~(tokens[k] > 0) /\ ~isText
    <3>1. f[k][open] = f[k + 1][open]
      BY <2>4, <2>8 DEF Row
    <3>2. Cardinality(TextsFrom(tokens, k)) = n
      BY <2>2, <2>8
    <3> QED
      BY <2>5, <3>1, <3>2
  <2> QED
    BY <2>6, <2>7, <2>8
<1>4. L \in S
  <2> HIDE DEF S, L
  <2>1. \A m \in 0..L : m \in S
    BY <1>0, <1>2, <1>3, UpTo
  <2> QED
    BY <1>0, <2>1
<1>5. L + 1 - L = 1
  BY <1>0
<1> QED
  BY <1>4, <1>5

(* Splitting loses no text and makes no empty segment.                     *)
LEMMA SegmentsFacts ==
    ASSUME NEW tokens \in Seq(Int)
    PROVE  Segments(tokens) \in Part /\ AddsUp(Segments(tokens), Texts(tokens))
<1>1. Len(tokens) \in Nat /\ DOMAIN tokens = 1..Len(tokens)
  BY LenProperties
<1>2. PICK f : Splits(f, tokens, 1) /\ Segments(tokens) = f[1][0]
  BY <1>1, SegmentsIs
<1>3. Kept(f, tokens, 1)
  BY <1>2, SplitsKeeps
<1>4. Texts(tokens) = Cardinality(TextsFrom(tokens, 1))
  BY <1>1 DEF Texts, TextsFrom
<1>5. Cardinality(TextsFrom(tokens, 1)) \in Nat
  BY <1>1, TextsFromFacts
<1>6. 0 + Texts(tokens) = Texts(tokens)
  BY <1>4, <1>5
<1> QED
  BY <1>2, <1>3, <1>4, <1>6 DEF Kept

(* So it does for every sequence of every decoder.                         *)
LEMMA IInvSplits == IInv => SplitKeepsText
<1> SUFFICES ASSUME IInv, NEW j \in Decoder
             PROVE  LET parts == Segments(dec[j].tokens)
                        sum[k \in 0..Len(parts)] == IF k = 0 THEN 0 ELSE sum[k - 1] + parts[k]
                    IN  /\ sum[Len(parts)] = Texts(dec[j].tokens)
                        /\ \A k \in DOMAIN parts : parts[k] > 0
  BY DEF SplitKeepsText
<1> DEFINE parts == Segments(dec[j].tokens)
<1>1. dec[j].tokens \in Seq(Int)
  <2>1. dec[j].tokens \in Seq(Token)
    BY DEF IInv, Types, Sequence
  <2> QED
    BY <2>1, TokenIsInt
<1>2. parts \in Part /\ AddsUp(parts, Texts(dec[j].tokens))
  BY <1>1, SegmentsFacts
<1> HIDE DEF parts
<1>3. Len(parts) \in Nat /\ \A k \in DOMAIN parts : parts[k] > 0
  BY <1>2, LenProperties, ElementOfSeq DEF Part
<1>4. LET sum[k \in 0..Len(parts)] == IF k = 0 THEN 0 ELSE sum[k - 1] + parts[k]
      IN  sum[Len(parts)] = Texts(dec[j].tokens)
  BY <1>2, <1>3, AddsIsSum
<1> QED
  BY <1>3, <1>4 DEF parts

(* Theorem: no text of a window is lost when it is split at its            *)
(* timestamps, and no segment is empty.                                    *)
THEOREM SplitsKeepText == Spec => []SplitKeepsText
<1> QED
  BY IInvAlways, IInvSplits, PTL

-----------------------------------------------------------------------------
(* The types.                                                              *)

(* What the other invariants leave out.                                    *)
Scalars ==
    /\ seek \in Nat /\ segments \in Nat
    /\ seekEnd \in Audio /\ abort \in {"never", "encode", "decode"}

(* Only the end of a window changes them.                                  *)
LEMMA FinishScalars ==
    ASSUME IInv, HistoryInv, Scalars, Finish
    PROVE  Scalars'
<1> DEFINE cut(j, dull) == IF dec[j].failed THEN dec[j]
                           ELSE [dec[j] EXCEPT !.tokens = SubSeq(@, 1, dec[j].len),
                                               !.failed = dec[j].len > DullLength /\ j \in dull]
<1>1. 1 \in Decoder
  BY Constants DEF IInv, Types, Decoder
<1>2. PICK dull \in SUBSET Decoder, j \in Decoder :
          /\ segments' = segments + Len(Segments(cut(j, dull).tokens))
          /\ seek' = Advance(cut(j, dull))
  BY <1>1 DEF Finish
<1>4. /\ dec[j] \in Sequence /\ dec[j].tokens \in Seq(Token)
      /\ dec[j].len \in Nat /\ dec[j].delta \in Nat /\ dec[j].len <= Len(dec[j].tokens)
  BY DEF IInv, Types, Sequence, HistoryInv, Lengths
<1>5. cut(j, dull).delta = dec[j].delta
  BY <1>4 DEF Sequence
<1>6. cut(j, dull).tokens \in Seq(Int)
  <2>1. dec[j].tokens \in Seq(Int)
    BY <1>4, TokenIsInt
  <2>2. SubSeq(dec[j].tokens, 1, dec[j].len) \in Seq(Int)
    BY <1>4, <2>1
  <2>3. CASE dec[j].failed
    BY <2>1, <2>3
  <2>4. CASE ~dec[j].failed
    <3>1. cut(j, dull).tokens = SubSeq(dec[j].tokens, 1, dec[j].len)
      BY <1>4, <2>4 DEF Sequence
    <3> QED
      BY <2>2, <3>1
  <2> QED
    BY <2>3, <2>4
<1> HIDE DEF cut
<1>7. Len(Segments(cut(j, dull).tokens)) \in Nat
  BY <1>6, SegmentsFacts, LenProperties DEF Part
<1>8. seek' \in Nat /\ segments' \in Nat
  BY <1>2, <1>4, <1>5, <1>7 DEF Scalars, Advance
<1> QED
  BY <1>8 DEF Finish, Scalars, inputs

(* They have these types in every state.                                   *)
LEMMA ScalarsAlways == Spec => []Scalars
<1>1. Init => Scalars
  BY DEF Init, Scalars
<1>2. ASSUME IInv, HistoryInv, Scalars, [Next]_vars
      PROVE  Scalars'
  <2>1. CASE UNCHANGED <<seek, segments, inputs>>
    BY <1>2, <2>1 DEF Scalars, inputs
  <2>2. CASE Finish
    BY <1>2, <2>2, FinishScalars
  <2>3. ASSUME NEW code, Return(code) PROVE UNCHANGED <<seek, segments, inputs>>
    BY <2>3 DEF Return
  <2>4. Begin => UNCHANGED <<seek, segments, inputs>>
    BY <2>3 DEF Begin
  <2>5. Window => UNCHANGED <<seek, segments, inputs>>
    BY <2>3 DEF Window
  <2>6. Prompt => UNCHANGED <<seek, segments, inputs>>
    BY <2>3 DEF Prompt
  <2>7. SampleGreedy \/ SampleBeam \/ Update => UNCHANGED <<seek, segments, inputs>>
    BY DEF SampleGreedy, SampleBeam, Update
  <2>8. Decode => UNCHANGED <<seek, segments, inputs>>
    BY <2>3 DEF Decode
  <2>9. UNCHANGED vars => UNCHANGED <<seek, segments, inputs>>
    BY DEF vars
  <2> QED
    BY <1>2, <2>1, <2>2, <2>4, <2>5, <2>6, <2>7, <2>8, <2>9 DEF Next
<1> QED
  BY <1>1, <1>2, IInvAlways, HistoryAlways, PTL DEF Spec

(* Theorem: the types of the variables, and the lengths that go together.  *)
THEOREM TypeCorrect == Spec => []TypeOK
<1>1. ASSUME IInv, HistoryInv, Scalars
      PROVE  TypeOK
  <2>1. Types /\ Positions /\ CellsKnown /\ Lengths
    BY <1>1 DEF IInv, HistoryInv
  <2>2. \A c \in Cell : /\ kv.cells[c].pos \in -1..(TextCtx - 1)
                        /\ kv.cells[c].seqs \subseteq Decoder
                        /\ kv.cells[c].pos = -1 <=> kv.cells[c].seqs = {}
    <3> TAKE c \in Cell
    <3>1. kv.cells[c].pos \in Int /\ kv.cells[c].pos >= -1 /\ kv.cells[c].pos < TextCtx
      BY <2>1 DEF CellsKnown, Positions
    <3>2. kv.cells[c].pos \in -1..(TextCtx - 1)
      BY <3>1, Constants
    <3> QED
      BY <2>1, <3>2 DEF CellsKnown
  <2>3. step \in 0..MaxText
    BY <2>1, Constants DEF Types, Lengths
  <2>4. \A j \in Decoder :
          /\ dec[j].len <= Len(dec[j].tokens)
          /\ pc \in {"sample", "update", "decode"} /\ j \in Live =>
               /\ Len(dec[j].by) = step
               /\ Len(dec[j].tokens) = step + IF pc = "sample" THEN 0 ELSE 1
    BY <2>1 DEF Lengths, Decoding
  <2> QED
    BY <1>1, <2>1, <2>2, <2>3, <2>4 DEF TypeOK, Types, CellsKnown, Scalars
<1> QED
  BY <1>1, IInvAlways, HistoryAlways, ScalarsAlways, PTL

-----------------------------------------------------------------------------
(* The search for free cells.                                              *)

(* The cells that are in the way of a slot at h.                           *)
Blocked(cache, n, h) == {k \in 0..(n - 1) : cache.cells[h + k].pos >= 0}

(* What the recursion of Scan says of f at cell h.                         *)
Probe(f, cache, n, h, tested) ==
    IF h + n > Size THEN f[0][tested + Size - h]
    ELSE IF Blocked(cache, n, h) = {} THEN h
    ELSE IF tested + (MinOf(Blocked(cache, n, h)) + 1) >= Size THEN NoSlot
    ELSE f[h + (MinOf(Blocked(cache, n, h)) + 1)][tested + (MinOf(Blocked(cache, n, h)) + 1)]

Probes(f, cache, n) ==
    f = [h \in 0..Size |-> [tested \in Nat |-> Probe(f, cache, n, h, tested)]]

(* Every probe either starts again at the first cell or tests more cells.  *)
Left(n, h, tested) ==
    (IF tested >= Size THEN 0 ELSE 2 * (Size - tested)) + (IF h + n > Size THEN 1 ELSE 0)

Known(cache) == cache.head \in Cell /\ \A c \in Cell : cache.cells[c].pos \in Int

(* What is skipped does not fit.                                           *)
LEMMA SkipFacts ==
    ASSUME NEW cache, Known(cache), NEW n \in 1..Size, NEW h \in 0..Size, h + n <= Size
    PROVE  /\ Blocked(cache, n, h) = {} <=> Fits(cache, n, h)
           /\ Blocked(cache, n, h) # {} =>
                 /\ MinOf(Blocked(cache, n, h)) \in Nat
                 /\ MinOf(Blocked(cache, n, h)) + 1 \in 1..n
                 /\ \A x \in h..(h + MinOf(Blocked(cache, n, h))) : ~Fits(cache, n, x)
<1> DEFINE B == Blocked(cache, n, h)
           k == MinOf(B)
<1>0. Size \in Nat /\ Cell = 0..(Size - 1) /\ n \in Int /\ h \in Int
  BY SizeAssumption DEF Cell
<1>1. \A i \in 0..(n - 1) : h + i \in Cell /\ cache.cells[h + i].pos \in Int
  BY <1>0 DEF Known
<1>2. B = {} <=> Fits(cache, n, h)
  <2>1. ASSUME B = {} PROVE Fits(cache, n, h)
    <3> SUFFICES ASSUME NEW c \in h..(h + n - 1) PROVE cache.cells[c].pos < 0
      BY DEF Fits
    <3>1. c - h \in 0..(n - 1) /\ h + (c - h) = c
      BY <1>0
    <3>2. ~(cache.cells[h + (c - h)].pos >= 0)
      BY <2>1, <3>1 DEF Blocked
    <3> QED
      BY <1>1, <3>1, <3>2
  <2>2. ASSUME Fits(cache, n, h), NEW i \in B PROVE FALSE
    <3>1. i \in 0..(n - 1) /\ cache.cells[h + i].pos >= 0
      BY DEF Blocked
    <3>2. h + i \in h..(h + n - 1)
      BY <1>0, <3>1
    <3>3. cache.cells[h + i].pos < 0
      BY <2>2, <3>2 DEF Fits
    <3> QED
      BY <1>1, <3>1, <3>3
  <2> QED
    BY <2>1, <2>2
<1>3. ASSUME B # {}
      PROVE  k \in Nat /\ k + 1 \in 1..n /\ \A x \in h..(h + k) : ~Fits(cache, n, x)
  <2>1. B \in SUBSET Nat /\ B # {}
    BY <1>0, <1>3 DEF Blocked
  <2>2. \E x \in B : \A y \in B : x <= y
    <3> HIDE DEF B
    <3> QED
      BY <2>1, LeastOf
  <2>3. k \in B
    <3> HIDE DEF B
    <3> QED
      BY <2>2 DEF MinOf
  <2>4. k \in 0..(n - 1) /\ cache.cells[h + k].pos >= 0
    BY <2>3 DEF Blocked
  <2> HIDE DEF k
  <2>5. ASSUME NEW x \in h..(h + k), Fits(cache, n, x) PROVE FALSE
    <3>1. h + k \in x..(x + n - 1)
      BY <1>0, <2>4
    <3>2. cache.cells[h + k].pos < 0
      BY <2>5, <3>1 DEF Fits
    <3> QED
      BY <1>1, <2>4, <3>2
  <2> QED
    BY <1>0, <2>4, <2>5
<1> QED
  BY <1>2, <1>3

(* Both continuations of a probe leave less.                               *)
LEMMA LeftFacts ==
    ASSUME NEW n \in 1..Size, NEW h \in 0..Size, NEW t \in Nat
    PROVE  /\ Left(n, h, t) \in 0..(2 * Size + 1)
           /\ h + n > Size => /\ t + Size - h \in Nat
                              /\ Left(n, 0, t + Size - h) < Left(n, h, t)
           /\ \A s \in 1..n : h + n <= Size /\ t + s < Size =>
                 /\ h + s \in 0..Size /\ t + s \in Nat
                 /\ Left(n, h + s, t + s) < Left(n, h, t)
  BY SizeAssumption DEF Left

(* A probe reads f only where less is left to test.                        *)
LEMMA ProbeDepends ==
    ASSUME NEW cache, Known(cache), NEW n \in 1..Size, NEW h \in 0..Size, NEW t \in Nat,
           NEW f, NEW g,
           \A x \in 0..Size : \A u \in Nat :
               Left(n, x, u) < Left(n, h, t) => f[x][u] = g[x][u]
    PROVE  Probe(f, cache, n, h, t) = Probe(g, cache, n, h, t)
<1>0. Size \in Nat /\ 0 \in 0..Size
  BY SizeAssumption
<1>1. CASE h + n > Size
  <2>1. t + Size - h \in Nat /\ Left(n, 0, t + Size - h) < Left(n, h, t)
    BY <1>1, LeftFacts
  <2>2. f[0][t + Size - h] = g[0][t + Size - h]
    BY <1>0, <2>1
  <2> QED
    BY <1>1, <2>2 DEF Probe
<1>2. CASE ~(h + n > Size)
  <2> DEFINE B == Blocked(cache, n, h)
             s == MinOf(B) + 1
  <2>0. h + n <= Size
    BY <1>0, <1>2
  <2>1. CASE B = {} \/ t + s >= Size
    BY <1>2, <2>1 DEF Probe
  <2>2. CASE B # {} /\ ~(t + s >= Size)
    <3>1. s \in 1..n
      BY <2>0, <2>2, SkipFacts
    <3> HIDE DEF s
    <3>2. h + s \in 0..Size /\ t + s \in Nat /\ Left(n, h + s, t + s) < Left(n, h, t)
      <4>1. t + s < Size
        BY <1>0, <2>2, <3>1
      <4> QED
        BY <2>0, <3>1, <4>1, LeftFacts
    <3>3. f[h + s][t + s] = g[h + s][t + s]
      BY <3>2
    <3> QED
      BY <1>2, <2>2, <3>3 DEF Probe, s
  <2> QED
    BY <2>1, <2>2
<1> QED
  BY <1>1, <1>2

(* The recursion of Scan has a solution.                                   *)
LEMMA ProbesExists ==
    ASSUME NEW cache, Known(cache), NEW n \in 1..Size
    PROVE  \E f : Probes(f, cache, n)
<1> DEFINE M == 2 * Size + 1
           Upto(f, m) == \A h \in 0..Size : \A t \in Nat :
                             Left(n, h, t) <= m => f[h][t] = Probe(f, cache, n, h, t)
           Next1(f) == [h \in 0..Size |-> [t \in Nat |-> Probe(f, cache, n, h, t)]]
           S == {m \in 0..M : \E f : Upto(f, m)}
<1>0. M \in Nat /\ \A h \in 0..Size : \A t \in Nat : Left(n, h, t) \in 0..M
  BY SizeAssumption, LeftFacts
<1>1. ASSUME NEW m \in 0..M, NEW f, m = 0 \/ Upto(f, m - 1)
      PROVE  Upto(Next1(f), m)
  <2> DEFINE g == Next1(f)
  <2>1. \A h \in 0..Size : \A t \in Nat : g[h][t] = Probe(f, cache, n, h, t)
    OBVIOUS
  <2> HIDE DEF g
  <2> SUFFICES ASSUME NEW h \in 0..Size, NEW t \in Nat, Left(n, h, t) <= m
               PROVE  g[h][t] = Probe(g, cache, n, h, t)
    BY DEF g
  <2>2. ASSUME NEW x \in 0..Size, NEW u \in Nat, Left(n, x, u) < Left(n, h, t)
        PROVE  f[x][u] = g[x][u]
    <3>1. m # 0 /\ Left(n, x, u) <= m - 1
      BY <1>0, <2>2
    <3> QED
      BY <1>1, <2>1, <3>1
  <2>3. Probe(f, cache, n, h, t) = Probe(g, cache, n, h, t)
    BY <2>2, ProbeDepends
  <2> QED
    BY <2>1, <2>3
<1> HIDE DEF Next1, Upto, M
<1>2. 0 \in S
  BY <1>0, <1>1
<1>3. \A m \in 1..M : m - 1 \in S => m \in S
  <2> TAKE m \in 1..M
  <2> HAVE m - 1 \in S
  <2>1. PICK f : Upto(f, m - 1)
    OBVIOUS
  <2>2. m \in 0..M
    BY <1>0
  <2> QED
    BY <1>1, <2>1, <2>2
<1>4. PICK f : Upto(f, M)
  <2>1. M \in S
    <3> HIDE DEF S
    <3>1. \A m \in 0..M : m \in S
      BY <1>0, <1>2, <1>3, UpTo
    <3> QED
      BY <1>0, <3>1
  <2> QED
    BY <2>1
<1> DEFINE g == Next1(f)
<1>5. \A h \in 0..Size : \A t \in Nat : f[h][t] = Probe(f, cache, n, h, t)
  BY <1>0, <1>4 DEF Upto
<1>6. \A h \in 0..Size : \A t \in Nat : g[h][t] = f[h][t]
  BY <1>5 DEF Next1
<1>7. \A h \in 0..Size : \A t \in Nat : Probe(f, cache, n, h, t) = Probe(g, cache, n, h, t)
  <2> HIDE DEF g
  <2> QED
    BY <1>6, ProbeDepends
<1>8. g = [h \in 0..Size |-> [t \in Nat |-> Probe(g, cache, n, h, t)]]
  <2>1. g = [h \in 0..Size |-> [t \in Nat |-> Probe(f, cache, n, h, t)]]
    BY DEF Next1
  <2> HIDE DEF g
  <2>2. \A h \in 0..Size : [t \in Nat |-> Probe(f, cache, n, h, t)] =
                           [t \in Nat |-> Probe(g, cache, n, h, t)]
    BY <1>7
  <2> QED
    BY <2>1, <2>2
<1> HIDE DEF g
<1> QED
  BY <1>8 DEF Probes

(* Scan is read off a solution.                                            *)
LEMMA ScanIs ==
    ASSUME NEW cache, Known(cache), NEW n \in 1..Size
    PROVE  \E f : Probes(f, cache, n) /\ Scan(cache, n) = f[cache.head][0]
<1> DEFINE F == CHOOSE f : f = [h \in 0..Size |->
                                    [tested \in Nat |-> Probe(f, cache, n, h, tested)]]
<1>1. Scan(cache, n) = F[cache.head][0]
  <2>1. Scan(cache, n) = IF n > Size THEN NoSlot ELSE F[cache.head][0]
    BY DEF Scan, Probe, Blocked
  <2> QED
    BY <2>1, SizeAssumption
<1>2. \E f : f = [h \in 0..Size |-> [tested \in Nat |-> Probe(f, cache, n, h, tested)]]
  BY ProbesExists DEF Probes
<1>3. F = [h \in 0..Size |-> [tested \in Nat |-> Probe(F, cache, n, h, tested)]]
  BY <1>2
<1> HIDE DEF F
<1> QED
  BY <1>1, <1>3 DEF Probes

(* What a probe finds.                                                     *)
LEMMA ProbeCases ==
    ASSUME NEW cache, Known(cache), NEW n \in 1..Size, NEW f, Probes(f, cache, n),
           NEW h \in 0..Size, NEW t \in Nat
    PROVE  /\ h + n > Size => f[h][t] = f[0][t + Size - h]
           /\ h + n <= Size /\ Fits(cache, n, h) => f[h][t] = h
<1>0. Size \in Nat
  BY SizeAssumption
<1>1. f[h][t] = Probe(f, cache, n, h, t)
  <2>1. f = [x \in 0..Size |-> [u \in Nat |-> Probe(f, cache, n, x, u)]]
    BY DEF Probes
  <2>2. f[h] = [u \in Nat |-> Probe(f, cache, n, h, u)]
    BY <2>1
  <2> QED
    BY <2>2
<1>2. CASE h + n > Size
  BY <1>0, <1>1, <1>2 DEF Probe
<1>3. CASE h + n <= Size /\ Fits(cache, n, h)
  <2>1. Blocked(cache, n, h) = {} /\ ~(h + n > Size)
    BY <1>0, <1>3, SkipFacts
  <2> QED
    BY <1>1, <1>3, <2>1 DEF Probe
<1> QED
  BY <1>0, <1>2, <1>3

(* The s cells that a probe skips when the slot does not fit.              *)
Skips(f, cache, n, h, t, s) ==
    /\ \A x \in h..(h + s - 1) : ~Fits(cache, n, x)
    /\ f[h][t] = IF t + s >= Size THEN NoSlot ELSE f[h + s][t + s]

(* There are such cells.                                                   *)
LEMMA ProbeSkips ==
    ASSUME NEW cache, Known(cache), NEW n \in 1..Size, NEW f, Probes(f, cache, n),
           NEW h \in 0..Size, NEW t \in Nat, h + n <= Size, ~Fits(cache, n, h)
    PROVE  \E s \in 1..n : Skips(f, cache, n, h, t, s)
<1>0. Size \in Nat
  BY SizeAssumption
<1>1. f[h][t] = Probe(f, cache, n, h, t)
  <2>1. f = [x \in 0..Size |-> [u \in Nat |-> Probe(f, cache, n, x, u)]]
    BY DEF Probes
  <2>2. f[h] = [u \in Nat |-> Probe(f, cache, n, h, u)]
    BY <2>1
  <2> QED
    BY <2>2
<1> DEFINE k == MinOf(Blocked(cache, n, h))
           s == k + 1
<1>2. /\ Blocked(cache, n, h) # {} /\ ~(h + n > Size)
      /\ s \in 1..n /\ k \in Nat
      /\ \A x \in h..(h + k) : ~Fits(cache, n, x)
  BY <1>0, SkipFacts
<1>3. f[h][t] = IF t + s >= Size THEN NoSlot ELSE f[h + s][t + s]
  BY <1>1, <1>2 DEF Probe
<1>4. h + s - 1 = h + k
  <2> HIDE DEF k
  <2> QED
    BY <1>2
<1>5. Skips(f, cache, n, h, t, s)
  BY <1>2, <1>3, <1>4 DEF Skips
<1> QED
  BY <1>2, <1>5

(* Induction over what is left to test.                                    *)
LEMMA ByLeft ==
    ASSUME NEW n \in 1..Size, NEW S,
           \A h \in 0..Size : \A t \in Nat :
               (\A x \in 0..Size : \A u \in Nat :
                    Left(n, x, u) < Left(n, h, t) => <<x, u>> \in S)
                  => <<h, t>> \in S
    PROVE  \A h \in 0..Size : \A t \in Nat : <<h, t>> \in S
<1> DEFINE M == 2 * Size + 1
           Below(m) == \A h \in 0..Size : \A t \in Nat : Left(n, h, t) <= m => <<h, t>> \in S
           T == {m \in 0..M : Below(m)}
<1>0. M \in Nat /\ \A h \in 0..Size : \A t \in Nat : Left(n, h, t) \in 0..M
  BY SizeAssumption, LeftFacts
<1> HIDE DEF M
<1>1. 0 \in T
  <2>1. Below(0)
    <3> SUFFICES ASSUME NEW h \in 0..Size, NEW t \in Nat, Left(n, h, t) <= 0
                 PROVE  <<h, t>> \in S
      OBVIOUS
    <3>1. \A x \in 0..Size : \A u \in Nat : ~(Left(n, x, u) < Left(n, h, t))
      BY <1>0
    <3> QED
      BY <3>1
  <2> QED
    BY <1>0, <2>1
<1>2. \A m \in 1..M : m - 1 \in T => m \in T
  <2> SUFFICES ASSUME NEW m \in 1..M, m - 1 \in T PROVE Below(m)
    BY <1>0
  <2> SUFFICES ASSUME NEW h \in 0..Size, NEW t \in Nat, Left(n, h, t) <= m
               PROVE  <<h, t>> \in S
    OBVIOUS
  <2>1. \A x \in 0..Size : \A u \in Nat :
            Left(n, x, u) < Left(n, h, t) => Left(n, x, u) <= m - 1
    BY <1>0
  <2>2. Below(m - 1)
    OBVIOUS
  <2> QED
    BY <2>1, <2>2
<1>3. \A m \in 0..M : m \in T
  <2> HIDE DEF T
  <2> QED
    BY <1>0, <1>1, <1>2, UpTo
<1>4. Below(M)
  BY <1>0, <1>3
<1>5. \A h \in 0..Size : \A t \in Nat : Left(n, h, t) <= M
  BY <1>0
<1> QED
  BY <1>4, <1>5

(* The first slot that fits is found if it is near enough.                 *)
LEMMA ProbeFinds ==
    ASSUME NEW cache, Known(cache), NEW n \in 1..Size, NEW f, Probes(f, cache, n),
           NEW h \in 0..Size, NEW t \in Nat, NEW g, FirstFit(cache, n, h, g),
           g = h \/ t + (g - h) < Size
    PROVE  f[h][t] = g
<1> DEFINE S == {p \in (0..Size) \X Nat :
                    FirstFit(cache, n, p[1], g) /\ (g = p[1] \/ p[2] + (g - p[1]) < Size)
                       => f[p[1]][p[2]] = g}
<1>0. Size \in Nat
  BY SizeAssumption
<1>1. ASSUME NEW x \in 0..Size, NEW u \in Nat,
             \A y \in 0..Size : \A v \in Nat :
                 Left(n, y, v) < Left(n, x, u) => <<y, v>> \in S
      PROVE  <<x, u>> \in S
  <2> SUFFICES ASSUME FirstFit(cache, n, x, g), g = x \/ u + (g - x) < Size
               PROVE  f[x][u] = g
    OBVIOUS
  <2>1. /\ g \in Int /\ x <= g /\ g + n <= Size /\ x + n <= Size
        /\ Fits(cache, n, g)
        /\ \A y \in x..(g - 1) : ~Fits(cache, n, y)
    BY <1>0 DEF FirstFit
  <2>2. CASE Fits(cache, n, x)
    <3>1. g = x
      BY <2>1, <2>2
    <3> QED
      BY <2>1, <2>2, <3>1, ProbeCases
  <2>3. CASE ~Fits(cache, n, x)
    <3>0. PICK s \in 1..n : Skips(f, cache, n, x, u, s)
      BY <2>1, <2>3, ProbeSkips
    <3>1. /\ \A y \in x..(x + s - 1) : ~Fits(cache, n, y)
          /\ f[x][u] = IF u + s >= Size THEN NoSlot ELSE f[x + s][u + s]
      BY <3>0 DEF Skips
    <3>2. g >= x + s
      <4>1. ~(g \in x..(x + s - 1))
        BY <2>1, <3>1
      <4> QED
        BY <2>1, <4>1
    <3>3. u + (g - x) < Size
      BY <2>1, <2>3
    <3>4. u + s < Size
      BY <1>0, <2>1, <3>2, <3>3
    <3>5. /\ x + s \in 0..Size /\ u + s \in Nat
          /\ Left(n, x + s, u + s) < Left(n, x, u)
      BY <2>1, <3>4, LeftFacts
    <3>6. <<x + s, u + s>> \in S
      BY <1>1, <3>5
    <3>7. FirstFit(cache, n, x + s, g)
      BY <1>0, <2>1, <3>2 DEF FirstFit
    <3>8. (u + s) + (g - (x + s)) < Size
      BY <1>0, <2>1, <3>3
    <3>9. f[x + s][u + s] = g
      BY <3>6, <3>7, <3>8
    <3> QED
      BY <1>0, <3>1, <3>4, <3>9
  <2> QED
    BY <2>2, <2>3
<1>2. <<h, t>> \in S
  <2> HIDE DEF S
  <2> QED
    BY <1>1, ByLeft
<1> QED
  BY <1>2

(* When nothing fits nothing is found.                                     *)
LEMMA ProbeFindsNothing ==
    ASSUME NEW cache, Known(cache), NEW n \in 1..Size, NEW f, Probes(f, cache, n),
           NoFit(cache, n, 0), NEW h \in 0..Size, NEW t \in Nat
    PROVE  f[h][t] = NoSlot
<1> DEFINE S == {p \in (0..Size) \X Nat : f[p[1]][p[2]] = NoSlot}
<1>0. Size \in Nat /\ 0 \in 0..Size
  BY SizeAssumption
<1>1. ASSUME NEW x \in 0..Size, NEW u \in Nat,
             \A y \in 0..Size : \A v \in Nat :
                 Left(n, y, v) < Left(n, x, u) => <<y, v>> \in S
      PROVE  <<x, u>> \in S
  <2>1. CASE x + n > Size
    <3>1. u + Size - x \in Nat /\ Left(n, 0, u + Size - x) < Left(n, x, u)
      BY <2>1, LeftFacts
    <3>2. f[0][u + Size - x] = NoSlot
      BY <1>0, <1>1, <3>1
    <3> QED
      BY <2>1, <3>2, ProbeCases
  <2>2. CASE ~(x + n > Size)
    <3>1. x + n <= Size /\ ~Fits(cache, n, x)
      BY <1>0, <2>2 DEF NoFit
    <3>a. PICK s \in 1..n : Skips(f, cache, n, x, u, s)
      BY <3>1, ProbeSkips
    <3>2. f[x][u] = IF u + s >= Size THEN NoSlot ELSE f[x + s][u + s]
      BY <3>a DEF Skips
    <3>3. CASE u + s >= Size
      BY <3>2, <3>3
    <3>4. CASE ~(u + s >= Size)
      <4>1. /\ x + s \in 0..Size /\ u + s \in Nat
            /\ Left(n, x + s, u + s) < Left(n, x, u)
        <5>1. u + s < Size
          BY <1>0, <3>4
        <5> QED
          BY <3>1, <5>1, LeftFacts
      <4>2. f[x + s][u + s] = NoSlot
        BY <1>1, <4>1
      <4> QED
        BY <3>2, <3>4, <4>2
    <3> QED
      BY <3>3, <3>4
  <2> QED
    BY <2>1, <2>2
<1>2. <<h, t>> \in S
  <2> HIDE DEF S
  <2> QED
    BY <1>1, ByLeft
<1> QED
  BY <1>2

(* When nothing fits from the head on, the search starts again.            *)
LEMMA ProbeWraps ==
    ASSUME NEW cache, Known(cache), NEW n \in 1..Size, NEW f, Probes(f, cache, n),
           cache.head > 0, NoFit(cache, n, cache.head)
    PROVE  f[cache.head][0] = f[0][Size - cache.head]
<1> DEFINE head == cache.head
           S == {p \in (0..Size) \X Nat :
                    p[1] >= head /\ p[2] = p[1] - head => f[p[1]][p[2]] = f[0][Size - head]}
<1>0. Size \in Nat /\ head \in 1..Size /\ 0 \in Nat /\ head \in 0..Size
  BY SizeAssumption DEF Known, Cell
<1>1. ASSUME NEW x \in 0..Size, NEW u \in Nat,
             \A y \in 0..Size : \A v \in Nat :
                 Left(n, y, v) < Left(n, x, u) => <<y, v>> \in S
      PROVE  <<x, u>> \in S
  <2> HIDE DEF head
  <2> SUFFICES ASSUME x >= head, u = x - head
               PROVE  f[x][u] = f[0][Size - head]
    OBVIOUS
  <2>1. CASE x + n > Size
    <3>1. u + Size - x = Size - head
      BY <1>0
    <3> QED
      BY <2>1, <3>1, ProbeCases
  <2>2. CASE ~(x + n > Size)
    <3>1. x + n <= Size /\ ~Fits(cache, n, x)
      BY <1>0, <2>2 DEF NoFit, head
    <3>a. PICK s \in 1..n : Skips(f, cache, n, x, u, s)
      BY <3>1, ProbeSkips
    <3>2. f[x][u] = IF u + s >= Size THEN NoSlot ELSE f[x + s][u + s]
      BY <3>a DEF Skips
    <3>3. u + s < Size
      BY <1>0, <3>1
    <3>4. /\ x + s \in 0..Size /\ u + s \in Nat
          /\ Left(n, x + s, u + s) < Left(n, x, u)
      BY <3>1, <3>3, LeftFacts
    <3>5. <<x + s, u + s>> \in S
      BY <1>1, <3>4
    <3>6. x + s >= head /\ u + s = (x + s) - head
      BY <1>0
    <3> QED
      BY <1>0, <3>2, <3>3, <3>5, <3>6
  <2> QED
    BY <2>1, <2>2
<1>2. <<head, 0>> \in S
  <2> HIDE DEF S, head
  <2> QED
    BY <1>0, <1>1, ByLeft
<1>3. 0 = head - head
  BY <1>0
<1> QED
  BY <1>0, <1>2, <1>3

(* The loop finds what FindSlot says.                                      *)
LEMMA ScanIsFindSlot ==
    ASSUME NEW cache, Known(cache), NEW n \in Nat \ {0}
    PROVE  Scan(cache, n) = FindSlot(cache, n)
<1> DEFINE slot == FindSlot(cache, n)
           head == cache.head
<1>0. Size \in Nat /\ head \in 0..(Size - 1) /\ head \in Nat
  BY SizeAssumption DEF Known, Cell
<1>1. \/ FirstFit(cache, n, head, slot)
      \/ NoFit(cache, n, head) /\ FirstFit(cache, n, 0, slot)
      \/ NoFit(cache, n, head) /\ NoFit(cache, n, 0) /\ slot = NoSlot
  BY <1>0, FindSlotCases
<1> HIDE DEF slot
<1>2. CASE n > Size
  <2>1. ~FirstFit(cache, n, head, slot) /\ ~FirstFit(cache, n, 0, slot)
    BY <1>0, <1>2 DEF FirstFit
  <2>2. Scan(cache, n) = NoSlot
    BY <1>2 DEF Scan
  <2> QED
    BY <1>1, <2>1, <2>2 DEF slot
<1>3. CASE n \in 1..Size
  <2>1. PICK f : Probes(f, cache, n) /\ Scan(cache, n) = f[head][0]
    BY <1>3, ScanIs
  <2>2. head \in 0..Size /\ 0 \in Nat /\ 0 \in 0..Size /\ Size - head \in Nat
    BY <1>0
  <2>3. CASE FirstFit(cache, n, head, slot)
    <3>1. 0 + (slot - head) < Size
      BY <1>0, <1>3, <2>3 DEF FirstFit
    <3>2. f[head][0] = slot
      BY <1>3, <2>1, <2>2, <2>3, <3>1, ProbeFinds
    <3> QED
      BY <2>1, <3>2 DEF slot
  <2>4. CASE NoFit(cache, n, head) /\ FirstFit(cache, n, 0, slot)
    <3>1. slot \in Nat /\ slot + n <= Size /\ slot < head /\ head > 0
      <4>1. slot \in 0..(Size - n) /\ Fits(cache, n, slot)
        BY <2>4 DEF FirstFit
      <4>2. slot \notin head..(Size - n)
        BY <2>4, <4>1 DEF NoFit
      <4> QED
        BY <1>0, <1>3, <4>1, <4>2
    <3>2. f[head][0] = f[0][Size - head]
      BY <1>3, <2>1, <2>4, <3>1, ProbeWraps
    <3>3. (Size - head) + (slot - 0) < Size
      BY <1>0, <3>1
    <3>4. f[0][Size - head] = slot
      BY <1>3, <2>1, <2>2, <2>4, <3>3, ProbeFinds
    <3> QED
      BY <2>1, <3>2, <3>4 DEF slot
  <2>5. CASE NoFit(cache, n, 0) /\ slot = NoSlot
    BY <1>3, <2>1, <2>2, <2>5, ProbeFindsNothing DEF slot
  <2> QED
    BY <1>1, <2>3, <2>4, <2>5
<1> QED
  BY <1>0, <1>2, <1>3

(* Theorem: the loop that looks for free cells finds the first that fit.   *)
THEOREM SearchFirstFit == Spec => []SearchIsFirstFit
<1>1. ASSUME HistoryInv
      PROVE  SearchIsFirstFit
  <2>1. Known(kv)
    BY <1>1 DEF HistoryInv, CellsKnown, Known
  <2>2. \A n \in 1..(Size + 1) : n \in Nat \ {0}
    BY SizeAssumption
  <2> QED
    BY <2>1, <2>2, ScanIsFindSlot DEF SearchIsFirstFit
<1> QED
  BY <1>1, HistoryAlways, PTL
=============================================================================
