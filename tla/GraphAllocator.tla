--------------------------- MODULE GraphAllocator ---------------------------
(***************************************************************************)
(* How ggml builds a compute graph and places its tensors in one buffer    *)
(* (cpp/ggml/ggml.c, cpp/ggml/ggml-alloc.c): a tensor gets the best        *)
(* fitting free block when the node that needs it comes up, gives it back  *)
(* when its last reader was placed, and an element-wise operation takes    *)
(* over the memory of a source nobody else reads.  Everything here is a    *)
(* function of the graph; GraphCompute runs it and lets threads compute    *)
(* what was placed.                                                        *)
(*                                                                         *)
(* Sizes and addresses are in units of the alignment, so aligned_offset    *)
(* has nothing left to do.                                                 *)
(***************************************************************************)
EXTENDS Integers, Sequences, SequencesExt, FiniteSets

NoTensor == 0
Null     == -1   \* tensor->data of a tensor without memory
Foreign  == -2   \* tensor->data of the KV cache, in a buffer of its own

Input == 1       \* a leaf the graph's builder allocates in the buffer
Cache == 2       \* the KV cache: memory of another buffer

-----------------------------------------------------------------------------
(* The graph.  A tensor is [op, src, size, view, offs]: its operation, its *)
(* sources, its size, and the tensor it is a view of.                      *)

\* a variant: a view of a view keeps pointing at the view
NewTensorUnchained(tensors, op, src, size, view, offs) ==
    Append(tensors, [op |-> op, src |-> src, size |-> size, view |-> view, offs |-> offs])

\* ggml_new_tensor_impl: a view of a view is a view of the base tensor.
NewTensor(tensors, op, src, size, view, offs) ==
    LET base == tensors[view]
        chained == view # NoTensor /\ base.view # NoTensor
    IN  Append(tensors,
               [op |-> op, src |-> src, size |-> size,
                view |-> IF chained THEN base.view ELSE view,
                offs |-> IF chained THEN offs + base.offs ELSE offs])

\* A loop over a list of at most two: no operation has more sources here, and
\* no graph more results.
InTurn(Step(_, _), s, list) ==
    IF Len(list) = 0 THEN s
    ELSE IF Len(list) = 1 THEN Step(s, list[1])
    ELSE Step(Step(s, list[1]), list[2])

\* ggml_visit_parents: sources first, each tensor once; leaves are kept apart.
VisitParents(tensors) ==
    LET Visited == [seen : SUBSET DOMAIN tensors, nodes : Seq(DOMAIN tensors)]
        visit[t \in DOMAIN tensors] == [v \in Visited |->
            LET Visit(w, s) == visit[s][w]
                above == InTurn(Visit, [v EXCEPT !.seen = @ \cup {t}], tensors[t].src)
            IN  IF t \in v.seen THEN v
                ELSE IF tensors[t].op = "none" THEN above
                ELSE [above EXCEPT !.nodes = Append(@, t)]]
    IN  visit

\* ggml_build_forward_expand, on each of the results in turn
BuildForward(tensors, results) ==
    LET Expand(v, t) == VisitParents(tensors)[t][v]
    IN  InTurn(Expand, [seen |-> {}, nodes |-> <<>>], results).nodes

-----------------------------------------------------------------------------
(* The buffer: its free blocks in the order of their addresses.  The state *)
(* a of an allocation holds, for each tensor, its address, the tensor it   *)
(* is a view of by now, and how many children and views are still to come. *)

End(block) == block.addr + block.size

\* ggml_tallocr_reset
ResetBlocks(size) == IF size = 0 THEN <<>> ELSE <<[addr |-> 0, size |-> size]>>

StartAllocation(tensors, size) ==
    [free |-> ResetBlocks(size),
     data |-> [t \in DOMAIN tensors |-> IF t = Cache THEN Foreign ELSE Null],
     view |-> [t \in DOMAIN tensors |-> tensors[t].view],
     children |-> [t \in DOMAIN tensors |-> 0],
     views |-> [t \in DOMAIN tensors |-> 0],
     max |-> 0, failed |-> FALSE]

IsOwn(tensors, a, t) == a.data[t] >= 0

\* The best fitting block before the last one, the last of equals; the last
\* block when no other fits; 0 when that is too small as well.
BestFit(free, size) ==
    LET n == Len(free)
        fits == {i \in 1..(n - 1) : free[i].size >= size}
    IN  IF fits # {}
        THEN CHOOSE i \in fits :
                \A j \in fits : \/ free[i].size < free[j].size
                                \/ free[i].size = free[j].size /\ i >= j
        ELSE IF n > 0 /\ free[n].size >= size THEN n ELSE 0

\* ggml_tallocr_alloc; the assertion that there is space ends the program
TallocAlloc(tensors, a, t) ==
    LET size  == tensors[t].size
        i     == BestFit(a.free, size)
        block == a.free[i]
        rest  == [addr |-> block.addr + size, size |-> block.size - size]
    IN  IF i = 0 THEN [a EXCEPT !.failed = TRUE]
        ELSE [a EXCEPT
                !.free = IF rest.size = 0 THEN RemoveAt(@, i) ELSE ReplaceAt(@, i, rest),
                !.data[t] = block.addr,
                !.max = IF block.addr + size > @ THEN block.addr + size ELSE @]

\* a variant: the block grown at its end is not joined with the next one
GiveBackUnjoined(free, block) ==
    LET before == {i \in DOMAIN free : End(free[i]) = block.addr}
        below  == Cardinality({i \in DOMAIN free : free[i].addr < block.addr})
    IN  IF before # {}
        THEN LET i == CHOOSE x \in before : TRUE
             IN  ReplaceAt(free, i, [free[i] EXCEPT !.size = @ + block.size])
        ELSE InsertAt(free, below + 1, block)

\* ggml_tallocr_free_tensor: grow the block that ends or begins at the tensor,
\* join it with its neighbour, or insert a block of its own.
GiveBack(free, block) ==
    LET before == {i \in DOMAIN free : End(free[i]) = block.addr}
        after  == {i \in DOMAIN free : free[i].addr = End(block)}
        below  == Cardinality({i \in DOMAIN free : free[i].addr < block.addr})
        Grown(i, j) == [addr |-> free[i].addr, size |-> End(free[j]) - free[i].addr]
    IN  CASE before # {} ->
               LET i == CHOOSE x \in before : TRUE
                   grown == [free[i] EXCEPT !.size = @ + block.size]
               IN  IF after # {}
                   THEN RemoveAt(ReplaceAt(free, i, Grown(i, i + 1)), i + 1)
                   ELSE ReplaceAt(free, i, grown)
          [] before = {} /\ after # {} ->
               LET i == CHOOSE x \in after : TRUE
               IN  ReplaceAt(free, i, [addr |-> block.addr,
                                       size |-> free[i].size + block.size])
          [] OTHER -> InsertAt(free, below + 1, block)

FreeTensor(tensors, a, t) ==
    IF IsOwn(tensors, a, t)
    THEN [a EXCEPT !.free = GiveBack(@, [addr |-> a.data[t], size |-> tensors[t].size])]
    ELSE a

-----------------------------------------------------------------------------
(* Placing a graph: ggml_tallocr_alloc_graph_impl without parse_seq.       *)

\* init_view
InitView(tensors, a, t) ==
    LET base == a.view[t]
    IN  [a EXCEPT !.data[t] = IF a.data[base] = Foreign THEN Foreign
                              ELSE a.data[base] + tensors[t].offs]

\* The places where the graph reads t from position i on, and the views of t
\* in the graph.
Uses(tensors, nodes, i, t) ==
    {u \in (i..Len(nodes)) \X (1..2) :
        u[2] <= Len(tensors[nodes[u[1]]].src) /\ tensors[nodes[u[1]]].src[u[2]] = t}

ViewsOf(tensors, nodes, t) == {i \in DOMAIN nodes : tensors[nodes[i]].view = t}

\* The count of children and views, before anything is placed.
CountReaders(tensors, a, nodes) ==
    [a EXCEPT !.children = [t \in DOMAIN tensors |-> Cardinality(Uses(tensors, nodes, 1, t))],
              !.views = [t \in DOMAIN tensors |-> Cardinality(ViewsOf(tensors, nodes, t))]]

CanInplace(op) == op \in {"add", "scale"}   \* ggml_op_can_inplace

\* a variant: other readers of the source are not looked at
ReusableShared(tensors, a, t, p) ==
    /\ IsOwn(tensors, a, p)
    /\ a.views[p] = 0
    /\ tensors[t].size = tensors[p].size
    /\ a.view[p] = NoTensor

\* The source whose memory node t takes over, or NoTensor: it is in this
\* buffer, t is its last reader, nothing views it, and it has the same
\* layout; a view only when it is the only user of the start of its base.
Reusable(tensors, a, t, p) ==
    /\ IsOwn(tensors, a, p)
    /\ a.children[p] = 1 /\ a.views[p] = 0
    /\ tensors[t].size = tensors[p].size
    /\ a.view[p] # NoTensor =>
         /\ a.views[a.view[p]] = 1 /\ a.children[a.view[p]] = 0
         /\ a.data[a.view[p]] = a.data[p]

ReusedParent(tensors, a, t) ==
    LET src == tensors[t].src
        candidates == {k \in DOMAIN src : Reusable(tensors, a, t, src[k])}
    IN  IF CanInplace(tensors[t].op) /\ candidates # {}
        THEN src[CHOOSE k \in candidates : \A j \in candidates : k <= j]
        ELSE NoTensor

\* allocate_node
AllocateNode(tensors, a, t) ==
    LET parent == ReusedParent(tensors, a, t)
        owner  == IF a.view[parent] = NoTensor THEN parent ELSE a.view[parent]
    IN  IF a.failed \/ a.data[t] # Null THEN a
        ELSE IF a.view[t] # NoTensor THEN InitView(tensors, a, t)
        ELSE IF parent = NoTensor THEN TallocAlloc(tensors, a, t)
        ELSE InitView(tensors, [a EXCEPT !.view[t] = owner, !.views[owner] = @ + 1], t)

\* a variant: the base of a view is not given back with its last view
DropReaderOnly(tensors, a0, p) ==
    LET a == [a0 EXCEPT !.children[p] = @ - 1]
    IN  IF a.children[p] = 0 /\ a.views[p] = 0 /\ a.view[p] = NoTensor
        THEN FreeTensor(tensors, a, p) ELSE a

\* One reader of p less; memory nobody reads and nobody views is given back.
DropReader(tensors, a0, p) ==
    LET a == [a0 EXCEPT !.children[p] = @ - 1]
        base == a.view[p]
        b == [a EXCEPT !.views[base] = @ - 1]
        Idle(s, t) == s.children[t] = 0 /\ s.views[t] = 0
    IN  IF ~Idle(a, p) THEN a
        ELSE IF base = NoTensor THEN FreeTensor(tensors, a, p)
        ELSE IF Idle(b, base) THEN FreeTensor(tensors, b, base)
        ELSE b

\* One round of the loop over the nodes: the sources, the node, and then one
\* reader less for each source.
PlaceNode(tensors, a, n) ==
    LET Place(s, t) == AllocateNode(tensors, s, t)
        Drop(s, p)  == DropReader(tensors, s, p)
        placed == Place(InTurn(Place, a, tensors[n].src), n)
    IN  IF placed.failed THEN placed ELSE InTurn(Drop, placed, tensors[n].src)

\* The builder allocates the input, then ggml_gallocr_alloc_graph counts.
BeginGraph(tensors, nodes, size) ==
    CountReaders(tensors,
                 TallocAlloc(tensors, StartAllocation(tensors, size), Input), nodes)

\* whisper_allocr_graph_init: place the graph in a buffer without an end and
\* keep how far it went.
Measured(tensors, nodes, huge) ==
    LET placed[i \in 0..Len(nodes)] ==
            IF i = 0 THEN BeginGraph(tensors, nodes, huge)
            ELSE PlaceNode(tensors, placed[i - 1], nodes[i])
    IN  placed[Len(nodes)].max
=============================================================================
