---------------------------- MODULE GraphCompute ----------------------------
(***************************************************************************)
(* One ggml graph from its construction to its result: the graph is built, *)
(* placed once to measure the buffer it needs and once in a buffer of that *)
(* size (whisper_allocr_graph_init and whisper_allocr_graph_realloc in     *)
(* cpp/ggml/whisper.cpp), and then computed by the threads of              *)
(* ggml_graph_compute (cpp/ggml/ggml.c), which meet after every node they  *)
(* share.  The memory remembers for each cell which tensor was written to  *)
(* it last, so that a source overwritten before its last reader is done    *)
(* with it shows.                                                          *)
(***************************************************************************)
EXTENDS GraphAllocator

CONSTANTS
    NThreads,     \* cplan->n_threads
    MaxTensors,   \* bound on the tensors of a graph, the two leaves included
    Sizes,        \* sizes of the tensors the operations make
    InputSize     \* size of the input

ASSUME GraphAssumption ==
    /\ NThreads \in Nat \ {0}
    /\ MaxTensors \in Nat
    /\ Sizes \subseteq Nat \ {0}
    /\ InputSize \in Nat \ {0}

Huge == 1000     \* a buffer without an end, ggml_tallocr_new_measure
Thread == 0..(NThreads - 1)

VARIABLES
    phase,     \* "build", "place", "compute"
    tensors,   \* the tensors in the order they were made
    results,   \* what the builder passed to ggml_build_forward_expand
    nodes,     \* cgraph->nodes
    size,      \* size of the buffer
    a,         \* state of the allocation
    next,      \* position of the node that is placed next
    n_active,  \* shared->n_active
    node_n,    \* shared->node_n: position in nodes, 0 before the first
    pc,        \* what each thread does
    at,        \* its local node_n
    memory,    \* per cell, the tensor written to it last
    wdata      \* the node the shared work buffer was filled for

building  == <<tensors, results>>
placing   == <<nodes, size, a, next>>
threads   == <<n_active, node_n, pc, at>>
contents  == <<memory, wdata>>
vars == <<phase, tensors, results, nodes, size, a, next,
          n_active, node_n, pc, at, memory, wdata>>

Leaf(n) == [op |-> "none", src |-> <<>>, size |-> n, view |-> NoTensor, offs |-> 0]

Init ==
    /\ phase = "build"
    /\ tensors = <<Leaf(InputSize), Leaf(1)>>
    /\ results = <<>>
    /\ nodes = <<>> /\ size = 0 /\ next = 1
    /\ a = StartAllocation(tensors, 0)
    /\ n_active = NThreads /\ node_n = 0
    /\ pc = [i \in Thread |-> "arrive"]
    /\ at = [i \in Thread |-> 0]
    /\ memory = <<>>
    /\ wdata = NoTensor

-----------------------------------------------------------------------------
(* Building: the operations whisper's graphs are made of.                  *)

Make(op, src, n, view, offs) ==
    /\ phase = "build"
    /\ Len(tensors) < MaxTensors
    /\ tensors' = NewTensor(tensors, op, src, n, view, offs)
    /\ UNCHANGED <<phase, placing, threads, contents>>

Copied == {t \in DOMAIN tensors : tensors[t].op = "copy"}

\* what an operation may read: the cache only through a view made after the copy
Readable == DOMAIN tensors \ ({Cache} \cup Copied)

MatMul(src, n) == Make("matmul", src, n, NoTensor, 0) /\ UNCHANGED results

Add(x, y) ==
    /\ tensors[y].size \in {1, tensors[x].size}
    /\ Make("add", <<x, y>>, tensors[x].size, NoTensor, 0)
    /\ UNCHANGED results

Scale(x) == Make("scale", <<x>>, tensors[x].size, NoTensor, 0) /\ UNCHANGED results

View(x, n, offs) ==
    /\ n + offs <= tensors[x].size
    /\ x = Cache => Copied # {}
    /\ Make("view", <<x>>, n, x, offs)
    /\ UNCHANGED results

\* ggml_cpy into the cache, expanded at once: its readers do not name it.  (The
\* copies whisper's graphs make into a fresh tensor of the same buffer, which is
\* their second source and the base of the view they return, are left out.)
Copy(x) ==
    /\ Copied = {}
    /\ tensors[x].size = tensors[Cache].size
    /\ Make("copy", <<x, Cache>>, tensors[Cache].size, Cache, 0)
    /\ results' = Append(results, Len(tensors) + 1)

\* The last tensor is the result.  Tensors no result depends on are not part
\* of the graph; a graph with some is not distinguished from one without.
Build ==
    /\ phase = "build"
    /\ Len(tensors) > 2
    /\ LET ordered == BuildForward(tensors, Append(results, Len(tensors)))
       IN  /\ Len(ordered) = Len(tensors) - 2
           /\ nodes' = ordered
           /\ size' = Measured(tensors, ordered, Huge)
           /\ a' = BeginGraph(tensors, ordered, size')
    /\ phase' = "place"
    /\ UNCHANGED <<building, next, threads, contents>>

Place ==
    /\ phase = "place"
    /\ ~a.failed
    /\ next <= Len(nodes)
    /\ a' = PlaceNode(tensors, a, nodes[next])
    /\ next' = next + 1
    /\ UNCHANGED <<phase, building, nodes, size, threads, contents>>

Start ==
    /\ phase = "place"
    /\ ~a.failed
    /\ next > Len(nodes)
    /\ phase' = "compute"
    /\ memory' = [c \in (0..(size - 1)) \cup {Foreign} |->
                    CASE c = Foreign -> Cache
                      [] c \in 0..(InputSize - 1) -> Input
                      [] OTHER -> NoTensor]
    /\ UNCHANGED <<building, placing, threads, wdata>>

-----------------------------------------------------------------------------
(* What an operation reads and writes.                                     *)

Cells(t) == IF a.data[t] = Foreign THEN {Foreign}
            ELSE a.data[t]..(a.data[t] + tensors[t].size - 1)

NTasks(t) == IF tensors[t].op \in {"matmul", "add", "copy"} THEN NThreads ELSE 1

\* GGML_OP_HAS_INIT: the first thread at the node copies the second factor
HasInit(t) == tensors[t].op = "matmul" /\ Len(tensors[t].src) > 1

\* The rows of n that task ith of nth takes: ceil(n / nth) in a row.
Share(n, ith, nth) ==
    LET rows == (n + nth - 1) \div nth
    IN  {r \in 0..(n - 1) : rows * ith <= r /\ r < rows * (ith + 1)}

\* The cells of t that correspond to those rows of a tensor of size n; a
\* source of another size is repeated, and read as a whole.
ShareOf(t, n, ith, nth) ==
    IF a.data[t] = Foreign THEN (IF Share(n, ith, nth) = {} THEN {} ELSE {Foreign})
    ELSE IF tensors[t].size = n THEN {a.data[t] + r : r \in Share(n, ith, nth)}
    ELSE IF Share(n, ith, nth) = {} THEN {} ELSE Cells(t)

Writes(t, ith, nth) ==
    IF tensors[t].op = "view" THEN {} ELSE ShareOf(t, tensors[t].size, ith, nth)

\* Who must have written source s when t reads it: the tensor s lies in, or
\* the copy into the cache.
Value(s) ==
    LET base == IF tensors[s].view = NoTensor THEN s ELSE tensors[s].view
    IN  IF base = Cache THEN CHOOSE c \in Copied : TRUE ELSE base

\* The task ith of nth of t finds its sources as they were computed.
SourcesIntact(t, ith, nth) ==
    LET op == tensors[t].op
        n  == tensors[t].size
        src == tensors[t].src
        Intact(s, cells) == \A c \in cells : memory[c] = Value(s)
    IN  CASE op = "matmul" -> Share(n, ith, nth) # {} =>
                                 Intact(src[1], Cells(src[1]))
          [] op = "add"    -> \A k \in 1..2 : Intact(src[k], ShareOf(src[k], n, ith, nth))
          [] op \in {"scale", "copy"} -> Intact(src[1], ShareOf(src[1], n, ith, nth))
          [] op = "view"   -> TRUE

-----------------------------------------------------------------------------
(* The threads: ggml_graph_compute_thread.                                 *)

Node(i) == nodes[at[i]]

Move(i, label) == pc' = [pc EXCEPT ![i] = label]

Write(i, ith, nth) ==
    memory' = [c \in DOMAIN memory |->
                 IF c \in Writes(Node(i), ith, nth) THEN Node(i) ELSE memory[c]]

\* a variant: the value before the subtraction is taken for the one after it
ArriveOffByOne(i) ==
    /\ phase = "compute"
    /\ pc[i] = "arrive"
    /\ n_active' = n_active - 1
    /\ Move(i, IF n_active = 0 THEN "scan" ELSE "spin")
    /\ UNCHANGED <<phase, building, placing, node_n, at, contents>>

\* atomic_fetch_sub: the last one to arrive goes on, the others wait
Arrive(i) ==
    /\ phase = "compute"
    /\ pc[i] = "arrive"
    /\ n_active' = n_active - 1
    /\ Move(i, IF n_active = 1 THEN "scan" ELSE "spin")
    /\ UNCHANGED <<phase, building, placing, node_n, at, contents>>

\* ++node_n: a node for one task is computed here, the first one that is
\* shared or the end of the graph is handed out
Scan(i) ==
    /\ pc[i] = "scan"
    /\ at' = [at EXCEPT ![i] = @ + 1]
    /\ Move(i, IF at'[i] > Len(nodes) THEN "reset"
               ELSE IF HasInit(nodes[at'[i]]) THEN "init"
               ELSE IF NTasks(nodes[at'[i]]) = 1 THEN "inline" ELSE "reset")
    /\ UNCHANGED <<phase, building, placing, n_active, node_n, contents>>

\* GGML_TASK_INIT of a matrix product
InitNode(i) ==
    /\ pc[i] = "init"
    /\ wdata' = Node(i)
    /\ Move(i, IF NTasks(Node(i)) = 1 THEN "inline" ELSE "reset")
    /\ UNCHANGED <<phase, building, placing, n_active, node_n, at, memory>>

ComputeInline(i) ==
    /\ pc[i] = "inline"
    /\ Write(i, 0, 1)
    /\ Move(i, "scan")
    /\ UNCHANGED <<phase, building, placing, n_active, node_n, at, wdata>>

\* the counter first, then the node the others wait for
ResetActive(i) ==
    /\ pc[i] = "reset"
    /\ n_active' = NThreads
    /\ Move(i, "publish")
    /\ UNCHANGED <<phase, building, placing, node_n, at, contents>>

\* where a thread goes that knows the node to compute
Enter(i, position) ==
    Move(i, IF position > Len(nodes) THEN "exit" ELSE "compute")

PublishNode(i) ==
    /\ pc[i] = "publish"
    /\ node_n' = at[i]
    /\ Enter(i, at[i])
    /\ UNCHANGED <<phase, building, placing, n_active, at, contents>>

Spin(i) ==
    /\ pc[i] = "spin"
    /\ node_n # at[i]
    /\ at' = [at EXCEPT ![i] = node_n]
    /\ Enter(i, node_n)
    /\ UNCHANGED <<phase, building, placing, n_active, node_n, contents>>

\* ith < n_tasks: this thread's share of the node
Compute(i) ==
    /\ pc[i] = "compute"
    /\ Write(i, i, NTasks(Node(i)))
    /\ Move(i, "arrive")
    /\ UNCHANGED <<phase, building, placing, n_active, node_n, at, wdata>>

ThreadStep(i) ==
    \/ Arrive(i) \/ Scan(i) \/ InitNode(i) \/ ComputeInline(i)
    \/ ResetActive(i) \/ PublishNode(i) \/ Spin(i) \/ Compute(i)

BuildStep ==
    \/ \E x \in Readable :
          \/ \E n \in Sizes : MatMul(<<x>>, n)
          \/ \E y \in Readable, n \in Sizes : MatMul(<<x, y>>, n)
          \/ \E y \in Readable : Add(x, y)
          \/ Scale(x)
          \/ \E n \in Sizes, offs \in 0..1 : View(x, n, offs)
          \/ Copy(x)
    \/ View(Cache, 1, 0)

Next ==
    \/ BuildStep
    \/ Build
    \/ Place
    \/ Start
    \/ \E i \in Thread : ThreadStep(i)

Spec ==
    /\ Init /\ [][Next]_vars
    /\ \A i \in Thread : WF_vars(ThreadStep(i))

-----------------------------------------------------------------------------
(* Properties.                                                             *)

TypeOK ==
    /\ phase \in {"build", "place", "compute"}
    /\ \A t \in DOMAIN tensors :
          /\ tensors[t].op \in {"none", "matmul", "add", "scale", "view", "copy"}
          /\ tensors[t].view \in 0..(t - 1)
          /\ tensors[t].view # NoTensor => tensors[tensors[t].view].view = NoTensor
    /\ ToSet(nodes) \subseteq DOMAIN tensors
    /\ next \in 1..(Len(nodes) + 1)
    /\ \A t \in DOMAIN tensors : phase # "build" => a.children[t] >= 0 /\ a.views[t] >= 0
    /\ n_active \in 0..NThreads
    /\ node_n \in 0..(Len(nodes) + 1)
    /\ pc \in [Thread -> {"arrive", "scan", "init", "inline", "reset", "publish",
                         "spin", "compute", "exit"}]
    /\ at \in [Thread -> 0..(Len(nodes) + 1)]
    /\ wdata \in ToSet(nodes) \cup {NoTensor}

\* No thread ever reads a source, or the shared work buffer, that something
\* else was written over or that is not computed yet: the memory the
\* allocator hands out again, the element-wise operations that overwrite
\* their source and the meeting of the threads after each node fit together.
SourcesReadIntact ==
    \A i \in Thread :
        /\ pc[i] = "compute" /\ i < NTasks(Node(i)) =>
              /\ SourcesIntact(Node(i), i, NTasks(Node(i)))
              /\ HasInit(Node(i)) => wdata = Node(i)
        /\ pc[i] = "inline" =>
              /\ SourcesIntact(Node(i), 0, 1)
              /\ HasInit(Node(i)) => wdata = Node(i)
        /\ pc[i] = "init" =>
              LET factor == tensors[Node(i)].src[2]
              IN  \A c \in Cells(factor) : memory[c] = Value(factor)

\* The free blocks are in the order of their addresses, no two of them touch,
\* and none holds a tensor that still has readers; otherwise merging and the
\* best fit lose memory or hand it out twice.
FreeBlocksSound ==
    phase = "place" =>
        /\ \A j \in 1..(Len(a.free) - 1) : End(a.free[j]) < a.free[j + 1].addr
        /\ \A t \in DOMAIN tensors, j \in DOMAIN a.free :
              a.data[t] >= 0 /\ a.children[t] > 0 =>
                 Cells(t) \cap (a.free[j].addr..(End(a.free[j]) - 1)) = {}

\* Once the whole graph is placed, the buffer is free again but for tensors
\* nobody reads and what they are views of: no block is lost in the
\* book-keeping of views.  One way to lose some is the code's own and left
\* out: a tensor that took over a part of another one through a view, and
\* that is given back by the last view of itself, gives back its own cells
\* only and leaves the rest of the other for good.
Unread == {t \in ToSet(nodes) :
             \A n \in ToSet(nodes) : ~Contains(tensors[n].src, t)}
Bases(T) == {a.view[t] : t \in T} \ {NoTensor}
PartTaken == {t \in ToSet(nodes) :
                /\ tensors[t].view = NoTensor /\ a.view[t] # NoTensor
                /\ tensors[t].size < tensors[a.view[t]].size
                /\ \E v \in ToSet(nodes) : tensors[v].view = t}
Kept == Unread \cup Bases(Unread) \cup Bases(Bases(Unread)) \cup Bases(PartTaken)

NothingLeaked ==
    phase = "place" /\ next > Len(nodes) /\ ~a.failed =>
        0..(size - 1) =
            (UNION {a.free[j].addr..(End(a.free[j]) - 1) : j \in DOMAIN a.free})
            \cup ((UNION {Cells(t) : t \in Kept}) \ {Foreign})

\* Every computation ends: no thread waits for a node nobody publishes.
ComputeEnds == phase = "compute" ~> \A i \in Thread : pc[i] = "exit"
=============================================================================
