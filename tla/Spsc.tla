-------------------------------- MODULE Spsc --------------------------------
(***************************************************************************)
(* UnboundedQueue of src/src/spsc.zig, the lock-free list that carries     *)
(* client packets from the window thread to the network thread.  Every     *)
(* access to memory that both ends can touch is a step of its own.         *)
(*                                                                         *)
(* The list is made of heap nodes.  Nodes from tail (the last one the      *)
(* consumer finished with) to head (the last one linked) are the queue;    *)
(* nodes from first_ up to tail_copy_ were consumed and are reused by      *)
(* createNode before it allocates.                                         *)
(*                                                                         *)
(* Producers and Consumers are sets of threads, so that the same code can  *)
(* be run with the one producer and one consumer it is written for and     *)
(* with the threads that src/src/network.zig really lets in.               *)
(***************************************************************************)
EXTENDS Naturals, Sequences

CONSTANTS
  Producers,   \* threads that call push
  Consumers,   \* threads that call pop
  Nodes,       \* addresses the allocator can return
  Values,      \* values pushed
  NULL,        \* the null pointer
  MaxPush      \* bound on the pushes of one life of the queue

Threads == Producers \cup Consumers

ASSUME SpscAssumption ==
  /\ NULL \notin Nodes
  /\ MaxPush \in Nat

\* What spsc.zig's name demands of its users.
SingleEnds ==
  /\ \A p, q \in Producers : p = q
  /\ \A c, d \in Consumers : c = d

VARIABLES
  alive,       \* init has run and deinit has not
  allocated,   \* nodes obtained from the allocator and not destroyed
  next, value, \* the two fields of every node
  tail, head, first, tailCopy,  \* the four pointers of the queue
  pc,          \* what each thread is in the middle of
  node,        \* push: the node being filled; pop: next_tail
  local,       \* push: the argument; pop: the value read
  chain,       \* history: the nodes linked since init, in order
  pushed,      \* history: the values of the pushes that were linked
  popped       \* history: the values returned by pop

pointers == <<tail, head, first, tailCopy>>
memory == <<allocated, next, value>>
locals == <<pc, node, local>>
history == <<chain, pushed, popped>>
vars == <<alive, memory, pointers, locals, history>>

Idle == \A t \in Threads : pc[t] = "idle"

Goto(t, label) == pc' = [pc EXCEPT ![t] = label]

-----------------------------------------------------------------------------
\* init: one dummy node, every pointer at it.
Open(n) ==
  /\ ~alive /\ n \in Nodes \ allocated
  /\ alive' = TRUE
  /\ allocated' = allocated \cup {n}
  /\ next' = [next EXCEPT ![n] = NULL]
  /\ tail' = n /\ head' = n /\ first' = n /\ tailCopy' = n
  /\ chain' = <<n>> /\ pushed' = <<>> /\ popped' = <<>>
  /\ UNCHANGED <<value, locals>>

\* The nodes the walk of deinit visits: first_ and whatever next leads to.
Reach ==
  {n \in Nodes : \A S \in SUBSET Nodes :
     /\ first \in S
     /\ \A m \in S : next[m] # NULL => next[m] \in S
     => n \in S}

\* deinit, called when no thread is inside the queue.
Close ==
  /\ alive /\ Idle
  /\ alive' = FALSE
  /\ allocated' = allocated \ Reach
  /\ UNCHANGED <<next, value, pointers, locals, history>>

-----------------------------------------------------------------------------
\* Mutants of CreateNode: reuse up to the producer's end of the list, and
\* reuse without comparing first_ with tail_copy_ after the reload.
CreateNodeUpToHead(t) ==
  /\ tailCopy' = head
  /\ IF first # head
     THEN first' = next[first] /\ node' = [node EXCEPT ![t] = first] /\ UNCHANGED allocated
     ELSE \E n \in Nodes \ allocated :
            /\ node' = [node EXCEPT ![t] = n]
            /\ allocated' = allocated \cup {n}
            /\ UNCHANGED first
  /\ Goto(t, "fill")

\* createNode: reuse the oldest consumed node if there is one, looking at
\* tail again only when the nodes known to be consumed have run out;
\* otherwise allocate.  push fails when the allocation does.
CreateNode(t) ==
  LET known == IF first # tailCopy THEN tailCopy ELSE tail IN
  /\ tailCopy' = known
  /\ \/ /\ first # known
        /\ first' = next[first]
        /\ node' = [node EXCEPT ![t] = first]
        /\ Goto(t, "fill")
        /\ UNCHANGED allocated
     \/ /\ first = known
        /\ \E n \in Nodes \ allocated :
             /\ allocated' = allocated \cup {n}
             /\ node' = [node EXCEPT ![t] = n]
        /\ Goto(t, "fill")
        /\ UNCHANGED first
     \/ /\ first = known
        /\ UNCHANGED <<allocated, first, node, pc>>

Push(t, v) ==
  /\ alive /\ pc[t] = "idle" /\ Len(pushed) < MaxPush
  /\ CreateNode(t)
  /\ local' = [local EXCEPT ![t] = v]
  /\ UNCHANGED <<alive, next, value, tail, head, history>>

\* Mutant of FillNode: only the value is written.
FillNodeKeepsNext(t) ==
  /\ pc[t] = "fill"
  /\ value' = [value EXCEPT ![node[t]] = local[t]]
  /\ Goto(t, "link")
  /\ UNCHANGED <<alive, allocated, next, pointers, node, local, history>>

\* node.* = .{ .next = null, .value = value }
FillNode(t) ==
  /\ pc[t] = "fill"
  /\ next' = [next EXCEPT ![node[t]] = NULL]
  /\ value' = [value EXCEPT ![node[t]] = local[t]]
  /\ Goto(t, "link")
  /\ UNCHANGED <<alive, allocated, pointers, node, local, history>>

\* The release store of head.next, which makes the value visible to pop.
LinkNode(t) ==
  /\ pc[t] = "link"
  /\ next' = [next EXCEPT ![head] = node[t]]
  /\ chain' = Append(chain, node[t])
  /\ pushed' = Append(pushed, local[t])
  /\ Goto(t, "advance")
  /\ UNCHANGED <<alive, allocated, value, pointers, node, local, popped>>

\* Mutant of AdvanceHead: head is left behind.
AdvanceHeadForgotten(t) ==
  /\ pc[t] = "advance"
  /\ Goto(t, "idle")
  /\ UNCHANGED <<alive, memory, pointers, node, local, history>>

\* head = node
AdvanceHead(t) ==
  /\ pc[t] = "advance"
  /\ head' = node[t]
  /\ Goto(t, "idle")
  /\ UNCHANGED <<alive, memory, tail, first, tailCopy, node, local, history>>

-----------------------------------------------------------------------------
\* The acquire load of tail.next: null is an empty queue, pop returns null.
LoadNext(t) ==
  /\ alive /\ pc[t] = "idle"
  /\ next[tail] # NULL
  /\ node' = [node EXCEPT ![t] = next[tail]]
  /\ Goto(t, "read")
  /\ UNCHANGED <<alive, memory, pointers, local, history>>

ReadValue(t) ==
  /\ pc[t] = "read"
  /\ local' = [local EXCEPT ![t] = value[node[t]]]
  /\ Goto(t, "store")
  /\ UNCHANGED <<alive, memory, pointers, node, history>>

\* The release store of tail, after which the producer may reuse the old one.
StoreTail(t) ==
  /\ pc[t] = "store"
  /\ tail' = node[t]
  /\ popped' = Append(popped, local[t])
  /\ Goto(t, "idle")
  /\ UNCHANGED <<alive, memory, head, first, tailCopy, node, local, chain, pushed>>

-----------------------------------------------------------------------------
Init ==
  \E n \in Nodes, v \in Values :
    /\ alive = TRUE
    /\ allocated = {n}
    /\ next = [m \in Nodes |-> NULL]
    /\ value = [m \in Nodes |-> v]
    /\ tail = n /\ head = n /\ first = n /\ tailCopy = n
    /\ pc = [t \in Threads |-> "idle"]
    /\ node = [t \in Threads |-> n]
    /\ local = [t \in Threads |-> v]
    /\ chain = <<n>> /\ pushed = <<>> /\ popped = <<>>

Produce(t) == FillNode(t) \/ LinkNode(t) \/ AdvanceHead(t)
Consume(t) == LoadNext(t) \/ ReadValue(t) \/ StoreTail(t)

Next ==
  \/ \E t \in Producers : Produce(t) \/ \E v \in Values : Push(t, v)
  \/ \E t \in Consumers : Consume(t)
  \/ Close
  \/ \E n \in Nodes : Open(n)

Spec == Init /\ [][Next]_vars

\* A push that has started is not abandoned, and the network thread polls
\* pop for as long as it runs (networkTick calls accept every 10 ms).
FairSpec ==
  /\ Spec
  /\ \A t \in Producers : WF_vars(Produce(t))
  /\ \A t \in Consumers : WF_vars(Consume(t))

-----------------------------------------------------------------------------
\* The pointers are nodes, every thread is somewhere in push or pop.
TypeOK ==
  /\ alive \in BOOLEAN
  /\ allocated \subseteq Nodes
  /\ next \in [Nodes -> Nodes \cup {NULL}]
  /\ value \in [Nodes -> Values]
  /\ {tail, head, first, tailCopy} \subseteq Nodes
  /\ pc \in [Threads -> {"idle", "fill", "link", "advance", "read", "store"}]
  /\ node \in [Threads -> Nodes]
  /\ local \in [Threads -> Values]
  /\ chain \in Seq(Nodes)
  /\ pushed \in Seq(Values) /\ popped \in Seq(Values)

\* What pop has returned is what was pushed, in that order, with nothing
\* lost, repeated or invented (the assertion of the "fifo behavior" test).
PoppedIsPrefix ==
  /\ Len(popped) <= Len(pushed)
  /\ popped = SubSeq(pushed, 1, Len(popped))

\* A node a push is about to overwrite is not one the consumer can still
\* reach: reuse in createNode never hands out a node that holds an unread
\* value or that pop is reading.
NoOverwrite ==
  \A t \in Threads : pc[t] \in {"fill", "link"} =>
    /\ node[t] \notin {tail, head}
    /\ \A c \in Threads : pc[c] \in {"read", "store"} => node[c] # node[t]
    /\ \A i \in Len(popped) + 1 .. Len(chain) : chain[i] # node[t]

\* deinit frees every node there is: none leaks, whatever mix of reuse and
\* allocation produced the list.
NoLeak == ~alive => allocated = {}

\* Nothing stays in the queue for ever while the consumer keeps polling.
EventuallyPopped ==
  \A k \in 1 .. MaxPush :
    (alive /\ Len(pushed) >= k) ~> (~alive \/ Len(popped) >= k)

\* Why it works, as an inductive invariant.  chain numbers the nodes in the
\* order they were linked; position Tail is where the consumer stands, f and
\* c are the positions of first_ and tail_copy_.
Tail_ == Len(popped) + 1
Last_ == Len(chain)
Linked(f) == {chain[i] : i \in f .. Last_}

\* The four pointers stand on the chain in the order first, tail_copy, tail,
\* head; head is one behind while its push has yet to advance it.
PointersOrdered(f, c) ==
  /\ Last_ = Len(pushed) + 1
  /\ 1 <= f /\ f <= c /\ c <= Tail_ /\ Tail_ <= Last_
  /\ first = chain[f] /\ tailCopy = chain[c] /\ tail = chain[Tail_]
  /\ (\A t \in Threads : pc[t] # "advance") => head = chain[Last_]
  /\ \A i, j \in f .. Last_ : chain[i] = chain[j] => i = j

\* From first to the end the next fields spell the chain, the unread nodes
\* hold the values pushed, and what was read is what was pushed.
ListSpellsChain(f) ==
  /\ \A i \in f .. Last_ - 1 : next[chain[i]] = chain[i + 1]
  /\ next[chain[Last_]] = NULL
  /\ \A i \in Tail_ .. Len(pushed) : value[chain[i + 1]] = pushed[i]
  /\ \A i \in 1 .. Len(popped) : popped[i] = pushed[i]

\* A push under way owns a node outside the list; it is linked with its next
\* and value fields already written.
PushUnderway(f) ==
  \A t \in Threads :
    /\ pc[t] \in {"fill", "link"} => node[t] \notin Linked(f)
    /\ pc[t] = "link" => next[node[t]] = NULL /\ value[node[t]] = local[t]
    /\ pc[t] = "advance" =>
         Last_ > 1 /\ f < Last_ /\ head = chain[Last_ - 1] /\ node[t] = chain[Last_]

\* A pop under way is on the node after tail, and carries its value.
PopUnderway ==
  \A t \in Threads :
    /\ pc[t] \in {"read", "store"} => Tail_ < Last_ /\ node[t] = chain[Tail_ + 1]
    /\ pc[t] = "store" => local[t] = pushed[Tail_]

\* Which operation each thread may be in the middle of.
Roles ==
  \A t \in Threads :
    /\ pc[t] \in {"fill", "link", "advance"} => t \in Producers
    /\ pc[t] \in {"read", "store"} => t \in Consumers

\* Every allocated node is in the list or in the hands of a push.
NothingLost(f) ==
  allocated = Linked(f) \cup {node[t] : t \in {u \in Threads : pc[u] \in {"fill", "link"}}}

ListInv(f, c) ==
  /\ PointersOrdered(f, c)
  /\ ListSpellsChain(f)
  /\ PushUnderway(f)
  /\ PopUnderway
  /\ NothingLost(f)

IInv ==
  /\ TypeOK
  /\ Roles
  /\ ~alive => Idle /\ allocated = {} /\ PoppedIsPrefix
  /\ alive => \E f, c \in 1 .. Len(chain) : ListInv(f, c)

\* The queue implements Fifo.
QueueContents == SubSeq(pushed, Len(popped) + 1, Len(pushed))
Abstract == INSTANCE Fifo WITH items <- QueueContents, out <- popped
ImplementsFifo == Abstract!FifoSpec
=============================================================================
