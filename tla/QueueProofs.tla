---------------------------- MODULE QueueProofs ----------------------------
(***************************************************************************)
(* Proofs about the packet queue (Spsc), for any finite or infinite set of *)
(* nodes and values, and about the editor's queue of commands (Editor),    *)
(* for maps of any size, any tiles and any bound on its history.           *)
(***************************************************************************)
EXTENDS Spsc, Editor, SequenceTheorems, FiniteSetTheorems, WellFoundedInduction, TLAPS

\* A set of naturals with an element has a least one; it stands in for
\* induction along the list.
LEMMA LeastNumber ==
  ASSUME NEW T \in SUBSET Nat, T # {}
  PROVE  \E x \in T : \A y \in T : x <= y
<1> DEFINE R == OpToRel(<, Nat)
<1>1. IsWellFoundedOn(R, Nat)
  BY NatLessThanWellFounded
<1>2. PICK x \in T : \A y \in T : ~ (<<y, x>> \in R)
  <2> HIDE DEF R
  <2> QED
    BY <1>1, WFMin
<1>3. \A y \in T : x <= y
  <2> SUFFICES ASSUME NEW y \in T, y < x
               PROVE  FALSE
    BY SMT
  <2> <<y, x>> \in R
    BY DEF OpToRel
  <2> QED
    BY <1>2
<1> QED
  BY <1>3

\* The queue starts in the invariant: one dummy node, every pointer at it.
LEMMA InitIInv == Init => IInv
<1> SUFFICES ASSUME NEW n \in Nodes, NEW v \in Values,
                    alive = TRUE, allocated = {n},
                    next = [m \in Nodes |-> NULL], value = [m \in Nodes |-> v],
                    tail = n, head = n, first = n, tailCopy = n,
                    pc = [t \in Threads |-> "idle"],
                    node = [t \in Threads |-> n], local = [t \in Threads |-> v],
                    chain = <<n>>, pushed = <<>>, popped = <<>>
             PROVE  IInv
  BY DEF Init
<1>1. TypeOK
  BY DEF TypeOK
<1>2. Roles
  BY DEF Roles
<1>3. ListInv(1, 1)
  <2>1. Len(chain) = 1 /\ Len(pushed) = 0 /\ Len(popped) = 0 /\ chain[1] = n
    OBVIOUS
  <2>2. Linked(1) = {n}
    BY <2>1 DEF Linked, Last_
  <2>3. PointersOrdered(1, 1)
    BY <2>1 DEF PointersOrdered, Last_, Tail_
  <2>4. ListSpellsChain(1)
    BY <2>1 DEF ListSpellsChain, Last_, Tail_
  <2>5. PushUnderway(1) /\ PopUnderway
    BY DEF PushUnderway, PopUnderway
  <2>6. NothingLost(1)
    BY <2>2 DEF NothingLost
  <2> QED
    BY <2>3, <2>4, <2>5, <2>6 DEF ListInv
<1> QED
  BY <1>1, <1>2, <1>3 DEF IInv

-----------------------------------------------------------------------------
\* A thread in the middle of an operation holds the queue open.
LEMMA Busy ==
  ASSUME IInv, NEW t \in Threads, pc[t] # "idle"
  PROVE  alive /\ \E f, c \in 1 .. Len(chain) : ListInv(f, c)
BY DEF IInv, Idle

\* node.* = ... writes a node that is not in the list.
LEMMA FillNodeStep ==
  ASSUME IInv, SingleEnds, NEW t \in Producers, FillNode(t)
  PROVE  IInv'
<1>0. t \in Threads /\ pc[t] = "fill"
  BY DEF FillNode, Threads
<1>1. alive
  BY <1>0, Busy
<1>2. PICK f \in 1 .. Len(chain), c \in 1 .. Len(chain) : ListInv(f, c)
  BY <1>0, Busy
<1> USE DEF FillNode, Goto, memory, pointers, history
<1>3. TypeOK'
  BY <1>0 DEF IInv, TypeOK
<1>4. Roles'
  BY <1>0 DEF IInv, TypeOK, Roles
<1>5. ListInv(f, c)'
  <2> USE <1>0, <1>2 DEF IInv, TypeOK, ListInv
  <2>1. node[t] \notin Linked(f)
    BY DEF PushUnderway
  <2>2. PointersOrdered(f, c)'
    BY DEF PointersOrdered, Last_, Tail_
  <2>3. ListSpellsChain(f)'
    <3>1. /\ f \in Nat /\ f <= Tail_ /\ Tail_ \in Nat /\ Last_ \in Nat
          /\ f <= Last_ /\ Len(pushed) + 1 = Last_ /\ Len(pushed) \in Nat
      BY DEF PointersOrdered, Last_, Tail_
    <3>2. \A i \in f .. Last_ : chain[i] \in Nodes /\ chain[i] # node[t]
      BY <2>1, <3>1 DEF Linked, Last_
    <3>3. \A i \in f .. Last_ : next'[chain[i]] = next[chain[i]] /\ value'[chain[i]] = value[chain[i]]
      BY <3>2
    <3>4. \A i \in f .. Last_ - 1 : i \in f .. Last_
      BY <3>1
    <3>5. \A i \in Tail_ .. Len(pushed) : i + 1 \in f .. Last_
      BY <3>1
    <3>6. Last_ \in f .. Last_
      BY <3>1
    <3> QED
      BY <3>3, <3>4, <3>5, <3>6 DEF ListSpellsChain, Last_, Tail_
  <2>4. PushUnderway(f)'
    BY SpscAssumption DEF PushUnderway, Linked, Last_, Roles, SingleEnds
  <2>5. PopUnderway'
    BY DEF PopUnderway, Last_, Tail_
  <2>6. NothingLost(f)'
    <3>1. {u \in Threads : pc[u] \in {"fill", "link"}}' = {u \in Threads : pc[u] \in {"fill", "link"}}
      OBVIOUS
    <3> QED
      BY <3>1 DEF NothingLost, Linked, Last_
  <2> QED
    BY <2>2, <2>3, <2>4, <2>5, <2>6
<1> QED
  BY <1>1, <1>3, <1>4, <1>5 DEF IInv

\* Arithmetic of the four positions, used by every step below.
LEMMA Positions ==
  ASSUME TypeOK, NEW f \in 1 .. Len(chain), NEW c \in 1 .. Len(chain), PointersOrdered(f, c)
  PROVE  /\ f \in Nat /\ c \in Nat /\ Tail_ \in Nat /\ Last_ \in Nat
         /\ 1 <= f /\ f <= c /\ c <= Tail_ /\ Tail_ <= Last_
         /\ Len(pushed) \in Nat /\ Last_ = Len(pushed) + 1
         /\ Len(popped) \in Nat /\ Tail_ = Len(popped) + 1
         /\ \A i \in 1 .. Last_ : chain[i] \in Nodes
BY DEF PointersOrdered, Last_, Tail_, TypeOK

\* head.next = node appends one node and one value to the list.
LEMMA LinkNodeStep ==
  ASSUME IInv, SingleEnds, NEW t \in Producers, LinkNode(t)
  PROVE  IInv'
<1>0. t \in Threads /\ pc[t] = "link"
  BY DEF LinkNode, Threads
<1>1. alive /\ alive'
  BY <1>0, Busy DEF LinkNode
<1>2. PICK f \in 1 .. Len(chain), c \in 1 .. Len(chain) : ListInv(f, c)
  BY <1>0, Busy
<1>3. TypeOK /\ TypeOK'
  BY <1>0, AppendProperties DEF IInv, TypeOK, LinkNode, Goto, pointers
<1>4. Roles'
  BY <1>0 DEF IInv, TypeOK, Roles, LinkNode, Goto
<1>5. /\ Last_' = Last_ + 1 /\ Tail_' = Tail_
      /\ \A i \in 1 .. Last_ : chain'[i] = chain[i]
      /\ chain'[Last_ + 1] = node[t]
      /\ Len(pushed') = Len(pushed) + 1
      /\ \A i \in 1 .. Len(pushed) : pushed'[i] = pushed[i]
      /\ pushed'[Len(pushed) + 1] = local[t]
  BY <1>0, <1>3, AppendProperties DEF TypeOK, Last_, Tail_, LinkNode
<1>6. /\ head \in Nodes /\ next'[head] = node[t]
      /\ \A n \in Nodes : n # head => next'[n] = next[n]
      /\ UNCHANGED <<value, head, tail, first, tailCopy, node, local, popped, allocated>>
      /\ pc'[t] = "advance" /\ \A u \in Threads : u # t => pc'[u] = pc[u]
  BY <1>0, <1>3 DEF LinkNode, Goto, pointers, TypeOK
<1>7. \A u \in Threads : pc[u] \in {"fill", "link", "advance"} => u = t
  BY DEF IInv, Roles, SingleEnds
<1>8. PointersOrdered(f, c) /\ ListSpellsChain(f) /\ PushUnderway(f) /\ PopUnderway /\ NothingLost(f)
  BY <1>2 DEF ListInv
<1>9. head = chain[Last_]
  BY <1>0, <1>7, <1>8 DEF PointersOrdered
<1>10. node[t] \notin Linked(f) /\ next[node[t]] = NULL /\ value[node[t]] = local[t]
  BY <1>0, <1>8 DEF PushUnderway
<1>11. /\ f \in Nat /\ c \in Nat /\ Tail_ \in Nat /\ Last_ \in Nat
       /\ 1 <= f /\ f <= c /\ c <= Tail_ /\ Tail_ <= Last_
       /\ Len(pushed) \in Nat /\ Last_ = Len(pushed) + 1
       /\ Len(popped) \in Nat /\ Tail_ = Len(popped) + 1
       /\ \A i \in 1 .. Last_ : chain[i] \in Nodes
  BY <1>2, <1>3, <1>8, Positions
<1>12. \A i \in f .. Last_ : chain[i] \in Nodes /\ chain[i] # node[t] /\ chain'[i] = chain[i]
  BY <1>5, <1>10, <1>11 DEF Linked
<1>13. node[t] \in Nodes
  BY <1>0, <1>3 DEF TypeOK
<1>14. PointersOrdered(f, c)'
  <2>1. \A i, j \in f .. Last_ : chain'[i] = chain'[j] => i = j
    BY <1>8, <1>12 DEF PointersOrdered
  <2>2. \A i \in f .. Last_ : chain'[i] # chain'[Last_ + 1]
    BY <1>5, <1>12
  <2>3. \A i \in f .. Last_ + 1 : i \in f .. Last_ \/ i = Last_ + 1
    BY <1>11
  <2>4. \A i, j \in f .. Last_ + 1 : chain'[i] = chain'[j] => i = j
    BY <2>1, <2>2, <2>3
  <2>5. first' = chain'[f] /\ tailCopy' = chain'[c] /\ tail' = chain'[Tail_]
    BY <1>5, <1>6, <1>8, <1>11 DEF PointersOrdered
  <2> QED
    BY <1>0, <1>5, <1>6, <1>11, <2>4, <2>5 DEF PointersOrdered
<1>15. ListSpellsChain(f)'
  <2>1. ASSUME NEW i \in f .. Last_ - 1
        PROVE  next'[chain'[i]] = chain'[i + 1]
    <3>1. i \in f .. Last_ /\ i + 1 \in f .. Last_ /\ Last_ \in f .. Last_ /\ i # Last_
      BY <1>11
    <3>2. chain[i] # head
      BY <1>8, <1>9, <3>1 DEF PointersOrdered
    <3>3. next'[chain[i]] = next[chain[i]]
      BY <1>6, <1>12, <3>1, <3>2
    <3>4. next[chain[i]] = chain[i + 1]
      BY <1>8 DEF ListSpellsChain
    <3> QED
      BY <1>12, <3>1, <3>3, <3>4
  <2>2. next'[chain'[Last_]] = chain'[Last_ + 1]
    BY <1>5, <1>6, <1>9, <1>11
  <2>3. next'[chain'[Last_ + 1]] = NULL
    <3>1. Last_ \in f .. Last_
      BY <1>11
    <3> QED
      BY <1>5, <1>6, <1>9, <1>10, <1>12, <1>13, <3>1
  <2>4. \A i \in f .. Last_ : next'[chain'[i]] = chain'[i + 1]
    <3>1. \A i \in f .. Last_ : i \in f .. Last_ - 1 \/ i = Last_
      BY <1>11
    <3> QED
      BY <2>1, <2>2, <3>1
  <2>5. ASSUME NEW i \in Tail_ .. Len(pushed)
        PROVE  value'[chain'[i + 1]] = pushed'[i]
    <3>1. i + 1 \in f .. Last_ /\ i \in 1 .. Len(pushed)
      BY <1>11
    <3>2. value[chain[i + 1]] = pushed[i]
      BY <1>8 DEF ListSpellsChain
    <3> QED
      BY <1>5, <1>6, <1>12, <3>1, <3>2
  <2>6. value'[chain'[Last_ + 1]] = pushed'[Last_]
    BY <1>5, <1>6, <1>10, <1>11
  <2>7. \A i \in Tail_ .. Len(pushed) + 1 : value'[chain'[i + 1]] = pushed'[i]
    <3>1. \A i \in Tail_ .. Len(pushed) + 1 : i \in Tail_ .. Len(pushed) \/ i = Last_
      BY <1>11
    <3> QED
      BY <2>5, <2>6, <3>1
  <2>8. \A i \in 1 .. Len(popped) : popped'[i] = pushed'[i]
    <3>1. \A i \in 1 .. Len(popped) : popped[i] = pushed[i] /\ i \in 1 .. Len(pushed)
      BY <1>8, <1>11 DEF ListSpellsChain
    <3> QED
      BY <1>5, <1>6, <3>1
  <2>9. /\ f .. Last_' - 1 = f .. Last_ /\ Tail_' .. Len(pushed)' = Tail_ .. Len(pushed) + 1
        /\ 1 .. Len(popped)' = 1 .. Len(popped)
    BY <1>5, <1>6, <1>11
  <2> QED
    BY <1>5, <2>3, <2>4, <2>7, <2>8, <2>9 DEF ListSpellsChain
<1>16. PushUnderway(f)'
  <2>1. \A u \in Threads : pc'[u] \in {"fill", "link", "advance"} => u = t
    BY <1>6, <1>7
  <2>2. /\ Last_' > 1 /\ f < Last_' /\ head' = chain'[Last_' - 1] /\ node'[t] = chain'[Last_']
    BY <1>5, <1>6, <1>9, <1>11
  <2> QED
    BY <1>6, <2>1, <2>2 DEF PushUnderway
<1>17. PopUnderway'
  <2> SUFFICES ASSUME NEW u \in Threads
               PROVE  /\ pc'[u] \in {"read", "store"} => Tail_' < Last_' /\ node'[u] = chain'[Tail_' + 1]
                      /\ pc'[u] = "store" => local'[u] = pushed'[Tail_']
    BY DEF PopUnderway
  <2>1. CASE pc'[u] \in {"read", "store"}
    <3>1. pc'[u] = pc[u]
      BY <1>6, <2>1
    <3>2. Tail_ < Last_ /\ node[u] = chain[Tail_ + 1]
      BY <1>8, <2>1, <3>1 DEF PopUnderway
    <3>3. Tail_ + 1 \in 1 .. Last_ /\ Tail_ \in 1 .. Len(pushed)
      BY <1>11, <3>2
    <3> QED
      BY <1>5, <1>6, <1>8, <1>11, <3>1, <3>2, <3>3 DEF PopUnderway
  <2> QED
    BY <2>1
<1>18. NothingLost(f)'
  <2>1. {u \in Threads : pc'[u] \in {"fill", "link"}} = {}
    BY <1>6, <1>7
  <2>2. {u \in Threads : pc[u] \in {"fill", "link"}} = {t}
    BY <1>0, <1>7
  <2>3. {chain'[i] : i \in f .. Last_ + 1} = {chain[i] : i \in f .. Last_} \cup {node[t]}
    <3>1. f .. Last_ + 1 = f .. Last_ \cup {Last_ + 1}
      BY <1>11
    <3> QED
      BY <1>5, <1>12, <3>1, SMTT(30)
  <2>4. Linked(f)' = Linked(f) \cup {node[t]}
    BY <1>5, <2>3 DEF Linked
  <2>5. allocated = Linked(f) \cup {node[t]}
    BY <1>8, <2>2 DEF NothingLost
  <2>6. {node'[u] : u \in {w \in Threads : pc'[w] \in {"fill", "link"}}} = {}
    BY <2>1
  <2> QED
    BY <1>6, <2>4, <2>5, <2>6 DEF NothingLost
<1>19. f \in 1 .. Len(chain)' /\ c \in 1 .. Len(chain)'
  BY <1>2, <1>5, <1>11 DEF Last_
<1> QED
  BY <1>1, <1>3, <1>4, <1>14, <1>15, <1>16, <1>17, <1>18, <1>19 DEF IInv, ListInv

\* head = node catches head up with the list.
LEMMA AdvanceHeadStep ==
  ASSUME IInv, SingleEnds, NEW t \in Producers, AdvanceHead(t)
  PROVE  IInv'
<1>0. t \in Threads /\ pc[t] = "advance"
  BY DEF AdvanceHead, Threads
<1>1. alive
  BY <1>0, Busy
<1>2. PICK f \in 1 .. Len(chain), c \in 1 .. Len(chain) : ListInv(f, c)
  BY <1>0, Busy
<1> USE DEF AdvanceHead, Goto, memory, history
<1>3. TypeOK'
  BY <1>0 DEF IInv, TypeOK
<1>4. Roles'
  BY <1>0 DEF IInv, TypeOK, Roles
<1>5. \A u \in Threads : pc[u] \in {"fill", "link", "advance"} => u = t
  BY DEF IInv, Roles, SingleEnds
<1>6. ListInv(f, c)'
  <2> USE <1>0, <1>2 DEF IInv, TypeOK, ListInv
  <2>1. head' = chain[Last_]
    BY DEF PushUnderway
  <2>2. PointersOrdered(f, c)'
    BY <2>1 DEF PointersOrdered, Last_, Tail_
  <2>3. ListSpellsChain(f)'
    BY DEF ListSpellsChain, Last_, Tail_
  <2>4. PushUnderway(f)'
    BY <1>5 DEF PushUnderway
  <2>5. PopUnderway'
    BY DEF PopUnderway, Last_, Tail_
  <2>6. NothingLost(f)'
    <3>1. {u \in Threads : pc[u] \in {"fill", "link"}}' = {u \in Threads : pc[u] \in {"fill", "link"}}
      OBVIOUS
    <3> QED
      BY <3>1 DEF NothingLost, Linked, Last_
  <2> QED
    BY <2>2, <2>3, <2>4, <2>5, <2>6
<1> QED
  BY <1>1, <1>3, <1>4, <1>6 DEF IInv

\* createNode takes the first node of the list when it is a consumed one, or
\* a new one, or nothing: the list loses at most its first node.
LEMMA PushStep ==
  ASSUME IInv, SingleEnds, NEW t \in Producers, NEW v \in Values, Push(t, v)
  PROVE  IInv'
<1>0. t \in Threads /\ pc[t] = "idle" /\ alive /\ alive'
  BY DEF Push, Threads
<1>2. PICK f \in 1 .. Len(chain), c \in 1 .. Len(chain) : ListInv(f, c)
  BY <1>0 DEF IInv
<1>3. TypeOK
  BY DEF IInv
<1>4. PointersOrdered(f, c) /\ ListSpellsChain(f) /\ PushUnderway(f) /\ PopUnderway /\ NothingLost(f)
  BY <1>2 DEF ListInv
<1>5. /\ f \in Nat /\ c \in Nat /\ Tail_ \in Nat /\ Last_ \in Nat
      /\ 1 <= f /\ f <= c /\ c <= Tail_ /\ Tail_ <= Last_
      /\ Len(pushed) \in Nat /\ Last_ = Len(pushed) + 1
      /\ Len(popped) \in Nat /\ Tail_ = Len(popped) + 1
      /\ \A i \in 1 .. Last_ : chain[i] \in Nodes
  BY <1>2, <1>3, <1>4, Positions
<1>6. \A u \in Threads : u # t => pc[u] \notin {"fill", "link", "advance"}
  BY DEF IInv, Roles, SingleEnds
<1>7. /\ UNCHANGED <<alive, next, value, tail, head, chain, pushed, popped>>
      /\ local' = [local EXCEPT ![t] = v]
      /\ CreateNode(t)
      /\ Last_' = Last_ /\ Tail_' = Tail_
  BY DEF Push, history, Last_, Tail_
<1>8. PICK k \in 1 .. Len(chain) : f <= k /\ c <= k /\ k <= Tail_ /\ tailCopy' = chain[k]
  <2>1. CASE first # tailCopy
    BY <1>2, <1>4, <1>5, <1>7, <2>1 DEF CreateNode, PointersOrdered, Last_
  <2>2. CASE first = tailCopy
    BY <1>2, <1>4, <1>5, <1>7, <2>2 DEF CreateNode, PointersOrdered, Last_
  <2> QED
    BY <2>1, <2>2
<1>9. first = chain[f] /\ \A i, j \in f .. Last_ : chain[i] = chain[j] => i = j
  BY <1>4 DEF PointersOrdered
<1>10. {u \in Threads : pc[u] \in {"fill", "link"}} = {}
  BY <1>0, <1>6
<1>11. allocated = Linked(f)
  BY <1>4, <1>10 DEF NothingLost
<1>12. k \in Nat /\ head = chain[Last_] /\ first = chain[f] /\ tail = chain[Tail_]
  BY <1>0, <1>4, <1>6, <1>8 DEF PointersOrdered
<1>13. CASE first # tailCopy' /\ first' = next[first] /\ node' = [node EXCEPT ![t] = first]
            /\ pc' = [pc EXCEPT ![t] = "fill"] /\ allocated' = allocated
  <2>1. f < k /\ f + 1 \in 1 .. Len(chain) /\ f \in f .. Last_ - 1 /\ f + 1 <= Last_
    <3>1. f # k
      BY <1>8, <1>9, <1>13
    <3> QED
      BY <1>5, <1>8, <3>1 DEF Last_
  <2>2. first' = chain[f + 1] /\ first' \in Nodes
    <3>1. next[chain[f]] = chain[f + 1]
      BY <1>4, <2>1 DEF ListSpellsChain
    <3> QED
      BY <1>5, <1>9, <1>13, <2>1, <3>1
  <2>3. TypeOK'
    BY <1>0, <1>3, <1>5, <1>7, <1>8, <1>13, <2>2 DEF TypeOK, Last_
  <2>4. Roles'
    BY <1>0, <1>3, <1>13 DEF IInv, Roles, TypeOK
  <2>5. /\ pc'[t] = "fill" /\ node'[t] = chain[f]
        /\ \A u \in Threads : u # t => pc'[u] = pc[u] /\ node'[u] = node[u] /\ local'[u] = local[u]
    BY <1>0, <1>3, <1>7, <1>9, <1>13 DEF TypeOK
  <2>6. \A i \in f + 1 .. Last_ : i \in f .. Last_ /\ chain[i] # chain[f]
    BY <1>5, <1>9
  <2>7. PointersOrdered(f + 1, k)'
    BY <1>5, <1>7, <1>8, <1>9, <1>12, <2>1, <2>2, <2>6, SMTT(30) DEF PointersOrdered
  <2>8. ListSpellsChain(f + 1)'
    <3>1. \A i \in f .. Last_ - 1 : next[chain[i]] = chain[i + 1]
      BY <1>4 DEF ListSpellsChain
    <3>2. \A i \in f + 1 .. Last_ - 1 : next[chain[i]] = chain[i + 1]
      BY <1>5, <3>1
    <3> QED
      BY <1>4, <1>7, <3>2 DEF ListSpellsChain
  <2>9. Linked(f + 1)' = Linked(f) \ {chain[f]}
    <3>1. f .. Last_ = {f} \cup f + 1 .. Last_
      BY <1>5
    <3> QED
      BY <1>7, <2>6, <3>1 DEF Linked
  <2>10. PushUnderway(f + 1)'
    BY <1>6, <2>5, <2>9 DEF PushUnderway
  <2>11. PopUnderway'
    BY <1>4, <1>7, <2>5 DEF PopUnderway
  <2>12. NothingLost(f + 1)'
    <3>1. {u \in Threads : pc'[u] \in {"fill", "link"}} = {t}
      BY <1>0, <1>6, <2>5
    <3>2. {node'[u] : u \in {w \in Threads : pc'[w] \in {"fill", "link"}}} = {chain[f]}
      BY <3>1, <2>5
    <3>3. chain[f] \in Linked(f)
      BY <1>5 DEF Linked
    <3> QED
      BY <1>11, <1>13, <2>9, <3>2, <3>3 DEF NothingLost
  <2>13. f + 1 \in 1 .. Len(chain') /\ k \in 1 .. Len(chain')
    BY <1>7, <1>8, <2>1
  <2> QED
    BY <1>0, <2>3, <2>4, <2>7, <2>8, <2>10, <2>11, <2>12, <2>13 DEF IInv, ListInv
<1>14. CASE /\ first' = first /\ \E n \in Nodes \ allocated :
                 allocated' = allocated \cup {n} /\ node' = [node EXCEPT ![t] = n]
            /\ pc' = [pc EXCEPT ![t] = "fill"]
  <2>1. PICK n \in Nodes \ allocated : allocated' = allocated \cup {n} /\ node' = [node EXCEPT ![t] = n]
    BY <1>14
  <2>2. TypeOK'
    BY <1>0, <1>3, <1>5, <1>7, <1>8, <1>14, <2>1 DEF TypeOK, Last_
  <2>3. Roles'
    BY <1>0, <1>3, <1>14 DEF IInv, Roles, TypeOK
  <2>4. /\ pc'[t] = "fill" /\ node'[t] = n
        /\ \A u \in Threads : u # t => pc'[u] = pc[u] /\ node'[u] = node[u] /\ local'[u] = local[u]
    BY <1>0, <1>3, <1>7, <1>14, <2>1 DEF TypeOK
  <2>5. PointersOrdered(f, k)'
    BY <1>5, <1>7, <1>8, <1>9, <1>12, <1>14 DEF PointersOrdered
  <2>6. ListSpellsChain(f)'
    BY <1>4, <1>5, <1>7 DEF ListSpellsChain
  <2>7. Linked(f)' = Linked(f)
    BY <1>7 DEF Linked
  <2>8. PushUnderway(f)'
    BY <1>6, <1>11, <2>1, <2>4, <2>7 DEF PushUnderway
  <2>9. PopUnderway'
    BY <1>4, <1>7, <2>4 DEF PopUnderway
  <2>10. NothingLost(f)'
    <3>1. {u \in Threads : pc'[u] \in {"fill", "link"}} = {t}
      BY <1>0, <1>6, <2>4
    <3>2. {node'[u] : u \in {w \in Threads : pc'[w] \in {"fill", "link"}}} = {n}
      BY <3>1, <2>4
    <3> QED
      BY <1>11, <2>1, <2>7, <3>2 DEF NothingLost
  <2>11. f \in 1 .. Len(chain') /\ k \in 1 .. Len(chain')
    BY <1>2, <1>7, <1>8
  <2> QED
    BY <1>0, <2>2, <2>3, <2>5, <2>6, <2>8, <2>9, <2>10, <2>11 DEF IInv, ListInv
<1>15. CASE UNCHANGED <<allocated, first, node, pc>>
  <2>1. TypeOK'
    BY <1>0, <1>3, <1>5, <1>7, <1>8, <1>15 DEF TypeOK, Last_
  <2>2. Roles'
    BY <1>15 DEF IInv, Roles
  <2>3. \A u \in Threads : u # t => local'[u] = local[u]
    BY <1>0, <1>3, <1>7 DEF TypeOK
  <2>4. PointersOrdered(f, k)'
    BY <1>5, <1>7, <1>8, <1>9, <1>12, <1>15 DEF PointersOrdered
  <2>5. ListSpellsChain(f)'
    BY <1>4, <1>5, <1>7 DEF ListSpellsChain
  <2>6. Linked(f)' = Linked(f)
    BY <1>7 DEF Linked
  <2>7. PushUnderway(f)'
    BY <1>0, <1>6, <1>15 DEF PushUnderway
  <2>8. PopUnderway'
    BY <1>0, <1>4, <1>7, <1>15, <2>3 DEF PopUnderway
  <2>9. NothingLost(f)'
    BY <1>4, <1>15, <2>6 DEF NothingLost
  <2>10. f \in 1 .. Len(chain') /\ k \in 1 .. Len(chain')
    BY <1>2, <1>7, <1>8
  <2> QED
    BY <1>0, <2>1, <2>2, <2>4, <2>5, <2>7, <2>8, <2>9, <2>10 DEF IInv, ListInv
<1> QED
  BY <1>7, <1>13, <1>14, <1>15 DEF CreateNode, Goto

-----------------------------------------------------------------------------
\* The consumer's loads change only what the consumer knows.
LEMMA LoadNextStep ==
  ASSUME IInv, SingleEnds, NEW t \in Consumers, LoadNext(t)
  PROVE  IInv'
<1>0. t \in Threads /\ pc[t] = "idle" /\ alive
  BY DEF LoadNext, Threads
<1>1. PICK f \in 1 .. Len(chain), c \in 1 .. Len(chain) : ListInv(f, c)
  BY <1>0 DEF IInv
<1>5. /\ f \in Nat /\ Tail_ \in Nat /\ Last_ \in Nat /\ f <= Tail_ /\ Tail_ <= Last_
  BY <1>1, Positions DEF ListInv, IInv
<1> USE DEF LoadNext, Goto, memory, pointers, history
<1>2. TypeOK'
  BY <1>0 DEF IInv, TypeOK
<1>3. Roles'
  BY <1>0 DEF IInv, TypeOK, Roles
<1>4. ListInv(f, c)'
  <2> USE <1>0, <1>1 DEF IInv, TypeOK, ListInv
  <2>1. PointersOrdered(f, c)'
    BY DEF PointersOrdered, Last_, Tail_
  <2>2. ListSpellsChain(f)'
    BY DEF ListSpellsChain, Last_, Tail_
  <2>3. PushUnderway(f)'
    BY DEF PushUnderway, Linked, Last_
  <2>4. Tail_ < Last_ /\ next[tail] = chain[Tail_ + 1]
    <3>2. Tail_ # Last_
      BY DEF PointersOrdered, ListSpellsChain
    <3>3. Tail_ \in f .. Last_ - 1
      BY <1>5, <3>2
    <3>4. next[chain[Tail_]] = chain[Tail_ + 1]
      BY <3>3 DEF ListSpellsChain
    <3> QED
      BY <3>3, <3>4, <1>5 DEF PointersOrdered
  <2>5. PopUnderway'
    BY <2>4 DEF PopUnderway, Last_, Tail_
  <2>6. NothingLost(f)'
    <3>1. /\ {u \in Threads : pc'[u] \in {"fill", "link"}} = {u \in Threads : pc[u] \in {"fill", "link"}}
          /\ \A u \in {w \in Threads : pc[w] \in {"fill", "link"}} : node'[u] = node[u]
      OBVIOUS
    <3>2. {node'[u] : u \in {w \in Threads : pc'[w] \in {"fill", "link"}}}
            = {node[u] : u \in {w \in Threads : pc[w] \in {"fill", "link"}}}
      BY <3>1
    <3> QED
      BY <3>2 DEF NothingLost, Linked, Last_
  <2> QED
    BY <2>1, <2>2, <2>3, <2>5, <2>6
<1> QED
  BY <1>0, <1>2, <1>3, <1>4 DEF IInv

\* The value read is the value of the oldest unread push.
LEMMA ReadValueStep ==
  ASSUME IInv, SingleEnds, NEW t \in Consumers, ReadValue(t)
  PROVE  IInv'
<1>0. t \in Threads /\ pc[t] = "read"
  BY DEF ReadValue, Threads
<1>1. alive /\ alive'
  BY <1>0, Busy DEF ReadValue
<1>2. PICK f \in 1 .. Len(chain), c \in 1 .. Len(chain) : ListInv(f, c)
  BY <1>0, Busy
<1>6. /\ Tail_ \in Nat /\ Last_ \in Nat /\ Len(pushed) \in Nat /\ Last_ = Len(pushed) + 1
  BY <1>2, Positions DEF ListInv, IInv
<1> USE DEF ReadValue, Goto, memory, pointers, history
<1>3. TypeOK'
  BY <1>0 DEF IInv, TypeOK
<1>4. Roles'
  BY <1>0 DEF IInv, TypeOK, Roles
<1>5. ListInv(f, c)'
  <2> USE <1>0, <1>2 DEF IInv, TypeOK, ListInv
  <2>1. PointersOrdered(f, c)'
    BY DEF PointersOrdered, Last_, Tail_
  <2>2. ListSpellsChain(f)'
    BY DEF ListSpellsChain, Last_, Tail_
  <2>3. PushUnderway(f)'
    BY DEF PushUnderway, Linked, Last_
  <2>4. value[node[t]] = pushed[Tail_]
    <3>2. Tail_ < Last_ /\ node[t] = chain[Tail_ + 1]
      BY DEF PopUnderway
    <3> QED
      BY <1>6, <3>2 DEF ListSpellsChain
  <2>5. PopUnderway'
    BY <2>4 DEF PopUnderway, Last_, Tail_
  <2>6. NothingLost(f)'
    <3>1. {u \in Threads : pc[u] \in {"fill", "link"}}' = {u \in Threads : pc[u] \in {"fill", "link"}}
      OBVIOUS
    <3> QED
      BY <3>1 DEF NothingLost, Linked, Last_
  <2> QED
    BY <2>1, <2>2, <2>3, <2>5, <2>6
<1> QED
  BY <1>1, <1>3, <1>4, <1>5 DEF IInv

\* tail moves one node on, and what is returned is the next value pushed.
LEMMA StoreTailStep ==
  ASSUME IInv, SingleEnds, NEW t \in Consumers, StoreTail(t)
  PROVE  IInv'
<1>0. t \in Threads /\ pc[t] = "store"
  BY DEF StoreTail, Threads
<1>1. alive /\ alive'
  BY <1>0, Busy DEF StoreTail
<1>2. PICK f \in 1 .. Len(chain), c \in 1 .. Len(chain) : ListInv(f, c)
  BY <1>0, Busy
<1>3. TypeOK /\ TypeOK'
  BY <1>0, AppendProperties DEF IInv, TypeOK, StoreTail, Goto, memory
<1>4. Roles'
  BY <1>0 DEF IInv, TypeOK, Roles, StoreTail, Goto
<1>5. PointersOrdered(f, c) /\ ListSpellsChain(f) /\ PushUnderway(f) /\ PopUnderway /\ NothingLost(f)
  BY <1>2 DEF ListInv
<1>6. /\ f \in Nat /\ c \in Nat /\ Tail_ \in Nat /\ Last_ \in Nat
      /\ 1 <= f /\ f <= c /\ c <= Tail_ /\ Tail_ <= Last_
      /\ Len(pushed) \in Nat /\ Last_ = Len(pushed) + 1
      /\ Len(popped) \in Nat /\ Tail_ = Len(popped) + 1
  BY <1>2, <1>3, <1>5, Positions
<1>7. Tail_ < Last_ /\ node[t] = chain[Tail_ + 1] /\ local[t] = pushed[Tail_]
  BY <1>0, <1>5 DEF PopUnderway
<1>8. /\ UNCHANGED <<alive, allocated, next, value, head, first, tailCopy, node, local, chain, pushed>>
      /\ tail' = chain[Tail_ + 1] /\ Last_' = Last_
      /\ pc'[t] = "idle" /\ \A u \in Threads : u # t => pc'[u] = pc[u]
  BY <1>0, <1>3, <1>7 DEF StoreTail, Goto, memory, TypeOK, Last_
<1>9. /\ Tail_' = Tail_ + 1 /\ Len(popped') = Len(popped) + 1
      /\ \A i \in 1 .. Len(popped) : popped'[i] = popped[i]
      /\ popped'[Tail_] = pushed[Tail_]
  BY <1>0, <1>3, <1>6, <1>7, AppendProperties, SMTT(30) DEF StoreTail, Tail_, TypeOK
<1>10. \A u \in Threads : u # t => pc[u] \notin {"read", "store"}
  BY <1>0 DEF IInv, Roles, SingleEnds
<1>11. PointersOrdered(f, c)'
  BY <1>0, <1>5, <1>6, <1>7, <1>8, <1>9, SMTT(30) DEF PointersOrdered
<1>12. ListSpellsChain(f)'
  <2>1. \A i \in Tail_ + 1 .. Len(pushed) : value[chain[i + 1]] = pushed[i]
    <3>1. \A i \in Tail_ .. Len(pushed) : value[chain[i + 1]] = pushed[i]
      BY <1>5 DEF ListSpellsChain
    <3>2. \A i \in Tail_ + 1 .. Len(pushed) : i \in Tail_ .. Len(pushed)
      BY <1>6
    <3> QED
      BY <3>1, <3>2
  <2>2. \A i \in 1 .. Len(popped) + 1 : popped'[i] = pushed[i]
    <3>1. \A i \in 1 .. Len(popped) : popped[i] = pushed[i]
      BY <1>5 DEF ListSpellsChain
    <3>2. popped'[Len(popped) + 1] = pushed[Len(popped) + 1]
      BY <1>6, <1>9
    <3>3. Len(popped) \in Nat /\ \A i \in 1 .. Len(popped) : popped'[i] = popped[i]
      BY <1>6, <1>9
    <3> QED
      BY <3>1, <3>2, <3>3
  <2>3. pushed' = pushed /\ next' = next /\ value' = value /\ chain' = chain
    BY <1>8
  <2>4. /\ \A i \in f .. Last_ - 1 : next[chain[i]] = chain[i + 1]
        /\ next[chain[Last_]] = NULL
    BY <1>5 DEF ListSpellsChain
  <2>5. /\ (\A i \in f .. Last_ - 1 : next[chain[i]] = chain[i + 1])'
        /\ (next[chain[Last_]] = NULL)'
    <3>1. Last_' = Last_
      BY <1>8
    <3> HIDE DEF Last_
    <3> QED
      BY <2>3, <2>4, <3>1
  <2>6. (\A i \in Tail_ .. Len(pushed) : value[chain[i + 1]] = pushed[i])'
    BY <1>9, <2>1, <2>3
  <2>7. (\A i \in 1 .. Len(popped) : popped[i] = pushed[i])'
    BY <1>9, <2>2, <2>3
  <2> QED
    BY <2>5, <2>6, <2>7 DEF ListSpellsChain
<1>13. PushUnderway(f)'
  BY <1>5, <1>8 DEF PushUnderway, Linked
<1>14. PopUnderway'
  BY <1>8, <1>10 DEF PopUnderway
<1>15. NothingLost(f)'
  <2>1. {u \in Threads : pc'[u] \in {"fill", "link"}} = {u \in Threads : pc[u] \in {"fill", "link"}}
    BY <1>0, <1>8
  <2> QED
    BY <1>5, <1>8, <2>1 DEF NothingLost, Linked
<1> QED
  BY <1>1, <1>2, <1>3, <1>4, <1>8, <1>11, <1>12, <1>13, <1>14, <1>15 DEF IInv, ListInv

-----------------------------------------------------------------------------
\* init on a fresh node starts a new life of the queue.
LEMMA OpenStep ==
  ASSUME IInv, NEW n \in Nodes, Open(n)
  PROVE  IInv'
<1>1. Idle /\ allocated = {} /\ TypeOK
  BY DEF IInv, Open
<1>2. TypeOK'
  BY <1>1 DEF Open, TypeOK, locals
<1>3. Roles'
  BY DEF IInv, Roles, Open, locals
<1>4. /\ alive' /\ allocated' = {n} /\ next'[n] = NULL /\ tail' = n /\ head' = n /\ first' = n /\ tailCopy' = n
      /\ Len(chain') = 1 /\ Len(pushed') = 0 /\ Len(popped') = 0 /\ chain'[1] = n
      /\ \A t \in Threads : pc'[t] = "idle"
  BY <1>1 DEF Open, locals, Idle, TypeOK
<1>5. Linked(1)' = {n}
  BY <1>4 DEF Linked, Last_
<1>6. PointersOrdered(1, 1)'
  BY <1>4 DEF PointersOrdered, Last_, Tail_
<1>7. ListSpellsChain(1)'
  BY <1>4 DEF ListSpellsChain, Last_, Tail_
<1>8. PushUnderway(1)' /\ PopUnderway'
  BY <1>4 DEF PushUnderway, PopUnderway
<1>9. NothingLost(1)'
  <2>1. {u \in Threads : pc'[u] \in {"fill", "link"}} = {}
    BY <1>4
  <2> QED
    BY <1>4, <1>5, <2>1 DEF NothingLost
<1> QED
  BY <1>2, <1>3, <1>4, <1>6, <1>7, <1>8, <1>9 DEF IInv, ListInv

\* Every node of the list is reached from first_ by following next.
LEMMA ListIsReached ==
  ASSUME TypeOK, NEW f \in 1 .. Len(chain), NEW c \in 1 .. Len(chain),
         PointersOrdered(f, c), ListSpellsChain(f)
  PROVE  Linked(f) \subseteq Reach
<1>1. /\ f \in Nat /\ Last_ \in Nat /\ 1 <= f /\ f <= Last_
      /\ \A i \in 1 .. Last_ : chain[i] \in Nodes
  BY Positions
<1>2. SUFFICES ASSUME NEW S \in SUBSET Nodes, first \in S,
                      \A m \in S : next[m] # NULL => next[m] \in S,
                      {i \in f .. Last_ : chain[i] \notin S} # {}
               PROVE  FALSE
  <2>1. \A i \in f .. Last_ : chain[i] \in Nodes
    BY <1>1
  <2> QED
    BY <2>1 DEF Reach, Linked
<1> DEFINE Missed == {i \in f .. Last_ : chain[i] \notin S}
<1>3. PICK i \in Missed : \A j \in Missed : i <= j
  <2>1. Missed \in SUBSET Nat
    BY <1>1
  <2> HIDE DEF Missed
  <2> QED
    BY <1>2, <2>1, LeastNumber DEF Missed
<1>4. i # f
  BY <1>2, <1>3 DEF PointersOrdered
<1>5. i - 1 \in f .. Last_ - 1 /\ i - 1 \in f .. Last_ /\ i - 1 < i /\ (i - 1) + 1 = i
  BY <1>1, <1>3, <1>4
<1>6. chain[i - 1] \in S
  BY <1>3, <1>5
<1>7. next[chain[i - 1]] = chain[i]
  BY <1>5 DEF ListSpellsChain
<1>8. chain[i] \in Nodes
  BY <1>1, <1>3
<1> QED
  BY <1>2, <1>3, <1>6, <1>7, <1>8, SpscAssumption

\* The list invariant says that what was popped is a prefix of what was pushed.
LEMMA ListGivesPrefix ==
  ASSUME TypeOK, NEW f \in 1 .. Len(chain), NEW c \in 1 .. Len(chain), ListInv(f, c)
  PROVE  PoppedIsPrefix
<1>1. Len(popped) \in Nat /\ Len(pushed) \in Nat /\ Len(popped) <= Len(pushed)
  BY Positions DEF ListInv
<1>2. \A i \in 1 .. Len(popped) : popped[i] = pushed[i] /\ pushed[i] \in Values
  <2>1. \A i \in 1 .. Len(pushed) : pushed[i] \in Values
    BY DEF TypeOK
  <2>2. \A i \in 1 .. Len(popped) : i \in 1 .. Len(pushed)
    BY <1>1
  <2> QED
    BY <2>1, <2>2 DEF ListInv, ListSpellsChain
<1>3. /\ SubSeq(pushed, 1, Len(popped)) \in Seq(Values)
      /\ Len(SubSeq(pushed, 1, Len(popped))) = Len(popped)
      /\ \A i \in 1 .. Len(popped) : SubSeq(pushed, 1, Len(popped))[i] = pushed[i]
  BY <1>1, <1>2, SubSeqProperties DEF TypeOK
<1>4. popped = SubSeq(pushed, 1, Len(popped))
  BY <1>2, <1>3, SeqEqual DEF TypeOK
<1> QED
  BY <1>1, <1>4 DEF PoppedIsPrefix

\* deinit leaves nothing allocated.
LEMMA CloseStep ==
  ASSUME IInv, Close
  PROVE  IInv'
<1>1. alive /\ ~alive' /\ Idle /\ TypeOK /\ Roles
  BY DEF Close, IInv
<1>2. PICK f \in 1 .. Len(chain), c \in 1 .. Len(chain) : ListInv(f, c)
  BY <1>1 DEF IInv
<1>3. allocated = Linked(f)
  <2>1. {u \in Threads : pc[u] \in {"fill", "link"}} = {}
    BY <1>1 DEF Idle
  <2> QED
    BY <1>2, <2>1 DEF ListInv, NothingLost
<1>4. allocated' = {}
  BY <1>1, <1>2, <1>3, ListIsReached DEF Close, ListInv
<1>5. TypeOK'
  BY <1>1, <1>4 DEF TypeOK, Close, pointers, locals, history
<1>6. Roles' /\ Idle'
  BY <1>1 DEF Roles, Idle, Close, locals
<1>7. PoppedIsPrefix'
  BY <1>1, <1>2, ListGivesPrefix DEF PoppedIsPrefix, Close, history
<1> QED
  BY <1>1, <1>4, <1>5, <1>6, <1>7 DEF IInv

LEMMA NextIInv ==
  ASSUME IInv, SingleEnds, [Next]_vars
  PROVE  IInv'
<1>1. CASE \E t \in Producers, v \in Values : Push(t, v)
  BY <1>1, PushStep
<1>2. CASE \E t \in Producers : Produce(t)
  BY <1>2, FillNodeStep, LinkNodeStep, AdvanceHeadStep DEF Produce
<1>3. CASE \E t \in Consumers : Consume(t)
  BY <1>3, LoadNextStep, ReadValueStep, StoreTailStep DEF Consume
<1>4. CASE Close
  BY <1>4, CloseStep
<1>5. CASE \E n \in Nodes : Open(n)
  BY <1>5, OpenStep
<1>6. CASE UNCHANGED vars
  <2> USE <1>6 DEF vars, memory, pointers, locals, history
  <2>1. /\ TypeOK' <=> TypeOK
        /\ Roles' <=> Roles
        /\ (Idle /\ PoppedIsPrefix)' <=> (Idle /\ PoppedIsPrefix)
    BY DEF TypeOK, Roles, Idle, PoppedIsPrefix
  <2>2. ASSUME NEW f, NEW c
        PROVE  ListInv(f, c)' <=> ListInv(f, c)
    BY DEF ListInv, PointersOrdered, ListSpellsChain, PushUnderway, PopUnderway,
           NothingLost, Linked, Last_, Tail_
  <2> QED
    BY <2>1, <2>2 DEF IInv
<1> QED
  BY <1>1, <1>2, <1>3, <1>4, <1>5, <1>6 DEF Next

\* With one producer and one consumer the queue keeps its list invariant.
THEOREM ListInvariance == SingleEnds => (Spec => []IInv)
<1> SUFFICES ASSUME SingleEnds PROVE Spec => []IInv
  OBVIOUS
<1>1. IInv /\ [Next]_vars => IInv'
  BY NextIInv
<1> QED
  BY <1>1, InitIInv, PTL DEF Spec

\* Every variable keeps its type: in particular createNode never finds the
\* null pointer where it expects a consumed node to be followed by another.
THEOREM TypeCorrectness == SingleEnds => (Spec => []TypeOK)
<1>1. IInv => TypeOK
  BY DEF IInv
<1> QED
  BY <1>1, ListInvariance, PTL

\* pop returns what was pushed, in that order, nothing lost or repeated.
THEOREM FirstInFirstOut == SingleEnds => (Spec => []PoppedIsPrefix)
<1>1. IInv => PoppedIsPrefix
  BY ListGivesPrefix DEF IInv
<1> QED
  BY <1>1, ListInvariance, PTL

\* createNode never hands out a node the consumer can still reach.
THEOREM ReuseIsSafe == SingleEnds => (Spec => []NoOverwrite)
<1>1. ASSUME IInv PROVE NoOverwrite
  <2> SUFFICES ASSUME NEW t \in Threads, pc[t] \in {"fill", "link"}
               PROVE  /\ node[t] \notin {tail, head}
                      /\ \A c \in Threads : pc[c] \in {"read", "store"} => node[c] # node[t]
                      /\ \A i \in Len(popped) + 1 .. Len(chain) : chain[i] # node[t]
    BY DEF NoOverwrite
  <2>1. PICK f \in 1 .. Len(chain), c \in 1 .. Len(chain) : ListInv(f, c)
    BY <1>1, Busy
  <2>2. /\ f \in Nat /\ Tail_ \in Nat /\ Last_ \in Nat /\ f <= Tail_ /\ Tail_ <= Last_
        /\ Tail_ = Len(popped) + 1 /\ Last_ = Len(chain)
    BY <1>1, <2>1, Positions DEF ListInv, IInv, Last_
  <2>3. \A i \in f .. Last_ : chain[i] # node[t]
    BY <2>1 DEF ListInv, PushUnderway, Linked
  <2>5. tail = chain[Tail_] /\ (head = chain[Last_] \/ (f < Last_ /\ head = chain[Last_ - 1]))
    <3>1. tail = chain[Tail_] /\ ((\A u \in Threads : pc[u] # "advance") => head = chain[Last_])
      BY <2>1 DEF ListInv, PointersOrdered
    <3>2. ASSUME NEW u \in Threads, pc[u] = "advance"
          PROVE  f < Last_ /\ head = chain[Last_ - 1]
      BY <2>1, <3>2 DEF ListInv, PushUnderway
    <3> QED
      BY <3>1, <3>2
  <2>6. ASSUME NEW u \in Threads, pc[u] \in {"read", "store"}
        PROVE  node[u] # node[t]
    BY <2>1, <2>2, <2>3, <2>6 DEF ListInv, PopUnderway
  <2> QED
    BY <2>2, <2>3, <2>5, <2>6
<1> QED
  BY <1>1, ListInvariance, PTL

\* deinit frees every node that init and push allocated.
THEOREM NothingLeaks == SingleEnds => (Spec => []NoLeak)
<1>1. IInv => NoLeak
  BY DEF IInv, NoLeak
<1> QED
  BY <1>1, ListInvariance, PTL

-----------------------------------------------------------------------------
\* Appending to a sequence appends to each of its suffixes.
LEMMA SuffixAppend ==
  ASSUME NEW S, NEW s \in Seq(S), NEW e \in S, NEW m \in 1 .. Len(s) + 1
  PROVE  SubSeq(Append(s, e), m, Len(s) + 1) = Append(SubSeq(s, m, Len(s)), e)
<1> DEFINE long == SubSeq(Append(s, e), m, Len(s) + 1)
           short == SubSeq(s, m, Len(s))
<1>1. Len(s) \in Nat /\ m \in Int /\ 1 <= m /\ m <= Len(s) + 1
  OBVIOUS
<1>2. \A i \in 1 .. Len(s) : s[i] \in S
  OBVIOUS
<1>3. /\ Append(s, e) \in Seq(S)
      /\ \A i \in 1 .. Len(s) : Append(s, e)[i] = s[i]
      /\ Append(s, e)[Len(s) + 1] = e
  BY AppendProperties
<1>4. \A i \in m .. Len(s) + 1 : Append(s, e)[i] \in S
  BY <1>1, <1>2, <1>3
<1>5. /\ long \in Seq(S) /\ Len(long) = Len(s) + 2 - m
      /\ \A i \in 1 .. Len(s) + 2 - m : long[i] = Append(s, e)[m + i - 1]
  BY <1>1, <1>4, SubSeqProperties
<1>6. /\ short \in Seq(S) /\ Len(short) = Len(s) + 1 - m
      /\ \A i \in 1 .. Len(s) + 1 - m : short[i] = s[m + i - 1]
  <2>1. \A i \in m .. Len(s) : s[i] \in S
    BY <1>1, <1>2
  <2>2. (IF m <= Len(s) THEN Len(s) - m + 1 ELSE 0) = Len(s) + 1 - m /\ Len(s) - m + 1 = Len(s) + 1 - m
    BY <1>1
  <2> QED
    BY <1>1, <2>1, <2>2, SubSeqProperties
<1> HIDE DEF long, short
<1>7. /\ Append(short, e) \in Seq(S) /\ Len(Append(short, e)) = Len(short) + 1
      /\ \A i \in 1 .. Len(short) : Append(short, e)[i] = short[i]
      /\ Append(short, e)[Len(short) + 1] = e
  <2>1. short \in Seq(S)
    BY <1>6
  <2> QED
    BY <2>1, AppendProperties
<1>10. Len(Append(short, e)) = Len(long)
  BY <1>1, <1>5, <1>6, <1>7
<1>8. ASSUME NEW i \in 1 .. Len(long)
      PROVE  long[i] = Append(short, e)[i]
  <2>1. CASE i = Len(short) + 1
    <3>1. m + i - 1 = Len(s) + 1 /\ i \in 1 .. Len(s) + 2 - m
      BY <1>1, <1>6, <2>1
    <3> QED
      BY <1>3, <1>5, <1>7, <2>1, <3>1
  <2>2. CASE i # Len(short) + 1
    <3>1. i \in 1 .. Len(short) /\ m + i - 1 \in 1 .. Len(s) /\ i \in 1 .. Len(s) + 2 - m
      <4>1. i \in Int /\ 1 <= i /\ i <= Len(s) + 2 - m /\ i # Len(s) + 1 - m + 1
        BY <1>1, <1>5, <1>6, <2>2
      <4>2. Len(short) = Len(s) + 1 - m
        BY <1>6
      <4>3. i \in 1 .. Len(short)
        BY <1>1, <4>1, <4>2
      <4>4. m + i - 1 \in 1 .. Len(s)
        BY <1>1, <4>1
      <4> QED
        BY <1>1, <4>1, <4>3, <4>4
    <3> QED
      BY <1>3, <1>5, <1>6, <1>7, <3>1
  <2> QED
    BY <2>1, <2>2
<1>9. long = Append(short, e)
  BY <1>5, <1>7, <1>8, <1>10, SeqEqual
<1> QED
  BY <1>9 DEF long, short

\* Every step of the list is a step of the queue it stands for: linking is
\* the push, storing tail is the pop, opening empties the queue, and every
\* other step changes nothing that a user of the queue can see.
LEMMA StepRefines ==
  ASSUME IInv, SingleEnds, [Next]_vars
  PROVE  [Abstract!FifoNext]_(Abstract!fifoVars)
<1> USE DEF Abstract!FifoNext, Abstract!fifoVars
<1>1. ASSUME UNCHANGED <<pushed, popped>>
      PROVE  UNCHANGED Abstract!fifoVars
  BY <1>1 DEF QueueContents
<1>2. ASSUME NEW t \in Producers, LinkNode(t)
      PROVE  Abstract!FifoNext
  <2>1. t \in Threads /\ pc[t] = "link"
    BY <1>2 DEF LinkNode, Threads
  <2>2. PICK f \in 1 .. Len(chain), c \in 1 .. Len(chain) : ListInv(f, c)
    BY <2>1, Busy
  <2>3. /\ Len(popped) \in Nat /\ Len(pushed) \in Nat /\ Len(popped) <= Len(pushed)
    BY <2>2, Positions DEF ListInv, IInv
  <2>4. /\ pushed \in Seq(Values) /\ local[t] \in Values
        /\ pushed' = Append(pushed, local[t]) /\ popped' = popped
    BY <1>2, <2>1 DEF LinkNode, IInv, TypeOK
  <2>5. Len(pushed') = Len(pushed) + 1 /\ Len(popped) + 1 \in 1 .. Len(pushed) + 1
    BY <2>3, <2>4, AppendProperties
  <2>6. QueueContents' = Append(QueueContents, local[t])
    BY <2>4, <2>5, SuffixAppend DEF QueueContents
  <2> QED
    BY <2>4, <2>6 DEF Abstract!PushValue
<1>3. ASSUME NEW t \in Consumers, StoreTail(t)
      PROVE  Abstract!FifoNext
  <2>1. t \in Threads /\ pc[t] = "store"
    BY <1>3 DEF StoreTail, Threads
  <2>2. PICK f \in 1 .. Len(chain), c \in 1 .. Len(chain) : ListInv(f, c)
    BY <2>1, Busy
  <2>3. /\ Len(popped) \in Nat /\ Len(pushed) \in Nat /\ Last_ = Len(pushed) + 1
        /\ Tail_ = Len(popped) + 1
    BY <2>2, Positions DEF ListInv, IInv
  <2>4. Tail_ < Last_ /\ local[t] = pushed[Tail_]
    BY <2>1, <2>2 DEF ListInv, PopUnderway
  <2>5. /\ pushed \in Seq(Values) /\ popped \in Seq(Values) /\ local[t] \in Values
        /\ popped' = Append(popped, local[t]) /\ pushed' = pushed
    BY <1>3, <2>1 DEF StoreTail, IInv, TypeOK
  <2>6. Len(popped') = Len(popped) + 1
    BY <2>5, AppendProperties
  <2>7. Len(popped) + 1 \in 1 .. Len(pushed) /\ Len(pushed) \in Len(popped) + 1 .. Len(pushed)
    BY <2>3, <2>4
  <2>8. Head(QueueContents) = local[t] /\ Tail(QueueContents) = QueueContents'
    BY <2>3, <2>4, <2>5, <2>6, <2>7, HeadTailOfSubSeq DEF QueueContents
  <2>9. QueueContents # <<>>
    <3>1. \A i \in Len(popped) + 1 .. Len(pushed) : pushed[i] \in Values
      BY <2>3, <2>5
    <3>2. Len(QueueContents) = Len(pushed) - (Len(popped) + 1) + 1
      BY <2>3, <2>7, <3>1, SubSeqProperties DEF QueueContents
    <3>3. Len(QueueContents) # 0
      BY <2>3, <2>7, <3>2
    <3> QED
      BY <3>3
  <2> QED
    BY <2>5, <2>8, <2>9 DEF Abstract!PopValue
<1>4. ASSUME NEW n \in Nodes, Open(n)
      PROVE  Abstract!FifoNext
  <2>1. popped' = <<>> /\ QueueContents' = <<>>
    BY <1>4, SubSeqEmpty DEF Open, QueueContents
  <2> QED
    BY <2>1 DEF Abstract!Reopen
<1>5. ASSUME NEW t \in Threads, FillNode(t) \/ AdvanceHead(t) \/ LoadNext(t) \/ ReadValue(t)
      PROVE  UNCHANGED <<pushed, popped>>
  BY <1>5 DEF FillNode, AdvanceHead, LoadNext, ReadValue, history
<1>6. ASSUME (\E t \in Producers, v \in Values : Push(t, v)) \/ Close \/ UNCHANGED vars
      PROVE  UNCHANGED <<pushed, popped>>
  BY <1>6 DEF Push, Close, vars, history
<1> QED
  BY <1>1, <1>2, <1>3, <1>4, <1>5, <1>6 DEF Next, Produce, Consume, Threads

\* The lock-free list implements the queue of module Fifo.
THEOREM QueueRefinement == SingleEnds => (Spec => ImplementsFifo)
<1> SUFFICES ASSUME SingleEnds PROVE Spec => ImplementsFifo
  OBVIOUS
<1>1. Init => Abstract!FifoInit
  <2> SUFFICES ASSUME Init PROVE Abstract!FifoInit
    OBVIOUS
  <2>1. pushed = <<>> /\ popped = <<>>
    BY DEF Init
  <2>2. QueueContents = <<>>
    BY <2>1, SubSeqEmpty DEF QueueContents
  <2> QED
    BY <2>1, <2>2 DEF Abstract!FifoInit
<1>2. IInv /\ [Next]_vars => [Abstract!FifoNext]_(Abstract!fifoVars)
  BY StepRefines
<1> QED
  BY <1>1, <1>2, ListInvariance, PTL DEF Spec, ImplementsFifo, Abstract!FifoSpec

-----------------------------------------------------------------------------
(***************************************************************************)
(* The map editor.  Its invariant says what each part of the drawing has   *)
(* to do with the others (Sound) and, while no command outlived its map,   *)
(* that each command leads from one past content of the map to the next    *)
(* (Recorded).                                                             *)
(***************************************************************************)

\* What is drawn: tiles, entities, the last id given out, the ids of the
\* preview and the number of the map.
Typed(ts, es, last, shown) ==
  /\ ts \in [DOMAIN ts -> Tile] /\ es \subseteq Entity
  /\ last \in Id /\ shown \subseteq 0..last
  /\ \A i \in DOMAIN ts : ts[i].object = NoObject => ts[i].id \in {-1, ErasedId}

\* Who has an id from the counter, and who has the player's.
Numbered(es, last, map) ==
  \A e \in es :
    /\ e.map <= map
    /\ e.kind = "player" => e.id = PlayerId
    /\ e.kind # "player" => e.id \in 0..last

Distinct(es) == \A e, f \in es : e.id = f.id /\ e.kind # "player" => e = f

Drawn(es, i, map) == {e \in es : e.kind = "object" /\ e.tile = i /\ e.map = map}
Tracks(ts, es, map) ==
  \A i \in DOMAIN ts :
    /\ ts[i].object = NoObject => Drawn(es, i, map) = {}
    /\ ts[i].object # NoObject => \E e \in es : Drawn(es, i, map) = {e} /\ e.id = ts[i].id

Shows(es, shown, forgot) ==
  /\ \A e \in es : e.id \in shown => e.kind = "ghost"
  /\ ~forgot => /\ \A e \in es : e.kind = "ghost" => e.id \in shown
                /\ \A n \in shown : \E e \in es : e.id = n

Sound(ts, es, last, shown, map, forgot) ==
  /\ Typed(ts, es, last, shown) /\ Numbered(es, last, map)
  /\ last < PlayerId => Distinct(es) /\ Tracks(ts, es, map) /\ Shows(es, shown, forgot)

Content == (Grounds \cup {Void}) \X (Objects \cup {NoObject})

\* The contents after one tile has been given a type.
Painted(p, i, layer, type) ==
  [p EXCEPT ![i] = IF layer = "ground" THEN <<type, p[i][2]>> ELSE <<p[i][1], type>>]

\* The tile of a command on the map that was created.
TileOf(c) == c.at[2] * side + c.at[1]
LayerOf(content, layer) == IF layer = "ground" THEN content[1] ELSE content[2]

\* Every command leads from one of the past contents to the next.
Recorded ==
  /\ position <= Len(commands)
  /\ past \in Seq([DOMAIN tiles -> Content]) /\ Len(past) = Len(commands) + 1
  /\ Contents(tiles) = past[position + 1]
  /\ \A k \in 1 .. Len(commands) :
       LET c == commands[k] IN
       /\ TileOf(c) \in DOMAIN tiles
       /\ c.old \in TypeOf(c.layer) /\ c.new \in TypeOf(c.layer) /\ c.new # c.old
       /\ LayerOf(past[k][TileOf(c)], c.layer) = c.old
       /\ past[k + 1] = Painted(past[k], TileOf(c), c.layer, c.new)

Kept ==
  /\ size \in Sizes /\ side \in Sizes \cup {0}
  /\ commands \in Seq(Command) /\ Len(commands) <= MaxCommands /\ position \in 0..MaxCommands
  /\ \A k \in 1 .. Len(commands) :
       /\ commands[k].new \in TypeOf(commands[k].layer)
       /\ commands[k].old \in TypeOf(commands[k].layer)
  /\ asking \in BOOLEAN /\ editing \in BOOLEAN
  /\ maps \in 0..MaxMaps /\ stale \in BOOLEAN /\ stray \in BOOLEAN

EditorIInv ==
  /\ panicked \in {"no", "tiles", "list", "preview", "freed"}
  /\ Kept /\ Sound(tiles, world, lastId, visual, maps, stray)
  /\ panicked = "no" => DOMAIN tiles = 0 .. side * side - 1
  /\ panicked = "no" /\ ~stale => Recorded
  /\ StopsOnlyIfStale

-----------------------------------------------------------------------------
\* A pointer on a map of side s is on one of its tiles.
LEMMA OnTheMap ==
  ASSUME NEW s \in Nat, NEW a \in 0 .. s - 1, NEW b \in 0 .. s - 1
  PROVE  b * s + a \in 0 .. s * s - 1
<1>1. b * s \in Nat /\ (s - 1 - b) * s \in Nat  OBVIOUS
<1>2. (s - 1 - b) * s = s * s - s - b * s  OBVIOUS
<1> QED  BY <1>1, <1>2

LEMMA PaintedBack ==
  ASSUME NEW D, NEW p \in [D -> Content], NEW i \in D, NEW layer \in Layer,
         NEW old, NEW new, LayerOf(p[i], layer) = old
  PROVE  Painted(Painted(p, i, layer, new), i, layer, old) = p
<1>1. p[i] = <<p[i][1], p[i][2]>>  BY DEF Content
<1>2. Painted(p, i, layer, new)[i] =
        IF layer = "ground" THEN <<new, p[i][2]>> ELSE <<p[i][1], new>>
  BY DEF Painted
<1>3. Painted(Painted(p, i, layer, new), i, layer, old) = [p EXCEPT ![i] = p[i]]
  BY <1>1, <1>2 DEF Painted, LayerOf, Layer
<1> QED  BY <1>3

LEMMA PaintedType ==
  ASSUME NEW D, NEW p \in [D -> Content], NEW i \in D, NEW layer \in Layer, NEW type \in TypeOf(layer)
  PROVE  Painted(p, i, layer, type) \in [D -> Content]
BY DEF Painted, Content, TypeOf, Layer

LEMMA PaintedDiffers ==
  ASSUME NEW D, NEW p \in [D -> Content], NEW i \in D, NEW layer \in Layer,
         NEW type, type # LayerOf(p[i], layer)
  PROVE  Painted(p, i, layer, type) # p
BY DEF Painted, Content, LayerOf, Layer

-----------------------------------------------------------------------------
\* The entities that setObject may leave before it adds one.
Left(ts, es, i, type) ==
  IF type = NoObject \/ ts[i].id # -1 THEN RemoveEntity(es, ts[i].id) ELSE {es}

\* Giving a tile a type, for a drawing that is sound.
Painting(ts, es, last, i, layer, type) ==
  Set([tiles |-> ts, world |-> es, lastId |-> last], i, layer, type)

\* Contents that differ in one part of one tile.
LEMMA GroundContents ==
  ASSUME NEW D, NEW ts \in [D -> Tile], NEW us \in [D -> Tile], NEW i \in D, NEW type,
         \A j \in D : us[j].object = ts[j].object,
         \A j \in D : us[j].ground = IF j = i THEN type ELSE ts[j].ground
  PROVE  Contents(us) = Painted(Contents(ts), i, "ground", type)
BY DEF Contents, Painted

LEMMA ObjectContents ==
  ASSUME NEW D, NEW ts \in [D -> Tile], NEW us \in [D -> Tile], NEW i \in D, NEW type,
         us[i].object = type, us[i].ground = ts[i].ground, \A j \in D \ {i} : us[j] = ts[j]
  PROVE  Contents(us) = Painted(Contents(ts), i, "object", type)
BY DEF Contents, Painted

IsGround(us, ts, i, type) == us = [ts EXCEPT ![i].ground = type]
IsObject(us, ts, i, type, n) == us = [ts EXCEPT ![i].object = type, ![i].id = n]

\* What setObject does when it does anything: fs is left, and another comes
\* unless the tile is erased.
Outcome(d, fs, ts, i, type, last) ==
  \/ /\ type = NoObject
     /\ IsObject(d.tiles, ts, i, type, ErasedId)
     /\ d.world = fs /\ d.lastId = last
  \/ /\ type # NoObject
     /\ IsObject(d.tiles, ts, i, type, last + 1)
     /\ d.world = fs \cup {[id |-> last + 1, kind |-> "object", tile |-> i, map |-> maps]}
     /\ d.lastId = last + 1

LEMMA TileSet ==
  ASSUME NEW D, NEW ts \in [D -> Tile], NEW i \in D, NEW type \in Grounds \cup {Void},
         NEW us, IsGround(us, ts, i, type)
  PROVE  /\ DOMAIN us = D /\ us \in [D -> Tile]
         /\ Contents(us) = Painted(Contents(ts), i, "ground", type)
         /\ \A j \in D : us[j].object = ts[j].object /\ us[j].id = ts[j].id
<1>1. DOMAIN us = D /\ us \in [D -> Tile]  BY DEF Tile, IsGround
<1>2. \A j \in D : us[j].object = ts[j].object /\ us[j].id = ts[j].id  BY DEF Tile, IsGround
<1>3. \A j \in D : us[j].ground = IF j = i THEN type ELSE ts[j].ground  BY DEF Tile, IsGround
<1>4. Contents(us) = Painted(Contents(ts), i, "ground", type)
  BY <1>1, <1>2, <1>3, GroundContents
<1> QED  BY <1>1, <1>2, <1>4

LEMMA ObjectSet ==
  ASSUME NEW D, NEW ts \in [D -> Tile], NEW i \in D,
         NEW type \in Objects \cup {NoObject}, NEW n \in Id \cup {ErasedId},
         NEW us, IsObject(us, ts, i, type, n)
  PROVE  /\ DOMAIN us = D /\ us \in [D -> Tile]
         /\ Contents(us) = Painted(Contents(ts), i, "object", type)
         /\ us[i].object = type /\ us[i].id = n
         /\ \A j \in D \ {i} : us[j] = ts[j]
<1>1. DOMAIN us = D /\ us \in [D -> Tile]  BY DEF Tile, IsObject
<1>2. \A j \in D \ {i} : us[j] = ts[j]  BY DEF IsObject
<1>3. us[i].object = type /\ us[i].id = n /\ us[i].ground = ts[i].ground  BY DEF Tile, IsObject
<1>4. Contents(us) = Painted(Contents(ts), i, "object", type)
  BY <1>1, <1>2, <1>3, ObjectContents
<1> QED  BY <1>1, <1>2, <1>3, <1>4

\* The entity of a tile is the only one with the id that the tile has.
LEMMA RemovedIs ==
  ASSUME NEW ts, NEW es, NEW last, NEW shown, NEW map, NEW forgot,
         Sound(ts, es, last, shown, map, forgot), NEW i \in DOMAIN ts, last < PlayerId,
         NEW fs \in RemoveEntity(es, ts[i].id)
  PROVE  fs = es \ Drawn(es, i, map)
<1> USE EditorAssumption
<1>1. Typed(ts, es, last, shown) /\ Numbered(es, last, map) /\ Distinct(es) /\ Tracks(ts, es, map)
  BY DEF Sound
<1>2. CASE ts[i].object = NoObject
  <2>1. Drawn(es, i, map) = {}  BY <1>1, <1>2 DEF Tracks
  <2>2. ts[i].id \in {-1, ErasedId}  BY <1>1, <1>2 DEF Typed
  <2>3. \A e \in es : e.id # ts[i].id
    BY <1>1, <2>2 DEF Numbered, Typed, Entity, Id
  <2> QED  BY <2>1, <2>3 DEF RemoveEntity
<1>3. CASE ts[i].object # NoObject
  <2>1. PICK e \in es : Drawn(es, i, map) = {e} /\ e.id = ts[i].id  BY <1>1, <1>3 DEF Tracks
  <2>2. e.kind # "player"  BY <2>1 DEF Drawn
  <2>3. {x \in es : x.id = ts[i].id} = {e}  BY <1>1, <2>1, <2>2 DEF Distinct
  <2>4. fs = es \ {e}  BY <2>1, <2>3 DEF RemoveEntity
  <2> QED  BY <2>1, <2>4
<1> QED  BY <1>2, <1>3

LEMMA RemovedWithin ==
  ASSUME NEW es, NEW id, NEW fs \in RemoveEntity(es, id)
  PROVE  fs \subseteq es
BY DEF RemoveEntity

\* Whose tile has no id has no entity.
LEMMA LeftIs ==
  ASSUME NEW ts, NEW es, NEW last, NEW shown, NEW map, NEW forgot,
         Sound(ts, es, last, shown, map, forgot), NEW i \in DOMAIN ts, NEW type,
         NEW fs \in Left(ts, es, i, type)
  PROVE  /\ fs \subseteq es
         /\ last < PlayerId => fs = es \ Drawn(es, i, map)
<1>0. fs \in RemoveEntity(es, ts[i].id) \/ (fs = es /\ ts[i].id = -1)  BY DEF Left
<1>1. CASE fs \in RemoveEntity(es, ts[i].id)
  BY <1>1, RemovedIs, RemovedWithin
<1>2. CASE fs = es /\ ts[i].id = -1
  <2>1. ASSUME last < PlayerId  PROVE  Drawn(es, i, map) = {}
    <3>1. Numbered(es, last, map) /\ Tracks(ts, es, map)  BY <2>1 DEF Sound
    <3>2. SUFFICES ASSUME ts[i].object # NoObject  PROVE  FALSE  BY <3>1 DEF Tracks
    <3>3. PICK e \in es : Drawn(es, i, map) = {e} /\ e.id = ts[i].id  BY <3>1, <3>2 DEF Tracks
    <3>4. e.kind # "player"  BY <3>3 DEF Drawn
    <3> QED  BY <1>2, <3>1, <3>3, <3>4 DEF Numbered
  <2> QED  BY <1>2, <2>1
<1> QED  BY <1>0, <1>1, <1>2

\* What setObject does when it does anything: the tile's entity goes, and
\* another comes unless the tile is erased.
LEMMA ObjectOutcome ==
  ASSUME NEW ts, NEW es, NEW last, NEW i \in DOMAIN ts, NEW type,
         NEW d \in Painting(ts, es, last, i, "object", type), ts[i].object # type
  PROVE  \E fs \in Left(ts, es, i, type) : Outcome(d, fs, ts, i, type, last)
<1> DEFINE b == [tiles |-> ts, world |-> es, lastId |-> last]
<1>1. PICK fs \in Left(ts, es, i, type) :
        d = IF type = NoObject
            THEN [b EXCEPT !.world = fs, !.tiles[i].object = NoObject, !.tiles[i].id = ErasedId]
            ELSE AddObject([b EXCEPT !.world = fs], i, type)
  BY DEF Painting, Set, SetObject, Left
<1>2. [b EXCEPT !.world = fs] = [tiles |-> ts, world |-> fs, lastId |-> last]  OBVIOUS
<1>3. CASE type = NoObject
  <2>1. d = [tiles |-> [ts EXCEPT ![i].object = NoObject, ![i].id = ErasedId], world |-> fs, lastId |-> last]
    BY <1>1, <1>3
  <2> QED  BY <1>3, <2>1 DEF IsObject, Outcome
<1>4. CASE type # NoObject
  BY <1>1, <1>2, <1>4 DEF AddObject, IsObject, Outcome
<1> QED  BY <1>3, <1>4

LEMMA ErasedSound ==
  ASSUME NEW ts, NEW es, NEW last, NEW shown, NEW map, NEW forgot,
         Sound(ts, es, last, shown, map, forgot), NEW i \in DOMAIN ts,
         NEW us, IsObject(us, ts, i, NoObject, ErasedId),
         NEW fs, fs \subseteq es, last < PlayerId => fs = es \ Drawn(es, i, map)
  PROVE  Sound(us, fs, last, shown, map, forgot)
<1> USE EditorAssumption
<1>1. Typed(ts, es, last, shown) /\ Numbered(es, last, map)  BY DEF Sound
<1>2. /\ DOMAIN us = DOMAIN ts /\ us \in [DOMAIN ts -> Tile]
      /\ us[i].object = NoObject /\ us[i].id = ErasedId /\ \A j \in DOMAIN ts \ {i} : us[j] = ts[j]
  <2>1. ts \in [DOMAIN ts -> Tile] /\ ErasedId \in Id \cup {ErasedId} /\ NoObject \in Objects \cup {NoObject}
    BY <1>1 DEF Typed
  <2>2. IsObject(us, ts, i, NoObject, ErasedId)  OBVIOUS
  <2> HIDE EditorAssumption
  <2> QED  BY <2>1, <2>2, ObjectSet
<1>3. Typed(us, fs, last, shown)  BY <1>1, <1>2 DEF Typed
<1>4. Numbered(fs, last, map)  BY <1>1 DEF Numbered
<1>5. ASSUME last < PlayerId  PROVE  Distinct(fs) /\ Tracks(us, fs, map) /\ Shows(fs, shown, forgot)
  <2>1. Distinct(es) /\ Tracks(ts, es, map) /\ Shows(es, shown, forgot)  BY <1>5 DEF Sound
  <2>2. fs = es \ Drawn(es, i, map)  BY <1>5
  <2>3. Drawn(fs, i, map) = {} /\ \A j \in DOMAIN ts \ {i} : Drawn(fs, j, map) = Drawn(es, j, map)
    BY <2>2 DEF Drawn
  <2>4. Tracks(us, fs, map)  
    <3> SUFFICES ASSUME NEW j \in DOMAIN us
                 PROVE  /\ us[j].object = NoObject => Drawn(fs, j, map) = {}
                        /\ us[j].object # NoObject => \E e \in fs : Drawn(fs, j, map) = {e} /\ e.id = us[j].id
      BY DEF Tracks
    <3>1. CASE j = i  BY <1>2, <2>3, <3>1
    <3>2. CASE j # i /\ us[j].object = NoObject  BY <1>2, <2>1, <2>3, <3>2 DEF Tracks
    <3>3. CASE j # i /\ us[j].object # NoObject
      <4>1. PICK e \in es : Drawn(es, j, map) = {e} /\ e.id = ts[j].id  BY <1>2, <2>1, <3>3 DEF Tracks
      <4>2. e \in fs  BY <2>3, <1>2, <4>1, <3>3 DEF Drawn
      <4> QED  BY <1>2, <2>3, <3>3, <4>1, <4>2
    <3> QED  BY <3>1, <3>2, <3>3
  <2>5. Distinct(fs)  BY <2>1 DEF Distinct
  <2>6. Shows(fs, shown, forgot)
    <3>1. \A e \in es : e.kind = "ghost" => e \in fs  BY <2>2 DEF Drawn
    <3> QED  BY <2>1, <3>1 DEF Shows
  <2> QED  BY <2>4, <2>5, <2>6
<1> QED  BY <1>3, <1>4, <1>5 DEF Sound

\* An object comes after the tile's last one has gone.
LEMMA PlacedSound ==
  ASSUME NEW ts, NEW es, NEW last, NEW shown, NEW map \in 0..MaxMaps, NEW forgot,
         Sound(ts, es, last, shown, map, forgot), NEW i \in DOMAIN ts, i \in Int,
         NEW type \in Objects, last + 1 <= MaxId,
         NEW us, IsObject(us, ts, i, type, last + 1),
         NEW fs, fs \subseteq es, last < PlayerId => fs = es \ Drawn(es, i, map),
         NEW new, new = [id |-> last + 1, kind |-> "object", tile |-> i, map |-> map]
  PROVE  Sound(us, fs \cup {new}, last + 1, shown, map, forgot)
<1> USE EditorAssumption
<1>1. Typed(ts, es, last, shown) /\ Numbered(es, last, map) /\ last \in Id  BY DEF Sound, Typed
<1>2. /\ DOMAIN us = DOMAIN ts /\ us \in [DOMAIN ts -> Tile]
      /\ us[i].object = type /\ us[i].id = last + 1 /\ \A j \in DOMAIN ts \ {i} : us[j] = ts[j]
  <2>1. last + 1 \in Id \cup {ErasedId}  BY <1>1 DEF Id
  <2>2. ts \in [DOMAIN ts -> Tile]  BY <1>1 DEF Typed
  <2> QED  BY <2>1, <2>2, ObjectSet
<1>3. new \in Entity /\ last + 1 \in Id  BY <1>1 DEF Entity, Id
<1>4. Typed(us, fs \cup {new}, last + 1, shown)
  <2>1. shown \subseteq 0 .. last + 1  BY <1>1 DEF Typed, Id
  <2> QED  BY <1>1, <1>2, <1>3, <2>1 DEF Typed
<1>5. Numbered(fs \cup {new}, last + 1, map)  BY <1>1 DEF Numbered, Id
<1>6. ASSUME last + 1 < PlayerId
      PROVE  Distinct(fs \cup {new}) /\ Tracks(us, fs \cup {new}, map) /\ Shows(fs \cup {new}, shown, forgot)
  <2>0. last < PlayerId  BY <1>1, <1>6 DEF Id
  <2>1. Distinct(es) /\ Tracks(ts, es, map) /\ Shows(es, shown, forgot)  BY <2>0 DEF Sound
  <2>2. fs = es \ Drawn(es, i, map)  BY <2>0
  <2>3. /\ Drawn(fs \cup {new}, i, map) = {new}
        /\ \A j \in DOMAIN ts \ {i} : Drawn(fs \cup {new}, j, map) = Drawn(es, j, map)
    BY <2>2 DEF Drawn
  <2>4. Tracks(us, fs \cup {new}, map)
    <3> SUFFICES ASSUME NEW j \in DOMAIN us
                 PROVE  /\ us[j].object = NoObject => Drawn(fs \cup {new}, j, map) = {}
                        /\ us[j].object # NoObject =>
                             \E e \in fs \cup {new} : Drawn(fs \cup {new}, j, map) = {e} /\ e.id = us[j].id
      BY DEF Tracks
    <3>1. CASE j = i  BY <1>2, <2>3, <3>1
    <3>2. CASE j # i /\ us[j].object = NoObject  BY <1>2, <2>1, <2>3, <3>2 DEF Tracks
    <3>3. CASE j # i /\ us[j].object # NoObject
      <4>1. PICK e \in es : Drawn(es, j, map) = {e} /\ e.id = ts[j].id  BY <1>2, <2>1, <3>3 DEF Tracks
      <4>2. e \in fs \cup {new}  BY <2>3, <1>2, <4>1, <3>3 DEF Drawn
      <4> QED  BY <1>2, <2>3, <3>3, <4>1, <4>2
    <3> QED  BY <3>1, <3>2, <3>3
  <2>n. \A e \in es : e.id # new.id
    BY <1>1, <1>6 DEF Numbered, Id
  <2>5. Distinct(fs \cup {new})  BY <2>1, <2>n DEF Distinct
  <2>6. Shows(fs \cup {new}, shown, forgot)
    <3>1. \A e \in es : e.kind = "ghost" => e \in fs  BY <2>2 DEF Drawn
    <3>2. new.id \notin shown  BY <1>1 DEF Typed, Id
    <3> QED  BY <2>1, <3>1, <3>2 DEF Shows
  <2> QED  BY <2>4, <2>5, <2>6
<1> QED  BY <1>4, <1>5, <1>6 DEF Sound

LEMMA SameObject ==
  ASSUME NEW b, NEW i, NEW type, b.tiles[i].object = type, NEW d \in SetObject(b, i, type)
  PROVE  d = b
BY Zenon DEF SetObject

LEMMA SetSound ==
  ASSUME NEW ts, NEW es, NEW last, NEW shown, NEW forgot, maps \in 0..MaxMaps,
         Sound(ts, es, last, shown, maps, forgot), NEW i \in DOMAIN ts, i \in Int,
         NEW layer \in Layer, NEW type \in TypeOf(layer), last + 1 <= MaxId,
         NEW d \in Painting(ts, es, last, i, layer, type)
  PROVE  /\ Sound(d.tiles, d.world, d.lastId, shown, maps, forgot)
         /\ DOMAIN d.tiles = DOMAIN ts
         /\ Contents(d.tiles) = Painted(Contents(ts), i, layer, type)
<1> USE EditorAssumption
<1>1. Typed(ts, es, last, shown) /\ Numbered(es, last, maps)  BY DEF Sound
<1>2. CASE layer = "ground"
  <2>1. IsGround(d.tiles, ts, i, type) /\ d.world = es /\ d.lastId = last
    BY <1>2 DEF Painting, Set, SetTile, IsGround
  <2>2. /\ DOMAIN d.tiles = DOMAIN ts /\ d.tiles \in [DOMAIN ts -> Tile]
        /\ Contents(d.tiles) = Painted(Contents(ts), i, layer, type)
        /\ \A j \in DOMAIN ts : d.tiles[j].object = ts[j].object /\ d.tiles[j].id = ts[j].id
    BY <1>1, <1>2, <2>1, TileSet DEF Typed, TypeOf
  <2>3. Typed(d.tiles, es, last, shown)  BY <1>1, <2>2 DEF Typed
  <2>4. Tracks(ts, es, maps) => Tracks(d.tiles, es, maps)  BY <2>2 DEF Tracks
  <2> QED  BY <1>1, <2>1, <2>2, <2>3, <2>4 DEF Sound
<1>3. CASE layer = "object" /\ ts[i].object = type
  <2>0. PICK b : b = [tiles |-> ts, world |-> es, lastId |-> last]  OBVIOUS
  <2>b. d \in SetObject(b, i, type)  BY <1>3, <2>0 DEF Painting, Set
  <2>1. d.tiles = ts /\ d.world = es /\ d.lastId = last
    BY <1>3, <2>0, <2>b, SameObject
  <2>2. Contents(ts)[i] = <<ts[i].ground, type>> /\ DOMAIN Contents(ts) = DOMAIN ts
    BY <1>3 DEF Contents
  <2>3. Painted(Contents(ts), i, layer, type) = Contents(ts)
    BY <1>3, <2>2 DEF Painted, Contents
  <2> QED  BY <2>1, <2>3
<1>4. CASE layer = "object" /\ ts[i].object # type
  <2>1. type \in Objects \cup {NoObject}  BY <1>4 DEF TypeOf
  <2>o. d \in Painting(ts, es, last, i, "object", type)  BY <1>4
  <2>p. PICK fs \in Left(ts, es, i, type) : Outcome(d, fs, ts, i, type, last)
    BY <1>4, <2>o, ObjectOutcome
  <2>2. \/ /\ type = NoObject
           /\ IsObject(d.tiles, ts, i, type, ErasedId)
           /\ d.world = fs /\ d.lastId = last
        \/ /\ type # NoObject
           /\ IsObject(d.tiles, ts, i, type, last + 1)
           /\ d.world = fs \cup {[id |-> last + 1, kind |-> "object", tile |-> i, map |-> maps]}
           /\ d.lastId = last + 1
    BY <2>p DEF Outcome
  <2>3. fs \subseteq es /\ (last < PlayerId => fs = es \ Drawn(es, i, maps))
    BY LeftIs
  <2>4. CASE type = NoObject
    <3>1. Sound(d.tiles, d.world, d.lastId, shown, maps, forgot)
      BY <2>2, <2>3, <2>4, ErasedSound
    <3>2. /\ DOMAIN d.tiles = DOMAIN ts
          /\ Contents(d.tiles) = Painted(Contents(ts), i, layer, type)
      BY <1>1, <1>4, <2>1, <2>2, <2>4, ObjectSet DEF Typed
    <3> QED  BY <3>1, <3>2
  <2>5. CASE type # NoObject
    <3>0. PICK new : new = [id |-> last + 1, kind |-> "object", tile |-> i, map |-> maps]  OBVIOUS
    <3>1. /\ IsObject(d.tiles, ts, i, type, last + 1) /\ type \in Objects
          /\ d.world = fs \cup {new} /\ d.lastId = last + 1
      BY <2>1, <2>2, <2>5, <3>0
    <3>2. Sound(d.tiles, d.world, d.lastId, shown, maps, forgot)
      BY <2>3, <3>0, <3>1, PlacedSound
    <3>3. last + 1 \in Id \cup {ErasedId} /\ ts \in [DOMAIN ts -> Tile]  BY <1>1 DEF Typed, Id
    <3>4. /\ DOMAIN d.tiles = DOMAIN ts
          /\ Contents(d.tiles) = Painted(Contents(ts), i, layer, type)
      <4>1. /\ DOMAIN d.tiles = DOMAIN ts
            /\ Contents(d.tiles) = Painted(Contents(ts), i, "object", type)
        BY <2>1, <3>1, <3>3, ObjectSet
      <4> QED  BY <1>4, <4>1
    <3> QED  BY <3>2, <3>4
  <2> QED  BY <2>4, <2>5
<1> QED  BY <1>2, <1>3, <1>4 DEF Layer

\* The preview that is replaced is all of the preview, and nothing else.
LEMMA UpdatedSound ==
  ASSUME Sound(tiles, world, lastId, visual, maps, stray), maps \in 0..MaxMaps,
         UpdateVisual, NEW d \in Updated
  PROVE  /\ d = [tiles |-> tiles, world |-> d.world, lastId |-> d.lastId]
         /\ Sound(tiles, d.world, d.lastId, visual', maps, stray)
         /\ lastId + 1 < MaxId => d.lastId + 1 <= MaxId
<1> USE EditorAssumption
<1>1. Typed(tiles, world, lastId, visual) /\ Numbered(world, lastId, maps) /\ lastId \in Id
  BY DEF Sound, Typed
<1>2. CASE visual' = visual
  BY <1>1, <1>2 DEF Updated, Drawing, Id
<1>3. CASE visual' # visual
  <2>1. PICK n \in 1..MaxBrush : lastId + n < MaxId /\ visual' = lastId + 1 .. lastId + n
    BY <1>3 DEF UpdateVisual
  <2>2. Cardinality(visual') = n
    <3>1. Cardinality(lastId + 1 .. lastId + n) = (lastId + n) - (lastId + 1) + 1
      BY <1>1, FS_Interval DEF Id
    <3> QED  BY <1>1, <2>1, <3>1 DEF Id
  <2>3. PICK old \in Previews(world) :
          d = [tiles |-> tiles, world |-> (world \ old) \cup Ghosts(n), lastId |-> lastId + n]
    BY <1>3, <2>2 DEF Updated, Rebuilt, Drawing
  <2> DEFINE es == (world \ old) \cup Ghosts(n)
  <2>4. /\ lastId + n \in Id /\ Ghosts(n) \subseteq Entity
        /\ \A e \in Ghosts(n) : e.kind = "ghost" /\ e.id \in visual' /\ e.map = maps
        /\ \A e, f \in Ghosts(n) : e.id = f.id => e = f
        /\ \A k \in visual' : \E e \in Ghosts(n) : e.id = k
    <3>1. lastId + n \in Id /\ visual' \subseteq Id  BY <1>1, <2>1 DEF Id
    <3>2. Ghosts(n) = [id : visual', kind : {"ghost"}, tile : {-1}, map : {maps}]  BY <2>1 DEF Ghosts
    <3>3. \A e \in Ghosts(n) :
            /\ e = [id |-> e.id, kind |-> "ghost", tile |-> -1, map |-> maps]
            /\ e.id \in visual' /\ e.kind = "ghost" /\ e.map = maps
      BY <3>2
    <3>4. Ghosts(n) \subseteq Entity  BY <3>1, <3>2 DEF Entity
    <3>5. \A e, f \in Ghosts(n) : e.id = f.id => e = f
      <4> SUFFICES ASSUME NEW e \in Ghosts(n), NEW f \in Ghosts(n), e.id = f.id  PROVE  e = f
        OBVIOUS
      <4> QED  BY <3>3
    <3>6. ASSUME NEW k \in visual'  PROVE  \E e \in Ghosts(n) : e.id = k
      <4>1. [id |-> k, kind |-> "ghost", tile |-> -1, map |-> maps] \in Ghosts(n)  BY <3>2
      <4> QED  BY <4>1
    <3> QED  BY <3>1, <3>3, <3>4, <3>5, <3>6
  <2>5. Typed(tiles, es, lastId + n, visual')
    <3>1. visual' \subseteq 0 .. lastId + n  BY <1>1, <2>1 DEF Id
    <3> QED  BY <1>1, <2>4, <3>1 DEF Typed
  <2>6. Numbered(es, lastId + n, maps)
    <3>1. \A k \in visual' : k \in 0 .. lastId + n  BY <1>1, <2>1 DEF Id
    <3>2. \A k \in 0 .. lastId : k \in 0 .. lastId + n  BY <1>1, <2>1 DEF Id
    <3> QED  BY <1>1, <2>4, <3>1, <3>2 DEF Numbered
  <2>7. ASSUME lastId + n < PlayerId
        PROVE  Distinct(es) /\ Tracks(tiles, es, maps) /\ Shows(es, visual', stray)
    <3>0. lastId < PlayerId  BY <1>1, <2>1, <2>7 DEF Id
    <3>1. Distinct(world) /\ Tracks(tiles, world, maps) /\ Shows(world, visual, stray)  BY <3>0 DEF Sound
    <3>2. \A e \in world : e.id \notin visual'
      <4>1. \A e \in world : e.id = PlayerId \/ e.id \in 0..lastId  BY <1>1 DEF Numbered
      <4> QED  BY <1>1, <2>1, <2>7, <4>1 DEF Id
    <3>3. Distinct(es)  BY <2>4, <3>1, <3>2 DEF Distinct
    <3>4. \A e \in old : e \in world /\ e.id \in visual /\ e.kind = "ghost"
      BY <3>1 DEF Previews, Shows
    <3>5. \A i \in DOMAIN tiles : Drawn(es, i, maps) = Drawn(world, i, maps)
      BY <2>4, <3>4 DEF Drawn
    <3>6. Tracks(tiles, es, maps)
      <4> SUFFICES ASSUME NEW i \in DOMAIN tiles, tiles[i].object # NoObject
                   PROVE  \E e \in es : Drawn(es, i, maps) = {e} /\ e.id = tiles[i].id
        BY <3>1, <3>5 DEF Tracks
      <4>1. PICK e \in world : Drawn(world, i, maps) = {e} /\ e.id = tiles[i].id  BY <3>1 DEF Tracks
      <4>2. e \in es  BY <3>5, <4>1 DEF Drawn
      <4> QED  BY <3>5, <4>1, <4>2
    <3>7. ASSUME ~stray  PROVE  \A e \in world : e.kind = "ghost" => e \in old
      <4>1. SUFFICES ASSUME NEW e \in world, e.kind = "ghost"  PROVE  e \in old  OBVIOUS
      <4>2. e.id \in visual  BY <3>1, <3>7, <4>1 DEF Shows
      <4>3. PICK f \in old : f.id = e.id  
        <5>1. e.id \in {x.id : x \in world} \cap visual  BY <4>1, <4>2
        <5> QED  BY <5>1 DEF Previews
      <4> QED  BY <3>1, <3>4, <4>1, <4>3 DEF Distinct
    <3>8. Shows(es, visual', stray)  BY <2>4, <3>2, <3>7 DEF Shows
    <3> QED  BY <3>3, <3>6, <3>8
  <2>8. Sound(tiles, es, lastId + n, visual', maps, stray)  BY <2>5, <2>6, <2>7 DEF Sound
  <2>9. lastId + n + 1 <= MaxId  BY <1>1, <2>1 DEF Id
  <2> QED  BY <2>3, <2>8, <2>9
<1> QED  BY <1>2, <1>3

-----------------------------------------------------------------------------
\* The frame's update of the preview, then a command.
LEMMA Commanded ==
  ASSUME Sound(tiles, world, lastId, visual, maps, stray), maps \in 0..MaxMaps,
         UpdateVisual, UNCHANGED <<maps, stray>>,
         NEW i \in DOMAIN tiles, i \in Int, NEW layer \in Layer, NEW type \in TypeOf(layer),
         lastId + 1 < MaxId, \E d \in Updated : \E e \in Set(d, i, layer, type) : Becomes(e)
  PROVE  /\ Sound(tiles, world, lastId, visual, maps, stray)'
         /\ DOMAIN tiles' = DOMAIN tiles
         /\ Contents(tiles') = Painted(Contents(tiles), i, layer, type)
<1>1. PICK d \in Updated : \E e \in Set(d, i, layer, type) : Becomes(e)  OBVIOUS
<1>2. PICK e \in Set(d, i, layer, type) : Becomes(e)  BY <1>1
<1>3. /\ d = [tiles |-> tiles, world |-> d.world, lastId |-> d.lastId]
      /\ Sound(tiles, d.world, d.lastId, visual', maps, stray)
      /\ d.lastId + 1 <= MaxId
  BY UpdatedSound
<1>4. e \in Painting(tiles, d.world, d.lastId, i, layer, type)  BY <1>2, <1>3 DEF Painting
<1>5. /\ Sound(e.tiles, e.world, e.lastId, visual', maps, stray)
      /\ DOMAIN e.tiles = DOMAIN tiles
      /\ Contents(e.tiles) = Painted(Contents(tiles), i, layer, type)
  BY <1>3, <1>4, SetSound
<1>6. tiles' = e.tiles /\ world' = e.world /\ lastId' = e.lastId  BY <1>2 DEF Becomes
<1> QED  BY <1>5, <1>6

\* The tiles' numbers and contents.
LEMMA TilesAre ==
  ASSUME EditorIInv, panicked = "no"
  PROVE  /\ DOMAIN tiles = 0 .. side * side - 1 /\ DOMAIN tiles \subseteq Int
         /\ tiles \in [DOMAIN tiles -> Tile] /\ Contents(tiles) \in [DOMAIN tiles -> Content]
         /\ side \in Nat /\ size \in Nat \ {0}
         /\ \A i \in DOMAIN tiles, layer \in Layer :
              /\ LayerOf(Contents(tiles)[i], layer) = tiles[i][layer]
              /\ tiles[i][layer] \in TypeOf(layer)
<1>1. DOMAIN tiles = 0 .. side * side - 1 /\ side \in Nat /\ size \in Nat \ {0}
  <2>1. DOMAIN tiles = 0 .. side * side - 1 /\ Kept  BY DEF EditorIInv
  <2> QED  BY <2>1, EditorAssumption DEF Kept
<1>2. tiles \in [DOMAIN tiles -> Tile]  BY DEF EditorIInv, Sound, Typed
<1>3. \A i \in DOMAIN tiles : tiles[i].ground \in Grounds \cup {Void} /\ tiles[i].object \in Objects \cup {NoObject}
  BY <1>2 DEF Tile
<1>4. Contents(tiles) \in [DOMAIN tiles -> Content]  BY <1>3 DEF Contents, Content
<1>5. ASSUME NEW i \in DOMAIN tiles, NEW layer \in Layer
      PROVE  /\ LayerOf(Contents(tiles)[i], layer) = tiles[i][layer]
             /\ tiles[i][layer] \in TypeOf(layer)
  <2>1. CASE layer = "ground"  BY <1>3, <2>1 DEF LayerOf, Contents, TypeOf
  <2>2. CASE layer = "object"  BY <1>3, <2>2 DEF LayerOf, Contents, TypeOf
  <2> QED  BY <2>1, <2>2 DEF Layer
<1>6. DOMAIN tiles \subseteq Int  BY <1>1
<1> QED  BY <1>1, <1>2, <1>4, <1>5, <1>6

\* What was undone is cut off.
LEMMA CutIs ==
  ASSUME commands \in Seq(Command), position \in Nat
  PROVE  /\ Cut \in Seq(Command) /\ Len(Cut) <= position /\ Len(Cut) <= Len(commands)
         /\ \A k \in 1 .. Len(Cut) : Cut[k] = commands[k]
         /\ position <= Len(commands) => Len(Cut) = position
<1>1. PICK n \in 0 .. Len(commands) :
        Cut = SubSeq(commands, 1, n) /\ n <= position /\ (position <= Len(commands) => n = position)
  BY DEF Cut
<1>2. Cut \in Seq(Command) /\ Len(Cut) = n /\ \A k \in 1..n : Cut[k] = commands[k]
  BY <1>1, SubSeqProperties
<1> QED  BY <1>1, <1>2

LEMMA AppendIs ==
  ASSUME NEW S, NEW s \in Seq(S), NEW x \in S
  PROVE  /\ Append(s, x) \in Seq(S) /\ Len(Append(s, x)) = Len(s) + 1
         /\ Append(s, x)[Len(s) + 1] = x /\ \A k \in 1 .. Len(s) : Append(s, x)[k] = s[k]
BY AppendProperties

-----------------------------------------------------------------------------
\* One lemma for each action: it keeps the invariant.
LEMMA LookKeeps ==
  ASSUME EditorIInv, panicked = "no", NEW at \in At(size), Look(at)
  PROVE  EditorIInv'
<1>1. Kept /\ Sound(tiles, world, lastId, visual, maps, stray) /\ maps \in 0..MaxMaps
  BY DEF EditorIInv, Kept
<1>2. /\ UpdateVisual
      /\ UNCHANGED <<size, side, asking, editing, maps, stray, panicked, commands, position, past, stale>>
  BY DEF Look, Frame, flags, queue
<1>3. PICK d \in Updated : tiles' = d.tiles /\ world' = d.world /\ lastId' = d.lastId
  BY DEF Look, Becomes
<1>4. /\ d = [tiles |-> tiles, world |-> d.world, lastId |-> d.lastId]
      /\ Sound(tiles, d.world, d.lastId, visual', maps, stray)
  BY <1>1, <1>2, UpdatedSound
<1>5. tiles' = tiles  BY <1>3, <1>4
<1>6. Sound(tiles, world, lastId, visual, maps, stray)'  BY <1>2, <1>3, <1>4, <1>5
<1>7. Kept'  BY <1>1, <1>2 DEF Kept
<1>8. Recorded' = Recorded  BY <1>2, <1>5 DEF Recorded, TileOf, Contents
<1>9. StopsOnlyIfStale'  BY <1>2 DEF EditorIInv, StopsOnlyIfStale
<1> QED  BY <1>2, <1>5, <1>6, <1>7, <1>8, <1>9 DEF EditorIInv

LEMMA EditKeeps ==
  ASSUME EditorIInv, panicked = "no", NEW at \in At(size), NEW layer \in Layer,
         NEW type \in TypeOf(layer), Edit(at, layer, type)
  PROVE  EditorIInv'
<1> USE EditorAssumption
<1> DEFINE i == Index(at)  old == tiles[i][layer]
           c == [at |-> at, layer |-> layer, new |-> type, old |-> old]
<1>1. Kept /\ Sound(tiles, world, lastId, visual, maps, stray) /\ maps \in 0..MaxMaps
  BY DEF EditorIInv, Kept
<1>2. /\ UpdateVisual /\ i \in DOMAIN tiles /\ lastId + 1 < MaxId
      /\ UNCHANGED <<size, side, asking, editing, maps, stray, panicked>>
  BY DEF Edit, Frame, flags
<1>3. /\ old # type /\ position < MaxCommands
      /\ \E d \in Updated : \E e \in Set(d, i, layer, type) : Becomes(e)
      /\ commands' = Append(Cut, c) /\ position' = position + 1
      /\ stale' = (stale \/ size # side)
      /\ past' = IF stale' THEN <<>> ELSE Append(SubSeq(past, 1, position + 1), Contents(tiles'))
  BY DEF Edit
<1> HIDE DEF i, c
<1>4. /\ DOMAIN tiles \subseteq Int /\ Contents(tiles) \in [DOMAIN tiles -> Content]
      /\ LayerOf(Contents(tiles)[i], layer) = old /\ old \in TypeOf(layer)
  BY <1>2, TilesAre
<1> HIDE DEF old
<1>5. /\ Sound(tiles, world, lastId, visual, maps, stray)'
      /\ DOMAIN tiles' = DOMAIN tiles
      /\ Contents(tiles') = Painted(Contents(tiles), i, layer, type)
  BY <1>1, <1>2, <1>3, <1>4, Commanded
<1>6. c \in Command /\ c.new \in TypeOf(c.layer) /\ c.old \in TypeOf(c.layer)
      /\ c.at = at /\ c.layer = layer /\ c.new = type /\ c.old = old
  <2>1. at \in Nat \X Nat  BY DEF At
  <2>2. type \in Grounds \cup Objects \cup {Void, NoObject} /\ old \in Grounds \cup Objects \cup {Void, NoObject}
    BY <1>4 DEF TypeOf, Layer
  <2> QED  BY <1>4, <2>1, <2>2 DEF c, Command
<1>7. /\ Cut \in Seq(Command) /\ Len(Cut) <= position /\ Len(Cut) <= Len(commands)
      /\ \A k \in 1 .. Len(Cut) : Cut[k] = commands[k]
      /\ position <= Len(commands) => Len(Cut) = position
  BY <1>1, CutIs DEF Kept
<1>8. /\ commands' \in Seq(Command) /\ Len(commands') = Len(Cut) + 1
      /\ commands'[Len(Cut) + 1] = c /\ \A k \in 1 .. Len(Cut) : commands'[k] = commands[k]
  BY <1>3, <1>6, <1>7, AppendIs
<1>9. Kept'
  <2>1. Len(commands') <= MaxCommands /\ position' \in 0..MaxCommands
    BY <1>1, <1>3, <1>7, <1>8, LenProperties DEF Kept
  <2>2. \A k \in 1 .. Len(commands') :
          commands'[k].new \in TypeOf(commands'[k].layer) /\ commands'[k].old \in TypeOf(commands'[k].layer)
    <3> SUFFICES ASSUME NEW k \in 1 .. Len(commands')
                 PROVE  commands'[k].new \in TypeOf(commands'[k].layer) /\ commands'[k].old \in TypeOf(commands'[k].layer)
      OBVIOUS
    <3>1. Len(Cut) \in Nat  BY <1>7, LenProperties
    <3>2. CASE k = Len(Cut) + 1  BY <1>6, <1>8, <3>2
    <3>3. CASE k # Len(Cut) + 1
      <4>1. k \in 1 .. Len(Cut) /\ k \in 1 .. Len(commands)  BY <1>1, <1>7, <1>8, <3>1, <3>3, LenProperties DEF Kept
      <4> QED  BY <1>1, <1>8, <4>1 DEF Kept
    <3> QED  BY <3>2, <3>3
  <2> QED  BY <1>1, <1>2, <1>3, <1>8, <2>1, <2>2 DEF Kept
<1>10. ASSUME ~stale'  PROVE  Recorded'
  <2>1. ~stale /\ size = side  BY <1>1, <1>3, <1>10 DEF Kept
  <2>2. Recorded  BY <2>1 DEF EditorIInv
  <2>3. /\ position <= Len(commands) /\ position \in Nat /\ Len(commands) \in Nat
        /\ past \in Seq([DOMAIN tiles -> Content]) /\ Len(past) = Len(commands) + 1
        /\ Contents(tiles) = past[position + 1]
    BY <1>1, <2>2, LenProperties DEF Recorded, Kept
  <2>4. Len(Cut) = position  BY <1>7, <2>3
  <2> DEFINE before == SubSeq(past, 1, position + 1)
  <2>5. /\ before \in Seq([DOMAIN tiles -> Content]) /\ Len(before) = position + 1
        /\ \A k \in 1 .. position + 1 : before[k] = past[k]
    <3>1. \A k \in 1 .. position + 1 : past[k] \in [DOMAIN tiles -> Content]
      BY <2>3, ElementOfSeq
    <3>2. position + 1 \in Int /\ 1 \in Int  BY <2>3
    <3> QED  BY <2>3, <3>1, <3>2, SubSeqProperties
  <2>6. Contents(tiles') \in [DOMAIN tiles -> Content]  BY <1>2, <1>4, <1>5, PaintedType
  <2>7. past' = Append(before, Contents(tiles'))  BY <1>3, <1>10
  <2> HIDE DEF before
  <2>8. /\ past' \in Seq([DOMAIN tiles -> Content]) /\ Len(past') = position + 2
        /\ past'[position + 2] = Contents(tiles')
        /\ \A k \in 1 .. position + 1 : past'[k] = past[k]
    <3>1. /\ past' \in Seq([DOMAIN tiles -> Content]) /\ Len(past') = Len(before) + 1
          /\ past'[Len(before) + 1] = Contents(tiles')
          /\ \A k \in 1 .. Len(before) : past'[k] = before[k]
      BY <2>5, <2>6, <2>7, AppendIs
    <3> QED  BY <2>3, <2>5, <3>1
  <2>9. TileOf(c) = i  BY <1>6, <2>1 DEF TileOf, Index, i
  <2>10. ASSUME NEW k \in 1 .. Len(commands')
         PROVE  LET b == commands'[k] IN
                /\ TileOf(b) \in DOMAIN tiles
                /\ b.old \in TypeOf(b.layer) /\ b.new \in TypeOf(b.layer) /\ b.new # b.old
                /\ LayerOf(past'[k][TileOf(b)], b.layer) = b.old
                /\ past'[k + 1] = Painted(past'[k], TileOf(b), b.layer, b.new)
    <3>1. CASE k = position + 1
      <4>1. commands'[k] = c /\ past'[k] = Contents(tiles) /\ past'[k + 1] = Contents(tiles')
        BY <1>8, <2>3, <2>4, <2>8, <3>1
      <4> QED  BY <1>2, <1>3, <1>4, <1>5, <1>6, <2>9, <4>1
    <3>2. CASE k # position + 1
      <4>1. k \in 1 .. position /\ k \in 1 .. Len(commands)  BY <1>8, <2>3, <2>4, <3>2
      <4>2. commands'[k] = commands[k] /\ past'[k] = past[k] /\ past'[k + 1] = past[k + 1]
        BY <1>8, <2>3, <2>4, <2>8, <4>1
      <4> QED  BY <2>2, <4>1, <4>2 DEF Recorded
    <3> QED  BY <3>1, <3>2
  <2>11. /\ position' <= Len(commands') /\ Len(past') = Len(commands') + 1
         /\ Contents(tiles') = past'[position' + 1]
    BY <1>3, <1>8, <2>3, <2>4, <2>8
  <2> QED  BY <1>2, <1>5, <2>8, <2>10, <2>11 DEF Recorded, TileOf
<1>11. StopsOnlyIfStale'  BY <1>2 DEF StopsOnlyIfStale
<1> QED  BY <1>2, <1>5, <1>9, <1>10, <1>11 DEF EditorIInv

\* A command of the map that is open, when no size was chosen since.
LEMMA CommandIs ==
  ASSUME EditorIInv, panicked = "no", ~stale, size = side, NEW k \in 1 .. Len(commands)
  PROVE  /\ Index(commands[k].at) = TileOf(commands[k])
         /\ Index(commands[k].at) \in DOMAIN tiles
         /\ commands[k].layer \in Layer
         /\ past[k] \in [DOMAIN tiles -> Content]
         /\ LayerOf(past[k][TileOf(commands[k])], commands[k].layer) = commands[k].old
         /\ past[k + 1] = Painted(past[k], TileOf(commands[k]), commands[k].layer, commands[k].new)
<1>1. Recorded /\ Kept  BY DEF EditorIInv
<1>2. commands[k] \in Command  BY <1>1, ElementOfSeq DEF Kept
<1>3. k \in 1 .. Len(past)  BY <1>1, LenProperties DEF Recorded, Kept
<1>4. past[k] \in [DOMAIN tiles -> Content]  BY <1>1, <1>3, ElementOfSeq DEF Recorded
<1> QED  BY <1>1, <1>2, <1>4 DEF Recorded, TileOf, Index, Command

LEMMA UndoKeeps ==
  ASSUME EditorIInv, panicked = "no", NEW at \in At(size), Undo(at)
  PROVE  EditorIInv'
<1> DEFINE c == commands[position]  i == Index(c.at)
<1>1. /\ Kept /\ Sound(tiles, world, lastId, visual, maps, stray) /\ maps \in 0..MaxMaps
      /\ position \in Nat /\ MaxCommands \in Nat /\ position <= MaxCommands
  BY EditorAssumption DEF EditorIInv, Kept
<1>2. /\ UpdateVisual /\ i \in DOMAIN tiles /\ lastId + 1 < MaxId
      /\ UNCHANGED <<size, side, asking, editing, maps, stray, panicked, commands>>
      /\ position > 0 /\ position <= Len(commands) /\ position' = position - 1
      /\ \E d \in Updated : \E e \in Set(d, i, c.layer, c.old) : Becomes(e)
      /\ stale' = (stale \/ size # side) /\ past' = IF stale' THEN <<>> ELSE past
  BY DEF Undo, Frame, flags
<1>3. position \in 1 .. Len(commands)  BY <1>1, <1>2, LenProperties DEF Kept
<1>4. c.layer \in Layer /\ c.old \in TypeOf(c.layer)
  <2>1. commands \in Seq(Command)  BY <1>1 DEF Kept
  <2>2. c \in Command  BY <1>3, <2>1, ElementOfSeq
  <2>3. c.old \in TypeOf(c.layer)  BY <1>1, <1>3 DEF Kept
  <2> QED  BY <2>2, <2>3 DEF Command
<1> HIDE DEF i, c
<1>5. DOMAIN tiles \subseteq Int /\ Contents(tiles) \in [DOMAIN tiles -> Content]  BY TilesAre
<1>6. /\ Sound(tiles, world, lastId, visual, maps, stray)'
      /\ DOMAIN tiles' = DOMAIN tiles
      /\ Contents(tiles') = Painted(Contents(tiles), i, c.layer, c.old)
  BY <1>1, <1>2, <1>4, <1>5, Commanded
<1>7. Kept'
  <2>1. position' \in 0 .. MaxCommands  BY <1>1, <1>2
  <2> QED  BY <1>1, <1>2, <2>1 DEF Kept
<1>8. ASSUME ~stale'  PROVE  Recorded'
  <2>1. ~stale /\ size = side /\ Recorded  BY <1>1, <1>2, <1>8 DEF Kept, EditorIInv
  <2>2. /\ i = TileOf(c) /\ past[position] \in [DOMAIN tiles -> Content]
        /\ LayerOf(past[position][i], c.layer) = c.old
        /\ past[position + 1] = Painted(past[position], i, c.layer, c.new)
    BY <1>3, <2>1, CommandIs DEF i, c
  <2>3. Contents(tiles) = past[position + 1]  BY <2>1 DEF Recorded
  <2>4. Contents(tiles') = past[position]  BY <1>2, <1>4, <1>6, <2>2, <2>3, PaintedBack
  <2>5. past' = past /\ position' + 1 = position /\ position' <= Len(commands)
    BY <1>1, <1>2, <1>8, LenProperties DEF Kept
  <2> QED  BY <1>2, <1>6, <2>1, <2>4, <2>5 DEF Recorded, TileOf
<1>9. StopsOnlyIfStale'  BY <1>2 DEF StopsOnlyIfStale
<1> QED  BY <1>2, <1>6, <1>7, <1>8, <1>9 DEF EditorIInv

LEMMA RedoKeeps ==
  ASSUME EditorIInv, panicked = "no", NEW at \in At(size), Redo(at)
  PROVE  EditorIInv'
<1> DEFINE c == commands[position + 1]  i == Index(c.at)
<1>1. /\ Kept /\ Sound(tiles, world, lastId, visual, maps, stray) /\ maps \in 0..MaxMaps
      /\ position \in Nat /\ MaxCommands \in Nat /\ Len(commands) <= MaxCommands /\ Len(commands) \in Nat
  BY EditorAssumption, LenProperties DEF EditorIInv, Kept
<1>2. /\ UpdateVisual /\ i \in DOMAIN tiles /\ lastId + 1 < MaxId
      /\ UNCHANGED <<size, side, asking, editing, maps, stray, panicked, commands>>
      /\ position < Len(commands) /\ position' = position + 1
      /\ \E d \in Updated : \E e \in Set(d, i, c.layer, c.new) : Becomes(e)
      /\ stale' = (stale \/ size # side) /\ past' = IF stale' THEN <<>> ELSE past
  BY DEF Redo, Frame, flags
<1>3. position + 1 \in 1 .. Len(commands)  BY <1>1, <1>2
<1>4. c.layer \in Layer /\ c.new \in TypeOf(c.layer)
  <2>1. commands \in Seq(Command)  BY <1>1 DEF Kept
  <2>2. c \in Command  BY <1>3, <2>1, ElementOfSeq
  <2>3. c.new \in TypeOf(c.layer)  BY <1>1, <1>3 DEF Kept
  <2> QED  BY <2>2, <2>3 DEF Command
<1> HIDE DEF i, c
<1>5. DOMAIN tiles \subseteq Int  BY TilesAre
<1>6. /\ Sound(tiles, world, lastId, visual, maps, stray)'
      /\ DOMAIN tiles' = DOMAIN tiles
      /\ Contents(tiles') = Painted(Contents(tiles), i, c.layer, c.new)
  BY <1>1, <1>2, <1>4, <1>5, Commanded
<1>7. Kept'
  <2>1. position' \in 0 .. MaxCommands  BY <1>1, <1>2
  <2> QED  BY <1>1, <1>2, <2>1 DEF Kept
<1>8. ASSUME ~stale'  PROVE  Recorded'
  <2>1. ~stale /\ size = side /\ Recorded  BY <1>1, <1>2, <1>8 DEF Kept, EditorIInv
  <2>2. /\ i = TileOf(c)
        /\ past[position + 1 + 1] = Painted(past[position + 1], i, c.layer, c.new)
    BY <1>3, <2>1, CommandIs DEF i, c
  <2>3. Contents(tiles) = past[position + 1]  BY <2>1 DEF Recorded
  <2>4. past' = past /\ position' = position + 1 /\ position' <= Len(commands)
    BY <1>1, <1>2, <1>8
  <2>5. Contents(tiles') = past[position' + 1]  BY <1>2, <1>6, <2>2, <2>3, <2>4
  <2> QED  BY <1>2, <1>6, <2>1, <2>4, <2>5 DEF Recorded, TileOf
<1>9. StopsOnlyIfStale'  BY <1>2 DEF StopsOnlyIfStale
<1> QED  BY <1>2, <1>6, <1>7, <1>8, <1>9 DEF EditorIInv

\* A drawing of nothing.
LEMMA NothingSound ==
  ASSUME NEW ts, ts = [i \in {} |-> Empty], NEW map, NEW forgot
  PROVE  Sound(ts, {}, -1, {}, map, forgot) /\ DOMAIN ts = {}
<1>1. DOMAIN ts = {} /\ ts \in [DOMAIN ts -> Tile]  OBVIOUS
<1>2. -1 \in Id /\ {} \subseteq 0 .. -1  BY EditorAssumption DEF Id
<1>3. Typed(ts, {}, -1, {}) /\ Numbered({}, -1, map)  BY <1>1, <1>2 DEF Typed, Numbered
<1>4. Distinct({}) /\ Tracks(ts, {}, map) /\ Shows({}, {}, forgot)  BY <1>1 DEF Distinct, Tracks, Shows
<1> QED  BY <1>1, <1>3, <1>4 DEF Sound

\* The program stops for one of four reasons.
LEMMA PanicKeeps ==
  ASSUME EditorIInv, NEW why \in {"tiles", "list", "preview", "freed"}, Panic(why),
         why = "tiles" => stale \/ size # side, why = "list" => stale
  PROVE  EditorIInv'
<1>1. size \in Sizes /\ side \in Sizes \cup {0} /\ stale \in BOOLEAN  BY DEF EditorIInv, Kept
<1>2. /\ panicked' = why /\ panicked' # "no" /\ tiles' = [i \in {} |-> Empty] /\ world' = {} /\ lastId' = -1
      /\ commands' = <<>> /\ position' = 0 /\ visual' = {} /\ asking' = FALSE /\ editing' = FALSE
      /\ maps' = 0 /\ stray' = FALSE /\ UNCHANGED <<size, side, stale>>
  BY DEF Panic
<1>3. Sound(tiles, world, lastId, visual, maps, stray)'  BY <1>2, NothingSound
<1>4. Kept'
  <2>1. commands' \in Seq(Command) /\ Len(commands') = 0  BY <1>2, EmptySeq
  <2>2. 0 \in 0..MaxCommands /\ 0 \in 0..MaxMaps /\ 0 <= MaxCommands  BY EditorAssumption
  <2>3. 1 .. Len(commands') = {}  BY <2>1
  <2> QED  BY <1>1, <1>2, <2>1, <2>2, <2>3 DEF Kept
<1>5. StopsOnlyIfStale'  BY <1>2 DEF StopsOnlyIfStale
<1> QED  BY <1>2, <1>3, <1>4, <1>5 DEF EditorIInv

LEMMA StopsKeep ==
  ASSUME EditorIInv, panicked = "no",
         (\E at \in At(size) : Outside(at)) \/ OutOfList \/ WrongPlace \/ OffTheMap
  PROVE  EditorIInv'
<1>1. ASSUME NEW at \in At(size), Outside(at)  PROVE  EditorIInv'
  <2>1. Index(at) \notin DOMAIN tiles /\ Panic("tiles")  BY <1>1 DEF Outside
  <2>2. ASSUME size = side  PROVE  FALSE
    <3>1. DOMAIN tiles = 0 .. size * size - 1 /\ size \in Nat  BY <2>2, TilesAre
    <3>2. at[1] \in 0 .. size - 1 /\ at[2] \in 0 .. size - 1  BY DEF At
    <3>3. at[2] * size + at[1] \in 0 .. size * size - 1  BY <3>1, <3>2, OnTheMap
    <3> QED  BY <2>1, <3>1, <3>3 DEF Index
  <2> QED  BY <2>1, <2>2, PanicKeeps
<1>2. CASE OutOfList
  <2>1. position > Len(commands) /\ Panic("list")  BY <1>2 DEF OutOfList
  <2>2. ASSUME ~stale  PROVE  FALSE
    <3>1. position <= Len(commands) /\ position \in Nat /\ Len(commands) \in Nat
      BY <2>2, EditorAssumption, LenProperties DEF EditorIInv, Recorded, Kept
    <3> QED  BY <2>1, <3>1
  <2> QED  BY <2>1, <2>2, PanicKeeps
<1>3. CASE WrongPlace
  <2>1. PICK k \in {position, position + 1} \cap 1 .. Len(commands) : Index(commands[k].at) \notin DOMAIN tiles
    BY <1>3 DEF WrongPlace
  <2>2. ~(~stale /\ size = side)  BY <2>1, CommandIs
  <2> QED  BY <1>3, <2>2, PanicKeeps DEF WrongPlace
<1>4. CASE OffTheMap  BY <1>4, PanicKeeps DEF OffTheMap
<1> QED  BY <1>1, <1>2, <1>3, <1>4

LEMMA DialogKeeps ==
  ASSUME EditorIInv, panicked = "no", New \/ \E s \in Sizes : MapSizeChanged(s)
  PROVE  EditorIInv'
<1>1. Kept /\ Sound(tiles, world, lastId, visual, maps, stray)  BY DEF EditorIInv
<1>2. /\ UNCHANGED <<side, tiles, world, lastId, commands, position, editing, past, maps, stale, panicked>>
      /\ size' \in Sizes /\ asking' \in BOOLEAN
      /\ \/ UNCHANGED <<visual, stray>>
         \/ visual' = {} /\ stray' = (stray \/ visual # {})
  <2>1. CASE New  BY <1>1, <2>1 DEF New, ResetBrush, drawing, queue, Kept
  <2>2. CASE \E s \in Sizes : MapSizeChanged(s)
    BY <1>1, <2>2 DEF MapSizeChanged, drawing, queue, flags, record, Kept
  <2> QED  BY <2>1, <2>2
<1>3. Sound(tiles, world, lastId, visual, maps, stray)'
  <2>1. CASE UNCHANGED <<visual, stray>>  BY <1>1, <1>2, <2>1
  <2>2. CASE visual' = {} /\ stray' = (stray \/ visual # {})
    <3>1. Typed(tiles, world, lastId, {})  BY <1>1 DEF Sound, Typed
    <3>2. Shows(world, visual, stray) => Shows(world, {}, stray')  BY <2>2 DEF Shows
    <3> QED  BY <1>1, <1>2, <2>2, <3>1, <3>2 DEF Sound
  <2> QED  BY <1>2, <2>1, <2>2
<1>4. Kept'
  <2>1. stray' \in BOOLEAN  BY <1>1, <1>2 DEF Kept
  <2> QED  BY <1>1, <1>2, <2>1 DEF Kept
<1>5. Recorded' = Recorded  BY <1>2 DEF Recorded, TileOf, Contents
<1>6. StopsOnlyIfStale'  BY <1>2 DEF StopsOnlyIfStale
<1> QED  BY <1>2, <1>3, <1>4, <1>5, <1>6 DEF EditorIInv

\* A new map, all of whose tiles are empty, and none of whose entities are
\* there yet.
LEMMA CreateKeeps ==
  ASSUME EditorIInv, panicked = "no", Create
  PROVE  EditorIInv'
<1> USE EditorAssumption
<1>1. Kept /\ Sound(tiles, world, lastId, visual, maps, stray)  BY DEF EditorIInv
<1>2. /\ asking' = FALSE /\ maps < MaxMaps /\ maps' = maps + 1 /\ side' = size
      /\ tiles' = [i \in 0 .. size * size - 1 |-> Empty]
      /\ world' = world \cup {Player(maps + 1)} /\ editing' = TRUE
      /\ stale' = (commands # <<>> \/ position # 0)
      /\ past' = IF stale' THEN <<>> ELSE <<Contents(tiles')>>
      /\ UNCHANGED <<size, lastId, commands, position, visual, stray, panicked>>
  BY DEF Create, queue
<1>3. /\ DOMAIN tiles' = 0 .. side' * side' - 1 /\ tiles' \in [DOMAIN tiles' -> Tile]
      /\ \A i \in DOMAIN tiles' : tiles'[i] = Empty /\ Empty.object = NoObject /\ Empty.id = -1
  <2>1. Empty \in Tile /\ Empty.object = NoObject /\ Empty.id = -1  BY DEF Empty, Tile, Id
  <2> QED  BY <1>2, <2>1
<1>4. Sound(tiles, world, lastId, visual, maps, stray)'
  <2>1. /\ Typed(tiles, world, lastId, visual) /\ Numbered(world, lastId, maps) /\ maps \in 0..MaxMaps
        /\ lastId \in Id
    BY <1>1 DEF Sound, Typed, Kept
  <2> DEFINE p == Player(maps + 1)
  <2>2. p \in Entity /\ p.kind = "player" /\ p.id = PlayerId /\ p.map = maps + 1
    BY <1>2, <2>1 DEF Player, Entity
  <2> HIDE DEF p
  <2>3. world' = world \cup {p}  BY <1>2 DEF p
  <2>4. Typed(tiles', world', lastId, visual)  BY <1>3, <2>1, <2>2, <2>3 DEF Typed
  <2>5. \A e \in world : e.map <= maps /\ e.map \in Int  BY <2>1 DEF Numbered, Typed, Entity
  <2>6. Numbered(world', lastId, maps + 1)  BY <2>1, <2>2, <2>3, <2>5 DEF Numbered
  <2>7. ASSUME lastId < PlayerId
        PROVE  Distinct(world') /\ Tracks(tiles', world', maps + 1) /\ Shows(world', visual, stray)
    <3>1. Distinct(world) /\ Shows(world, visual, stray)  BY <2>7 DEF Sound, EditorIInv
    <3>2. \A e \in world : e.kind # "player" => e.id # p.id  BY <2>1, <2>2, <2>7 DEF Numbered, Id
    <3>3. Distinct(world')  BY <2>2, <2>3, <3>1, <3>2 DEF Distinct
    <3>4. \A i : Drawn(world', i, maps + 1) = {}
      <4>1. \A e \in world : e.map # maps + 1  BY <2>1, <2>5
      <4> QED  BY <2>2, <2>3, <4>1 DEF Drawn
    <3>5. Tracks(tiles', world', maps + 1)  BY <1>3, <3>4 DEF Tracks
    <3>6. p.id \notin visual  BY <2>1, <2>2, <2>7 DEF Typed, Id
    <3>7. Shows(world', visual, stray)  BY <2>2, <2>3, <3>1, <3>6 DEF Shows
    <3> QED  BY <3>3, <3>5, <3>7
  <2>8. Sound(tiles', world', lastId, visual, maps + 1, stray)  BY <2>4, <2>6, <2>7 DEF Sound
  <2> QED  BY <1>2, <2>8
<1>5. Kept'
  <2>1. maps' \in 0..MaxMaps  BY <1>1, <1>2 DEF Kept
  <2> QED  BY <1>1, <1>2, <2>1 DEF Kept
<1>6. ASSUME ~stale'  PROVE  Recorded'
  <2>1. commands = <<>> /\ position = 0 /\ Len(commands) = 0  BY <1>2, <1>6
  <2>2. Contents(tiles') \in [DOMAIN tiles' -> Content]  
    BY <1>3 DEF Contents, Content, Tile
  <2>3. past' = <<Contents(tiles')>>  BY <1>2, <1>6
  <2>4. past' \in Seq([DOMAIN tiles' -> Content]) /\ Len(past') = 1 /\ past'[1] = Contents(tiles')
    BY <2>2, <2>3
  <2>5. 1 .. Len(commands) = {}  BY <2>1
  <2> QED  BY <1>2, <2>1, <2>4, <2>5 DEF Recorded
<1>7. StopsOnlyIfStale'  BY <1>2 DEF StopsOnlyIfStale
<1> QED  BY <1>2, <1>3, <1>4, <1>5, <1>6, <1>7 DEF EditorIInv

LEMMA CloseDialogKeeps ==
  ASSUME EditorIInv, panicked = "no", CloseDialog
  PROVE  EditorIInv'
<1> USE EditorAssumption
<1>1. Kept /\ Sound(tiles, world, lastId, visual, maps, stray)  BY DEF EditorIInv
<1>2. /\ asking' = FALSE /\ commands' = <<>> /\ visual' = {} /\ stray' = (stray \/ visual # {})
      /\ size' = DefaultSize /\ stale' = (stale \/ position # 0)
      /\ past' = IF stale' THEN <<>> ELSE SubSeq(past, 1, 1)
      /\ UNCHANGED <<side, tiles, world, lastId, position, editing, maps, panicked>>
  BY DEF CloseDialog, ResetBrush, drawing
<1>3. Sound(tiles, world, lastId, visual, maps, stray)'
  <2>1. Typed(tiles, world, lastId, {})  BY <1>1 DEF Sound, Typed
  <2>2. Shows(world, visual, stray) => Shows(world, {}, stray')  BY <1>2 DEF Shows
  <2> QED  BY <1>1, <1>2, <2>1, <2>2 DEF Sound
<1>4. commands' \in Seq(Command) /\ Len(commands') = 0 /\ 1 .. Len(commands') = {}
  <2>1. Len(commands') = 0  BY <1>2
  <2> QED  BY <1>2, <2>1, EmptySeq
<1>5. Kept'
  <2>1. stray' \in BOOLEAN /\ stale' \in BOOLEAN  BY <1>1, <1>2 DEF Kept
  <2>2. DefaultSize \in Sizes /\ 0 <= MaxCommands  OBVIOUS
  <2>3. position \in 0..MaxCommands /\ side \in Sizes \cup {0} /\ editing \in BOOLEAN /\ maps \in 0..MaxMaps
    BY <1>1 DEF Kept
  <2> QED  BY <1>2, <1>4, <2>1, <2>2, <2>3 DEF Kept
<1>6. ASSUME ~stale'  PROVE  Recorded'
  <2>1. ~stale /\ position = 0 /\ Recorded  BY <1>1, <1>2, <1>6 DEF EditorIInv, Kept
  <2>2. /\ past \in Seq([DOMAIN tiles -> Content]) /\ Len(past) \in Nat /\ Len(past) >= 1
        /\ past[1] = Contents(tiles)
    BY <1>1, <2>1, LenProperties DEF Recorded, Kept
  <2>3. past' = SubSeq(past, 1, 1)  BY <1>2, <1>6
  <2>4. past[1] \in [DOMAIN tiles -> Content]  BY <2>2, ElementOfSeq
  <2>5. past' \in Seq([DOMAIN tiles -> Content]) /\ Len(past') = 1 /\ past'[1] = past[1]
    BY <2>3, <2>4, SubSeqProperties
  <2> QED  BY <1>2, <1>4, <2>1, <2>2, <2>5 DEF Recorded
<1>7. StopsOnlyIfStale'  BY <1>2 DEF StopsOnlyIfStale
<1> QED  BY <1>2, <1>3, <1>4, <1>5, <1>6, <1>7 DEF EditorIInv

\* A screen without a map.
LEMMA FreshRecorded ==
  ASSUME NEW ts, ts = [i \in {} |-> Empty], NEW h, h = << <<>> >>
  PROVE  /\ h \in Seq([DOMAIN ts -> Content]) /\ Len(h) = 1 /\ h[1] = Contents(ts)
<1>1. DOMAIN ts = {}  OBVIOUS
<1>2. DOMAIN Contents(ts) = {} /\ Contents(ts) \in [{} -> Content]  BY <1>1 DEF Contents
<1>3. <<>> \in [{} -> Content]  
  <2>1. <<>> \in Seq(Content) /\ Len(<<>>) = 0  BY EmptySeq
  <2> QED  BY <2>1
<1>4. <<>> = Contents(ts)  BY <1>2, <1>3
<1> QED  BY <1>1, <1>2, <1>4

LEMMA FreshIs ==
  ASSUME Fresh, panicked' = "no"
  PROVE  EditorIInv'
<1> USE EditorAssumption
<1>1. /\ size' = DefaultSize /\ side' = 0
      /\ tiles' = [i \in {} |-> Empty] /\ world' = {} /\ lastId' = -1
      /\ commands' = <<>> /\ position' = 0 /\ visual' = {}
      /\ asking' = FALSE /\ editing' = FALSE
      /\ past' = << <<>> >> /\ maps' = 0 /\ stale' = FALSE /\ stray' = FALSE
  BY DEF Fresh
<1>2. Sound(tiles, world, lastId, visual, maps, stray)' /\ DOMAIN tiles' = {}  BY <1>1, NothingSound
<1>3. commands' \in Seq(Command) /\ Len(commands') = 0 /\ 1 .. Len(commands') = {}
  <2>1. Len(commands') = 0  BY <1>1
  <2> QED  BY <1>1, <2>1, EmptySeq
<1>4. Kept'
  <2>1. DefaultSize \in Sizes /\ 0 <= MaxCommands /\ 0 \in 0..MaxCommands /\ 0 \in 0..MaxMaps  OBVIOUS
  <2> HIDE EditorAssumption
  <2> QED  BY <1>1, <1>3, <2>1 DEF Kept
<1>5. past' \in Seq([DOMAIN tiles' -> Content]) /\ Len(past') = 1 /\ past'[1] = Contents(tiles')
  BY <1>1, FreshRecorded
<1>6. Recorded'  BY <1>1, <1>3, <1>5 DEF Recorded
<1>7. DOMAIN tiles' = 0 .. side' * side' - 1  BY <1>1, <1>2
<1>8. StopsOnlyIfStale'  BY DEF StopsOnlyIfStale
<1> QED  BY <1>2, <1>4, <1>6, <1>7, <1>8 DEF EditorIInv

LEMMA EditorStart == EditorInit => EditorIInv
<1> SUFFICES ASSUME EditorInit  PROVE  EditorIInv  OBVIOUS
<1> USE EditorAssumption
<1>1. /\ size = DefaultSize /\ side = 0
      /\ tiles = [i \in {} |-> Empty] /\ world = {} /\ lastId = -1
      /\ commands = <<>> /\ position = 0 /\ visual = {}
      /\ asking = FALSE /\ editing = FALSE
      /\ past = << <<>> >> /\ maps = 0 /\ stale = FALSE /\ stray = FALSE /\ panicked = "no"
  BY DEF EditorInit
<1>2. Sound(tiles, world, lastId, visual, maps, stray) /\ DOMAIN tiles = {}  BY <1>1, NothingSound
<1>3. commands \in Seq(Command) /\ Len(commands) = 0 /\ 1 .. Len(commands) = {}
  <2>1. Len(commands) = 0  BY <1>1
  <2> QED  BY <1>1, <2>1, EmptySeq
<1>4. Kept
  <2>1. DefaultSize \in Sizes /\ 0 <= MaxCommands /\ 0 \in 0..MaxCommands /\ 0 \in 0..MaxMaps  OBVIOUS
  <2> HIDE EditorAssumption
  <2> QED  BY <1>1, <1>3, <2>1 DEF Kept
<1>5. past \in Seq([DOMAIN tiles -> Content]) /\ Len(past) = 1 /\ past[1] = Contents(tiles)
  BY <1>1, FreshRecorded
<1>6. Recorded  BY <1>1, <1>3, <1>5 DEF Recorded
<1>7. DOMAIN tiles = 0 .. side * side - 1  BY <1>1, <1>2
<1>8. StopsOnlyIfStale  BY <1>1 DEF StopsOnlyIfStale
<1> QED  BY <1>1, <1>2, <1>4, <1>6, <1>7, <1>8 DEF EditorIInv

LEMMA EditorInvariance == EditorSpec => []EditorIInv
<1>1. EditorIInv /\ [EditorNext]_editorVars => EditorIInv'
  <2> SUFFICES ASSUME EditorIInv, [EditorNext]_editorVars  PROVE  EditorIInv'  OBVIOUS
  <2>1. ASSUME UNCHANGED editorVars  PROVE  EditorIInv'
    <3>1. UNCHANGED <<size, side, tiles, world, lastId, commands, position, visual, asking, editing,
                      past, maps, stale, stray, panicked>>
      BY <2>1 DEF editorVars, drawing, queue, flags, record
    <3> QED
      BY <3>1 DEF EditorIInv, Kept, Sound, Recorded, StopsOnlyIfStale, TileOf, Contents, Typed,
                  Numbered, Distinct, Tracks, Shows
  <2>2. ASSUME EditorNext  PROVE  EditorIInv'
    <3>0. panicked = "no"  BY <2>2 DEF EditorNext
    <3>1. ASSUME NEW at \in At(size), Look(at)  PROVE  EditorIInv'  BY <3>0, <3>1, LookKeeps
    <3>2. ASSUME NEW at \in At(size), Undo(at)  PROVE  EditorIInv'  BY <3>0, <3>2, UndoKeeps
    <3>3. ASSUME NEW at \in At(size), Redo(at)  PROVE  EditorIInv'  BY <3>0, <3>3, RedoKeeps
    <3>4. ASSUME NEW at \in At(size), NEW layer \in Layer, NEW type \in TypeOf(layer), Edit(at, layer, type)
          PROVE  EditorIInv'
      BY <3>0, <3>4, EditKeeps
    <3>5. CASE (\E at \in At(size) : Outside(at)) \/ OutOfList \/ WrongPlace \/ OffTheMap
      BY <3>0, <3>5, StopsKeep
    <3>6. CASE New \/ \E s \in Sizes : MapSizeChanged(s)  BY <3>0, <3>6, DialogKeeps
    <3>7. CASE Create  BY <3>0, <3>7, CreateKeeps
    <3>8. CASE CloseDialog  BY <3>0, <3>8, CloseDialogKeeps
    <3>9. CASE Exit
      <4>1. CASE Panic("freed")  BY <4>1, PanicKeeps
      <4>2. CASE Fresh /\ UNCHANGED panicked  BY <3>0, <4>2, FreshIs
      <4> QED  BY <3>9, <4>1, <4>2 DEF Exit
    <3> QED  BY <2>2, <3>1, <3>2, <3>3, <3>4, <3>5, <3>6, <3>7, <3>8, <3>9 DEF EditorNext
  <2> QED  BY <2>1, <2>2
<1> QED  BY EditorStart, <1>1, PTL DEF EditorSpec

\* However the player edits, undoes and redoes, the map is what it was when
\* the history was at this position.  (map_editor_screen.zig 131-194)
THEOREM UndoAlwaysRestores == EditorSpec => []UndoRestores
<1>1. EditorIInv => UndoRestores
  <2> SUFFICES ASSUME EditorIInv, panicked = "no", ~stale
               PROVE  /\ Contents(tiles) = past[position + 1]
                      /\ Len(past) = Len(commands) + 1
                      /\ \A k \in 1 .. Len(past) - 1 : past[k] # past[k + 1]
    BY DEF UndoRestores
  <2>1. Recorded /\ Kept /\ Len(commands) \in Nat  BY LenProperties DEF EditorIInv, Kept
  <2>2. ASSUME NEW k \in 1 .. Len(past) - 1  PROVE  past[k] # past[k + 1]
    <3> DEFINE c == commands[k]  i == TileOf(c)
    <3>1. k \in 1 .. Len(commands) /\ k \in 1 .. Len(past)  BY <2>1 DEF Recorded
    <3>2. c \in Command /\ past[k] \in [DOMAIN tiles -> Content]
      BY <2>1, <3>1, ElementOfSeq DEF Recorded, Kept
    <3>3. /\ i \in DOMAIN tiles /\ c.new # c.old /\ LayerOf(past[k][i], c.layer) = c.old
          /\ past[k + 1] = Painted(past[k], i, c.layer, c.new)
      BY <2>1, <3>1 DEF Recorded
    <3>4. c.layer \in Layer  BY <3>2 DEF Command
    <3> HIDE DEF c, i
    <3> QED  BY <3>2, <3>3, <3>4, PaintedDiffers
  <2> QED  BY <2>1, <2>2 DEF Recorded
<1> QED  BY <1>1, EditorInvariance, PTL

\* What is drawn is what is edited: each object on the map that is open is
\* one entity, and the brush knows its preview, until the ids given out reach
\* the player's.  (map_editor_screen.zig 261-335, 1287-1340)
THEOREM EntitiesAlwaysTracked == EditorSpec => []EntitiesTracked
<1>1. EditorIInv => EntitiesTracked
  <2> SUFFICES ASSUME EditorIInv  PROVE  EntitiesTracked  OBVIOUS
  <2>1. Kept /\ Typed(tiles, world, lastId, visual) /\ Sound(tiles, world, lastId, visual, maps, stray)
    BY DEF EditorIInv, Sound
  <2>2. EditorTypeOK
    <3>1. visual \subseteq Id  BY <2>1, EditorAssumption DEF Typed, Id
    <3>2. \A i \in DOMAIN tiles : tiles[i] \in Tile  BY <2>1 DEF Typed
    <3>3. world \subseteq Entity /\ lastId \in Id  BY <2>1 DEF Typed
    <3>4. panicked = "no" => DOMAIN tiles = 0 .. side * side - 1  BY DEF EditorIInv
    <3>5. panicked \in {"no", "tiles", "list", "preview", "freed"}  BY DEF EditorIInv
    <3> QED  BY <2>1, <3>1, <3>2, <3>3, <3>4, <3>5 DEF EditorTypeOK, Kept
  <2>3. TracksUntilIdsMeet
    <3> SUFFICES ASSUME lastId < PlayerId  PROVE  TracksEntities  BY DEF TracksUntilIdsMeet
    <3>1. Tracks(tiles, world, maps)  BY <2>1 DEF Sound
    <3> QED  BY <3>1 DEF Tracks, TracksEntities, ObjectsOf, Drawn
  <2>4. PreviewTracked
    <3> SUFFICES ASSUME ~stray, lastId < PlayerId
                 PROVE  {e.id : e \in {x \in world : x.kind = "ghost"}} = visual
      BY DEF PreviewTracked
    <3>1. Shows(world, visual, stray)  BY <2>1 DEF Sound
    <3> QED  BY <3>1 DEF Shows
  <2> QED  BY <2>2, <2>3, <2>4 DEF EntitiesTracked
<1> QED  BY <1>1, EditorInvariance, PTL

\* Only a size that was chosen and no map created for it, and commands of an
\* earlier map, lead out of bounds.  (map_editor_screen.zig 170-194, 1152-1309)
THEOREM EditorStopsIfStale == EditorSpec => []StopsOnlyIfStale
<1>1. EditorIInv => StopsOnlyIfStale  BY DEF EditorIInv
<1> QED  BY <1>1, EditorInvariance, PTL

=============================================================================
