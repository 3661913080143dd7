-------------------------- MODULE SpscQueueProofs --------------------------
(***************************************************************************)
(* Proofs about the ring buffer, for every capacity and set of items.      *)
(*                                                                         *)
(*   1. What the index arithmetic of queue.h computes.                     *)
(*   2. QueueInv is inductive and implies the safety properties.           *)
(*   3. The ring buffer implements BoundedFifo.                            *)
(***************************************************************************)
EXTENDS SpscQueue, SequenceTheorems, TLAPS

-----------------------------------------------------------------------------
(* Index arithmetic *)

LEMMA NextIsSlot ==
  ASSUME QueueAssumption, NEW i \in Slots
  PROVE  NextIndex(i) \in Slots /\ NextIndex(i) # i
BY DEF QueueAssumption, Slots, BUF_SIZE, NextIndex

LEMMA NextInjective ==
  ASSUME QueueAssumption, NEW i \in Slots, NEW j \in Slots,
         NextIndex(i) = NextIndex(j)
  PROVE  i = j
BY DEF QueueAssumption, Slots, BUF_SIZE, NextIndex

LEMMA CountInRange ==
  ASSUME QueueAssumption, NEW h \in Slots, NEW t \in Slots
  PROVE  /\ NumItems(h, t) \in 0 .. N
         /\ NumItems(h, t) = 0 <=> h = t
         /\ NumItems(h, t) = N <=> NextIndex(h) = t
BY DEF QueueAssumption, Slots, BUF_SIZE, NumItems, NextIndex

(* Moving the head on counts one item more, unless the ring was full. *)
LEMMA CountAdd ==
  ASSUME QueueAssumption, NEW h \in Slots, NEW t \in Slots, NextIndex(h) # t
  PROVE  NumItems(NextIndex(h), t) = NumItems(h, t) + 1
BY DEF QueueAssumption, Slots, BUF_SIZE, NumItems, NextIndex

(* Moving the tail on counts one item less, unless the ring was empty. *)
LEMMA CountPop ==
  ASSUME QueueAssumption, NEW h \in Slots, NEW t \in Slots, t # h
  PROVE  NumItems(h, NextIndex(t)) = NumItems(h, t) - 1
BY DEF QueueAssumption, Slots, BUF_SIZE, NumItems, NextIndex

(* The tail can move on without making room for the head to run into. *)
LEMMA PopKeepsRoom ==
  ASSUME QueueAssumption, NEW h \in Slots, NEW t \in Slots,
         NextIndex(h) # t, t # h
  PROVE  NextIndex(h) # NextIndex(t)
BY NextInjective

-----------------------------------------------------------------------------
(* The inductive invariant *)

LEMMA InitInv == ASSUME QueueAssumption, QueueInit PROVE QueueInv
BY DEF QueueAssumption, QueueInit, QueueInv, QueueTypeOK, WriterInStep,
       ReaderInStep, CountReliable, NumItems, Slots, BUF_SIZE

LEMMA TypeStep ==
  ASSUME QueueAssumption, QueueInv, [QueueNext]_queueVars
  PROVE  QueueTypeOK'
<1> USE DEF QueueInv, QueueTypeOK, ringVars, writerVars, readerVars
<1>1. CASE \E x \in Items : StartAdd(x)
  BY <1>1 DEF StartAdd
<1>2. CASE CheckFull
  BY <1>2 DEF CheckFull
<1>3. CASE WriteSlot
  BY <1>3 DEF WriteSlot
<1>4. CASE Publish
  BY <1>4, NextIsSlot DEF Publish
<1>5. CASE StartPop
  BY <1>5 DEF StartPop
<1>6. CASE CheckEmpty
  BY <1>6 DEF CheckEmpty
<1>7. CASE Advance
  BY <1>7, NextIsSlot DEF Advance
<1>8. CASE ReadSlot
  BY <1>8 DEF ReadSlot
<1>9. CASE StartCount
  BY <1>9 DEF StartCount
<1>10. CASE EndCount
  BY <1>10, CountInRange DEF EndCount
<1>11. CASE ClearQueue
  BY <1>11 DEF ClearQueue, QueueAssumption, Slots, BUF_SIZE
<1>12. CASE UNCHANGED queueVars
  BY <1>12 DEF queueVars
<1> QED BY <1>1, <1>2, <1>3, <1>4, <1>5, <1>6, <1>7, <1>8, <1>9, <1>10, <1>11, <1>12
        DEF QueueNext, Writer, Reader

(* What a side knows of the ring stays true when the other side moves:     *)
(* only Publish moves the head and only Advance the tail.                  *)
LEMMA InStepStep ==
  ASSUME QueueAssumption, QueueInv, [QueueNext]_queueVars
  PROVE  (WriterInStep /\ ReaderInStep /\ CountReliable)'
<1> USE DEF QueueInv, QueueTypeOK, WriterInStep, ReaderInStep, CountReliable,
            ringVars, writerVars, readerVars
<1>1. CASE \E x \in Items : StartAdd(x)
  BY <1>1 DEF StartAdd
<1>2. CASE CheckFull
  BY <1>2 DEF CheckFull, IsFull
<1>3. CASE WriteSlot
  BY <1>3 DEF WriteSlot
<1>4. CASE Publish
  <2>1. NumItems(buf_head, buf_tail)' = NumItems(buf_head, buf_tail) + 1
    BY <1>4, CountAdd DEF Publish
  <2>2. NumItems(buf_head, buf_tail) \in Nat
    BY CountInRange DEF QueueAssumption
  <2>3. WriterInStep'
    BY <1>4 DEF Publish
  <2>4. r_pc = "advance" => buf_tail # NextIndex(buf_head)
    BY <1>4 DEF Publish
  <2>5. ReaderInStep'
    <3>1. r_pc = "count" => NumItems(r_head, buf_tail) \in Nat
      BY CountInRange DEF QueueAssumption
    <3> QED BY <1>4, <2>1, <2>2, <2>4, <3>1 DEF Publish
  <2>6. CountReliable'
    BY <1>4, <2>1, <2>2 DEF Publish
  <2> QED BY <2>3, <2>5, <2>6
<1>5. CASE StartPop
  BY <1>5 DEF StartPop
<1>6. CASE CheckEmpty
  BY <1>6 DEF CheckEmpty
<1>7. CASE Advance
  <2>1. NumItems(buf_head, buf_tail)' = NumItems(buf_head, buf_tail) - 1
    BY <1>7, CountPop DEF Advance
  <2>2. NumItems(buf_head, buf_tail) \in Nat /\ NumItems(buf_head, buf_tail) # 0
    BY <1>7, CountInRange DEF Advance, QueueAssumption
  <2>3. CountReliable'
    BY <1>7, <2>1, <2>2 DEF Advance
  <2>4. WriterInStep'
    BY <1>7, PopKeepsRoom DEF Advance
  <2>5. ReaderInStep'
    BY <1>7 DEF Advance
  <2> QED BY <2>3, <2>4, <2>5
<1>8. CASE ReadSlot
  BY <1>8 DEF ReadSlot
<1>9. CASE StartCount
  <2>1. NumItems(buf_head, buf_tail) \in Nat
    BY CountInRange DEF QueueAssumption
  <2> QED BY <1>9, <2>1 DEF StartCount
<1>10. CASE EndCount
  BY <1>10 DEF EndCount
<1>11. CASE ClearQueue
  BY <1>11 DEF ClearQueue, NumItems
<1>12. CASE UNCHANGED queueVars
  BY <1>12 DEF queueVars
<1> QED BY <1>1, <1>2, <1>3, <1>4, <1>5, <1>6, <1>7, <1>8, <1>9, <1>10, <1>11, <1>12
        DEF QueueNext, Writer, Reader

(* The indices, the local copies of them and the count stay in step. *)
THEOREM QueueInvariance ==
  ASSUME QueueAssumption PROVE QueueSpec => []QueueInv
<1>1. QueueInv /\ [QueueNext]_queueVars => QueueInv'
  BY TypeStep, InStepStep DEF QueueInv
<1> QED BY InitInv, <1>1, PTL DEF QueueSpec

(* Indices stay within the ring and what is in it are items, whatever the  *)
(* order of the steps of reader and writer.                                *)
THEOREM QueueTypes ==
  ASSUME QueueAssumption PROVE QueueSpec => []QueueTypeOK
<1>1. QueueInv => QueueTypeOK
  BY DEF QueueInv
<1> QED BY <1>1, QueueInvariance, PTL

(* The slot pop_item reads is never being written by add_item, although    *)
(* the tail that freed it has moved on before: for every capacity.         *)
THEOREM SlotsNotShared ==
  ASSUME QueueAssumption PROVE QueueSpec => []SlotNotShared
<1>1. QueueInv => SlotNotShared
  BY NextInjective DEF QueueInv, QueueTypeOK, WriterInStep, ReaderInStep, SlotNotShared
<1> QED BY <1>1, QueueInvariance, PTL

(* num_items never promises the reader more than it can pop. *)
THEOREM CountsReliable ==
  ASSUME QueueAssumption PROVE QueueSpec => []CountReliable
<1>1. QueueInv => CountReliable
  BY DEF QueueInv
<1> QED BY <1>1, QueueInvariance, PTL

-----------------------------------------------------------------------------
(* The ring as a sequence *)

Values == Items \cup {NoItem}
Buffers == [Slots -> Values]

LEMMA SlotInRing ==
  ASSUME QueueAssumption, NEW h \in Slots, NEW t \in Slots,
         NEW i \in 1 .. NumItems(h, t)
  PROVE  SlotOf(t, i) \in Slots /\ SlotOf(t, i) # h
BY DEF QueueAssumption, Slots, BUF_SIZE, NumItems, SlotOf

LEMMA ItemsType ==
  ASSUME QueueAssumption, NEW buf \in Buffers,
         NEW h \in Slots, NEW t \in Slots
  PROVE  /\ ItemsOf(buf, h, t) \in Seq(Values)
         /\ Len(ItemsOf(buf, h, t)) = NumItems(h, t)
         /\ \A i \in 1 .. NumItems(h, t) : ItemsOf(buf, h, t)[i] = buf[SlotOf(t, i)]
<1> DEFINE n == NumItems(h, t)
           s == ItemsOf(buf, h, t)
<1>1. n \in Nat
  BY CountInRange DEF QueueAssumption
<1>2. s \in [1 .. n -> Values]
  BY SlotInRing DEF ItemsOf, Buffers
<1>3. s \in Seq(Values)
  BY <1>1, <1>2, SeqDef
<1>4. Len(s) = n
  BY <1>1, <1>2, <1>3, LenProperties
<1> QED BY <1>3, <1>4 DEF ItemsOf

(* Writing the free slot, at the head, changes no item. *)
LEMMA ItemsWrite ==
  ASSUME QueueAssumption, NEW buf \in Buffers,
         NEW h \in Slots, NEW t \in Slots, NEW x
  PROVE  ItemsOf([buf EXCEPT ![h] = x], h, t) = ItemsOf(buf, h, t)
<1>1. \A i \in 1 .. NumItems(h, t) :
         [buf EXCEPT ![h] = x][SlotOf(t, i)] = buf[SlotOf(t, i)]
  BY SlotInRing DEF Buffers
<1> QED BY <1>1 DEF ItemsOf

(* Moving the head on appends the item in its slot. *)
LEMMA ItemsAdd ==
  ASSUME QueueAssumption, NEW buf \in Buffers,
         NEW h \in Slots, NEW t \in Slots, NextIndex(h) # t
  PROVE  ItemsOf(buf, NextIndex(h), t) = Append(ItemsOf(buf, h, t), buf[h])
<1> DEFINE n == NumItems(h, t)
           s == ItemsOf(buf, h, t)
           r == ItemsOf(buf, NextIndex(h), t)
<1>1. n \in Nat /\ NumItems(NextIndex(h), t) = n + 1
  BY CountInRange, CountAdd DEF QueueAssumption
<1>2. s \in Seq(Values) /\ Len(s) = n /\ \A i \in 1 .. n : s[i] = buf[SlotOf(t, i)]
  BY ItemsType
<1>3. /\ r \in Seq(Values) /\ Len(r) = n + 1
      /\ \A i \in 1 .. n + 1 : r[i] = buf[SlotOf(t, i)]
  <2>1. NextIndex(h) \in Slots
    BY NextIsSlot
  <2> HIDE DEF n
  <2>2. /\ r \in Seq(Values) /\ Len(r) = NumItems(NextIndex(h), t)
        /\ \A i \in 1 .. NumItems(NextIndex(h), t) : r[i] = buf[SlotOf(t, i)]
    BY <2>1, ItemsType
  <2> QED BY <1>1, <2>2
<1>4. SlotOf(t, n + 1) = h
  BY DEF QueueAssumption, Slots, BUF_SIZE, NumItems, SlotOf
<1>5. buf[h] \in Values
  BY DEF Buffers
<1> HIDE DEF n, s, r
<1>6. /\ Append(s, buf[h]) \in Seq(Values) /\ Len(Append(s, buf[h])) = n + 1
      /\ \A i \in 1 .. n : Append(s, buf[h])[i] = s[i]
      /\ Append(s, buf[h])[n + 1] = buf[h]
  BY <1>1, <1>2, <1>5, AppendProperties
<1>7. \A i \in 1 .. n + 1 : r[i] = Append(s, buf[h])[i]
  BY <1>1, <1>2, <1>3, <1>4, <1>6
<1>8. r = Append(s, buf[h])
  BY <1>3, <1>6, <1>7, SeqEqual
<1> QED BY <1>8 DEF r, s

(* Moving the tail on removes the first item, the one in its slot. *)
LEMMA ItemsPop ==
  ASSUME QueueAssumption, NEW buf \in Buffers,
         NEW h \in Slots, NEW t \in Slots, t # h
  PROVE  /\ ItemsOf(buf, h, t) # <<>>
         /\ Head(ItemsOf(buf, h, t)) = buf[t]
         /\ ItemsOf(buf, h, NextIndex(t)) = Tail(ItemsOf(buf, h, t))
<1> DEFINE n == NumItems(h, t)
           s == ItemsOf(buf, h, t)
           r == ItemsOf(buf, h, NextIndex(t))
<1>1. n \in Nat /\ n # 0 /\ NumItems(h, NextIndex(t)) = n - 1
  BY CountInRange, CountPop DEF QueueAssumption
<1>2. s \in Seq(Values) /\ Len(s) = n /\ \A i \in 1 .. n : s[i] = buf[SlotOf(t, i)]
  BY ItemsType
<1>3. /\ r \in Seq(Values) /\ Len(r) = n - 1
      /\ \A i \in 1 .. n - 1 : r[i] = buf[SlotOf(NextIndex(t), i)]
  <2>1. NextIndex(t) \in Slots
    BY NextIsSlot
  <2> HIDE DEF n
  <2>2. /\ r \in Seq(Values) /\ Len(r) = NumItems(h, NextIndex(t))
        /\ \A i \in 1 .. NumItems(h, NextIndex(t)) :
             r[i] = buf[SlotOf(NextIndex(t), i)]
    BY <2>1, ItemsType
  <2> QED BY <1>1, <2>2
<1>4. SlotOf(t, 1) = t
  BY DEF QueueAssumption, Slots, BUF_SIZE, SlotOf
<1>5. \A i \in 1 .. n - 1 : SlotOf(NextIndex(t), i) = SlotOf(t, i + 1)
  BY DEF QueueAssumption, Slots, BUF_SIZE, NumItems, SlotOf, NextIndex
<1> HIDE DEF n, s, r
<1>6. s # <<>>
  BY <1>1, <1>2
<1>7. /\ Head(s) = s[1] /\ Tail(s) \in Seq(Values) /\ Len(Tail(s)) = n - 1
      /\ \A i \in 1 .. n - 1 : Tail(s)[i] = s[i + 1]
  BY <1>1, <1>2, <1>6, HeadTailProperties
<1>8. Head(s) = buf[t]
  BY <1>1, <1>2, <1>4, <1>7
<1>9. \A i \in 1 .. n - 1 : r[i] = Tail(s)[i]
  BY <1>1, <1>2, <1>3, <1>5, <1>7
<1>10. r = Tail(s)
  BY <1>3, <1>7, <1>9, SeqEqual
<1> QED BY <1>6, <1>8, <1>10 DEF r, s

-----------------------------------------------------------------------------
(* Refinement *)

LEMMA InitFifo == ASSUME QueueAssumption, QueueInit PROVE Fifo!FifoInit
<1>1. NumItems(0, 0) = 0
  BY DEF NumItems
<1>2. 0 \in Slots
  BY DEF QueueAssumption, Slots, BUF_SIZE
<1>3. buffer \in Buffers
  BY DEF QueueInit, Buffers, Values
<1>4. Queue \in Seq(Values) /\ Len(Queue) = 0
  BY <1>1, <1>2, <1>3, ItemsType DEF QueueInit, Queue
<1>5. Queue = <<>>
  BY <1>4
<1> QED BY <1>5 DEF QueueInit, Fifo!FifoInit, Adding, Popping, Got

(* Publish, CheckFull, Advance and CheckEmpty are the instants at which    *)
(* the calls take effect.                                                  *)
LEMMA FifoStep ==
  ASSUME QueueAssumption, QueueInv, [QueueNext]_queueVars
  PROVE  [Fifo!FifoNext]_(Fifo!fifoVars)
<1>1. /\ buffer \in Buffers /\ buf_head \in Slots /\ buf_tail \in Slots
      /\ w_pc # "idle" => w_item # NoItem /\ w_head = buf_head
  BY DEF QueueInv, QueueTypeOK, WriterInStep, QueueAssumption, Buffers, Values
<1>2. /\ Queue \in Seq(Values)
      /\ Len(Queue) \in 0 .. N
      /\ Len(Queue) = N <=> NextIndex(buf_head) = buf_tail
      /\ Queue = <<>> <=> buf_head = buf_tail
  <2>1. Queue \in Seq(Values) /\ Len(Queue) = NumItems(buf_head, buf_tail)
    BY <1>1, ItemsType DEF Queue
  <2> QED BY <1>1, <2>1, CountInRange
<1>3. CASE \E x \in Items : StartAdd(x)
  <2>1. PICK x \in Items : StartAdd(x)
    BY <1>3
  <2>2. Fifo!StartAdd(x)
    BY <2>1 DEF StartAdd, ringVars, readerVars, Fifo!StartAdd, Queue, Adding, Popping, Got
  <2> QED BY <2>2 DEF Fifo!FifoNext
<1>4. CASE CheckFull
  <2>1. UNCHANGED <<Queue, Popping, Got>>
    BY <1>4 DEF CheckFull, ringVars, readerVars, Queue, Popping, Got
  <2>2. CASE IsFull(w_head)
    <3>1. Len(Queue) = N /\ Adding # NoItem /\ Adding' = NoItem
      BY <1>1, <1>2, <1>4, <2>2 DEF CheckFull, IsFull, Adding
    <3>2. Fifo!Drop
      BY <2>1, <3>1 DEF Fifo!Drop
    <3> QED BY <3>2 DEF Fifo!FifoNext
  <2>3. CASE ~IsFull(w_head)
    BY <1>4, <2>1, <2>3 DEF CheckFull, Adding, Fifo!fifoVars
  <2> QED BY <2>2, <2>3
<1>5. CASE WriteSlot
  <2>1. Queue' = Queue
    <3>1. w_head = buf_head
      BY <1>1, <1>5 DEF WriteSlot
    <3>2. Queue' = ItemsOf([buffer EXCEPT ![buf_head] = w_item], buf_head, buf_tail)
      BY <1>5, <3>1 DEF WriteSlot, Queue
    <3>3. @ = ItemsOf(buffer, buf_head, buf_tail)
      BY <1>1, ItemsWrite
    <3> QED BY <3>2, <3>3 DEF Queue
  <2>2. r_pc = "read" => r_tail # w_head
    BY <1>1, <1>5, NextInjective
       DEF WriteSlot, QueueInv, QueueTypeOK, WriterInStep, ReaderInStep
  <2>3. Got' = Got
    BY <1>1, <1>5, <2>2 DEF WriteSlot, readerVars, Got, QueueInv, QueueTypeOK
  <2> QED BY <1>5, <2>1, <2>3 DEF WriteSlot, readerVars, Adding, Popping, Fifo!fifoVars
<1>6. CASE Publish
  <2>1. NextIndex(buf_head) # buf_tail /\ buffer[buf_head] = w_item
    BY <1>1, <1>6 DEF Publish, QueueInv, WriterInStep
  <2>2. Queue' = Append(Queue, Adding)
    BY <1>1, <1>6, <2>1, ItemsAdd DEF Publish, Queue, Adding
  <2>3. Fifo!Add
    BY <1>1, <1>2, <1>6, <2>1, <2>2
       DEF Publish, readerVars, Adding, Popping, Got, Fifo!Add
  <2> QED BY <2>3 DEF Fifo!FifoNext
<1>7. CASE StartPop
  <2>1. Fifo!StartPop
    BY <1>7 DEF StartPop, ringVars, writerVars, Fifo!StartPop, Queue, Adding, Popping, Got
  <2> QED BY <2>1 DEF Fifo!FifoNext
<1>8. CASE CheckEmpty
  <2>1. UNCHANGED <<Queue, Adding>>
    BY <1>8 DEF CheckEmpty, ringVars, writerVars, Queue, Adding
  <2>2. CASE r_tail = buf_head
    <3>1. Queue = <<>>
      BY <1>2, <1>8, <2>2 DEF CheckEmpty, QueueInv, ReaderInStep
    <3>2. Fifo!Empty
      BY <1>8, <2>1, <2>2, <3>1 DEF CheckEmpty, Fifo!Empty, Popping, Got
    <3> QED BY <3>2 DEF Fifo!FifoNext
  <2>3. CASE r_tail # buf_head
    BY <1>8, <2>1, <2>3 DEF CheckEmpty, Popping, Got, Fifo!fifoVars
  <2> QED BY <2>2, <2>3
<1>9. CASE Advance
  <2>1. r_tail = buf_tail /\ buf_tail # buf_head
    BY <1>9 DEF Advance, QueueInv, ReaderInStep
  <2>2. Queue # <<>> /\ Head(Queue) = buffer[buf_tail] /\ Queue' = Tail(Queue)
    BY <1>1, <1>9, <2>1, ItemsPop DEF Advance, Queue
  <2>3. Fifo!Take
    BY <1>9, <2>1, <2>2 DEF Advance, writerVars, Fifo!Take, Adding, Popping, Got
  <2> QED BY <2>3 DEF Fifo!FifoNext
<1>10. CASE ReadSlot
  <2>1. Fifo!Return
    BY <1>10 DEF ReadSlot, ringVars, writerVars, Fifo!Return, Queue, Adding, Popping, Got
  <2> QED BY <2>1 DEF Fifo!FifoNext
<1>11. CASE StartCount \/ EndCount \/ UNCHANGED queueVars
  BY <1>11 DEF StartCount, EndCount, queueVars, ringVars, writerVars, readerVars,
     Queue, Adding, Popping, Got, Fifo!fifoVars
<1>12. CASE ClearQueue
  <2>1. Queue' = <<>>
    <3>1. 0 \in Slots /\ NumItems(0, 0) = 0
      BY DEF QueueAssumption, Slots, BUF_SIZE, NumItems
    <3>2. Queue' \in Seq(Values) /\ Len(Queue') = 0
      BY <1>1, <1>12, <3>1, ItemsType DEF ClearQueue, Queue
    <3> QED BY <3>2
  <2>2. Fifo!Clear
    BY <1>12, <2>1 DEF ClearQueue, writerVars, Fifo!Clear, Adding, Popping, Got
  <2> QED BY <2>2 DEF Fifo!FifoNext
<1> QED BY <1>3, <1>4, <1>5, <1>6, <1>7, <1>8, <1>9, <1>10, <1>11, <1>12
        DEF QueueNext, Writer, Reader

(* With one reader and one writer the ring is a bounded FIFO queue whose   *)
(* calls are atomic, for every capacity and every set of items.            *)
THEOREM FifoImplemented ==
  ASSUME QueueAssumption PROVE QueueSpec => ImplementsFifo
<1>1. QueueInv /\ [QueueNext]_queueVars => [Fifo!FifoNext]_(Fifo!fifoVars)
  BY FifoStep
<1> QED BY InitFifo, <1>1, QueueInvariance, PTL DEF QueueSpec, ImplementsFifo, Fifo!FifoSpec
=============================================================================
