----------------------------- MODULE SpscQueue -----------------------------
(***************************************************************************)
(* The ring buffer of queue<T, N> (src/include/queue.h) with one reader    *)
(* and one writer, either of which may be an interrupt handler: every      *)
(* access to buf_head, buf_tail or buffer is a step of its own, in the     *)
(* order of the statements.                                                *)
(***************************************************************************)
EXTENDS Integers, Sequences

CONSTANTS
  N,       \* maximum number of items: 6 in the program
  Items,   \* items added
  NoItem   \* T()

ASSUME QueueAssumption == N \in Nat \ {0} /\ NoItem \notin Items

VARIABLES
  buf_head, buf_tail, buffer,
  w_pc, w_head, w_item,        \* add_item: place, head and item
  r_pc, r_tail, r_head,        \* pop_item and num_items: place, tail, head
  r_item,                      \* what pop_item has returned
  known                        \* items num_items has reported, less those popped

ringVars   == <<buf_head, buf_tail, buffer>>
writerVars == <<w_pc, w_head, w_item>>
readerVars == <<r_pc, r_tail, r_head, r_item, known>>
queueVars  == <<ringVars, writerVars, readerVars>>

BUF_SIZE == N + 1
Slots == 0 .. BUF_SIZE - 1

M_NextNoWrap(i) == IF i + 1 > BUF_SIZE THEN 0 ELSE i + 1
NextIndex(i) == IF i + 1 >= BUF_SIZE THEN 0 ELSE i + 1

M_CountOffByOne(head, tail) ==
  IF head >= tail THEN head - tail ELSE BUF_SIZE + 1 - (tail - head)
NumItems(head, tail) ==
  IF head >= tail THEN head - tail ELSE BUF_SIZE - (tail - head)

QueueInit ==
  /\ buf_head = 0 /\ buf_tail = 0
  /\ buffer = [i \in Slots |-> NoItem]
  /\ w_pc = "idle" /\ w_head = 0 /\ w_item = NoItem
  /\ r_pc = "idle" /\ r_tail = 0 /\ r_head = 0 /\ r_item = NoItem
  /\ known = 0

-----------------------------------------------------------------------------
(* add_item *)

StartAdd(x) ==
  /\ w_pc = "idle" /\ w_pc' = "check"
  /\ w_item' = x /\ w_head' = buf_head
  /\ UNCHANGED <<ringVars, readerVars>>

(* queue full? *)
M_FullNever(head) == FALSE
M_FullAtLast(head) == NextIndex(NextIndex(head)) = buf_tail
IsFull(head) == NextIndex(head) = buf_tail

CheckFull ==
  /\ w_pc = "check"
  /\ w_pc' = IF IsFull(w_head) THEN "idle" ELSE "slot"
  /\ UNCHANGED <<w_head, w_item, ringVars, readerVars>>

WriteSlot ==
  /\ w_pc = "slot" /\ w_pc' = "publish"
  /\ buffer' = [buffer EXCEPT ![w_head] = w_item]
  /\ UNCHANGED <<w_head, w_item, buf_head, buf_tail, readerVars>>

Publish ==
  /\ w_pc = "publish" /\ w_pc' = "idle"
  /\ buf_head' = NextIndex(w_head)
  /\ UNCHANGED <<w_head, w_item, buf_tail, buffer, readerVars>>

-----------------------------------------------------------------------------
(* pop_item: the tail moves on before the slot is read. *)

StartPop ==
  /\ r_pc = "idle" /\ r_pc' = "check"
  /\ r_tail' = buf_tail
  /\ UNCHANGED <<r_head, r_item, known, ringVars, writerVars>>

CheckEmpty ==
  /\ r_pc = "check"
  /\ IF r_tail = buf_head
     THEN r_pc' = "idle" /\ r_item' = NoItem
     ELSE r_pc' = "advance" /\ UNCHANGED r_item
  /\ UNCHANGED <<r_tail, r_head, known, ringVars, writerVars>>

Advance ==
  /\ r_pc = "advance" /\ r_pc' = "read"
  /\ buf_tail' = NextIndex(r_tail)
  /\ known' = IF known = 0 THEN 0 ELSE known - 1
  /\ UNCHANGED <<r_tail, r_head, r_item, buf_head, buffer, writerVars>>

ReadSlot ==
  /\ r_pc = "read" /\ r_pc' = "idle"
  /\ r_item' = buffer[r_tail]
  /\ UNCHANGED <<r_tail, r_head, known, ringVars, writerVars>>

(* num_items, called by the reader *)
StartCount ==
  /\ r_pc = "idle" /\ r_pc' = "count"
  /\ r_head' = buf_head
  /\ UNCHANGED <<r_tail, r_item, known, ringVars, writerVars>>

EndCount ==
  /\ r_pc = "count" /\ r_pc' = "idle"
  /\ known' = NumItems(r_head, buf_tail)
  /\ UNCHANGED <<r_tail, r_head, r_item, ringVars, writerVars>>

(* clear is not made for concurrency: reader and writer are one thread. *)
ClearQueue ==
  /\ w_pc = "idle" /\ r_pc = "idle"
  /\ buf_head' = 0 /\ buf_tail' = 0 /\ known' = 0
  /\ UNCHANGED <<buffer, writerVars, r_pc, r_tail, r_head, r_item>>

-----------------------------------------------------------------------------
Writer == (\E x \in Items : StartAdd(x)) \/ CheckFull \/ WriteSlot \/ Publish
Reader == StartPop \/ CheckEmpty \/ Advance \/ ReadSlot \/ StartCount \/ EndCount
QueueNext == Writer \/ Reader \/ ClearQueue

QueueSpec == QueueInit /\ [][QueueNext]_queueVars

-----------------------------------------------------------------------------
(* The queue as BoundedFifo.tla has it *)

SlotOf(tail, i) ==
  IF tail + i - 1 >= BUF_SIZE THEN tail + i - 1 - BUF_SIZE ELSE tail + i - 1
ItemsOf(buf, head, tail) ==
  [i \in 1 .. NumItems(head, tail) |-> buf[SlotOf(tail, i)]]
Queue == ItemsOf(buffer, buf_head, buf_tail)

Adding == IF w_pc = "idle" THEN NoItem ELSE w_item
Popping == IF r_pc \in {"check", "advance"} THEN "called"
           ELSE IF r_pc = "read" THEN "took" ELSE "idle"
Got == IF r_pc = "read" THEN buffer[r_tail] ELSE r_item

Fifo == INSTANCE BoundedFifo WITH
  queue <- Queue, adding <- Adding, rd <- Popping, got <- Got

-----------------------------------------------------------------------------
(* Properties *)

QueueTypeOK ==
  /\ buf_head \in Slots /\ buf_tail \in Slots
  /\ buffer \in [Slots -> Items \cup {NoItem}]
  /\ w_pc \in {"idle", "check", "slot", "publish"}
  /\ w_head \in Slots /\ w_item \in Items \cup {NoItem}
  /\ r_pc \in {"idle", "check", "advance", "read", "count"}
  /\ r_tail \in Slots /\ r_head \in Slots /\ r_item \in Items \cup {NoItem}
  /\ known \in Nat

(* "Multi-threading and interrupt safe if it is used by a single reader    *)
(* and a single writer" (queue.h:22): the slot that pop_item reads after   *)
(* it has given it free is not the one add_item writes.                    *)
SlotNotShared == w_pc = "slot" /\ r_pc = "read" => w_head # r_tail

(* What num_items reports, and has_event relies on, can be popped: it is   *)
(* never more than what there is, whatever was added in between.           *)
CountReliable == known <= NumItems(buf_head, buf_tail)

(* Whatever the interleaving, items come out once and in order, and an     *)
(* item is dropped only if there are N.                                    *)
ImplementsFifo == Fifo!FifoSpec

(* The inductive invariant: what the local copies of head and tail are     *)
(* worth while the other side goes on.                                     *)
WriterInStep ==
  /\ w_pc # "idle" => w_head = buf_head /\ w_item \in Items
  /\ w_pc \in {"slot", "publish"} => NextIndex(buf_head) # buf_tail
  /\ w_pc = "publish" => buffer[w_head] = w_item
ReaderInStep ==
  /\ r_pc \in {"check", "advance"} => r_tail = buf_tail
  /\ r_pc = "advance" => buf_tail # buf_head
  /\ r_pc = "read" => buf_tail = NextIndex(r_tail)
  /\ r_pc = "count" => NumItems(r_head, buf_tail) <= NumItems(buf_head, buf_tail)

QueueInv == QueueTypeOK /\ WriterInStep /\ ReaderInStep /\ CountReliable
=============================================================================
