---------------------------- MODULE BoundedFifo ----------------------------
(***************************************************************************)
(* What queue<T, N> (src/include/queue.h) promises one reader and one      *)
(* writer: first in, first out, at most N items, and each call takes       *)
(* effect at one instant between its start and its end.  SpscQueue.tla     *)
(* implements this specification.                                          *)
(***************************************************************************)
EXTENDS Naturals, Sequences

CONSTANTS
  N,       \* maximum number of items
  Items,   \* items added
  NoItem   \* T(), what pop_item returns if there is none

VARIABLES
  queue,   \* the items
  adding,  \* item of the add_item under way, or NoItem
  rd,      \* pop_item: "idle", "called", or "took" until it returns
  got      \* what pop_item returns, or has returned last

fifoVars == <<queue, adding, rd, got>>

FifoInit == queue = <<>> /\ adding = NoItem /\ rd = "idle" /\ got = NoItem

StartAdd(x) == adding = NoItem /\ adding' = x /\ UNCHANGED <<queue, rd, got>>

Add == /\ adding # NoItem /\ Len(queue) < N
       /\ queue' = Append(queue, adding) /\ adding' = NoItem
       /\ UNCHANGED <<rd, got>>

Drop == /\ adding # NoItem /\ Len(queue) = N
        /\ adding' = NoItem
        /\ UNCHANGED <<queue, rd, got>>

StartPop == rd = "idle" /\ rd' = "called" /\ UNCHANGED <<queue, adding, got>>

Take == /\ rd = "called" /\ queue # <<>>
        /\ got' = Head(queue) /\ queue' = Tail(queue) /\ rd' = "took"
        /\ UNCHANGED adding

Empty == /\ rd = "called" /\ queue = <<>>
         /\ got' = NoItem /\ rd' = "idle"
         /\ UNCHANGED <<queue, adding>>

Return == rd = "took" /\ rd' = "idle" /\ UNCHANGED <<queue, adding, got>>

Clear == /\ adding = NoItem /\ rd = "idle"
         /\ queue' = <<>>
         /\ UNCHANGED <<adding, rd, got>>

FifoNext ==
  \/ \E x \in Items : StartAdd(x)
  \/ Add \/ Drop \/ StartPop \/ Take \/ Empty \/ Return \/ Clear

FifoSpec == FifoInit /\ [][FifoNext]_fifoVars
=============================================================================
