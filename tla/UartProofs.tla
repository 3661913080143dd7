------------------------------ MODULE UartProofs ------------------------------
(***************************************************************************)
(* Proofs about UartTx: for every size of buffer and chunk, program and    *)
(* DMA interrupt never both start a transfer, never leave it to each other *)
(* and stay inside the buffer, and what leaves is the stream of bytes that *)
(* ByteStream promises.                                                    *)
(***************************************************************************)
EXTENDS UartTx, SequenceTheorems, TLAPS

Positions == 0 .. BufLen - 1

(* What a transfer covers lies between tail and the end of the buffer. *)
TransferInStep ==
  /\ dma_on => /\ dma_pos >= tx_buf_tail
               /\ dma_pos + dma_left = tx_buf_tail + tx_size
  /\ tx_buf_tail + tx_size <= BufLen

(* What is being copied fits. *)
CopyFits ==
  /\ t_size <= Len(t_data) \/ t_pc \in {"idle", "room"}
  /\ t_pc = "copy" => tx_buf_head + t_size <= BufLen /\ t_copied <= t_size

(* OneTransfer needs to know that nobody forgets the ring after the        *)
(* program has found a transfer running, or has started one.               *)
NobodyForgets ==
  /\ t_pc = "rest" /\ tx_buf_head # tx_buf_tail => dma_on
  /\ t_pc = "dma" => tx_size # 0

UartInv == UartTypeOK /\ OneTransfer /\ TransferInStep /\ CopyFits /\ NobodyForgets

-----------------------------------------------------------------------------
(* The index arithmetic *)

LEMMA LeastIsInt ==
  ASSUME NEW a \in Int, NEW b \in Int
  PROVE  Least(a, b) \in Int /\ Least(a, b) <= a /\ Least(a, b) <= b
         /\ (Least(a, b) = a \/ Least(a, b) = b)
BY DEF Least

LEMMA WrappedIsPosition ==
  ASSUME UartAssumption, NEW i \in 0 .. BufLen
  PROVE  Wrapped(i) \in Positions
BY DEF UartAssumption, Positions, Wrapped

LEMMA RoomFits ==
  ASSUME UartAssumption, NEW tail \in Positions, NEW head \in Positions
  PROVE  Room(tail, head) \in Nat /\ head + Room(tail, head) <= BufLen
BY DEF UartAssumption, Positions, Room

(* A chunk is never empty and ends within the buffer. *)
LEMMA ChunkFits ==
  ASSUME UartAssumption, NEW tail \in Positions, NEW head \in Positions
  PROVE  Chunk(tail, head) \in 1 .. MaxChunk /\ tail + Chunk(tail, head) <= BufLen
<1> DEFINE upTo == (IF head <= tail THEN BufLen ELSE head) - tail
<1>1. upTo \in Int /\ upTo >= 1 /\ tail + upTo <= BufLen
  BY DEF UartAssumption, Positions
<1>2. MaxChunk \in Int /\ MaxChunk >= 1 /\ BufLen \in Int /\ tail \in Int
  BY DEF UartAssumption, Positions
<1>3. Chunk(tail, head) = Least(upTo, MaxChunk)
  BY DEF Chunk
<1> HIDE DEF upTo
<1>4. /\ Least(upTo, MaxChunk) \in Int /\ Least(upTo, MaxChunk) <= upTo
      /\ Least(upTo, MaxChunk) <= MaxChunk
      /\ (Least(upTo, MaxChunk) = upTo \/ Least(upTo, MaxChunk) = MaxChunk)
  BY <1>1, <1>2, LeastIsInt
<1>5. QED  BY <1>1, <1>2, <1>3, <1>4

-----------------------------------------------------------------------------
(* The inductive invariant *)

LEMMA UartInitInv == ASSUME UartAssumption, UartInit PROVE UartInv
BY DEF UartAssumption, UartInit, UartInv, UartTypeOK, OneTransfer, TransferInStep,
       CopyFits, NobodyForgets

LEMMA LogKeeps ==
  ASSUME UartAssumption, UartInv, NEW m \in Messages, DebugLog(m)
  PROVE  UartInv'
BY DEF UartAssumption, UartInv, UartTypeOK, OneTransfer, TransferInStep, CopyFits,
       NobodyForgets, DebugLog, ringShared, dma

LEMMA ReadRoomKeeps ==
  ASSUME UartAssumption, UartInv, ReadRoom
  PROVE  UartInv'
<1> DEFINE room == Room(tx_buf_tail, tx_buf_head)
<1>1. room \in Nat /\ tx_buf_head + room <= BufLen
  BY RoomFits DEF UartInv, UartTypeOK, Positions
<1>2. Len(t_data) \in Nat /\ tx_buf_head \in Nat /\ BufLen \in Nat
  BY DEF UartInv, UartTypeOK, UartAssumption
<1>3. CASE room = 0
  BY <1>2, <1>3 DEF UartAssumption, UartInv, UartTypeOK, OneTransfer, TransferInStep, CopyFits,
       NobodyForgets, ReadRoom, ringShared, dma
<1>4. CASE room # 0
  <2>1. Least(Len(t_data), room) \in 0 .. BufLen
        /\ Least(Len(t_data), room) <= Len(t_data) /\ Least(Len(t_data), room) <= room
    <3>1. Len(t_data) \in Int /\ room \in Int
      BY <1>1, <1>2
    <3> HIDE DEF room
    <3>2. /\ Least(Len(t_data), room) \in Int
          /\ Least(Len(t_data), room) <= Len(t_data) /\ Least(Len(t_data), room) <= room
          /\ (Least(Len(t_data), room) = Len(t_data) \/ Least(Len(t_data), room) = room)
      BY <3>1, LeastIsInt
    <3>3. QED  BY <1>1, <1>2, <3>2
  <2>2. /\ t_pc = "room" /\ t_pc' = "copy" /\ t_size' = Least(Len(t_data), room)
        /\ t_copied' = 0 /\ UNCHANGED <<t_data, ringShared, dma, wire>>
    BY <1>4 DEF ReadRoom
  <2>3. QED
    BY <1>1, <1>2, <2>1, <2>2 DEF UartInv, UartTypeOK, OneTransfer, TransferInStep, CopyFits,
         NobodyForgets, ringShared, dma
<1>5. QED  BY <1>3, <1>4

LEMMA CopyByteKeeps ==
  ASSUME UartAssumption, UartInv, CopyByte
  PROVE  UartInv'
<1>1. t_data[t_copied + 1] \in Bytes
  BY DEF UartInv, UartTypeOK, CopyFits, CopyByte
<1>2. tx_buf' \in [0 .. BufLen - 1 -> Bytes \cup {"idle"}]
  BY <1>1 DEF UartInv, UartTypeOK, CopyByte
<1>3. UartTypeOK'
  BY <1>2 DEF UartAssumption, UartInv, UartTypeOK, CopyFits, CopyByte, dma
<1>4. QED
  BY <1>3 DEF UartInv, UartTypeOK, OneTransfer, TransferInStep, CopyFits, NobodyForgets,
              CopyByte, dma

LEMMA PublishHeadKeeps ==
  ASSUME UartAssumption, UartInv, PublishHead
  PROVE  UartInv'
<1>1. tx_buf_head + t_size \in 0 .. BufLen
  BY DEF UartAssumption, UartInv, UartTypeOK, CopyFits, PublishHead
<1>2. tx_buf_head' \in 0 .. BufLen - 1
  BY <1>1, WrappedIsPosition DEF PublishHead, Positions
<1>3. QED
  BY <1>2 DEF UartInv, UartTypeOK, OneTransfer, TransferInStep, CopyFits, NobodyForgets,
              PublishHead, dma

LEMMA CheckBusyKeeps ==
  ASSUME UartAssumption, UartInv, CheckBusy
  PROVE  UartInv'
BY DEF UartInv, UartTypeOK, OneTransfer, TransferInStep, CopyFits, NobodyForgets,
       CheckBusy, Busy, ringShared, dma

LEMMA SetSizeKeeps ==
  ASSUME UartAssumption, UartInv, SetSize
  PROVE  UartInv'
<1>1. tx_size' \in 1 .. MaxChunk /\ tx_buf_tail + tx_size' <= BufLen
  BY ChunkFits DEF UartInv, UartTypeOK, Positions, SetSize
<1>2. QED
  BY <1>1 DEF UartAssumption, UartInv, UartTypeOK, OneTransfer, TransferInStep, CopyFits,
              NobodyForgets, SetSize, dma

LEMMA StartTransferKeeps ==
  ASSUME UartAssumption, UartInv, StartTransfer
  PROVE  UartInv'
BY DEF UartAssumption, UartInv, UartTypeOK, OneTransfer, TransferInStep, CopyFits,
       NobodyForgets, StartTransfer, StartDma, ringShared

LEMMA TransmitRestKeeps ==
  ASSUME UartAssumption, UartInv, TransmitRest
  PROVE  UartInv'
<1>1. Rest \in Seq(Bytes)
  BY DEF UartInv, UartTypeOK, Rest
<1>2. QED
  BY <1>1 DEF UartInv, UartTypeOK, OneTransfer, TransferInStep, CopyFits, NobodyForgets,
              TransmitRest, ringShared, dma

LEMMA SendByteKeeps ==
  ASSUME UartAssumption, UartInv, SendByte
  PROVE  UartInv'
<1>1. dma_pos \in 0 .. BufLen - 1 /\ dma_pos' \in 0 .. BufLen /\ dma_left' \in 0 .. MaxChunk
  BY DEF UartAssumption, UartInv, UartTypeOK, TransferInStep, SendByte
<1>2. wire' \in Bytes \cup {"idle"}
  BY <1>1 DEF UartInv, UartTypeOK, SendByte
<1>3. /\ dma_on /\ dma_pos' = dma_pos + 1 /\ dma_left' = dma_left - 1
      /\ UNCHANGED <<dma_on, tx_buf, tx_buf_head, tx_buf_tail, tx_size, t_pc, t_data, t_size, t_copied>>
  BY DEF SendByte, ringShared, transmit
<1>4. UartTypeOK'
  BY <1>1, <1>2, <1>3 DEF UartInv, UartTypeOK
<1>5. TransferInStep'
  BY <1>1, <1>3 DEF UartAssumption, UartInv, UartTypeOK, TransferInStep
<1>6. QED
  BY <1>3, <1>4, <1>5 DEF UartInv, OneTransfer, CopyFits, NobodyForgets

LEMMA TxCompleteKeeps ==
  ASSUME UartAssumption, UartInv, TxComplete
  PROVE  UartInv'
<1>1. tx_buf_tail + tx_size \in 0 .. BufLen
  BY DEF UartAssumption, UartInv, UartTypeOK, TransferInStep, TxComplete
<1>2. tx_buf_tail' \in Positions
  BY <1>1, WrappedIsPosition DEF TxComplete
<1>3. dma_on /\ t_pc \notin {"size", "dma"}
  BY DEF UartInv, OneTransfer, TxComplete
<1>4. CASE tx_buf_head = tx_buf_tail'
  BY <1>2, <1>3, <1>4 DEF UartAssumption, Positions, UartInv, UartTypeOK, OneTransfer,
       TransferInStep, CopyFits, NobodyForgets, TxComplete, NextTransfer, transmit
<1>5. CASE tx_buf_head # tx_buf_tail'
  <2>1. /\ tx_size' = Chunk(tx_buf_tail', tx_buf_head)
        /\ dma_on' = TRUE /\ dma_pos' = tx_buf_tail' /\ dma_left' = tx_size'
        /\ UNCHANGED <<tx_buf, tx_buf_head, transmit, wire>>
    BY <1>5 DEF TxComplete, NextTransfer, StartDma
  <2>2. tx_size' \in 1 .. MaxChunk /\ tx_buf_tail' + tx_size' <= BufLen
    BY <1>2, <2>1, ChunkFits DEF UartInv, UartTypeOK, Positions
  <2>3. QED
    BY <1>2, <1>3, <2>1, <2>2 DEF UartAssumption, Positions, UartInv, UartTypeOK, OneTransfer,
         TransferInStep, CopyFits, NobodyForgets, transmit
<1>6. QED  BY <1>4, <1>5

LEMMA UartStepInv == ASSUME UartAssumption, UartInv, [UartNext]_uartVars PROVE UartInv'
<1>1. ASSUME NEW m \in Messages, DebugLog(m) PROVE UartInv'
  BY <1>1, LogKeeps
<1>2. CASE ReadRoom       BY <1>2, ReadRoomKeeps
<1>3. CASE CopyByte       BY <1>3, CopyByteKeeps
<1>4. CASE PublishHead    BY <1>4, PublishHeadKeeps
<1>5. CASE CheckBusy      BY <1>5, CheckBusyKeeps
<1>6. CASE SetSize        BY <1>6, SetSizeKeeps
<1>7. CASE StartTransfer  BY <1>7, StartTransferKeeps
<1>8. CASE TransmitRest   BY <1>8, TransmitRestKeeps
<1>9. CASE SendByte       BY <1>9, SendByteKeeps
<1>10. CASE TxComplete    BY <1>10, TxCompleteKeeps
<1>11. CASE UNCHANGED uartVars
  BY <1>11 DEF UartInv, UartTypeOK, OneTransfer, TransferInStep, CopyFits, NobodyForgets,
               uartVars, ringShared, transmit, dma
<1>12. QED
  BY <1>1, <1>2, <1>3, <1>4, <1>5, <1>6, <1>7, <1>8, <1>9, <1>10, <1>11 DEF UartNext, Transmit

(* The inductive invariant of ring, program and interrupt *)
THEOREM UartInvariance == UartSpec => []UartInv
<1>1. UartInit => UartInv
  BY UartInitInv, UartAssumption
<1>2. UartInv /\ [UartNext]_uartVars => UartInv'
  BY UartStepInv, UartAssumption
<1>3. QED  BY <1>1, <1>2, PTL DEF UartSpec

(* "0 <= head < buf_len, 0 <= tail < buf_len" (pd_debug.cpp:30), and the   *)
(* DMA stays within the buffer (UartTypeOK).                               *)
THEOREM UartTypes == UartSpec => []UartTypeOK
<1>1. UartInv => UartTypeOK
  BY DEF UartInv
<1>2. QED  BY <1>1, UartInvariance, PTL

(* Program and interrupt never both start a transfer, nor leave it to each *)
(* other (OneTransfer).                                                    *)
THEOREM OneTransferHolds == UartSpec => []OneTransfer
<1>1. UartInv => OneTransfer
  BY DEF UartInv
<1>2. QED  BY <1>1, UartInvariance, PTL

-----------------------------------------------------------------------------
(* The ring's contents *)

Values == Bytes \cup {"idle"}

(* Where the i-th byte from position from on is, and the bytes up to head *)
Place(from, i) == IF from + i - 1 >= BufLen THEN from + i - 1 - BufLen ELSE from + i - 1
Ring(buf, from, head) == [i \in 1 .. Count(from, head) |-> buf[Place(from, i)]]

LEMMA CountFits ==
  ASSUME UartAssumption, NEW from \in Positions, NEW head \in Positions
  PROVE  Count(from, head) \in 0 .. BufLen - 1 /\ (Count(from, head) = 0 <=> from = head)
BY DEF UartAssumption, Positions, Count

LEMMA PlaceFits ==
  ASSUME UartAssumption, NEW from \in Positions, NEW i \in 1 .. BufLen
  PROVE  Place(from, i) \in Positions
BY DEF UartAssumption, Positions, Place

LEMMA RingIs ==
  ASSUME UartAssumption, NEW buf \in [Positions -> Values],
         NEW from \in Positions, NEW head \in Positions
  PROVE  /\ Ring(buf, from, head) \in Seq(Values)
         /\ Len(Ring(buf, from, head)) = Count(from, head)
         /\ \A i \in 1 .. Count(from, head) : Ring(buf, from, head)[i] = buf[Place(from, i)]
<1> DEFINE n == Count(from, head)
<1>1. n \in Nat /\ n < BufLen /\ BufLen \in Nat
  BY CountFits DEF UartAssumption
<1> HIDE DEF n
<1>2. \A i \in 1 .. n : buf[Place(from, i)] \in Values
  <2> SUFFICES ASSUME NEW i \in 1 .. n PROVE buf[Place(from, i)] \in Values
    OBVIOUS
  <2>1. Place(from, i) \in Positions
    BY <1>1, PlaceFits
  <2> QED BY <2>1
<1>3. Ring(buf, from, head) = [i \in 1 .. n |-> buf[Place(from, i)]]
  BY DEF Ring, n
<1> QED BY <1>1, <1>2, <1>3 DEF n

(* The oldest bytes have gone; how many, and when it is one, which. *)
LEMMA CountTaken ==
  ASSUME UartAssumption, NEW from \in Positions, NEW head \in Positions,
         NEW k \in 0 .. Count(from, head), from + k <= BufLen
  PROVE  Count(Wrapped(from + k), head) = Count(from, head) - k
BY DEF UartAssumption, Positions, Count, Wrapped

LEMMA RingTaken ==
  ASSUME UartAssumption, NEW buf \in [Positions -> Values],
         NEW from \in Positions, NEW head \in Positions, Count(from, head) # 0
  PROVE  /\ Ring(buf, from, head) # <<>>
         /\ Head(Ring(buf, from, head)) = buf[from]
         /\ Ring(buf, Wrapped(from + 1), head) = Tail(Ring(buf, from, head))
<1> DEFINE n == Count(from, head)
           next == Wrapped(from + 1)
           s == Ring(buf, from, head)
           r == Ring(buf, next, head)
<1>1. n \in Nat \ {0} /\ from + 1 <= BufLen /\ n < BufLen /\ BufLen \in Nat /\ 1 \in 0 .. n
  <2>1. n \in 0 .. BufLen - 1 /\ n # 0
    BY CountFits
  <2> HIDE DEF n
  <2> QED BY <2>1 DEF UartAssumption, Positions
<1>2. next \in Positions /\ Count(next, head) = n - 1
  <2>1. from + 1 \in 0 .. BufLen
    BY <1>1 DEF Positions
  <2> QED BY <1>1, <2>1, WrappedIsPosition, CountTaken
<1>3. s \in Seq(Values) /\ Len(s) = n /\ \A i \in 1 .. n : s[i] = buf[Place(from, i)]
  BY RingIs
<1> HIDE DEF n
<1>4. r \in Seq(Values) /\ Len(r) = n - 1 /\ \A i \in 1 .. n - 1 : r[i] = buf[Place(next, i)]
  <2> HIDE DEF next
  <2>1. r \in Seq(Values) /\ Len(r) = Count(next, head)
        /\ \A i \in 1 .. Count(next, head) : r[i] = buf[Place(next, i)]
    BY <1>2, RingIs
  <2> QED BY <1>2, <2>1
<1>5. \A i \in 1 .. n - 1 : Place(next, i) = Place(from, i + 1)
  BY <1>1 DEF UartAssumption, Positions, Place, Wrapped
<1>6. Place(from, 1) = from
  BY DEF UartAssumption, Positions, Place
<1> HIDE DEF s, r, next
<1>7. s # <<>>
  BY <1>1, <1>3
<1>8. Head(s) = buf[from]
  BY <1>1, <1>3, <1>6
<1>9. /\ Tail(s) \in Seq(Values) /\ Len(Tail(s)) = n - 1
      /\ \A i \in 1 .. n - 1 : Tail(s)[i] = s[i + 1]
  BY <1>1, <1>3, <1>7
<1>10. \A i \in 1 .. n - 1 : r[i] = Tail(s)[i]
  <2> SUFFICES ASSUME NEW i \in 1 .. n - 1 PROVE r[i] = Tail(s)[i]
    OBVIOUS
  <2>1. i + 1 \in 1 .. n
    BY <1>1
  <2> QED BY <1>3, <1>4, <1>5, <1>9, <2>1
<1>11. r = Tail(s)
  BY <1>4, <1>9, <1>10, SeqEqual
<1> QED BY <1>7, <1>8, <1>11 DEF r, s, next

(* Bytes behind the head do not matter, until the head moves past them. *)
LEMMA RingUntouched ==
  ASSUME UartAssumption, NEW buf \in [Positions -> Values],
         NEW from \in Positions, NEW head \in Positions,
         NEW c \in 0 .. BufLen - 1 - Count(from, head), head + c < BufLen,
         NEW other, \A p \in Positions \ {head + c} : other[p] = buf[p]
  PROVE  Ring(other, from, head) = Ring(buf, from, head)
<1>1. \A i \in 1 .. Count(from, head) : Place(from, i) \in Positions /\ Place(from, i) # head + c
  BY DEF UartAssumption, Positions, Place, Count
<1>2. \A i \in 1 .. Count(from, head) : other[Place(from, i)] = buf[Place(from, i)]
  BY <1>1
<1> QED BY <1>2 DEF Ring

LEMMA RingGrows ==
  ASSUME UartAssumption, NEW buf \in [Positions -> Values],
         NEW from \in Positions, NEW head \in Positions,
         NEW data \in Seq(Values), Len(data) # 0,
         Len(data) <= BufLen - 1 - Count(from, head), head + Len(data) <= BufLen,
         \A i \in 1 .. Len(data) : buf[head + i - 1] = data[i]
  PROVE  Ring(buf, from, Wrapped(head + Len(data))) = Ring(buf, from, head) \o data
<1> DEFINE n == Count(from, head)
           k == Len(data)
           next == Wrapped(head + k)
           s == Ring(buf, from, head)
           r == Ring(buf, from, next)
<1>1. n \in Nat /\ n < BufLen /\ k \in Nat \ {0} /\ BufLen \in Nat /\ n + k < BufLen
  BY CountFits DEF UartAssumption
<1>2. next \in Positions /\ Count(from, next) = n + k
  <2> HIDE DEF k
  <2>1. next \in Positions
    BY <1>1 DEF k, UartAssumption, Positions, Wrapped
  <2>2. Count(from, next) = n + k
    BY <1>1 DEF k, UartAssumption, Positions, Wrapped, Count
  <2> QED BY <2>1, <2>2
<1>3. s \in Seq(Values) /\ Len(s) = n /\ \A i \in 1 .. n : s[i] = buf[Place(from, i)]
  BY RingIs
<1>4. r \in Seq(Values) /\ Len(r) = n + k /\ \A i \in 1 .. n + k : r[i] = buf[Place(from, i)]
  <2> HIDE DEF n, k, next
  <2>1. r \in Seq(Values) /\ Len(r) = Count(from, next)
        /\ \A i \in 1 .. Count(from, next) : r[i] = buf[Place(from, i)]
    BY <1>2, RingIs
  <2> QED BY <1>2, <2>1
<1>5. \A i \in 1 .. k : Place(from, n + i) = head + i - 1
  BY <1>1 DEF UartAssumption, Positions, Place, Count
<1>6. /\ s \o data \in Seq(Values) /\ Len(s \o data) = n + k
      /\ \A i \in 1 .. n + k : (s \o data)[i] = IF i <= n THEN s[i] ELSE data[i - n]
  <2> HIDE DEF s
  <2>1. /\ s \o data \in Seq(Values) /\ Len(s \o data) = Len(s) + Len(data)
        /\ \A i \in 1 .. Len(s) + Len(data) :
             (s \o data)[i] = IF i <= Len(s) THEN s[i] ELSE data[i - Len(s)]
    BY ONLY <1>3, data \in Seq(Values), ConcatProperties, ZenonT(40)
  <2> QED BY <1>3, <2>1
<1> HIDE DEF n, s, r, next
<1>7. ASSUME NEW i \in 1 .. n + k PROVE r[i] = (s \o data)[i]
  <2> HIDE DEF k
  <2>1. CASE i <= n
    <3>1. i \in 1 .. n
      BY <1>1, <2>1
    <3>2. r[i] = s[i]
      BY <1>3, <1>4, <3>1
    <3> QED BY <1>6, <2>1, <3>2
  <2>2. CASE i > n
    <3>1. PICK j \in 1 .. k : j = i - n /\ i = n + j
      <4>1. i - n \in 1 .. k /\ i = n + (i - n)
        BY <1>1, <2>2
      <4> QED BY <4>1
    <3>2. r[i] = buf[head + j - 1]
      BY <1>4, <1>5, <3>1
    <3>3. (s \o data)[i] = data[j]
      <4>1. ~(i <= n)
        BY <1>1, <2>2
      <4> QED BY <1>6, <3>1, <4>1
    <3>4. buf[head + j - 1] = data[j]
      BY <3>1 DEF k
    <3> QED BY <3>2, <3>3, <3>4
  <2>3. i <= n \/ i > n
    BY <1>1
  <2> QED BY <2>1, <2>2, <2>3
<1>8. r = s \o data
  BY <1>4, <1>6, <1>7, SeqEqual
<1> QED BY <1>8 DEF r, s, next

-----------------------------------------------------------------------------
(* Ring, transfer and message as a stream *)

(* What a transfer covers is in the ring; what is copied fits behind the   *)
(* head even before the bytes in front of the tail have been sent, and the *)
(* bytes copied so far are there.                                          *)
StreamInv ==
  /\ t_pc \in {"room", "copy"} => t_data # <<>>
  /\ tx_size <= Count(tx_buf_tail, tx_buf_head)
  /\ t_pc = "copy" =>
       /\ t_size # 0 /\ t_size <= BufLen - 1 - Count(tx_buf_tail, tx_buf_head)
       /\ \A i \in 1 .. t_copied : tx_buf[tx_buf_head + i - 1] = t_data[i]

LEMMA RoomIsFree ==
  ASSUME UartAssumption, NEW tail \in Positions, NEW head \in Positions
  PROVE  /\ Room(tail, head) <= BufLen - 1 - Count(tail, head)
         /\ Room(tail, head) = 0 => Count(tail, head) = BufLen - 1
BY DEF UartAssumption, Positions, Room, Count

LEMMA ChunkIsThere ==
  ASSUME UartAssumption, NEW tail \in Positions, NEW head \in Positions, head # tail
  PROVE  Chunk(tail, head) <= Count(tail, head)
<1> DEFINE upTo == (IF head <= tail THEN BufLen ELSE head) - tail
<1>1. upTo \in Int /\ upTo <= Count(tail, head) /\ MaxChunk \in Int /\ Count(tail, head) \in Int
  BY DEF UartAssumption, Positions, Count
<1>2. Chunk(tail, head) = Least(upTo, MaxChunk)
  BY DEF Chunk
<1> HIDE DEF upTo
<1>3. Least(upTo, MaxChunk) \in Int /\ Least(upTo, MaxChunk) <= upTo
  BY <1>1, LeastIsInt
<1> QED BY <1>1, <1>2, <1>3

LEMMA CopyKeepsStream ==
  ASSUME UartAssumption, UartInv, StreamInv, CopyByte
  PROVE  StreamInv'
<1>1. /\ tx_buf \in [Positions -> Values] /\ tx_buf_head \in Positions
      /\ t_copied \in Nat /\ t_size \in Nat /\ tx_buf_head + t_size <= BufLen /\ BufLen \in Nat
  BY DEF UartInv, UartTypeOK, CopyFits, CopyByte, Positions, Values, UartAssumption
<1>2. t_copied < t_size /\ tx_buf_head + t_copied \in Positions
  BY <1>1 DEF CopyByte, Positions
<1>3. /\ t_pc = "copy" /\ t_pc' = "copy" /\ t_copied' = t_copied + 1
      /\ tx_buf' = [tx_buf EXCEPT ![tx_buf_head + t_copied] = t_data[t_copied + 1]]
      /\ UNCHANGED <<t_data, t_size, tx_buf_head, tx_buf_tail, tx_size>>
  BY DEF CopyByte
<1>4. ASSUME NEW i \in 1 .. t_copied + 1 PROVE tx_buf'[tx_buf_head + i - 1] = t_data[i]
  <2>1. tx_buf_head + i - 1 \in Positions
    BY <1>1, <1>2 DEF Positions
  <2>2. CASE i = t_copied + 1
    <3>1. tx_buf_head + i - 1 = tx_buf_head + t_copied
      BY <1>1, <2>2 DEF Positions
    <3> QED BY <1>1, <1>3, <2>1, <2>2, <3>1
  <2>3. CASE i # t_copied + 1
    <3>1. i \in 1 .. t_copied /\ tx_buf_head + i - 1 # tx_buf_head + t_copied
      BY <1>1, <2>3 DEF Positions
    <3> QED BY <1>1, <1>3, <2>1, <3>1 DEF StreamInv
  <2> QED BY <2>2, <2>3
<1> QED BY <1>3, <1>4 DEF StreamInv

LEMMA StreamStepInv ==
  ASSUME UartAssumption, UartInv, StreamInv, [UartNext]_uartVars
  PROVE  StreamInv'
<1>0. /\ tx_buf_head \in Positions /\ tx_buf_tail \in Positions /\ tx_size \in Nat
      /\ BufLen \in Nat /\ t_data \in Seq(Bytes)
  BY DEF UartInv, UartTypeOK, Positions, UartAssumption
<1>1. ASSUME NEW m \in Messages, DebugLog(m) PROVE StreamInv'
  <2>1. m # <<>>
    BY DEF UartAssumption
  <2> QED BY <1>1, <2>1 DEF StreamInv, DebugLog, ringShared
<1>2. CASE ReadRoom
  <2> DEFINE room == Room(tx_buf_tail, tx_buf_head)
  <2>1. room \in Nat /\ room <= BufLen - 1 - Count(tx_buf_tail, tx_buf_head)
    BY <1>0, RoomFits, RoomIsFree
  <2>2. Count(tx_buf_tail, tx_buf_head) \in Nat
    BY <1>0, CountFits
  <2> HIDE DEF room
  <2>3. Len(t_data) \in Nat \ {0} /\ Len(t_data) \in Int /\ room \in Int
    BY <1>0, <1>2, <2>1 DEF StreamInv, ReadRoom
  <2>4. CASE room = 0
    BY <1>2, <2>4 DEF StreamInv, ReadRoom, ringShared, room
  <2>5. CASE room # 0
    <3>1. /\ t_size' = Least(Len(t_data), room) /\ t_copied' = 0 /\ t_pc' = "copy" /\ t_pc = "room"
          /\ UNCHANGED <<t_data, ringShared>>
      BY <1>2, <2>5 DEF ReadRoom, room
    <3>2. /\ Least(Len(t_data), room) <= room
          /\ Least(Len(t_data), room) = Len(t_data) \/ Least(Len(t_data), room) = room
      BY <2>3, LeastIsInt
    <3>3. t_size' # 0 /\ t_size' <= BufLen - 1 - Count(tx_buf_tail, tx_buf_head)
      BY <1>0, <2>1, <2>2, <2>3, <2>5, <3>1, <3>2
    <3> QED BY <3>1, <3>3 DEF StreamInv, ringShared
  <2> QED BY <2>4, <2>5
<1>3. CASE CopyByte
  BY <1>3, CopyKeepsStream
<1>4. CASE PublishHead
  <2>1. /\ t_size \in Nat /\ tx_buf_head + t_size <= BufLen
        /\ t_size <= BufLen - 1 - Count(tx_buf_tail, tx_buf_head)
    BY <1>4 DEF UartInv, UartTypeOK, CopyFits, StreamInv, PublishHead
  <2>2. Count(tx_buf_tail, Wrapped(tx_buf_head + t_size)) = Count(tx_buf_tail, tx_buf_head) + t_size
    BY <1>0, <2>1 DEF UartAssumption, Positions, Count, Wrapped
  <2>3. tx_size <= Count(tx_buf_tail, tx_buf_head) + t_size
    <3>1. Count(tx_buf_tail, tx_buf_head) \in Nat /\ tx_size <= Count(tx_buf_tail, tx_buf_head)
      BY <1>0, CountFits DEF StreamInv
    <3> QED BY <1>0, <2>1, <3>1
  <2> QED BY <1>4, <2>2, <2>3 DEF StreamInv, PublishHead
<1>5. CASE CheckBusy
  BY <1>5 DEF StreamInv, CheckBusy, ringShared
<1>6. CASE SetSize
  <2>1. tx_buf_head # tx_buf_tail
    BY <1>6 DEF UartInv, OneTransfer, SetSize
  <2>2. Chunk(tx_buf_tail, tx_buf_head) <= Count(tx_buf_tail, tx_buf_head)
    BY <1>0, <2>1, ChunkIsThere
  <2> QED BY <1>6, <2>2 DEF StreamInv, SetSize
<1>7. CASE StartTransfer
  BY <1>7 DEF StreamInv, StartTransfer, ringShared
<1>8. CASE TransmitRest
  BY <1>8 DEF StreamInv, TransmitRest, ringShared
<1>9. CASE SendByte
  BY <1>9 DEF StreamInv, SendByte, ringShared, transmit
<1>10. CASE TxComplete
  <2>1. /\ tx_size \in 0 .. Count(tx_buf_tail, tx_buf_head) /\ tx_buf_tail + tx_size <= BufLen
        /\ Count(tx_buf_tail, tx_buf_head) \in Nat
    BY <1>0, CountFits DEF UartInv, TransferInStep, StreamInv
  <2>2. tx_buf_tail' = Wrapped(tx_buf_tail + tx_size) /\ UNCHANGED <<tx_buf, tx_buf_head, transmit>>
    BY <1>10 DEF TxComplete
  <2>3. Count(tx_buf_tail', tx_buf_head) = Count(tx_buf_tail, tx_buf_head) - tx_size
    BY <1>0, <2>1, <2>2, CountTaken
  <2>4. tx_buf_tail' \in Positions
    <3>1. tx_buf_tail + tx_size \in 0 .. BufLen
      BY <1>0, <2>1 DEF Positions
    <3> QED BY <2>2, <3>1, WrappedIsPosition
  <2>5. tx_size' <= Count(tx_buf_tail', tx_buf_head)
    <3>1. CASE tx_buf_head = tx_buf_tail'
      <4>1. tx_size' = 0 /\ Count(tx_buf_tail', tx_buf_head) = 0
        BY <1>0, <1>10, <2>4, <3>1, CountFits DEF TxComplete, NextTransfer
      <4> QED BY <4>1
    <3>2. CASE tx_buf_head # tx_buf_tail'
      <4>1. tx_size' = Chunk(tx_buf_tail', tx_buf_head)
        BY <1>10, <3>2 DEF TxComplete, NextTransfer
      <4> QED BY <1>0, <2>4, <3>2, <4>1, ChunkIsThere
    <3> QED BY <3>1, <3>2
  <2>6. ASSUME t_pc = "copy" PROVE t_size <= BufLen - 1 - Count(tx_buf_tail', tx_buf_head)
    <3>1. t_size <= BufLen - 1 - Count(tx_buf_tail, tx_buf_head) /\ t_size \in Nat
      BY <2>6 DEF StreamInv, UartInv, UartTypeOK
    <3> QED BY <1>0, <2>1, <2>3, <3>1
  <2> QED BY <2>2, <2>5, <2>6 DEF StreamInv, transmit
<1>11. CASE UNCHANGED uartVars
  BY <1>11 DEF StreamInv, uartVars, ringShared, transmit
<1> QED BY <1>1, <1>2, <1>3, <1>4, <1>5, <1>6, <1>7, <1>8, <1>9, <1>10, <1>11 DEF UartNext, Transmit

(* What is waiting, and from where on *)
LEMMA SentUpToIs ==
  ASSUME UartAssumption, UartInv, StreamInv
  PROVE  /\ SentUpTo \in Positions
         /\ Waiting = Ring(tx_buf, SentUpTo, tx_buf_head)
         /\ Count(SentUpTo, tx_buf_head) <= Count(tx_buf_tail, tx_buf_head)
         /\ Count(SentUpTo, tx_buf_head) >= Count(tx_buf_tail, tx_buf_head) - MaxChunk
         /\ dma_on => Count(SentUpTo, tx_buf_head) >= dma_left
<1>1. /\ tx_buf_head \in Positions /\ tx_buf_tail \in Positions /\ tx_size \in 0 .. MaxChunk
      /\ dma_left \in Nat /\ dma_pos \in 0 .. BufLen /\ MaxChunk \in Nat /\ dma_on \in BOOLEAN
  BY DEF UartInv, UartTypeOK, Positions, UartAssumption
<1>2. Count(tx_buf_tail, tx_buf_head) \in Nat
  BY <1>1, CountFits
<1>3. Waiting = Ring(tx_buf, SentUpTo, tx_buf_head)
  BY DEF Waiting, Ring, Place
<1>4. CASE ~dma_on
  BY <1>1, <1>2, <1>3, <1>4 DEF SentUpTo
<1>5. CASE dma_on
  <2>1. PICK k \in 0 .. tx_size : dma_pos = tx_buf_tail + k /\ k + dma_left = tx_size
    <3>1. dma_pos >= tx_buf_tail /\ dma_pos + dma_left = tx_buf_tail + tx_size
      BY <1>5 DEF UartInv, TransferInStep
    <3>2. dma_pos - tx_buf_tail \in 0 .. tx_size /\ dma_pos = tx_buf_tail + (dma_pos - tx_buf_tail)
          /\ (dma_pos - tx_buf_tail) + dma_left = tx_size
      BY <1>1, <3>1 DEF Positions
    <3> QED BY <3>2
  <2>2. SentUpTo = Wrapped(tx_buf_tail + k)
    BY <1>5, <2>1 DEF SentUpTo
  <2>3. k \in 0 .. Count(tx_buf_tail, tx_buf_head) /\ tx_buf_tail + k <= BufLen
        /\ tx_size <= Count(tx_buf_tail, tx_buf_head)
    BY <1>1, <1>2, <2>1 DEF StreamInv
  <2>4. Count(SentUpTo, tx_buf_head) = Count(tx_buf_tail, tx_buf_head) - k
    BY <1>1, <2>2, <2>3, CountTaken
  <2>5. SentUpTo \in Positions
    <3>1. tx_buf_tail + k \in 0 .. BufLen
      BY <1>1, <2>1
    <3> QED BY <2>2, <3>1, WrappedIsPosition
  <2> QED BY <1>1, <1>2, <1>3, <2>1, <2>3, <2>4, <2>5
<1> QED BY <1>4, <1>5

LEMMA StreamTypes ==
  ASSUME UartAssumption, UartInv, StreamInv
  PROVE  /\ tx_buf \in [Positions -> Values] /\ tx_buf_head \in Positions /\ tx_buf_tail \in Positions
         /\ BufLen \in Nat \ {0} /\ MaxChunk \in Nat /\ t_data \in Seq(Bytes)
         /\ Count(tx_buf_tail, tx_buf_head) \in 0 .. BufLen - 1
         /\ Count(SentUpTo, tx_buf_head) \in 0 .. BufLen - 1
         /\ Len(Waiting) = Count(SentUpTo, tx_buf_head)
<1>1. /\ tx_buf \in [Positions -> Values] /\ tx_buf_head \in Positions /\ tx_buf_tail \in Positions
      /\ BufLen \in Nat \ {0} /\ MaxChunk \in Nat /\ t_data \in Seq(Bytes)
  BY DEF UartInv, UartTypeOK, Positions, Values, UartAssumption
<1>2. SentUpTo \in Positions /\ Waiting = Ring(tx_buf, SentUpTo, tx_buf_head)
  BY SentUpToIs
<1> QED BY <1>1, <1>2, RingIs, CountFits

(* The message is cut where the ring has no room left. *)
LEMMA ReadRoomStreams ==
  ASSUME UartAssumption, UartInv, StreamInv, ReadRoom
  PROVE  Stream!Cut \/ UNCHANGED Stream!streamVars
<1>1. UNCHANGED <<Waiting, wire>>
  BY DEF ReadRoom, Waiting, SentUpTo, ringShared, dma
<1>2. Unaccepted = t_data
  BY DEF ReadRoom, Unaccepted
<1>3. CASE Room(tx_buf_tail, tx_buf_head) = 0
  <2>1. Unaccepted' = <<>>
    BY <1>3 DEF ReadRoom, Unaccepted
  <2>2. t_data # <<>>
    BY DEF StreamInv, ReadRoom
  <2>3. Count(tx_buf_tail, tx_buf_head) = BufLen - 1
    BY <1>3, StreamTypes, RoomIsFree
  <2>4. Len(Waiting) + MaxChunk >= BufLen - 1
    BY <2>3, StreamTypes, SentUpToIs
  <2> QED BY <1>1, <1>2, <2>1, <2>2, <2>4 DEF Stream!Cut
<1>4. CASE Room(tx_buf_tail, tx_buf_head) # 0
  <2>1. Unaccepted' = t_data
    BY <1>4 DEF ReadRoom, Unaccepted
  <2> QED BY <1>1, <1>2, <2>1 DEF Stream!streamVars
<1> QED BY <1>3, <1>4

LEMMA CopyStreams ==
  ASSUME UartAssumption, UartInv, StreamInv, CopyByte
  PROVE  UNCHANGED Stream!streamVars
<1>1. UNCHANGED <<SentUpTo, tx_buf_head, Unaccepted, wire>>
  BY DEF CopyByte, SentUpTo, Unaccepted, Rest, dma
<1>2. /\ SentUpTo \in Positions /\ tx_buf \in [Positions -> Values] /\ tx_buf_head \in Positions
  BY SentUpToIs, StreamTypes
<1>3. /\ t_copied \in 0 .. BufLen - 1 - Count(SentUpTo, tx_buf_head) /\ tx_buf_head + t_copied < BufLen
  <2>1. /\ t_copied \in Nat /\ t_size \in Nat /\ t_copied < t_size /\ tx_buf_head + t_size <= BufLen
        /\ t_size <= BufLen - 1 - Count(tx_buf_tail, tx_buf_head)
    BY DEF UartInv, UartTypeOK, CopyFits, StreamInv, CopyByte
  <2>2. /\ Count(SentUpTo, tx_buf_head) <= Count(tx_buf_tail, tx_buf_head)
        /\ Count(SentUpTo, tx_buf_head) \in Nat /\ Count(tx_buf_tail, tx_buf_head) \in Nat
        /\ BufLen \in Nat
    BY SentUpToIs, StreamTypes
  <2> QED BY <1>2, <2>1, <2>2 DEF Positions
<1>4. Ring(tx_buf', SentUpTo, tx_buf_head) = Ring(tx_buf, SentUpTo, tx_buf_head)
  <2>1. \A p \in Positions \ {tx_buf_head + t_copied} : tx_buf'[p] = tx_buf[p]
    BY <1>2 DEF CopyByte
  <2> QED BY <1>2, <1>3, <2>1, RingUntouched
<1>5. Waiting' = Waiting
  <2>1. Waiting' = Ring(tx_buf', SentUpTo', tx_buf_head')
    BY DEF Waiting, Ring, Place
  <2> QED BY <1>1, <1>4, <2>1, SentUpToIs
<1> QED BY <1>1, <1>5 DEF Stream!streamVars

(* The bytes copied are accepted when the head moves. *)
LEMMA PublishStreams ==
  ASSUME UartAssumption, UartInv, StreamInv, PublishHead
  PROVE  Stream!Accept
<1> DEFINE k == t_size
           data == SubSeq(t_data, 1, k)
<1>1. UNCHANGED <<SentUpTo, tx_buf, wire, t_data, t_size>>
  BY DEF PublishHead, SentUpTo, dma
<1>2. /\ SentUpTo \in Positions /\ tx_buf \in [Positions -> Values] /\ tx_buf_head \in Positions
      /\ t_data \in Seq(Bytes) /\ t_data \in Seq(Values)
  BY SentUpToIs, StreamTypes DEF Values
<1>3. /\ k \in 1 .. Len(t_data) /\ tx_buf_head + k <= BufLen
      /\ k <= BufLen - 1 - Count(tx_buf_tail, tx_buf_head)
      /\ \A i \in 1 .. k : tx_buf[tx_buf_head + i - 1] = t_data[i]
  BY DEF UartInv, UartTypeOK, CopyFits, StreamInv, PublishHead
<1>4. k <= BufLen - 1 - Count(SentUpTo, tx_buf_head)
  BY <1>3, SentUpToIs, StreamTypes
<1> HIDE DEF k
<1>5. /\ data \in Seq(Values) /\ Len(data) = k
      /\ \A i \in 1 .. k : data[i] = t_data[i]
  BY <1>2, <1>3
<1> HIDE DEF data
<1>6. Ring(tx_buf, SentUpTo, Wrapped(tx_buf_head + k)) = Ring(tx_buf, SentUpTo, tx_buf_head) \o data
  <2>1. /\ Len(data) # 0 /\ Len(data) <= BufLen - 1 - Count(SentUpTo, tx_buf_head)
        /\ tx_buf_head + Len(data) <= BufLen
        /\ \A i \in 1 .. Len(data) : tx_buf[tx_buf_head + i - 1] = data[i]
    BY <1>3, <1>4, <1>5
  <2>2. Ring(tx_buf, SentUpTo, Wrapped(tx_buf_head + Len(data)))
          = Ring(tx_buf, SentUpTo, tx_buf_head) \o data
    <3> DEFINE from == SentUpTo
    <3>1. /\ UartAssumption /\ tx_buf \in [Positions -> Values]
          /\ from \in Positions /\ tx_buf_head \in Positions
          /\ data \in Seq(Values) /\ Len(data) # 0
          /\ Len(data) <= BufLen - 1 - Count(from, tx_buf_head)
          /\ tx_buf_head + Len(data) <= BufLen
          /\ \A i \in 1 .. Len(data) : tx_buf[tx_buf_head + i - 1] = data[i]
      BY <1>2, <1>5, <2>1
    <3> HIDE DEF from
    <3>2. Ring(tx_buf, from, Wrapped(tx_buf_head + Len(data))) = Ring(tx_buf, from, tx_buf_head) \o data
      BY ONLY <3>1, RingGrows, ZenonT(60)
    <3> QED BY <3>2 DEF from
  <2> QED BY <1>5, <2>2
<1>7. Waiting' = Waiting \o data
  <2>1. Waiting' = Ring(tx_buf', SentUpTo', tx_buf_head')
    BY DEF Waiting, Ring, Place
  <2> QED BY <1>1, <1>6, <2>1, SentUpToIs DEF PublishHead, k
<1>8. Unaccepted = t_data /\ Unaccepted' = SubSeq(t_data, k + 1, Len(t_data))
  BY DEF PublishHead, Unaccepted, Rest, k
<1>9. Len(Waiting) + k <= BufLen - 1
  BY <1>3, <1>4, StreamTypes
<1> QED BY <1>1, <1>3, <1>7, <1>8, <1>9 DEF Stream!Accept, data

LEMMA SendStreams ==
  ASSUME UartAssumption, UartInv, StreamInv, SendByte
  PROVE  Stream!Send
<1>1. UNCHANGED <<tx_buf, tx_buf_head, Unaccepted>>
  BY DEF SendByte, Unaccepted, Rest, ringShared, transmit
<1>2. dma_pos \in Positions
  BY DEF UartInv, UartTypeOK, TransferInStep, SendByte, Positions, UartAssumption
<1>3. SentUpTo = dma_pos /\ SentUpTo' = Wrapped(dma_pos + 1)
  BY <1>2 DEF SendByte, SentUpTo, Wrapped, Positions, UartAssumption
<1>4. Count(dma_pos, tx_buf_head) # 0
  BY <1>3, SentUpToIs, StreamTypes DEF SendByte, UartInv, UartTypeOK
<1>5. /\ Waiting # <<>> /\ Head(Waiting) = tx_buf[dma_pos]
      /\ Ring(tx_buf, Wrapped(dma_pos + 1), tx_buf_head) = Tail(Waiting)
  <2>1. Waiting = Ring(tx_buf, dma_pos, tx_buf_head)
    BY <1>3, SentUpToIs
  <2>2. tx_buf \in [Positions -> Values] /\ tx_buf_head \in Positions
    BY StreamTypes
  <2> QED BY <1>2, <1>4, <2>1, <2>2, RingTaken
<1>6. Waiting' = Tail(Waiting)
  <2>1. Waiting' = Ring(tx_buf', SentUpTo', tx_buf_head')
    BY DEF Waiting, Ring, Place
  <2> QED BY <1>1, <1>3, <1>5, <2>1
<1>7. wire' = tx_buf[dma_pos]
  BY DEF SendByte
<1> QED BY <1>1, <1>5, <1>6, <1>7 DEF Stream!Send

LEMMA CompleteStreams ==
  ASSUME UartAssumption, UartInv, StreamInv, TxComplete
  PROVE  UNCHANGED Stream!streamVars
<1>1. UNCHANGED <<tx_buf, tx_buf_head, wire, Unaccepted>>
  BY DEF TxComplete, Unaccepted, Rest, transmit
<1>2. dma_pos = tx_buf_tail + tx_size
  BY DEF UartInv, UartTypeOK, TransferInStep, TxComplete
<1>3. SentUpTo = tx_buf_tail'
  BY <1>2 DEF TxComplete, SentUpTo
<1>4. SentUpTo' = SentUpTo
  <2>1. CASE tx_buf_head = tx_buf_tail'
    BY <1>3, <2>1 DEF TxComplete, NextTransfer, SentUpTo
  <2>2. CASE tx_buf_head # tx_buf_tail'
    <3>1. dma_on' = TRUE /\ dma_pos' = tx_buf_tail'
      BY <2>2 DEF TxComplete, NextTransfer, StartDma
    <3>2. SentUpTo' = Wrapped(SentUpTo)
      BY <1>3, <3>1 DEF SentUpTo
    <3>3. SentUpTo \in Positions
      BY SentUpToIs
    <3> QED BY <3>2, <3>3 DEF Wrapped, Positions, UartAssumption
  <2> QED BY <2>1, <2>2
<1> QED BY <1>1, <1>4 DEF Stream!streamVars, Waiting

LEMMA StreamStep ==
  ASSUME UartAssumption, UartInv, StreamInv, [UartNext]_uartVars
  PROVE  [Stream!StreamNext]_Stream!streamVars
<1> USE DEF Stream!StreamNext
<1>1. ASSUME NEW m \in Messages, DebugLog(m) PROVE Stream!Log(m)
  BY <1>1 DEF DebugLog, Stream!Log, Unaccepted, Waiting, SentUpTo, ringShared, dma
<1>2. CASE ReadRoom
  BY <1>2, ReadRoomStreams
<1>3. CASE CopyByte
  BY <1>3, CopyStreams
<1>4. CASE PublishHead
  BY <1>4, PublishStreams
<1>5. CASE CheckBusy \/ SetSize
  BY <1>5 DEF CheckBusy, SetSize, Stream!streamVars, Unaccepted, Rest, Waiting, SentUpTo, ringShared, dma
<1>6. CASE StartTransfer
  <2>1. UNCHANGED <<tx_buf, tx_buf_head, wire, Unaccepted>>
    BY <1>6 DEF StartTransfer, Unaccepted, Rest, ringShared
  <2>2. SentUpTo = tx_buf_tail /\ SentUpTo' = Wrapped(tx_buf_tail)
    BY <1>6 DEF StartTransfer, StartDma, SentUpTo, UartInv, OneTransfer
  <2>3. SentUpTo' = SentUpTo
    BY <2>2, StreamTypes DEF Wrapped, Positions
  <2> QED BY <2>1, <2>3 DEF Stream!streamVars, Waiting
<1>7. CASE TransmitRest
  <2>1. Unaccepted = Rest /\ Unaccepted' = Rest
    BY <1>7 DEF TransmitRest, Unaccepted
  <2> QED BY <1>7, <2>1 DEF TransmitRest, Stream!streamVars, Waiting, SentUpTo, ringShared, dma
<1>8. CASE SendByte
  BY <1>8, SendStreams
<1>9. CASE TxComplete
  BY <1>9, CompleteStreams
<1>10. CASE UNCHANGED uartVars
  BY <1>10 DEF uartVars, ringShared, transmit, dma, Stream!streamVars, Unaccepted, Rest, Waiting, SentUpTo
<1> QED BY <1>1, <1>2, <1>3, <1>4, <1>5, <1>6, <1>7, <1>8, <1>9, <1>10 DEF UartNext, Transmit

(* Whatever the interleaving of program, DMA and interrupt, bytes are sent *)
(* once, in order and with no gap in a message, and a message is cut only  *)
(* if the ring is full: the ring implements ByteStream (ImplementsStream), *)
(* for every size of buffer and chunk and whatever is logged.              *)
THEOREM StreamImplemented == UartSpec => ImplementsStream
<1>1. UartInit => UartInv /\ StreamInv /\ Stream!StreamInit
  <2> SUFFICES ASSUME UartInit PROVE UartInv /\ StreamInv /\ Stream!StreamInit
    OBVIOUS
  <2>1. Count(0, 0) = 0
    BY UartAssumption DEF UartAssumption, Count
  <2>2. SentUpTo = 0 /\ tx_buf_head = 0
    BY DEF UartInit, SentUpTo
  <2>3. Waiting = <<>>
    <3>1. Count(SentUpTo, tx_buf_head) = 0
      BY <2>1, <2>2
    <3> QED BY <3>1 DEF Waiting
  <2>4. StreamInv
    BY <2>1 DEF UartInit, StreamInv
  <2> QED BY <2>3, <2>4, UartInitInv, UartAssumption DEF UartInit, Stream!StreamInit, Unaccepted
<1>2. UartInv /\ StreamInv /\ [UartNext]_uartVars => UartInv' /\ StreamInv'
  BY UartStepInv, StreamStepInv, UartAssumption
<1>3. UartInv /\ StreamInv /\ [UartNext]_uartVars => [Stream!StreamNext]_Stream!streamVars
  BY StreamStep, UartAssumption
<1> QED BY <1>1, <1>2, <1>3, PTL DEF UartSpec, ImplementsStream, Stream!StreamSpec
=============================================================================
