----------------------------- MODULE ByteStream -----------------------------
(***************************************************************************)
(* What the debug output (src/src/pd_debug.cpp) promises: bytes leave in   *)
(* the order in which they were logged, each once.  A message is cut short *)
(* only if the buffer is full but for a chunk that is being transmitted,   *)
(* and then at its end: it has no gaps.  UartTx.tla implements this.       *)
(***************************************************************************)
EXTENDS Naturals, Sequences

CONSTANTS
  Capacity,  \* number of bytes that can wait
  MaxChunk,  \* bytes transmitted, or being transmitted, whose place is not free yet
  Messages   \* what is logged

VARIABLES
  waiting,   \* bytes accepted and not sent
  rest,      \* what has not been accepted of the message being logged
  wire       \* the byte sent last, or "idle"

streamVars == <<waiting, rest, wire>>

StreamInit == waiting = <<>> /\ rest = <<>> /\ wire = "idle"

Log(m) == rest = <<>> /\ rest' = m /\ UNCHANGED <<waiting, wire>>

Accept == \E k \in 1 .. Len(rest) :
  /\ Len(waiting) + k <= Capacity
  /\ waiting' = waiting \o SubSeq(rest, 1, k)
  /\ rest' = SubSeq(rest, k + 1, Len(rest))
  /\ UNCHANGED wire

Cut ==
  /\ rest # <<>> /\ Len(waiting) + MaxChunk >= Capacity
  /\ rest' = <<>>
  /\ UNCHANGED <<waiting, wire>>

Send ==
  /\ waiting # <<>>
  /\ wire' = Head(waiting) /\ waiting' = Tail(waiting)
  /\ UNCHANGED rest

StreamNext == (\E m \in Messages : Log(m)) \/ Accept \/ Cut \/ Send
StreamSpec == StreamInit /\ [][StreamNext]_streamVars
=============================================================================
