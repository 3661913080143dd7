----------------------------- MODULE I2cProofs -----------------------------
(***************************************************************************)
(* Proofs about the I2C master of I2cBus.tla and the device it talks to:   *)
(* the bus after a call, the conditions on it and what register access     *)
(* comes down to, for bytes of any width, any calls and any refusals.      *)
(***************************************************************************)
EXTENDS I2cBus, NatLemmas, SequenceTheorems

-----------------------------------------------------------------------------
(* Sequences *)

(* What is left of s after its first n elements *)
Rest(s, n) == SubSeq(s, n + 1, Len(s))

LEMMA RestStep ==
  ASSUME NEW S, NEW s \in Seq(S), NEW n \in 0 .. Len(s) - 1
  PROVE  /\ Rest(s, n) # <<>> /\ Head(Rest(s, n)) = s[n + 1]
         /\ Tail(Rest(s, n)) = Rest(s, n + 1)
<1>1. Len(s) \in Nat /\ n + 1 \in 1 .. Len(s) /\ Len(s) \in n + 1 .. Len(s)
  BY LenProperties
<1>2. \A i \in n + 1 .. Len(s) : s[i] \in S
  BY <1>1, ElementOfSeq
<1>3. Len(Rest(s, n)) = Len(s) - (n + 1) + 1
  BY <1>1, <1>2, SubSeqProperties DEF Rest
<1>4. Rest(s, n) # <<>>
  BY <1>1, <1>3, EmptySeq
<1> QED BY <1>1, <1>4, HeadTailOfSubSeq DEF Rest

LEMMA RestEnds ==
  ASSUME NEW S, NEW s \in Seq(S)
  PROVE  Rest(s, 0) = s /\ Rest(s, Len(s)) = <<>>
<1>1. Len(s) \in Nat
  BY LenProperties
<1>2. SubSeq(s, Len(s) + 1, Len(s)) = <<>>
  BY <1>1, SubSeqEmpty
<1> QED BY <1>2, SubSeqFull DEF Rest

(* The rounds of FlattenSeq *)
Joined(s, t) == s \o t
FlatUpTo(seqs, n, f) ==
  f = [i \in 1 .. n |-> IF i = 1 THEN seqs[i] ELSE Joined(f[i - 1], seqs[i])]

LEMMA FlatExists ==
  ASSUME NEW seqs, NEW n \in Nat
  PROVE  \E f : FlatUpTo(seqs, n, f)
<1> DEFINE S == {i \in Nat : \E f : FlatUpTo(seqs, i, f)}
<1>1. 0 \in S
  <2>1. FlatUpTo(seqs, 0, [i \in 1 .. 0 |-> <<>>])
    BY DEF FlatUpTo
  <2> QED BY <2>1
<1>2. ASSUME NEW i \in S PROVE i + 1 \in S
  <2>1. PICK f : FlatUpTo(seqs, i, f)
    OBVIOUS
  <2> DEFINE g == [k \in 1 .. i + 1 |->
                     IF k = i + 1 THEN IF k = 1 THEN seqs[k] ELSE Joined(f[i], seqs[k]) ELSE f[k]]
  <2>2. g = [k \in 1 .. i + 1 |-> IF k = 1 THEN seqs[k] ELSE Joined(g[k - 1], seqs[k])]
    BY <2>1 DEF FlatUpTo
  <2>3. FlatUpTo(seqs, i + 1, g)
    BY <2>2 DEF FlatUpTo
  <2> QED BY <2>3
<1> HIDE DEF S
<1>3. S = Nat
  BY <1>1, <1>2, SetInduction DEF S
<1> QED BY <1>3 DEF S

LEMMA FlattenUnfold ==
  ASSUME NEW seqs, Len(seqs) \in Nat \ {0}
  PROVE  \E f : FlatUpTo(seqs, Len(seqs), f) /\ FlattenSeq(seqs) = f[Len(seqs)]
<1> DEFINE g == CHOOSE f : FlatUpTo(seqs, Len(seqs), f)
<1>1. FlatUpTo(seqs, Len(seqs), g)
  BY FlatExists
<1>2. Len(seqs) # 0
  OBVIOUS
<1>3. FlattenSeq(seqs) = g[Len(seqs)]
  BY ONLY <1>2 DEF FlattenSeq, FlatUpTo, Joined
<1> HIDE DEF g
<1> QED BY <1>1, <1>3

PinOps == {"set_sda", "clear_sda", "set_scl", "clear_scl", "read_sda"}

(* Pieces of the same width are found where one expects them. *)
LEMMA FlattenWidth ==
  ASSUME NEW n \in Nat \ {0}, NEW w \in {3, 4},
         NEW g \in [1 .. n -> Seq(PinOps)], \A i \in 1 .. n : Len(g[i]) = w
  PROVE  /\ FlattenSeq(g) \in Seq(PinOps) /\ Len(FlattenSeq(g)) = w * n
         /\ \A i \in 0 .. n - 1, j \in 1 .. w : FlattenSeq(g)[w * i + j] = g[i + 1][j]
<1>1. g \in Seq(Seq(PinOps)) /\ Len(g) = n
  OBVIOUS
<1>2. PICK f : FlatUpTo(g, n, f) /\ FlattenSeq(g) = f[n]
  BY <1>1, FlattenUnfold
<1> DEFINE Good(m) == /\ f[m] \in Seq(PinOps) /\ Len(f[m]) = w * m
                      /\ \A i \in 0 .. m - 1, j \in 1 .. w : f[m][w * i + j] = g[i + 1][j]
           M == {m \in Nat : m \in 1 .. n => Good(m)}
<1>3. 0 \in M
  OBVIOUS
<1>4. ASSUME NEW m \in M PROVE m + 1 \in M
  <2> HIDE DEF Good
  <2> SUFFICES ASSUME m \in Nat, m + 1 \in 1 .. n, m \in 1 .. n => Good(m) PROVE Good(m + 1)
    OBVIOUS
  <2> USE DEF Good
  <2> DEFINE part == g[m + 1]
  <2>1. m \in Nat /\ part \in Seq(PinOps) /\ Len(part) = w /\ w \in Nat
    OBVIOUS
  <2> HIDE DEF part
  <2>2. CASE m = 0
    <3>1. f[1] = part
      BY <1>2, <2>1, <2>2 DEF FlatUpTo, part
    <3> QED BY <2>1, <2>2, <3>1 DEF part
  <2>3. CASE m # 0
    <3>1. f[m + 1] = Joined(f[m], part)
      BY <1>2, <2>1, <2>3 DEF FlatUpTo, part
    <3>2. Good(m)
      BY <2>1, <2>3
    <3> DEFINE len == w * m
               all == f[m + 1]
               old == f[m]
    <3>3. len \in Nat /\ old \in Seq(PinOps) /\ Len(old) = len /\ w * (m + 1) = len + w
      BY <2>1, <3>2
    <3>4. all = old \o part
      BY <3>1 DEF Joined
    <3>5. ASSUME NEW i \in 0 .. m, NEW j \in 1 .. w
          PROVE  w * i + j \in 1 .. len + w /\ (w * i + j <= len <=> i < m)
      BY <2>1
    <3>6. ASSUME NEW i \in 0 .. m - 1, NEW j \in 1 .. w
          PROVE  old[w * i + j] = g[i + 1][j]
      BY <3>2
    <3> HIDE DEF len, old, all
    <3>7. /\ all \in Seq(PinOps) /\ Len(all) = len + w
          /\ \A k \in 1 .. len + w : all[k] = IF k <= len THEN old[k] ELSE part[k - len]
      <4>1. /\ all \in Seq(PinOps) /\ Len(all) = Len(old) + Len(part)
            /\ \A k \in 1 .. Len(old) + Len(part) :
                 all[k] = IF k <= Len(old) THEN old[k] ELSE part[k - Len(old)]
        BY ONLY <2>1, <3>3, <3>4, ConcatProperties, ZenonT(40)
      <4> QED BY <2>1, <3>3, <4>1
    <3>8. ASSUME NEW i \in 0 .. m, NEW j \in 1 .. w
          PROVE  all[w * i + j] = g[i + 1][j]
      <4>1. CASE i < m
        <5>1. all[w * i + j] = old[w * i + j]
          BY <3>5, <3>7, <4>1
        <5> QED BY <2>1, <3>6, <4>1, <5>1
      <4>2. CASE i = m
        <5>1. w * i + j \in 1 .. len + w /\ ~(w * i + j <= len)
          <6>1. ~(i < m)
            BY <2>1, <4>2
          <6> QED BY ONLY <3>5, <6>1, i \in 0 .. m, j \in 1 .. w, Zenon
        <5> DEFINE k == w * i + j
        <5> HIDE DEF k
        <5>3. all[k] = part[k - len]
          BY <3>7, <5>1 DEF k
        <5>2. k - len = j
          BY <2>1, <3>3, <4>2 DEF len, k
        <5>4. all[k] = part[j]
          BY <5>2, <5>3
        <5>5. part[j] = g[i + 1][j]
          BY ONLY <4>2 DEF part
        <5> QED BY ONLY <5>4, <5>5, Zenon DEF k
      <4>3. i < m \/ i = m
        BY <2>1
      <4> QED BY <4>1, <4>2, <4>3
    <3> QED BY <2>1, <3>3, <3>7, <3>8 DEF all
  <2> QED BY <2>2, <2>3
<1> HIDE DEF M, Good
<1>5. M = Nat
  BY <1>3, <1>4, SetInduction DEF M
<1>6. n \in M /\ n \in 1 .. n
  BY <1>5
<1>7. Good(n)
  BY ONLY <1>6 DEF M
<1> QED BY ONLY <1>2, <1>7 DEF Good

-----------------------------------------------------------------------------
(* The pin operations of a byte *)

(* The first of ops, and what follows it *)
Todo(o, op, rest) == o # <<>> /\ Head(o) = op /\ Tail(o) = rest

(* i bits of the byte are through, and j operations of the next one *)
SendRest(v, i, j) == Rest(WriteByte(v), 3 * i + j)
GetRest(nack, i, j) == Rest(ReadByte(nack), 4 * i + j)

LEMMA TodoAt ==
  ASSUME NEW S, NEW s \in Seq(S), NEW n \in 0 .. Len(s) - 1, NEW op, s[n + 1] = op
  PROVE  Todo(Rest(s, n), op, Rest(s, n + 1))
BY RestStep DEF Todo

LEMMA SendOpsAre ==
  ASSUME NEW v \in Byte
  PROVE  /\ WriteByte(v) \in Seq(PinOps) /\ Len(WriteByte(v)) = 3 * NBits + 4
         /\ \A i \in 0 .. NBits - 1, j \in 1 .. 3 :
              WriteByte(v)[3 * i + j] = WriteBit(v[i + 1])[j]
         /\ \A j \in 1 .. 4 : WriteByte(v)[3 * NBits + j] = ReadBit[j]
<1> DEFINE g == [i \in 1 .. NBits |-> WriteBit(v[i])]
           flat == FlattenSeq(g)
<1>1. NBits \in Nat \ {0}
  BY I2cAssumption
<1>2. \A i \in 1 .. NBits : WriteBit(v[i]) \in Seq(PinOps) /\ Len(WriteBit(v[i])) = 3
  BY DEF WriteBit, PinOps
<1>3. g \in [1 .. NBits -> Seq(PinOps)] /\ \A i \in 1 .. NBits : Len(g[i]) = 3
  BY <1>2
<1>5. \A i \in 0 .. NBits - 1 : g[i + 1] = WriteBit(v[i + 1])
  BY <1>1
<1> HIDE DEF g
<1>4. /\ flat \in Seq(PinOps) /\ Len(flat) = 3 * NBits
      /\ \A i \in 0 .. NBits - 1, j \in 1 .. 3 : flat[3 * i + j] = g[i + 1][j]
  <2>1. 3 \in {3, 4}
    OBVIOUS
  <2> QED BY ONLY <1>1, <1>3, <2>1, FlattenWidth
<1> HIDE DEF flat
<1>6. WriteByte(v) = flat \o ReadBit
  BY DEF WriteByte, flat, g
<1>7. ReadBit \in Seq(PinOps) /\ Len(ReadBit) = 4
  BY DEF ReadBit, PinOps
<1>8. /\ flat \o ReadBit \in Seq(PinOps) /\ Len(flat \o ReadBit) = Len(flat) + Len(ReadBit)
      /\ \A k \in 1 .. Len(flat) + Len(ReadBit) :
           (flat \o ReadBit)[k] = IF k <= Len(flat) THEN flat[k] ELSE ReadBit[k - Len(flat)]
  BY ONLY <1>4, <1>7, ConcatProperties, ZenonT(40)
<1> DEFINE all == flat \o ReadBit
<1> HIDE DEF all
<1>9. /\ all \in Seq(PinOps) /\ Len(all) = 3 * NBits + 4
      /\ \A k \in 1 .. 3 * NBits + 4 :
           all[k] = IF k <= 3 * NBits THEN flat[k] ELSE ReadBit[k - 3 * NBits]
  BY <1>1, <1>4, <1>7, <1>8 DEF all
<1>10. ASSUME NEW i \in 0 .. NBits - 1, NEW j \in 1 .. 3
       PROVE  all[3 * i + j] = WriteBit(v[i + 1])[j]
  <2>1. all[3 * i + j] = flat[3 * i + j]
    BY <1>1, <1>9
  <2>2. flat[3 * i + j] = g[i + 1][j]
    BY <1>4
  <2> QED BY <1>5, <2>1, <2>2
<1>11. ASSUME NEW j \in 1 .. 4 PROVE all[3 * NBits + j] = ReadBit[j]
  BY <1>1, <1>9
<1> QED BY <1>6, <1>9, <1>10, <1>11 DEF all

LEMMA SendTodo ==
  ASSUME NEW v \in Byte
  PROVE  /\ SendRest(v, 0, 0) = WriteByte(v) /\ SendRest(v, NBits, 4) = <<>>
         /\ \A i \in 0 .. NBits - 1 :
              /\ Todo(SendRest(v, i, 0), IF v[i + 1] THEN "set_sda" ELSE "clear_sda", SendRest(v, i, 1))
              /\ Todo(SendRest(v, i, 1), "set_scl", SendRest(v, i, 2))
              /\ Todo(SendRest(v, i, 2), "clear_scl", SendRest(v, i + 1, 0))
         /\ Todo(SendRest(v, NBits, 0), "set_sda", SendRest(v, NBits, 1))
         /\ Todo(SendRest(v, NBits, 1), "set_scl", SendRest(v, NBits, 2))
         /\ Todo(SendRest(v, NBits, 2), "read_sda", SendRest(v, NBits, 3))
         /\ Todo(SendRest(v, NBits, 3), "clear_scl", SendRest(v, NBits, 4))
<1> DEFINE s == WriteByte(v)
<1>1. /\ s \in Seq(PinOps) /\ Len(s) = 3 * NBits + 4 /\ NBits \in Nat \ {0}
      /\ \A i \in 0 .. NBits - 1, j \in 1 .. 3 : s[3 * i + j] = WriteBit(v[i + 1])[j]
      /\ \A j \in 1 .. 4 : s[3 * NBits + j] = ReadBit[j]
  BY SendOpsAre, I2cAssumption
<1> HIDE DEF s
<1>2. Rest(s, 0) = s /\ Rest(s, 3 * NBits + 4) = <<>>
  BY <1>1, RestEnds
<1>3. ASSUME NEW i \in 0 .. NBits, NEW j \in 0 .. 3, i < NBits => j < 3, NEW op,
             s[3 * i + j + 1] = op
      PROVE  Todo(Rest(s, 3 * i + j), op, Rest(s, 3 * i + j + 1))
  <2>1. 3 * i + j \in 0 .. Len(s) - 1
    BY <1>1, <1>3
  <2> QED BY <1>1, <1>3, <2>1, TodoAt
<1>4. ASSUME NEW i \in 0 .. NBits - 1
      PROVE  /\ Todo(Rest(s, 3 * i + 0), IF v[i + 1] THEN "set_sda" ELSE "clear_sda", Rest(s, 3 * i + 1))
             /\ Todo(Rest(s, 3 * i + 1), "set_scl", Rest(s, 3 * i + 2))
             /\ Todo(Rest(s, 3 * i + 2), "clear_scl", Rest(s, 3 * (i + 1) + 0))
  <2>1. /\ s[3 * i + 0 + 1] = IF v[i + 1] THEN "set_sda" ELSE "clear_sda"
        /\ s[3 * i + 1 + 1] = "set_scl" /\ s[3 * i + 2 + 1] = "clear_scl"
    BY <1>1 DEF WriteBit
  <2>2. /\ 3 * i + 0 + 1 = 3 * i + 1 /\ 3 * i + 1 + 1 = 3 * i + 2
        /\ 3 * i + 2 + 1 = 3 * (i + 1) + 0 /\ i \in 0 .. NBits /\ i < NBits
    BY <1>1
  <2>3. /\ Todo(Rest(s, 3 * i + 0), IF v[i + 1] THEN "set_sda" ELSE "clear_sda", Rest(s, 3 * i + 0 + 1))
        /\ Todo(Rest(s, 3 * i + 1), "set_scl", Rest(s, 3 * i + 1 + 1))
        /\ Todo(Rest(s, 3 * i + 2), "clear_scl", Rest(s, 3 * i + 2 + 1))
    BY <1>3, <2>1, <2>2
  <2> QED BY <2>2, <2>3
<1>5. /\ Todo(Rest(s, 3 * NBits + 0), "set_sda", Rest(s, 3 * NBits + 1))
      /\ Todo(Rest(s, 3 * NBits + 1), "set_scl", Rest(s, 3 * NBits + 2))
      /\ Todo(Rest(s, 3 * NBits + 2), "read_sda", Rest(s, 3 * NBits + 3))
      /\ Todo(Rest(s, 3 * NBits + 3), "clear_scl", Rest(s, 3 * NBits + 4))
  <2>1. /\ s[3 * NBits + 0 + 1] = "set_sda" /\ s[3 * NBits + 1 + 1] = "set_scl"
        /\ s[3 * NBits + 2 + 1] = "read_sda" /\ s[3 * NBits + 3 + 1] = "clear_scl"
    BY <1>1 DEF ReadBit
  <2>2. /\ 3 * NBits + 0 + 1 = 3 * NBits + 1 /\ 3 * NBits + 1 + 1 = 3 * NBits + 2
        /\ 3 * NBits + 2 + 1 = 3 * NBits + 3 /\ 3 * NBits + 3 + 1 = 3 * NBits + 4
        /\ NBits \in 0 .. NBits /\ ~(NBits < NBits)
    BY <1>1
  <2>3. /\ Todo(Rest(s, 3 * NBits + 0), "set_sda", Rest(s, 3 * NBits + 0 + 1))
        /\ Todo(Rest(s, 3 * NBits + 1), "set_scl", Rest(s, 3 * NBits + 1 + 1))
        /\ Todo(Rest(s, 3 * NBits + 2), "read_sda", Rest(s, 3 * NBits + 2 + 1))
        /\ Todo(Rest(s, 3 * NBits + 3), "clear_scl", Rest(s, 3 * NBits + 3 + 1))
    BY <1>3, <2>1, <2>2
  <2> QED BY <2>2, <2>3
<1>6. 3 * 0 + 0 = 0
  OBVIOUS
<1> QED BY <1>2, <1>4, <1>5, <1>6 DEF SendRest, s

LEMMA GetOpsAre ==
  ASSUME NEW nack \in BOOLEAN
  PROVE  /\ ReadByte(nack) \in Seq(PinOps) /\ Len(ReadByte(nack)) = 4 * NBits + 3
         /\ \A i \in 0 .. NBits - 1, j \in 1 .. 4 : ReadByte(nack)[4 * i + j] = ReadBit[j]
         /\ \A j \in 1 .. 3 : ReadByte(nack)[4 * NBits + j] = WriteBit(nack)[j]
<1> DEFINE g == [i \in 1 .. NBits |-> ReadBit]
           flat == FlattenSeq(g)
           last == WriteBit(nack)
           all == flat \o last
<1>1. NBits \in Nat \ {0}
  BY I2cAssumption
<1>2. ReadBit \in Seq(PinOps) /\ Len(ReadBit) = 4
  BY DEF ReadBit, PinOps
<1>3. g \in [1 .. NBits -> Seq(PinOps)] /\ \A i \in 1 .. NBits : Len(g[i]) = 4
  BY <1>2
<1>4. \A i \in 0 .. NBits - 1 : g[i + 1] = ReadBit
  BY <1>1
<1>5. last \in Seq(PinOps) /\ Len(last) = 3
  BY DEF WriteBit, PinOps
<1>6. ReadByte(nack) = all
  BY DEF ReadByte
<1> HIDE DEF g, last, all
<1>7. /\ flat \in Seq(PinOps) /\ Len(flat) = 4 * NBits
      /\ \A i \in 0 .. NBits - 1, j \in 1 .. 4 : flat[4 * i + j] = g[i + 1][j]
  <2> DEFINE w == 4
  <2>1. w \in {3, 4} /\ \A i \in 1 .. NBits : Len(g[i]) = w
    BY <1>3
  <2> HIDE DEF w
  <2>3. g \in [1 .. NBits -> Seq(PinOps)]
    BY <1>3
  <2>2. /\ flat \in Seq(PinOps) /\ Len(flat) = w * NBits
        /\ \A i \in 0 .. NBits - 1, j \in 1 .. w : flat[w * i + j] = g[i + 1][j]
    BY ONLY <1>1, <2>1, <2>3, FlattenWidth, Zenon
  <2> QED BY <2>2 DEF w
<1> HIDE DEF flat
<1>8. /\ all \in Seq(PinOps) /\ Len(all) = Len(flat) + Len(last)
      /\ \A k \in 1 .. Len(flat) + Len(last) :
           all[k] = IF k <= Len(flat) THEN flat[k] ELSE last[k - Len(flat)]
  BY ONLY <1>5, <1>7, ConcatProperties, Zenon DEF all
<1>9. /\ all \in Seq(PinOps) /\ Len(all) = 4 * NBits + 3
      /\ \A k \in 1 .. 4 * NBits + 3 :
           all[k] = IF k <= 4 * NBits THEN flat[k] ELSE last[k - 4 * NBits]
  BY <1>1, <1>5, <1>7, <1>8
<1>10. ASSUME NEW i \in 0 .. NBits - 1, NEW j \in 1 .. 4
       PROVE  all[4 * i + j] = ReadBit[j]
  <2>1. all[4 * i + j] = flat[4 * i + j]
    BY <1>1, <1>9
  <2>2. flat[4 * i + j] = g[i + 1][j]
    BY <1>7
  <2> QED BY <1>4, <2>1, <2>2
<1>11. ASSUME NEW j \in 1 .. 3 PROVE all[4 * NBits + j] = last[j]
  BY <1>1, <1>9
<1> QED BY <1>6, <1>9, <1>10, <1>11 DEF last

LEMMA GetTodo ==
  ASSUME NEW nack \in BOOLEAN
  PROVE  /\ GetRest(nack, 0, 0) = ReadByte(nack) /\ GetRest(nack, NBits, 3) = <<>>
         /\ \A i \in 0 .. NBits - 1 :
              /\ Todo(GetRest(nack, i, 0), "set_sda", GetRest(nack, i, 1))
              /\ Todo(GetRest(nack, i, 1), "set_scl", GetRest(nack, i, 2))
              /\ Todo(GetRest(nack, i, 2), "read_sda", GetRest(nack, i, 3))
              /\ Todo(GetRest(nack, i, 3), "clear_scl", GetRest(nack, i + 1, 0))
         /\ Todo(GetRest(nack, NBits, 0), IF nack THEN "set_sda" ELSE "clear_sda", GetRest(nack, NBits, 1))
         /\ Todo(GetRest(nack, NBits, 1), "set_scl", GetRest(nack, NBits, 2))
         /\ Todo(GetRest(nack, NBits, 2), "clear_scl", GetRest(nack, NBits, 3))
<1> DEFINE s == ReadByte(nack)
<1>1. /\ s \in Seq(PinOps) /\ Len(s) = 4 * NBits + 3 /\ NBits \in Nat \ {0}
      /\ \A i \in 0 .. NBits - 1, j \in 1 .. 4 : s[4 * i + j] = ReadBit[j]
      /\ \A j \in 1 .. 3 : s[4 * NBits + j] = WriteBit(nack)[j]
  BY GetOpsAre, I2cAssumption
<1> HIDE DEF s
<1>2. Rest(s, 0) = s /\ Rest(s, 4 * NBits + 3) = <<>>
  BY <1>1, RestEnds
<1>3. ASSUME NEW i \in 0 .. NBits, NEW j \in 0 .. 3, i = NBits => j < 3, NEW op,
             s[4 * i + j + 1] = op
      PROVE  Todo(Rest(s, 4 * i + j), op, Rest(s, 4 * i + j + 1))
  <2>1. 4 * i + j \in 0 .. Len(s) - 1
    BY <1>1, <1>3
  <2> QED BY <1>1, <1>3, <2>1, TodoAt
<1>4. ASSUME NEW i \in 0 .. NBits - 1
      PROVE  /\ Todo(Rest(s, 4 * i + 0), "set_sda", Rest(s, 4 * i + 1))
             /\ Todo(Rest(s, 4 * i + 1), "set_scl", Rest(s, 4 * i + 2))
             /\ Todo(Rest(s, 4 * i + 2), "read_sda", Rest(s, 4 * i + 3))
             /\ Todo(Rest(s, 4 * i + 3), "clear_scl", Rest(s, 4 * (i + 1) + 0))
  <2>1. /\ s[4 * i + 0 + 1] = "set_sda" /\ s[4 * i + 1 + 1] = "set_scl"
        /\ s[4 * i + 2 + 1] = "read_sda" /\ s[4 * i + 3 + 1] = "clear_scl"
    BY <1>1 DEF ReadBit
  <2>2. /\ 4 * i + 0 + 1 = 4 * i + 1 /\ 4 * i + 1 + 1 = 4 * i + 2 /\ 4 * i + 2 + 1 = 4 * i + 3
        /\ 4 * i + 3 + 1 = 4 * (i + 1) + 0 /\ i \in 0 .. NBits /\ i # NBits
    BY <1>1
  <2>3. /\ Todo(Rest(s, 4 * i + 0), "set_sda", Rest(s, 4 * i + 0 + 1))
        /\ Todo(Rest(s, 4 * i + 1), "set_scl", Rest(s, 4 * i + 1 + 1))
        /\ Todo(Rest(s, 4 * i + 2), "read_sda", Rest(s, 4 * i + 2 + 1))
        /\ Todo(Rest(s, 4 * i + 3), "clear_scl", Rest(s, 4 * i + 3 + 1))
    BY <1>3, <2>1, <2>2
  <2> QED BY <2>2, <2>3
<1>5. /\ Todo(Rest(s, 4 * NBits + 0), IF nack THEN "set_sda" ELSE "clear_sda", Rest(s, 4 * NBits + 1))
      /\ Todo(Rest(s, 4 * NBits + 1), "set_scl", Rest(s, 4 * NBits + 2))
      /\ Todo(Rest(s, 4 * NBits + 2), "clear_scl", Rest(s, 4 * NBits + 3))
  <2>1. /\ s[4 * NBits + 0 + 1] = IF nack THEN "set_sda" ELSE "clear_sda"
        /\ s[4 * NBits + 1 + 1] = "set_scl" /\ s[4 * NBits + 2 + 1] = "clear_scl"
    BY <1>1 DEF WriteBit
  <2>2. /\ 4 * NBits + 0 + 1 = 4 * NBits + 1 /\ 4 * NBits + 1 + 1 = 4 * NBits + 2
        /\ 4 * NBits + 2 + 1 = 4 * NBits + 3 /\ NBits \in 0 .. NBits
    BY <1>1
  <2>3. /\ Todo(Rest(s, 4 * NBits + 0), IF nack THEN "set_sda" ELSE "clear_sda", Rest(s, 4 * NBits + 0 + 1))
        /\ Todo(Rest(s, 4 * NBits + 1), "set_scl", Rest(s, 4 * NBits + 1 + 1))
        /\ Todo(Rest(s, 4 * NBits + 2), "clear_scl", Rest(s, 4 * NBits + 2 + 1))
    BY <1>3, <2>1, <2>2
  <2> QED BY <2>2, <2>3
<1>6. 4 * 0 + 0 = 0
  OBVIOUS
<1> QED BY <1>2, <1>4, <1>5, <1>6 DEF GetRest, s

(* The bits of a byte, one after the other *)
LEMMA ByteBits ==
  ASSUME NEW b \in Byte
  PROVE  /\ b \in Seq(BOOLEAN) /\ Len(b) = NBits
         /\ SubSeq(b, 1, 0) = <<>> /\ SubSeq(b, 1, NBits) = b
         /\ \A n \in 0 .. NBits : SubSeq(b, 1, n) \in Seq(BOOLEAN) /\ Len(SubSeq(b, 1, n)) = n
         /\ \A n \in 0 .. NBits - 1 : Append(SubSeq(b, 1, n), b[n + 1]) = SubSeq(b, 1, n + 1)
<1>1. b \in Seq(BOOLEAN) /\ Len(b) = NBits /\ NBits \in Nat \ {0}
  BY I2cAssumption DEF Byte
<1>2. SubSeq(b, 1, 0) = <<>> /\ SubSeq(b, 1, NBits) = b
  <2>1. SubSeq(b, 1, 0) = <<>>
    BY SubSeqEmpty
  <2> QED BY <1>1, <2>1, SubSeqFull
<1>3. ASSUME NEW n \in 0 .. NBits
      PROVE  SubSeq(b, 1, n) \in Seq(BOOLEAN) /\ Len(SubSeq(b, 1, n)) = n
  <2>1. \A i \in 1 .. n : b[i] \in BOOLEAN
    BY <1>1, ElementOfSeq
  <2>2. /\ SubSeq(b, 1, n) \in Seq(BOOLEAN)
        /\ Len(SubSeq(b, 1, n)) = IF 1 <= n THEN n - 1 + 1 ELSE 0
    BY <2>1, SubSeqProperties
  <2> QED BY <1>1, <2>2
<1>4. ASSUME NEW n \in 0 .. NBits - 1
      PROVE  Append(SubSeq(b, 1, n), b[n + 1]) = SubSeq(b, 1, n + 1)
  <2> DEFINE m == n + 1
             r == SubSeq(b, 1, m - 1)
  <2>1. m \in 1 .. Len(b) /\ 1 \in 1 .. Len(b) /\ m \in 1 .. Len(b) /\ m - 1 = n
    BY <1>1
  <2>2. r \in Seq(BOOLEAN)
    BY <1>1, <1>3, <2>1
  <2>3. b[m] \in BOOLEAN
    BY <1>1, <2>1, ElementOfSeq
  <2> HIDE DEF m
  <2>4. SubSeq(b, 1, m) = r \o <<b[m]>>
    BY <1>1, <2>1, SubSeqRecursiveSecond
  <2> HIDE DEF r
  <2>5. Append(r, b[m]) = r \o <<b[m]>>
    BY ONLY <2>2, <2>3, AppendIsConcat
  <2> QED BY ONLY <2>1, <2>4, <2>5 DEF m, r
<1> QED BY <1>1, <1>2, <1>3, <1>4

-----------------------------------------------------------------------------
(* The invariant: for every operation of a piece, what clock, data and the *)
(* device are like before it                                               *)

(* The device takes no part: it has not heard a start, or has refused. *)
Deaf == peer \in {Peer("off"), Peer("ignore")}

(* It has heard n bits of byte; it has them all and answers. *)
Heard(state, byte, n) ==
  [state |-> state, byte |-> SubSeq(byte, 1, n), count |-> n, answering |-> FALSE,
   accepted |-> FALSE, drive |-> TRUE]
Answering(state, byte, acknowledge) ==
  [state |-> state, byte |-> byte, count |-> NBits, answering |-> TRUE,
   accepted |-> acknowledge, drive |-> ~acknowledge]

(* It gives byte and n bits of it have been clocked; it has given them all *)
(* and has heard the answer, or not yet.                                   *)
Giving(byte, n, level) ==
  [state |-> "give", byte |-> byte, count |-> n, answering |-> FALSE,
   accepted |-> FALSE, drive |-> level]
Gave(byte, answer) ==
  [state |-> "give", byte |-> byte, count |-> NBits, answering |-> TRUE,
   accepted |-> answer, drive |-> TRUE]

(* The byte the device gave n bytes before the last one, the next one to   *)
(* give being d                                                            *)
GivenBefore(d, n) == Given[IF n < d - 1 THEN d - 1 - n ELSE d - 1 - n + Len(Given)]
LastGiven(n) == GivenBefore(device.next, n)

(* write_byte(v), heard as state, when the device had taken t steps *)
Hears(v, state, n) == (Deaf /\ state = "addr") \/ peer = Heard(state, v, n)
SendBit(v, state, t) ==
  /\ bits = <<>> /\ taken = t
  /\ \E i \in 0 .. NBits - 1 :
       \/ ops = SendRest(v, i, 0) /\ ~scl /\ Hears(v, state, i)
       \/ ops = SendRest(v, i, 1) /\ ~scl /\ sda = v[i + 1] /\ Hears(v, state, i)
       \/ ops = SendRest(v, i, 2) /\ scl /\ Hears(v, state, i + 1)
AnswerIs(v, state, t) ==
  \/ Deaf /\ state = "addr" /\ taken = t
  \/ peer = Answering(state, v, FALSE) /\ taken = t
  \/ peer = Answering(state, v, TRUE) /\ taken = IF state = "addr" THEN t ELSE t + 1
SendAck(v, state, t) ==
  /\ AnswerIs(v, state, t)
  /\ \/ ops = SendRest(v, NBits, 0) /\ ~scl /\ bits = <<>>
     \/ ops = SendRest(v, NBits, 1) /\ ~scl /\ sda /\ bits = <<>>
     \/ ops = SendRest(v, NBits, 2) /\ scl /\ sda /\ bits = <<>>
     \/ ops = SendRest(v, NBits, 3) /\ scl /\ sda /\ bits = <<peer.drive>>
WasSent(v, state, t) ==
  /\ ops = <<>> /\ ~scl
  /\ \/ bits = <<TRUE>> /\ Deaf /\ taken = t
     \/ /\ bits = <<FALSE>>
        /\ \/ state = "addr" /\ ~v[NBits] /\ peer = Peer("reg") /\ taken = t
           \/ state = "addr" /\ v[NBits] /\ taken = t + 1
              /\ peer = Giving(LastGiven(0), 0, LastGiven(0)[1])
           \/ state # "addr" /\ peer = Peer("data") /\ taken = t + 1
(* "ack = ack && ..." has been false: nothing is sent. *)
NotSent == ops = <<>> /\ ~scl /\ bits = <<>> /\ Deaf
SendInv(v, state, t) ==
  IF ack THEN SendBit(v, state, t) \/ SendAck(v, state, t) \/ WasSent(v, state, t) ELSE NotSent

(* read_byte(nack), which returns w *)
Gives(w, n, level) == IF ack THEN peer = Giving(w, n, level) ELSE Deaf
GetBit(w, nack) ==
  \E i \in 0 .. NBits - 1 :
    \/ ops = GetRest(nack, i, 0) /\ ~scl /\ bits = SubSeq(w, 1, i) /\ Gives(w, i, w[i + 1])
    \/ ops = GetRest(nack, i, 1) /\ ~scl /\ sda /\ bits = SubSeq(w, 1, i) /\ Gives(w, i, w[i + 1])
    \/ ops = GetRest(nack, i, 2) /\ scl /\ sda /\ bits = SubSeq(w, 1, i) /\ Gives(w, i + 1, w[i + 1])
    \/ ops = GetRest(nack, i, 3) /\ scl /\ sda /\ bits = SubSeq(w, 1, i + 1) /\ Gives(w, i + 1, w[i + 1])
Waits(w, answer) == IF ack THEN peer = Gave(w, answer) ELSE Deaf
GetAck(w, nack) ==
  /\ bits = w
  /\ \/ ops = GetRest(nack, NBits, 0) /\ ~scl /\ Waits(w, FALSE)
     \/ ops = GetRest(nack, NBits, 1) /\ ~scl /\ sda = nack /\ Waits(w, FALSE)
     \/ ops = GetRest(nack, NBits, 2) /\ scl /\ sda = nack /\ Waits(w, ~nack)
WasGot(w, nack) ==
  /\ ops = <<>> /\ ~scl /\ bits = w
  /\ IF ack /\ ~nack THEN peer = Giving(LastGiven(0), 0, LastGiven(0)[1]) ELSE Deaf

(* What data[k - 1] is after the call's steps so far *)
Read(k) == IF ack THEN LastGiven(taken - 1 - k) ELSE Ones
GetInv ==
  /\ GetBit(Read(index + 1), LastByte(index)) \/ GetAck(Read(index + 1), LastByte(index))
       \/ WasGot(Read(index + 1), LastByte(index))
  /\ ack => taken = IF ops = <<>> /\ ~LastByte(index) THEN index + 3 ELSE index + 2

(* Start and stop conditions *)
Fresh == peer \in {Peer("off"), Peer("addr")}
Starting ==
  \/ ops = <<"set_sda", "set_scl", "clear_sda", "clear_scl">> /\ ~scl /\ peer = Peer("data")
  \/ ops = <<"set_scl", "clear_sda", "clear_scl">> /\ ~scl /\ sda /\ peer = Peer("data")
  \/ /\ ops = <<"clear_sda", "clear_scl">> /\ scl /\ (sda \/ Fresh)
     /\ peer.drive /\ peer.count \in 0 .. 1
  \/ ops = <<"clear_scl">> /\ scl /\ ~sda /\ Fresh
  \/ ops = <<>> /\ ~scl /\ Fresh
StartInv == bits = <<>> /\ IF ack THEN Starting ELSE NotSent
StopInv ==
  /\ bits = <<>>
  /\ \/ ops = <<"clear_sda", "set_scl", "set_sda">> /\ ~scl /\ Deaf
     \/ ops = <<"set_scl", "set_sda">> /\ ~scl /\ ~sda /\ Deaf
     \/ ops = <<"set_sda">> /\ scl /\ ~sda /\ Deaf
     \/ ops = <<>> /\ scl /\ sda /\ peer = Peer("idle")

PieceInv ==
  /\ i2c_pc = "idle" =>
       /\ ops = <<>> /\ bits = <<>>
       /\ IF is_started THEN ~scl /\ peer = Peer("data")
          ELSE scl /\ IF sda THEN peer = Peer("idle") ELSE Fresh
  /\ i2c_pc \in {"start", "restart"} => StartInv
  /\ i2c_pc = "addr" => SendInv(Address(FALSE), "addr", 0)
  /\ i2c_pc = "reg" => SendInv(call.reg, "reg", 0)
  /\ i2c_pc = "data" => SendInv(call.data[index], "data", index)
  /\ i2c_pc = "addr_read" => SendInv(Address(TRUE), "addr", 1)
  /\ i2c_pc = "get" => GetInv
  /\ i2c_pc = "stop" => StopInv
  /\ i2c_pc = "return" => ops = <<>> /\ bits = <<>> /\ ~scl /\ peer = Peer("data")

(* How far the call is *)
NumBytes(c) == IF c.kind = "write" THEN Len(c.data) ELSE c.len
CallInv ==
  /\ i2c_pc = "idle" => call = NoCall /\ ack /\ index = 0 /\ taken = 0 /\ got = <<>>
  /\ i2c_pc # "idle" => call \in Calls /\ (~ack => taken <= NumBytes(call))
  /\ i2c_pc \in {"start", "addr"} => ack
  /\ i2c_pc \in {"start", "addr", "reg", "restart", "addr_read"} => index = 0 /\ got = <<>>
  /\ i2c_pc = "start" => taken = 0
  /\ i2c_pc \in {"data", "return"} => call.kind = "write" /\ got = <<>>
  /\ i2c_pc = "data" => index \in 1 .. NumBytes(call)
  /\ i2c_pc = "restart" => (ack => taken = 1)
  /\ i2c_pc \in {"restart", "addr_read", "get"} => call.kind = "read"
  /\ i2c_pc = "get" => index < NumBytes(call)
  /\ i2c_pc \in {"stop", "return"} => index = NumBytes(call) /\ (ack => taken = NumBytes(call) + 1)
  /\ i2c_pc = "return" => ack
  /\ i2c_pc \notin {"idle", "stop"} => is_started
  /\ i2c_pc = "stop" => ~is_started

GotInv ==
  /\ i2c_pc = "get" => Len(got) = index
  /\ i2c_pc = "stop" => IF call.kind = "write" THEN got = <<>> ELSE Len(got) = index
  /\ \A k \in 1 .. Len(got) : got[k] = Read(k)

DeviceTypes == [reg : Byte, written : Seq(Byte), next : 1 .. Len(Given)]

I2cTypes ==
  /\ is_started \in BOOLEAN /\ ack \in BOOLEAN /\ scl \in BOOLEAN /\ sda \in BOOLEAN
  /\ call \in Calls \cup {NoCall}
  /\ i2c_pc \in {"idle", "start", "addr", "reg", "data", "restart", "addr_read", "get", "stop",
                 "return"}
  /\ index \in Nat /\ taken \in Nat /\ got \in Seq(Byte)
  /\ device \in DeviceTypes

I2cInv == I2cTypes /\ CallInv /\ GotInv /\ PieceInv

-----------------------------------------------------------------------------
(* Pin operations *)

LEMMA PinIs ==
  ASSUME PinOperation, NEW op, NEW rest, Todo(ops, op, rest)
  PROVE  /\ ops' = rest
         /\ op = "set_sda" => SetSda(TRUE)
         /\ op = "clear_sda" => SetSda(FALSE)
         /\ op = "set_scl" => SetScl
         /\ op = "clear_scl" => ClearScl
         /\ op = "read_sda" => ReadSda
BY DEF PinOperation, Todo

(* What an operation leaves alone, and what the lines are then *)
callVars == <<is_started, call, i2c_pc, ack, index, got, reply>>

LEMMA PinFrame ==
  ASSUME PinOperation PROVE UNCHANGED callVars
BY DEF PinOperation, SetSda, SetScl, ClearScl, ReadSda, master, callVars

LEMMA SdaWhileLow ==
  ASSUME NEW level, SetSda(level), ~scl
  PROVE  sda' = level /\ UNCHANGED <<scl, bits, peer, device, taken>>
BY DEF SetSda, PeerSeesSda, master

LEMMA SclRises ==
  ASSUME SetScl, ~scl
  PROVE  scl' = TRUE /\ PeerSeesRise /\ UNCHANGED <<sda, bits, device, taken>>
BY DEF SetScl, master

LEMMA SclFalls ==
  ASSUME ClearScl, scl
  PROVE  scl' = FALSE /\ PeerSeesFall /\ UNCHANGED <<sda, bits>>
BY DEF ClearScl, master

LEMMA SdaIsRead ==
  ASSUME ReadSda
  PROVE  bits' = Append(bits, Sda) /\ UNCHANGED <<scl, sda, peer, device, taken>>
BY DEF ReadSda

(* A device that takes no part *)
LEMMA DeafEdges ==
  ASSUME Deaf
  PROVE  /\ peer.drive = TRUE
         /\ PeerSeesRise => peer' = peer
         /\ PeerSeesFall => UNCHANGED <<peer, device, taken>>
BY DEF Deaf, Peer, PeerSeesRise, PeerSeesFall, Listening

(* A device that hears a byte *)
ListenStates == {"addr", "reg", "data"}

LEMMA HeardRise ==
  ASSUME NEW v \in Byte, NEW state \in ListenStates, NEW n \in 0 .. NBits - 1,
         peer = Heard(state, v, n), Sda = v[n + 1], PeerSeesRise
  PROVE  peer' = Heard(state, v, n + 1)
<1>1. /\ Listening /\ peer.answering = FALSE /\ peer.state # "give"
      /\ peer.byte = SubSeq(v, 1, n) /\ peer.count = n
  BY DEF Heard, Listening, ListenStates
<1>2. peer' = [peer EXCEPT !.byte = Append(@, Sda), !.count = @ + 1]
  BY <1>1 DEF PeerSeesRise
<1>3. Append(peer.byte, Sda) = SubSeq(v, 1, n + 1)
  BY <1>1, ByteBits
<1> QED BY <1>1, <1>2, <1>3 DEF Heard

LEMMA HeardFall ==
  ASSUME NEW v \in Byte, NEW state \in ListenStates, NEW n \in 0 .. NBits - 1,
         peer = Heard(state, v, n), PeerSeesFall
  PROVE  UNCHANGED <<peer, device, taken>>
<1>1. peer.answering = FALSE /\ peer.state # "give" /\ peer.count # NBits
  BY I2cAssumption DEF Heard, ListenStates
<1> QED BY <1>1 DEF PeerSeesFall

LEMMA HeardAll ==
  ASSUME NEW v \in Byte, NEW state \in ListenStates, NEW t, taken = t,
         peer = Heard(state, v, NBits), PeerSeesFall,
         device \in DeviceTypes
  PROVE  /\ AnswerIs(v, state, t)'
         /\ device' \in DeviceTypes
         /\ device'.next = device.next
<1>1. /\ peer.answering = FALSE /\ peer.state = state /\ state # "give" /\ peer.count = NBits
      /\ Listening /\ peer.byte = v
  BY ByteBits DEF Heard, ListenStates, Listening
<1>2. PICK a \in BOOLEAN : Answers(a)
  BY <1>1 DEF PeerSeesFall
<1>3. peer' = Answering(state, v, a)
  <2>1. peer' = [peer EXCEPT !.answering = TRUE, !.accepted = a, !.drive = ~a]
    BY <1>2 DEF Answers
  <2> QED BY <1>1, <2>1 DEF Heard, Answering
<1>4. CASE a /\ state # "addr"
  <2>1. taken' = t + 1 /\ peer' = Answering(state, v, TRUE)
    BY <1>1, <1>2, <1>3, <1>4 DEF Answers
  <2>2. AnswerIs(v, state, t)'
    BY <1>4, <2>1 DEF AnswerIs
  <2>3. device' = IF state = "reg" THEN [device EXCEPT !.reg = v, !.written = <<>>]
                                   ELSE [device EXCEPT !.written = Append(@, v)]
    BY <1>1, <1>2, <1>4 DEF Answers
  <2>4. Append(device.written, v) \in Seq(Byte) /\ <<>> \in Seq(Byte)
    BY AppendProperties, EmptySeq DEF DeviceTypes
  <2>5. /\ device' \in DeviceTypes
        /\ device'.next = device.next
    <3>1. CASE state = "reg"
      BY <2>3, <2>4, <3>1 DEF DeviceTypes
    <3>2. CASE state # "reg"
      BY <2>3, <2>4, <3>2 DEF DeviceTypes
    <3> QED BY <3>1, <3>2
  <2> QED BY <2>2, <2>5
<1>5. CASE ~(a /\ state # "addr")
  <2>1. UNCHANGED <<taken, device>>
    BY <1>1, <1>2, <1>5 DEF Answers
  <2>2. CASE a = TRUE
    BY <1>3, <1>5, <2>1, <2>2 DEF AnswerIs
  <2>3. CASE a = FALSE
    BY <1>3, <2>1, <2>3 DEF AnswerIs
  <2> QED BY <2>1, <2>2, <2>3
<1> QED BY <1>4, <1>5

(* A device that gives its next byte *)
LEMMA WrapsAround ==
  ASSUME NEW len \in Nat \ {0}, NEW d \in 0 .. 2 * len - 1
  PROVE  d % len = IF d < len THEN d ELSE d - len
OBVIOUS

LEMMA GivenNext ==
  ASSUME device \in DeviceTypes,
         device' = [device EXCEPT !.next = (@ % Len(Given)) + 1]
  PROVE  /\ device' \in DeviceTypes
         /\ LastGiven(0)' = Given[device.next] /\ Given[device.next] \in Byte
         /\ \A n \in 0 .. Len(Given) - 2 : LastGiven(n + 1)' = LastGiven(n)
<1> DEFINE len == Len(Given)
           d == device.next
<1>1. len \in Nat \ {0} /\ d \in 1 .. len /\ Given \in Seq(Byte)
  BY I2cAssumption, EmptySeq DEF DeviceTypes
<1>2. Given[d] \in Byte
  BY <1>1, ElementOfSeq
<1>3. device'.next = (d % len) + 1
  BY DEF DeviceTypes
<1> HIDE DEF len, d
<1>4. d % len = IF d < len THEN d ELSE d - len
  BY <1>1, WrapsAround
<1> DEFINE e == device'.next
<1>5. e = IF d < len THEN d + 1 ELSE 1
  BY <1>1, <1>3, <1>4
<1> HIDE DEF e
<1>6. device' \in DeviceTypes
  <2>1. (device.next % Len(Given)) + 1 \in 1 .. Len(Given)
    BY <1>1, <1>3, <1>5 DEF len, d, e
  <2> QED BY <2>1 DEF DeviceTypes
<1>7. GivenBefore(e, 0) = Given[d]
  BY <1>1, <1>5 DEF GivenBefore, len
<1>8. ASSUME NEW n \in 0 .. len - 2 PROVE GivenBefore(e, n + 1) = GivenBefore(d, n)
  BY <1>1, <1>5 DEF GivenBefore, len
<1> QED BY <1>2, <1>6, <1>7, <1>8 DEF LastGiven, len, d, e

(* The byte after an answer *)
LEMMA GiveBegins ==
  ASSUME peer.answering = TRUE, peer.accepted = TRUE, PeerSeesFall, device \in DeviceTypes,
         peer.state = "give" \/ (peer.state = "addr" /\ peer.byte[NBits])
  PROVE  /\ device' = [device EXCEPT !.next = (@ % Len(Given)) + 1] /\ taken' = taken + 1
         /\ peer' = Giving(Given[device.next], 0, Given[device.next][1])
<1>1. NextState = "give"
  BY DEF NextState
<1>2. AfterAnswer
  BY DEF PeerSeesFall
<1> QED BY <1>1, <1>2 DEF AfterAnswer, Giving, Peer, DeviceTypes

LEMMA GiveEndsElsewhere ==
  ASSUME NEW next \in {"ignore", "reg", "data"}, NextState = next,
         peer.answering = TRUE, PeerSeesFall
  PROVE  peer' = Peer(next) /\ UNCHANGED <<device, taken>>
BY DEF PeerSeesFall, AfterAnswer

LEMMA AnsweringRise ==
  ASSUME NEW v, NEW state \in ListenStates, NEW a, peer = Answering(state, v, a), PeerSeesRise
  PROVE  peer' = peer
BY DEF Answering, PeerSeesRise, Listening, ListenStates

LEMMA AnsweringFall ==
  ASSUME NEW v \in Byte, NEW state \in ListenStates, NEW t, AnswerIs(v, state, t), sda = TRUE,
         bits = <<peer.drive>>, PeerSeesFall, device \in DeviceTypes,
         ops' = <<>>, scl' = FALSE, bits' = bits
  PROVE  WasSent(v, state, t)' /\ device' \in DeviceTypes
<1>1. CASE Deaf /\ state = "addr" /\ taken = t
  <2>1. peer.drive = TRUE /\ UNCHANGED <<peer, device, taken>>
    BY <1>1, DeafEdges
  <2> QED BY <1>1, <2>1 DEF WasSent, Deaf
<1>2. CASE peer = Answering(state, v, FALSE) /\ taken = t
  <2>1. peer.drive = TRUE /\ peer.answering = TRUE /\ NextState = "ignore"
    BY <1>2 DEF Answering, NextState
  <2>2. peer' = Peer("ignore") /\ UNCHANGED <<device, taken>>
    BY <2>1, GiveEndsElsewhere
  <2> QED BY <1>2, <2>1, <2>2 DEF WasSent, Deaf
<1>3. CASE /\ peer = Answering(state, v, TRUE)
           /\ taken = IF state = "addr" THEN t ELSE t + 1
  <2>1. /\ peer.drive = FALSE /\ peer.answering = TRUE /\ peer.accepted = TRUE
        /\ peer.state = state /\ peer.byte = v
    BY <1>3 DEF Answering
  <2>2. bits' = <<FALSE>>
    BY <2>1
  <2>3. CASE state = "addr" /\ v[NBits]
    <3>1. /\ device' = [device EXCEPT !.next = (@ % Len(Given)) + 1] /\ taken' = t + 1
          /\ peer' = Giving(Given[device.next], 0, Given[device.next][1])
      BY <1>3, <2>1, <2>3, GiveBegins
    <3>2. device' \in DeviceTypes /\ LastGiven(0)' = Given[device.next]
      BY <3>1, GivenNext
    <3> QED BY <2>2, <2>3, <3>1, <3>2 DEF WasSent
  <2>4. CASE state = "addr" /\ ~v[NBits]
    <3>1. NextState = "reg"
      BY <2>1, <2>4 DEF NextState
    <3>2. peer' = Peer("reg") /\ UNCHANGED <<device, taken>>
      BY <2>1, <3>1, GiveEndsElsewhere
    <3> QED BY <1>3, <2>2, <2>4, <3>2 DEF WasSent
  <2>5. CASE state # "addr"
    <3>1. NextState = "data"
      BY <2>1, <2>5 DEF NextState, ListenStates
    <3>2. peer' = Peer("data") /\ UNCHANGED <<device, taken>>
      BY <2>1, <3>1, GiveEndsElsewhere
    <3> QED BY <1>3, <2>2, <2>5, <3>2 DEF WasSent
  <2> QED BY <2>3, <2>4, <2>5
<1> QED BY <1>1, <1>2, <1>3 DEF AnswerIs

(* A device that is read *)
LEMMA GivingRise ==
  ASSUME NEW w, NEW n, NEW level, peer = Giving(w, n, level), PeerSeesRise
  PROVE  peer' = Giving(w, n + 1, level)
<1>1. peer.answering = FALSE /\ peer.state = "give" /\ ~Listening
  BY DEF Giving, Listening
<1>2. peer' = [peer EXCEPT !.count = @ + 1]
  BY <1>1 DEF PeerSeesRise
<1> QED BY <1>2 DEF Giving

LEMMA GivingFall ==
  ASSUME NEW w, NEW n \in 1 .. NBits, NEW level, peer = Giving(w, n, level), PeerSeesFall
  PROVE  /\ peer' = IF n < NBits THEN Giving(w, n, w[n + 1]) ELSE Gave(w, FALSE)
         /\ UNCHANGED <<device, taken>>
<1>1. peer.answering = FALSE /\ peer.state = "give" /\ peer.count = n /\ peer.byte = w
  BY DEF Giving
<1>2. /\ peer' = IF n < NBits THEN [peer EXCEPT !.drive = w[n + 1]]
                 ELSE [peer EXCEPT !.answering = TRUE, !.drive = TRUE]
      /\ UNCHANGED <<device, taken>>
  BY <1>1 DEF PeerSeesFall, ShiftsOut
<1>3. NBits \in Nat /\ n \in Nat /\ n <= NBits
  BY I2cAssumption
<1>4. ASSUME n < NBits PROVE peer' = Giving(w, n, w[n + 1])
  <2>1. peer' = [peer EXCEPT !.drive = w[n + 1]]
    BY <1>2, <1>4
  <2> QED BY <2>1 DEF Giving
<1>5. ASSUME n = NBits PROVE peer' = Gave(w, FALSE)
  <2>1. peer' = [peer EXCEPT !.answering = TRUE, !.drive = TRUE]
    BY <1>2, <1>3, <1>5
  <2> QED BY <1>5, <2>1 DEF Giving, Gave
<1>6. UNCHANGED <<device, taken>>
  BY <1>2
<1>7. n < NBits \/ (n = NBits /\ ~(n < NBits))
  BY <1>3
<1> QED BY <1>4, <1>5, <1>6, <1>7, Zenon

LEMMA GaveRise ==
  ASSUME NEW w, NEW answer, peer = Gave(w, answer), PeerSeesRise
  PROVE  peer' = Gave(w, ~Sda)
<1>1. peer.answering = TRUE /\ peer.state = "give" /\ ~Listening
  BY DEF Gave, Listening
<1>2. peer' = [peer EXCEPT !.accepted = ~Sda]
  BY <1>1 DEF PeerSeesRise
<1> QED BY <1>2 DEF Gave

LEMMA GaveFall ==
  ASSUME NEW w, NEW answer \in BOOLEAN, peer = Gave(w, answer), PeerSeesFall, device \in DeviceTypes
  PROVE  IF answer
         THEN /\ device' = [device EXCEPT !.next = (@ % Len(Given)) + 1] /\ taken' = taken + 1
              /\ peer' = Giving(Given[device.next], 0, Given[device.next][1])
         ELSE peer' = Peer("ignore") /\ UNCHANGED <<device, taken>>
<1>1. peer.answering = TRUE /\ peer.state = "give" /\ peer.accepted = answer
  BY DEF Gave
<1>2. CASE answer = TRUE
  BY <1>1, <1>2, GiveBegins
<1>3. CASE answer = FALSE
  <2>1. NextState = "ignore"
    BY <1>1, <1>3 DEF NextState
  <2> QED BY <1>1, <1>3, <2>1, GiveEndsElsewhere
<1> QED BY <1>2, <1>3

-----------------------------------------------------------------------------
(* The pieces of a call, one pin operation at a time *)

LEMMA SendStep ==
  ASSUME NEW v \in Byte, NEW state \in ListenStates, NEW t,
         SendBit(v, state, t) \/ SendAck(v, state, t),
         PinOperation, sda \in BOOLEAN, device \in DeviceTypes
  PROVE  /\ SendBit(v, state, t)' \/ SendAck(v, state, t)' \/ WasSent(v, state, t)'
         /\ device' \in DeviceTypes
<1>1. ASSUME bits = <<>>, taken = t, NEW i \in 0 .. NBits - 1,
             ops = SendRest(v, i, 0), ~scl, Hears(v, state, i)
      PROVE  SendBit(v, state, t)' /\ device' = device
  <2> DEFINE b == v[i + 1]
  <2>1. b \in BOOLEAN
    BY I2cAssumption DEF Byte
  <2>2. Todo(ops, IF b THEN "set_sda" ELSE "clear_sda", SendRest(v, i, 1))
    BY <1>1, SendTodo
  <2> HIDE DEF b
  <2>3. ops' = SendRest(v, i, 1) /\ SetSda(b)
    <3>1. CASE b = TRUE
      BY <2>2, <3>1, PinIs
    <3>2. CASE b = FALSE
      BY <2>2, <3>2, PinIs
    <3> QED BY <2>1, <3>1, <3>2
  <2>4. sda' = b /\ UNCHANGED <<scl, bits, peer, device, taken>>
    BY <1>1, <2>3, SdaWhileLow
  <2>5. Hears(v, state, i)'
    BY <1>1, <2>4 DEF Hears, Deaf
  <2> QED BY <1>1, <2>3, <2>4, <2>5 DEF SendBit, b
<1>2. ASSUME bits = <<>>, taken = t, NEW i \in 0 .. NBits - 1,
             ops = SendRest(v, i, 1), ~scl, sda = v[i + 1], Hears(v, state, i)
      PROVE  SendBit(v, state, t)' /\ device' = device
  <2>1. ops' = SendRest(v, i, 2) /\ SetScl
    BY <1>2, SendTodo, PinIs
  <2>2. scl' = TRUE /\ PeerSeesRise /\ UNCHANGED <<bits, device, taken>>
    BY <1>2, <2>1, SclRises
  <2>3. Hears(v, state, i + 1)'
    <3>1. CASE Deaf /\ state = "addr"
      BY <2>2, <3>1, DeafEdges DEF Hears, Deaf
    <3>2. CASE peer = Heard(state, v, i)
      <4>1. peer.drive = TRUE
        BY <3>2 DEF Heard
      <4>2. Sda = v[i + 1]
        BY <1>2, <4>1 DEF Sda
      <4> QED BY <2>2, <3>2, <4>2, HeardRise DEF Hears
    <3> QED BY <1>2, <3>1, <3>2 DEF Hears
  <2> QED BY <1>2, <2>1, <2>2, <2>3 DEF SendBit
<1>3. ASSUME bits = <<>>, taken = t, NEW i \in 0 .. NBits - 1,
             ops = SendRest(v, i, 2), scl, Hears(v, state, i + 1)
      PROVE  (SendBit(v, state, t)' \/ SendAck(v, state, t)') /\ device' \in DeviceTypes
  <2>1. ops' = SendRest(v, i + 1, 0) /\ ClearScl
    BY <1>3, SendTodo, PinIs
  <2>2. scl' = FALSE /\ PeerSeesFall /\ UNCHANGED bits
    BY <1>3, <2>1, SclFalls
  <2>3. i + 1 \in 0 .. NBits /\ (i + 1 # NBits => i + 1 \in 0 .. NBits - 1)
    BY I2cAssumption
  <2>4. ASSUME Hears(v, state, i + 1)', UNCHANGED <<device, taken>>, i + 1 # NBits
        PROVE  SendBit(v, state, t)'
    BY <1>3, <2>1, <2>2, <2>3, <2>4 DEF SendBit
  <2>5. ASSUME AnswerIs(v, state, t)', i + 1 = NBits
        PROVE  SendAck(v, state, t)'
    BY <1>3, <2>1, <2>2, <2>5 DEF SendAck
  <2>6. CASE Deaf /\ state = "addr"
    <3>1. UNCHANGED <<peer, device, taken>>
      BY <2>2, <2>6, DeafEdges
    <3>2. Hears(v, state, i + 1)' /\ AnswerIs(v, state, t)'
      BY <1>3, <2>6, <3>1 DEF Hears, AnswerIs, Deaf
    <3> QED BY <2>4, <2>5, <3>1, <3>2
  <2>7. CASE peer = Heard(state, v, i + 1) /\ i + 1 # NBits
    <3>1. UNCHANGED <<peer, device, taken>>
      BY <2>2, <2>3, <2>7, HeardFall
    <3>2. Hears(v, state, i + 1)'
      BY <2>7, <3>1 DEF Hears
    <3> QED BY <2>4, <2>7, <3>1, <3>2
  <2>8. CASE peer = Heard(state, v, i + 1) /\ i + 1 = NBits
    <3>1. AnswerIs(v, state, t)' /\ device' \in DeviceTypes
      BY <1>3, <2>2, <2>8, HeardAll
    <3> QED BY <2>5, <2>8, <3>1
  <2> QED BY <1>3, <2>6, <2>7, <2>8 DEF Hears
<1>4. ASSUME AnswerIs(v, state, t), ops = SendRest(v, NBits, 0), ~scl, bits = <<>>
      PROVE  SendAck(v, state, t)' /\ device' = device
  <2>1. ops' = SendRest(v, NBits, 1) /\ SetSda(TRUE)
    BY <1>4, SendTodo, PinIs
  <2>2. sda' = TRUE /\ UNCHANGED <<scl, bits, peer, device, taken>>
    BY <1>4, <2>1, SdaWhileLow
  <2>3. AnswerIs(v, state, t)'
    BY <1>4, <2>2 DEF AnswerIs, Deaf
  <2> QED BY <1>4, <2>1, <2>2, <2>3 DEF SendAck
<1>5. ASSUME AnswerIs(v, state, t), ops = SendRest(v, NBits, 1), ~scl, sda, bits = <<>>
      PROVE  SendAck(v, state, t)' /\ device' = device
  <2>1. ops' = SendRest(v, NBits, 2) /\ SetScl
    BY <1>5, SendTodo, PinIs
  <2>2. scl' = TRUE /\ PeerSeesRise /\ UNCHANGED <<sda, bits, device, taken>>
    BY <1>5, <2>1, SclRises
  <2>3. peer' = peer
    BY <1>5, <2>2, DeafEdges, AnsweringRise DEF AnswerIs
  <2>4. AnswerIs(v, state, t)'
    BY <1>5, <2>2, <2>3 DEF AnswerIs, Deaf
  <2> QED BY <1>5, <2>1, <2>2, <2>4 DEF SendAck
<1>6. ASSUME AnswerIs(v, state, t), ops = SendRest(v, NBits, 2), scl, sda, bits = <<>>
      PROVE  SendAck(v, state, t)' /\ device' = device
  <2>1. ops' = SendRest(v, NBits, 3) /\ ReadSda
    BY <1>6, SendTodo, PinIs
  <2>2. bits' = Append(bits, Sda) /\ UNCHANGED <<scl, sda, peer, device, taken>>
    BY <2>1, SdaIsRead
  <2>3. Sda = peer.drive
    <3>1. peer.drive \in BOOLEAN
      <4>1. CASE Deaf
        BY <4>1, DeafEdges
      <4>2. CASE peer = Answering(state, v, FALSE)
        BY <4>2 DEF Answering
      <4>3. CASE peer = Answering(state, v, TRUE)
        BY <4>3 DEF Answering
      <4> QED BY <1>6, <4>1, <4>2, <4>3 DEF AnswerIs
    <3> QED BY <1>6, <3>1, Zenon DEF Sda
  <2>4. bits' = <<peer.drive>>
    BY <1>6, <2>2, <2>3
  <2>5. AnswerIs(v, state, t)'
    BY <1>6, <2>2 DEF AnswerIs, Deaf
  <2> QED BY <1>6, <2>1, <2>2, <2>4, <2>5 DEF SendAck
<1>7. ASSUME AnswerIs(v, state, t), ops = SendRest(v, NBits, 3), scl, sda, bits = <<peer.drive>>
      PROVE  WasSent(v, state, t)' /\ device' \in DeviceTypes
  <2>1. ops' = <<>> /\ ClearScl
    BY <1>7, SendTodo, PinIs
  <2>2. scl' = FALSE /\ PeerSeesFall /\ UNCHANGED bits
    BY <1>7, <2>1, SclFalls
  <2> QED BY <1>7, <2>1, <2>2, AnsweringFall
<1>8. CASE SendBit(v, state, t)
  BY <1>1, <1>2, <1>3, <1>8 DEF SendBit
<1>9. CASE SendAck(v, state, t)
  BY <1>4, <1>5, <1>6, <1>7, <1>9 DEF SendAck
<1> QED BY <1>8, <1>9

LEMMA GetStep ==
  ASSUME NEW w \in Byte, NEW nack \in BOOLEAN, GetBit(w, nack) \/ GetAck(w, nack),
         ack \in BOOLEAN, ~ack => w = Ones,
         PinOperation, sda \in BOOLEAN, device \in DeviceTypes
  PROVE  \/ (GetBit(w, nack)' \/ GetAck(w, nack)') /\ ops' # <<>> /\ UNCHANGED <<device, taken>>
         \/ /\ WasGot(w, nack)'
            /\ IF ack /\ ~nack
               THEN device' = [device EXCEPT !.next = (@ % Len(Given)) + 1] /\ taken' = taken + 1
               ELSE UNCHANGED <<device, taken>>
<1>1. ack' = ack
  BY PinFrame DEF callVars
<1>2. NBits \in Nat \ {0} /\ \A i \in 0 .. NBits - 1 : w[i + 1] \in BOOLEAN
  BY I2cAssumption DEF Byte
<1>3. ASSUME NEW i \in 0 .. NBits - 1, ops = GetRest(nack, i, 0), ~scl,
             bits = SubSeq(w, 1, i), Gives(w, i, w[i + 1])
      PROVE  GetBit(w, nack)' /\ ops' # <<>> /\ UNCHANGED <<device, taken>>
  <2>1. ops' = GetRest(nack, i, 1) /\ SetSda(TRUE)
    BY <1>3, GetTodo, PinIs
  <2>9. ops' # <<>>
    BY <2>1, GetTodo DEF Todo
  <2>2. sda' = TRUE /\ UNCHANGED <<scl, bits, peer, device, taken>>
    BY <1>3, <2>1, SdaWhileLow
  <2>3. Gives(w, i, w[i + 1])'
    BY <1>1, <1>3, <2>2 DEF Gives, Deaf
  <2> QED BY <1>3, <2>1, <2>2, <2>3, <2>9 DEF GetBit
<1>4. ASSUME NEW i \in 0 .. NBits - 1, ops = GetRest(nack, i, 1), ~scl, sda,
             bits = SubSeq(w, 1, i), Gives(w, i, w[i + 1])
      PROVE  GetBit(w, nack)' /\ ops' # <<>> /\ UNCHANGED <<device, taken>>
  <2>1. ops' = GetRest(nack, i, 2) /\ SetScl
    BY <1>4, GetTodo, PinIs
  <2>9. ops' # <<>>
    BY <2>1, GetTodo DEF Todo
  <2>2. scl' = TRUE /\ PeerSeesRise /\ UNCHANGED <<sda, bits, device, taken>>
    BY <1>4, <2>1, SclRises
  <2>3. Gives(w, i + 1, w[i + 1])'
    <3>1. CASE ack
      BY <1>1, <1>4, <2>2, <3>1, GivingRise DEF Gives
    <3>2. CASE ~ack
      BY <1>1, <1>4, <2>2, <3>2, DeafEdges DEF Gives, Deaf
    <3> QED BY <3>1, <3>2
  <2> QED BY <1>4, <2>1, <2>2, <2>3, <2>9 DEF GetBit
<1>5. ASSUME NEW i \in 0 .. NBits - 1, ops = GetRest(nack, i, 2), scl, sda,
             bits = SubSeq(w, 1, i), Gives(w, i + 1, w[i + 1])
      PROVE  GetBit(w, nack)' /\ ops' # <<>> /\ UNCHANGED <<device, taken>>
  <2>1. ops' = GetRest(nack, i, 3) /\ ReadSda
    BY <1>5, GetTodo, PinIs
  <2>9. ops' # <<>>
    BY <2>1, GetTodo DEF Todo
  <2>2. bits' = Append(bits, Sda) /\ UNCHANGED <<scl, sda, peer, device, taken>>
    BY <2>1, SdaIsRead
  <2>3. peer.drive = w[i + 1]
    <3>1. CASE ack
      BY <1>5, <3>1 DEF Gives, Giving
    <3>2. CASE ~ack
      <4>1. w[i + 1] = TRUE
        BY <1>2, <3>2 DEF Ones
      <4> QED BY <1>5, <3>2, <4>1, DeafEdges DEF Gives
    <3> QED BY <3>1, <3>2
  <2>4. Sda = w[i + 1]
    BY <1>2, <1>5, <2>3, Zenon DEF Sda
  <2>5. bits' = SubSeq(w, 1, i + 1)
    BY <1>5, <2>2, <2>4, ByteBits
  <2>6. Gives(w, i + 1, w[i + 1])'
    BY <1>1, <1>5, <2>2 DEF Gives, Deaf
  <2> QED BY <1>5, <2>1, <2>2, <2>5, <2>6, <2>9 DEF GetBit
<1>6. ASSUME NEW i \in 0 .. NBits - 1, ops = GetRest(nack, i, 3), scl, sda,
             bits = SubSeq(w, 1, i + 1), Gives(w, i + 1, w[i + 1])
      PROVE  (GetBit(w, nack)' \/ GetAck(w, nack)') /\ ops' # <<>> /\ UNCHANGED <<device, taken>>
  <2>1. ops' = GetRest(nack, i + 1, 0) /\ ClearScl
    BY <1>6, GetTodo, PinIs
  <2>2. scl' = FALSE /\ PeerSeesFall /\ UNCHANGED <<sda, bits>>
    BY <1>6, <2>1, SclFalls
  <2>3. i + 1 \in 1 .. NBits /\ (i + 1 < NBits => i + 1 \in 0 .. NBits - 1)
        /\ (i + 1 < NBits \/ i + 1 = NBits)
    BY <1>2
  <2>4. IF i + 1 < NBits THEN Gives(w, i + 1, w[i + 1 + 1])' ELSE Waits(w, FALSE)'
    <3>1. CASE ack
      <4>1. peer' = IF i + 1 < NBits THEN Giving(w, i + 1, w[i + 1 + 1]) ELSE Gave(w, FALSE)
        BY <1>6, <2>2, <2>3, <3>1, GivingFall DEF Gives
      <4> QED BY <1>1, <3>1, <4>1 DEF Gives, Waits
    <3>2. CASE ~ack
      BY <1>1, <1>6, <2>2, <3>2, DeafEdges DEF Gives, Waits, Deaf
    <3> QED BY <3>1, <3>2
  <2>5. UNCHANGED <<device, taken>>
    <3>1. CASE ack
      BY <1>6, <2>2, <2>3, <3>1, GivingFall DEF Gives
    <3>2. CASE ~ack
      BY <1>6, <2>2, <3>2, DeafEdges DEF Gives
    <3> QED BY <3>1, <3>2
  <2>6. CASE i + 1 < NBits
    <3>1. GetBit(w, nack)'
      BY <1>6, <2>1, <2>2, <2>3, <2>4, <2>6 DEF GetBit
    <3>2. ops' # <<>>
      BY <2>1, <2>3, <2>6, GetTodo DEF Todo
    <3> QED BY <2>5, <3>1, <3>2
  <2>7. CASE ~(i + 1 < NBits)
    <3>1. i + 1 = NBits
      BY <2>3, <2>7
    <3>2. bits' = w
      BY <1>6, <2>2, <3>1, ByteBits
    <3>3. GetAck(w, nack)'
      BY <2>1, <2>2, <2>4, <2>7, <3>1, <3>2 DEF GetAck
    <3>4. ops' # <<>>
      BY <2>1, <3>1, GetTodo DEF Todo
    <3> QED BY <2>5, <3>3, <3>4
  <2> QED BY <2>6, <2>7
<1>7. ASSUME bits = w, ops = GetRest(nack, NBits, 0), ~scl, Waits(w, FALSE)
      PROVE  GetAck(w, nack)' /\ ops' # <<>> /\ UNCHANGED <<device, taken>>
  <2>1. ops' = GetRest(nack, NBits, 1) /\ SetSda(nack)
    <3>1. Todo(ops, IF nack THEN "set_sda" ELSE "clear_sda", GetRest(nack, NBits, 1))
      BY <1>7, GetTodo
    <3>2. CASE nack = TRUE
      BY <3>1, <3>2, PinIs
    <3>3. CASE nack = FALSE
      BY <3>1, <3>3, PinIs
    <3> QED BY <3>2, <3>3
  <2>2. sda' = nack /\ UNCHANGED <<scl, bits, peer, device, taken>>
    BY <1>7, <2>1, SdaWhileLow
  <2>3. Waits(w, FALSE)'
    BY <1>1, <1>7, <2>2 DEF Waits, Deaf
  <2>4. ops' # <<>>
    BY <2>1, GetTodo DEF Todo
  <2> QED BY <1>7, <2>1, <2>2, <2>3, <2>4 DEF GetAck
<1>8. ASSUME bits = w, ops = GetRest(nack, NBits, 1), ~scl, sda = nack, Waits(w, FALSE)
      PROVE  GetAck(w, nack)' /\ ops' # <<>> /\ UNCHANGED <<device, taken>>
  <2>1. ops' = GetRest(nack, NBits, 2) /\ SetScl
    BY <1>8, GetTodo, PinIs
  <2>2. scl' = TRUE /\ PeerSeesRise /\ UNCHANGED <<sda, bits, device, taken>>
    BY <1>8, <2>1, SclRises
  <2>3. Waits(w, ~nack)'
    <3>1. CASE ack
      <4>1. peer.drive = TRUE
        BY <1>8, <3>1 DEF Waits, Gave
      <4>2. Sda = nack
        BY <1>8, <4>1, Zenon DEF Sda
      <4> QED BY <1>1, <1>8, <2>2, <3>1, <4>2, GaveRise DEF Waits
    <3>2. CASE ~ack
      BY <1>1, <1>8, <2>2, <3>2, DeafEdges DEF Waits, Deaf
    <3> QED BY <3>1, <3>2
  <2>4. ops' # <<>>
    BY <2>1, GetTodo DEF Todo
  <2> QED BY <1>8, <2>1, <2>2, <2>3, <2>4 DEF GetAck
<1>9. ASSUME bits = w, ops = GetRest(nack, NBits, 2), scl, sda = nack, Waits(w, ~nack)
      PROVE  /\ WasGot(w, nack)'
             /\ IF ack /\ ~nack
                THEN device' = [device EXCEPT !.next = (@ % Len(Given)) + 1] /\ taken' = taken + 1
                ELSE UNCHANGED <<device, taken>>
  <2>1. ops' = <<>> /\ ClearScl
    BY <1>9, GetTodo, PinIs
  <2>2. scl' = FALSE /\ PeerSeesFall /\ UNCHANGED bits
    BY <1>9, <2>1, SclFalls
  <2>3. CASE ack /\ ~nack
    <3>1. peer = Gave(w, TRUE)
      BY <1>9, <2>3 DEF Waits
    <3>2. /\ device' = [device EXCEPT !.next = (@ % Len(Given)) + 1] /\ taken' = taken + 1
          /\ peer' = Giving(Given[device.next], 0, Given[device.next][1])
      BY <2>2, <3>1, GaveFall
    <3>3. LastGiven(0)' = Given[device.next]
      BY <3>2, GivenNext
    <3> QED BY <1>1, <1>9, <2>1, <2>2, <2>3, <3>2, <3>3 DEF WasGot
  <2>4. CASE ~(ack /\ ~nack)
    <3>1. Deaf' /\ UNCHANGED <<device, taken>>
      <4>1. CASE ack
        <5>1. peer = Gave(w, FALSE)
          BY <1>9, <2>4, <4>1 DEF Waits
        <5> QED BY <2>2, <5>1, GaveFall DEF Deaf
      <4>2. CASE ~ack
        BY <1>9, <2>2, <4>2, DeafEdges DEF Waits, Deaf
      <4> QED BY <4>1, <4>2
    <3> QED BY <1>1, <1>9, <2>1, <2>2, <2>4, <3>1 DEF WasGot
  <2> QED BY <2>3, <2>4
<1>10. CASE GetBit(w, nack)
  BY <1>3, <1>4, <1>5, <1>6, <1>10 DEF GetBit
<1>11. CASE GetAck(w, nack)
  BY <1>7, <1>8, <1>9, <1>11 DEF GetAck
<1> QED BY <1>10, <1>11

LEMMA ShortTodo ==
  /\ Todo(<<"set_sda", "set_scl", "clear_sda", "clear_scl">>, "set_sda",
          <<"set_scl", "clear_sda", "clear_scl">>)
  /\ Todo(<<"set_scl", "clear_sda", "clear_scl">>, "set_scl", <<"clear_sda", "clear_scl">>)
  /\ Todo(<<"clear_sda", "clear_scl">>, "clear_sda", <<"clear_scl">>)
  /\ Todo(<<"clear_scl">>, "clear_scl", <<>>)
  /\ Todo(<<"clear_sda", "set_scl", "set_sda">>, "clear_sda", <<"set_scl", "set_sda">>)
  /\ Todo(<<"set_scl", "set_sda">>, "set_scl", <<"set_sda">>)
  /\ Todo(<<"set_sda">>, "set_sda", <<>>)
BY DEF Todo

LEMMA StartStep ==
  ASSUME Starting, ops # <<>>, ack = TRUE, bits = <<>>, PinOperation, sda \in BOOLEAN
  PROVE  Starting' /\ bits' = <<>> /\ UNCHANGED <<device, taken>>
<1>1. CASE ops = <<"set_sda", "set_scl", "clear_sda", "clear_scl">> /\ ~scl /\ peer = Peer("data")
  <2>1. ops' = <<"set_scl", "clear_sda", "clear_scl">> /\ SetSda(TRUE)
    BY <1>1, ShortTodo, PinIs
  <2>2. sda' = TRUE /\ UNCHANGED <<scl, bits, peer, device, taken>>
    BY <1>1, <2>1, SdaWhileLow
  <2> QED BY <1>1, <2>1, <2>2 DEF Starting
<1>2. CASE ops = <<"set_scl", "clear_sda", "clear_scl">> /\ ~scl /\ sda /\ peer = Peer("data")
  <2>1. ops' = <<"clear_sda", "clear_scl">> /\ SetScl
    BY <1>2, ShortTodo, PinIs
  <2>2. scl' = TRUE /\ PeerSeesRise /\ UNCHANGED <<sda, bits, device, taken>>
    BY <1>2, <2>1, SclRises
  <2>3. /\ Listening /\ peer.answering = FALSE /\ peer.state # "give" /\ peer.drive = TRUE
    BY <1>2 DEF Peer, Listening
  <2>4. peer' = [peer EXCEPT !.byte = Append(@, Sda), !.count = @ + 1]
    BY <2>2, <2>3 DEF PeerSeesRise
  <2>5. peer'.drive = TRUE /\ peer'.count = 1
    BY <1>2, <2>4 DEF Peer
  <2> QED BY <1>2, <2>1, <2>2, <2>5 DEF Starting
<1>3. CASE /\ ops = <<"clear_sda", "clear_scl">> /\ scl /\ (sda \/ Fresh)
           /\ peer.drive /\ peer.count \in 0 .. 1
  <2>1. ops' = <<"clear_scl">> /\ SetSda(FALSE)
    BY <1>3, ShortTodo, PinIs
  <2>2. sda' = FALSE /\ PeerSeesSda(FALSE) /\ UNCHANGED <<scl, bits, device, taken>>
    BY <2>1 DEF SetSda, master
  <2>3. peer' = IF Sda THEN Peer("addr") ELSE peer
    BY <1>3, <2>2 DEF PeerSeesSda, Sda
  <2>4. Fresh'
    <3>1. CASE sda
      <4>1. Sda
        BY <1>3, <3>1 DEF Sda
      <4> QED BY <2>3, <4>1 DEF Fresh
    <3>2. CASE ~sda
      <4>1. ~Sda
        BY <3>2 DEF Sda
      <4> QED BY <1>3, <2>3, <3>2, <4>1 DEF Fresh
    <3> QED BY <3>1, <3>2
  <2> QED BY <1>3, <2>1, <2>2, <2>4 DEF Starting
<1>4. CASE ops = <<"clear_scl">> /\ scl /\ ~sda /\ Fresh
  <2>1. ops' = <<>> /\ ClearScl
    BY <1>4, ShortTodo, PinIs
  <2>2. scl' = FALSE /\ PeerSeesFall /\ UNCHANGED <<sda, bits>>
    BY <1>4, <2>1, SclFalls
  <2>3. peer.answering = FALSE /\ peer.state # "give" /\ peer.count # NBits
    BY <1>4, I2cAssumption DEF Fresh, Peer
  <2>4. UNCHANGED <<peer, device, taken>>
    BY <2>2, <2>3 DEF PeerSeesFall
  <2> QED BY <1>4, <2>1, <2>2, <2>4 DEF Starting, Fresh
<1> QED BY <1>1, <1>2, <1>3, <1>4 DEF Starting

LEMMA StopStep ==
  ASSUME StopInv, ops # <<>>, PinOperation, sda \in BOOLEAN
  PROVE  StopInv' /\ UNCHANGED <<device, taken>>
<1>1. CASE ops = <<"clear_sda", "set_scl", "set_sda">> /\ ~scl /\ Deaf
  <2>1. ops' = <<"set_scl", "set_sda">> /\ SetSda(FALSE)
    BY <1>1, ShortTodo, PinIs
  <2>2. sda' = FALSE /\ UNCHANGED <<scl, bits, peer, device, taken>>
    BY <1>1, <2>1, SdaWhileLow
  <2> QED BY <1>1, <2>1, <2>2 DEF StopInv, Deaf
<1>2. CASE ops = <<"set_scl", "set_sda">> /\ ~scl /\ ~sda /\ Deaf
  <2>1. ops' = <<"set_sda">> /\ SetScl
    BY <1>2, ShortTodo, PinIs
  <2>2. scl' = TRUE /\ PeerSeesRise /\ UNCHANGED <<sda, bits, device, taken>>
    BY <1>2, <2>1, SclRises
  <2>3. peer' = peer
    BY <1>2, <2>2, DeafEdges
  <2> QED BY <1>2, <2>1, <2>2, <2>3 DEF StopInv, Deaf
<1>3. CASE ops = <<"set_sda">> /\ scl /\ ~sda /\ Deaf
  <2>1. ops' = <<>> /\ SetSda(TRUE)
    BY <1>3, ShortTodo, PinIs
  <2>2. sda' = TRUE /\ PeerSeesSda(TRUE) /\ UNCHANGED <<scl, bits, device, taken>>
    BY <2>1 DEF SetSda, master
  <2>3. ~Sda /\ peer.drive
    BY <1>3, DeafEdges DEF Sda
  <2>4. peer' = Peer("idle")
    BY <1>3, <2>2, <2>3 DEF PeerSeesSda
  <2> QED BY <1>3, <2>1, <2>2, <2>4 DEF StopInv
<1> QED BY <1>1, <1>2, <1>3 DEF StopInv

-----------------------------------------------------------------------------
(* Types *)

LEMMA CallTypes ==
  ASSUME NEW c \in Calls
  PROVE  /\ c.reg \in Byte /\ NumBytes(c) \in Nat /\ c # NoCall
         /\ \/ c.kind = "write" /\ c.data \in Seq(Byte) /\ NumBytes(c) = Len(c.data)
            \/ c.kind = "read" /\ NumBytes(c) = c.len /\ c.len \in 1 .. Len(Given)
<1>1. Len(Given) \in Nat
  BY I2cAssumption, LenProperties
<1>2. CASE c.kind = "write" /\ c.data \in Seq(Byte)
  <2>1. Len(c.data) \in Nat
    BY <1>2, LenProperties
  <2> QED BY <1>2, <2>1, I2cAssumption DEF NumBytes
<1>3. CASE c.kind = "read" /\ c.len \in 1 .. Len(Given)
  BY <1>1, <1>3, I2cAssumption DEF NumBytes
<1> QED BY <1>2, <1>3, I2cAssumption

LEMMA ByteTypes ==
  /\ Ones \in Byte /\ Len(Given) \in Nat \ {0}
  /\ \A d \in 1 .. Len(Given), n \in 0 .. Len(Given) - 1 : GivenBefore(d, n) \in Byte
<1>1. Given \in Seq(Byte) /\ Len(Given) \in Nat \ {0}
  BY I2cAssumption, EmptySeq
<1>2. ASSUME NEW d \in 1 .. Len(Given), NEW n \in 0 .. Len(Given) - 1
      PROVE  GivenBefore(d, n) \in Byte
  <2> DEFINE i == IF n < d - 1 THEN d - 1 - n ELSE d - 1 - n + Len(Given)
  <2>1. i \in 1 .. Len(Given)
    BY <1>1
  <2> HIDE DEF i
  <2>2. Given[i] \in Byte
    BY <1>1, <2>1, ElementOfSeq
  <2> QED BY <2>2 DEF GivenBefore, i
<1>3. Ones \in Byte
  BY DEF Ones, Byte
<1> QED BY <1>1, <1>2, <1>3

LEMMA AddressTypes ==
  ASSUME NEW read \in BOOLEAN
  PROVE  Address(read) \in Byte /\ Address(read)[NBits] = read
<1>1. NBits \in Nat \ {0} /\ DeviceAddr \in Seq(BOOLEAN) /\ Len(DeviceAddr) = NBits - 1
  BY I2cAssumption
<1> DEFINE a == Address(read)
<1>2. /\ a \in Seq(BOOLEAN) /\ Len(a) = NBits - 1 + 1 /\ a[NBits - 1 + 1] = read
  BY <1>1, AppendProperties DEF Address
<1> HIDE DEF a
<1>3. a \in Seq(BOOLEAN) /\ Len(a) = NBits /\ a[NBits] = read
  BY <1>1, <1>2
<1>4. a \in Byte
  BY <1>3, LenProperties DEF Byte
<1> QED BY <1>3, <1>4 DEF a

LEMMA ReadTypes ==
  ASSUME I2cInv, i2c_pc = "get"
  PROVE  /\ Read(index + 1) \in Byte /\ LastByte(index) \in BOOLEAN
         /\ call \in Calls /\ call.kind = "read" /\ NumBytes(call) = call.len
         /\ call.len \in 1 .. Len(Given) /\ index \in 0 .. call.len - 1
         /\ LastByte(index) <=> index + 1 = call.len
         /\ ack => taken \in {index + 2, index + 3} /\ (taken = index + 3 => ~LastByte(index))
<1>1. /\ call \in Calls /\ call.kind = "read" /\ NumBytes(call) = call.len
      /\ call.len \in 1 .. Len(Given) /\ index \in 0 .. call.len - 1 /\ ack \in BOOLEAN
  BY CallTypes, ByteTypes DEF I2cInv, CallInv, I2cTypes
<1>2. LastByte(index) \in BOOLEAN /\ (LastByte(index) <=> index + 1 = call.len)
  BY <1>1, ByteTypes DEF LastByte
<1>3. ack => taken \in {index + 2, index + 3} /\ (taken = index + 3 => ~LastByte(index))
  BY <1>1 DEF I2cInv, PieceInv, GetInv
<1>4. Read(index + 1) \in Byte
  <2>1. CASE ~ack
    BY <2>1, ByteTypes DEF Read
  <2>2. CASE ack
    <3>1. taken - 1 - (index + 1) \in {0, 1} /\ (taken - 1 - (index + 1) = 1 => index + 1 < call.len)
      BY <1>1, <1>2, <1>3, <2>2
    <3>2. taken - 1 - (index + 1) \in 0 .. Len(Given) - 1
      BY <1>1, <3>1, ByteTypes
    <3>3. device.next \in 1 .. Len(Given)
      BY DEF I2cInv, I2cTypes, DeviceTypes
    <3> QED BY <2>2, <3>2, <3>3, ByteTypes DEF Read, LastGiven
  <2> QED BY <2>1, <2>2
<1> QED BY <1>1, <1>2, <1>3, <1>4

-----------------------------------------------------------------------------
(* Every step keeps the invariant *)

SendPcs == {"addr", "reg", "data", "addr_read"}

(* The byte that is being sent, what the device takes it for, and the      *)
(* steps it had taken before                                               *)
LEMMA SendIs ==
  ASSUME I2cInv, i2c_pc \in SendPcs
  PROVE  \E v \in Byte, state \in ListenStates, t \in Nat :
           /\ SendInv(v, state, t)
           /\ \/ i2c_pc = "addr" /\ v = Address(FALSE) /\ state = "addr" /\ t = 0
              \/ i2c_pc = "reg" /\ v = call.reg /\ state = "reg" /\ t = 0
              \/ i2c_pc = "data" /\ v = call.data[index] /\ state = "data" /\ t = index
              \/ i2c_pc = "addr_read" /\ v = Address(TRUE) /\ state = "addr" /\ t = 1
<1>1. call \in Calls
  BY DEF I2cInv, CallInv, SendPcs
<1>2. CASE i2c_pc = "addr"
  BY <1>2, AddressTypes DEF I2cInv, PieceInv, ListenStates
<1>3. CASE i2c_pc = "reg"
  BY <1>1, <1>3, CallTypes DEF I2cInv, PieceInv, ListenStates
<1>4. CASE i2c_pc = "data"
  <2>1. call.kind = "write" /\ index \in 1 .. NumBytes(call) /\ index \in Nat
    BY <1>4 DEF I2cInv, CallInv, I2cTypes
  <2>2. call.data[index] \in Byte
    BY <1>1, <2>1, CallTypes, ElementOfSeq
  <2> QED BY <1>4, <2>1, <2>2 DEF I2cInv, PieceInv, ListenStates
<1>5. CASE i2c_pc = "addr_read"
  BY <1>5, AddressTypes DEF I2cInv, PieceInv, ListenStates
<1> QED BY <1>2, <1>3, <1>4, <1>5 DEF SendPcs

LEMMA PinSend ==
  ASSUME I2cInv, PinOperation, i2c_pc \in SendPcs
  PROVE  PieceInv' /\ ack /\ device' \in DeviceTypes
<1>1. PICK v \in Byte, state \in ListenStates, t \in Nat :
        /\ SendInv(v, state, t)
        /\ \/ i2c_pc = "addr" /\ v = Address(FALSE) /\ state = "addr" /\ t = 0
           \/ i2c_pc = "reg" /\ v = call.reg /\ state = "reg" /\ t = 0
           \/ i2c_pc = "data" /\ v = call.data[index] /\ state = "data" /\ t = index
           \/ i2c_pc = "addr_read" /\ v = Address(TRUE) /\ state = "addr" /\ t = 1
  BY SendIs
<1>2. ops # <<>>
  BY DEF PinOperation
<1>3. ack /\ (SendBit(v, state, t) \/ SendAck(v, state, t))
  BY <1>1, <1>2 DEF SendInv, NotSent, WasSent
<1>4. sda \in BOOLEAN /\ device \in DeviceTypes
  BY DEF I2cInv, I2cTypes
<1>5. /\ SendBit(v, state, t)' \/ SendAck(v, state, t)' \/ WasSent(v, state, t)'
      /\ device' \in DeviceTypes
  BY <1>3, <1>4, SendStep
<1>6. UNCHANGED <<call, i2c_pc, ack, index>>
  BY PinFrame DEF callVars
<1>7. SendInv(v, state, t)'
  BY <1>3, <1>5, <1>6 DEF SendInv
<1>8. CASE i2c_pc = "addr" /\ v = Address(FALSE) /\ state = "addr" /\ t = 0
  <2>1. SendInv(Address(FALSE), "addr", 0)'
    BY <1>6, <1>7, <1>8 DEF SendInv, SendBit, SendAck, WasSent, AnswerIs, Hears
  <2> QED BY <1>3, <1>5, <1>6, <1>8, <2>1 DEF PieceInv
<1>9. CASE i2c_pc = "reg" /\ v = call.reg /\ state = "reg" /\ t = 0
  <2>1. SendInv(call.reg, "reg", 0)'
    BY <1>6, <1>7, <1>9 DEF SendInv, SendBit, SendAck, WasSent, AnswerIs, Hears
  <2> QED BY <1>3, <1>5, <1>6, <1>9, <2>1 DEF PieceInv
<1>10. CASE i2c_pc = "data" /\ v = call.data[index] /\ state = "data" /\ t = index
  <2>1. SendInv(call.data[index], "data", index)'
    BY <1>6, <1>7, <1>10 DEF SendInv, SendBit, SendAck, WasSent, AnswerIs, Hears
  <2> QED BY <1>3, <1>5, <1>6, <1>10, <2>1 DEF PieceInv
<1>11. CASE i2c_pc = "addr_read" /\ v = Address(TRUE) /\ state = "addr" /\ t = 1
  <2>1. SendInv(Address(TRUE), "addr", 1)'
    BY <1>6, <1>7, <1>11 DEF SendInv, SendBit, SendAck, WasSent, AnswerIs, Hears
  <2> QED BY <1>3, <1>5, <1>6, <1>11, <2>1 DEF PieceInv
<1> QED BY <1>1, <1>3, <1>5, <1>8, <1>9, <1>10, <1>11

(* The byte after the one that was just read has begun. *)
NextIsGiven ==
  /\ ack /\ ~LastByte(index) /\ taken = index + 2 /\ taken' = taken + 1
  /\ device' = [device EXCEPT !.next = (@ % Len(Given)) + 1]

LEMMA ReadKept ==
  ASSUME I2cInv, i2c_pc = "get", NextIsGiven, ack' = ack,
         NEW k \in 1 .. index + 1
  PROVE  Read(k)' = Read(k)
<1>1. PICK n \in 0 .. Len(Given) - 2 : n = taken - 1 - k
  <2>1. taken - 1 - k \in 0 .. Len(Given) - 2
    BY ReadTypes, ByteTypes DEF NextIsGiven
  <2> QED BY <2>1
<1>2. device \in DeviceTypes
  BY DEF I2cInv, I2cTypes
<1>3. LastGiven(n + 1)' = LastGiven(n)
  BY <1>2, GivenNext DEF NextIsGiven
<1>4. taken' - 1 - k = n + 1
  BY <1>1, ReadTypes DEF NextIsGiven
<1>5. Read(k) = LastGiven(n)
  BY <1>1 DEF Read, NextIsGiven
<1>6. Read(k)' = LastGiven(n + 1)'
  BY <1>4 DEF Read, NextIsGiven, LastGiven
<1> QED BY <1>3, <1>5, <1>6

LEMMA PinGet ==
  ASSUME I2cInv, PinOperation, i2c_pc = "get"
  PROVE  PieceInv' /\ (UNCHANGED <<device, taken>> \/ NextIsGiven)
<1>0. PICK w \in Byte, nack \in BOOLEAN : w = Read(index + 1) /\ nack = LastByte(index)
  BY ReadTypes
<1>1. /\ index \in Nat /\ ack \in BOOLEAN /\ sda \in BOOLEAN /\ device \in DeviceTypes
  BY DEF I2cInv, I2cTypes
<1>2. /\ GetBit(w, nack) \/ GetAck(w, nack) \/ WasGot(w, nack)
      /\ ack => taken = IF ops = <<>> /\ ~nack THEN index + 3 ELSE index + 2
  BY <1>0 DEF I2cInv, PieceInv, GetInv
<1>3. UNCHANGED <<call, i2c_pc, ack, index>>
  BY PinFrame DEF callVars
<1>4. LastByte(index)' = nack
  BY <1>0, <1>3 DEF LastByte
<1>5. ~ack => w = Ones
  BY <1>0 DEF Read
<1>6. (GetBit(w, nack) \/ GetAck(w, nack)) /\ ops # <<>>
  BY <1>2 DEF PinOperation, WasGot
<1>7. ack => taken = index + 2
  BY <1>2, <1>6
<1>8. \/ (GetBit(w, nack)' \/ GetAck(w, nack)') /\ ops' # <<>> /\ UNCHANGED <<device, taken>>
      \/ /\ WasGot(w, nack)'
         /\ IF ack /\ ~nack
            THEN device' = [device EXCEPT !.next = (@ % Len(Given)) + 1] /\ taken' = taken + 1
            ELSE UNCHANGED <<device, taken>>
  BY <1>1, <1>5, <1>6, GetStep
<1>9. ASSUME UNCHANGED <<device, taken>> PROVE Read(index + 1)' = w
  BY <1>0, <1>3, <1>9 DEF Read, LastGiven
<1>10. CASE (GetBit(w, nack)' \/ GetAck(w, nack)') /\ ops' # <<>> /\ UNCHANGED <<device, taken>>
  <2>1. Read(index + 1)' = w /\ LastByte(index)' = nack
    BY <1>4, <1>9, <1>10
  <2>2. ack' => taken' = index' + 2
    BY <1>3, <1>7, <1>10
  <2>3. GetInv'
    BY <1>10, <2>1, <2>2 DEF GetInv, GetBit, GetAck
  <2> QED BY <1>3, <1>10, <2>3 DEF PieceInv
<1>11. CASE WasGot(w, nack)' /\ ack /\ ~nack /\ taken' = taken + 1
            /\ device' = [device EXCEPT !.next = (@ % Len(Given)) + 1]
  <2>1. NextIsGiven
    BY <1>0, <1>7, <1>11 DEF NextIsGiven
  <2>2. Read(index + 1)' = w
    <3>1. index + 1 \in 1 .. index + 1
      BY <1>1
    <3> DEFINE k == index + 1
    <3> HIDE DEF k
    <3>2. Read(k)' = Read(k)
      BY <1>3, <2>1, <3>1, ReadKept DEF k
    <3> QED BY <1>0, <1>3, <3>2 DEF k
  <2>4. ops' = <<>> /\ taken' = index' + 3
    BY <1>1, <1>3, <1>7, <1>11 DEF WasGot
  <2>5. GetInv'
    BY <1>4, <1>11, <2>2, <2>4 DEF GetInv, WasGot
  <2> QED BY <1>3, <2>1, <2>5 DEF PieceInv
<1>12. CASE WasGot(w, nack)' /\ ~(ack /\ ~nack) /\ UNCHANGED <<device, taken>>
  <2>1. Read(index + 1)' = w /\ LastByte(index)' = nack
    BY <1>4, <1>9, <1>12
  <2>2. ack' => taken' = index' + 2 /\ nack
    BY <1>3, <1>7, <1>12
  <2>3. GetInv'
    BY <1>12, <2>1, <2>2 DEF GetInv, WasGot
  <2> QED BY <1>3, <1>12, <2>3 DEF PieceInv
<1> QED BY <1>8, <1>10, <1>11, <1>12

LEMMA PinShort ==
  ASSUME I2cInv, PinOperation, i2c_pc \in {"start", "restart", "stop"}
  PROVE  PieceInv' /\ UNCHANGED <<device, taken>>
<1>1. UNCHANGED <<call, i2c_pc, ack, index>> /\ ops # <<>>
  BY PinFrame DEF callVars, PinOperation
<1>2. sda \in BOOLEAN /\ ack \in BOOLEAN
  BY DEF I2cInv, I2cTypes
<1>3. CASE i2c_pc \in {"start", "restart"}
  <2>1. StartInv
    BY <1>3 DEF I2cInv, PieceInv
  <2>2. ack = TRUE /\ Starting /\ bits = <<>>
    BY <1>1, <1>2, <2>1 DEF StartInv, NotSent
  <2>3. Starting' /\ bits' = <<>> /\ UNCHANGED <<device, taken>>
    BY <1>1, <1>2, <2>2, StartStep
  <2>4. StartInv'
    BY <1>1, <2>2, <2>3 DEF StartInv
  <2> QED BY <1>1, <1>3, <2>3, <2>4 DEF PieceInv
<1>4. CASE i2c_pc = "stop"
  <2>1. StopInv
    BY <1>4 DEF I2cInv, PieceInv
  <2>2. StopInv' /\ UNCHANGED <<device, taken>>
    BY <1>1, <1>2, <2>1, StopStep
  <2> QED BY <1>1, <1>4, <2>2 DEF PieceInv
<1> QED BY <1>3, <1>4

LEMMA PinLevels ==
  ASSUME PinOperation, scl \in BOOLEAN, sda \in BOOLEAN, taken \in Nat
  PROVE  scl' \in BOOLEAN /\ sda' \in BOOLEAN /\ taken' \in Nat
<1>1. CASE SetSda(TRUE) \/ SetSda(FALSE)
  BY <1>1 DEF SetSda
<1>2. CASE SetScl
  BY <1>2 DEF SetScl
<1>3. CASE ReadSda
  BY <1>3 DEF ReadSda
<1>4. CASE ClearScl
  <2>1. taken' = taken \/ taken' = taken + 1
    BY <1>4 DEF ClearScl, PeerSeesFall, AfterAnswer, ShiftsOut, Answers
  <2>2. scl' = FALSE /\ sda' = sda
    BY <1>4 DEF ClearScl
  <2>3. taken' \in Nat
    BY <2>1
  <2> QED BY <2>2, <2>3
<1>5. SetSda(TRUE) \/ SetSda(FALSE) \/ SetScl \/ ClearScl \/ ReadSda
  BY DEF PinOperation
<1> QED BY <1>1, <1>2, <1>3, <1>4, <1>5, Zenon

LEMMA PinKeeps ==
  ASSUME I2cInv, PinOperation
  PROVE  I2cInv'
<1>1. UNCHANGED callVars
  BY PinFrame
<1>2. /\ PieceInv' /\ device' \in DeviceTypes
      /\ \/ UNCHANGED <<device, taken>>
         \/ i2c_pc \in SendPcs /\ ack
         \/ i2c_pc = "get" /\ NextIsGiven
  <2>1. device \in DeviceTypes
    BY DEF I2cInv, I2cTypes
  <2>2. CASE i2c_pc \in SendPcs
    BY <2>2, PinSend
  <2>3. CASE i2c_pc = "get"
    <3>1. PieceInv' /\ (UNCHANGED <<device, taken>> \/ NextIsGiven)
      BY <2>3, PinGet
    <3>2. NextIsGiven => device' \in DeviceTypes
      BY <2>1, GivenNext DEF NextIsGiven
    <3> QED BY <2>1, <2>3, <3>1, <3>2
  <2>4. CASE i2c_pc \in {"start", "restart", "stop"}
    BY <2>1, <2>4, PinShort
  <2>5. i2c_pc \notin {"idle", "return"}
    BY DEF I2cInv, PieceInv, PinOperation
  <2> QED BY <2>2, <2>3, <2>4, <2>5 DEF I2cInv, I2cTypes, SendPcs
<1>3. I2cTypes'
  BY <1>1, <1>2, PinLevels DEF I2cInv, I2cTypes, callVars
<1>4. CallInv'
  <2>1. CASE UNCHANGED taken
    BY <1>1, <2>1 DEF I2cInv, CallInv, callVars
  <2>2. CASE i2c_pc \in SendPcs \cup {"get"} /\ ack
    BY <1>1, <2>2 DEF I2cInv, CallInv, callVars, SendPcs
  <2> QED BY <1>2, <2>1, <2>2 DEF NextIsGiven
<1>5. GotInv'
  <2>1. /\ i2c_pc = "get" => Len(got) = index
        /\ i2c_pc = "stop" => IF call.kind = "write" THEN got = <<>> ELSE Len(got) = index
        /\ \A k \in 1 .. Len(got) : got[k] = Read(k)
    BY DEF I2cInv, GotInv
  <2>2. ASSUME NEW k \in 1 .. Len(got) PROVE Read(k)' = Read(k)
    <3>1. CASE UNCHANGED <<device, taken>>
      BY <1>1, <3>1 DEF Read, LastGiven, callVars
    <3>2. CASE i2c_pc \in SendPcs
      <4>1. got = <<>>
        BY <3>2 DEF I2cInv, CallInv, SendPcs
      <4> QED BY <4>1, EmptySeq
    <3>3. CASE i2c_pc = "get" /\ NextIsGiven
      <4>1. k \in 1 .. index + 1 /\ ack' = ack
        BY <1>1, <2>1, <3>3 DEF I2cInv, I2cTypes, callVars
      <4> QED BY <3>3, <4>1, ReadKept
    <3> QED BY <1>2, <3>1, <3>2, <3>3
  <2> QED BY <1>1, <2>1, <2>2 DEF GotInv, callVars
<1> QED BY <1>2, <1>3, <1>4, <1>5 DEF I2cInv

(* A byte that begins to be sent or read *)
LEMMA SendBegins ==
  ASSUME NEW v \in Byte, NEW state \in ListenStates, NEW t, taken' = t,
         ops' = WriteByte(v), bits' = <<>>, ~scl', ack',
         peer' = Peer(state) \/ (Deaf' /\ state = "addr")
  PROVE  SendInv(v, state, t)'
<1>1. 0 \in 0 .. NBits - 1 /\ ops' = SendRest(v, 0, 0) /\ SubSeq(v, 1, 0) = <<>>
  BY I2cAssumption, SendTodo, ByteBits
<1>2. Hears(v, state, 0)'
  BY <1>1 DEF Hears, Heard, Peer
<1> QED BY <1>1, <1>2 DEF SendInv, SendBit

LEMMA GetBegins ==
  ASSUME NEW w \in Byte, NEW nack \in BOOLEAN, ops' = ReadByte(nack), bits' = <<>>, ~scl',
         Gives(w, 0, w[1])'
  PROVE  GetBit(w, nack)' /\ ops' # <<>>
<1>1. 0 \in 0 .. NBits - 1 /\ ops' = GetRest(nack, 0, 0) /\ SubSeq(w, 1, 0) = <<>> /\ 0 + 1 = 1
  BY I2cAssumption, GetTodo, ByteBits
<1>2. ops' # <<>>
  BY <1>1, GetTodo DEF Todo
<1> QED BY <1>1, <1>2 DEF GetBit

(* A byte that has been sent, or was not to be *)
LEMMA SendEnds ==
  ASSUME I2cInv, i2c_pc \in SendPcs, ops = <<>>
  PROVE  /\ ~scl /\ StillAcked \in BOOLEAN /\ call \in Calls
         /\ ~StillAcked => Deaf /\ taken <= NumBytes(call)
         /\ StillAcked => \/ i2c_pc = "addr" /\ peer = Peer("reg") /\ taken = 0
                          \/ i2c_pc \in {"reg", "data"} /\ peer = Peer("data") /\ taken = index + 1
                          \/ /\ i2c_pc = "addr_read" /\ taken = 2
                             /\ peer = Giving(LastGiven(0), 0, LastGiven(0)[1])
<1>1. PICK v \in Byte, state \in ListenStates, t \in Nat :
        /\ SendInv(v, state, t)
        /\ \/ i2c_pc = "addr" /\ v = Address(FALSE) /\ state = "addr" /\ t = 0
           \/ i2c_pc = "reg" /\ v = call.reg /\ state = "reg" /\ t = 0
           \/ i2c_pc = "data" /\ v = call.data[index] /\ state = "data" /\ t = index
           \/ i2c_pc = "addr_read" /\ v = Address(TRUE) /\ state = "addr" /\ t = 1
  BY SendIs
<1>2. /\ call \in Calls /\ ack \in BOOLEAN /\ (~ack => taken <= NumBytes(call))
      /\ (i2c_pc \in {"addr", "reg"} => index = 0)
  BY DEF I2cInv, I2cTypes, CallInv, SendPcs
<1>3. t <= NumBytes(call)
  <2>1. NumBytes(call) \in Nat
    BY <1>2, CallTypes
  <2>2. i2c_pc = "data" => index <= NumBytes(call)
    BY DEF I2cInv, CallInv
  <2>3. i2c_pc = "addr_read" => NumBytes(call) >= 1
    BY <1>2, CallTypes DEF I2cInv, CallInv
  <2>4. t = 0 \/ (i2c_pc = "data" /\ t = index) \/ (i2c_pc = "addr_read" /\ t = 1)
    BY <1>1
  <2> QED BY ONLY <2>1, <2>2, <2>3, <2>4
<1>4. CASE ~ack
  BY <1>1, <1>2, <1>4 DEF SendInv, NotSent, StillAcked
<1>5. CASE ack
  <2>1. ~SendBit(v, state, t) /\ ~SendAck(v, state, t)
    <3>1. \A i \in 0 .. NBits - 1 : <<>> \notin {SendRest(v, i, 0), SendRest(v, i, 1), SendRest(v, i, 2)}
      BY SendTodo DEF Todo
    <3>2. <<>> \notin {SendRest(v, NBits, 0), SendRest(v, NBits, 1), SendRest(v, NBits, 2), SendRest(v, NBits, 3)}
      BY SendTodo DEF Todo
    <3> QED BY <3>1, <3>2 DEF SendBit, SendAck
  <2>2. WasSent(v, state, t)
    BY <1>1, <1>5, <2>1 DEF SendInv
  <2>3. CASE bits = <<TRUE>> /\ Deaf /\ taken = t
    BY <1>2, <1>3, <2>2, <2>3 DEF WasSent, StillAcked
  <2>4. CASE bits = <<FALSE>>
    <3>1. StillAcked
      BY <1>5, <2>4 DEF StillAcked
    <3>2. CASE i2c_pc = "addr"
      <4>1. v[NBits] = FALSE /\ state = "addr" /\ t = 0
        BY <1>1, <3>2, AddressTypes
      <4> QED BY <1>2, <2>2, <2>4, <3>1, <3>2, <4>1 DEF WasSent
    <3>3. CASE i2c_pc = "addr_read"
      <4>1. v[NBits] = TRUE /\ state = "addr" /\ t = 1
        BY <1>1, <3>3, AddressTypes
      <4> QED BY <1>2, <2>2, <2>4, <3>1, <3>3, <4>1 DEF WasSent
    <3>4. CASE i2c_pc \in {"reg", "data"}
      <4>1. state # "addr" /\ t = index
        BY <1>1, <1>2, <3>4
      <4> QED BY <1>2, <2>2, <2>4, <3>1, <3>4, <4>1 DEF WasSent
    <3> QED BY <3>2, <3>3, <3>4 DEF SendPcs
  <2> QED BY <2>2, <2>3, <2>4 DEF WasSent
<1> QED BY <1>2, <1>4, <1>5

LEMMA LongStart ==
  <<"set_sda", "set_scl">> \o <<"clear_sda", "clear_scl">>
    = <<"set_sda", "set_scl", "clear_sda", "clear_scl">>
<1> DEFINE s == <<"set_sda", "set_scl">>
           t == <<"clear_sda", "clear_scl">>
           u == <<"set_sda", "set_scl", "clear_sda", "clear_scl">>
<1>1. /\ s \in Seq(PinOps) /\ Len(s) = 2 /\ t \in Seq(PinOps) /\ Len(t) = 2
      /\ u \in Seq(PinOps) /\ Len(u) = 4
      /\ u[1] = s[1] /\ u[2] = s[2] /\ u[3] = t[1] /\ u[4] = t[2]
  BY DEF PinOps
<1> HIDE DEF s, t, u
<1>2. /\ s \o t \in Seq(PinOps) /\ Len(s \o t) = 4
      /\ (s \o t)[1] = s[1] /\ (s \o t)[2] = s[2] /\ (s \o t)[3] = t[1] /\ (s \o t)[4] = t[2]
  <2> DEFINE c == s \o t
  <2>1. /\ c \in Seq(PinOps) /\ Len(c) = Len(s) + Len(t)
        /\ \A i \in 1 .. Len(s) + Len(t) : c[i] = IF i <= Len(s) THEN s[i] ELSE t[i - Len(s)]
    BY ONLY <1>1, ConcatProperties, ZenonT(40)
  <2> HIDE DEF c
  <2>2. /\ c \in Seq(PinOps) /\ Len(c) = 4
        /\ c[1] = s[1] /\ c[2] = s[2] /\ c[3] = t[1] /\ c[4] = t[2]
    BY ONLY <1>1, <2>1
  <2> QED BY <2>2 DEF c
<1>3. s \o t = u
  BY <1>1, <1>2, SeqEqual
<1> QED BY <1>3 DEF s, t, u

LEMMA CallBeginsKeeps ==
  ASSUME I2cInv, CallBegins
  PROVE  I2cInv'
<1>1. i2c_pc = "idle"
  BY I2cAssumption DEF I2cInv, CallInv, CallBegins
<1>2. /\ ops = <<>> /\ bits = <<>> /\ taken = 0
      /\ IF is_started THEN ~scl /\ peer = Peer("data")
         ELSE scl /\ IF sda THEN peer = Peer("idle") ELSE Fresh
  BY <1>1 DEF I2cInv, PieceInv, CallInv
<1>3. Starting'
  <2>1. CASE is_started
    <3>1. ops' = <<"set_sda", "set_scl", "clear_sda", "clear_scl">>
      BY <2>1, LongStart DEF CallBegins, Piece, StartCond
    <3> QED BY <1>2, <2>1, <3>1 DEF Starting, CallBegins
  <2>2. CASE ~is_started
    <3>1. ops' = <<"clear_sda", "clear_scl">>
      BY <2>2 DEF CallBegins, Piece, StartCond
    <3>2. peer.drive /\ peer.count = 0
      BY <1>2, <2>2 DEF Peer, Fresh
    <3> QED BY <1>2, <2>2, <3>1, <3>2 DEF Starting, CallBegins, Fresh
  <2> QED BY <2>1, <2>2
<1>4. PieceInv'
  BY <1>3 DEF PieceInv, StartInv, CallBegins, Piece
<1>5. CallInv'
  BY <1>2 DEF CallInv, CallBegins, Piece
<1>6. GotInv'
  BY EmptySeq DEF GotInv, CallBegins, Piece
<1>7. I2cTypes'
  BY EmptySeq DEF I2cInv, I2cTypes, CallBegins, Piece
<1> QED BY <1>4, <1>5, <1>6, <1>7 DEF I2cInv

LEMMA StartEndsKeeps ==
  ASSUME I2cInv, StartEnds
  PROVE  I2cInv'
<1>1. i2c_pc = "start" /\ ops = <<>>
  BY DEF StartEnds, Through
<1>2. ack /\ call \in Calls /\ index = 0 /\ got = <<>> /\ taken = 0 /\ is_started
  BY <1>1 DEF I2cInv, CallInv
<1>3. ~scl /\ Fresh
  BY <1>1, <1>2 DEF I2cInv, PieceInv, StartInv, Starting
<1> DEFINE v == Address(FALSE)
<1>4. v \in Byte /\ "addr" \in ListenStates
  BY AddressTypes DEF ListenStates
<1>5. /\ i2c_pc' = "addr" /\ ops' = WriteByte(v) /\ bits' = <<>>
      /\ UNCHANGED <<is_started, call, ack, index, got, scl, sda, peer, device, taken>>
  BY DEF StartEnds, Piece, Same
<1> HIDE DEF v
<1>6. SendInv(v, "addr", 0)'
  BY <1>2, <1>3, <1>4, <1>5, SendBegins DEF Fresh, Deaf
<1>7. PieceInv'
  BY <1>5, <1>6 DEF PieceInv, v
<1>8. CallInv'
  BY <1>2, <1>5 DEF CallInv
<1>9. GotInv'
  BY <1>2, <1>5, EmptySeq DEF GotInv
<1>10. I2cTypes'
  BY <1>5 DEF I2cInv, I2cTypes
<1> QED BY <1>7, <1>8, <1>9, <1>10 DEF I2cInv

(* The next byte of a call is sent, or left out. *)
LEMMA AddressSentKeeps ==
  ASSUME I2cInv, AddressSent
  PROVE  I2cInv'
<1>1. i2c_pc = "addr" /\ ops = <<>> /\ i2c_pc \in SendPcs
  BY DEF AddressSent, Through, SendPcs
<1>2. index = 0 /\ got = <<>> /\ is_started
  BY <1>1 DEF I2cInv, CallInv
<1>3. /\ ~scl /\ StillAcked \in BOOLEAN /\ call \in Calls
      /\ ~StillAcked => Deaf /\ taken <= NumBytes(call)
      /\ StillAcked => peer = Peer("reg") /\ taken = 0
  BY <1>1, SendEnds
<1>4. /\ i2c_pc' = "reg" /\ ops' = (IF ack' THEN WriteByte(call.reg) ELSE <<>>) /\ bits' = <<>>
      /\ ack' = StillAcked
      /\ UNCHANGED <<is_started, call, index, got, scl, sda, peer, device, taken>>
  BY DEF AddressSent, Piece, Same, IfAcked
<1>5. SendInv(call.reg, "reg", 0)'
  <2>1. CASE ack'
    <3>1. PICK v \in Byte : v = call.reg
      BY <1>3, CallTypes
    <3>2. "reg" \in ListenStates
      BY DEF ListenStates
    <3>3. SendInv(v, "reg", 0)'
      BY <1>3, <1>4, <2>1, <3>1, <3>2, SendBegins
    <3> QED BY <1>4, <3>1, <3>3 DEF SendInv, SendBit, SendAck, WasSent, AnswerIs, Hears
  <2>2. CASE ~ack'
    BY <1>3, <1>4, <2>2 DEF SendInv, NotSent, Deaf
  <2> QED BY <2>1, <2>2
<1>6. PieceInv'
  BY <1>4, <1>5 DEF PieceInv
<1>7. CallInv'
  BY <1>2, <1>3, <1>4 DEF CallInv
<1>8. GotInv'
  BY <1>2, <1>4, EmptySeq DEF GotInv
<1>9. I2cTypes'
  BY <1>3, <1>4 DEF I2cInv, I2cTypes
<1> QED BY <1>6, <1>7, <1>8, <1>9 DEF I2cInv

LEMMA ByteSentKeeps ==
  ASSUME I2cInv, ByteSent
  PROVE  I2cInv'
<1>1. i2c_pc \in {"reg", "data"} /\ ops = <<>> /\ i2c_pc \in SendPcs
  BY DEF ByteSent, Through, SendPcs
<1>2. /\ call.kind = "write" /\ index < Len(call.data) /\ index \in Nat
      /\ got = <<>> /\ is_started
  BY <1>1 DEF I2cInv, I2cTypes, CallInv, ByteSent
<1>3. /\ ~scl /\ StillAcked \in BOOLEAN /\ call \in Calls
      /\ ~StillAcked => Deaf /\ taken <= NumBytes(call)
      /\ StillAcked => peer = Peer("data") /\ taken = index + 1
  BY <1>1, SendEnds
<1>4. /\ i2c_pc' = "data" /\ bits' = <<>> /\ ack' = StillAcked /\ index' = index + 1
      /\ ops' = IF ack' THEN WriteByte(call.data[index + 1]) ELSE <<>>
      /\ UNCHANGED <<is_started, call, got, scl, sda, peer, device, taken>>
  BY DEF ByteSent, Piece, Same, IfAcked
<1>5. call.data \in Seq(Byte) /\ NumBytes(call) = Len(call.data) /\ Len(call.data) \in Nat
      /\ index + 1 \in 1 .. Len(call.data)
  <2>1. call.data \in Seq(Byte) /\ NumBytes(call) = Len(call.data)
    BY <1>2, <1>3, CallTypes
  <2>2. Len(call.data) \in Nat
    BY <2>1, LenProperties
  <2> QED BY <1>2, <2>1, <2>2
<1>6. SendInv(call.data[index], "data", index)'
  <2>1. CASE ack'
    <3>1. PICK v \in Byte, t \in Nat : v = call.data[index + 1] /\ t = index + 1
      BY <1>5, ElementOfSeq
    <3>2. "data" \in ListenStates
      BY DEF ListenStates
    <3>3. SendInv(v, "data", t)'
      BY <1>3, <1>4, <2>1, <3>1, <3>2, SendBegins
    <3> QED BY <1>4, <3>1, <3>3 DEF SendInv, SendBit, SendAck, WasSent, AnswerIs, Hears
  <2>2. CASE ~ack'
    BY <1>3, <1>4, <2>2 DEF SendInv, NotSent, Deaf
  <2> QED BY <2>1, <2>2
<1>7. PieceInv'
  BY <1>4, <1>6 DEF PieceInv
<1>8. CallInv'
  BY <1>2, <1>3, <1>4, <1>5 DEF CallInv
<1>9. GotInv'
  BY <1>2, <1>4, EmptySeq DEF GotInv
<1>10. I2cTypes'
  BY <1>2, <1>3, <1>4 DEF I2cInv, I2cTypes
<1> QED BY <1>7, <1>8, <1>9, <1>10 DEF I2cInv

LEMMA WriteEndsKeeps ==
  ASSUME I2cInv, WriteEnds
  PROVE  I2cInv'
<1>1. i2c_pc \in {"reg", "data"} /\ ops = <<>> /\ i2c_pc \in SendPcs
  BY DEF WriteEnds, Through, SendPcs
<1>2. /\ call.kind = "write" /\ index = Len(call.data) /\ index \in Nat
      /\ got = <<>> /\ is_started
  BY <1>1 DEF I2cInv, I2cTypes, CallInv, WriteEnds
<1>3. /\ ~scl /\ StillAcked \in BOOLEAN /\ call \in Calls
      /\ ~StillAcked => Deaf /\ taken <= NumBytes(call)
      /\ StillAcked => peer = Peer("data") /\ taken = index + 1
  BY <1>1, SendEnds
<1>4. /\ bits' = <<>> /\ ack' = StillAcked
      /\ UNCHANGED <<call, index, got, scl, sda, peer, device, taken>>
  BY DEF WriteEnds, Piece, Same
<1>5. NumBytes(call) = index
  BY <1>2 DEF NumBytes
<1>6. CASE ack'
  <2>1. i2c_pc' = "return" /\ ops' = <<>> /\ is_started' = is_started
    BY <1>6 DEF WriteEnds, StopAfterWrite, Piece
  <2>2. PieceInv'
    BY <1>3, <1>4, <1>6, <2>1 DEF PieceInv
  <2>3. CallInv'
    BY <1>2, <1>3, <1>4, <1>5, <1>6, <2>1 DEF CallInv, NumBytes
  <2>4. GotInv'
    BY <1>2, <1>4, <2>1, EmptySeq DEF GotInv
  <2>5. I2cTypes'
    BY <1>3, <1>4, <2>1 DEF I2cInv, I2cTypes
  <2> QED BY <2>2, <2>3, <2>4, <2>5 DEF I2cInv
<1>7. CASE ~ack'
  <2>1. i2c_pc' = "stop" /\ ops' = <<"clear_sda", "set_scl", "set_sda">> /\ is_started' = FALSE
    BY <1>7 DEF WriteEnds, StopAfterWrite, Piece, StopCond
  <2>2. StopInv'
    BY <1>3, <1>4, <1>7, <2>1 DEF StopInv, Deaf
  <2>3. PieceInv'
    BY <2>1, <2>2 DEF PieceInv
  <2>4. CallInv'
    BY <1>2, <1>3, <1>4, <1>5, <1>7, <2>1 DEF CallInv, NumBytes
  <2>5. GotInv'
    BY <1>2, <1>4, <2>1, EmptySeq DEF GotInv
  <2>6. I2cTypes'
    BY <1>3, <1>4, <2>1 DEF I2cInv, I2cTypes
  <2> QED BY <2>3, <2>4, <2>5, <2>6 DEF I2cInv
<1> QED BY <1>6, <1>7

LEMMA RegisterSentKeeps ==
  ASSUME I2cInv, RegisterSent
  PROVE  I2cInv'
<1>1. i2c_pc = "reg" /\ ops = <<>> /\ i2c_pc \in SendPcs /\ call.kind = "read"
  BY DEF RegisterSent, Through, SendPcs
<1>2. index = 0 /\ got = <<>> /\ is_started
  BY <1>1 DEF I2cInv, CallInv
<1>3. /\ ~scl /\ StillAcked \in BOOLEAN /\ call \in Calls
      /\ ~StillAcked => Deaf /\ taken <= NumBytes(call)
      /\ StillAcked => peer = Peer("data") /\ taken = 1
  BY <1>1, <1>2, SendEnds
<1>4. /\ i2c_pc' = "restart" /\ bits' = <<>> /\ ack' = StillAcked
      /\ ops' = (IF ack' THEN StartCond ELSE <<>>)
      /\ UNCHANGED <<is_started, call, index, got, scl, sda, peer, device, taken>>
  BY DEF RegisterSent, Piece, Same, IfAcked
<1>5. StartCond = <<"set_sda", "set_scl", "clear_sda", "clear_scl">>
  BY <1>2, LongStart DEF StartCond
<1>6. StartInv'
  <2>1. CASE ack'
    BY <1>3, <1>4, <1>5, <2>1 DEF StartInv, Starting
  <2>2. CASE ~ack'
    BY <1>3, <1>4, <2>2 DEF StartInv, NotSent, Deaf
  <2> QED BY <2>1, <2>2
<1>7. PieceInv'
  BY <1>4, <1>6 DEF PieceInv
<1>8. CallInv'
  BY <1>1, <1>2, <1>3, <1>4 DEF CallInv
<1>9. GotInv'
  BY <1>2, <1>4, EmptySeq DEF GotInv
<1>10. I2cTypes'
  BY <1>3, <1>4 DEF I2cInv, I2cTypes
<1> QED BY <1>7, <1>8, <1>9, <1>10 DEF I2cInv

LEMMA RestartEndsKeeps ==
  ASSUME I2cInv, RestartEnds
  PROVE  I2cInv'
<1>1. i2c_pc = "restart" /\ ops = <<>>
  BY DEF RestartEnds, Through
<1>2. /\ call \in Calls /\ call.kind = "read" /\ index = 0 /\ got = <<>> /\ is_started
      /\ ack => taken = 1
      /\ ~ack => taken <= NumBytes(call)
  BY <1>1 DEF I2cInv, CallInv
<1>3. ~scl /\ IF ack THEN Fresh ELSE Deaf
  BY <1>1, <1>2 DEF I2cInv, PieceInv, StartInv, Starting, NotSent
<1>4. PICK v \in Byte : v = Address(TRUE)
  BY AddressTypes
<1>5. /\ i2c_pc' = "addr_read" /\ ops' = (IF ack' THEN WriteByte(v) ELSE <<>>) /\ bits' = <<>>
      /\ UNCHANGED <<is_started, call, ack, index, got, scl, sda, peer, device, taken>>
  BY <1>4 DEF RestartEnds, Piece, Same, IfAcked
<1>6. SendInv(v, "addr", 1)'
  <2>1. CASE ack
    <3>1. "addr" \in ListenStates
      BY DEF ListenStates
    <3> QED BY <1>2, <1>3, <1>5, <2>1, <3>1, SendBegins DEF Fresh, Deaf
  <2>2. CASE ~ack
    BY <1>3, <1>5, <2>2 DEF SendInv, NotSent, Deaf
  <2> QED BY <2>1, <2>2
<1>7. PieceInv'
  BY <1>4, <1>5, <1>6 DEF PieceInv
<1>8. CallInv'
  BY <1>2, <1>5 DEF CallInv
<1>9. GotInv'
  BY <1>2, <1>5, EmptySeq DEF GotInv
<1>10. I2cTypes'
  BY <1>5 DEF I2cInv, I2cTypes
<1> QED BY <1>7, <1>8, <1>9, <1>10 DEF I2cInv

LEMMA FirstByteKeeps ==
  ASSUME I2cInv, FirstByte
  PROVE  I2cInv'
<1>1. i2c_pc = "addr_read" /\ ops = <<>> /\ i2c_pc \in SendPcs
  BY DEF FirstByte, Through, SendPcs
<1>2. call.kind = "read" /\ index = 0 /\ got = <<>> /\ is_started
  BY <1>1 DEF I2cInv, CallInv
<1>3. /\ ~scl /\ StillAcked \in BOOLEAN /\ call \in Calls
      /\ ~StillAcked => Deaf /\ taken <= NumBytes(call)
      /\ StillAcked => taken = 2 /\ peer = Giving(LastGiven(0), 0, LastGiven(0)[1])
  BY <1>1, SendEnds
<1>4. /\ NumBytes(call) = call.len /\ call.len \in 1 .. Len(Given) /\ Len(Given) \in Nat \ {0}
      /\ device \in DeviceTypes
  BY <1>2, <1>3, CallTypes, ByteTypes DEF I2cInv, I2cTypes
<1>5. PICK nack \in BOOLEAN : nack = LastByte(0)
  BY <1>4 DEF LastByte
<1>6. /\ i2c_pc' = "get" /\ ops' = ReadByte(nack) /\ bits' = <<>> /\ ack' = StillAcked
      /\ UNCHANGED <<is_started, call, index, got, scl, sda, peer, device, taken>>
  BY <1>5 DEF FirstByte, Piece, Same
<1>7. PICK w \in Byte : w = IF StillAcked THEN LastGiven(0) ELSE Ones
  <2>1. LastGiven(0) \in Byte
    <3>1. device.next \in 1 .. Len(Given) /\ 0 \in 0 .. Len(Given) - 1
      BY <1>4 DEF DeviceTypes
    <3> QED BY <3>1, ByteTypes DEF LastGiven
  <2> QED BY <2>1, ByteTypes
<1>8. Gives(w, 0, w[1])'
  <2>1. CASE StillAcked
    <3>1. w = LastGiven(0) /\ peer = Giving(w, 0, w[1])
      BY <1>3, <1>7, <2>1
    <3> QED BY <1>6, <2>1, <3>1 DEF Gives
  <2>2. CASE ~StillAcked
    BY <1>3, <1>6, <2>2 DEF Gives, Deaf
  <2> QED BY <2>1, <2>2
<1>9. GetBit(w, nack)' /\ ops' # <<>>
  BY <1>3, <1>6, <1>8, GetBegins
<1>10. Read(index + 1)' = w /\ LastByte(index)' = nack
  <2>1. LastByte(index)' = nack
    BY <1>2, <1>5, <1>6 DEF LastByte
  <2>2. CASE StillAcked
    <3>1. taken' - 1 - (index' + 1) = 0
      BY <1>2, <1>3, <1>6, <2>2
    <3>2. Read(index + 1)' = LastGiven(0)'
      BY <1>6, <2>2, <3>1 DEF Read, LastGiven
    <3> QED BY <1>6, <1>7, <2>1, <2>2, <3>2 DEF LastGiven
  <2>3. CASE ~StillAcked
    BY <1>6, <1>7, <2>1, <2>3 DEF Read
  <2> QED BY <1>3, <2>2, <2>3
<1>11. GetInv'
  <2>1. ack' => taken' = index' + 2
    BY <1>2, <1>3, <1>6
  <2> QED BY <1>9, <1>10, <2>1 DEF GetInv, GetBit
<1>12. PieceInv'
  BY <1>6, <1>11 DEF PieceInv
<1>13. CallInv'
  BY <1>2, <1>3, <1>4, <1>6 DEF CallInv
<1>14. GotInv'
  BY <1>2, <1>6, EmptySeq DEF GotInv
<1>15. I2cTypes'
  BY <1>3, <1>6 DEF I2cInv, I2cTypes
<1> QED BY <1>12, <1>13, <1>14, <1>15 DEF I2cInv

(* The byte that was read, and what is left of the loop *)
LEMMA GetEnds ==
  ASSUME I2cInv, i2c_pc = "get", ops = <<>>
  PROVE  /\ ~scl /\ bits = Read(index + 1)
         /\ ack /\ ~LastByte(index) =>
              taken = index + 3 /\ peer = Giving(LastGiven(0), 0, LastGiven(0)[1])
         /\ ~ack \/ LastByte(index) => Deaf
         /\ ack /\ LastByte(index) => taken = index + 2
<1>1. PICK w \in Byte, nack \in BOOLEAN : w = Read(index + 1) /\ nack = LastByte(index)
  BY ReadTypes
<1>2. /\ GetBit(w, nack) \/ GetAck(w, nack) \/ WasGot(w, nack)
      /\ ack => taken = IF ~nack THEN index + 3 ELSE index + 2
  BY <1>1 DEF I2cInv, PieceInv, GetInv
<1>3. ~GetBit(w, nack) /\ ~GetAck(w, nack)
  <2>1. \A i \in 0 .. NBits - 1 :
          <<>> \notin {GetRest(nack, i, 0), GetRest(nack, i, 1), GetRest(nack, i, 2), GetRest(nack, i, 3)}
    BY GetTodo DEF Todo
  <2>2. <<>> \notin {GetRest(nack, NBits, 0), GetRest(nack, NBits, 1), GetRest(nack, NBits, 2)}
    BY GetTodo DEF Todo
  <2> QED BY <2>1, <2>2 DEF GetBit, GetAck
<1>4. WasGot(w, nack)
  BY <1>2, <1>3
<1> QED BY <1>1, <1>2, <1>4 DEF WasGot

LEMMA ByteReadKeeps ==
  ASSUME I2cInv, ByteRead
  PROVE  I2cInv'
<1>1. i2c_pc = "get" /\ ops = <<>>
  BY DEF ByteRead, Through
<1>2. /\ call \in Calls /\ call.kind = "read" /\ NumBytes(call) = call.len
      /\ call.len \in 1 .. Len(Given) /\ index \in 0 .. call.len - 1 /\ Len(Given) \in Nat \ {0}
      /\ LastByte(index) \in BOOLEAN /\ (LastByte(index) <=> index + 1 = call.len)
  BY <1>1, ReadTypes, ByteTypes
<1>3. PICK w \in Byte : w = Read(index + 1)
  BY <1>1, ReadTypes
<1>4. /\ ~scl /\ bits = w
      /\ ack /\ ~LastByte(index) =>
           taken = index + 3 /\ peer = Giving(LastGiven(0), 0, LastGiven(0)[1])
      /\ ~ack \/ LastByte(index) => Deaf
      /\ ack /\ LastByte(index) => taken = index + 2
  BY <1>1, <1>3, GetEnds
<1>5. /\ Len(got) = index /\ got \in Seq(Byte) /\ ack \in BOOLEAN /\ is_started
      /\ \A k \in 1 .. Len(got) : got[k] = Read(k)
      /\ device \in DeviceTypes
      /\ ~ack => taken <= NumBytes(call)
  BY <1>1 DEF I2cInv, I2cTypes, CallInv, GotInv
<1>6. /\ got' = Append(got, w) /\ index' = index + 1 /\ bits' = <<>>
      /\ UNCHANGED <<call, ack, scl, sda, peer, device, taken>>
  BY <1>4 DEF ByteRead, Same, Piece
<1>7. /\ got' \in Seq(Byte) /\ Len(got') = index + 1 /\ got'[index + 1] = w
      /\ \A k \in 1 .. index : got'[k] = got[k]
  BY <1>5, <1>6, AppendProperties
<1>8. \A k \in 1 .. Len(got') : got'[k] = Read(k)'
  <2>1. ASSUME NEW k \in 1 .. index + 1 PROVE Read(k)' = Read(k)
    BY <1>6 DEF Read, LastGiven
  <2>2. ASSUME NEW k \in 1 .. index + 1 PROVE got'[k] = Read(k)
    <3>1. CASE k = index + 1
      BY <1>3, <1>7, <3>1
    <3>2. CASE k # index + 1
      BY <1>2, <1>5, <1>7, <3>2
    <3> QED BY <3>1, <3>2
  <2> QED BY <1>7, <2>1, <2>2
<1>9. CASE index + 1 < call.len
  <2>1. PICK nack \in BOOLEAN : nack = LastByte(index + 1)
    BY <1>2 DEF LastByte
  <2>2. i2c_pc' = "get" /\ ops' = ReadByte(nack) /\ is_started' = is_started
    <3>1. i2c_pc' = "get" /\ ops' = ReadByte(LastByte(index')) /\ is_started' = is_started
      BY <1>6, <1>9 DEF ByteRead, Piece
    <3>2. LastByte(index') = nack
      BY <1>6, <2>1
    <3> QED BY <3>1, <3>2
  <2>3. ~LastByte(index)
    BY <1>2, <1>9
  <2>4. PICK v \in Byte : v = IF ack THEN LastGiven(0) ELSE Ones
    <3>1. LastGiven(0) \in Byte
      <4>1. device.next \in 1 .. Len(Given) /\ 0 \in 0 .. Len(Given) - 1
        BY <1>2, <1>5 DEF DeviceTypes
      <4> QED BY <4>1, ByteTypes DEF LastGiven
    <3> QED BY <3>1, ByteTypes
  <2>5. Gives(v, 0, v[1])'
    <3>1. CASE ack
      <4>1. v = LastGiven(0) /\ peer = Giving(v, 0, v[1])
        BY <1>4, <2>3, <2>4, <3>1
      <4> QED BY <1>6, <3>1, <4>1 DEF Gives
    <3>2. CASE ~ack
      BY <1>4, <1>6, <3>2 DEF Gives, Deaf
    <3> QED BY <3>1, <3>2
  <2>6. GetBit(v, nack)' /\ ops' # <<>>
    BY <1>4, <1>6, <2>2, <2>5, GetBegins
  <2>7. ack' => taken' = index' + 2
    BY <1>2, <1>4, <1>6, <2>3
  <2>8. Read(index + 1)' = v /\ LastByte(index)' = nack
    <3>1. LastByte(index)' = nack
      BY <1>6, <2>1 DEF LastByte
    <3>2. CASE ack
      <4>1. taken' - 1 - (index' + 1) = 0
        BY <1>2, <1>6, <2>7, <3>2
      <4>2. Read(index + 1)' = LastGiven(0)'
        BY <1>6, <3>2, <4>1 DEF Read, LastGiven
      <4> QED BY <1>6, <2>4, <3>1, <3>2, <4>2 DEF LastGiven
    <3>3. CASE ~ack
      BY <1>6, <2>4, <3>1, <3>3 DEF Read
    <3> QED BY <1>5, <3>2, <3>3
  <2>9. GetInv'
    BY <2>6, <2>7, <2>8 DEF GetInv, GetBit
  <2>10. PieceInv'
    BY <2>2, <2>9 DEF PieceInv
  <2>11. CallInv'
    BY <1>2, <1>5, <1>6, <1>9, <2>2 DEF CallInv
  <2>12. GotInv'
    BY <1>6, <1>7, <1>8, <2>2 DEF GotInv
  <2>13. I2cTypes'
    BY <1>2, <1>6, <1>7, <2>2 DEF I2cInv, I2cTypes
  <2> QED BY <2>10, <2>11, <2>12, <2>13 DEF I2cInv
<1>10. CASE ~(index + 1 < call.len)
  <2>1. /\ i2c_pc' = "stop" /\ ops' = <<"clear_sda", "set_scl", "set_sda">>
        /\ is_started' = FALSE
    BY <1>6, <1>10 DEF ByteRead, Piece, StopCond
  <2>2. index + 1 = call.len /\ LastByte(index)
    BY <1>2, <1>10
  <2>3. StopInv'
    BY <1>4, <1>6, <2>1, <2>2 DEF StopInv, Deaf
  <2>4. PieceInv'
    BY <2>1, <2>3 DEF PieceInv
  <2>5. NumBytes(call)' = index' /\ (ack' => taken' = index' + 1)
        /\ (~ack' => taken' <= NumBytes(call)')
    BY <1>2, <1>4, <1>5, <1>6, <2>2
  <2>6. CallInv'
    BY <1>2, <1>6, <2>1, <2>5 DEF CallInv
  <2>7. GotInv'
    BY <1>2, <1>6, <1>7, <1>8, <2>1 DEF GotInv
  <2>8. I2cTypes'
    <3>1. index' \in Nat
      BY <1>2, <1>6
    <3>2. got' \in Seq(Byte) /\ is_started' \in BOOLEAN
      BY <1>7, <2>1
    <3> QED BY <1>6, <2>1, <3>1, <3>2 DEF I2cInv, I2cTypes
  <2> QED BY <2>4, <2>6, <2>7, <2>8 DEF I2cInv
<1> QED BY <1>9, <1>10

LEMMA CallEndsKeeps ==
  ASSUME I2cInv, CallEnds
  PROVE  I2cInv'
<1>1. i2c_pc \in {"stop", "return"} /\ ops = <<>>
  BY DEF CallEnds, Through
<1>2. /\ i2c_pc' = "idle" /\ ops' = <<>> /\ bits' = <<>> /\ call' = NoCall
      /\ ack' = TRUE /\ index' = 0 /\ got' = <<>> /\ taken' = 0
      /\ UNCHANGED <<is_started, scl, sda, peer, device>>
  BY DEF CallEnds, Piece
<1>3. IF is_started THEN ~scl /\ peer = Peer("data") ELSE scl /\ sda /\ peer = Peer("idle")
  <2>1. CASE i2c_pc = "stop"
    BY <1>1, <2>1 DEF I2cInv, PieceInv, CallInv, StopInv
  <2>2. CASE i2c_pc = "return"
    BY <2>2 DEF I2cInv, PieceInv, CallInv
  <2> QED BY <1>1, <2>1, <2>2
<1>4. PieceInv'
  BY <1>2, <1>3 DEF PieceInv
<1>5. CallInv'
  BY <1>2 DEF CallInv
<1>6. GotInv'
  BY <1>2, EmptySeq DEF GotInv
<1>7. I2cTypes'
  BY <1>2, EmptySeq DEF I2cInv, I2cTypes
<1> QED BY <1>4, <1>5, <1>6, <1>7 DEF I2cInv

LEMMA InitInv ==
  ASSUME I2cInit PROVE I2cInv
<1>1. PieceInv /\ CallInv
  BY DEF I2cInit, PieceInv, CallInv, Fresh
<1>2. GotInv
  BY EmptySeq DEF I2cInit, GotInv
<1>3. I2cTypes
  <2>1. device \in DeviceTypes
    BY ByteTypes, EmptySeq DEF I2cInit, DeviceTypes
  <2> QED BY <2>1, EmptySeq DEF I2cInit, I2cTypes
<1> QED BY <1>1, <1>2, <1>3 DEF I2cInv

LEMMA StutterKeeps ==
  ASSUME I2cInv, UNCHANGED i2cVars
  PROVE  I2cInv'
<1>1. PieceInv'
  <2> USE DEF i2cVars, master
  <2>1. StartInv <=> StartInv'
    BY DEF StartInv, Starting, NotSent, Fresh, Deaf
  <2>2. StopInv <=> StopInv'
    BY DEF StopInv, Deaf
  <2>3. ASSUME NEW v, NEW state, NEW t, SendInv(v, state, t) PROVE SendInv(v, state, t)'
    <3>1. SendBit(v, state, t) => SendBit(v, state, t)'
      BY DEF SendBit, Hears, Deaf
    <3>2. SendAck(v, state, t) => SendAck(v, state, t)'
      BY DEF SendAck, AnswerIs, Deaf
    <3>3. WasSent(v, state, t) => WasSent(v, state, t)'
      BY DEF WasSent, Deaf, LastGiven
    <3> QED BY <2>3, <3>1, <3>2, <3>3 DEF SendInv, NotSent, Deaf
  <2>4. GetInv => GetInv'
    <3>1. Read(index + 1)' = Read(index + 1) /\ LastByte(index)' = LastByte(index)
      BY DEF Read, LastGiven, LastByte
    <3>2. ASSUME NEW w, NEW nack, GetBit(w, nack) PROVE GetBit(w, nack)'
      BY <3>2 DEF GetBit, Gives, Deaf
    <3>3. ASSUME NEW w, NEW nack, GetAck(w, nack) PROVE GetAck(w, nack)'
      BY <3>3 DEF GetAck, Waits, Deaf
    <3>4. ASSUME NEW w, NEW nack, WasGot(w, nack) PROVE WasGot(w, nack)'
      BY <3>4 DEF WasGot, Deaf, LastGiven
    <3> QED BY <3>1, <3>2, <3>3, <3>4 DEF GetInv
  <2>5. Fresh <=> Fresh'
    BY DEF Fresh
  <2> QED BY <2>1, <2>2, <2>3, <2>4, <2>5 DEF I2cInv, PieceInv
<1>2. CallInv' /\ I2cTypes'
  BY DEF I2cInv, CallInv, I2cTypes, i2cVars, master
<1>3. GotInv'
  BY DEF I2cInv, GotInv, Read, LastGiven, i2cVars, master
<1> QED BY <1>1, <1>2, <1>3 DEF I2cInv

(* I2cInv says, before each pin operation of each piece of a call, where   *)
(* the lines are, how much the device has heard or given, and what has     *)
(* been read.  It holds of write_data and read_data with bytes of any      *)
(* width, any register and length, and any byte refused.                   *)
THEOREM I2cInvariance == I2cSpec => []I2cInv
<1>1. I2cInit => I2cInv
  BY InitInv
<1>2. I2cInv /\ [I2cNext]_i2cVars => I2cInv'
  <2> SUFFICES ASSUME I2cInv, [I2cNext]_i2cVars PROVE I2cInv'
    OBVIOUS
  <2>1. CASE PinOperation
    BY <2>1, PinKeeps
  <2>2. CASE CallBegins
    BY <2>2, CallBeginsKeeps
  <2>3. CASE StartEnds
    BY <2>3, StartEndsKeeps
  <2>4. CASE AddressSent
    BY <2>4, AddressSentKeeps
  <2>5. CASE ByteSent
    BY <2>5, ByteSentKeeps
  <2>6. CASE WriteEnds
    BY <2>6, WriteEndsKeeps
  <2>7. CASE RegisterSent
    BY <2>7, RegisterSentKeeps
  <2>8. CASE RestartEnds
    BY <2>8, RestartEndsKeeps
  <2>9. CASE FirstByte
    BY <2>9, FirstByteKeeps
  <2>10. CASE ByteRead
    BY <2>10, ByteReadKeeps
  <2>11. CASE CallEnds
    BY <2>11, CallEndsKeeps
  <2>12. CASE UNCHANGED i2cVars
    BY <2>12, StutterKeeps
  <2> QED BY <2>1, <2>2, <2>3, <2>4, <2>5, <2>6, <2>7, <2>8, <2>9, <2>10, <2>11, <2>12 DEF I2cNext
<1> QED BY <1>1, <1>2, PTL DEF I2cSpec

-----------------------------------------------------------------------------
(* What follows from the invariant *)

LEMMA PieceTypes ==
  ASSUME I2cInv
  PROVE  bits \in Seq(BOOLEAN) /\ Len(bits) <= NBits /\ peer.count \in 0 .. NBits
<1>1. /\ NBits \in Nat \ {0} /\ <<>> \in Seq(BOOLEAN) /\ Len(<<>>) = 0
      /\ <<TRUE>> \in Seq(BOOLEAN) /\ Len(<<TRUE>>) = 1
      /\ <<FALSE>> \in Seq(BOOLEAN) /\ Len(<<FALSE>>) = 1
  BY I2cAssumption
<1>2. Deaf => peer.count = 0
  BY DEF Deaf, Peer
<1>3. ASSUME bits = <<>> \/ bits = <<TRUE>> \/ bits = <<FALSE>>
      PROVE  bits \in Seq(BOOLEAN) /\ Len(bits) <= NBits
  <2>1. bits \in Seq(BOOLEAN)
    BY <1>1, <1>3, Zenon
  <2>2. Len(bits) = 0 \/ Len(bits) = 1
    BY <1>1, <1>3, Zenon
  <2> QED BY <1>1, <2>1, <2>2
<1>4. CASE i2c_pc \in SendPcs
  <2>1. PICK v \in Byte, state \in ListenStates, t \in Nat : SendInv(v, state, t)
    BY <1>4, SendIs
  <2>2. CASE SendBit(v, state, t)
    <3>1. bits = <<>>
      BY <2>2 DEF SendBit
    <3>2. PICK i \in 0 .. NBits : Hears(v, state, i)
      BY <1>1, <2>2 DEF SendBit
    <3>3. peer.count \in 0 .. NBits
      BY <1>1, <1>2, <3>2 DEF Hears, Heard
    <3> QED BY <1>1, <3>1, <3>3
  <2>3. CASE SendAck(v, state, t)
    <3>1. Deaf \/ peer = Answering(state, v, FALSE) \/ peer = Answering(state, v, TRUE)
      BY <2>3 DEF SendAck, AnswerIs
    <3>2. peer.drive = TRUE \/ peer.drive = FALSE
      BY <3>1, DeafEdges DEF Answering
    <3>3. peer.count \in 0 .. NBits
      BY <1>1, <1>2, <3>1 DEF Answering
    <3>4. bits = <<>> \/ bits = <<peer.drive>>
      BY <2>3 DEF SendAck
    <3>5. bits = <<>> \/ bits = <<TRUE>> \/ bits = <<FALSE>>
      BY <3>2, <3>4
    <3> QED BY <1>3, <3>3, <3>5, Zenon
  <2>4. CASE WasSent(v, state, t)
    <3>1. bits = <<TRUE>> \/ bits = <<FALSE>>
      BY <2>4 DEF WasSent
    <3>2. \/ Deaf \/ peer = Peer("reg") \/ peer = Peer("data")
          \/ peer = Giving(LastGiven(0), 0, LastGiven(0)[1])
      BY <2>4 DEF WasSent
    <3>3. peer.count \in 0 .. NBits
      BY <1>1, <1>2, <3>2 DEF Giving, Peer
    <3> QED BY <1>3, <3>1, <3>3, Zenon
  <2>5. CASE NotSent
    BY <1>1, <1>2, <2>5 DEF NotSent
  <2> QED BY <2>1, <2>2, <2>3, <2>4, <2>5 DEF SendInv
<1>5. CASE i2c_pc = "get"
  <2>1. PICK w \in Byte, nack \in BOOLEAN : GetBit(w, nack) \/ GetAck(w, nack) \/ WasGot(w, nack)
    BY <1>5, ReadTypes DEF I2cInv, PieceInv, GetInv
  <2>2. CASE GetBit(w, nack)
    <3>1. PICK i \in 0 .. NBits - 1 :
            /\ bits = SubSeq(w, 1, i) \/ bits = SubSeq(w, 1, i + 1)
            /\ Gives(w, i, w[i + 1]) \/ Gives(w, i + 1, w[i + 1])
      BY <2>2 DEF GetBit
    <3>2. i \in 0 .. NBits /\ i + 1 \in 0 .. NBits
      BY <1>1
    <3>3. peer.count \in 0 .. NBits
      BY <1>1, <1>2, <3>1, <3>2 DEF Gives, Giving
    <3>4. \A n \in 0 .. NBits : SubSeq(w, 1, n) \in Seq(BOOLEAN) /\ Len(SubSeq(w, 1, n)) = n
      BY ByteBits
    <3>5. bits \in Seq(BOOLEAN) /\ Len(bits) \in 0 .. NBits
      BY <3>1, <3>2, <3>4
    <3> QED BY <1>1, <3>3, <3>5
  <2>3. CASE GetAck(w, nack) \/ WasGot(w, nack)
    <3>1. bits = w
      BY <2>3 DEF GetAck, WasGot
    <3>2. peer.count \in {0, NBits}
      BY <1>2, <2>3 DEF GetAck, WasGot, Waits, Gave, Giving
    <3> QED BY <1>1, <3>1, <3>2, ByteBits
  <2> QED BY <2>1, <2>2, <2>3
<1>6. CASE i2c_pc \in {"start", "restart"}
  <2>1. bits = <<>> /\ (Starting \/ NotSent)
    BY <1>6 DEF I2cInv, PieceInv, StartInv
  <2>2. peer.count \in 0 .. 1
    BY <1>2, <2>1 DEF Starting, NotSent, Fresh, Peer
  <2> QED BY <1>1, <2>1, <2>2
<1>7. CASE i2c_pc \in {"stop", "idle", "return"}
  <2>1. bits = <<>>
    BY <1>7 DEF I2cInv, PieceInv, StopInv
  <2>2. Deaf \/ Fresh \/ peer = Peer("idle") \/ peer = Peer("data")
    BY <1>7 DEF I2cInv, PieceInv, StopInv
  <2>3. peer.count = 0
    BY <1>2, <2>2 DEF Fresh, Peer
  <2> QED BY <1>1, <2>1, <2>3
<1> QED BY <1>4, <1>5, <1>6, <1>7 DEF I2cInv, I2cTypes, SendPcs

(* The variables have their types, and no piece samples more bits than a   *)
(* byte has, nor does the device count more.                               *)
THEOREM I2cTypesHold == I2cSpec => []I2cTypeOK
<1>1. I2cInv => I2cTypeOK
  <2> SUFFICES ASSUME I2cInv PROVE I2cTypeOK
    OBVIOUS
  <2>1. {is_started, ack, scl, sda} \subseteq BOOLEAN
    BY DEF I2cInv, I2cTypes
  <2>2. /\ call \in Calls \cup {NoCall} /\ got \in Seq(Byte) /\ index \in Nat
        /\ i2c_pc \in {"idle", "start", "addr", "reg", "data", "restart", "addr_read", "get",
                       "stop", "return"}
    BY DEF I2cInv, I2cTypes
  <2> QED BY <2>1, <2>2, PieceTypes DEF I2cTypeOK
<1> QED BY <1>1, I2cInvariance, PTL

(* Whatever byte was refused, the next call finds a bus it can start on:   *)
(* the device does not hold SDA, is_started says whether the clock is low. *)
THEOREM BusReadyHolds == I2cSpec => []BusReady
<1>1. I2cInv => BusReady
  <2> SUFFICES ASSUME I2cInv, i2c_pc = "idle" PROVE
        /\ peer.drive
        /\ is_started <=> ~scl
        /\ ~is_started /\ sda => peer.state = "idle"
        /\ is_started => peer.state = "data"
    BY DEF BusReady
  <2>1. IF is_started THEN ~scl /\ peer = Peer("data")
        ELSE scl /\ IF sda THEN peer = Peer("idle") ELSE Fresh
    BY DEF I2cInv, PieceInv
  <2> QED BY <2>1 DEF Fresh, Peer
<1> QED BY <1>1, I2cInvariance, PTL

(* In a byte, the clock is only ever high for it to be read or to fall. *)
LEMMA HighInByte ==
  ASSUME I2cInv, PinOperation, i2c_pc \in SendPcs \cup {"get"}, scl
  PROVE  \E op \in {"clear_scl", "read_sda"} : \E rest : Todo(ops, op, rest)
<1>1. ops # <<>>
  BY DEF PinOperation
<1>2. CASE i2c_pc \in SendPcs
  <2>1. PICK v \in Byte, state \in ListenStates, t \in Nat : SendInv(v, state, t)
    BY <1>2, SendIs
  <2>2. SendBit(v, state, t) \/ SendAck(v, state, t)
    BY <1>1, <2>1 DEF SendInv, WasSent, NotSent
  <2>3. CASE SendBit(v, state, t)
    BY <2>3, SendTodo DEF SendBit
  <2>4. CASE SendAck(v, state, t)
    BY <2>4, SendTodo DEF SendAck
  <2> QED BY <2>2, <2>3, <2>4
<1>3. CASE i2c_pc = "get"
  <2>1. PICK w \in Byte, nack \in BOOLEAN : GetBit(w, nack) \/ GetAck(w, nack) \/ WasGot(w, nack)
    BY <1>3, ReadTypes DEF I2cInv, PieceInv, GetInv
  <2>2. CASE GetBit(w, nack)
    BY <2>2, GetTodo DEF GetBit
  <2>3. CASE GetAck(w, nack)
    BY <2>3, GetTodo DEF GetAck
  <2> QED BY <1>1, <2>1, <2>2, <2>3 DEF WasGot
<1> QED BY <1>2, <1>3

(* SDA changes while the clock is high where a start or a stop condition   *)
(* is meant and nowhere else, and each of them makes its condition.        *)
THEOREM OnlyMeantConditionsHolds == I2cSpec => OnlyMeantConditions
<1> DEFINE Meant == scl /\ scl' /\ Sda' # Sda =>
                      i2c_pc \in IF Sda' THEN {"stop"} ELSE {"start", "restart"}
           Made == i2c_pc \in {"start", "restart"} /\ ops = <<>> /\ ack =>
                     peer.state \in {"addr", "off"}
<1>1. ASSUME I2cInv, PinOperation, scl, scl', Sda' # Sda
      PROVE  i2c_pc \in IF Sda' THEN {"stop"} ELSE {"start", "restart"}
  <2>1. ops # <<>>
    BY <1>1 DEF PinOperation
  <2>2. i2c_pc \notin SendPcs \cup {"get"}
    <3>1. ASSUME ClearScl \/ ReadSda PROVE FALSE
      BY <1>1, <3>1 DEF ClearScl, ReadSda, Sda
    <3> QED BY <1>1, <3>1, HighInByte, PinIs
  <2>3. CASE i2c_pc \in {"start", "restart"}
    <3>1. Starting \/ NotSent
      BY <1>1, <2>3 DEF I2cInv, PieceInv, StartInv
    <3>2. CASE ops = <<"clear_sda", "clear_scl">>
      <4>1. SetSda(FALSE)
        BY <1>1, <3>2, ShortTodo, PinIs
      <4>2. ~Sda'
        BY <4>1 DEF SetSda, Sda
      <4> QED BY <2>3, <4>2
    <3>3. CASE ops = <<"clear_scl">>
      BY <1>1, <3>3, ShortTodo, PinIs DEF ClearScl
    <3> QED BY <1>1, <2>1, <3>1, <3>2, <3>3 DEF Starting, NotSent
  <2>4. CASE i2c_pc = "stop"
    <3>1. StopInv
      BY <1>1, <2>4 DEF I2cInv, PieceInv
    <3>2. ops = <<"set_sda">> /\ scl /\ ~sda /\ Deaf
      BY <1>1, <2>1, <3>1 DEF StopInv
    <3>3. ~Sda
      BY <3>2 DEF Sda
    <3>4. Sda'
      <4>1. SetSda(TRUE)
        BY <1>1, <3>2, ShortTodo, PinIs
      <4>2. sda' = TRUE /\ peer' = Peer("idle")
        BY <3>2, <3>3, <4>1, DeafEdges DEF SetSda, PeerSeesSda
      <4> QED BY <4>2 DEF Sda, Peer
    <3> QED BY <2>4, <3>4
  <2>5. i2c_pc \notin {"idle", "return"}
    BY <1>1, <2>1 DEF I2cInv, PieceInv
  <2> QED BY <1>1, <2>2, <2>3, <2>4, <2>5 DEF I2cInv, I2cTypes, SendPcs
<1>2. I2cInv => Made
  BY DEF I2cInv, PieceInv, StartInv, Starting, Fresh, Peer
<1>3. ASSUME I2cNext, ~PinOperation PROVE Sda' = Sda
  <2>1. UNCHANGED <<sda, peer>>
    BY <1>3 DEF I2cNext, CallBegins, StartEnds, AddressSent, ByteSent, WriteEnds, RegisterSent,
                RestartEnds, FirstByte, ByteRead, CallEnds, Same
  <2> QED BY <2>1 DEF Sda
<1>4. I2cInv /\ [I2cNext]_i2cVars => [Meant /\ Made]_i2cVars
  BY <1>1, <1>2, <1>3
<1> QED BY <1>4, I2cInvariance, PTL DEF I2cSpec, OnlyMeantConditions

-----------------------------------------------------------------------------
(* The I2C master and the device implement register access. *)

(* The step of the access that the device goes along with when it has been *)
(* sent v as state, t steps before                                         *)
Took(v, state, t) ==
  /\ taken = t /\ taken' = t + 1
  /\ state = "addr" => v[NBits]
  /\ device' = CASE state = "reg"  -> [device EXCEPT !.reg = v, !.written = <<>>]
                 [] state = "data" -> [device EXCEPT !.written = Append(@, v)]
                 [] state = "addr" -> [device EXCEPT !.next = (@ % Len(Given)) + 1]

LEMMA OnlyFallsTake ==
  ASSUME PinOperation, ~(ClearScl /\ scl)
  PROVE  UNCHANGED <<device, taken>>
BY DEF PinOperation, SetSda, SetScl, ClearScl, ReadSda

LEMMA SendTakes ==
  ASSUME NEW v \in Byte, NEW state \in ListenStates, NEW t, device \in DeviceTypes,
         SendBit(v, state, t) \/ SendAck(v, state, t), PinOperation
  PROVE  UNCHANGED <<device, taken>> \/ Took(v, state, t)
<1> SUFFICES ASSUME ClearScl, scl PROVE UNCHANGED <<device, taken>> \/ Took(v, state, t)
  BY OnlyFallsTake
<1>1. PeerSeesFall
  BY SclFalls
<1>2. CASE SendBit(v, state, t)
  <2>1. PICK i \in 0 .. NBits - 1 : Hears(v, state, i + 1)
    BY <1>2 DEF SendBit
  <2>2. CASE Deaf
    BY <1>1, <2>2, DeafEdges
  <2>3. CASE peer = Heard(state, v, i + 1) /\ i + 1 # NBits
    <3>1. i + 1 \in 0 .. NBits - 1
      BY <2>3, I2cAssumption
    <3> QED BY <1>1, <2>3, <3>1, HeardFall
  <2>4. CASE peer = Heard(state, v, i + 1) /\ i + 1 = NBits
    <3>1. /\ peer.answering = FALSE /\ peer.state = state /\ state # "give" /\ peer.count = NBits
          /\ Listening /\ peer.byte = v
      BY <2>4, ByteBits DEF Heard, ListenStates, Listening
    <3>2. PICK a \in BOOLEAN : Answers(a)
      BY <1>1, <3>1 DEF PeerSeesFall
    <3>3. CASE a /\ state # "addr"
      <4>1. /\ taken' = t + 1
            /\ device' = IF state = "reg" THEN [device EXCEPT !.reg = v, !.written = <<>>]
                                          ELSE [device EXCEPT !.written = Append(@, v)]
        BY <1>2, <3>1, <3>2, <3>3 DEF Answers, SendBit
      <4>2. CASE state = "reg"
        BY <1>2, <4>1, <4>2 DEF Took, SendBit
      <4>3. CASE state = "data"
        BY <1>2, <4>1, <4>3 DEF Took, SendBit
      <4> QED BY <3>3, <4>2, <4>3 DEF ListenStates
    <3>4. CASE ~(a /\ state # "addr")
      BY <3>1, <3>2, <3>4 DEF Answers
    <3> QED BY <3>3, <3>4
  <2> QED BY <2>1, <2>2, <2>3, <2>4 DEF Hears
<1>3. CASE SendAck(v, state, t)
  <2>1. AnswerIs(v, state, t)
    BY <1>3 DEF SendAck
  <2>2. CASE Deaf
    BY <1>1, <2>2, DeafEdges
  <2>3. CASE peer = Answering(state, v, FALSE)
    <3>1. NextState = "ignore" /\ peer.answering = TRUE
      BY <2>3 DEF NextState, Answering
    <3> QED BY <1>1, <3>1, GiveEndsElsewhere
  <2>4. CASE peer = Answering(state, v, TRUE) /\ (state # "addr" \/ ~v[NBits])
    <3>1. NextState \in {"reg", "data"} /\ peer.answering = TRUE
      BY <2>4 DEF NextState, Answering, ListenStates
    <3> QED BY <1>1, <3>1, GiveEndsElsewhere
  <2>5. CASE peer = Answering(state, v, TRUE) /\ state = "addr" /\ v[NBits]
    <3>1. peer.answering = TRUE /\ peer.accepted = TRUE /\ peer.state = "addr" /\ peer.byte[NBits]
      BY <2>5 DEF Answering
    <3>2. device' = [device EXCEPT !.next = (@ % Len(Given)) + 1] /\ taken' = taken + 1
      BY <1>1, <3>1, GiveBegins
    <3>3. taken = t
      BY <2>1, <2>5, DeafEdges DEF AnswerIs, Answering
    <3> QED BY <2>5, <3>2, <3>3 DEF Took
  <2> QED BY <2>1, <2>2, <2>3, <2>4, <2>5 DEF AnswerIs
<1> QED BY <1>2, <1>3

LEMMA SameBytes ==
  ASSUME NEW c PROVE Access!NumBytes(c) = NumBytes(c)
BY DEF Access!NumBytes, NumBytes

(* A pin operation that the device goes along with selects the register or *)
(* transfers the next byte; every other one is none of the caller's.       *)
LEMMA PinImplements ==
  ASSUME I2cInv, PinOperation
  PROVE  Access!Select \/ Access!Transfer \/ UNCHANGED Access!accessVars
<1>1. UNCHANGED <<call, reply>> /\ ops # <<>>
  BY PinFrame DEF callVars, PinOperation
<1> SUFFICES ASSUME ~UNCHANGED <<device, taken>> PROVE Access!Select \/ Access!Transfer
  BY <1>1 DEF Access!accessVars
<1>2. device \in DeviceTypes /\ i2c_pc # "idle" /\ call \in Calls /\ call # NoCall
  BY <1>1, CallTypes DEF I2cInv, I2cTypes, CallInv, PieceInv
<1>3. CASE i2c_pc \in SendPcs
  <2>1. PICK v \in Byte, state \in ListenStates, t \in Nat :
          /\ SendInv(v, state, t)
          /\ \/ i2c_pc = "addr" /\ v = Address(FALSE) /\ state = "addr" /\ t = 0
             \/ i2c_pc = "reg" /\ v = call.reg /\ state = "reg" /\ t = 0
             \/ i2c_pc = "data" /\ v = call.data[index] /\ state = "data" /\ t = index
             \/ i2c_pc = "addr_read" /\ v = Address(TRUE) /\ state = "addr" /\ t = 1
    BY <1>3, SendIs
  <2>2. SendBit(v, state, t) \/ SendAck(v, state, t)
    BY <1>1, <2>1 DEF SendInv, WasSent, NotSent
  <2>3. Took(v, state, t)
    BY <1>2, <2>2, SendTakes
  <2>4. CASE i2c_pc = "reg" /\ v = call.reg /\ state = "reg" /\ t = 0
    BY <1>1, <1>2, <2>3, <2>4 DEF Took, Access!Select
  <2>5. CASE i2c_pc = "data" /\ v = call.data[index] /\ state = "data" /\ t = index
    <3>1. call.kind = "write" /\ index \in 1 .. NumBytes(call)
      BY <2>5 DEF I2cInv, CallInv
    <3>2. /\ taken = index /\ taken' = taken + 1
          /\ device' = [device EXCEPT !.written = Append(@, call.data[taken])]
      BY <2>3, <2>5 DEF Took
    <3> QED BY <1>1, <1>2, <3>1, <3>2, SameBytes DEF Access!Transfer
  <2>6. CASE i2c_pc = "addr_read" /\ v = Address(TRUE) /\ state = "addr" /\ t = 1
    <3>1. call.kind = "read" /\ 1 \in 1 .. NumBytes(call)
      BY <1>2, <2>6, CallTypes DEF I2cInv, CallInv
    <3>2. /\ taken = 1 /\ taken' = taken + 1
          /\ device' = [device EXCEPT !.next = (@ % Len(Given)) + 1]
      BY <2>3, <2>6 DEF Took
    <3>3. device' = [device EXCEPT !.next = Access!GivenAfter(@, 1)]
      BY <1>2, <3>2 DEF Access!GivenAfter, DeviceTypes
    <3> QED BY <1>1, <1>2, <3>1, <3>2, <3>3, SameBytes DEF Access!Transfer
  <2>7. CASE i2c_pc = "addr" /\ v = Address(FALSE)
    <3>1. ~v[NBits] /\ state = "addr"
      BY <2>1, <2>7, AddressTypes
    <3> QED BY <2>3, <3>1 DEF Took
  <2> QED BY <2>1, <2>4, <2>5, <2>6, <2>7
<1>4. CASE i2c_pc = "get"
  <2>1. NextIsGiven
    BY <1>4, PinGet
  <2>2. call.kind = "read" /\ taken \in 1 .. NumBytes(call)
    BY <1>4, <2>1, ReadTypes DEF NextIsGiven
  <2>3. device' = [device EXCEPT !.next = Access!GivenAfter(@, 1)]
    BY <1>2, <2>1 DEF NextIsGiven, Access!GivenAfter, DeviceTypes
  <2> QED BY <1>1, <1>2, <2>1, <2>2, <2>3, SameBytes DEF Access!Transfer, NextIsGiven
<1>5. CASE i2c_pc \in {"start", "restart", "stop"}
  BY <1>5, PinShort
<1>6. i2c_pc \notin {"idle", "return"}
  BY <1>1 DEF I2cInv, PieceInv
<1> QED BY <1>3, <1>4, <1>5, <1>6 DEF I2cInv, I2cTypes, SendPcs

(* What the call returns: whether all went well, and the bytes read, from  *)
(* the first the device gave in it to the last, or all ones.               *)
LEMMA GivenBack ==
  ASSUME NEW d \in 1 .. Len(Given), NEW len \in 1 .. Len(Given), NEW k \in 1 .. len
  PROVE  GivenBefore(d, len - k) = Given[Access!GivenAfter(d, Len(Given) - len + k - 1)]
<1> DEFINE L == Len(Given)
           m == d - 1 + (L - len + k - 1)
<1>1. L \in Nat \ {0}
  BY ByteTypes
<1> HIDE DEF L
<1>2. m \in 0 .. 2 * L - 1 /\ d \in 1 .. L /\ len \in 1 .. L
  BY <1>1 DEF L
<1>3. m % L = IF m < L THEN m ELSE m - L
  BY <1>1, <1>2, WrapsAround
<1>4. (m % L) + 1 = IF len - k < d - 1 THEN d - 1 - (len - k) ELSE d - 1 - (len - k) + L
  BY <1>1, <1>2, <1>3
<1>5. Access!GivenAfter(d, Len(Given) - len + k - 1) = (m % L) + 1
  BY DEF Access!GivenAfter, L
<1> QED BY <1>4, <1>5 DEF GivenBefore, L

LEMMA ReturnImplements ==
  ASSUME I2cInv, CallEnds
  PROVE  Access!Return
<1>1. i2c_pc \in {"stop", "return"}
  BY DEF CallEnds, Through
<1>2. /\ call \in Calls /\ call # NoCall /\ ack \in BOOLEAN /\ got \in Seq(Byte)
      /\ device \in DeviceTypes /\ NumBytes(call) \in Nat
  BY <1>1, CallTypes DEF I2cInv, I2cTypes, CallInv
<1>3. /\ ~ack => taken <= NumBytes(call)
      /\ ack => taken = NumBytes(call) + 1
      /\ index = NumBytes(call) /\ taken \in Nat
  BY <1>1 DEF I2cInv, I2cTypes, CallInv
<1>4. ack = Access!Complete
  <2>1. ack <=> taken = 1 + NumBytes(call)
    BY <1>2, <1>3
  <2>2. Access!Complete <=> taken = 1 + NumBytes(call)
    BY SameBytes DEF Access!Complete
  <2>3. Access!Complete \in BOOLEAN
    BY DEF Access!Complete
  <2> QED BY <1>2, <2>1, <2>2, <2>3
<1>5. got = IF call.kind = "write" THEN <<>>
            ELSE [i \in 1 .. call.len |->
                    IF Access!Complete
                    THEN Given[Access!GivenAfter(device.next, Len(Given) - call.len + i - 1)]
                    ELSE Ones]
  <2>1. CASE call.kind = "write"
    BY <1>1, <2>1 DEF I2cInv, CallInv, GotInv
  <2>2. CASE call.kind # "write"
    <3>1. call.kind = "read" /\ NumBytes(call) = call.len /\ call.len \in 1 .. Len(Given)
      BY <1>2, <2>2, CallTypes
    <3>2. Len(got) = call.len /\ \A k \in 1 .. Len(got) : got[k] = Read(k)
      BY <1>1, <1>3, <2>2, <3>1 DEF I2cInv, CallInv, GotInv
    <3>3. ASSUME NEW i \in 1 .. call.len
          PROVE  got[i] = IF Access!Complete
                          THEN Given[Access!GivenAfter(device.next, Len(Given) - call.len + i - 1)]
                          ELSE Ones
      <4>1. got[i] = Read(i)
        BY <3>2
      <4>2. CASE ack
        <5>1. device.next \in 1 .. Len(Given)
          BY <1>2 DEF DeviceTypes
        <5>2. taken - 1 - i = call.len - i
          BY <1>3, <3>1, <4>2, ByteTypes
        <5>3. Read(i) = GivenBefore(device.next, call.len - i)
          BY <4>2, <5>2 DEF Read, LastGiven
        <5> QED BY <1>4, <3>1, <4>1, <4>2, <5>1, <5>3, GivenBack
      <4>3. CASE ~ack
        BY <1>4, <4>1, <4>3 DEF Read
      <4> QED BY <4>2, <4>3
    <3>4. got = [i \in 1 .. Len(got) |-> got[i]]
      BY <1>2, LenProperties
    <3> QED BY <2>2, <3>2, <3>3, <3>4
  <2> QED BY <2>1, <2>2
<1>6. reply' = [ack |-> ack, data |-> got] /\ call' = NoCall /\ taken' = 0 /\ UNCHANGED device
  BY DEF CallEnds
<1> QED BY <1>2, <1>4, <1>5, <1>6 DEF Access!Return

(* A call does to the device and returns to the caller what register       *)
(* access promises, whichever byte is refused: the register is selected    *)
(* and each byte written or read once and in order, the caller learns      *)
(* truthfully whether all of it was, and reads all ones after a refusal.   *)
THEOREM AccessImplemented == I2cSpec => ImplementsAccess
<1>1. I2cInit => Access!AccessInit
  BY DEF I2cInit, Access!AccessInit
<1>2. I2cInv /\ [I2cNext]_i2cVars => [Access!AccessNext]_Access!accessVars
  <2> SUFFICES ASSUME I2cInv, [I2cNext]_i2cVars PROVE [Access!AccessNext]_Access!accessVars
    OBVIOUS
  <2>1. CASE PinOperation
    BY <2>1, PinImplements DEF Access!AccessNext
  <2>2. CASE CallBegins
    <3>1. taken = 0
      BY <2>2, CallTypes DEF I2cInv, I2cTypes, CallInv, CallBegins
    <3> QED BY <2>2, <3>1 DEF CallBegins, Access!Call, Access!AccessNext
  <2>3. CASE CallEnds
    BY <2>3, ReturnImplements DEF Access!AccessNext
  <2>4. CASE \/ StartEnds \/ AddressSent \/ ByteSent \/ WriteEnds
             \/ RegisterSent \/ RestartEnds \/ FirstByte \/ ByteRead
    BY <2>4 DEF StartEnds, AddressSent, ByteSent, WriteEnds, RegisterSent, RestartEnds, FirstByte,
                ByteRead, Same, Access!accessVars
  <2>5. CASE UNCHANGED i2cVars
    BY <2>5 DEF i2cVars, master, Access!accessVars
  <2> QED BY <2>1, <2>2, <2>3, <2>4, <2>5 DEF I2cNext
<1> QED BY <1>1, <1>2, I2cInvariance, PTL DEF I2cSpec, ImplementsAccess, Access!AccessSpec
=============================================================================
