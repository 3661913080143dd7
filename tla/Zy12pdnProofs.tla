---------------------------- MODULE Zy12pdnProofs ----------------------------
(***************************************************************************)
(* Proofs about the program, sink and source of Zy12pdn.tla: the voltages  *)
(* it lets a source supply, the requests it makes, its use of the link and *)
(* what its LED shows, for all sources and modes.                          *)
(***************************************************************************)
EXTENDS Zy12pdn, NatLemmas, SequenceTheorems

-----------------------------------------------------------------------------
(* Capabilities *)

(* One round of the loop *)
CapsRoundOf(objects, prev, n) ==
  IF IsSupported(Capability(objects[n], n)) THEN Append(prev, Capability(objects[n], n)) ELSE prev

UpTo(objects, n, f) ==
  f = [k \in 0 .. n |-> IF k = 0 THEN <<>> ELSE CapsRoundOf(objects, f[k - 1], k)]

LEMMA UpToExists ==
  ASSUME NEW objects, NEW n \in Nat
  PROVE  \E f : UpTo(objects, n, f)
<1> DEFINE S == {i \in Nat : \E f : UpTo(objects, i, f)}
<1>1. 0 \in S
  <2>1. UpTo(objects, 0, [k \in 0 .. 0 |-> <<>>])
    BY DEF UpTo
  <2> QED BY <2>1
<1>2. ASSUME NEW i \in S PROVE i + 1 \in S
  <2>1. PICK f : UpTo(objects, i, f)
    OBVIOUS
  <2> DEFINE g == [k \in 0 .. i + 1 |-> IF k = i + 1 THEN CapsRoundOf(objects, f[i], i + 1) ELSE f[k]]
  <2>2. g = [k \in 0 .. i + 1 |-> IF k = 0 THEN <<>> ELSE CapsRoundOf(objects, g[k - 1], k)]
    BY <2>1 DEF UpTo
  <2>3. UpTo(objects, i + 1, g)
    BY <2>2 DEF UpTo
  <2> QED BY <2>3
<1> HIDE DEF S
<1>3. S = Nat
  BY <1>1, <1>2, SetInduction DEF S
<1> QED BY <1>3 DEF S

LEMMA SourceCapsUnfold ==
  ASSUME NEW objects, Len(objects) \in Nat
  PROVE  \E f : UpTo(objects, Len(objects), f) /\ SourceCaps(objects) = f[Len(objects)]
<1> DEFINE g == CHOOSE f : UpTo(objects, Len(objects), f)
<1>1. UpTo(objects, Len(objects), g)
  BY UpToExists
<1>2. SourceCaps(objects) = g[Len(objects)]
  BY ONLY DEF SourceCaps, UpTo, CapsRoundOf
<1> HIDE DEF g
<1> QED BY <1>1, <1>2

Supplies == {"fixed", "battery", "variable", "pps"}
Capabilities == [supply_type : Supplies, obj_pos : 1 .. 7, max_current : Nat,
                 min_voltage : Nat, voltage : Nat]

(* What a capability and the object at its position have to do with each   *)
(* other *)
FromObject(objects, cap) ==
  cap.obj_pos \in DOMAIN objects /\ cap = Capability(objects[cap.obj_pos], cap.obj_pos)

LEMMA ObjectFields ==
  ASSUME NEW pdo \in PowerDataObjects
  PROVE  /\ \E l, h, c \in Field : pdo.low = l /\ pdo.high = h /\ pdo.current = c
         /\ pdo.supply_type \in Supplies \cup {"apdo"}
BY DEF PowerDataObjects, Supplies

LEMMA CapabilityType ==
  ASSUME NEW a \in Adverts, NEW i \in DOMAIN a, a[i].supply_type # "apdo"
  PROVE  /\ Capability(a[i], i) \in Capabilities
         /\ FromObject(a, Capability(a[i], i))
         /\ Capability(a[i], i).supply_type = a[i].supply_type
<1>1. a[i] \in PowerDataObjects /\ i \in 1 .. 7
  BY AdvertsAssumption
<1>2. a[i].supply_type \in Supplies
  BY <1>1, ObjectFields DEF Supplies
<1>3. PICK l, h, c \in Field :
        a[i].low = l /\ a[i].high = h /\ a[i].current = c
  BY <1>1, ObjectFields
<1>4. Capability(a[i], i) \in Capabilities
  BY <1>1, <1>2, <1>3 DEF Capability, Capabilities, Field
<1> QED BY <1>1, <1>4 DEF Capability, FromObject

(* What the loop of handle_src_cap_msg has got after n rounds *)
CapsAfter(a, n, caps) ==
  /\ caps \in Seq(Capabilities) /\ Len(caps) <= n
  /\ \A i \in DOMAIN caps : FromObject(a, caps[i])
  /\ n > 0 => caps # <<>> /\ caps[1] = Capability(a[1], 1)
  /\ \A k \in 1 .. n : a[k].supply_type # "apdo" =>
        \E i \in DOMAIN caps : caps[i] = Capability(a[k], k)

LEMMA CapsRound ==
  ASSUME NEW a \in Adverts, NEW n \in 0 .. Len(a) - 1, NEW caps, CapsAfter(a, n, caps)
  PROVE  CapsAfter(a, n + 1, CapsRoundOf(a, caps, n + 1))
<1> DEFINE cap == Capability(a[n + 1], n + 1)
<1>1. n + 1 \in DOMAIN a /\ n \in Nat
  BY AdvertsAssumption
<1>2. IsSupported(cap) <=> a[n + 1].supply_type # "apdo"
  BY DEF IsSupported, Capability
<1>3. CASE ~IsSupported(cap)
  <2>1. n # 0
    BY <1>2, <1>3, AdvertsAssumption DEF IsFixed
  <2> QED BY <1>1, <1>2, <1>3, <2>1 DEF CapsAfter, CapsRoundOf
<1>4. CASE IsSupported(cap)
  <2>1. cap \in Capabilities /\ FromObject(a, cap)
    BY <1>1, <1>2, <1>4, CapabilityType
  <2>2. CapsRoundOf(a, caps, n + 1) = Append(caps, cap)
    BY <1>4 DEF CapsRoundOf
  <2> HIDE DEF cap
  <2> DEFINE new == Append(caps, cap)
  <2>3. /\ new \in Seq(Capabilities) /\ Len(new) = Len(caps) + 1
        /\ \A i \in DOMAIN caps : new[i] = caps[i]
        /\ new[Len(caps) + 1] = cap
        /\ DOMAIN new = 1 .. Len(caps) + 1 /\ DOMAIN caps = 1 .. Len(caps)
        /\ Len(caps) \in Nat /\ Len(caps) <= n
    BY <2>1 DEF CapsAfter
  <2> HIDE DEF new
  <2>4. \A i \in DOMAIN new : FromObject(a, new[i])
    BY <2>1, <2>3 DEF CapsAfter
  <2>5. new # <<>> /\ new[1] = Capability(a[1], 1)
    <3>1. CASE n = 0
      <4>1. Len(new) = 1 /\ new[1] = cap
        BY <2>3, <3>1
      <4>2. cap = Capability(a[1], 1)
        BY <3>1 DEF cap
      <4> QED BY <4>1, <4>2
    <3>2. CASE n > 0
      BY <2>3, <3>2 DEF CapsAfter
    <3> QED BY <1>1, <3>1, <3>2
  <2>6. ASSUME NEW k \in 1 .. n + 1, a[k].supply_type # "apdo"
        PROVE  \E i \in DOMAIN new : new[i] = Capability(a[k], k)
    <3>1. CASE k = n + 1
      BY <2>3, <3>1 DEF cap
    <3>2. CASE k \in 1 .. n
      <4>1. PICK i \in DOMAIN caps : caps[i] = Capability(a[k], k)
        BY <2>6, <3>2 DEF CapsAfter
      <4>2. i \in DOMAIN new /\ new[i] = caps[i]
        BY <2>3
      <4> QED BY <4>1, <4>2
    <3>3. k = n + 1 \/ k \in 1 .. n
      BY <1>1
    <3> QED BY <3>1, <3>2, <3>3
  <2>7. new \in Seq(Capabilities) /\ Len(new) <= n + 1
    BY <1>1, <2>3
  <2>8. CapsAfter(a, n + 1, new)
    BY <2>4, <2>5, <2>6, <2>7 DEF CapsAfter
  <2> QED BY <2>2, <2>8 DEF new
<1> QED BY <1>3, <1>4

LEMMA SourceCapsOf ==
  ASSUME NEW a \in Adverts
  PROVE  CapsAfter(a, Len(a), SourceCaps(a))
<1>1. Len(a) \in Nat
  BY AdvertsAssumption
<1>2. PICK f : UpTo(a, Len(a), f) /\ SourceCaps(a) = f[Len(a)]
  BY <1>1, SourceCapsUnfold
<1> DEFINE S == {n \in Nat : n <= Len(a) => CapsAfter(a, n, f[n])}
<1>3. 0 \in S
  BY <1>1, <1>2 DEF UpTo, CapsAfter
<1>4. ASSUME NEW n \in S PROVE n + 1 \in S
  <2> SUFFICES ASSUME n + 1 <= Len(a) PROVE CapsAfter(a, n + 1, f[n + 1])
    OBVIOUS
  <2>1. f[n + 1] = CapsRoundOf(a, f[n], n + 1)
    BY <1>1, <1>2 DEF UpTo
  <2>2. n \in 0 .. Len(a) - 1 /\ CapsAfter(a, n, f[n])
    BY <1>1
  <2> QED BY <2>1, <2>2, CapsRound
<1> HIDE DEF S
<1>5. S = Nat
  BY <1>3, <1>4, SetInduction DEF S
<1> QED BY <1>1, <1>2, <1>5 DEF S

-----------------------------------------------------------------------------
(* Requests *)

LEMMA LenOfNonEmpty == ASSUME NEW S, NEW s \in Seq(S), s # <<>> PROVE Len(s) \in Nat \ {0}
BY EmptySeq, LenProperties

LEMMA CapsType ==
  ASSUME NEW a \in Adverts
  PROVE  /\ SourceCaps(a) \in Seq(Capabilities) /\ Len(SourceCaps(a)) \in 1 .. 7
         /\ SourceCaps(a)[1] = Capability(a[1], 1)
         /\ \A i \in DOMAIN SourceCaps(a) : FromObject(a, SourceCaps(a)[i])
<1>1. CapsAfter(a, Len(a), SourceCaps(a)) /\ Len(a) \in 1 .. 7
  BY SourceCapsOf, AdvertsAssumption
<1>2. SourceCaps(a) \in Seq(Capabilities) /\ SourceCaps(a) # <<>> /\ Len(SourceCaps(a)) <= Len(a)
  BY <1>1 DEF CapsAfter
<1>3. Len(SourceCaps(a)) \in 1 .. 7
  <2> DEFINE n == Len(SourceCaps(a)) m == Len(a)
  <2>1. n \in Nat \ {0} /\ n <= m /\ m \in 1 .. 7
    BY <1>1, <1>2, LenOfNonEmpty
  <2> HIDE DEF n, m
  <2>2. n \in 1 .. 7
    BY <2>1
  <2> QED BY <2>2 DEF n
<1> QED BY <1>1, <1>2, <1>3 DEF CapsAfter

(* The limits of a capability are in the units of its object's fields. *)
SmallField == 0 .. 255
CurrentField == 0 .. 127

LEMMA SmallFields ==
  ASSUME NEW n \in Nat
  PROVE  (n <= 255 => n \in SmallField) /\ (n <= 127 => n \in CurrentField)
BY DEF SmallField, CurrentField

Limits(cap, L, C, l, h, c, volts, amps) ==
  /\ l \in L /\ h \in L /\ c \in C
  /\ cap.min_voltage = volts * l /\ cap.voltage = volts * h /\ cap.max_current = amps * c
FixedLimits(cap) == \E l, c : Limits(cap, Field, Field, l, l, c, 50, 10)
PpsLimits(cap)   == \E l, h, c : Limits(cap, SmallField, CurrentField, l, h, c, 100, 50)

LEMMA CapabilityValues ==
  ASSUME NEW pdo, NEW i
  PROVE  /\ pdo.supply_type = "pps" =>
              /\ Capability(pdo, i).min_voltage = pdo.low * 100
              /\ Capability(pdo, i).voltage = pdo.high * 100
              /\ Capability(pdo, i).max_current = pdo.current * 50
         /\ pdo.supply_type # "pps" =>
              /\ Capability(pdo, i).min_voltage = pdo.low * 50
              /\ pdo.supply_type = "fixed" => Capability(pdo, i).voltage = pdo.low * 50
              /\ Capability(pdo, i).max_current = pdo.current * 10
BY DEF Capability

LEMMA Multiples ==
  ASSUME NEW l \in Nat
  PROVE  l * 10 = 10 * l /\ l * 50 = 50 * l /\ l * 100 = 100 * l /\ (l > 0 => 50 * l > 0 /\ 100 * l > 0)
OBVIOUS

LEMMA CapabilityLimits ==
  ASSUME NEW a \in Adverts, NEW cap \in Capabilities, FromObject(a, cap)
  PROVE  /\ cap.min_voltage > 0
         /\ cap.supply_type = "fixed" => FixedLimits(cap)
         /\ cap.supply_type = "pps" => PpsLimits(cap)
<1> DEFINE pdo == a[cap.obj_pos]
<1>1. /\ pdo \in PowerDataObjects /\ cap = Capability(pdo, cap.obj_pos)
      /\ FieldsFit(pdo) /\ (pdo.supply_type # "apdo" => pdo.low > 0)
  BY AdvertsAssumption DEF FromObject
<1>2. PICK l, h, c \in Field :
        pdo.low = l /\ pdo.high = h /\ pdo.current = c
  BY <1>1, ObjectFields
<1> HIDE DEF pdo
<1>3. cap.supply_type = pdo.supply_type /\ pdo.supply_type # "apdo"
  BY <1>1 DEF Capability, Capabilities, Supplies
<1>4. l \in Nat /\ l > 0 /\ h \in Nat /\ c \in Nat
  BY <1>1, <1>2, <1>3 DEF Field
<1>5. CASE pdo.supply_type = "pps"
  <2> cap.min_voltage = l * 100 /\ cap.voltage = h * 100 /\ cap.max_current = c * 50
    BY ONLY <1>1, <1>2, <1>5, CapabilityValues
  <2>1. cap.min_voltage = 100 * l
    BY ONLY <1>4, Multiples, cap.min_voltage = l * 100
  <2>2. cap.voltage = 100 * h
    BY ONLY <1>4, Multiples, cap.voltage = h * 100
  <2>3. cap.max_current = 50 * c
    BY ONLY <1>4, Multiples, cap.max_current = c * 50
  <2>4. l <= 255 /\ h <= 255 /\ c <= 127
    BY <1>1, <1>2, <1>5 DEF FieldsFit
  <2>5. l \in SmallField /\ h \in SmallField /\ c \in CurrentField
    BY ONLY <1>4, <2>4, SmallFields
  <2>6. PpsLimits(cap)
    <3>1. Limits(cap, SmallField, CurrentField, l, h, c, 100, 50)
      BY ONLY <2>1, <2>2, <2>3, <2>5 DEF Limits
    <3> QED BY ONLY <3>1 DEF PpsLimits
  <2>7. cap.min_voltage > 0
    BY ONLY <1>4, <2>1, Multiples
  <2> QED BY <1>3, <1>5, <2>6, <2>7
<1>6. CASE pdo.supply_type # "pps"
  <2> /\ cap.min_voltage = l * 50 /\ cap.max_current = c * 10
      /\ cap.supply_type = "fixed" => cap.voltage = l * 50
    BY ONLY <1>1, <1>2, <1>3, <1>6, CapabilityValues
  <2>1. cap.min_voltage = 50 * l
    BY ONLY <1>4, Multiples, cap.min_voltage = l * 50
  <2>2. cap.supply_type = "fixed" => cap.voltage = 50 * l
    BY ONLY <1>4, Multiples, cap.supply_type = "fixed" => cap.voltage = l * 50
  <2>3. cap.max_current = 10 * c
    BY ONLY <1>4, Multiples, cap.max_current = c * 10
  <2>4. cap.supply_type = "fixed" => FixedLimits(cap)
    <3>1. cap.supply_type = "fixed" => Limits(cap, Field, Field, l, l, c, 50, 10)
      <4>1. l \in Field /\ c \in Field
        BY ONLY <1>2
      <4> QED BY ONLY <2>1, <2>2, <2>3, <4>1 DEF Limits
    <3> QED BY ONLY <3>1 DEF FixedLimits
  <2>5. cap.min_voltage > 0
    BY ONLY <1>4, <2>1, Multiples
  <2> QED BY <1>3, <1>6, <2>4, <2>5
<1> QED BY <1>5, <1>6

LEMMA MinOfPair == ASSUME NEW x \in Int, NEW y \in Int
                   PROVE  Min({x, y}) = IF x <= y THEN x ELSE y
BY DEF Min

(* Rounding to a multiple of step stays within limits that are multiples.  *)
LEMMA RoundedWithin ==
  ASSUME NEW x \in Nat, NEW step \in {10, 20, 50}, NEW most \in Nat,
         NEW l \in Nat, NEW h \in Nat, h <= most, l * step <= x, x <= h * step
  PROVE  /\ Rounded(x, step, most) \in Nat
         /\ l * step <= Rounded(x, step, most) /\ Rounded(x, step, most) <= h * step
<1> DEFINE q == (x + step \div 2) \div step
<1>1. q \in Nat /\ l <= q /\ q <= h
  <2>1. CASE step = 10 BY <2>1
  <2>2. CASE step = 20 BY <2>2
  <2>3. CASE step = 50 BY <2>3
  <2> QED BY <2>1, <2>2, <2>3
<1> HIDE DEF q
<1>2. Min({q, most}) = q
  BY <1>1, MinOfPair
<1>3. Rounded(x, step, most) = q * step
  BY <1>2 DEF Rounded, q
<1> QED
  <2>1. CASE step = 10 BY <1>1, <1>3, <2>1
  <2>2. CASE step = 20 BY <1>1, <1>3, <2>2
  <2>3. CASE step = 50 BY <1>1, <1>3, <2>3
  <2> QED BY <2>1, <2>2, <2>3

CanBeAsked(cap, v, c) ==
  cap.supply_type \in {"fixed", "pps"} /\ InRange(cap, v) /\ c \in 25 .. cap.max_current

LEMMA FixedRequest ==
  ASSUME NEW a \in Adverts, NEW cap \in Capabilities, FromObject(a, cap),
         NEW v \in Nat, NEW c \in Nat, CanBeAsked(cap, v, c), cap.supply_type = "fixed"
  PROVE  /\ Request(cap, v, c) = [supply_type |-> "fixed", obj_pos |-> cap.obj_pos, voltage |-> v,
                                  current |-> Rounded(c, 10, 1023)]
         /\ v = cap.voltage /\ v > 0
         /\ Rounded(c, 10, 1023) \in 0 .. cap.max_current
<1>1. PICK l, k \in Field :
        cap.min_voltage = 50 * l /\ cap.voltage = 50 * l /\ cap.max_current = 10 * k
  BY CapabilityLimits DEF FixedLimits, Limits
<1>2. v = 50 * l
  BY <1>1 DEF CanBeAsked, InRange, Field
<1>3. v > 0
  BY <1>1, <1>2, CapabilityLimits
<1>4. k \in Nat /\ k <= 1023 /\ c <= 10 * k
  BY <1>1 DEF CanBeAsked, Field
<1>5. Rounded(c, 10, 1023) \in Nat /\ Rounded(c, 10, 1023) <= 10 * k
  BY <1>4, RoundedWithin
<1> QED BY <1>1, <1>2, <1>3, <1>5 DEF Request

LEMMA PpsRequest ==
  ASSUME NEW a \in Adverts, NEW cap \in Capabilities, FromObject(a, cap),
         NEW v \in Nat, NEW c \in Nat, CanBeAsked(cap, v, c), cap.supply_type = "pps"
  PROVE  /\ Request(cap, v, c) = [supply_type |-> "pps", obj_pos |-> cap.obj_pos,
                                  voltage |-> Rounded(v, 20, 2047), current |-> Rounded(c, 50, 127)]
         /\ InRange(cap, Rounded(v, 20, 2047)) /\ v > 0 /\ v <= 25500
         /\ Rounded(c, 50, 127) \in 0 .. cap.max_current
<1>1. PICK l, h \in SmallField, k \in CurrentField :
        cap.min_voltage = 100 * l /\ cap.voltage = 100 * h /\ cap.max_current = 50 * k
  BY CapabilityLimits DEF PpsLimits, Limits
<1>2. 100 * l <= v /\ v <= 100 * h /\ l \in 0 .. 255 /\ h \in 0 .. 255
  BY <1>1 DEF CanBeAsked, InRange, SmallField
<1>3. 100 * l > 0
  BY <1>1, CapabilityLimits
<1>4. k \in Nat /\ k <= 127 /\ c <= 50 * k
  BY <1>1 DEF CanBeAsked, CurrentField
<1>5. Rounded(c, 50, 127) \in Nat /\ Rounded(c, 50, 127) <= 50 * k
  BY <1>4, RoundedWithin
<1>6. /\ Rounded(v, 20, 2047) \in Nat
      /\ 100 * l <= Rounded(v, 20, 2047) /\ Rounded(v, 20, 2047) <= 100 * h
  <2>1. /\ 5 * l \in Nat /\ 5 * h \in Nat /\ 5 * h <= 2047
        /\ (5 * l) * 20 <= v /\ v <= (5 * h) * 20
    BY <1>2
  <2>2. /\ Rounded(v, 20, 2047) \in Nat
        /\ (5 * l) * 20 <= Rounded(v, 20, 2047) /\ Rounded(v, 20, 2047) <= (5 * h) * 20
    BY <2>1, RoundedWithin
  <2> QED BY <1>2, <2>2
<1>7. InRange(cap, Rounded(v, 20, 2047))
  BY <1>1, <1>2, <1>6 DEF InRange
<1>8. v > 0 /\ v <= 25500
  BY <1>2, <1>3
<1>9. Rounded(c, 50, 127) \in 0 .. cap.max_current
  BY <1>1, <1>4, <1>5
<1> QED BY <1>7, <1>8, <1>9 DEF Request

LEMMA RoundedExact ==
  ASSUME NEW v \in Nat, NEW q \in Nat, q <= 2047, v = q * 20
  PROVE  Rounded(v, 20, 2047) = v
<1>1. Rounded(v, 20, 2047) \in Nat /\ q * 20 <= Rounded(v, 20, 2047) /\ Rounded(v, 20, 2047) <= q * 20
  BY RoundedWithin
<1> QED BY <1>1

(* A request for an allowed voltage asks for an allowed voltage. *)
LEMMA RoundedAllowed ==
  ASSUME desired_mode \in Modes, NEW v \in Nat, v <= 25500, Allowed(v)
  PROVE  Allowed(Rounded(v, 20, 2047))
<1>1. phase # "loop" => Rounded(v, 20, 2047) = 5000
  <2> SUFFICES ASSUME v = 5000 PROVE Rounded(v, 20, 2047) = 5000
    BY DEF Allowed
  <2>1. v \in Nat /\ 250 \in Nat /\ 250 <= 2047 /\ v = 250 * 20
    OBVIOUS
  <2>2. Rounded(v, 20, 2047) = v
    BY ONLY <2>1, RoundedExact
  <2> QED BY <2>2
<1>2. IsFixedMode => Rounded(v, 20, 2047) \in {5000, desired_mode * 1000}
  <2> SUFFICES ASSUME v \in {5000, desired_mode * 1000} PROVE Rounded(v, 20, 2047) = v
    BY DEF Allowed
  <2>1. desired_mode \in {0, 9, 12, 15, 20, 100}
    BY ModesAssumption DEF voltages
  <2>2. v = 5000 \/ v = 0 \/ v = 9000 \/ v = 12000 \/ v = 15000 \/ v = 20000
    BY <2>1
  <2>3. \E q \in Nat : q <= 2047 /\ v = q * 20
    <3> DEFINE Q == {0, 250, 450, 600, 750, 1000}
    <3>1. \A q \in Q : q \in Nat /\ q <= 2047
      OBVIOUS
    <3>2. \E q \in Q : v = q * 20
      BY ONLY <2>2
    <3> HIDE DEF Q
    <3> QED BY ONLY <3>1, <3>2
  <2>4. PICK q \in Nat : q <= 2047 /\ v = q * 20
    BY <2>3
  <2>5. Rounded(v, 20, 2047) = v
    BY ONLY <2>4, RoundedExact, v \in Nat
  <2> QED BY <2>5
<1>3. desired_mode = 100 => Rounded(v, 20, 2047) <= 20000
  <2> SUFFICES ASSUME v <= 20000 PROVE Rounded(v, 20, 2047) <= 20000
    BY DEF Allowed
  <2> DEFINE q == 1000
             max == 2047
             d == 20
  <2>1. /\ q \in Nat /\ max \in Nat /\ 0 \in Nat /\ d \in {10, 20, 50}
        /\ q <= max /\ 0 * d <= v /\ v <= q * d
    OBVIOUS
  <2>2. Rounded(v, d, max) <= q * d
    <3> HIDE DEF q, max, d
    <3> QED BY ONLY v \in Nat, <2>1, RoundedWithin
  <2> QED BY <2>2
<1> QED BY <1>1, <1>2, <1>3 DEF Allowed

(* t is s with at most one more request, for voltage v. *)
Sends(s, t, v) ==
  \/ t = s
  \/ \E cap \in Range(s.source_caps), c \in Nat :
       /\ CanBeAsked(cap, v, c)
       /\ t = [s EXCEPT !.requested_voltage = Request(cap, v, c).voltage,
                       !.requested_max_current = Request(cap, v, c).current,
                       !.selected_pps_index = t.selected_pps_index,
                       !.pps_due = t.pps_due,
                       !.tx = Append(@, Request(cap, v, c))]
       /\ t.selected_pps_index \in 0 .. 7 /\ t.pps_due \in BOOLEAN

LEMMA CapOfSink ==
  ASSUME NEW s \in SinkRecords, NEW i \in DOMAIN s.source_caps
  PROVE  /\ s.source_caps[i] \in Capabilities /\ i \in 1 .. 7
         /\ \E a \in Adverts : s.source_caps = SourceCaps(a) /\ FromObject(a, s.source_caps[i])
<1>1. s.source_caps # <<>>
  OBVIOUS
<1>2. PICK a \in Adverts : s.source_caps = SourceCaps(a)
  BY <1>1 DEF SinkRecords
<1>3. /\ SourceCaps(a) \in Seq(Capabilities) /\ Len(SourceCaps(a)) \in 1 .. 7
      /\ FromObject(a, SourceCaps(a)[i])
  BY <1>2, CapsType
<1>4. i \in 1 .. Len(SourceCaps(a))
  BY <1>2, <1>3
<1> QED BY <1>2, <1>3, <1>4

LEMMA RequestFromSends ==
  ASSUME NEW s \in SinkRecords, NEW index, NEW v \in Nat, NEW c
  PROVE  Sends(s, RequestPowerFromCapability(s, index, v, c), v)
<1> DEFINE t == RequestPowerFromCapability(s, index, v, c)
           cap == s.source_caps[index]
<1>1. CASE ~CanRequest(s, index, v, c)
  BY <1>1 DEF RequestPowerFromCapability, Sends
<1>2. CASE CanRequest(s, index, v, c)
  <2>1. cap \in Range(s.source_caps) /\ cap \in Capabilities /\ index \in 1 .. 7
    BY <1>2, CapOfSink DEF CanRequest, Range
  <2>2. CanBeAsked(cap, v, c)
    BY <1>2 DEF CanRequest, CanBeAsked
  <2>3. c \in Nat
    BY <2>1, <2>2 DEF CanBeAsked, Capabilities
  <2>4. t = [s EXCEPT !.requested_voltage = Request(cap, v, c).voltage,
                      !.requested_max_current = Request(cap, v, c).current,
                      !.selected_pps_index = PpsIndex(s, cap, index),
                      !.pps_due = @ /\ cap.supply_type # "pps",
                      !.tx = Append(@, Request(cap, v, c))]
    BY <1>2 DEF RequestPowerFromCapability
  <2>5. /\ t.selected_pps_index = PpsIndex(s, cap, index)
        /\ t.pps_due = (s.pps_due /\ cap.supply_type # "pps")
    BY <2>4 DEF SinkRecords
  <2>6. PpsIndex(s, cap, index) \in 0 .. 7
    BY <2>1 DEF PpsIndex
  <2>7. t = [s EXCEPT !.requested_voltage = Request(cap, v, c).voltage,
                      !.requested_max_current = Request(cap, v, c).current,
                      !.selected_pps_index = t.selected_pps_index,
                      !.pps_due = t.pps_due,
                      !.tx = Append(@, Request(cap, v, c))]
    BY <2>4, <2>5
  <2> QED BY <2>1, <2>2, <2>3, <2>5, <2>6, <2>7 DEF Sends
<1> QED BY <1>1, <1>2

(* The request that makes t of s, and what is known of it *)
Sent(s, t, r) ==
  /\ t = [s EXCEPT !.requested_voltage = r.voltage, !.requested_max_current = r.current,
                   !.selected_pps_index = t.selected_pps_index, !.pps_due = t.pps_due,
                   !.tx = Append(@, r)]
  /\ t.selected_pps_index \in 0 .. 7 /\ t.pps_due \in BOOLEAN

(* Capability cap, of an object with its position, offers what r asks for. *)
Covers(cap, r) ==
  /\ r.obj_pos = cap.obj_pos /\ r.supply_type = cap.supply_type
  /\ InRange(cap, r.voltage) /\ r.current <= cap.max_current

LEMMA RequestCovered ==
  ASSUME NEW a \in Adverts, NEW cap \in Capabilities, FromObject(a, cap),
         NEW v \in Nat, NEW c \in Nat, CanBeAsked(cap, v, c)
  PROVE  LET r == Request(cap, v, c)
         IN  /\ r \in Asked /\ Covers(cap, r) /\ v > 0
             /\ r.voltage = v \/ (r.voltage = Rounded(v, 20, 2047) /\ v <= 25500)
<1>1. cap.obj_pos \in 1 .. 7 /\ cap.voltage \in Nat /\ cap.min_voltage \in Nat /\ cap.max_current \in Nat
  BY DEF Capabilities
<1>2. CASE cap.supply_type = "fixed"
  <2> DEFINE w == Rounded(c, 10, 1023)
  <2>1. /\ Request(cap, v, c) = [supply_type |-> "fixed", obj_pos |-> cap.obj_pos, voltage |-> v,
                                 current |-> w]
        /\ v = cap.voltage /\ v > 0 /\ w \in 0 .. cap.max_current
    BY <1>2, FixedRequest
  <2>2. InRange(cap, v)
    BY DEF CanBeAsked
  <2> HIDE DEF w
  <2> QED BY <1>1, <1>2, <2>1, <2>2 DEF Asked, Covers
<1>3. CASE cap.supply_type = "pps"
  <2> DEFINE w == Rounded(c, 50, 127)
             u == Rounded(v, 20, 2047)
  <2>1. /\ Request(cap, v, c) = [supply_type |-> "pps", obj_pos |-> cap.obj_pos, voltage |-> u,
                                 current |-> w]
        /\ InRange(cap, u) /\ v > 0 /\ v <= 25500 /\ w \in 0 .. cap.max_current
    BY <1>3, PpsRequest
  <2> HIDE DEF w, u
  <2>2. u \in Nat
    BY <1>1, <2>1 DEF InRange
  <2>3. Request(cap, v, c).voltage = Rounded(v, 20, 2047)
    BY <2>1 DEF u
  <2>4. Request(cap, v, c) \in Asked /\ Covers(cap, Request(cap, v, c))
    BY <1>1, <1>3, <2>1, <2>2 DEF Asked, Covers
  <2> QED BY <2>1, <2>3, <2>4
<1> QED BY <1>2, <1>3 DEF CanBeAsked

LEMMA SendsOne ==
  ASSUME NEW s \in SinkRecords, NEW t, NEW v \in Nat, Sends(s, t, v), t # s
  PROVE  \E r \in Asked :
           /\ Sent(s, t, r) /\ \E cap \in Range(s.source_caps) : Covers(cap, r)
           /\ v > 0 /\ (r.voltage = v \/ (r.voltage = Rounded(v, 20, 2047) /\ v <= 25500))
<1>1. PICK cap \in Range(s.source_caps), c \in Nat :
         /\ CanBeAsked(cap, v, c)
         /\ t = [s EXCEPT !.requested_voltage = Request(cap, v, c).voltage,
                         !.requested_max_current = Request(cap, v, c).current,
                         !.selected_pps_index = t.selected_pps_index,
                         !.pps_due = t.pps_due,
                         !.tx = Append(@, Request(cap, v, c))]
         /\ t.selected_pps_index \in 0 .. 7 /\ t.pps_due \in BOOLEAN
  BY DEF Sends
<1>2. PICK i \in DOMAIN s.source_caps : cap = s.source_caps[i]
  BY DEF Range
<1>3. PICK a \in Adverts : FromObject(a, cap)
  BY <1>2, CapOfSink
<1>4. cap \in Capabilities
  BY <1>2, CapOfSink
<1>5. LET r == Request(cap, v, c)
      IN  /\ r \in Asked /\ Covers(cap, r) /\ v > 0
          /\ r.voltage = v \/ (r.voltage = Rounded(v, 20, 2047) /\ v <= 25500)
  BY <1>1, <1>3, <1>4, RequestCovered
<1>6. Sent(s, t, Request(cap, v, c))
  BY <1>1 DEF Sent
<1> QED BY <1>5, <1>6

SinkRecord(caps, v, c, av, ac, i, due, q) ==
  [source_caps |-> caps, requested_voltage |-> v, requested_max_current |-> c,
   active_voltage |-> av, active_max_current |-> ac, selected_pps_index |-> i,
   pps_due |-> due, tx |-> q]

LEMMA SinkRecordType ==
  ASSUME NEW caps \in {<<>>} \cup {SourceCaps(a) : a \in Adverts},
         NEW v \in Nat, NEW c \in Nat, NEW av \in Nat, NEW ac \in Nat,
         NEW i \in 0 .. 7, NEW due \in BOOLEAN, NEW q \in Seq(Asked)
  PROVE  SinkRecord(caps, v, c, av, ac, i, due, q) \in SinkRecords
BY Zenon DEF SinkRecords, SinkRecord

LEMMA SentFields ==
  ASSUME NEW s \in SinkRecords, NEW t, NEW r \in Asked, Sent(s, t, r)
  PROVE  /\ t \in SinkRecords
         /\ t.source_caps = s.source_caps /\ t.active_voltage = s.active_voltage
         /\ t.active_max_current = s.active_max_current
         /\ t.requested_voltage = r.voltage /\ t.tx = Append(s.tx, r)
<1>1. r.voltage \in Nat /\ r.current \in Nat /\ Append(s.tx, r) \in Seq(Asked)
  BY DEF Asked, SinkRecords
<1>2. s = [source_caps |-> s.source_caps, requested_voltage |-> s.requested_voltage,
           requested_max_current |-> s.requested_max_current, active_voltage |-> s.active_voltage,
           active_max_current |-> s.active_max_current, selected_pps_index |-> s.selected_pps_index,
           pps_due |-> s.pps_due, tx |-> s.tx]
  BY DEF SinkRecords
<1>3. t = [source_caps |-> s.source_caps, requested_voltage |-> r.voltage,
           requested_max_current |-> r.current, active_voltage |-> s.active_voltage,
           active_max_current |-> s.active_max_current, selected_pps_index |-> t.selected_pps_index,
           pps_due |-> t.pps_due, tx |-> Append(s.tx, r)]
  BY <1>2 DEF Sent
<1>4. t.selected_pps_index \in 0 .. 7 /\ t.pps_due \in BOOLEAN
  BY DEF Sent
<1>5. t \in SinkRecords
  <2>1. /\ s.source_caps \in {<<>>} \cup {SourceCaps(a) : a \in Adverts}
        /\ s.active_voltage \in Nat /\ s.active_max_current \in Nat
    BY DEF SinkRecords
  <2> DEFINE i == t.selected_pps_index
             due == t.pps_due
             q == Append(s.tx, r)
  <2>2. i \in 0 .. 7 /\ due \in BOOLEAN /\ q \in Seq(Asked)
    BY <1>1, <1>4
  <2> HIDE DEF i, due, q
  <2>3. SinkRecord(s.source_caps, r.voltage, r.current, s.active_voltage, s.active_max_current,
                   i, due, q) \in SinkRecords
    BY ONLY <1>1, <2>1, <2>2, SinkRecordType, Zenon
  <2> QED BY <1>3, <2>3 DEF SinkRecord, i, due, q
<1> QED BY <1>3, <1>5

(* What the program may rely on when it has asked for voltage v or kept    *)
(* quiet *)
Asks(s, t, v) ==
  /\ t \in SinkRecords
  /\ t.source_caps = s.source_caps /\ t.active_voltage = s.active_voltage
  /\ t.active_max_current = s.active_max_current
  /\ \/ t = s
     \/ \E r \in Asked : /\ t.requested_voltage = r.voltage /\ t.tx = Append(s.tx, r)
                         /\ \E cap \in Range(s.source_caps) : Covers(cap, r)
                         /\ v = 0 \/ Allowed(v) => Allowed(r.voltage)

LEMMA SendsAsks ==
  ASSUME NEW s \in SinkRecords, NEW t, NEW v \in Nat, Sends(s, t, v), desired_mode \in Modes
  PROVE  Asks(s, t, v)
<1>1. CASE t = s
  BY <1>1 DEF Asks
<1>2. CASE t # s
  <2>1. PICK r \in Asked :
           /\ Sent(s, t, r) /\ \E cap \in Range(s.source_caps) : Covers(cap, r)
           /\ v > 0 /\ (r.voltage = v \/ (r.voltage = Rounded(v, 20, 2047) /\ v <= 25500))
    BY <1>2, SendsOne
  <2>2. v = 0 \/ Allowed(v) => Allowed(r.voltage)
    BY <2>1, RoundedAllowed
  <2>3. /\ t \in SinkRecords
        /\ t.source_caps = s.source_caps /\ t.active_voltage = s.active_voltage
        /\ t.active_max_current = s.active_max_current
        /\ t.requested_voltage = r.voltage /\ t.tx = Append(s.tx, r)
    BY <2>1, SentFields
  <2> QED BY <2>1, <2>2, <2>3 DEF Asks
<1> QED BY <1>1, <1>2

LEMMA RequestPowerAsks ==
  ASSUME NEW s \in SinkRecords, NEW v \in Nat, desired_mode \in Modes
  PROVE  Asks(s, RequestPower(s, v), v)
<1>1. \/ RequestPower(s, v) = s
      \/ \E index, c : RequestPower(s, v) = RequestPowerFromCapability(s, index, v, c)
  BY DEF RequestPower
<1>2. Sends(s, s, v)
  BY DEF Sends
<1>3. Sends(s, RequestPower(s, v), v)
  BY <1>1, <1>2, RequestFromSends
<1> QED BY <1>3, SendsAsks

LEMMA KeepAliveAsks ==
  ASSUME NEW s \in SinkRecords, desired_mode \in Modes
  PROVE  Asks(s, KeepAlive(s), s.active_voltage)
<1>1. s.active_voltage \in Nat
  BY DEF SinkRecords
<1>2. \/ KeepAlive(s) = s
      \/ \E index, c : KeepAlive(s) = RequestPowerFromCapability(s, index, s.active_voltage, c)
  BY DEF KeepAlive
<1>3. Sends(s, s, s.active_voltage)
  BY DEF Sends
<1>4. Sends(s, KeepAlive(s), s.active_voltage)
  BY <1>1, <1>2, <1>3, RequestFromSends
<1> QED BY <1>1, <1>4, SendsAsks

-----------------------------------------------------------------------------
(* Events and callbacks *)

LEMMA SinkFields ==
  ASSUME NEW s \in SinkRecords
  PROVE  \E caps \in {<<>>} \cup {SourceCaps(x) : x \in Adverts}, v, c, av, ac \in Nat,
            i \in 0 .. 7, due \in BOOLEAN, q \in Seq(Asked) :
           s = SinkRecord(caps, v, c, av, ac, i, due, q)
<1>1. s = SinkRecord(s.source_caps, s.requested_voltage, s.requested_max_current,
                     s.active_voltage, s.active_max_current, s.selected_pps_index,
                     s.pps_due, s.tx)
  BY DEF SinkRecords, SinkRecord
<1>2. /\ s.source_caps \in {<<>>} \cup {SourceCaps(x) : x \in Adverts}
      /\ s.requested_voltage \in Nat /\ s.requested_max_current \in Nat
      /\ s.active_voltage \in Nat /\ s.active_max_current \in Nat
      /\ s.selected_pps_index \in 0 .. 7 /\ s.pps_due \in BOOLEAN /\ s.tx \in Seq(Asked)
  BY DEF SinkRecords
<1> QED BY ONLY <1>1, <1>2, Zenon

(* What an event may do to the sink before the program is told, and what   *)
(* the source and the timer do to it.                                      *)
LEMMA CapsReceived ==
  ASSUME NEW s \in SinkRecords, NEW a \in Adverts
  PROVE  LET t == [s EXCEPT !.source_caps = SourceCaps(a)]
         IN  /\ t \in SinkRecords
             /\ t.source_caps = SourceCaps(a)
             /\ t.active_voltage = s.active_voltage
             /\ t.requested_voltage = s.requested_voltage
             /\ t.tx = s.tx
<1>1. PICK caps \in {<<>>} \cup {SourceCaps(x) : x \in Adverts}, v, c, av, ac \in Nat,
          i \in 0 .. 7, due \in BOOLEAN, q \in Seq(Asked) :
        s = SinkRecord(caps, v, c, av, ac, i, due, q)
  BY SinkFields
<1> DEFINE t == SinkRecord(SourceCaps(a), v, c, av, ac, i, due, q)
<1>2. [s EXCEPT !.source_caps = SourceCaps(a)] = t
  BY <1>1 DEF SinkRecord
<1>3. t \in SinkRecords
  <2>1. SourceCaps(a) \in {<<>>} \cup {SourceCaps(x) : x \in Adverts}
    BY <1>1
  <2> QED BY <2>1, SinkRecordType
<1> QED BY <1>1, <1>2, <1>3 DEF SinkRecord

LEMMA ReadyReceived ==
  ASSUME NEW s \in SinkRecords
  PROVE  LET t == PowerReady(s)
         IN  /\ t \in SinkRecords
             /\ t.source_caps = s.source_caps
             /\ t.active_voltage = s.requested_voltage
             /\ t.requested_voltage = 0
             /\ t.tx = s.tx
<1>1. PICK caps \in {<<>>} \cup {SourceCaps(x) : x \in Adverts}, v, c, av, ac \in Nat,
          i \in 0 .. 7, due \in BOOLEAN, q \in Seq(Asked) :
        s = SinkRecord(caps, v, c, av, ac, i, due, q)
  BY SinkFields
<1>2. PICK zero \in Nat : zero = 0
  OBVIOUS
<1> DEFINE t == SinkRecord(caps, zero, zero, v, c, i, due, q)
<1>3. PowerReady(s) = [s EXCEPT !.active_voltage = s.requested_voltage, !.active_max_current = s.requested_max_current,
                           !.requested_voltage = zero, !.requested_max_current = zero]
  BY <1>2 DEF PowerReady
<1>4. PowerReady(s) = t
  BY <1>1, <1>3 DEF SinkRecord
<1>5. t \in SinkRecords
  BY SinkRecordType
<1> QED BY <1>1, <1>2, <1>4, <1>5 DEF SinkRecord

LEMMA RejectReceived ==
  ASSUME NEW s \in SinkRecords
  PROVE  LET t == [s EXCEPT !.requested_voltage = 0, !.requested_max_current = 0, !.selected_pps_index = 0]
         IN  /\ t \in SinkRecords
             /\ t.source_caps = s.source_caps
             /\ t.active_voltage = s.active_voltage
             /\ t.requested_voltage = 0
             /\ t.tx = s.tx
<1>1. PICK caps \in {<<>>} \cup {SourceCaps(x) : x \in Adverts}, v, c, av, ac \in Nat,
          i \in 0 .. 7, due \in BOOLEAN, q \in Seq(Asked) :
        s = SinkRecord(caps, v, c, av, ac, i, due, q)
  BY SinkFields
<1>2. PICK zero \in Nat : zero = 0
  OBVIOUS
<1> DEFINE none == zero
           t == SinkRecord(caps, zero, zero, av, ac, none, due, q)
<1>3. none \in 0 .. 7
  BY <1>2
<1> HIDE DEF none
<1>4. [s EXCEPT !.requested_voltage = zero, !.requested_max_current = zero,
                !.selected_pps_index = none] = t
  <2> DEFINE u == SinkRecord(caps, zero, c, av, ac, i, due, q)
             w == SinkRecord(caps, zero, zero, av, ac, i, due, q)
  <2>1. [s EXCEPT !.requested_voltage = zero] = u
    BY <1>1 DEF SinkRecord
  <2>2. [u EXCEPT !.requested_max_current = zero] = w
    BY DEF SinkRecord
  <2>3. [w EXCEPT !.selected_pps_index = none] = t
    BY DEF SinkRecord
  <2> HIDE DEF t, u, w
  <2>4. [s EXCEPT !.requested_voltage = zero, !.requested_max_current = zero,
                  !.selected_pps_index = none]
          = [[[s EXCEPT !.requested_voltage = zero] EXCEPT !.requested_max_current = zero]
               EXCEPT !.selected_pps_index = none]
    BY ONLY TRUE
  <2> QED BY ONLY <2>1, <2>2, <2>3, <2>4, Zenon
<1>5. [s EXCEPT !.requested_voltage = 0, !.requested_max_current = 0, !.selected_pps_index = 0] = t
  BY ONLY <1>2, <1>4, Zenon DEF none
<1>6. t \in SinkRecords
  BY <1>3, SinkRecordType
<1> QED BY <1>1, <1>2, <1>5, <1>6 DEF SinkRecord

LEMMA DetachHandled ==
  ASSUME NEW s \in SinkRecords, NEW l, l # "up"
  PROVE  LET t == UpdateProtocol(s, l)
         IN  /\ t \in SinkRecords /\ t.source_caps = <<>> /\ t.active_voltage = 5000
             /\ t.requested_voltage = s.requested_voltage /\ t.tx = s.tx
<1>1. PICK caps \in {<<>>} \cup {SourceCaps(x) : x \in Adverts}, v, c, av, ac \in Nat,
          i \in 0 .. 7, due \in BOOLEAN, q \in Seq(Asked) :
        s = SinkRecord(caps, v, c, av, ac, i, due, q)
  BY SinkFields
<1>2. PICK none \in {<<>>} \cup {SourceCaps(x) : x \in Adverts}, volts, amps \in Nat :
        none = <<>> /\ volts = 5000 /\ amps = 900
  OBVIOUS
<1> DEFINE t == SinkRecord(none, v, c, volts, amps, i, due, q)
<1>3. UpdateProtocol(s, l) = [s EXCEPT !.active_voltage = volts, !.active_max_current = amps,
                                       !.source_caps = none]
  BY <1>2 DEF UpdateProtocol
<1>4. UpdateProtocol(s, l) = t
  BY <1>1, <1>3 DEF SinkRecord
<1>5. t \in SinkRecords
  BY SinkRecordType
<1> QED BY <1>1, <1>2, <1>4, <1>5 DEF SinkRecord

LEMMA RequestTaken ==
  ASSUME NEW s \in SinkRecords, s.tx # <<>>
  PROVE  LET t == [s EXCEPT !.tx = Tail(@)]
         IN  /\ t \in SinkRecords /\ t.source_caps = s.source_caps
             /\ t.active_voltage = s.active_voltage
             /\ t.requested_voltage = s.requested_voltage /\ t.tx = Tail(s.tx)
<1>1. PICK caps \in {<<>>} \cup {SourceCaps(x) : x \in Adverts}, v, c, av, ac \in Nat,
          i \in 0 .. 7, due \in BOOLEAN, q \in Seq(Asked) :
        s = SinkRecord(caps, v, c, av, ac, i, due, q)
  BY SinkFields
<1>2. PICK rest \in Seq(Asked) : rest = Tail(s.tx)
  <2>1. s.tx = q
    BY <1>1 DEF SinkRecord
  <2>2. Tail(q) \in Seq(Asked)
    BY <2>1
  <2> QED BY <2>1, <2>2
<1> DEFINE t == SinkRecord(caps, v, c, av, ac, i, due, rest)
<1>3. [s EXCEPT !.tx = rest] = t
  BY <1>1 DEF SinkRecord
<1>4. t \in SinkRecords
  BY SinkRecordType
<1> QED BY <1>1, <1>2, <1>3, <1>4 DEF SinkRecord

LEMMA RequestsDropped ==
  ASSUME NEW s \in SinkRecords
  PROVE  LET t == [s EXCEPT !.tx = <<>>]
         IN  /\ t \in SinkRecords
             /\ t.source_caps = s.source_caps
             /\ t.active_voltage = s.active_voltage
             /\ t.requested_voltage = s.requested_voltage
             /\ t.tx = <<>>
<1>1. PICK caps \in {<<>>} \cup {SourceCaps(x) : x \in Adverts}, v, c, av, ac \in Nat,
          i \in 0 .. 7, due \in BOOLEAN, q \in Seq(Asked) :
        s = SinkRecord(caps, v, c, av, ac, i, due, q)
  BY SinkFields
<1> DEFINE t == SinkRecord(caps, v, c, av, ac, i, due, <<>>)
<1>2. [s EXCEPT !.tx = <<>>] = t
  BY <1>1 DEF SinkRecord
<1>3. t \in SinkRecords
  <2>1. <<>> \in Seq(Asked)
    BY <1>1
  <2> QED BY <2>1, SinkRecordType
<1> QED BY <1>1, <1>2, <1>3 DEF SinkRecord

LEMMA TimerExpired ==
  ASSUME NEW s \in SinkRecords, NEW expired \in BOOLEAN
  PROVE  LET t == [s EXCEPT !.pps_due = expired]
         IN  /\ t \in SinkRecords
             /\ t.source_caps = s.source_caps
             /\ t.active_voltage = s.active_voltage
             /\ t.requested_voltage = s.requested_voltage
             /\ t.tx = s.tx
<1>1. PICK caps \in {<<>>} \cup {SourceCaps(x) : x \in Adverts}, v, c, av, ac \in Nat,
          i \in 0 .. 7, due \in BOOLEAN, q \in Seq(Asked) :
        s = SinkRecord(caps, v, c, av, ac, i, due, q)
  BY SinkFields
<1> DEFINE t == SinkRecord(caps, v, c, av, ac, i, expired, q)
<1>2. [s EXCEPT !.pps_due = expired] = t
  BY <1>1 DEF SinkRecord
<1>3. t \in SinkRecords
  BY SinkRecordType
<1> QED BY <1>1, <1>2, <1>3 DEF SinkRecord

(* The two kinds of event *)
LEMMA MessageOfSource ==
  ASSUME NEW m \in SourceMessages
  PROVE  /\ IsMessage(m) /\ m # StateChanged
         /\ m.type \in {"source_capabilities", "accept", "reject", "wait", "ps_ready"}
         /\ IsAdvert(m) <=> m.type = "source_capabilities"
         /\ IsAdvert(m) => m.objs \in Adverts
<1>1. CASE \E a \in Adverts : m = Message("source_capabilities", a)
  BY <1>1 DEF Message, IsMessage, StateChanged, IsAdvert
<1>2. CASE \E type \in {"accept", "reject", "wait", "ps_ready"} : m = Message(type, <<>>)
  BY <1>2 DEF Message, IsMessage, StateChanged, IsAdvert
<1> QED BY <1>1, <1>2 DEF SourceMessages

LEMMA StateChangedIsNoMessage == ~IsMessage(StateChanged) /\ ~IsAdvert(StateChanged)
BY DEF StateChanged, IsMessage, IsAdvert

LEMMA AdvertHandled ==
  ASSUME NEW s \in SinkRecords, NEW m \in SourceMessages, IsAdvert(m)
  PROVE  LET t == HandleMsg(s, m)
         IN  /\ t \in SinkRecords /\ t.source_caps = SourceCaps(m.objs)
             /\ t.active_voltage = s.active_voltage
             /\ t.requested_voltage = s.requested_voltage /\ t.tx = s.tx
             /\ CallbackOf(m) = "source_caps_changed"
<1>1. m.type = "source_capabilities" /\ m.objs \in Adverts
  BY MessageOfSource
<1>2. HandleMsg(s, m) = [s EXCEPT !.source_caps = SourceCaps(m.objs)]
  BY <1>1 DEF HandleMsg
<1>3. CallbackOf(m) = "source_caps_changed"
  BY <1>1 DEF CallbackOf
<1> QED BY <1>1, <1>2, <1>3, CapsReceived

LEMMA AnswerHandled ==
  ASSUME NEW s \in SinkRecords, NEW m \in SourceMessages, ~IsAdvert(m)
  PROVE  LET t == HandleMsg(s, m)
         IN  /\ t \in SinkRecords /\ t.source_caps = s.source_caps
             /\ \/ t.active_voltage = s.active_voltage /\ t.requested_voltage = s.requested_voltage
                \/ t.active_voltage = s.active_voltage /\ t.requested_voltage = 0
                \/ /\ t.active_voltage = s.requested_voltage /\ t.requested_voltage = 0
                   /\ CallbackOf(m) = "power_ready"
             /\ t.tx = s.tx /\ CallbackOf(m) \notin {"source_caps_changed", "protocol_changed"}
<1>1. m.type \in {"accept", "reject", "wait", "ps_ready"}
  BY MessageOfSource
<1>2. CASE m.type = "ps_ready"
  <2>1. HandleMsg(s, m) = PowerReady(s) /\ CallbackOf(m) = "power_ready"
    BY <1>2 DEF HandleMsg, CallbackOf
  <2> QED BY <2>1, ReadyReceived
<1>3. CASE m.type = "reject"
  <2>1. HandleMsg(s, m) = [s EXCEPT !.requested_voltage = 0, !.requested_max_current = 0,
                                    !.selected_pps_index = 0]
    BY <1>3 DEF HandleMsg
  <2>2. CallbackOf(m) = "power_rejected"
    BY <1>3 DEF CallbackOf
  <2> QED BY <2>1, <2>2, RejectReceived
<1>4. CASE m.type \in {"accept", "wait"}
  <2>1. HandleMsg(s, m) = s
    BY <1>4 DEF HandleMsg
  <2>2. CallbackOf(m) \notin {"source_caps_changed", "protocol_changed"}
    BY <1>4 DEF CallbackOf
  <2> QED BY <2>1, <2>2
<1> QED BY <1>1, <1>2, <1>3, <1>4

(* The voltage asked for when capabilities have arrived *)
TopVoltage == 1023 * 100
LEMMA TopVoltageNat == TopVoltage \in Nat
BY DEF TopVoltage

LEMMA UnderTop ==
  ASSUME NEW n \in 0 .. 1023
  PROVE  /\ n * 50 \in Nat /\ n * 50 <= TopVoltage
         /\ n * 100 \in Nat /\ n * 100 <= TopVoltage
<1> DEFINE most == 1023
<1>1. n \in Nat /\ n <= most /\ most \in Nat
  OBVIOUS
<1> SUFFICES n * 50 \in Nat /\ n * 50 <= most * 100 /\ n * 100 \in Nat /\ n * 100 <= most * 100
  BY DEF TopVoltage
<1> HIDE DEF most
<1> QED BY ONLY <1>1

LEMMA VoltageBound ==
  ASSUME NEW a \in Adverts, NEW cap \in Capabilities, FromObject(a, cap)
  PROVE  cap.voltage \in Nat /\ cap.voltage <= TopVoltage
<1> DEFINE pdo == a[cap.obj_pos]
<1>1. pdo \in PowerDataObjects /\ cap = Capability(pdo, cap.obj_pos)
  BY AdvertsAssumption DEF FromObject
<1>2. PICK l, h, c \in Field : pdo.low = l /\ pdo.high = h /\ pdo.current = c
  BY <1>1, ObjectFields
<1>3. l \in 0 .. 1023 /\ h \in 0 .. 1023
  BY DEF Field
<1> HIDE DEF pdo
<1>4. cap.voltage \in {l * 50, l * 100, h * 50, h * 100}
  BY <1>1, <1>2 DEF Capability
<1> DEFINE Below(v) == v \in Nat /\ v <= TopVoltage
<1>5. Below(l * 50) /\ Below(l * 100) /\ Below(h * 50) /\ Below(h * 100)
  BY ONLY <1>3, UnderTop
<1> HIDE DEF Below
<1>6. Below(cap.voltage)
  BY ONLY <1>4, <1>5
<1> QED BY ONLY <1>6 DEF Below

LEMMA DesiredAllowed ==
  ASSUME SystemTypeOK, LinkInStep, pc = "events",
         NEW a \in Adverts, NEW s, s.source_caps = SourceCaps(a)
  PROVE  DesiredVoltage(s) \in Nat /\ Allowed(DesiredVoltage(s))
<1> DEFINE caps == SourceCaps(a)
           offered == {caps[i] : i \in DOMAIN caps}
<1>1. /\ desired_mode \in {0, 9, 12, 15, 20, 100} /\ in_config_mode \in BOOLEAN
      /\ in_config_mode <=> phase \in {"release", "select", "saved"}
      /\ phase \in {"release", "select", "loop"}
  BY ModesAssumption DEF SystemTypeOK, LinkInStep, voltages
<1>2. offered # {} /\ caps[1] \in offered /\ \A cap \in offered : cap \in Capabilities /\ FromObject(a, cap)
  <2>1. /\ caps \in Seq(Capabilities) /\ Len(caps) \in 1 .. 7
        /\ \A i \in DOMAIN caps : FromObject(a, caps[i])
    BY CapsType
  <2> HIDE DEF caps
  <2>2. 1 \in DOMAIN caps /\ \A i \in DOMAIN caps : caps[i] \in Capabilities
    BY <2>1
  <2> QED BY <2>1, <2>2
<1>3. offered = Range(s.source_caps)
  BY DEF Range
<1> HIDE DEF caps, offered
<1>4. CASE in_config_mode
  <2>1. DesiredVoltage(s) = 5000
    BY <1>4 DEF DesiredVoltage
  <2> QED BY <2>1 DEF Allowed
<1>5. CASE ~in_config_mode /\ desired_mode = 0
  <2>1. DesiredVoltage(s) = s.source_caps[1].voltage
    BY <1>5 DEF DesiredVoltage, IsFixedMode
  <2>2. s.source_caps[1].voltage \in Nat
    BY <1>2, VoltageBound DEF caps
  <2>3. phase = "loop"
    BY <1>1, <1>5
  <2> QED BY <1>5, <2>1, <2>2, <2>3 DEF Allowed, IsFixedMode
<1>6. CASE ~in_config_mode /\ desired_mode = 100
  <2> DEFINE V == {5000} \cup {cap.voltage : cap \in offered}
  <2>1. DesiredVoltage(s) = Min({20000, Max(V)})
    BY <1>3, <1>6 DEF DesiredVoltage, IsFixedMode
  <2>2. \A v \in V : v \in Nat /\ v <= TopVoltage
    BY <1>2, VoltageBound DEF TopVoltage
  <2>3. V # {}
    OBVIOUS
  <2> HIDE DEF V
  <2>4. Max(V) \in Nat
    <3>1. V \in SUBSET Nat /\ \A v \in V : v <= TopVoltage
      BY <2>2
    <3>2. Max(V) \in V
      BY ONLY <2>3, <3>1, TopVoltageNat, MaxIsGreatest, Zenon
    <3> QED BY <3>1, <3>2
  <2>5. Min({20000, Max(V)}) \in Nat /\ Min({20000, Max(V)}) <= 20000
    BY <2>4, MinOfPair
  <2>6. phase = "loop"
    BY <1>1, <1>6
  <2> QED BY <1>6, <2>1, <2>5, <2>6 DEF Allowed, IsFixedMode
<1>7. CASE ~in_config_mode /\ IsFixedMode
  <2>1. DesiredVoltage(s) \in {desired_mode * 1000, 5000}
    BY <1>7 DEF DesiredVoltage, IsFixedMode
  <2>2. phase = "loop"
    BY <1>1, <1>7
  <2>3. DesiredVoltage(s) \in Nat
    BY <1>1, <2>1
  <2> QED BY <1>7, <2>1, <2>2, <2>3 DEF Allowed, IsFixedMode
<1> QED BY <1>1, <1>4, <1>5, <1>6, <1>7 DEF IsFixedMode

(* switch_voltage finds the next fixed supply. *)
LEMMA RoundTheCircle ==
  ASSUME NEW n \in 1 .. 7, NEW sel \in 0 .. 6
  PROVE  \E k \in 1 .. n : (sel + k) % n = 0
<1> DEFINE k == n - (sel % n)
<1>1. CASE n = 1 BY <1>1
<1>2. CASE n = 2 BY <1>2
<1>3. CASE n = 3 BY <1>3
<1>4. CASE n = 4 BY <1>4
<1>5. CASE n = 5 BY <1>5
<1>6. CASE n = 6 BY <1>6
<1>7. CASE n = 7 BY <1>7
<1> QED BY <1>1, <1>2, <1>3, <1>4, <1>5, <1>6, <1>7

LEMMA NextFixedInRange ==
  ASSUME NEW a \in Adverts, selected_capability \in 0 .. 6
  PROVE  NextFixed(SourceCaps(a)) \in 0 .. Len(SourceCaps(a)) - 1
<1> DEFINE caps == SourceCaps(a)
           n == Len(caps)
           At(k) == (selected_capability + k) % n
           steps == {k \in 1 .. n : caps[At(k) + 1].supply_type = "fixed"}
<1>1. n \in 1 .. 7 /\ caps[1].supply_type = "fixed"
  <2>1. n \in 1 .. 7 /\ caps[1] = Capability(a[1], 1)
    BY CapsType
  <2>2. a[1].supply_type = "fixed"
    BY AdvertsAssumption DEF IsFixed
  <2> QED BY <2>1, <2>2 DEF Capability
<1>2. NextFixed(caps) = At(Min(steps))
  BY <1>1 DEF NextFixed
<1> HIDE DEF caps, n
<1>3. PICK k \in 1 .. n : (selected_capability + k) % n = 0
  BY <1>1, RoundTheCircle
<1>4. At(k) = 0 /\ caps[At(k) + 1].supply_type = "fixed"
  <2>1. At(k) = 0
    BY <1>3
  <2> HIDE DEF At, steps
  <2>2. At(k) + 1 = 1
    BY ONLY <2>1
  <2> QED BY ONLY <1>1, <2>1, <2>2
<1>5. Min(steps) \in 1 .. n
  <2> HIDE DEF At
  <2>1. steps \in SUBSET Nat /\ steps # {}
    BY <1>1, <1>4
  <2> HIDE DEF steps
  <2>2. Min(steps) \in steps
    BY ONLY <2>1, MinIsLeast
  <2> QED BY ONLY <2>2 DEF steps
<1> HIDE DEF steps
<1>6. At(Min(steps)) \in 0 .. n - 1
  BY <1>1, <1>5
<1> QED BY <1>2, <1>6 DEF n, caps

-----------------------------------------------------------------------------
(* What a step leaves as it is *)

LEMMA RangeOfAppend ==
  ASSUME NEW S, NEW s \in Seq(S), NEW x \in S
  PROVE  Append(s, x) \in Seq(S) /\ Range(Append(s, x)) = Range(s) \cup {x}
<1>1. /\ Append(s, x) \in Seq(S) /\ DOMAIN Append(s, x) = 1 .. Len(s) + 1
      /\ DOMAIN s = 1 .. Len(s) /\ Len(s) \in Nat
      /\ \A i \in 1 .. Len(s) : Append(s, x)[i] = s[i]
      /\ Append(s, x)[Len(s) + 1] = x
  OBVIOUS
<1> QED BY <1>1 DEF Range

LEMMA HeadAndTail ==
  ASSUME NEW S, NEW s \in Seq(S), s # <<>>
  PROVE  /\ Head(s) \in Range(s) /\ Tail(s) \in Seq(S)
         /\ Len(Tail(s)) = Len(s) - 1 /\ Len(s) \in Nat \ {0}
         /\ Range(Tail(s)) \subseteq Range(s)
         /\ Range(s) = {Head(s)} \cup Range(Tail(s))
<1>1. Len(s) \in Nat \ {0}
  BY LenOfNonEmpty
<1>2. /\ Tail(s) \in Seq(S) /\ Len(Tail(s)) = Len(s) - 1 /\ Head(s) = s[1]
      /\ DOMAIN s = 1 .. Len(s) /\ DOMAIN Tail(s) = 1 .. Len(s) - 1
      /\ \A i \in 1 .. Len(s) - 1 : Tail(s)[i] = s[i + 1]
  BY <1>1
<1>3. Range(s) = {Head(s)} \cup Range(Tail(s))
  <2>1. ASSUME NEW i \in 1 .. Len(s) PROVE s[i] = Head(s) \/ s[i] \in Range(Tail(s))
    <3>1. CASE i = 1
      BY <1>2, <3>1
    <3>2. CASE i # 1
      <4>1. i - 1 \in 1 .. Len(s) - 1 /\ (i - 1) + 1 = i
        BY <1>1, <3>2
      <4> QED BY <1>2, <4>1 DEF Range
    <3> QED BY <3>1, <3>2
  <2>2. ASSUME NEW i \in 1 .. Len(s) - 1 PROVE Tail(s)[i] \in Range(s)
    <3>1. i + 1 \in 1 .. Len(s)
      BY <1>1
    <3> QED BY <1>2, <3>1 DEF Range
  <2>3. Head(s) \in Range(s)
    BY <1>1, <1>2 DEF Range
  <2> QED BY <1>2, <2>1, <2>2, <2>3 DEF Range
<1> QED BY <1>1, <1>2, <1>3

(* The parts of the invariant, by the variables they depend on *)
SourceFrame == UNCHANGED <<rx, hardrst, src, pdos, contract, granted, crossed>>
LinkFrame   == UNCHANGED <<link, protocol, events>>

LEMMA CapsCurrentFrame ==
  ASSUME CapsCurrent, SourceFrame, LinkFrame, UNCHANGED sink
  PROVE  CapsCurrent'
BY DEF CapsCurrent, SourceFrame, LinkFrame, AdvertUnread, Unread, Requests, Offers

LEMMA AllowedFrame ==
  ASSUME UNCHANGED desired_mode, phase' # "loop" => phase # "loop"
  PROVE  \A v : Allowed(v) => Allowed(v)'
BY DEF Allowed, IsFixedMode

LEMMA VoltagesAllowedFrame ==
  ASSUME VoltagesAllowed, SourceFrame, UNCHANGED <<sink, desired_mode>>,
         phase' # "loop" => phase # "loop"
  PROVE  VoltagesAllowed'
<1>1. \A v : Allowed(v) => Allowed(v)'
  BY AllowedFrame
<1> QED BY <1>1 DEF VoltagesAllowed, SourceFrame, Requests

LEMMA WireTypesFrame ==
  ASSUME WireTypes, SourceFrame, LinkFrame, UNCHANGED sink
  PROVE  WireTypes'
BY DEF WireTypes, SourceFrame, LinkFrame

LEMMA VoltageToModeType == ASSUME NEW v PROVE VoltageToMode(v) \in 0 .. 5
BY DEF VoltageToMode, voltages

(* The program's own loops *)
LEMMA LoopsFrame ==
  ASSUME HalPoll \/ StartupEnds \/ ConfigRelease \/ ConfigSelect,
         SystemTypeOK
  PROVE  /\ SourceFrame /\ LinkFrame /\ UNCHANGED <<state, sink, desired_mode, overlap, unheard, selected_capability>>
         /\ phase' # "loop" => phase # "loop"
BY DEF HalPoll, StartupEnds, ConfigRelease, ConfigSelect, AtTail, App, SourceFrame, LinkFrame,
       srcVars, history, buttonVars, SystemTypeOK

LEMMA LoopsKeep ==
  ASSUME SystemInv, HalPoll \/ StartupEnds \/ ConfigRelease \/ ConfigSelect
  PROVE  SystemInv'
<1>1. /\ SourceFrame /\ LinkFrame
      /\ UNCHANGED <<state, sink, desired_mode, overlap, unheard, selected_capability>>
      /\ phase' # "loop" => phase # "loop"
  BY LoopsFrame DEF SystemInv
<1>2. WireTypes' /\ VoltagesAllowed' /\ CapsCurrent'
  BY <1>1, CapsCurrentFrame, VoltagesAllowedFrame, WireTypesFrame DEF SystemInv
<1>3. CASE HalPoll
  <2>1. SystemTypeOK'
    BY <1>1, <1>3 DEF SystemInv, SystemTypeOK, HalPoll, ButtonSampled, buttonVars, SourceFrame, LinkFrame
  <2>2. LinkInStep'
    BY <1>1, <1>3 DEF SystemInv, LinkInStep, HalPoll, SourceFrame, LinkFrame
  <2>3. LedTruthful'
    BY <1>1, <1>3 DEF SystemInv, LedTruthful, HalPoll, SourceFrame, LinkFrame, LedFor, IsFixedMode
  <2> QED BY <1>2, <2>1, <2>2, <2>3 DEF SystemInv
<1>4. CASE StartupEnds
  <2>1. SystemTypeOK'
    BY <1>1, <1>4 DEF SystemInv, SystemTypeOK, StartupEnds, buttonVars, SourceFrame, LinkFrame
  <2>2. LinkInStep'
    BY <1>1, <1>4 DEF SystemInv, LinkInStep, StartupEnds, SourceFrame, LinkFrame
  <2>3. LedTruthful'
    BY <1>1, <1>4 DEF LedTruthful, StartupEnds, LinkFrame, LedFor, IsFixedMode
  <2> QED BY <1>2, <2>1, <2>2, <2>3 DEF SystemInv
<1>5. CASE ConfigRelease
  <2>1. SystemTypeOK'
    <3>1. mode' \in 0 .. 5
      BY <1>5, VoltageToModeType DEF SystemInv, SystemTypeOK, ConfigRelease
    <3>2. /\ pc' = "hal" /\ phase' \in {"release", "startup", "select"}
          /\ in_config_mode' <=> phase' \in {"release", "select", "saved"}
          /\ {in_config_mode', button_down', button_pressed'} \subseteq BOOLEAN
      BY <1>5 DEF SystemInv, SystemTypeOK, ConfigRelease, AtTail, LeaveConfigMode
    <3> QED BY <1>1, <3>1, <3>2 DEF SystemInv, SystemTypeOK, SourceFrame, LinkFrame
  <2>2. LinkInStep'
    BY <1>1, <1>5 DEF SystemInv, LinkInStep, ConfigRelease, AtTail, SourceFrame, LinkFrame
  <2>3. LedTruthful'
    BY <1>1, <1>5 DEF LedTruthful, ConfigRelease, AtTail
  <2> QED BY <1>2, <2>1, <2>2, <2>3 DEF SystemInv
<1>6. CASE ConfigSelect
  <2>1. SystemTypeOK'
    <3>1. mode' \in 0 .. 5
      BY <1>6 DEF SystemInv, SystemTypeOK, ConfigSelect
    <3>2. /\ pc' = "hal" /\ phase' \in {"select", "saved"}
          /\ in_config_mode' <=> phase' \in {"release", "select", "saved"}
          /\ {in_config_mode', button_down', button_pressed'} \subseteq BOOLEAN
      BY <1>6 DEF SystemInv, SystemTypeOK, ConfigSelect, AtTail
    <3> QED BY <1>1, <3>1, <3>2 DEF SystemInv, SystemTypeOK, SourceFrame, LinkFrame
  <2>2. LinkInStep'
    BY <1>1, <1>6 DEF SystemInv, LinkInStep, ConfigSelect, AtTail, SourceFrame, LinkFrame
  <2>3. LedTruthful'
    BY <1>1, <1>6 DEF LedTruthful, ConfigSelect, AtTail
  <2> QED BY <1>2, <2>1, <2>2, <2>3 DEF SystemInv
<1> QED BY <1>3, <1>4, <1>5, <1>6

-----------------------------------------------------------------------------
(* The attachment *)

LEMMA AttachmentFrame ==
  ASSUME AttachmentKnown, LinkFrame, UNCHANGED <<state, sink, contract, granted, src, rx, hardrst>>
  PROVE  AttachmentKnown'
BY DEF AttachmentKnown, LinkFrame, Attached, SinkInit

(* Before a message has come the sink has nothing to do. *)
LEMMA SinkAtRest ==
  ASSUME AttachmentKnown, state \in {"usb_20", "usb_pd_wait"}
  PROVE  /\ KeepAlive(sink) = sink /\ sink.tx = <<>> /\ sink.selected_pps_index = 0
         /\ events = <<>> /\ protocol = "usb_20" /\ src \in {"startup", "wait_request"}
BY DEF AttachmentKnown, SinkInit, KeepAlive

LEMMA StepAttached ==
  ASSUME AttachmentKnown, [Next]_vars
  PROVE  AttachmentKnown'
<1>1. CASE UNCHANGED vars \/ Saved
  BY <1>1, AttachmentFrame DEF Saved, vars, linkVars, srcVars, LinkFrame
<1>2. CASE LinkAttach \/ LinkReturn
  BY <1>2 DEF LinkAttach, LinkReturn, Return, Link, srcVars, AttachmentKnown, Attached, SinkInit
<1>3. CASE LinkDeliver
  BY <1>3 DEF LinkDeliver, Deliver, AttachmentKnown, Attached
<1>4. CASE LinkReset \/ LinkTimeout
  BY <1>4 DEF LinkReset, LinkTimeout, EstablishRetryWait, Reset, AttachmentKnown, Attached
<1>5. CASE PopEvent
  <2>1. state \notin {"usb_20", "usb_pd_wait"}
    BY <1>5, SinkAtRest DEF PopEvent, Pop
  <2> QED BY <1>5, <2>1 DEF PopEvent, Pop, AttachmentKnown, Attached
<1>6. CASE SinkPollEnds
  <2>1. /\ UNCHANGED <<link, protocol, events, state, srcVars, rx, hardrst>>
        /\ sink' = KeepAlive(sink)
    BY <1>6 DEF SinkPollEnds, Link, SinkBecomes
  <2> QED BY <2>1, SinkAtRest DEF AttachmentKnown, Attached, SinkInit, srcVars
<1>7. CASE HalPoll \/ StartupEnds \/ ConfigRelease \/ ConfigSelect
  BY <1>7, AttachmentFrame DEF HalPoll, StartupEnds, ConfigRelease, ConfigSelect, AtTail, App,
     srcVars, LinkFrame
<1>8. CASE LoopButton
  <2>1. UNCHANGED <<link, protocol, events, state, srcVars, rx, hardrst>>
    BY <1>8 DEF LoopButton, AtTail, App
  <2>2. state \in {"usb_20", "usb_pd_wait"} => UNCHANGED sink
    BY <1>8, SinkAtRest DEF LoopButton, SwitchVoltage
  <2> QED BY <2>1, <2>2 DEF AttachmentKnown, Attached, SinkInit, srcVars
<1>9. CASE PpsDue
  <2>1. state \notin {"usb_20", "usb_pd_wait"}
    BY <1>9, SinkAtRest DEF PpsDue
  <2> QED BY <1>9, <2>1 DEF PpsDue, linkVars, AttachmentKnown, Attached
<1>10. CASE Advertise \/ AdvertiseAgain
  <2>1. PICK m : rx' = Append(rx, m)
    BY <1>10 DEF Advertise, AdvertiseAgain, SendCapabilities, Speaks
  <2>2. /\ UNCHANGED <<linkVars, state, sink, contract, granted, hardrst>>
        /\ Attached /\ rx = <<>> /\ src' = "wait_request"
    BY <1>10 DEF Advertise, AdvertiseAgain, SendCapabilities, Speaks, Source
  <2>3. Append(<<>>, m) # <<>>
    OBVIOUS
  <2> QED BY <2>1, <2>2, <2>3 DEF AttachmentKnown, Attached, SinkInit, linkVars
<1>11. CASE Accept \/ Reject \/ PutOff \/ LoseRequest
  <2>1. sink.tx # <<>>
    BY <1>11 DEF Accept, Reject, PutOff, LoseRequest, Refuses, TakesRequest
  <2>2. UNCHANGED <<linkVars, state, hardrst>> /\ (Attached \/ rx' = rx)
    BY <1>11 DEF Accept, Reject, PutOff, LoseRequest, Refuses, TakesRequest, Reply, Speaks, Source
  <2>3. state \notin {"usb_20", "usb_pd_wait"}
    BY <2>1, SinkAtRest
  <2> QED BY <2>2, <2>3 DEF AttachmentKnown, Attached, linkVars
<1>12. CASE Switched
  <2>1. UNCHANGED <<linkVars, state, hardrst>> /\ Attached /\ src = "transition"
    BY <1>12 DEF Switched, Reply, Speaks, Source
  <2>2. state \notin {"usb_20", "usb_pd_wait"}
    BY <2>1, SinkAtRest
  <2> QED BY <2>1, <2>2 DEF AttachmentKnown, Attached, linkVars
<1>13. CASE HardReset \/ GiveUp
  <2>1. /\ UNCHANGED <<linkVars, state, sink, rx>> /\ Attached
        /\ src' = "startup" /\ contract' = vSafe5V /\ granted' = vSafe5V
    BY <1>13 DEF HardReset, GiveUp, Resets, Source
  <2> QED BY <2>1 DEF AttachmentKnown, Attached, SinkInit, linkVars
<1> QED BY <1>1, <1>2, <1>3, <1>4, <1>5, <1>6, <1>7, <1>8, <1>9, <1>10, <1>11, <1>12, <1>13
     DEF Next, Firmware

(* fusb302.cpp:76-122, 161-182: the chip hears nothing before it is set up *)
(* and nothing after a reset of the driver, and as long as no message has  *)
(* come, the sink asks for nothing and gets 5V.                            *)
THEOREM AttachmentInvariance == Spec => []AttachmentKnown
<1>1. Init => AttachmentKnown
  BY DEF Init, AttachmentKnown, Attached
<1>2. AttachmentKnown /\ [Next]_vars => AttachmentKnown'
  BY StepAttached
<1> QED BY <1>1, <1>2, PTL DEF Spec

-----------------------------------------------------------------------------
(* power_sink.poll() *)

LEMMA TwoItems == ASSUME NEW x, NEW y PROVE Append(<<x>>, y) = <<x, y>>
<1> DEFINE S == {x, y}
           s == Append(<<x>>, y)
<1>1. x \in S /\ y \in S
  OBVIOUS
<1> HIDE DEF S
<1>2. <<x>> \in Seq(S) /\ Len(<<x>>) = 1 /\ <<x>>[1] = x
  BY <1>1
<1>3. s \in Seq(S) /\ Len(s) = 2 /\ s[1] = x /\ s[2] = y
  BY <1>1, <1>2, AppendProperties
<1> HIDE DEF s
<1>4. s = <<x, y>>
  BY <1>1, <1>3, SeqEqual
<1> QED BY <1>4 DEF s

(* No event is dropped, and the news come before the message. *)
LEMMA Delivered ==
  ASSUME SystemInv, LinkDeliver
  PROVE  /\ rx # <<>> /\ Head(rx) \in SourceMessages /\ rx' = Tail(rx) /\ link' = "up"
         /\ \/ link = "up" /\ events' = Append(events, Head(rx))
            \/ /\ link = "down" /\ events = <<>>
               /\ events' = <<StateChanged, Head(rx)>>
<1>1. /\ rx \in Seq(SourceMessages) /\ events \in Seq(SourceMessages \cup {StateChanged})
      /\ Len(rx) + Len(events) <= IF link = "up" THEN MaxUnread + 1 ELSE MaxUnread
  BY DEF SystemInv, WireTypes
<1>2. rx # <<>> /\ rx' = Tail(rx) /\ link' = "up" /\ pc = "poll"
  BY DEF LinkDeliver, Deliver
<1>3. Len(rx) \in Nat \ {0} /\ Head(rx) \in SourceMessages
  BY <1>1, <1>2, LenOfNonEmpty
<1>4. Len(events) < QueueSize /\ 1 < QueueSize /\ 0 < QueueSize
  BY <1>1, <1>3, QueueAssumption
<1>5. CASE link = "up"
  <2>1. events' = AddItem(events, Head(rx))
    BY <1>5 DEF LinkDeliver, Deliver
  <2> QED BY <1>2, <1>3, <1>4, <1>5, <2>1 DEF AddItem
<1>6. CASE link = "down"
  <2>1. events = <<>>
    BY <1>2, <1>6 DEF SystemInv, LinkInStep
  <2>2. events' = AddItem(AddItem(<<>>, StateChanged), Head(rx))
    BY <1>6, <2>1 DEF LinkDeliver, Deliver
  <2>3. AddItem(<<>>, StateChanged) = <<StateChanged>>
    BY <1>4 DEF AddItem
  <2>4. AddItem(<<StateChanged>>, Head(rx)) = <<StateChanged, Head(rx)>>
    <3>1. Len(<<StateChanged>>) = 1
      OBVIOUS
    <3>2. Append(<<StateChanged>>, Head(rx)) = <<StateChanged, Head(rx)>>
      BY <1>3, TwoItems
    <3> QED BY <1>4, <3>1, <3>2 DEF AddItem
  <2> QED BY <1>2, <1>3, <1>6, <2>1, <2>2, <2>3, <2>4
<1> QED BY <1>5, <1>6 DEF SystemInv, SystemTypeOK

LEMMA DeliverKeeps ==
  ASSUME SystemInv, LinkDeliver
  PROVE  SystemInv'
<1> DEFINE m == Head(rx)
           Events == SourceMessages \cup {StateChanged}
<1>1. /\ rx # <<>> /\ m \in SourceMessages /\ rx' = Tail(rx) /\ link' = "up"
      /\ \/ link = "up" /\ events' = Append(events, m)
         \/ link = "down" /\ events = <<>> /\ events' = <<StateChanged, m>>
  BY Delivered
<1>2. /\ rx \in Seq(SourceMessages) /\ events \in Seq(Events)
      /\ Len(rx) + Len(events) <= IF link = "up" THEN MaxUnread + 1 ELSE MaxUnread
  BY DEF SystemInv, WireTypes
<1>3. /\ pc = "poll" /\ pc' = "poll" /\ protocol' = protocol /\ state' = "usb_pd"
      /\ UNCHANGED <<phase, configVars, buttonVars, srcVars, disturb, sink, selected_capability,
                     led, hardrst, history>>
  BY DEF LinkDeliver, Deliver, Link
<1>4. /\ Tail(rx) \in Seq(SourceMessages) /\ Len(Tail(rx)) = Len(rx) - 1 /\ Len(rx) \in Nat \ {0}
      /\ Range(rx) = {m} \cup Range(Tail(rx))
  BY <1>1, <1>2, HeadAndTail
<1>5. m # StateChanged /\ m \in Events
  BY <1>1, MessageOfSource
<1>6. /\ events' \in Seq(Events) /\ Len(events') \in Nat /\ Len(events) \in Nat
      /\ Len(events') = IF link = "up" THEN Len(events) + 1 ELSE 2
      /\ link = "down" => Len(events) = 0
      /\ Range(events') = Range(events) \cup (IF link = "up" THEN {m} ELSE {StateChanged, m})
  <2>1. CASE link = "up"
    <3>1. events' = Append(events, m) /\ Range(Append(events, m)) = Range(events) \cup {m}
      BY <1>1, <1>2, <1>5, <2>1, RangeOfAppend
    <3> QED BY <1>2, <1>5, <2>1, <3>1
  <2>2. CASE link = "down"
    <3>1. events = <<>> /\ events' = <<StateChanged, m>>
      BY <1>1, <2>2
    <3>2. Range(events') = {StateChanged, m} /\ Range(events) = {}
      BY <3>1 DEF Range
    <3> QED BY <1>2, <1>5, <2>2, <3>1, <3>2
  <2> QED BY <1>1, <2>1, <2>2
<1> HIDE DEF m, Events
<1>7. SystemTypeOK'
  <2>1. Len(events') <= QueueSize
    BY <1>2, <1>4, <1>6, QueueAssumption DEF SystemInv, SystemTypeOK
  <2> QED BY <1>1, <1>3, <2>1 DEF SystemInv, SystemTypeOK, configVars, buttonVars, srcVars, history
<1>8. WireTypes'
  <2>1. Len(rx') + Len(events') <= MaxUnread + 1
    BY <1>1, <1>2, <1>4, <1>6, QueueAssumption DEF SystemInv, SystemTypeOK
  <2> QED BY <1>1, <1>3, <1>4, <1>6, <2>1 DEF SystemInv, WireTypes, srcVars, Events
<1>9. LinkInStep'
  <2>1. \A i \in DOMAIN events' : events'[i] = StateChanged => i = 1
    <3>1. CASE link = "up"
      <4>1. events' = Append(events, m) /\ events \in Seq(Events)
        BY <1>1, <1>2, <3>1
      <4>2. \A i \in DOMAIN events : events[i] = StateChanged => i = 1
        BY DEF SystemInv, LinkInStep
      <4> QED BY ONLY <1>5, <4>1, <4>2
    <3>2. CASE link = "down"
      <4>1. events' = <<StateChanged, m>>
        BY <1>1, <3>2
      <4> QED BY ONLY <1>5, <4>1
    <3> QED BY <1>1, <3>1, <3>2
  <2>2. events' = <<>> \/ events'[1] # StateChanged => protocol' = ProtocolOf(link')
    <3>1. CASE link = "up" /\ events = <<>>
      BY <1>1, <1>3, <3>1 DEF SystemInv, LinkInStep
    <3>2. CASE link = "up" /\ events # <<>>
      <4>1. events' = Append(events, m) /\ events \in Seq(Events) /\ 1 \in DOMAIN events
        BY <1>1, <1>2, <3>2, LenOfNonEmpty
      <4>2. events'[1] = events[1] /\ events' # <<>>
        BY ONLY <1>5, <4>1
      <4> QED BY <1>1, <1>3, <3>2, <4>2 DEF SystemInv, LinkInStep
    <3>3. CASE link = "down"
      <4>1. events' = <<StateChanged, m>>
        BY <1>1, <3>3
      <4> QED BY <1>1, <3>3, <4>1
    <3> QED BY <1>1, <3>1, <3>2, <3>3
  <2> QED BY <1>1, <1>3, <2>1, <2>2 DEF SystemInv, LinkInStep
<1>10. VoltagesAllowed'
  BY <1>3, AllowedFrame DEF SystemInv, VoltagesAllowed, Requests, configVars, srcVars, history
<1>11. CapsCurrent'
  <2>1. Unread' = Unread \cup (IF link = "up" THEN {} ELSE {StateChanged})
    BY <1>1, <1>4, <1>6 DEF Unread
  <2>2. ~IsAdvert(StateChanged)
    BY StateChangedIsNoMessage
  <2>3. AdvertUnread' <=> AdvertUnread
    BY <2>1, <2>2 DEF AdvertUnread
  <2>4. ~(link = "down" /\ events = <<StateChanged>>)
    BY <1>3 DEF SystemInv, LinkInStep
  <2> QED BY <1>3, <2>1, <2>2, <2>3, <2>4 DEF SystemInv, CapsCurrent, Requests, Offers, srcVars, history
<1>12. LedTruthful'
  BY <1>3 DEF SystemInv, LedTruthful, LedFor, IsFixedMode, configVars
<1> QED BY <1>7, <1>8, <1>9, <1>10, <1>11, <1>12 DEF SystemInv

(* The driver is reset only where 5V is all there is. *)
LEMMA ResetAtSafe5V ==
  ASSUME SystemInv, AttachmentKnown, LinkReset \/ LinkTimeout
  PROVE  EstablishRetryWait /\ contract = vSafe5V /\ granted = vSafe5V
BY DEF LinkReset, LinkTimeout, AttachmentKnown, SystemInv, VoltagesAllowed

LEMMA ResetKeeps ==
  ASSUME SystemInv, AttachmentKnown, LinkReset \/ LinkTimeout
  PROVE  SystemInv'
<1>1. /\ pc = "poll" /\ pc' = "events" /\ link' = "down" /\ events' = <<StateChanged>>
      /\ rx' = <<>> /\ protocol' = protocol /\ state' = "usb_retry_wait" /\ hardrst' = FALSE
      /\ contract = vSafe5V /\ granted = vSafe5V
      /\ overlap' = FALSE /\ crossed' = FALSE /\ unheard' = FALSE
      /\ sink' = [sink EXCEPT !.tx = <<>>]
      /\ UNCHANGED <<phase, configVars, buttonVars, srcVars, disturb, selected_capability, led>>
  BY ResetAtSafe5V DEF EstablishRetryWait, Reset, Link
<1>2. sink \in SinkRecords
  BY DEF SystemInv, WireTypes
<1>3. /\ sink' \in SinkRecords /\ sink'.source_caps = sink.source_caps
      /\ sink'.active_voltage = sink.active_voltage
      /\ sink'.requested_voltage = sink.requested_voltage /\ sink'.tx = <<>>
  BY <1>1, <1>2, RequestsDropped
<1>4. Range(rx') = {} /\ Range(events') = {StateChanged} /\ Requests' = {}
      /\ Len(rx') = 0 /\ Len(events') = 1
  BY <1>1, <1>3 DEF Range, Requests
<1>5. SystemTypeOK'
  <2>1. Len(events') <= QueueSize
    BY <1>4, QueueAssumption
  <2>2. sink'.selected_pps_index \in 0 .. 7
    BY <1>3 DEF SinkRecords
  <2> QED BY <1>1, <2>1, <2>2 DEF SystemInv, SystemTypeOK, configVars, buttonVars, srcVars
<1>6. WireTypes'
  <2>1. Len(rx') + Len(events') <= MaxUnread
    BY <1>4, QueueAssumption
  <2>2. rx' \in Seq(SourceMessages) /\ events' \in Seq(SourceMessages \cup {StateChanged})
    BY <1>1
  <2> QED BY <1>1, <1>3, <2>1, <2>2 DEF SystemInv, WireTypes, srcVars
<1>7. LinkInStep'
  BY <1>1, <1>3 DEF SystemInv, LinkInStep
<1>8. VoltagesAllowed'
  <2>1. \A v : Allowed(v) => Allowed(v)'
    BY <1>1, AllowedFrame DEF configVars
  <2>2. Allowed(5000)
    BY DEF Allowed
  <2> QED BY <1>1, <1>3, <1>4, <2>1, <2>2 DEF SystemInv, VoltagesAllowed, vSafe5V, srcVars
<1>9. CapsCurrent'
  <2>1. ~AdvertUnread' /\ \A m \in Unread' : ~IsAdvert(m)
    BY <1>4, StateChangedIsNoMessage DEF Unread, AdvertUnread
  <2> QED BY <1>1, <1>4, <2>1 DEF CapsCurrent
<1>10. LedTruthful'
  BY <1>1, <1>3 DEF SystemInv, LedTruthful, LedFor, IsFixedMode, configVars
<1> QED BY <1>5, <1>6, <1>7, <1>8, <1>9, <1>10 DEF SystemInv

LEMMA ReturnKeeps ==
  ASSUME SystemInv, LinkReturn \/ LinkAttach
  PROVE  SystemInv'
<1>1. /\ pc = "poll" /\ pc' = "events" /\ LinkFrame /\ SourceFrame
      /\ state' \in {state, "usb_pd_wait"}
      /\ UNCHANGED <<phase, configVars, buttonVars, disturb, sink, selected_capability, led,
                     history>>
  BY DEF LinkReturn, LinkAttach, Return, Link, LinkFrame, SourceFrame, srcVars, history
<1>2. WireTypes' /\ VoltagesAllowed' /\ CapsCurrent'
  BY <1>1, CapsCurrentFrame, VoltagesAllowedFrame, WireTypesFrame DEF SystemInv, configVars
<1>3. SystemTypeOK'
  BY <1>1 DEF SystemInv, SystemTypeOK, LinkFrame, SourceFrame, configVars, buttonVars, history
<1>4. LinkInStep'
  BY <1>1 DEF SystemInv, LinkInStep, LinkFrame
<1>5. LedTruthful'
  BY <1>1 DEF SystemInv, LedTruthful, LedFor, IsFixedMode, configVars, LinkFrame
<1> QED BY <1>2, <1>3, <1>4, <1>5 DEF SystemInv

-----------------------------------------------------------------------------
(* A request is sent *)

LEMMA CoversOffers ==
  ASSUME pdos \in Adverts, NEW cap \in Range(SourceCaps(pdos)), NEW r, Covers(cap, r)
  PROVE  Offers(r)
<1>1. FromObject(pdos, cap)
  BY CapsType DEF Range
<1> QED BY <1>1 DEF FromObject, Covers, Offers

LEMMA AsksNothing == ASSUME NEW s \in SinkRecords, NEW v PROVE Asks(s, s, v)
BY DEF Asks

(* The sink was s, about to ask for voltage v. *)
LEMMA AskedVoltages ==
  ASSUME VoltagesAllowed, NEW s \in SinkRecords, NEW v, Asks(s, sink', v), v = 0 \/ Allowed(v),
         s.active_voltage = sink.active_voltage, s.requested_voltage = sink.requested_voltage,
         s.tx = sink.tx, crossed => crossed',
         UNCHANGED <<desired_mode, phase, contract, granted, hardrst>>
  PROVE  VoltagesAllowed'
<1>1. \A w : Allowed(w) => Allowed(w)'
  BY AllowedFrame
<1>2. /\ sink'.active_voltage = 0 \/ Allowed(sink'.active_voltage)
      /\ sink'.requested_voltage = 0 \/ Allowed(sink'.requested_voltage)
      /\ \A r \in Requests' : Allowed(r.voltage)
  <2>1. sink'.active_voltage = 0 \/ Allowed(sink'.active_voltage)
    BY DEF Asks, VoltagesAllowed
  <2>2. CASE sink' = s
    BY <2>1, <2>2 DEF VoltagesAllowed, Requests
  <2>3. CASE sink' # s
    <3>1. PICK r \in Asked : /\ sink'.requested_voltage = r.voltage /\ sink'.tx = Append(s.tx, r)
                            /\ Allowed(r.voltage)
      BY <2>3 DEF Asks
    <3>2. s.tx \in Seq(Asked)
      BY DEF SinkRecords
    <3>3. Requests' = Requests \cup {r}
      BY <3>1, <3>2, RangeOfAppend DEF Requests
    <3> QED BY <2>1, <3>1, <3>3 DEF VoltagesAllowed
  <2> QED BY <2>2, <2>3
<1> QED BY <1>1, <1>2 DEF VoltagesAllowed

LEMMA AskedCaps ==
  ASSUME CapsCurrent, pdos \in Adverts,
         NEW s \in SinkRecords, NEW v, Asks(s, sink', v), s.tx = sink.tx,
         ~hardrst /\ ~crossed =>
           s.source_caps \in {<<>>, SourceCaps(pdos)} \/ AdvertUnread',
         Unread' \subseteq Unread,
         crossed' = (crossed \/ (Len(sink'.tx) > Len(sink.tx) /\ AdvertUnread')),
         UNCHANGED <<src, pdos, hardrst>>
  PROVE  CapsCurrent'
<1> SUFFICES ASSUME ~hardrst', ~crossed'
             PROVE  /\ sink'.source_caps \in {<<>>, SourceCaps(pdos)} \/ AdvertUnread'
                    /\ AdvertUnread' => src = "wait_request" /\ sink'.tx = <<>>
                    /\ \A m \in Unread' : IsAdvert(m) => m.objs = pdos
                    /\ \A r \in Requests' : Offers(r)
  BY DEF CapsCurrent, Offers
<1>1. ~hardrst /\ ~crossed /\ ~(Len(sink'.tx) > Len(sink.tx) /\ AdvertUnread')
  OBVIOUS
<1>2. /\ AdvertUnread => src = "wait_request" /\ sink.tx = <<>>
      /\ \A m \in Unread : IsAdvert(m) => m.objs = pdos
      /\ \A r \in Requests : Offers(r)
  BY <1>1 DEF CapsCurrent
<1>3. sink'.source_caps = s.source_caps
  BY DEF Asks
<1>4. AdvertUnread' => AdvertUnread
  BY DEF AdvertUnread
<1>5. s.tx \in Seq(Asked) /\ Len(s.tx) \in Nat
  BY DEF SinkRecords
<1>6. CASE sink' = s
  BY <1>1, <1>2, <1>3, <1>4, <1>6 DEF Requests
<1>7. CASE sink' # s
  <2>1. PICK r \in Asked : /\ sink'.tx = Append(s.tx, r)
                          /\ \E cap \in Range(s.source_caps) : Covers(cap, r)
    BY <1>7 DEF Asks
  <2>2. Len(sink'.tx) > Len(sink.tx)
    BY <1>5, <2>1
  <2>3. ~AdvertUnread' /\ s.source_caps \in {<<>>, SourceCaps(pdos)}
    BY <1>1, <2>2
  <2>4. Range(<<>>) = {}
    BY DEF Range
  <2>5. Offers(r)
    BY <2>1, <2>3, <2>4, CoversOffers
  <2>6. Requests' = Requests \cup {r}
    BY <1>5, <2>1, RangeOfAppend DEF Requests
  <2> QED BY <1>1, <1>2, <1>3, <2>3, <2>5, <2>6
<1> QED BY <1>6, <1>7

LEMMA PollEndsKeeps ==
  ASSUME SystemInv, SinkPollEnds
  PROVE  SystemInv'
<1>1. /\ pc = "events" /\ events = <<>> /\ pc' = "tail" /\ LinkFrame
      /\ UNCHANGED <<phase, configVars, buttonVars, srcVars, disturb, selected_capability, led, rx,
                     hardrst, state>>
      /\ SinkBecomes(KeepAlive(sink))
  BY DEF SinkPollEnds, NoEventLeft, Link, LinkFrame
<1>2. sink \in SinkRecords /\ desired_mode \in Modes /\ pdos \in Adverts
  BY DEF SystemInv, SystemTypeOK, WireTypes
<1>3. sink' = KeepAlive(sink) /\ Asks(sink, sink', sink.active_voltage)
  BY <1>1, <1>2, KeepAliveAsks DEF SinkBecomes
<1>4. /\ sink' \in SinkRecords /\ sink'.active_voltage = sink.active_voltage
      /\ sink'.source_caps = sink.source_caps
  BY <1>3 DEF Asks
<1>5. /\ crossed' = (crossed \/ (Len(sink'.tx) > Len(sink.tx) /\ AdvertUnread'))
      /\ overlap' \in BOOLEAN /\ unheard' \in BOOLEAN /\ crossed' \in BOOLEAN
  BY <1>1, <1>3 DEF SinkBecomes
<1>6. SystemTypeOK'
  <2>1. sink'.selected_pps_index \in 0 .. 7
    BY <1>4 DEF SinkRecords
  <2> QED BY <1>1, <1>5, <2>1 DEF SystemInv, SystemTypeOK, LinkFrame, configVars, buttonVars, srcVars
<1>7. WireTypes'
  BY <1>1, <1>4 DEF SystemInv, WireTypes, LinkFrame, srcVars
<1>8. LinkInStep'
  BY <1>1, <1>4 DEF SystemInv, LinkInStep, LinkFrame
<1>9. VoltagesAllowed'
  <2>1. sink.active_voltage = 0 \/ Allowed(sink.active_voltage)
    BY DEF SystemInv, VoltagesAllowed
  <2> QED BY <1>1, <1>2, <1>3, <1>5, <2>1, AskedVoltages DEF SystemInv, configVars, srcVars
<1>10. CapsCurrent'
  <2>1. Unread' = Unread /\ (AdvertUnread' <=> AdvertUnread)
    BY <1>1 DEF Unread, AdvertUnread, LinkFrame
  <2>2. ~hardrst /\ ~crossed =>
           sink.source_caps \in {<<>>, SourceCaps(pdos)} \/ AdvertUnread'
    BY <1>1, <2>1 DEF SystemInv, CapsCurrent
  <2> QED BY <1>1, <1>2, <1>3, <1>5, <2>1, <2>2, AskedCaps DEF SystemInv, srcVars
<1>11. LedTruthful'
  BY <1>1, <1>4 DEF SystemInv, LedTruthful, LedFor, IsFixedMode, configVars, LinkFrame
<1> QED BY <1>6, <1>7, <1>8, <1>9, <1>10, <1>11 DEF SystemInv

LEMMA NextVoltage ==
  ASSUME NEW s \in SinkRecords, s.source_caps # <<>>, selected_capability \in 0 .. 6
  PROVE  /\ NextFixed(s.source_caps) \in 0 .. 6
         /\ s.source_caps[NextFixed(s.source_caps) + 1].voltage \in Nat
<1>1. PICK a \in Adverts : s.source_caps = SourceCaps(a)
  BY DEF SinkRecords
<1> DEFINE next == NextFixed(SourceCaps(a))
           n == Len(SourceCaps(a))
<1>2. next \in 0 .. n - 1 /\ n \in 1 .. 7 /\ SourceCaps(a) \in Seq(Capabilities)
  BY NextFixedInRange, CapsType
<1> HIDE DEF next
<1>3. next \in 0 .. 6 /\ SourceCaps(a)[next + 1] \in Capabilities
  BY <1>2
<1>4. SourceCaps(a)[next + 1].voltage \in Nat
  BY <1>3 DEF Capabilities
<1> QED BY <1>1, <1>3, <1>4 DEF next

LEMMA LoopButtonKeeps ==
  ASSUME SystemInv, LoopButton
  PROVE  SystemInv'
<1>1. /\ pc = "tail" /\ phase = "loop" /\ pc' = "hal" /\ events = <<>> /\ LinkFrame
      /\ UNCHANGED <<phase, srcVars, button_down, disturb, rx, hardrst, desired_mode,
                     in_config_mode, mode, led, state>>
      /\ button_pressed' \in BOOLEAN
  <2>1. /\ pc = "tail" /\ phase = "loop" /\ pc' = "hal" /\ LinkFrame
        /\ UNCHANGED <<phase, srcVars, button_down, disturb, rx, hardrst, desired_mode,
                       in_config_mode, mode, led, state>>
        /\ button_pressed' = FALSE \/ button_pressed' = button_pressed
    BY DEF LoopButton, AtTail, App, LinkFrame
  <2>2. events = <<>>
    BY <2>1 DEF SystemInv, LinkInStep
  <2>3. button_pressed' \in BOOLEAN
    BY <2>1 DEF SystemInv, SystemTypeOK
  <2> QED BY <2>1, <2>2, <2>3
<1>2. /\ sink \in SinkRecords /\ desired_mode \in Modes /\ pdos \in Adverts
      /\ selected_capability \in 0 .. 6
      /\ {crossed, overlap, unheard} \subseteq BOOLEAN
  BY DEF SystemInv, SystemTypeOK, WireTypes
<1>3. \E v : /\ Asks(sink, sink', v) /\ (v = 0 \/ Allowed(v))
            /\ selected_capability' \in 0 .. 6
            /\ crossed' = (crossed \/ (Len(sink'.tx) > Len(sink.tx) /\ AdvertUnread'))
            /\ overlap' \in BOOLEAN /\ unheard' \in BOOLEAN
  <2>1. CASE UNCHANGED <<sink, selected_capability, history>>
    <3>1. sink.tx \in Seq(Asked)
      BY <1>2 DEF SinkRecords
    <3>2. ~(Len(sink'.tx) > Len(sink.tx))
      BY <2>1, <3>1
    <3>3. Asks(sink, sink', 0)
      BY <1>2, <2>1, AsksNothing
    <3> QED BY <1>2, <2>1, <3>2, <3>3 DEF history
  <2>2. CASE desired_mode = 0 /\ protocol = "usb_pd" /\ SwitchVoltage
    <3> DEFINE next == NextFixed(sink.source_caps)
    <3>1. /\ selected_capability' = next
          /\ SinkBecomes(IF sink.source_caps = <<>> THEN sink
                         ELSE RequestPower(sink, sink.source_caps[next + 1].voltage))
      BY <2>2 DEF SwitchVoltage
    <3>2. /\ crossed' = (crossed \/ (Len(sink'.tx) > Len(sink.tx) /\ AdvertUnread'))
          /\ overlap' \in BOOLEAN /\ unheard' \in BOOLEAN
      BY <3>1 DEF SinkBecomes
    <3>3. CASE sink.source_caps = <<>>
      <4>1. next = 0
        BY <3>3 DEF NextFixed
      <4>2. sink' = sink
        BY <3>1, <3>3 DEF SinkBecomes
      <4>3. Asks(sink, sink', 0)
        BY <1>2, <4>2, AsksNothing
      <4> QED BY <3>1, <3>2, <4>1, <4>3
    <3>4. CASE sink.source_caps # <<>>
      <4> DEFINE v == sink.source_caps[next + 1].voltage
      <4>1. next \in 0 .. 6 /\ v \in Nat
        BY <1>2, <3>4, NextVoltage
      <4>2. sink' = RequestPower(sink, v)
        BY <3>1, <3>4 DEF SinkBecomes
      <4> HIDE DEF next, v
      <4>3. Asks(sink, sink', v)
        BY <1>2, <4>1, <4>2, RequestPowerAsks
      <4>4. Allowed(v)
        BY <1>1, <2>2 DEF Allowed, IsFixedMode
      <4>5. selected_capability' \in 0 .. 6
        BY <3>1, <4>1 DEF next
      <4> QED BY <3>2, <4>3, <4>4, <4>5
    <3> QED BY <3>3, <3>4
  <2> QED BY <2>1, <2>2 DEF LoopButton, SwitchVoltage
<1>4. PICK v : /\ Asks(sink, sink', v) /\ (v = 0 \/ Allowed(v))
               /\ selected_capability' \in 0 .. 6
               /\ crossed' = (crossed \/ (Len(sink'.tx) > Len(sink.tx) /\ AdvertUnread'))
               /\ overlap' \in BOOLEAN /\ unheard' \in BOOLEAN
  BY <1>3
<1>5. /\ sink' \in SinkRecords /\ sink'.active_voltage = sink.active_voltage
      /\ crossed' \in BOOLEAN
  BY <1>4 DEF Asks
<1>6. SystemTypeOK'
  <2>1. sink'.selected_pps_index \in 0 .. 7
    BY <1>5 DEF SinkRecords
  <2> QED BY <1>1, <1>4, <1>5, <2>1 DEF SystemInv, SystemTypeOK, LinkFrame, srcVars
<1>7. WireTypes'
  BY <1>1, <1>5 DEF SystemInv, WireTypes, LinkFrame, srcVars
<1>8. LinkInStep'
  BY <1>1, <1>5 DEF SystemInv, LinkInStep, LinkFrame
<1>9. VoltagesAllowed'
  BY <1>1, <1>2, <1>4, AskedVoltages DEF SystemInv, srcVars
<1>10. CapsCurrent'
  <2>1. Unread' = Unread /\ (AdvertUnread' <=> AdvertUnread)
    BY <1>1 DEF Unread, AdvertUnread, LinkFrame
  <2>2. ~hardrst /\ ~crossed =>
           sink.source_caps \in {<<>>, SourceCaps(pdos)} \/ AdvertUnread'
    BY <1>1, <2>1 DEF SystemInv, CapsCurrent
  <2> QED BY <1>1, <1>2, <1>4, <2>1, <2>2, AskedCaps DEF SystemInv, srcVars
<1>11. LedTruthful'
  BY <1>1, <1>5 DEF SystemInv, LedTruthful, LedFor, IsFixedMode, LinkFrame
<1> QED BY <1>6, <1>7, <1>8, <1>9, <1>10, <1>11 DEF SystemInv

-----------------------------------------------------------------------------
(* One event is handled *)

LEMMA Popped ==
  ASSUME SystemInv, PopEvent
  PROVE  /\ events # <<>> /\ pc = "events" /\ pc' = "poll" /\ events' = Tail(events)
         /\ UNCHANGED <<link, state, rx, hardrst, phase, configVars, buttonVars, srcVars, disturb>>
         /\ Len(rx') + Len(events') <= IF link' = "up" THEN MaxUnread + 1 ELSE MaxUnread
         /\ Len(events') <= QueueSize
         /\ events' \in Seq(SourceMessages \cup {StateChanged})
         /\ Unread = {Head(events)} \cup Unread'
         /\ \/ /\ Head(events) \in SourceMessages /\ link = "up"
               /\ protocol = "usb_pd" /\ protocol' = "usb_pd"
               /\ SinkCallback(CallbackOf(Head(events)), HandleMsg(sink, Head(events)), protocol)
            \/ /\ Head(events) = StateChanged /\ protocol' = ProtocolOf(link)
               /\ SinkCallback(IF protocol' # protocol THEN "protocol_changed" ELSE "none",
                               UpdateProtocol(sink, link), protocol')
<1> DEFINE Events == SourceMessages \cup {StateChanged}
<1>1. /\ events # <<>> /\ pc = "events" /\ pc' = "poll" /\ events' = Tail(events)
      /\ UNCHANGED <<link, state, rx, hardrst, phase, configVars, buttonVars, srcVars, disturb>>
  BY DEF PopEvent, Pop, Link
<1>2. /\ rx \in Seq(SourceMessages) /\ events \in Seq(Events)
      /\ Len(rx) + Len(events) <= IF link = "up" THEN MaxUnread + 1 ELSE MaxUnread
      /\ Len(events) <= QueueSize
  BY DEF SystemInv, SystemTypeOK, WireTypes
<1>3. /\ Tail(events) \in Seq(Events) /\ Len(Tail(events)) = Len(events) - 1
      /\ Len(events) \in Nat \ {0} /\ Range(events) = {Head(events)} \cup Range(Tail(events))
      /\ Head(events) \in Range(events)
  BY <1>1, <1>2, HeadAndTail
<1>4. Unread = {Head(events)} \cup Unread'
  BY <1>1, <1>3 DEF Unread
<1>5. /\ Len(rx') + Len(events') <= IF link' = "up" THEN MaxUnread + 1 ELSE MaxUnread
      /\ Len(events') <= QueueSize /\ events' \in Seq(Events)
  BY <1>1, <1>2, <1>3, QueueAssumption
<1>6. Head(events) \in Events /\ Head(events) = events[1]
  BY <1>1, <1>2, <1>3
<1>7. CASE Head(events) \in SourceMessages
  <2>1. IsMessage(Head(events)) /\ Head(events) # StateChanged
    BY <1>7, MessageOfSource
  <2>2. link = "up"
    <3>1. link # "down"
      <4> SUFFICES ASSUME link = "down" PROVE FALSE
        OBVIOUS
      <4>1. events = <<StateChanged>>
        BY <1>1 DEF SystemInv, LinkInStep
      <4> QED BY <1>6, <2>1, <4>1
    <3> QED BY <3>1 DEF SystemInv, SystemTypeOK
  <2>3. protocol = "usb_pd"
    BY <1>1, <1>6, <2>1, <2>2 DEF SystemInv, LinkInStep, ProtocolOf
  <2>4. /\ protocol' = protocol
        /\ SinkCallback(CallbackOf(Head(events)), HandleMsg(sink, Head(events)), protocol)
    BY <2>1 DEF PopEvent, Pop
  <2> QED BY <1>1, <1>4, <1>5, <1>7, <2>2, <2>3, <2>4
<1>8. CASE Head(events) = StateChanged
  <2>1. ~IsMessage(Head(events))
    BY <1>8, StateChangedIsNoMessage
  <2>2. /\ protocol' = ProtocolOf(link)
        /\ SinkCallback(IF protocol' # protocol THEN "protocol_changed" ELSE "none",
                        UpdateProtocol(sink, link), protocol')
    BY <2>1 DEF PopEvent, Pop
  <2> QED BY <1>1, <1>4, <1>5, <1>8, <2>2
<1> QED BY <1>6, <1>7, <1>8

(* What remains to be shown when the sink is known to be well-formed *)
LEMMA PoppedKeeps ==
  ASSUME SystemInv, PopEvent, sink' \in SinkRecords,
         link = "down" /\ Head(events) = StateChanged => sink'.active_voltage = 5000
  PROVE  WireTypes' /\ LinkInStep'
<1>1. /\ events # <<>> /\ pc = "events" /\ pc' = "poll" /\ events' = Tail(events)
      /\ UNCHANGED <<link, state, rx, hardrst, phase, configVars, buttonVars, srcVars, disturb>>
      /\ Len(rx') + Len(events') <= IF link' = "up" THEN MaxUnread + 1 ELSE MaxUnread
      /\ events' \in Seq(SourceMessages \cup {StateChanged})
      /\ \/ protocol' = "usb_pd" /\ link = "up"
         \/ Head(events) = StateChanged /\ protocol' = ProtocolOf(link)
  BY Popped
<1>2. WireTypes'
  BY <1>1 DEF SystemInv, WireTypes, srcVars
<1>3. LinkInStep'
  <2>1. \A i \in DOMAIN events' : events'[i] # StateChanged
    <3>1. events \in Seq(SourceMessages \cup {StateChanged})
      BY DEF SystemInv, WireTypes
    <3>2. SUFFICES ASSUME NEW i \in DOMAIN events' PROVE events'[i] # StateChanged
      OBVIOUS
    <3>3. i \in Nat \ {0} /\ i + 1 \in DOMAIN events /\ events'[i] = events[i + 1]
      BY <1>1, <3>1, LenOfNonEmpty
    <3>4. i + 1 # 1
      BY <3>3
    <3> QED BY <3>3, <3>4 DEF SystemInv, LinkInStep
  <2>2. link = "down" => events' = <<>>
    <3> SUFFICES ASSUME link = "down" PROVE events' = <<>>
      OBVIOUS
    <3>1. events = <<StateChanged>>
      BY <1>1 DEF SystemInv, LinkInStep
    <3>2. Tail(<<StateChanged>>) = <<>>
      OBVIOUS
    <3> QED BY <1>1, <3>1, <3>2
  <2>3. protocol' = ProtocolOf(link')
    BY <1>1 DEF ProtocolOf
  <2>4. protocol' = "usb_20" => link = "down" /\ Head(events) = StateChanged
    BY <1>1 DEF ProtocolOf, SystemInv, SystemTypeOK
  <2>5. phase' \notin {"startup", "saved"}
    BY <1>1 DEF SystemInv, LinkInStep
  <2> QED BY <1>1, <2>1, <2>2, <2>3, <2>4, <2>5 DEF LinkInStep
<1> QED BY <1>2, <1>3

LEMMA PoppedTypes ==
  ASSUME SystemInv, PopEvent, sink' \in SinkRecords,
         selected_capability' \in {0, selected_capability},
         overlap' \in BOOLEAN, crossed' \in BOOLEAN, unheard' \in BOOLEAN
  PROVE  SystemTypeOK'
<1>1. /\ pc' = "poll" /\ Len(events') <= QueueSize
      /\ UNCHANGED <<link, state, rx, hardrst, phase, configVars, buttonVars, srcVars, disturb>>
      /\ protocol' = "usb_pd" \/ protocol' = ProtocolOf(link)
  BY Popped
<1>2. sink'.selected_pps_index \in 0 .. 7
  BY DEF SinkRecords
<1>3. protocol' \in {"usb_20", "usb_pd"}
  BY <1>1 DEF ProtocolOf
<1>4. selected_capability' \in 0 .. 6
  BY DEF SystemInv, SystemTypeOK
<1> QED BY <1>1, <1>2, <1>3, <1>4 DEF SystemInv, SystemTypeOK, configVars, buttonVars, srcVars

LEMMA LedOfVoltage ==
  ASSUME NEW s, NEW t, s.active_voltage = t.active_voltage, NEW p
  PROVE  LedFor(s, p) = LedFor(t, p)
BY DEF LedFor

LEMMA PopAdvertKeeps ==
  ASSUME SystemInv, PopEvent, Head(events) \in SourceMessages, IsAdvert(Head(events))
  PROVE  SystemInv'
<1> DEFINE e == Head(events)
           s == HandleMsg(sink, e)
           v == DesiredVoltage(s)
<1>1. /\ pc = "events" /\ pc' = "poll" /\ link = "up" /\ protocol' = protocol
      /\ UNCHANGED <<link, state, rx, hardrst, phase, configVars, buttonVars, srcVars, disturb>>
      /\ Unread = {e} \cup Unread'
      /\ SinkCallback(CallbackOf(e), s, protocol)
  BY Popped, MessageOfSource, StateChangedIsNoMessage
<1>2. sink \in SinkRecords /\ desired_mode \in Modes /\ pdos \in Adverts
  BY DEF SystemInv, SystemTypeOK, WireTypes
<1>3. /\ s \in SinkRecords /\ s.source_caps = SourceCaps(e.objs)
      /\ s.active_voltage = sink.active_voltage
      /\ s.requested_voltage = sink.requested_voltage /\ s.tx = sink.tx
      /\ CallbackOf(e) = "source_caps_changed" /\ e.objs \in Adverts
  BY <1>2, AdvertHandled, MessageOfSource
<1> HIDE DEF e, s
<1>4. v \in Nat /\ Allowed(v)
  BY <1>1, <1>3, DesiredAllowed DEF SystemInv
<1>5. sink' = RequestPower(s, v) /\ SinkBecomes(RequestPower(s, v))
  BY <1>1, <1>3 DEF SinkCallback, OnSourceCapsChanged, SinkBecomes
<1>6. /\ selected_capability' \in {0, selected_capability}
      /\ led' = IF ~in_config_mode THEN LedFor(s, protocol) ELSE led
  BY <1>1, <1>3 DEF SinkCallback, ShowsLed
<1> HIDE DEF v
<1>7. Asks(s, sink', v)
  BY <1>2, <1>3, <1>4, <1>5, RequestPowerAsks
<1>8. sink' \in SinkRecords /\ sink'.active_voltage = s.active_voltage
  BY <1>7 DEF Asks
<1>9. /\ crossed' = (crossed \/ (Len(sink'.tx) > Len(sink.tx) /\ AdvertUnread'))
      /\ overlap' \in BOOLEAN /\ unheard' \in BOOLEAN /\ crossed' \in BOOLEAN
  BY <1>5 DEF SinkBecomes
<1>10. Head(events) # StateChanged
  BY MessageOfSource
<1>11. SystemTypeOK'
  BY <1>6, <1>8, <1>9, PoppedTypes
<1>12. WireTypes' /\ LinkInStep'
  BY <1>8, <1>10, PoppedKeeps
<1>13. VoltagesAllowed'
  BY <1>1, <1>3, <1>4, <1>7, <1>9, AskedVoltages DEF SystemInv, configVars, srcVars
<1>14. CapsCurrent'
  <2>1. ~hardrst /\ ~crossed => s.source_caps \in {<<>>, SourceCaps(pdos)} \/ AdvertUnread'
    BY <1>1, <1>3 DEF SystemInv, CapsCurrent, e
  <2>2. Unread' \subseteq Unread
    BY <1>1
  <2> QED BY <1>1, <1>2, <1>3, <1>7, <1>9, <2>1, <2>2, AskedCaps DEF SystemInv, srcVars
<1>15. LedTruthful'
  <2> SUFFICES ASSUME phase = "loop" PROVE led' = LedFor(sink, protocol)'
    BY <1>1 DEF LedTruthful
  <2>1. ~in_config_mode
    BY DEF SystemInv, SystemTypeOK
  <2>2. led' = LedFor(s, protocol)
    BY <1>6, <2>1
  <2>3. LedFor(sink, protocol)' = LedFor(sink', protocol)
    BY <1>1 DEF LedFor, IsFixedMode, configVars
  <2> QED BY <1>8, <2>2, <2>3, LedOfVoltage
<1> QED BY <1>11, <1>12, <1>13, <1>14, <1>15 DEF SystemInv

(* The other events leave capabilities and requests alone, except that a   *)
(* report of a detached source drops the capabilities.                     *)
LEMMA PoppedQuietly ==
  ASSUME SystemInv, PopEvent, NEW s \in SinkRecords, SinkBecomes(s), ~IsAdvert(Head(events)),
         \/ s.active_voltage \in {sink.active_voltage, sink.requested_voltage}
         \/ s.active_voltage = 5000,
         s.requested_voltage \in {0, sink.requested_voltage},
         s.tx = sink.tx,
         \/ s.source_caps = <<>>
         \/ s.source_caps = sink.source_caps /\ link = "up"
  PROVE  /\ sink' = s /\ overlap' \in BOOLEAN /\ crossed' \in BOOLEAN /\ unheard' \in BOOLEAN
         /\ VoltagesAllowed' /\ CapsCurrent'
<1>1. /\ UNCHANGED <<link, state, rx, hardrst, phase, configVars, buttonVars, srcVars, disturb>>
      /\ Unread = {Head(events)} \cup Unread'
  BY Popped
<1>2. sink' = s /\ overlap' \in BOOLEAN /\ crossed' \in BOOLEAN /\ unheard' \in BOOLEAN
  BY DEF SinkBecomes, SystemInv, SystemTypeOK
<1>3. crossed' = crossed
  <2>1. Len(s.tx) \in Nat
    BY DEF SinkRecords
  <2>2. ~(Len(s.tx) > Len(sink.tx))
    BY <2>1
  <2> QED BY <2>2 DEF SinkBecomes, SystemInv, SystemTypeOK
<1>4. Requests' = Requests
  BY <1>2 DEF Requests
<1>5. VoltagesAllowed'
  <2>1. \A w : Allowed(w) => Allowed(w)'
    BY <1>1, AllowedFrame DEF configVars
  <2>2. Allowed(5000)
    BY DEF Allowed
  <2>3. /\ s.active_voltage = 0 \/ Allowed(s.active_voltage)
        /\ s.requested_voltage = 0 \/ Allowed(s.requested_voltage)
    BY <2>2 DEF SystemInv, VoltagesAllowed
  <2> QED BY <1>1, <1>2, <1>3, <1>4, <2>1, <2>3 DEF SystemInv, VoltagesAllowed, srcVars
<1>6. CapsCurrent'
  <2>1. AdvertUnread' <=> AdvertUnread
    BY <1>1 DEF AdvertUnread
  <2> SUFFICES ASSUME ~hardrst, ~crossed PROVE CapsCurrent'
    BY <1>1, <1>3 DEF CapsCurrent
  <2>2. /\ \/ sink.source_caps \in {<<>>, SourceCaps(pdos)}
           \/ AdvertUnread
           \/ link = "down"
        /\ AdvertUnread => src = "wait_request" /\ sink.tx = <<>>
        /\ \A m \in Unread : IsAdvert(m) => m.objs = pdos
        /\ \A r \in Requests : Offers(r)
    BY DEF SystemInv, CapsCurrent
  <2>3. \A r : Offers(r) => Offers(r)'
    BY <1>1 DEF Offers, srcVars
  <2>4. s.source_caps \in {<<>>, SourceCaps(pdos)} \/ AdvertUnread
    BY <2>2
  <2> QED BY <1>1, <1>2, <1>4, <2>1, <2>2, <2>3, <2>4 DEF CapsCurrent, srcVars
<1> QED BY <1>2, <1>5, <1>6

LEMMA PopAnswerKeeps ==
  ASSUME SystemInv, PopEvent, Head(events) \in SourceMessages, ~IsAdvert(Head(events))
  PROVE  SystemInv'
<1> DEFINE e == Head(events)
           s == HandleMsg(sink, e)
<1>1. /\ link = "up" /\ protocol' = protocol
      /\ UNCHANGED <<phase, configVars>>
      /\ SinkCallback(CallbackOf(e), s, protocol)
  BY Popped, MessageOfSource, StateChangedIsNoMessage
<1>2. sink \in SinkRecords
  BY DEF SystemInv, WireTypes
<1>3. /\ s \in SinkRecords /\ s.source_caps = sink.source_caps
      /\ \/ s.active_voltage = sink.active_voltage /\ s.requested_voltage = sink.requested_voltage
         \/ s.active_voltage = sink.active_voltage /\ s.requested_voltage = 0
         \/ /\ s.active_voltage = sink.requested_voltage /\ s.requested_voltage = 0
            /\ CallbackOf(e) = "power_ready"
      /\ s.tx = sink.tx /\ CallbackOf(e) \notin {"source_caps_changed", "protocol_changed"}
  BY <1>2, AnswerHandled
<1> HIDE DEF s
<1>4. /\ SinkBecomes(s)
      /\ selected_capability' = selected_capability
      /\ led' = IF ~in_config_mode /\ CallbackOf(e) # "none" THEN LedFor(s, protocol) ELSE led
  BY <1>1, <1>3 DEF SinkCallback, ShowsLed
<1>5. /\ sink' = s /\ overlap' \in BOOLEAN /\ crossed' \in BOOLEAN /\ unheard' \in BOOLEAN
      /\ VoltagesAllowed' /\ CapsCurrent'
  BY <1>1, <1>3, <1>4, PoppedQuietly
<1>6. SystemTypeOK'
  BY <1>3, <1>4, <1>5, PoppedTypes
<1>7. WireTypes' /\ LinkInStep'
  BY <1>1, <1>3, <1>5, PoppedKeeps
<1>8. LedTruthful'
  <2> SUFFICES ASSUME phase = "loop" PROVE led' = LedFor(sink, protocol)'
    BY <1>1 DEF LedTruthful
  <2>1. ~in_config_mode /\ led = LedFor(sink, protocol)
    BY DEF SystemInv, SystemTypeOK, LedTruthful
  <2>2. LedFor(sink, protocol)' = LedFor(s, protocol)
    BY <1>1, <1>5 DEF LedFor, IsFixedMode, configVars
  <2>3. CASE CallbackOf(e) # "none"
    BY <1>4, <2>1, <2>2, <2>3
  <2>4. CASE CallbackOf(e) = "none"
    <3>1. s.active_voltage = sink.active_voltage
      BY <1>3, <2>4
    <3> QED BY <1>4, <2>1, <2>2, <2>4, <3>1, LedOfVoltage
  <2> QED BY <2>3, <2>4
<1> QED BY <1>5, <1>6, <1>7, <1>8 DEF SystemInv

LEMMA PopStateKeeps ==
  ASSUME SystemInv, PopEvent, Head(events) = StateChanged
  PROVE  SystemInv'
<1> DEFINE s == UpdateProtocol(sink, link)
           event == IF protocol' # protocol THEN "protocol_changed" ELSE "none"
<1>1. /\ protocol' = ProtocolOf(link)
      /\ UNCHANGED <<phase, configVars>>
      /\ SinkCallback(event, s, protocol')
  BY Popped, MessageOfSource
<1>2. sink \in SinkRecords /\ link \in {"up", "down"}
  BY DEF SystemInv, SystemTypeOK, WireTypes
<1>3. \/ link = "up" /\ s = sink
      \/ /\ link = "down" /\ s \in SinkRecords /\ s.source_caps = <<>> /\ s.active_voltage = 5000
         /\ s.requested_voltage = sink.requested_voltage /\ s.tx = sink.tx
  <2>1. CASE link = "up"
    BY <2>1 DEF UpdateProtocol
  <2>2. CASE link = "down"
    <3>1. link # "up"
      BY <2>2
    <3> HIDE DEF s
    <3> QED BY <1>2, <2>2, <3>1, DetachHandled DEF s
  <2> QED BY <1>2, <2>1, <2>2
<1> HIDE DEF s
<1>4. /\ SinkBecomes(s)
      /\ selected_capability' \in {0, selected_capability}
      /\ led' = IF ~in_config_mode /\ protocol' # protocol THEN LedFor(s, protocol') ELSE led
  BY <1>1 DEF SinkCallback, ShowsLed
<1>5. ~IsAdvert(Head(events))
  BY StateChangedIsNoMessage
<1>6. /\ sink' = s /\ overlap' \in BOOLEAN /\ crossed' \in BOOLEAN /\ unheard' \in BOOLEAN
      /\ VoltagesAllowed' /\ CapsCurrent'
  BY <1>2, <1>3, <1>4, <1>5, PoppedQuietly
<1>7. SystemTypeOK'
  BY <1>2, <1>3, <1>4, <1>6, PoppedTypes
<1>8. WireTypes' /\ LinkInStep'
  BY <1>2, <1>3, <1>6, PoppedKeeps
<1>9. LedTruthful'
  <2> SUFFICES ASSUME phase = "loop" PROVE led' = LedFor(sink, protocol)'
    BY <1>1 DEF LedTruthful
  <2>1. ~in_config_mode /\ led = LedFor(sink, protocol)
    BY DEF SystemInv, SystemTypeOK, LedTruthful
  <2>2. LedFor(sink, protocol)' = LedFor(s, protocol')
    BY <1>1, <1>6 DEF LedFor, IsFixedMode, configVars
  <2>3. CASE protocol' # protocol
    BY <1>4, <2>1, <2>2, <2>3
  <2>4. CASE protocol' = protocol
    <3>1. s.active_voltage = sink.active_voltage
      <4>1. CASE link = "up"
        BY <1>3, <4>1
      <4>2. CASE link = "down"
        <5>1. protocol = "usb_20"
          BY <1>1, <2>4, <4>2 DEF ProtocolOf
        <5> QED BY <1>3, <4>2, <5>1 DEF SystemInv, LinkInStep
      <4> QED BY <1>2, <4>1, <4>2
    <3> QED BY <1>4, <2>1, <2>2, <2>4, <3>1, LedOfVoltage
  <2> QED BY <2>3, <2>4
<1> QED BY <1>6, <1>7, <1>8, <1>9 DEF SystemInv

LEMMA PopKeeps == ASSUME SystemInv, PopEvent PROVE SystemInv'
BY Popped, PopAdvertKeeps, PopAnswerKeeps, PopStateKeeps

-----------------------------------------------------------------------------
(* The source and the timer *)

(* What the source may do to the FIFO *)
Said(m) == m \in SourceMessages /\ Speaks(m)

LEMMA SourceKeeps ==
  ASSUME SystemInv, UNCHANGED <<linkVars, state, appVars>>, sink' \in SinkRecords,
         sink'.active_voltage = sink.active_voltage, pdos' \in Adverts,
         {hardrst', overlap', crossed', unheard'} \subseteq BOOLEAN,
         src' \in {"startup", "wait_request", "transition", "ready", "rejected"},
         rx' = rx \/ \E m : Said(m)
  PROVE  SystemTypeOK' /\ WireTypes' /\ LinkInStep' /\ LedTruthful'
<1>1. /\ pc' = pc /\ link' = link /\ protocol' = protocol /\ events' = events
      /\ UNCHANGED <<state, phase, desired_mode, in_config_mode, mode, selected_capability, led,
                     button_down, button_pressed>>
  BY DEF linkVars, appVars, configVars, buttonVars
<1>2. SystemTypeOK'
  <2>1. sink'.selected_pps_index \in 0 .. 7
    BY DEF SinkRecords
  <2> QED BY <1>1, <2>1 DEF SystemInv, SystemTypeOK
<1>3. WireTypes'
  <2>1. /\ rx \in Seq(SourceMessages) /\ events \in Seq(SourceMessages \cup {StateChanged})
        /\ Len(rx) + Len(events) <= IF link = "up" THEN MaxUnread + 1 ELSE MaxUnread
    BY DEF SystemInv, WireTypes
  <2>2. /\ rx' \in Seq(SourceMessages)
        /\ Len(rx') + Len(events) <= IF link = "up" THEN MaxUnread + 1 ELSE MaxUnread
    <3>1. CASE rx' = rx
      BY <2>1, <3>1
    <3>2. CASE rx' # rx
      <4>1. PICK m : m \in SourceMessages /\ rx' = Append(rx, m) /\ Len(rx) + Len(events) < MaxUnread
        BY <3>2 DEF Said, Speaks
      <4>2. rx' \in Seq(SourceMessages) /\ Len(rx') = Len(rx) + 1 /\ Len(rx) \in Nat /\ Len(events) \in Nat
        BY <2>1, <4>1
      <4> QED BY <4>1, <4>2, QueueAssumption
    <3> QED BY <3>1, <3>2
  <2> QED BY <1>1, <2>1, <2>2 DEF WireTypes
<1>4. LinkInStep'
  BY <1>1 DEF SystemInv, LinkInStep
<1>5. LedTruthful'
  BY <1>1 DEF SystemInv, LedTruthful, LedFor, IsFixedMode
<1> QED BY <1>2, <1>3, <1>4, <1>5

LEMMA SaidUnread ==
  ASSUME SystemInv, UNCHANGED <<linkVars, appVars>>, NEW m, Said(m)
  PROVE  Unread' = Unread \cup {m}
<1>1. rx \in Seq(SourceMessages) /\ rx' = Append(rx, m) /\ m \in SourceMessages /\ events' = events
  BY DEF SystemInv, WireTypes, Said, Speaks, linkVars
<1>2. Range(Append(rx, m)) = Range(rx) \cup {m}
  BY <1>1, RangeOfAppend
<1> QED BY <1>1, <1>2 DEF Unread

LEMMA ReplySaid ==
  ASSUME NEW type \in {"accept", "reject", "wait", "ps_ready"}, Reply(type)
  PROVE  Said(Message(type, <<>>)) /\ ~IsAdvert(Message(type, <<>>))
BY DEF Reply, Said, SourceMessages, IsAdvert, Message

LEMMA AdvertiseKeeps ==
  ASSUME SystemInv, NEW objects \in Adverts, SendCapabilities(objects),
         src \in {"startup", "ready", "rejected"}
  PROVE  SystemInv'
<1> DEFINE m == Message("source_capabilities", objects)
<1>1. /\ ~hardrst /\ rx = <<>> /\ sink.tx = <<>> /\ src' = "wait_request" /\ pdos' = objects
      /\ UNCHANGED <<linkVars, state, appVars, overlap, sink, contract, granted, hardrst, crossed,
                     unheard>>
      /\ Speaks(m)
  BY DEF SendCapabilities, Source
<1>2. m \in SourceMessages /\ m.objs = objects /\ IsAdvert(m)
  BY DEF SourceMessages, Message, IsAdvert, IsMessage
<1>3. Unread' = Unread \cup {m} /\ Said(m)
  BY <1>1, <1>2, SaidUnread DEF Said
<1>4. SystemTypeOK' /\ WireTypes' /\ LinkInStep' /\ LedTruthful'
  <2>1. sink' \in SinkRecords /\ sink'.active_voltage = sink.active_voltage
    BY <1>1 DEF SystemInv, WireTypes
  <2>2. {hardrst', overlap', crossed', unheard'} \subseteq BOOLEAN
    BY <1>1 DEF SystemInv, SystemTypeOK
  <2> QED BY <1>1, <1>3, <2>1, <2>2, SourceKeeps
<1>5. VoltagesAllowed'
  BY <1>1, AllowedFrame DEF SystemInv, VoltagesAllowed, Requests, appVars, configVars
<1>6. CapsCurrent'
  <2> SUFFICES ASSUME ~crossed PROVE CapsCurrent'
    BY <1>1 DEF CapsCurrent
  <2>1. ~AdvertUnread
    BY <1>1 DEF SystemInv, CapsCurrent
  <2>2. AdvertUnread' /\ \A x \in Unread' : IsAdvert(x) => x.objs = objects
    BY <1>2, <1>3, <2>1 DEF AdvertUnread
  <2>3. Requests' = {}
    BY <1>1 DEF Requests, Range
  <2> QED BY <1>1, <2>2, <2>3 DEF CapsCurrent
<1> QED BY <1>4, <1>5, <1>6 DEF SystemInv

(* A request leaves the sink, on its way to the source or lost; r is it.   *)
LEMMA TakenKeeps ==
  ASSUME SystemInv, sink.tx # <<>>, sink' = [sink EXCEPT !.tx = Tail(@)], ~hardrst,
         UNCHANGED <<linkVars, state, appVars, pdos, hardrst, crossed, overlap>>,
         src' \in {"startup", "wait_request", "transition", "ready", "rejected"},
         unheard' \in BOOLEAN,
         rx' = rx \/ \E m : Said(m) /\ ~IsAdvert(m)
  PROVE  /\ SystemTypeOK' /\ WireTypes' /\ LinkInStep' /\ LedTruthful' /\ CapsCurrent'
         /\ Head(sink.tx) \in Requests /\ Requests' \subseteq Requests
         /\ sink'.active_voltage = sink.active_voltage
         /\ sink'.requested_voltage = sink.requested_voltage
<1>1. sink \in SinkRecords /\ pdos \in Adverts
  BY DEF SystemInv, WireTypes
<1>2. /\ sink' \in SinkRecords /\ sink'.source_caps = sink.source_caps
      /\ sink'.active_voltage = sink.active_voltage
      /\ sink'.requested_voltage = sink.requested_voltage /\ sink'.tx = Tail(sink.tx)
  BY <1>1, RequestTaken
<1>3. Head(sink.tx) \in Requests /\ Requests' \subseteq Requests
  <2>1. sink.tx \in Seq(Asked)
    BY <1>1 DEF SinkRecords
  <2> QED BY <1>2, <2>1, HeadAndTail DEF Requests
<1>4. SystemTypeOK' /\ WireTypes' /\ LinkInStep' /\ LedTruthful'
  <2>1. {hardrst', overlap', crossed', unheard'} \subseteq BOOLEAN
    BY DEF SystemInv, SystemTypeOK
  <2> QED BY <1>1, <1>2, <2>1, SourceKeeps
<1>5. \/ Unread' = Unread
      \/ \E m : Unread' = Unread \cup {m} /\ ~IsAdvert(m)
  <2>1. CASE rx' = rx
    BY <2>1 DEF Unread, linkVars
  <2>2. CASE rx' # rx
    BY <2>2, SaidUnread
  <2> QED BY <2>1, <2>2
<1>6. CapsCurrent'
  <2> SUFFICES ASSUME ~crossed PROVE CapsCurrent'
    BY DEF CapsCurrent
  <2>1. ~AdvertUnread
    BY DEF SystemInv, CapsCurrent
  <2>2. ~AdvertUnread' /\ \A m \in Unread' : ~IsAdvert(m)
    BY <1>5, <2>1 DEF AdvertUnread
  <2>3. \A r : Offers(r) => Offers(r)'
    BY DEF Offers
  <2>4. \/ sink.source_caps \in {<<>>, SourceCaps(pdos)}
        \/ link = "down" /\ events = <<StateChanged>>
    BY <2>1 DEF SystemInv, CapsCurrent
  <2>5. \A r \in Requests' : Offers(r)
    BY <1>3 DEF SystemInv, CapsCurrent
  <2> QED BY <1>2, <2>2, <2>3, <2>4, <2>5 DEF CapsCurrent, linkVars
<1> QED BY <1>2, <1>3, <1>4, <1>6

LEMMA GrantedVoltage ==
  ASSUME pdos \in Adverts, NEW r \in Asked, Offers(r), NEW g \in Meanings(r)
  PROVE  g.voltage = r.voltage
<1> DEFINE cap == Capability(pdos[r.obj_pos], r.obj_pos)
<1>1. /\ r.obj_pos \in DOMAIN pdos /\ cap.supply_type = r.supply_type /\ InRange(cap, r.voltage)
  BY DEF Offers
<1>2. /\ cap.supply_type = "fixed" => cap.min_voltage = cap.voltage
      /\ cap.voltage \in Nat
  <2>1. pdos[r.obj_pos] \in PowerDataObjects
    BY <1>1, AdvertsAssumption
  <2>2. PICK l, h, c \in Field :
          pdos[r.obj_pos].low = l /\ pdos[r.obj_pos].high = h /\ pdos[r.obj_pos].current = c
    BY <2>1, ObjectFields
  <2> QED BY <2>2 DEF Capability, Field
<1> HIDE DEF cap
<1>3. g = [supply_type |-> cap.supply_type, obj_pos |-> r.obj_pos,
           voltage |-> IF cap.supply_type = "fixed" THEN cap.voltage ELSE r.voltage,
           current |-> r.current]
  BY <1>1 DEF Meanings, cap
<1>4. g.voltage = IF cap.supply_type = "fixed" THEN cap.voltage ELSE r.voltage
  BY <1>3
<1>5. r.voltage \in Nat
  BY DEF Asked
<1>6. cap.supply_type = "fixed" => r.voltage = cap.voltage
  BY <1>1, <1>2, <1>5 DEF InRange
<1> QED BY <1>4, <1>6

LEMMA AcceptKeeps == ASSUME SystemInv, Accept PROVE SystemInv'
<1>0. PICK r \in Requests : \E g \in Meanings(r) :
        /\ TakesRequest(r) /\ Offers(g)
        /\ granted' = g /\ src' = "transition" /\ Reply("accept")
        /\ UNCHANGED <<disturb, unheard>>
  BY DEF Accept
<1>1. PICK g \in Meanings(r) :
        /\ TakesRequest(r) /\ Offers(g)
        /\ granted' = g /\ src' = "transition" /\ Reply("accept")
        /\ UNCHANGED <<disturb, unheard>>
  BY <1>0
<1>2. /\ sink.tx # <<>> /\ sink' = [sink EXCEPT !.tx = Tail(@)] /\ ~hardrst
      /\ UNCHANGED <<linkVars, state, appVars, pdos, contract, hardrst, crossed, overlap>>
  BY <1>1 DEF TakesRequest, Source
<1>3. /\ SystemTypeOK' /\ WireTypes' /\ LinkInStep' /\ LedTruthful' /\ CapsCurrent'
      /\ Requests' \subseteq Requests
      /\ sink'.active_voltage = sink.active_voltage
      /\ sink'.requested_voltage = sink.requested_voltage
  <2>1. rx' = rx \/ \E m : Said(m) /\ ~IsAdvert(m)
    BY <1>1, ReplySaid
  <2>2. unheard' \in BOOLEAN
    BY <1>1 DEF SystemInv, SystemTypeOK
  <2> QED BY <1>1, <1>2, <2>1, <2>2, TakenKeeps
<1>4. ~crossed => Allowed(g.voltage)
  <2> SUFFICES ASSUME ~crossed PROVE Allowed(g.voltage)
    OBVIOUS
  <2>1. Offers(r) /\ Allowed(r.voltage)
    BY <1>2 DEF SystemInv, CapsCurrent, VoltagesAllowed
  <2>2. r \in Asked /\ pdos \in Adverts
    BY DEF SystemInv, WireTypes, SinkRecords, Requests, Range
  <2> QED BY <2>1, <2>2, GrantedVoltage
<1>5. VoltagesAllowed'
  <2>1. \A v : Allowed(v) => Allowed(v)'
    BY <1>2, AllowedFrame DEF appVars, configVars
  <2> QED BY <1>1, <1>2, <1>3, <1>4, <2>1 DEF SystemInv, VoltagesAllowed
<1> QED BY <1>3, <1>5 DEF SystemInv

(* A request that is refused, put off or lost changes no contract. *)
LEMMA UngrantedKeeps ==
  ASSUME SystemInv, Reject \/ PutOff \/ LoseRequest
  PROVE  SystemInv'
<1>1. /\ sink.tx # <<>> /\ sink' = [sink EXCEPT !.tx = Tail(@)] /\ ~hardrst
      /\ UNCHANGED <<linkVars, state, appVars, pdos, contract, granted, hardrst, crossed, overlap>>
      /\ src' \in {"rejected", src}
      /\ unheard' \in {TRUE, unheard}
      /\ rx' = rx \/ Reply("reject") \/ Reply("wait")
  BY DEF Reject, PutOff, LoseRequest, Refuses, TakesRequest, Source, srcVars
<1>2. /\ SystemTypeOK' /\ WireTypes' /\ LinkInStep' /\ LedTruthful' /\ CapsCurrent'
      /\ Requests' \subseteq Requests
      /\ sink'.active_voltage = sink.active_voltage
      /\ sink'.requested_voltage = sink.requested_voltage
  <2>1. rx' = rx \/ \E m : Said(m) /\ ~IsAdvert(m)
    BY <1>1, ReplySaid
  <2>2. /\ unheard' \in BOOLEAN
        /\ src' \in {"startup", "wait_request", "transition", "ready", "rejected"}
    BY <1>1 DEF SystemInv, SystemTypeOK
  <2> QED BY <1>1, <2>1, <2>2, TakenKeeps
<1>3. VoltagesAllowed'
  <2>1. \A v : Allowed(v) => Allowed(v)'
    BY <1>1, AllowedFrame DEF appVars, configVars
  <2> QED BY <1>1, <1>2, <2>1 DEF SystemInv, VoltagesAllowed
<1> QED BY <1>2, <1>3 DEF SystemInv

LEMMA SwitchedKeeps == ASSUME SystemInv, Switched PROVE SystemInv'
<1> DEFINE m == Message("ps_ready", <<>>)
<1>1. /\ src = "transition" /\ src' = "ready" /\ ~hardrst /\ contract' = granted
      /\ Reply("ps_ready")
      /\ UNCHANGED <<linkVars, state, appVars, sink, pdos, granted, hardrst, disturb, overlap, crossed,
                     unheard>>
  BY DEF Switched, Source
<1>2. Said(m) /\ ~IsAdvert(m)
  BY <1>1, ReplySaid
<1>3. Unread' = Unread \cup {m}
  BY <1>1, <1>2, SaidUnread
<1>4. SystemTypeOK' /\ WireTypes' /\ LinkInStep' /\ LedTruthful'
  <2>1. sink' \in SinkRecords /\ sink'.active_voltage = sink.active_voltage /\ pdos' \in Adverts
    BY <1>1 DEF SystemInv, WireTypes
  <2>2. {hardrst', overlap', crossed', unheard'} \subseteq BOOLEAN
    BY <1>1 DEF SystemInv, SystemTypeOK
  <2> QED BY <1>1, <1>2, <2>1, <2>2, SourceKeeps
<1> HIDE DEF m
<1>5. VoltagesAllowed'
  <2>1. \A v : Allowed(v) => Allowed(v)'
    BY <1>1, AllowedFrame DEF appVars, configVars
  <2> QED BY <1>1, <2>1 DEF SystemInv, VoltagesAllowed, Requests
<1>6. CapsCurrent'
  <2> SUFFICES ASSUME ~crossed PROVE CapsCurrent'
    BY <1>1 DEF CapsCurrent
  <2>1. ~AdvertUnread
    BY <1>1 DEF SystemInv, CapsCurrent
  <2>2. \A x \in Unread' : ~IsAdvert(x)
    BY <1>2, <1>3, <2>1 DEF AdvertUnread
  <2>3. \A r : Offers(r) => Offers(r)'
    BY <1>1 DEF Offers
  <2>4. \/ sink.source_caps \in {<<>>, SourceCaps(pdos)}
        \/ link = "down" /\ events = <<StateChanged>>
    BY <1>1, <2>1 DEF SystemInv, CapsCurrent
  <2>5. Requests' = Requests /\ \A r \in Requests : Offers(r)
    BY <1>1 DEF SystemInv, CapsCurrent, Requests
  <2>6. ~AdvertUnread'
    BY <2>2 DEF AdvertUnread
  <2> QED BY <1>1, <2>2, <2>3, <2>4, <2>5, <2>6 DEF CapsCurrent, linkVars
<1> QED BY <1>4, <1>5, <1>6 DEF SystemInv

LEMMA ResetsKeep == ASSUME SystemInv, Resets PROVE SystemInv'
<1>1. /\ hardrst' = TRUE /\ src' = "startup" /\ contract' = vSafe5V /\ granted' = vSafe5V
      /\ pdos' \in Adverts
      /\ UNCHANGED <<linkVars, state, appVars, sink, rx, overlap, crossed, unheard>>
  BY DEF Resets, Source
<1>2. SystemTypeOK' /\ WireTypes' /\ LinkInStep' /\ LedTruthful'
  <2>1. sink' \in SinkRecords /\ sink'.active_voltage = sink.active_voltage
    BY <1>1 DEF SystemInv, WireTypes
  <2>2. {hardrst', overlap', crossed', unheard'} \subseteq BOOLEAN
    BY <1>1 DEF SystemInv, SystemTypeOK
  <2> QED BY <1>1, <2>1, <2>2, SourceKeeps
<1>3. VoltagesAllowed'
  <2>1. \A v : Allowed(v) => Allowed(v)'
    BY <1>1, AllowedFrame DEF appVars, configVars
  <2>2. Allowed(vSafe5V.voltage)
    BY DEF Allowed, vSafe5V
  <2>3. (Allowed(contract.voltage) /\ Allowed(granted.voltage))'
    BY <1>1, <2>1, <2>2
  <2> QED BY <1>1, <2>1, <2>3 DEF SystemInv, VoltagesAllowed, Requests
<1>4. CapsCurrent'
  BY <1>1 DEF CapsCurrent
<1> QED BY <1>2, <1>3, <1>4 DEF SystemInv

LEMMA PpsDueKeeps == ASSUME SystemInv, PpsDue PROVE SystemInv'
<1>1. /\ UNCHANGED <<linkVars, state, appVars, srcVars, rx, hardrst, disturb, history>>
      /\ sink' = [sink EXCEPT !.pps_due = TRUE]
  BY DEF PpsDue
<1>2. sink \in SinkRecords /\ pdos \in Adverts
  BY DEF SystemInv, WireTypes
<1>3. /\ sink' \in SinkRecords
      /\ sink'.source_caps = sink.source_caps
      /\ sink'.active_voltage = sink.active_voltage
      /\ sink'.requested_voltage = sink.requested_voltage
      /\ sink'.tx = sink.tx
  BY <1>1, <1>2, TimerExpired
<1>4. SystemTypeOK' /\ WireTypes' /\ LinkInStep' /\ LedTruthful'
  <2>1. {hardrst', overlap', crossed', unheard'} \subseteq BOOLEAN
    BY <1>1 DEF SystemInv, SystemTypeOK, history
  <2>2. src' \in {"startup", "wait_request", "transition", "ready", "rejected"} /\ pdos' \in Adverts
    BY <1>1, <1>2 DEF SystemInv, SystemTypeOK, srcVars
  <2> QED BY <1>1, <1>3, <2>1, <2>2, SourceKeeps
<1>5. Requests' = Requests /\ Unread' = Unread
  BY <1>1, <1>3 DEF Requests, Unread, linkVars
<1>6. VoltagesAllowed'
  <2>1. \A v : Allowed(v) => Allowed(v)'
    BY <1>1, AllowedFrame DEF appVars, configVars
  <2> QED BY <1>1, <1>3, <1>5, <2>1 DEF SystemInv, VoltagesAllowed, srcVars, history
<1>7. CapsCurrent'
  <2>1. \A r : Offers(r) => Offers(r)'
    BY <1>1 DEF Offers, srcVars
  <2>2. AdvertUnread' <=> AdvertUnread
    BY <1>5 DEF AdvertUnread
  <2> QED BY <1>1, <1>3, <1>5, <2>1, <2>2 DEF SystemInv, CapsCurrent, srcVars, history, linkVars
<1> QED BY <1>4, <1>6, <1>7 DEF SystemInv

LEMMA NothingKeeps == ASSUME SystemInv, UNCHANGED vars PROVE SystemInv'
<1>1. /\ SourceFrame /\ LinkFrame /\ UNCHANGED <<sink, desired_mode, phase>>
      /\ UNCHANGED <<linkVars, state, sink, appVars, srcVars, rx, hardrst, disturb, history>>
  BY DEF vars, SourceFrame, LinkFrame, linkVars, appVars, configVars, srcVars, history
<1>2. WireTypes' /\ VoltagesAllowed' /\ CapsCurrent'
  BY <1>1, WireTypesFrame, VoltagesAllowedFrame, CapsCurrentFrame DEF SystemInv
<1>3. SystemTypeOK' /\ LinkInStep' /\ LedTruthful'
  BY <1>1 DEF SystemInv, SystemTypeOK, LinkInStep, LedTruthful, LedFor, IsFixedMode, linkVars,
     appVars, configVars, buttonVars, srcVars, history
<1> QED BY <1>2, <1>3 DEF SystemInv


LEMMA InitKeeps == ASSUME Init PROVE SystemInv
<1>1. /\ pc = "hal" /\ link = "down" /\ protocol = "usb_20" /\ events = <<>>
      /\ state = "usb_20" /\ phase = "startup" /\ desired_mode \in Modes /\ in_config_mode = FALSE /\ mode = 0
      /\ selected_capability = 0 /\ button_down = FALSE /\ button_pressed = FALSE
      /\ src = "startup" /\ pdos \in Adverts /\ contract = vSafe5V /\ granted = vSafe5V
      /\ rx = <<>> /\ hardrst = FALSE /\ overlap = FALSE /\ crossed = FALSE /\ unheard = FALSE
  BY DEF Init
<1>2. sink \in SinkRecords
  <2>1. PICK capabilities : capabilities = {<<>>} \cup {SourceCaps(a) : a \in Adverts}
    OBVIOUS
  <2>2. PICK queues : queues = Seq(Asked)
    OBVIOUS
  <2>3. <<>> \in capabilities
    BY <2>1
  <2>4. <<>> \in Seq(Asked)
    OBVIOUS
  <2>5. sink \in [ source_caps : capabilities, requested_voltage : Nat,
                  requested_max_current : Nat, active_voltage : Nat, active_max_current : Nat,
                  selected_pps_index : 0 .. 7, pps_due : BOOLEAN, tx : queues ]
    BY <2>2, <2>3, <2>4 DEF Init, SinkInit
  <2> QED BY <2>1, <2>2, <2>5 DEF SinkRecords
<1>3. /\ sink.source_caps = <<>> /\ sink.tx = <<>> /\ sink.active_voltage = 5000
      /\ sink.requested_voltage = 0 /\ sink.selected_pps_index = 0
  BY DEF Init, SinkInit
<1>4. SystemTypeOK
  <2>1. Len(events) <= QueueSize
    <3>1. Len(<<>>) = 0
      OBVIOUS
    <3> QED BY <1>1, <3>1, QueueAssumption
  <2>2. mode \in 0 .. 5 /\ sink.selected_pps_index \in 0 .. 7 /\ selected_capability \in 0 .. 6
    BY <1>1, <1>3
  <2> QED BY <1>1, <2>1, <2>2 DEF SystemTypeOK
<1>5. WireTypes
  <2>1. Len(<<>>) = 0 /\ \A S : <<>> \in Seq(S)
    OBVIOUS
  <2> QED BY <1>1, <1>2, <2>1, QueueAssumption DEF WireTypes
<1>6. LinkInStep
  <2>1. DOMAIN events = {} /\ ProtocolOf(link) = "usb_20"
    BY <1>1 DEF ProtocolOf
  <2> QED BY <1>1, <1>3, <2>1 DEF LinkInStep
<1>7. VoltagesAllowed
  <2>1. Allowed(vSafe5V.voltage) /\ Allowed(5000)
    BY DEF Allowed, vSafe5V
  <2>2. Requests = {}
    BY <1>3 DEF Requests, Range
  <2> QED BY <1>1, <1>3, <2>1, <2>2 DEF VoltagesAllowed
<1>8. CapsCurrent
  <2>1. Requests = {} /\ Unread = {} /\ ~AdvertUnread
    BY <1>1, <1>3 DEF Requests, Unread, AdvertUnread, Range
  <2> QED BY <1>3, <2>1 DEF CapsCurrent
<1>9. LedTruthful
  BY <1>1 DEF LedTruthful
<1> QED BY <1>4, <1>5, <1>6, <1>7, <1>8, <1>9 DEF SystemInv

LEMMA StepKeeps ==
  ASSUME SystemInv, AttachmentKnown, [Next]_vars
  PROVE  SystemInv'
<1>1. CASE UNCHANGED vars \/ Saved
  BY <1>1, NothingKeeps DEF Saved
<1>2. CASE LinkAttach \/ LinkDeliver \/ LinkReset \/ LinkTimeout \/ LinkReturn
  BY <1>2, DeliverKeeps, ResetKeeps, ReturnKeeps
<1>3. CASE PopEvent \/ SinkPollEnds
  BY <1>3, PopKeeps, PollEndsKeeps
<1>4. CASE HalPoll \/ StartupEnds \/ ConfigRelease \/ ConfigSelect
  BY <1>4, LoopsKeep
<1>5. CASE LoopButton
  BY <1>5, LoopButtonKeeps
<1>6. CASE PpsDue
  BY <1>6, PpsDueKeeps
<1>7. CASE Advertise
  <2>1. pdos \in Adverts
    BY DEF SystemInv, WireTypes
  <2> QED BY <1>7, <2>1, AdvertiseKeeps DEF Advertise
<1>8. CASE AdvertiseAgain
  BY <1>8, AdvertiseKeeps DEF AdvertiseAgain
<1>9. CASE Accept \/ Reject \/ PutOff \/ LoseRequest
  BY <1>9, AcceptKeeps, UngrantedKeeps
<1>10. CASE Switched
  BY <1>10, SwitchedKeeps
<1>11. CASE HardReset \/ GiveUp
  BY <1>11, ResetsKeep DEF HardReset, GiveUp
<1> QED BY <1>1, <1>2, <1>3, <1>4, <1>5, <1>6, <1>7, <1>8, <1>9, <1>10, <1>11 DEF Next, Firmware

-----------------------------------------------------------------------------
(* The theorems *)

(* The inductive invariant of firmware, sink, link and source: types, the  *)
(* queue and the attachment in step, only allowed voltages anywhere between*)
(* program and source, capabilities that are the source's or about to be.  *)
THEOREM SystemInvariance == Spec => []SystemInv
<1>1. Init => SystemInv
  BY InitKeeps
<1>2. SystemInv /\ AttachmentKnown /\ [Next]_vars => SystemInv'
  BY StepKeeps
<1> QED BY <1>1, <1>2, AttachmentInvariance, PTL DEF Spec

(* Every variable of main.cpp and pd_sink.cpp has its type, the event queue*)
(* never overflows, and in_config_mode says in which loop the program is.  *)
THEOREM SystemTypes == Spec => []SystemTypeOK
<1>1. SystemInv => SystemTypeOK
  BY DEF SystemInv
<1> QED BY <1>1, SystemInvariance, PTL

(* README.md:49 and 26: whatever the supplies, the presses of the button   *)
(* and the order of the messages, the source supplies 5V in configuration  *)
(* mode, else what the mode allows, and never more than 20V in mode 100.   *)
THEOREM OutputStaysAllowed == Spec => []OutputAllowed
<1>1. SystemInv => OutputAllowed
  <2> SUFFICES ASSUME SystemInv, ~crossed PROVE OutputAllowed
    BY DEF OutputAllowed
  <2>1. Allowed(contract.voltage)
    BY DEF SystemInv, VoltagesAllowed
  <2>2. in_config_mode => phase # "loop"
    BY DEF SystemInv, SystemTypeOK
  <2> QED BY <2>1, <2>2 DEF OutputAllowed, Allowed
<1> QED BY <1>1, SystemInvariance, PTL

(* Every request of pd_sink.cpp:149-260 on its way to the source is one    *)
(* that the objects the source advertises now can fulfil.                  *)
THEOREM RequestsHonourable == Spec => []RequestHonourable
<1>1. SystemInv => RequestHonourable
  BY DEF SystemInv, CapsCurrent, RequestHonourable
<1> QED BY <1>1, SystemInvariance, PTL

(* update_led (main.cpp): in the regular loop the LED shows protocol,      *)
(* active voltage and whether it is the desired one.                       *)
THEOREM LedAlwaysTruthful == Spec => []LedTruthful
<1>1. SystemInv => LedTruthful
  BY DEF SystemInv
<1> QED BY <1>1, SystemInvariance, PTL

LEMMA StepUsesLink ==
  ASSUME SystemInv, [Next]_vars
  PROVE  [UsesLink!LinkNext]_(UsesLink!linkVars)
<1> USE DEF UsesLink!linkVars, UsesLink!LinkNext
<1>1. CASE LinkDeliver
  <2>1. rx # <<>> /\ Deliver(Head(rx))
    BY <1>1 DEF LinkDeliver
  <2>2. Head(rx) \in SourceMessages
    BY <2>1 DEF SystemInv, WireTypes
  <2>3. UsesLink!Deliver(Head(rx))
    BY <2>1 DEF Deliver, UsesLink!Deliver, AddItem, UsesLink!AddItem, StateChanged, UsesLink!StateChanged
  <2> QED BY <2>2, <2>3 DEF SourceMessages
<1>2. CASE LinkReset \/ LinkTimeout
  BY <1>2 DEF LinkReset, LinkTimeout, EstablishRetryWait, Reset, UsesLink!Reset, StateChanged, UsesLink!StateChanged
<1>3. CASE LinkReturn \/ LinkAttach
  BY <1>3 DEF LinkReturn, LinkAttach, Return, UsesLink!Return
<1>4. CASE PopEvent
  BY <1>4 DEF PopEvent, Pop, UsesLink!Pop, IsMessage, UsesLink!IsMessage, ProtocolOf, UsesLink!ProtocolOf
<1>5. CASE HalPoll
  <2>1. pc = "hal" /\ events = <<>> /\ UNCHANGED <<link, protocol, events>> /\ pc' \in {"hal", "poll"}
    BY <1>5 DEF HalPoll, App, SystemInv, LinkInStep
  <2> QED BY <2>1 DEF UsesLink!Idle
<1>6. CASE SinkPollEnds \/ StartupEnds \/ ConfigRelease \/ ConfigSelect \/ LoopButton
  BY <1>6 DEF SinkPollEnds, NoEventLeft, StartupEnds, ConfigRelease, ConfigSelect, LoopButton, AtTail, App
<1>7. CASE UNCHANGED linkVars
  BY <1>7 DEF linkVars
<1>8. UNCHANGED linkVars
      \/ LinkDeliver \/ LinkReset \/ LinkTimeout \/ LinkReturn \/ LinkAttach
      \/ PopEvent \/ HalPoll
      \/ SinkPollEnds \/ StartupEnds \/ ConfigRelease \/ ConfigSelect \/ LoopButton
  <2>1. CASE UNCHANGED vars \/ Saved
    BY <2>1 DEF Saved, vars
  <2>2. CASE PpsDue
    BY <2>2 DEF PpsDue
  <2>3. CASE Advertise \/ AdvertiseAgain
    BY <2>3 DEF Advertise, AdvertiseAgain, SendCapabilities, Source
  <2>4. CASE Accept \/ Reject \/ PutOff \/ LoseRequest
    BY <2>4 DEF Accept, Reject, PutOff, LoseRequest, Refuses, TakesRequest, Source
  <2>5. CASE Switched \/ HardReset \/ GiveUp
    BY <2>5 DEF Switched, HardReset, GiveUp, Resets, Source
  <2> QED BY <2>1, <2>2, <2>3, <2>4, <2>5 DEF Next, Firmware
<1> QED BY <1>1, <1>2, <1>3, <1>4, <1>5, <1>6, <1>7, <1>8

(* Firmware, sink and source use the driver the way PdLink says its client *)
(* does: what the driver's own proof shows of PdLink holds here.           *)
THEOREM LinkUsedAsPromised == Spec => LinkUsed
<1>1. Init => UsesLink!LinkInit
  BY DEF Init, UsesLink!LinkInit
<1>2. SystemInv /\ [Next]_vars => [UsesLink!LinkNext]_(UsesLink!linkVars)
  BY StepUsesLink
<1> QED BY <1>1, <1>2, SystemInvariance, PTL DEF Spec, LinkUsed, UsesLink!LinkSpec

-----------------------------------------------------------------------------
(* Every advert is answered *)

(* Supplies that request_power_from_capability can ask: fixed or           *)
(* programmable, of 25mA and more, and not all of it above 20V.  Finding 5 *)
(* in the README is what happens with others.                              *)
CanBeChosen(cap) ==
  /\ cap.supply_type \in {"fixed", "pps"} /\ cap.max_current >= 25
  /\ cap.min_voltage <= cap.voltage /\ cap.min_voltage <= 20000

PlainSources ==
  \A a \in Adverts : \A k \in DOMAIN a :
    a[k].supply_type # "apdo" => CanBeChosen(Capability(a[k], k))

LEMMA PlainCaps ==
  ASSUME PlainSources, NEW a \in Adverts, NEW i \in DOMAIN SourceCaps(a)
  PROVE  SourceCaps(a)[i] \in Capabilities /\ CanBeChosen(SourceCaps(a)[i])
<1> DEFINE cap == SourceCaps(a)[i]
<1>1. cap \in Capabilities /\ FromObject(a, cap)
  BY CapsType
<1>2. cap.supply_type \in Supplies
  BY <1>1 DEF Capabilities
<1> HIDE DEF cap
<1>3. PICK k \in DOMAIN a : k = cap.obj_pos /\ cap = Capability(a[k], k)
  BY <1>1 DEF FromObject
<1>4. a[k].supply_type # "apdo"
  BY <1>2, <1>3 DEF Capability, Supplies
<1>5. CanBeChosen(Capability(a[k], k))
  BY <1>4 DEF PlainSources
<1>6. CanBeChosen(cap)
  BY <1>3, <1>5
<1> QED BY <1>1, <1>6 DEF cap

(* The capability that a source puts first *)
LEMMA FirstCap ==
  ASSUME NEW a \in Adverts
  PROVE  /\ 1 \in DOMAIN SourceCaps(a)
         /\ SourceCaps(a)[1].min_voltage = 5000 /\ SourceCaps(a)[1].voltage = 5000
<1>1. /\ SourceCaps(a)[1] = Capability(a[1], 1)
      /\ SourceCaps(a) \in Seq(Capabilities) /\ Len(SourceCaps(a)) \in 1 .. 7
  BY CapsType
<1>2. a[1].supply_type = "fixed" /\ a[1].low = 100
  BY AdvertsAssumption DEF IsFixed
<1>3. Capability(a[1], 1).min_voltage = 5000 /\ Capability(a[1], 1).voltage = 5000
  BY <1>2 DEF Capability
<1> QED BY <1>1, <1>3

(* What is asked for when capabilities have arrived is in the range of one *)
(* of them.                                                                *)
LEMMA DesiredOffered ==
  ASSUME PlainSources, desired_mode \in Modes, in_config_mode \in BOOLEAN,
         NEW a \in Adverts, NEW s, s.source_caps = SourceCaps(a)
  PROVE  \E i \in DOMAIN SourceCaps(a) : InRange(SourceCaps(a)[i], DesiredVoltage(s))
<1> DEFINE caps == SourceCaps(a)
           v == DesiredVoltage(s)
<1>1. \A i \in DOMAIN caps : caps[i] \in Capabilities /\ CanBeChosen(caps[i])
  BY PlainCaps
<1>2. 1 \in DOMAIN caps /\ caps[1].min_voltage = 5000 /\ caps[1].voltage = 5000
  BY FirstCap
<1>3. InRange(caps[1], 5000)
  BY <1>2 DEF InRange
<1>4. CASE in_config_mode
  <2>1. v = 5000
    BY <1>4 DEF DesiredVoltage
  <2> QED BY <1>2, <1>3, <2>1
<1>5. CASE ~in_config_mode /\ desired_mode = 0
  <2>1. v = 5000
    BY <1>2, <1>5 DEF DesiredVoltage, IsFixedMode
  <2> QED BY <1>2, <1>3, <2>1
<1>6. CASE ~in_config_mode /\ desired_mode = 100
  <2> DEFINE V == {5000} \cup {cap.voltage : cap \in Range(caps)}
  <2>1. v = Min({20000, Max(V)})
    BY <1>6 DEF DesiredVoltage, IsFixedMode
  <2>2. \A w \in V : w = 5000 \/ \E i \in DOMAIN caps : w = caps[i].voltage
    BY DEF Range
  <2>3. \A i \in DOMAIN caps : caps[i].voltage \in Nat /\ caps[i].voltage <= TopVoltage
    <3> SUFFICES ASSUME NEW i \in DOMAIN caps
                 PROVE  caps[i].voltage \in Nat /\ caps[i].voltage <= TopVoltage
      OBVIOUS
    <3>1. caps[i] \in Capabilities /\ FromObject(a, caps[i])
      BY <1>1, CapsType
    <3> QED BY <3>1, VoltageBound
  <2>4. 5000 \in Nat /\ 5000 <= TopVoltage
    BY DEF TopVoltage
  <2>5. V \in SUBSET Nat /\ V # {} /\ \A w \in V : w <= TopVoltage
    <3>1. 5000 \in V
      OBVIOUS
    <3> HIDE DEF V
    <3> QED BY <2>2, <2>3, <2>4, <3>1
  <2> HIDE DEF V
  <2>6. Max(V) \in V
    BY ONLY <2>5, TopVoltageNat, MaxIsGreatest, Zenon
  <2>7. PICK i \in DOMAIN caps : Max(V) = caps[i].voltage
    BY <1>2, <2>2, <2>6
  <2>8. caps[i].min_voltage \in Nat /\ caps[i].voltage \in Nat
        /\ caps[i].min_voltage <= caps[i].voltage /\ caps[i].min_voltage <= 20000
    BY <1>1 DEF CanBeChosen, Capabilities
  <2> HIDE DEF v, caps
  <2>9. v \in {20000, caps[i].voltage} /\ v <= caps[i].voltage
    BY <2>1, <2>7, <2>8, MinOfPair
  <2>10. InRange(caps[i], v)
    BY <2>8, <2>9 DEF InRange
  <2> QED BY <2>10 DEF v, caps
<1>7. CASE ~in_config_mode /\ IsFixedMode
  <2>1. CASE \E cap \in Range(caps) : InRange(cap, desired_mode * 1000)
    <3>1. v = desired_mode * 1000
      BY <1>7, <2>1 DEF DesiredVoltage, IsFixedMode
    <3> QED BY <2>1, <3>1 DEF Range
  <2>2. CASE ~\E cap \in Range(caps) : InRange(cap, desired_mode * 1000)
    <3>1. v = 5000
      BY <1>7, <2>2 DEF DesiredVoltage, IsFixedMode
    <3> QED BY <1>2, <1>3, <3>1
  <2> QED BY <2>1, <2>2
<1> QED BY <1>4, <1>5, <1>6, <1>7 DEF IsFixedMode

(* request_power sends a request if one of the capabilities offers the     *)
(* voltage.                                                                *)
LEMMA RequestMade ==
  ASSUME PlainSources, NEW s \in SinkRecords, NEW v \in Nat,
         \E i \in DOMAIN s.source_caps : InRange(s.source_caps[i], v)
  PROVE  \E r : RequestPower(s, v).tx = Append(s.tx, r)
<1> DEFINE caps == s.source_caps
           fixed == Matching(s, "fixed", v)
           pps == Matching(s, "pps", v)
           index == IF fixed # {} THEN Min(fixed) ELSE Min(pps)
<1>1. \A i \in DOMAIN caps : caps[i] \in Capabilities /\ CanBeChosen(caps[i]) /\ i \in 1 .. 7
  <2> SUFFICES ASSUME NEW i \in DOMAIN caps
               PROVE  caps[i] \in Capabilities /\ CanBeChosen(caps[i]) /\ i \in 1 .. 7
    OBVIOUS
  <2>1. PICK a \in Adverts : caps = SourceCaps(a)
    BY CapOfSink
  <2>2. i \in DOMAIN SourceCaps(a)
    BY <2>1
  <2> QED BY <2>1, <2>2, PlainCaps, CapOfSink
<1>2. fixed \in SUBSET Nat /\ pps \in SUBSET Nat
  BY <1>1 DEF Matching
<1>3. fixed \cup pps # {}
  <2>1. PICK i \in DOMAIN caps : InRange(caps[i], v)
    OBVIOUS
  <2>2. caps[i].supply_type \in {"fixed", "pps"}
    BY <1>1 DEF CanBeChosen
  <2> QED BY <2>1, <2>2 DEF Matching
<1>4. index \in fixed \cup pps
  <2>1. CASE fixed # {}
    BY <1>2, <2>1, MinIsLeast
  <2>2. CASE fixed = {}
    BY <1>2, <1>3, <2>2, MinIsLeast
  <2> QED BY <2>1, <2>2
<1>5. /\ index \in DOMAIN caps /\ InRange(caps[index], v)
      /\ caps[index].supply_type \in {"fixed", "pps"}
  BY <1>4 DEF Matching
<1>6. RequestPower(s, v) = RequestPowerFromCapability(s, index, v, caps[index].max_current)
  BY <1>3 DEF RequestPower
<1> HIDE DEF index
<1>7. caps[index].max_current \in 25 .. caps[index].max_current
  BY <1>1, <1>5 DEF CanBeChosen, Capabilities
<1>8. CanRequest(s, index, v, caps[index].max_current)
  BY <1>5, <1>7 DEF CanRequest
<1> DEFINE r == Request(caps[index], v, caps[index].max_current)
<1>9. RequestPowerFromCapability(s, index, v, caps[index].max_current).tx = Append(s.tx, r)
  BY <1>8 DEF RequestPowerFromCapability, SinkRecords
<1> QED BY <1>6, <1>9

(* A source that has been reset starts anew. *)
ResetStartsAnew == hardrst => src = "startup"

AnswerInv == SystemInv /\ ResetStartsAnew /\ CapsAnswered

(* The ways in which a step keeps the promise: the source does not come to *)
(* wait by it, and what it has to wait for is still on its way.            *)
LEMMA StillAnswered ==
  ASSUME AnswerInv, src' = src, hardrst' = hardrst, AdvertUnread => AdvertUnread',
         sink.tx # <<>> => sink'.tx # <<>>, unheard => unheard' \/ sink'.tx # <<>>
  PROVE  ResetStartsAnew' /\ CapsAnswered'
BY DEF AnswerInv, ResetStartsAnew, CapsAnswered

LEMMA AppendNotEmpty ==
  ASSUME NEW S, NEW q \in Seq(S), NEW r \in S
  PROVE  Append(q, r) # <<>> /\ Len(Append(q, r)) = Len(q) + 1 /\ Len(q) \in Nat
<1>1. Len(Append(q, r)) = Len(q) + 1 /\ Len(q) \in Nat
  OBVIOUS
<1> QED BY <1>1

(* A step in which the program asks for something or keeps quiet *)
LEMMA AskingAnswers ==
  ASSUME AnswerInv, NEW v, Asks(sink, sink', v), SinkBecomes(sink'),
         src' = src, hardrst' = hardrst, AdvertUnread => AdvertUnread'
  PROVE  ResetStartsAnew' /\ CapsAnswered'
<1>1. sink.tx \in Seq(Asked) /\ unheard \in BOOLEAN
  BY DEF AnswerInv, SystemInv, SystemTypeOK, WireTypes, SinkRecords
<1>2. CASE sink' = sink
  <2>1. ~(Len(sink'.tx) > Len(sink.tx))
    BY <1>1, <1>2
  <2>2. unheard' = unheard
    BY <1>1, <2>1 DEF SinkBecomes
  <2> QED BY <1>2, <2>2, StillAnswered
<1>3. CASE sink' # sink
  <2>1. PICK r \in Asked : sink'.tx = Append(sink.tx, r)
    BY <1>3 DEF Asks
  <2>2. sink'.tx # <<>>
    BY <1>1, <2>1, AppendNotEmpty
  <2> QED BY <2>2, StillAnswered
<1> QED BY <1>2, <1>3

LEMMA DeliveredUnread ==
  ASSUME SystemInv, LinkDeliver, AdvertUnread
  PROVE  AdvertUnread'
<1> DEFINE m == Head(rx)
           Events == SourceMessages \cup {StateChanged}
<1>1. /\ rx # <<>> /\ m \in SourceMessages /\ rx' = Tail(rx)
      /\ \/ events' = Append(events, m)
         \/ events = <<>> /\ events' = <<StateChanged, m>>
  BY Delivered
<1>2. rx \in Seq(SourceMessages) /\ events \in Seq(Events)
  BY DEF SystemInv, WireTypes
<1>3. Range(rx) = {m} \cup Range(Tail(rx))
  BY <1>1, <1>2, HeadAndTail
<1>4. Range(events) \cup {m} \subseteq Range(events')
  <2>1. CASE events' = Append(events, m)
    <3>1. m \in Events
      BY <1>1
    <3> HIDE DEF m, Events
    <3> QED BY <1>2, <2>1, <3>1, RangeOfAppend
  <2>2. CASE events = <<>> /\ events' = <<StateChanged, m>>
    BY <2>2 DEF Range
  <2> QED BY <1>1, <2>1, <2>2
<1> QED BY <1>1, <1>3, <1>4 DEF AdvertUnread, Unread

LEMMA PopAnswers ==
  ASSUME PlainSources, AnswerInv, PopEvent
  PROVE  ResetStartsAnew' /\ CapsAnswered'
<1> DEFINE e == Head(events)
<1>1. /\ UNCHANGED <<hardrst, srcVars>> /\ Unread = {e} \cup Unread' /\ pc = "events"
  BY Popped DEF AnswerInv
<1>2. /\ sink \in SinkRecords /\ sink.tx \in Seq(Asked) /\ desired_mode \in Modes
      /\ in_config_mode \in BOOLEAN /\ unheard \in BOOLEAN /\ link \in {"up", "down"}
  BY DEF AnswerInv, SystemInv, SystemTypeOK, WireTypes, SinkRecords
<1>3. CASE IsAdvert(e)
  <2> DEFINE s == HandleMsg(sink, e)
             v == DesiredVoltage(s)
  <2>1. e \in SourceMessages /\ SinkCallback(CallbackOf(e), s, protocol)
    BY <1>3, Popped, StateChangedIsNoMessage DEF AnswerInv
  <2>2. /\ s \in SinkRecords /\ s.source_caps = SourceCaps(e.objs) /\ s.tx = sink.tx
        /\ CallbackOf(e) = "source_caps_changed" /\ e.objs \in Adverts
    BY <1>2, <1>3, <2>1, AdvertHandled, MessageOfSource
  <2> HIDE DEF s, e
  <2>3. v \in Nat
    BY <1>1, <2>2, DesiredAllowed DEF AnswerInv, SystemInv
  <2>4. \E i \in DOMAIN s.source_caps : InRange(s.source_caps[i], v)
    BY <1>2, <2>2, DesiredOffered
  <2>5. sink' = RequestPower(s, v)
    BY <2>1, <2>2 DEF SinkCallback, OnSourceCapsChanged, SinkBecomes
  <2> HIDE DEF v
  <2>6. PICK r : sink'.tx = Append(sink.tx, r)
    BY <2>2, <2>3, <2>4, <2>5, RequestMade
  <2>7. sink'.tx # <<>>
    <3>1. Len(sink'.tx) = Len(sink.tx) + 1 /\ Len(sink.tx) \in Nat
      BY <1>2, <2>6
    <3> QED BY <3>1
  <2> QED BY <1>1, <2>7 DEF AnswerInv, ResetStartsAnew, CapsAnswered, srcVars
<1>4. CASE ~IsAdvert(e)
  <2>1. AdvertUnread => AdvertUnread'
    BY <1>1, <1>4 DEF AdvertUnread
  <2>2. \E s : SinkBecomes(s) /\ s.tx = sink.tx
    <3>1. CASE e \in SourceMessages /\ SinkCallback(CallbackOf(e), HandleMsg(sink, e), protocol)
      BY <1>2, <1>4, <3>1, AnswerHandled DEF SinkCallback
    <3>2. CASE SinkCallback(IF protocol' # protocol THEN "protocol_changed" ELSE "none",
                            UpdateProtocol(sink, link), protocol')
      <4>1. SinkBecomes(UpdateProtocol(sink, link))
        BY <3>2 DEF SinkCallback
      <4>2. UpdateProtocol(sink, link).tx = sink.tx
        BY <1>2 DEF UpdateProtocol, SinkRecords
      <4> QED BY <4>1, <4>2
    <3> QED BY <3>1, <3>2, Popped DEF AnswerInv
  <2>3. PICK s : SinkBecomes(s) /\ s.tx = sink.tx
    BY <2>2
  <2>4. ~(Len(s.tx) > Len(sink.tx))
    BY <1>2, <2>3
  <2>5. sink'.tx = sink.tx /\ unheard' = unheard
    BY <1>2, <2>3, <2>4 DEF SinkBecomes
  <2> QED BY <1>1, <2>1, <2>5, StillAnswered DEF srcVars
<1> QED BY <1>3, <1>4

LEMMA LoopButtonAnswers ==
  ASSUME AnswerInv, LoopButton
  PROVE  ResetStartsAnew' /\ CapsAnswered'
<1>1. UNCHANGED <<events, srcVars, rx, hardrst>> /\ (AdvertUnread => AdvertUnread')
  BY DEF LoopButton, AtTail, App, AdvertUnread, Unread
<1>2. sink \in SinkRecords /\ desired_mode \in Modes /\ selected_capability \in 0 .. 6
  BY DEF AnswerInv, SystemInv, SystemTypeOK, WireTypes
<1>3. CASE UNCHANGED <<sink, selected_capability, history>>
  BY <1>1, <1>3, StillAnswered DEF srcVars, history
<1>4. CASE SwitchVoltage
  <2> DEFINE v == sink.source_caps[NextFixed(sink.source_caps) + 1].voltage
  <2>1. CASE UNCHANGED <<sink, selected_capability, history>>
    BY <1>3, <2>1
  <2>2. CASE SinkBecomes(sink)
    <3>1. SinkBecomes(sink') /\ Asks(sink, sink', 0)
      BY <1>2, <2>2, AsksNothing DEF SinkBecomes
    <3> QED BY <1>1, <3>1, AskingAnswers DEF srcVars
  <2>3. CASE sink.source_caps # <<>> /\ SinkBecomes(RequestPower(sink, v))
    <3>1. v \in Nat
      BY <1>2, <2>3, NextVoltage
    <3> HIDE DEF v
    <3>2. sink' = RequestPower(sink, v) /\ SinkBecomes(sink')
      BY <2>3 DEF SinkBecomes
    <3>3. Asks(sink, sink', v)
      BY <1>2, <3>1, <3>2, RequestPowerAsks
    <3> QED BY <1>1, <3>2, <3>3, AskingAnswers DEF srcVars
  <2> QED BY <1>4, <2>1, <2>2, <2>3 DEF SwitchVoltage
<1> QED BY <1>3, <1>4 DEF LoopButton

LEMMA StepAnswers ==
  ASSUME PlainSources, AnswerInv, AttachmentKnown, [Next]_vars
  PROVE  ResetStartsAnew' /\ CapsAnswered'
<1> USE DEF AnswerInv
<1>1. CASE UNCHANGED vars \/ Saved
  BY <1>1, StillAnswered DEF Saved, vars, srcVars, history, linkVars, AdvertUnread, Unread
<1>2. CASE LinkDeliver
  <2>1. UNCHANGED <<sink, srcVars, hardrst, history>>
    BY <1>2 DEF LinkDeliver, Link
  <2> QED BY <1>2, <2>1, DeliveredUnread, StillAnswered DEF srcVars, history
<1>3. CASE LinkReset \/ LinkTimeout
  <2>1. src' = src /\ hardrst' = FALSE
    BY <1>3 DEF LinkReset, LinkTimeout, EstablishRetryWait, Link, srcVars
  <2>2. src # "wait_request"
    BY <1>3 DEF LinkReset, LinkTimeout, ResetStartsAnew, AttachmentKnown
  <2> QED BY <2>1, <2>2 DEF ResetStartsAnew, CapsAnswered
<1>4. CASE LinkReturn \/ LinkAttach
  BY <1>4, StillAnswered DEF LinkReturn, LinkAttach, Return, Link, srcVars, history, AdvertUnread, Unread
<1>5. CASE PopEvent
  BY <1>5, PopAnswers
<1>6. CASE SinkPollEnds
  <2>1. /\ UNCHANGED <<events, srcVars, rx, hardrst>> /\ SinkBecomes(KeepAlive(sink))
    BY <1>6 DEF SinkPollEnds, Link
  <2>2. sink \in SinkRecords /\ desired_mode \in Modes
    BY DEF SystemInv, SystemTypeOK, WireTypes
  <2>3. sink' = KeepAlive(sink) /\ SinkBecomes(sink')
    BY <2>1 DEF SinkBecomes
  <2>4. Asks(sink, sink', sink.active_voltage)
    BY <2>2, <2>3, KeepAliveAsks
  <2> QED BY <2>1, <2>3, <2>4, AskingAnswers DEF srcVars, AdvertUnread, Unread
<1>7. CASE HalPoll \/ StartupEnds \/ ConfigRelease \/ ConfigSelect
  BY <1>7, LoopsFrame, StillAnswered DEF SystemInv, SourceFrame, LinkFrame, AdvertUnread, Unread
<1>8. CASE LoopButton
  BY <1>8, LoopButtonAnswers
<1>9. CASE PpsDue
  <2>1. sink'.tx = sink.tx
    BY <1>9 DEF PpsDue, SystemInv, WireTypes, SinkRecords
  <2> QED BY <1>9, <2>1, StillAnswered DEF PpsDue, srcVars, history, linkVars, AdvertUnread, Unread
<1>10. CASE Advertise \/ AdvertiseAgain
  <2>1. PICK objects \in Adverts : SendCapabilities(objects)
    BY <1>10 DEF Advertise, AdvertiseAgain, SystemInv, WireTypes
  <2> DEFINE m == Message("source_capabilities", objects)
  <2>2. m \in SourceMessages /\ IsAdvert(m)
    BY DEF SourceMessages, Message, IsAdvert, IsMessage
  <2>3. UNCHANGED <<linkVars, appVars>> /\ Said(m) /\ ~hardrst /\ hardrst' = hardrst
    BY <2>1, <2>2 DEF SendCapabilities, Source, Said
  <2>4. AdvertUnread'
    BY <2>2, <2>3, SaidUnread DEF AdvertUnread
  <2> QED BY <2>3, <2>4 DEF ResetStartsAnew, CapsAnswered
<1>11. CASE Accept \/ Reject \/ Switched
  <2>1. ~hardrst' /\ src' # "wait_request"
    BY <1>11 DEF Accept, Reject, Switched, Refuses, TakesRequest
  <2> QED BY <2>1 DEF ResetStartsAnew, CapsAnswered
<1>12. CASE PutOff \/ LoseRequest
  <2>1. ~hardrst' /\ unheard'
    BY <1>12 DEF PutOff, LoseRequest, Refuses, TakesRequest
  <2> QED BY <2>1 DEF ResetStartsAnew, CapsAnswered
<1>13. CASE HardReset \/ GiveUp
  <2>1. src' = "startup"
    BY <1>13 DEF HardReset, GiveUp, Resets
  <2> QED BY <2>1 DEF ResetStartsAnew, CapsAnswered
<1> QED BY <1>1, <1>2, <1>3, <1>4, <1>5, <1>6, <1>7, <1>8, <1>9, <1>10, <1>11, <1>12, <1>13
     DEF Next, Firmware

(* main.cpp:148: a source of fixed and programmable supplies that waits    *)
(* for a request gets one: its advert is still to be handled, or the       *)
(* request is under way or was lost.                                       *)
THEOREM EveryAdvertAnswered == PlainSources => (Spec => []CapsAnswered)
<1> SUFFICES ASSUME PlainSources PROVE Spec => []CapsAnswered
  OBVIOUS
<1>1. Init => AnswerInv
  <2> SUFFICES ASSUME Init PROVE AnswerInv
    OBVIOUS
  <2>1. ~hardrst /\ src = "startup"
    BY DEF Init
  <2> QED BY <2>1, InitKeeps DEF AnswerInv, ResetStartsAnew, CapsAnswered
<1>2. AnswerInv /\ AttachmentKnown /\ [Next]_vars => AnswerInv'
  BY StepAnswers, StepKeeps DEF AnswerInv
<1>3. AnswerInv => CapsAnswered
  BY DEF AnswerInv
<1> QED BY <1>1, <1>2, <1>3, AttachmentInvariance, PTL DEF Spec

-----------------------------------------------------------------------------
(* What ContractAgreed and KeepAliveReady need to be inductive: adverts,   *)
(* requests and answers one at a time, and the sink's fields in step with  *)
(* the one that is under way.                                              *)

(* What the source has said and the sink has not handled, in order *)
Way == events \o rx
AdvertBefore(i) == \E k \in DOMAIN Way : k < i /\ IsAdvert(Way[k])
ReplyAfter(i)   == \E k \in DOMAIN Way : k > i /\ IsReply(Way[k])
NoReply         == \A i \in DOMAIN Way : ~IsReply(Way[i])

JustReset == link = "down" /\ events = <<StateChanged>>

(* An advert is the source's last one, unless a reply follows it. *)
AdvertsInOrder ==
  \A i \in DOMAIN Way : IsAdvert(Way[i]) =>
    \/ Way[i].objs = pdos /\ src \in {"wait_request", "transition"}
    \/ ReplyAfter(i)

(* The sink's capabilities are the source's, or will be. *)
CapsFollow ==
  sink.source_caps \in {<<>>, SourceCaps(pdos)} \/ AdvertUnread \/ JustReset

OneAtATime ==
  /\ Len(sink.tx) <= 1
  /\ sink.tx # <<>> => NoReply
  /\ src = "transition" => sink.tx = <<>> /\ NoReply
  /\ \A i, j \in DOMAIN Way : IsReply(Way[i]) /\ IsReply(Way[j]) => i = j

(* Nothing of an old connection is left. *)
StartsAfresh ==
  /\ src = "startup" =>
       sink.tx = <<>> /\ rx = <<>> /\ (JustReset \/ (events = <<>> /\ sink.source_caps = <<>>))
  /\ JustReset =>
       sink.tx = <<>> /\ NoReply /\ src \in {"startup", "wait_request"} /\ contract = vSafe5V

(* The sink remembers that it has asked for g, and can ask for it again. *)
Repeats(g) ==
  g.supply_type = "pps" => CanRequest(sink, sink.selected_pps_index, g.voltage, g.current)
Remembers(g) ==
  sink.requested_voltage = g.voltage /\ sink.requested_max_current = g.current /\ Repeats(g)

(* The sink knows what it has asked for until it learns of the answer. *)
RequestKnown ==
  /\ \A r \in Requests : Remembers(r) /\ (AdvertUnread \/ Offers(r))
  /\ src = "transition" => Remembers(granted) \/ AdvertUnread
  /\ \A i \in DOMAIN Way : IsReply(Way[i]) =>
       /\ Way[i].type = "ps_ready" => Remembers(contract) \/ AdvertBefore(i)
       /\ Way[i].type = "wait" => unheard
       /\ Way[i].type = "reject" => src # "ready"
  /\ sink.tx = <<>> /\ src \in {"ready", "rejected"} /\ NoReply =>
       sink.requested_voltage = 0 \/ unheard

(* What it takes for the contract is the contract, unless it is about to   *)
(* learn of a new one.                                                     *)
ActiveKnown ==
  (\A i \in DOMAIN Way : IsReply(Way[i]) => Way[i].type # "ps_ready") /\ ~JustReset =>
    /\ sink.active_voltage = contract.voltage /\ sink.active_max_current = contract.current
    /\ src = "ready" /\ sink.tx = <<>> /\ ~unheard => Repeats(contract)

Agreement ==
  AdvertsInOrder /\ CapsFollow /\ OneAtATime /\ StartsAfresh /\ RequestKnown /\ ActiveKnown

AgreementInv ==
  SystemInv /\ ResetStartsAnew /\ (~hardrst /\ ~overlap => Agreement)

LEMMA ConcatItems ==
  ASSUME NEW S, NEW e \in Seq(S), NEW r \in Seq(S)
  PROVE  /\ e \o r \in Seq(S) /\ Len(e \o r) = Len(e) + Len(r)
         /\ DOMAIN (e \o r) = 1 .. Len(e) + Len(r) /\ Len(e) \in Nat /\ Len(r) \in Nat
         /\ \A i \in 1 .. Len(e) : (e \o r)[i] = e[i]
         /\ \A i \in 1 .. Len(r) : (e \o r)[i + Len(e)] = r[i]
OBVIOUS

Events == SourceMessages \cup {StateChanged}

LEMMA WayItems ==
  ASSUME events \in Seq(Events), rx \in Seq(SourceMessages)
  PROVE  /\ Way \in Seq(Events) /\ Len(Way) = Len(events) + Len(rx)
         /\ DOMAIN Way = 1 .. Len(events) + Len(rx) /\ Len(events) \in Nat /\ Len(rx) \in Nat
         /\ \A i \in 1 .. Len(events) : Way[i] = events[i]
         /\ \A i \in 1 .. Len(rx) : Way[i + Len(events)] = rx[i]
<1>1. rx \in Seq(Events)
  BY DEF Events
<1> HIDE DEF Events
<1> QED BY <1>1, ConcatItems DEF Way

(* The messages on the way are those unread. *)
LEMMA ConcatRange ==
  ASSUME NEW e \in Seq(Events), NEW r \in Seq(SourceMessages)
  PROVE  /\ DOMAIN (e \o r) \subseteq Int
         /\ \A i \in DOMAIN (e \o r) : (e \o r)[i] \in Range(r) \cup Range(e)
         /\ \A m \in Range(r) \cup Range(e) : \E i \in DOMAIN (e \o r) : (e \o r)[i] = m
<1> DEFINE n == Len(e)
           l == Len(r)
           w == e \o r
<1>1. /\ DOMAIN w = 1 .. n + l /\ n \in Nat /\ l \in Nat
      /\ \A i \in 1 .. n : w[i] = e[i]
      /\ \A i \in 1 .. l : w[i + n] = r[i]
      /\ DOMAIN e = 1 .. n /\ DOMAIN r = 1 .. l
  <2>1. r \in Seq(Events)
    BY DEF Events
  <2> HIDE DEF Events
  <2> QED BY <2>1, ConcatItems
<1> HIDE DEF n, l, w
<1>2. ASSUME NEW i \in DOMAIN w PROVE w[i] \in Range(r) \cup Range(e)
  <2>1. CASE i \in 1 .. n
    BY <1>1, <2>1 DEF Range
  <2>2. CASE i \notin 1 .. n
    <3>1. i - n \in 1 .. l /\ (i - n) + n = i
      BY <1>1, <2>2
    <3>2. w[i] = r[i - n]
      BY <1>1, <3>1
    <3> QED BY <1>1, <3>1, <3>2 DEF Range
  <2> QED BY <2>1, <2>2
<1>3. ASSUME NEW i \in 1 .. n PROVE i \in DOMAIN w /\ w[i] = e[i]
  BY <1>1
<1>4. ASSUME NEW i \in 1 .. l PROVE i + n \in DOMAIN w /\ w[i + n] = r[i]
  BY <1>1
<1>5. ASSUME NEW m \in Range(r) \cup Range(e) PROVE \E i \in DOMAIN w : w[i] = m
  <2>1. CASE m \in Range(e)
    BY <1>1, <1>3, <2>1 DEF Range
  <2>2. CASE m \in Range(r)
    BY <1>1, <1>4, <2>2 DEF Range
  <2> QED BY <2>1, <2>2
<1>6. DOMAIN w \subseteq Int
  BY <1>1
<1> QED BY <1>2, <1>5, <1>6 DEF w

(* A reply is not an advert, and a report of the attachment is neither. *)
LEMMA KindsOfMessage ==
  /\ ~IsAdvert(StateChanged) /\ ~IsReply(StateChanged)
  /\ \A m : IsAdvert(m) => ~IsReply(m)
BY DEF IsAdvert, IsReply, IsMessage, StateChanged

(* The four things that happen to the messages on the way *)
LEMMA WaySaid ==
  ASSUME events \in Seq(Events), rx \in Seq(SourceMessages), NEW m \in SourceMessages,
         rx' = Append(rx, m), events' = events
  PROVE  /\ DOMAIN Way = 1 .. Len(Way) /\ Len(Way) \in Nat
         /\ DOMAIN Way' = 1 .. Len(Way) + 1
         /\ \A i \in DOMAIN Way : Way'[i] = Way[i]
         /\ Way'[Len(Way) + 1] = m
<1> DEFINE n == Len(events)
           l == Len(rx)
<1>1. /\ Len(Way) = n + l /\ DOMAIN Way = 1 .. n + l /\ n \in Nat /\ l \in Nat
      /\ \A i \in 1 .. n : Way[i] = events[i]
      /\ \A i \in 1 .. l : Way[i + n] = rx[i]
  BY WayItems
<1>2. /\ rx' \in Seq(SourceMessages) /\ Len(rx') = l + 1
      /\ \A i \in 1 .. l : rx'[i] = rx[i]
      /\ rx'[l + 1] = m
  OBVIOUS
<1>3. /\ DOMAIN Way' = 1 .. n + (l + 1)
      /\ \A i \in 1 .. n : Way'[i] = events[i]
      /\ \A i \in 1 .. l + 1 : Way'[i + n] = rx'[i]
  <2>1. /\ DOMAIN Way' = 1 .. Len(events') + Len(rx')
        /\ \A i \in 1 .. Len(events') : Way'[i] = events'[i]
        /\ \A i \in 1 .. Len(rx') : Way'[i + Len(events')] = rx'[i]
    <3>1. events' \in Seq(Events) /\ rx' \in Seq(Events)
      BY <1>2 DEF Events
    <3> HIDE DEF Events
    <3> QED BY <3>1, ConcatItems DEF Way
  <2> QED BY <1>2, <2>1
<1> HIDE DEF n, l
<1>4. ASSUME NEW i \in 1 .. n + l PROVE Way'[i] = Way[i]
  <2>1. CASE i \in 1 .. n
    BY <1>1, <1>3, <2>1
  <2>2. CASE i \notin 1 .. n
    <3>1. i - n \in 1 .. l /\ i - n \in 1 .. l + 1 /\ (i - n) + n = i
      BY <1>1, <2>2
    <3>2. Way'[(i - n) + n] = rx'[i - n] /\ Way[(i - n) + n] = rx[i - n]
      BY <1>1, <1>3, <3>1
    <3> QED BY <1>2, <3>1, <3>2
  <2> QED BY <2>1, <2>2
<1>5. Way'[n + l + 1] = m
  <2>1. l + 1 \in 1 .. l + 1 /\ (l + 1) + n = n + l + 1
    BY <1>1
  <2> QED BY <1>2, <1>3, <2>1
<1>6. DOMAIN Way' = 1 .. (n + l) + 1
  BY <1>1, <1>3
<1> QED BY <1>1, <1>4, <1>5, <1>6

LEMMA WayPopped ==
  ASSUME events \in Seq(Events), rx \in Seq(SourceMessages), events # <<>>,
         events' = Tail(events), rx' = rx
  PROVE  /\ DOMAIN Way = 1 .. Len(Way) /\ Len(Way) \in Nat \ {0}
         /\ DOMAIN Way' = 1 .. Len(Way) - 1
         /\ \A i \in DOMAIN Way' : Way'[i] = Way[i + 1]
         /\ Way[1] = Head(events)
<1> DEFINE n == Len(events)
           l == Len(rx)
<1>1. /\ Len(Way) = n + l /\ DOMAIN Way = 1 .. n + l /\ l \in Nat
      /\ \A i \in 1 .. n : Way[i] = events[i]
      /\ \A i \in 1 .. l : Way[i + n] = rx[i]
  BY WayItems
<1>2. n \in Nat \ {0}
  BY LenOfNonEmpty
<1>3. /\ events' \in Seq(Events) /\ Len(events') = n - 1 /\ Head(events) = events[1]
      /\ \A i \in 1 .. n - 1 : events'[i] = events[i + 1]
  BY <1>2
<1>4. /\ DOMAIN Way' = 1 .. (n - 1) + l
      /\ \A i \in 1 .. n - 1 : Way'[i] = events'[i]
      /\ \A i \in 1 .. l : Way'[i + (n - 1)] = rx[i]
  <2>1. /\ DOMAIN Way' = 1 .. Len(events') + Len(rx')
        /\ \A i \in 1 .. Len(events') : Way'[i] = events'[i]
        /\ \A i \in 1 .. Len(rx') : Way'[i + Len(events')] = rx'[i]
    <3>1. rx' \in Seq(Events)
      BY DEF Events
    <3> HIDE DEF Events
    <3> QED BY <1>3, <3>1, ConcatItems DEF Way
  <2> QED BY <1>3, <2>1
<1> HIDE DEF n, l
<1>5. ASSUME NEW i \in 1 .. (n - 1) + l PROVE Way'[i] = Way[i + 1]
  <2>1. CASE i \in 1 .. n - 1
    <3>1. i + 1 \in 1 .. n
      BY <1>2, <2>1
    <3> QED BY <1>1, <1>3, <1>4, <2>1, <3>1
  <2>2. CASE i \notin 1 .. n - 1
    <3> DEFINE k == i - (n - 1)
    <3>1. k \in 1 .. l /\ k + (n - 1) = i /\ k + n = i + 1
      BY <1>1, <1>2, <2>2
    <3> HIDE DEF k
    <3>2. Way'[k + (n - 1)] = rx[k] /\ Way[k + n] = rx[k]
      BY <1>1, <1>4, <3>1
    <3> QED BY <3>1, <3>2
  <2> QED BY <2>1, <2>2
<1>6. 1 \in 1 .. n /\ n + l \in Nat \ {0} /\ (n - 1) + l = (n + l) - 1
  BY <1>1, <1>2
<1> QED BY <1>1, <1>3, <1>4, <1>5, <1>6

LEMMA WayDelivered ==
  ASSUME events \in Seq(Events), rx \in Seq(SourceMessages), rx # <<>>, rx' = Tail(rx),
         events' = Append(events, Head(rx))
  PROVE  Way' = Way
<1> DEFINE n == Len(events)
           l == Len(rx)
<1>1. /\ Len(Way) = n + l /\ DOMAIN Way = 1 .. n + l /\ n \in Nat /\ Way \in Seq(Events)
      /\ \A i \in 1 .. n : Way[i] = events[i]
      /\ \A i \in 1 .. l : Way[i + n] = rx[i]
  BY WayItems
<1>2. l \in Nat \ {0}
  BY LenOfNonEmpty
<1>3. /\ rx' \in Seq(SourceMessages) /\ Len(rx') = l - 1 /\ Head(rx) = rx[1] /\ Head(rx) \in SourceMessages
      /\ \A i \in 1 .. l - 1 : rx'[i] = rx[i + 1]
  BY <1>2
<1>4. /\ events' \in Seq(Events) /\ Len(events') = n + 1 /\ events'[n + 1] = rx[1]
      /\ \A i \in 1 .. n : events'[i] = events[i]
  <2>1. Head(rx) \in Events
    BY <1>3 DEF Events
  <2> HIDE DEF Events
  <2> QED BY <1>3, <2>1
<1>5. /\ DOMAIN Way' = 1 .. (n + 1) + (l - 1) /\ Way' \in Seq(Events)
      /\ \A i \in 1 .. n + 1 : Way'[i] = events'[i]
      /\ \A i \in 1 .. l - 1 : Way'[i + (n + 1)] = rx'[i]
  <2>1. /\ DOMAIN Way' = 1 .. Len(events') + Len(rx') /\ Way' \in Seq(Events)
        /\ \A i \in 1 .. Len(events') : Way'[i] = events'[i]
        /\ \A i \in 1 .. Len(rx') : Way'[i + Len(events')] = rx'[i]
    <3>1. rx' \in Seq(Events)
      BY <1>3 DEF Events
    <3> HIDE DEF Events
    <3> QED BY <1>4, <3>1, ConcatItems DEF Way
  <2> QED BY <1>3, <1>4, <2>1
<1> HIDE DEF n, l
<1>6. ASSUME NEW i \in 1 .. n + l PROVE Way'[i] = Way[i]
  <2>1. CASE i \in 1 .. n
    BY <1>1, <1>4, <1>5, <2>1
  <2>2. CASE i = n + 1
    <3>1. 1 \in 1 .. l /\ 1 + n = n + 1 /\ n + 1 \in 1 .. n + 1
      BY <1>1, <1>2
    <3> QED BY <1>1, <1>4, <1>5, <2>2, <3>1
  <2>3. CASE i > n + 1
    <3> DEFINE k == i - (n + 1)
    <3>1. k \in 1 .. l - 1 /\ k + (n + 1) = i /\ k + 1 \in 1 .. l /\ (k + 1) + n = i
      BY <1>1, <1>2, <2>3
    <3> HIDE DEF k
    <3>2. Way'[k + (n + 1)] = rx'[k] /\ Way[(k + 1) + n] = rx[k + 1]
      BY <1>1, <1>5, <3>1
    <3> QED BY <1>3, <3>1, <3>2
  <2> QED BY <1>1, <2>1, <2>2, <2>3
<1>7. Len(Way') = Len(Way)
  <2>1. (n + 1) + (l - 1) = n + l /\ n + l \in Nat
    BY <1>1, <1>2
  <2>2. DOMAIN Way' = 1 .. Len(Way') /\ Len(Way') \in Nat
    BY <1>5
  <2> QED BY <1>1, <1>5, <2>1, <2>2
<1>8. \A i \in 1 .. Len(Way) : Way'[i] = Way[i]
  BY <1>1, <1>6
<1> QED BY ONLY <1>1, <1>5, <1>7, <1>8, SeqEqual, Zenon

LEMMA WayStarts ==
  ASSUME events = <<>>, rx \in Seq(SourceMessages), rx # <<>>, rx' = Tail(rx),
         events' = <<StateChanged, Head(rx)>>
  PROVE  /\ DOMAIN Way = 1 .. Len(Way) /\ Len(Way) \in Nat
         /\ DOMAIN Way' = 1 .. Len(Way) + 1 /\ Way'[1] = StateChanged
         /\ \A i \in DOMAIN Way : Way'[i + 1] = Way[i]
<1> DEFINE l == Len(rx)
<1>1. l \in Nat \ {0}
  BY LenOfNonEmpty
<1>2. /\ Len(Way) = l /\ DOMAIN Way = 1 .. l
      /\ \A i \in 1 .. l : Way[i] = rx[i]
  <2>1. events \in Seq(Events) /\ Len(events) = 0
    OBVIOUS
  <2>2. /\ Len(Way) = 0 + l /\ DOMAIN Way = 1 .. 0 + l
        /\ \A i \in 1 .. l : Way[i + 0] = rx[i]
    BY <2>1, WayItems
  <2> QED BY <1>1, <2>2
<1>3. /\ rx' \in Seq(SourceMessages) /\ Len(rx') = l - 1 /\ Head(rx) = rx[1] /\ Head(rx) \in SourceMessages
      /\ \A i \in 1 .. l - 1 : rx'[i] = rx[i + 1]
  BY <1>1
<1>4. events' \in Seq(Events) /\ Len(events') = 2 /\ events'[1] = StateChanged /\ events'[2] = rx[1]
  BY <1>3 DEF Events
<1>5. /\ DOMAIN Way' = 1 .. 2 + (l - 1)
      /\ \A i \in 1 .. 2 : Way'[i] = events'[i]
      /\ \A i \in 1 .. l - 1 : Way'[i + 2] = rx'[i]
  <2>1. /\ DOMAIN Way' = 1 .. Len(events') + Len(rx')
        /\ \A i \in 1 .. Len(events') : Way'[i] = events'[i]
        /\ \A i \in 1 .. Len(rx') : Way'[i + Len(events')] = rx'[i]
    <3>1. rx' \in Seq(Events)
      BY <1>3 DEF Events
    <3> HIDE DEF Events
    <3> QED BY <1>4, <3>1, ConcatItems DEF Way
  <2> QED BY <1>3, <1>4, <2>1
<1> HIDE DEF l
<1>6. ASSUME NEW i \in 1 .. l PROVE Way'[i + 1] = Way[i]
  <2>1. CASE i = 1
    <3>1. 2 \in 1 .. 2 /\ 1 \in 1 .. l
      BY <1>1
    <3>2. Way'[2] = rx[1] /\ Way[1] = rx[1]
      BY <1>2, <1>4, <1>5, <3>1
    <3> QED BY <2>1, <3>2
  <2>2. CASE i > 1
    <3> DEFINE k == i - 1
    <3>1. k \in 1 .. l - 1 /\ k + 2 = i + 1 /\ k + 1 = i
      BY <1>1, <2>2
    <3> HIDE DEF k
    <3>2. Way'[k + 2] = rx'[k] /\ rx'[k] = rx[k + 1]
      BY <1>3, <1>5, <3>1
    <3>3. Way[i] = rx[i]
      BY <1>2
    <3> QED BY <3>1, <3>2, <3>3
  <2>3. i = 1 \/ i > 1
    BY <1>1
  <2> QED BY <2>1, <2>2, <2>3
<1>7. 2 + (l - 1) = l + 1 /\ l \in Nat
  BY <1>1
<1> QED BY <1>2, <1>4, <1>5, <1>6, <1>7

(* Adverts and replies keep their order, though other messages may have    *)
(* gone from before them or come there.                                    *)
Counts(m) == IsAdvert(m) \/ IsReply(m)
MovedBy(d) ==
  /\ \A i \in DOMAIN Way' : Counts(Way'[i]) => i + d \in DOMAIN Way /\ Way[i + d] = Way'[i]
  /\ \A i \in DOMAIN Way : Counts(Way[i]) => i - d \in DOMAIN Way' /\ Way'[i - d] = Way[i]

WaySet == DOMAIN Way \subseteq Int /\ DOMAIN Way' \subseteq Int

LEMMA MovedOrder ==
  ASSUME WaySet, NEW d \in Int, MovedBy(d)
  PROVE  /\ \A i \in DOMAIN Way' : /\ AdvertBefore(i + d) => AdvertBefore(i)'
                                   /\ ReplyAfter(i + d) => ReplyAfter(i)'
         /\ NoReply' <=> NoReply
<1>1. ASSUME NEW i \in DOMAIN Way', AdvertBefore(i + d) PROVE AdvertBefore(i)'
  <2>1. PICK k \in DOMAIN Way : k < i + d /\ IsAdvert(Way[k])
    BY <1>1 DEF AdvertBefore
  <2>2. k - d \in DOMAIN Way' /\ Way'[k - d] = Way[k] /\ k - d < i
    BY <2>1 DEF MovedBy, Counts, WaySet
  <2> QED BY <2>1, <2>2 DEF AdvertBefore
<1>2. ASSUME NEW i \in DOMAIN Way', ReplyAfter(i + d) PROVE ReplyAfter(i)'
  <2>1. PICK k \in DOMAIN Way : k > i + d /\ IsReply(Way[k])
    BY <1>2 DEF ReplyAfter
  <2>2. k - d \in DOMAIN Way' /\ Way'[k - d] = Way[k] /\ k - d > i
    BY <2>1 DEF MovedBy, Counts, WaySet
  <2> QED BY <2>1, <2>2 DEF ReplyAfter
<1>3. NoReply' <=> NoReply
  BY DEF NoReply, MovedBy, Counts
<1> QED BY <1>1, <1>2, <1>3

(* The sink's fields that the agreement is about *)
SinkAs(s) ==
  /\ sink'.source_caps = s.source_caps
  /\ sink'.requested_voltage = s.requested_voltage
  /\ sink'.requested_max_current = s.requested_max_current
  /\ sink'.active_voltage = s.active_voltage
  /\ sink'.active_max_current = s.active_max_current
  /\ sink'.selected_pps_index = s.selected_pps_index
  /\ sink'.tx = s.tx

LEMMA SinkRemembers ==
  ASSUME SinkAs(sink)
  PROVE  /\ \A g : Repeats(g)' <=> Repeats(g)
         /\ \A g : Remembers(g)' <=> Remembers(g)
BY DEF SinkAs, Remembers, Repeats, CanRequest

(* Steps that are none of a request's business *)
LEMMA MovedKeeps ==
  ASSUME AdvertsInOrder, CapsFollow, OneAtATime, RequestKnown, ActiveKnown,
         WaySet, NEW d \in Int, MovedBy(d), AdvertUnread' <=> AdvertUnread,
         UNCHANGED <<src, pdos, contract, granted, unheard>>, SinkAs(sink),
         JustReset' <=> JustReset
  PROVE  AdvertsInOrder' /\ CapsFollow' /\ OneAtATime' /\ RequestKnown' /\ ActiveKnown'
<1>1. /\ \A i \in DOMAIN Way' : /\ AdvertBefore(i + d) => AdvertBefore(i)'
                                /\ ReplyAfter(i + d) => ReplyAfter(i)'
      /\ NoReply' <=> NoReply
  BY MovedOrder
<1>2. \A i \in DOMAIN Way' : Counts(Way'[i]) => i + d \in DOMAIN Way /\ Way[i + d] = Way'[i]
  BY DEF MovedBy
<1>3. \A i \in DOMAIN Way : Counts(Way[i]) => i - d \in DOMAIN Way' /\ Way'[i - d] = Way[i]
  BY DEF MovedBy
<1>4. /\ \A g : Repeats(g)' <=> Repeats(g)
      /\ \A g : Remembers(g)' <=> Remembers(g)
  BY SinkRemembers
<1>5. AdvertsInOrder'
  <2> SUFFICES ASSUME NEW i \in DOMAIN Way', IsAdvert(Way'[i])
               PROVE  \/ Way'[i].objs = pdos /\ src \in {"wait_request", "transition"}
                      \/ ReplyAfter(i)'
    BY DEF AdvertsInOrder
  <2>1. i + d \in DOMAIN Way /\ Way[i + d] = Way'[i]
    BY <1>2 DEF Counts
  <2> QED BY <1>1, <2>1 DEF AdvertsInOrder
<1>6. CapsFollow'
  BY DEF CapsFollow, SinkAs
<1>7. OneAtATime'
  <2>1. ASSUME NEW i \in DOMAIN Way', NEW j \in DOMAIN Way', IsReply(Way'[i]), IsReply(Way'[j])
        PROVE  i = j
    <3>1. /\ i + d \in DOMAIN Way /\ Way[i + d] = Way'[i]
          /\ j + d \in DOMAIN Way /\ Way[j + d] = Way'[j]
      BY <1>2, <2>1 DEF Counts
    <3>2. i + d = j + d
      BY <2>1, <3>1 DEF OneAtATime
    <3>3. i \in Int /\ j \in Int
      BY DEF WaySet
    <3> QED BY ONLY <3>2, <3>3, d \in Int
  <2> QED BY <1>1, <2>1 DEF OneAtATime, SinkAs
<1>8. RequestKnown'
  <2>1. \A r \in Requests' : Remembers(r)' /\ (AdvertUnread \/ Offers(r))'
    BY <1>4 DEF RequestKnown, Requests, SinkAs, Offers
  <2>2. (src = "transition" => Remembers(granted) \/ AdvertUnread)'
    BY <1>4 DEF RequestKnown
  <2>3. ASSUME NEW i \in DOMAIN Way', IsReply(Way'[i])
        PROVE  /\ Way'[i].type = "ps_ready" => Remembers(contract)' \/ AdvertBefore(i)'
               /\ Way'[i].type = "wait" => unheard'
               /\ Way'[i].type = "reject" => src' # "ready"
    <3>1. i + d \in DOMAIN Way /\ Way[i + d] = Way'[i]
      BY <1>2, <2>3 DEF Counts
    <3> QED BY <1>1, <1>4, <2>3, <3>1 DEF RequestKnown
  <2>4. (sink.tx = <<>> /\ src \in {"ready", "rejected"} /\ NoReply =>
           sink.requested_voltage = 0 \/ unheard)'
    BY <1>1 DEF RequestKnown, SinkAs
  <2> QED BY <2>1, <2>2, <2>3, <2>4 DEF RequestKnown
<1>9. ActiveKnown'
  <2> SUFFICES ASSUME \A i \in DOMAIN Way' : IsReply(Way'[i]) => Way'[i].type # "ps_ready",
                      ~JustReset'
               PROVE  /\ sink'.active_voltage = contract'.voltage
                      /\ sink'.active_max_current = contract'.current
                      /\ src' = "ready" /\ sink'.tx = <<>> /\ ~unheard' => Repeats(contract)'
    BY DEF ActiveKnown
  <2>1. \A i \in DOMAIN Way : IsReply(Way[i]) => Way[i].type # "ps_ready"
    BY <1>3 DEF Counts
  <2> QED BY <1>4, <2>1 DEF ActiveKnown, SinkAs
<1> QED BY <1>5, <1>6, <1>7, <1>8, <1>9

LEMMA OnTheWay ==
  ASSUME SystemInv, SystemInv'
  PROVE  /\ events \in Seq(Events) /\ rx \in Seq(SourceMessages) /\ WaySet
         /\ AdvertUnread <=> \E i \in DOMAIN Way : IsAdvert(Way[i])
         /\ AdvertUnread' <=> \E i \in DOMAIN Way' : IsAdvert(Way'[i])
         /\ NoReply <=> ~\E m \in Unread : IsReply(m)
         /\ NoReply' <=> ~\E m \in Unread' : IsReply(m)
<1>1. /\ events \in Seq(Events) /\ rx \in Seq(SourceMessages)
      /\ events' \in Seq(Events) /\ rx' \in Seq(SourceMessages)
  BY DEF SystemInv, WireTypes, Events
<1>2. /\ DOMAIN Way \subseteq Int
      /\ \A i \in DOMAIN Way : Way[i] \in Unread
      /\ \A m \in Unread : \E i \in DOMAIN Way : Way[i] = m
  BY <1>1, ConcatRange DEF Way, Unread
<1>3. /\ DOMAIN Way' \subseteq Int
      /\ \A i \in DOMAIN Way' : Way'[i] \in Unread'
      /\ \A m \in Unread' : \E i \in DOMAIN Way' : Way'[i] = m
  BY <1>1, ConcatRange DEF Way, Unread
<1> QED BY <1>1, <1>2, <1>3 DEF WaySet, AdvertUnread, NoReply

LEMMA Moved ==
  ASSUME SystemInv, SystemInv', Agreement, NEW d \in Int, MovedBy(d),
         UNCHANGED <<src, pdos, contract, granted, unheard>>, SinkAs(sink),
         JustReset' <=> JustReset, src = "startup" => UNCHANGED <<rx, events>>
  PROVE  Agreement'
<1>1. WaySet
  BY OnTheWay
<1>2. AdvertUnread' <=> AdvertUnread
  BY OnTheWay DEF MovedBy, Counts
<1>3. AdvertsInOrder' /\ CapsFollow' /\ OneAtATime' /\ RequestKnown' /\ ActiveKnown'
  BY <1>1, <1>2, MovedKeeps DEF Agreement
<1>4. StartsAfresh'
  <2>1. NoReply' <=> NoReply
    BY <1>1, MovedOrder
  <2> QED BY <2>1 DEF Agreement, StartsAfresh, SinkAs, JustReset
<1> QED BY <1>3, <1>4 DEF Agreement

LEMMA MovedNowhere ==
  ASSUME WaySet, UNCHANGED <<events, rx>>
  PROVE  MovedBy(0)
BY DEF MovedBy, WaySet, Way

(* A step that leaves messages, source and sink as they are *)
LEMMA Undisturbed ==
  ASSUME SystemInv, SystemInv', Agreement, UNCHANGED <<events, rx, link>>,
         UNCHANGED <<src, pdos, contract, granted, unheard>>, SinkAs(sink)
  PROVE  Agreement'
<1>1. MovedBy(0)
  BY OnTheWay, MovedNowhere
<1>2. JustReset' <=> JustReset
  BY DEF JustReset
<1> QED BY <1>1, <1>2, Moved

LEMMA DeliverAgrees ==
  ASSUME SystemInv, SystemInv', Agreement, LinkDeliver
  PROVE  Agreement'
<1>1. /\ rx # <<>> /\ rx' = Tail(rx) /\ link' = "up"
      /\ \/ link = "up" /\ events' = Append(events, Head(rx))
         \/ link = "down" /\ events = <<>> /\ events' = <<StateChanged, Head(rx)>>
  BY Delivered
<1>2. UNCHANGED <<sink, src, pdos, contract, granted, unheard>>
  BY DEF LinkDeliver, Link, srcVars, history
<1>3. events \in Seq(Events) /\ rx \in Seq(SourceMessages) /\ WaySet
  BY OnTheWay
<1>4. ~JustReset /\ ~JustReset' /\ src # "startup"
  <2>1. ~JustReset
    <3>1. <<StateChanged>> # <<>>
      OBVIOUS
    <3> QED BY <1>1, <3>1 DEF JustReset
  <2>2. link' # "down"
    BY <1>1
  <2>3. src # "startup"
    BY <1>1 DEF Agreement, StartsAfresh
  <2> QED BY <2>1, <2>2, <2>3 DEF JustReset
<1>5. \E d \in Int : MovedBy(d)
  <2>1. CASE link = "up"
    <3>1. Way' = Way
      BY <1>1, <1>3, <2>1, WayDelivered
    <3>2. MovedBy(0)
      BY <1>3, <3>1 DEF MovedBy, WaySet
    <3> QED BY <3>2
  <2>2. CASE link = "down"
    <3>1. /\ DOMAIN Way = 1 .. Len(Way) /\ Len(Way) \in Nat
          /\ DOMAIN Way' = 1 .. Len(Way) + 1 /\ Way'[1] = StateChanged
          /\ \A i \in DOMAIN Way : Way'[i + 1] = Way[i]
      BY <1>1, <1>3, <2>2, WayStarts
    <3>2. ~Counts(StateChanged)
      BY KindsOfMessage DEF Counts
    <3>3. ASSUME NEW i \in DOMAIN Way', Counts(Way'[i])
          PROVE  i - 1 \in DOMAIN Way /\ Way[i - 1] = Way'[i]
      <4>1. i # 1
        BY <3>1, <3>2, <3>3
      <4>2. i - 1 \in DOMAIN Way /\ (i - 1) + 1 = i
        BY <3>1, <4>1
      <4> QED BY <3>1, <4>2
    <3>4. ASSUME NEW i \in DOMAIN Way
          PROVE  i + 1 \in DOMAIN Way' /\ Way'[i + 1] = Way[i]
      BY <3>1
    <3>5. MovedBy(-1)
      <4>1. \A i \in DOMAIN Way' : i + (-1) = i - 1
        BY <3>1
      <4>2. \A i \in DOMAIN Way : i - (-1) = i + 1
        BY <3>1
      <4> QED BY <3>3, <3>4, <4>1, <4>2 DEF MovedBy
    <3> QED BY <3>5
  <2> QED BY <1>1, <2>1, <2>2
<1> QED BY <1>2, <1>4, <1>5, Moved DEF SinkAs

(* The event that is popped is neither an advert nor a reply. *)
LEMMA PopQuietAgrees ==
  ASSUME SystemInv, SystemInv', Agreement, PopEvent, link = "up", ~Counts(Head(events)),
         SinkBecomes(sink)
  PROVE  Agreement'
<1>1. events # <<>> /\ events' = Tail(events) /\ UNCHANGED <<link, rx, srcVars>>
  BY Popped
<1>2. events \in Seq(Events) /\ rx \in Seq(SourceMessages) /\ WaySet
  BY OnTheWay
<1>3. /\ DOMAIN Way = 1 .. Len(Way) /\ Len(Way) \in Nat \ {0}
      /\ DOMAIN Way' = 1 .. Len(Way) - 1
      /\ \A i \in DOMAIN Way' : Way'[i] = Way[i + 1]
      /\ Way[1] = Head(events)
  BY <1>1, <1>2, WayPopped
<1>4. MovedBy(1)
  <2>1. ASSUME NEW i \in DOMAIN Way' PROVE i + 1 \in DOMAIN Way /\ Way[i + 1] = Way'[i]
    BY <1>3
  <2>2. ASSUME NEW i \in DOMAIN Way, Counts(Way[i])
        PROVE  i - 1 \in DOMAIN Way' /\ Way'[i - 1] = Way[i]
    <3>1. i # 1
      BY <1>3, <2>2
    <3>2. i - 1 \in DOMAIN Way' /\ (i - 1) + 1 = i
      BY <1>3, <3>1
    <3> QED BY <1>3, <3>2
  <2> QED BY <2>1, <2>2 DEF MovedBy
<1>5. ~JustReset /\ ~JustReset' /\ src # "startup"
  <2>1. ~JustReset /\ ~JustReset'
    <3>1. link # "down" /\ link' # "down"
      BY <1>1
    <3> QED BY <3>1 DEF JustReset
  <2>2. src # "startup"
    BY <1>1, <2>1 DEF Agreement, StartsAfresh
  <2> QED BY <2>1, <2>2
<1>6. sink' = sink /\ unheard' = unheard
  <2>1. sink.tx \in Seq(Asked) /\ unheard \in BOOLEAN
    BY DEF SystemInv, SystemTypeOK, WireTypes, SinkRecords
  <2>2. ~(Len(sink.tx) > Len(sink.tx))
    BY <2>1
  <2> QED BY <2>1, <2>2 DEF SinkBecomes
<1> QED BY <1>1, <1>4, <1>5, <1>6, Moved DEF SinkAs, srcVars

(* A request tells the program what it has asked for, and so the keep-alive *)
(* can ask for it again.                                                   *)
LEMMA RoundedCurrent ==
  ASSUME NEW c \in Nat, c >= 25
  PROVE  Rounded(c, 50, 127) >= 50
<1> DEFINE q == (c + 50 \div 2) \div 50
<1>1. q \in Nat /\ q >= 1
  OBVIOUS
<1> HIDE DEF q
<1>2. Min({q, 127}) \in {q, 127}
  BY <1>1, MinOfPair
<1>3. Rounded(c, 50, 127) = Min({q, 127}) * 50
  BY DEF Rounded, q
<1> QED BY <1>1, <1>2, <1>3

LEMMA SentFieldsToo ==
  ASSUME NEW s \in SinkRecords, NEW t, NEW r \in Asked, Sent(s, t, r)
  PROVE  /\ t.source_caps = s.source_caps /\ t.active_voltage = s.active_voltage
         /\ t.active_max_current = s.active_max_current
         /\ t.requested_voltage = r.voltage /\ t.requested_max_current = r.current
         /\ t.tx = Append(s.tx, r)
<1>1. t.requested_max_current = r.current
  BY DEF Sent, SinkRecords
<1> QED BY <1>1, SentFields

(* t is s after a request for r. *)
AsksFor(s, t, r) ==
  /\ t.tx = Append(s.tx, r) /\ t.source_caps = s.source_caps
  /\ t.active_voltage = s.active_voltage /\ t.active_max_current = s.active_max_current
  /\ t.requested_voltage = r.voltage /\ t.requested_max_current = r.current
  /\ r.supply_type = "pps" => CanRequest(t, t.selected_pps_index, r.voltage, r.current)
  /\ \E cap \in Range(s.source_caps) : Covers(cap, r)

LEMMA RequestFromAsksFor ==
  ASSUME NEW s \in SinkRecords, NEW index, NEW v \in Nat, NEW c,
         RequestPowerFromCapability(s, index, v, c) # s
  PROVE  \E r \in Asked : AsksFor(s, RequestPowerFromCapability(s, index, v, c), r)
<1> DEFINE t == RequestPowerFromCapability(s, index, v, c)
           cap == s.source_caps[index]
           r == Request(cap, v, c)
<1>1. CanRequest(s, index, v, c)
  BY DEF RequestPowerFromCapability
<1>2. cap \in Range(s.source_caps) /\ cap \in Capabilities /\ index \in 1 .. 7 /\ index \in DOMAIN s.source_caps
  BY <1>1, CapOfSink DEF CanRequest, Range
<1>3. CanBeAsked(cap, v, c)
  BY <1>1 DEF CanRequest, CanBeAsked
<1>4. c \in Nat /\ c >= 25
  BY <1>2, <1>3 DEF CanBeAsked, Capabilities
<1>5. PICK a \in Adverts : FromObject(a, cap)
  BY <1>2, CapOfSink
<1>6. r \in Asked /\ Covers(cap, r)
  BY <1>2, <1>3, <1>4, <1>5, RequestCovered
<1>7. t = [s EXCEPT !.requested_voltage = r.voltage,
                    !.requested_max_current = r.current,
                    !.selected_pps_index = PpsIndex(s, cap, index),
                    !.pps_due = @ /\ cap.supply_type # "pps",
                    !.tx = Append(@, r)]
  BY <1>1 DEF RequestPowerFromCapability
<1>8. r.supply_type = "pps" => r.current >= 50
  <2> SUFFICES ASSUME r.supply_type = "pps" PROVE r.current >= 50
    OBVIOUS
  <2>1. cap.supply_type = "pps"
    BY <1>6 DEF Covers
  <2>2. r.current = Rounded(c, 50, 127)
    BY <2>1 DEF Request
  <2> QED BY <1>4, <2>2, RoundedCurrent
<1> HIDE DEF r, cap
<1>9. /\ t.selected_pps_index = PpsIndex(s, cap, index)
      /\ t.pps_due = (s.pps_due /\ cap.supply_type # "pps")
  BY <1>7 DEF SinkRecords
<1>10. Sent(s, t, r)
  <2>1. PpsIndex(s, cap, index) \in 0 .. 7
    BY <1>2 DEF PpsIndex
  <2>2. (s.pps_due /\ cap.supply_type # "pps") \in BOOLEAN
    BY DEF SinkRecords
  <2> HIDE DEF t
  <2> QED BY <1>7, <1>9, <2>1, <2>2 DEF Sent
<1>11. /\ t.source_caps = s.source_caps /\ t.active_voltage = s.active_voltage
       /\ t.active_max_current = s.active_max_current
       /\ t.requested_voltage = r.voltage /\ t.requested_max_current = r.current
       /\ t.tx = Append(s.tx, r)
  BY <1>6, <1>10, SentFieldsToo
<1> HIDE DEF t
<1>12. ASSUME r.supply_type = "pps" PROVE CanRequest(t, t.selected_pps_index, r.voltage, r.current)
  <2>1. cap.supply_type = "pps" /\ InRange(cap, r.voltage) /\ r.current <= cap.max_current
    BY <1>6, <1>12 DEF Covers
  <2>2. t.selected_pps_index = index
    BY <1>9, <2>1 DEF PpsIndex
  <2>3. r.current \in 25 .. cap.max_current
    <3>1. r.current \in Nat /\ cap.max_current \in Nat
      BY <1>2, <1>6 DEF Asked, Capabilities
    <3> QED BY <1>8, <1>12, <2>1, <3>1
  <2> QED BY <1>2, <1>11, <2>1, <2>2, <2>3 DEF CanRequest, cap
<1>13. AsksFor(s, t, r)
  BY <1>2, <1>6, <1>11, <1>12 DEF AsksFor
<1> QED BY <1>6, <1>13 DEF t

LEMMA RequestPowerAsksFor ==
  ASSUME NEW s \in SinkRecords, NEW v \in Nat, RequestPower(s, v) # s
  PROVE  \E r \in Asked : AsksFor(s, RequestPower(s, v), r)
<1>1. \E index, c : RequestPower(s, v) = RequestPowerFromCapability(s, index, v, c)
  BY DEF RequestPower
<1> QED BY <1>1, RequestFromAsksFor

LEMMA KeepAliveAsksFor ==
  ASSUME NEW s \in SinkRecords, KeepAlive(s) # s
  PROVE  \E r \in Asked : AsksFor(s, KeepAlive(s), r)
<1>1. s.active_voltage \in Nat
  BY DEF SinkRecords
<1>2. \E index, c : KeepAlive(s) = RequestPowerFromCapability(s, index, s.active_voltage, c)
  BY DEF KeepAlive
<1> QED BY <1>1, <1>2, RequestFromAsksFor

(* A request that does not overtake the answer to another one *)
LEMMA RequestAgrees ==
  ASSUME NEW s, NEW r \in Asked, AsksFor(s, sink', r), s.tx = <<>>,
         s.active_voltage = sink.active_voltage, s.active_max_current = sink.active_max_current,
         src \notin {"startup", "transition"}, NoReply, ActiveKnown, ~JustReset,
         UNCHANGED <<src, contract>>, NoReply', ~JustReset', AdvertsInOrder', CapsFollow',
         (AdvertUnread \/ Offers(r))'
  PROVE  Agreement'
<1>1. sink'.tx = <<r>>
  BY DEF AsksFor
<1>2. Len(<<r>>) = 1 /\ <<r>> # <<>> /\ Range(<<r>>) = {r}
  BY DEF Range
<1>3. Remembers(r)'
  BY DEF AsksFor, Remembers, Repeats
<1>4. OneAtATime'
  BY <1>1, <1>2 DEF OneAtATime, NoReply
<1>5. StartsAfresh'
  BY DEF StartsAfresh
<1>6. RequestKnown'
  <2>1. \A x \in Requests' : x = r
    BY <1>1, <1>2 DEF Requests
  <2> QED BY <1>1, <1>2, <1>3, <2>1 DEF RequestKnown, NoReply
<1>7. ActiveKnown'
  <2>1. sink.active_voltage = contract.voltage /\ sink.active_max_current = contract.current
    BY DEF ActiveKnown, NoReply
  <2>2. sink'.active_voltage = contract'.voltage /\ sink'.active_max_current = contract'.current
    BY <2>1 DEF AsksFor
  <2> QED BY <1>1, <1>2, <2>2 DEF ActiveKnown
<1> QED BY <1>4, <1>5, <1>6, <1>7 DEF Agreement

LEMMA NotUnanswered ==
  ASSUME SystemInv, SystemInv', ~Unanswered
  PROVE  sink.tx = <<>> /\ src # "transition" /\ NoReply
BY OnTheWay DEF Unanswered

(* The queue is empty, and the program asks for something or keeps quiet.  *)
LEMMA AskingAgrees ==
  ASSUME SystemInv, SystemInv', Agreement, ~overlap', events = <<>>,
         UNCHANGED <<events, rx, link, src, pdos, contract, granted>>, SinkBecomes(sink'),
         sink' = sink \/ \E r \in Asked : AsksFor(sink, sink', r)
  PROVE  Agreement'
<1>1. sink.tx \in Seq(Asked) /\ unheard \in BOOLEAN
  BY DEF SystemInv, SystemTypeOK, WireTypes, SinkRecords
<1>2. CASE sink' = sink
  <2>1. ~(Len(sink'.tx) > Len(sink.tx))
    BY <1>1, <1>2
  <2>2. unheard' = unheard
    BY <1>1, <2>1 DEF SinkBecomes
  <2> QED BY <1>2, <2>2, Undisturbed DEF SinkAs
<1>3. ASSUME NEW r \in Asked, AsksFor(sink, sink', r) PROVE Agreement'
  <2>1. Len(sink'.tx) > Len(sink.tx)
    BY <1>1, <1>3, AppendNotEmpty DEF AsksFor
  <2>2. ~Unanswered
    BY <2>1 DEF SinkBecomes
  <2>3. sink.tx = <<>> /\ src # "transition" /\ NoReply
    BY <2>2, NotUnanswered
  <2>4. PICK cap \in Range(sink.source_caps) : Covers(cap, r)
    BY <1>3 DEF AsksFor
  <2>5. sink.source_caps # <<>>
    <3>1. Range(<<>>) = {}
      BY DEF Range
    <3> QED BY <2>4, <3>1
  <2>6. ~JustReset
    <3>1. <<StateChanged>> # <<>>
      OBVIOUS
    <3> QED BY <3>1 DEF JustReset
  <2>7. src # "startup"
    BY <2>5, <2>6 DEF Agreement, StartsAfresh
  <2>8. /\ Way' = Way /\ (AdvertUnread' <=> AdvertUnread) /\ (JustReset' <=> JustReset)
    BY DEF Way, AdvertUnread, Unread, JustReset
  <2>9. NoReply'
    BY <2>3, <2>8 DEF NoReply
  <2>10. AdvertsInOrder'
    BY <2>8 DEF Agreement, AdvertsInOrder, ReplyAfter
  <2>11. CapsFollow'
    BY <1>3, <2>8 DEF Agreement, CapsFollow, AsksFor
  <2>12. (AdvertUnread \/ Offers(r))'
    <3>1. CASE AdvertUnread
      BY <2>8, <3>1
    <3>2. CASE ~AdvertUnread
      <4>1. sink.source_caps = SourceCaps(pdos)
        BY <2>5, <2>6, <3>2 DEF Agreement, CapsFollow
      <4>2. pdos \in Adverts
        BY DEF SystemInv, WireTypes
      <4>3. Offers(r)
        BY <2>4, <4>1, <4>2, CoversOffers
      <4> QED BY <4>3 DEF Offers
    <3> QED BY <3>1, <3>2
  <2> QED BY <1>3, <2>3, <2>6, <2>7, <2>8, <2>9, <2>10, <2>11, <2>12, RequestAgrees DEF Agreement
<1> QED BY <1>2, <1>3

LEMMA PollEndsAgrees ==
  ASSUME SystemInv, SystemInv', Agreement, ~overlap', SinkPollEnds
  PROVE  Agreement'
<1>1. /\ events = <<>> /\ UNCHANGED <<events, rx, link, src, pdos, contract, granted>>
      /\ SinkBecomes(KeepAlive(sink))
  BY DEF SinkPollEnds, NoEventLeft, Link, srcVars
<1>2. sink \in SinkRecords
  BY DEF SystemInv, WireTypes
<1>3. sink' = KeepAlive(sink) /\ SinkBecomes(sink')
  BY <1>1 DEF SinkBecomes
<1>4. sink' = sink \/ \E r \in Asked : AsksFor(sink, sink', r)
  BY <1>2, <1>3, KeepAliveAsksFor
<1> QED BY <1>1, <1>3, <1>4, AskingAgrees

LEMMA LoopButtonAgrees ==
  ASSUME SystemInv, SystemInv', Agreement, ~overlap', LoopButton
  PROVE  Agreement'
<1>1. /\ UNCHANGED <<events, rx, link, src, pdos, contract, granted>> /\ events = <<>>
  <2>1. pc = "tail"
    BY DEF LoopButton, AtTail
  <2>2. events = <<>>
    BY <2>1 DEF SystemInv, LinkInStep
  <2> QED BY <2>2 DEF LoopButton, AtTail, App, srcVars
<1>2. sink \in SinkRecords /\ desired_mode \in Modes /\ selected_capability \in 0 .. 6
  BY DEF SystemInv, SystemTypeOK, WireTypes
<1>3. CASE UNCHANGED <<sink, selected_capability, history>>
  BY <1>1, <1>3, Undisturbed DEF SinkAs, history
<1>4. CASE SwitchVoltage
  <2> DEFINE v == sink.source_caps[NextFixed(sink.source_caps) + 1].voltage
  <2>1. CASE UNCHANGED <<sink, selected_capability, history>>
    BY <1>3, <2>1
  <2>2. CASE SinkBecomes(sink)
    <3>1. SinkBecomes(sink') /\ sink' = sink
      BY <2>2 DEF SinkBecomes
    <3> QED BY <1>1, <3>1, AskingAgrees
  <2>3. CASE sink.source_caps # <<>> /\ SinkBecomes(RequestPower(sink, v))
    <3>1. v \in Nat
      BY <1>2, <2>3, NextVoltage
    <3> HIDE DEF v
    <3>2. sink' = RequestPower(sink, v) /\ SinkBecomes(sink')
      BY <2>3 DEF SinkBecomes
    <3>3. sink' = sink \/ \E r \in Asked : AsksFor(sink, sink', r)
      BY <1>2, <3>1, <3>2, RequestPowerAsksFor
    <3> QED BY <1>1, <3>2, <3>3, AskingAgrees
  <2> QED BY <1>4, <2>1, <2>2, <2>3 DEF SwitchVoltage
<1> QED BY <1>3, <1>4 DEF LoopButton

(* An advert is popped: there is a request for each (PlainSources). *)
LEMMA AdvertLeavesRest ==
  ASSUME NEW s \in SinkRecords, NEW m \in SourceMessages, IsAdvert(m)
  PROVE  HandleMsg(s, m).active_max_current = s.active_max_current
<1>1. m.type = "source_capabilities"
  BY MessageOfSource
<1>2. HandleMsg(s, m) = [s EXCEPT !.source_caps = SourceCaps(m.objs)]
  BY <1>1 DEF HandleMsg
<1> QED BY <1>2 DEF SinkRecords

LEMMA PopShifts ==
  ASSUME SystemInv, SystemInv', PopEvent
  PROVE  /\ DOMAIN Way = 1 .. Len(Way) /\ Len(Way) \in Nat \ {0}
         /\ DOMAIN Way' = 1 .. Len(Way) - 1
         /\ \A i \in DOMAIN Way' : i + 1 \in DOMAIN Way /\ i + 1 # 1 /\ Way'[i] = Way[i + 1]
         /\ Way[1] = Head(events) /\ 1 \in DOMAIN Way
<1>1. events # <<>> /\ events' = Tail(events) /\ UNCHANGED rx
  BY Popped
<1>2. events \in Seq(Events) /\ rx \in Seq(SourceMessages)
  BY OnTheWay
<1>3. /\ DOMAIN Way = 1 .. Len(Way) /\ Len(Way) \in Nat \ {0}
      /\ DOMAIN Way' = 1 .. Len(Way) - 1
      /\ \A i \in DOMAIN Way' : Way'[i] = Way[i + 1]
      /\ Way[1] = Head(events)
  BY <1>1, <1>2, WayPopped
<1>4. ASSUME NEW i \in DOMAIN Way' PROVE i + 1 \in DOMAIN Way /\ i + 1 # 1
  BY <1>3
<1> QED BY <1>3, <1>4

LEMMA PopAdvertAgrees ==
  ASSUME PlainSources, SystemInv, SystemInv', Agreement, ~overlap', PopEvent,
         Head(events) \in SourceMessages, IsAdvert(Head(events))
  PROVE  Agreement'
<1> DEFINE e == Head(events)
           s == HandleMsg(sink, e)
           v == DesiredVoltage(s)
<1>1. /\ UNCHANGED <<link, rx, src, pdos, contract, granted, in_config_mode>> /\ pc = "events"
      /\ Unread = {e} \cup Unread' /\ link = "up"
      /\ SinkCallback(CallbackOf(e), s, protocol)
  BY Popped, StateChangedIsNoMessage DEF srcVars, configVars
<1>2. /\ sink \in SinkRecords /\ sink.tx \in Seq(Asked) /\ desired_mode \in Modes
      /\ in_config_mode \in BOOLEAN /\ unheard \in BOOLEAN /\ pdos \in Adverts
  BY DEF SystemInv, SystemTypeOK, WireTypes, SinkRecords
<1>3. /\ s \in SinkRecords /\ s.source_caps = SourceCaps(e.objs) /\ s.tx = sink.tx
      /\ s.active_voltage = sink.active_voltage /\ s.active_max_current = sink.active_max_current
      /\ CallbackOf(e) = "source_caps_changed" /\ e.objs \in Adverts
  BY <1>2, AdvertHandled, AdvertLeavesRest, MessageOfSource
<1> HIDE DEF s, e
<1>4. v \in Nat
  BY <1>1, <1>3, DesiredAllowed DEF SystemInv
<1>5. \E i \in DOMAIN s.source_caps : InRange(s.source_caps[i], v)
  BY <1>2, <1>3, DesiredOffered
<1>6. sink' = RequestPower(s, v) /\ SinkBecomes(sink')
  BY <1>1, <1>3 DEF SinkCallback, OnSourceCapsChanged, SinkBecomes
<1> HIDE DEF v
<1>7. Len(sink'.tx) > Len(sink.tx)
  <2>1. PICK r : sink'.tx = Append(sink.tx, r)
    BY <1>3, <1>4, <1>5, <1>6, RequestMade
  <2> QED BY <1>2, <2>1
<1>8. PICK r \in Asked : AsksFor(s, sink', r)
  <2>1. RequestPower(s, v) # s
    <3>1. Len(s.tx) = Len(sink.tx) /\ Len(sink.tx) \in Nat
      BY <1>2, <1>3
    <3>2. Len(RequestPower(s, v).tx) # Len(s.tx)
      BY <1>6, <1>7, <3>1
    <3> QED BY <3>2
  <2> QED BY <1>3, <1>4, <1>6, <2>1, RequestPowerAsksFor
<1>9. sink.tx = <<>> /\ src # "transition" /\ NoReply
  <2>1. ~Unanswered
    BY <1>6, <1>7 DEF SinkBecomes
  <2> QED BY <2>1, NotUnanswered
<1>10. /\ \A i \in DOMAIN Way' : i + 1 \in DOMAIN Way /\ Way'[i] = Way[i + 1]
       /\ Way[1] = e /\ 1 \in DOMAIN Way
  BY PopShifts DEF e
<1>11. ~JustReset /\ ~JustReset'
  <2>1. link # "down" /\ link' # "down"
    BY <1>1
  <2> QED BY <2>1 DEF JustReset
<1>12. \A i \in DOMAIN Way : ~ReplyAfter(i)
  BY <1>9 DEF NoReply, ReplyAfter
<1>13. e.objs = pdos /\ src = "wait_request"
  <2>1. IsAdvert(Way[1])
    BY <1>10 DEF e
  <2> QED BY <1>9, <1>10, <1>12, <2>1 DEF Agreement, AdvertsInOrder
<1>14. NoReply'
  BY <1>9, <1>10 DEF NoReply
<1>15. AdvertsInOrder'
  <2> SUFFICES ASSUME NEW i \in DOMAIN Way', IsAdvert(Way'[i])
               PROVE  Way'[i].objs = pdos' /\ src' \in {"wait_request", "transition"}
    BY DEF AdvertsInOrder
  <2>1. i + 1 \in DOMAIN Way /\ Way'[i] = Way[i + 1] /\ ~ReplyAfter(i + 1)
    BY <1>10, <1>12
  <2> QED BY <1>1, <2>1 DEF Agreement, AdvertsInOrder
<1>16. sink'.source_caps = SourceCaps(pdos)
  BY <1>3, <1>8, <1>13 DEF AsksFor
<1>17. CapsFollow'
  BY <1>1, <1>16 DEF CapsFollow
<1>18. Offers(r)'
  <2>1. PICK cap \in Range(SourceCaps(pdos)) : Covers(cap, r)
    BY <1>3, <1>8, <1>13 DEF AsksFor
  <2>2. Offers(r)
    BY <1>2, <2>1, CoversOffers
  <2> QED BY <1>1, <2>2 DEF Offers
<1>19. s.tx = <<>> /\ ActiveKnown
  BY <1>3, <1>9 DEF Agreement
<1>20. src \notin {"startup", "transition"}
  BY <1>13
<1> QED BY <1>1, <1>3, <1>8, <1>9, <1>11, <1>14, <1>15, <1>17, <1>18, <1>19, <1>20, RequestAgrees

(* An answer is popped: it was the only one on its way. *)
LEMMA AnswerPopped ==
  ASSUME SystemInv, SystemInv', Agreement, PopEvent,
         Head(events) \in SourceMessages, IsReply(Head(events))
  PROVE  /\ ~JustReset /\ ~JustReset' /\ NoReply' /\ sink.tx = <<>>
         /\ src \notin {"startup", "transition"}
         /\ (AdvertUnread' <=> AdvertUnread) /\ AdvertsInOrder'
         /\ Head(events).type = "ps_ready" => Remembers(contract)
         /\ Head(events).type # "ps_ready" =>
              /\ sink.active_voltage = contract.voltage
              /\ sink.active_max_current = contract.current
         /\ Head(events).type = "wait" => unheard
         /\ Head(events).type = "reject" => src # "ready"
<1> DEFINE e == Head(events)
<1>1. /\ events # <<>> /\ UNCHANGED <<link, rx, src, pdos>> /\ link = "up"
  BY Popped, MessageOfSource DEF srcVars
<1>2. /\ \A i \in DOMAIN Way' : i + 1 \in DOMAIN Way /\ i + 1 # 1 /\ Way'[i] = Way[i + 1]
      /\ Way[1] = e /\ 1 \in DOMAIN Way /\ DOMAIN Way = 1 .. Len(Way) /\ Len(Way) \in Nat \ {0}
      /\ DOMAIN Way' = 1 .. Len(Way) - 1
  BY PopShifts
<1>3. IsReply(Way[1]) /\ ~IsAdvert(Way[1])
  BY <1>2, KindsOfMessage
<1> HIDE DEF e
<1>4. ~JustReset /\ ~JustReset'
  <2>1. link # "down" /\ link' # "down"
    BY <1>1
  <2> QED BY <2>1 DEF JustReset
<1>5. ~NoReply
  BY <1>2, <1>3 DEF NoReply
<1>6. sink.tx = <<>> /\ src # "transition"
  BY <1>5 DEF Agreement, OneAtATime
<1>7. src # "startup"
  BY <1>1, <1>4 DEF Agreement, StartsAfresh
<1>8. \A i \in DOMAIN Way : IsReply(Way[i]) => i = 1
  BY <1>2, <1>3 DEF Agreement, OneAtATime
<1>9. NoReply'
  BY <1>2, <1>8 DEF NoReply
<1>10. AdvertUnread' <=> AdvertUnread
  <2>1. Unread = {e} \cup Unread'
    BY Popped DEF e
  <2> QED BY <1>2, <1>3, <2>1 DEF AdvertUnread
<1>11. AdvertsInOrder'
  <2> SUFFICES ASSUME NEW i \in DOMAIN Way', IsAdvert(Way'[i])
               PROVE  Way'[i].objs = pdos' /\ src' \in {"wait_request", "transition"}
    BY DEF AdvertsInOrder
  <2>1. i + 1 \in DOMAIN Way /\ Way'[i] = Way[i + 1] /\ i \in Nat /\ i >= 1
    BY <1>2
  <2>2. ~ReplyAfter(i + 1)
    <3> SUFFICES ASSUME NEW k \in DOMAIN Way, k > i + 1, IsReply(Way[k]) PROVE FALSE
      BY DEF ReplyAfter
    <3>1. k = 1
      BY <1>8
    <3> QED BY <2>1, <3>1
  <2> QED BY <1>1, <2>1, <2>2 DEF Agreement, AdvertsInOrder
<1>12. /\ e.type = "ps_ready" => Remembers(contract)
       /\ e.type = "wait" => unheard
       /\ e.type = "reject" => src # "ready"
  <2>1. ~AdvertBefore(1)
    BY <1>2 DEF AdvertBefore
  <2>2. /\ Way[1].type = "ps_ready" => Remembers(contract) \/ AdvertBefore(1)
        /\ Way[1].type = "wait" => unheard
        /\ Way[1].type = "reject" => src # "ready"
    BY <1>2, <1>3 DEF Agreement, RequestKnown
  <2> QED BY <1>2, <2>1, <2>2
<1>13. e.type # "ps_ready" => /\ sink.active_voltage = contract.voltage
                              /\ sink.active_max_current = contract.current
  <2> SUFFICES ASSUME e.type # "ps_ready"
               PROVE  /\ sink.active_voltage = contract.voltage
                      /\ sink.active_max_current = contract.current
    OBVIOUS
  <2>1. \A i \in DOMAIN Way : IsReply(Way[i]) => Way[i].type # "ps_ready"
    BY <1>2, <1>8
  <2> QED BY <1>4, <2>1 DEF Agreement, ActiveKnown
<1> QED BY <1>4, <1>6, <1>7, <1>9, <1>10, <1>11, <1>12, <1>13 DEF e

(* What a sink is like after an answer *)
LEMMA AnswerAgrees ==
  ASSUME Agreement, ~JustReset, ~JustReset', NoReply', sink'.tx = <<>>,
         src \notin {"startup", "transition"}, AdvertUnread' <=> AdvertUnread, AdvertsInOrder',
         UNCHANGED <<src, pdos>>, sink'.source_caps = sink.source_caps,
         sink'.requested_voltage = 0 \/ unheard',
         sink'.active_voltage = contract'.voltage, sink'.active_max_current = contract'.current,
         src' = "ready" /\ ~unheard' => Repeats(contract)'
  PROVE  Agreement'
<1>1. CapsFollow'
  BY DEF Agreement, CapsFollow
<1>2. OneAtATime'
  <2>1. Len(<<>>) = 0
    OBVIOUS
  <2> QED BY <2>1 DEF OneAtATime, NoReply
<1>3. StartsAfresh'
  BY DEF StartsAfresh
<1>4. RequestKnown'
  <2>1. Requests' = {}
    BY DEF Requests, Range
  <2> QED BY <2>1 DEF RequestKnown, NoReply
<1>5. ActiveKnown'
  BY DEF ActiveKnown
<1> QED BY <1>1, <1>2, <1>3, <1>4, <1>5 DEF Agreement

LEMMA ReplyFields ==
  ASSUME NEW s \in SinkRecords, NEW m \in SourceMessages, IsReply(m)
  PROVE  LET t == HandleMsg(s, m)
         IN  /\ t.source_caps = s.source_caps /\ t.tx = s.tx
             /\ m.type \in {"ps_ready", "reject", "wait"}
             /\ m.type = "ps_ready" => /\ t.active_voltage = s.requested_voltage
                                       /\ t.active_max_current = s.requested_max_current
                                       /\ t.selected_pps_index = s.selected_pps_index
             /\ m.type # "ps_ready" => /\ t.active_voltage = s.active_voltage
                                       /\ t.active_max_current = s.active_max_current
             /\ m.type # "wait" => t.requested_voltage = 0
             /\ CallbackOf(m) # "source_caps_changed"
<1>1. m.type \in {"ps_ready", "reject", "wait"}
  BY DEF IsReply
<1>2. CASE m.type = "ps_ready"
  <2>1. HandleMsg(s, m) = PowerReady(s) /\ CallbackOf(m) = "power_ready"
    BY <1>2 DEF HandleMsg, CallbackOf
  <2> QED BY <1>2, <2>1 DEF PowerReady, SinkRecords
<1>3. CASE m.type = "reject"
  <2>1. HandleMsg(s, m) = [s EXCEPT !.requested_voltage = 0, !.requested_max_current = 0,
                                    !.selected_pps_index = 0]
    BY <1>3 DEF HandleMsg
  <2>2. CallbackOf(m) = "power_rejected"
    BY <1>3 DEF CallbackOf
  <2> QED BY <1>3, <2>1, <2>2 DEF SinkRecords
<1>4. CASE m.type = "wait"
  <2>1. HandleMsg(s, m) = s /\ CallbackOf(m) = "none"
    BY <1>4 DEF HandleMsg, CallbackOf
  <2> QED BY <1>4, <2>1
<1> QED BY <1>1, <1>2, <1>3, <1>4

LEMMA PopReplyAgrees ==
  ASSUME SystemInv, SystemInv', Agreement, PopEvent,
         Head(events) \in SourceMessages, IsReply(Head(events))
  PROVE  Agreement'
<1> DEFINE e == Head(events)
           t == HandleMsg(sink, e)
<1>1. /\ UNCHANGED <<src, pdos, contract>>
      /\ SinkCallback(CallbackOf(e), t, protocol)
  BY Popped, StateChangedIsNoMessage DEF srcVars, IsReply
<1>2. /\ ~JustReset /\ ~JustReset' /\ NoReply' /\ sink.tx = <<>>
      /\ src \notin {"startup", "transition"}
      /\ (AdvertUnread' <=> AdvertUnread) /\ AdvertsInOrder'
      /\ e.type = "ps_ready" => Remembers(contract)
      /\ e.type # "ps_ready" => /\ sink.active_voltage = contract.voltage
                                /\ sink.active_max_current = contract.current
      /\ e.type = "wait" => unheard
      /\ e.type = "reject" => src # "ready"
  BY AnswerPopped
<1>3. sink \in SinkRecords /\ unheard \in BOOLEAN
  BY DEF SystemInv, SystemTypeOK, WireTypes
<1>4. /\ t.source_caps = sink.source_caps /\ t.tx = sink.tx
      /\ e.type \in {"ps_ready", "reject", "wait"}
      /\ e.type = "ps_ready" => /\ t.active_voltage = sink.requested_voltage
                                /\ t.active_max_current = sink.requested_max_current
                                /\ t.selected_pps_index = sink.selected_pps_index
      /\ e.type # "ps_ready" => /\ t.active_voltage = sink.active_voltage
                                /\ t.active_max_current = sink.active_max_current
      /\ e.type # "wait" => t.requested_voltage = 0
      /\ CallbackOf(e) # "source_caps_changed"
  BY <1>3, ReplyFields
<1> HIDE DEF t, e
<1>5. SinkBecomes(t)
  BY <1>1, <1>4 DEF SinkCallback
<1>6. sink' = t /\ unheard' = unheard
  <2>1. ~(Len(t.tx) > Len(sink.tx))
    <3>1. Len(t.tx) = 0 /\ Len(sink.tx) = 0
      BY <1>2, <1>4
    <3> QED BY <3>1
  <2> QED BY <1>3, <1>5, <2>1 DEF SinkBecomes
<1>7. sink'.requested_voltage = 0 \/ unheard'
  BY <1>2, <1>4, <1>6
<1>8. sink'.active_voltage = contract'.voltage /\ sink'.active_max_current = contract'.current
  BY <1>1, <1>2, <1>4, <1>6 DEF Remembers
<1>9. src' = "ready" /\ ~unheard' => Repeats(contract)'
  <2> SUFFICES ASSUME src = "ready", ~unheard PROVE Repeats(contract)'
    BY <1>1, <1>6
  <2>1. e.type = "ps_ready"
    BY <1>2, <1>4
  <2>2. Repeats(contract)
    BY <1>2, <2>1 DEF Remembers
  <2>3. sink'.source_caps = sink.source_caps /\ sink'.selected_pps_index = sink.selected_pps_index
    BY <1>4, <1>6, <2>1
  <2> QED BY <1>1, <2>2, <2>3 DEF Repeats, CanRequest
<1>10. sink'.tx = <<>> /\ sink'.source_caps = sink.source_caps
  BY <1>2, <1>4, <1>6
<1> QED BY <1>1, <1>2, <1>7, <1>8, <1>9, <1>10, AnswerAgrees

LEMMA DetachFields ==
  ASSUME NEW s \in SinkRecords, NEW l, l # "up"
  PROVE  UpdateProtocol(s, l).active_max_current = 900
BY DEF UpdateProtocol, SinkRecords

(* The report of a reset is popped. *)
LEMMA PopResetAgrees ==
  ASSUME SystemInv, SystemInv', Agreement, PopEvent, link = "down", Head(events) = StateChanged
  PROVE  Agreement'
<1> DEFINE t == UpdateProtocol(sink, link)
<1>1. /\ events # <<>> /\ events' = Tail(events) /\ UNCHANGED <<rx, src, pdos, contract, link>>
      /\ \E event : event # "source_caps_changed" /\ SinkCallback(event, t, protocol')
  <2>1. Head(events) \notin SourceMessages
    BY MessageOfSource
  <2>2. SinkCallback(IF protocol' # protocol THEN "protocol_changed" ELSE "none", t, protocol')
    BY <2>1, Popped
  <2>3. (IF protocol' # protocol THEN "protocol_changed" ELSE "none") # "source_caps_changed"
    OBVIOUS
  <2> QED BY <2>2, <2>3, Popped DEF srcVars
<1>2. events = <<StateChanged>> /\ events' = <<>>
  <2>1. events = <<StateChanged>>
    BY <1>1 DEF SystemInv, LinkInStep
  <2>2. Tail(<<StateChanged>>) = <<>>
    OBVIOUS
  <2> QED BY <1>1, <2>1, <2>2
<1>3. JustReset /\ ~JustReset'
  <2>1. <<StateChanged>> # <<>>
    OBVIOUS
  <2> QED BY <1>2, <2>1 DEF JustReset
<1>4. sink.tx = <<>> /\ NoReply /\ src \in {"startup", "wait_request"} /\ contract = vSafe5V
  BY <1>3 DEF Agreement, StartsAfresh
<1>5. sink \in SinkRecords
  BY DEF SystemInv, WireTypes
<1>6. /\ t.source_caps = <<>> /\ t.active_voltage = 5000 /\ t.active_max_current = 900
      /\ t.tx = <<>>
  BY <1>4, <1>5, DetachHandled, DetachFields
<1> HIDE DEF t
<1>7. sink' = t
  BY <1>1 DEF SinkCallback, SinkBecomes
<1>8. \A i \in DOMAIN Way' : i + 1 \in DOMAIN Way /\ Way'[i] = Way[i + 1]
  BY PopShifts
<1>9. NoReply'
  BY <1>4, <1>8 DEF NoReply
<1>10. AdvertsInOrder'
  <2> SUFFICES ASSUME NEW i \in DOMAIN Way', IsAdvert(Way'[i])
               PROVE  Way'[i].objs = pdos' /\ src' \in {"wait_request", "transition"}
    BY DEF AdvertsInOrder
  <2>1. i + 1 \in DOMAIN Way /\ Way'[i] = Way[i + 1] /\ ~ReplyAfter(i + 1)
    BY <1>4, <1>8 DEF NoReply, ReplyAfter
  <2> QED BY <1>1, <2>1 DEF Agreement, AdvertsInOrder
<1>11. CapsFollow'
  BY <1>6, <1>7 DEF CapsFollow
<1>12. OneAtATime'
  <2>1. Len(<<>>) = 0
    OBVIOUS
  <2> QED BY <1>6, <1>7, <1>9, <2>1 DEF OneAtATime, NoReply
<1>13. StartsAfresh'
  BY <1>1, <1>2, <1>3, <1>6, <1>7 DEF Agreement, StartsAfresh
<1>14. RequestKnown'
  <2>1. Requests' = {}
    BY <1>6, <1>7 DEF Requests, Range
  <2> QED BY <1>1, <1>4, <1>9, <2>1 DEF RequestKnown, NoReply
<1>15. ActiveKnown'
  <2>1. contract'.voltage = 5000 /\ contract'.current = 900 /\ src' # "ready"
    BY <1>1, <1>4 DEF vSafe5V
  <2> QED BY <1>6, <1>7, <2>1 DEF ActiveKnown
<1> QED BY <1>10, <1>11, <1>12, <1>13, <1>14, <1>15 DEF Agreement

LEMMA PopAgrees ==
  ASSUME PlainSources, SystemInv, SystemInv', Agreement, ~overlap', PopEvent
  PROVE  Agreement'
<1> DEFINE e == Head(events)
<1>1. /\ \/ e \in SourceMessages /\ link = "up"
         \/ e = StateChanged
      /\ link \in {"up", "down"} /\ sink \in SinkRecords
  BY Popped DEF SystemInv, SystemTypeOK, WireTypes
<1>2. CASE e \in SourceMessages /\ IsAdvert(e)
  BY <1>2, PopAdvertAgrees
<1>3. CASE e \in SourceMessages /\ IsReply(e)
  BY <1>3, PopReplyAgrees
<1>4. CASE e \in SourceMessages /\ ~Counts(e)
  <2>1. e.type = "accept"
    BY <1>4, MessageOfSource DEF Counts, IsAdvert, IsReply
  <2>2. HandleMsg(sink, e) = sink /\ CallbackOf(e) # "source_caps_changed"
    BY <2>1 DEF HandleMsg, CallbackOf
  <2>3. SinkBecomes(sink) /\ link = "up"
    BY <1>4, <2>2, Popped, StateChangedIsNoMessage, MessageOfSource DEF SinkCallback
  <2> QED BY <1>4, <2>3, PopQuietAgrees
<1>5. CASE e = StateChanged /\ link = "up"
  <2>1. UpdateProtocol(sink, link) = sink /\ ~Counts(e)
    BY <1>5, KindsOfMessage DEF UpdateProtocol, Counts
  <2>2. e \notin SourceMessages
    BY <1>5, MessageOfSource
  <2>3. SinkBecomes(sink)
    BY <2>1, <2>2, Popped DEF SinkCallback
  <2> QED BY <1>5, <2>1, <2>3, PopQuietAgrees
<1>6. CASE e = StateChanged /\ link = "down"
  BY <1>6, PopResetAgrees
<1> QED BY <1>1, <1>2, <1>3, <1>4, <1>5, <1>6 DEF Counts

(* What the source says comes last. *)
Behind == Len(Way) + 1

LEMMA SaidOrder ==
  ASSUME SystemInv, SystemInv', NEW m \in SourceMessages, rx' = Append(rx, m), events' = events
  PROVE  /\ \A i \in DOMAIN Way : /\ i \in DOMAIN Way' /\ Way'[i] = Way[i]
                                  /\ AdvertBefore(i) => AdvertBefore(i)'
                                  /\ ReplyAfter(i) \/ IsReply(m) => ReplyAfter(i)'
         /\ \A i \in DOMAIN Way' : i \in DOMAIN Way \/ i = Behind
         /\ Behind \in DOMAIN Way' /\ Way'[Behind] = m
         /\ \A n : n = Behind /\ AdvertUnread => AdvertBefore(n)'
         /\ AdvertUnread' <=> (AdvertUnread \/ IsAdvert(m))
         /\ NoReply' <=> (NoReply /\ ~IsReply(m))
<1>1. events \in Seq(Events) /\ rx \in Seq(SourceMessages)
  BY OnTheWay
<1>2. /\ DOMAIN Way = 1 .. Len(Way) /\ Len(Way) \in Nat
      /\ DOMAIN Way' = 1 .. Behind
      /\ \A i \in DOMAIN Way : Way'[i] = Way[i]
      /\ Way'[Behind] = m
  BY <1>1, WaySaid DEF Behind
<1>3. /\ \A i \in DOMAIN Way : i \in DOMAIN Way' /\ Way'[i] = Way[i] /\ i < Behind
      /\ \A i \in DOMAIN Way' : i \in DOMAIN Way \/ i = Behind
      /\ Behind \in DOMAIN Way'
  BY <1>2 DEF Behind
<1>4. ASSUME NEW i \in DOMAIN Way, AdvertBefore(i) PROVE AdvertBefore(i)'
  BY <1>3, <1>4 DEF AdvertBefore
<1>5. ASSUME NEW i \in DOMAIN Way, ReplyAfter(i) PROVE ReplyAfter(i)'
  BY <1>3, <1>5 DEF ReplyAfter
<1>6. ASSUME NEW i \in DOMAIN Way, IsReply(m) PROVE ReplyAfter(i)'
  <2>1. Behind > i
    BY <1>2 DEF Behind
  <2> QED BY <1>2, <1>3, <1>6, <2>1 DEF ReplyAfter
<1>7. AdvertUnread' <=> (AdvertUnread \/ IsAdvert(m))
  BY <1>2, <1>3, OnTheWay
<1>8. ASSUME NEW n, n = Behind, AdvertUnread PROVE AdvertBefore(n)'
  <2>1. PICK k \in DOMAIN Way : IsAdvert(Way[k])
    BY <1>8, OnTheWay
  <2>2. k \in DOMAIN Way' /\ Way'[k] = Way[k] /\ k < n
    BY <1>3, <1>8
  <2> QED BY <2>1, <2>2 DEF AdvertBefore
<1>9. NoReply' <=> (NoReply /\ ~IsReply(m))
  BY <1>2, <1>3 DEF NoReply
<1> QED BY <1>2, <1>3, <1>4, <1>5, <1>6, <1>7, <1>8, <1>9

(* The source gives an answer when none is on its way. *)
LEMMA ReplyAgrees ==
  ASSUME SystemInv, SystemInv', Agreement, NoReply, ~JustReset,
         NEW m \in SourceMessages, IsReply(m), rx' = Append(rx, m), UNCHANGED <<events, link, pdos>>,
         sink'.tx = <<>>, sink'.source_caps = sink.source_caps, src' \notin {"startup", "transition"},
         m.type = "ps_ready" => Remembers(contract)' \/ AdvertUnread,
         m.type = "wait" => unheard',
         m.type = "reject" => src' # "ready",
         m.type # "ps_ready" =>
           /\ sink'.active_voltage = contract'.voltage /\ sink'.active_max_current = contract'.current
           /\ src' # "ready" \/ unheard'
  PROVE  Agreement'
<1>1. /\ \A i \in DOMAIN Way : /\ i \in DOMAIN Way' /\ Way'[i] = Way[i] /\ ReplyAfter(i)'
      /\ \A i \in DOMAIN Way' : i \in DOMAIN Way \/ i = Behind
      /\ Behind \in DOMAIN Way' /\ Way'[Behind] = m
      /\ \A n : n = Behind /\ AdvertUnread => AdvertBefore(n)'
      /\ (AdvertUnread => AdvertUnread') /\ ~NoReply'
  BY SaidOrder
<1>2. ~IsAdvert(m)
  BY KindsOfMessage
<1>3. ~JustReset'
  BY DEF JustReset
<1>4. \A i \in DOMAIN Way' : IsReply(Way'[i]) => i = Behind
  BY <1>1 DEF NoReply
<1>5. AdvertsInOrder'
  BY <1>1, <1>2 DEF AdvertsInOrder
<1>6. CapsFollow'
  BY <1>1 DEF Agreement, CapsFollow
<1>7. OneAtATime'
  <2>1. Len(<<>>) = 0
    OBVIOUS
  <2>2. \A i, j \in DOMAIN Way' : IsReply(Way'[i]) /\ IsReply(Way'[j]) => i = j
    BY <1>4
  <2> QED BY <2>1, <2>2 DEF OneAtATime
<1>8. StartsAfresh'
  BY <1>3 DEF StartsAfresh
<1>9. RequestKnown'
  <2>1. Requests' = {}
    BY DEF Requests, Range
  <2>2. ASSUME NEW i \in DOMAIN Way', IsReply(Way'[i])
        PROVE  /\ Way'[i].type = "ps_ready" => Remembers(contract)' \/ AdvertBefore(i)'
               /\ Way'[i].type = "wait" => unheard'
               /\ Way'[i].type = "reject" => src' # "ready"
    <3>1. i = Behind /\ Way'[i] = m
      BY <1>1, <1>4, <2>2
    <3>2. AdvertUnread => AdvertBefore(i)'
      BY <1>1, <3>1
    <3> QED BY <3>1, <3>2
  <2> QED BY <1>1, <2>1, <2>2 DEF RequestKnown
<1>10. ActiveKnown'
  BY <1>1 DEF ActiveKnown
<1> QED BY <1>5, <1>6, <1>7, <1>8, <1>9, <1>10 DEF Agreement

LEMMA AdvertiseAgrees ==
  ASSUME SystemInv, SystemInv', Agreement, NEW objects \in Adverts, SendCapabilities(objects),
         src \in {"startup", "ready", "rejected"}
  PROVE  Agreement'
<1> DEFINE m == Message("source_capabilities", objects)
<1>1. /\ sink.tx = <<>> /\ src' = "wait_request" /\ pdos' = objects /\ rx' = Append(rx, m)
      /\ UNCHANGED <<events, link, sink, contract, unheard>>
  BY DEF SendCapabilities, Source, Speaks, linkVars
<1>2. m \in SourceMessages /\ m.objs = objects /\ IsAdvert(m) /\ ~IsReply(m)
  BY DEF SourceMessages, Message, IsAdvert, IsReply, IsMessage
<1> HIDE DEF m
<1>3. /\ \A i \in DOMAIN Way : /\ i \in DOMAIN Way' /\ Way'[i] = Way[i]
                               /\ AdvertBefore(i) => AdvertBefore(i)'
                               /\ ReplyAfter(i) => ReplyAfter(i)'
      /\ \A i \in DOMAIN Way' : i \in DOMAIN Way \/ i = Behind
      /\ Behind \in DOMAIN Way' /\ Way'[Behind] = m
      /\ AdvertUnread' /\ (NoReply' <=> NoReply)
  BY <1>1, <1>2, SaidOrder
<1>4. JustReset' <=> JustReset
  BY <1>1 DEF JustReset
<1>5. SinkAs(sink) /\ \A g : Remembers(g)' <=> Remembers(g)
  BY <1>1, SinkRemembers DEF SinkAs
<1>6. AdvertsInOrder'
  <2> SUFFICES ASSUME NEW i \in DOMAIN Way', IsAdvert(Way'[i])
               PROVE  Way'[i].objs = pdos' \/ ReplyAfter(i)'
    BY <1>1 DEF AdvertsInOrder
  <2>1. CASE i = Behind
    BY <1>1, <1>2, <1>3, <2>1
  <2>2. CASE i \in DOMAIN Way
    <3>1. IsAdvert(Way[i])
      BY <1>3, <2>2
    <3>2. ReplyAfter(i)
      BY <2>2, <3>1 DEF Agreement, AdvertsInOrder
    <3> QED BY <1>3, <2>2, <3>2
  <2> QED BY <1>3, <2>1, <2>2
<1>7. CapsFollow'
  BY <1>3 DEF CapsFollow
<1>8. \A i \in DOMAIN Way' : IsReply(Way'[i]) => i \in DOMAIN Way /\ IsReply(Way[i]) /\ Way'[i] = Way[i]
  BY <1>2, <1>3
<1>9. OneAtATime'
  <2>1. Len(sink'.tx) <= 1
    BY <1>1 DEF Agreement, OneAtATime
  <2>2. \A i, j \in DOMAIN Way' : IsReply(Way'[i]) /\ IsReply(Way'[j]) => i = j
    BY <1>8 DEF Agreement, OneAtATime
  <2> QED BY <1>1, <2>1, <2>2 DEF OneAtATime
<1>10. StartsAfresh'
  BY <1>1, <1>3, <1>4 DEF Agreement, StartsAfresh
<1>11. RequestKnown'
  <2>1. Requests' = {}
    BY <1>1 DEF Requests, Range
  <2>2. ASSUME NEW i \in DOMAIN Way', IsReply(Way'[i])
        PROVE  /\ Way'[i].type = "ps_ready" => Remembers(contract)' \/ AdvertBefore(i)'
               /\ Way'[i].type = "wait" => unheard'
    <3>1. i \in DOMAIN Way /\ IsReply(Way[i]) /\ Way'[i] = Way[i]
      BY <1>8, <2>2
    <3>2. Remembers(contract)' <=> Remembers(contract)
      BY <1>1, <1>5
    <3>3. AdvertBefore(i) => AdvertBefore(i)'
      BY <1>3, <3>1
    <3> QED BY <1>1, <3>1, <3>2, <3>3 DEF Agreement, RequestKnown
  <2> QED BY <1>1, <2>1, <2>2 DEF RequestKnown
<1>12. ActiveKnown'
  <2> SUFFICES ASSUME \A i \in DOMAIN Way' : IsReply(Way'[i]) => Way'[i].type # "ps_ready",
                      ~JustReset'
               PROVE  sink.active_voltage = contract.voltage /\ sink.active_max_current = contract.current
    BY <1>1 DEF ActiveKnown
  <2>1. \A i \in DOMAIN Way : IsReply(Way[i]) => Way[i].type # "ps_ready"
    BY <1>3
  <2> QED BY <1>4, <2>1 DEF Agreement, ActiveKnown
<1> QED BY <1>6, <1>7, <1>9, <1>10, <1>11, <1>12 DEF Agreement

(* The only request leaves the sink. *)
LEMMA RequestGone ==
  ASSUME SystemInv, Agreement, sink.tx # <<>>, sink' = [sink EXCEPT !.tx = Tail(@)]
  PROVE  /\ sink'.tx = <<>> /\ NoReply /\ ~JustReset /\ src \notin {"startup", "transition"}
         /\ \A r \in Requests : r \in Asked /\ Remembers(r)'
         /\ sink'.source_caps = sink.source_caps
         /\ sink'.active_voltage = contract.voltage /\ sink'.active_max_current = contract.current
<1>1. sink \in SinkRecords /\ sink.tx \in Seq(Asked)
  BY DEF SystemInv, WireTypes, SinkRecords
<1>2. /\ sink'.source_caps = sink.source_caps /\ sink'.requested_voltage = sink.requested_voltage
      /\ sink'.requested_max_current = sink.requested_max_current
      /\ sink'.active_voltage = sink.active_voltage
      /\ sink'.active_max_current = sink.active_max_current
      /\ sink'.selected_pps_index = sink.selected_pps_index
      /\ sink'.tx = Tail(sink.tx)
  BY <1>1 DEF SinkRecords
<1>3. sink'.tx = <<>>
  <2>1. Len(sink.tx) = 1
    <3> DEFINE n == Len(sink.tx)
    <3>1. n \in Nat \ {0} /\ n <= 1
      BY <1>1, LenOfNonEmpty DEF Agreement, OneAtATime
    <3> HIDE DEF n
    <3>2. n = 1
      BY <3>1
    <3> QED BY <3>2 DEF n
  <2>2. Tail(sink.tx) \in Seq(Asked) /\ Len(Tail(sink.tx)) = 0
    BY <1>1, <2>1
  <2>3. Tail(sink.tx) = <<>>
    BY <2>2, LenOfNonEmpty
  <2> QED BY <1>2, <2>3
<1>4. NoReply /\ ~JustReset /\ src \notin {"startup", "transition"}
  BY DEF Agreement, OneAtATime, StartsAfresh
<1>5. ASSUME NEW r \in Requests PROVE r \in Asked /\ Remembers(r)'
  <2>1. r \in Asked
    BY <1>1 DEF Requests, Range
  <2>2. Remembers(r)
    BY DEF Agreement, RequestKnown
  <2> QED BY <1>2, <2>1, <2>2 DEF Remembers, Repeats, CanRequest
<1>6. sink.active_voltage = contract.voltage /\ sink.active_max_current = contract.current
  BY <1>4 DEF Agreement, ActiveKnown, NoReply
<1> QED BY <1>2, <1>3, <1>4, <1>5, <1>6

LEMMA GrantedRequest ==
  ASSUME pdos \in Adverts, NEW r \in Asked, Offers(r), NEW g \in Meanings(r)
  PROVE  g.voltage = r.voltage /\ g.current = r.current /\ g.supply_type = r.supply_type
<1> DEFINE cap == Capability(pdos[r.obj_pos], r.obj_pos)
<1>1. r.obj_pos \in DOMAIN pdos /\ cap.supply_type = r.supply_type
  BY DEF Offers
<1> HIDE DEF cap
<1>2. g = [supply_type |-> cap.supply_type, obj_pos |-> r.obj_pos,
           voltage |-> IF cap.supply_type = "fixed" THEN cap.voltage ELSE r.voltage,
           current |-> r.current]
  BY <1>1 DEF Meanings, cap
<1>3. g.current = r.current /\ g.supply_type = r.supply_type
  BY <1>1, <1>2
<1> QED BY <1>3, GrantedVoltage

LEMMA AcceptAgrees ==
  ASSUME SystemInv, SystemInv', Agreement, Accept
  PROVE  Agreement'
<1>0. PICK r \in Requests : \E g \in Meanings(r) :
        TakesRequest(r) /\ granted' = g /\ src' = "transition" /\ Reply("accept") /\ UNCHANGED unheard
  BY DEF Accept
<1>1. PICK g \in Meanings(r) :
        TakesRequest(r) /\ granted' = g /\ src' = "transition" /\ Reply("accept") /\ UNCHANGED unheard
  BY <1>0
<1> DEFINE m == Message("accept", <<>>)
<1>2. /\ sink.tx # <<>> /\ sink' = [sink EXCEPT !.tx = Tail(@)]
      /\ UNCHANGED <<events, link, pdos, contract>>
      /\ rx' = Append(rx, m)
  BY <1>1 DEF TakesRequest, Source, Reply, Speaks, linkVars
<1>3. m \in SourceMessages /\ ~IsAdvert(m) /\ ~IsReply(m)
  BY DEF SourceMessages, Message, IsAdvert, IsReply, IsMessage
<1> HIDE DEF m
<1>4. /\ sink'.tx = <<>> /\ NoReply /\ ~JustReset /\ src \notin {"startup", "transition"}
      /\ r \in Asked /\ Remembers(r)'
      /\ sink'.source_caps = sink.source_caps
      /\ sink'.active_voltage = contract.voltage /\ sink'.active_max_current = contract.current
  BY <1>2, RequestGone
<1>5. /\ \A i \in DOMAIN Way : i \in DOMAIN Way' /\ Way'[i] = Way[i]
      /\ \A i \in DOMAIN Way' : i \in DOMAIN Way \/ i = Behind
      /\ Way'[Behind] = m
      /\ (AdvertUnread' <=> AdvertUnread) /\ NoReply'
  BY <1>2, <1>3, <1>4, SaidOrder
<1>6. ~JustReset'
  BY <1>2, <1>4 DEF JustReset
<1>7. AdvertsInOrder'
  <2> SUFFICES ASSUME NEW i \in DOMAIN Way', IsAdvert(Way'[i]) PROVE Way'[i].objs = pdos'
    BY <1>1 DEF AdvertsInOrder
  <2>1. i \in DOMAIN Way /\ Way'[i] = Way[i]
    BY <1>3, <1>5
  <2>2. ~ReplyAfter(i)
    BY <1>4 DEF NoReply, ReplyAfter
  <2> QED BY <1>2, <2>1, <2>2 DEF Agreement, AdvertsInOrder
<1>8. CapsFollow'
  BY <1>2, <1>4, <1>5 DEF Agreement, CapsFollow
<1>9. OneAtATime'
  <2>1. Len(<<>>) = 0
    OBVIOUS
  <2> QED BY <1>4, <1>5, <2>1 DEF OneAtATime, NoReply
<1>10. StartsAfresh'
  BY <1>1, <1>6 DEF StartsAfresh
<1>11. RequestKnown'
  <2>1. Requests' = {}
    BY <1>4 DEF Requests, Range
  <2>2. Remembers(g)' \/ AdvertUnread'
    <3>1. CASE AdvertUnread
      BY <1>5, <3>1
    <3>2. CASE Offers(r)
      <4>1. pdos \in Adverts
        BY DEF SystemInv, WireTypes
      <4>2. g.voltage = r.voltage /\ g.current = r.current /\ g.supply_type = r.supply_type
        BY <1>4, <3>2, <4>1, GrantedRequest
      <4> QED BY <1>4, <4>2 DEF Remembers, Repeats
    <3> QED BY <3>1, <3>2 DEF Agreement, RequestKnown
  <2>3. (src = "transition" => Remembers(granted) \/ AdvertUnread)'
    <3>1. Remembers(granted)' <=> Remembers(g)'
      BY <1>1 DEF Remembers, Repeats
    <3> QED BY <2>2, <3>1
  <2> QED BY <1>1, <1>5, <2>1, <2>3 DEF RequestKnown, NoReply
<1>12. ActiveKnown'
  BY <1>1, <1>2, <1>4 DEF ActiveKnown
<1> QED BY <1>7, <1>8, <1>9, <1>10, <1>11, <1>12 DEF Agreement

LEMMA RefusedAgrees ==
  ASSUME SystemInv, SystemInv', Agreement, Reject \/ PutOff
  PROVE  Agreement'
<1> DEFINE reply(type) == Message(type, <<>>)
<1>1. PICK type \in {"reject", "wait"} :
        /\ sink.tx # <<>> /\ sink' = [sink EXCEPT !.tx = Tail(@)]
        /\ UNCHANGED <<events, link, pdos, contract>> /\ src' = "rejected"
        /\ rx' = Append(rx, reply(type)) /\ (type = "wait" => unheard')
  BY DEF Reject, PutOff, Refuses, TakesRequest, Source, Reply, Speaks, linkVars
<1> DEFINE m == reply(type)
<1>2. m \in SourceMessages /\ IsReply(m) /\ m.type = type
  BY DEF SourceMessages, Message, IsReply, IsMessage
<1>3. rx' = Append(rx, m)
  BY <1>1
<1> HIDE DEF m
<1>4. /\ sink'.tx = <<>> /\ NoReply /\ ~JustReset
      /\ sink'.source_caps = sink.source_caps
      /\ sink'.active_voltage = contract'.voltage /\ sink'.active_max_current = contract'.current
  BY <1>1, RequestGone
<1> QED BY <1>1, <1>2, <1>3, <1>4, ReplyAgrees

LEMMA LostAgrees ==
  ASSUME SystemInv, SystemInv', Agreement, LoseRequest
  PROVE  Agreement'
<1>1. /\ sink.tx # <<>> /\ sink' = [sink EXCEPT !.tx = Tail(@)] /\ unheard'
      /\ UNCHANGED <<events, rx, link, src, pdos, contract>>
  BY DEF LoseRequest, Source, linkVars, srcVars
<1>2. /\ sink'.tx = <<>> /\ NoReply /\ ~JustReset /\ src \notin {"startup", "transition"}
      /\ sink'.source_caps = sink.source_caps
      /\ sink'.active_voltage = contract'.voltage /\ sink'.active_max_current = contract'.current
  BY <1>1, RequestGone
<1>3. Way' = Way /\ (AdvertUnread' <=> AdvertUnread) /\ (JustReset' <=> JustReset)
  BY <1>1 DEF Way, AdvertUnread, Unread, JustReset
<1>4. NoReply'
  BY <1>2, <1>3 DEF NoReply
<1>5. AdvertsInOrder'
  BY <1>1, <1>3 DEF Agreement, AdvertsInOrder, ReplyAfter
<1>6. sink'.requested_voltage = 0 \/ unheard'
  BY <1>1
<1> QED BY <1>1, <1>2, <1>3, <1>4, <1>5, <1>6, AnswerAgrees

LEMMA SwitchedAgrees ==
  ASSUME SystemInv, SystemInv', Agreement, Switched
  PROVE  Agreement'
<1> DEFINE m == Message("ps_ready", <<>>)
<1>1. /\ src = "transition" /\ src' = "ready" /\ contract' = granted /\ rx' = Append(rx, m)
      /\ UNCHANGED <<events, link, pdos, sink>>
  BY DEF Switched, Source, Reply, Speaks, linkVars
<1>2. m \in SourceMessages /\ IsReply(m) /\ m.type = "ps_ready"
  BY DEF SourceMessages, Message, IsReply, IsMessage
<1> HIDE DEF m
<1>3. NoReply /\ sink'.tx = <<>> /\ ~JustReset
  BY <1>1 DEF Agreement, OneAtATime, StartsAfresh
<1>4. Remembers(contract)' \/ AdvertUnread
  <2>1. Remembers(granted) \/ AdvertUnread
    BY <1>1 DEF Agreement, RequestKnown
  <2> QED BY <1>1, <2>1 DEF Remembers, Repeats, CanRequest
<1>5. sink'.source_caps = sink.source_caps /\ src' \notin {"startup", "transition"}
  BY <1>1
<1> QED BY <1>1, <1>2, <1>3, <1>4, <1>5, ReplyAgrees

(* A reset leaves nothing of the old connection. *)
LEMMA ResetAgrees ==
  ASSUME SystemInv, SystemInv', AttachmentKnown, ResetStartsAnew, LinkReset \/ LinkTimeout
  PROVE  Agreement'
<1>1. /\ link' = "down" /\ events' = <<StateChanged>> /\ rx' = <<>> /\ src' = "startup"
      /\ contract' = vSafe5V /\ sink' = [sink EXCEPT !.tx = <<>>]
  <2>1. src = "startup"
    BY DEF LinkReset, LinkTimeout, ResetStartsAnew, AttachmentKnown
  <2> QED BY <2>1, ResetAtSafe5V DEF EstablishRetryWait, Reset, Link, srcVars
<1>2. sink'.tx = <<>>
  BY <1>1 DEF SystemInv, WireTypes, SinkRecords
<1>3. JustReset'
  BY <1>1 DEF JustReset
<1>4. \A i \in DOMAIN Way' : ~Counts(Way'[i])
  <2>1. <<StateChanged>> \in Seq(Events) /\ <<>> \in Seq(SourceMessages)
    BY DEF Events
  <2>2. Way' = <<StateChanged>> \o <<>>
    BY <1>1 DEF Way
  <2>3. \A i \in DOMAIN Way' : Way'[i] \in Range(<<>>) \cup Range(<<StateChanged>>)
    BY <2>1, <2>2, ConcatRange
  <2>4. Range(<<>>) \cup Range(<<StateChanged>>) = {StateChanged}
    BY DEF Range
  <2> QED BY <2>3, <2>4, KindsOfMessage DEF Counts
<1>5. NoReply' /\ AdvertsInOrder'
  BY <1>4 DEF NoReply, AdvertsInOrder, Counts
<1>6. CapsFollow'
  BY <1>3 DEF CapsFollow
<1>7. OneAtATime'
  <2>1. Len(<<>>) = 0
    OBVIOUS
  <2> QED BY <1>1, <1>2, <1>5, <2>1 DEF OneAtATime, NoReply
<1>8. StartsAfresh'
  BY <1>1, <1>2, <1>3, <1>5 DEF StartsAfresh
<1>9. RequestKnown'
  <2>1. Requests' = {}
    BY <1>2 DEF Requests, Range
  <2> QED BY <1>1, <1>5, <2>1 DEF RequestKnown, NoReply
<1>10. ActiveKnown'
  BY <1>3 DEF ActiveKnown
<1> QED BY <1>5, <1>6, <1>7, <1>8, <1>9, <1>10 DEF Agreement

LEMMA InitAgrees == ASSUME Init PROVE AgreementInv
<1>1. /\ SystemInv /\ ~hardrst /\ src = "startup" /\ rx = <<>> /\ events = <<>>
      /\ contract = vSafe5V
  BY InitKeeps DEF Init
<1>2. /\ sink.source_caps = <<>> /\ sink.tx = <<>>
      /\ sink.active_voltage = 5000 /\ sink.active_max_current = 900
  BY DEF Init, SinkInit
<1>3. Way = <<>> /\ DOMAIN Way = {}
  <2>1. <<>> \o <<>> = <<>> /\ DOMAIN <<>> = {}
    OBVIOUS
  <2> QED BY <1>1, <2>1 DEF Way
<1>4. Len(<<>>) = 0 /\ Requests = {}
  BY <1>2 DEF Requests, Range
<1>5. NoReply /\ AdvertsInOrder
  BY <1>3 DEF NoReply, AdvertsInOrder
<1>6. CapsFollow /\ OneAtATime
  BY <1>1, <1>2, <1>3, <1>4, <1>5 DEF CapsFollow, OneAtATime
<1>7. StartsAfresh
  <2>1. ~JustReset
    <3>1. <<StateChanged>> # <<>>
      OBVIOUS
    <3> QED BY <1>1, <3>1 DEF JustReset
  <2> QED BY <1>1, <1>2, <2>1 DEF StartsAfresh
<1>8. RequestKnown
  BY <1>1, <1>3, <1>4 DEF RequestKnown
<1>9. ActiveKnown
  <2>1. contract.voltage = 5000 /\ contract.current = 900
    BY <1>1 DEF vSafe5V
  <2> QED BY <1>1, <1>2, <2>1 DEF ActiveKnown
<1>10. ResetStartsAnew
  BY <1>1 DEF ResetStartsAnew
<1> QED BY <1>1, <1>5, <1>6, <1>7, <1>8, <1>9, <1>10 DEF AgreementInv, Agreement

LEMMA StepStartsAnew ==
  ASSUME ResetStartsAnew, [Next]_vars
  PROVE  ResetStartsAnew'
<1>1. CASE UNCHANGED <<hardrst, src>>
  BY <1>1 DEF ResetStartsAnew
<1>2. CASE hardrst' = FALSE
  BY <1>2 DEF ResetStartsAnew
<1>3. CASE src' = "startup"
  BY <1>3 DEF ResetStartsAnew
<1>4. CASE UNCHANGED vars \/ Saved
  BY <1>1, <1>4 DEF Saved, vars, srcVars
<1>5. CASE Firmware \/ StartupEnds \/ PpsDue
  BY <1>1, <1>2, <1>5 DEF Firmware, LinkAttach, LinkDeliver, LinkReset, LinkTimeout,
     EstablishRetryWait, LinkReturn, PopEvent, SinkPollEnds,
     HalPoll, StartupEnds, ConfigRelease, ConfigSelect, LoopButton, PpsDue, AtTail, App, Link, srcVars
<1>6. CASE Advertise \/ AdvertiseAgain \/ Accept \/ Reject \/ PutOff \/ LoseRequest \/ Switched
  <2>1. hardrst \in {hardrst', FALSE} /\ ~hardrst
    BY <1>6 DEF Advertise, AdvertiseAgain, SendCapabilities, Accept, Reject, PutOff, LoseRequest,
       Switched, Refuses, TakesRequest
  <2>2. hardrst' = hardrst
    BY <1>6 DEF Advertise, AdvertiseAgain, SendCapabilities, Accept, Reject, PutOff, LoseRequest,
       Switched, Refuses, TakesRequest
  <2> QED BY <2>1, <2>2 DEF ResetStartsAnew
<1>7. CASE HardReset \/ GiveUp
  BY <1>3, <1>7 DEF HardReset, GiveUp, Resets
<1> QED BY <1>4, <1>5, <1>6, <1>7 DEF Next

(* Until a reset is seen, what has gone wrong stays in the history. *)
LEMMA HistoryStays ==
  ASSUME SystemInv, [Next]_vars, ~hardrst', ~overlap'
  PROVE  LinkReset \/ LinkTimeout \/ (~hardrst /\ ~overlap)
<1>1. CASE UNCHANGED vars \/ Saved
  BY <1>1 DEF Saved, vars, history
<1>2. CASE LinkAttach \/ LinkDeliver \/ LinkReset \/ LinkTimeout \/ LinkReturn
  BY <1>2 DEF LinkAttach, LinkDeliver, LinkReturn, history
<1>3. CASE PopEvent
  <2>1. \E s : SinkBecomes(s)
    BY <1>3, Popped DEF SinkCallback
  <2> QED BY <1>3, <2>1, Popped DEF SinkBecomes
<1>4. CASE SinkPollEnds
  BY <1>4 DEF SinkPollEnds, SinkBecomes
<1>5. CASE HalPoll \/ StartupEnds \/ ConfigRelease \/ ConfigSelect
  BY <1>5, LoopsFrame DEF SystemInv, SourceFrame
<1>6. CASE LoopButton
  <2>1. hardrst' = hardrst
    BY <1>6 DEF LoopButton, AtTail, App
  <2>2. UNCHANGED <<sink, selected_capability, history>> \/ \E s : SinkBecomes(s)
    BY <1>6 DEF LoopButton, SwitchVoltage
  <2> QED BY <2>1, <2>2 DEF SinkBecomes, history
<1>7. CASE PpsDue
  BY <1>7 DEF PpsDue, history
<1>8. CASE Advertise \/ AdvertiseAgain \/ Accept \/ Reject \/ PutOff \/ LoseRequest \/ Switched
  BY <1>8 DEF Advertise, AdvertiseAgain, SendCapabilities, Accept, Reject, PutOff, LoseRequest,
     Switched, Refuses, TakesRequest, Source
<1>9. CASE HardReset \/ GiveUp
  BY <1>9 DEF HardReset, GiveUp, Resets
<1> QED BY <1>1, <1>2, <1>3, <1>4, <1>5, <1>6, <1>7, <1>8, <1>9 DEF Next, Firmware

LEMMA StepAgrees ==
  ASSUME PlainSources, AgreementInv, AttachmentKnown, [Next]_vars
  PROVE  AgreementInv'
<1>1. SystemInv /\ SystemInv' /\ ResetStartsAnew /\ ResetStartsAnew'
  BY StepKeeps, StepStartsAnew DEF AgreementInv
<1> SUFFICES ASSUME ~hardrst', ~overlap' PROVE Agreement'
  BY <1>1 DEF AgreementInv
<1>2. CASE LinkReset \/ LinkTimeout
  BY <1>1, <1>2, ResetAgrees
<1>3. ASSUME ~LinkReset, ~LinkTimeout PROVE Agreement'
  <2>1. Agreement
    BY <1>1, <1>3, HistoryStays DEF AgreementInv
  <2>2. CASE UNCHANGED vars \/ Saved
    BY <1>1, <2>1, <2>2, Undisturbed DEF Saved, vars, linkVars, srcVars, history, SinkAs
  <2>3. CASE LinkDeliver
    BY <1>1, <2>1, <2>3, DeliverAgrees
  <2>4. CASE LinkReturn \/ LinkAttach
    BY <1>1, <2>1, <2>4, Undisturbed DEF LinkReturn, LinkAttach, Return, Link, srcVars, history, SinkAs
  <2>5. CASE PopEvent
    BY <1>1, <2>1, <2>5, PopAgrees
  <2>6. CASE SinkPollEnds
    BY <1>1, <2>1, <2>6, PollEndsAgrees
  <2>7. CASE HalPoll \/ StartupEnds \/ ConfigRelease \/ ConfigSelect
    <3>1. UNCHANGED <<events, rx, link, src, pdos, contract, granted, unheard, sink>>
      BY <1>1, <2>7, LoopsFrame DEF SystemInv, SourceFrame, LinkFrame
    <3> QED BY <1>1, <2>1, <3>1, Undisturbed DEF SinkAs
  <2>8. CASE LoopButton
    BY <1>1, <2>1, <2>8, LoopButtonAgrees
  <2>9. CASE PpsDue
    <3>1. SinkAs(sink)
      BY <1>1, <2>9 DEF PpsDue, SystemInv, WireTypes, SinkRecords, SinkAs
    <3> QED BY <1>1, <2>1, <2>9, <3>1, Undisturbed DEF PpsDue, linkVars, srcVars, history
  <2>10. CASE Advertise \/ AdvertiseAgain
    <3>1. \E objects \in Adverts : SendCapabilities(objects) /\ src \in {"startup", "ready", "rejected"}
      <4>1. pdos \in Adverts
        BY <1>1 DEF SystemInv, WireTypes
      <4> QED BY <2>10, <4>1 DEF Advertise, AdvertiseAgain
    <3> QED BY <1>1, <2>1, <3>1, AdvertiseAgrees
  <2>11. CASE Accept
    BY <1>1, <2>1, <2>11, AcceptAgrees
  <2>12. CASE Reject \/ PutOff
    BY <1>1, <2>1, <2>12, RefusedAgrees
  <2>13. CASE LoseRequest
    BY <1>1, <2>1, <2>13, LostAgrees
  <2>14. CASE Switched
    BY <1>1, <2>1, <2>14, SwitchedAgrees
  <2>15. CASE HardReset \/ GiveUp
    BY <2>15 DEF HardReset, GiveUp, Resets
  <2> QED BY <1>3, <2>2, <2>3, <2>4, <2>5, <2>6, <2>7, <2>8, <2>9, <2>10, <2>11, <2>12, <2>13,
             <2>14, <2>15 DEF Next, Firmware
<1> QED BY <1>2, <1>3

(* What sink and source know of each other, for all plain sources: the     *)
(* sink's fields are in step with the request or the answer under way.     *)
THEOREM AgreementInvariance == PlainSources => (Spec => []AgreementInv)
<1> SUFFICES ASSUME PlainSources PROVE Spec => []AgreementInv
  OBVIOUS
<1>1. Init => AgreementInv
  BY InitAgrees
<1>2. AgreementInv /\ AttachmentKnown /\ [Next]_vars => AgreementInv'
  BY StepAgrees
<1> QED BY <1>1, <1>2, AttachmentInvariance, PTL DEF Spec

LEMMA QuietKnown ==
  ASSUME AgreementInv, Quiet, ~overlap
  PROVE  /\ sink.active_voltage = contract.voltage /\ sink.active_max_current = contract.current
         /\ sink.requested_voltage = 0 \/ unheard
         /\ src = "ready" /\ ~unheard => Repeats(contract)
<1>1. Agreement /\ ~JustReset /\ sink.tx = <<>> /\ src \in {"ready", "rejected"}
  <2>1. <<StateChanged>> # <<>>
    OBVIOUS
  <2> QED BY <2>1 DEF AgreementInv, Quiet, JustReset
<1>2. DOMAIN Way = {}
  <2>1. <<>> \o <<>> = <<>> /\ DOMAIN <<>> = {}
    OBVIOUS
  <2> QED BY <2>1 DEF Quiet, Way
<1>3. NoReply
  BY <1>2 DEF NoReply
<1> QED BY <1>1, <1>2, <1>3 DEF Agreement, RequestKnown, ActiveKnown

(* pd_sink.h:157: whenever nothing is under way, active_voltage and        *)
(* active_max_current are the contract that the source fulfils, whatever   *)
(* requests, rejections, adverts, keep-alives and resets there were; only  *)
(* a request that overtook the answer to another one can upset them.       *)
THEOREM ContractStaysAgreed == PlainSources => (Spec => []ContractAgreed)
<1> SUFFICES ASSUME PlainSources PROVE Spec => []ContractAgreed
  OBVIOUS
<1>1. AgreementInv => ContractAgreed
  BY QuietKnown DEF ContractAgreed, Agreed
<1> QED BY <1>1, AgreementInvariance, PTL

(* pd_sink.cpp:61: with a programmable supply in use, poll() can always    *)
(* ask for it again: it remembers the capability, no request is pending    *)
(* that would hold it back, and the checks let the request pass.           *)
THEOREM KeepAliveStaysReady == PlainSources => (Spec => []KeepAliveReady)
<1> SUFFICES ASSUME PlainSources PROVE Spec => []KeepAliveReady
  OBVIOUS
<1>1. AgreementInv => KeepAliveReady
  <2> SUFFICES ASSUME AgreementInv, Quiet, ~overlap, ~unheard, src = "ready",
                      contract.supply_type = "pps"
               PROVE  /\ sink.requested_voltage = 0
                      /\ CanRequest(sink, sink.selected_pps_index, sink.active_voltage,
                                    sink.active_max_current)
    BY DEF KeepAliveReady
  <2> QED BY QuietKnown DEF Repeats
<1> QED BY <1>1, AgreementInvariance, PTL
=============================================================================
