---------------------------- MODULE EepromProofs ----------------------------
(***************************************************************************)
(* Proofs about the EEPROM emulation: whatever step the power fails at,    *)
(* the pages are of the right types and what init() or write() leaves      *)
(* behind is a known good state.                                           *)
(***************************************************************************)
EXTENDS Eeprom, NatLemmas, SequenceTheorems

LEMMA Products ==
  ASSUME NEW a \in Nat, NEW b \in Nat
  PROVE  a * b \in Nat /\ a * 0 = 0 /\ a * (b + 1) = a * b + a
OBVIOUS

LEMMA Sizes ==
  /\ NumKeys \in Nat /\ NumKeys >= 1 /\ MaxCrashes \in Nat
  /\ NumSlots \in Nat /\ NumSlots >= NumKeys /\ NumSlots <= 255
<1>1. /\ NumKeys \in Nat \ {0} /\ MaxCrashes \in Nat
      /\ NumSlots \in Nat /\ NumSlots <= PageSlots /\ NumSlots >= NumKeys + (NumKeys - 1) * MaxCrashes
  BY EepromAssumption
<1>2. NumKeys - 1 \in Nat
  BY <1>1
<1>3. (NumKeys - 1) * MaxCrashes \in Nat
  BY <1>1, <1>2, Products
<1> QED BY <1>1, <1>3 DEF PageSlots

(* Steps are taken from the front of todo. *)
LEMMA OneStep == ASSUME NEW x PROVE Head(<<x>>) = x /\ Tail(<<x>>) = <<>> /\ <<x>> # <<>>
OBVIOUS

LEMMA TwoSteps ==
  ASSUME NEW x, NEW y
  PROVE  Head(<<x, y>>) = x /\ Tail(<<x, y>>) = <<y>> /\ <<x, y>> # <<>>
OBVIOUS

LEMMA ThreeSteps ==
  ASSUME NEW x, NEW y, NEW z
  PROVE  Head(<<x, y, z>>) = x /\ Tail(<<x, y, z>>) = <<y, z>> /\ <<x, y, z>> # <<>>
OBVIOUS

LEMMA TwoJoined ==
  ASSUME NEW S, NEW x \in S, NEW y \in S, NEW s \in Seq(S)
  PROVE  <<x, y>> \o s = <<x>> \o (<<y>> \o s)
<1> DEFINE u == <<x>> \o <<y>>
           w == <<x, y>>
<1>1. /\ <<x>> \in Seq(S) /\ Len(<<x>>) = 1 /\ <<x>>[1] = x
      /\ <<y>> \in Seq(S) /\ Len(<<y>>) = 1 /\ <<y>>[1] = y
      /\ w \in Seq(S) /\ Len(w) = 2 /\ w[1] = x /\ w[2] = y
  OBVIOUS
<1>2. /\ u \in Seq(S) /\ Len(u) = 1 + 1
      /\ \A i \in 1 .. 1 + 1 : u[i] = IF i <= 1 THEN <<x>>[i] ELSE <<y>>[i - 1]
  BY <1>1, ConcatProperties
<1>3. Len(u) = 2 /\ \A i \in 1 .. Len(u) : u[i] = w[i]
  BY <1>1, <1>2
<1> HIDE DEF u, w
<1>4. u = w
  BY <1>1, <1>2, <1>3, SeqEqual
<1>5. u \o s = <<x>> \o (<<y>> \o s)
  BY <1>1, ConcatAssociative DEF u
<1> QED BY <1>4, <1>5 DEF w

LEMMA ThreeAsOneAndTwo ==
  ASSUME NEW S, NEW x \in S, NEW y \in S, NEW z \in S
  PROVE  <<x, y, z>> = <<x>> \o <<y, z>>
<1> DEFINE u == <<x>> \o <<y, z>>
           w == <<x, y, z>>
<1>1. /\ <<x>> \in Seq(S) /\ Len(<<x>>) = 1 /\ <<x>>[1] = x
      /\ <<y, z>> \in Seq(S) /\ Len(<<y, z>>) = 2 /\ <<y, z>>[1] = y /\ <<y, z>>[2] = z
      /\ w \in Seq(S) /\ Len(w) = 3 /\ w[1] = x /\ w[2] = y /\ w[3] = z
  OBVIOUS
<1>2. /\ u \in Seq(S) /\ Len(u) = 1 + 2
      /\ \A i \in 1 .. 1 + 2 : u[i] = IF i <= 1 THEN <<x>>[i] ELSE <<y, z>>[i - 1]
  BY <1>1, ConcatProperties
<1>3. Len(u) = 3 /\ \A i \in 1 .. Len(u) : u[i] = w[i]
  BY <1>1, <1>2
<1> HIDE DEF u, w
<1>4. u = w
  BY <1>1, <1>2, <1>3, SeqEqual
<1> QED BY <1>4 DEF u, w

(* The plans that end with a transfer *)
LEMMA TransferIsSteps ==
  ASSUME NEW p, NEW S, Erase(p) \in S, Mark(1 - p, "valid") \in S
  PROVE  FinishTransfer(p) \in Seq(S)
BY DEF FinishTransfer

LEMMA OneThenTransfer ==
  ASSUME NEW p, NEW x
  PROVE  LET plan == <<x>> \o FinishTransfer(p)
         IN  Head(plan) = x /\ Tail(plan) = FinishTransfer(p) /\ plan # <<>>
<1> DEFINE rest == FinishTransfer(p)
           S    == {Erase(p), Mark(1 - p, "valid"), x}
<1>1. rest \in Seq(S) /\ x \in S
  BY TransferIsSteps
<1> HIDE DEF rest, S
<1>2. Head(<<x>> \o rest) = x /\ Tail(<<x>> \o rest) = rest /\ <<x>> \o rest # <<>>
  BY <1>1
<1> QED BY <1>2 DEF rest

LEMMA TwoThenTransfer ==
  ASSUME NEW p, NEW x, NEW y
  PROVE  LET plan == <<x, y>> \o FinishTransfer(p)
         IN  /\ Head(plan) = x /\ Tail(plan) = <<y>> \o FinishTransfer(p) /\ plan # <<>>
             /\ <<x>> \o (<<y>> \o FinishTransfer(p)) = plan
<1> DEFINE rest == FinishTransfer(p)
           S    == {Erase(p), Mark(1 - p, "valid"), x, y}
<1>1. rest \in Seq(S) /\ x \in S /\ y \in S
  BY TransferIsSteps
<1> HIDE DEF rest, S
<1>2. <<y>> \o rest \in Seq(S)
  BY <1>1
<1>3. /\ Head(<<x>> \o (<<y>> \o rest)) = x /\ Tail(<<x>> \o (<<y>> \o rest)) = <<y>> \o rest
      /\ <<x>> \o (<<y>> \o rest) # <<>>
  BY <1>1, <1>2
<1>4. <<x, y>> \o rest = <<x>> \o (<<y>> \o rest)
  BY <1>1, TwoJoined
<1> QED BY <1>3, <1>4 DEF rest

LEMMA ThreeThenTransfer ==
  ASSUME NEW p, NEW x, NEW y, NEW z
  PROVE  LET plan == <<x, y, z>> \o FinishTransfer(p)
         IN  Head(plan) = x /\ Tail(plan) = <<y, z>> \o FinishTransfer(p) /\ plan # <<>>
<1> DEFINE rest == FinishTransfer(p)
           S    == {Erase(p), Mark(1 - p, "valid"), x, y, z}
<1>1. rest \in Seq(S) /\ x \in S /\ y \in S /\ z \in S
  BY TransferIsSteps
<1> HIDE DEF rest, S
<1>2. <<x>> \in Seq(S) /\ <<y, z>> \in Seq(S) /\ <<y, z>> \o rest \in Seq(S)
  BY <1>1
<1>3. /\ Head(<<x>> \o (<<y, z>> \o rest)) = x
      /\ Tail(<<x>> \o (<<y, z>> \o rest)) = <<y, z>> \o rest
      /\ <<x>> \o (<<y, z>> \o rest) # <<>>
  BY <1>1, <1>2
<1>4. <<x, y, z>> \o rest = <<x>> \o (<<y, z>> \o rest)
  <2>1. <<x, y, z>> = <<x>> \o <<y, z>>
    BY <1>1, ThreeAsOneAndTwo
  <2>2. (<<x>> \o <<y, z>>) \o rest = <<x>> \o (<<y, z>> \o rest)
    BY <1>1, <1>2, ConcatAssociative
  <2> QED BY <2>1, <2>2
<1> QED BY <1>3, <1>4 DEF rest

-----------------------------------------------------------------------------
(* What may be next, and what is left after it *)

LEMMA NextStep ==
  ASSUME TodoFits, todo # <<>>
  PROVE  \/ /\ \A p \in Pages : Has(p, "erased")
            /\ \/ Head(todo) = Erase(0) /\ Tail(todo) = <<Mark(0, "valid"), Erase(1)>>
               \/ Head(todo) = Mark(0, "valid") /\ Tail(todo) = <<Erase(1)>>
         \/ Settled(0) /\ Head(todo) = Erase(1) /\ Tail(todo) = <<>>
         \/ \E p \in Pages :
              \/ Settled(p) /\ Head(todo) \in PairSteps(p) /\ Tail(todo) = <<>>
              \/ Settled(p) /\ Head(todo) = Mark(1 - p, "in_transfer") /\ \E k \in Keys, v \in Stored :
                   Tail(todo) = <<AppendPair(k, v), Copy(0, k)>> \o FinishTransfer(p)
              \/ Moving(p) /\ Head(todo) \in PairSteps(1 - p) /\ \E c \in CopySteps :
                   Tail(todo) = <<c>> \o FinishTransfer(p)
              \/ Moving(p) /\ Head(todo) \in CopySteps /\ Tail(todo) = FinishTransfer(p)
              \/ /\ Moving(p) \/ Moved(p)
                 /\ Head(todo) = Erase(p) /\ Tail(todo) = <<Mark(1 - p, "valid")>>
              \/ Moved(p) /\ Head(todo) = Mark(1 - p, "valid") /\ Tail(todo) = <<>>
<1>1. CASE /\ \A p \in Pages : Has(p, "erased")
           /\ todo = Format \/ todo = <<Mark(0, "valid"), Erase(1)>>
  <2>1. todo = Format => Head(todo) = Erase(0) /\ Tail(todo) = <<Mark(0, "valid"), Erase(1)>>
    BY ThreeSteps DEF Format
  <2>2. todo = <<Mark(0, "valid"), Erase(1)>> => Head(todo) = Mark(0, "valid") /\ Tail(todo) = <<Erase(1)>>
    BY TwoSteps
  <2> QED BY <1>1, <2>1, <2>2, Zenon
<1>2. CASE Settled(0) /\ todo = <<Erase(1)>>
  BY <1>2, OneStep
<1>3. ASSUME NEW p \in Pages, Settled(p) /\ \E x \in PairSteps(p) : todo = <<x>>
      PROVE  Settled(p) /\ Head(todo) \in PairSteps(p) /\ Tail(todo) = <<>>
  BY <1>3, OneStep
<1>4. ASSUME NEW p \in Pages, NEW k \in Keys, NEW v \in Stored,
             todo = <<Mark(1 - p, "in_transfer"), AppendPair(k, v), Copy(0, k)>> \o FinishTransfer(p)
      PROVE  /\ Head(todo) = Mark(1 - p, "in_transfer")
             /\ Tail(todo) = <<AppendPair(k, v), Copy(0, k)>> \o FinishTransfer(p)
  BY <1>4, ThreeThenTransfer
<1>5. ASSUME NEW p \in Pages, NEW x \in PairSteps(1 - p), NEW c \in CopySteps,
             todo = <<x, c>> \o FinishTransfer(p)
      PROVE  Head(todo) = x /\ Tail(todo) = <<c>> \o FinishTransfer(p)
  BY <1>5, TwoThenTransfer
<1>6. ASSUME NEW p \in Pages, NEW c \in CopySteps, todo = <<c>> \o FinishTransfer(p)
      PROVE  Head(todo) = c /\ Tail(todo) = FinishTransfer(p)
  BY <1>6, OneThenTransfer
<1>7. ASSUME NEW p \in Pages, todo = FinishTransfer(p)
      PROVE  Head(todo) = Erase(p) /\ Tail(todo) = <<Mark(1 - p, "valid")>>
  BY <1>7, TwoSteps DEF FinishTransfer
<1>8. ASSUME NEW p \in Pages, todo = <<Mark(1 - p, "valid")>>
      PROVE  Head(todo) = Mark(1 - p, "valid") /\ Tail(todo) = <<>>
  BY <1>8, OneStep
<1>9. CASE \E p \in Pages :
       \/ Settled(p) /\ \E x \in PairSteps(p) : todo = <<x>>
       \/ Settled(p) /\ \E k \in Keys, v \in Stored :
            todo = <<Mark(1 - p, "in_transfer"), AppendPair(k, v), Copy(0, k)>> \o FinishTransfer(p)
       \/ Moving(p) /\ \E x \in PairSteps(1 - p), c \in CopySteps : todo = <<x, c>> \o FinishTransfer(p)
       \/ Moving(p) /\ \E c \in CopySteps : todo = <<c>> \o FinishTransfer(p)
       \/ (Moving(p) \/ Moved(p)) /\ todo = FinishTransfer(p)
       \/ Moved(p) /\ todo = <<Mark(1 - p, "valid")>>
  BY <1>3, <1>4, <1>5, <1>6, <1>7, <1>8, <1>9, Zenon
<1> QED BY <1>1, <1>2, <1>9 DEF TodoFits

LEMMA KindsOfPairs ==
  ASSUME NEW p \in Pages, NEW x \in PairSteps(p)
  PROVE  \/ x.do = "append" /\ x.key \in Keys /\ x.value \in Stored
         \/ x.do = "value" /\ x.page = p /\ x.slot \in KeySlots(p) /\ x.value \in Stored
BY DEF PairSteps, AppendPair, Value

LEMMA KindsOfSteps ==
  ASSUME NEW p \in Pages
  PROVE  /\ Erase(p).do = "erase" /\ Erase(p).page = p
         /\ \A status : Mark(p, status).do = "mark" /\ Mark(p, status).page = p
         /\ \A status : Mark(p, status).status = status
         /\ \A x \in PairSteps(p) :
              \/ x.do = "append" /\ x.key \in Keys /\ x.value \in Stored
              \/ x.do = "value" /\ x.page = p /\ x.slot \in KeySlots(p) /\ x.value \in Stored
         /\ \A c \in CopySteps : c.do = "copy" /\ c.key \in 0 .. NumKeys /\ c.skip \in Keys \cup {Blank}
<1>1. Erase(p).do = "erase" /\ Erase(p).page = p
  BY DEF Erase
<1>2. \A status : Mark(p, status).do = "mark" /\ Mark(p, status).page = p
  BY DEF Mark
<1>3. \A status : Mark(p, status).status = status
  BY DEF Mark
<1>4. ASSUME NEW c \in CopySteps
      PROVE  c.do = "copy" /\ c.key \in 0 .. NumKeys /\ c.skip \in Keys \cup {Blank}
  BY DEF CopySteps, Copy
<1> QED BY <1>1, <1>2, <1>3, <1>4, KindsOfPairs

-----------------------------------------------------------------------------
(* What a step does to a page, and what it leaves alone *)

PageStates == {"erased", "in_transfer", "valid"}
SlotStates == [key : Keys \cup {Blank}, value : Values \cup {Blank}]
PageForm   == [status : PageStates, slots : [Slots -> SlotStates]]

LEMMA OtherPage ==
  ASSUME NEW p \in Pages
  PROVE  /\ 1 - p \in Pages /\ 1 - p # p /\ 1 - (1 - p) = p
         /\ \A q \in Pages : q = p \/ q = 1 - p
BY DEF Pages

LEMMA StatusProgrammed ==
  ASSUME page \in [Pages -> PageForm], NEW p \in Pages, NEW status \in PageStates,
         page' = [page EXCEPT ![p].status = status]
  PROVE  /\ page' \in [Pages -> PageForm]
         /\ page'[p].status = status /\ page'[1 - p] = page[1 - p]
         /\ \A q \in Pages : page'[q].slots = page[q].slots
<1>1. PICK st \in PageStates, sl \in [Slots -> SlotStates] : page[p] = [status |-> st, slots |-> sl]
  BY DEF PageForm
<1> DEFINE new == [status |-> status, slots |-> sl]
<1>2. new \in PageForm /\ new.status = status /\ new.slots = page[p].slots
  BY <1>1 DEF PageForm
<1>3. page' = [page EXCEPT ![p] = new]
  <2>1. page' = [page EXCEPT ![p] = [page[p] EXCEPT !.status = status]]
    OBVIOUS
  <2>2. [page[p] EXCEPT !.status = status] = new
    BY <1>1
  <2> QED BY <2>1, <2>2
<1> HIDE DEF new
<1>4. page' \in [Pages -> PageForm] /\ page'[p] = new /\ page'[1 - p] = page[1 - p]
  BY <1>2, <1>3, OtherPage
<1> QED BY <1>2, <1>4, OtherPage

LEMMA PageErased ==
  ASSUME page \in [Pages -> PageForm], NEW p \in Pages, page' = [page EXCEPT ![p] = ErasedPage]
  PROVE  /\ page' \in [Pages -> PageForm]
         /\ page'[p] = ErasedPage /\ page'[1 - p] = page[1 - p]
<1>1. ErasedPage \in PageForm
  BY DEF ErasedPage, EmptySlot, PageForm, PageStates, SlotStates
<1> QED BY <1>1, OtherPage

(* A slot of one page that gets a key or a value, or both *)
SlotSet(f, q, s, slot) == [f EXCEPT ![q].slots[s] = slot]
KeySet(f, q, s, k)     == [f EXCEPT ![q].slots[s].key = k]
ValueSet(f, q, s, v)   == [f EXCEPT ![q].slots[s].value = v]

LEMMA AfterSlotSet ==
  ASSUME NEW f \in [Pages -> PageForm], NEW q \in Pages, NEW s \in Slots, NEW slot \in SlotStates,
         NEW g, g = SlotSet(f, q, s, slot)
  PROVE  /\ g \in [Pages -> PageForm]
         /\ g[q].status = f[q].status /\ g[1 - q] = f[1 - q]
         /\ g[q].slots[s] = slot
         /\ \A i \in Slots \ {s} : g[q].slots[i] = f[q].slots[i]
<1>1. PICK st \in PageStates, sl \in [Slots -> SlotStates] : f[q] = [status |-> st, slots |-> sl]
  BY DEF PageForm
<1> DEFINE other == [sl EXCEPT ![s] = slot]
           new == [status |-> st, slots |-> other]
<1>2. /\ other \in [Slots -> SlotStates] /\ other[s] = slot
      /\ \A i \in Slots \ {s} : other[i] = f[q].slots[i]
  BY <1>1
<1>3. g = [f EXCEPT ![q] = new]
  <2>1. g = [f EXCEPT ![q] = [f[q] EXCEPT !.slots = [f[q].slots EXCEPT ![s] = slot]]]
    BY DEF SlotSet
  <2>2. [f[q] EXCEPT !.slots = [f[q].slots EXCEPT ![s] = slot]] = new
    BY <1>1
  <2> QED BY <2>1, <2>2
<1> HIDE DEF other
<1>4. new \in PageForm /\ new.status = f[q].status /\ new.slots = other
  BY <1>1, <1>2 DEF PageForm
<1> HIDE DEF new
<1>5. g \in [Pages -> PageForm] /\ g[q] = new /\ g[1 - q] = f[1 - q]
  BY <1>3, <1>4, OtherPage
<1> QED BY <1>2, <1>4, <1>5

LEMMA AfterKeySet ==
  ASSUME NEW f \in [Pages -> PageForm], NEW q \in Pages, NEW s \in Slots, NEW k \in Keys,
         NEW g, g = KeySet(f, q, s, k)
  PROVE  /\ g \in [Pages -> PageForm]
         /\ g[q].status = f[q].status /\ g[1 - q] = f[1 - q]
         /\ g[q].slots[s].key = k /\ g[q].slots[s].value = f[q].slots[s].value
         /\ \A i \in Slots \ {s} : g[q].slots[i] = f[q].slots[i]
<1>1. f[q].slots[s] \in SlotStates
  BY DEF PageForm
<1>2. PICK key \in Keys \cup {Blank}, value \in Values \cup {Blank} :
        f[q].slots[s] = [key |-> key, value |-> value]
  BY <1>1 DEF SlotStates
<1> DEFINE slot == [key |-> k, value |-> value]
<1>3. slot \in SlotStates /\ slot.key = k /\ slot.value = f[q].slots[s].value
  BY <1>2 DEF SlotStates, Stored
<1>4. g = SlotSet(f, q, s, slot)
  <2>1. g = [f EXCEPT ![q].slots[s] = [f[q].slots[s] EXCEPT !.key = k]]
    BY DEF KeySet
  <2>2. [f[q].slots[s] EXCEPT !.key = k] = slot
    BY <1>2
  <2> QED BY <2>1, <2>2 DEF SlotSet
<1> HIDE DEF slot
<1>5. /\ g \in [Pages -> PageForm]
      /\ g[q].status = f[q].status /\ g[1 - q] = f[1 - q]
      /\ g[q].slots[s] = slot
      /\ \A i \in Slots \ {s} : g[q].slots[i] = f[q].slots[i]
  <2>1. /\ f \in [Pages -> PageForm] /\ q \in Pages /\ s \in Slots /\ slot \in SlotStates
        /\ g = SlotSet(f, q, s, slot)
    BY <1>3, <1>4
  <2> QED BY ONLY <2>1, AfterSlotSet
<1> QED BY <1>3, <1>5

LEMMA AfterValueSet ==
  ASSUME NEW f \in [Pages -> PageForm], NEW q \in Pages, NEW s \in Slots, NEW v \in Stored,
         NEW g, g = ValueSet(f, q, s, v)
  PROVE  /\ g \in [Pages -> PageForm]
         /\ g[q].status = f[q].status /\ g[1 - q] = f[1 - q]
         /\ g[q].slots[s].value = v /\ g[q].slots[s].key = f[q].slots[s].key
         /\ \A i \in Slots \ {s} : g[q].slots[i] = f[q].slots[i]
<1>1. f[q].slots[s] \in SlotStates
  BY DEF PageForm
<1>2. PICK key \in Keys \cup {Blank}, value \in Values \cup {Blank} :
        f[q].slots[s] = [key |-> key, value |-> value]
  BY <1>1 DEF SlotStates
<1> DEFINE slot == [key |-> key, value |-> v]
<1>3. slot \in SlotStates /\ slot.value = v /\ slot.key = f[q].slots[s].key
  BY <1>2 DEF SlotStates, Stored
<1>4. g = SlotSet(f, q, s, slot)
  <2>1. g = [f EXCEPT ![q].slots[s] = [f[q].slots[s] EXCEPT !.value = v]]
    BY DEF ValueSet
  <2>2. [f[q].slots[s] EXCEPT !.value = v] = slot
    BY <1>2
  <2> QED BY <2>1, <2>2 DEF SlotSet
<1> HIDE DEF slot
<1>5. /\ g \in [Pages -> PageForm]
      /\ g[q].status = f[q].status /\ g[1 - q] = f[1 - q]
      /\ g[q].slots[s] = slot
      /\ \A i \in Slots \ {s} : g[q].slots[i] = f[q].slots[i]
  <2>1. /\ f \in [Pages -> PageForm] /\ q \in Pages /\ s \in Slots /\ slot \in SlotStates
        /\ g = SlotSet(f, q, s, slot)
    BY <1>3, <1>4
  <2> QED BY ONLY <2>1, AfterSlotSet
<1> QED BY <1>3, <1>5

LEMMA KeysAreNotBlank == Blank \notin Keys /\ NumSlots \in Nat /\ Slots \in SUBSET Nat
<1>1. Blank \notin Keys
  BY Sizes DEF Blank, Keys
<1> QED BY <1>1, Sizes DEF Slots

(* The slots in use are a prefix of the page, before the first free one is *)
(* taken and after.                                                        *)
LEMMA KeyProgrammed ==
  ASSUME page \in [Pages -> PageForm], NEW p \in Pages, NEW k \in Keys,
         FreeSlots(p) # {}, Neat(p),
         page' = [page EXCEPT ![p].slots[Min(FreeSlots(p))].key = k]
  PROVE  /\ page' \in [Pages -> PageForm]
         /\ page'[p].status = page[p].status /\ page'[1 - p] = page[1 - p]
         /\ Min(FreeSlots(p)) \in KeySlots(p)' /\ Neat(p)'
<1> DEFINE s == Min(FreeSlots(p))
<1>1. FreeSlots(p) \in SUBSET Slots /\ FreeSlots(p) \in SUBSET Nat
  BY KeysAreNotBlank DEF FreeSlots
<1>2. s \in FreeSlots(p) /\ \A i \in FreeSlots(p) : s <= i
  BY <1>1, MinIsLeast
<1>3. s \in Slots
  BY <1>1, <1>2
<1> HIDE DEF s
<1>4. page' = KeySet(page, p, s, k)
  BY DEF s, KeySet
<1>5. /\ page' \in [Pages -> PageForm]
      /\ page'[p].status = page[p].status /\ page'[1 - p] = page[1 - p]
      /\ page'[p].slots[s].key = k
      /\ \A i \in Slots \ {s} : page'[p].slots[i] = page[p].slots[i]
  <2>1. /\ page \in [Pages -> PageForm] /\ p \in Pages /\ s \in Slots /\ k \in Keys
        /\ page' = KeySet(page, p, s, k)
    BY <1>3, <1>4
  <2> QED BY ONLY <2>1, AfterKeySet
<1>6. page'[p].slots[s] # EmptySlot /\ page'[p].slots[s].key # Blank
  BY <1>5, KeysAreNotBlank DEF EmptySlot
<1>7. s \in KeySlots(p)'
  BY <1>3, <1>5, <1>6 DEF KeySlots
<1>8. FreeSlots(p)' = FreeSlots(p) \ {s}
  BY <1>3, <1>5, <1>6 DEF FreeSlots
<1>9. Neat(p)'
  <2> SUFFICES ASSUME NEW i \in FreeSlots(p) \ {s}, NEW j \in Slots, j > i
               PROVE  j \in FreeSlots(p) \ {s}
    BY <1>8 DEF Neat
  <2>1. j \in FreeSlots(p)
    BY DEF Neat
  <2>2. i \in Nat /\ j \in Nat /\ s \in Nat /\ s <= i
    BY <1>1, <1>2, <2>1
  <2> QED BY <2>1, <2>2
<1> QED BY <1>5, <1>7, <1>9 DEF s

LEMMA ValueProgrammed ==
  ASSUME page \in [Pages -> PageForm], NEW p \in Pages, NEW s \in KeySlots(p), NEW v \in Stored,
         Neat(p), page' = [page EXCEPT ![p].slots[s].value = v]
  PROVE  /\ page' \in [Pages -> PageForm]
         /\ page'[p].status = page[p].status /\ page'[1 - p] = page[1 - p]
         /\ Neat(p)'
<1>1. s \in Slots /\ page[p].slots[s].key # Blank
  BY DEF KeySlots
<1>2. /\ page' \in [Pages -> PageForm]
      /\ page'[p].status = page[p].status /\ page'[1 - p] = page[1 - p]
      /\ page'[p].slots[s].key = page[p].slots[s].key
      /\ \A i \in Slots \ {s} : page'[p].slots[i] = page[p].slots[i]
  <2>1. /\ page \in [Pages -> PageForm] /\ p \in Pages /\ s \in Slots /\ v \in Stored
        /\ page' = ValueSet(page, p, s, v)
    BY <1>1 DEF ValueSet
  <2> QED BY ONLY <2>1, AfterValueSet
<1>3. page'[p].slots[s] # EmptySlot /\ page[p].slots[s] # EmptySlot
  BY <1>1, <1>2 DEF EmptySlot
<1>4. FreeSlots(p)' = FreeSlots(p)
  BY <1>1, <1>2, <1>3 DEF FreeSlots
<1> QED BY <1>2, <1>4 DEF Neat

LEMMA Neatness ==
  ASSUME NEW p \in Pages
  PROVE  /\ page[p] = ErasedPage => Neat(p)
         /\ page'[p] = ErasedPage => Neat(p)'
         /\ page'[p].slots = page[p].slots /\ Neat(p) => Neat(p)'
<1>1. page[p] = ErasedPage => Neat(p)
  BY DEF Neat, FreeSlots, ErasedPage
<1>2. page'[p] = ErasedPage => Neat(p)'
  BY DEF Neat, FreeSlots, ErasedPage
<1>3. page'[p].slots = page[p].slots => FreeSlots(p)' = FreeSlots(p)
  BY DEF FreeSlots
<1> QED BY <1>1, <1>2, <1>3 DEF Neat

LEMMA Fits ==
  ASSUME NEW p \in Pages, Settled(p)' \/ Moving(p)' \/ Moved(p)', Neat(p)', Neat(1 - p)',
         \A q \in Pages : Has(q, "erased")' => page'[q] = ErasedPage
  PROVE  PagesFit'
<1>1. \A q \in Pages : Neat(q)'
  BY OtherPage
<1> QED BY <1>1 DEF PagesFit

LEMMA PageKept ==
  ASSUME page' = page
  PROVE  /\ PagesFit => PagesFit'
         /\ \A p \in Pages : /\ Settled(p)' = Settled(p) /\ Moving(p)' = Moving(p)
                             /\ Moved(p)' = Moved(p) /\ PairSteps(p)' = PairSteps(p)
         /\ \A p \in Pages : \A status : Has(p, status)' = Has(p, status)
<1>1. PagesFit => PagesFit'
  BY DEF PagesFit, Has, Settled, Moving, Moved, Neat, FreeSlots
<1>2. ASSUME NEW p \in Pages
      PROVE  Settled(p)' = Settled(p) /\ Moving(p)' = Moving(p) /\ Moved(p)' = Moved(p)
  BY DEF Has, Settled, Moving, Moved
<1>3. ASSUME NEW p \in Pages PROVE PairSteps(p)' = PairSteps(p)
  BY DEF PairSteps, KeySlots
<1>4. \A p \in Pages : \A status : Has(p, status)' = Has(p, status)
  BY DEF Has
<1> QED BY <1>1, <1>2, <1>3, <1>4

-----------------------------------------------------------------------------
(* What is read, and where the next pair goes *)

LEMMA WhereToWrite ==
  ASSUME NEW p \in Pages
  PROVE  /\ Settled(p) => WritePage = p /\ ReadPage = p
         /\ Moving(p) => WritePage = 1 - p /\ ReadPage = p
<1>1. p = 0 \/ p = 1
  BY DEF Pages
<1>2. CASE p = 0
  BY <1>2 DEF Settled, Moving, WritePage, ReadPage, Has
<1>3. CASE p = 1
  BY <1>3 DEF Settled, Moving, WritePage, ReadPage, Has
<1> QED BY <1>1, <1>2, <1>3

LEMMA LatestIsStored ==
  ASSUME NEW pg \in PageForm, NEW k
  PROVE  Latest(pg, k) \in Stored \cup {NotFound}
<1> DEFINE matching == {i \in Slots : pg.slots[i].key = k}
<1>1. CASE matching = {}
  BY <1>1 DEF Latest
<1>2. CASE matching # {}
  <2>1. matching \in SUBSET Nat /\ \A i \in matching : i <= NumSlots
    BY KeysAreNotBlank DEF Slots
  <2>2. Max(matching) \in matching
    BY <1>2, <2>1, KeysAreNotBlank, MaxIsGreatest
  <2>3. pg.slots \in [Slots -> SlotStates]
    BY DEF PageForm
  <2>4. pg.slots[Max(matching)] \in SlotStates
    BY <2>2, <2>3
  <2>5. pg.slots[Max(matching)].value \in Stored
    BY <2>4 DEF SlotStates, Stored
  <2> QED BY <1>2, <2>5 DEF Latest
<1> QED BY <1>1, <1>2

LEMMA ReadIsStored ==
  ASSUME page \in [Pages -> PageForm], NEW k
  PROVE  Read(k) \in Stored \cup {NotFound}
<1>1. ReadPage = NoPage \/ ReadPage \in Pages
  BY DEF ReadPage, Pages
<1> QED BY <1>1, LatestIsStored DEF Read

-----------------------------------------------------------------------------
(* The steps *)

LEMMA FormOfPages == EepromTypeOK => page \in [Pages -> PageForm]
BY DEF EepromTypeOK, PageForm, PageStates, SlotStates

(* A step of init() or of write() changes page and todo only. *)
LEMMA TypesKept ==
  ASSUME EepromTypeOK, todo # <<>>, UNCHANGED <<running, job, crashes>>, page' \in [Pages -> PageForm]
  PROVE  EepromTypeOK' /\ running'
<1>1. running
  BY DEF EepromTypeOK
<1> QED BY <1>1 DEF EepromTypeOK, PageForm, PageStates, SlotStates

LEMMA Starts == EepromInit => EepromInv
<1> SUFFICES ASSUME EepromInit PROVE EepromInv
  OBVIOUS
<1>1. ErasedPage \in PageForm /\ ErasedPage.status = "erased"
  BY DEF ErasedPage, EmptySlot, PageForm, PageStates, SlotStates
<1>2. page \in [Pages -> PageForm] /\ \A p \in Pages : page[p] = ErasedPage
  BY <1>1 DEF EepromInit
<1>3. EepromTypeOK
  <2>1. crashes \in 0 .. MaxCrashes
    BY Sizes DEF EepromInit
  <2> QED BY <1>2, <2>1 DEF EepromInit, EepromTypeOK, PageForm, PageStates, SlotStates
<1>4. PagesFit
  BY <1>1, <1>2, Neatness DEF PagesFit, Has
<1>5. TodoFits
  BY DEF EepromInit, TodoFits
<1> QED BY <1>3, <1>4, <1>5 DEF EepromInv

(* What init() does about the pages it finds *)
LEMMA Repairs ==
  /\ (\A p \in Pages : Has(p, "erased")) => Repair = Format
  /\ \A p \in Pages :
       /\ Settled(p) => Repair = <<>>
       /\ Moving(p) => Repair = <<Copy(0, page[1 - p].slots[1].key)>> \o FinishTransfer(p)
       /\ Moved(p) => Repair = FinishTransfer(p)
<1>1. ASSUME \A p \in Pages : Has(p, "erased") PROVE Repair = Format
  <2>1. \A p \in Pages : ~Has(p, "valid") /\ ~Has(1 - p, "in_transfer")
    BY <1>1, OtherPage DEF Has
  <2>2. ~ \E p \in Pages : Has(p, "valid") /\ Has(1 - p, "erased")
    BY <2>1
  <2>3. ~ \E p \in Pages : Transferring(p)
    BY <2>1 DEF Transferring
  <2> QED BY <2>2, <2>3 DEF Repair
<1>2. ASSUME NEW p \in Pages, Settled(p) PROVE Repair = <<>>
  BY <1>2 DEF Repair, Settled
<1>3. ASSUME NEW p \in Pages, Moving(p) \/ Moved(p)
      PROVE  Repair = (IF Has(p, "valid") THEN <<Copy(0, page[1 - p].slots[1].key)>> ELSE <<>>)
                      \o FinishTransfer(p)
  <2>1. ~ \E q \in Pages : Has(q, "valid") /\ Has(1 - q, "erased")
    BY <1>3, OtherPage DEF Moving, Moved, Has
  <2>2. Transferring(p) /\ \A q \in Pages : Transferring(q) => q = p
    BY <1>3, OtherPage DEF Moving, Moved, Has, Transferring
  <2>3. (CHOOSE q \in Pages : Transferring(q)) = p
    BY <2>2
  <2> QED BY <2>1, <2>2, <2>3 DEF Repair
<1>4. ASSUME NEW p \in Pages, Moving(p)
      PROVE  Repair = <<Copy(0, page[1 - p].slots[1].key)>> \o FinishTransfer(p)
  BY <1>3, <1>4 DEF Moving
<1>5. ASSUME NEW p \in Pages, Moved(p) PROVE Repair = FinishTransfer(p)
  <2>1. ~Has(p, "valid")
    BY <1>5 DEF Moved, Has
  <2>2. FinishTransfer(p) \in Seq({Erase(p), Mark(1 - p, "valid")})
    BY DEF FinishTransfer
  <2>3. <<>> \o FinishTransfer(p) = FinishTransfer(p)
    BY <2>2
  <2> QED BY <1>3, <1>5, <2>1, <2>3
<1> QED BY <1>1, <1>2, <1>4, <1>5

LEMMA BootStep == ASSUME EepromInv, Boot PROVE EepromInv'
<1>1. EepromTypeOK /\ PagesFit /\ page \in [Pages -> PageForm]
  BY FormOfPages DEF EepromInv
<1>2. page' = page /\ running' = TRUE /\ todo' = Repair /\ job' = job /\ crashes' = crashes
  BY DEF Boot
<1>3. EepromTypeOK'
  BY <1>1, <1>2 DEF EepromTypeOK
<1>4. PagesFit'
  BY <1>1, <1>2, PageKept
<1>5. CASE \A p \in Pages : Has(p, "erased")
  <2>1. Repair = Format
    BY <1>5, Repairs
  <2>2. \A p \in Pages : Has(p, "erased")'
    BY <1>2, <1>5 DEF Has
  <2> QED BY <1>2, <1>3, <1>4, <2>1, <2>2 DEF TodoFits, EepromInv
<1>6. ASSUME NEW p \in Pages, Settled(p) PROVE EepromInv'
  <2>1. Repair = <<>>
    BY <1>6, Repairs
  <2>2. Settled(p)'
    BY <1>2, <1>6, PageKept
  <2> QED BY <1>2, <1>3, <1>4, <2>1, <2>2 DEF TodoFits, EepromInv
<1>7. ASSUME NEW p \in Pages, Moving(p) PROVE EepromInv'
  <2> DEFINE c == Copy(0, page[1 - p].slots[1].key)
  <2>1. Repair = <<c>> \o FinishTransfer(p)
    BY <1>7, Repairs
  <2>2. c \in CopySteps
    <3>1. 1 \in Slots /\ 0 \in 0 .. NumKeys
      BY Sizes DEF Slots
    <3>2. page[1 - p].slots[1].key \in Keys \cup {Blank}
      BY <1>1, <3>1, OtherPage DEF PageForm, SlotStates
    <3> QED BY <3>1, <3>2 DEF CopySteps
  <2>3. Moving(p)'
    BY <1>2, <1>7, PageKept
  <2> HIDE DEF c
  <2> QED BY <1>2, <1>3, <1>4, <2>1, <2>2, <2>3 DEF TodoFits, EepromInv
<1>8. ASSUME NEW p \in Pages, Moved(p) PROVE EepromInv'
  <2>1. Repair = FinishTransfer(p)
    BY <1>8, Repairs
  <2>2. Moved(p)'
    BY <1>2, <1>8, PageKept
  <2> QED BY <1>2, <1>3, <1>4, <2>1, <2>2 DEF TodoFits, EepromInv
<1> QED BY <1>1, <1>5, <1>6, <1>7, <1>8 DEF PagesFit

LEMMA NothingLeft == ASSUME TodoFits, todo = <<>>, running PROVE \E p \in Pages : Settled(p)
<1>1. todo # Format /\ todo # <<Mark(0, "valid"), Erase(1)>> /\ todo # <<Erase(1)>>
  BY OneStep, TwoSteps, ThreeSteps DEF Format
<1>2. ASSUME NEW p \in Pages
      PROVE  /\ \A x : todo # <<x>> /\ todo # <<x>> \o FinishTransfer(p)
             /\ todo # FinishTransfer(p) /\ todo # <<Mark(1 - p, "valid")>>
  BY OneStep, TwoSteps, OneThenTransfer DEF FinishTransfer
<1>3. ASSUME NEW p \in Pages
      PROVE  /\ \A x, c : todo # <<x, c>> \o FinishTransfer(p)
             /\ \A x, y, z : todo # <<x, y, z>> \o FinishTransfer(p)
  <2>1. ASSUME NEW x, NEW c PROVE <<x, c>> \o FinishTransfer(p) # <<>>
    BY TwoThenTransfer
  <2>2. ASSUME NEW x, NEW y, NEW z PROVE <<x, y, z>> \o FinishTransfer(p) # <<>>
    BY ThreeThenTransfer
  <2> QED BY <2>1, <2>2
<1> QED BY <1>1, <1>2, <1>3, Zenon DEF TodoFits

LEMMA WriteStep ==
  ASSUME EepromInv, NEW k \in Keys, NEW v \in Values, Write(k, v)
  PROVE  EepromInv'
<1>1. EepromTypeOK /\ PagesFit /\ TodoFits
  BY DEF EepromInv
<1>2. PICK p \in Pages : Settled(p)
  BY <1>1, NothingLeft DEF Write
<1>3. /\ running /\ page' = page /\ running' = running /\ crashes' = 0
      /\ job' = [key |-> k, value |-> v]
  BY DEF Write
<1>4. EepromTypeOK'
  <2>1. 0 \in 0 .. MaxCrashes
    BY Sizes
  <2> QED BY <1>1, <1>3, <2>1 DEF EepromTypeOK
<1>5. PagesFit' /\ Settled(p)' /\ PairSteps(p)' = PairSteps(p)
  BY <1>1, <1>2, <1>3, PageKept
<1>6. WritePage = p /\ ReadPage = p /\ p # NoPage
  BY <1>2, WhereToWrite DEF Pages, NoPage
<1>7. v \in Stored
  BY DEF Stored
<1>8. CASE FreeSlots(p) # {}
  <2>1. todo' = <<AppendPair(k, v)>>
    BY <1>6, <1>8 DEF Write
  <2>2. AppendPair(k, v) \in PairSteps(p)
    BY <1>7 DEF PairSteps
  <2> QED BY <1>4, <1>5, <2>1, <2>2 DEF TodoFits, EepromInv
<1>9. CASE FreeSlots(p) = {}
  <2>1. todo' = <<Mark(1 - p, "in_transfer"), AppendPair(k, v), Copy(0, k)>> \o FinishTransfer(p)
    BY <1>6, <1>9 DEF Write
  <2> QED BY <1>4, <1>5, <1>7, <2>1 DEF TodoFits, EepromInv
<1> QED BY <1>8, <1>9

LEMMA WriteEndsStep == ASSUME EepromInv, WriteEnds PROVE EepromInv'
<1>1. EepromTypeOK /\ PagesFit /\ TodoFits
  BY DEF EepromInv
<1>2. /\ page' = page /\ running' = running /\ todo' = todo /\ crashes' = crashes
      /\ job' = NoJob /\ todo = <<>>
  BY DEF WriteEnds
<1>3. EepromTypeOK' /\ PagesFit'
  BY <1>1, <1>2, PageKept DEF EepromTypeOK
<1>4. running => \E p \in Pages : Settled(p)
  BY <1>1, <1>2, NothingLeft
<1>5. running' => \E p \in Pages : Settled(p)'
  BY <1>2, <1>4, PageKept
<1> QED BY <1>2, <1>3, <1>5 DEF TodoFits, EepromInv

LEMMA CrashStep == ASSUME EepromInv, Crash PROVE EepromInv'
<1>1. EepromTypeOK /\ PagesFit
  BY DEF EepromInv
<1>2. page' = page /\ running' = FALSE /\ todo' = <<>> /\ job' = NoJob
  BY DEF Crash
<1>3. crashes' \in 0 .. MaxCrashes
  <2>1. crashes \in 0 .. MaxCrashes
    BY <1>1 DEF EepromTypeOK
  <2>2. MaxCrashes \in Nat
    BY Sizes
  <2> QED BY <2>1, <2>2 DEF Crash
<1>4. EepromTypeOK' /\ PagesFit'
  BY <1>1, <1>2, <1>3, PageKept DEF EepromTypeOK
<1> QED BY <1>2, <1>4 DEF TodoFits, EepromInv

LEMMA CopySlotStep == ASSUME EepromInv, CopySlot PROVE EepromInv'
<1>1. EepromTypeOK /\ PagesFit /\ TodoFits /\ page \in [Pages -> PageForm]
  BY FormOfPages DEF EepromInv
<1>2. todo # <<>> /\ Head(todo).do = "copy" /\ UNCHANGED <<running, job, crashes>> /\ page' = page
  BY DEF CopySlot, Step
<1>3. EepromTypeOK' /\ PagesFit'
  BY <1>1, <1>2, TypesKept, PageKept
<1>4. PICK p \in Pages : Moving(p) /\ Head(todo) \in CopySteps /\ Tail(todo) = FinishTransfer(p)
  <2>1. \A p \in Pages : /\ Head(todo) # Erase(p)
                         /\ \A status : Head(todo) # Mark(p, status)
                         /\ Head(todo) \notin PairSteps(p)
    BY <1>2, KindsOfSteps
  <2>2. 0 \in Pages /\ 1 \in Pages /\ \A p \in Pages : 1 - p \in Pages
    BY DEF Pages
  <2> QED BY <1>1, <1>2, <2>1, <2>2, NextStep
<1>5. Moving(p)' /\ PairSteps(1 - p)' = PairSteps(1 - p)
  BY <1>2, <1>4, OtherPage, PageKept
<1> DEFINE k    == Head(todo).key
           skip == Head(todo).skip
           c    == Copy(NextKey(k), skip)
<1>6. k \in 0 .. NumKeys /\ skip \in Keys \cup {Blank}
  BY <1>4, KindsOfSteps
<1>7. CASE k = NumKeys
  <2>1. todo' = FinishTransfer(p)
    BY <1>4, <1>7 DEF CopySlot
  <2> QED BY <1>3, <1>5, <2>1 DEF TodoFits, EepromInv
<1>8. CASE k # NumKeys
  <2>1. k \in Keys /\ NextKey(k) \in 0 .. NumKeys
    BY <1>6, <1>8, Sizes DEF Keys, NextKey
  <2>2. c \in CopySteps
    BY <1>6, <2>1 DEF CopySteps
  <2>3. CASE ~Copied(k, skip)
    <3>1. todo' = <<c>> \o FinishTransfer(p)
      BY <1>4, <1>8, <2>3 DEF CopySlot
    <3> HIDE DEF c
    <3> QED BY <1>3, <1>5, <2>2, <3>1 DEF TodoFits, EepromInv
  <2>4. CASE Copied(k, skip)
    <3> DEFINE x == AppendPair(k, Read(k))
    <3>1. todo' = <<x>> \o (<<c>> \o FinishTransfer(p))
      BY <1>4, <1>8, <2>4 DEF CopySlot
    <3>2. Read(k) \in Stored
      BY <1>1, <2>4, ReadIsStored DEF Copied
    <3>3. x \in PairSteps(1 - p)
      BY <2>1, <3>2 DEF PairSteps
    <3> HIDE DEF c, x
    <3>4. todo' = <<x, c>> \o FinishTransfer(p)
      BY <3>1, TwoThenTransfer
    <3> QED BY <1>3, <1>5, <2>2, <3>3, <3>4 DEF TodoFits, EepromInv
  <2> QED BY <2>3, <2>4
<1> QED BY <1>7, <1>8

LEMMA ErasePageStep == ASSUME EepromInv, ErasePage PROVE EepromInv'
<1>1. EepromTypeOK /\ PagesFit /\ TodoFits /\ page \in [Pages -> PageForm]
  BY FormOfPages DEF EepromInv
<1>2. /\ todo # <<>> /\ Head(todo).do = "erase" /\ UNCHANGED <<running, job, crashes>>
      /\ todo' = Tail(todo)
      /\ page' = [page EXCEPT ![Head(todo).page] = ErasedPage]
  BY DEF ErasePage, Step
<1>3. ASSUME NEW p \in Pages, Head(todo) = Erase(p)
      PROVE  /\ EepromTypeOK' /\ page'[p] = ErasedPage /\ page'[1 - p] = page[1 - p]
             /\ Neat(p)' /\ Neat(1 - p)' /\ Has(p, "erased")'
             /\ \A status : Has(1 - p, status)' = Has(1 - p, status)
             /\ \A q \in Pages : Has(q, "erased")' => page'[q] = ErasedPage
  <2>1. page' = [page EXCEPT ![p] = ErasedPage]
    <3>1. Head(todo).page = p
      BY <1>3, KindsOfSteps
    <3> QED BY <1>2, <3>1
  <2>2. page' \in [Pages -> PageForm] /\ page'[p] = ErasedPage /\ page'[1 - p] = page[1 - p]
    BY <1>1, <2>1, PageErased
  <2>3. EepromTypeOK'
    BY <1>1, <1>2, <2>2, TypesKept
  <2>4. Neat(1 - p) /\ (Has(1 - p, "erased") => page[1 - p] = ErasedPage)
    BY <1>1, OtherPage DEF PagesFit
  <2>5. Neat(p)' /\ Neat(1 - p)'
    BY <2>2, <2>4, OtherPage, Neatness
  <2>6. Has(p, "erased")' /\ \A status : Has(1 - p, status)' = Has(1 - p, status)
    BY <2>2 DEF Has, ErasedPage
  <2>7. \A q \in Pages : Has(q, "erased")' => page'[q] = ErasedPage
    BY <2>2, <2>4, <2>6, OtherPage
  <2> QED BY <2>2, <2>3, <2>5, <2>6, <2>7
<1>4. 0 \in Pages /\ 1 \in Pages /\ 1 - 0 = 1 /\ 1 - 1 = 0
  BY DEF Pages
<1>5. CASE /\ \A p \in Pages : Has(p, "erased")
           /\ Head(todo) = Erase(0) /\ Tail(todo) = <<Mark(0, "valid"), Erase(1)>>
  <2>1. \A p \in Pages : Has(p, "erased")'
    BY <1>3, <1>4, <1>5, OtherPage
  <2>2. \A p \in Pages : Neat(p)' /\ (Has(p, "erased")' => page'[p] = ErasedPage)
    BY <1>3, <1>4, <1>5, OtherPage
  <2>3. PagesFit'
    BY <2>1, <2>2 DEF PagesFit
  <2>4. TodoFits'
    BY <1>2, <1>5, <2>1 DEF TodoFits
  <2> QED BY <1>3, <1>4, <1>5, <2>3, <2>4 DEF EepromInv
<1>6. CASE Settled(0) /\ Head(todo) = Erase(1) /\ Tail(todo) = <<>>
  <2>1. Settled(0)'
    <3>1. Has(0, "valid")' /\ Has(1, "erased")'
      BY <1>3, <1>4, <1>6 DEF Settled
    <3> QED BY <1>4, <3>1 DEF Settled
  <2>2. PagesFit'
    <3>1. Neat(0)' /\ Neat(1)' /\ \A q \in Pages : Has(q, "erased")' => page'[q] = ErasedPage
      BY <1>3, <1>4, <1>6
    <3> QED BY <1>4, <2>1, <3>1, Fits
  <2>3. TodoFits'
    BY <1>2, <1>4, <1>6, <2>1 DEF TodoFits
  <2> QED BY <1>3, <1>4, <1>6, <2>2, <2>3 DEF EepromInv
<1>7. ASSUME NEW p \in Pages, Moving(p) \/ Moved(p),
             Head(todo) = Erase(p), Tail(todo) = <<Mark(1 - p, "valid")>>
      PROVE  EepromInv'
  <2>1. Moved(p)'
    BY <1>3, <1>7 DEF Moving, Moved
  <2>2. PagesFit'
    BY <1>3, <1>7, <2>1, Fits
  <2>3. TodoFits'
    BY <1>2, <1>7, <2>1 DEF TodoFits
  <2> QED BY <1>3, <1>7, <2>2, <2>3 DEF EepromInv
<1>8. /\ \A p \in Pages : /\ \A status : Head(todo) # Mark(p, status)
                          /\ Head(todo) \notin PairSteps(p)
      /\ Head(todo) \notin CopySteps
  BY <1>2, <1>4, KindsOfSteps
<1> QED BY <1>1, <1>2, <1>4, <1>5, <1>6, <1>7, <1>8, OtherPage, NextStep

LEMMA ProgramStatusStep == ASSUME EepromInv, ProgramStatus PROVE EepromInv'
<1>1. EepromTypeOK /\ PagesFit /\ TodoFits /\ page \in [Pages -> PageForm]
  BY FormOfPages DEF EepromInv
<1>2. todo # <<>> /\ Head(todo).do = "mark" /\ UNCHANGED <<running, job, crashes>> /\ todo' = Tail(todo)
  BY DEF ProgramStatus, Step
<1>3. ASSUME NEW p \in Pages, NEW status \in {"in_transfer", "valid"}, Head(todo) = Mark(p, status),
             status = "valid" \/ Has(p, "erased")
      PROVE  /\ EepromTypeOK' /\ Has(p, status)' /\ Neat(p)' /\ Neat(1 - p)'
             /\ \A other : Has(1 - p, other)' = Has(1 - p, other)
             /\ \A q \in Pages : Has(q, "erased")' => page'[q] = ErasedPage
  <2>1. page' = [page EXCEPT ![p].status = status]
    <3>1. Head(todo).page = p /\ Head(todo).status = status
      BY <1>3, KindsOfSteps
    <3>2. page' = [page EXCEPT ![p].status =
                     IF page[p].status = "erased" \/ status = "valid" THEN status ELSE page[p].status]
      BY <3>1 DEF ProgramStatus
    <3> QED BY <1>3, <3>2 DEF Has
  <2>2. status \in PageStates
    BY DEF PageStates
  <2>3. /\ page' \in [Pages -> PageForm]
        /\ page'[p].status = status /\ page'[1 - p] = page[1 - p]
        /\ \A q \in Pages : page'[q].slots = page[q].slots
    BY <1>1, <2>1, <2>2, StatusProgrammed
  <2>4. EepromTypeOK'
    BY <1>1, <1>2, <2>3, TypesKept
  <2>5. Neat(p) /\ Neat(1 - p) /\ (Has(1 - p, "erased") => page[1 - p] = ErasedPage)
    BY <1>1, OtherPage DEF PagesFit
  <2>6. Neat(p)' /\ Neat(1 - p)'
    BY <2>3, <2>5, OtherPage, Neatness
  <2>7. Has(p, status)' /\ \A other : Has(1 - p, other)' = Has(1 - p, other)
    BY <2>3 DEF Has
  <2>8. ~Has(p, "erased")'
    BY <2>3 DEF Has
  <2>9. \A q \in Pages : Has(q, "erased")' => page'[q] = ErasedPage
    BY <2>3, <2>5, <2>7, <2>8, OtherPage
  <2> QED BY <2>4, <2>6, <2>7, <2>9
<1>4. 0 \in Pages /\ 1 \in Pages /\ 1 - 0 = 1 /\ 1 - 1 = 0
  BY DEF Pages
<1>5. CASE /\ \A p \in Pages : Has(p, "erased")
           /\ Head(todo) = Mark(0, "valid") /\ Tail(todo) = <<Erase(1)>>
  <2>1. /\ EepromTypeOK' /\ Has(0, "valid")' /\ Neat(0)' /\ Neat(1)' /\ Has(1, "erased")'
        /\ \A q \in Pages : Has(q, "erased")' => page'[q] = ErasedPage
    BY <1>3, <1>4, <1>5
  <2>2. Settled(0)'
    BY <1>4, <2>1 DEF Settled
  <2>3. PagesFit'
    BY <1>4, <2>1, <2>2, Fits
  <2>4. TodoFits'
    BY <1>2, <1>5, <2>2 DEF TodoFits
  <2> QED BY <2>1, <2>3, <2>4 DEF EepromInv
<1>6. ASSUME NEW p \in Pages, NEW k \in Keys, NEW v \in Stored, Settled(p),
             Head(todo) = Mark(1 - p, "in_transfer"),
             Tail(todo) = <<AppendPair(k, v), Copy(0, k)>> \o FinishTransfer(p)
      PROVE  EepromInv'
  <2>1. /\ EepromTypeOK' /\ Has(1 - p, "in_transfer")' /\ Neat(1 - p)' /\ Neat(p)' /\ Has(p, "valid")'
        /\ \A q \in Pages : Has(q, "erased")' => page'[q] = ErasedPage
    BY <1>3, <1>6, OtherPage DEF Settled
  <2>2. Moving(p)'
    BY <2>1 DEF Moving
  <2>3. PagesFit'
    BY <2>1, <2>2, Fits
  <2> DEFINE x == AppendPair(k, v)
             c == Copy(0, k)
  <2>4. x \in PairSteps(1 - p)' /\ c \in CopySteps
    <3>1. 0 \in 0 .. NumKeys
      BY Sizes
    <3> QED BY <3>1 DEF PairSteps, CopySteps
  <2> HIDE DEF x, c
  <2>5. TodoFits'
    <3>1. todo' = <<x, c>> \o FinishTransfer(p)
      BY <1>2, <1>6 DEF x, c
    <3> QED BY <2>2, <2>4, <3>1 DEF TodoFits
  <2> QED BY <2>1, <2>3, <2>5 DEF EepromInv
<1>7. ASSUME NEW p \in Pages, Moved(p), Head(todo) = Mark(1 - p, "valid"), Tail(todo) = <<>>
      PROVE  EepromInv'
  <2>1. /\ EepromTypeOK' /\ Has(1 - p, "valid")' /\ Neat(1 - p)' /\ Neat(p)' /\ Has(p, "erased")'
        /\ \A q \in Pages : Has(q, "erased")' => page'[q] = ErasedPage
    BY <1>3, <1>7, OtherPage DEF Moved
  <2>2. Settled(1 - p)'
    BY <2>1, OtherPage DEF Settled
  <2>3. PagesFit'
    BY <2>1, <2>2, OtherPage, Fits
  <2>4. TodoFits'
    BY <1>2, <1>7, <2>2, OtherPage DEF TodoFits
  <2> QED BY <2>1, <2>3, <2>4 DEF EepromInv
<1>8. /\ \A p \in Pages : Head(todo) # Erase(p) /\ Head(todo) \notin PairSteps(p)
      /\ Head(todo) \notin CopySteps
  BY <1>2, <1>4, KindsOfSteps
<1> QED BY <1>1, <1>2, <1>4, <1>5, <1>6, <1>7, <1>8, OtherPage, NextStep

(* A pair goes to the valid page, or, during a transfer, to the other one. *)
LEMMA PairIsNext ==
  ASSUME TodoFits, todo # <<>>, Head(todo).do \in {"append", "value"}
  PROVE  \E p \in Pages, q \in Pages :
           /\ Head(todo) \in PairSteps(q)
           /\ \/ q = p /\ Settled(p) /\ Tail(todo) = <<>>
              \/ q = 1 - p /\ Moving(p) /\ \E c \in CopySteps : Tail(todo) = <<c>> \o FinishTransfer(p)
<1>1. /\ 0 \in Pages /\ 1 \in Pages
      /\ \A p \in Pages : Head(todo) # Erase(p) /\ \A status : Head(todo) # Mark(p, status)
      /\ Head(todo) \notin CopySteps
  <2>1. 0 \in Pages /\ 1 \in Pages
    BY DEF Pages
  <2> QED BY <2>1, KindsOfSteps
<1> QED BY <1>1, OtherPage, NextStep

LEMMA PairDone ==
  ASSUME EepromInv, todo # <<>>, UNCHANGED <<running, job, crashes>>,
         NEW p \in Pages, NEW q \in Pages,
         \/ q = p /\ Settled(p) /\ Tail(todo) = <<>>
         \/ q = 1 - p /\ Moving(p) /\ \E c \in CopySteps : Tail(todo) = <<c>> \o FinishTransfer(p),
         page' \in [Pages -> PageForm],
         page'[q].status = page[q].status, page'[1 - q] = page[1 - q], Neat(q)',
         todo' = Tail(todo) \/ \E y \in PairSteps(q)' : todo' = <<y>> \o Tail(todo)
  PROVE  EepromInv'
<1>1. EepromTypeOK /\ PagesFit /\ TodoFits
  BY DEF EepromInv
<1>2. EepromTypeOK'
  BY <1>1, TypesKept
<1>3. \A status : Has(p, status)' = Has(p, status) /\ Has(1 - p, status)' = Has(1 - p, status)
  <2>1. \A r \in Pages : page'[r].status = page[r].status
    BY OtherPage
  <2> QED BY <2>1, OtherPage DEF Has
<1>4. Settled(p)' = Settled(p) /\ Moving(p)' = Moving(p)
  BY <1>3 DEF Settled, Moving
<1>5. PagesFit'
  <2>1. Neat(1 - q)
    BY <1>1, OtherPage DEF PagesFit
  <2>2. Neat(1 - q)'
    BY <2>1, OtherPage, Neatness
  <2>3. Neat(p)' /\ Neat(1 - p)'
    BY <2>2, OtherPage
  <2>4. Has(q, "valid") \/ Has(q, "in_transfer")
    BY DEF Settled, Moving
  <2>5. ~Has(q, "erased")'
    BY <2>4 DEF Has
  <2>6. Has(1 - q, "erased")' => page'[1 - q] = ErasedPage
    <3>1. Has(1 - q, "erased") => page[1 - q] = ErasedPage
      BY <1>1, OtherPage DEF PagesFit
    <3> QED BY <3>1 DEF Has
  <2>7. \A r \in Pages : Has(r, "erased")' => page'[r] = ErasedPage
    BY <2>5, <2>6, OtherPage
  <2> QED BY <1>4, <2>3, <2>7, Fits
<1>6. TodoFits'
  <2>1. CASE q = p /\ Settled(p) /\ Tail(todo) = <<>>
    <3>1. ASSUME NEW y PROVE <<y>> \o <<>> = <<y>>
      OBVIOUS
    <3>2. todo' = <<>> \/ \E y \in PairSteps(p)' : todo' = <<y>>
      BY <2>1, <3>1
    <3> QED BY <1>4, <2>1, <3>2 DEF TodoFits
  <2>2. ASSUME q = 1 - p, Moving(p), NEW c \in CopySteps, Tail(todo) = <<c>> \o FinishTransfer(p)
        PROVE  TodoFits'
    <3>1. CASE todo' = Tail(todo)
      BY <1>4, <2>2, <3>1 DEF TodoFits
    <3>2. ASSUME NEW y \in PairSteps(1 - p)', todo' = <<y>> \o Tail(todo) PROVE TodoFits'
      <4>1. todo' = <<y, c>> \o FinishTransfer(p)
        BY <2>2, <3>2, TwoThenTransfer
      <4> QED BY <1>4, <2>2, <4>1 DEF TodoFits
    <3> QED BY <2>2, <3>1, <3>2
  <2> QED BY <2>1, <2>2
<1> QED BY <1>2, <1>5, <1>6 DEF EepromInv

LEMMA ProgramKeyStep == ASSUME EepromInv, ProgramKey PROVE EepromInv'
<1>1. EepromTypeOK /\ PagesFit /\ TodoFits /\ page \in [Pages -> PageForm]
  BY FormOfPages DEF EepromInv
<1>2. todo # <<>> /\ Head(todo).do = "append" /\ UNCHANGED <<running, job, crashes>>
  BY DEF ProgramKey, Step
<1>3. PICK p \in Pages, q \in Pages :
        /\ Head(todo) \in PairSteps(q)
        /\ \/ q = p /\ Settled(p) /\ Tail(todo) = <<>>
           \/ q = 1 - p /\ Moving(p) /\ \E c \in CopySteps : Tail(todo) = <<c>> \o FinishTransfer(p)
  BY <1>1, <1>2, PairIsNext
<1>4. WritePage = q /\ q # NoPage
  BY <1>3, WhereToWrite DEF Pages, NoPage
<1>5. Neat(q)
  BY <1>1 DEF PagesFit
<1>6. CASE FreeSlots(q) = {}
  <2>1. page' = page /\ todo' = Tail(todo)
    BY <1>4, <1>6 DEF ProgramKey
  <2>2. Neat(q)'
    BY <1>5, <2>1, Neatness
  <2> QED BY <1>1, <1>2, <1>3, <2>1, <2>2, PairDone
<1>7. CASE FreeSlots(q) # {}
  <2> DEFINE s == Min(FreeSlots(q))
             y == Value(q, s, Head(todo).value)
  <2>1. Head(todo).key \in Keys /\ Head(todo).value \in Stored
    BY <1>2, <1>3, KindsOfSteps
  <2>2. page' = [page EXCEPT ![q].slots[Min(FreeSlots(q))].key = Head(todo).key]
    BY <1>4, <1>7 DEF ProgramKey
  <2>3. /\ page' \in [Pages -> PageForm]
        /\ page'[q].status = page[q].status /\ page'[1 - q] = page[1 - q]
        /\ s \in KeySlots(q)' /\ Neat(q)'
    BY <1>1, <1>5, <1>7, <2>1, <2>2, KeyProgrammed
  <2>4. todo' = <<y>> \o Tail(todo)
    BY <1>4, <1>7 DEF ProgramKey
  <2>5. y \in PairSteps(q)'
    BY <2>1, <2>3 DEF PairSteps
  <2> HIDE DEF y, s
  <2> QED BY <1>2, <1>3, <2>3, <2>4, <2>5, PairDone
<1> QED BY <1>6, <1>7

LEMMA ProgramValueStep == ASSUME EepromInv, ProgramValue PROVE EepromInv'
<1>1. EepromTypeOK /\ PagesFit /\ TodoFits /\ page \in [Pages -> PageForm]
  BY FormOfPages DEF EepromInv
<1>2. /\ todo # <<>> /\ Head(todo).do = "value" /\ UNCHANGED <<running, job, crashes>>
      /\ todo' = Tail(todo)
  BY DEF ProgramValue, Step
<1>3. PICK p \in Pages, q \in Pages :
        /\ Head(todo) \in PairSteps(q)
        /\ \/ q = p /\ Settled(p) /\ Tail(todo) = <<>>
           \/ q = 1 - p /\ Moving(p) /\ \E c \in CopySteps : Tail(todo) = <<c>> \o FinishTransfer(p)
  <2>1. Head(todo).do \in {"append", "value"}
    BY <1>2
  <2> QED BY <1>1, <1>2, <2>1, PairIsNext, Zenon
<1> DEFINE s == Head(todo).slot
           v == Head(todo).value
<1>4. Head(todo).page = q /\ s \in KeySlots(q) /\ v \in Stored
  <2>1. Head(todo) \in PairSteps(q) /\ Head(todo).do # "append"
    BY <1>2, <1>3
  <2> QED BY <2>1, KindsOfPairs
<1>5. page' = [page EXCEPT ![q].slots[s].value = v]
  <2>1. page' = [page EXCEPT ![Head(todo).page].slots[Head(todo).slot].value = Head(todo).value]
    BY DEF ProgramValue
  <2>2. Head(todo).page = q
    BY <1>4
  <2> QED BY <2>1, <2>2, Zenon
<1>6. Neat(q)
  BY <1>1 DEF PagesFit
<1> HIDE DEF s, v
<1>7. /\ page' \in [Pages -> PageForm]
      /\ page'[q].status = page[q].status /\ page'[1 - q] = page[1 - q] /\ Neat(q)'
  <2>1. /\ page \in [Pages -> PageForm] /\ q \in Pages /\ s \in KeySlots(q) /\ v \in Stored
        /\ Neat(q) /\ page' = [page EXCEPT ![q].slots[s].value = v]
    BY <1>1, <1>4, <1>5, <1>6
  <2> QED BY <2>1, ValueProgrammed, Zenon
<1> QED BY <1>2, <1>3, <1>7, PairDone

-----------------------------------------------------------------------------
(* Whatever happens and wherever the power fails, the pages fit together   *)
(* and what is left of init() or write() suits them.                       *)
THEOREM EepromInvariance == EepromSpec => []EepromInv
<1>1. EepromInv /\ [EepromNext]_eepromVars => EepromInv'
  <2> SUFFICES ASSUME EepromInv, [EepromNext]_eepromVars PROVE EepromInv'
    OBVIOUS
  <2>1. ASSUME NEW k \in Keys, NEW v \in Values, Write(k, v) PROVE EepromInv'
    BY <2>1, WriteStep
  <2>2. CASE FlashStep
    BY <2>2, ProgramKeyStep, ProgramValueStep, CopySlotStep, ErasePageStep, ProgramStatusStep DEF FlashStep
  <2>3. CASE UNCHANGED eepromVars
    <3>1. /\ page' = page /\ running' = running /\ todo' = todo /\ job' = job /\ crashes' = crashes
      BY <2>3 DEF eepromVars
    <3>2. EepromTypeOK' /\ PagesFit'
      BY <3>1, PageKept DEF EepromInv, EepromTypeOK
    <3>3. TodoFits'
      <4>1. /\ 0 \in Pages /\ \A p \in Pages : 1 - p \in Pages
            /\ \A p \in Pages : Has(p, "erased")' = Has(p, "erased")
        BY <3>1, PageKept DEF Pages
      <4>2. \A p \in Pages : /\ Settled(p)' = Settled(p) /\ Moving(p)' = Moving(p)
                             /\ Moved(p)' = Moved(p) /\ PairSteps(p)' = PairSteps(p)
        BY <3>1, PageKept
      <4> QED BY <3>1, <4>1, <4>2 DEF EepromInv, TodoFits
    <3> QED BY <3>2, <3>3 DEF EepromInv
  <2> QED BY <2>1, <2>2, <2>3, BootStep, WriteEndsStep, CrashStep DEF EepromNext
<1> QED BY Starts, <1>1, PTL DEF EepromSpec

(* EepromTypeOK for any number of keys, slots and power failures: a key    *)
(* half word never holds anything but a key or blank, an append never goes *)
(* outside its page.                                                       *)
THEOREM EepromTypes == EepromSpec => []EepromTypeOK
<1>1. EepromInv => EepromTypeOK
  BY DEF EepromInv
<1> QED BY EepromInvariance, <1>1, PTL

(* KnownGoodState: init() and write() always end with one valid page and   *)
(* one that is erased from end to end, however often they were cut off.    *)
THEOREM KnownGoodStateHolds == EepromSpec => []KnownGoodState
<1>1. EepromInv => KnownGoodState
  <2> SUFFICES ASSUME EepromInv, running, todo = <<>>
               PROVE  \E p \in Pages : Has(p, "valid") /\ page[1 - p] = ErasedPage /\ Neat(p)
    BY DEF KnownGoodState
  <2>1. PagesFit /\ TodoFits
    BY DEF EepromInv
  <2>2. PICK p \in Pages : Settled(p)
    BY <2>1, NothingLeft
  <2>3. Has(p, "valid") /\ page[1 - p] = ErasedPage /\ Neat(p)
    BY <2>1, <2>2, OtherPage DEF Settled, PagesFit
  <2> QED BY <2>3
<1> QED BY EepromInvariance, <1>1, PTL

-----------------------------------------------------------------------------
(* What the refinement of NvStore.tla needs.  These are operators of the   *)
(* pages and of the steps left, so that lemmas about them can be used for  *)
(* a state and for the one after it.                                       *)

(* Slots 1 to u are in use. *)
Filled(pg, u) ==
  \A i \in Slots : IF i <= u THEN pg.slots[i].key # Blank ELSE pg.slots[i] = EmptySlot

(* The slots that a transfer takes with n power failures on the way, and   *)
(* how many more it takes if copy_slots has got to key j.                  *)
Room(n) == NumKeys + (NumKeys - 1) * n
Left(j, skip) == IF skip \in j .. NumKeys - 1 THEN NumKeys - j - 1 ELSE NumKeys - j

(* A transfer from page old to page new: the first pair stays in force     *)
(* (the key is not copied again), everything else comes from the old page. *)
FirstKey(pg) == pg.slots[1].key

CopiesOnly(old, new) ==
  \A i \in Slots \ {1} :
    new.slots[i].key # Blank =>
      new.slots[i].key # FirstKey(new) /\ Latest(old, new.slots[i].key) # NotFound

CopiedBelow(old, new, j) ==
  \A k \in Keys : k < j => k = FirstKey(new) \/ Latest(new, k) = Latest(old, k)

Progress(old, new, j, skip, n) ==
  /\ CopiesOnly(old, new)
  /\ CopiedBelow(old, new, j)
  /\ skip = FirstKey(new) \/ (skip = Blank /\ FirstKey(new) < j)
  /\ \E u \in 0 .. NumSlots : Filled(new, u) /\ u + Left(j, skip) <= Room(n)

(* A write is in force, or its pair is yet to be appended. *)
Committed(pages, write) == write # NoJob => InForce(pages, write.key) = write.value

SettledPlan(pages, p, plan, write) ==
  \/ plan = <<>> /\ Committed(pages, write)
  \/ plan = <<Erase(1)>> /\ p = 0 /\ write = NoJob
  \/ /\ plan = <<AppendPair(write.key, write.value)>> /\ write # NoJob
     /\ ~Filled(pages[p], NumSlots)
  \/ /\ plan = <<Mark(1 - p, "in_transfer"), AppendPair(write.key, write.value), Copy(0, write.key)>>
               \o FinishTransfer(p)
     /\ write # NoJob

MovingPlan(pages, p, plan, write, n) ==
  LET old == pages[p]
      new == pages[1 - p]
  IN  \/ /\ plan = <<AppendPair(write.key, write.value), Copy(0, write.key)>> \o FinishTransfer(p)
         /\ write # NoJob /\ Filled(new, 0)
      \/ /\ Committed(pages, write)
         /\ \/ plan = <<>> /\ Progress(old, new, 0, FirstKey(new), n)
            \/ plan = FinishTransfer(p) /\ Progress(old, new, NumKeys, FirstKey(new), n)
            \/ \E k \in 0 .. NumKeys, skip \in Keys \cup {Blank} :
                 /\ plan = <<Copy(k, skip)>> \o FinishTransfer(p)
                 /\ Progress(old, new, k, skip, n)
            \/ \E k \in Keys, skip \in Keys \cup {Blank} :
                 /\ plan = <<AppendPair(k, Latest(old, k)), Copy(k + 1, skip)>> \o FinishTransfer(p)
                 /\ Progress(old, new, k, skip, n) /\ k # skip /\ Latest(old, k) # NotFound

MovedPlan(pages, p, plan, write) ==
  /\ plan \in {<<>>, FinishTransfer(p), <<Mark(1 - p, "valid")>>}
  /\ Committed(pages, write)

FormatPlan(plan, write) ==
  plan \in {<<>>, Format, <<Mark(0, "valid"), Erase(1)>>} /\ write = NoJob

Statuses(pages, p, one, other) == pages[p].status = one /\ pages[1 - p].status = other

PlanFits(pages, plan, write, n) ==
  /\ \A p \in Pages : \E u \in 0 .. NumSlots : Filled(pages[p], u)
  /\ \/ Statuses(pages, 0, "erased", "erased") /\ FormatPlan(plan, write)
     \/ \E p \in Pages :
          \/ Statuses(pages, p, "valid", "erased") /\ SettledPlan(pages, p, plan, write)
          \/ Statuses(pages, p, "valid", "in_transfer") /\ MovingPlan(pages, p, plan, write, n)
          \/ Statuses(pages, p, "erased", "in_transfer") /\ MovedPlan(pages, p, plan, write)

(* The value that is yet to follow its key belongs to the last slot in     *)
(* use; it is as good as there (Flash).                                    *)
ValueNext == todo # <<>> /\ Head(todo).do = "value"
Plan == IF ValueNext THEN Tail(todo) ELSE todo

ValueFits ==
  ValueNext =>
    LET h == Head(todo)
    IN  Filled(page[h.page], h.slot) /\ page[h.page].slots[h.slot].value = Blank

StoreInv == EepromInv /\ PlanFits(Flash, Plan, job, crashes) /\ ValueFits

-----------------------------------------------------------------------------
(* Slots in use, and what is read *)

LEMMA SlotsAre ==
  /\ NumSlots \in Nat /\ NumSlots >= 1 /\ 1 \in Slots /\ Slots \in SUBSET Nat
  /\ \A i : i \in Slots <=> i \in Nat /\ 1 <= i /\ i <= NumSlots
  /\ \A k \in Keys : k # Blank /\ k \in Nat /\ k < NumKeys
  /\ EmptySlot.key = Blank
<1>1. \A k \in Keys : k # Blank /\ k \in Nat /\ k < NumKeys
  BY Sizes DEF Keys, Blank
<1> QED BY <1>1, Sizes DEF Slots, EmptySlot

LEMMA LatestAt ==
  ASSUME NEW pg, NEW k, NEW s \in Slots, pg.slots[s].key = k,
         \A i \in Slots : i > s => pg.slots[i].key # k
  PROVE  Latest(pg, k) = pg.slots[s].value
<1> DEFINE matching == {i \in Slots : pg.slots[i].key = k}
<1>1. matching \in SUBSET Nat /\ matching # {} /\ \A i \in matching : i <= NumSlots
  BY SlotsAre
<1>2. Max(matching) \in matching /\ \A i \in matching : i <= Max(matching)
  BY <1>1, MaxIsGreatest, SlotsAre
<1>3. Max(matching) = s
  <2>1. Max(matching) \in Nat /\ s \in Nat /\ s <= Max(matching) /\ Max(matching) \in Slots
    BY <1>1, <1>2
  <2>2. ~(Max(matching) > s)
    BY <1>2
  <2> QED BY <2>1, <2>2
<1> QED BY <1>1, <1>3 DEF Latest

LEMMA LatestNone ==
  ASSUME NEW pg, NEW k, \A i \in Slots : pg.slots[i].key # k
  PROVE  Latest(pg, k) = NotFound
BY DEF Latest

LEMMA LatestSame ==
  ASSUME NEW pg, NEW new, NEW k,
         \A i \in Slots : /\ new.slots[i].key = k <=> pg.slots[i].key = k
                          /\ pg.slots[i].key = k => new.slots[i].value = pg.slots[i].value
  PROVE  Latest(new, k) = Latest(pg, k)
<1> DEFINE matching == {i \in Slots : pg.slots[i].key = k}
<1>1. {i \in Slots : new.slots[i].key = k} = matching
  OBVIOUS
<1>2. CASE matching = {}
  BY <1>1, <1>2 DEF Latest
<1>3. CASE matching # {}
  <2>1. matching \in SUBSET Nat /\ \A i \in matching : i <= NumSlots
    BY SlotsAre
  <2>2. Max(matching) \in matching
    BY <1>3, <2>1, MaxIsGreatest, SlotsAre
  <2>3. new.slots[Max(matching)].value = pg.slots[Max(matching)].value
    BY <2>2
  <2> QED BY <1>1, <1>3, <2>3 DEF Latest
<1> QED BY <1>2, <1>3

LEMMA FilledOnce ==
  ASSUME NEW pg, NEW u \in 0 .. NumSlots, NEW w \in 0 .. NumSlots, Filled(pg, u), Filled(pg, w)
  PROVE  u = w
<1>1. ASSUME NEW a \in 0 .. NumSlots, NEW b \in 0 .. NumSlots, Filled(pg, a), Filled(pg, b), a < b
      PROVE  FALSE
  <2>1. b \in Slots /\ ~(b <= a)
    BY <1>1, SlotsAre
  <2> QED BY <1>1, <2>1, SlotsAre DEF Filled
<1>2. u < w \/ w < u \/ u = w
  BY SlotsAre
<1> QED BY <1>1, <1>2

LEMMA FirstFree ==
  ASSUME NEW p \in Pages, NEW u \in 0 .. NumSlots, Filled(page[p], u)
  PROVE  /\ u = NumSlots => FreeSlots(p) = {}
         /\ u < NumSlots => FreeSlots(p) # {} /\ Min(FreeSlots(p)) = u + 1
<1>1. \A i \in Slots : i \in FreeSlots(p) <=> ~(i <= u)
  BY SlotsAre DEF Filled, FreeSlots
<1>2. FreeSlots(p) \in SUBSET Slots
  BY DEF FreeSlots
<1>3. CASE u = NumSlots
  BY <1>1, <1>2, <1>3, SlotsAre
<1>4. CASE u < NumSlots
  <2>1. u + 1 \in FreeSlots(p) /\ u \in Nat
    BY <1>1, <1>4, SlotsAre
  <2>2. Min(FreeSlots(p)) \in FreeSlots(p) /\ \A i \in FreeSlots(p) : Min(FreeSlots(p)) <= i
    <3>1. FreeSlots(p) \in SUBSET Nat /\ FreeSlots(p) # {}
      BY <1>2, <2>1, SlotsAre
    <3> QED BY <3>1, MinIsLeast
  <2>3. Min(FreeSlots(p)) \in Nat /\ Min(FreeSlots(p)) <= u + 1 /\ ~(Min(FreeSlots(p)) <= u)
    BY <1>1, <1>2, <2>1, <2>2, SlotsAre
  <2> QED BY <1>4, <2>1, <2>3
<1> QED BY <1>3, <1>4

LEMMA ErasedIsEmpty ==
  /\ Filled(ErasedPage, 0) /\ FirstKey(ErasedPage) = Blank
  /\ \A k \in Keys : Latest(ErasedPage, k) = NotFound
<1>1. \A i \in Slots : ErasedPage.slots[i] = EmptySlot
  BY DEF ErasedPage
<1>2. Filled(ErasedPage, 0)
  BY <1>1, SlotsAre DEF Filled
<1>3. ASSUME NEW k \in Keys PROVE Latest(ErasedPage, k) = NotFound
  <2>1. \A i \in Slots : ErasedPage.slots[i].key # k
    BY <1>1, SlotsAre
  <2> QED BY <2>1, LatestNone
<1> QED BY <1>1, <1>2, <1>3, SlotsAre DEF FirstKey

(* The pair (k, v) is put behind slot u. *)
Appended(pg, new, u, k, v) ==
  /\ u + 1 \in Slots /\ new.slots[u + 1].key = k /\ new.slots[u + 1].value = v
  /\ \A i \in Slots \ {u + 1} : new.slots[i] = pg.slots[i]

LEMMA LatestAppended ==
  ASSUME NEW pg, NEW new, NEW u \in 0 .. NumSlots, NEW k \in Keys, NEW v,
         Filled(pg, u), Appended(pg, new, u, k, v)
  PROVE  /\ Filled(new, u + 1) /\ Latest(new, k) = v
         /\ \A j \in Keys \ {k} : Latest(new, j) = Latest(pg, j)
<1>1. Filled(new, u + 1)
  <2> SUFFICES ASSUME NEW i \in Slots
               PROVE  IF i <= u + 1 THEN new.slots[i].key # Blank ELSE new.slots[i] = EmptySlot
    BY DEF Filled
  <2>1. CASE i = u + 1
    BY <2>1, SlotsAre DEF Appended
  <2>2. CASE i # u + 1
    <3>1. new.slots[i] = pg.slots[i] /\ (i <= u + 1 <=> i <= u)
      BY <2>2, SlotsAre DEF Appended
    <3> QED BY <3>1 DEF Filled
  <2> QED BY <2>1, <2>2
<1>2. Latest(new, k) = v
  <2>1. \A i \in Slots : i > u + 1 => new.slots[i].key # k
    <3> SUFFICES ASSUME NEW i \in Slots, i > u + 1 PROVE new.slots[i].key # k
      OBVIOUS
    <3>1. ~(i <= u + 1)
      BY SlotsAre
    <3> QED BY <1>1, <3>1, SlotsAre DEF Filled
  <2>2. u + 1 \in Slots /\ new.slots[u + 1].key = k /\ new.slots[u + 1].value = v
    BY DEF Appended
  <2> QED BY <2>1, <2>2, LatestAt
<1>3. ASSUME NEW j \in Keys \ {k} PROVE Latest(new, j) = Latest(pg, j)
  <2>1. ASSUME NEW i \in Slots
        PROVE  /\ new.slots[i].key = j <=> pg.slots[i].key = j
               /\ pg.slots[i].key = j => new.slots[i].value = pg.slots[i].value
    <3>1. CASE i = u + 1
      <4>1. new.slots[i].key = k /\ ~(i <= u)
        BY <3>1, SlotsAre DEF Appended
      <4>2. pg.slots[i].key = Blank
        BY <4>1, SlotsAre DEF Filled
      <4> QED BY <4>1, <4>2, SlotsAre
    <3>2. CASE i # u + 1
      BY <3>2 DEF Appended
    <3> QED BY <3>1, <3>2
  <2> QED BY <2>1, LatestSame
<1> QED BY <1>1, <1>2, <1>3

-----------------------------------------------------------------------------
(* The value in force *)

LEMMA MinOfOne == ASSUME NEW p \in Pages PROVE Min({p}) = p
<1>1. {p} \in SUBSET Nat /\ {p} # {}
  BY DEF Pages
<1>2. Min({p}) \in {p}
  BY <1>1, MinIsLeast
<1> QED BY <1>2

LEMMA InForceIs ==
  ASSUME NEW pages, NEW p \in Pages, NEW k
  PROVE  /\ Statuses(pages, p, "erased", "erased") => InForce(pages, k) = NotFound
         /\ Statuses(pages, p, "valid", "erased") => InForce(pages, k) = Latest(pages[p], k)
         /\ Statuses(pages, p, "erased", "in_transfer") => InForce(pages, k) = Latest(pages[1 - p], k)
         /\ Statuses(pages, p, "valid", "in_transfer") =>
              InForce(pages, k) = IF FirstKey(pages[1 - p]) = k THEN pages[1 - p].slots[1].value
                                  ELSE Latest(pages[p], k)
<1>1. ASSUME Statuses(pages, p, "erased", "erased") PROVE InForce(pages, k) = NotFound
  <2>1. In(pages, "in_transfer") = {} /\ In(pages, "valid") = {}
    BY <1>1, OtherPage DEF Statuses, In
  <2> QED BY <1>1, <2>1 DEF InForce, Statuses
<1>2. ASSUME Statuses(pages, p, "valid", "erased") PROVE InForce(pages, k) = Latest(pages[p], k)
  <2>1. In(pages, "in_transfer") = {} /\ In(pages, "valid") = {p}
    BY <1>2, OtherPage DEF Statuses, In
  <2>2. InForce(pages, k) = Latest(pages[Min(In(pages, "valid"))], k)
    BY <2>1 DEF InForce
  <2> QED BY <1>2, <2>1, <2>2, MinOfOne DEF Statuses, In
<1>3. ASSUME Statuses(pages, p, "erased", "in_transfer")
      PROVE  InForce(pages, k) = Latest(pages[1 - p], k)
  <2>1. In(pages, "in_transfer") = {1 - p} /\ In(pages, "valid") = {}
    BY <1>3, OtherPage DEF Statuses, In
  <2>2. InForce(pages, k) = Latest(pages[Min(In(pages, "in_transfer"))], k)
    BY <2>1 DEF InForce
  <2> QED BY <1>3, <2>1, <2>2, MinOfOne, OtherPage DEF Statuses, In
<1>4. ASSUME Statuses(pages, p, "valid", "in_transfer")
      PROVE  InForce(pages, k) = IF FirstKey(pages[1 - p]) = k THEN pages[1 - p].slots[1].value
                                 ELSE Latest(pages[p], k)
  <2>1. In(pages, "in_transfer") = {1 - p} /\ In(pages, "valid") = {p}
    BY <1>4, OtherPage DEF Statuses, In
  <2>2. Min(In(pages, "in_transfer")) = 1 - p
    BY <2>1, MinOfOne, OtherPage
  <2>3. InForce(pages, k) =
          IF pages[1 - p].slots[1].key = k THEN pages[1 - p].slots[1].value
          ELSE Latest(pages[1 - (1 - p)], k)
    BY <2>1, <2>2 DEF InForce
  <2> QED BY <1>4, <2>3, OtherPage DEF Statuses, In, FirstKey
<1> QED BY <1>1, <1>2, <1>3, <1>4, Zenon

-----------------------------------------------------------------------------
(* Transfers *)

LEMMA Rooms ==
  ASSUME NEW n \in Nat
  PROVE  /\ Room(n) \in Nat /\ Room(n) >= NumKeys /\ Room(n + 1) = Room(n) + (NumKeys - 1)
         /\ n <= MaxCrashes => Room(n) <= NumSlots
<1> DEFINE a == NumKeys - 1
<1>1. a \in Nat /\ NumKeys \in Nat /\ MaxCrashes \in Nat /\ NumSlots \in Nat
      /\ NumSlots >= NumKeys + a * MaxCrashes
  BY Sizes, EepromAssumption
<1>2. Room(n) = NumKeys + a * n /\ Room(n + 1) = NumKeys + a * (n + 1)
  BY DEF Room
<1> HIDE DEF a
<1>3. a * n \in Nat /\ a * (n + 1) = a * n + a
  BY <1>1, Products
<1>4. ASSUME n <= MaxCrashes PROVE a * n <= a * MaxCrashes
  <2>1. PICK d \in Nat : MaxCrashes = n + d
    <3>1. MaxCrashes - n \in Nat /\ MaxCrashes = n + (MaxCrashes - n)
      BY <1>1, <1>4
    <3> QED BY <3>1
  <2>2. a * (n + d) = a * n + a * d /\ a * d \in Nat
    BY <1>1, <1>3
  <2> QED BY <1>3, <2>1, <2>2
<1>5. a * MaxCrashes \in Nat
  BY <1>1, Products
<1>6. Room(n) \in Nat /\ Room(n) >= NumKeys /\ Room(n + 1) = Room(n) + a
  BY <1>1, <1>2, <1>3
<1>7. n <= MaxCrashes => Room(n) <= NumSlots
  BY <1>1, <1>2, <1>3, <1>4, <1>5
<1> QED BY <1>6, <1>7 DEF a

LEMMA Lefts ==
  ASSUME NEW skip \in Keys \cup {Blank}
  PROVE  /\ \A j \in 0 .. NumKeys : Left(j, skip) \in Nat
         /\ \A j \in Keys : /\ j + 1 \in 0 .. NumKeys
                            /\ j # skip => Left(j, skip) = Left(j + 1, skip) + 1
                            /\ j = skip => Left(j, skip) = Left(j + 1, skip)
         /\ skip \in Keys => Left(0, skip) = NumKeys - 1
         /\ skip = Blank => Left(0, skip) = NumKeys
         /\ Left(NumKeys, skip) = 0
<1>1. /\ NumKeys \in Nat /\ NumKeys >= 1 /\ NumKeys <= 255
      /\ (skip \in Nat /\ skip < NumKeys) \/ skip = 65535
      /\ skip \in Keys <=> skip \in Nat /\ skip < NumKeys
  BY Sizes DEF Keys, Blank
<1>2. \A j \in 0 .. NumKeys : Left(j, skip) \in Nat
  BY <1>1 DEF Left
<1>3. \A j \in Keys : /\ j + 1 \in 0 .. NumKeys
                      /\ j # skip => Left(j, skip) = Left(j + 1, skip) + 1
                      /\ j = skip => Left(j, skip) = Left(j + 1, skip)
  BY <1>1 DEF Left, Keys
<1>4. Left(NumKeys, skip) = 0
  BY <1>1 DEF Left
<1>5. /\ skip \in Keys => Left(0, skip) = NumKeys - 1
      /\ skip = Blank => Left(0, skip) = NumKeys
  BY <1>1 DEF Left, Blank
<1> QED BY <1>2, <1>3, <1>4, <1>5

LEMMA FirstKeys ==
  ASSUME NEW pg \in PageForm
  PROVE  /\ FirstKey(pg) \in Keys \cup {Blank}
         /\ \A u \in 0 .. NumSlots : Filled(pg, u) => (u = 0 <=> FirstKey(pg) = Blank)
<1>1. pg.slots \in [Slots -> SlotStates] /\ 1 \in Slots
  BY SlotsAre DEF PageForm
<1>2. pg.slots[1] \in SlotStates
  BY <1>1
<1>3. FirstKey(pg) \in Keys \cup {Blank}
  BY <1>2 DEF FirstKey, SlotStates
<1>4. ASSUME NEW u \in 0 .. NumSlots, Filled(pg, u) PROVE u = 0 <=> FirstKey(pg) = Blank
  BY <1>4, SlotsAre DEF Filled, FirstKey
<1> QED BY <1>3, <1>4

LEMMA CopyFinds ==
  ASSUME NEW old, NEW new, NEW k \in Keys, NEW skip \in Keys \cup {Blank}, NEW n \in 0 .. MaxCrashes,
         Progress(old, new, k, skip, n), k # skip
  PROVE  \E u \in 0 .. NumSlots - 1 : Filled(new, u) /\ u + 1 + Left(k + 1, skip) <= Room(n)
<1>1. PICK u \in 0 .. NumSlots : Filled(new, u) /\ u + Left(k, skip) <= Room(n)
  BY DEF Progress
<1>2. /\ Left(k, skip) = Left(k + 1, skip) + 1
      /\ Left(k + 1, skip) \in Nat
  BY Lefts
<1>3. n \in Nat /\ n <= MaxCrashes /\ MaxCrashes \in Nat /\ NumSlots \in Nat
  BY Sizes
<1>4. Room(n) \in Nat /\ Room(n) <= NumSlots
  BY <1>3, Rooms
<1>5. u \in 0 .. NumSlots - 1 /\ u + 1 + Left(k + 1, skip) <= Room(n)
  BY <1>1, <1>2, <1>3, <1>4
<1> QED BY <1>1, <1>5

(* What is in force during a transfer *)
InTransfer(old, new, j) == IF FirstKey(new) = j THEN new.slots[1].value ELSE Latest(old, j)

LEMMA CopyAppends ==
  ASSUME NEW old, NEW new \in PageForm, NEW next \in PageForm,
         NEW k \in Keys, NEW skip \in Keys \cup {Blank}, NEW n \in 0 .. MaxCrashes,
         Progress(old, new, k, skip, n), k # skip, Latest(old, k) # NotFound,
         NEW u \in 0 .. NumSlots, Filled(new, u), Appended(new, next, u, k, Latest(old, k))
  PROVE  /\ Progress(old, next, k + 1, skip, n)
         /\ \A j \in Keys : InTransfer(old, next, j) = InTransfer(old, new, j)
<1>1. u \in 0 .. NumSlots - 1 /\ u \in Nat /\ u + 1 + Left(k + 1, skip) <= Room(n)
  <2>1. PICK w \in 0 .. NumSlots - 1 : Filled(new, w) /\ w + 1 + Left(k + 1, skip) <= Room(n)
    BY CopyFinds
  <2>2. w \in 0 .. NumSlots
    BY <2>1, SlotsAre
  <2>3. u = w
    BY <2>1, <2>2, FilledOnce
  <2> QED BY <2>1, <2>3
<1>2. /\ Filled(next, u + 1) /\ Latest(next, k) = Latest(old, k)
      /\ \A j \in Keys \ {k} : Latest(next, j) = Latest(new, j)
  BY LatestAppended
<1>3. /\ FirstKey(new) \in Keys \cup {Blank} /\ (u = 0 <=> FirstKey(new) = Blank)
      /\ \A j \in Keys : j # Blank /\ j \in Nat /\ j < NumKeys
  BY FirstKeys, SlotsAre
<1>4. CopiesOnly(old, new) /\ CopiedBelow(old, new, k)
      /\ (skip = FirstKey(new) \/ (skip = Blank /\ FirstKey(new) < k))
  BY DEF Progress
<1>5. IF u = 0 THEN FirstKey(next) = k /\ next.slots[1].value = Latest(old, k)
      ELSE next.slots[1] = new.slots[1] /\ FirstKey(next) = FirstKey(new)
  <2>1. CASE u = 0
    BY <2>1 DEF Appended, FirstKey
  <2>2. CASE u # 0
    <3>1. 1 \in Slots \ {u + 1}
      BY <1>1, <2>2, SlotsAre
    <3> QED BY <2>2, <3>1 DEF Appended, FirstKey
  <2> QED BY <2>1, <2>2
<1>6. u # 0 => FirstKey(new) # k
  BY <1>3, <1>4
<1>7. CopiesOnly(old, next)
  <2> SUFFICES ASSUME NEW i \in Slots \ {1}, next.slots[i].key # Blank
               PROVE  next.slots[i].key # FirstKey(next) /\ Latest(old, next.slots[i].key) # NotFound
    BY DEF CopiesOnly
  <2>1. CASE u = 0
    <3>1. ~(i <= u + 1)
      BY <2>1, SlotsAre
    <3>2. next.slots[i] = EmptySlot
      BY <1>2, <3>1 DEF Filled
    <3> QED BY <3>2, SlotsAre
  <2>2. CASE u # 0 /\ i = u + 1
    BY <1>5, <1>6, <2>2 DEF Appended
  <2>3. CASE u # 0 /\ i # u + 1
    <3>1. next.slots[i] = new.slots[i]
      BY <2>3 DEF Appended
    <3> QED BY <1>4, <1>5, <2>3, <3>1 DEF CopiesOnly
  <2> QED BY <2>1, <2>2, <2>3
<1>8. CopiedBelow(old, next, k + 1)
  <2> SUFFICES ASSUME NEW j \in Keys, j < k + 1
               PROVE  j = FirstKey(next) \/ Latest(next, j) = Latest(old, j)
    BY DEF CopiedBelow
  <2>1. CASE j = k
    BY <1>2, <2>1
  <2>2. CASE j # k
    <3>1. j < k
      BY <1>3, <2>2
    <3>2. j = FirstKey(new) \/ Latest(new, j) = Latest(old, j)
      BY <1>4, <3>1 DEF CopiedBelow
    <3>3. u = 0 => j # FirstKey(new)
      BY <1>3
    <3> QED BY <1>2, <1>5, <2>2, <3>2, <3>3
  <2> QED BY <2>1, <2>2
<1>9. skip = FirstKey(next) \/ (skip = Blank /\ FirstKey(next) < k + 1)
  <2>1. CASE u = 0
    <3>1. skip = Blank
      BY <1>3, <1>4, <2>1
    <3>2. FirstKey(next) = k /\ k < k + 1
      BY <1>3, <1>5, <2>1
    <3> QED BY <3>1, <3>2
  <2>2. CASE u # 0
    BY <1>3, <1>4, <1>5, <2>2
  <2> QED BY <2>1, <2>2
<1>10. Progress(old, next, k + 1, skip, n)
  <2>1. u + 1 \in 0 .. NumSlots
    BY <1>1, SlotsAre
  <2> QED BY <1>1, <1>2, <1>7, <1>8, <1>9, <2>1 DEF Progress
<1>11. ASSUME NEW j \in Keys PROVE InTransfer(old, next, j) = InTransfer(old, new, j)
  BY <1>3, <1>5 DEF InTransfer
<1> QED BY <1>10, <1>11

LEMMA CopySkips ==
  ASSUME NEW old, NEW new \in PageForm, NEW k \in Keys, NEW skip \in Keys \cup {Blank},
         NEW n \in 0 .. MaxCrashes,
         Progress(old, new, k, skip, n), k = skip \/ Latest(old, k) = NotFound
  PROVE  Progress(old, new, k + 1, skip, n)
<1>1. /\ CopiesOnly(old, new) /\ CopiedBelow(old, new, k)
      /\ skip = FirstKey(new) \/ (skip = Blank /\ FirstKey(new) < k)
  BY DEF Progress
<1>2. PICK u \in 0 .. NumSlots : Filled(new, u) /\ u + Left(k, skip) <= Room(n)
  BY DEF Progress
<1>3. /\ FirstKey(new) \in Keys \cup {Blank}
      /\ \A j \in Keys : j # Blank /\ j \in Nat /\ j < NumKeys
      /\ NumKeys \in Nat /\ NumKeys <= 255 /\ Blank = 65535
  BY FirstKeys, SlotsAre, Sizes DEF Blank
<1>4. k = FirstKey(new) \/ Latest(new, k) = Latest(old, k)
  <2>1. CASE k = skip
    BY <1>1, <1>3, <2>1
  <2>2. CASE k # skip /\ k # FirstKey(new)
    <3>1. \A i \in Slots : new.slots[i].key # k
      BY <1>1, <1>3, <2>2 DEF CopiesOnly, FirstKey
    <3> QED BY <2>2, <3>1, LatestNone
  <2> QED BY <2>1, <2>2
<1>5. CopiedBelow(old, new, k + 1)
  <2> SUFFICES ASSUME NEW j \in Keys, j < k + 1
               PROVE  j = FirstKey(new) \/ Latest(new, j) = Latest(old, j)
    BY DEF CopiedBelow
  <2>1. j = k \/ j < k
    BY <1>3
  <2> QED BY <1>1, <1>4, <2>1 DEF CopiedBelow
<1>6. skip = FirstKey(new) \/ (skip = Blank /\ FirstKey(new) < k + 1)
  BY <1>1, <1>3
<1>7. u + Left(k + 1, skip) <= Room(n)
  <2>1. Left(k + 1, skip) \in Nat /\ (Left(k, skip) = Left(k + 1, skip) + 1 \/ Left(k, skip) = Left(k + 1, skip))
    BY Lefts
  <2>2. Room(n) \in Nat
    BY Rooms, Sizes
  <2> QED BY <1>2, <2>1, <2>2
<1> QED BY <1>1, <1>2, <1>5, <1>6, <1>7 DEF Progress

LEMMA CopyEnds ==
  ASSUME NEW old, NEW new \in PageForm, NEW skip \in Keys \cup {Blank}, NEW n,
         Progress(old, new, NumKeys, skip, n)
  PROVE  Progress(old, new, NumKeys, FirstKey(new), n)
<1>1. Left(NumKeys, FirstKey(new)) = Left(NumKeys, skip)
  BY FirstKeys, Lefts
<1> QED BY <1>1 DEF Progress

(* A transfer that is cut off, perhaps between a key and its value, is     *)
(* redone from the first key on.                                           *)
LEMMA CutOff ==
  ASSUME NEW old, NEW new \in PageForm, NEW cut \in PageForm,
         NEW k \in 0 .. NumKeys, NEW skip \in Keys \cup {Blank},
         NEW n \in 0 .. MaxCrashes, Progress(old, new, k, skip, n),
         \A i \in Slots : cut.slots[i].key = new.slots[i].key,
         \A u \in 0 .. NumSlots : Filled(new, u) => Filled(cut, u)
  PROVE  Progress(old, cut, 0, FirstKey(cut), n + 1)
<1>1. PICK u \in 0 .. NumSlots : Filled(new, u) /\ u + Left(k, skip) <= Room(n)
  BY DEF Progress
<1>2. FirstKey(cut) = FirstKey(new) /\ FirstKey(cut) \in Keys \cup {Blank}
  BY FirstKeys, SlotsAre DEF FirstKey
<1>3. CopiesOnly(old, cut)
  BY <1>2 DEF Progress, CopiesOnly
<1>4. CopiedBelow(old, cut, 0)
  BY SlotsAre DEF CopiedBelow
<1>5. Filled(cut, u) /\ (u = 0 <=> FirstKey(cut) = Blank)
  BY <1>1, FirstKeys
<1>6. /\ Left(k, skip) \in Nat /\ (FirstKey(cut) \in Keys => Left(0, FirstKey(cut)) = NumKeys - 1)
      /\ FirstKey(cut) = Blank => Left(0, FirstKey(cut)) = NumKeys
  BY <1>2, Lefts
<1>7. /\ Room(n) \in Nat /\ Room(n) >= NumKeys /\ Room(n + 1) = Room(n) + (NumKeys - 1)
      /\ NumKeys \in Nat /\ NumKeys >= 1
  BY Rooms, Sizes
<1>8. u + Left(0, FirstKey(cut)) <= Room(n + 1)
  <2>1. CASE FirstKey(cut) = Blank
    <3>1. u = 0 /\ Left(0, FirstKey(cut)) = NumKeys
      BY <1>5, <1>6, <2>1
    <3> QED BY <1>7, <3>1
  <2>2. CASE FirstKey(cut) \in Keys
    <3>1. Left(0, FirstKey(cut)) = NumKeys - 1 /\ u <= Room(n)
      BY <1>1, <1>6, <1>7, <2>2
    <3> QED BY <1>7, <3>1
  <2> QED BY <1>2, <2>1, <2>2
<1> QED BY <1>3, <1>4, <1>5, <1>8 DEF Progress

(* A transfer that has not copied anything *)
LEMMA NothingCopied ==
  ASSUME NEW old, NEW new \in PageForm, Filled(new, 0), NEW n \in Nat
  PROVE  /\ FirstKey(new) = Blank /\ Progress(old, new, 0, FirstKey(new), n)
         /\ \A j \in Keys : InTransfer(old, new, j) = Latest(old, j)
<1>1. FirstKey(new) = Blank
  BY FirstKeys, SlotsAre
<1>2. CopiesOnly(old, new)
  BY SlotsAre DEF CopiesOnly, Filled
<1>3. CopiedBelow(old, new, 0)
  BY SlotsAre DEF CopiedBelow
<1>4. Left(0, FirstKey(new)) = NumKeys /\ Room(n) >= NumKeys /\ NumKeys \in Nat /\ NumSlots \in Nat
  BY <1>1, Lefts, Rooms, Sizes
<1>5. 0 \in 0 .. NumSlots /\ 0 + Left(0, FirstKey(new)) <= Room(n)
  BY <1>4
<1>6. Progress(old, new, 0, FirstKey(new), n)
  BY <1>2, <1>3, <1>5 DEF Progress
<1>7. \A j \in Keys : InTransfer(old, new, j) = Latest(old, j)
  BY <1>1, SlotsAre DEF InTransfer
<1> QED BY <1>1, <1>6, <1>7

(* The pair that is written goes first. *)
LEMMA FirstAppended ==
  ASSUME NEW old, NEW new \in PageForm, NEW next \in PageForm, Filled(new, 0),
         NEW k \in Keys, NEW v, NEW n \in Nat, Appended(new, next, 0, k, v)
  PROVE  /\ Progress(old, next, 0, k, n)
         /\ \A j \in Keys : InTransfer(old, next, j) = IF j = k THEN v ELSE Latest(old, j)
<1>1. FirstKey(next) = k /\ next.slots[1].value = v
  BY DEF FirstKey, Appended
<1>2. 0 \in 0 .. NumSlots /\ 1 \in 0 .. NumSlots
  BY SlotsAre
<1>3. Filled(next, 1)
  BY <1>2, LatestAppended
<1>4. CopiesOnly(old, next)
  <2>1. \A i \in Slots \ {1} : ~(i <= 1)
    BY SlotsAre
  <2> QED BY <1>3, <2>1, SlotsAre DEF CopiesOnly, Filled
<1>5. CopiedBelow(old, next, 0)
  BY SlotsAre DEF CopiedBelow
<1>6. Left(0, k) = NumKeys - 1 /\ Room(n) >= NumKeys /\ NumKeys \in Nat /\ Room(n) \in Nat
  BY Lefts, Rooms, Sizes
<1>7. 1 + Left(0, k) <= Room(n)
  BY <1>6
<1>8. Progress(old, next, 0, k, n)
  BY <1>1, <1>2, <1>3, <1>4, <1>5, <1>7 DEF Progress
<1>9. \A j \in Keys : InTransfer(old, next, j) = IF j = k THEN v ELSE Latest(old, j)
  BY <1>1 DEF InTransfer
<1> QED BY <1>8, <1>9

(* Once everything is copied the old page is not needed any more. *)
LEMMA OldNotNeeded ==
  ASSUME NEW old, NEW new \in PageForm, NEW skip, NEW n,
         Progress(old, new, NumKeys, skip, n), NEW j \in Keys
  PROVE  Latest(new, j) = InTransfer(old, new, j)
<1>1. j < NumKeys
  BY SlotsAre
<1>2. CASE j # FirstKey(new)
  BY <1>1, <1>2 DEF Progress, CopiedBelow, InTransfer
<1>3. CASE j = FirstKey(new)
  <2>1. new.slots[1].key = j
    BY <1>3 DEF FirstKey
  <2>2. \A i \in Slots : i > 1 => new.slots[i].key # j
    <3> SUFFICES ASSUME NEW i \in Slots, i > 1 PROVE new.slots[i].key # j
      OBVIOUS
    <3>1. i \in Slots \ {1}
      BY SlotsAre
    <3> QED BY <1>3, <3>1, SlotsAre DEF Progress, CopiesOnly
  <2>3. Latest(new, j) = new.slots[1].value
    BY <2>1, <2>2, SlotsAre, LatestAt
  <2> QED BY <1>3, <2>3 DEF InTransfer
<1> QED BY <1>2, <1>3

-----------------------------------------------------------------------------
(* Plans *)

IsValue(plan) == plan # <<>> /\ Head(plan).do = "value"

LEMMA KindsOfPlanned ==
  /\ \A k, v : AppendPair(k, v).do = "append" /\ AppendPair(k, v).key = k /\ AppendPair(k, v).value = v
  /\ \A k, skip : Copy(k, skip).do = "copy" /\ Copy(k, skip).key = k /\ Copy(k, skip).skip = skip
  /\ \A p : Erase(p).do = "erase" /\ Erase(p).page = p
  /\ \A p, status : /\ Mark(p, status).do = "mark" /\ Mark(p, status).page = p
                    /\ Mark(p, status).status = status
  /\ \A p, s, v : /\ Value(p, s, v).do = "value" /\ Value(p, s, v).page = p
                  /\ Value(p, s, v).slot = s /\ Value(p, s, v).value = v
<1>1. \A k, v : AppendPair(k, v).do = "append" /\ AppendPair(k, v).key = k /\ AppendPair(k, v).value = v
  BY DEF AppendPair
<1>2. \A k, skip : Copy(k, skip).do = "copy" /\ Copy(k, skip).key = k /\ Copy(k, skip).skip = skip
  BY DEF Copy
<1>3. \A p : Erase(p).do = "erase" /\ Erase(p).page = p
  BY DEF Erase
<1>4. \A p, status : /\ Mark(p, status).do = "mark" /\ Mark(p, status).page = p
                     /\ Mark(p, status).status = status
  BY DEF Mark
<1>5. \A p, s, v : /\ Value(p, s, v).do = "value" /\ Value(p, s, v).page = p
                   /\ Value(p, s, v).slot = s /\ Value(p, s, v).value = v
  BY DEF Value
<1> QED BY <1>1, <1>2, <1>3, <1>4, <1>5

(* The first step of each plan, and what is left after it *)
LEMMA ShapesOfPlans ==
  /\ Format # <<>> /\ Head(Format) = Erase(0) /\ Tail(Format) = <<Mark(0, "valid"), Erase(1)>>
  /\ <<Mark(0, "valid"), Erase(1)>> # <<>> /\ Head(<<Mark(0, "valid"), Erase(1)>>) = Mark(0, "valid")
  /\ Tail(<<Mark(0, "valid"), Erase(1)>>) = <<Erase(1)>>
  /\ \A x : <<x>> # <<>> /\ Head(<<x>>) = x /\ Tail(<<x>>) = <<>>
  /\ \A p : /\ FinishTransfer(p) # <<>> /\ Head(FinishTransfer(p)) = Erase(p)
            /\ Tail(FinishTransfer(p)) = <<Mark(1 - p, "valid")>>
  /\ \A p, x : /\ <<x>> \o FinishTransfer(p) # <<>> /\ Head(<<x>> \o FinishTransfer(p)) = x
               /\ Tail(<<x>> \o FinishTransfer(p)) = FinishTransfer(p)
  /\ \A p, x, y : /\ <<x, y>> \o FinishTransfer(p) # <<>> /\ Head(<<x, y>> \o FinishTransfer(p)) = x
                  /\ Tail(<<x, y>> \o FinishTransfer(p)) = <<y>> \o FinishTransfer(p)
  /\ \A p, x, y, z : /\ <<x, y, z>> \o FinishTransfer(p) # <<>>
                     /\ Head(<<x, y, z>> \o FinishTransfer(p)) = x
                     /\ Tail(<<x, y, z>> \o FinishTransfer(p)) = <<y, z>> \o FinishTransfer(p)
<1>1. Format # <<>> /\ Head(Format) = Erase(0) /\ Tail(Format) = <<Mark(0, "valid"), Erase(1)>>
  BY ThreeSteps DEF Format
<1>2. /\ <<Mark(0, "valid"), Erase(1)>> # <<>> /\ Head(<<Mark(0, "valid"), Erase(1)>>) = Mark(0, "valid")
      /\ Tail(<<Mark(0, "valid"), Erase(1)>>) = <<Erase(1)>>
  BY TwoSteps
<1>3. \A x : <<x>> # <<>> /\ Head(<<x>>) = x /\ Tail(<<x>>) = <<>>
  BY OneStep
<1>4. ASSUME NEW p
      PROVE  /\ FinishTransfer(p) # <<>> /\ Head(FinishTransfer(p)) = Erase(p)
             /\ Tail(FinishTransfer(p)) = <<Mark(1 - p, "valid")>>
  BY TwoSteps DEF FinishTransfer
<1>5. ASSUME NEW p, NEW x
      PROVE  /\ <<x>> \o FinishTransfer(p) # <<>> /\ Head(<<x>> \o FinishTransfer(p)) = x
             /\ Tail(<<x>> \o FinishTransfer(p)) = FinishTransfer(p)
  BY OneThenTransfer
<1>6. ASSUME NEW p, NEW x, NEW y
      PROVE  /\ <<x, y>> \o FinishTransfer(p) # <<>> /\ Head(<<x, y>> \o FinishTransfer(p)) = x
             /\ Tail(<<x, y>> \o FinishTransfer(p)) = <<y>> \o FinishTransfer(p)
  BY TwoThenTransfer
<1>7. ASSUME NEW p, NEW x, NEW y, NEW z
      PROVE  /\ <<x, y, z>> \o FinishTransfer(p) # <<>>
             /\ Head(<<x, y, z>> \o FinishTransfer(p)) = x
             /\ Tail(<<x, y, z>> \o FinishTransfer(p)) = <<y, z>> \o FinishTransfer(p)
  BY ThreeThenTransfer
<1> QED BY <1>1, <1>2, <1>3, <1>4, <1>5, <1>6, <1>7, Zenon

LEMMA PlansStartAfresh ==
  ASSUME NEW pages, NEW plan, NEW write, NEW n, PlanFits(pages, plan, write, n)
  PROVE  ~IsValue(plan)
<1> SUFFICES ASSUME plan # <<>> PROVE Head(plan).do # "value"
  BY DEF IsValue
<1>1. ASSUME FormatPlan(plan, write) PROVE Head(plan).do # "value"
  <2>1. plan = Format \/ plan = <<Mark(0, "valid"), Erase(1)>>
    BY <1>1 DEF FormatPlan
  <2> QED BY <2>1, ShapesOfPlans, KindsOfPlanned
<1>2. ASSUME NEW p \in Pages, SettledPlan(pages, p, plan, write) PROVE Head(plan).do # "value"
  <2>1. CASE plan = <<Erase(1)>>
    BY <2>1, OneStep, KindsOfPlanned
  <2>2. CASE plan = <<AppendPair(write.key, write.value)>>
    BY <2>2, OneStep, KindsOfPlanned
  <2>3. CASE plan = <<Mark(1 - p, "in_transfer"), AppendPair(write.key, write.value), Copy(0, write.key)>>
                    \o FinishTransfer(p)
    BY <2>3, ThreeThenTransfer, KindsOfPlanned
  <2> QED BY <1>2, <2>1, <2>2, <2>3, Zenon DEF SettledPlan
<1>3. ASSUME NEW p \in Pages, MovingPlan(pages, p, plan, write, n) PROVE Head(plan).do # "value"
  <2>1. ASSUME NEW k, NEW v, NEW j, NEW skip,
               plan = <<AppendPair(k, v), Copy(j, skip)>> \o FinishTransfer(p)
        PROVE  Head(plan).do # "value"
    BY <2>1, TwoThenTransfer, KindsOfPlanned
  <2>2. ASSUME NEW j, NEW skip, plan = <<Copy(j, skip)>> \o FinishTransfer(p)
        PROVE  Head(plan).do # "value"
    BY <2>2, OneThenTransfer, KindsOfPlanned
  <2>3. CASE plan = FinishTransfer(p)
    BY <2>3, ShapesOfPlans, KindsOfPlanned
  <2> QED BY <1>3, <2>1, <2>2, <2>3, Zenon DEF MovingPlan
<1>4. ASSUME NEW p \in Pages, MovedPlan(pages, p, plan, write) PROVE Head(plan).do # "value"
  <2>1. plan = FinishTransfer(p) \/ plan = <<Mark(1 - p, "valid")>>
    BY <1>4 DEF MovedPlan
  <2>2. Head(plan) = Erase(p) \/ Head(plan) = Mark(1 - p, "valid")
    BY <2>1, ShapesOfPlans
  <2> QED BY <2>2, KindsOfPlanned
<1> QED BY <1>1, <1>2, <1>3, <1>4, Zenon DEF PlanFits

LEMMA NextOf ==
  ASSUME PlanFits(page, todo, job, crashes), todo # <<>>
  PROVE
    \/ /\ Statuses(page, 0, "erased", "erased") /\ job = NoJob
       /\ \/ Head(todo) = Erase(0) /\ Tail(todo) = <<Mark(0, "valid"), Erase(1)>>
          \/ Head(todo) = Mark(0, "valid") /\ Tail(todo) = <<Erase(1)>>
    \/ \E p \in Pages :
         \/ /\ Statuses(page, p, "valid", "erased")
            /\ \/ p = 0 /\ job = NoJob /\ Head(todo) = Erase(1) /\ Tail(todo) = <<>>
               \/ /\ Head(todo) = AppendPair(job.key, job.value) /\ Tail(todo) = <<>>
                  /\ job # NoJob /\ ~Filled(page[p], NumSlots)
               \/ /\ Head(todo) = Mark(1 - p, "in_transfer") /\ job # NoJob
                  /\ Tail(todo) = <<AppendPair(job.key, job.value), Copy(0, job.key)>> \o FinishTransfer(p)
         \/ /\ Statuses(page, p, "valid", "in_transfer")
            /\ \/ /\ Head(todo) = AppendPair(job.key, job.value)
                  /\ Tail(todo) = <<Copy(0, job.key)>> \o FinishTransfer(p)
                  /\ job # NoJob /\ Filled(page[1 - p], 0)
               \/ /\ Committed(page, job)
                  /\ \/ /\ Head(todo) = Erase(p) /\ Tail(todo) = <<Mark(1 - p, "valid")>>
                        /\ Progress(page[p], page[1 - p], NumKeys, FirstKey(page[1 - p]), crashes)
                     \/ \E k \in 0 .. NumKeys, skip \in Keys \cup {Blank} :
                          /\ Head(todo) = Copy(k, skip) /\ Tail(todo) = FinishTransfer(p)
                          /\ Progress(page[p], page[1 - p], k, skip, crashes)
                     \/ \E k \in Keys, skip \in Keys \cup {Blank} :
                          /\ Head(todo) = AppendPair(k, Latest(page[p], k))
                          /\ Tail(todo) = <<Copy(k + 1, skip)>> \o FinishTransfer(p)
                          /\ Progress(page[p], page[1 - p], k, skip, crashes)
                          /\ k # skip /\ Latest(page[p], k) # NotFound
         \/ /\ Statuses(page, p, "erased", "in_transfer") /\ Committed(page, job)
            /\ \/ Head(todo) = Erase(p) /\ Tail(todo) = <<Mark(1 - p, "valid")>>
               \/ Head(todo) = Mark(1 - p, "valid") /\ Tail(todo) = <<>>
<1>1. ASSUME FormatPlan(todo, job)
      PROVE  /\ job = NoJob
             /\ \/ Head(todo) = Erase(0) /\ Tail(todo) = <<Mark(0, "valid"), Erase(1)>>
                \/ Head(todo) = Mark(0, "valid") /\ Tail(todo) = <<Erase(1)>>
  <2>1. job = NoJob /\ (todo = Format \/ todo = <<Mark(0, "valid"), Erase(1)>>)
    BY <1>1 DEF FormatPlan
  <2> QED BY <2>1, ShapesOfPlans
<1>2. ASSUME NEW p \in Pages, SettledPlan(page, p, todo, job)
      PROVE  \/ p = 0 /\ job = NoJob /\ Head(todo) = Erase(1) /\ Tail(todo) = <<>>
             \/ /\ Head(todo) = AppendPair(job.key, job.value) /\ Tail(todo) = <<>>
                /\ job # NoJob /\ ~Filled(page[p], NumSlots)
             \/ /\ Head(todo) = Mark(1 - p, "in_transfer") /\ job # NoJob
                /\ Tail(todo) = <<AppendPair(job.key, job.value), Copy(0, job.key)>> \o FinishTransfer(p)
  <2>1. todo = <<Erase(1)>> => Head(todo) = Erase(1) /\ Tail(todo) = <<>>
    BY OneStep
  <2>2. todo = <<AppendPair(job.key, job.value)>> =>
          Head(todo) = AppendPair(job.key, job.value) /\ Tail(todo) = <<>>
    BY OneStep
  <2>3. ASSUME todo = <<Mark(1 - p, "in_transfer"), AppendPair(job.key, job.value), Copy(0, job.key)>>
                      \o FinishTransfer(p)
        PROVE  /\ Head(todo) = Mark(1 - p, "in_transfer")
               /\ Tail(todo) = <<AppendPair(job.key, job.value), Copy(0, job.key)>> \o FinishTransfer(p)
    BY <2>3, ThreeThenTransfer
  <2> QED BY <1>2, <2>1, <2>2, <2>3, Zenon DEF SettledPlan
<1>3. ASSUME NEW p \in Pages, MovingPlan(page, p, todo, job, crashes)
      PROVE  \/ /\ Head(todo) = AppendPair(job.key, job.value)
                /\ Tail(todo) = <<Copy(0, job.key)>> \o FinishTransfer(p)
                /\ job # NoJob /\ Filled(page[1 - p], 0)
             \/ /\ Committed(page, job)
                /\ \/ /\ Head(todo) = Erase(p) /\ Tail(todo) = <<Mark(1 - p, "valid")>>
                      /\ Progress(page[p], page[1 - p], NumKeys, FirstKey(page[1 - p]), crashes)
                   \/ \E k \in 0 .. NumKeys, skip \in Keys \cup {Blank} :
                        /\ Head(todo) = Copy(k, skip) /\ Tail(todo) = FinishTransfer(p)
                        /\ Progress(page[p], page[1 - p], k, skip, crashes)
                   \/ \E k \in Keys, skip \in Keys \cup {Blank} :
                        /\ Head(todo) = AppendPair(k, Latest(page[p], k))
                        /\ Tail(todo) = <<Copy(k + 1, skip)>> \o FinishTransfer(p)
                        /\ Progress(page[p], page[1 - p], k, skip, crashes)
                        /\ k # skip /\ Latest(page[p], k) # NotFound
  <2>1. ASSUME NEW k, NEW v, NEW j, NEW skip,
               todo = <<AppendPair(k, v), Copy(j, skip)>> \o FinishTransfer(p)
        PROVE  Head(todo) = AppendPair(k, v) /\ Tail(todo) = <<Copy(j, skip)>> \o FinishTransfer(p)
    BY <2>1, TwoThenTransfer
  <2>2. ASSUME NEW j, NEW skip, todo = <<Copy(j, skip)>> \o FinishTransfer(p)
        PROVE  Head(todo) = Copy(j, skip) /\ Tail(todo) = FinishTransfer(p)
    BY <2>2, OneThenTransfer
  <2>3. todo = FinishTransfer(p) => Head(todo) = Erase(p) /\ Tail(todo) = <<Mark(1 - p, "valid")>>
    BY ShapesOfPlans
  <2>4. ASSUME NEW k \in 0 .. NumKeys, NEW skip \in Keys \cup {Blank},
               todo = <<Copy(k, skip)>> \o FinishTransfer(p),
               Progress(page[p], page[1 - p], k, skip, crashes)
        PROVE  \E j \in 0 .. NumKeys, other \in Keys \cup {Blank} :
                 /\ Head(todo) = Copy(j, other) /\ Tail(todo) = FinishTransfer(p)
                 /\ Progress(page[p], page[1 - p], j, other, crashes)
    BY <2>2, <2>4, Zenon
  <2>5. ASSUME NEW k \in Keys, NEW skip \in Keys \cup {Blank},
               todo = <<AppendPair(k, Latest(page[p], k)), Copy(k + 1, skip)>> \o FinishTransfer(p),
               Progress(page[p], page[1 - p], k, skip, crashes),
               k # skip, Latest(page[p], k) # NotFound
        PROVE  \E j \in Keys, other \in Keys \cup {Blank} :
                 /\ Head(todo) = AppendPair(j, Latest(page[p], j))
                 /\ Tail(todo) = <<Copy(j + 1, other)>> \o FinishTransfer(p)
                 /\ Progress(page[p], page[1 - p], j, other, crashes)
                 /\ j # other /\ Latest(page[p], j) # NotFound
    <3>1. /\ Head(todo) = AppendPair(k, Latest(page[p], k))
          /\ Tail(todo) = <<Copy(k + 1, skip)>> \o FinishTransfer(p)
      BY <2>1, <2>5
    <3> QED BY <2>5, <3>1
  <2>6. todo = <<AppendPair(job.key, job.value), Copy(0, job.key)>> \o FinishTransfer(p) =>
          /\ Head(todo) = AppendPair(job.key, job.value)
          /\ Tail(todo) = <<Copy(0, job.key)>> \o FinishTransfer(p)
    BY <2>1
  <2> QED BY <1>3, <2>3, <2>4, <2>5, <2>6, Zenon DEF MovingPlan
<1>4. ASSUME NEW p \in Pages, MovedPlan(page, p, todo, job)
      PROVE  /\ Committed(page, job)
             /\ \/ Head(todo) = Erase(p) /\ Tail(todo) = <<Mark(1 - p, "valid")>>
                \/ Head(todo) = Mark(1 - p, "valid") /\ Tail(todo) = <<>>
  <2>1. Committed(page, job) /\ (todo = FinishTransfer(p) \/ todo = <<Mark(1 - p, "valid")>>)
    BY <1>4 DEF MovedPlan
  <2> QED BY <2>1, ShapesOfPlans, ZenonT(20)
<1> QED BY <1>1, <1>2, <1>3, <1>4, Zenon DEF PlanFits

-----------------------------------------------------------------------------
(* The steps again: what is in force, and what is left to do *)

LEMMA StatusesAre ==
  /\ Statuses(page, 0, "erased", "erased") <=> \A p \in Pages : Has(p, "erased")
  /\ \A p \in Pages : /\ Statuses(page, p, "valid", "erased") <=> Settled(p)
                      /\ Statuses(page, p, "valid", "in_transfer") <=> Moving(p)
                      /\ Statuses(page, p, "erased", "in_transfer") <=> Moved(p)
<1>1. Statuses(page, 0, "erased", "erased") <=> \A p \in Pages : Has(p, "erased")
  BY DEF Statuses, Has, Pages
<1> QED BY <1>1 DEF Statuses, Has, Settled, Moving, Moved

LEMMA NoValueYet ==
  ASSUME StoreInv, ~ValueNext
  PROVE  PlanFits(page, todo, job, crashes) /\ Flash = page
<1>1. Flash = page /\ Plan = todo
  BY DEF ValueNext, Plan, Flash
<1>2. PlanFits(Flash, Plan, job, crashes)
  BY DEF StoreInv
<1> QED BY <1>1, <1>2

LEMMA Onward ==
  ASSUME EepromInv', PlanFits(page', todo', job', crashes')
  PROVE  StoreInv' /\ Flash' = page'
<1>1. ~IsValue(todo')
  BY PlansStartAfresh, Zenon
<1>2. ~ValueNext' /\ Flash' = page' /\ Plan' = todo'
  BY <1>1 DEF IsValue, ValueNext, Flash, Plan
<1>3. PlanFits(Flash', Plan', job', crashes') /\ ValueFits'
  BY <1>2 DEF ValueFits
<1> QED BY <1>2, <1>3 DEF StoreInv

LEMMA JobIs ==
  ASSUME EepromTypeOK
  PROVE  job # NoJob => job.key \in Keys /\ job.value \in Values
BY DEF EepromTypeOK

LEMMA StillCommitted ==
  ASSUME EepromTypeOK, NEW old, NEW new, Committed(old, job),
         \A j \in Keys : InForce(new, j) = InForce(old, j)
  PROVE  Committed(new, job)
BY JobIs DEF Committed

LEMMA BootKeeps ==
  ASSUME StoreInv, EepromInv', Boot
  PROVE  StoreInv' /\ Flash' = Flash
<1>1. EepromTypeOK /\ page \in [Pages -> PageForm]
  BY FormOfPages DEF StoreInv, EepromInv
<1>2. /\ page' = page /\ todo' = Repair /\ job' = job /\ crashes' = crashes
      /\ todo = <<>> /\ job = NoJob
  BY <1>1 DEF Boot, EepromTypeOK
<1>3. PlanFits(page, todo, job, crashes) /\ Flash = page
  BY <1>2, NoValueYet DEF ValueNext
<1>4. /\ \A p, x : <<x>> \o FinishTransfer(p) # <<>>
      /\ \A p, x, y : <<x, y>> \o FinishTransfer(p) # <<>>
      /\ \A p : FinishTransfer(p) # <<>>
  BY ShapesOfPlans, Zenon
<1>5. Committed(page, NoJob)
  BY DEF Committed
<1>6. CASE Statuses(page, 0, "erased", "erased")
  <2>1. Repair = Format
    BY <1>6, StatusesAre, Repairs
  <2>2. FormatPlan(todo', job')
    BY <1>2, <2>1 DEF FormatPlan
  <2> QED BY <1>2, <1>3, <1>6, <2>2, Onward DEF PlanFits
<1>7. ASSUME NEW p \in Pages, Statuses(page, p, "valid", "erased")
      PROVE  SettledPlan(page, p, todo', job')
  <2>1. Repair = <<>>
    BY <1>7, StatusesAre, Repairs
  <2> QED BY <1>2, <1>5, <2>1 DEF SettledPlan
<1>8. ASSUME NEW p \in Pages, Statuses(page, p, "valid", "in_transfer"), MovingPlan(page, p, todo, job, crashes)
      PROVE  MovingPlan(page, p, todo', job', crashes')
  <2> DEFINE first == FirstKey(page[1 - p])
  <2>1. Repair = <<Copy(0, first)>> \o FinishTransfer(p)
    BY <1>8, StatusesAre, Repairs DEF FirstKey
  <2>2. Progress(page[p], page[1 - p], 0, first, crashes)
    BY <1>2, <1>4, <1>8, Zenon DEF MovingPlan
  <2>3. 0 \in 0 .. NumKeys /\ first \in Keys \cup {Blank}
    BY <1>1, OtherPage, FirstKeys, Sizes
  <2> HIDE DEF first
  <2> QED BY <1>2, <1>5, <2>1, <2>2, <2>3 DEF MovingPlan
<1>9. ASSUME NEW p \in Pages, Statuses(page, p, "erased", "in_transfer")
      PROVE  MovedPlan(page, p, todo', job')
  <2>1. Repair = FinishTransfer(p)
    BY <1>9, StatusesAre, Repairs
  <2> QED BY <1>2, <1>5, <2>1 DEF MovedPlan
<1>10. CASE ~Statuses(page, 0, "erased", "erased")
  <2>1. PlanFits(page', todo', job', crashes')
    <3>1. PlanFits(page, todo', job', crashes')
      BY <1>3, <1>7, <1>8, <1>9, <1>10, Zenon DEF PlanFits
    <3> QED BY <1>2, <3>1
  <2> QED BY <1>2, <1>3, <2>1, Onward
<1> QED BY <1>6, <1>10

LEMMA WriteKeeps ==
  ASSUME StoreInv, EepromInv', NEW k \in Keys, NEW v \in Values, Write(k, v)
  PROVE  StoreInv' /\ Flash' = Flash
<1>1. EepromTypeOK /\ TodoFits /\ page \in [Pages -> PageForm]
  BY FormOfPages DEF StoreInv, EepromInv
<1>2. /\ page' = page /\ crashes' = 0 /\ job' = [key |-> k, value |-> v]
      /\ todo = <<>> /\ running
  BY DEF Write
<1>3. PlanFits(page, todo, job, crashes) /\ Flash = page
  BY <1>2, NoValueYet DEF ValueNext
<1>4. job' # NoJob /\ job'.key = k /\ job'.value = v
  BY <1>2 DEF NoJob, NotFound, Keys
<1>5. PICK p \in Pages : Settled(p)
  BY <1>1, <1>2, NothingLeft
<1>6. WritePage = p /\ ReadPage = p /\ p # NoPage
  BY <1>5, WhereToWrite DEF Pages, NoPage
<1>7. SettledPlan(page, p, todo', job')
  <2>1. CASE FreeSlots(p) # {}
    <3>1. todo' = <<AppendPair(k, v)>>
      BY <1>6, <2>1 DEF Write
    <3>2. ~Filled(page[p], NumSlots)
      <4>1. NumSlots \in 0 .. NumSlots
        BY Sizes
      <4> QED BY <2>1, <4>1, FirstFree
    <3> QED BY <1>4, <3>1, <3>2 DEF SettledPlan
  <2>2. CASE FreeSlots(p) = {}
    <3>1. todo' = <<Mark(1 - p, "in_transfer"), AppendPair(k, v), Copy(0, k)>> \o FinishTransfer(p)
      BY <1>6, <2>2 DEF Write
    <3> QED BY <1>4, <3>1 DEF SettledPlan
  <2> QED BY <2>1, <2>2
<1>8. Statuses(page, p, "valid", "erased")
  BY <1>5, StatusesAre
<1>9. PlanFits(page, todo', job', crashes')
  BY <1>3, <1>7, <1>8 DEF PlanFits
<1> QED BY <1>2, <1>3, <1>9, Onward

LEMMA WriteEndsKeeps ==
  ASSUME StoreInv, EepromInv', WriteEnds
  PROVE  StoreInv' /\ Flash' = Flash /\ InForce(Flash, job.key) = job.value
<1>1. EepromTypeOK /\ TodoFits
  BY DEF StoreInv, EepromInv
<1>2. /\ page' = page /\ crashes' = crashes /\ job' = NoJob /\ todo' = todo
      /\ todo = <<>> /\ job # NoJob
  BY DEF WriteEnds
<1>3. PlanFits(page, todo, job, crashes) /\ Flash = page
  BY <1>2, NoValueYet DEF ValueNext
<1>4. running
  BY <1>1, <1>2 DEF EepromTypeOK
<1>5. PICK p \in Pages : Settled(p)
  BY <1>1, <1>2, <1>4, NothingLeft
<1>6. Statuses(page, p, "valid", "erased")
  BY <1>5, StatusesAre
<1>7. \A q \in Pages : /\ Statuses(page, q, "valid", "erased") => q = p
                       /\ ~Statuses(page, q, "valid", "in_transfer")
                       /\ ~Statuses(page, q, "erased", "in_transfer")
                       /\ ~Statuses(page, 0, "erased", "erased")
  BY <1>6 DEF Statuses, Pages
<1>8. SettledPlan(page, p, todo, job)
  BY <1>3, <1>7, Zenon DEF PlanFits
<1>9. Committed(page, job)
  <2>1. /\ \A x : <<x>> # <<>>
        /\ <<Mark(1 - p, "in_transfer"), AppendPair(job.key, job.value), Copy(0, job.key)>>
             \o FinishTransfer(p) # <<>>
    BY ThreeThenTransfer
  <2> QED BY <1>2, <1>8, <2>1 DEF SettledPlan
<1>10. SettledPlan(page, p, todo', job')
  BY <1>2 DEF SettledPlan, Committed
<1>11. PlanFits(page, todo', job', crashes')
  BY <1>3, <1>6, <1>10 DEF PlanFits
<1> QED BY <1>2, <1>3, <1>9, <1>11, Onward DEF Committed

LEMMA ProgramValueKeeps ==
  ASSUME StoreInv, EepromInv', ProgramValue
  PROVE  StoreInv' /\ Flash' = Flash
<1>1. /\ ValueNext /\ todo' = Tail(todo) /\ UNCHANGED <<job, crashes>>
      /\ page' = [page EXCEPT ![Head(todo).page].slots[Head(todo).slot].value = Head(todo).value]
  BY DEF ProgramValue, Step, ValueNext
<1>2. Flash = page' /\ Plan = todo'
  <2>1. Plan = todo'
    BY <1>1, Zenon DEF Plan
  <2>2. Flash = [page EXCEPT ![Head(todo).page].slots[Head(todo).slot].value = Head(todo).value]
    BY <1>1, Zenon DEF Flash, ValueNext
  <2> QED BY <1>1, <2>1, <2>2, Zenon
<1>3. PlanFits(page', todo', job', crashes')
  <2>1. PlanFits(Flash, Plan, job, crashes)
    BY DEF StoreInv
  <2> QED BY <1>1, <1>2, <2>1, Zenon
<1>4. StoreInv' /\ Flash' = page'
  BY <1>3, Onward
<1> QED BY <1>2, <1>4

LEMMA CopySlotKeeps ==
  ASSUME StoreInv, EepromInv', CopySlot
  PROVE  StoreInv' /\ Flash' = Flash
<1>1. EepromTypeOK /\ page \in [Pages -> PageForm] /\ crashes \in 0 .. MaxCrashes
  BY FormOfPages DEF StoreInv, EepromInv, EepromTypeOK
<1>2. /\ todo # <<>> /\ Head(todo).do = "copy" /\ page' = page /\ UNCHANGED <<job, crashes>>
  BY DEF CopySlot, Step
<1>3. PlanFits(page, todo, job, crashes) /\ Flash = page
  BY <1>2, NoValueYet DEF ValueNext
<1>4. PICK p \in Pages, k \in 0 .. NumKeys, skip \in Keys \cup {Blank} :
        /\ Statuses(page, p, "valid", "in_transfer") /\ Committed(page, job)
        /\ Head(todo) = Copy(k, skip) /\ Tail(todo) = FinishTransfer(p)
        /\ Progress(page[p], page[1 - p], k, skip, crashes)
  <2>1. \A x : (\E j, v : x = AppendPair(j, v)) \/ (\E q : x = Erase(q)) \/ (\E q, st : x = Mark(q, st))
               => x.do # "copy"
    BY KindsOfPlanned
  <2>2. /\ \A j, v : Head(todo) # AppendPair(j, v)
        /\ \A q : Head(todo) # Erase(q) /\ \A st : Head(todo) # Mark(q, st)
    BY <1>2, <2>1
  <2> QED BY <1>2, <1>3, <2>2, NextOf, Zenon
<1> DEFINE old == page[p]
           new == page[1 - p]
<1>5. new \in PageForm
  BY <1>1, OtherPage
<1>6. Head(todo).key = k /\ Head(todo).skip = skip
  BY <1>4, KindsOfPlanned
<1>7. ReadPage = p /\ Read(k) = Latest(old, k)
  <2>1. ReadPage = p
    BY <1>4, StatusesAre, WhereToWrite
  <2> QED BY <2>1 DEF Read, NoPage, Pages
<1>8. Committed(page, job')
  BY <1>2, <1>4
<1> HIDE DEF old, new
<1>9. MovingPlan(page, p, todo', job', crashes')
  <2>1. CASE k = NumKeys
    <3>1. todo' = FinishTransfer(p)
      BY <1>4, <1>6, <2>1 DEF CopySlot
    <3>2. Progress(old, new, NumKeys, FirstKey(new), crashes)
      BY <1>4, <1>5, <2>1, CopyEnds DEF old, new
    <3> QED BY <1>2, <1>8, <3>1, <3>2 DEF MovingPlan, old, new
  <2>2. CASE k # NumKeys
    <3>1. k \in Keys /\ k + 1 \in 0 .. NumKeys
      BY <2>2, Sizes DEF Keys
    <3>2. CASE ~Copied(k, skip)
      <4>1. todo' = <<Copy(k + 1, skip)>> \o FinishTransfer(p)
        BY <1>4, <1>6, <2>2, <3>2 DEF CopySlot, NextKey
      <4>2. k = skip \/ Latest(old, k) = NotFound
        BY <1>7, <3>2 DEF Copied
      <4>3. Progress(old, new, k + 1, skip, crashes)
        BY <1>1, <1>4, <1>5, <3>1, <4>2, CopySkips DEF old, new
      <4> QED BY <1>2, <1>8, <3>1, <4>1, <4>3 DEF MovingPlan, old, new
    <3>3. CASE Copied(k, skip)
      <4>1. todo' = <<AppendPair(k, Read(k))>> \o (<<Copy(k + 1, skip)>> \o FinishTransfer(p))
        BY <1>4, <1>6, <2>2, <3>3 DEF CopySlot, NextKey
      <4>2. todo' = <<AppendPair(k, Latest(old, k)), Copy(k + 1, skip)>> \o FinishTransfer(p)
        BY <1>7, <4>1, TwoThenTransfer
      <4>3. k # skip /\ Latest(old, k) # NotFound
        BY <1>7, <3>3 DEF Copied
      <4> QED BY <1>2, <1>4, <1>8, <3>1, <4>2, <4>3 DEF MovingPlan, old, new
    <3> QED BY <3>2, <3>3
  <2> QED BY <2>1, <2>2
<1>10. PlanFits(page', todo', job', crashes')
  <2>1. PlanFits(page, todo', job', crashes')
    BY <1>3, <1>4, <1>9 DEF PlanFits
  <2> QED BY <1>2, <2>1
<1> QED BY <1>2, <1>3, <1>10, Onward

(* The pages after a page is erased or its status changes *)
LEMMA StillFilled ==
  ASSUME NEW old, NEW new, \A p \in Pages : new[p].slots = old[p].slots \/ new[p] = ErasedPage,
         \A p \in Pages : \E u \in 0 .. NumSlots : Filled(old[p], u)
  PROVE  \A p \in Pages : \E u \in 0 .. NumSlots : Filled(new[p], u)
<1> SUFFICES ASSUME NEW p \in Pages PROVE \E u \in 0 .. NumSlots : Filled(new[p], u)
  OBVIOUS
<1>1. CASE new[p].slots = old[p].slots
  BY <1>1 DEF Filled
<1>2. CASE new[p] = ErasedPage
  <2>1. 0 \in 0 .. NumSlots
    BY Sizes
  <2> QED BY <1>2, <2>1, ErasedIsEmpty
<1> QED BY <1>1, <1>2

LEMMA ErasePageKeeps ==
  ASSUME StoreInv, EepromInv', ErasePage
  PROVE  StoreInv' /\ \A j \in Keys : InForce(Flash', j) = InForce(Flash, j)
<1>1. EepromTypeOK /\ PagesFit /\ page \in [Pages -> PageForm] /\ page' \in [Pages -> PageForm]
  <2>1. EepromTypeOK /\ PagesFit /\ EepromTypeOK'
    BY DEF StoreInv, EepromInv
  <2>2. page' \in [Pages -> PageForm]
    BY <2>1 DEF EepromTypeOK, PageForm, PageStates, SlotStates
  <2> QED BY <2>1, <2>2, FormOfPages
<1>2. /\ todo # <<>> /\ Head(todo).do = "erase" /\ UNCHANGED <<job, crashes>> /\ todo' = Tail(todo)
      /\ page' = [page EXCEPT ![Head(todo).page] = ErasedPage]
  BY DEF ErasePage, Step
<1>3. PlanFits(page, todo, job, crashes) /\ Flash = page
  BY <1>2, NoValueYet DEF ValueNext
<1>4. ASSUME NEW p \in Pages, Head(todo) = Erase(p)
      PROVE  page'[p] = ErasedPage /\ page'[1 - p] = page[1 - p]
  BY <1>1, <1>2, <1>4, KindsOfPlanned, OtherPage
<1>5. \A p \in Pages : page[p].status = "erased" => page[p] = ErasedPage
  BY <1>1 DEF PagesFit, Has
<1>6. ErasedPage.status = "erased" /\ 0 \in Pages /\ 1 \in Pages /\ 1 - 0 = 1 /\ 1 - 1 = 0
  BY DEF ErasedPage, Pages
<1>7. \A p \in Pages : Head(todo) = Erase(p) =>
        \A q \in Pages : \E u \in 0 .. NumSlots : Filled(page'[q], u)
  <2> SUFFICES ASSUME NEW p \in Pages, Head(todo) = Erase(p)
               PROVE  \A q \in Pages : \E u \in 0 .. NumSlots : Filled(page'[q], u)
    OBVIOUS
  <2>1. \A q \in Pages : page'[q].slots = page[q].slots \/ page'[q] = ErasedPage
    BY <1>4, OtherPage
  <2>2. \A q \in Pages : \E u \in 0 .. NumSlots : Filled(page[q], u)
    BY <1>3 DEF PlanFits
  <2> QED BY <2>1, <2>2, StillFilled
<1> DEFINE Goal == /\ PlanFits(page', todo', job', crashes')
                   /\ \A j \in Keys : InForce(page', j) = InForce(page, j)
(* A page that is erased already *)
<1>8. ASSUME NEW p \in Pages, Head(todo) = Erase(p), page[p].status = "erased"
      PROVE  page' = page
  BY <1>1, <1>2, <1>5, <1>8, KindsOfPlanned
<1>9. ASSUME Statuses(page, 0, "erased", "erased"), job = NoJob,
             Head(todo) = Erase(0), Tail(todo) = <<Mark(0, "valid"), Erase(1)>>
      PROVE  Goal
  <2>1. page' = page
    BY <1>6, <1>8, <1>9 DEF Statuses
  <2>2. FormatPlan(todo', job')
    BY <1>2, <1>9 DEF FormatPlan
  <2>3. PlanFits(page, todo', job', crashes')
    BY <1>3, <1>9, <2>2 DEF PlanFits
  <2> QED BY <2>1, <2>3
<1>10. ASSUME NEW p \in Pages, Statuses(page, p, "valid", "erased"),
              p = 0, job = NoJob, Head(todo) = Erase(1), Tail(todo) = <<>>
       PROVE  Goal
  <2>1. page' = page
    BY <1>6, <1>8, <1>10 DEF Statuses
  <2>2. SettledPlan(page, p, todo', job')
    BY <1>2, <1>10 DEF SettledPlan, Committed
  <2>3. PlanFits(page, todo', job', crashes')
    BY <1>3, <1>10, <2>2 DEF PlanFits
  <2> QED BY <2>1, <2>3
<1>11. ASSUME NEW p \in Pages, Statuses(page, p, "valid", "in_transfer"), Committed(page, job),
              Head(todo) = Erase(p), Tail(todo) = <<Mark(1 - p, "valid")>>,
              Progress(page[p], page[1 - p], NumKeys, FirstKey(page[1 - p]), crashes)
       PROVE  Goal
  <2>1. Statuses(page', p, "erased", "in_transfer")
    BY <1>4, <1>6, <1>11 DEF Statuses
  <2>2. ASSUME NEW j \in Keys PROVE InForce(page', j) = InForce(page, j)
    <3>1. InForce(page', j) = Latest(page'[1 - p], j)
      BY <2>1, InForceIs
    <3>2. InForce(page, j) = InTransfer(page[p], page[1 - p], j)
      BY <1>11, InForceIs DEF InTransfer
    <3>3. Latest(page[1 - p], j) = InTransfer(page[p], page[1 - p], j)
      <4>1. /\ page[1 - p] \in PageForm
            /\ Progress(page[p], page[1 - p], NumKeys, FirstKey(page[1 - p]), crashes)
        BY <1>1, <1>11, OtherPage
      <4> QED BY <4>1, OldNotNeeded, Zenon
    <3> QED BY <1>4, <1>11, <3>1, <3>2, <3>3
  <2>3. Committed(page', job')
    <3>1. Committed(page', job)
      BY <1>1, <1>11, <2>2, StillCommitted
    <3> QED BY <1>2, <3>1
  <2>4. MovedPlan(page', p, todo', job')
    BY <1>2, <1>11, <2>3 DEF MovedPlan
  <2>5. PlanFits(page', todo', job', crashes')
    BY <1>7, <1>11, <2>1, <2>4 DEF PlanFits
  <2> QED BY <2>2, <2>5
<1>12. ASSUME NEW p \in Pages, Statuses(page, p, "erased", "in_transfer"), Committed(page, job),
              Head(todo) = Erase(p), Tail(todo) = <<Mark(1 - p, "valid")>>
       PROVE  Goal
  <2>1. page' = page
    BY <1>8, <1>12 DEF Statuses
  <2>2. MovedPlan(page, p, todo', job')
    BY <1>2, <1>12 DEF MovedPlan
  <2>3. PlanFits(page, todo', job', crashes')
    BY <1>3, <1>12, <2>2 DEF PlanFits
  <2> QED BY <2>1, <2>3
<1>13. Goal
  <2>1. \A x : (\E j, v : x = AppendPair(j, v)) \/ (\E j, v : x = Copy(j, v)) \/ (\E q, st : x = Mark(q, st))
               => x.do # "erase"
    BY KindsOfPlanned
  <2>2. \A j, v : Head(todo) # AppendPair(j, v) /\ Head(todo) # Copy(j, v) /\ Head(todo) # Mark(j, v)
    BY <1>2, <2>1
  <2> HIDE DEF Goal
  <2> QED BY <1>2, <1>3, <1>9, <1>10, <1>11, <1>12, <2>2, NextOf, Zenon
<1> QED BY <1>3, <1>13, Onward

LEMMA ProgramStatusKeeps ==
  ASSUME StoreInv, EepromInv', ProgramStatus
  PROVE  StoreInv' /\ \A j \in Keys : InForce(Flash', j) = InForce(Flash, j)
<1>1. EepromTypeOK /\ PagesFit /\ page \in [Pages -> PageForm]
  BY FormOfPages DEF StoreInv, EepromInv
<1>2. todo # <<>> /\ Head(todo).do = "mark" /\ UNCHANGED <<job, crashes>> /\ todo' = Tail(todo)
  BY DEF ProgramStatus, Step
<1>3. PlanFits(page, todo, job, crashes) /\ Flash = page
  BY <1>2, NoValueYet DEF ValueNext
<1>4. ASSUME NEW p \in Pages, NEW status \in {"in_transfer", "valid"}, Head(todo) = Mark(p, status),
             status = "valid" \/ page[p].status = "erased"
      PROVE  /\ page' \in [Pages -> PageForm]
             /\ page'[p].status = status /\ page'[1 - p] = page[1 - p]
             /\ \A q \in Pages : page'[q].slots = page[q].slots
             /\ \A q \in Pages : \E u \in 0 .. NumSlots : Filled(page'[q], u)
  <2>1. page' = [page EXCEPT ![p].status = status]
    <3>1. Head(todo).page = p /\ Head(todo).status = status
      BY <1>4, KindsOfPlanned
    <3>2. page' = [page EXCEPT ![p].status =
                     IF page[p].status = "erased" \/ status = "valid" THEN status ELSE page[p].status]
      BY <3>1 DEF ProgramStatus
    <3> QED BY <1>4, <3>2
  <2>2. status \in PageStates
    BY DEF PageStates
  <2>3. /\ page' \in [Pages -> PageForm]
        /\ page'[p].status = status /\ page'[1 - p] = page[1 - p]
        /\ \A q \in Pages : page'[q].slots = page[q].slots
    BY <1>1, <2>1, <2>2, StatusProgrammed
  <2>4. \A q \in Pages : \E u \in 0 .. NumSlots : Filled(page[q], u)
    BY <1>3 DEF PlanFits
  <2>5. \A q \in Pages : \E u \in 0 .. NumSlots : Filled(page'[q], u)
    BY <2>3, <2>4, StillFilled
  <2> QED BY <2>3, <2>5
<1>5. \A p \in Pages : page[p].status = "erased" => page[p] = ErasedPage
  BY <1>1 DEF PagesFit, Has
<1>6. 0 \in Pages /\ 1 \in Pages /\ 1 - 0 = 1 /\ 1 - 1 = 0
  BY DEF Pages
<1>7. ASSUME NEW one, NEW other, one.slots = other.slots, NEW j PROVE Latest(one, j) = Latest(other, j)
  BY <1>7 DEF Latest
<1> DEFINE Goal == /\ PlanFits(page', todo', job', crashes')
                   /\ \A j \in Keys : InForce(page', j) = InForce(page, j)
<1>8. ASSUME Statuses(page, 0, "erased", "erased"), job = NoJob,
             Head(todo) = Mark(0, "valid"), Tail(todo) = <<Erase(1)>>
      PROVE  Goal
  <2>1. /\ page'[0].status = "valid" /\ page'[1] = page[1] /\ page'[0].slots = page[0].slots
        /\ \A q \in Pages : \E u \in 0 .. NumSlots : Filled(page'[q], u)
    BY <1>4, <1>6, <1>8
  <2>2. Statuses(page', 0, "valid", "erased")
    BY <1>6, <1>8, <2>1 DEF Statuses
  <2>3. SettledPlan(page', 0, todo', job')
    BY <1>2, <1>8 DEF SettledPlan
  <2>4. PlanFits(page', todo', job', crashes')
    BY <1>6, <2>1, <2>2, <2>3 DEF PlanFits
  <2>5. ASSUME NEW j \in Keys PROVE InForce(page', j) = InForce(page, j)
    <3>1. InForce(page', j) = Latest(page'[0], j) /\ InForce(page, j) = NotFound
      BY <1>6, <1>8, <2>2, InForceIs
    <3>2. page[0] = ErasedPage
      BY <1>5, <1>6, <1>8 DEF Statuses
    <3>3. Latest(page'[0], j) = Latest(page[0], j)
      BY <1>7, <2>1
    <3> QED BY <3>1, <3>2, <3>3, ErasedIsEmpty
  <2> QED BY <2>4, <2>5
<1>9. ASSUME NEW p \in Pages, Statuses(page, p, "valid", "erased"), job # NoJob,
             Head(todo) = Mark(1 - p, "in_transfer"),
             Tail(todo) = <<AppendPair(job.key, job.value), Copy(0, job.key)>> \o FinishTransfer(p)
      PROVE  Goal
  <2>1. /\ page' \in [Pages -> PageForm]
        /\ page'[1 - p].status = "in_transfer" /\ page'[p] = page[p]
        /\ page'[1 - p].slots = page[1 - p].slots
        /\ \A q \in Pages : \E u \in 0 .. NumSlots : Filled(page'[q], u)
    BY <1>4, <1>9, OtherPage DEF Statuses
  <2>2. Statuses(page', p, "valid", "in_transfer")
    BY <1>9, <2>1 DEF Statuses
  <2>3. Filled(page'[1 - p], 0)
    <3>1. page[1 - p] = ErasedPage
      BY <1>5, <1>9, OtherPage DEF Statuses
    <3> QED BY <2>1, <3>1, ErasedIsEmpty DEF Filled
  <2>4. MovingPlan(page', p, todo', job', crashes')
    BY <1>2, <1>9, <2>3 DEF MovingPlan
  <2>5. PlanFits(page', todo', job', crashes')
    BY <1>9, <2>1, <2>2, <2>4 DEF PlanFits
  <2>6. ASSUME NEW j \in Keys PROVE InForce(page', j) = InForce(page, j)
    <3>1. InForce(page', j) = InTransfer(page'[p], page'[1 - p], j) /\ InForce(page, j) = Latest(page[p], j)
      BY <1>9, <2>2, InForceIs DEF InTransfer
    <3>2. page'[1 - p] \in PageForm /\ 0 \in Nat
      BY <2>1, OtherPage
    <3>3. InTransfer(page'[p], page'[1 - p], j) = Latest(page'[p], j)
      BY <2>3, <3>2, NothingCopied
    <3> QED BY <2>1, <3>1, <3>3
  <2> QED BY <2>5, <2>6
<1>10. ASSUME NEW p \in Pages, Statuses(page, p, "erased", "in_transfer"), Committed(page, job),
              Head(todo) = Mark(1 - p, "valid"), Tail(todo) = <<>>
       PROVE  Goal
  <2>1. /\ page'[1 - p].status = "valid" /\ page'[p] = page[p]
        /\ page'[1 - p].slots = page[1 - p].slots
        /\ \A q \in Pages : \E u \in 0 .. NumSlots : Filled(page'[q], u)
    BY <1>4, <1>10, OtherPage
  <2>2. Statuses(page', 1 - p, "valid", "erased")
    BY <1>10, <2>1, OtherPage DEF Statuses
  <2>3. ASSUME NEW j \in Keys PROVE InForce(page', j) = InForce(page, j)
    <3>1. InForce(page', j) = Latest(page'[1 - p], j) /\ InForce(page, j) = Latest(page[1 - p], j)
      BY <1>10, <2>2, InForceIs, OtherPage
    <3> QED BY <1>7, <2>1, <3>1
  <2>4. Committed(page', job')
    <3>1. Committed(page', job)
      BY <1>1, <1>10, <2>3, StillCommitted
    <3> QED BY <1>2, <3>1
  <2>5. SettledPlan(page', 1 - p, todo', job')
    BY <1>2, <1>10, <2>4 DEF SettledPlan
  <2>6. PlanFits(page', todo', job', crashes')
    BY <2>1, <2>2, <2>5, OtherPage DEF PlanFits
  <2> QED BY <2>3, <2>6
<1>11. Goal
  <2>1. \A x : (\E j, v : x = AppendPair(j, v)) \/ (\E j, v : x = Copy(j, v)) \/ (\E q : x = Erase(q))
               => x.do # "mark"
    BY KindsOfPlanned
  <2>2. \A j : Head(todo) # Erase(j) /\ \A v : Head(todo) # AppendPair(j, v) /\ Head(todo) # Copy(j, v)
    BY <1>2, <2>1
  <2> HIDE DEF Goal
  <2> QED BY <1>2, <1>3, <1>8, <1>9, <1>10, <2>2, NextOf, Zenon
<1> QED BY <1>3, <1>11, Onward

(* A key that was programmed, and the value that is to follow *)
LEMMA AfterPair ==
  ASSUME NEW f \in [Pages -> PageForm], NEW q \in Pages, NEW u \in 0 .. NumSlots, u < NumSlots,
         Filled(f[q], u), NEW k \in Keys, NEW v \in Stored, NEW half, NEW g,
         half = KeySet(f, q, u + 1, k),
         g = ValueSet(half, q, u + 1, v)
  PROVE  /\ g \in [Pages -> PageForm]
         /\ g[q].status = f[q].status /\ g[1 - q] = f[1 - q]
         /\ Appended(f[q], g[q], u, k, v)
         /\ Filled(half[q], u + 1) /\ half[q].slots[u + 1].value = Blank
<1> DEFINE s == u + 1
<1>1. s \in Slots /\ ~(s <= u) /\ k # Blank /\ u \in Nat
  BY SlotsAre
<1>2. f[q].slots[s] = EmptySlot
  BY <1>1 DEF Filled
<1>3. f[q].slots[s].key = Blank /\ f[q].slots[s].value = Blank /\ Blank \in Stored
  BY <1>2 DEF EmptySlot, Stored
<1>4. /\ half \in [Pages -> PageForm]
      /\ half[q].status = f[q].status /\ half[1 - q] = f[1 - q]
      /\ half[q].slots[s].key = k /\ half[q].slots[s].value = Blank
      /\ \A i \in Slots \ {s} : half[q].slots[i] = f[q].slots[i]
  <2>1. /\ f \in [Pages -> PageForm] /\ q \in Pages /\ s \in Slots
        /\ k \in Keys /\ half = KeySet(f, q, s, k) /\ f[q].slots[s].value = Blank
    BY <1>1, <1>3
  <2> HIDE DEF s
  <2> QED BY ONLY <2>1, AfterKeySet
<1>5. /\ g \in [Pages -> PageForm]
      /\ g[q].status = half[q].status /\ g[1 - q] = half[1 - q]
      /\ g[q].slots[s].key = k /\ g[q].slots[s].value = v
      /\ \A i \in Slots \ {s} : g[q].slots[i] = half[q].slots[i]
  <2>1. /\ half \in [Pages -> PageForm] /\ q \in Pages /\ s \in Slots
        /\ v \in Stored /\ g = ValueSet(half, q, s, v) /\ half[q].slots[s].key = k
    BY <1>1, <1>4
  <2> HIDE DEF s
  <2> QED BY ONLY <2>1, AfterValueSet
<1>6. Appended(f[q], g[q], u, k, v)
  BY <1>1, <1>4, <1>5 DEF Appended
<1>7. Filled(half[q], s)
  <2> SUFFICES ASSUME NEW i \in Slots
               PROVE  IF i <= s THEN half[q].slots[i].key # Blank ELSE half[q].slots[i] = EmptySlot
    BY DEF Filled
  <2>1. CASE i = s
    BY <1>1, <1>4, <2>1
  <2>2. CASE i # s
    <3>1. half[q].slots[i] = f[q].slots[i] /\ i \in Nat
      BY <1>4, <2>2, SlotsAre
    <3>2. IF i <= u THEN f[q].slots[i].key # Blank ELSE f[q].slots[i] = EmptySlot
      BY DEF Filled
    <3>3. i <= s <=> i <= u
      BY <1>1, <2>2, <3>1
    <3> QED BY <3>1, <3>2, <3>3
  <2> QED BY <2>1, <2>2
<1> QED BY <1>4, <1>5, <1>6, <1>7

LEMMA PairUnderWay ==
  ASSUME StoreInv, ProgramKey, NEW q \in Pages, WritePage = q, NEW k \in Keys, NEW v \in Stored,
         Head(todo) = AppendPair(k, v), NEW u \in 0 .. NumSlots, u < NumSlots, Filled(page[q], u)
  PROVE  /\ Flash = page /\ Plan' = Tail(todo) /\ ValueFits'
         /\ Flash' \in [Pages -> PageForm]
         /\ Flash'[q].status = page[q].status /\ Flash'[1 - q] = page[1 - q]
         /\ Appended(page[q], Flash'[q], u, k, v)
         /\ \A r \in Pages : \E w \in 0 .. NumSlots : Filled(Flash'[r], w)
<1>1. page \in [Pages -> PageForm]
  BY FormOfPages DEF StoreInv, EepromInv
<1>2. todo # <<>> /\ Head(todo).do = "append" /\ Head(todo).key = k /\ Head(todo).value = v
  BY KindsOfPlanned DEF ProgramKey, Step
<1>3. PlanFits(page, todo, job, crashes) /\ Flash = page
  BY <1>2, NoValueYet DEF ValueNext
<1>4. q # NoPage /\ FreeSlots(q) # {} /\ Min(FreeSlots(q)) = u + 1
  BY FirstFree DEF Pages, NoPage
<1>5. /\ page' = KeySet(page, q, u + 1, k)
      /\ todo' = <<Value(q, u + 1, v)>> \o Tail(todo)
  BY <1>2, <1>4 DEF ProgramKey, KeySet
<1>6. todo' # <<>> /\ Head(todo') = Value(q, u + 1, v) /\ Tail(todo') = Tail(todo)
  BY <1>5
<1>7. Head(todo').do = "value" /\ Head(todo').page = q /\ Head(todo').slot = u + 1 /\ Head(todo').value = v
  BY <1>6, KindsOfPlanned
<1>8. ValueNext'
  BY <1>6, <1>7 DEF ValueNext
<1>9. Plan' = Tail(todo)
  BY <1>6, <1>8 DEF Plan
<1>10. Flash' = ValueSet(page', q, u + 1, v)
  <2>1. Flash' = [page' EXCEPT ![Head(todo').page].slots[Head(todo').slot].value = Head(todo').value]
    BY <1>6, <1>7 DEF Flash
  <2> QED BY <1>7, <2>1, Zenon DEF ValueSet
<1>11. /\ Flash' \in [Pages -> PageForm]
       /\ Flash'[q].status = page[q].status /\ Flash'[1 - q] = page[1 - q]
       /\ Appended(page[q], Flash'[q], u, k, v)
       /\ Filled(page'[q], u + 1) /\ page'[q].slots[u + 1].value = Blank
  <2>1. /\ page \in [Pages -> PageForm] /\ q \in Pages /\ u \in 0 .. NumSlots /\ u < NumSlots
        /\ Filled(page[q], u) /\ k \in Keys /\ v \in Stored
        /\ page' = KeySet(page, q, u + 1, k) /\ Flash' = ValueSet(page', q, u + 1, v)
    BY <1>1, <1>5, <1>10
  <2> QED BY ONLY <2>1, AfterPair
<1>12. ValueFits'
  BY <1>7, <1>11 DEF ValueFits
<1>13. \A r \in Pages : \E w \in 0 .. NumSlots : Filled(Flash'[r], w)
  <2>1. Filled(Flash'[q], u + 1) /\ u + 1 \in 0 .. NumSlots
    <3>1. u + 1 \in 0 .. NumSlots
      BY SlotsAre
    <3> QED BY <1>11, <3>1, LatestAppended
  <2>2. \E w \in 0 .. NumSlots : Filled(Flash'[1 - q], w)
    BY <1>3, <1>11, OtherPage DEF PlanFits
  <2> QED BY <2>1, <2>2, OtherPage
<1> QED BY <1>3, <1>9, <1>11, <1>12, <1>13

(* An append completes the write, or goes on with a transfer. *)
LEMMA ProgramKeyKeeps ==
  ASSUME StoreInv, EepromInv', ProgramKey
  PROVE  /\ StoreInv'
         /\ \/ \A j \in Keys : InForce(Flash', j) = InForce(Flash, j)
            \/ /\ job # NoJob
               /\ \A j \in Keys : InForce(Flash', j) = IF j = job.key THEN job.value ELSE InForce(Flash, j)
<1>1. /\ EepromTypeOK /\ page \in [Pages -> PageForm] /\ crashes \in 0 .. MaxCrashes
      /\ NumSlots \in Nat /\ 1 <= NumSlots /\ 0 \in 0 .. NumSlots /\ 0 \in 0 .. NumKeys
  BY FormOfPages, Sizes DEF StoreInv, EepromInv, EepromTypeOK
<1>2. todo # <<>> /\ Head(todo).do = "append" /\ UNCHANGED <<job, crashes>>
  BY DEF ProgramKey, Step
<1>3. PlanFits(page, todo, job, crashes) /\ Flash = page
  BY <1>2, NoValueYet DEF ValueNext
<1>4. \A p \in Pages : /\ Statuses(page, p, "valid", "erased") => WritePage = p
                       /\ Statuses(page, p, "valid", "in_transfer") => WritePage = 1 - p
  BY StatusesAre, WhereToWrite
<1>5. job # NoJob => job.key \in Keys /\ job.value \in Values /\ job.value \in Stored
  BY <1>1, JobIs DEF Stored
<1> DEFINE Same == \A j \in Keys : InForce(Flash', j) = InForce(page, j)
           Done == \A j \in Keys : InForce(Flash', j) = IF j = job.key THEN job.value ELSE InForce(page, j)
           Goal == StoreInv' /\ (Same \/ (job # NoJob /\ Done))
(* It is enough to know the plan for the pages with the value. *)
<1>6. ASSUME PlanFits(Flash', Plan', job', crashes'), ValueFits' PROVE StoreInv'
  BY <1>6 DEF StoreInv
<1>7. ASSUME Done, job # NoJob PROVE Committed(Flash', job')
  BY <1>2, <1>5, <1>7 DEF Committed
(* write *)
<1>8. ASSUME NEW p \in Pages, Statuses(page, p, "valid", "erased"), job # NoJob,
             Head(todo) = AppendPair(job.key, job.value), Tail(todo) = <<>>, ~Filled(page[p], NumSlots)
      PROVE  Goal
  <2>1. PICK u \in 0 .. NumSlots : Filled(page[p], u)
    BY <1>3, <1>8 DEF PlanFits
  <2>2. u < NumSlots
    BY <1>1, <1>8, <2>1
  <2>3. /\ Plan' = <<>> /\ ValueFits'
        /\ Flash'[p].status = page[p].status /\ Flash'[1 - p] = page[1 - p]
        /\ Appended(page[p], Flash'[p], u, job.key, job.value)
        /\ \A r \in Pages : \E w \in 0 .. NumSlots : Filled(Flash'[r], w)
    <3>1. WritePage = p /\ job.key \in Keys /\ job.value \in Stored
      BY <1>4, <1>5, <1>8
    <3> QED BY <1>8, <2>1, <2>2, <3>1, PairUnderWay
  <2>4. Statuses(Flash', p, "valid", "erased")
    BY <1>8, <2>3 DEF Statuses
  <2>5. Done
    <3> SUFFICES ASSUME NEW j \in Keys
                 PROVE  InForce(Flash', j) = IF j = job.key THEN job.value ELSE InForce(page, j)
      OBVIOUS
    <3>1. InForce(Flash', j) = Latest(Flash'[p], j) /\ InForce(page, j) = Latest(page[p], j)
      BY <1>8, <2>4, InForceIs
    <3>2. /\ Latest(Flash'[p], job.key) = job.value
          /\ j # job.key => Latest(Flash'[p], j) = Latest(page[p], j)
      <4> DEFINE k == job.key
                 v == job.value
                 new == Flash'[p]
                 old == page[p]
      <4>1. /\ k \in Keys /\ u \in 0 .. NumSlots /\ Filled(old, u)
            /\ Appended(old, new, u, k, v)
        BY <1>5, <1>8, <2>1, <2>3
      <4> HIDE DEF k, v, new, old
      <4>2. Latest(new, k) = v /\ \A i \in Keys \ {k} : Latest(new, i) = Latest(old, i)
        BY ONLY <4>1, LatestAppended
      <4> QED BY <4>2 DEF k, v, new, old
    <3> QED BY <3>1, <3>2
  <2>6. SettledPlan(Flash', p, Plan', job')
    BY <1>7, <1>8, <2>3, <2>5 DEF SettledPlan
  <2>7. PlanFits(Flash', Plan', job', crashes')
    BY <2>3, <2>4, <2>6 DEF PlanFits
  <2> QED BY <1>6, <1>8, <2>3, <2>5, <2>7
(* transfer_page: the pair that is written goes first. *)
<1>9. ASSUME NEW p \in Pages, Statuses(page, p, "valid", "in_transfer"), job # NoJob,
             Head(todo) = AppendPair(job.key, job.value),
             Tail(todo) = <<Copy(0, job.key)>> \o FinishTransfer(p), Filled(page[1 - p], 0)
      PROVE  Goal
  <2>1. job.key \in Keys /\ job.value \in Stored /\ 1 - p \in Pages /\ 1 - (1 - p) = p
    BY <1>5, <1>9, OtherPage
  <2>2. /\ Plan' = <<Copy(0, job.key)>> \o FinishTransfer(p) /\ ValueFits'
        /\ Flash' \in [Pages -> PageForm]
        /\ Flash'[1 - p].status = page[1 - p].status /\ Flash'[p] = page[p]
        /\ Appended(page[1 - p], Flash'[1 - p], 0, job.key, job.value)
        /\ \A r \in Pages : \E w \in 0 .. NumSlots : Filled(Flash'[r], w)
    <3>1. WritePage = 1 - p /\ 0 < NumSlots
      BY <1>1, <1>4, <1>9
    <3> QED BY <1>1, <1>9, <2>1, <3>1, PairUnderWay
  <2>3. Statuses(Flash', p, "valid", "in_transfer")
    BY <1>9, <2>2 DEF Statuses
  <2>4. /\ Progress(page[p], Flash'[1 - p], 0, job.key, crashes)
        /\ \A j \in Keys : InTransfer(page[p], Flash'[1 - p], j) = IF j = job.key THEN job.value
                                                                  ELSE Latest(page[p], j)
    <3> DEFINE old == page[p]
               new == page[1 - p]
               next == Flash'[1 - p]
               k == job.key
               v == job.value
    <3>1. /\ new \in PageForm /\ next \in PageForm /\ crashes \in Nat
          /\ Filled(new, 0) /\ k \in Keys /\ Appended(new, next, 0, k, v)
      BY <1>1, <1>9, <2>1, <2>2
    <3> HIDE DEF old, new, next, k, v
    <3>2. /\ Progress(old, next, 0, k, crashes)
          /\ \A j \in Keys : InTransfer(old, next, j) = IF j = k THEN v ELSE Latest(old, j)
      BY ONLY <3>1, FirstAppended
    <3> QED BY <3>2 DEF old, next, k, v
  <2>5. Done
    <3> SUFFICES ASSUME NEW j \in Keys
                 PROVE  InForce(Flash', j) = IF j = job.key THEN job.value ELSE InForce(page, j)
      OBVIOUS
    <3>1. /\ InForce(Flash', j) = InTransfer(page[p], Flash'[1 - p], j)
          /\ InForce(page, j) = InTransfer(page[p], page[1 - p], j)
      BY <1>9, <2>2, <2>3, InForceIs DEF InTransfer
    <3>2. InTransfer(page[p], page[1 - p], j) = Latest(page[p], j)
      <4>1. page[1 - p] \in PageForm /\ 0 \in Nat
        BY <1>1, <2>1
      <4> QED BY <1>9, <4>1, NothingCopied
    <3> QED BY <2>4, <3>1, <3>2
  <2>6. MovingPlan(Flash', p, Plan', job', crashes')
    <3>1. /\ Committed(Flash', job') /\ Plan' = <<Copy(0, job.key)>> \o FinishTransfer(p)
          /\ Progress(Flash'[p], Flash'[1 - p], 0, job.key, crashes')
      BY <1>2, <1>7, <1>9, <2>2, <2>4, <2>5
    <3>2. \E k \in 0 .. NumKeys, skip \in Keys \cup {Blank} :
            /\ Plan' = <<Copy(k, skip)>> \o FinishTransfer(p)
            /\ Progress(Flash'[p], Flash'[1 - p], k, skip, crashes')
      BY <1>1, <2>1, <3>1
    <3> QED BY <3>1, <3>2, Zenon DEF MovingPlan
  <2>7. PlanFits(Flash', Plan', job', crashes')
    BY <2>2, <2>3, <2>6 DEF PlanFits
  <2> QED BY <1>6, <1>9, <2>2, <2>5, <2>7
(* copy_slots *)
<1>10. ASSUME NEW p \in Pages, Statuses(page, p, "valid", "in_transfer"), Committed(page, job),
              NEW k \in Keys, NEW skip \in Keys \cup {Blank},
              Head(todo) = AppendPair(k, Latest(page[p], k)),
              Tail(todo) = <<Copy(k + 1, skip)>> \o FinishTransfer(p),
              Progress(page[p], page[1 - p], k, skip, crashes),
              k # skip, Latest(page[p], k) # NotFound
       PROVE  Goal
  <2>1. 1 - p \in Pages /\ 1 - (1 - p) = p
    BY OtherPage
  <2>2. PICK u \in 0 .. NumSlots - 1 : Filled(page[1 - p], u)
    <3>1. /\ Progress(page[p], page[1 - p], k, skip, crashes) /\ k # skip
          /\ k \in Keys /\ skip \in Keys \cup {Blank} /\ crashes \in 0 .. MaxCrashes
      BY <1>1, <1>10
    <3> QED BY ONLY <3>1, CopyFinds
  <2>3. u \in 0 .. NumSlots /\ u < NumSlots
    BY <1>1
  <2>4. Latest(page[p], k) \in Stored
    <3>1. page[p] \in PageForm
      BY <1>1
    <3> QED BY <1>10, <3>1, LatestIsStored
  <2>5. /\ Plan' = <<Copy(k + 1, skip)>> \o FinishTransfer(p) /\ ValueFits'
        /\ Flash' \in [Pages -> PageForm]
        /\ Flash'[1 - p].status = page[1 - p].status /\ Flash'[p] = page[p]
        /\ Appended(page[1 - p], Flash'[1 - p], u, k, Latest(page[p], k))
        /\ \A r \in Pages : \E w \in 0 .. NumSlots : Filled(Flash'[r], w)
    <3>1. WritePage = 1 - p
      BY <1>4, <1>10
    <3> QED BY <1>10, <2>1, <2>2, <2>3, <2>4, <3>1, PairUnderWay
  <2>6. Statuses(Flash', p, "valid", "in_transfer")
    BY <1>10, <2>5 DEF Statuses
  <2>7. /\ Progress(page[p], Flash'[1 - p], k + 1, skip, crashes)
        /\ \A j \in Keys : InTransfer(page[p], Flash'[1 - p], j) = InTransfer(page[p], page[1 - p], j)
    <3>1. page[1 - p] \in PageForm /\ Flash'[1 - p] \in PageForm
      BY <1>1, <2>1, <2>5
    <3> QED BY <1>1, <1>10, <2>2, <2>3, <2>5, <3>1, CopyAppends
  <2>8. Same
    <3> SUFFICES ASSUME NEW j \in Keys PROVE InForce(Flash', j) = InForce(page, j)
      OBVIOUS
    <3>1. /\ InForce(Flash', j) = InTransfer(page[p], Flash'[1 - p], j)
          /\ InForce(page, j) = InTransfer(page[p], page[1 - p], j)
      BY <1>10, <2>5, <2>6, InForceIs DEF InTransfer
    <3> QED BY <2>7, <3>1
  <2>9. MovingPlan(Flash', p, Plan', job', crashes')
    <3>1. Committed(Flash', job')
      <4>1. Committed(Flash', job)
        BY <1>1, <1>10, <2>8, StillCommitted
      <4> QED BY <1>2, <4>1
    <3>2. /\ k + 1 \in 0 .. NumKeys
          /\ Progress(Flash'[p], Flash'[1 - p], k + 1, skip, crashes')
      BY <1>2, <2>5, <2>7, SlotsAre, Sizes
    <3>3. \E i \in 0 .. NumKeys, sk \in Keys \cup {Blank} :
            /\ Plan' = <<Copy(i, sk)>> \o FinishTransfer(p)
            /\ Progress(Flash'[p], Flash'[1 - p], i, sk, crashes')
      BY <2>5, <3>2
    <3> QED BY <3>1, <3>3, Zenon DEF MovingPlan
  <2>10. PlanFits(Flash', Plan', job', crashes')
    BY <2>5, <2>6, <2>9 DEF PlanFits
  <2> QED BY <1>6, <2>5, <2>8, <2>10
<1>11. Goal
  <2>1. \A x : (\E j, v : x = Copy(j, v)) \/ (\E q : x = Erase(q)) \/ (\E q, st : x = Mark(q, st))
               => x.do # "append"
    BY KindsOfPlanned
  <2>2. \A j : Head(todo) # Erase(j) /\ \A v : Head(todo) # Copy(j, v) /\ Head(todo) # Mark(j, v)
    BY <1>2, <2>1
  <2> HIDE DEF Goal
  <2> QED BY <1>2, <1>3, <1>8, <1>9, <1>10, <2>2, NextOf, Zenon
<1> QED BY <1>3, <1>11

(* The power fails: what was half programmed is all that can be lost.      *)
LEMMA AsFlash ==
  ASSUME StoreInv
  PROVE  /\ Flash \in [Pages -> PageForm]
         /\ \A r \in Pages : /\ Flash[r].status = page[r].status
                             /\ \A i \in Slots : page[r].slots[i].key = Flash[r].slots[i].key
                             /\ \A u \in 0 .. NumSlots : Filled(Flash[r], u) => Filled(page[r], u)
         /\ \A p \in Pages : Moving(p) => Flash[p] = page[p]
         /\ \/ Flash = page
            \/ \E q \in Pages, s \in Slots, k \in Keys :
                 /\ page[q].slots[s].key = k /\ page[q].slots[s].value = Blank /\ Filled(page[q], s)
                 /\ Flash[1 - q] = page[1 - q]
                 /\ \A i \in Slots \ {s} : Flash[q].slots[i] = page[q].slots[i]
                 /\ Settled(q) \/ Moving(1 - q)
<1>1. EepromTypeOK /\ TodoFits /\ page \in [Pages -> PageForm]
  BY FormOfPages DEF StoreInv, EepromInv
<1>2. CASE ~ValueNext
  BY <1>1, <1>2, NoValueYet
<1>3. CASE ValueNext
  <2>1. todo # <<>> /\ Head(todo).do = "value"
    BY <1>3 DEF ValueNext
  <2>2. PICK p \in Pages, q \in Pages :
          Head(todo) \in PairSteps(q) /\ ((q = p /\ Settled(p)) \/ (q = 1 - p /\ Moving(p)))
    <3>1. Head(todo).do \in {"append", "value"}
      BY <2>1
    <3> QED BY <1>1, <2>1, <3>1, PairIsNext, Zenon
  <2> DEFINE s == Head(todo).slot
             v == Head(todo).value
  <2>3. Head(todo).page = q /\ s \in KeySlots(q) /\ v \in Stored
    <3>1. Head(todo) \in PairSteps(q) /\ Head(todo).do # "append"
      BY <2>1, <2>2
    <3> QED BY <3>1, KindsOfPairs
  <2>4. Flash = ValueSet(page, q, s, v)
    <3>1. Flash = [page EXCEPT ![Head(todo).page].slots[Head(todo).slot].value = Head(todo).value]
      BY <2>1 DEF Flash
    <3> QED BY <2>3, <3>1, Zenon DEF ValueSet
  <2>5. Filled(page[q], s) /\ page[q].slots[s].value = Blank
    BY <1>3, <2>3 DEF StoreInv, ValueFits
  <2> HIDE DEF s, v
  <2>6. s \in Slots /\ page[q].slots[s].key # Blank
    BY <2>3 DEF KeySlots
  <2>7. page[q].slots[s].key \in Keys
    BY <1>1, <2>6 DEF PageForm, SlotStates
  <2>8. /\ Flash \in [Pages -> PageForm]
        /\ Flash[q].status = page[q].status /\ Flash[1 - q] = page[1 - q]
        /\ Flash[q].slots[s].key = page[q].slots[s].key
        /\ \A i \in Slots \ {s} : Flash[q].slots[i] = page[q].slots[i]
    <3>1. /\ page \in [Pages -> PageForm] /\ q \in Pages /\ s \in Slots /\ v \in Stored
          /\ Flash = ValueSet(page, q, s, v)
      BY <1>1, <2>3, <2>4, <2>6
    <3> QED BY ONLY <3>1, AfterValueSet
  <2>9. \A i \in Slots : page[q].slots[i].key = Flash[q].slots[i].key
    BY <2>8
  <2>10. ASSUME NEW u \in 0 .. NumSlots, Filled(Flash[q], u) PROVE Filled(page[q], u)
    <3> SUFFICES ASSUME NEW i \in Slots
                 PROVE  IF i <= u THEN page[q].slots[i].key # Blank ELSE page[q].slots[i] = EmptySlot
      BY DEF Filled
    <3>1. IF i <= u THEN Flash[q].slots[i].key # Blank ELSE Flash[q].slots[i] = EmptySlot
      BY <2>10 DEF Filled
    <3>2. ~(i <= u) => i # s
      BY <2>6, <2>9, <3>1 DEF EmptySlot
    <3>3. CASE i <= u
      BY <2>9, <3>1, <3>3
    <3>4. CASE ~(i <= u)
      BY <2>8, <3>1, <3>2, <3>4
    <3> QED BY <3>3, <3>4
  <2>11. \A r \in Pages : /\ Flash[r].status = page[r].status
                          /\ \A i \in Slots : page[r].slots[i].key = Flash[r].slots[i].key
                          /\ \A u \in 0 .. NumSlots : Filled(Flash[r], u) => Filled(page[r], u)
    <3> SUFFICES ASSUME NEW r \in Pages
                 PROVE  /\ Flash[r].status = page[r].status
                        /\ \A i \in Slots : page[r].slots[i].key = Flash[r].slots[i].key
                        /\ \A u \in 0 .. NumSlots : Filled(Flash[r], u) => Filled(page[r], u)
      OBVIOUS
    <3>1. CASE r = q
      BY <2>8, <2>9, <2>10, <3>1
    <3>2. CASE r = 1 - q
      BY <2>8, <3>2
    <3> QED BY <3>1, <3>2, OtherPage
  <2>12. \A r \in Pages : Moving(r) => Flash[r] = page[r]
    BY <2>2, <2>8, OtherPage DEF Settled, Moving, Has
  <2>13. Settled(q) \/ Moving(1 - q)
    BY <2>2, OtherPage
  <2> QED BY <2>5, <2>6, <2>7, <2>8, <2>11, <2>12, <2>13
<1> QED BY <1>2, <1>3

LEMMA LosesOneKey ==
  ASSUME StoreInv
  PROVE  \/ \A j \in Keys : InForce(page, j) = InForce(Flash, j)
         \/ \E k \in Keys : \A j \in Keys : InForce(page, j) = IF j = k THEN Blank ELSE InForce(Flash, j)
<1>1. CASE Flash = page
  BY <1>1
<1>2. ASSUME NEW q \in Pages, NEW s \in Slots, NEW k \in Keys,
             page[q].slots[s].key = k, page[q].slots[s].value = Blank, Filled(page[q], s),
             Flash[1 - q] = page[1 - q], \A i \in Slots \ {s} : Flash[q].slots[i] = page[q].slots[i],
             Settled(q) \/ Moving(1 - q)
      PROVE  \/ \A j \in Keys : InForce(page, j) = InForce(Flash, j)
             \/ \A j \in Keys : InForce(page, j) = IF j = k THEN Blank ELSE InForce(Flash, j)
  <2>1. /\ Flash \in [Pages -> PageForm]
        /\ \A r \in Pages : /\ Flash[r].status = page[r].status
                            /\ \A i \in Slots : page[r].slots[i].key = Flash[r].slots[i].key
    BY AsFlash
  <2>2. \A p \in Pages : \A one, other : Statuses(Flash, p, one, other) <=> Statuses(page, p, one, other)
    BY <2>1, OtherPage DEF Statuses
  <2>3. ASSUME NEW j \in Keys, j # k PROVE Latest(Flash[q], j) = Latest(page[q], j)
    <3>1. \A i \in Slots : /\ Flash[q].slots[i].key = j <=> page[q].slots[i].key = j
                           /\ page[q].slots[i].key = j => Flash[q].slots[i].value = page[q].slots[i].value
      BY <1>2, <2>1, <2>3
    <3> DEFINE old == page[q]
               new == Flash[q]
    <3>2. \A i \in Slots : /\ new.slots[i].key = j <=> old.slots[i].key = j
                           /\ old.slots[i].key = j => new.slots[i].value = old.slots[i].value
      BY <3>1
    <3> HIDE DEF old, new
    <3>3. Latest(new, j) = Latest(old, j)
      BY ONLY <3>2, LatestSame
    <3> QED BY <3>3 DEF old, new
  <2>4. Latest(page[q], k) = Blank
    <3>1. \A i \in Slots : i > s => page[q].slots[i].key # k
      <4> SUFFICES ASSUME NEW i \in Slots, i > s PROVE page[q].slots[i].key = Blank
        BY SlotsAre
      <4>1. ~(i <= s)
        BY SlotsAre
      <4> QED BY <1>2, <4>1 DEF Filled, EmptySlot
    <3>2. Latest(page[q], k) = page[q].slots[s].value
      BY <1>2, <3>1, LatestAt, Zenon
    <3> QED BY <1>2, <3>2
  <2>5. CASE Settled(q)
    <3> SUFFICES ASSUME NEW j \in Keys
                 PROVE  InForce(page, j) = IF j = k THEN Blank ELSE InForce(Flash, j)
      OBVIOUS
    <3>1. Statuses(page, q, "valid", "erased") /\ Statuses(Flash, q, "valid", "erased")
      BY <2>2, <2>5, StatusesAre
    <3>2. InForce(page, j) = Latest(page[q], j) /\ InForce(Flash, j) = Latest(Flash[q], j)
      BY <3>1, InForceIs
    <3> QED BY <2>3, <2>4, <3>2
  <2>6. CASE Moving(1 - q)
    <3>1. /\ Statuses(page, 1 - q, "valid", "in_transfer") /\ Statuses(Flash, 1 - q, "valid", "in_transfer")
          /\ 1 - q \in Pages /\ 1 - (1 - q) = q
      BY <2>2, <2>6, StatusesAre, OtherPage
    <3>2. \A j \in Keys : /\ InForce(page, j) = InTransfer(page[1 - q], page[q], j)
                          /\ InForce(Flash, j) = InTransfer(page[1 - q], Flash[q], j)
      BY <1>2, <3>1, InForceIs DEF InTransfer
    <3>3. FirstKey(Flash[q]) = FirstKey(page[q])
      BY <2>1, SlotsAre DEF FirstKey
    <3>4. CASE s = 1
      <4>1. FirstKey(page[q]) = k
        BY <1>2, <3>4 DEF FirstKey
      <4>2. ASSUME NEW j \in Keys
            PROVE  InTransfer(page[1 - q], page[q], j) =
                     IF j = k THEN Blank ELSE InTransfer(page[1 - q], Flash[q], j)
        BY <1>2, <3>3, <3>4, <4>1 DEF InTransfer
      <4> QED BY <3>2, <4>2
    <3>5. CASE s # 1
      <4>1. Flash[q].slots[1] = page[q].slots[1]
        BY <1>2, <3>5, SlotsAre
      <4>2. ASSUME NEW j \in Keys
            PROVE  InTransfer(page[1 - q], page[q], j) = InTransfer(page[1 - q], Flash[q], j)
        BY <3>3, <4>1 DEF InTransfer
      <4> QED BY <3>2, <4>2
    <3> QED BY <3>4, <3>5
  <2> QED BY <1>2, <2>5, <2>6
<1>3. \/ Flash = page
      \/ \E q \in Pages, s \in Slots, k \in Keys :
           /\ page[q].slots[s].key = k /\ page[q].slots[s].value = Blank /\ Filled(page[q], s)
           /\ Flash[1 - q] = page[1 - q]
           /\ \A i \in Slots \ {s} : Flash[q].slots[i] = page[q].slots[i]
           /\ Settled(q) \/ Moving(1 - q)
  BY AsFlash
<1> QED BY <1>1, <1>2, <1>3, Zenon

LEMMA CrashKeeps ==
  ASSUME StoreInv, EepromInv', Crash
  PROVE  StoreInv' /\ Flash' = page
<1>1. /\ EepromTypeOK /\ page \in [Pages -> PageForm] /\ crashes \in 0 .. MaxCrashes /\ crashes \in Nat
      /\ 0 \in 0 .. NumKeys /\ NumKeys \in 0 .. NumKeys
  BY FormOfPages, Sizes DEF StoreInv, EepromInv, EepromTypeOK
<1>2. /\ page' = page /\ todo' = <<>> /\ job' = NoJob
      /\ IF todo = <<>> THEN crashes' = crashes ELSE crashes' = crashes + 1
  BY DEF Crash
<1>3. PlanFits(Flash, Plan, job, crashes)
  BY DEF StoreInv
<1>4. /\ Flash \in [Pages -> PageForm]
      /\ \A r \in Pages : /\ Flash[r].status = page[r].status
                          /\ \A i \in Slots : page[r].slots[i].key = Flash[r].slots[i].key
                          /\ \A u \in 0 .. NumSlots : Filled(Flash[r], u) => Filled(page[r], u)
      /\ \A p \in Pages : Moving(p) => Flash[p] = page[p]
  BY AsFlash
<1>5. \A p \in Pages : \A one, other : Statuses(Flash, p, one, other) <=> Statuses(page, p, one, other)
  BY <1>4, OtherPage DEF Statuses
<1>6. \A r \in Pages : \E u \in 0 .. NumSlots : Filled(page[r], u)
  BY <1>3, <1>4 DEF PlanFits
<1>7. Committed(page, NoJob) /\ FormatPlan(<<>>, NoJob)
  BY DEF Committed, FormatPlan
<1>8. ASSUME NEW p \in Pages, Statuses(page, p, "valid", "in_transfer"),
             MovingPlan(Flash, p, Plan, job, crashes)
      PROVE  Progress(page[p], page[1 - p], 0, FirstKey(page[1 - p]), crashes')
  <2> DEFINE old == page[p]
             new == Flash[1 - p]
             cut == page[1 - p]
  <2>1. /\ Flash[p] = old /\ new \in PageForm /\ cut \in PageForm /\ 1 - p \in Pages
        /\ \A i \in Slots : cut.slots[i].key = new.slots[i].key
        /\ \A u \in 0 .. NumSlots : Filled(new, u) => Filled(cut, u)
    BY <1>1, <1>4, <1>8, StatusesAre, OtherPage
  <2>2. FirstKey(new) \in Keys \cup {Blank}
    BY <2>1, FirstKeys, Zenon
  <2>3. CASE Filled(new, 0)
    <3>1. crashes' \in Nat /\ cut \in PageForm /\ Filled(cut, 0)
      BY <1>1, <1>2, <2>1, <2>3, Sizes
    <3> QED BY ONLY <3>1, NothingCopied
  <2>4. ASSUME todo # <<>>, NEW k \in 0 .. NumKeys, NEW skip \in Keys \cup {Blank},
               Progress(old, new, k, skip, crashes)
        PROVE  Progress(page[p], page[1 - p], 0, FirstKey(page[1 - p]), crashes')
    <3>1. /\ new \in PageForm /\ cut \in PageForm /\ k \in 0 .. NumKeys /\ skip \in Keys \cup {Blank}
          /\ crashes \in 0 .. MaxCrashes /\ Progress(old, new, k, skip, crashes)
          /\ \A i \in Slots : cut.slots[i].key = new.slots[i].key
          /\ \A u \in 0 .. NumSlots : Filled(new, u) => Filled(cut, u)
      BY <1>1, <2>1, <2>4
    <3> HIDE DEF old, new, cut
    <3>2. Progress(old, cut, 0, FirstKey(cut), crashes + 1)
      BY ONLY <3>1, CutOff
    <3> QED BY <1>2, <2>4, <3>2 DEF old, cut
  <2>5. \/ Filled(new, 0)
        \/ Plan = <<>> /\ Progress(old, new, 0, FirstKey(new), crashes)
        \/ /\ Plan # <<>>
           /\ \E k \in 0 .. NumKeys, skip \in Keys \cup {Blank} : Progress(old, new, k, skip, crashes)
    <3>1. /\ FinishTransfer(p) # <<>> /\ \A x : <<x>> \o FinishTransfer(p) # <<>>
          /\ \A x, y : <<x, y>> \o FinishTransfer(p) # <<>>
      BY ShapesOfPlans, Zenon
    <3>2. \A k \in Keys : k \in 0 .. NumKeys
      BY Sizes DEF Keys
    <3>3. MovingPlan(Flash, p, Plan, job, crashes) /\ Flash[p] = old
      BY <1>8, <2>1
    <3> HIDE DEF old
    <3> QED BY <1>1, <2>2, <3>1, <3>2, <3>3, Zenon DEF MovingPlan
  <2>6. CASE todo = <<>>
    <3>1. Flash = page /\ Plan = <<>> /\ crashes' = crashes
      BY <1>2, <2>6 DEF Flash, Plan, ValueNext
    <3> QED BY <2>3, <2>5, <3>1
  <2>7. CASE todo # <<>>
    <3> HIDE DEF old, new
    <3> QED BY <1>1, <2>2, <2>3, <2>4, <2>5, <2>7, Zenon
  <2> QED BY <2>6, <2>7
<1>9. PlanFits(page, <<>>, NoJob, crashes')
  <2>1. \A p \in Pages : SettledPlan(page, p, <<>>, NoJob) /\ MovedPlan(page, p, <<>>, NoJob)
    BY <1>7 DEF SettledPlan, MovedPlan
  <2>2. ASSUME NEW p \in Pages, Statuses(page, p, "valid", "in_transfer"),
               MovingPlan(Flash, p, Plan, job, crashes)
        PROVE  MovingPlan(page, p, <<>>, NoJob, crashes')
    BY <1>7, <1>8, <2>2 DEF MovingPlan
  <2>3. \/ Statuses(page, 0, "erased", "erased")
        \/ \E p \in Pages : \/ Statuses(page, p, "valid", "erased")
                            \/ /\ Statuses(page, p, "valid", "in_transfer")
                               /\ MovingPlan(Flash, p, Plan, job, crashes)
                            \/ Statuses(page, p, "erased", "in_transfer")
    <3>1. 0 \in Pages
      BY DEF Pages
    <3> QED BY <1>3, <1>5, <3>1, Zenon DEF PlanFits
  <2> QED BY <1>6, <1>7, <2>1, <2>2, <2>3, Zenon DEF PlanFits
<1>10. PlanFits(page', todo', job', crashes')
  BY <1>2, <1>9
<1> QED BY <1>2, <1>10, Onward

-----------------------------------------------------------------------------
(* The pages implement NvStore.tla *)

LEMMA StoreStarts == EepromInit => StoreInv /\ Store!StoreInit
<1> SUFFICES ASSUME EepromInit PROVE StoreInv /\ Store!StoreInit
  OBVIOUS
<1>1. EepromInv
  BY Starts
<1>2. /\ page = [p \in Pages |-> ErasedPage] /\ running = FALSE /\ todo = <<>> /\ job = NoJob
  BY DEF EepromInit
<1>3. Flash = page /\ Plan = todo /\ ~ValueNext
  BY <1>2 DEF Flash, Plan, ValueNext
<1>4. /\ 0 \in Pages /\ 1 - 0 \in Pages /\ 0 \in 0 .. NumSlots
      /\ \A p \in Pages : page[p] = ErasedPage
  BY <1>2, Sizes DEF Pages
<1>5. Statuses(page, 0, "erased", "erased")
  BY <1>4 DEF Statuses, ErasedPage
<1>6. PlanFits(page, todo, job, crashes)
  <2>1. \A p \in Pages : \E u \in 0 .. NumSlots : Filled(page[p], u)
    BY <1>4, ErasedIsEmpty
  <2>2. FormatPlan(todo, job)
    BY <1>2 DEF FormatPlan
  <2> QED BY <1>5, <2>1, <2>2 DEF PlanFits
<1>7. \A k \in Keys : Effective(k) = NotFound
  BY <1>3, <1>4, <1>5, InForceIs DEF Effective
<1>8. Store!StoreInit
  <2>1. [k \in Keys |-> Effective(k)] = [k \in Keys |-> NotFound]
    BY <1>7
  <2> QED BY <1>2, <2>1 DEF Store!StoreInit, Store!NoJob, NoJob
<1> QED BY <1>1, <1>3, <1>6, <1>8 DEF StoreInv, ValueFits

LEMMA StoreStutters ==
  ASSUME StoreInv, EepromInv', UNCHANGED eepromVars
  PROVE  StoreInv' /\ Flash' = Flash
<1>1. page' = page /\ todo' = todo /\ job' = job /\ crashes' = crashes
  BY DEF eepromVars
<1>2. Flash' = Flash /\ Plan' = Plan /\ (ValueFits => ValueFits')
  BY <1>1 DEF Flash, Plan, ValueNext, ValueFits
<1> QED BY <1>1, <1>2 DEF StoreInv

LEMMA StoreStep ==
  ASSUME StoreInv, EepromInv', [EepromNext]_eepromVars
  PROVE  StoreInv'
<1>1. ASSUME NEW k \in Keys, NEW v \in Values, Write(k, v) PROVE StoreInv'
  BY <1>1, WriteKeeps
<1>2. CASE FlashStep
  BY <1>2, ProgramKeyKeeps, ProgramValueKeeps, CopySlotKeeps, ErasePageKeeps, ProgramStatusKeeps
     DEF FlashStep
<1> QED BY <1>1, <1>2, StoreStutters, BootKeeps, WriteEndsKeeps, CrashKeeps DEF EepromNext

(* Wherever init() or write() has got to, what is left of it still appends *)
(* the written pair unless that is in force, copies what is not copied yet *)
(* and has the slots for that.                                             *)
THEOREM StoreInvariance == EepromSpec => []StoreInv
<1>1. StoreInv /\ EepromInv' /\ [EepromNext]_eepromVars => StoreInv'
  BY StoreStep
<1>2. EepromInit => StoreInv
  BY StoreStarts
<1> QED BY EepromInvariance, <1>1, <1>2, PTL DEF EepromSpec

(* The step that a step of the emulation is to the client *)
LEMMA StepOfStore ==
  ASSUME StoreInv, EepromInv', [EepromNext]_eepromVars
  PROVE  [\/ Store!PowerUp \/ Store!Begin \/ Store!Commit \/ Store!End
          \/ Store!PowerLoss]_<<[k \in Keys |-> Effective(k)], job, running>>
<1> DEFINE map == [k \in Keys |-> InForce(Flash, k)]
           next == [k \in Keys |-> InForce(Flash', k)]
<1>1. /\ [k \in Keys |-> Effective(k)] = map
      /\ [k \in Keys |-> Effective(k)]' = next
  BY DEF Effective
<1>2. EepromTypeOK
  BY DEF StoreInv, EepromInv
<1> DEFINE Same == next = map /\ job' = job /\ running' = running
           Goal == \/ Same
                   \/ ~running /\ running' /\ next = map /\ job' = job
                   \/ /\ running /\ running' = running /\ job = NoJob /\ next = map
                      /\ \E k \in Keys, v \in Values : job' = [key |-> k, value |-> v]
                   \/ /\ job # NoJob /\ job' = job /\ running' = running
                      /\ next = [map EXCEPT ![job.key] = job.value]
                   \/ /\ job # NoJob /\ map[job.key] = job.value /\ job' = NoJob
                      /\ next = map /\ running' = running
                   \/ /\ running /\ running' = FALSE /\ job' = NoJob
                      /\ next \in {map} \cup {[map EXCEPT ![k] = Blank] : k \in Keys}
<1>3. ASSUME \A j \in Keys : InForce(Flash', j) = InForce(Flash, j) PROVE next = map
  BY <1>3
<1>4. ASSUME Flash' = Flash PROVE next = map
  BY <1>4
<1>5. ASSUME Boot PROVE Goal
  <2>1. next = map
    BY <1>4, <1>5, BootKeeps
  <2> HIDE DEF map, next
  <2> QED BY <1>5, <2>1 DEF Boot
<1>6. ASSUME NEW k \in Keys, NEW v \in Values, Write(k, v) PROVE Goal
  <2>1. next = map
    BY <1>4, <1>6, WriteKeeps
  <2> HIDE DEF map, next
  <2> QED BY <1>6, <2>1 DEF Write
<1>7. ASSUME WriteEnds PROVE Goal
  <2>1. next = map /\ InForce(Flash, job.key) = job.value
    BY <1>4, <1>7, WriteEndsKeeps
  <2>2. job # NoJob /\ job' = NoJob /\ running' = running
    BY <1>7 DEF WriteEnds
  <2>3. map[job.key] = job.value
    BY <1>2, <2>1, <2>2, JobIs
  <2> HIDE DEF map, next
  <2> QED BY <2>1, <2>2, <2>3
<1>8. ASSUME ProgramKey PROVE Goal
  <2>1. job' = job /\ running' = running
    BY <1>8 DEF ProgramKey, Step
  <2>2. CASE \A j \in Keys : InForce(Flash', j) = InForce(Flash, j)
    <3>1. next = map
      BY <1>3, <2>2
    <3> HIDE DEF map, next
    <3> QED BY <2>1, <3>1
  <2>3. CASE /\ job # NoJob
             /\ \A j \in Keys : InForce(Flash', j) = IF j = job.key THEN job.value ELSE InForce(Flash, j)
    <3>1. next = [map EXCEPT ![job.key] = job.value]
      BY <2>3
    <3> HIDE DEF map, next
    <3> QED BY <2>1, <2>3, <3>1
  <2> QED BY <1>8, <2>2, <2>3, ProgramKeyKeeps
<1>9. ASSUME ProgramValue \/ CopySlot \/ ErasePage \/ ProgramStatus PROVE Goal
  <2>1. job' = job /\ running' = running
    BY <1>9 DEF ProgramValue, CopySlot, ErasePage, ProgramStatus, Step
  <2>2. next = map
    BY <1>3, <1>4, <1>9, ProgramValueKeeps, CopySlotKeeps, ErasePageKeeps, ProgramStatusKeeps
  <2> HIDE DEF map, next
  <2> QED BY <2>1, <2>2
<1>10. ASSUME Crash PROVE Goal
  <2>1. running' = FALSE /\ job' = NoJob /\ Flash' = page
    BY <1>10, CrashKeeps DEF Crash
  <2>2. next \in {map} \cup {[map EXCEPT ![k] = Blank] : k \in Keys}
    <3>1. CASE \A j \in Keys : InForce(page, j) = InForce(Flash, j)
      BY <2>1, <3>1
    <3>2. ASSUME NEW k \in Keys,
                 \A j \in Keys : InForce(page, j) = IF j = k THEN Blank ELSE InForce(Flash, j)
          PROVE  next = [map EXCEPT ![k] = Blank]
      BY <2>1, <3>2
    <3> HIDE DEF map, next
    <3> QED BY <3>1, <3>2, LosesOneKey DEF map, next
  <2>3. CASE running
    <3> HIDE DEF map, next
    <3> QED BY <2>1, <2>2, <2>3
  <2>4. CASE ~running
    <3>1. todo = <<>> /\ job = NoJob
      BY <1>2, <2>4 DEF EepromTypeOK
    <3>2. Flash = page
      BY <3>1 DEF Flash
    <3>3. next = map
      BY <1>4, <2>1, <3>2
    <3> HIDE DEF map, next
    <3> QED BY <1>2, <2>1, <2>4, <3>1, <3>3 DEF EepromTypeOK
  <2> QED BY <2>3, <2>4
<1>11. ASSUME UNCHANGED eepromVars PROVE Goal
  <2>1. next = map
    BY <1>4, <1>11, StoreStutters
  <2> HIDE DEF map, next
  <2> QED BY <1>11, <2>1 DEF eepromVars
<1>12. Goal
  <2> HIDE DEF Goal
  <2> QED BY <1>5, <1>6, <1>7, <1>8, <1>9, <1>10, <1>11 DEF EepromNext, FlashStep
<1> HIDE DEF map, next
<1>13. NoJob = Store!NoJob
  BY DEF NoJob, Store!NoJob
<1> QED BY <1>1, <1>12, <1>13
        DEF Store!PowerUp, Store!Begin, Store!Commit, Store!End, Store!PowerLoss

(* To its client the emulation is the map of NvStore.tla, for any number   *)
(* of keys and slots and wherever the power fails: a write that returned   *)
(* is in force, a write or a transfer changes no other key, no older value *)
(* comes back, and a power failure costs one key at most.                  *)
THEOREM StoreImplemented == EepromSpec => ImplementsStore
<1>1. StoreInv /\ EepromInv' /\ [EepromNext]_eepromVars =>
        [\/ Store!PowerUp \/ Store!Begin \/ Store!Commit \/ Store!End
         \/ Store!PowerLoss]_<<[k \in Keys |-> Effective(k)], job, running>>
  BY StepOfStore
<1>2. EepromInit => Store!StoreInit
  BY StoreStarts
<1> QED BY StoreInvariance, EepromInvariance, <1>1, <1>2, PTL
        DEF EepromSpec, ImplementsStore, Store!StoreSpec
=============================================================================
