------------------------------- MODULE Eeprom -------------------------------
(***************************************************************************)
(* The EEPROM emulation (src/src/eeprom.cpp): two flash pages, one of them *)
(* valid, to which key/value pairs are appended; when it is full, what is  *)
(* current moves to the other page.                                        *)
(*                                                                         *)
(* Flash is programmed a half word or erased a page at a time; the power   *)
(* may fail between any two of these steps.  todo holds the steps the      *)
(* running init() or write() has left, in the order of its statements.     *)
(* Steps themselves are taken to be indivisible, as AN4061 does.           *)
(***************************************************************************)
EXTENDS Integers, Sequences, FiniteSetsExt

CONSTANTS
  NumKeys,    \* argument of init(): 3 in the program
  NumSlots,   \* slots of a page: PageSlots in the code
  Values,     \* values written, of 16 bits
  MaxCrashes  \* bound: times the power fails while steps are left, after one write()

PageSlots == 255     \* what a page of 1KB has room for
Blank     == 65535   \* an erased half word

ASSUME EepromAssumption ==
  /\ NumKeys \in Nat \ {0}
  /\ MaxCrashes \in Nat
  (* a transfer that is redone appends all keys but one again: enough slots *)
  (* for all attempts                                                       *)
  /\ NumSlots \in Nat /\ NumSlots <= PageSlots
  /\ NumSlots >= NumKeys + (NumKeys - 1) * MaxCrashes
  /\ Values \subseteq 0 .. Blank - 1

VARIABLES
  page,       \* the flash: [0 .. 1 -> status and slots]
  running,    \* FALSE: powered on, init() has not looked at the pages yet
  todo,       \* steps left
  job,        \* the write under way, or NoJob
  crashes     \* such power failures since the last write() began

eepromVars == <<page, running, todo, job, crashes>>

Pages    == {0, 1}
NoPage   == 2
Slots    == 1 .. NumSlots
Keys     == 0 .. NumKeys - 1
NotFound == -1
NoJob    == [key |-> NotFound, value |-> NotFound]

EmptySlot == [key |-> Blank, value |-> Blank]
ErasedPage == [status |-> "erased", slots |-> [i \in Slots |-> EmptySlot]]

EepromInit ==
  /\ page = [p \in Pages |-> ErasedPage]
  /\ running = FALSE /\ todo = <<>> /\ job = NoJob
  /\ crashes = 0

-----------------------------------------------------------------------------
(* Reading *)

Has(p, status) == page[p].status = status

(* find_valid_page(operation_e::read) *)
ReadPage ==
  IF Has(0, "valid") THEN 0 ELSE IF Has(1, "valid") THEN 1 ELSE NoPage

(* find_valid_page(operation_e::write): a page in transfer comes first. *)
WritePage ==
  CASE Has(1, "valid") -> IF Has(0, "in_transfer") THEN 0 ELSE 1
    [] Has(0, "valid") /\ ~Has(1, "valid") -> IF Has(1, "in_transfer") THEN 1 ELSE 0
    [] OTHER -> NoPage

(* The loop of read: the last slot with the key counts. *)
Latest(pg, key) ==
  LET matching == {i \in Slots : pg.slots[i].key = key}
  IN  IF matching = {} THEN NotFound ELSE pg.slots[Max(matching)].value

Read(key) == IF ReadPage = NoPage THEN NotFound ELSE Latest(page[ReadPage], key)

FreeSlots(p) == {i \in Slots : page[p].slots[i] = EmptySlot}

-----------------------------------------------------------------------------
(* Steps *)

AppendPair(k, v) == [do |-> "append", key |-> k, value |-> v]
Value(p, s, v)  == [do |-> "value", page |-> p, slot |-> s, value |-> v]
Copy(k, skip)   == [do |-> "copy", key |-> k, skip |-> skip]
Erase(p)        == [do |-> "erase", page |-> p]
Mark(p, status) == [do |-> "mark", page |-> p, status |-> status]

(* format *)
Format == <<Erase(0), Mark(0, "valid"), Erase(1)>>

(* The end of a transfer from p to the other page *)
M_OldPageKept(p) == <<Mark(1 - p, "valid")>>
M_ValidBeforeErase(p) == <<Mark(1 - p, "valid"), Erase(p)>>
FinishTransfer(p) == <<Erase(p), Mark(1 - p, "valid")>>

(* The first half of init: what the headers call for.  A page in transfer  *)
(* next to a valid one is filled again, except for the key in its first    *)
(* slot.                                                                   *)
Transferring(p) == page[p].status \in {"valid", "erased"} /\ Has(1 - p, "in_transfer")

Repair ==
  IF \E p \in Pages : Has(p, "valid") /\ Has(1 - p, "erased") THEN <<>>
  ELSE IF \E p \in Pages : Transferring(p)
  THEN LET p == CHOOSE p \in Pages : Transferring(p)
       IN  (IF Has(p, "valid") THEN <<Copy(0, page[1 - p].slots[1].key)>> ELSE <<>>)
           \o FinishTransfer(p)
  ELSE Format

Boot ==
  /\ ~running /\ running' = TRUE
  /\ todo' = Repair
  /\ UNCHANGED <<page, job, crashes>>

(* write: append, or else transfer_page. *)
Write(k, v) ==
  /\ running /\ todo = <<>> /\ job = NoJob
  /\ job' = [key |-> k, value |-> v]
  /\ crashes' = 0
  /\ LET old == ReadPage
     IN  todo' = IF WritePage = NoPage THEN <<>>
                 ELSE IF FreeSlots(WritePage) # {} THEN <<AppendPair(k, v)>>
                 ELSE <<Mark(1 - old, "in_transfer"), AppendPair(k, v), Copy(0, k)>>
                      \o FinishTransfer(old)
  /\ UNCHANGED <<page, running>>

(* write returns. *)
WriteEnds ==
  /\ job # NoJob /\ todo = <<>>
  /\ job' = NoJob
  /\ UNCHANGED <<page, running, todo, crashes>>

Step(what) == /\ todo # <<>> /\ Head(todo).do = what
              /\ UNCHANGED <<running, job, crashes>>

(* append_key_value: the key goes to the first free slot of the page ...   *)
(* (transfer_page looks at its result for the first pair only, and that    *)
(* one goes to an erased page).                                            *)
ProgramKey ==
  /\ Step("append")
  /\ LET p == WritePage
         s == Min(FreeSlots(p))
     IN  IF p = NoPage \/ FreeSlots(p) = {}
         THEN todo' = Tail(todo) /\ UNCHANGED page
         ELSE /\ page' = [page EXCEPT ![p].slots[s].key = Head(todo).key]
              /\ todo' = <<Value(p, s, Head(todo).value)>> \o Tail(todo)

(* ... and then the value. *)
ProgramValue ==
  /\ Step("value")
  /\ page' = [page EXCEPT ![Head(todo).page].slots[Head(todo).slot].value = Head(todo).value]
  /\ todo' = Tail(todo)

(* copy_slots, the round for one key *)
M_NextKey(k) == k
NextKey(k) == k + 1

M_CopiedAlways(k, skip) == k # skip
Copied(k, skip) == k # skip /\ Read(k) # NotFound

CopySlot ==
  /\ Step("copy")
  /\ LET k    == Head(todo).key
         skip == Head(todo).skip
         rest == <<Copy(NextKey(k), skip)>> \o Tail(todo)
     IN  todo' = IF k = NumKeys THEN Tail(todo)
                 ELSE IF ~Copied(k, skip) THEN rest
                 ELSE <<AppendPair(k, Read(k))>> \o rest
  /\ UNCHANGED page

ErasePage ==
  /\ Step("erase")
  /\ page' = [page EXCEPT ![Head(todo).page] = ErasedPage]
  /\ todo' = Tail(todo)

(* A half word can be programmed if it is erased, or to 0 ("valid"). *)
ProgramStatus ==
  /\ Step("mark")
  /\ page' = [page EXCEPT ![Head(todo).page].status =
                IF @ = "erased" \/ Head(todo).status = "valid" THEN Head(todo).status ELSE @]
  /\ todo' = Tail(todo)

(* The power fails; only the flash is left. *)
Crash ==
  /\ IF todo = <<>> THEN UNCHANGED crashes
     ELSE crashes < MaxCrashes /\ crashes' = crashes + 1
  /\ running' = FALSE /\ todo' = <<>> /\ job' = NoJob
  /\ UNCHANGED page

-----------------------------------------------------------------------------
FlashStep == ProgramKey \/ ProgramValue \/ CopySlot \/ ErasePage \/ ProgramStatus

EepromNext ==
  \/ Boot
  \/ \E k \in Keys, v \in Values : Write(k, v)
  \/ WriteEnds
  \/ FlashStep
  \/ Crash

EepromSpec == EepromInit /\ [][EepromNext]_eepromVars

(* The program runs as long as it has power. *)
EepromFairSpec == EepromSpec /\ WF_eepromVars(Boot) /\ WF_eepromVars(FlashStep \/ WriteEnds)

-----------------------------------------------------------------------------
(* What the flash amounts to, in the terms of NvStore.tla *)

(* The flash once a value whose key is programmed has followed *)
Flash ==
  IF todo # <<>> /\ Head(todo).do = "value"
  THEN [page EXCEPT ![Head(todo).page].slots[Head(todo).slot].value = Head(todo).value]
  ELSE page

(* What read() would give, were init() to find these pages now: of a page  *)
(* in transfer next to a valid one only the first slot will stay in force. *)
In(pages, status) == {p \in Pages : pages[p].status = status}
InForce(pages, k) ==
  LET moving == In(pages, "in_transfer")
      valid  == In(pages, "valid")
  IN  IF moving # {}
      THEN LET q == Min(moving)
           IN  IF valid = {} THEN Latest(pages[q], k)
               ELSE IF pages[q].slots[1].key = k THEN pages[q].slots[1].value
               ELSE Latest(pages[1 - q], k)
      ELSE IF valid = {} THEN NotFound
      ELSE Latest(pages[Min(valid)], k)

Effective(k) == InForce(Flash, k)

Store == INSTANCE NvStore WITH map <- [k \in Keys |-> Effective(k)], on <- running

-----------------------------------------------------------------------------
(* Properties *)

EepromTypeOK ==
  /\ page \in [Pages -> [status : {"erased", "in_transfer", "valid"},
                         slots : [Slots -> [key : Keys \cup {Blank},
                                            value : Values \cup {Blank}]]]]
  /\ running \in BOOLEAN
  /\ job \in {NoJob} \cup [key : Keys, value : Values]
  /\ crashes \in 0 .. MaxCrashes
  /\ ~running => todo = <<>> /\ job = NoJob

(* No slot of the page is used behind a free one. *)
Neat(p) == \A i \in FreeSlots(p), j \in Slots : j > i => j \in FreeSlots(p)

(* "Restores the pages to a known good state if needed" (eeprom.h:29):     *)
(* whenever init() or write() is through, however often they were cut off  *)
(* before, one page is valid and the other erased from end to end, and no  *)
(* slot is used behind a free one.                                         *)
KnownGoodState ==
  running /\ todo = <<>> =>
    \E p \in Pages : Has(p, "valid") /\ page[1 - p] = ErasedPage /\ Neat(p)

(* The pages implement a map: a write that returned is in force, a write   *)
(* or a transfer changes no other key, no older value ever comes back, and *)
(* a power failure, in the middle of a repair too, costs one key at most.  *)
ImplementsStore == Store!StoreSpec

(* Whatever is cut off, the pages are put in order again and the writes    *)
(* come to an end: copy_slots and the repair terminate.                    *)
Settles == []<>(running /\ todo = <<>> /\ job = NoJob)

(* "Restores the pages to a known good state": after init() a key has a    *)
(* value that was written to it, or none.                                  *)
OnlyWrittenValues == running /\ todo = <<>> => \A k \in Keys : Read(k) # Blank

(* The same for what a write had nothing to do with: while none is under   *)
(* way, repairing the pages loses no value.                                *)
RepairKeepsValues ==
  [][job = NoJob => \A k \in Keys : Effective(k)' = Effective(k)]_eepromVars

-----------------------------------------------------------------------------
(* What EepromTypeOK and KnownGoodState need to be inductive *)

Stored == Values \cup {Blank}

Settled(p) == Has(p, "valid")  /\ Has(1 - p, "erased")
Moving(p)  == Has(p, "valid")  /\ Has(1 - p, "in_transfer")
Moved(p)   == Has(p, "erased") /\ Has(1 - p, "in_transfer")

(* The statuses that the pages have, in operation and after any power      *)
(* failure; an erased page is empty, no slot is used behind a free one.    *)
PagesFit ==
  /\ (\A p \in Pages : Has(p, "erased")) \/ (\E p \in Pages : Settled(p) \/ Moving(p) \/ Moved(p))
  /\ \A p \in Pages : Neat(p) /\ (Has(p, "erased") => page[p] = ErasedPage)

(* Steps that append to page p *)
KeySlots(p) == {i \in Slots : page[p].slots[i].key # Blank}
PairSteps(p) ==
  {AppendPair(k, v) : k \in Keys, v \in Stored}
  \cup {Value(p, s, v) : s \in KeySlots(p), v \in Stored}
CopySteps == {Copy(k, skip) : k \in 0 .. NumKeys, skip \in Keys \cup {Blank}}

(* What is left to do suits the pages: every prefix of it that is done     *)
(* before the power fails leaves pages that PagesFit describes.            *)
TodoFits ==
  \/ todo = <<>> /\ (running => \E p \in Pages : Settled(p))
  \/ /\ \A p \in Pages : Has(p, "erased")
     /\ todo = Format \/ todo = <<Mark(0, "valid"), Erase(1)>>
  \/ Settled(0) /\ todo = <<Erase(1)>>
  \/ \E p \in Pages :
       \/ Settled(p) /\ \E x \in PairSteps(p) : todo = <<x>>
       \/ Settled(p) /\ \E k \in Keys, v \in Stored :
            todo = <<Mark(1 - p, "in_transfer"), AppendPair(k, v), Copy(0, k)>> \o FinishTransfer(p)
       \/ Moving(p) /\ \E x \in PairSteps(1 - p), c \in CopySteps : todo = <<x, c>> \o FinishTransfer(p)
       \/ Moving(p) /\ \E c \in CopySteps : todo = <<c>> \o FinishTransfer(p)
       \/ (Moving(p) \/ Moved(p)) /\ todo = FinishTransfer(p)
       \/ Moved(p) /\ todo = <<Mark(1 - p, "valid")>>

EepromInv == EepromTypeOK /\ PagesFit /\ TodoFits
=============================================================================
