--------------------------- MODULE PersistentConfig ---------------------------
(***************************************************************************)
(* components/persistent_config: one configuration kept in two flash       *)
(* sectors, across power cuts at any point and flash operations that fail. *)
(*                                                                         *)
(* A configuration is a value with a length in flash pages; its records    *)
(* fill that many pages of a slot and a header page names them.  Both CRCs *)
(* are taken to tell every other content apart, so a slot is valid exactly *)
(* when its header was written whole and every page of its records is the  *)
(* one the header was written for.                                         *)
(*                                                                         *)
(* A step is one flash operation or one call that makes none.  Power may   *)
(* be cut in any state, leaving the operation in progress half done.       *)
(*                                                                         *)
(* Some definitions are preceded by a faulty variant of theirs that no     *)
(* specification here uses: the slip a property below would catch.         *)
(***************************************************************************)
EXTENDS Naturals

CONSTANTS Configs,      \* the values the working copy can take
          EmptyConfig,  \* the one of config_store_init and config_clear
          None,         \* what an unreadable pair of slots recovers to
          PagesOf,      \* pages of records of each configuration
          SlotPages,    \* persistent_config_capacity, in pages
          BufferPages,  \* sizes of the buffers that firmware images pass to load
          HalfRange     \* half the range of the 32-bit sequence number

ASSUME ConfigsAssumption ==
    /\ EmptyConfig \in Configs /\ None \notin Configs
    /\ {"erased", "torn"} \cap Configs = {}
    /\ PagesOf \in [Configs -> Nat] /\ PagesOf[EmptyConfig] = 0
ASSUME SizesAssumption ==
    /\ SlotPages \in Nat \ {0} /\ BufferPages \subseteq Nat \ {0} /\ BufferPages # {}
    /\ HalfRange \in Nat /\ HalfRange >= 2

VARIABLES slots,        \* the two flash sectors
          store, capacity, current, sequence, loaded,  \* the persistent_config_t
          pc, target, page,     \* the call in progress
          result,               \* what the last call returned
          acceptable,           \* history: what a power cycle may recover now
          exposed,              \* history: what it may once an erase reached the current slot
          refused               \* history: the last load found a set too large for its buffer

ram == <<store, capacity, current, sequence, loaded>>
history == <<acceptable, exposed, refused>>
vars == <<slots, ram, pc, target, page, result, history>>

Slot == 0..1
Sequence == 0..(2 * HalfRange - 1)
Content == Configs \cup {"erased", "torn"}

ErasedSlot == [magic |-> "erased", sequence |-> 0, records |-> EmptyConfig,
               pages |-> [p \in 1..SlotPages |-> "erased"]]

\* Counting on without the width of the field.
NextUnbounded(s) == s + 1

Next32(s) == IF s = 2 * HalfRange - 1 THEN 0 ELSE s + 1

\* The signed difference of two 32-bit counters is positive.
sequence_is_later(a, b) ==
    LET difference == IF a >= b THEN a - b ELSE a + 2 * HalfRange - b
    IN  0 < difference /\ difference < HalfRange

slot_read(slot) == /\ slot.magic = "written"
                   /\ PagesOf[slot.records] <= SlotPages
                   /\ \A p \in 1..SlotPages :
                         p <= PagesOf[slot.records] => slot.pages[p] = slot.records

Readable(i) == slot_read(slots[i])

\* The slot load reads: the later of two valid ones, or the only one.
Chosen(flash, i) ==
    /\ slot_read(flash[i])
    /\ slot_read(flash[1 - i]) =>
          IF i = 1 THEN sequence_is_later(flash[1].sequence, flash[0].sequence)
                   ELSE ~ sequence_is_later(flash[1].sequence, flash[0].sequence)

\* What a power cycle recovers, given a large enough buffer.
RecoveredFrom(flash) ==
    IF \E i \in Slot : slot_read(flash[i])
    THEN flash[CHOOSE i \in Slot : Chosen(flash, i)].records
    ELSE None

Recovered == RecoveredFrom(slots)

\* The call in progress returns, and its locals with it.
Return(code) == pc' = "idle" /\ target' = 0 /\ page' = 1 /\ result' = code
-----------------------------------------------------------------------------
Init == /\ slots = [i \in Slot |-> ErasedSlot]
        /\ store = EmptyConfig /\ capacity \in BufferPages
        /\ current = 0 /\ sequence = 0 /\ loaded = FALSE
        /\ pc = "off" /\ target = 0 /\ page = 1 /\ result = "none"
        /\ acceptable = {None} /\ exposed = {} /\ refused = FALSE

(***************************************************************************)
(* persistent_config_load, at startup or on request.  A boot may be that   *)
(* of another firmware image, with another buffer.                         *)
(***************************************************************************)
CanLoad == \/ pc = "off" /\ capacity' \in BufferPages
           \/ pc = "idle" /\ capacity' = capacity

Adopt(config, i, seq, ok) ==
    /\ store' = config /\ current' = i /\ sequence' = seq /\ loaded' = ok
    /\ acceptable' = {Recovered} /\ exposed' = {}
    /\ UNCHANGED slots

LoadNothing ==
    /\ CanLoad
    /\ \A i \in Slot : ~ Readable(i)
    /\ Adopt(EmptyConfig, 0, 0, FALSE)
    /\ refused' = FALSE
    /\ Return(IF \A i \in Slot : slots[i].magic = "erased" THEN "empty" ELSE "corrupt")

LoadTooLarge(i) ==
    /\ CanLoad /\ Chosen(slots, i)
    /\ PagesOf[slots[i].records] > capacity'
    /\ Adopt(EmptyConfig, 0, 0, FALSE)
    /\ refused' = TRUE
    /\ Return("too_large")

LoadSlot(i) ==
    /\ CanLoad /\ Chosen(slots, i)
    /\ PagesOf[slots[i].records] <= capacity'
    /\ Adopt(slots[i].records, i, slots[i].sequence, TRUE)
    /\ refused' = FALSE
    /\ Return("loaded")

\* config_set, config_remove and config_clear on the working copy.
Edit(config) == /\ pc = "idle" /\ PagesOf[config] <= capacity
                /\ store' = config
                /\ UNCHANGED <<slots, capacity, current, sequence, loaded, pc, target,
                               page, result, history>>

(***************************************************************************)
(* persistent_config_save.                                                 *)
(***************************************************************************)
SaveTooLarge == /\ pc = "idle" /\ PagesOf[store] > SlotPages
                /\ Return("too_large")
                /\ UNCHANGED <<slots, ram, history>>

SaveInto(slot) == /\ pc = "idle" /\ PagesOf[store] <= SlotPages
                  /\ target' = slot
                  /\ pc' = "erase" /\ result' = "none"
                  /\ acceptable' = acceptable \cup {store}
                  /\ UNCHANGED <<slots, ram, page, exposed, refused>>

SaveBegin == SaveInto(IF loaded THEN 1 - current ELSE 0)

SaveErase == /\ pc = "erase"
             /\ slots' = [slots EXCEPT ![target] = ErasedSlot]
             /\ pc' = "program" /\ page' = 1
             /\ UNCHANGED <<ram, target, result, history>>

\* Programming can only clear bits: a page has to be erased to take new data.
SaveRecords == /\ pc = "program" /\ page <= PagesOf[store]
               /\ slots[target].pages[page] = "erased"
               /\ slots' = [slots EXCEPT ![target].pages[page] = store]
               /\ page' = page + 1
               /\ UNCHANGED <<ram, pc, target, result, history>>

WrittenHeader(slot) == [slot EXCEPT !.magic = "written", !.sequence = Next32(sequence),
                                    !.records = store]

\* The header first, and the records after it.
SaveHeaderFirst == /\ pc = "program" /\ page >= PagesOf[store]
                   /\ slots[target].magic = "erased"
                   /\ slots' = [slots EXCEPT ![target] = WrittenHeader(@)]
                   /\ current' = target /\ sequence' = Next32(sequence) /\ loaded' = TRUE
                   /\ Return("saved") /\ acceptable' = {store} /\ exposed' = {}
                   /\ UNCHANGED <<store, capacity, refused>>

SaveHeader == /\ pc = "program" /\ page > PagesOf[store]
              /\ slots[target].magic = "erased"
              /\ slots' = [slots EXCEPT ![target] = WrittenHeader(@)]
              /\ current' = target /\ sequence' = Next32(sequence) /\ loaded' = TRUE
              /\ Return("saved") /\ acceptable' = {store} /\ exposed' = {}
              /\ UNCHANGED <<store, capacity, refused>>

\* Where a program of one page can leave it when it goes wrong: untouched,
\* half written, or written whole with a fault in the padding.
MisprogrammedPage(slot) ==
    IF page <= PagesOf[store]
    THEN { [slot EXCEPT !.pages[page] = content] : content \in {slot.pages[page], "torn", store} }
    ELSE { slot, [slot EXCEPT !.magic = "torn"], WrittenHeader(slot) }

\* A failed save that moves on to the other slot all the same.
SaveFailsButSwitches ==
    /\ pc = "program"
    /\ \E slot \in MisprogrammedPage(slots[target]) :
          slots' = [slots EXCEPT ![target] = slot]
    /\ current' = target /\ loaded' = TRUE
    /\ Return("flash")
    /\ UNCHANGED <<store, capacity, sequence, history>>

\* flash_safe_execute refuses, or the page does not read back as written.
SaveFails == /\ \/ pc = "erase" /\ slots' = slots
                \/ pc = "program" /\ \E slot \in MisprogrammedPage(slots[target]) :
                                        slots' = [slots EXCEPT ![target] = slot]
             /\ Return("flash")
             /\ UNCHANGED <<ram, history>>

(***************************************************************************)
(* persistent_config_erase: slot 0, then slot 1, whichever is current, and  *)
(* then the working copy.                                                  *)
(***************************************************************************)
\* What is left behind when the slot being erased is the current one: the
\* older configuration, while the other slot still holds it, or nothing.
Expose == exposed' = IF loaded /\ current # target THEN exposed
                     ELSE exposed \cup {None, RecoveredFrom([slots EXCEPT ![target] = ErasedSlot])}

EraseBegin == /\ pc = "idle"
              /\ pc' = "wipe" /\ target' = 0 /\ result' = "none"
              /\ UNCHANGED <<slots, ram, page, history>>

EraseFirst == /\ pc = "wipe" /\ target = 0
              /\ slots' = [slots EXCEPT ![0] = ErasedSlot]
              /\ target' = 1 /\ Expose
              /\ UNCHANGED <<ram, pc, page, result, acceptable, refused>>

EraseSecond == /\ pc = "wipe" /\ target = 1
               /\ slots' = [slots EXCEPT ![1] = ErasedSlot]
               /\ store' = EmptyConfig /\ loaded' = FALSE /\ sequence' = 0 /\ current' = 0
               /\ Return("erased") /\ acceptable' = {None} /\ exposed' = {}
               /\ UNCHANGED <<capacity, refused>>

EraseFails == /\ pc = "wipe"
              /\ Return("flash")
              /\ UNCHANGED <<slots, ram, history>>

(***************************************************************************)
(* Power.                                                                  *)
(***************************************************************************)
\* Each page of a sector whose erase is cut short is as it was, blank, or
\* neither.
HalfErased(slot) ==
    { torn \in [magic : {slot.magic, "torn", "erased"}, sequence : {slot.sequence},
                records : {slot.records}, pages : [1..SlotPages -> Content]] :
        \A p \in 1..SlotPages : torn.pages[p] \in {slot.pages[p], "torn", "erased"} }

PowerCut ==
    /\ pc # "off"
    /\ \/ pc = "idle" /\ slots' = slots
       \/ pc = "program" /\ \E slot \in MisprogrammedPage(slots[target]) :
                               slots' = [slots EXCEPT ![target] = slot]
       \/ pc \in {"erase", "wipe"} /\ \E slot \in HalfErased(slots[target]) :
                                         slots' = [slots EXCEPT ![target] = slot]
    /\ store' = EmptyConfig /\ current' = 0 /\ sequence' = 0 /\ loaded' = FALSE
    /\ IF pc = "wipe" THEN Expose ELSE exposed' = exposed
    /\ pc' = "off" /\ target' = 0 /\ page' = 1 /\ result' = "none"
    /\ UNCHANGED <<capacity, acceptable, refused>>

Load == LoadNothing \/ \E i \in Slot : LoadTooLarge(i) \/ LoadSlot(i)

Save == SaveTooLarge \/ SaveBegin \/ SaveErase \/ SaveRecords \/ SaveHeader \/ SaveFails

Erase == EraseBegin \/ EraseFirst \/ EraseSecond \/ EraseFails

Next == Load \/ Save \/ Erase \/ PowerCut \/ \E config \in Configs : Edit(config)

Spec == Init /\ [][Next]_vars
-----------------------------------------------------------------------------
(***************************************************************************)
(* Properties.                                                             *)
(***************************************************************************)
\* Every part of the state has its type, and the page cursor stays in a slot.
TypeOK == /\ slots \in [Slot -> [magic : {"erased", "torn", "written"}, sequence : Sequence,
                                 records : Configs, pages : [1..SlotPages -> Content]]]
          /\ store \in Configs /\ capacity \in BufferPages
          /\ current \in Slot /\ sequence \in Sequence /\ loaded \in BOOLEAN
          /\ pc \in {"off", "idle", "erase", "program", "wipe"} /\ target \in Slot
          /\ page \in 1..SlotPages+1
          /\ result \in {"none", "loaded", "empty", "corrupt", "too_large", "saved",
                         "flash", "erased"}
          /\ acceptable \subseteq Configs \cup {None} /\ exposed \subseteq Configs \cup {None}
          /\ refused \in BOOLEAN

\* Whatever is cut or fails, a power cycle recovers the last configuration
\* saved or loaded, or one whose save was begun since
\* (persistent_config_save's order of erase, records and header).  Only when
\* an erase has reached the current slot may it find something else: nothing,
\* or, when slot 0 was the current one and so went first, the older
\* configuration of slot 1, which then comes back as if it were the newest
\* (persistent_config_erase, cut or refused between its two erases).
\* Sessions whose load was refused for want of buffer are left out: see below.
PowerCycleKeepsConfig == ~ refused => Recovered \in acceptable \cup exposed

\* Whatever fails, and while an erase works on the other slot too, the slot
\* the session takes for current is readable and carries the session's
\* sequence number, so the next save spares it.
CurrentSlotSurvives ==
    (pc # "off" /\ loaded /\ ~ refused /\ exposed = {}) =>
        Readable(current) /\ slots[current].sequence = sequence

\* What README.md says of a save in progress: it can be interrupted at any
\* point without losing the previous configuration.
InterruptedSaveKeepsPrevious == pc \in {"erase", "program"} => Recovered \in acceptable
=============================================================================
