------------------------ MODULE PersistentConfigProofs ------------------------
(***************************************************************************)
(* For any set of configurations, slot size and counter width: power cuts  *)
(* and flash failures at any point of a save never lose the configuration  *)
(* that was current when it began, and at any point of an erase they leave *)
(* that, nothing, or, when it was the first to go, the older one.          *)
(***************************************************************************)
EXTENDS PersistentConfig, TLAPS

-----------------------------------------------------------------------------
(***************************************************************************)
(* The sequence number, and what two slots recover to.                     *)
(***************************************************************************)
\* A save's sequence number is later than the one it follows, and not the
\* other way round, across the wrap too.
LEMMA NextIsLater ==
    ASSUME NEW s \in Sequence
    PROVE  /\ Next32(s) \in Sequence
           /\ sequence_is_later(Next32(s), s)
           /\ ~ sequence_is_later(s, Next32(s))
BY SizesAssumption DEF Sequence, Next32, sequence_is_later

\* load chooses one slot at most, and one exactly when any is readable.
LEMMA RecoveredIsChosen ==
    ASSUME NEW f, NEW i \in Slot, Chosen(f, i)
    PROVE  RecoveredFrom(f) = f[i].records
<1>1. \A j \in Slot : Chosen(f, j) => j = i
  BY DEF Chosen, Slot
<1>2. i = CHOOSE j \in Slot : Chosen(f, j)
  BY <1>1
<1>3. slot_read(f[i])
  BY DEF Chosen
<1> QED BY <1>2, <1>3 DEF RecoveredFrom

LEMMA SomeSlotIsChosen ==
    ASSUME NEW f, NEW j \in Slot, slot_read(f[j])
    PROVE  \E i \in Slot : Chosen(f, i)
BY DEF Chosen, Slot

LEMMA RecoveredIsReadable ==
    ASSUME NEW f
    PROVE  \/ RecoveredFrom(f) = None /\ \A i \in Slot : ~ slot_read(f[i])
           \/ \E i \in Slot : slot_read(f[i]) /\ RecoveredFrom(f) = f[i].records
<1>1. CASE \A i \in Slot : ~ slot_read(f[i])
  BY <1>1 DEF RecoveredFrom
<1>2. CASE \E i \in Slot : slot_read(f[i])
  <2>1. PICK i \in Slot : Chosen(f, i)
    BY <1>2, SomeSlotIsChosen
  <2> QED BY <2>1, RecoveredIsChosen DEF Chosen
<1> QED BY <1>1, <1>2

\* A slot alone in being readable is what load chooses.
LEMMA RecoveredAlone ==
    ASSUME NEW f, NEW i \in Slot, slot_read(f[i]), ~ slot_read(f[1 - i])
    PROVE  RecoveredFrom(f) = f[i].records
BY RecoveredIsChosen DEF Chosen

\* Of two readable slots, load chooses the one with the next sequence number.
LEMMA RecoveredNewer ==
    ASSUME NEW f, NEW i \in Slot, NEW s \in Sequence,
           slot_read(f[i]), f[i].sequence = Next32(s),
           slot_read(f[1 - i]) => f[1 - i].sequence = s
    PROVE  RecoveredFrom(f) = f[i].records
BY NextIsLater, RecoveredIsChosen DEF Chosen, Slot

-----------------------------------------------------------------------------
(***************************************************************************)
(* The inductive invariant.                                                *)
(***************************************************************************)
\* The call in progress works on the slot that is not current, whose header
\* is unreadable until every page of its records has been written.
CallInProgress ==
    /\ pc \in {"erase", "program"} =>
          /\ target = (IF loaded THEN 1 - current ELSE 0)
          /\ store \in acceptable /\ PagesOf[store] <= SlotPages
    /\ pc = "program" =>
          /\ slots[target].magic # "written" /\ page <= PagesOf[store] + 1
          /\ \A p \in 1..SlotPages : p < page => slots[target].pages[p] = store

\* A session agrees with its current slot while that is readable; it only
\* ceases to be when an erase has reached it.
Session ==
    (pc # "off" /\ ~ refused) =>
        IF loaded
        THEN IF Readable(current)
             THEN slots[current].sequence = sequence /\ slots[current].records \in acceptable
             ELSE None \in exposed
        ELSE ~ Readable(1) /\ None \in acceptable

\* An erase takes slot 0 first.
Wiping == (pc = "wipe" /\ target = 1) => ~ Readable(0)

IInv == TypeOK /\ PowerCycleKeepsConfig /\ CallInProgress /\ Session /\ Wiping

SlotType == [magic : {"erased", "torn", "written"}, sequence : Sequence,
             records : Configs, pages : [1..SlotPages -> Content]]

LEMMA ErasedSlotType == ErasedSlot \in SlotType /\ ~ slot_read(ErasedSlot)
BY ConfigsAssumption, SizesAssumption DEF ErasedSlot, SlotType, slot_read, Sequence, Content

LEMMA InitIInv == Init => IInv
<1> SUFFICES ASSUME Init PROVE IInv
  OBVIOUS
<1>1. \A i \in Slot : ~ Readable(i)
  BY DEF Init, Readable, slot_read, ErasedSlot, Slot
<1>2. Recovered = None
  BY <1>1 DEF Recovered, RecoveredFrom, Readable
<1>3. TypeOK
  <2>1. slots \in [Slot -> SlotType]
    BY ErasedSlotType DEF Init
  <2>2. 0 \in Slot /\ 0 \in Sequence /\ 1 \in 1..SlotPages+1
    BY SizesAssumption DEF Slot, Sequence
  <2> QED BY <2>1, <2>2, ConfigsAssumption DEF Init, TypeOK, SlotType
<1> QED BY <1>1, <1>2, <1>3
    DEF IInv, Init, PowerCycleKeepsConfig, CallInProgress, Session, Wiping, Slot

-----------------------------------------------------------------------------
(***************************************************************************)
(* What flash operations that go wrong leave behind.                       *)
(***************************************************************************)
\* A half-erased sector is unreadable unless nothing that matters changed.
LEMMA HalfErasedIsOld ==
    ASSUME NEW slot \in SlotType, NEW torn \in HalfErased(slot)
    PROVE  /\ torn \in SlotType
           /\ torn.sequence = slot.sequence /\ torn.records = slot.records
           /\ slot_read(torn) => slot_read(slot)
<1>1. /\ torn.magic \in {slot.magic, "torn", "erased"}
      /\ torn.sequence = slot.sequence /\ torn.records = slot.records
      /\ \A p \in 1..SlotPages : torn.pages[p] \in {slot.pages[p], "torn", "erased"}
  BY DEF HalfErased
<1>2. torn \in SlotType
  BY DEF HalfErased, SlotType
<1>4. ASSUME slot_read(torn) PROVE slot_read(slot)
  <2>1. slot.magic = "written"
    BY <1>1, <1>4 DEF slot_read
  <2>2. ASSUME NEW p \in 1..SlotPages, p <= PagesOf[slot.records]
        PROVE  slot.pages[p] = slot.records
    <3>1. torn.pages[p] = slot.records
      BY <1>1, <1>4, <2>2 DEF slot_read
    <3>2. slot.records # "torn" /\ slot.records # "erased"
      BY ConfigsAssumption DEF SlotType
    <3> QED BY <1>1, <3>1, <3>2
  <2> QED BY <1>1, <1>4, <2>1, <2>2 DEF slot_read
<1> QED BY <1>1, <1>2, <1>4

\* Programming goes wrong on an unreadable slot: it stays so, unless the whole
\* header landed after all the records.
LEMMA MisprogrammedIsNew ==
    ASSUME TypeOK, NEW slot \in SlotType, slot.magic # "written",
           NEW torn \in MisprogrammedPage(slot)
    PROVE  /\ torn \in SlotType
           /\ slot_read(torn) => torn.records = store /\ torn.sequence = Next32(sequence)
<1>1. store \in Configs /\ page \in 1..SlotPages+1 /\ Next32(sequence) \in Sequence
  BY NextIsLater DEF TypeOK
<1>2. CASE page <= PagesOf[store]
  <2>1. PICK content \in {slot.pages[page], "torn", store} :
           torn = [slot EXCEPT !.pages[page] = content]
    BY <1>2 DEF MisprogrammedPage
  <2>2. torn.magic = slot.magic
    BY <2>1 DEF SlotType
  <2>3. torn \in SlotType
    <3>1. CASE page \in 1..SlotPages
      <4>1. content \in Content /\ slot.pages \in [1..SlotPages -> Content]
        BY <1>1, <2>1, <3>1 DEF SlotType, Content
      <4>2. [slot.pages EXCEPT ![page] = content] \in [1..SlotPages -> Content]
        BY <4>1
      <4>3. torn = [slot EXCEPT !.pages = [slot.pages EXCEPT ![page] = content]]
        BY <2>1
      <4> QED BY <4>2, <4>3 DEF SlotType
    <3>2. CASE page \notin 1..SlotPages
      BY <2>1, <3>2 DEF SlotType
    <3> QED BY <3>1, <3>2
  <2> QED BY <2>2, <2>3 DEF slot_read
<1>3. CASE ~ (page <= PagesOf[store])
  <2>1. CASE torn = slot
    BY <2>1 DEF slot_read
  <2>2. CASE torn = [slot EXCEPT !.magic = "torn"]
    BY <2>2 DEF slot_read, SlotType
  <2>3. CASE torn = WrittenHeader(slot)
    BY <1>1, <2>3 DEF WrittenHeader, SlotType
  <2> QED BY <1>3, <2>1, <2>2, <2>3 DEF MisprogrammedPage
<1> QED BY <1>2, <1>3

\* When one slot has become unreadable, load is left with the other.
LEMMA LeftWithOther ==
    ASSUME NEW f, NEW g, NEW o \in Slot, g[1 - o] = f[1 - o], ~ slot_read(g[o])
    PROVE  RecoveredFrom(g) = IF slot_read(f[1 - o]) THEN f[1 - o].records ELSE None
<1>1. 1 - o \in Slot /\ 1 - (1 - o) = o /\ \A i \in Slot : i = o \/ i = 1 - o
  BY DEF Slot
<1>2. CASE slot_read(f[1 - o])
  BY <1>1, <1>2, RecoveredAlone
<1>3. CASE ~ slot_read(f[1 - o])
  BY <1>1, <1>3, RecoveredIsReadable
<1> QED BY <1>2, <1>3

\* Slots that read the same recover the same.
LEMMA SameReading ==
    ASSUME NEW f, NEW g,
           \A i \in Slot : /\ slot_read(g[i]) <=> slot_read(f[i])
                           /\ g[i].sequence = f[i].sequence
                           /\ g[i].records = f[i].records
    PROVE  RecoveredFrom(g) = RecoveredFrom(f)
<1>1. \A i \in Slot : Chosen(g, i) <=> Chosen(f, i)
  BY DEF Chosen, Slot
<1>2. CASE \E i \in Slot : Chosen(f, i)
  BY <1>1, <1>2, RecoveredIsChosen
<1>3. CASE ~ \E i \in Slot : Chosen(f, i)
  BY <1>1, <1>3, SomeSlotIsChosen DEF RecoveredFrom
<1> QED BY <1>2, <1>3

-----------------------------------------------------------------------------
(***************************************************************************)
(* Steps on the slot a save or an erase is working on.                     *)
(***************************************************************************)
\* What a save does to its target is acceptable, as long as the target only
\* ever becomes unreadable or takes the new configuration.
LEMMA SaveTarget ==
    ASSUME IInv, pc \in {"erase", "program"}, ~ refused,
           NEW f, NEW new,
           f = [slots EXCEPT ![target] = new],
           slot_read(new) =>
              \/ /\ slot_read(slots[target]) /\ new.sequence = slots[target].sequence
                 /\ new.records = slots[target].records
              \/ new.records = store
    PROVE  RecoveredFrom(f) \in acceptable \cup exposed
<1>1. target \in Slot /\ current \in Slot /\ slots \in [Slot -> SlotType]
  BY DEF IInv, TypeOK, SlotType
<1>2. f[target] = new /\ f[1 - target] = slots[1 - target] /\ 1 - target \in Slot
  BY <1>1 DEF Slot
<1>3. slot_read(slots[1 - target]) => slots[1 - target].records \in acceptable
  BY <1>1 DEF IInv, CallInProgress, Session, Readable, Slot
<1>4. ~ slot_read(slots[1 - target]) => None \in acceptable \cup exposed
  BY <1>1 DEF IInv, CallInProgress, Session, Readable, Slot
<1>5. CASE ~ slot_read(new)
  <2>1. RecoveredFrom(f) = IF slot_read(slots[1 - target]) THEN slots[1 - target].records
                                                           ELSE None
    BY <1>1, <1>2, <1>5, LeftWithOther
  <2> QED BY <1>3, <1>4, <2>1
<1>6. CASE slot_read(new) /\ new.records = store
  <2>1. store \in acceptable
    BY DEF IInv, CallInProgress
  <2>2. ~ \A i \in Slot : ~ slot_read(f[i])
    BY <1>1, <1>2, <1>6
  <2>3. PICK i \in Slot : slot_read(f[i]) /\ RecoveredFrom(f) = f[i].records
    BY <2>2, RecoveredIsReadable
  <2>4. i = target \/ i = 1 - target
    BY <1>1 DEF Slot
  <2> QED BY <1>2, <1>3, <1>6, <2>1, <2>3, <2>4
<1>7. CASE /\ slot_read(new) /\ slot_read(slots[target])
           /\ new.sequence = slots[target].sequence /\ new.records = slots[target].records
  <2>1. \A i \in Slot : /\ slot_read(f[i]) <=> slot_read(slots[i])
                        /\ f[i].sequence = slots[i].sequence
                        /\ f[i].records = slots[i].records
    BY <1>1, <1>2, <1>7 DEF Slot
  <2>2. RecoveredFrom(f) = RecoveredFrom(slots)
    BY <2>1, SameReading
  <2> QED BY <2>2 DEF IInv, PowerCycleKeepsConfig, Recovered
<1> QED BY <1>5, <1>6, <1>7

\* Whatever an erase makes of its target, what is recovered stays within what
\* the history allows.
LEMMA WipeTarget ==
    ASSUME IInv, pc = "wipe", ~ refused, Expose,
           NEW f, NEW new,
           f = [slots EXCEPT ![target] = new],
           slot_read(new) =>
              /\ slot_read(slots[target]) /\ new.sequence = slots[target].sequence
              /\ new.records = slots[target].records
    PROVE  RecoveredFrom(f) \in acceptable \cup exposed'
<1>1. target \in Slot /\ current \in Slot /\ slots \in [Slot -> SlotType]
  BY DEF IInv, TypeOK, SlotType
<1>2. f[target] = new /\ f[1 - target] = slots[1 - target] /\ 1 - target \in Slot
  BY <1>1 DEF Slot
<1>3. exposed \subseteq exposed'
  BY DEF Expose
<1>4. CASE slot_read(new)
  <2>1. \A i \in Slot : /\ slot_read(f[i]) <=> slot_read(slots[i])
                        /\ f[i].sequence = slots[i].sequence
                        /\ f[i].records = slots[i].records
    BY <1>1, <1>2, <1>4 DEF Slot
  <2>2. RecoveredFrom(f) = RecoveredFrom(slots)
    BY <2>1, SameReading
  <2> QED BY <1>3, <2>2 DEF IInv, PowerCycleKeepsConfig, Recovered
<1>5. CASE ~ slot_read(new)
  <2>1. RecoveredFrom(f) = IF slot_read(slots[1 - target]) THEN slots[1 - target].records
                                                           ELSE None
    BY <1>1, <1>2, <1>5, LeftWithOther
  <2>2. CASE loaded /\ current # target
    <3>1. current = 1 - target
      BY <1>1, <2>2 DEF Slot
    <3>2. IF slot_read(slots[current]) THEN slots[current].records \in acceptable
                                       ELSE None \in exposed
      BY <2>2 DEF IInv, Session, Readable
    <3> QED BY <1>3, <2>1, <3>1, <3>2
  <2>3. CASE ~ (loaded /\ current # target)
    <3> DEFINE g == [slots EXCEPT ![target] = ErasedSlot]
    <3>1. g[target] = ErasedSlot /\ g[1 - target] = slots[1 - target]
      BY <1>1 DEF Slot
    <3>2. RecoveredFrom(g) = IF slot_read(slots[1 - target]) THEN slots[1 - target].records
                                                             ELSE None
      BY <1>1, <3>1, LeftWithOther, ErasedSlotType
    <3>3. RecoveredFrom(g) \in exposed'
      BY <2>3 DEF Expose
    <3> QED BY <2>1, <3>2, <3>3
  <2> QED BY <2>2, <2>3
<1> QED BY <1>4, <1>5

\* What an erase exposes is a configuration or nothing.
LEMMA ExposeType ==
    ASSUME TypeOK, Expose
    PROVE  exposed' \subseteq Configs \cup {None}
<1> DEFINE g == [slots EXCEPT ![target] = ErasedSlot]
<1>1. g \in [Slot -> SlotType]
  BY ErasedSlotType DEF TypeOK, SlotType
<1>2. RecoveredFrom(g) \in Configs \cup {None}
  <2> HIDE DEF g
  <2> QED BY <1>1, RecoveredIsReadable DEF SlotType
<1> QED BY <1>2 DEF Expose, TypeOK

\* Every step keeps every part of the state in its type.
LEMMA NextType == IInv /\ [Next]_vars => TypeOK'
<1> SUFFICES ASSUME IInv, [Next]_vars PROVE TypeOK'
  OBVIOUS
<1>0. /\ TypeOK /\ slots \in [Slot -> SlotType] /\ EmptyConfig \in Configs
      /\ 0 \in Slot /\ 0 \in Sequence /\ 1 \in 1..SlotPages+1
      /\ Next32(sequence) \in Sequence /\ Recovered \in Configs \cup {None}
      /\ target \in Slot /\ store \in Configs
  <2>1. slots \in [Slot -> SlotType]
    BY DEF IInv, TypeOK, SlotType
  <2>2. Recovered \in Configs \cup {None}
    BY <2>1, RecoveredIsReadable DEF Recovered, SlotType
  <2>3. 0 \in Slot /\ 0 \in Sequence /\ 1 \in 1..SlotPages+1
    BY SizesAssumption DEF Slot, Sequence
  <2>4. Next32(sequence) \in Sequence
    BY NextIsLater DEF IInv, TypeOK
  <2> QED BY <2>1, <2>2, <2>3, <2>4, ConfigsAssumption DEF IInv, TypeOK
<1>1. ASSUME NEW new \in SlotType, NEW i \in Slot, slots' = [slots EXCEPT ![i] = new]
      PROVE  slots' \in [Slot -> SlotType]
  BY <1>0, <1>1
<1>2. CASE LoadNothing
  BY <1>0, <1>2 DEF LoadNothing, CanLoad, Adopt, Return, TypeOK
<1>3. ASSUME NEW i \in Slot, LoadTooLarge(i) PROVE TypeOK'
  BY <1>0, <1>3 DEF LoadTooLarge, CanLoad, Adopt, Return, TypeOK
<1>4. ASSUME NEW i \in Slot, LoadSlot(i) PROVE TypeOK'
  <2>1. slots[i].records \in Configs /\ slots[i].sequence \in Sequence
    BY <1>0 DEF SlotType
  <2> QED BY <1>0, <1>4, <2>1 DEF LoadSlot, CanLoad, Adopt, Return, TypeOK
<1>5. ASSUME NEW config \in Configs, Edit(config) PROVE TypeOK'
  BY <1>0, <1>5 DEF Edit, history, TypeOK
<1>6. CASE SaveTooLarge
  BY <1>0, <1>6 DEF SaveTooLarge, Return, ram, history, TypeOK
<1>7. CASE SaveBegin
  <2>1. (IF loaded THEN 1 - current ELSE 0) \in Slot
    BY <1>0 DEF TypeOK, Slot
  <2> QED BY <1>0, <1>7, <2>1 DEF SaveBegin, SaveInto, ram, TypeOK
<1>8. CASE SaveErase
  BY <1>0, <1>1, <1>8, ErasedSlotType DEF SaveErase, ram, history, TypeOK, SlotType
<1>9. CASE SaveRecords
  <2>1. page + 1 \in 1..SlotPages+1 /\ page \in 1..SlotPages
    BY <1>0, <1>9, ConfigsAssumption, SizesAssumption
    DEF SaveRecords, IInv, CallInProgress, TypeOK
  <2> DEFINE new == [slots[target] EXCEPT !.pages = [slots[target].pages EXCEPT ![page] = store]]
  <2>2. new \in SlotType
    BY <1>0, <2>1 DEF SlotType, Content
  <2>3. slots' = [slots EXCEPT ![target] = new]
    BY <1>9 DEF SaveRecords
  <2>4. slots' \in [Slot -> SlotType]
    BY <1>0, <1>1, <2>2, <2>3
  <2> QED BY <1>0, <1>9, <2>1, <2>4 DEF SaveRecords, ram, history, TypeOK, SlotType
<1>10. CASE SaveHeader
  <2>1. WrittenHeader(slots[target]) \in SlotType
    BY <1>0 DEF WrittenHeader, SlotType
  <2>2. slots' \in [Slot -> SlotType]
    BY <1>0, <1>1, <1>10, <2>1 DEF SaveHeader
  <2> QED BY <1>0, <1>10, <2>2 DEF SaveHeader, Return, TypeOK, SlotType
<1>11. ASSUME NEW torn \in MisprogrammedPage(slots[target]), pc = "program"
       PROVE  torn \in SlotType
  <2>1. slots[target] \in SlotType /\ slots[target].magic # "written"
    BY <1>0, <1>11 DEF IInv, CallInProgress
  <2> QED BY <1>0, <1>11, <2>1, MisprogrammedIsNew
<1>12. CASE SaveFails
  <2>1. slots' \in [Slot -> SlotType]
    BY <1>0, <1>1, <1>11, <1>12 DEF SaveFails
  <2> QED BY <1>0, <1>12, <2>1 DEF SaveFails, Return, ram, history, TypeOK, SlotType
<1>13. CASE EraseBegin
  BY <1>0, <1>13 DEF EraseBegin, ram, history, TypeOK
<1>14. CASE EraseFirst
  <2>1. exposed' \subseteq Configs \cup {None}
    BY <1>0, <1>14, ExposeType DEF EraseFirst
  <2> QED BY <1>0, <1>1, <1>14, <2>1, ErasedSlotType
          DEF EraseFirst, ram, TypeOK, SlotType, Slot
<1>15. CASE EraseSecond
  <2>1. slots' \in [Slot -> SlotType]
    BY <1>0, <1>1, <1>15, ErasedSlotType DEF EraseSecond, Slot
  <2> QED BY <1>0, <1>15, <2>1 DEF EraseSecond, Return, TypeOK, SlotType
<1>16. CASE EraseFails
  BY <1>0, <1>16 DEF EraseFails, Return, ram, history, TypeOK
<1>17. CASE PowerCut
  <2>1. \A torn \in HalfErased(slots[target]) : torn \in SlotType
    BY <1>0, HalfErasedIsOld
  <2>2. slots' \in [Slot -> SlotType]
    BY <1>0, <1>1, <1>11, <1>17, <2>1 DEF PowerCut
  <2>3. exposed' \subseteq Configs \cup {None}
    BY <1>0, <1>17, ExposeType DEF PowerCut, TypeOK
  <2> QED BY <1>0, <1>17, <2>2, <2>3 DEF PowerCut, TypeOK, SlotType
<1>18. CASE UNCHANGED vars
  BY <1>0, <1>18 DEF vars, ram, history, TypeOK
<1> QED BY <1>2, <1>3, <1>4, <1>5, <1>6, <1>7, <1>8, <1>9, <1>10, <1>12, <1>13, <1>14, <1>15,
           <1>16, <1>17, <1>18 DEF Next, Load, Save, Erase

\* Every step keeps the invariant.
LEMMA NextIInv == IInv /\ [Next]_vars => IInv'
<1> SUFFICES ASSUME IInv, [Next]_vars PROVE IInv'
  OBVIOUS
<1>0. TypeOK' /\ TypeOK /\ slots \in [Slot -> SlotType] /\ target \in Slot
  BY NextType DEF IInv, TypeOK, SlotType
<1>1. ASSUME slots' = slots
      PROVE  Recovered' = Recovered /\ \A i \in Slot : Readable(i)' <=> Readable(i)
  BY <1>1 DEF Recovered, Readable
<1>2. CASE LoadNothing
  BY <1>0, <1>1, <1>2, RecoveredIsReadable DEF LoadNothing, Adopt, Return, IInv,
     PowerCycleKeepsConfig, CallInProgress, Session, Wiping, Recovered, Readable, Slot
<1>3. ASSUME NEW i \in Slot, LoadTooLarge(i) PROVE IInv'
  BY <1>0, <1>3 DEF LoadTooLarge, Adopt, Return, IInv, PowerCycleKeepsConfig,
     CallInProgress, Session, Wiping
<1>4. ASSUME NEW i \in Slot, LoadSlot(i) PROVE IInv'
  <2>1. Recovered = slots[i].records /\ Readable(i)
    BY <1>4, RecoveredIsChosen DEF LoadSlot, Recovered, Readable, Chosen
  <2> QED BY <1>0, <1>1, <1>4, <2>1 DEF LoadSlot, Adopt, Return, IInv,
          PowerCycleKeepsConfig, CallInProgress, Session, Wiping, Readable
<1>5. ASSUME NEW config \in Configs, Edit(config) PROVE IInv'
  BY <1>0, <1>1, <1>5 DEF Edit, history, IInv, PowerCycleKeepsConfig, CallInProgress,
     Session, Wiping, Readable
<1>6. CASE SaveTooLarge
  BY <1>0, <1>1, <1>6 DEF SaveTooLarge, Return, ram, history, IInv, PowerCycleKeepsConfig,
     CallInProgress, Session, Wiping, Readable
<1>7. CASE SaveBegin
  BY <1>0, <1>1, <1>7 DEF SaveBegin, SaveInto, ram, IInv, PowerCycleKeepsConfig,
     CallInProgress, Session, Wiping, Readable
<1>8. ASSUME NEW new, slots' = [slots EXCEPT ![target] = new], pc \in {"erase", "program"},
             UNCHANGED <<current, sequence, loaded, history>>,
             slot_read(new) =>
                \/ /\ slot_read(slots[target]) /\ new.sequence = slots[target].sequence
                   /\ new.records = slots[target].records
                \/ new.records = store
      PROVE  PowerCycleKeepsConfig' /\ Session'
  <2>1. PowerCycleKeepsConfig'
    BY <1>8, SaveTarget DEF PowerCycleKeepsConfig, Recovered, history
  <2>2. IF loaded THEN slots'[current] = slots[current] ELSE slots'[1] = slots[1]
    BY <1>0, <1>8 DEF IInv, CallInProgress, TypeOK, Slot
  <2>3. Session'
    BY <1>8, <2>2 DEF IInv, Session, Readable, history
  <2> QED BY <2>1, <2>3
<1>9. CASE SaveErase
  <2>1. PowerCycleKeepsConfig' /\ Session'
    BY <1>8, <1>9, ErasedSlotType DEF SaveErase, ram
  <2>2. slots'[target].magic # "written"
    BY <1>0, <1>9 DEF SaveErase, ErasedSlot
  <2>3. CallInProgress'
    BY <1>0, <1>9, <2>2, ConfigsAssumption
    DEF SaveErase, ram, history, IInv, CallInProgress, TypeOK
  <2> QED BY <1>0, <1>9, <2>1, <2>3 DEF SaveErase, IInv, Wiping
<1>10. CASE SaveRecords
  <2> DEFINE new == [slots[target] EXCEPT !.pages = [slots[target].pages EXCEPT ![page] = store]]
  <2>1. slots' = [slots EXCEPT ![target] = new]
    BY <1>10 DEF SaveRecords
  <2>2. new.magic = slots[target].magic /\ slots[target].magic # "written"
    BY <1>0, <1>10 DEF SaveRecords, IInv, CallInProgress, SlotType
  <2>3. ~ slot_read(new)
    BY <2>2 DEF slot_read
  <2>4. PowerCycleKeepsConfig' /\ Session'
    <3> HIDE DEF new
    <3> QED BY <1>8, <1>10, <2>1, <2>3 DEF SaveRecords, ram
  <2>5. slots'[target].magic # "written" /\ slots'[target].pages
                                           = [slots[target].pages EXCEPT ![page] = store]
    BY <1>0, <2>1, <2>2 DEF SlotType
  <2>6. \A p \in 1..SlotPages : p < page + 1 => slots'[target].pages[p] = store
    <3>1. page \in Nat /\ slots[target].pages \in [1..SlotPages -> Content]
      BY <1>0 DEF TypeOK, SlotType
    <3>2. \A p \in 1..SlotPages : p < page => slots[target].pages[p] = store
      BY <1>10 DEF SaveRecords, IInv, CallInProgress
    <3>3. ASSUME NEW p \in 1..SlotPages, p < page + 1
          PROVE  [slots[target].pages EXCEPT ![page] = store][p] = store
      <4>1. CASE p = page
        BY <3>1, <4>1
      <4>2. CASE p < page
        BY <3>1, <3>2, <4>2
      <4> QED BY <3>1, <3>3, <4>1, <4>2
    <3> QED BY <2>5, <3>3
  <2>7. CallInProgress'
    BY <1>0, <1>10, <2>5, <2>6, ConfigsAssumption
    DEF SaveRecords, ram, history, IInv, CallInProgress, TypeOK
  <2> QED BY <1>0, <1>10, <2>4, <2>7 DEF SaveRecords, IInv, Wiping
<1>11. CASE SaveHeader
  <2> DEFINE new == WrittenHeader(slots[target])
  <2>1. /\ new.magic = "written" /\ new.sequence = Next32(sequence) /\ new.records = store
        /\ new.pages = slots[target].pages
    BY <1>0 DEF WrittenHeader, SlotType
  <2>2. slot_read(new)
    BY <1>0, <1>11, <2>1, ConfigsAssumption
    DEF SaveHeader, slot_read, IInv, CallInProgress, TypeOK
  <2>3. slots' = [slots EXCEPT ![target] = new]
    BY <1>11 DEF SaveHeader
  <2> HIDE DEF new
  <2>4. /\ slots'[target] = new /\ slots'[1 - target] = slots[1 - target]
    BY <1>0, <2>3 DEF Slot
  <2>5. ~ refused => (slot_read(slots'[1 - target]) => slots'[1 - target].sequence = sequence)
    BY <1>0, <1>11, <2>4 DEF SaveHeader, IInv, CallInProgress, Session, TypeOK, Readable, Slot
  <2>6. ~ refused => RecoveredFrom(slots') = store
    BY <1>0, <2>1, <2>2, <2>4, <2>5, RecoveredNewer DEF TypeOK
  <2>7. PowerCycleKeepsConfig'
    BY <1>11, <2>6 DEF SaveHeader, PowerCycleKeepsConfig, Recovered
  <2>8. Session'
    BY <1>11, <2>1, <2>2, <2>4 DEF SaveHeader, Return, Session, Readable
  <2> QED BY <1>0, <1>11, <2>7, <2>8 DEF SaveHeader, Return, IInv, CallInProgress, Wiping
<1>12. ASSUME NEW torn \in MisprogrammedPage(slots[target]), pc = "program"
       PROVE  slot_read(torn) => torn.records = store
  <2>1. slots[target] \in SlotType /\ slots[target].magic # "written"
    BY <1>0, <1>12 DEF IInv, CallInProgress
  <2> QED BY <1>0, <1>12, <2>1, MisprogrammedIsNew
<1>13. CASE SaveFails
  <2>1. PICK new : /\ slots' = [slots EXCEPT ![target] = new]
                   /\ slot_read(new) => \/ new = slots[target]
                                        \/ new.records = store
    <3>1. CASE pc = "erase"
      <4>1. slots' = [slots EXCEPT ![target] = slots[target]]
        BY <1>0, <1>13, <3>1 DEF SaveFails
      <4> QED BY <4>1
    <3>2. CASE pc = "program"
      BY <1>12, <1>13, <3>2 DEF SaveFails
    <3> QED BY <1>13, <3>1, <3>2 DEF SaveFails
  <2>2. pc \in {"erase", "program"} /\ UNCHANGED <<current, sequence, loaded, history>>
    BY <1>13 DEF SaveFails, ram
  <2>3. PowerCycleKeepsConfig' /\ Session'
    BY <1>8, <2>1, <2>2
  <2> QED BY <1>0, <1>13, <2>3 DEF SaveFails, Return, IInv, CallInProgress, Wiping
<1>14. CASE EraseBegin
  BY <1>0, <1>1, <1>14 DEF EraseBegin, ram, history, IInv, PowerCycleKeepsConfig, CallInProgress,
     Session, Wiping, Readable
<1>15. ASSUME NEW new, slots' = [slots EXCEPT ![target] = new], pc = "wipe",
              Expose, UNCHANGED <<acceptable, refused>>,
              slot_read(new) =>
                 /\ slot_read(slots[target]) /\ new.sequence = slots[target].sequence
                 /\ new.records = slots[target].records
       PROVE  PowerCycleKeepsConfig'
  BY <1>15, WipeTarget DEF PowerCycleKeepsConfig, Recovered
<1>16. CASE EraseFirst
  <2>1. PowerCycleKeepsConfig'
    BY <1>15, <1>16, ErasedSlotType DEF EraseFirst
  <2>2. slots' = [slots EXCEPT ![target] = ErasedSlot] /\ target = 0
    BY <1>16 DEF EraseFirst
  <2>3. (loaded /\ current # 0) \/ None \in exposed'
    BY <1>16 DEF EraseFirst, Expose
  <2>4. slots'[1] = slots[1] /\ ~ slot_read(slots'[0])
    BY <1>0, <2>2, ErasedSlotType DEF Slot
  <2>5. Wiping'
    BY <2>4 DEF Wiping, Readable
  <2>6. Session'
    <3>1. exposed \subseteq exposed' /\ UNCHANGED <<loaded, current, sequence, acceptable, refused>>
      BY <1>16 DEF EraseFirst, Expose, ram
    <3> QED BY <1>0, <1>16, <2>3, <2>4, <3>1 DEF EraseFirst, IInv, Session, Readable,
            TypeOK, Slot
  <2> QED BY <1>0, <1>16, <2>1, <2>5, <2>6 DEF EraseFirst, IInv, CallInProgress
<1>17. CASE EraseSecond
  <2>1. ~ slot_read(slots'[1])
    BY <1>0, <1>17, ErasedSlotType DEF EraseSecond, Slot
  <2>2. slots'[0] = slots[0] /\ ~ slot_read(slots[0])
    BY <1>0, <1>17 DEF EraseSecond, IInv, Wiping, Readable, Slot
  <2>3. RecoveredFrom(slots') = None
    BY <2>1, <2>2, RecoveredIsReadable DEF Slot
  <2> QED BY <1>0, <1>17, <2>1, <2>3 DEF EraseSecond, Return, IInv, PowerCycleKeepsConfig,
          CallInProgress, Session, Wiping, Recovered, Readable
<1>18. CASE EraseFails
  BY <1>0, <1>1, <1>18 DEF EraseFails, Return, ram, history, IInv, PowerCycleKeepsConfig,
     CallInProgress, Session, Wiping, Readable
<1>19. CASE PowerCut
  <2>1. ASSUME pc = "idle" PROVE PowerCycleKeepsConfig'
    BY <1>1, <1>19, <2>1 DEF PowerCut, IInv, PowerCycleKeepsConfig
  <2>2. ASSUME pc = "program" PROVE PowerCycleKeepsConfig'
    <3>1. PICK new \in MisprogrammedPage(slots[target]) :
             slots' = [slots EXCEPT ![target] = new]
      BY <1>19, <2>2 DEF PowerCut
    <3>2. slot_read(new) => new.records = store
      BY <1>12, <2>2
    <3> QED BY <1>19, <2>2, <3>1, <3>2, SaveTarget
            DEF PowerCut, PowerCycleKeepsConfig, Recovered
  <2>3. ASSUME pc \in {"erase", "wipe"} PROVE PowerCycleKeepsConfig'
    <3>1. PICK new \in HalfErased(slots[target]) : slots' = [slots EXCEPT ![target] = new]
      BY <1>19, <2>3 DEF PowerCut
    <3>2. /\ new.sequence = slots[target].sequence /\ new.records = slots[target].records
          /\ slot_read(new) => slot_read(slots[target])
      BY <1>0, HalfErasedIsOld
    <3>3. CASE pc = "erase"
      BY <1>19, <3>1, <3>2, <3>3, SaveTarget DEF PowerCut, PowerCycleKeepsConfig, Recovered
    <3>4. CASE pc = "wipe"
      BY <1>15, <1>19, <3>1, <3>2, <3>4 DEF PowerCut
    <3> QED BY <2>3, <3>3, <3>4
  <2>4. PowerCycleKeepsConfig'
    BY <1>19, <2>1, <2>2, <2>3 DEF PowerCut
  <2> QED BY <1>0, <1>19, <2>4 DEF PowerCut, IInv, CallInProgress, Session, Wiping
<1>20. CASE UNCHANGED vars
  BY <1>0, <1>1, <1>20 DEF vars, ram, history, IInv, PowerCycleKeepsConfig, CallInProgress,
     Session, Wiping, Readable
<1> QED BY <1>2, <1>3, <1>4, <1>5, <1>6, <1>7, <1>9, <1>10, <1>11, <1>13, <1>14, <1>16, <1>17,
           <1>18, <1>19, <1>20 DEF Next, Load, Save, Erase

-----------------------------------------------------------------------------
(***************************************************************************)
(* The results.                                                            *)
(***************************************************************************)
LEMMA SpecIInv == Spec => []IInv
BY InitIInv, NextIInv, PTL DEF Spec

\* Every step of load, save and erase keeps the state in its type.
THEOREM TypeCorrect == Spec => []TypeOK
BY SpecIInv, PTL DEF IInv

\* Whatever is cut or fails, a power cycle recovers the last configuration
\* saved or loaded or one being saved; after an erase that reached the current
\* slot, possibly nothing, or the older configuration when the current one
\* went first (persistent_config_save, persistent_config_erase).
THEOREM CrashSafe == Spec => []PowerCycleKeepsConfig
BY SpecIInv, PTL DEF IInv

\* Whatever fails, the slot a session calls current stays readable until it is
\* superseded or an erase reaches it (persistent_config_save's choice of slot).
THEOREM CurrentSlotSafe == Spec => []CurrentSlotSurvives
<1>1. IInv => CurrentSlotSurvives
  BY DEF IInv, Session, CurrentSlotSurvives
<1> QED BY <1>1, SpecIInv, PTL
=============================================================================
