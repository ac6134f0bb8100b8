----------------------------- MODULE ConfigStore -----------------------------
(***************************************************************************)
(* config_store.c: the records of a configuration, one after the other in  *)
(* a buffer: the length of the key, the length of the value, the key and   *)
(* the value.  Bytes are numbers, so that a value can look like a record;  *)
(* what lies behind the used part of the buffer is never read.             *)
(***************************************************************************)
EXTENDS Integers, Sequences, FiniteSets

CONSTANTS
    StoreKeys, StoreValues,   \* what is stored, as sequences of bytes
    StoreCapacity,            \* of the buffer
    MaxKeyLength,             \* CONFIG_MAX_KEY_LENGTH
    Narrow                    \* 256: a uint8_t is taken modulo this

ASSUME StoreAssumption ==
    /\ StoreCapacity \in Nat \ {0} /\ MaxKeyLength \in Nat \ {0} /\ Narrow \in Nat \ {0}
    /\ StoreKeys \subseteq Seq(Nat) /\ \A key \in StoreKeys : Len(key) \in 1..MaxKeyLength
    /\ StoreValues \subseteq Seq(Nat) /\ \A value \in StoreValues : Len(value) < Narrow

VARIABLES
    run,           \* buffer[0..used - 1]
    stored         \* ghost: what the calls so far have stored

storeVars == <<run, stored>>

Absent == <<-1>>       \* no value: not a byte
RecordSize(key, value) == key + value + 2
Record(key, value) == <<Len(key), Len(value)>> \o key \o value

-----------------------------------------------------------------------------
SizeAt(bytes, at) == RecordSize(bytes[at], bytes[at + 1])
KeyAt(bytes, at) == SubSeq(bytes, at + 2, at + 1 + bytes[at])
BytesAt(bytes, at) == SubSeq(bytes, at + 2 + bytes[at], at - 1 + SizeAt(bytes, at))

\* find_record: where the record of a key is, or where one would begin.  A
\* record has two lengths, so none begins at the last byte.
FindRecord(key) ==
    LET from[at \in Nat \ {0}] ==
            IF at >= Len(run) THEN Len(run) + 1
            ELSE IF KeyAt(run, at) = key THEN at
            ELSE from[at + SizeAt(run, at)]
    IN  from[1]

Has(key) == FindRecord(key) <= Len(run)

\* config_store_load: every record is walked before any is trusted; the walk
\* stops where no record can be, which has to be the end.
Loads(bytes) ==
    LET stop[at \in Nat \ {0}] ==
            IF /\ at < Len(bytes)
               /\ bytes[at] \in 1..MaxKeyLength
               /\ at + SizeAt(bytes, at) <= Len(bytes) + 1
              THEN stop[at + SizeAt(bytes, at)]
            ELSE at
    IN  Len(bytes) <= StoreCapacity /\ stop[1] = Len(bytes) + 1

\* config_get, config_has
Get(key, capacity) ==
    LET at == FindRecord(key)
    IN  IF ~Has(key) THEN [result |-> "not found", length |-> 0, value |-> <<>>]
        ELSE IF run[at + 1] > capacity
          THEN [result |-> "too small", length |-> run[at + 1], value |-> <<>>]
        ELSE [result |-> "ok", length |-> run[at + 1], value |-> BytesAt(run, at)]

\* config_get_string, with the byte that its capacity is cast to.
GetString(key, capacity, fallback) ==
    LET probe == Get(key, 0)
        got   == Get(key, (capacity - 1) % Narrow)
        most  == IF Len(fallback) < capacity THEN Len(fallback) ELSE capacity - 1
    IN  IF probe.result = "not found" \/ probe.length + 1 > capacity
          THEN [result |-> IF probe.result = "not found" THEN "not found" ELSE "too small",
                value |-> SubSeq(fallback, 1, most)]
        ELSE [result |-> got.result, value |-> got.value]

\* config_count, config_key_at: the keys in storage order.
Listed ==
    LET from[at \in Nat \ {0}] ==
            IF at >= Len(run) THEN <<>>
            ELSE <<KeyAt(run, at)>> \o from[at + SizeAt(run, at)]
    IN  from[1]

-----------------------------------------------------------------------------
\* The record is written over the old one, whose tail stays where it was.
StoreSetInPlace(key, value) ==
    LET at    == FindRecord(key)
        after == at + RecordSize(Len(key), Len(value))
    IN  /\ run' = SubSeq(run, 1, at - 1) \o Record(key, value) \o SubSeq(run, after, Len(run))
        /\ stored' = [stored EXCEPT ![key] = value]

\* config_set, config_set_string: the tail is moved; room is needed for the
\* difference only, and without it nothing is changed.
StoreSet(key, value) ==
    LET at     == FindRecord(key)
        existing == IF Has(key) THEN SizeAt(run, at) ELSE 0
        wanted == RecordSize(Len(key), Len(value))
    IN  IF wanted - existing > StoreCapacity - Len(run) THEN UNCHANGED storeVars
        ELSE /\ run' = SubSeq(run, 1, at - 1) \o Record(key, value)
                         \o SubSeq(run, at + existing, Len(run))
             /\ stored' = [stored EXCEPT ![key] = value]

StoreRemove(key) ==
    LET at == FindRecord(key)
    IN  /\ Has(key)
        /\ run' = SubSeq(run, 1, at - 1) \o SubSeq(run, at + SizeAt(run, at), Len(run))
        /\ stored' = [stored EXCEPT ![key] = Absent]

StoreClear ==
    /\ run' = <<>>
    /\ stored' = [key \in StoreKeys |-> Absent]

StoreInit ==
    /\ run = <<>>
    /\ stored = [key \in StoreKeys |-> Absent]

StoreNext ==
    \/ \E key \in StoreKeys, value \in StoreValues : StoreSet(key, value)
    \/ \E key \in StoreKeys : StoreRemove(key)
    \/ StoreClear

StoreSpec == StoreInit /\ [][StoreNext]_storeVars
-----------------------------------------------------------------------------
Present == {key \in StoreKeys : stored[key] # Absent}

\* Whatever was set, resized, refused and removed before, and whatever the
\* bytes of the other values look like, each key reads back what was last
\* stored in it and is listed once; a string is whole or the fallback; and the
\* buffer is an image config_store_load accepts, and so is a part of it that ends
\* with a record, but none that is cut within one (config_set, config_remove, config_store_load).
StoreReadsBack ==
    /\ Len(run) <= StoreCapacity /\ Loads(run)
    /\ \A key \in StoreKeys :
         /\ Has(key) = (key \in Present)
         /\ key \in Present => Get(key, Narrow - 1).value = stored[key]
         /\ \A capacity \in 1..Narrow :
              LET got == GetString(key, capacity, <<0>>)
              IN  IF key \in Present /\ Len(stored[key]) < capacity
                    THEN got = [result |-> "ok", value |-> stored[key]]
                  ELSE got.result # "ok" /\ got.value = IF capacity < 2 THEN <<>> ELSE <<0>>
    /\ Len(Listed) = Cardinality(Present) /\ {Listed[i] : i \in DOMAIN Listed} = Present
    /\ \A cut \in 0..Len(run) - 1 :
         Loads(SubSeq(run, 1, cut)) = \E key \in Present : FindRecord(key) = cut + 1
==============================================================================
