---------------------- MODULE HeaderAndMessageKeyStore ----------------------
(***************************************************************************)
(* The operations of HeaderAndMessageKeyStore                              *)
(* (lib/header-and-message-keystore.cpp), the store in which a ratchet     *)
(* keeps the keys of messages it has skipped, as operators on the store's  *)
(* vector key_storage.  "now" is the value that now() returns during the   *)
(* call.                                                                   *)
(***************************************************************************)
EXTENDS Integers, Sequences, FiniteSets, SequencesExt

CONSTANTS
    header_and_message_store_maximum_keys,  \* capacity of a store
    header_and_message_store_maximum_age,   \* how long a key outlives its date
    expiration_time                         \* lifetime given to a new key

ASSUME KeyStoreAssumption ==
    /\ header_and_message_store_maximum_keys \in Nat \ {0}
    /\ header_and_message_store_maximum_age \in Nat
    /\ expiration_time \in Nat

\* Both are a month in the code: a new key is not outdated at once
ASSUME NewKeysAssumption == expiration_time + header_and_message_store_maximum_age > 0

\* Mutant: the lifetime is subtracted
HeaderAndMessageKey_past(header_key, message_key, now) ==
    [header_key |-> header_key,
     message_key |-> message_key,
     expiration_date |-> now - expiration_time]

\* HeaderAndMessageKey(header_key, message_key): expires a month from now
HeaderAndMessageKey(header_key, message_key, now) ==
    [header_key |-> header_key,
     message_key |-> message_key,
     expiration_date |-> now + expiration_time]

isOutdated(key, now) ==
    key.expiration_date <= now - header_and_message_store_maximum_age

\* The elements are in ascending order of their expiration dates
SortedByDate(keys) ==
    \A i, j \in DOMAIN keys :
        i < j => keys[i].expiration_date <= keys[j].expiration_date

-----------------------------------------------------------------------------

\* std::upper_bound in a sorted vector: the first element that expires later
upper_bound(keys, key) ==
    CHOOSE i \in 1..(Len(keys) + 1) :
        /\ \A j \in 1..(i - 1) : keys[j].expiration_date <= key.expiration_date
        /\ i <= Len(keys) => keys[i].expiration_date > key.expiration_date

\* Mutant: a key is always put at the end, whatever its date
insertSorted_atEnd(keys, key) == Append(keys, key)

\* The end of add(key): the short path for the newest key, else the bound
insertSorted(keys, key) ==
    IF keys = <<>> \/ Last(keys).expiration_date <= key.expiration_date
    THEN Append(keys, key)
    ELSE InsertAt(keys, upper_bound(keys, key), key)

\* Mutant: a full store takes one key more
makeRoom_never(keys) == keys

\* A store that is full loses its oldest key before it takes another
makeRoom(keys) ==
    IF Len(keys) = header_and_message_store_maximum_keys THEN Tail(keys) ELSE keys

\* HeaderAndMessageKeyStore::add(key)
add(keys, key, now) ==
    IF isOutdated(key, now) THEN keys ELSE insertSorted(makeRoom(keys), key)

\* HeaderAndMessageKeyStore::remove(index)
remove(keys, index) == RemoveAt(keys, index)

(***************************************************************************)
(* std::merge of two sorted ranges: stable, and of two keys with the same  *)
(* date the one of the first range comes first.  An element's place is its *)
(* own index plus the number of elements of the other range that precede   *)
(* it.                                                                     *)
(***************************************************************************)
merge(a, b) ==
    LET placeA(i) == i + Cardinality({j \in DOMAIN b :
                            b[j].expiration_date < a[i].expiration_date})
        placeB(j) == j + Cardinality({i \in DOMAIN a :
                            a[i].expiration_date <= b[j].expiration_date})
    IN  [k \in 1..(Len(a) + Len(b)) |->
            IF \E i \in DOMAIN a : placeA(i) = k
            THEN a[CHOOSE i \in DOMAIN a : placeA(i) = k]
            ELSE b[CHOOSE j \in DOMAIN b : placeB(j) = k]]

\* Mutant: the newest keys are cut off instead of the oldest
trim_newest(keys) ==
    IF Len(keys) > header_and_message_store_maximum_keys
    THEN SubSeq(keys, 1, header_and_message_store_maximum_keys)
    ELSE keys

\* The second half of removeOutdatedAndTrimSize: the oldest keys that exceed
\* the capacity go
trim(keys) ==
    IF Len(keys) > header_and_message_store_maximum_keys
    THEN SubSeq(keys,
                Len(keys) - header_and_message_store_maximum_keys + 1, Len(keys))
    ELSE keys

\* The first half: everything before the first key that is not outdated goes
removeOutdated(keys, now) ==
    LET first == CHOOSE i \in 1..(Len(keys) + 1) :
                    /\ \A j \in 1..(i - 1) : isOutdated(keys[j], now)
                    /\ i <= Len(keys) => ~isOutdated(keys[i], now)
    IN  SubSeq(keys, first, Len(keys))

\* HeaderAndMessageKeyStore::removeOutdatedAndTrimSize
removeOutdatedAndTrimSize(keys, now) == trim(removeOutdated(keys, now))

\* HeaderAndMessageKeyStore::add(keystore)
addStore(keys, other, now) == removeOutdatedAndTrimSize(merge(keys, other), now)
=============================================================================
