---------------------------- MODULE SkippedKeys ----------------------------
(***************************************************************************)
(* The two key stores of a ratchet and the way Ratchet uses them: keys are *)
(* staged while a packet is being tried, committed to the skipped keys     *)
(* when it turns out authentic and thrown away when it does not, and       *)
(* removed when a late message used them.                                  *)
(***************************************************************************)
EXTENDS HeaderAndMessageKeyStore

CONSTANTS
    StartTime,  \* the clock at the beginning
    MaxTime,    \* bound: largest value of the clock
    MaxStaged   \* bound: number of keys ever staged

ASSUME SkippedKeysAssumption ==
    StartTime \in Nat /\ MaxTime \in Nat /\ MaxStaged \in Nat

VARIABLES
    skipped,    \* Ratchet::skipped_header_and_message_keys
    staged,     \* Ratchet::staged_header_and_message_keys
    clock,      \* what now() returns
    drawn       \* history: number of keys staged so far, names the next one

vars == <<skipped, staged, clock, drawn>>

Key == [header_key : {"HK"}, message_key : 1..MaxStaged, expiration_date : Nat]

\* The variables have their types.
TypeOK ==
    /\ skipped \in Seq(Key)
    /\ staged \in Seq(Key)
    /\ clock \in Nat
    /\ drawn \in 0..MaxStaged

Init ==
    /\ skipped = <<>>
    /\ staged = <<>>
    /\ clock = StartTime
    /\ drawn = 0

\* stageSkippedHeaderAndMessageKeys adds one key: add(header_key, message_key)
stage ==
    /\ drawn < MaxStaged
    /\ drawn' = drawn + 1
    /\ staged' = add(staged, HeaderAndMessageKey("HK", drawn + 1, clock), clock)
    /\ UNCHANGED <<skipped, clock>>

\* Ratchet::commitSkippedHeaderAndMessageKeys: the message was authentic
commitSkippedHeaderAndMessageKeys ==
    /\ skipped' = removeOutdatedAndTrimSize(addStore(skipped, staged, clock), clock)
    /\ staged' = <<>>
    /\ UNCHANGED <<clock, drawn>>

\* clear() of the staging area: the message was not authentic
clear ==
    /\ staged' = <<>>
    /\ UNCHANGED <<skipped, clock, drawn>>

\* A late message used the key at this index
use(index) ==
    /\ skipped' = remove(skipped, index)
    /\ UNCHANGED <<staged, clock, drawn>>

\* Time passes while a packet is being tried, or between packets
tick ==
    /\ clock < MaxTime
    /\ clock' = clock + 1
    /\ UNCHANGED <<skipped, staged, drawn>>

\* The system clock is set back
setBack ==
    /\ clock > 0
    /\ clock' = clock - 1
    /\ UNCHANGED <<skipped, staged, drawn>>

Next ==
    \/ stage
    \/ commitSkippedHeaderAndMessageKeys
    \/ clear
    \/ \E index \in DOMAIN skipped : use(index)
    \/ tick
    \/ setBack

Spec == Init /\ [][Next]_vars

-----------------------------------------------------------------------------
(***************************************************************************)
(* Properties                                                              *)
(***************************************************************************)

\* Both stores stay sorted by expiration date ("sorted in ascending order by
\* expiration date", header-and-message-keystore.hpp) although the clock may be
\* set back between two keys: merge, upper_bound and the scan for outdated keys
\* are all wrong on an unsorted vector.
StoresSorted == SortedByDate(skipped) /\ SortedByDate(staged)

\* No store ever holds more than header_and_message_store_maximum_keys keys.
StoresBounded ==
    /\ Len(skipped) <= header_and_message_store_maximum_keys
    /\ Len(staged) <= header_and_message_store_maximum_keys

\* A commit keeps as many keys as fit of those that are not outdated, and the
\* ones it drops are no newer than any it keeps: the vector code (merge, skip a
\* prefix, erase it) against its definition on sets.
CommitKeepsNewest ==
    [][commitSkippedHeaderAndMessageKeys =>
          LET pool == {k \in ToSet(skipped) \union ToSet(staged) :
                          ~isOutdated(k, clock)}
              kept == ToSet(skipped')
              room == header_and_message_store_maximum_keys
          IN  /\ kept \subseteq pool
              /\ Len(skipped') = IF Cardinality(pool) < room
                                 THEN Cardinality(pool) ELSE room
              /\ \A k \in kept, gone \in pool \ kept :
                    gone.expiration_date <= k.expiration_date]_vars
=============================================================================
