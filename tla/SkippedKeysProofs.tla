------------------------- MODULE SkippedKeysProofs -------------------------
(***************************************************************************)
(* Proofs about SkippedKeys.  Each step of the specification is one of the *)
(* store's operations, so the proof of each is an instance of the lemma    *)
(* KeyStoreProofs has about that operation; what is added here is that the *)
(* operations are only ever used where the lemmas apply: on sorted vectors *)
(* in which no key occurs twice.                                           *)
(***************************************************************************)
EXTENDS SkippedKeys, KeyStoreProofs

\* No key is in a store twice or in both stores: every key is staged once, under
\* a number that was not used before, and a commit moves it.  Without it a commit
\* could not be compared with the set of keys it starts from.
KeysDistinct ==
    /\ IsInjective(skipped) /\ IsInjective(staged)
    /\ ToSet(skipped) \cap ToSet(staged) = {}
    /\ \A k \in ToSet(skipped) \union ToSet(staged) : k.message_key <= drawn

\* The inductive invariant.
SkippedInv == TypeOK /\ StoresSorted /\ StoresBounded /\ KeysDistinct

\* Every key has a date, as the lemmas about the store require.
LEMMA KeyIsDated == Dated(Key)
    BY DEF Dated, Key

\* Initially both stores are empty.
LEMMA SkippedInitially == Init => SkippedInv
<1> SUFFICES ASSUME Init PROVE SkippedInv
    OBVIOUS
<1>1. <<>> \in Seq(Key) /\ Len(<<>>) = 0 /\ DOMAIN <<>> = {} /\ ToSet(<<>>) = {}
    BY EmptySeq, LenProperties DEF ToSet
<1>2. SortedByDate(<<>>) /\ IsInjective(<<>>)
    BY <1>1 DEF SortedByDate, IsInjective
<1> QED BY <1>1, <1>2, SkippedKeysAssumption, KeyStoreAssumption
        DEF Init, SkippedInv, TypeOK, StoresSorted, StoresBounded, KeysDistinct

\* Staging a key preserves the invariant: its number is new, so it is in neither
\* store yet.
LEMMA StagePreserves == SkippedInv /\ stage => SkippedInv'
<1> SUFFICES ASSUME SkippedInv, stage PROVE SkippedInv'
    OBVIOUS
<1> DEFINE key == HeaderAndMessageKey("HK", drawn + 1, clock)
           after == add(staged, key, clock)
<1>1. /\ skipped \in Seq(Key) /\ staged \in Seq(Key)
      /\ clock \in Nat /\ drawn \in Nat /\ drawn + 1 \in 1..MaxStaged
    BY SkippedKeysAssumption DEF SkippedInv, TypeOK, stage
<1>2. key \in Key /\ key.message_key = drawn + 1
    BY <1>1, KeyStoreAssumption DEF Key, HeaderAndMessageKey
<1>3. key \notin ToSet(skipped) /\ key \notin ToSet(staged)
    BY <1>1, <1>2 DEF SkippedInv, KeysDistinct
<1>4. staged' = after /\ skipped' = skipped /\ clock' = clock /\ drawn' = drawn + 1
    BY DEF stage
<1> HIDE DEF key
<1>5. /\ after \in Seq(Key)
      /\ Len(after) <= header_and_message_store_maximum_keys
      /\ SortedByDate(after)
      /\ IsInjective(after)
      /\ ToSet(after) \subseteq ToSet(staged) \union {key}
    BY <1>1, <1>2, <1>3, KeyIsDated, AddKey
       DEF SkippedInv, StoresSorted, StoresBounded, KeysDistinct
<1> HIDE DEF after
<1>6. ToSet(skipped) \subseteq Key /\ ToSet(staged) \subseteq Key
    BY <1>1, Vector
<1>7. \A k \in ToSet(skipped) \union ToSet(after) : k.message_key <= drawn + 1
  <2> SUFFICES ASSUME NEW k \in ToSet(skipped) \union ToSet(after)
               PROVE  k.message_key <= drawn + 1
      OBVIOUS
  <2>1. CASE k = key
      BY <1>1, <1>2, <2>1
  <2>2. CASE k # key
    <3>1. k \in ToSet(skipped) \union ToSet(staged)
        BY <1>5, <2>2
    <3>2. k.message_key \in Nat /\ k.message_key <= drawn
        BY <1>6, <3>1 DEF Key, SkippedInv, KeysDistinct
    <3> QED BY <1>1, <3>2
  <2> QED BY <2>1, <2>2
<1>8. KeysDistinct'
    BY <1>3, <1>4, <1>5, <1>7 DEF SkippedInv, KeysDistinct
<1>9. drawn + 1 \in 0..MaxStaged
    BY <1>1, SkippedKeysAssumption
<1> QED BY <1>1, <1>4, <1>5, <1>8, <1>9 DEF SkippedInv, TypeOK, StoresSorted, StoresBounded

\* What a commit leaves in the store, and that it preserves the invariant.
LEMMA CommitPreserves ==
    ASSUME SkippedInv, commitSkippedHeaderAndMessageKeys
    PROVE  LET pool == {k \in ToSet(skipped) \union ToSet(staged) : ~isOutdated(k, clock)}
               room == header_and_message_store_maximum_keys
           IN  /\ SkippedInv'
               /\ ToSet(skipped') \subseteq pool
               /\ Len(skipped') = IF Cardinality(pool) < room THEN Cardinality(pool) ELSE room
               /\ \A k \in ToSet(skipped'), gone \in pool \ ToSet(skipped') :
                     gone.expiration_date <= k.expiration_date
<1> DEFINE after == removeOutdatedAndTrimSize(addStore(skipped, staged, clock), clock)
           pool == {k \in ToSet(skipped) \union ToSet(staged) : ~isOutdated(k, clock)}
           room == header_and_message_store_maximum_keys
<1>1. skipped \in Seq(Key) /\ staged \in Seq(Key) /\ clock \in Int
    BY DEF SkippedInv, TypeOK
<1>2. skipped' = after /\ staged' = <<>> /\ clock' = clock /\ drawn' = drawn
    BY DEF commitSkippedHeaderAndMessageKeys
<1>3. /\ after \in Seq(Key)
      /\ SortedByDate(after)
      /\ IsInjective(after)
      /\ Len(after) <= room
      /\ ToSet(after) \subseteq pool
      /\ Len(after) = IF Cardinality(pool) < room THEN Cardinality(pool) ELSE room
      /\ \A k \in ToSet(after), gone \in pool \ ToSet(after) :
            gone.expiration_date <= k.expiration_date
    BY <1>1, KeyIsDated, Commit DEF SkippedInv, StoresSorted, KeysDistinct
<1> HIDE DEF after
<1>4. <<>> \in Seq(Key) /\ Len(<<>>) = 0 /\ DOMAIN <<>> = {} /\ ToSet(<<>>) = {}
    BY EmptySeq, LenProperties DEF ToSet
<1>5. SortedByDate(<<>>) /\ IsInjective(<<>>) /\ Len(<<>>) <= room
    BY <1>4, KeyStoreAssumption DEF SortedByDate, IsInjective
<1>6. KeysDistinct'
    BY <1>2, <1>3, <1>4, <1>5 DEF SkippedInv, KeysDistinct
<1>7. SkippedInv'
    BY <1>2, <1>3, <1>4, <1>5, <1>6 DEF SkippedInv, TypeOK, StoresSorted, StoresBounded
<1> QED BY <1>2, <1>3, <1>7

\* Throwing the staged keys away preserves the invariant.
LEMMA ClearPreserves == SkippedInv /\ clear => SkippedInv'
<1> SUFFICES ASSUME SkippedInv, clear PROVE SkippedInv'
    OBVIOUS
<1>1. <<>> \in Seq(Key) /\ Len(<<>>) = 0 /\ DOMAIN <<>> = {} /\ ToSet(<<>>) = {}
    BY EmptySeq, LenProperties DEF ToSet
<1>2. SortedByDate(<<>>) /\ IsInjective(<<>>)
    BY <1>1 DEF SortedByDate, IsInjective
<1>3. KeysDistinct'
    BY <1>1, <1>2 DEF SkippedInv, KeysDistinct, clear
<1> QED BY <1>1, <1>2, <1>3, KeyStoreAssumption
        DEF SkippedInv, TypeOK, StoresSorted, StoresBounded, clear

\* Using a skipped key preserves the invariant.
LEMMA UsePreserves ==
    ASSUME SkippedInv, NEW index \in DOMAIN skipped, use(index)
    PROVE  SkippedInv'
<1> DEFINE after == remove(skipped, index)
<1>1. skipped \in Seq(Key) /\ skipped' = after /\ UNCHANGED <<staged, clock, drawn>>
    BY DEF SkippedInv, TypeOK, use
<1>2. /\ after \in Seq(Key)
      /\ Len(after) = Len(skipped) - 1
      /\ ToSet(after) \subseteq ToSet(skipped)
      /\ SortedByDate(after)
      /\ IsInjective(after)
    BY <1>1, RemoveKey DEF SkippedInv, StoresSorted, KeysDistinct
<1> HIDE DEF after
<1>3. Len(after) <= header_and_message_store_maximum_keys
    BY <1>1, <1>2, Vector, KeyStoreAssumption DEF SkippedInv, StoresBounded
<1>4. KeysDistinct'
    BY <1>1, <1>2 DEF SkippedInv, KeysDistinct
<1> QED BY <1>1, <1>2, <1>3, <1>4 DEF SkippedInv, TypeOK, StoresSorted, StoresBounded

\* Every step preserves the invariant.
LEMMA SkippedStep == SkippedInv /\ [Next]_vars => SkippedInv'
<1> SUFFICES ASSUME SkippedInv, [Next]_vars PROVE SkippedInv'
    OBVIOUS
<1>1. CASE stage
    BY <1>1, StagePreserves
<1>2. CASE commitSkippedHeaderAndMessageKeys
    BY <1>2, CommitPreserves
<1>3. CASE clear
    BY <1>3, ClearPreserves
<1>4. CASE \E index \in DOMAIN skipped : use(index)
    BY <1>4, UsePreserves
<1>5. CASE tick
    BY <1>5 DEF tick, SkippedInv, TypeOK, StoresSorted, StoresBounded, KeysDistinct
<1>6. CASE setBack
  <2>1. clock' \in Nat
      BY <1>6 DEF setBack, SkippedInv, TypeOK
  <2> QED BY <1>6, <2>1
          DEF setBack, SkippedInv, TypeOK, StoresSorted, StoresBounded, KeysDistinct
<1>7. CASE UNCHANGED vars
    BY <1>7 DEF vars, SkippedInv, TypeOK, StoresSorted, StoresBounded, KeysDistinct
<1> QED BY <1>1, <1>2, <1>3, <1>4, <1>5, <1>6, <1>7 DEF Next

-----------------------------------------------------------------------------
(***************************************************************************)
(* Theorems                                                                *)
(***************************************************************************)

\* The invariant holds in every reachable state.
THEOREM SkippedInvariant == Spec => []SkippedInv
    BY SkippedInitially, SkippedStep, PTL DEF Spec

\* Both stores are vectors of keys.
THEOREM SkippedTypeCorrect == Spec => []TypeOK
<1>1. SkippedInv => TypeOK
    BY DEF SkippedInv
<1> QED BY <1>1, SkippedInvariant, PTL

\* Both stores stay sorted by expiration date, whatever the clock does between
\* two calls of HeaderAndMessageKeyStore::add.
THEOREM StoresStaySorted == Spec => []StoresSorted
<1>1. SkippedInv => StoresSorted
    BY DEF SkippedInv
<1> QED BY <1>1, SkippedInvariant, PTL

\* Neither store outgrows header_and_message_store_maximum_keys, for every
\* capacity above zero.
THEOREM StoresStayBounded == Spec => []StoresBounded
<1>1. SkippedInv => StoresBounded
    BY DEF SkippedInv
<1> QED BY <1>1, SkippedInvariant, PTL

\* Ratchet::commitSkippedHeaderAndMessageKeys keeps, of the skipped and the
\* staged keys that are not outdated, as many as fit, and drops only keys that are
\* no newer than those it keeps.
THEOREM CommitKeepsTheNewest == Spec => CommitKeepsNewest
<1>1. SkippedInv /\ [Next]_vars =>
         [commitSkippedHeaderAndMessageKeys =>
             LET pool == {k \in ToSet(skipped) \union ToSet(staged) :
                             ~isOutdated(k, clock)}
                 kept == ToSet(skipped')
                 room == header_and_message_store_maximum_keys
             IN  /\ kept \subseteq pool
                 /\ Len(skipped') = IF Cardinality(pool) < room
                                    THEN Cardinality(pool) ELSE room
                 /\ \A k \in kept, gone \in pool \ kept :
                       gone.expiration_date <= k.expiration_date]_vars
    BY CommitPreserves
<1> QED BY <1>1, SkippedInvariant, PTL DEF Spec, CommitKeepsNewest
=============================================================================
