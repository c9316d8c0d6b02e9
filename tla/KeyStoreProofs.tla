--------------------------- MODULE KeyStoreProofs ---------------------------
(***************************************************************************)
(* What the operations of HeaderAndMessageKeyStore return, for every       *)
(* capacity, every age and every content of the stores.                    *)
(***************************************************************************)
EXTENDS HeaderAndMessageKeyStore, SequenceTheorems, FiniteSetTheorems,
        WellFoundedInduction, TLAPS

\* The dates of a set of keys can be compared
Dated(K) == \A k \in K : k.expiration_date \in Int

\* The smallest member of a set of indices, where a loop or std::find_if stops.
LEMMA LeastIndex ==
    ASSUME NEW S \in SUBSET Nat, S # {}
    PROVE  \E n \in S : \A m \in S : n <= m
<1>1. IsWellFoundedOn(OpToRel(<, Nat), Nat)
    BY NatLessThanWellFounded
<1>2. PICK n \in S : \A m \in S : ~(<<m, n>> \in OpToRel(<, Nat))
    BY <1>1, WFMin
<1>3. \A m \in S : ~(m < n)
    BY <1>2 DEF OpToRel
<1> QED BY <1>3

\* A vector of keys and its indices.
LEMMA Vector ==
    ASSUME NEW K, NEW keys \in Seq(K)
    PROVE  /\ Len(keys) \in Nat
           /\ DOMAIN keys = 1..Len(keys)
           /\ \A i \in 1..Len(keys) : keys[i] \in K
           /\ ToSet(keys) = {keys[i] : i \in 1..Len(keys)}
           /\ ToSet(keys) \subseteq K
    BY LenProperties, ElementOfSeq DEF ToSet

-----------------------------------------------------------------------------
(***************************************************************************)
(* add(key)                                                                *)
(***************************************************************************)

\* std::upper_bound finds a place in a sorted vector: what is before it expires
\* no later than the key, what is behind it later.
LEMMA UpperBound ==
    ASSUME NEW K, Dated(K), NEW keys \in Seq(K), NEW key \in K, SortedByDate(keys)
    PROVE  LET p == upper_bound(keys, key)
           IN  /\ p \in 1..(Len(keys) + 1)
               /\ \A j \in 1..(p - 1) : keys[j].expiration_date <= key.expiration_date
               /\ \A j \in p..Len(keys) : keys[j].expiration_date > key.expiration_date
<1> DEFINE S == {i \in 1..(Len(keys) + 1) :
                    i <= Len(keys) => keys[i].expiration_date > key.expiration_date}
           P(i) == /\ \A j \in 1..(i - 1) :
                         keys[j].expiration_date <= key.expiration_date
                   /\ i <= Len(keys) => keys[i].expiration_date > key.expiration_date
           p == upper_bound(keys, key)
<1>1. /\ Len(keys) \in Nat /\ DOMAIN keys = 1..Len(keys)
      /\ \A i \in 1..Len(keys) : keys[i].expiration_date \in Int
      /\ key.expiration_date \in Int
    BY Vector DEF Dated
<1>2. Len(keys) + 1 \in S /\ S \subseteq Nat
    BY <1>1
<1>3. PICK n \in S : \A m \in S : n <= m
  <2> HIDE DEF S
  <2> QED BY <1>2, LeastIndex
<1>4. P(n)
    BY <1>1, <1>3
<1>5. p = CHOOSE i \in 1..(Len(keys) + 1) : P(i)
    BY DEF upper_bound
<1> HIDE DEF P, p
<1>6. p \in 1..(Len(keys) + 1) /\ P(p)
    BY <1>3, <1>4, <1>5
<1>7. \A j \in p..Len(keys) : keys[j].expiration_date > key.expiration_date
  <2> TAKE j \in p..Len(keys)
  <2>1. keys[p].expiration_date > key.expiration_date
      BY <1>1, <1>6 DEF P
  <2>2. keys[p].expiration_date <= keys[j].expiration_date
      BY <1>1, <1>6 DEF SortedByDate
  <2> QED BY <1>1, <1>6, <2>1, <2>2
<1> QED BY <1>6, <1>7 DEF P, p

\* insertSorted puts the key at one place, between the keys that expire no later
\* and those that expire later.
LEMMA InsertSorted ==
    ASSUME NEW K, Dated(K), NEW keys \in Seq(K), NEW key \in K, SortedByDate(keys)
    PROVE  LET after == insertSorted(keys, key)
           IN  /\ after \in Seq(K)
               /\ Len(after) = Len(keys) + 1
               /\ \E p \in 1..(Len(keys) + 1) :
                     /\ after[p] = key
                     /\ \A i \in 1..(p - 1) : after[i] = keys[i]
                     /\ \A i \in (p + 1)..(Len(keys) + 1) : after[i] = keys[i - 1]
                     /\ \A j \in 1..(p - 1) :
                           keys[j].expiration_date <= key.expiration_date
                     /\ \A j \in p..Len(keys) :
                           keys[j].expiration_date > key.expiration_date
<1> DEFINE n == Len(keys)
           after == insertSorted(keys, key)
<1>1. /\ n \in Nat /\ DOMAIN keys = 1..n
      /\ \A i \in 1..n : keys[i] \in K /\ keys[i].expiration_date \in Int
      /\ key.expiration_date \in Int
    BY Vector DEF Dated
<1>2. CASE keys = <<>> \/ Last(keys).expiration_date <= key.expiration_date
  <2>1. after = Append(keys, key)
      BY <1>2 DEF insertSorted
  <2>2. /\ after \in Seq(K) /\ Len(after) = n + 1
        /\ \A i \in 1..n : after[i] = keys[i]
        /\ after[n + 1] = key
      BY <2>1, AppendProperties
  <2>3. \A j \in 1..n : keys[j].expiration_date <= key.expiration_date
    <3>1. CASE keys = <<>>
        BY <3>1
    <3>2. CASE keys # <<>>
      <4>1. keys[n].expiration_date <= key.expiration_date /\ n \in 1..n
          BY <1>1, <1>2, <3>2, EmptySeq DEF Last
      <4>2. \A j \in 1..n : keys[j].expiration_date <= keys[n].expiration_date
          BY <1>1, <4>1 DEF SortedByDate
      <4> QED BY <1>1, <4>1, <4>2
    <3> QED BY <3>1, <3>2
  <2> HIDE DEF after, n
  <2>4. /\ n + 1 \in 1..(n + 1)
        /\ \A i \in 1..((n + 1) - 1) : after[i] = keys[i]
        /\ \A i \in ((n + 1) + 1)..(n + 1) : after[i] = keys[i - 1]
        /\ \A j \in 1..((n + 1) - 1) : keys[j].expiration_date <= key.expiration_date
        /\ \A j \in (n + 1)..n : keys[j].expiration_date > key.expiration_date
      BY <1>1, <2>2, <2>3
  <2> QED BY <2>2, <2>4 DEF after, n
<1>3. CASE ~(keys = <<>> \/ Last(keys).expiration_date <= key.expiration_date)
  <2> DEFINE p == upper_bound(keys, key)
             front == SubSeq(keys, 1, p - 1)
             back == SubSeq(keys, p, n)
  <2>1. /\ p \in 1..(n + 1)
        /\ \A j \in 1..(p - 1) : keys[j].expiration_date <= key.expiration_date
        /\ \A j \in p..n : keys[j].expiration_date > key.expiration_date
      BY UpperBound
  <2>2. after = front \o <<key>> \o back
      BY <1>3 DEF insertSorted, InsertAt
  <2> HIDE DEF p, n, after
  <2>3. /\ front \in Seq(K) /\ Len(front) = p - 1
        /\ \A i \in 1..(p - 1) : front[i] = keys[i]
    <3>1. \A i \in 1..(p - 1) : keys[i] \in K
        BY <1>1, <2>1
    <3> QED BY <1>1, <2>1, <3>1, SubSeqProperties
  <2>4. /\ back \in Seq(K) /\ Len(back) = n - p + 1
        /\ \A i \in 1..(n - p + 1) : back[i] = keys[p + i - 1]
    <3>1. \A i \in p..n : keys[i] \in K
        BY <1>1, <2>1
    <3> QED BY <1>1, <2>1, <3>1, SubSeqProperties
  <2> HIDE DEF front, back
  <2>5. <<key>> \in Seq(K) /\ Len(<<key>>) = 1 /\ <<key>>[1] = key
      OBVIOUS
  <2> DEFINE upto == front \o <<key>>
  <2>6. /\ upto \in Seq(K) /\ Len(upto) = p
        /\ \A i \in 1..(p - 1) : upto[i] = keys[i]
        /\ upto[p] = key
      BY <2>1, <2>3, <2>5, ConcatProperties
  <2> HIDE DEF upto
  <2>7. /\ after \in Seq(K) /\ Len(after) = n + 1
        /\ \A i \in 1..(n + 1) : after[i] = IF i <= p THEN upto[i] ELSE back[i - p]
    <3>1. after = upto \o back
        BY <2>2 DEF upto
    <3>2. p + (n - p + 1) = n + 1
        BY <1>1, <2>1
    <3> QED BY <2>4, <2>6, <3>1, <3>2, ConcatProperties
  <2>8. /\ after[p] = key
        /\ \A i \in 1..(p - 1) : after[i] = keys[i]
        /\ \A i \in (p + 1)..(n + 1) : after[i] = keys[i - 1]
    <3>1. after[p] = key /\ \A i \in 1..(p - 1) : after[i] = keys[i]
        BY <1>1, <2>1, <2>6, <2>7
    <3>2. ASSUME NEW i \in (p + 1)..(n + 1) PROVE after[i] = keys[i - 1]
      <4>1. /\ i \in 1..(n + 1) /\ ~(i <= p) /\ i - p \in 1..(n - p + 1)
            /\ p + (i - p) - 1 = i - 1
          BY <1>1, <2>1
      <4> QED BY <2>4, <2>7, <4>1
    <3> QED BY <3>1, <3>2
  <2> QED BY <2>1, <2>7, <2>8 DEF n, after
<1> QED BY <1>2, <1>3

\* A part of a sorted vector is sorted, and holds nothing twice that the vector
\* does not hold twice.
LEMMA Part ==
    ASSUME NEW K, NEW keys \in Seq(K), NEW m \in 1..(Len(keys) + 1)
    PROVE  LET after == SubSeq(keys, m, Len(keys))
           IN  /\ after \in Seq(K)
               /\ Len(after) = Len(keys) - m + 1
               /\ \A i \in 1..Len(after) : after[i] = keys[m + i - 1]
               /\ ToSet(after) = {keys[i] : i \in m..Len(keys)}
               /\ ToSet(after) \subseteq ToSet(keys)
               /\ SortedByDate(keys) => SortedByDate(after)
               /\ IsInjective(keys) => IsInjective(after)
<1> DEFINE n == Len(keys)
           after == SubSeq(keys, m, Len(keys))
<1>1. n \in Nat /\ DOMAIN keys = 1..n /\ \A i \in 1..n : keys[i] \in K
    BY Vector
<1>2. m \in Nat \ {0} /\ m <= n + 1
    BY <1>1
<1>3. /\ after \in Seq(K) /\ Len(after) = n - m + 1
      /\ \A i \in 1..(n - m + 1) : after[i] = keys[m + i - 1]
  <2>1. \A i \in m..n : keys[i] \in K
      BY <1>1, <1>2
  <2>2. /\ after \in Seq(K) /\ Len(after) = IF m <= n THEN n - m + 1 ELSE 0
        /\ \A i \in 1..(n - m + 1) : after[i] = keys[m + i - 1]
      BY <1>1, <1>2, <2>1, SubSeqProperties
  <2> QED BY <1>1, <1>2, <2>2
<1>4. DOMAIN after = 1..(n - m + 1)
    BY <1>3, LenProperties
<1> HIDE DEF after
<1>5. \A i \in 1..(n - m + 1) : m + i - 1 \in m..n /\ m + i - 1 \in 1..n
    BY <1>1, <1>2, <1>4
<1>6. ToSet(after) = {keys[i] : i \in m..n}
  <2>1. \A i \in m..n : i - m + 1 \in 1..(n - m + 1) /\ m + (i - m + 1) - 1 = i
      BY <1>1, <1>2
  <2>2. \A i \in m..n : \E j \in DOMAIN after : after[j] = keys[i]
    <3> TAKE i \in m..n
    <3>1. after[i - m + 1] = keys[i]
        BY <1>3, <2>1
    <3> QED BY <1>4, <2>1, <3>1
  <2>3. \A j \in DOMAIN after : \E i \in m..n : after[j] = keys[i]
      BY <1>3, <1>4, <1>5
  <2> QED BY <2>2, <2>3 DEF ToSet
<1>7. ToSet(after) \subseteq ToSet(keys)
  <2>1. \A i \in m..n : i \in DOMAIN keys
      BY <1>1, <1>2
  <2> QED BY <1>6, <2>1 DEF ToSet
<1>8. ASSUME SortedByDate(keys) PROVE SortedByDate(after)
  <2> SUFFICES ASSUME NEW i \in 1..(n - m + 1), NEW j \in 1..(n - m + 1), i < j
               PROVE  after[i].expiration_date <= after[j].expiration_date
      BY <1>4 DEF SortedByDate
  <2>1. m + i - 1 < m + j - 1
      BY <1>1, <1>2
  <2> QED BY <1>1, <1>3, <1>5, <1>8, <2>1 DEF SortedByDate
<1>9. ASSUME IsInjective(keys) PROVE IsInjective(after)
  <2> SUFFICES ASSUME NEW i \in 1..(n - m + 1), NEW j \in 1..(n - m + 1),
                      after[i] = after[j]
               PROVE  i = j
      BY <1>4 DEF IsInjective
  <2>1. m + i - 1 = m + j - 1
      BY <1>1, <1>3, <1>5, <1>9, ZenonT(60) DEF IsInjective
  <2> QED BY <1>1, <1>2, <2>1
<1> QED BY <1>3, <1>6, <1>7, <1>8, <1>9 DEF after

\* makeRoom leaves room for one more key.
LEMMA MakeRoom ==
    ASSUME NEW K, NEW keys \in Seq(K),
           Len(keys) <= header_and_message_store_maximum_keys
    PROVE  LET after == makeRoom(keys)
           IN  /\ after \in Seq(K)
               /\ Len(after) + 1 <= header_and_message_store_maximum_keys
               /\ ToSet(after) \subseteq ToSet(keys)
               /\ SortedByDate(keys) => SortedByDate(after)
               /\ IsInjective(keys) => IsInjective(after)
<1>1. Len(keys) \in Nat /\ header_and_message_store_maximum_keys \in Nat \ {0}
    BY Vector, KeyStoreAssumption
<1>2. CASE Len(keys) = header_and_message_store_maximum_keys
  <2>1. keys # <<>>
      BY <1>1, <1>2, EmptySeq
  <2>2. makeRoom(keys) = SubSeq(keys, 2, Len(keys))
      BY <1>2, <2>1, TailIsSubSeq DEF makeRoom
  <2>3. 2 \in 1..(Len(keys) + 1)
      BY <1>1, <1>2
  <2>4. Len(keys) - 2 + 1 + 1 = Len(keys)
      BY <1>1
  <2> QED BY <1>1, <1>2, <2>2, <2>3, <2>4, Part
<1>3. CASE Len(keys) # header_and_message_store_maximum_keys
  <2>1. Len(keys) + 1 <= header_and_message_store_maximum_keys
      BY <1>1, <1>3
  <2> QED BY <1>3, <2>1 DEF makeRoom
<1> QED BY <1>2, <1>3

\* HeaderAndMessageKeyStore::add(key) keeps a store sorted, within its capacity and
\* without duplicates.
LEMMA AddKey ==
    ASSUME NEW K, Dated(K), NEW keys \in Seq(K), NEW key \in K, NEW now \in Int,
           SortedByDate(keys), Len(keys) <= header_and_message_store_maximum_keys,
           IsInjective(keys), key \notin ToSet(keys)
    PROVE  LET after == add(keys, key, now)
           IN  /\ after \in Seq(K)
               /\ Len(after) <= header_and_message_store_maximum_keys
               /\ SortedByDate(after)
               /\ IsInjective(after)
               /\ ToSet(after) \subseteq ToSet(keys) \union {key}
<1>1. CASE isOutdated(key, now)
    BY <1>1 DEF add
<1>2. CASE ~isOutdated(key, now)
  <2> DEFINE room == makeRoom(keys)
             n == Len(room)
             after == insertSorted(room, key)
  <2>1. add(keys, key, now) = after
      BY <1>2 DEF add
  <2>2. /\ room \in Seq(K) /\ n + 1 <= header_and_message_store_maximum_keys
        /\ ToSet(room) \subseteq ToSet(keys)
        /\ SortedByDate(room) /\ IsInjective(room)
      BY MakeRoom
  <2> HIDE DEF room
  <2>3. /\ after \in Seq(K)
        /\ Len(after) = n + 1
        /\ \E p \in 1..(n + 1) :
              /\ after[p] = key
              /\ \A i \in 1..(p - 1) : after[i] = room[i]
              /\ \A i \in (p + 1)..(n + 1) : after[i] = room[i - 1]
              /\ \A j \in 1..(p - 1) : room[j].expiration_date <= key.expiration_date
              /\ \A j \in p..n : room[j].expiration_date > key.expiration_date
      BY <2>2, InsertSorted
  <2>4. /\ n \in Nat /\ DOMAIN room = 1..n /\ DOMAIN after = 1..(n + 1)
        /\ \A i \in 1..n : room[i] \in K /\ room[i].expiration_date \in Int
        /\ key.expiration_date \in Int
      BY <2>2, <2>3, Vector DEF Dated
  <2> HIDE DEF after, n
  <2>5. PICK p \in 1..(n + 1) :
           /\ after[p] = key
           /\ \A i \in 1..(p - 1) : after[i] = room[i]
           /\ \A i \in (p + 1)..(n + 1) : after[i] = room[i - 1]
           /\ \A j \in 1..(p - 1) : room[j].expiration_date <= key.expiration_date
           /\ \A j \in p..n : room[j].expiration_date > key.expiration_date
      BY <2>3
  <2>6. \A i \in 1..(n + 1) : \/ i \in 1..(p - 1) /\ i \in 1..n
                              \/ i = p
                              \/ i \in (p + 1)..(n + 1) /\ i - 1 \in p..n /\ i - 1 \in 1..n
      BY <2>4
  <2>7. SortedByDate(after)
    <3> SUFFICES ASSUME NEW i \in 1..(n + 1), NEW j \in 1..(n + 1), i < j
                 PROVE  after[i].expiration_date <= after[j].expiration_date
        BY <2>4 DEF SortedByDate
    <3>1. CASE i < p /\ j < p
        BY <2>2, <2>4, <2>5, <2>6, <3>1, SMTT(30) DEF SortedByDate
    <3>2. CASE i < p /\ j = p
        BY <2>4, <2>5, <3>2
    <3>3. CASE i < p /\ j > p
      <4>1. /\ after[i] = room[i] /\ after[j] = room[j - 1] /\ i \in 1..n
            /\ j - 1 \in 1..n /\ (i < j - 1 \/ i = j - 1)
          BY <2>4, <2>5, <3>3
      <4>2. CASE i = j - 1
          BY <2>4, <4>1, <4>2
      <4>3. CASE i < j - 1
          BY <2>2, <2>4, <4>1, <4>3 DEF SortedByDate
      <4> QED BY <4>1, <4>2, <4>3
    <3>4. CASE i = p
      <4>1. after[j] = room[j - 1] /\ j - 1 \in p..n /\ j - 1 \in 1..n
          BY <2>4, <2>5, <3>4
      <4> QED BY <2>4, <2>5, <3>4, <4>1
    <3>5. CASE i > p
      <4>1. /\ after[i] = room[i - 1] /\ after[j] = room[j - 1] /\ i - 1 \in 1..n
            /\ j - 1 \in 1..n /\ i - 1 < j - 1
          BY <2>4, <2>5, <3>5
      <4> QED BY <2>2, <2>4, <4>1 DEF SortedByDate
    <3> QED BY <2>4, <3>1, <3>2, <3>3, <3>4, <3>5
  <2>8. ToSet(after) \subseteq ToSet(room) \union {key}
      BY <2>4, <2>5, <2>6 DEF ToSet
  <2>9. IsInjective(after)
    <3> SUFFICES ASSUME NEW i \in 1..(n + 1), NEW j \in 1..(n + 1), i < j,
                        after[i] = after[j]
                 PROVE  FALSE
        BY <2>4 DEF IsInjective
    <3>1. \A x \in 1..n : room[x] # key
        BY <2>2, <2>4 DEF ToSet
    <3>2. CASE i = p \/ j = p
        BY <2>4, <2>5, <2>6, <3>1, <3>2
    <3>3. CASE i # p /\ j # p
      <4>1. PICK x \in 1..n : after[i] = room[x] /\ x = IF i < p THEN i ELSE i - 1
          BY <2>4, <2>5, <2>6, <3>3
      <4>2. PICK y \in 1..n : after[j] = room[y] /\ y = IF j < p THEN j ELSE j - 1
          BY <2>4, <2>5, <2>6, <3>3
      <4>3. x = y
          BY <2>2, <2>4, <4>1, <4>2 DEF IsInjective
      <4> QED BY <2>4, <3>3, <4>1, <4>2, <4>3
    <3> QED BY <3>2, <3>3
  <2>10. Len(after) <= header_and_message_store_maximum_keys /\ after \in Seq(K)
      BY <2>2, <2>3 DEF n, after
  <2> QED BY <2>1, <2>2, <2>7, <2>8, <2>9, <2>10
<1> QED BY <1>1, <1>2

-----------------------------------------------------------------------------
(***************************************************************************)
(* remove(index) and removeOutdatedAndTrimSize                             *)
(***************************************************************************)

\* HeaderAndMessageKeyStore::remove takes one key out and moves the rest up.
LEMMA RemoveKey ==
    ASSUME NEW K, NEW keys \in Seq(K), NEW index \in DOMAIN keys
    PROVE  LET after == remove(keys, index)
           IN  /\ after \in Seq(K)
               /\ Len(after) = Len(keys) - 1
               /\ ToSet(after) \subseteq ToSet(keys)
               /\ SortedByDate(keys) => SortedByDate(after)
               /\ IsInjective(keys) =>
                     IsInjective(after) /\ ToSet(after) = ToSet(keys) \ {keys[index]}
<1> DEFINE n == Len(keys)
           front == SubSeq(keys, 1, index - 1)
           back == SubSeq(keys, index + 1, n)
           after == remove(keys, index)
           from(i) == IF i < index THEN i ELSE i + 1
<1>1. n \in Nat /\ DOMAIN keys = 1..n /\ \A i \in 1..n : keys[i] \in K
    BY Vector
<1>2. index \in 1..n /\ index - 1 \in Nat
    BY <1>1
<1>3. /\ front \in Seq(K) /\ Len(front) = index - 1
      /\ \A i \in 1..(index - 1) : front[i] = keys[i]
  <2>1. \A i \in 1..(index - 1) : keys[i] \in K
      BY <1>1, <1>2
  <2> QED BY <1>1, <1>2, <2>1, SubSeqProperties
<1>4. /\ back \in Seq(K) /\ Len(back) = n - index
      /\ \A i \in 1..(n - index) : back[i] = keys[index + i]
  <2>1. \A i \in (index + 1)..n : keys[i] \in K
      BY <1>1, <1>2
  <2>2. /\ back \in Seq(K)
        /\ Len(back) = IF index + 1 <= n THEN n - (index + 1) + 1 ELSE 0
        /\ \A i \in 1..(n - (index + 1) + 1) : back[i] = keys[(index + 1) + i - 1]
    <3>1. index + 1 \in Int /\ n \in Int
        BY <1>1, <1>2
    <3> QED BY <2>1, <3>1, SubSeqProperties
  <2> HIDE DEF back
  <2>3. Len(back) = n - index /\ n - (index + 1) + 1 = n - index
      BY <1>1, <1>2, <2>2
  <2>4. ASSUME NEW i \in 1..(n - index) PROVE back[i] = keys[index + i]
    <3>1. (index + 1) + i - 1 = index + i /\ i \in 1..(n - (index + 1) + 1)
        BY <1>1, <1>2, <2>3
    <3> QED BY <2>2, <3>1
  <2> QED BY <2>2, <2>3, <2>4
<1>5. after = front \o back
    BY DEF remove, RemoveAt
<1> HIDE DEF n, front, back, after
<1>6. /\ after \in Seq(K) /\ Len(after) = n - 1
      /\ \A i \in 1..(n - 1) :
            after[i] = IF i <= index - 1 THEN front[i] ELSE back[i - (index - 1)]
  <2>1. index - 1 + (n - index) = n - 1
      BY <1>1, <1>2
  <2> QED BY <1>3, <1>4, <1>5, <2>1, ConcatProperties
<1>7. DOMAIN after = 1..(n - 1)
    BY <1>6, LenProperties
<1>8. \A i \in 1..(n - 1) : from(i) \in 1..n /\ after[i] = keys[from(i)]
  <2> TAKE i \in 1..(n - 1)
  <2>1. CASE i < index
      BY <1>1, <1>2, <1>3, <1>6, <2>1
  <2>2. CASE i >= index
    <3>1. /\ ~(i <= index - 1) /\ i - (index - 1) \in 1..(n - index)
          /\ index + (i - (index - 1)) = i + 1 /\ i + 1 \in 1..n /\ ~(i < index)
        BY <1>1, <1>2, <2>2
    <3>2. after[i] = back[i - (index - 1)]
        BY <1>6, <3>1
    <3>3. back[i - (index - 1)] = keys[i + 1]
        BY <1>4, <3>1
    <3> QED BY <3>1, <3>2, <3>3
  <2> QED BY <1>1, <1>2, <2>1, <2>2
<1>9. \A i, j \in 1..(n - 1) : /\ i < j => from(i) < from(j)
                               /\ from(i) = from(j) => i = j
    BY <1>1, <1>2
<1>10. ToSet(after) = {keys[i] : i \in 1..n \ {index}}
  <2>1. /\ ToSet(after) = {after[i] : i \in 1..(n - 1)}
        /\ \A i \in 1..(n - 1) : from(i) # index
      BY <1>1, <1>2, <1>7 DEF ToSet
  <2>2. \A i \in 1..n \ {index} : \E j \in 1..(n - 1) : from(j) = i
    <3> TAKE i \in 1..n \ {index}
    <3>1. CASE i < index
        BY <1>1, <1>2, <3>1
    <3>2. CASE i > index
      <4>1. i - 1 \in 1..(n - 1) /\ from(i - 1) = i
          BY <1>1, <1>2, <3>2
      <4> QED BY <4>1
    <3> QED BY <1>1, <1>2, <3>1, <3>2
  <2> HIDE DEF from
  <2>3. \A x \in ToSet(after) : x \in {keys[i] : i \in 1..n \ {index}}
      BY <1>8, <2>1
  <2>4. \A i \in 1..n \ {index} : keys[i] \in ToSet(after)
      BY <1>8, <2>1, <2>2
  <2> QED BY <2>3, <2>4
<1> HIDE DEF from
<1>11. ToSet(keys) = {keys[i] : i \in 1..n}
    BY <1>1 DEF ToSet
<1>12. SortedByDate(keys) => SortedByDate(after)
    BY <1>1, <1>7, <1>8, <1>9 DEF SortedByDate
<1>13. IsInjective(keys) => IsInjective(after)
    BY <1>1, <1>7, <1>8, <1>9 DEF IsInjective
<1>14. ToSet(after) \subseteq ToSet(keys)
    BY <1>10, <1>11
<1>15. IsInjective(keys) => ToSet(after) = ToSet(keys) \ {keys[index]}
  <2> SUFFICES ASSUME IsInjective(keys)
               PROVE  ToSet(after) = ToSet(keys) \ {keys[index]}
      OBVIOUS
  <2>1. \A i \in 1..n : keys[i] = keys[index] => i = index
      BY <1>1, <1>2 DEF IsInjective
  <2> QED BY <1>10, <1>11, <2>1
<1> QED BY <1>6, <1>12, <1>13, <1>14, <1>15 DEF after, n

\* In a sorted vector the scan for the first key that is not outdated removes all
\* keys that are outdated and no other.
LEMMA RemoveOutdated ==
    ASSUME NEW K, Dated(K), NEW keys \in Seq(K), NEW now \in Int, SortedByDate(keys)
    PROVE  LET after == removeOutdated(keys, now)
           IN  /\ after \in Seq(K)
               /\ SortedByDate(after)
               /\ IsInjective(keys) => IsInjective(after)
               /\ ToSet(after) = {k \in ToSet(keys) : ~isOutdated(k, now)}
<1> DEFINE n == Len(keys)
           S == {i \in 1..(n + 1) : i <= n => ~isOutdated(keys[i], now)}
           P(i) == /\ \A j \in 1..(i - 1) : isOutdated(keys[j], now)
                   /\ i <= n => ~isOutdated(keys[i], now)
           first == CHOOSE i \in 1..(n + 1) : P(i)
<1>1. /\ n \in Nat /\ DOMAIN keys = 1..n
      /\ \A i \in 1..n : keys[i] \in K /\ keys[i].expiration_date \in Int
    BY Vector DEF Dated
<1>2. n + 1 \in S /\ S \subseteq Nat
    BY <1>1
<1>3. PICK m \in S : \A l \in S : m <= l
  <2> HIDE DEF S
  <2> QED BY <1>2, LeastIndex
<1>4. P(m)
  <2>1. \A j \in 1..(m - 1) : j \in 1..n /\ j \notin S
      BY <1>1, <1>3
  <2> QED BY <1>3, <2>1
<1>5. first \in 1..(n + 1) /\ P(first)
  <2> HIDE DEF P
  <2> QED BY <1>3, <1>4
<1>6. removeOutdated(keys, now) = SubSeq(keys, first, n)
    BY DEF removeOutdated
<1> HIDE DEF first
<1>7. \A j \in first..n : j \in 1..n /\ ~isOutdated(keys[j], now)
  <2> TAKE j \in first..n
  <2>1. first \in 1..n /\ j \in 1..n /\ ~isOutdated(keys[first], now)
      BY <1>1, <1>5
  <2>2. keys[first].expiration_date <= keys[j].expiration_date
      BY <1>1, <2>1 DEF SortedByDate
  <2>3. now - header_and_message_store_maximum_age \in Int
      BY KeyStoreAssumption
  <2> QED BY <1>1, <2>1, <2>2, <2>3 DEF isOutdated
<1>8. \A j \in 1..n : j \notin first..n => isOutdated(keys[j], now)
    BY <1>1, <1>5
<1>9. {keys[i] : i \in first..n} = {k \in ToSet(keys) : ~isOutdated(k, now)}
  <2>1. \A j \in 1..n : j \in first..n <=> ~isOutdated(keys[j], now)
      BY <1>7, <1>8
  <2> QED BY <1>1, <1>7, <2>1 DEF ToSet
<1> DEFINE after == SubSeq(keys, first, n)
<1>10. /\ after \in Seq(K)
       /\ ToSet(after) = {keys[i] : i \in first..n}
       /\ SortedByDate(after)
       /\ IsInjective(keys) => IsInjective(after)
    BY <1>5, Part
<1>11. removeOutdated(keys, now) = after
    BY <1>6
<1> HIDE DEF after
<1> QED BY <1>9, <1>10, <1>11

\* Trimming keeps the newest keys, as many as fit.
LEMMA Trim ==
    ASSUME NEW K, Dated(K), NEW keys \in Seq(K), SortedByDate(keys)
    PROVE  LET after == trim(keys)
               room == header_and_message_store_maximum_keys
           IN  /\ after \in Seq(K)
               /\ SortedByDate(after)
               /\ IsInjective(keys) => IsInjective(after)
               /\ ToSet(after) \subseteq ToSet(keys)
               /\ Len(after) = IF Len(keys) < room THEN Len(keys) ELSE room
               /\ \A k \in ToSet(after), gone \in ToSet(keys) \ ToSet(after) :
                     gone.expiration_date <= k.expiration_date
<1> DEFINE n == Len(keys)
           room == header_and_message_store_maximum_keys
<1>1. /\ n \in Nat /\ DOMAIN keys = 1..n
      /\ ToSet(keys) = {keys[i] : i \in 1..n}
    BY Vector
<1>2. room \in Nat \ {0}
    BY KeyStoreAssumption
<1>3. CASE n > room
  <2> DEFINE m == n - room + 1
             after == SubSeq(keys, m, n)
  <2>1. trim(keys) = after
      BY <1>3 DEF trim
  <2>2. m \in 1..(n + 1) /\ n - m + 1 = room
      BY <1>1, <1>2, <1>3
  <2> HIDE DEF m
  <2>3. /\ after \in Seq(K) /\ Len(after) = room
        /\ ToSet(after) = {keys[i] : i \in m..n}
        /\ ToSet(after) \subseteq ToSet(keys) /\ SortedByDate(after)
        /\ IsInjective(keys) => IsInjective(after)
      BY <2>2, Part
  <2> HIDE DEF after
  <2>4. ASSUME NEW k \in ToSet(after), NEW gone \in ToSet(keys) \ ToSet(after)
        PROVE  gone.expiration_date <= k.expiration_date
    <3>1. PICK i \in m..n : k = keys[i]
        BY <2>3
    <3>2. PICK j \in 1..n : gone = keys[j]
        BY <1>1
    <3>3. j \notin m..n
        BY <2>3, <3>2
    <3>4. j < i /\ i \in 1..n
        BY <1>1, <2>2, <3>3
    <3> QED BY <1>1, <3>1, <3>2, <3>4 DEF SortedByDate
  <2>5. Len(after) = IF n < room THEN n ELSE room
    <3>1. ~(n < room)
        BY <1>1, <1>2, <1>3
    <3> QED BY <2>3, <3>1
  <2> QED BY <2>1, <2>3, <2>4, <2>5
<1>4. CASE ~(n > room)
  <2>1. trim(keys) = keys
      BY <1>4 DEF trim
  <2>2. n < room \/ n = room
    <3> HIDE DEF n, room
    <3> QED BY <1>1, <1>2, <1>4
  <2>3. n = IF n < room THEN n ELSE room
    <3> HIDE DEF n, room
    <3> QED BY <2>2
  <2> QED BY <2>1, <2>3
<1> QED BY <1>3, <1>4

-----------------------------------------------------------------------------
(***************************************************************************)
(* add(keystore): std::merge of two sorted vectors                         *)
(***************************************************************************)

\* Counting the members of a set of indices that is, or is within, a prefix.
LEMMA Counting ==
    ASSUME NEW n \in Nat, NEW S \in SUBSET (1..n)
    PROVE  /\ IsFiniteSet(S) /\ Cardinality(S) \in 0..n
           /\ \A j \in 1..n : (1..j) \subseteq S => Cardinality(S) >= j
           /\ \A j \in 1..n : S \subseteq 1..(j - 1) => Cardinality(S) <= j - 1
           /\ \A T \in SUBSET (1..n) : S \subseteq T => Cardinality(S) <= Cardinality(T)
<1>1. \A m \in Nat : IsFiniteSet(1..m) /\ Cardinality(1..m) = m
  <2> TAKE m \in Nat
  <2>1. Cardinality(1..m) = (IF 1 > m THEN 0 ELSE m - 1 + 1) /\ IsFiniteSet(1..m)
      BY FS_Interval
  <2> QED BY <2>1
<1>2. IsFiniteSet(S) /\ Cardinality(S) <= n /\ Cardinality(S) \in Nat
  <2>1. IsFiniteSet(1..n) /\ Cardinality(1..n) = n
      BY <1>1
  <2>2. IsFiniteSet(S) /\ Cardinality(S) <= Cardinality(1..n)
      BY <2>1, FS_Subset
  <2> QED BY <2>1, <2>2, FS_CardinalityType
<1>3. ASSUME NEW j \in 1..n, (1..j) \subseteq S PROVE Cardinality(S) >= j
  <2>1. Cardinality(1..j) <= Cardinality(S) /\ Cardinality(1..j) = j
      BY <1>1, <1>2, <1>3, FS_Subset
  <2> QED BY <1>2, <2>1
<1>4. ASSUME NEW j \in 1..n, S \subseteq 1..(j - 1) PROVE Cardinality(S) <= j - 1
  <2>1. j - 1 \in Nat
      OBVIOUS
  <2>2. IsFiniteSet(1..(j - 1)) /\ Cardinality(1..(j - 1)) = j - 1
      BY <1>1, <2>1
  <2>3. Cardinality(S) <= Cardinality(1..(j - 1))
      BY <1>4, <2>2, FS_Subset
  <2> QED BY <2>2, <2>3
<1>5. ASSUME NEW T \in SUBSET (1..n), S \subseteq T PROVE Cardinality(S) <= Cardinality(T)
  <2>1. IsFiniteSet(T)
      BY <1>1, FS_Subset
  <2> QED BY <1>5, <2>1, FS_Subset
<1> QED BY <1>2, <1>3, <1>4, <1>5

\* Where std::merge puts the elements of two sorted vectors a and b: pa and pb take
\* all places, each vector keeps its order, and an element of the first comes before
\* one of the second unless that one expires earlier.
Placement(a, b, pa, pb) ==
    LET m == Len(a)
        n == Len(b)
    IN  /\ pa \in [1..m -> 1..(m + n)]
        /\ pb \in [1..n -> 1..(m + n)]
        /\ \A i \in 1..m : merge(a, b)[pa[i]] = a[i]
        /\ \A j \in 1..n : merge(a, b)[pb[j]] = b[j]
        /\ \A k \in 1..(m + n) : (\E i \in 1..m : pa[i] = k) \/ (\E j \in 1..n : pb[j] = k)
        /\ \A i, x \in 1..m : i < x => pa[i] < pa[x]
        /\ \A j, x \in 1..n : j < x => pb[j] < pb[x]
        /\ \A i \in 1..m, j \in 1..n :
              IF a[i].expiration_date <= b[j].expiration_date
              THEN pa[i] < pb[j] ELSE pb[j] < pa[i]

\* The number of elements of the other vector that precede an element tells its
\* place.
LEMMA MergePlaces ==
    ASSUME NEW K, Dated(K), NEW a \in Seq(K), NEW b \in Seq(K),
           SortedByDate(a), SortedByDate(b)
    PROVE  \E pa, pb : Placement(a, b, pa, pb)
<1> DEFINE m == Len(a)
           n == Len(b)
           P(i) == {j \in DOMAIN b : b[j].expiration_date < a[i].expiration_date}
           Q(j) == {i \in DOMAIN a : a[i].expiration_date <= b[j].expiration_date}
           pa == [i \in 1..m |-> i + Cardinality(P(i))]
           pb == [j \in 1..n |-> j + Cardinality(Q(j))]
<1>1. /\ m \in Nat /\ n \in Nat /\ DOMAIN a = 1..m /\ DOMAIN b = 1..n
      /\ \A i \in 1..m : a[i].expiration_date \in Int
      /\ \A j \in 1..n : b[j].expiration_date \in Int
    BY Vector DEF Dated
<1>2. \A i \in 1..m : P(i) \in SUBSET (1..n)
    BY <1>1
<1>3. \A j \in 1..n : Q(j) \in SUBSET (1..m)
    BY <1>1
<1>4. ASSUME NEW i \in 1..m, NEW j \in 1..n
      PROVE  /\ b[j].expiration_date < a[i].expiration_date
                  => (1..j) \subseteq P(i) /\ Q(j) \subseteq 1..(i - 1)
             /\ ~(b[j].expiration_date < a[i].expiration_date)
                  => P(i) \subseteq 1..(j - 1) /\ (1..i) \subseteq Q(j)
  <2>1. \A x \in 1..m : /\ x < i => a[x].expiration_date <= a[i].expiration_date
                        /\ i < x => a[i].expiration_date <= a[x].expiration_date
      BY <1>1 DEF SortedByDate
  <2>2. \A y \in 1..n : /\ y < j => b[y].expiration_date <= b[j].expiration_date
                        /\ j < y => b[j].expiration_date <= b[y].expiration_date
      BY <1>1 DEF SortedByDate
  <2>3. ASSUME b[j].expiration_date < a[i].expiration_date
        PROVE  (1..j) \subseteq P(i) /\ Q(j) \subseteq 1..(i - 1)
    <3>1. ASSUME NEW y \in 1..j PROVE y \in P(i)
      <4>1. y \in 1..n /\ (y = j \/ y < j)
          BY <1>1
      <4> QED BY <1>1, <2>2, <2>3, <4>1
    <3>2. ASSUME NEW x \in Q(j) PROVE x \in 1..(i - 1)
      <4>1. x \in 1..m /\ a[x].expiration_date <= b[j].expiration_date
          BY <1>1
      <4>2. x < i
          BY <1>1, <2>1, <2>3, <4>1
      <4> QED BY <1>1, <4>1, <4>2
    <3> QED BY <3>1, <3>2
  <2>4. ASSUME ~(b[j].expiration_date < a[i].expiration_date)
        PROVE  P(i) \subseteq 1..(j - 1) /\ (1..i) \subseteq Q(j)
    <3>1. ASSUME NEW y \in P(i) PROVE y \in 1..(j - 1)
      <4>1. y \in 1..n /\ b[y].expiration_date < a[i].expiration_date
          BY <1>1
      <4>2. y < j
          BY <1>1, <2>2, <2>4, <4>1
      <4> QED BY <1>1, <4>1, <4>2
    <3>2. ASSUME NEW x \in 1..i PROVE x \in Q(j)
      <4>1. x \in 1..m /\ (x = i \/ x < i)
          BY <1>1
      <4> QED BY <1>1, <2>1, <2>4, <4>1
    <3> QED BY <3>1, <3>2
  <2> QED BY <2>3, <2>4
<1>5. ASSUME NEW i \in 1..m, NEW x \in 1..m, i < x PROVE P(i) \subseteq P(x)
  <2>1. a[i].expiration_date <= a[x].expiration_date
      BY <1>1, <1>5 DEF SortedByDate
  <2> QED BY <1>1, <2>1
<1>6. ASSUME NEW j \in 1..n, NEW x \in 1..n, j < x PROVE Q(j) \subseteq Q(x)
  <2>1. b[j].expiration_date <= b[x].expiration_date
      BY <1>1, <1>6 DEF SortedByDate
  <2> QED BY <1>1, <2>1

<1> HIDE DEF m, n, P, Q
<1>7. \A i \in 1..m : Cardinality(P(i)) \in 0..n
    BY <1>1, <1>2, Counting
<1>8. \A j \in 1..n : Cardinality(Q(j)) \in 0..m
    BY <1>1, <1>3, Counting
<1>9. pa \in [1..m -> 1..(m + n)]
    BY <1>1, <1>7
<1>10. pb \in [1..n -> 1..(m + n)]
    BY <1>1, <1>8
<1>11. \A i, x \in 1..m : i < x => pa[i] < pa[x]
  <2> SUFFICES ASSUME NEW i \in 1..m, NEW x \in 1..m, i < x PROVE pa[i] < pa[x]
      OBVIOUS
  <2>1. Cardinality(P(i)) <= Cardinality(P(x))
      BY <1>1, <1>2, <1>5, Counting
  <2> QED BY <1>1, <1>7, <2>1
<1>12. \A j, x \in 1..n : j < x => pb[j] < pb[x]
  <2> SUFFICES ASSUME NEW j \in 1..n, NEW x \in 1..n, j < x PROVE pb[j] < pb[x]
      OBVIOUS
  <2>1. Cardinality(Q(j)) <= Cardinality(Q(x))
      BY <1>1, <1>3, <1>6, Counting
  <2> QED BY <1>1, <1>8, <2>1
<1>13. ASSUME NEW i \in 1..m, NEW j \in 1..n
       PROVE  IF a[i].expiration_date <= b[j].expiration_date
              THEN pa[i] < pb[j] ELSE pb[j] < pa[i]
  <2>1. CASE b[j].expiration_date < a[i].expiration_date
    <3>1. Cardinality(P(i)) >= j /\ Cardinality(Q(j)) <= i - 1
        BY <1>1, <1>2, <1>3, <1>4, <2>1, Counting
    <3>2. pb[j] < pa[i]
        BY <1>1, <1>7, <1>8, <3>1
    <3>3. ~(a[i].expiration_date <= b[j].expiration_date)
        BY <1>1, <2>1
    <3> QED BY <3>2, <3>3
  <2>2. CASE ~(b[j].expiration_date < a[i].expiration_date)
    <3>1. Cardinality(P(i)) <= j - 1 /\ Cardinality(Q(j)) >= i
        BY <1>1, <1>2, <1>3, <1>4, <2>2, Counting
    <3>2. pa[i] < pb[j]
        BY <1>1, <1>7, <1>8, <3>1
    <3>3. a[i].expiration_date <= b[j].expiration_date
        BY <1>1, <2>2
    <3> QED BY <3>2, <3>3
  <2> QED BY <2>1, <2>2
<1>14. \A i \in 1..m, j \in 1..n : pa[i] # pb[j]
  <2> SUFFICES ASSUME NEW i \in 1..m, NEW j \in 1..n PROVE pa[i] # pb[j]
      OBVIOUS
  <2>1. pa[i] \in Int /\ pb[j] \in Int /\ (pa[i] < pb[j] \/ pb[j] < pa[i])
      BY <1>1, <1>9, <1>10, <1>13
  <2> HIDE DEF pa, pb
  <2> QED BY <2>1
<1>15. \A k \in 1..(m + n) :
          merge(a, b)[k] = IF \E i \in 1..m : pa[i] = k
                           THEN a[CHOOSE i \in 1..m : pa[i] = k]
                           ELSE b[CHOOSE j \in 1..n : pb[j] = k]
  <2>1. merge(a, b)
          = [k \in 1..(m + n) |->
               IF \E i \in 1..m : i + Cardinality(P(i)) = k
               THEN a[CHOOSE i \in 1..m : i + Cardinality(P(i)) = k]
               ELSE b[CHOOSE j \in 1..n : j + Cardinality(Q(j)) = k]]
      BY <1>1 DEF merge, m, n, P, Q
  <2>2. /\ \A i \in 1..m : pa[i] = i + Cardinality(P(i))
        /\ \A j \in 1..n : pb[j] = j + Cardinality(Q(j))
      OBVIOUS
  <2>3. \A k \in 1..(m + n) :
           /\ (\E i \in 1..m : i + Cardinality(P(i)) = k) <=> (\E i \in 1..m : pa[i] = k)
           /\ (CHOOSE i \in 1..m : i + Cardinality(P(i)) = k) = (CHOOSE i \in 1..m : pa[i] = k)
           /\ (CHOOSE j \in 1..n : j + Cardinality(Q(j)) = k) = (CHOOSE j \in 1..n : pb[j] = k)
    <3> HIDE DEF pa, pb
    <3> QED BY <2>2
  <2> HIDE DEF pa, pb
  <2> TAKE k \in 1..(m + n)
  <2>4. merge(a, b)[k]
          = IF \E i \in 1..m : i + Cardinality(P(i)) = k
            THEN a[CHOOSE i \in 1..m : i + Cardinality(P(i)) = k]
            ELSE b[CHOOSE j \in 1..n : j + Cardinality(Q(j)) = k]
      BY <2>1
  <2> QED BY <2>3, <2>4
<1> HIDE DEF pa, pb
<1>16. \A i, x \in 1..m : pa[i] = pa[x] => i = x
    BY <1>1, <1>9, <1>11
<1>17. \A j, x \in 1..n : pb[j] = pb[x] => j = x
    BY <1>1, <1>10, <1>12
<1>18. \A i \in 1..m : merge(a, b)[pa[i]] = a[i]
  <2> TAKE i \in 1..m
  <2>1. pa[i] \in 1..(m + n)
      BY <1>9
  <2>2. (CHOOSE x \in 1..m : pa[x] = pa[i]) = i
      BY <1>16
  <2> QED BY <1>15, <2>1, <2>2
<1>19. \A j \in 1..n : merge(a, b)[pb[j]] = b[j]
  <2> TAKE j \in 1..n
  <2>1. pb[j] \in 1..(m + n) /\ ~(\E i \in 1..m : pa[i] = pb[j])
      BY <1>10, <1>14
  <2>2. (CHOOSE x \in 1..n : pb[x] = pb[j]) = j
      BY <1>17
  <2> QED BY <1>15, <2>1, <2>2
<1>20. \A k \in 1..(m + n) : (\E i \in 1..m : pa[i] = k) \/ (\E j \in 1..n : pb[j] = k)
  <2> DEFINE S == 1..(m + n)
             f == [x \in S |-> IF x <= m THEN pa[x] ELSE pb[x - m]]
  <2>1. \A x \in S : IF x <= m THEN x \in 1..m ELSE x - m \in 1..n
      BY <1>1
  <2>2. f \in [S -> S]
      BY <1>9, <1>10, <2>1
  <2>3. ASSUME NEW x \in S, NEW y \in S, f[x] = f[y] PROVE x = y
    <3>1. CASE x <= m /\ y <= m
        BY <1>16, <2>1, <2>3, <3>1
    <3>2. CASE ~(x <= m) /\ ~(y <= m)
      <4>1. x - m = y - m
          BY <1>17, <2>1, <2>3, <3>2
      <4> QED BY <1>1, <4>1
    <3>3. CASE (x <= m) # (y <= m)
        BY <1>14, <2>1, <2>3, <3>3
    <3> QED BY <3>1, <3>2, <3>3
  <2>4. f \in Injection(S, S)
      BY <2>2, <2>3 DEF Injection, IsInjective
  <2>5. IsFiniteSet(S)
      BY <1>1, FS_Interval
  <2>6. f \in Surjection(S, S)
    <3> HIDE DEF S, f
    <3> QED BY <2>4, <2>5, FS_Injection
  <2>7. \A k \in S : \E x \in S : f[x] = k
      BY <2>6 DEF Surjection
  <2> SUFFICES ASSUME NEW k \in S
               PROVE  (\E i \in 1..m : pa[i] = k) \/ (\E j \in 1..n : pb[j] = k)
      OBVIOUS
  <2>8. PICK x \in S : f[x] = k
      BY <2>7
  <2> QED BY <2>1, <2>8
<1>21. Placement(a, b, pa, pb)
    BY <1>9, <1>10, <1>11, <1>12, <1>13, <1>18, <1>19, <1>20 DEF Placement, m, n
<1> QED BY <1>21

\* std::merge of two sorted vectors is sorted and has the elements of both.
LEMMA Merge ==
    ASSUME NEW K, Dated(K), NEW a \in Seq(K), NEW b \in Seq(K),
           SortedByDate(a), SortedByDate(b)
    PROVE  LET after == merge(a, b)
           IN  /\ after \in Seq(K)
               /\ SortedByDate(after)
               /\ ToSet(after) = ToSet(a) \union ToSet(b)
               /\ IsInjective(a) /\ IsInjective(b) /\ ToSet(a) \cap ToSet(b) = {}
                     => IsInjective(after)
<1> DEFINE m == Len(a)
           n == Len(b)
           after == merge(a, b)
<1>1. /\ m \in Nat /\ n \in Nat /\ DOMAIN a = 1..m /\ DOMAIN b = 1..n
      /\ \A i \in 1..m : a[i] \in K /\ a[i].expiration_date \in Int
      /\ \A j \in 1..n : b[j] \in K /\ b[j].expiration_date \in Int
    BY Vector DEF Dated
<1>2. DOMAIN after = 1..(m + n) /\ after = [k \in DOMAIN after |-> after[k]]
    BY DEF merge
<1>3. PICK pa, pb : Placement(a, b, pa, pb)
    BY MergePlaces
<1>4. /\ pa \in [1..m -> 1..(m + n)]
      /\ pb \in [1..n -> 1..(m + n)]
      /\ \A i \in 1..m : after[pa[i]] = a[i]
      /\ \A j \in 1..n : after[pb[j]] = b[j]
      /\ \A k \in 1..(m + n) : (\E i \in 1..m : pa[i] = k) \/ (\E j \in 1..n : pb[j] = k)
      /\ \A i, x \in 1..m : i < x => pa[i] < pa[x]
      /\ \A j, x \in 1..n : j < x => pb[j] < pb[x]
      /\ \A i \in 1..m, j \in 1..n :
            IF a[i].expiration_date <= b[j].expiration_date
            THEN pa[i] < pb[j] ELSE pb[j] < pa[i]
    BY <1>3 DEF Placement
<1> HIDE DEF after, m, n
<1>5. \A k \in 1..(m + n) : \/ \E i \in 1..m : pa[i] = k /\ after[k] = a[i]
                            \/ \E j \in 1..n : pb[j] = k /\ after[k] = b[j]
    BY <1>4
<1>6. after \in Seq(K)
  <2>1. \A k \in 1..(m + n) : after[k] \in K
      BY <1>1, <1>5
  <2>2. after \in [1..(m + n) -> K] /\ m + n \in Nat
      BY <1>1, <1>2, <2>1
  <2> QED BY <2>2, SeqDef
<1>7. SortedByDate(after)
  <2> SUFFICES ASSUME NEW k \in 1..(m + n), NEW l \in 1..(m + n), k < l
               PROVE  after[k].expiration_date <= after[l].expiration_date
      BY <1>2 DEF SortedByDate
  <2>1. CASE (\E i \in 1..m : pa[i] = k /\ after[k] = a[i])
             /\ (\E i \in 1..m : pa[i] = l /\ after[l] = a[i])
    <3>1. PICK i \in 1..m, x \in 1..m : /\ pa[i] = k /\ after[k] = a[i]
                                        /\ pa[x] = l /\ after[l] = a[x]
        BY <2>1
    <3>2. i # x /\ ~(x < i)
        BY <1>1, <1>4, <3>1
    <3>3. i < x
        BY <1>1, <3>2
    <3> QED BY <1>1, <3>1, <3>3 DEF SortedByDate
  <2>2. CASE (\E j \in 1..n : pb[j] = k /\ after[k] = b[j])
             /\ (\E j \in 1..n : pb[j] = l /\ after[l] = b[j])
    <3>1. PICK j \in 1..n, x \in 1..n : /\ pb[j] = k /\ after[k] = b[j]
                                        /\ pb[x] = l /\ after[l] = b[x]
        BY <2>2
    <3>2. j # x /\ ~(x < j)
        BY <1>1, <1>4, <3>1
    <3>3. j < x
        BY <1>1, <3>2
    <3> QED BY <1>1, <3>1, <3>3 DEF SortedByDate
  <2>3. CASE (\E i \in 1..m : pa[i] = k /\ after[k] = a[i])
             /\ (\E j \in 1..n : pb[j] = l /\ after[l] = b[j])
    <3>1. PICK i \in 1..m, j \in 1..n : /\ pa[i] = k /\ after[k] = a[i]
                                        /\ pb[j] = l /\ after[l] = b[j]
        BY <2>3
    <3> QED BY <1>1, <1>4, <3>1
  <2>4. CASE (\E j \in 1..n : pb[j] = k /\ after[k] = b[j])
             /\ (\E i \in 1..m : pa[i] = l /\ after[l] = a[i])
    <3>1. PICK i \in 1..m, j \in 1..n : /\ pa[i] = l /\ after[l] = a[i]
                                        /\ pb[j] = k /\ after[k] = b[j]
        BY <2>4
    <3> QED BY <1>1, <1>4, <3>1
  <2> QED BY <1>5, <2>1, <2>2, <2>3, <2>4
<1>8. ToSet(after) = ToSet(a) \union ToSet(b)
  <2>1. \A k \in DOMAIN after : after[k] \in ToSet(a) \union ToSet(b)
      BY <1>1, <1>2, <1>5 DEF ToSet
  <2>2. \A i \in DOMAIN a : a[i] \in ToSet(after)
      BY <1>1, <1>2, <1>4 DEF ToSet
  <2>3. \A j \in DOMAIN b : b[j] \in ToSet(after)
      BY <1>1, <1>2, <1>4 DEF ToSet
  <2> QED BY <2>1, <2>2, <2>3 DEF ToSet
<1>9. ASSUME IsInjective(a), IsInjective(b), ToSet(a) \cap ToSet(b) = {}
      PROVE  IsInjective(after)
  <2> SUFFICES ASSUME NEW k \in 1..(m + n), NEW l \in 1..(m + n), after[k] = after[l]
               PROVE  k = l
      BY <1>2 DEF IsInjective
  <2>1. \A i \in 1..m, j \in 1..n : a[i] # b[j]
      BY <1>1, <1>9 DEF ToSet
  <2>2. \A i, x \in 1..m : a[i] = a[x] => i = x
      BY <1>1, <1>9 DEF IsInjective
  <2>3. \A j, x \in 1..n : b[j] = b[x] => j = x
      BY <1>1, <1>9 DEF IsInjective
  <2>4. CASE \E i \in 1..m : pa[i] = k /\ after[k] = a[i]
    <3>1. PICK i \in 1..m : pa[i] = k /\ after[k] = a[i]
        BY <2>4
    <3>2. ~ \E j \in 1..n : pb[j] = l /\ after[l] = b[j]
        BY <2>1, <3>1
    <3>3. \/ \E x \in 1..m : pa[x] = l /\ after[l] = a[x]
          \/ \E j \in 1..n : pb[j] = l /\ after[l] = b[j]
        BY <1>5
    <3>4. PICK x \in 1..m : pa[x] = l /\ after[l] = a[x]
        BY <3>2, <3>3
    <3> QED BY <2>2, <3>1, <3>4
  <2>5. CASE \E j \in 1..n : pb[j] = k /\ after[k] = b[j]
    <3>1. PICK j \in 1..n : pb[j] = k /\ after[k] = b[j]
        BY <2>5
    <3>2. ~ \E i \in 1..m : pa[i] = l /\ after[l] = a[i]
        BY <2>1, <3>1
    <3>3. \/ \E i \in 1..m : pa[i] = l /\ after[l] = a[i]
          \/ \E x \in 1..n : pb[x] = l /\ after[l] = b[x]
        BY <1>5
    <3>4. PICK x \in 1..n : pb[x] = l /\ after[l] = b[x]
        BY <3>2, <3>3
    <3> QED BY <2>3, <3>1, <3>4
  <2> QED BY <1>5, <2>4, <2>5
<1> QED BY <1>6, <1>7, <1>8, <1>9 DEF after

\* A vector without duplicates has as many elements as places.
LEMMA CountKeys ==
    ASSUME NEW K, NEW keys \in Seq(K), IsInjective(keys)
    PROVE  IsFiniteSet(ToSet(keys)) /\ Cardinality(ToSet(keys)) = Len(keys)
<1>1. Len(keys) \in Nat /\ DOMAIN keys = 1..Len(keys) /\ keys \in [1..Len(keys) -> K]
    BY LenProperties
<1> DEFINE n == Len(keys)
<1>2. keys \in [1..n -> ToSet(keys)]
    BY <1>1 DEF ToSet
<1>3. keys \in Bijection(1..n, ToSet(keys))
  <2>1. \A t \in ToSet(keys) : \E i \in 1..n : keys[i] = t
      BY <1>1 DEF ToSet
  <2> QED BY <1>2, <2>1 DEF Bijection, Injection, Surjection
<1>4. ExistsBijection(1..n, ToSet(keys))
    BY <1>3 DEF ExistsBijection
<1> QED BY <1>1, <1>4, FS_CountingElements, FS_NatBijection

\* HeaderAndMessageKeyStore::removeOutdatedAndTrimSize of a sorted vector keeps, of
\* the keys that are not outdated, as many as fit, and no older one than it drops.
LEMMA RemoveOutdatedAndTrimSize ==
    ASSUME NEW K, Dated(K), NEW keys \in Seq(K), NEW now \in Int,
           SortedByDate(keys), IsInjective(keys)
    PROVE  LET after == removeOutdatedAndTrimSize(keys, now)
               pool == {k \in ToSet(keys) : ~isOutdated(k, now)}
               room == header_and_message_store_maximum_keys
           IN  /\ after \in Seq(K)
               /\ SortedByDate(after)
               /\ IsInjective(after)
               /\ ToSet(after) \subseteq pool
               /\ Len(after) = IF Cardinality(pool) < room THEN Cardinality(pool) ELSE room
               /\ \A k \in ToSet(after), gone \in pool \ ToSet(after) :
                     gone.expiration_date <= k.expiration_date
<1> DEFINE some == removeOutdated(keys, now)
           after == trim(some)
<1>1. /\ some \in Seq(K) /\ SortedByDate(some) /\ IsInjective(some)
      /\ ToSet(some) = {k \in ToSet(keys) : ~isOutdated(k, now)}
    BY RemoveOutdated
<1>2. removeOutdatedAndTrimSize(keys, now) = after
    BY DEF removeOutdatedAndTrimSize
<1> HIDE DEF some
<1>3. Cardinality(ToSet(some)) = Len(some)
    BY <1>1, CountKeys
<1>4. /\ after \in Seq(K) /\ SortedByDate(after) /\ IsInjective(after)
      /\ ToSet(after) \subseteq ToSet(some)
      /\ Len(after) = IF Len(some) < header_and_message_store_maximum_keys
                      THEN Len(some) ELSE header_and_message_store_maximum_keys
      /\ \A k \in ToSet(after), gone \in ToSet(some) \ ToSet(after) :
            gone.expiration_date <= k.expiration_date
    BY <1>1, Trim
<1> HIDE DEF after
<1> QED BY <1>1, <1>2, <1>3, <1>4

\* Ratchet::commitSkippedHeaderAndMessageKeys: a second round of
\* removeOutdatedAndTrimSize changes nothing.
LEMMA Commit ==
    ASSUME NEW K, Dated(K), NEW a \in Seq(K), NEW b \in Seq(K), NEW now \in Int,
           SortedByDate(a), SortedByDate(b), IsInjective(a), IsInjective(b),
           ToSet(a) \cap ToSet(b) = {}
    PROVE  LET after == removeOutdatedAndTrimSize(addStore(a, b, now), now)
               pool == {k \in ToSet(a) \union ToSet(b) : ~isOutdated(k, now)}
               room == header_and_message_store_maximum_keys
           IN  /\ after \in Seq(K)
               /\ SortedByDate(after)
               /\ IsInjective(after)
               /\ Len(after) <= room
               /\ ToSet(after) \subseteq pool
               /\ Len(after) = IF Cardinality(pool) < room THEN Cardinality(pool) ELSE room
               /\ \A k \in ToSet(after), gone \in pool \ ToSet(after) :
                     gone.expiration_date <= k.expiration_date
<1> DEFINE both == merge(a, b)
           pool == {k \in ToSet(a) \union ToSet(b) : ~isOutdated(k, now)}
           room == header_and_message_store_maximum_keys
           once == removeOutdatedAndTrimSize(both, now)
           after == removeOutdatedAndTrimSize(once, now)
<1>1. /\ both \in Seq(K) /\ SortedByDate(both) /\ IsInjective(both)
      /\ ToSet(both) = ToSet(a) \union ToSet(b)
    BY Merge
<1> HIDE DEF both
<1>2. /\ once \in Seq(K) /\ SortedByDate(once) /\ IsInjective(once)
      /\ ToSet(once) \subseteq pool
      /\ Len(once) = IF Cardinality(pool) < room THEN Cardinality(pool) ELSE room
      /\ \A k \in ToSet(once), gone \in pool \ ToSet(once) :
            gone.expiration_date <= k.expiration_date
  <2> DEFINE fresh == {k \in ToSet(both) : ~isOutdated(k, now)}
  <2>1. /\ once \in Seq(K) /\ SortedByDate(once) /\ IsInjective(once)
        /\ ToSet(once) \subseteq fresh
        /\ Len(once) = IF Cardinality(fresh) < room THEN Cardinality(fresh) ELSE room
        /\ \A k \in ToSet(once), gone \in fresh \ ToSet(once) :
              gone.expiration_date <= k.expiration_date
      BY <1>1, RemoveOutdatedAndTrimSize, ZenonT(60)
  <2>2. fresh = pool
      BY <1>1
  <2> HIDE DEF fresh, pool, once, room
  <2> QED BY <2>1, <2>2
<1>3. removeOutdatedAndTrimSize(addStore(a, b, now), now) = after
    BY DEF addStore, both
<1>4. {k \in ToSet(once) : ~isOutdated(k, now)} = ToSet(once)
    BY <1>2
<1> HIDE DEF once
<1>5. /\ after \in Seq(K) /\ SortedByDate(after) /\ IsInjective(after)
      /\ ToSet(after) \subseteq ToSet(once)
      /\ Len(after) = IF Cardinality(ToSet(once)) < room
                      THEN Cardinality(ToSet(once)) ELSE room
    BY <1>2, <1>4, RemoveOutdatedAndTrimSize
<1>6. /\ IsFiniteSet(ToSet(once)) /\ Cardinality(ToSet(once)) = Len(once)
      /\ Cardinality(ToSet(after)) = Len(after)
  <2> HIDE DEF after
  <2> QED BY <1>2, <1>5, CountKeys
<1>7. Len(once) <= room
  <2>1. room \in Nat /\ Len(once) \in Nat
      BY <1>2, KeyStoreAssumption, Vector
  <2> HIDE DEF room, pool
  <2> QED BY <1>2, <2>1
<1> HIDE DEF after
<1>8. Len(after) = Len(once)
  <2>1. room \in Nat /\ Len(once) \in Nat
      BY <1>2, KeyStoreAssumption, Vector
  <2> HIDE DEF room
  <2> QED BY <1>5, <1>6, <1>7, <2>1
<1>9. ToSet(after) = ToSet(once)
    BY <1>5, <1>6, <1>8, FS_Subset
<1> QED BY <1>2, <1>3, <1>5, <1>7, <1>8, <1>9
=============================================================================
