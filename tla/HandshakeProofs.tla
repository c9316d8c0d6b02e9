-------------------------- MODULE HandshakeProofs --------------------------
(***************************************************************************)
(* Proofs about the prekey store, for every number of slots, every pair of *)
(* lifetimes and every bound; and about how conversations begin: whom the  *)
(* user can still answer, and until when a prekey packet can be opened,    *)
(* through late, damaged and repeated packets, old lists and crashes, for  *)
(* every number of senders.                                                *)
(***************************************************************************)
EXTENDS Handshake, WellFoundedInduction, TLAPS

-----------------------------------------------------------------------------
(***************************************************************************)
(* The prekey store by itself                                              *)
(***************************************************************************)

\* std::min_element over a non-empty set of dates returns a member that is a
\* lower bound (what updateExpirationDate relies on).
LEMMA MinIsLeast ==
    ASSUME NEW S \in SUBSET Nat, S # {}
    PROVE  /\ Min(S) \in S
           /\ \A y \in S : Min(S) <= y
<1>1. IsWellFoundedOn(OpToRel(<, Nat), Nat)
    BY NatLessThanWellFounded
<1>2. \E x \in S : \A y \in S : ~(<<y, x>> \in OpToRel(<, Nat))
    BY <1>1, WFMin
<1>3. OpToRel(<, Nat) = {ss \in Nat \X Nat : ss[1] < ss[2]}
    BY DEF OpToRel
<1>4. PICK x \in S : \A y \in S : ~(<<y, x>> \in OpToRel(<, Nat))
    BY <1>2
<1>5. \A y \in S : ~(y < x)
    BY <1>3, <1>4
<1>6. \A y \in S : x <= y
    BY <1>5
<1> QED BY <1>6 DEF Min

\* The largest slot of a non-empty set of slots exists (the last index for
\* which rotate() calls deprecate()).
LEMMA MaxIsMember ==
    ASSUME NEW S \in SUBSET Slots, S # {}
    PROVE  Max(S) \in S
<1> DEFINE T == {PREKEY_AMOUNT - i : i \in S}
<1>0. \A i \in S : PREKEY_AMOUNT - i \in Nat
    BY PrekeyAssumption DEF Slots
<1>1. T \in SUBSET Nat
    BY <1>0
<1>2. T # {}
    OBVIOUS
<1>3. PICK t \in T : \A u \in T : t <= u
  <2> HIDE DEF T
  <2> QED BY <1>1, <1>2, MinIsLeast
<1>4. PICK i \in S : t = PREKEY_AMOUNT - i
    BY <1>3
<1>5. \A j \in S : i >= j
  <2> TAKE j \in S
  <2>1. t <= PREKEY_AMOUNT - j BY <1>3
  <2> QED BY <2>1, <1>4, PrekeyAssumption DEF Slots
<1> QED BY <1>5 DEF Max

-----------------------------------------------------------------------------
(***************************************************************************)
(* What the helpers return                                                 *)
(***************************************************************************)

\* updateExpirationDate returns a date, and no slot expires before it.
LEMMA UpdateExpirationDate ==
    ASSUME NEW prekeys \in [Slots -> Prekey]
    PROVE  /\ updateExpirationDate(prekeys) \in Nat
           /\ \A i \in Slots :
                 updateExpirationDate(prekeys) <= prekeys[i].expiration_date
<1> DEFINE D == ExpirationDates({prekeys[i] : i \in Slots})
<1>1. \A i \in Slots : prekeys[i].expiration_date \in Nat
    BY DEF Prekey
<1>2. D \in SUBSET Nat
    BY <1>1 DEF ExpirationDates
<1>3. \A i \in Slots : prekeys[i].expiration_date \in D
    BY DEF ExpirationDates
<1>4. 1 \in Slots
    BY PrekeyAssumption DEF Slots
<1>5. D # {}
    BY <1>3, <1>4
<1>6. Min(D) \in D /\ \A y \in D : Min(D) <= y
  <2> HIDE DEF D
  <2> QED BY <1>2, <1>5, MinIsLeast
<1> QED BY <1>2, <1>3, <1>6 DEF updateExpirationDate

\* updateDeprecatedExpirationDate returns a date, and no deprecated key expires
\* before it.
LEMMA UpdateDeprecatedExpirationDate ==
    ASSUME NEW deprecated \in SUBSET Prekey
    PROVE  /\ updateDeprecatedExpirationDate(deprecated) \in Nat
           /\ \A d \in deprecated :
                 updateDeprecatedExpirationDate(deprecated) <= d.expiration_date
<1>1. CASE deprecated = {}
    BY <1>1 DEF updateDeprecatedExpirationDate
<1>2. CASE deprecated # {}
  <2> DEFINE D == ExpirationDates(deprecated)
  <2>1. \A d \in deprecated : d.expiration_date \in Nat
      BY DEF Prekey
  <2>2. D \in SUBSET Nat
      BY <2>1 DEF ExpirationDates
  <2>3. \A d \in deprecated : d.expiration_date \in D
      BY DEF ExpirationDates
  <2>4. D # {}
      BY <2>3, <1>2
  <2>5. Min(D) \in D /\ \A y \in D : Min(D) <= y
    <3> HIDE DEF D
    <3> QED BY <2>2, <2>4, MinIsLeast
  <2> QED BY <1>2, <2>2, <2>3, <2>5 DEF updateDeprecatedExpirationDate
<1> QED BY <1>1, <1>2

\* A deprecated copy keeps its key pair and lives for
\* deprecated_prekey_expiration_time from now.
LEMMA DeprecatedCopy ==
    ASSUME NEW prekey \in Prekey, clock \in Nat
    PROVE  /\ deprecatedCopy(prekey) \in Prekey
           /\ deprecatedCopy(prekey).public_key = prekey.public_key
           /\ deprecatedCopy(prekey).expiration_date
                = clock + deprecated_prekey_expiration_time
    BY PrekeyAssumption DEF deprecatedCopy, Prekey

\* A regenerated slot holds a key pair that was never drawn before and lives for
\* prekey_expiration_time from now; the other slots are as they were.
LEMMA Regenerated ==
    ASSUME NEW prekeys \in [Slots -> Prekey], NEW S \in SUBSET Slots,
           clock \in Nat, generation \in [Slots -> Nat]
    PROVE  /\ regenerated(prekeys, S) \in [Slots -> Prekey]
           /\ \A i \in S :
                 /\ regenerated(prekeys, S)[i].public_key = <<i, generation[i] + 1>>
                 /\ regenerated(prekeys, S)[i].expiration_date
                      = clock + prekey_expiration_time
           /\ \A i \in Slots \ S : regenerated(prekeys, S)[i] = prekeys[i]
<1>1. \A i \in Slots : generate(i, generation[i] + 1) \in Prekey
    BY PrekeyAssumption DEF generate, Prekey, PublicKey
<1>2. \A i \in Slots : /\ generate(i, generation[i] + 1).public_key
                            = <<i, generation[i] + 1>>
                       /\ generate(i, generation[i] + 1).expiration_date
                            = clock + prekey_expiration_time
    BY DEF generate
<1> QED BY <1>1, <1>2 DEF regenerated

\* Although deprecate() computes its caches before the new keys exist, both are
\* lower bounds of what the store holds afterwards.
LEMMA Deprecate ==
    ASSUME NEW prekeys \in [Slots -> Prekey],
           NEW deprecated \in SUBSET Prekey,
           NEW S \in SUBSET Slots, S # {},
           clock \in Nat, generation \in [Slots -> Nat]
    PROVE  LET after == deprecate(prekeys, deprecated, S)
           IN  /\ after.prekeys = regenerated(prekeys, S)
               /\ after.deprecated
                    = deprecated \union {deprecatedCopy(prekeys[i]) : i \in S}
               /\ after.deprecated \in SUBSET Prekey
               /\ after.oldest \in Nat
               /\ \A i \in Slots :
                     after.oldest <= after.prekeys[i].expiration_date
               /\ after.oldestDeprecated \in Nat
               /\ \A d \in after.deprecated :
                     after.oldestDeprecated <= d.expiration_date
<1> DEFINE after == deprecate(prekeys, deprecated, S)
           fresh == regenerated(prekeys, S)
           last == Max(S)
           seen == [fresh EXCEPT ![last] = deprecatedCopy(prekeys[last])]
           moved == deprecated \union {deprecatedCopy(prekeys[i]) : i \in S}
<1>1. /\ after.prekeys = fresh
      /\ after.deprecated = moved
      /\ after.oldest = updateExpirationDate(seen)
      /\ after.oldestDeprecated = updateDeprecatedExpirationDate(moved)
    BY DEF deprecate
<1>2. last \in S
    BY MaxIsMember
<1>3. fresh \in [Slots -> Prekey]
    BY Regenerated
<1>4. deprecatedCopy(prekeys[last]) \in Prekey
    BY <1>2, DeprecatedCopy
<1>5. seen \in [Slots -> Prekey]
    BY <1>3, <1>4
<1>6. \A i \in Slots : seen[i].expiration_date <= fresh[i].expiration_date
  <2> TAKE i \in Slots
  <2>1. CASE i = last
    <3>1. seen[i].expiration_date = clock + deprecated_prekey_expiration_time
        BY <2>1, <1>2, <1>3, DeprecatedCopy
    <3>2. fresh[i].expiration_date = clock + prekey_expiration_time
        BY <2>1, <1>2, Regenerated
    <3> QED BY <3>1, <3>2, PrekeyAssumption
  <2>2. CASE i # last
    <3>1. seen[i] = fresh[i]
        BY <2>2, <1>3
    <3>2. fresh[i].expiration_date \in Nat
        BY <1>3 DEF Prekey
    <3> QED BY <3>1, <3>2
  <2> QED BY <2>1, <2>2
<1>7. /\ updateExpirationDate(seen) \in Nat
      /\ \A i \in Slots : updateExpirationDate(seen) <= seen[i].expiration_date
  <2> HIDE DEF seen
  <2> QED BY <1>5, UpdateExpirationDate
<1>8. \A i \in Slots : updateExpirationDate(seen) <= fresh[i].expiration_date
  <2> TAKE i \in Slots
  <2>1. seen[i].expiration_date \in Nat /\ fresh[i].expiration_date \in Nat
      BY <1>3, <1>5 DEF Prekey
  <2> QED
    <3> HIDE DEF seen, fresh
    <3> QED BY <1>6, <1>7, <2>1
<1>9. moved \in SUBSET Prekey
    BY DeprecatedCopy
<1>10. /\ updateDeprecatedExpirationDate(moved) \in Nat
       /\ \A d \in moved :
             updateDeprecatedExpirationDate(moved) <= d.expiration_date
  <2> HIDE DEF moved
  <2> QED BY <1>9, UpdateDeprecatedExpirationDate
<1> QED BY <1>1, <1>7, <1>8, <1>9, <1>10

\* What one call of rotate() does, whatever the caches say: the slots it leaves
\* alone keep their (possibly pulled back) key, and the caches it computes are
\* dates.
LEMMA PulledBack ==
    ASSUME TypeOK
    PROVE  /\ pulledBack(prekeys_storage) \in [Slots -> Prekey]
           /\ \A i \in Slots : pulledBack(prekeys_storage)[i].public_key
                                 = prekeys_storage[i].public_key
           /\ pulledBackDeprecated(deprecated_prekeys_storage) \in SUBSET Prekey
           /\ \A d \in pulledBackDeprecated(deprecated_prekeys_storage) :
                 d.public_key \in Deprecated
<1> USE DEF TypeOK
<1>1. \A i \in Slots :
         LET k == [prekeys_storage[i] EXCEPT
                      !.expiration_date = clock + prekey_expiration_time]
         IN  k \in Prekey /\ k.public_key = prekeys_storage[i].public_key
    BY PrekeyAssumption DEF Prekey
<1>2. /\ pulledBack(prekeys_storage) \in [Slots -> Prekey]
      /\ \A i \in Slots : pulledBack(prekeys_storage)[i].public_key
                            = prekeys_storage[i].public_key
    BY <1>1 DEF pulledBack
<1>3. \A d \in deprecated_prekeys_storage :
         /\ deprecatedCopy(d) \in Prekey
         /\ deprecatedCopy(d).public_key = d.public_key
    BY DeprecatedCopy
<1>4. /\ pulledBackDeprecated(deprecated_prekeys_storage) \in SUBSET Prekey
      /\ \A d \in pulledBackDeprecated(deprecated_prekeys_storage) :
            d.public_key \in Deprecated
    BY <1>3 DEF pulledBackDeprecated, Deprecated
<1> QED BY <1>2, <1>4

\* date is no later than the expiration date of any of the keys
Below(date, keys) == \A k \in keys : date <= k.expiration_date

\* deprecateOutdated regenerates exactly the outdated slots.
LEMMA DeprecateOutdated ==
    ASSUME TypeOK,
           NEW prekeys \in [Slots -> Prekey],
           NEW deprecated \in SUBSET Prekey
    PROVE  LET after == deprecateOutdated(prekeys, deprecated)
               S == outdated(prekeys)
           IN  /\ S \in SUBSET Slots
               /\ after.prekeys = regenerated(prekeys, S)
               /\ after.deprecated
                    = deprecated \union {deprecatedCopy(prekeys[i]) : i \in S}
               /\ after.deprecated \in SUBSET Prekey
               /\ after.oldest \in Nat
               /\ after.oldestDeprecated \in Nat
               /\ Below(oldest_expiration_date, {prekeys[i] : i \in Slots})
                     => Below(after.oldest, {after.prekeys[i] : i \in Slots})
               /\ Below(oldest_deprecated_expiration_date, deprecated)
                     => Below(after.oldestDeprecated, after.deprecated)
<1> DEFINE after == deprecateOutdated(prekeys, deprecated)
           S == outdated(prekeys)
<1>1. S \in SUBSET Slots
    BY DEF outdated
<1>2. CASE S = {}
  <2>1. after = [prekeys |-> prekeys, deprecated |-> deprecated,
                 oldest |-> oldest_expiration_date,
                 oldestDeprecated |-> oldest_deprecated_expiration_date]
      BY <1>2 DEF deprecateOutdated
  <2>2. regenerated(prekeys, {}) = prekeys
      BY DEF regenerated
  <2> QED BY <1>1, <1>2, <2>1, <2>2 DEF TypeOK, Below
<1>3. CASE S # {}
  <2>1. after = deprecate(prekeys, deprecated, S)
      BY <1>3 DEF deprecateOutdated
  <2>2. /\ after.prekeys = regenerated(prekeys, S)
        /\ after.deprecated
             = deprecated \union {deprecatedCopy(prekeys[i]) : i \in S}
        /\ after.deprecated \in SUBSET Prekey
        /\ after.oldest \in Nat
        /\ after.oldestDeprecated \in Nat
        /\ \A i \in Slots : after.oldest <= after.prekeys[i].expiration_date
        /\ \A d \in after.deprecated :
              after.oldestDeprecated <= d.expiration_date
    <3>1. clock \in Nat /\ generation \in [Slots -> Nat]
        BY DEF TypeOK
    <3> HIDE DEF S, after
    <3> QED BY <1>1, <1>3, <2>1, <3>1, Deprecate
  <2> QED BY <1>1, <2>2 DEF Below
<1> QED BY <1>2, <1>3

-----------------------------------------------------------------------------
(***************************************************************************)
(* Type correctness, with a clock that may also be set back                *)
(***************************************************************************)

\* PrekeyStore::create makes a store of the right type.
LEMMA InitTypeOK == Init => TypeOK
<1> SUFFICES ASSUME Init PROVE TypeOK
    OBVIOUS
<1>1. clock \in Nat \ {0} /\ generation \in [Slots -> Nat]
    BY PrekeyAssumption DEF Init
<1>2. \A i \in Slots : generate(i, 0) \in Prekey
    BY <1>1, PrekeyAssumption DEF generate, Prekey, PublicKey
<1>3. prekeys_storage \in [Slots -> Prekey]
    BY <1>2 DEF Init
<1>4. oldest_expiration_date \in Nat
    BY <1>3, UpdateExpirationDate DEF Init
<1> QED BY <1>1, <1>3, <1>4 DEF Init, TypeOK

\* Every call, and every change of the clock, keeps the types: no expiration date
\* and no cached minimum is ever computed that is not a time.
LEMMA NextTypeOK == TypeOK /\ [NextAnyClock]_vars => TypeOK'
<1> SUFFICES ASSUME TypeOK, [NextAnyClock]_vars PROVE TypeOK'
    OBVIOUS
<1> USE DEF TypeOK
<1>1. ASSUME NEW i \in Slots, getPrekeyListed(i) PROVE TypeOK'
  <2> DEFINE after == deprecate(prekeys_storage, deprecated_prekeys_storage, {i})
  <2>1. /\ after.prekeys \in [Slots -> Prekey]
        /\ after.deprecated \in SUBSET Prekey
        /\ after.oldest \in Nat
        /\ after.oldestDeprecated \in Nat
    <3> DEFINE S == {i}
    <3>1. S \in SUBSET Slots /\ S # {}
        OBVIOUS
    <3>2. after = deprecate(prekeys_storage, deprecated_prekeys_storage, S)
        OBVIOUS
    <3>3. clock \in Nat /\ generation \in [Slots -> Nat]
        OBVIOUS
    <3> HIDE DEF S, after, TypeOK
    <3>4. /\ after.prekeys = regenerated(prekeys_storage, S)
          /\ after.deprecated \in SUBSET Prekey
          /\ after.oldest \in Nat
          /\ after.oldestDeprecated \in Nat
        BY <3>1, <3>2, <3>3, Deprecate DEF TypeOK
    <3>5. regenerated(prekeys_storage, S) \in [Slots -> Prekey]
        BY <3>1, <3>3, Regenerated DEF TypeOK
    <3> QED BY <3>4, <3>5
  <2>2. generation' \in [Slots -> Nat]
      BY <1>1 DEF getPrekeyListed, recordDeprecation
  <2>3. prekeys_storage[i].public_key \in PublicKey
      BY DEF Prekey
  <2>4. delisted' \in SUBSET (PublicKey \X Nat)
      BY <1>1, <2>3 DEF getPrekeyListed, recordDeprecation
  <2>5. handed_out' \in SUBSET PublicKey
      BY <1>1, <2>3 DEF getPrekeyListed
  <2>6. /\ prekeys_storage' = after.prekeys
        /\ deprecated_prekeys_storage' = after.deprecated
        /\ oldest_expiration_date' = after.oldest
        /\ oldest_deprecated_expiration_date' = after.oldestDeprecated
        /\ clock' = clock
      BY <1>1 DEF getPrekeyListed
  <2> HIDE DEF after
  <2> QED BY <2>1, <2>2, <2>4, <2>5, <2>6
<1>2. ASSUME NEW d \in deprecated_prekeys_storage, getPrekeyDeprecated(d)
      PROVE  TypeOK'
  <2>1. d.public_key \in PublicKey
      BY DEF Prekey
  <2> QED BY <1>2, <2>1 DEF getPrekeyDeprecated, store
<1>3. CASE rotate
  <2> DEFINE prekeys == pulledBack(prekeys_storage)
             deprecated == pulledBackDeprecated(deprecated_prekeys_storage)
             after == deprecateOutdated(prekeys, deprecated)
             kept == unexpired(after.deprecated)
  <2>1. prekeys \in [Slots -> Prekey] /\ deprecated \in SUBSET Prekey
      BY PulledBack
  <2>2. /\ outdated(prekeys) \in SUBSET Slots
        /\ after.prekeys = regenerated(prekeys, outdated(prekeys))
        /\ after.deprecated \in SUBSET Prekey
        /\ after.oldest \in Nat
        /\ after.oldestDeprecated \in Nat
    <3> HIDE DEF prekeys, deprecated
    <3> QED BY <2>1, DeprecateOutdated
  <2>3. after.prekeys \in [Slots -> Prekey]
    <3> HIDE DEF prekeys, deprecated
    <3> QED BY <2>1, <2>2, Regenerated
  <2>4. kept \in SUBSET Prekey
      BY <2>2 DEF unexpired
  <2>5. updateDeprecatedExpirationDate(kept) \in Nat
    <3> HIDE DEF kept
    <3> QED BY <2>4, UpdateDeprecatedExpirationDate
  <2>6. generation' \in [Slots -> Nat]
      BY <1>3, <2>2 DEF rotate, recordDeprecation
  <2>7. \A i \in Slots : prekeys[i].public_key \in PublicKey
    <3> HIDE DEF prekeys
    <3> QED BY <2>1 DEF Prekey
  <2>8. delisted' \in SUBSET (PublicKey \X Nat)
    <3>1. delisted' = delisted \union
                        {<<prekeys[i].public_key, clock>> : i \in outdated(prekeys)}
        BY <1>3 DEF rotate, recordDeprecation
    <3> HIDE DEF prekeys
    <3> QED BY <2>2, <2>7, <3>1
  <2>9. /\ prekeys_storage' = after.prekeys
        /\ oldest_expiration_date' = after.oldest
        /\ deprecated_prekeys_storage' \in {kept, after.deprecated}
        /\ oldest_deprecated_expiration_date' \in
              {updateDeprecatedExpirationDate(kept), after.oldestDeprecated}
        /\ clock' = clock
        /\ handed_out' = handed_out
      BY <1>3 DEF rotate, rotated
  <2> HIDE DEF after, kept
  <2> QED BY <2>2, <2>3, <2>4, <2>5, <2>6, <2>8, <2>9
<1>4. CASE exportAndImport
    BY <1>4, UpdateExpirationDate, UpdateDeprecatedExpirationDate
       DEF exportAndImport
<1>5. CASE tick
    BY <1>5 DEF tick, store
<1>6. ASSUME NEW t \in 1..MaxTime, setBack(t) PROVE TypeOK'
    BY <1>6, PrekeyAssumption DEF setBack, store
<1>7. CASE UNCHANGED vars
    BY <1>7 DEF vars, store
<1> QED BY <1>1, <1>2, <1>3, <1>4, <1>5, <1>6, <1>7 DEF NextAnyClock, Next

\* The prekey store is type correct, even on a clock that is set back.
THEOREM TypeCorrect == SpecAnyClock => []TypeOK
<1>1. Init => TypeOK
    BY InitTypeOK
<1>2. TypeOK /\ [NextAnyClock]_vars => TypeOK'
    BY NextTypeOK
<1> QED BY <1>1, <1>2, PTL DEF SpecAnyClock

-----------------------------------------------------------------------------
(***************************************************************************)
(* A clock that does not go back                                           *)
(***************************************************************************)

\* No key outlives the lifetime it would get if it were made (or deprecated)
\* now.  This is why the "too far into the future" branches of rotate() are
\* never taken while the clock does not go back.
NotTooFar ==
    /\ \A i \in Slots : prekeys_storage[i].expiration_date
                          <= clock + prekey_expiration_time
    /\ \A d \in deprecated_prekeys_storage :
          d.expiration_date <= clock + deprecated_prekey_expiration_time

\* LateMessageFindsPrekey, strengthened with the date until which the key stays
KeptLongEnough ==
    \A e \in delisted :
        /\ e[2] <= clock
        /\ clock <= e[2] + deprecated_prekey_expiration_time =>
              \E d \in deprecated_prekeys_storage :
                 /\ d.public_key = e[1]
                 /\ d.expiration_date >= e[2] + deprecated_prekey_expiration_time

\* The inductive invariant of Spec
IInv == TypeOK /\ CacheNeverLate /\ NotTooFar /\ KeptLongEnough

\* With NotTooFar, rotate() leaves every expiration date alone.
LEMMA NothingPulledBack ==
    ASSUME TypeOK, CacheNeverLate, NotTooFar
    PROVE  /\ pulledBack(prekeys_storage) = prekeys_storage
           /\ pulledBackDeprecated(deprecated_prekeys_storage)
                = deprecated_prekeys_storage
<1> USE PrekeyAssumption DEF TypeOK
<1>1. ~(clock + prekey_expiration_time < oldest_expiration_date)
  <2>1. 1 \in Slots
      BY DEF Slots
  <2>2. prekeys_storage[1].expiration_date \in Nat
      BY <2>1 DEF Prekey
  <2> QED BY <2>1, <2>2 DEF CacheNeverLate, NotTooFar
<1>2. pulledBackDeprecated(deprecated_prekeys_storage)
        = deprecated_prekeys_storage
  <2>1. CASE deprecated_prekeys_storage = {}
      BY <2>1 DEF pulledBackDeprecated
  <2>2. ASSUME NEW d \in deprecated_prekeys_storage
        PROVE  ~(clock + deprecated_prekey_expiration_time
                   < oldest_deprecated_expiration_date)
    <3>1. d.expiration_date \in Nat
        BY DEF Prekey
    <3> QED BY <3>1 DEF CacheNeverLate, NotTooFar
  <2> QED BY <2>1, <2>2 DEF pulledBackDeprecated
<1> QED BY <1>1, <1>2 DEF pulledBack

\* What rotate() makes of the store on a clock that did not go back: what is left
\* is unexpired, the caches are lower bounds again, and every delisted or
\* deprecated key that has not expired is still there.
LEMMA RotatedOnTime ==
    ASSUME TypeOK, CacheNeverLate, NotTooFar
    PROVE  LET S == outdated(prekeys_storage)
           IN  /\ S \in SUBSET Slots
               /\ rotated.prekeys = regenerated(prekeys_storage, S)
               /\ \A i \in Slots \ S : prekeys_storage[i].expiration_date >= clock
               /\ rotated.deprecated
                    = {d \in deprecated_prekeys_storage \union
                             {deprecatedCopy(prekeys_storage[i]) : i \in S} :
                          d.expiration_date >= clock}
               /\ Below(rotated.oldest, {rotated.prekeys[i] : i \in Slots})
               /\ Below(rotated.oldestDeprecated, rotated.deprecated)
<1> DEFINE S == outdated(prekeys_storage)
           after == deprecateOutdated(prekeys_storage, deprecated_prekeys_storage)
           kept == unexpired(after.deprecated)
           purge == after.oldestDeprecated < clock
<1>1. /\ rotated.prekeys = after.prekeys
      /\ rotated.oldest = after.oldest
      /\ rotated.deprecated = IF purge THEN kept ELSE after.deprecated
      /\ rotated.oldestDeprecated =
            IF purge THEN updateDeprecatedExpirationDate(kept)
                     ELSE after.oldestDeprecated
    BY NothingPulledBack DEF rotated
<1>2. /\ Below(oldest_expiration_date, {prekeys_storage[i] : i \in Slots})
      /\ Below(oldest_deprecated_expiration_date, deprecated_prekeys_storage)
    BY DEF CacheNeverLate, Below
<1>3. /\ S \in SUBSET Slots
      /\ after.prekeys = regenerated(prekeys_storage, S)
      /\ after.deprecated = deprecated_prekeys_storage \union
                              {deprecatedCopy(prekeys_storage[i]) : i \in S}
      /\ after.deprecated \in SUBSET Prekey
      /\ after.oldest \in Nat
      /\ after.oldestDeprecated \in Nat
      /\ Below(after.oldest, {after.prekeys[i] : i \in Slots})
      /\ Below(after.oldestDeprecated, after.deprecated)
    BY <1>2, DeprecateOutdated DEF TypeOK
<1>4. \A i \in Slots \ S : prekeys_storage[i].expiration_date >= clock
  <2> TAKE i \in Slots \ S
  <2>1. prekeys_storage[i].expiration_date \in Nat
      BY DEF TypeOK, Prekey
  <2>2. CASE oldest_expiration_date < clock
      BY <2>1, <2>2 DEF outdated, TypeOK
  <2>3. CASE ~(oldest_expiration_date < clock)
      BY <2>1, <2>3 DEF CacheNeverLate, TypeOK
  <2> QED BY <2>2, <2>3
<1>5. kept = {d \in after.deprecated : d.expiration_date >= clock}
    BY DEF unexpired
<1>6. rotated.deprecated = kept
  <2>1. CASE purge
      BY <1>1, <2>1
  <2>2. CASE ~purge
    <3>1. \A d \in after.deprecated : d.expiration_date >= clock
      <4> TAKE d \in after.deprecated
      <4>1. d.expiration_date \in Nat
          BY <1>3 DEF Prekey
      <4>2. after.oldestDeprecated <= d.expiration_date
          BY <1>3 DEF Below
      <4> HIDE DEF after
      <4> QED BY <2>2, <1>3, <4>1, <4>2 DEF TypeOK
    <3>2. kept = after.deprecated
      <4> HIDE DEF after, kept
      <4> QED BY <3>1, <1>5
    <3> QED BY <1>1, <2>2, <3>2
  <2> QED BY <2>1, <2>2
<1>7. Below(rotated.oldestDeprecated, rotated.deprecated)
  <2>1. kept \in SUBSET Prekey
    <3> HIDE DEF after
    <3> QED BY <1>3 DEF unexpired
  <2>2. CASE purge
    <3> HIDE DEF kept
    <3> QED BY <1>1, <2>1, <2>2, UpdateDeprecatedExpirationDate DEF Below
  <2>3. CASE ~purge
    <3> HIDE DEF after, kept
    <3> QED BY <1>1, <1>3, <2>3
  <2> QED BY <2>2, <2>3
<1> HIDE DEF after, kept, S
<1>8. rotated.deprecated
        = {d \in deprecated_prekeys_storage \union
                 {deprecatedCopy(prekeys_storage[i]) : i \in S} :
              d.expiration_date >= clock}
    BY <1>3, <1>5, <1>6
<1>9. Below(rotated.oldest, {rotated.prekeys[i] : i \in Slots})
    BY <1>1, <1>3
<1> QED BY <1>1, <1>3, <1>4, <1>7, <1>8, <1>9 DEF S

\* And so for a step that rotates.
LEMMA RotateOnTime ==
    ASSUME TypeOK, CacheNeverLate, NotTooFar, rotate
    PROVE  LET S == outdated(prekeys_storage)
           IN  /\ S \in SUBSET Slots
               /\ prekeys_storage' = regenerated(prekeys_storage, S)
               /\ deprecated_prekeys_storage'
                    = {d \in deprecated_prekeys_storage \union
                             {deprecatedCopy(prekeys_storage[i]) : i \in S} :
                          d.expiration_date >= clock}
               /\ CacheNeverLate'
<1>1. /\ prekeys_storage' = rotated.prekeys
      /\ oldest_expiration_date' = rotated.oldest
      /\ deprecated_prekeys_storage' = rotated.deprecated
      /\ oldest_deprecated_expiration_date' = rotated.oldestDeprecated
    BY DEF rotate
<1>2. CacheNeverLate'
    BY <1>1, RotatedOnTime DEF CacheNeverLate, Below
<1> QED BY <1>1, <1>2, RotatedOnTime

\* getPrekey for a published key, in terms of the set {i} of slots it deprecates
LEMMA GetPrekeyListed ==
    ASSUME TypeOK, NEW i \in Slots, getPrekeyListed(i)
    PROVE  /\ prekeys_storage' = regenerated(prekeys_storage, {i})
           /\ deprecated_prekeys_storage' = deprecated_prekeys_storage \union
                                              {deprecatedCopy(prekeys_storage[i])}
           /\ CacheNeverLate'
<1> DEFINE S == {i}
           after == deprecate(prekeys_storage, deprecated_prekeys_storage, S)
<1>1. /\ prekeys_storage' = after.prekeys
      /\ deprecated_prekeys_storage' = after.deprecated
      /\ oldest_expiration_date' = after.oldest
      /\ oldest_deprecated_expiration_date' = after.oldestDeprecated
    BY DEF getPrekeyListed
<1>2. /\ S \in SUBSET Slots /\ S # {}
      /\ clock \in Nat /\ generation \in [Slots -> Nat]
      /\ {deprecatedCopy(prekeys_storage[j]) : j \in S}
           = {deprecatedCopy(prekeys_storage[i])}
    BY DEF TypeOK
<1>3. /\ after.prekeys = regenerated(prekeys_storage, S)
      /\ after.deprecated = deprecated_prekeys_storage \union
                              {deprecatedCopy(prekeys_storage[j]) : j \in S}
      /\ \A j \in Slots : after.oldest <= after.prekeys[j].expiration_date
      /\ \A d \in after.deprecated : after.oldestDeprecated <= d.expiration_date
  <2> HIDE DEF S
  <2> QED BY <1>2, Deprecate DEF TypeOK
<1>4. CacheNeverLate'
  <2> HIDE DEF after
  <2> QED BY <1>1, <1>3 DEF CacheNeverLate
<1> QED BY <1>1, <1>2, <1>3, <1>4

\* Slots that are deprecated now leave copies that stay for
\* deprecated_prekey_expiration_time, and the deprecated keys that are not
\* thrown away are still found: KeptLongEnough after getPrekey and rotate.
LEMMA DeprecationKeeps ==
    ASSUME TypeOK, NotTooFar, KeptLongEnough, NEW S \in SUBSET Slots,
           clock' = clock,
           recordDeprecation(prekeys_storage, S),
           prekeys_storage' = regenerated(prekeys_storage, S),
           deprecated_prekeys_storage' \in SUBSET
              (deprecated_prekeys_storage \union
                 {deprecatedCopy(prekeys_storage[i]) : i \in S}),
           \A d \in deprecated_prekeys_storage \union
                      {deprecatedCopy(prekeys_storage[i]) : i \in S} :
              d.expiration_date >= clock => d \in deprecated_prekeys_storage'
    PROVE  NotTooFar' /\ KeptLongEnough'
<1> USE PrekeyAssumption
<1>1. clock \in Nat /\ generation \in [Slots -> Nat]
    BY DEF TypeOK
<1>2. \A i \in S :
         /\ deprecatedCopy(prekeys_storage[i]).public_key
              = prekeys_storage[i].public_key
         /\ deprecatedCopy(prekeys_storage[i]).expiration_date
              = clock + deprecated_prekey_expiration_time
    BY <1>1, DeprecatedCopy DEF TypeOK
<1>3. NotTooFar'
  <2>1. \A i \in Slots : prekeys_storage'[i].expiration_date
                           <= clock + prekey_expiration_time
    <3> TAKE i \in Slots
    <3>1. CASE i \in S
        BY <1>1, <3>1, Regenerated DEF TypeOK
    <3>2. CASE i \notin S
        BY <1>1, <3>2, Regenerated DEF TypeOK, NotTooFar
    <3> QED BY <3>1, <3>2
  <2>2. \A d \in deprecated_prekeys_storage' :
           d.expiration_date <= clock + deprecated_prekey_expiration_time
      BY <1>1, <1>2 DEF NotTooFar
  <2> QED BY <2>1, <2>2 DEF NotTooFar
<1>4. KeptLongEnough'
  <2> SUFFICES ASSUME NEW e \in delisted'
               PROVE  /\ e[2] <= clock
                      /\ clock <= e[2] + deprecated_prekey_expiration_time =>
                           \E d \in deprecated_prekeys_storage' :
                              /\ d.public_key = e[1]
                              /\ d.expiration_date
                                   >= e[2] + deprecated_prekey_expiration_time
      BY DEF KeptLongEnough
  <2>1. CASE e \in delisted
    <3>1. e[2] \in Nat /\ e[2] <= clock
        BY <2>1 DEF TypeOK, KeptLongEnough
    <3>2. ASSUME clock <= e[2] + deprecated_prekey_expiration_time
          PROVE  \E d \in deprecated_prekeys_storage' :
                    /\ d.public_key = e[1]
                    /\ d.expiration_date
                         >= e[2] + deprecated_prekey_expiration_time
      <4>1. PICK d \in deprecated_prekeys_storage :
               /\ d.public_key = e[1]
               /\ d.expiration_date >= e[2] + deprecated_prekey_expiration_time
          BY <2>1, <3>2 DEF KeptLongEnough
      <4>2. d.expiration_date \in Nat
          BY DEF TypeOK, Prekey
      <4>3. d.expiration_date >= clock
          BY <1>1, <3>1, <3>2, <4>1, <4>2
      <4> QED BY <4>1, <4>3
    <3> QED BY <3>1, <3>2
  <2>2. CASE e \notin delisted
    <3>1. PICK i \in S : e = <<prekeys_storage[i].public_key, clock>>
        BY <2>2 DEF recordDeprecation
    <3>2. /\ e[1] = prekeys_storage[i].public_key
          /\ e[2] = clock
        BY <3>1
    <3>3. deprecatedCopy(prekeys_storage[i]) \in deprecated_prekeys_storage'
        BY <1>1, <1>2
    <3> QED BY <1>1, <1>2, <3>2, <3>3
  <2> QED BY <2>1, <2>2
<1> QED BY <1>3, <1>4

\* The inductive invariant holds of a store that create() has just made.
LEMMA InitIInv == Init => IInv
<1> SUFFICES ASSUME Init PROVE IInv
    OBVIOUS
<1>1. TypeOK
    BY InitTypeOK
<1>2. CacheNeverLate
  <2>1. oldest_expiration_date = updateExpirationDate(prekeys_storage)
      BY DEF Init
  <2> QED BY <1>1, <2>1, UpdateExpirationDate DEF Init, TypeOK, CacheNeverLate
<1>3. NotTooFar
  <2>1. \A i \in Slots : prekeys_storage[i].expiration_date
                           = clock + prekey_expiration_time
      BY DEF Init, generate
  <2>2. clock + prekey_expiration_time \in Nat
      BY <1>1, PrekeyAssumption DEF TypeOK
  <2> QED BY <2>1, <2>2 DEF Init, NotTooFar
<1> QED BY <1>1, <1>2, <1>3 DEF Init, IInv, KeptLongEnough

\* getPrekey, rotate, a restart and the passing of time preserve the inductive
\* invariant.
LEMMA NextIInv == IInv /\ [Next]_vars => IInv'
<1> SUFFICES ASSUME IInv, [Next]_vars PROVE IInv'
    OBVIOUS
<1>1. TypeOK'
    BY NextTypeOK DEF IInv, NextAnyClock
<1> SUFFICES CacheNeverLate' /\ NotTooFar' /\ KeptLongEnough'
    BY <1>1 DEF IInv
<1> USE DEF IInv
<1>2. ASSUME NEW i \in Slots, getPrekeyListed(i)
      PROVE  CacheNeverLate' /\ NotTooFar' /\ KeptLongEnough'
  <2> DEFINE S == {i}
  <2>1. /\ S \in SUBSET Slots
        /\ prekeys_storage' = regenerated(prekeys_storage, S)
        /\ {deprecatedCopy(prekeys_storage[j]) : j \in S}
             = {deprecatedCopy(prekeys_storage[i])}
        /\ deprecated_prekeys_storage' = deprecated_prekeys_storage \union
                                           {deprecatedCopy(prekeys_storage[i])}
        /\ recordDeprecation(prekeys_storage, S)
        /\ clock' = clock
        /\ CacheNeverLate'
      BY <1>2, GetPrekeyListed DEF getPrekeyListed
  <2> HIDE DEF S
  <2> QED BY <2>1, DeprecationKeeps
<1>3. ASSUME NEW d \in deprecated_prekeys_storage, getPrekeyDeprecated(d)
      PROVE  CacheNeverLate' /\ NotTooFar' /\ KeptLongEnough'
    BY <1>3 DEF getPrekeyDeprecated, store, CacheNeverLate, NotTooFar,
                KeptLongEnough
<1>4. ASSUME rotate PROVE CacheNeverLate' /\ NotTooFar' /\ KeptLongEnough'
  <2> DEFINE S == outdated(prekeys_storage)
  <2>1. /\ S \in SUBSET Slots
        /\ prekeys_storage' = regenerated(prekeys_storage, S)
        /\ deprecated_prekeys_storage'
             = {d \in deprecated_prekeys_storage \union
                      {deprecatedCopy(prekeys_storage[i]) : i \in S} :
                   d.expiration_date >= clock}
        /\ CacheNeverLate'
      BY <1>4, RotateOnTime
  <2>2. recordDeprecation(prekeys_storage, S) /\ clock' = clock
      BY <1>4, NothingPulledBack DEF rotate
  <2> HIDE DEF S
  <2> QED BY <2>1, <2>2, DeprecationKeeps
<1>5. CASE exportAndImport
  <2>1. CacheNeverLate'
      BY <1>5, UpdateExpirationDate, UpdateDeprecatedExpirationDate
         DEF exportAndImport, CacheNeverLate, TypeOK
  <2> QED BY <1>5, <2>1 DEF exportAndImport, NotTooFar, KeptLongEnough
<1>6. CASE tick
  <2> USE PrekeyAssumption DEF tick, store, TypeOK
  <2>1. CacheNeverLate'
      BY <1>6 DEF CacheNeverLate
  <2>2. NotTooFar'
    <3>1. \A i \in Slots : prekeys_storage[i].expiration_date \in Nat
        BY DEF Prekey
    <3>2. \A d \in deprecated_prekeys_storage : d.expiration_date \in Nat
        BY DEF Prekey
    <3> QED BY <1>6, <3>1, <3>2 DEF NotTooFar
  <2>3. KeptLongEnough'
    <3>1. \A e \in delisted : e[2] \in Nat
        BY DEF TypeOK
    <3> QED BY <1>6, <3>1 DEF KeptLongEnough
  <2> QED BY <2>1, <2>2, <2>3
<1>7. CASE UNCHANGED vars
    BY <1>7 DEF vars, store, CacheNeverLate, NotTooFar, KeptLongEnough
<1> QED BY <1>2, <1>3, <1>4, <1>5, <1>6, <1>7 DEF Next

\* The inductive invariant holds throughout.
LEMMA SpecIInv == Spec => []IInv
<1> QED BY InitIInv, NextIInv, PTL DEF Spec

\* On a clock that does not go back the caches that gate rotate() are never
\* later than a key they stand for.
THEOREM CacheCorrect == Spec => []CacheNeverLate
<1>1. IInv => CacheNeverLate
    BY DEF IInv
<1> QED BY <1>1, SpecIInv, PTL

\* On a clock that does not go back a prekey message that arrives within
\* deprecated_prekey_expiration_time of its prekey leaving the list finds it.
THEOREM LateMessageServed == Spec => []LateMessageFindsPrekey
<1>1. IInv => LateMessageFindsPrekey
    BY DEF IInv, KeptLongEnough, LateMessageFindsPrekey, Deprecated
<1> QED BY <1>1, SpecIInv, PTL

\* On a clock that does not go back rotate() keeps its promise whenever it is
\* called: it leaves neither a published nor a deprecated key that has expired.
THEOREM RotateKeepsPromise == Spec => []RotateLeavesNoExpiredKey
<1>1. IInv => RotateLeavesNoExpiredKey
  <2> SUFFICES ASSUME IInv PROVE RotateLeavesNoExpiredKey
      OBVIOUS
  <2> DEFINE S == outdated(prekeys_storage)
  <2>1. /\ S \in SUBSET Slots
        /\ rotated.prekeys = regenerated(prekeys_storage, S)
        /\ \A i \in Slots \ S : prekeys_storage[i].expiration_date >= clock
        /\ \A d \in rotated.deprecated : d.expiration_date >= clock
      BY RotatedOnTime DEF IInv
  <2> HIDE DEF S
  <2>2. clock \in Nat /\ generation \in [Slots -> Nat]
      BY DEF IInv, TypeOK
  <2>3. \A i \in Slots : rotated.prekeys[i].expiration_date >= clock
    <3> TAKE i \in Slots
    <3>1. CASE i \in S
        BY <2>1, <2>2, <3>1, Regenerated, PrekeyAssumption DEF IInv, TypeOK
    <3>2. CASE i \notin S
        BY <2>1, <2>2, <3>2, Regenerated DEF IInv, TypeOK
    <3> QED BY <3>1, <3>2
  <2> QED BY <2>1, <2>3 DEF RotateLeavesNoExpiredKey
<1> QED BY <1>1, SpecIInv, PTL

-----------------------------------------------------------------------------
(***************************************************************************)
(* Handed-out keys, on any clock                                           *)
(***************************************************************************)

\* A slot holds the last key pair drawn for it, and the keys that were
\* deprecated or handed out were drawn before.
ListedIsLatest ==
    /\ \A i \in Slots : prekeys_storage[i].public_key = <<i, generation[i]>>
    /\ \A k \in handed_out \union Deprecated : k[2] < generation[k[1]]

\* Deprecating the slots S keeps ListedIsLatest, and the keys that were in
\* those slots are now older than the latest draw.
LEMMA DeprecationKeepsLatest ==
    ASSUME TypeOK, ListedIsLatest, NEW S \in SUBSET Slots,
           NEW prekeys \in [Slots -> Prekey],
           \A i \in Slots : prekeys[i].public_key = prekeys_storage[i].public_key,
           recordDeprecation(prekeys, S),
           prekeys_storage' = regenerated(prekeys, S),
           handed_out' \in SUBSET (handed_out \union
                                     {prekeys_storage[i].public_key : i \in S}),
           Deprecated' \in SUBSET (Deprecated \union
                                     {prekeys_storage[i].public_key : i \in S})
    PROVE  ListedIsLatest'
<1>1. clock \in Nat /\ generation \in [Slots -> Nat]
    BY DEF TypeOK
<1>2. generation' = [i \in Slots |-> IF i \in S THEN generation[i] + 1
                                                ELSE generation[i]]
    BY DEF recordDeprecation
<1>3. \A i \in Slots : prekeys_storage'[i].public_key = <<i, generation'[i]>>
  <2> TAKE i \in Slots
  <2>1. CASE i \in S
      BY <1>1, <1>2, <2>1, Regenerated
  <2>2. CASE i \notin S
      BY <1>1, <1>2, <2>2, Regenerated DEF ListedIsLatest
  <2> QED BY <2>1, <2>2
<1>4. \A k \in handed_out' \union Deprecated' : k[2] < generation'[k[1]]
  <2> TAKE k \in handed_out' \union Deprecated'
  <2>1. CASE k \in handed_out \union Deprecated
    <3>1. k \in PublicKey
        BY <2>1 DEF TypeOK, Deprecated, Prekey
    <3>2. k[1] \in Slots /\ k[2] \in Nat
        BY <3>1 DEF PublicKey
    <3>3. k[2] < generation[k[1]]
        BY <2>1 DEF ListedIsLatest
    <3>4. generation[k[1]] \in Nat /\ generation'[k[1]] \in Nat
          /\ generation[k[1]] <= generation'[k[1]]
        BY <1>1, <1>2, <3>2
    <3> QED BY <3>2, <3>3, <3>4
  <2>2. CASE k \notin handed_out \union Deprecated
    <3>1. PICK i \in S : k = prekeys_storage[i].public_key
        BY <2>2
    <3>2. k = <<i, generation[i]>>
        BY <3>1 DEF ListedIsLatest
    <3>3. k[1] = i /\ k[2] = generation[i]
        BY <3>2
    <3>4. generation[i] < generation'[i]
        BY <1>1, <1>2
    <3> QED BY <3>3, <3>4
  <2> QED BY <2>1, <2>2
<1> QED BY <1>3, <1>4 DEF ListedIsLatest

\* Every call preserves that each slot lists the newest key drawn for it and that
\* only older keys have been handed out.
LEMMA NextListedIsLatest ==
    TypeOK /\ ListedIsLatest /\ [NextAnyClock]_vars => ListedIsLatest'
<1> SUFFICES ASSUME TypeOK, ListedIsLatest, [NextAnyClock]_vars
             PROVE  ListedIsLatest'
    OBVIOUS
<1>1. ASSUME NEW i \in Slots, getPrekeyListed(i) PROVE ListedIsLatest'
  <2> DEFINE S == {i}
  <2>1. /\ S \in SUBSET Slots
        /\ prekeys_storage' = regenerated(prekeys_storage, S)
        /\ deprecated_prekeys_storage' = deprecated_prekeys_storage \union
                                           {deprecatedCopy(prekeys_storage[i])}
      BY <1>1, GetPrekeyListed
  <2>2. deprecatedCopy(prekeys_storage[i]).public_key
          = prekeys_storage[i].public_key
      BY DeprecatedCopy DEF TypeOK
  <2>3. /\ Deprecated' \in SUBSET (Deprecated \union
                                     {prekeys_storage[j].public_key : j \in S})
        /\ handed_out' \in SUBSET (handed_out \union
                                     {prekeys_storage[j].public_key : j \in S})
        /\ recordDeprecation(prekeys_storage, S)
      BY <1>1, <2>1, <2>2 DEF Deprecated, getPrekeyListed
  <2> HIDE DEF S
  <2> QED BY <2>1, <2>3, DeprecationKeepsLatest DEF TypeOK
<1>2. ASSUME NEW d \in deprecated_prekeys_storage, getPrekeyDeprecated(d)
      PROVE  ListedIsLatest'
  <2>1. d.public_key \in Deprecated
      BY DEF Deprecated
  <2> QED BY <1>2, <2>1 DEF getPrekeyDeprecated, store, ListedIsLatest, Deprecated
<1>3. ASSUME rotate PROVE ListedIsLatest'
  <2> DEFINE prekeys == pulledBack(prekeys_storage)
             deprecated == pulledBackDeprecated(deprecated_prekeys_storage)
             S == outdated(prekeys)
             after == deprecateOutdated(prekeys, deprecated)
  <2>1. /\ prekeys \in [Slots -> Prekey]
        /\ \A i \in Slots : prekeys[i].public_key = prekeys_storage[i].public_key
        /\ deprecated \in SUBSET Prekey
        /\ \A d \in deprecated : d.public_key \in Deprecated
      BY PulledBack
  <2>2. /\ prekeys_storage' = after.prekeys
        /\ deprecated_prekeys_storage' \in SUBSET after.deprecated
        /\ recordDeprecation(prekeys, S)
        /\ handed_out' = handed_out
      BY <1>3 DEF rotate, rotated, unexpired
  <2>3. /\ S \in SUBSET Slots
        /\ after.prekeys = regenerated(prekeys, S)
        /\ after.deprecated
             = deprecated \union {deprecatedCopy(prekeys[i]) : i \in S}
    <3> HIDE DEF prekeys, deprecated
    <3> QED BY <2>1, DeprecateOutdated
  <2> HIDE DEF prekeys, deprecated, S, after
  <2>4. \A i \in S : deprecatedCopy(prekeys[i]).public_key
                       = prekeys_storage[i].public_key
      BY <2>1, <2>3, DeprecatedCopy DEF TypeOK
  <2>5. Deprecated' \in SUBSET (Deprecated \union
                                  {prekeys_storage[i].public_key : i \in S})
      BY <2>1, <2>2, <2>3, <2>4 DEF Deprecated
  <2> QED BY <2>1, <2>2, <2>3, <2>5, DeprecationKeepsLatest
<1>4. CASE exportAndImport
    BY <1>4 DEF exportAndImport, ListedIsLatest, Deprecated
<1>5. CASE tick
    BY <1>5 DEF tick, store, ListedIsLatest, Deprecated
<1>6. ASSUME NEW t \in 1..MaxTime, setBack(t) PROVE ListedIsLatest'
    BY <1>6 DEF setBack, store, ListedIsLatest, Deprecated
<1>7. CASE UNCHANGED vars
    BY <1>7 DEF vars, store, ListedIsLatest, Deprecated
<1> QED BY <1>1, <1>2, <1>3, <1>4, <1>5, <1>6, <1>7 DEF NextAnyClock, Next

\* Whatever the clock does, a prekey that getPrekey handed out is never in the
\* prekey list again.
THEOREM UsedKeysStayOut == SpecAnyClock => []HandedOutNeverListed
<1>1. Init => TypeOK /\ ListedIsLatest
  <2>1. Init => TypeOK
      BY InitTypeOK
  <2>2. Init => ListedIsLatest
      BY DEF Init, ListedIsLatest, Deprecated, generate
  <2> QED BY <2>1, <2>2
<1>2. TypeOK /\ ListedIsLatest /\ [NextAnyClock]_vars
        => (TypeOK /\ ListedIsLatest)'
    BY NextTypeOK, NextListedIsLatest
<1>3. TypeOK /\ ListedIsLatest => HandedOutNeverListed
  <2> SUFFICES ASSUME TypeOK, ListedIsLatest,
                      NEW k \in handed_out, NEW i \in Slots,
                      k = prekeys_storage[i].public_key
               PROVE  FALSE
      BY DEF HandedOutNeverListed, Listed
  <2>1. k[1] = i /\ k[2] = generation[i]
      BY DEF ListedIsLatest
  <2>2. k[2] < generation[k[1]]
      BY DEF ListedIsLatest
  <2> QED BY <2>1, <2>2 DEF TypeOK
<1> QED BY <1>1, <1>2, <1>3, PTL DEF SpecAnyClock

-----------------------------------------------------------------------------
(***************************************************************************)
(* How conversations begin                                                 *)
(*                                                                         *)
(* A crash replaces the store by its backup, so everything these proofs    *)
(* need of the store is stated of a store as such, and holds of both.      *)
(***************************************************************************)

\* A key pair has been drawn
DrawnKey(drawn, key) == key[2] <= drawn[key[1]]

\* Types of a store; its last list was not made in the future
StoreTypeOK(now, prekeys, deprecated, made) ==
    /\ prekeys \in [Slots -> Prekey]
    /\ deprecated \in SUBSET Prekey
    /\ made \in Nat
    /\ made <= now

\* NotTooFar, of any store
DatesOK(now, prekeys, deprecated) ==
    /\ \A i \in Slots : prekeys[i].expiration_date <= now + prekey_expiration_time
    /\ \A d \in deprecated :
          d.expiration_date <= now + deprecated_prekey_expiration_time

\* Slot i holds a key pair drawn for slot i
KeysDrawn(drawn, prekeys) ==
    \A i \in Slots : prekeys[i].public_key[1] = i /\ DrawnKey(drawn, prekeys[i].public_key)

\* A deprecated key is there because it left the list at some time: it expires
\* deprecated_prekey_expiration_time later at the latest, and the last list was made
\* before that
Leaving(deprecated, gone, made) ==
    \A d \in deprecated : \E e \in gone :
        /\ e[1] = d.public_key
        /\ d.expiration_date <= e[2] + deprecated_prekey_expiration_time
        /\ made <= e[2] + deprecated_prekey_expiration_time

Sound(now, drawn, prekeys, deprecated, gone, made) ==
    /\ StoreTypeOK(now, prekeys, deprecated, made)
    /\ DatesOK(now, prekeys, deprecated)
    /\ KeysDrawn(drawn, prekeys)
    /\ Leaving(deprecated, gone, made)

\* The store can answer whoever uses the key
ServedBy(key, prekeys, deprecated) ==
    \/ \E i \in Slots : prekeys[i].public_key = key
    \/ \E d \in deprecated : d.public_key = key

\* Until deprecated_prekey_expiration_time after the list with the key was made the
\* store has the key: in the list, or deprecated and kept that long
Promised(now, made, key, prekeys, deprecated) ==
    now <= made + deprecated_prekey_expiration_time =>
        \/ \E i \in Slots : prekeys[i].public_key = key
        \/ \E d \in deprecated :
              /\ d.public_key = key
              /\ d.expiration_date >= made + deprecated_prekey_expiration_time

\* The store, and the backup, keep the keys of a list
KeptNow(list) ==
    \A i \in Slots : Promised(clock, MadeAt(list), list.prekeys[i],
                              prekeys_storage, deprecated_prekeys_storage)
KeptAfterCrash(list) ==
    \A i \in Slots : Promised(clock, MadeAt(list), list.prekeys[i],
                              backup.prekeys, backup.deprecated)

\* A list was made in the past, from keys that had been drawn
ListOK(now, drawn, list) ==
    /\ list \in PrekeyList
    /\ MadeAt(list) \in Nat
    /\ MadeAt(list) <= now
    /\ \A i \in Slots : DrawnKey(drawn, list.prekeys[i])

\* The published list is served by the store unless it was lost, and by the
\* backup if it is in the backup
PublishedOK ==
    /\ ListOK(clock, generation, published)
    /\ published.backed # "lost" =>
          /\ KeptNow(published)
          /\ \A i \in Slots : ServedBy(published.prekeys[i], prekeys_storage,
                                       deprecated_prekeys_storage)
    /\ published.backed = "yes" =>
          /\ KeptAfterCrash(published)
          /\ \A i \in Slots : ServedBy(published.prekeys[i], backup.prekeys,
                                       backup.deprecated)

\* If a sender's list is in a backup, then the store and the backup keep its keys
HeldOK ==
    \A s \in Senders :
        held[s] # NoList =>
            /\ ListOK(clock, generation, held[s])
            /\ held[s].backed = "yes" => KeptNow(held[s]) /\ KeptAfterCrash(held[s])

PacketMade(now, drawn, p) ==
    /\ p \in Packet
    /\ p.made <= now
    /\ DrawnKey(drawn, p.prekey)

\* And so for the prekey of a packet that was made from such a list
PacketsOK ==
    \A s \in Senders :
        packet[s] # NoPacket =>
            /\ PacketMade(clock, generation, packet[s])
            /\ packet[s].backed = "yes" =>
                  /\ Promised(clock, packet[s].made, packet[s].prekey,
                              prekeys_storage, deprecated_prekeys_storage)
                  /\ Promised(clock, packet[s].made, packet[s].prekey,
                              backup.prekeys, backup.deprecated)

\* While a packet is being opened its prekey is out of the list
CallOK ==
    call # Nobody =>
        /\ packet[call] # NoPacket
        /\ opened[call] < MaxOpened
        /\ \A i \in Slots : prekeys_storage[i].public_key # packet[call].prekey

\* When the last list was made from which the store comes: a list that was lost in
\* a crash does not count
LastList == IF published.backed = "lost" THEN backed_list ELSE MadeAt(published)

StoreSound ==
    Sound(clock, generation, prekeys_storage, deprecated_prekeys_storage,
          delisted, LastList)
BackupSound ==
    Sound(clock, generation, backup.prekeys, backup.deprecated, delisted, backed_list)

\* The last list in a backup is the published one, or an older one
BackedListOK ==
    /\ backed_list <= MadeAt(published)
    /\ published.backed = "yes" => backed_list = MadeAt(published)

\* Conversations are opened from packets, and their prekeys are in no list
OpenedOK ==
    /\ OpenedKeyNeverListed
    /\ \A s \in Senders : opened[s] > 0 => packet[s] # NoPacket

\* The inductive invariant of HandshakeSpec
HandshakeInv ==
    /\ HandshakeTypeOK
    /\ CacheNeverLate
    /\ StoreSound
    /\ BackupSound
    /\ BackedListOK
    /\ PublishedOK
    /\ HeldOK
    /\ PacketsOK
    /\ CallOK
    /\ OpenedOK

-----------------------------------------------------------------------------
(***************************************************************************)
(* What time, and a deprecation, do to a store                             *)
(***************************************************************************)

\* drawn2 counts at least the draws that drawn1 counts
MoreDrawn(drawn1, drawn2) ==
    /\ drawn1 \in [Slots -> Nat]
    /\ drawn2 \in [Slots -> Nat]
    /\ \A i \in Slots : drawn1[i] <= drawn2[i]

\* A drawn key stays drawn.
LEMMA DrawnLater ==
    ASSUME NEW drawn1, NEW drawn2, MoreDrawn(drawn1, drawn2),
           NEW key \in PublicKey, DrawnKey(drawn1, key)
    PROVE  DrawnKey(drawn2, key)
<1>1. key[1] \in Slots /\ key[2] \in Nat
    BY DEF PublicKey
<1> QED BY <1>1 DEF DrawnKey, MoreDrawn

\* A store or a backup that is left alone stays sound while time passes, other
\* keys are drawn and more keys leave the list.
LEMMA SoundLater ==
    ASSUME NEW now1 \in Nat, NEW now2 \in Nat, now1 <= now2,
           NEW drawn1, NEW drawn2, MoreDrawn(drawn1, drawn2),
           NEW gone1, NEW gone2, gone1 \subseteq gone2,
           NEW prekeys, NEW deprecated, NEW made,
           Sound(now1, drawn1, prekeys, deprecated, gone1, made)
    PROVE  Sound(now2, drawn2, prekeys, deprecated, gone2, made)
<1>1. StoreTypeOK(now1, prekeys, deprecated, made)
    BY DEF Sound
<1>2. StoreTypeOK(now2, prekeys, deprecated, made)
    BY <1>1 DEF StoreTypeOK
<1>3. DatesOK(now2, prekeys, deprecated)
  <2>1. \A i \in Slots : prekeys[i].expiration_date \in Nat
      BY <1>1 DEF StoreTypeOK, Prekey
  <2>2. \A d \in deprecated : d.expiration_date \in Nat
      BY <1>1 DEF StoreTypeOK, Prekey
  <2> QED BY <2>1, <2>2, PrekeyAssumption DEF Sound, DatesOK
<1>4. KeysDrawn(drawn2, prekeys)
  <2>1. \A i \in Slots : prekeys[i].public_key \in PublicKey
      BY <1>1 DEF StoreTypeOK, Prekey
  <2> QED BY <2>1, DrawnLater DEF Sound, KeysDrawn
<1>5. Leaving(deprecated, gone2, made)
    BY DEF Sound, Leaving
<1> QED BY <1>2, <1>3, <1>4, <1>5 DEF Sound

\* What a store promises it still promises later.
LEMMA PromisedLater ==
    ASSUME NEW now1 \in Nat, NEW now2 \in Nat, now1 <= now2,
           NEW made \in Nat, NEW key, NEW prekeys, NEW deprecated,
           Promised(now1, made, key, prekeys, deprecated)
    PROVE  Promised(now2, made, key, prekeys, deprecated)
    BY PrekeyAssumption DEF Promised

\* The deprecated keys together with copies of those in the slots S
WithCopies(S) ==
    deprecated_prekeys_storage \union {deprecatedCopy(prekeys_storage[i]) : i \in S}

\* The step deprecates the keys in the slots S and keeps what has not expired
Deprecates(S) ==
    /\ S \in SUBSET Slots
    /\ clock' = clock
    /\ recordDeprecation(prekeys_storage, S)
    /\ prekeys_storage' = regenerated(prekeys_storage, S)
    /\ deprecated_prekeys_storage' \in SUBSET WithCopies(S)
    /\ \A d \in WithCopies(S) :
          d.expiration_date >= clock => d \in deprecated_prekeys_storage'

\* Deprecating slots only draws more keys, and adds to what left the list.
LEMMA DeprecatesDraws ==
    ASSUME TypeOK, NEW S, Deprecates(S)
    PROVE  MoreDrawn(generation, generation') /\ delisted \subseteq delisted'
    BY DEF TypeOK, Deprecates, recordDeprecation, MoreDrawn

\* A deprecation keeps every promise: a key that leaves the list is kept for
\* deprecated_prekey_expiration_time from now, which is after the list with it was
\* made.
LEMMA DeprecatesPromised ==
    ASSUME TypeOK, NEW S, Deprecates(S), NEW made \in Nat, made <= clock, NEW key,
           Promised(clock, made, key, prekeys_storage, deprecated_prekeys_storage)
    PROVE  Promised(clock, made, key, prekeys_storage', deprecated_prekeys_storage')
<1> SUFFICES ASSUME clock <= made + deprecated_prekey_expiration_time
             PROVE  \/ \E i \in Slots : prekeys_storage'[i].public_key = key
                    \/ \E d \in deprecated_prekeys_storage' :
                          /\ d.public_key = key
                          /\ d.expiration_date >= made + deprecated_prekey_expiration_time
    BY DEF Promised
<1> USE PrekeyAssumption
<1>1. clock \in Nat /\ generation \in [Slots -> Nat] /\ S \in SUBSET Slots
    BY DEF TypeOK, Deprecates
<1>2. ASSUME NEW i \in Slots, prekeys_storage[i].public_key = key, i \notin S
      PROVE  \E j \in Slots : prekeys_storage'[j].public_key = key
    BY <1>1, <1>2, Regenerated DEF TypeOK, Deprecates
<1>3. ASSUME NEW i \in S, prekeys_storage[i].public_key = key
      PROVE  \E d \in deprecated_prekeys_storage' :
                /\ d.public_key = key
                /\ d.expiration_date >= made + deprecated_prekey_expiration_time
  <2> DEFINE c == deprecatedCopy(prekeys_storage[i])
  <2>1. /\ c.public_key = key
        /\ c.expiration_date = clock + deprecated_prekey_expiration_time
      BY <1>1, <1>3, DeprecatedCopy DEF TypeOK
  <2>2. c \in WithCopies(S)
      BY DEF WithCopies
  <2> HIDE DEF c
  <2>3. c.expiration_date >= clock
        /\ c.expiration_date >= made + deprecated_prekey_expiration_time
      BY <1>1, <2>1
  <2> QED BY <2>1, <2>2, <2>3 DEF Deprecates
<1>4. ASSUME NEW d \in deprecated_prekeys_storage, d.public_key = key,
             d.expiration_date >= made + deprecated_prekey_expiration_time
      PROVE  d \in deprecated_prekeys_storage'
  <2>1. d \in WithCopies(S) /\ d.expiration_date \in Nat
      BY DEF WithCopies, TypeOK, Prekey
  <2> QED BY <1>1, <1>4, <2>1 DEF Deprecates
<1> QED BY <1>2, <1>3, <1>4 DEF Promised

\* A deprecation leaves a sound store.  made2 is when the last list was made
\* after the step: as before, or now if everything that expired was thrown away.
LEMMA DeprecatesSound ==
    ASSUME TypeOK, NEW S, Deprecates(S), NEW made1, NEW made2,
           Sound(clock, generation, prekeys_storage, deprecated_prekeys_storage,
                 delisted, made1),
           \/ made2 = made1
           \/ /\ made2 = clock
              /\ \A d \in deprecated_prekeys_storage' : d.expiration_date >= clock
    PROVE  Sound(clock, generation', prekeys_storage', deprecated_prekeys_storage',
                 delisted', made2)
<1> USE PrekeyAssumption
<1>1. clock \in Nat /\ generation \in [Slots -> Nat] /\ S \in SUBSET Slots
    BY DEF TypeOK, Deprecates
<1>2. made1 \in Nat /\ made1 <= clock /\ made2 \in Nat /\ made2 <= clock
    BY <1>1 DEF Sound, StoreTypeOK
<1>3. delisted' = delisted \union {<<prekeys_storage[i].public_key, clock>> : i \in S}
    BY DEF Deprecates, recordDeprecation
<1>4. \A i \in Slots : prekeys_storage[i] \in Prekey /\ prekeys_storage[i].public_key \in PublicKey
    BY DEF TypeOK, Prekey
<1>5. \A i \in S : LET c == deprecatedCopy(prekeys_storage[i])
                   IN  /\ c \in Prekey
                       /\ c.public_key = prekeys_storage[i].public_key
                       /\ c.expiration_date = clock + deprecated_prekey_expiration_time
    BY <1>1, <1>4, DeprecatedCopy
<1>6. \A d \in deprecated_prekeys_storage' :
         \/ d \in deprecated_prekeys_storage
         \/ \E i \in S : d = deprecatedCopy(prekeys_storage[i])
    BY DEF Deprecates, WithCopies
<1>7. /\ prekeys_storage' \in [Slots -> Prekey]
      /\ \A i \in S : /\ prekeys_storage'[i].public_key = <<i, generation[i] + 1>>
                      /\ prekeys_storage'[i].expiration_date
                           = clock + prekey_expiration_time
      /\ \A i \in Slots \ S : prekeys_storage'[i] = prekeys_storage[i]
    BY <1>1, Regenerated DEF TypeOK, Deprecates
<1>8. generation' = [i \in Slots |-> IF i \in S THEN generation[i] + 1
                                                ELSE generation[i]]
    BY DEF Deprecates, recordDeprecation
<1>9. StoreTypeOK(clock, prekeys_storage', deprecated_prekeys_storage', made2)
  <2>1. deprecated_prekeys_storage' \in SUBSET Prekey
      BY <1>5, <1>6 DEF TypeOK
  <2> QED BY <1>2, <1>7, <2>1 DEF StoreTypeOK
<1>10. DatesOK(clock, prekeys_storage', deprecated_prekeys_storage')
  <2>1. \A i \in Slots : prekeys_storage'[i].expiration_date <= clock + prekey_expiration_time
    <3> TAKE i \in Slots
    <3>1. CASE i \in S
        BY <1>1, <1>7, <3>1
    <3>2. CASE i \notin S
        BY <1>7, <3>2 DEF Sound, DatesOK
    <3> QED BY <3>1, <3>2
  <2>2. \A d \in deprecated_prekeys_storage' :
           d.expiration_date <= clock + deprecated_prekey_expiration_time
      BY <1>1, <1>5, <1>6 DEF Sound, DatesOK
  <2> QED BY <2>1, <2>2 DEF DatesOK
<1>11. KeysDrawn(generation', prekeys_storage')
  <2>1. MoreDrawn(generation, generation')
      BY DeprecatesDraws
  <2>2. \A i \in Slots : /\ prekeys_storage'[i].public_key[1] = i
                         /\ DrawnKey(generation', prekeys_storage'[i].public_key)
    <3> TAKE i \in Slots
    <3>1. CASE i \in S
        BY <1>1, <1>7, <1>8, <3>1 DEF DrawnKey
    <3>2. CASE i \notin S
        BY <1>4, <1>7, <2>1, <3>2, DrawnLater DEF Sound, KeysDrawn
    <3> QED BY <3>1, <3>2
  <2> QED BY <2>2 DEF KeysDrawn
<1>12. Leaving(deprecated_prekeys_storage', delisted', made2)
  <2> SUFFICES ASSUME NEW d \in deprecated_prekeys_storage'
               PROVE  \E e \in delisted' :
                         /\ e[1] = d.public_key
                         /\ d.expiration_date <= e[2] + deprecated_prekey_expiration_time
                         /\ made2 <= e[2] + deprecated_prekey_expiration_time
      BY DEF Leaving
  <2>1. CASE d \in deprecated_prekeys_storage
    <3>1. PICK e \in delisted :
             /\ e[1] = d.public_key
             /\ d.expiration_date <= e[2] + deprecated_prekey_expiration_time
             /\ made1 <= e[2] + deprecated_prekey_expiration_time
        BY <2>1 DEF Sound, Leaving
    <3>2. e \in delisted' /\ e[2] \in Nat /\ d.expiration_date \in Nat
        BY <1>3, <2>1 DEF TypeOK, Prekey
    <3>3. made2 <= e[2] + deprecated_prekey_expiration_time
        BY <1>1, <1>2, <3>1, <3>2
    <3> QED BY <3>1, <3>2, <3>3
  <2>2. CASE d \notin deprecated_prekeys_storage
    <3>1. PICK i \in S : d = deprecatedCopy(prekeys_storage[i])
        BY <1>6, <2>2
    <3>2. PICK e \in delisted' : e = <<prekeys_storage[i].public_key, clock>>
        BY <1>3
    <3>3. e[1] = prekeys_storage[i].public_key /\ e[2] = clock
        BY <3>2
    <3>4. /\ d.public_key = prekeys_storage[i].public_key
          /\ d.expiration_date = clock + deprecated_prekey_expiration_time
        BY <1>5, <3>1
    <3> QED BY <1>1, <1>2, <3>3, <3>4
  <2> QED BY <2>1, <2>2
<1> QED BY <1>9, <1>10, <1>11, <1>12 DEF Sound

-----------------------------------------------------------------------------
(***************************************************************************)
(* The calls on the store                                                  *)
(***************************************************************************)

\* Keys that leave the list are still served if nothing is thrown away.
LEMMA DeprecatesServed ==
    ASSUME TypeOK, NEW S, Deprecates(S),
           deprecated_prekeys_storage' = WithCopies(S), NEW key,
           ServedBy(key, prekeys_storage, deprecated_prekeys_storage)
    PROVE  ServedBy(key, prekeys_storage', deprecated_prekeys_storage')
<1>1. clock \in Nat /\ generation \in [Slots -> Nat] /\ S \in SUBSET Slots
    BY DEF TypeOK, Deprecates
<1>2. ASSUME NEW i \in Slots \ S, prekeys_storage[i].public_key = key
      PROVE  \E j \in Slots : prekeys_storage'[j].public_key = key
    BY <1>1, <1>2, Regenerated DEF TypeOK, Deprecates
<1>3. ASSUME NEW i \in S, prekeys_storage[i].public_key = key
      PROVE  \E d \in deprecated_prekeys_storage' : d.public_key = key
  <2>1. deprecatedCopy(prekeys_storage[i]).public_key = key
      BY <1>1, <1>3, DeprecatedCopy DEF TypeOK
  <2> QED BY <2>1 DEF WithCopies
<1>4. \A d \in deprecated_prekeys_storage : d \in deprecated_prekeys_storage'
    BY DEF WithCopies
<1> QED BY <1>2, <1>3, <1>4 DEF ServedBy

\* getPrekey for a listed key deprecates its slot and throws nothing away.
LEMMA GetPrekeyDeprecates ==
    ASSUME TypeOK, NEW i \in Slots, getPrekeyListed(i)
    PROVE  \E S : /\ S = {i}
                  /\ Deprecates(S)
                  /\ deprecated_prekeys_storage' = WithCopies(S)
                  /\ CacheNeverLate'
<1> DEFINE S == {i}
<1>1. /\ prekeys_storage' = regenerated(prekeys_storage, S)
      /\ {deprecatedCopy(prekeys_storage[j]) : j \in S}
           = {deprecatedCopy(prekeys_storage[i])}
      /\ deprecated_prekeys_storage' = deprecated_prekeys_storage \union
                                         {deprecatedCopy(prekeys_storage[i])}
      /\ CacheNeverLate'
      /\ recordDeprecation(prekeys_storage, S)
      /\ clock' = clock
      /\ S \in SUBSET Slots
      /\ S = {i}
    BY GetPrekeyListed DEF getPrekeyListed
<1> HIDE DEF S
<1> QED BY <1>1 DEF Deprecates, WithCopies

\* rotate() deprecates the outdated slots and throws away exactly what expired.
LEMMA RotateDeprecates ==
    ASSUME TypeOK, CacheNeverLate, StoreSound, rotate
    PROVE  \E S : /\ Deprecates(S)
                  /\ \A d \in deprecated_prekeys_storage' : d.expiration_date >= clock
                  /\ CacheNeverLate'
<1>1. NotTooFar
    BY DEF StoreSound, Sound, DatesOK, NotTooFar
<1> DEFINE S == outdated(prekeys_storage)
<1>2. /\ S \in SUBSET Slots
      /\ prekeys_storage' = regenerated(prekeys_storage, S)
      /\ deprecated_prekeys_storage'
           = {d \in WithCopies(S) : d.expiration_date >= clock}
      /\ CacheNeverLate'
    BY <1>1, RotateOnTime DEF WithCopies
<1>3. recordDeprecation(prekeys_storage, S) /\ clock' = clock
    BY <1>1, NothingPulledBack DEF rotate
<1> HIDE DEF S
<1> QED BY <1>2, <1>3 DEF Deprecates

\* A key that has been drawn and is not in the list does not get into it.
LEMMA DeprecatesUnlisted ==
    ASSUME TypeOK, NEW S, Deprecates(S), NEW key \in PublicKey,
           DrawnKey(generation, key),
           \A i \in Slots : prekeys_storage[i].public_key # key
    PROVE  \A i \in Slots : prekeys_storage'[i].public_key # key
<1> TAKE i \in Slots
<1>1. clock \in Nat /\ generation \in [Slots -> Nat] /\ S \in SUBSET Slots
    BY DEF TypeOK, Deprecates
<1>2. CASE i \in S
  <2>1. prekeys_storage'[i].public_key = <<i, generation[i] + 1>>
      BY <1>1, <1>2, Regenerated DEF TypeOK, Deprecates
  <2>2. key[1] = i => key[2] <= generation[i]
      BY DEF DrawnKey
  <2>3. key[2] # generation[i] + 1 \/ key[1] # i
      BY <1>1, <2>2 DEF PublicKey
  <2> QED BY <2>1, <2>3
<1>3. CASE i \notin S
    BY <1>1, <1>3, Regenerated DEF TypeOK, Deprecates
<1> QED BY <1>2, <1>3

\* A new prekey list: the rotated store is sound, keeps its promises, and the list
\* holds its keys.
LEMMA CreatePrekeyList ==
    ASSUME HandshakeTypeOK, CacheNeverLate, StoreSound,
           NEW backed \in {"yes", "no"}, create_prekey_list(backed)
    PROVE  /\ \E S : Deprecates(S)
           /\ TypeOK'
           /\ CacheNeverLate'
           /\ StoreSound'
           /\ MadeAt(published') = clock
           /\ ListOK(clock', generation', published')
           /\ KeptNow(published)'
           /\ \A i \in Slots : /\ published'.prekeys[i] = prekeys_storage'[i].public_key
                               /\ ServedBy(published'.prekeys[i], prekeys_storage',
                                           deprecated_prekeys_storage')
           /\ published'.backed = backed
<1>1. rotate /\ published' = prekeyList(prekeys_storage', backed)
    BY DEF create_prekey_list
<1>2. TypeOK
    BY DEF HandshakeTypeOK
<1>3. PICK S : /\ Deprecates(S)
               /\ \A d \in deprecated_prekeys_storage' : d.expiration_date >= clock
               /\ CacheNeverLate'
    BY <1>1, <1>2, RotateDeprecates
<1>4. clock' = clock /\ clock \in Nat
    BY <1>2, <1>3 DEF Deprecates, TypeOK
<1>5. Sound(clock, generation', prekeys_storage', deprecated_prekeys_storage',
            delisted', clock)
    BY <1>2, <1>3, DeprecatesSound DEF StoreSound
<1>6. TypeOK'
    BY <1>1, <1>2, NextTypeOK DEF NextAnyClock, Next
<1>7. /\ published'.backed = backed
      /\ published'.expiration_date = clock + prekey_list_expiration_time
      /\ published'.prekeys = [i \in Slots |-> prekeys_storage'[i].public_key]
      /\ published' \in PrekeyList
  <2>1. prekeys_storage' \in [Slots -> Prekey]
      BY <1>6 DEF TypeOK
  <2>2. \A i \in Slots : prekeys_storage'[i].public_key \in PublicKey
      BY <2>1 DEF Prekey
  <2> QED BY <1>1, <1>4, <2>2, HandshakeAssumption DEF prekeyList, PrekeyList
<1>8. MadeAt(published') = clock
    BY <1>4, <1>7, HandshakeAssumption DEF MadeAt
<1>9. StoreSound'
  <2>1. published'.backed # "lost"
      BY <1>7
  <2> QED BY <1>4, <1>5, <1>8, <2>1 DEF StoreSound, LastList
<1>10. ListOK(clock', generation', published')
  <2>1. \A i \in Slots : DrawnKey(generation', prekeys_storage'[i].public_key)
      BY <1>5 DEF Sound, KeysDrawn
  <2> QED BY <1>4, <1>7, <1>8, <2>1 DEF ListOK
<1>11. KeptNow(published)'
    BY <1>7 DEF KeptNow, Promised
<1>12. \A i \in Slots : ServedBy(published'.prekeys[i], prekeys_storage',
                                 deprecated_prekeys_storage')
    BY <1>7 DEF ServedBy
<1> QED BY <1>3, <1>6, <1>7, <1>8, <1>9, <1>10, <1>11, <1>12

-----------------------------------------------------------------------------
(***************************************************************************)
(* The inductive invariant                                                 *)
(***************************************************************************)

\* What every step does for those who hold lists and packets: the store and the
\* backup after it keep what both promised before
Keeps ==
    /\ clock' \in Nat
    /\ clock <= clock'
    /\ MoreDrawn(generation, generation')
    /\ \A made \in Nat : \A key :
          /\ made <= clock
          /\ Promised(clock, made, key, prekeys_storage, deprecated_prekeys_storage)
          /\ Promised(clock, made, key, backup.prekeys, backup.deprecated)
          => /\ Promised(clock', made, key, prekeys_storage', deprecated_prekeys_storage')
             /\ Promised(clock', made, key, backup'.prekeys, backup'.deprecated)

\* A list stays one that was made in the past.
LEMMA ListLater ==
    ASSUME NEW now1 \in Nat, NEW now2 \in Nat, now1 <= now2,
           NEW drawn1, NEW drawn2, MoreDrawn(drawn1, drawn2),
           NEW list, ListOK(now1, drawn1, list)
    PROVE  ListOK(now2, drawn2, list)
<1>1. \A i \in Slots : list.prekeys[i] \in PublicKey
    BY DEF ListOK, PrekeyList
<1>2. MadeAt(list) <= now2
    BY DEF ListOK
<1> QED BY <1>1, <1>2, DrawnLater DEF ListOK

\* A step that leaves lists and packets where they are keeps what is said of them.
LEMMA EnvironmentKept ==
    ASSUME HandshakeInv, Keeps, UNCHANGED environment
    PROVE  HeldOK' /\ PacketsOK'
<1>1. clock \in Nat /\ held' = held /\ packet' = packet
    BY DEF HandshakeInv, HandshakeTypeOK, TypeOK, environment
<1>2. HeldOK'
  <2> SUFFICES ASSUME NEW s \in Senders, held[s] # NoList
               PROVE  /\ ListOK(clock', generation', held[s])
                      /\ held[s].backed = "yes" =>
                            /\ KeptNow(held[s])'
                            /\ KeptAfterCrash(held[s])'
      BY <1>1 DEF HeldOK
  <2>1. ListOK(clock, generation, held[s])
      BY DEF HandshakeInv, HeldOK
  <2>2. ListOK(clock', generation', held[s])
      BY <1>1, <2>1, ListLater DEF Keeps
  <2>3. ASSUME held[s].backed = "yes", NEW i \in Slots
        PROVE  /\ Promised(clock', MadeAt(held[s]), held[s].prekeys[i],
                           prekeys_storage', deprecated_prekeys_storage')
               /\ Promised(clock', MadeAt(held[s]), held[s].prekeys[i],
                           backup'.prekeys, backup'.deprecated)
    <3>1. /\ Promised(clock, MadeAt(held[s]), held[s].prekeys[i],
                      prekeys_storage, deprecated_prekeys_storage)
          /\ Promised(clock, MadeAt(held[s]), held[s].prekeys[i],
                      backup.prekeys, backup.deprecated)
        BY <2>3 DEF HandshakeInv, HeldOK, KeptNow, KeptAfterCrash
    <3>2. MadeAt(held[s]) \in Nat /\ MadeAt(held[s]) <= clock
        BY <2>1 DEF ListOK
    <3> QED BY <3>1, <3>2 DEF Keeps
  <2> QED BY <1>1, <2>2, <2>3 DEF KeptNow, KeptAfterCrash
<1>3. PacketsOK'
  <2> SUFFICES ASSUME NEW s \in Senders, packet[s] # NoPacket
               PROVE  /\ PacketMade(clock', generation', packet[s])
                      /\ packet[s].backed = "yes" =>
                         /\ Promised(clock', packet[s].made, packet[s].prekey,
                                     prekeys_storage', deprecated_prekeys_storage')
                         /\ Promised(clock', packet[s].made, packet[s].prekey,
                                     backup'.prekeys, backup'.deprecated)
      BY <1>1 DEF PacketsOK
  <2>1. PacketMade(clock, generation, packet[s])
      BY DEF HandshakeInv, PacketsOK
  <2>2. packet[s].made \in Nat /\ packet[s].prekey \in PublicKey
        /\ packet[s].made <= clock
      BY <2>1 DEF PacketMade, Packet
  <2>3. PacketMade(clock', generation', packet[s])
      BY <1>1, <2>1, <2>2, DrawnLater DEF Keeps, PacketMade
  <2>4. ASSUME packet[s].backed = "yes"
        PROVE  /\ Promised(clock', packet[s].made, packet[s].prekey,
                           prekeys_storage', deprecated_prekeys_storage')
               /\ Promised(clock', packet[s].made, packet[s].prekey,
                           backup'.prekeys, backup'.deprecated)
    <3>1. /\ Promised(clock, packet[s].made, packet[s].prekey,
                      prekeys_storage, deprecated_prekeys_storage)
          /\ Promised(clock, packet[s].made, packet[s].prekey,
                      backup.prekeys, backup.deprecated)
        BY <2>4 DEF HandshakeInv, PacketsOK
    <3> QED BY <2>2, <3>1 DEF Keeps
  <2> QED BY <2>3, <2>4
<1> QED BY <1>2, <1>3

\* The prekey of an opened conversation does not get back into the store's list.
LEMMA OpenedUnlisted ==
    ASSUME HandshakeInv, NEW S, Deprecates(S), NEW s \in Senders, opened[s] > 0
    PROVE  \A i \in Slots : prekeys_storage'[i].public_key # packet[s].prekey
<1>1. /\ packet[s] # NoPacket
      /\ \A i \in Slots : prekeys_storage[i].public_key # packet[s].prekey
    BY DEF HandshakeInv, OpenedOK, OpenedKeyNeverListed, Listed
<1>2. packet[s].prekey \in PublicKey /\ DrawnKey(generation, packet[s].prekey)
    BY <1>1 DEF HandshakeInv, PacketsOK, PacketMade, Packet
<1>3. TypeOK
    BY DEF HandshakeInv, HandshakeTypeOK
<1> QED BY <1>1, <1>2, <1>3, DeprecatesUnlisted

\* molch_create_user establishes the invariant.
LEMMA InitHandshakeInv == HandshakeInit => HandshakeInv
<1> SUFFICES ASSUME HandshakeInit PROVE HandshakeInv
    OBVIOUS
<1> USE PrekeyAssumption, HandshakeAssumption
<1>1. TypeOK /\ CacheNeverLate /\ NotTooFar
    BY InitIInv DEF HandshakeInit, IInv
<1>2. /\ clock = StartTime /\ clock \in Nat /\ generation = [i \in Slots |-> 0]
      /\ deprecated_prekeys_storage = {} /\ delisted = {} /\ backed_list = clock
      /\ call = Nobody
      /\ held = [s \in Senders |-> NoList]
      /\ packet = [s \in Senders |-> NoPacket]
      /\ opened = [s \in Senders |-> 0]
      /\ backup.prekeys = prekeys_storage /\ backup.deprecated = {}
    BY <1>1 DEF HandshakeInit, Init, TypeOK
<1>3. prekeys_storage \in [Slots -> Prekey]
    BY <1>1 DEF TypeOK
<1>4. \A i \in Slots : /\ prekeys_storage[i].public_key = <<i, 0>>
                       /\ prekeys_storage[i].public_key \in PublicKey
                       /\ DrawnKey(generation, prekeys_storage[i].public_key)
    BY <1>2 DEF HandshakeInit, Init, generate, PublicKey, DrawnKey
<1>5. /\ published.backed = "yes"
      /\ published.expiration_date = clock + prekey_list_expiration_time
      /\ published.prekeys = [i \in Slots |-> prekeys_storage[i].public_key]
      /\ published \in PrekeyList
    BY <1>2, <1>4 DEF HandshakeInit, prekeyList, PrekeyList
<1>6. HandshakeTypeOK
    BY <1>1, <1>2, <1>5 DEF HandshakeTypeOK
<1>7. MadeAt(published) = clock /\ LastList = clock /\ BackedListOK
    BY <1>2, <1>5 DEF MadeAt, LastList, BackedListOK
<1>8. StoreSound /\ BackupSound
    BY <1>1, <1>2, <1>3, <1>4, <1>7 DEF StoreSound, BackupSound, Sound, StoreTypeOK,
       DatesOK, NotTooFar, KeysDrawn, Leaving
<1>9. PublishedOK
    BY <1>2, <1>4, <1>5, <1>7
    DEF PublishedOK, ListOK, KeptNow, KeptAfterCrash, Promised, ServedBy
<1>10. HeldOK /\ PacketsOK /\ CallOK /\ OpenedOK
    BY <1>2 DEF HeldOK, PacketsOK, CallOK, OpenedOK, OpenedKeyNeverListed
<1> QED BY <1>1, <1>6, <1>7, <1>8, <1>9, <1>10 DEF HandshakeInv

\* molch_get_prekey_list preserves the invariant.
LEMMA GetPrekeyListInv == HandshakeInv /\ get_prekey_list => HandshakeInv'
<1> SUFFICES ASSUME HandshakeInv, get_prekey_list PROVE HandshakeInv'
    OBVIOUS
<1>1. /\ call = Nobody /\ create_prekey_list("no")
      /\ UNCHANGED environment /\ opened' = opened /\ call' = call
      /\ backup' = backup /\ backed_list' = backed_list
    BY DEF get_prekey_list
<1>2. HandshakeTypeOK /\ CacheNeverLate /\ StoreSound /\ BackupSound /\ TypeOK
    BY DEF HandshakeInv, HandshakeTypeOK
<1>3. /\ \E S : Deprecates(S)
      /\ TypeOK' /\ CacheNeverLate' /\ StoreSound' /\ MadeAt(published') = clock
      /\ ListOK(clock', generation', published')
      /\ KeptNow(published)'
      /\ \A i \in Slots : /\ published'.prekeys[i] = prekeys_storage'[i].public_key
                          /\ ServedBy(published'.prekeys[i], prekeys_storage',
                                      deprecated_prekeys_storage')
      /\ published'.backed = "no"
    BY <1>1, <1>2, CreatePrekeyList
<1>4. PICK S : Deprecates(S)
    BY <1>3
<1>5. /\ clock \in Nat /\ clock' = clock /\ MoreDrawn(generation, generation')
      /\ delisted \subseteq delisted'
    BY <1>2, <1>4, DeprecatesDraws DEF Deprecates, TypeOK
<1>6. Keeps
    BY <1>1, <1>2, <1>4, <1>5, DeprecatesPromised DEF Keeps
<1>7. HandshakeTypeOK'
    BY <1>1, <1>2, <1>3 DEF HandshakeTypeOK, environment, ListOK
<1>8. BackupSound'
    BY <1>1, <1>2, <1>5, SoundLater DEF BackupSound
<1>9. PublishedOK'
    BY <1>3 DEF PublishedOK
<1>10. HeldOK' /\ PacketsOK'
    BY <1>1, <1>6, EnvironmentKept
<1>11. CallOK'
    BY <1>1 DEF CallOK
<1>12. BackedListOK'
  <2>1. backed_list \in Nat /\ backed_list <= clock
      BY DEF HandshakeInv, BackupSound, Sound, StoreTypeOK
  <2> QED BY <1>1, <1>3, <2>1 DEF BackedListOK
<1>13. OpenedOK'
  <2>1. \A s \in Senders : opened[s] > 0 =>
           \A i \in Slots : prekeys_storage'[i].public_key # packet[s].prekey
      BY <1>4, OpenedUnlisted
  <2> QED BY <1>1, <1>3, <2>1
      DEF HandshakeInv, OpenedOK, OpenedKeyNeverListed, Listed, BackedListed, environment
<1> QED BY <1>3, <1>7, <1>8, <1>9, <1>10, <1>11, <1>12, <1>13 DEF HandshakeInv

\* A sender that fetches or uses a list does not disturb the user's state.
LEMMA SenderInv ==
    ASSUME HandshakeInv, NEW s \in Senders,
           fetchList(s) \/ start_send_conversation(s)
    PROVE  HandshakeInv'
<1>1. /\ UNCHANGED vars /\ published' = published /\ opened' = opened
      /\ call' = call /\ backup' = backup /\ backed_list' = backed_list
      /\ packet[s] = NoPacket
    BY DEF fetchList, start_send_conversation
<1>2. /\ prekeys_storage' = prekeys_storage
      /\ deprecated_prekeys_storage' = deprecated_prekeys_storage
      /\ oldest_expiration_date' = oldest_expiration_date
      /\ oldest_deprecated_expiration_date' = oldest_deprecated_expiration_date
      /\ clock' = clock /\ generation' = generation /\ handed_out' = handed_out
      /\ delisted' = delisted
    BY <1>1 DEF vars, store
<1>3. /\ TypeOK' /\ CacheNeverLate' /\ StoreSound' /\ BackupSound' /\ BackedListOK'
      /\ PublishedOK'
    BY <1>1, <1>2 DEF HandshakeInv, HandshakeTypeOK, TypeOK, CacheNeverLate,
       StoreSound, BackupSound, BackedListOK, LastList, PublishedOK, KeptNow, KeptAfterCrash
<1>4. ASSUME fetchList(s)
      PROVE  /\ held' \in [Senders -> PrekeyList \union {NoList}] /\ packet' = packet
             /\ HeldOK' /\ PacketsOK'
  <2>1. held' = [held EXCEPT ![s] = published] /\ packet' = packet
      BY <1>4 DEF fetchList
  <2>2. held \in [Senders -> PrekeyList \union {NoList}] /\ published \in PrekeyList
      BY DEF HandshakeInv, HandshakeTypeOK
  <2>3. /\ ListOK(clock, generation, published)
        /\ published.backed = "yes" => KeptNow(published) /\ KeptAfterCrash(published)
      BY DEF HandshakeInv, PublishedOK
  <2>4. HeldOK'
    <3> SUFFICES ASSUME NEW t \in Senders, held'[t] # NoList
                 PROVE  /\ ListOK(clock', generation', held'[t])
                        /\ held'[t].backed = "yes" =>
                              KeptNow(held[t])' /\ KeptAfterCrash(held[t])'
        BY DEF HeldOK
    <3>1. CASE t = s
        BY <1>1, <1>2, <2>1, <2>2, <2>3, <3>1 DEF KeptNow, KeptAfterCrash
    <3>2. CASE t # s
        BY <1>1, <1>2, <2>1, <2>2, <3>2 DEF HandshakeInv, HeldOK, KeptNow, KeptAfterCrash
    <3> QED BY <3>1, <3>2
  <2>5. PacketsOK'
      BY <1>1, <1>2, <2>1 DEF HandshakeInv, PacketsOK
  <2> QED BY <2>1, <2>2, <2>4, <2>5
<1>5. ASSUME start_send_conversation(s)
      PROVE  /\ packet' \in [Senders -> Packet \union {NoPacket}] /\ held' = held
             /\ \A t \in Senders : t # s => packet'[t] = packet[t]
             /\ HeldOK' /\ PacketsOK'
  <2>1. PICK i \in Slots :
           packet' = [packet EXCEPT ![s] = [prekey |-> held[s].prekeys[i],
                                            made |-> MadeAt(held[s]),
                                            backed |-> held[s].backed]]
      BY <1>5 DEF start_send_conversation, MadeAt
  <2> DEFINE p == [prekey |-> held[s].prekeys[i], made |-> MadeAt(held[s]),
                   backed |-> held[s].backed]
  <2>2. held' = held /\ held[s] # NoList
      BY <1>5 DEF start_send_conversation, verify_prekey_list
  <2>3. /\ ListOK(clock, generation, held[s])
        /\ held[s].backed = "yes" => KeptNow(held[s]) /\ KeptAfterCrash(held[s])
      BY <2>2 DEF HandshakeInv, HeldOK
  <2>4. /\ p.prekey = held[s].prekeys[i] /\ p.made = MadeAt(held[s])
        /\ p.backed = held[s].backed
        /\ PacketMade(clock, generation, p)
    <3>1. held[s].prekeys[i] \in PublicKey /\ held[s].backed \in {"yes", "no", "lost"}
        BY <2>3 DEF ListOK, PrekeyList
    <3> QED BY <2>3, <3>1 DEF ListOK, PacketMade, Packet
  <2>5. packet \in [Senders -> Packet \union {NoPacket}]
      BY DEF HandshakeInv, HandshakeTypeOK
  <2>6. packet' \in [Senders -> Packet \union {NoPacket}]
        /\ packet'[s] = p /\ \A t \in Senders : t # s => packet'[t] = packet[t]
    <3>1. p \in Packet
        BY <2>4 DEF PacketMade
    <3>2. packet' = [packet EXCEPT ![s] = p]
        BY <2>1
    <3> HIDE DEF p
    <3> QED BY <3>1, <3>2, <2>5
  <2>7. HeldOK'
      BY <1>1, <1>2, <2>2 DEF HandshakeInv, HeldOK, KeptNow, KeptAfterCrash
  <2> HIDE DEF p
  <2>8. PacketsOK'
    <3> SUFFICES ASSUME NEW t \in Senders, packet'[t] # NoPacket
                 PROVE  /\ PacketMade(clock, generation, packet'[t])
                        /\ packet'[t].backed = "yes" =>
                           /\ Promised(clock, packet'[t].made, packet'[t].prekey,
                                       prekeys_storage, deprecated_prekeys_storage)
                           /\ Promised(clock, packet'[t].made, packet'[t].prekey,
                                       backup.prekeys, backup.deprecated)
        BY <1>1, <1>2 DEF PacketsOK
    <3>1. CASE t = s
        BY <2>3, <2>4, <2>6, <3>1 DEF KeptNow, KeptAfterCrash
    <3>2. CASE t # s
        BY <2>6, <3>2 DEF HandshakeInv, PacketsOK
    <3> QED BY <3>1, <3>2
  <2> QED BY <2>2, <2>6, <2>7, <2>8
<1>6. HandshakeTypeOK'
    BY <1>1, <1>3, <1>4, <1>5 DEF HandshakeInv, HandshakeTypeOK
<1>7. CallOK'
  <2>1. call # Nobody => call \in Senders /\ call # s
      BY <1>1 DEF HandshakeInv, CallOK, HandshakeTypeOK
  <2>2. call # Nobody => packet'[call] = packet[call]
      BY <1>4, <1>5, <2>1
  <2> QED BY <1>1, <1>2, <2>2 DEF HandshakeInv, CallOK
<1>8. OpenedOK'
  <2> SUFFICES ASSUME NEW t \in Senders, opened[t] > 0
               PROVE  /\ packet'[t] # NoPacket
                      /\ packet'[t].prekey \notin Listed' \union BackedListed'
                      /\ \A i \in Slots : published'.prekeys[i] # packet'[t].prekey
      BY <1>1 DEF OpenedOK, OpenedKeyNeverListed
  <2>1. t # s
      BY <1>1 DEF HandshakeInv, OpenedOK
  <2>2. packet'[t] = packet[t]
      BY <1>4, <1>5, <2>1
  <2> QED BY <1>1, <1>2, <2>2
      DEF HandshakeInv, OpenedOK, OpenedKeyNeverListed, Listed, BackedListed
<1> QED BY <1>3, <1>4, <1>5, <1>6, <1>7, <1>8 DEF HandshakeInv

\* A backup of everything: from now on the published list survives a crash.
LEMMA ExportInv == HandshakeInv /\ exportAll => HandshakeInv'
<1> SUFFICES ASSUME HandshakeInv, exportAll PROVE HandshakeInv'
    OBVIOUS
<1>1. /\ call = Nobody
      /\ UNCHANGED vars /\ UNCHANGED environment /\ opened' = opened /\ call' = call
      /\ held' = held /\ packet' = packet
      /\ published' = [published EXCEPT !.backed = IF @ = "no" THEN "yes" ELSE @]
      /\ backup' = [prekeys |-> prekeys_storage', deprecated |-> deprecated_prekeys_storage']
      /\ backed_list' = IF published'.backed = "yes" THEN MadeAt(published') ELSE backed_list
    BY DEF exportAll, export, environment
<1>2. /\ prekeys_storage' = prekeys_storage
      /\ deprecated_prekeys_storage' = deprecated_prekeys_storage
      /\ oldest_expiration_date' = oldest_expiration_date
      /\ oldest_deprecated_expiration_date' = oldest_deprecated_expiration_date
      /\ clock' = clock /\ generation' = generation /\ handed_out' = handed_out
      /\ delisted' = delisted
    BY <1>1 DEF vars, store
<1>3. backup'.prekeys = prekeys_storage /\ backup'.deprecated = deprecated_prekeys_storage
    BY <1>1, <1>2
<1>4. TypeOK' /\ CacheNeverLate'
    BY <1>2 DEF HandshakeInv, HandshakeTypeOK, TypeOK, CacheNeverLate
<1>5. published \in PrekeyList
    BY DEF HandshakeInv, HandshakeTypeOK
<1>6. /\ published' \in PrekeyList
      /\ published'.prekeys = published.prekeys
      /\ published'.expiration_date = published.expiration_date
      /\ published'.backed = "lost" <=> published.backed = "lost"
      /\ published'.backed \in {"yes", "lost"}
    BY <1>1, <1>5 DEF PrekeyList
<1>7. MadeAt(published') = MadeAt(published)
    BY <1>6 DEF MadeAt
<1>8. PublishedOK'
  <2>1. ListOK(clock', generation', published')
      BY <1>2, <1>6, <1>7 DEF HandshakeInv, PublishedOK, ListOK
  <2> QED BY <1>2, <1>3, <1>6, <1>7, <2>1
      DEF HandshakeInv, PublishedOK, KeptNow, KeptAfterCrash
<1>9. Keeps
    BY <1>2, <1>3 DEF Keeps, HandshakeInv, HandshakeTypeOK, TypeOK, MoreDrawn
<1>10. HeldOK' /\ PacketsOK'
    BY <1>1, <1>9, EnvironmentKept
<1>11. CallOK'
    BY <1>1 DEF CallOK
<1>12. LastList' = LastList /\ backed_list' = LastList
    BY <1>1, <1>6, <1>7 DEF LastList
<1>13. StoreSound' /\ BackupSound'
    BY <1>2, <1>3, <1>12 DEF HandshakeInv, StoreSound, BackupSound
<1>14. BackedListOK' /\ backed_list' \in Nat
  <2>1. LastList \in Nat
      BY DEF HandshakeInv, StoreSound, Sound, StoreTypeOK
  <2>2. LastList <= MadeAt(published)
      BY DEF HandshakeInv, BackedListOK, LastList, PublishedOK, ListOK
  <2> QED BY <1>1, <1>7, <1>12, <2>1, <2>2 DEF BackedListOK
<1>15. OpenedOK'
    BY <1>1, <1>2, <1>3, <1>6
    DEF HandshakeInv, OpenedOK, OpenedKeyNeverListed, Listed, BackedListed
<1>16. HandshakeTypeOK'
    BY <1>1, <1>4, <1>6, <1>14 DEF HandshakeInv, HandshakeTypeOK
<1> QED BY <1>4, <1>8, <1>10, <1>11, <1>13, <1>14, <1>15, <1>16 DEF HandshakeInv

\* Taking the prekey of a packet: it leaves the list, and everybody is still served.
LEMMA StartReceiveInv ==
    ASSUME HandshakeInv, NEW s \in Senders, NEW damaged \in BOOLEAN,
           start_receive_conversation(s, damaged)
    PROVE  HandshakeInv'
<1>1. /\ call = Nobody /\ packet[s] # NoPacket /\ opened[s] < MaxOpened
      /\ getPrekey(packet[s].prekey)
      /\ call' = IF damaged THEN Nobody ELSE s
      /\ published' = published /\ UNCHANGED environment /\ opened' = opened
      /\ backup' = backup /\ backed_list' = backed_list /\ LastList' = LastList
      /\ held' = held /\ packet' = packet
    BY DEF start_receive_conversation, environment, LastList, MadeAt
<1>2. TypeOK /\ CacheNeverLate /\ StoreSound /\ BackupSound /\ clock \in Nat
    BY DEF HandshakeInv, HandshakeTypeOK, TypeOK
<1>3. ASSUME NEW i \in Slots, prekeys_storage[i].public_key = packet[s].prekey,
             getPrekeyListed(i)
      PROVE  /\ TypeOK' /\ CacheNeverLate' /\ StoreSound' /\ Keeps
             /\ clock' = clock /\ delisted \subseteq delisted'
             /\ \A key : ServedBy(key, prekeys_storage, deprecated_prekeys_storage)
                           => ServedBy(key, prekeys_storage', deprecated_prekeys_storage')
             /\ \A made \in Nat : \A key :
                   /\ made <= clock
                   /\ Promised(clock, made, key, prekeys_storage, deprecated_prekeys_storage)
                   => Promised(clock', made, key, prekeys_storage', deprecated_prekeys_storage')
             /\ \A j \in Slots : prekeys_storage'[j].public_key # packet[s].prekey
             /\ OpenedOK'
  <2>1. PICK S : /\ S = {i}
                 /\ Deprecates(S)
                 /\ deprecated_prekeys_storage' = WithCopies(S)
                 /\ CacheNeverLate'
      BY <1>2, <1>3, GetPrekeyDeprecates
  <2>2. TypeOK'
      BY <1>2, <1>3, NextTypeOK DEF NextAnyClock, Next
  <2>3. /\ clock' = clock /\ MoreDrawn(generation, generation')
        /\ delisted \subseteq delisted'
      BY <1>2, <2>1, DeprecatesDraws DEF Deprecates
  <2>4. StoreSound'
      BY <1>1, <1>2, <2>1, <2>3, DeprecatesSound DEF StoreSound
  <2>5. \A key : ServedBy(key, prekeys_storage, deprecated_prekeys_storage)
                   => ServedBy(key, prekeys_storage', deprecated_prekeys_storage')
      BY <1>2, <2>1, DeprecatesServed
  <2>6. \A made \in Nat : \A key :
           /\ made <= clock
           /\ Promised(clock, made, key, prekeys_storage, deprecated_prekeys_storage)
           => Promised(clock', made, key, prekeys_storage', deprecated_prekeys_storage')
      BY <1>2, <2>1, <2>3, DeprecatesPromised
  <2>7. Keeps
      BY <1>1, <1>2, <2>3, <2>6 DEF Keeps
  <2>8. \A j \in Slots : prekeys_storage'[j].public_key # packet[s].prekey
    <3>1. i \in S /\ clock \in Nat /\ generation \in [Slots -> Nat] /\ S \in SUBSET Slots
        BY <1>2, <2>1 DEF TypeOK
    <3>2. /\ prekeys_storage'[i].public_key = <<i, generation[i] + 1>>
          /\ \A j \in Slots \ S : prekeys_storage'[j] = prekeys_storage[j]
        BY <1>2, <2>1, <3>1, Regenerated DEF TypeOK, Deprecates
    <3>3. \A j \in Slots : prekeys_storage[j].public_key[1] = j
        BY <1>2 DEF StoreSound, Sound, KeysDrawn
    <3>4. packet[s].prekey[1] = i /\ packet[s].prekey[2] <= generation[i]
        BY <1>2, <1>3, <3>3 DEF StoreSound, Sound, KeysDrawn, DrawnKey
    <3>5. packet[s].prekey[2] # generation[i] + 1
      <4>1. packet[s].prekey[2] \in Nat /\ generation[i] \in Nat
          BY <1>2, <1>3, <3>1 DEF TypeOK, Prekey, PublicKey
      <4> QED BY <3>4, <4>1
    <3>6. prekeys_storage'[i].public_key # packet[s].prekey
        BY <3>2, <3>5
    <3>7. \A j \in Slots \ S : prekeys_storage'[j].public_key # packet[s].prekey
        BY <2>1, <3>2, <3>3, <3>4
    <3> QED BY <2>1, <3>6, <3>7
  <2>9. OpenedOK'
    <3>1. \A t \in Senders : opened[t] > 0 =>
             \A j \in Slots : prekeys_storage'[j].public_key # packet[t].prekey
        BY <2>1, OpenedUnlisted
    <3> QED BY <1>1, <3>1
        DEF HandshakeInv, OpenedOK, OpenedKeyNeverListed, Listed, BackedListed
  <2> QED BY <2>1, <2>2, <2>3, <2>4, <2>5, <2>6, <2>7, <2>8, <2>9
<1>4. ASSUME NEW d \in deprecated_prekeys_storage, d.public_key = packet[s].prekey,
             getPrekeyDeprecated(d)
      PROVE  /\ TypeOK' /\ CacheNeverLate' /\ StoreSound' /\ Keeps
             /\ clock' = clock /\ delisted \subseteq delisted'
             /\ \A key : ServedBy(key, prekeys_storage, deprecated_prekeys_storage)
                           => ServedBy(key, prekeys_storage', deprecated_prekeys_storage')
             /\ \A made \in Nat : \A key :
                   /\ made <= clock
                   /\ Promised(clock, made, key, prekeys_storage, deprecated_prekeys_storage)
                   => Promised(clock', made, key, prekeys_storage', deprecated_prekeys_storage')
             /\ \A j \in Slots : prekeys_storage'[j].public_key # packet[s].prekey
             /\ OpenedOK'
  <2>1. /\ prekeys_storage' = prekeys_storage
        /\ deprecated_prekeys_storage' = deprecated_prekeys_storage
        /\ oldest_expiration_date' = oldest_expiration_date
        /\ oldest_deprecated_expiration_date' = oldest_deprecated_expiration_date
        /\ clock' = clock /\ generation' = generation /\ delisted' = delisted
        /\ packet[s].prekey \notin Listed
      BY <1>4 DEF getPrekeyDeprecated, store
  <2>2. TypeOK'
      BY <1>2, <1>4, NextTypeOK DEF NextAnyClock, Next
  <2>3. CacheNeverLate' /\ StoreSound'
      BY <1>1, <1>2, <2>1 DEF CacheNeverLate, StoreSound
  <2>4. Keeps
      BY <1>1, <1>2, <2>1 DEF Keeps, TypeOK, MoreDrawn
  <2>5. OpenedOK'
      BY <1>1, <2>1
      DEF HandshakeInv, OpenedOK, OpenedKeyNeverListed, Listed, BackedListed
  <2> QED BY <2>1, <2>2, <2>3, <2>4, <2>5 DEF Listed
<1>5. /\ TypeOK' /\ CacheNeverLate' /\ StoreSound' /\ Keeps
      /\ clock' = clock /\ delisted \subseteq delisted'
      /\ \A key : ServedBy(key, prekeys_storage, deprecated_prekeys_storage)
                    => ServedBy(key, prekeys_storage', deprecated_prekeys_storage')
      /\ \A made \in Nat : \A key :
            /\ made <= clock
            /\ Promised(clock, made, key, prekeys_storage, deprecated_prekeys_storage)
            => Promised(clock', made, key, prekeys_storage', deprecated_prekeys_storage')
      /\ \A j \in Slots : prekeys_storage'[j].public_key # packet[s].prekey
      /\ OpenedOK'
    BY <1>1, <1>3, <1>4 DEF getPrekey
<1>6. BackupSound'
    BY <1>1, <1>2, <1>5, SoundLater DEF BackupSound, Keeps
<1>7. PublishedOK'
  <2>1. ListOK(clock, generation, published)
      BY DEF HandshakeInv, PublishedOK
  <2>2. ListOK(clock', generation', published')
      BY <1>1, <1>2, <1>5, <2>1, ListLater DEF Keeps
  <2>3. MadeAt(published) \in Nat /\ MadeAt(published) <= clock
      BY <2>1 DEF ListOK
  <2>4. published.backed # "lost" =>
           /\ KeptNow(published)'
           /\ \A i \in Slots : ServedBy(published'.prekeys[i], prekeys_storage',
                                        deprecated_prekeys_storage')
      BY <1>1, <1>5, <2>3 DEF HandshakeInv, PublishedOK, KeptNow
  <2>5. published.backed = "yes" =>
           /\ KeptAfterCrash(published)'
           /\ \A i \in Slots : ServedBy(published'.prekeys[i], backup'.prekeys,
                                        backup'.deprecated)
      BY <1>1, <1>5 DEF HandshakeInv, PublishedOK, KeptAfterCrash
  <2> QED BY <1>1, <2>2, <2>4, <2>5 DEF PublishedOK
<1>8. HeldOK' /\ PacketsOK'
    BY <1>1, <1>5, EnvironmentKept
<1>9. CallOK'
    BY <1>1, <1>5 DEF CallOK
<1>10. HandshakeTypeOK'
    BY <1>1, <1>5 DEF HandshakeInv, HandshakeTypeOK
<1>11. BackedListOK'
    BY <1>1 DEF HandshakeInv, BackedListOK
<1> QED BY <1>5, <1>6, <1>7, <1>8, <1>9, <1>10, <1>11 DEF HandshakeInv

\* The new list and the backup that come with an opened conversation.
LEMMA FinishReceiveInv == HandshakeInv /\ finish_receive_conversation => HandshakeInv'
<1> SUFFICES ASSUME HandshakeInv, finish_receive_conversation PROVE HandshakeInv'
    OBVIOUS
<1>1. /\ call # Nobody /\ create_prekey_list("yes")
      /\ UNCHANGED environment /\ held' = held /\ packet' = packet
      /\ opened' = [opened EXCEPT ![call] = @ + 1] /\ call' = Nobody
      /\ backup' = [prekeys |-> prekeys_storage', deprecated |-> deprecated_prekeys_storage']
      /\ backed_list' = IF published'.backed = "yes" THEN MadeAt(published') ELSE backed_list
    BY DEF finish_receive_conversation, export, environment
<1>2. HandshakeTypeOK /\ CacheNeverLate /\ StoreSound /\ TypeOK
    BY DEF HandshakeInv, HandshakeTypeOK
<1>3. /\ \E S : Deprecates(S)
      /\ TypeOK' /\ CacheNeverLate' /\ StoreSound' /\ MadeAt(published') = clock
      /\ ListOK(clock', generation', published')
      /\ KeptNow(published)'
      /\ \A i \in Slots : /\ published'.prekeys[i] = prekeys_storage'[i].public_key
                          /\ ServedBy(published'.prekeys[i], prekeys_storage',
                                      deprecated_prekeys_storage')
      /\ published'.backed = "yes"
    BY <1>1, <1>2, CreatePrekeyList
<1>4. PICK S : Deprecates(S)
    BY <1>3
<1>5. clock \in Nat /\ clock' = clock /\ MoreDrawn(generation, generation')
    BY <1>2, <1>4, DeprecatesDraws DEF Deprecates, TypeOK
<1>6. /\ backup'.prekeys = prekeys_storage' /\ backup'.deprecated = deprecated_prekeys_storage'
      /\ backed_list' = MadeAt(published') /\ backed_list' = clock
    BY <1>1, <1>3
<1>7. Keeps
    BY <1>2, <1>4, <1>5, <1>6, DeprecatesPromised DEF Keeps
<1>8. opened' \in [Senders -> 0..MaxOpened]
  <2>1. call \in Senders /\ opened[call] < MaxOpened
        /\ opened \in [Senders -> 0..MaxOpened]
      BY <1>1 DEF HandshakeInv, CallOK, HandshakeTypeOK
  <2>2. opened[call] + 1 \in 0..MaxOpened
      BY <2>1, HandshakeAssumption
  <2> QED BY <1>1, <2>1, <2>2
<1>9. HandshakeTypeOK'
    BY <1>1, <1>2, <1>3, <1>5, <1>6, <1>8 DEF HandshakeTypeOK, ListOK
<1>10. BackupSound'
    BY <1>3, <1>6 DEF BackupSound, StoreSound, LastList
<1>11. PublishedOK'
    BY <1>3, <1>6 DEF PublishedOK, KeptNow, KeptAfterCrash
<1>12. HeldOK' /\ PacketsOK'
    BY <1>1, <1>7, EnvironmentKept
<1>13. CallOK'
    BY <1>1 DEF CallOK
<1>14. BackedListOK'
    BY <1>3, <1>5, <1>6 DEF BackedListOK
<1>15. OpenedOK'
  <2>1. ASSUME NEW s \in Senders, opened'[s] > 0
        PROVE  /\ packet[s] # NoPacket
               /\ \A i \in Slots : prekeys_storage'[i].public_key # packet[s].prekey
    <3>1. CASE s = call
      <4>1. /\ packet[s] # NoPacket
            /\ \A i \in Slots : prekeys_storage[i].public_key # packet[s].prekey
          BY <1>1, <3>1 DEF HandshakeInv, CallOK
      <4>2. packet[s].prekey \in PublicKey /\ DrawnKey(generation, packet[s].prekey)
          BY <4>1 DEF HandshakeInv, PacketsOK, PacketMade, Packet
      <4> QED BY <1>2, <1>4, <4>1, <4>2, DeprecatesUnlisted
    <3>2. CASE s # call
      <4>1. opened[s] > 0
          BY <1>1, <2>1, <3>2 DEF HandshakeInv, HandshakeTypeOK
      <4> QED BY <1>4, <4>1, OpenedUnlisted DEF HandshakeInv, OpenedOK
    <3> QED BY <3>1, <3>2
  <2> QED BY <1>1, <1>3, <1>6, <2>1
      DEF OpenedOK, OpenedKeyNeverListed, Listed, BackedListed
<1> QED BY <1>3, <1>9, <1>10, <1>11, <1>12, <1>13, <1>14, <1>15 DEF HandshakeInv

\* A crash puts the backup in the place of the store: what the backup keeps is
\* what counts.
LEMMA CrashInv == HandshakeInv /\ crash => HandshakeInv'
<1> SUFFICES ASSUME HandshakeInv, crash PROVE HandshakeInv'
    OBVIOUS
<1>1. /\ prekeys_storage' = backup.prekeys
      /\ deprecated_prekeys_storage' = backup.deprecated
      /\ oldest_expiration_date' = updateExpirationDate(backup.prekeys)
      /\ oldest_deprecated_expiration_date' = updateDeprecatedExpirationDate(backup.deprecated)
      /\ delisted' = delisted
      /\ published' = [published EXCEPT !.backed = IF @ = "no" THEN "lost" ELSE @]
      /\ call' = Nobody
      /\ clock' = clock /\ generation' = generation /\ handed_out' = handed_out
      /\ UNCHANGED environment /\ held' = held /\ packet' = packet
      /\ opened' = opened /\ backup' = backup /\ backed_list' = backed_list
    BY DEF crash, environment
<1>2. /\ backup.prekeys \in [Slots -> Prekey]
      /\ backup.deprecated \in SUBSET Prekey
    BY DEF HandshakeInv, BackupSound, Sound, StoreTypeOK
<1>3. TypeOK' /\ CacheNeverLate'
  <2>1. /\ oldest_expiration_date' \in Nat
        /\ \A i \in Slots : oldest_expiration_date' <= prekeys_storage'[i].expiration_date
      BY <1>1, <1>2, UpdateExpirationDate
  <2>2. /\ oldest_deprecated_expiration_date' \in Nat
        /\ \A d \in deprecated_prekeys_storage' :
              oldest_deprecated_expiration_date' <= d.expiration_date
      BY <1>1, <1>2, UpdateDeprecatedExpirationDate
  <2> QED BY <1>1, <1>2, <2>1, <2>2
      DEF HandshakeInv, HandshakeTypeOK, TypeOK, CacheNeverLate
<1>4. BackupSound'
    BY <1>1 DEF HandshakeInv, BackupSound
<1>5. published \in PrekeyList
    BY DEF HandshakeInv, HandshakeTypeOK
<1>6. /\ published' \in PrekeyList
      /\ published'.prekeys = published.prekeys
      /\ published'.expiration_date = published.expiration_date
      /\ published'.backed # "lost" => published.backed = "yes"
    BY <1>1, <1>5 DEF PrekeyList
<1>7. MadeAt(published') = MadeAt(published)
    BY <1>6 DEF MadeAt
<1>8. PublishedOK'
  <2>1. ListOK(clock', generation', published')
      BY <1>1, <1>6, <1>7 DEF HandshakeInv, PublishedOK, ListOK
  <2> QED BY <1>1, <1>6, <1>7, <2>1
      DEF HandshakeInv, PublishedOK, KeptNow, KeptAfterCrash
<1>9. Keeps
    BY <1>1 DEF Keeps, HandshakeInv, HandshakeTypeOK, TypeOK, MoreDrawn
<1>10. HeldOK' /\ PacketsOK'
    BY <1>1, <1>9, EnvironmentKept
<1>11. CallOK' /\ HandshakeTypeOK'
    BY <1>1, <1>2, <1>3, <1>6 DEF CallOK, HandshakeInv, HandshakeTypeOK
<1>12. BackedListOK'
    BY <1>1, <1>6, <1>7 DEF HandshakeInv, BackedListOK
<1>13. StoreSound'
  <2>1. LastList' = backed_list
      BY <1>1, <1>6, <1>7 DEF HandshakeInv, BackedListOK, LastList
  <2> QED BY <1>1, <2>1 DEF HandshakeInv, StoreSound, BackupSound
<1>14. OpenedOK'
    BY <1>1, <1>6
    DEF HandshakeInv, OpenedOK, OpenedKeyNeverListed, Listed, BackedListed
<1> QED BY <1>3, <1>4, <1>8, <1>10, <1>11, <1>12, <1>13, <1>14 DEF HandshakeInv

\* The passing of time preserves the invariant.
LEMMA TickInv == HandshakeInv /\ tick /\ UNCHANGED handshake => HandshakeInv'
<1> SUFFICES ASSUME HandshakeInv, tick, UNCHANGED handshake PROVE HandshakeInv'
    OBVIOUS
<1>1. /\ published' = published /\ UNCHANGED environment /\ held' = held /\ packet' = packet
      /\ opened' = opened /\ call' = call /\ backup' = backup
      /\ backed_list' = backed_list /\ LastList' = LastList
    BY DEF handshake, environment, LastList, MadeAt
<1>2. /\ prekeys_storage' = prekeys_storage
      /\ deprecated_prekeys_storage' = deprecated_prekeys_storage
      /\ oldest_expiration_date' = oldest_expiration_date
      /\ oldest_deprecated_expiration_date' = oldest_deprecated_expiration_date
      /\ generation' = generation /\ handed_out' = handed_out /\ delisted' = delisted
      /\ clock' = clock + 1
    BY DEF tick, store
<1>3. clock \in Nat /\ clock' \in Nat /\ clock <= clock' /\ MoreDrawn(generation, generation')
    BY <1>2 DEF HandshakeInv, HandshakeTypeOK, TypeOK, MoreDrawn
<1>4. TypeOK' /\ CacheNeverLate'
    BY <1>2 DEF HandshakeInv, HandshakeTypeOK, TypeOK, CacheNeverLate
<1>5. StoreSound' /\ BackupSound'
    BY <1>1, <1>2, <1>3, SoundLater DEF HandshakeInv, StoreSound, BackupSound
<1>6. \A made \in Nat : \A key :
         /\ Promised(clock, made, key, prekeys_storage, deprecated_prekeys_storage)
              => Promised(clock', made, key, prekeys_storage', deprecated_prekeys_storage')
         /\ Promised(clock, made, key, backup.prekeys, backup.deprecated)
              => Promised(clock', made, key, backup'.prekeys, backup'.deprecated)
    BY <1>1, <1>2, <1>3, PromisedLater
<1>7. Keeps
    BY <1>3, <1>6 DEF Keeps
<1>8. PublishedOK'
  <2>1. ListOK(clock, generation, published)
      BY DEF HandshakeInv, PublishedOK
  <2>2. ListOK(clock', generation', published)
      BY <1>3, <2>1, ListLater
  <2>3. MadeAt(published) \in Nat
      BY <2>1 DEF ListOK
  <2>4. /\ KeptNow(published) => KeptNow(published)'
        /\ KeptAfterCrash(published) => KeptAfterCrash(published)'
      BY <1>1, <1>6, <2>3 DEF KeptNow, KeptAfterCrash
  <2> QED BY <1>1, <1>2, <2>2, <2>4 DEF HandshakeInv, PublishedOK
<1>9. HeldOK' /\ PacketsOK'
    BY <1>1, <1>7, EnvironmentKept
<1>10. CallOK' /\ HandshakeTypeOK'
    BY <1>1, <1>2, <1>4 DEF CallOK, HandshakeInv, HandshakeTypeOK
<1>11. BackedListOK' /\ OpenedOK'
    BY <1>1, <1>2 DEF HandshakeInv, BackedListOK, MadeAt, OpenedOK,
       OpenedKeyNeverListed, Listed, BackedListed
<1> QED BY <1>4, <1>5, <1>8, <1>9, <1>10, <1>11 DEF HandshakeInv

\* Every step preserves the invariant.
LEMMA NextHandshakeInv == HandshakeInv /\ [HandshakeNext]_allVars => HandshakeInv'
<1> SUFFICES ASSUME HandshakeInv, [HandshakeNext]_allVars PROVE HandshakeInv'
    OBVIOUS
<1>1. CASE HandshakeNext
    BY <1>1, GetPrekeyListInv, SenderInv, StartReceiveInv, FinishReceiveInv,
       ExportInv, CrashInv, TickInv DEF HandshakeNext
<1>2. CASE UNCHANGED allVars
    BY <1>2 DEF allVars, vars, store, handshake, environment, HandshakeInv,
       HandshakeTypeOK, TypeOK, CacheNeverLate, StoreSound, BackupSound,
       BackedListOK, LastList, PublishedOK, HeldOK, PacketsOK, CallOK, KeptNow,
       KeptAfterCrash, OpenedOK, OpenedKeyNeverListed, Listed, BackedListed
<1> QED BY <1>1, <1>2

\* The inductive invariant holds throughout.
LEMMA SpecHandshakeInv == HandshakeSpec => []HandshakeInv
<1> QED BY InitHandshakeInv, NextHandshakeInv, PTL DEF HandshakeSpec

-----------------------------------------------------------------------------
(***************************************************************************)
(* The theorems                                                            *)
(***************************************************************************)

\* The store, the lists, the packets and the backup have their types through
\* every crash and every opened conversation.
THEOREM HandshakeTypeCorrect == HandshakeSpec => []HandshakeTypeOK
<1>1. HandshakeInv => HandshakeTypeOK
    BY DEF HandshakeInv
<1> QED BY <1>1, SpecHandshakeInv, PTL

\* Whoever uses the list that was published last is served, however old the list
\* is: rotate() only throws a key away when it makes the next list.
THEOREM PublishedListIsServed == HandshakeSpec => []PublishedListServed
<1>1. HandshakeInv => PublishedListServed
    BY DEF HandshakeInv, PublishedOK, ServedBy, PublishedListServed, Served,
       Listed, Deprecated
<1> QED BY <1>1, SpecHandshakeInv, PTL

\* A packet made from a list that is in a backup is served for at least
\* deprecated_prekey_expiration_time after the list was made, through crashes.
THEOREM FreshPacketIsServed == HandshakeSpec => []FreshPacketServed
<1>1. HandshakeInv => FreshPacketServed
  <2> SUFFICES ASSUME HandshakeInv, NEW s \in Senders, packet[s].backed = "yes",
                      clock <= packet[s].made + deprecated_prekey_expiration_time
               PROVE  Served(packet[s].prekey)
      BY DEF FreshPacketServed
  <2>1. packet[s] # NoPacket
      BY DEF NoPacket
  <2>2. Promised(clock, packet[s].made, packet[s].prekey,
                 prekeys_storage, deprecated_prekeys_storage)
      BY <2>1 DEF HandshakeInv, PacketsOK
  <2> QED BY <2>2 DEF Promised, Served, Listed, Deprecated
<1> QED BY <1>1, SpecHandshakeInv, PTL

\* The private half of a prekey that left the list is gone from the store with the
\* first list made later than deprecated_prekey_expiration_time after that, unless a
\* crash loses that list; and from the first backup with such a list on it is gone
\* from the store and from the backup, so that no crash brings it back.
THEOREM ReplayWindowCloses == HandshakeSpec => []GoneAfterWindow
<1>1. HandshakeInv => GoneAfterWindow
  <2> SUFFICES ASSUME HandshakeInv, NEW key
               PROVE  /\ published.backed # "lost" /\ LeftLongBefore(key, MadeAt(published))
                            => key \notin Deprecated
                      /\ LeftLongBefore(key, backed_list)
                            => key \notin Deprecated \union BackedDeprecated
      BY DEF GoneAfterWindow
  <2>1. \A e \in delisted : e[2] \in Nat
      BY DEF HandshakeInv, HandshakeTypeOK, TypeOK
  <2>2. /\ backed_list \in Nat /\ LastList \in Nat /\ backed_list <= LastList
        /\ published.backed # "lost" => LastList = MadeAt(published)
      BY DEF HandshakeInv, HandshakeTypeOK, StoreSound, Sound, StoreTypeOK, BackedListOK, LastList
  <2>3. ASSUME key \in Deprecated
        PROVE  \E e \in delisted : /\ e[1] = key
                                   /\ LastList <= e[2] + deprecated_prekey_expiration_time
      BY <2>3 DEF Deprecated, HandshakeInv, StoreSound, Sound, Leaving
  <2>4. ASSUME key \in BackedDeprecated
        PROVE  \E e \in delisted : /\ e[1] = key
                                   /\ backed_list <= e[2] + deprecated_prekey_expiration_time
      BY <2>4 DEF BackedDeprecated, HandshakeInv, BackupSound, Sound, Leaving
  <2> QED BY <2>1, <2>2, <2>3, <2>4, PrekeyAssumption DEF LeftLongBefore
<1> QED BY <1>1, SpecHandshakeInv, PTL

\* The prekey of a conversation that was opened stays out of the store's list, of
\* the backup's list and of the published list for ever, although the clock may
\* move on between the halves of the call and a crash may follow at any time.
THEOREM OpenedKeyStaysOut == HandshakeSpec => []OpenedKeyNeverListed
<1>1. HandshakeInv => OpenedKeyNeverListed
    BY DEF HandshakeInv, OpenedOK
<1> QED BY <1>1, SpecHandshakeInv, PTL

\* Together: once a backup holds a list made later than
\* deprecated_prekey_expiration_time after the prekey of an opened conversation last
\* left the list, the packet can never be opened again.
THEOREM OpenedPacketExpires ==
    HandshakeSpec =>
        [](\A s \in Senders :
              opened[s] > 0 /\ LeftLongBefore(packet[s].prekey, backed_list)
                  => ~Served(packet[s].prekey))
<1> DEFINE P == \A s \in Senders :
                   opened[s] > 0 /\ LeftLongBefore(packet[s].prekey, backed_list)
                       => ~Served(packet[s].prekey)
<1>1. HandshakeInv /\ GoneAfterWindow => P
  <2> SUFFICES ASSUME HandshakeInv, GoneAfterWindow, NEW s \in Senders, opened[s] > 0,
                      LeftLongBefore(packet[s].prekey, backed_list)
               PROVE  ~Served(packet[s].prekey)
      OBVIOUS
  <2>1. packet[s].prekey \notin Listed
      BY DEF HandshakeInv, OpenedOK, OpenedKeyNeverListed
  <2>2. packet[s].prekey \in {e[1] : e \in delisted} => packet[s].prekey \notin Deprecated
      BY DEF GoneAfterWindow
  <2>3. packet[s].prekey \in Deprecated => packet[s].prekey \in {e[1] : e \in delisted}
      BY DEF Deprecated, HandshakeInv, StoreSound, Sound, Leaving
  <2> QED BY <2>1, <2>2, <2>3 DEF Served
<1> HIDE DEF P
<1>2. HandshakeSpec => []P
    BY <1>1, SpecHandshakeInv, ReplayWindowCloses, PTL
<1> QED BY <1>2 DEF P
=============================================================================
