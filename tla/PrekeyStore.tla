---------------------------- MODULE PrekeyStore ----------------------------
(***************************************************************************)
(* The prekey store of one user (lib/prekey-store.cpp): the prekeys that   *)
(* are published in the user's prekey list, the deprecated ones kept for   *)
(* prekey messages that are still on their way, and the two cached         *)
(* "oldest" expiration dates that decide whether rotate() has work to do.  *)
(*                                                                         *)
(* A key pair is drawn at random; the model names it by the slot it was    *)
(* generated for and the number of the draw, so that every draw is fresh.  *)
(* deprecated_prekeys_storage is a vector in the code, but nothing it is   *)
(* used for (find by public key, minimum, erase of the expired) depends on *)
(* its order, so it is a set here.                                         *)
(***************************************************************************)
EXTENDS Integers, FiniteSets, FiniteSetsExt

CONSTANTS
    PREKEY_AMOUNT,                      \* number of published prekeys
    prekey_expiration_time,             \* lifetime of a published prekey
    deprecated_prekey_expiration_time,  \* lifetime of a deprecated prekey
    StartTime,                          \* the clock when the store is created
    MaxTime,                            \* bound: largest value of the clock
    MaxGeneration                       \* bound: key pairs drawn per slot

ASSUME PrekeyAssumption ==
    /\ PREKEY_AMOUNT \in Nat \ {0}
    /\ deprecated_prekey_expiration_time \in Nat \ {0}
    /\ prekey_expiration_time \in Nat
    /\ deprecated_prekey_expiration_time <= prekey_expiration_time
    /\ StartTime \in Nat \ {0}
    /\ MaxTime \in Nat
    /\ MaxGeneration \in Nat

VARIABLES
    prekeys_storage,                    \* slot -> published prekey
    deprecated_prekeys_storage,         \* set of deprecated prekeys
    oldest_expiration_date,             \* cached minimum of the published
    oldest_deprecated_expiration_date,  \* cached minimum of the deprecated
    clock,                              \* what now() returns
    generation,                         \* history: draws made for each slot
    handed_out,                         \* history: keys getPrekey returned
    delisted                            \* history: <<key, when it left the list>>

store == <<prekeys_storage, deprecated_prekeys_storage,
           oldest_expiration_date, oldest_deprecated_expiration_date>>
vars == <<store, clock, generation, handed_out, delisted>>

Slots == 1..PREKEY_AMOUNT
PublicKey == Slots \X Nat
Prekey == [public_key : PublicKey, expiration_date : Nat]

\* The variables have their types.
TypeOK ==
    /\ prekeys_storage \in [Slots -> Prekey]
    /\ deprecated_prekeys_storage \in SUBSET Prekey
    /\ oldest_expiration_date \in Nat
    /\ oldest_deprecated_expiration_date \in Nat
    /\ clock \in Nat \ {0}
    /\ generation \in [Slots -> Nat]
    /\ handed_out \in SUBSET PublicKey
    /\ delisted \in SUBSET (PublicKey \X Nat)

Listed == {prekeys_storage[i].public_key : i \in Slots}
Deprecated == {d.public_key : d \in deprecated_prekeys_storage}

-----------------------------------------------------------------------------

\* Prekey::generate for slot i: a fresh key pair that lives for a month
generate(i, draw) ==
    [public_key |-> <<i, draw>>,
     expiration_date |-> clock + prekey_expiration_time]

ExpirationDates(keys) == {k.expiration_date : k \in keys}

\* Mutant: the comparison of two expiration dates the wrong way round
updateExpirationDate_swapped(prekeys) ==
    Max(ExpirationDates({prekeys[i] : i \in Slots}))

\* PrekeyStore::updateExpirationDate: std::min_element over the array
updateExpirationDate(prekeys) ==
    Min(ExpirationDates({prekeys[i] : i \in Slots}))

\* Mutant: the date of an empty store is the end of time, as a negative number
updateDeprecatedExpirationDate_negative(deprecated) ==
    IF deprecated = {} THEN -1 ELSE Min(ExpirationDates(deprecated))

\* PrekeyStore::updateDeprecatedExpirationDate: 0 stands for "none"
updateDeprecatedExpirationDate(deprecated) ==
    IF deprecated = {} THEN 0 ELSE Min(ExpirationDates(deprecated))

\* The copy of a prekey that deprecate() puts in the deprecated store
deprecatedCopy(prekey) ==
    [prekey EXCEPT !.expiration_date = clock + deprecated_prekey_expiration_time]

\* Mutant: the slot keeps its key pair after deprecate()
regenerated_noNewKey(prekeys, S) ==
    [i \in Slots |-> IF i \in S THEN generate(i, generation[i]) ELSE prekeys[i]]

(***************************************************************************)
(* PrekeyStore::deprecate(index), called for each index of the set S in    *)
(* ascending order.  Both caches are computed inside the call, after the   *)
(* slot's expiration date was set to that of a deprecated key and BEFORE   *)
(* its new key is generated: the cache that remains is the one of the last *)
(* call, and counts the slot as it was before generate().                  *)
(***************************************************************************)
regenerated(prekeys, S) ==
    [i \in Slots |-> IF i \in S THEN generate(i, generation[i] + 1)
                                ELSE prekeys[i]]

deprecate(prekeys, deprecated, S) ==
    LET fresh == regenerated(prekeys, S)
        last == Max(S)
        moved == deprecated \union {deprecatedCopy(prekeys[i]) : i \in S}
    IN  [prekeys |-> fresh,
         deprecated |-> moved,
         oldest |-> updateExpirationDate(
                        [fresh EXCEPT ![last] = deprecatedCopy(prekeys[last])]),
         oldestDeprecated |-> updateDeprecatedExpirationDate(moved)]

\* What the history remembers of deprecate(): the draws, and the delisted keys
recordDeprecation(prekeys, S) ==
    /\ \A i \in S : generation[i] < MaxGeneration
    /\ generation' = [i \in Slots |-> IF i \in S THEN generation[i] + 1
                                                 ELSE generation[i]]
    /\ delisted' = delisted \union {<<prekeys[i].public_key, clock>> : i \in S}

-----------------------------------------------------------------------------

\* PrekeyStore::create and generateKeys
Init ==
    /\ clock = StartTime
    /\ generation = [i \in Slots |-> 0]
    /\ prekeys_storage = [i \in Slots |-> generate(i, 0)]
    /\ deprecated_prekeys_storage = {}
    /\ oldest_expiration_date = updateExpirationDate(prekeys_storage)
    /\ oldest_deprecated_expiration_date = 0
    /\ handed_out = {}
    /\ delisted = {}

\* PrekeyStore::getPrekey for a published prekey: it is deprecated at once
getPrekeyListed(i) ==
    LET after == deprecate(prekeys_storage, deprecated_prekeys_storage, {i})
    IN  /\ recordDeprecation(prekeys_storage, {i})
        /\ prekeys_storage' = after.prekeys
        /\ deprecated_prekeys_storage' = after.deprecated
        /\ oldest_expiration_date' = after.oldest
        /\ oldest_deprecated_expiration_date' = after.oldestDeprecated
        /\ handed_out' = handed_out \union {prekeys_storage[i].public_key}
        /\ UNCHANGED clock

\* PrekeyStore::getPrekey for a deprecated prekey: it is handed out again, and
\* nothing looks at its expiration date.  A key that is in neither store is
\* NOT_FOUND and changes nothing.
getPrekeyDeprecated(d) ==
    /\ d.public_key \notin Listed
    /\ handed_out' = handed_out \union {d.public_key}
    /\ UNCHANGED <<store, clock, generation, delisted>>

(***************************************************************************)
(* PrekeyStore::rotate.  The first two steps pull expiration dates that    *)
(* lie too far in the future (the clock was set back) to what a key made   *)
(* now would get; they leave both caches alone.                            *)
(***************************************************************************)
pulledBack(prekeys) ==
    IF clock + prekey_expiration_time < oldest_expiration_date
    THEN [i \in Slots |->
            [prekeys[i] EXCEPT !.expiration_date = clock + prekey_expiration_time]]
    ELSE prekeys

pulledBackDeprecated(deprecated) ==
    IF clock + deprecated_prekey_expiration_time
         < oldest_deprecated_expiration_date
    THEN {deprecatedCopy(d) : d \in deprecated}
    ELSE deprecated

\* Mutant: the loop stops one slot short
outdated_offByOne(prekeys) ==
    IF oldest_expiration_date < clock
    THEN {i \in 1..(PREKEY_AMOUNT - 1) : prekeys[i].expiration_date < clock}
    ELSE {}

\* The slots that the "at least one outdated prekey" loop deprecates
outdated(prekeys) ==
    IF oldest_expiration_date < clock
    THEN {i \in Slots : prekeys[i].expiration_date < clock}
    ELSE {}

deprecateOutdated(prekeys, deprecated) ==
    IF outdated(prekeys) = {}
    THEN [prekeys |-> prekeys,
          deprecated |-> deprecated,
          oldest |-> oldest_expiration_date,
          oldestDeprecated |-> oldest_deprecated_expiration_date]
    ELSE deprecate(prekeys, deprecated, outdated(prekeys))

\* Mutant: a key is thrown away in the second in which it expires
unexpired_tooEarly(deprecated) ==
    {d \in deprecated : d.expiration_date > clock}

\* What the loop at the end of rotate() leaves of the deprecated keys
unexpired(deprecated) == {d \in deprecated : d.expiration_date >= clock}

\* What rotate() makes of the store
rotated ==
    LET after == deprecateOutdated(
                    pulledBack(prekeys_storage),
                    pulledBackDeprecated(deprecated_prekeys_storage))
        kept == unexpired(after.deprecated)
        purge == after.oldestDeprecated < clock
    IN  [prekeys |-> after.prekeys,
         oldest |-> after.oldest,
         deprecated |-> IF purge THEN kept ELSE after.deprecated,
         oldestDeprecated |-> IF purge THEN updateDeprecatedExpirationDate(kept)
                                       ELSE after.oldestDeprecated]

rotate ==
    LET prekeys == pulledBack(prekeys_storage)
    IN  /\ recordDeprecation(prekeys, outdated(prekeys))
        /\ prekeys_storage' = rotated.prekeys
        /\ oldest_expiration_date' = rotated.oldest
        /\ deprecated_prekeys_storage' = rotated.deprecated
        /\ oldest_deprecated_expiration_date' = rotated.oldestDeprecated
        /\ UNCHANGED <<clock, handed_out>>

\* exportProtobuf, a restart, and PrekeyStore::import of that backup: the keys
\* come back as they were, the caches are computed anew.
exportAndImport ==
    /\ oldest_expiration_date' = updateExpirationDate(prekeys_storage)
    /\ oldest_deprecated_expiration_date' =
          updateDeprecatedExpirationDate(deprecated_prekeys_storage)
    /\ UNCHANGED <<prekeys_storage, deprecated_prekeys_storage,
                   clock, generation, handed_out, delisted>>

\* Time passes
tick ==
    /\ clock < MaxTime
    /\ clock' = clock + 1
    /\ UNCHANGED <<store, generation, handed_out, delisted>>

\* The system clock is set back: now() is time(nullptr), nothing makes it monotone
setBack(t) ==
    /\ t < clock
    /\ clock' = t
    /\ UNCHANGED <<store, generation, handed_out, delisted>>

Next ==
    \/ \E i \in Slots : getPrekeyListed(i)
    \/ \E d \in deprecated_prekeys_storage : getPrekeyDeprecated(d)
    \/ rotate
    \/ exportAndImport
    \/ tick

\* The store on a machine whose clock never goes back
Spec == Init /\ [][Next]_vars

NextAnyClock == Next \/ \E t \in 1..MaxTime : setBack(t)

\* The store on a machine whose clock may be set back
SpecAnyClock == Init /\ [][NextAnyClock]_vars

-----------------------------------------------------------------------------
(***************************************************************************)
(* Properties                                                              *)
(***************************************************************************)

\* Neither cache that gates rotate() ever lies above the expiration date of a key
\* it stands for: a stale cache would make rotate() skip keys that have expired
\* (the two "< current_time" tests).
CacheNeverLate ==
    /\ \A i \in Slots :
          oldest_expiration_date <= prekeys_storage[i].expiration_date
    /\ \A d \in deprecated_prekeys_storage :
          oldest_deprecated_expiration_date <= d.expiration_date

\* Whenever rotate() is called, it leaves no published and no deprecated key that
\* has expired, whether it changes the store or the cached dates tell it to leave
\* the keys alone: what prekey-store.hpp promises ("Automatically deprecate old
\* keys ... and THROW away deprecated ones that are too old").
RotateLeavesNoExpiredKey ==
    /\ \A i \in Slots : rotated.prekeys[i].expiration_date >= clock
    /\ \A d \in rotated.deprecated : d.expiration_date >= clock

\* A private prekey that was handed out for one conversation is never offered
\* in the prekey list again, through rotations, restarts and clock changes.
HandedOutNeverListed == handed_out \cap Listed = {}

\* A key that left the list at time t can still be fetched by a prekey message
\* that arrives no later than deprecated_prekey_expiration_time after t.
LateMessageFindsPrekey ==
    \A e \in delisted :
        clock <= e[2] + deprecated_prekey_expiration_time => e[1] \in Deprecated
=============================================================================
