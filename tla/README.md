# TLA+ specifications of molch

molch implements the axolotl (double) ratchet with encrypted headers. It is a
single threaded C++ library behind a C API. Its hard behaviours are not threads
but what happens *between* calls: packets that arrive in any order or not at
all, calls that fail half way, processes that end and start again from an
encrypted backup, keys that expire on a clock the library does not control, and
stores that fill up. These modules model that logic, check it with TLC on small
instances, and prove most of what is checked with TLAPS for every value of the
constants.

Only molch's own code is modelled (`src/lib`, `src/bindings/lua`). Nearly all of
the lines in the repository are vendored (protobuf, outcome, gsl) or
generated, and no part of the models.

## The system

| Component (`lib/`) | State | Operations | Correct when |
|---|---|---|---|
| Prekey store (`prekey-store`) | published prekeys, deprecated prekeys, two cached oldest dates | create, getPrekey, rotate, list, export/import | expired keys go, late messages find theirs, a used key is not published again |
| Skipped key store (`header-and-message-keystore`) | a vector sorted by expiration date | add key, add store, remove, clear, remove outdated and trim | sorted, bounded, drops only the oldest |
| Keys (`key`, `key-derivation`, `diffie-hellman`) | none | derive, Diffie Hellman, triple Diffie Hellman | both roles derive the same keys |
| Ratchet (`ratchet`) | root, chain and header keys, purported ones, message numbers, flags, skipped and staged keys | create, getSendData, setHeaderDecryptability, receive, setLastMessageAuthenticity, export/import | see Conversation |
| Conversation (`conversation`, `packet`, `header`) | a ratchet and an id | createSend/createReceiveConversation, send, receive, export/import | every packet decrypts once, used keys are erased, a bad packet does no harm |
| User and conversation stores | vectors of users and conversations | add, find, remove, list, export/import | an id names one conversation |
| API (`molch`) | global user store, global backup key | create/destroy user, start/end conversation, encrypt, decrypt, export/import, prekey list, backup key | a crash loses nothing the application has saved |
| Prekey lists (`molch`) | the list last returned; the lists that senders hold | create, verify, use | whoever uses a list that was published is served, for as long as promised, and nobody for ever |
| Master keys (`master-keys`, `molch`) | page protection of each user's private keys and of the backup key | create, import, sign, export, unlock, lock | readable exactly while they are used, gone with their user |
| Lua binding (`bindings/lua`) | a mirror of the users and conversations, tables that share backups | every call of the API | the mirror is that of the library, backups stay intact |
| Spiced random, buffers, protobuf glue, errors, Java binding | – | – | not modelled, see below |

A call of the API finds a user and a conversation in the stores and hands the
message to `Conversation`, which drives its `Ratchet` and, for the first packet,
takes a key from the user's `PrekeyStore`. The ratchet keeps the keys of messages
it has skipped in one `HeaderAndMessageKeyStore` and stages those of a packet that
is being tried in another. Most calls end by exporting the state, encrypted with
the global backup key.

## The modules

| Module | Models | Used by |
|---|---|---|
| `PrekeyStore` | the prekey store as a state machine | runs `prekey_store*`, `Handshake` |
| `HeaderAndMessageKeyStore` | the store's operations as operators on sequences | `SkippedKeys`, `Ratchet` |
| `SkippedKeys` | the staging area and the skipped keys of one ratchet | run `skipped_keys` |
| `Keys` | the key algebra | `Ratchet` |
| `Ratchet` | the ratchet's operations as operators on its state | `Conversation` |
| `Conversation` | two ratchets, their conversations and the network | runs `conversation*` |
| `FairConversation` | the same under a network that keeps delivering | run `conversation_live` |
| `SecureChannel` | what a conversation promises: at most once, only what was sent | refined by `Conversation` |
| `Handshake` | `PrekeyStore` composed with prekey lists, senders, prekey packets, backups and crashes | `MCHandshake` |
| `MCHandshake` | `Handshake` with interchangeable senders | run `handshake` |
| `Molch` | the API, its stores and backups, crashes and restarts | runs `molch*` |
| `DurableLibrary` | what the API promises with its backups: a library that never crashes | refined by `Molch` |
| `MasterKeys` | the memory of private keys and its unlockers, in every call | run `master_keys` |
| `LuaBinding` | the mirror that the Lua binding keeps | runs `lua_binding*` |
| `KeyStoreProofs` | lemmas about `HeaderAndMessageKeyStore` | `SkippedKeysProofs`, `RatchetProofs` |
| `RatchetProofs` | lemmas about `Keys` and `Ratchet` | `ConversationProofs` |
| `SkippedKeysProofs`, `ConversationProofs`, `MolchProofs`, `MasterKeysProofs`, `LuaBindingProofs` | theorems about the module they are named after | |
| `HandshakeProofs` | theorems about `PrekeyStore` and `Handshake` | |

Names are those of the source. Every variable of a module is a member of the
class it models unless its declaration says history (it records what happened,
for a property) or it belongs to the environment (clock, network, disk of the
application).

**PrekeyStore.** One action per call; `rotate` is the whole function with its
four steps. The deprecated keys are a set, because nothing depends on their
order. Key pairs are named by slot and draw. `deprecate` reproduces that the
caches are computed after the old key's date was changed and before its
replacement exists. `Spec` has a clock that only passes; `SpecAnyClock` can also
set it back, since `now()` is `time(nullptr)`.

**HeaderAndMessageKeyStore, SkippedKeys.** The vector operations with their short
paths, `std::upper_bound` and `std::merge` by what they return, and the scan that
assumes sortedness. Keys carry dates only.

**Keys.** A key is the sequence of Diffie Hellman results that went into it plus
an index, so keys are equal exactly when both sides did the same computation
(hashes are taken to be free of collisions). `NoKey` and `ZeroKey` are told
apart: an empty key that is written to a backup comes back as zeroes that are not
flagged as empty, and the code asks sometimes `.empty` and sometimes `isNone()`.

**Ratchet.** Every operation returns the state it leaves behind, also on its error
paths, where keys may be staged and flags set. Message numbers count modulo
`message_numbers`, 2^32 in the code.

**Conversation.** Each API call is one step. A packet that was sent can be
delivered at any later time, any number of times, intact or with a damaged header
or body; never delivering it is its loss. A restart is export followed by import,
at any time. `forgotten` records keys that were dropped for room or age, so that
the properties can say that nothing else is lost.

**FairConversation.** Adds the ghost variable `deliverable`, the packets that each
party could decrypt if they arrived now, and fairness of their delivery.

**Handshake.** `rotate`, `getPrekey` and the rest are the actions of `PrekeyStore`.
`start_receive_conversation` is two steps, because `createReceiveConversation` and
`create_prekey_list` each read the clock. A damaged packet fails after its prekey
was taken. A crash can come between any two steps, in the middle of a call too,
and goes back to the latest backup; the histories `delisted`, `backed_list` and
`opened` record what happened and do not go back with it. The `backed` field of lists
and packets is history too: `molch_get_prekey_list` returns no backup, and a crash
before the next one loses the prekeys it has published, and brings back those that it
has thrown away. `backed_list` is when the last list was made that is in a backup.

**MasterKeys.** A call of the API is the sequence of its steps that allocate, unlock,
use, lock or hand over key memory, with the scopes of the C++ code. The loops of
`UserStore::exportProtobuf` and `UserStore::import` are single steps that put the steps
of their next round in front of what is left of the call; the users come in any order. A
failure unwinds the scopes that are open, destructor by destructor, and frees what
the call has not handed over to the user store.

**LuaBinding.** The library is reduced to its users and their conversations. Which
tables of the mirror are the application's backup table is the set `aliases`;
`recursively_delete_table` empties it through any of them.

**Molch.** The application is part of the model: it asks for a backup whenever a
call offers one, saves it, and after a crash imports the full backup, then the
later conversation backups, then exports. Ratchets are reduced to a version
number, prekey stores to a change counter. The properties hold for such an
application; one that imports an old backup of a live conversation takes its
ratchet back, and the library does not notice. Towards `DurableLibrary`, the state
of a process that is starting is what the backups on the disk will give
(`Restored`).

## What the runs check

| Run | Bounds | Shows |
|---|---|---|
| `prekey_store` | 2 slots, lifetimes 3 and 1, times 1..9, 2 draws per slot | `TypeOK`, `CacheNeverLate`, `HandedOutNeverListed`, `LateMessageFindsPrekey`, `RotateLeavesNoExpiredKey` |
| `prekey_store_clock_set_back` | smaller, the clock may go back | **violated**: `RotateLeavesNoExpiredKey` |
| `skipped_keys` | stores of 3 keys, 5 keys ever staged, lifetime 1 and age 2, clock 0 to 4 in both directions | `StoresSorted`, `StoresBounded`, `CommitKeepsNewest` |
| `conversation` | 4 and 3 packets, 2 may be skipped, stores of 6 | all safety properties of `Conversation` and the refinement of `SecureChannel` |
| `conversation_limits` | 6 and 1 packets, 1 may be skipped, stores of 2, message numbers modulo 4, time 0..2 | `MissingPacketsDecryptable`, `InOrderDecryptable`, `UsedKeysErased` and the refinement of `SecureChannel` when keys are evicted and expire and numbers wrap |
| `conversation_live` | 3 and 3 packets | `EverythingArrives` |
| `handshake` | 2 prekeys, 2 senders, lifetimes 2, 1 and 3 (prekey, deprecated, list), times 1..5, 2 draws per slot, 2 conversations per packet | `PublishedListServed`, `FreshPacketServed`, `GoneAfterWindow`, `OpenedKeyNeverListed` |
| `master_keys` | memory for 4 users | `NoFault`, `LockedBetweenCalls`, `NoKeysWithoutUser` |
| `molch` | 2 users, 2 conversations of 2 messages, 4 backup keys | `KeyWhileUsers`, `OneOwner`, `CrashLosesNothing`, `NoStateEncryptsTwice`, `ImplementsDurableLibrary` |
| `molch_no_backup_key` | 1 user, 1 conversation | **violated**: `NoBackupKeyIsAnError` |
| `lua_binding` | 2 users, 2 conversations | `MirrorComplete`, `ExportedBackupIntact` |
| `lua_binding_stale_users` | the same | **violated**: `NoUsersThatDontExist` |

Why the bounds are enough. Two slots are the least for which the cache of the last
`deprecate` differs from the one of the first; the times cover two full lifetimes.
With four packets one way and three the other every party goes through at least
two chains, with skipped messages in the old and the new one, in all orders, and
one packet can be too far ahead. The ratio of the two limits, 1 to 2 or more, is
that of the code (500 and 1000; `RatchetAssumption`), so that the staging area
never overflows. In `conversation_limits` three keys are skipped with room for
two, and time passes the expiry of a key. Four backup keys let the process crash,
import, crash again while importing, and go on. Six packets with numbers modulo 4
are a chain with packets on both sides of the wrap; keys are evicted in shorter
chains too, where `MissingPacketsDecryptable` makes no exception for the wrap. In `handshake` a prekey
expires, its deprecated copy expires, and the list that named it is still valid;
two senders can name the same prekey, and each packet can be opened twice. Four
memories are two users and an import of two more while they live.

Deadlock is checked in every run. No state is a deadlock, because a rejected
packet, a restart, a crash or another call is always possible.

**Fairness.** The library has no scheduler: its steps are calls, made when a packet
arrives. `FairSpec` assumes of the network that it delivers, sooner or later and
intact, some missing packet that its receiver can decrypt, if from some time on
there always is one (weak fairness of `Delivered`, one per party). Nothing is
assumed about which of them, about packets that the receiver would reject, and
about what the parties send. So a packet that no order of deliveries makes
decryptable refutes `EverythingArrives`. Whenever `deliverable` is not empty, one of
the actions of `Conversation` makes a `Delivered` step, so the assumption is about
steps that can be taken.

## Findings

- `rotate()` after the clock was set back: the expiration dates are pulled back,
  the cached oldest dates are not. They then lie above the real dates and later
  rotations keep expired keys (`prekey-store.cpp:279`).
- `export_all` ends the process when there is no backup key: the unlocker is
  constructed before the check that would return an error (`molch.cpp:147`).
- `molch.import` of the Lua binding never removes "users that don't exist anymore":
  `(not user_id == "attributes")` is false for every user (`molch.lua:405`).

Behaviour that the properties state as exceptions: a `molch_create_user` that
fails has already replaced the backup key and does not return the new one
(`forgotten_keys`); `molch_get_prekey_list` and a failed
`molch_start_receive_conversation` change prekeys without offering a backup
(`unsaved`, and `backed` in `Handshake`).

Observations on the way, not properties:

- A prekey list is valid for three months (`molch.cpp:116`), its prekeys for one
  month and one hour (`prekey-store.cpp:31`). A sender with a list that still
  verifies is refused if the user has made newer lists in the meantime;
  `FreshPacketServed` is what is guaranteed.
- `deprecated_prekey_expiration_time` bounds how long a repeated prekey packet is
  opened again as a new conversation only together with the next
  `create_prekey_list`: without one the private prekey is kept. And it is gone for good
  only with the next backup: `molch_get_prekey_list` throws it away without one, and a
  crash then brings it back, to be used until the next list (`GoneAfterWindow` states
  this exception).
- `molch_conversation_import` answers `NOT_FOUND` for a conversation that is not in
  the store any more (`molch.cpp:1126`); `molch.h:290`, "overwrites the current one
  if it exists", can be read as promising more.
- When a chain uses up the message numbers, packets that were skipped across the
  wrap are lost, and if the chain ends with exactly `message_numbers` packets those
  still missing from it, since `PN` is 0 and their keys are never staged. Nothing
  else goes wrong.
- `MasterKeys::Unlocker` does not count. `start_receive_conversation` is right because
  it does not use the private identity key after `create_prekey_list`; the order
  matters (`NoFault`).
- In the Lua binding `conversation:destroy` always raises an error after the library
  has ended the conversation (`molch.lua:649` calls `copy` with a dot), and a backup
  that was passed to `molch.import` is emptied by the next import or `user:destroy`.

## What is proved

A theorem holds for every value of the constants that satisfies the assumptions
beside their declarations: any number of slots, senders, packets, users,
conversations and draws, any lifetimes and capacities, any width of the message
numbers. The assumptions are types, and six facts of the code: a deprecated prekey
does not live longer than a published one and both live for some time
(`PrekeyAssumption`), a store has room for at least one key (`KeyStoreAssumption`),
and for twice the keys that may be skipped at once (`RatchetAssumption`; 500 and
1000), a skipped key is not outdated as soon as it is made (`NewKeysAssumption`; it
expires after a month and is removed after another), a conversation begins with
a message (`MolchAssumption`), and the allocator never gives a user the memory of the
backup key, which is not freed (`MasterKeysAssumption`).

| Module | Theorem | Statement |
|---|---|---|
| `HandshakeProofs` | `TypeCorrect` | `SpecAnyClock => []TypeOK` |
| | `CacheCorrect` | `Spec => []CacheNeverLate` |
| | `LateMessageServed` | `Spec => []LateMessageFindsPrekey` |
| | `RotateKeepsPromise` | `Spec => []RotateLeavesNoExpiredKey` |
| | `UsedKeysStayOut` | `SpecAnyClock => []HandedOutNeverListed` |
| | `HandshakeTypeCorrect` | `HandshakeSpec => []HandshakeTypeOK` |
| | `PublishedListIsServed` | `HandshakeSpec => []PublishedListServed` |
| | `FreshPacketIsServed` | `HandshakeSpec => []FreshPacketServed` |
| | `ReplayWindowCloses` | `HandshakeSpec => []GoneAfterWindow` |
| | `OpenedKeyStaysOut` | `HandshakeSpec => []OpenedKeyNeverListed` |
| | `OpenedPacketExpires` | `HandshakeSpec => [](an opened packet is not served once its prekey left the list long before backed_list)` |
| `SkippedKeysProofs` | `SkippedTypeCorrect` | `Spec => []TypeOK` |
| | `StoresStaySorted` | `Spec => []StoresSorted` |
| | `StoresStayBounded` | `Spec => []StoresBounded` |
| | `CommitKeepsTheNewest` | `Spec => CommitKeepsNewest` |
| `ConversationProofs` | `ConversationTypeCorrect` | `Spec => []TypeOK` |
| | `RatchetsStayReady` | `Spec => []ReadyForNextPacket` |
| | `UsedKeysAreErased` | `Spec => []UsedKeysErased` |
| | `MessageKeysAreFresh` | `Spec => []MessageKeysFresh` |
| | `BackupsAreAlwaysPossible` | `Spec => []AlwaysExportable` |
| | `MessagesHaveAgreedKeys` | `Spec => []NextMessageHasAgreedKeys` |
| | `RejectedPacketsAreHarmless` | `Spec => RejectedPacketHarmless` |
| | `ConversationIsSecureChannel` | `Spec => ImplementsSecureChannel` |
| | `RatchetsStayInStep` | `Spec => [](SafeInv /\ SyncInv)` |
| | `LockStepHolds` | `Spec => []LockStep` |
| | `InOrderIsDecryptable` | `Spec => []InOrderDecryptable` |
| | `MissingKeysAreKept` | `Spec => [](SafeInv /\ SyncInv /\ KeepInv)` |
| | `MissingPacketsAreDecryptable` | `Spec => []MissingPacketsDecryptable` |
| `MolchProofs` | `MolchTypeCorrect` | `Spec => []TypeOK` |
| | `BackupKeyWhileUsers` | `Spec => []KeyWhileUsers` |
| | `ConversationHasOneOwner` | `Spec => []OneOwner` |
| | `NothingLostInACrash` | `Spec => []CrashLosesNothing` |
| | `EncryptsOnce` | `Spec => NoStateEncryptsTwice` |
| | `BackupsAreDurable` | `Spec => ImplementsDurableLibrary` |
| `MasterKeysProofs` | `CallsRunToTheEnd` | `Spec => []CallInv` |
| | `NoCallFaults` | `Spec => []NoFault` |
| | `KeysLockedBetweenCalls` | `Spec => []LockedBetweenCalls` |
| | `NoKeysAreLeftBehind` | `Spec => []NoKeysWithoutUser` |
| `LuaBindingProofs` | `MirrorIsComplete` | `Spec => []MirrorComplete` |
| | `ExportedBackupStaysIntact` | `Spec => ExportedBackupIntact` |

**Prekey store.** The inductive invariant is `IInv`. `CacheNeverLate` alone is not
inductive: the branches of `rotate` for a clock that was set back change dates and
not caches. `NotTooFar` says that no date, cached or real, lies further ahead than
a key made now would get, so that on a clock that only passes these branches are
not taken (`NothingPulledBack`). `KeptLongEnough` says that a delisted key either
has a deprecated copy with a late enough date or has been gone for long enough. The
lemma `Deprecate` shows that a cache computed before the replacement key exists
is still a lower bound. What `rotate` leaves is the record `rotated` in any state, so
`RotateLeavesNoExpiredKey` is about every call that could be made, those that the
caches let return early included (`RotatedOnTime`). `UsedKeysStayOut` needs another invariant,
`ListedIsLatest`: a slot lists the newest key drawn for it, and only older ones
were handed out.

**Handshake.** A crash replaces the store by the backup, so an invariant of the
store is not inductive unless it holds of the backup too, measured with the clock
of today. `Sound` is that invariant, an operator on a store; `HandshakeInv` has it
twice (`StoreSound`, `BackupSound`). `Promised` says of a key of a list how it is kept:
listed, or deprecated with a date that is late enough. Lists and packets that are
in no backup are promised by the store alone, the others by both. `CallOK` carries
what the first half of `start_receive_conversation` leaves to the second, and time
may pass between the two. How long a deprecated copy stays is `Leaving`: each is there
because of a time at which its key left the list, and the last list was not made later
than deprecated_prekey_expiration_time after that. `Sound` has it for the store with the
list made last and for the backup with `backed_list`, so a crash, which swaps the store
for the backup, keeps it with the older of the two lists (`LastList`). `OpenedOK` says
that the prekey of an opened packet was drawn before and is in no list, of the store or
of the backup: what a rotation lists anew is drawn then (`OpenedUnlisted`), and what a
crash lists anew comes from the backup.

**Skipped keys.** `SkippedInv` adds to sortedness and capacity that no key is twice in
a store or in both: what a commit drops and what it keeps can then be told apart
by their keys. The work is in `KeyStoreProofs`: `upper_bound` and `merge` are given by
counting, and that the merged vector is sorted and is exactly the union of both
vectors is shown by the places that the keys of each get (a pigeonhole argument
with the cardinalities of the library). The scan from the front that removes
outdated keys removes all of them because the vector is sorted.

**Conversation.** `SafeInv` concerns each party by itself. The central notion is that
of a message key that a chain has *passed* (it belongs to an earlier chain, or to
an earlier place in this one): a chain only derives keys that it has not passed.
What was received is passed and not among the skipped keys; what was sent is
passed by the sending chain. The chains of the two directions never meet since
their transcripts have lengths of different parity (`LEMMA Parity`). A rejected
packet leaves a purported chain key behind, which is not older than the receiving
chain, so that it derives no used key either. `RatchetProofs` has one lemma for each
way out of `receive` (skipped key, current chain, new chain, failure). It is about
`addAll`, which is the loop of `stagePurported...` as a function on the natural numbers.

`SyncInv` relates the two parties. Either both have the same root key and one of
them is to start the next chain (`Synced`), or one is exactly one Diffie Hellman
ahead (`Ahead`). Header keys are named after the length of the transcript they
come from, so they are aligned with the chains (`HeadersAligned`), and the numbers
are the places in the chains modulo `message_numbers` (`Numbered`). `OnChain` says
where in its sender's history a packet is. The transcripts agree because a Diffie
Hellman result does not depend on which side computes it
(`AgreementIsSymmetric`). A prekey packet is in step with the ratchet that its
receiver would create from it, so that the invariant survives the start of a
conversation from any of the first packets. `InOrderIsDecryptable` then follows by
walking through `receive` with the packet.

`KeepInv` follows the packets that are on their way, in any order. That such a packet
can be decrypted is not inductive: it says nothing of the keys that will be staged
when a later packet moves the chain past it. `Receives` says that they were staged:
the key of each missing packet that the receiving chain has passed is in the store
(`KeptFrom`), where a packet is missing if it was sent, not received, not forgotten
and its chain has not used up the message numbers. When a packet of the same chain arrives, all the
places before its own are staged. When a packet of a new chain arrives, the number
that it announces bounds what is staged from the old one; `Announced` says that it
exceeds the numbers of all packets of that chain, unless the chain wrapped. A commit
removes keys from a full store or outdated keys, and those are `forgotten`, which
needs that a new key is not outdated itself (`NewKeysAssumption`). `OnOneChain` and
`MovedBy` tie the packets to the chain: packets as far along as it are on it, and it
does not move without a packet. `MissingPacketsAreDecryptable` is then by three cases:
a packet that the chain has passed has its key in the store, one on the same chain
is reached by deriving, and one further along is on the chain that the sender has
just started (`FurtherAlong`).

The refinement of `SecureChannel` needs of this only that a packet that was received
is not opened again, which is `SafeInv`.

**API.** A crash makes of the state what the disk gives, so `MolchInv` states of the
disk what it states of the library (`Orderly`), and `KeysAccounted` that each backup
is encrypted with a key that was returned or is in `forgotten_keys`. `Current` is
what the library has or, while it is starting, will have. `EncryptedBefore` says that
every version that was used is below the current one. The refinement of
`DurableLibrary` is by cases: each call either leaves `Current` alone or is a step of
the durable library.

**Master keys.** None of the three properties is inductive: whether a use is allowed
depends on the steps before it, and what is open at the end of a call on those that
are left. The invariant `CallInv` therefore looks ahead. `Does` says what a step needs
and where it leads, `Runs` that a sequence of steps leads from one state to another with
each step finding what it needs, and `CallInv` that what is left of the call runs to a
state in which everything is locked and belongs to a user (`Idle`). A step takes the
first link off such a chain (`RunsHead`), and a round of a loop replaces one link by
several (`ExportRound`, `ImportRound`). That a call starts with such a chain is put
together from what is known of the functions it calls (`RunsConcat`, `ScopeRuns` and so
on, to `CallsEnd`), the way the code is; a loop over the users is one link, so no
induction over them is needed. A step that can fail also needs that the state is
`Recoverable`: nothing in scope was freed, and whatever is open has an Unlocker in
scope. Then unwinding all scopes locks everything (`UnwindRuns`). It does not hold between
the allocation of the backup key, which `sodium_malloc` returns open, and its Unlocker,
where nothing can fail. `CallInv` quantifies over all states and runs, so TLC cannot
evaluate it; the run checks the three properties that follow from it.

**Lua binding.** `LuaInv` adds to `MirrorComplete` that the tables of different
users are disjoint: `user:destroy` empties the tables of one user, including
conversations that the library has ended already.

What stays with TLC:

- `EverythingArrives`, which is liveness under fairness: the prover handles neither
  fairness nor `ENABLED`.
- The three properties that are violated.

## Not modelled

- Cryptography, byte layout, padding, protobuf encoding and input length checks:
  they are data, and the properties do not tell them apart. Padding is a function
  of the length alone that the unit tests cover.
- Signatures on prekey lists: a list that does not verify is refused before
  anything changes.
- Several live conversations between the same two parties at the level of ratchets:
  they share no state but the prekey store, which `Handshake` has.
- Spiced random numbers (a computation on random bytes), buffers, the arena
  allocator, error texts, printing.
- Memory that runs out within a call after the stores were changed. `molch_create_user`
  that fails to make its list or its backup (`molch.cpp:235`) leaves a user whose id,
  list and key the caller never learns; a call that fails in its export has moved on
  without a backup. `createUserFails` is the failure before the user exists.
- The Java binding, which keeps no state, and the Lua scenario runner.

## Plan

1. Done: prekey store with proofs, skipped keys, ratchet, conversation, secure
   channel, API with backups.
2. Done: start of conversations composed with the prekey store, master keys,
   liveness, both refinements, wrap of message numbers, the Lua binding.
3. Done: the proofs above, of every safety property that a passing run checks.
4. Open: spiced random numbers and the Java binding are not modelled; liveness is only
   model-checked.
