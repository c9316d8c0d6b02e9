---------------------------- MODULE MolchProofs ----------------------------
(***************************************************************************)
(* Proofs about the library as a whole: backup keys, ownership of          *)
(* conversations, and what a crash may lose, for every number of users,    *)
(* conversations, messages and backup keys.                                *)
(***************************************************************************)
EXTENDS Molch, FiniteSetTheorems, TLAPS

-----------------------------------------------------------------------------
(***************************************************************************)
(* The inductive invariant                                                 *)
(***************************************************************************)

\* What a conversation store and a user store may hold
ConversationStore == UNION {[C -> 1..MaxVersion] : C \in SUBSET (1..MaxConversations)}
User == [prekeys : 0..MaxPrekeys, conversations : ConversationStore]
UserStore == UNION {[U -> User] : U \in SUBSET (1..MaxUsers)}

ConversationBackup == [key : 0..MaxKeys, version : 1..MaxVersion]
ConversationBackups ==
    UNION {[C -> ConversationBackup] : C \in SUBSET (1..MaxConversations)}

\* Types, in more detail than TypeOK, and of the backups and the history as well
StrongTypeOK ==
    /\ users \in UserStore
    /\ disk \in [full : [key : 0..MaxKeys, users : UserStore],
                 conversations : ConversationBackups]
    /\ archive \subseteq [id : 1..MaxConversations, key : 0..MaxKeys, version : 1..MaxVersion]
    /\ drawn \in [users : 0..MaxUsers, conversations : 0..MaxConversations,
                  keys : 0..MaxKeys]
    /\ phase \in {"starting", "importing", "running"}
    /\ unsaved \subseteq 1..MaxUsers
    /\ terminated \in BOOLEAN

\* In a user store every conversation has one user, and nothing has an id that was
\* not drawn yet
Orderly(store, count) ==
    /\ DOMAIN store \subseteq 1..count.users
    /\ \A u \in DOMAIN store :
          DOMAIN store[u].conversations \subseteq 1..count.conversations
    /\ \A u, v \in DOMAIN store :
          u # v => DOMAIN store[u].conversations \cap DOMAIN store[v].conversations = {}

\* Every key that was drawn was returned, or forgotten by a call that failed
KeysAccounted ==
    /\ known_keys \union forgotten_keys = 1..drawn.keys
    /\ global_backup_key \in 0..drawn.keys
    /\ disk.full.key \in 0..drawn.keys
    /\ \A id \in DOMAIN disk.conversations :
          disk.conversations[id].key \in 1..drawn.keys
    /\ disk.full.key = nullptr => disk.full.users = Nothing

\* The user store while the application starts the library
PhaseOK ==
    /\ phase = "starting" => users = Nothing
    /\ phase = "importing" =>
          /\ global_backup_key # nullptr
          /\ DOMAIN users = DOMAIN disk.full.users
          /\ \A u \in DOMAIN users :
                /\ DOMAIN users[u].conversations
                     = DOMAIN disk.full.users[u].conversations
                /\ \A id \in DOMAIN users[u].conversations :
                      \/ users[u].conversations[id]
                           = disk.full.users[u].conversations[id]
                      \/ /\ id \in DOMAIN disk.conversations
                         /\ users[u].conversations[id] = disk.conversations[id].version

\* What the application has, or would have after importing everything
Current ==
    IF phase = "running" THEN [u \in DOMAIN users |-> users[u].conversations]
                         ELSE Restored

\* What has encrypted a message is in the past, unless a key was forgotten
EncryptedBefore ==
    /\ \A e \in encrypted : e[1] \in 1..drawn.conversations /\ e[2] \in Nat
    /\ forgotten_keys = {} =>
          \A e \in encrypted : \A u \in DOMAIN Current :
             e[1] \in DOMAIN Current[u] => e[2] < Current[u][e[1]]

\* The inductive invariant of Spec
MolchInv ==
    /\ StrongTypeOK
    /\ Orderly(users, drawn)
    /\ Orderly(disk.full.users, drawn)
    /\ KeysAccounted
    /\ KeyWhileUsers
    /\ PhaseOK
    /\ CrashLosesNothing
    /\ EncryptedBefore

-----------------------------------------------------------------------------
(***************************************************************************)
(* What the operations on the stores return                                *)
(***************************************************************************)

\* The members of ConversationStore, by their parts.
LEMMA ConversationStoreShape ==
    ASSUME NEW f
    PROVE  f \in ConversationStore <=>
              /\ f = [id \in DOMAIN f |-> f[id]]
              /\ DOMAIN f \subseteq 1..MaxConversations
              /\ \A id \in DOMAIN f : f[id] \in 1..MaxVersion
    BY DEF ConversationStore

\* The members of UserStore, by their parts.
LEMMA UserStoreShape ==
    ASSUME NEW f
    PROVE  f \in UserStore <=>
              /\ f = [u \in DOMAIN f |-> f[u]]
              /\ DOMAIN f \subseteq 1..MaxUsers
              /\ \A u \in DOMAIN f : f[u] \in User
    BY DEF UserStore

\* Only the empty user store is Nothing.
LEMMA EmptyStore ==
    /\ Nothing \in UserStore
    /\ Nothing \in ConversationStore
    /\ Nothing \in ConversationBackups
    /\ DOMAIN Nothing = {}
    /\ \A f \in UserStore : DOMAIN f = {} => f = Nothing
<1>1. DOMAIN Nothing = {} /\ Nothing = [x \in DOMAIN Nothing |-> Nothing[x]]
    BY DEF Nothing
<1>2. Nothing \in UserStore
    BY <1>1, UserStoreShape
<1>3. Nothing \in ConversationStore
    BY <1>1, ConversationStoreShape
<1>4. Nothing \in ConversationBackups
    BY <1>1 DEF ConversationBackups
<1>5. ASSUME NEW f \in UserStore, DOMAIN f = {} PROVE f = Nothing
  <2>1. f = [x \in DOMAIN f |-> f[x]]
      BY UserStoreShape
  <2> QED BY <1>5, <2>1 DEF Nothing
<1> QED BY <1>1, <1>2, <1>3, <1>4, <1>5

\* add puts one element into a store and leaves the others alone.
LEMMA Add ==
    ASSUME NEW f, NEW id, NEW value
    PROVE  /\ add(f, id, value) = [x \in DOMAIN add(f, id, value) |-> add(f, id, value)[x]]
           /\ DOMAIN add(f, id, value) = DOMAIN f \union {id}
           /\ add(f, id, value)[id] = value
           /\ \A x \in DOMAIN f : x # id => add(f, id, value)[x] = f[x]
    BY DEF add

\* remove takes one element out of a store and leaves the others alone.
LEMMA Remove ==
    ASSUME NEW f, NEW id
    PROVE  /\ remove(f, id) = [x \in DOMAIN remove(f, id) |-> remove(f, id)[x]]
           /\ DOMAIN remove(f, id) = DOMAIN f \ {id}
           /\ \A x \in DOMAIN f \ {id} : remove(f, id)[x] = f[x]
    BY DEF remove, Restrict

\* A user record with other conversations.
LEMMA ReplaceConversations ==
    ASSUME NEW r \in User, NEW c \in ConversationStore
    PROVE  /\ [r EXCEPT !.conversations = c] \in User
           /\ [r EXCEPT !.conversations = c].prekeys = r.prekeys
           /\ [r EXCEPT !.conversations = c].conversations = c
    BY DEF User

\* ConversationStore::add keeps the types.
LEMMA AddConversation ==
    ASSUME NEW c \in ConversationStore, NEW id \in 1..MaxConversations,
           NEW value \in 1..MaxVersion
    PROVE  add(c, id, value) \in ConversationStore
<1>1. /\ DOMAIN c \subseteq 1..MaxConversations
      /\ \A x \in DOMAIN c : c[x] \in 1..MaxVersion
    BY ConversationStoreShape
<1> DEFINE a == add(c, id, value)
<1>2. /\ a = [x \in DOMAIN a |-> a[x]]
      /\ DOMAIN a = DOMAIN c \union {id}
      /\ a[id] = value
      /\ \A x \in DOMAIN c : x # id => a[x] = c[x]
    BY DEF add
<1> HIDE DEF a
<1>3. DOMAIN a \subseteq 1..MaxConversations /\ \A x \in DOMAIN a : a[x] \in 1..MaxVersion
    BY <1>1, <1>2
<1>4. a \in ConversationStore
    BY <1>2, <1>3, ConversationStoreShape
<1> QED BY <1>4 DEF a

\* ConversationStore::remove keeps the types.
LEMMA RemoveConversation ==
    ASSUME NEW c \in ConversationStore, NEW id
    PROVE  remove(c, id) \in ConversationStore
<1>1. /\ DOMAIN c \subseteq 1..MaxConversations
      /\ \A x \in DOMAIN c : c[x] \in 1..MaxVersion
    BY ConversationStoreShape
<1> DEFINE a == remove(c, id)
<1>2. /\ a = [x \in DOMAIN a |-> a[x]]
      /\ DOMAIN a = DOMAIN c \ {id}
      /\ \A x \in DOMAIN c \ {id} : a[x] = c[x]
    BY DEF remove, Restrict
<1> HIDE DEF a
<1>3. DOMAIN a \subseteq 1..MaxConversations /\ \A x \in DOMAIN a : a[x] \in 1..MaxVersion
    BY <1>1, <1>2
<1>4. a \in ConversationStore
    BY <1>2, <1>3, ConversationStoreShape
<1> QED BY <1>4 DEF a

\* The user store after one user's conversations were replaced.
LEMMA ReplaceInUsers ==
    ASSUME NEW f \in UserStore, NEW u \in DOMAIN f, NEW r \in User
    PROVE  /\ [f EXCEPT ![u] = r] \in UserStore
           /\ DOMAIN [f EXCEPT ![u] = r] = DOMAIN f
           /\ [f EXCEPT ![u] = r][u] = r
           /\ \A v \in DOMAIN f : v # u => [f EXCEPT ![u] = r][v] = f[v]
<1>1. /\ f = [x \in DOMAIN f |-> f[x]]
      /\ DOMAIN f \subseteq 1..MaxUsers
      /\ \A v \in DOMAIN f : f[v] \in User
    BY UserStoreShape
<1>2. /\ DOMAIN [f EXCEPT ![u] = r] = DOMAIN f
      /\ [f EXCEPT ![u] = r][u] = r
      /\ \A v \in DOMAIN f : v # u => [f EXCEPT ![u] = r][v] = f[v]
      /\ [f EXCEPT ![u] = r] = [x \in DOMAIN f |-> [f EXCEPT ![u] = r][x]]
    BY <1>1
<1> QED BY <1>1, <1>2, UserStoreShape

\* withConversation changes one conversation of one user.
LEMMA WithConversation ==
    ASSUME users \in UserStore, NEW u \in DOMAIN users,
           NEW id \in 1..MaxConversations, NEW value \in 1..MaxVersion
    PROVE  LET after == withConversation(u, id, value)
           IN  /\ after \in UserStore
               /\ DOMAIN after = DOMAIN users
               /\ \A v \in DOMAIN users : after[v].prekeys = users[v].prekeys
               /\ \A v \in DOMAIN users :
                     v # u => after[v].conversations = users[v].conversations
               /\ after[u].conversations = add(users[u].conversations, id, value)
<1> DEFINE c == add(users[u].conversations, id, value)
           r == [users[u] EXCEPT !.conversations = c]
<1>1. users[u] \in User /\ users[u].conversations \in ConversationStore
    BY UserStoreShape DEF User
<1>2. c \in ConversationStore
    BY <1>1, AddConversation
<1>3. withConversation(u, id, value) = [users EXCEPT ![u] = r]
    BY DEF withConversation
<1> HIDE DEF c
<1>4. r \in User /\ r.prekeys = users[u].prekeys /\ r.conversations = c
    BY <1>1, <1>2, ReplaceConversations
<1> DEFINE after == [users EXCEPT ![u] = r]
<1>5. /\ after \in UserStore
      /\ DOMAIN after = DOMAIN users
      /\ after[u] = r
      /\ \A v \in DOMAIN users : v # u => after[v] = users[v]
  <2> HIDE DEF r
  <2> QED BY <1>4, ReplaceInUsers
<1> HIDE DEF r, after
<1>6. /\ \A v \in DOMAIN users : after[v].prekeys = users[v].prekeys
      /\ \A v \in DOMAIN users :
            v # u => after[v].conversations = users[v].conversations
      /\ after[u].conversations = c
    BY <1>4, <1>5
<1>7. withConversation(u, id, value) = after
    BY <1>3 DEF after
<1> QED BY <1>5, <1>6, <1>7 DEF c

\* UserStore::add of a user that is new or replaced.
LEMMA AddUser ==
    ASSUME users \in UserStore, NEW u \in 1..MaxUsers, NEW r \in User
    PROVE  LET after == add(users, u, r)
           IN  /\ after \in UserStore
               /\ DOMAIN after = DOMAIN users \union {u}
               /\ after[u] = r
               /\ \A v \in DOMAIN users : v # u => after[v] = users[v]
<1>1. DOMAIN users \subseteq 1..MaxUsers /\ \A v \in DOMAIN users : users[v] \in User
    BY UserStoreShape
<1> DEFINE a == add(users, u, r)
<1>2. /\ a = [x \in DOMAIN a |-> a[x]]
      /\ DOMAIN a = DOMAIN users \union {u}
      /\ a[u] = r
      /\ \A x \in DOMAIN users : x # u => a[x] = users[x]
    BY DEF add
<1> HIDE DEF a
<1>3. DOMAIN a \subseteq 1..MaxUsers /\ \A x \in DOMAIN a : a[x] \in User
    BY <1>1, <1>2
<1>4. a \in UserStore
    BY <1>2, <1>3, UserStoreShape
<1> QED BY <1>2, <1>4 DEF a

\* UserStore::remove.
LEMMA RemoveUser ==
    ASSUME users \in UserStore, NEW u
    PROVE  LET after == remove(users, u)
           IN  /\ after \in UserStore
               /\ DOMAIN after = DOMAIN users \ {u}
               /\ \A v \in DOMAIN users \ {u} : after[v] = users[v]
<1>1. DOMAIN users \subseteq 1..MaxUsers /\ \A v \in DOMAIN users : users[v] \in User
    BY UserStoreShape
<1> DEFINE a == remove(users, u)
<1>2. /\ a = [x \in DOMAIN a |-> a[x]]
      /\ DOMAIN a = DOMAIN users \ {u}
      /\ \A x \in DOMAIN users \ {u} : a[x] = users[x]
    BY DEF remove, Restrict
<1> HIDE DEF a
<1>3. DOMAIN a \subseteq 1..MaxUsers /\ \A x \in DOMAIN a : a[x] \in User
    BY <1>1, <1>2
<1>4. a \in UserStore
    BY <1>2, <1>3, UserStoreShape
<1> QED BY <1>2, <1>4 DEF a

\* findConversation returns a user that holds the conversation.
LEMMA Owner ==
    ASSUME NEW id, owners(id) # {}
    PROVE  owner(id) \in DOMAIN users /\ id \in DOMAIN users[owner(id)].conversations
    BY DEF owner, owners

\* Every conversation has an owner.
LEMMA ConversationOwner ==
    ASSUME users \in UserStore, NEW id \in Conversations
    PROVE  /\ owner(id) \in DOMAIN users
           /\ id \in DOMAIN users[owner(id)].conversations
           /\ id \in 1..MaxConversations
           /\ version(id) \in 1..MaxVersion
<1>1. PICK u \in DOMAIN users : id \in DOMAIN users[u].conversations
    BY DEF Conversations
<1>2. owner(id) \in DOMAIN users /\ id \in DOMAIN users[owner(id)].conversations
    BY <1>1, Owner DEF owners
<1>3. users[owner(id)].conversations \in ConversationStore
    BY <1>2, UserStoreShape DEF User
<1> QED BY <1>2, <1>3, ConversationStoreShape DEF version

-----------------------------------------------------------------------------
(***************************************************************************)
(* Kinds of steps                                                          *)
(***************************************************************************)

Counts == [users : 0..MaxUsers, conversations : 0..MaxConversations, keys : 0..MaxKeys]

\* The numbers of users, conversations and keys drawn only grow
Grows(count1, count2) ==
    /\ count1 \in Counts
    /\ count2 \in Counts
    /\ count1.users <= count2.users
    /\ count1.conversations <= count2.conversations
    /\ count1.keys <= count2.keys

\* A store stays orderly while more is drawn.
LEMMA OrderlyLater ==
    ASSUME NEW store, NEW count1, NEW count2, Grows(count1, count2),
           Orderly(store, count1)
    PROVE  Orderly(store, count2)
<1>1. /\ count1.users \in Nat /\ count2.users \in Nat
      /\ count1.conversations \in Nat /\ count2.conversations \in Nat
    BY MolchAssumption DEF Grows, Counts
<1>2. /\ 1..count1.users \subseteq 1..count2.users
      /\ 1..count1.conversations \subseteq 1..count2.conversations
    BY <1>1 DEF Grows
<1> QED BY <1>2 DEF Orderly

\* The conversations of all users in a store
ConversationsOf(store) == [u \in DOMAIN store |-> store[u].conversations]

\* Restored, of any full backup and any later conversation backups
RestoredFrom(full, conversations) ==
    [u \in DOMAIN full |->
        [id \in DOMAIN full[u].conversations |->
            IF id \in DOMAIN conversations THEN conversations[id].version
                                           ELSE full[u].conversations[id]]]

\* A backup without later conversation backups restores what was exported.
LEMMA RestoredFull ==
    ASSUME NEW full \in UserStore
    PROVE  RestoredFrom(full, Nothing) = ConversationsOf(full)
<1>1. \A u \in DOMAIN full :
         full[u].conversations
           = [id \in DOMAIN full[u].conversations |-> full[u].conversations[id]]
  <2> TAKE u \in DOMAIN full
  <2>1. full[u].conversations \in ConversationStore
      BY UserStoreShape DEF User
  <2> QED BY <2>1, ConversationStoreShape
<1>2. DOMAIN Nothing = {}
    BY EmptyStore
<1> QED BY <1>1, <1>2 DEF RestoredFrom, ConversationsOf

\* The invariant without its last part
Core ==
    /\ StrongTypeOK
    /\ Orderly(users, drawn)
    /\ Orderly(disk.full.users, drawn)
    /\ KeysAccounted
    /\ KeyWhileUsers
    /\ PhaseOK
    /\ CrashLosesNothing

\* What the calls do to the backup keys: every key is accounted for
KeysStep ==
    /\ Grows(drawn, drawn')
    /\ known_keys' \union forgotten_keys' = 1..drawn'.keys
    /\ global_backup_key' \in 0..drawn'.keys

\* A call that ends with export_all: the full backup is the new user store.  There
\* may only be no key if there is nothing to back up.
LEMMA Exported ==
    ASSUME Core, KeysStep, export_all,
           users' \in UserStore, Orderly(users', drawn'),
           archive' = archive, phase' = "running",
           global_backup_key' = nullptr =>
              phase = "running" /\ users = Nothing /\ users' = Nothing
    PROVE  Core'
<1> USE DEF Core
<1>1. StrongTypeOK
    OBVIOUS
<1>2. CASE global_backup_key' # nullptr
  <2>1. /\ disk' = [full |-> [key |-> global_backup_key', users |-> users'],
                    conversations |-> Nothing]
        /\ unsaved' = {} /\ terminated' = terminated
      BY <1>2 DEF export_all
  <2>2. /\ disk'.full.key = global_backup_key' /\ disk'.full.users = users'
        /\ disk'.conversations = Nothing
      BY <2>1
  <2>3. drawn' \in Counts /\ drawn'.keys \in 0..MaxKeys /\ global_backup_key' \in 0..MaxKeys
      BY MolchAssumption DEF KeysStep, Grows, Counts
  <2>4. StrongTypeOK'
    <3>1. disk' \in [full : [key : 0..MaxKeys, users : UserStore],
                     conversations : ConversationBackups]
        BY <2>1, <2>3, EmptyStore
    <3> QED BY <1>1, <2>1, <2>3, <3>1 DEF StrongTypeOK, Counts
  <2>5. Orderly(disk.full.users, drawn)'
      BY <2>2
  <2>6. KeysAccounted'
      BY <1>2, <2>2, <2>3, EmptyStore DEF KeysAccounted, KeysStep
  <2>7. KeyWhileUsers' /\ PhaseOK'
      BY <1>2 DEF KeyWhileUsers, PhaseOK
  <2>8. CrashLosesNothing'
    <3>1. Restored' = ConversationsOf(users')
      <4>1. Restored' = RestoredFrom(disk'.full.users, disk'.conversations)
          BY DEF Restored, RestoredFrom
      <4> QED BY <2>2, <4>1, RestoredFull
    <3>2. {disk'.full.key} \union {disk'.conversations[id].key :
                                     id \in DOMAIN disk'.conversations}
            \subseteq known_keys' \union forgotten_keys'
      <4>1. DOMAIN disk'.conversations = {}
          BY <2>2, EmptyStore
      <4>2. disk'.full.key \in 1..drawn'.keys
          BY <1>2, <2>2, <2>3 DEF KeysStep, nullptr
      <4> QED BY <4>1, <4>2 DEF KeysStep
    <3> QED BY <2>2, <3>1, <3>2 DEF CrashLosesNothing, ConversationsOf
  <2> QED BY <2>4, <2>5, <2>6, <2>7, <2>8
<1>3. CASE global_backup_key' = nullptr
  <2>1. disk' = disk /\ unsaved' = unsaved /\ terminated' = TRUE
      BY <1>3 DEF export_all
  <2>2. phase = "running" /\ users = Nothing /\ users' = Nothing
      BY <1>3
  <2>3. StrongTypeOK'
      BY <1>1, <2>1 DEF StrongTypeOK, KeysStep, Grows, Counts
  <2>4. Orderly(disk.full.users, drawn)'
      BY <2>1, OrderlyLater DEF KeysStep
  <2>5. KeysAccounted'
    <3>1. drawn.keys \in Nat /\ drawn'.keys \in Nat /\ drawn.keys <= drawn'.keys
        BY MolchAssumption DEF KeysStep, Grows, Counts
    <3> QED BY <1>3, <2>1, <3>1 DEF KeysAccounted, KeysStep
  <2>6. KeyWhileUsers' /\ PhaseOK'
      BY <2>2 DEF KeyWhileUsers, PhaseOK
  <2>7. CrashLosesNothing'
    <3>1. Restored' = Restored
        BY <2>1 DEF Restored
    <3> QED BY <2>1, <2>2, <3>1, EmptyStore DEF CrashLosesNothing
  <2> QED BY <2>3, <2>4, <2>5, <2>6, <2>7
<1> QED BY <1>2, <1>3

\* A call that returns no full backup and leaves every conversation as it is.
LEMMA Quiet ==
    ASSUME Core, KeysStep, Running,
           users' \in UserStore, DOMAIN users' = DOMAIN users,
           \A u \in DOMAIN users : users'[u].conversations = users[u].conversations,
           \A u \in DOMAIN users \ unsaved' : users'[u].prekeys = users[u].prekeys,
           unsaved \subseteq unsaved', unsaved' \subseteq 1..MaxUsers,
           archive' \subseteq [id : 1..MaxConversations, key : 0..MaxKeys,
                               version : 1..MaxVersion],
           global_backup_key # nullptr => global_backup_key' # nullptr,
           known_keys \subseteq known_keys', forgotten_keys \subseteq forgotten_keys',
           disk' = disk, phase' = phase, terminated' = terminated
    PROVE  Core' /\ Current' = Current
<1> USE DEF Core
<1>1. phase = "running" /\ StrongTypeOK
    BY DEF Running
<1>2. ConversationsOf(users') = ConversationsOf(users)
    BY DEF ConversationsOf
<1>3. Restored' = Restored
    BY DEF Restored
<1>4. StrongTypeOK'
    BY <1>1 DEF StrongTypeOK, KeysStep, Grows, Counts
<1>5. Orderly(users, drawn)' /\ Orderly(disk.full.users, drawn)'
  <2>1. Orderly(users, drawn') /\ Orderly(disk.full.users, drawn')
      BY OrderlyLater DEF KeysStep
  <2> QED BY <2>1 DEF Orderly
<1>6. KeysAccounted'
  <2>1. drawn.keys \in Nat /\ drawn'.keys \in Nat /\ drawn.keys <= drawn'.keys
      BY MolchAssumption DEF KeysStep, Grows, Counts
  <2> QED BY <2>1 DEF KeysAccounted, KeysStep
<1>7. KeyWhileUsers'
  <2>1. users' # Nothing => users # Nothing
      BY EmptyStore DEF StrongTypeOK
  <2> QED BY <2>1 DEF KeyWhileUsers
<1>8. PhaseOK'
    BY <1>1 DEF PhaseOK
<1>9. CrashLosesNothing'
  <2>1. Restored = ConversationsOf(users)
      BY <1>1 DEF CrashLosesNothing, ConversationsOf
  <2>2. Restored' = [u \in DOMAIN users' |-> users'[u].conversations]
      BY <1>2, <1>3, <2>1 DEF ConversationsOf
  <2>3. \A u \in DOMAIN users' \ unsaved' : users'[u].prekeys = disk'.full.users[u].prekeys
      BY <1>1 DEF CrashLosesNothing
  <2>4. users' # Nothing => users # Nothing
      BY EmptyStore DEF StrongTypeOK
  <2> QED BY <1>1, <2>2, <2>3, <2>4 DEF CrashLosesNothing
<1>10. Current' = Current
    BY <1>1, <1>2 DEF Current, ConversationsOf
<1> QED BY <1>4, <1>5, <1>6, <1>7, <1>8, <1>9, <1>10

\* Steps of the crash-free library, between two values of its state
Creates(s1, s2) ==
    \/ \E u \in DOMAIN s2 \ DOMAIN s1 :
          s2 = [v \in DOMAIN s1 \union {u} |-> IF v = u THEN Nothing ELSE s1[v]]
    \/ \E u \in DOMAIN s1 \cap DOMAIN s2 :
          \E id \in DOMAIN s2[u] \ DOMAIN s1[u] :
             s2 = [s1 EXCEPT ![u] = [x \in DOMAIN s1[u] \union {id} |->
                                        IF x = id THEN 1 ELSE s1[u][x]]]
Advances(s1, s2) ==
    \E u \in DOMAIN s1 : \E id \in DOMAIN s1[u] :
        s2 = [s1 EXCEPT ![u][id] = @ + 1]
Destroys(s1, s2) ==
    \/ \E u \in DOMAIN s1 : s2 = Restrict(s1, DOMAIN s1 \ {u})
    \/ \E u \in DOMAIN s1 : \E id \in DOMAIN s1[u] :
          s2 = [s1 EXCEPT ![u] = Restrict(@, DOMAIN @ \ {id})]

\* What the application has changes by its own calls
CallStep ==
    \/ Current' = Current
    \/ Creates(Current, Current')
    \/ Advances(Current, Current')
    \/ Destroys(Current, Current')

\* No conversation goes back: what there is after the step is new, or there was a
\* state of it before that is not later
Forward ==
    \A u \in DOMAIN Current' : \A id \in DOMAIN Current'[u] :
        \/ id > drawn.conversations
        \/ \E w \in DOMAIN Current :
              /\ id \in DOMAIN Current[w]
              /\ Current[w][id] \in Nat
              /\ Current'[u][id] \in Nat
              /\ Current[w][id] <= Current'[u][id]

\* Steps that encrypt nothing and take no conversation back keep EncryptedBefore.
LEMMA EncryptedLater ==
    ASSUME EncryptedBefore, Grows(drawn, drawn'), encrypted' = encrypted,
           forgotten_keys' = {} => forgotten_keys = {} /\ Forward
    PROVE  EncryptedBefore'
<1>1. drawn.conversations \in Nat /\ drawn'.conversations \in Nat
      /\ drawn.conversations <= drawn'.conversations
    BY MolchAssumption DEF Grows, Counts
<1>2. \A e \in encrypted' : e[1] \in 1..drawn'.conversations /\ e[2] \in Nat
    BY <1>1 DEF EncryptedBefore
<1>3. ASSUME forgotten_keys' = {}, NEW e \in encrypted, NEW u \in DOMAIN Current',
             e[1] \in DOMAIN Current'[u]
      PROVE  e[2] < Current'[u][e[1]]
  <2>1. e[1] \in 1..drawn.conversations /\ e[2] \in Nat
      BY DEF EncryptedBefore
  <2>2. PICK w \in DOMAIN Current :
           /\ e[1] \in DOMAIN Current[w]
           /\ Current[w][e[1]] \in Nat
           /\ Current'[u][e[1]] \in Nat
           /\ Current[w][e[1]] <= Current'[u][e[1]]
      BY <1>1, <1>3, <2>1 DEF Forward
  <2>3. e[2] < Current[w][e[1]]
      BY <1>3, <2>2 DEF EncryptedBefore
  <2> QED BY <2>1, <2>2, <2>3
<1> QED BY <1>2, <1>3 DEF EncryptedBefore

\* A step that leaves the state of the application alone goes forward.
LEMMA SameForward ==
    ASSUME Current' = Current,
           \A u \in DOMAIN Current : \A id \in DOMAIN Current[u] : Current[u][id] \in Nat
    PROVE  Forward
    BY DEF Forward

\* Versions are numbers.
LEMMA CurrentType ==
    ASSUME StrongTypeOK
    PROVE  \A u \in DOMAIN Current : \A id \in DOMAIN Current[u] : Current[u][id] \in Nat
<1>1. /\ users \in UserStore /\ disk.full.users \in UserStore
      /\ disk.conversations \in ConversationBackups
    BY DEF StrongTypeOK
<1>2. 1..MaxVersion \subseteq Nat
    BY MolchAssumption
<1>3. ASSUME NEW f \in UserStore, NEW u \in DOMAIN f, NEW id \in DOMAIN f[u].conversations
      PROVE  f[u].conversations[id] \in Nat
  <2>1. f[u].conversations \in ConversationStore
      BY UserStoreShape DEF User
  <2> QED BY <1>2, <2>1, ConversationStoreShape
<1>4. \A id \in DOMAIN disk.conversations : disk.conversations[id].version \in Nat
    BY <1>1, <1>2 DEF ConversationBackups, ConversationBackup
<1>5. CASE phase = "running"
    BY <1>1, <1>3, <1>5 DEF Current
<1>6. CASE phase # "running"
  <2>1. Current = Restored
      BY <1>6 DEF Current
  <2>2. /\ DOMAIN Restored = DOMAIN disk.full.users
        /\ \A u \in DOMAIN Restored :
              /\ DOMAIN Restored[u] = DOMAIN disk.full.users[u].conversations
              /\ \A id \in DOMAIN Restored[u] :
                    Restored[u][id] = IF id \in DOMAIN disk.conversations
                                      THEN disk.conversations[id].version
                                      ELSE disk.full.users[u].conversations[id]
      BY DEF Restored
  <2> QED BY <1>1, <1>3, <1>4, <2>1, <2>2
<1> QED BY <1>5, <1>6

\* The calls that change no conversation keep the whole invariant.
LEMMA QuietInv ==
    ASSUME Core, EncryptedBefore, Core', Current' = Current, Grows(drawn, drawn'),
           encrypted' = encrypted, forgotten_keys \subseteq forgotten_keys'
    PROVE  EncryptedBefore'
<1>1. Forward
    BY CurrentType, SameForward DEF Core
<1> QED BY <1>1, EncryptedLater

-----------------------------------------------------------------------------
(***************************************************************************)
(* The calls preserve the invariant, and are calls of the crash-free       *)
(* library                                                                 *)
(***************************************************************************)

\* What every step establishes
Good == Core' /\ EncryptedBefore' /\ (forgotten_keys' = {} => CallStep)

\* A new backup key that the call returns is one more known key.
LEMMA DrawKey ==
    ASSUME Core, update_backup_key, forgotten_keys' = forgotten_keys,
           drawn' = [drawn EXCEPT !.keys = @ + 1]
    PROVE  /\ KeysStep
           /\ global_backup_key' # nullptr
           /\ known_keys \subseteq known_keys'
           /\ drawn'.users = drawn.users
           /\ drawn'.conversations = drawn.conversations
<1>1. drawn \in Counts /\ drawn.keys \in Nat /\ drawn.keys < MaxKeys /\ MaxKeys \in Nat
    BY MolchAssumption DEF Core, StrongTypeOK, Counts, update_backup_key
<1>2. /\ drawn'.keys = drawn.keys + 1 /\ drawn'.users = drawn.users
      /\ drawn'.conversations = drawn.conversations /\ drawn' \in Counts
    BY <1>1 DEF Counts
<1>3. Grows(drawn, drawn')
    BY <1>1, <1>2, MolchAssumption DEF Grows, Counts
<1>4. known_keys \union forgotten_keys = 1..drawn.keys
    BY DEF Core, KeysAccounted
<1>5. /\ global_backup_key' = drawn.keys + 1
      /\ known_keys' = known_keys \union {drawn.keys + 1}
    BY DEF update_backup_key
<1>6. 1..drawn'.keys = (1..drawn.keys) \union {drawn.keys + 1}
    BY <1>1, <1>2
<1>7. known_keys' \union forgotten_keys' = 1..drawn'.keys
    BY <1>4, <1>5, <1>6
<1> QED BY <1>1, <1>2, <1>3, <1>5, <1>7 DEF KeysStep, nullptr

\* molch_create_user
LEMMA CreateUser == MolchInv /\ createUser => Good
<1> SUFFICES ASSUME MolchInv, createUser PROVE Good
    OBVIOUS
<1> DEFINE u == drawn.users + 1
           r == [prekeys |-> 0, conversations |-> Nothing]
<1>1. /\ Running /\ drawn.users < MaxUsers /\ update_backup_key
      /\ users' = add(users, u, r)
      /\ drawn' = [drawn EXCEPT !.users = u, !.keys = @ + 1]
      /\ export_all
      /\ archive' = archive /\ phase' = phase /\ forgotten_keys' = forgotten_keys
      /\ encrypted' = encrypted
    BY DEF createUser
<1>2. Core /\ EncryptedBefore /\ StrongTypeOK /\ phase = "running"
    BY <1>1 DEF MolchInv, Core, Running
<1>3. /\ drawn \in Counts /\ drawn.users \in Nat /\ drawn.keys \in Nat
      /\ drawn.conversations \in Nat
      /\ drawn.keys < MaxKeys /\ MaxKeys \in Nat /\ MaxUsers \in Nat
    BY <1>1, <1>2, MolchAssumption DEF StrongTypeOK, Counts, update_backup_key
<1>4. /\ drawn'.keys = drawn.keys + 1 /\ drawn'.users = u
      /\ drawn'.conversations = drawn.conversations /\ drawn' \in Counts
  <2>1. u \in 0..MaxUsers /\ drawn.keys + 1 \in 0..MaxKeys
      BY <1>1, <1>3
  <2>2. drawn' = [users |-> u, conversations |-> drawn.conversations,
                  keys |-> drawn.keys + 1]
      BY <1>1, <1>3 DEF Counts
  <2> HIDE DEF u
  <2> QED BY <1>3, <2>1, <2>2 DEF Counts
<1>5. Grows(drawn, drawn')
    BY <1>3, <1>4 DEF Grows
<1>6. KeysStep /\ global_backup_key' # nullptr
  <2>1. known_keys \union forgotten_keys = 1..drawn.keys
      BY <1>2 DEF Core, KeysAccounted
  <2>2. 1..drawn'.keys = (1..drawn.keys) \union {drawn.keys + 1}
      BY <1>3, <1>4
  <2>3. known_keys' \union forgotten_keys' = 1..drawn'.keys
      BY <1>1, <2>1, <2>2 DEF update_backup_key
  <2> QED BY <1>1, <1>3, <1>4, <1>5, <2>3 DEF KeysStep, nullptr, update_backup_key
<1>7. r \in User /\ r.conversations = Nothing
    BY EmptyStore, MolchAssumption DEF User
<1>8. u \in 1..MaxUsers /\ u \notin DOMAIN users
  <2>1. DOMAIN users \subseteq 1..drawn.users
      BY <1>2 DEF Core, Orderly
  <2> QED BY <1>1, <1>3, <2>1
<1> HIDE DEF r
<1>9. /\ users' \in UserStore
      /\ DOMAIN users' = DOMAIN users \union {u}
      /\ users'[u] = r
      /\ \A v \in DOMAIN users : v # u => users'[v] = users[v]
  <2> HIDE DEF u
  <2>1. users \in UserStore
      BY <1>2 DEF StrongTypeOK
  <2> QED BY <1>1, <1>7, <1>8, <2>1, AddUser
<1>10. Orderly(users', drawn')
  <2>1. Orderly(users, drawn')
      BY <1>2, <1>5, OrderlyLater DEF Core
  <2>2. u \in 1..drawn'.users
      BY <1>3, <1>4
  <2> HIDE DEF u
  <2>3. DOMAIN users'[u].conversations = {}
      BY <1>7, <1>9, EmptyStore
  <2> QED BY <1>8, <1>9, <2>1, <2>2, <2>3 DEF Orderly
<1>11. Core'
    BY <1>1, <1>2, <1>6, <1>9, <1>10, Exported
<1> HIDE DEF u
<1>12. /\ Current = ConversationsOf(users) /\ Current' = ConversationsOf(users')
       /\ DOMAIN Current = DOMAIN users
       /\ DOMAIN Current' = DOMAIN users \union {u}
       /\ Current'[u] = Nothing
       /\ \A v \in DOMAIN users : Current'[v] = Current[v]
    BY <1>1, <1>2, <1>7, <1>8, <1>9 DEF Current, ConversationsOf
<1>13. Forward
    BY <1>2, <1>12, EmptyStore, CurrentType DEF Forward
<1>14. EncryptedBefore'
    BY <1>1, <1>2, <1>5, <1>13, EncryptedLater
<1>15. Creates(Current, Current')
  <2>1. Current' = [v \in DOMAIN Current \union {u} |->
                       IF v = u THEN Nothing ELSE Current[v]]
      BY <1>8, <1>12 DEF ConversationsOf
  <2>2. u \in DOMAIN Current' \ DOMAIN Current
      BY <1>8, <1>12
  <2> QED BY <2>1, <2>2 DEF Creates
<1> QED BY <1>11, <1>14, <1>15 DEF Good, CallStep

\* molch_create_user that fails: one more key that nobody knows
LEMMA CreateUserFails == MolchInv /\ createUserFails => Good
<1> SUFFICES ASSUME MolchInv, createUserFails PROVE Good
    OBVIOUS
<1>1. /\ Running /\ drawn.keys < MaxKeys
      /\ global_backup_key' = drawn.keys + 1
      /\ forgotten_keys' = forgotten_keys \union {drawn.keys + 1}
      /\ drawn' = [drawn EXCEPT !.keys = drawn.keys + 1]
      /\ users' = users /\ disk' = disk /\ archive' = archive /\ phase' = phase
      /\ known_keys' = known_keys /\ unsaved' = unsaved /\ encrypted' = encrypted
      /\ terminated' = terminated
    BY DEF createUserFails
<1>2. Core /\ EncryptedBefore /\ StrongTypeOK
    BY DEF MolchInv, Core
<1>3. /\ drawn \in Counts /\ drawn.users \in Nat /\ drawn.keys \in Nat
      /\ drawn.conversations \in Nat /\ MaxKeys \in Nat
    BY <1>2, MolchAssumption DEF StrongTypeOK, Counts
<1>4. /\ drawn'.keys = drawn.keys + 1 /\ drawn'.users = drawn.users
      /\ drawn'.conversations = drawn.conversations /\ drawn' \in Counts
    BY <1>1, <1>3 DEF Counts
<1>5. KeysStep
  <2>1. known_keys \union forgotten_keys = 1..drawn.keys
      BY <1>2 DEF Core, KeysAccounted
  <2>2. 1..drawn'.keys = (1..drawn.keys) \union {drawn.keys + 1}
      BY <1>3, <1>4
  <2>3. known_keys' \union forgotten_keys' = 1..drawn'.keys
      BY <1>1, <2>1, <2>2
  <2>4. Grows(drawn, drawn')
      BY <1>3, <1>4 DEF Grows
  <2> QED BY <1>1, <1>3, <1>4, <2>3, <2>4 DEF KeysStep
<1>6. global_backup_key' # nullptr
    BY <1>1, <1>3 DEF nullptr
<1>7. Core' /\ Current' = Current
    BY <1>1, <1>2, <1>5, <1>6, Quiet DEF StrongTypeOK
<1>8. EncryptedBefore'
    BY <1>1, <1>2, <1>5, <1>7, QuietInv DEF KeysStep
<1> QED BY <1>7, <1>8 DEF Good, CallStep

\* What a call that draws no key leaves of the keys.
LEMMA SameKeys ==
    ASSUME Core, drawn' \in Counts, drawn'.users = drawn.users,
           drawn'.keys = drawn.keys,
           drawn'.conversations \in {drawn.conversations, drawn.conversations + 1},
           known_keys' = known_keys, forgotten_keys' = forgotten_keys,
           global_backup_key' = global_backup_key
    PROVE  KeysStep
<1>1. /\ drawn \in Counts /\ drawn.users \in Nat /\ drawn.keys \in Nat
      /\ drawn.conversations \in Nat
    BY MolchAssumption DEF Core, StrongTypeOK, Counts
<1>2. Grows(drawn, drawn')
    BY <1>1 DEF Grows
<1> QED BY <1>2 DEF KeysStep, Core, KeysAccounted

\* molch_destroy_user
LEMMA DestroyUser ==
    ASSUME MolchInv, NEW u, destroyUser(u) PROVE Good
<1>1. /\ Running /\ users' = remove(users, u) /\ export_all
      /\ global_backup_key' = global_backup_key
      /\ archive' = archive /\ phase' = phase /\ known_keys' = known_keys
      /\ forgotten_keys' = forgotten_keys /\ drawn' = drawn /\ encrypted' = encrypted
    BY DEF destroyUser
<1>2. Core /\ EncryptedBefore /\ StrongTypeOK /\ phase = "running" /\ drawn \in Counts
    BY <1>1 DEF MolchInv, Core, Running, StrongTypeOK, Counts
<1>3. KeysStep
    BY <1>1, <1>2, SameKeys
<1>4. /\ users' \in UserStore
      /\ DOMAIN users' = DOMAIN users \ {u}
      /\ \A v \in DOMAIN users \ {u} : users'[v] = users[v]
    BY <1>1, <1>2, RemoveUser DEF StrongTypeOK
<1>5. Orderly(users', drawn')
    BY <1>1, <1>2, <1>4 DEF Core, Orderly
<1>6. global_backup_key' = nullptr => users = Nothing /\ users' = Nothing
  <2>1. global_backup_key = nullptr => users = Nothing
      BY <1>2 DEF Core, KeyWhileUsers
  <2>2. users = Nothing => DOMAIN users' = {}
      BY <1>4, EmptyStore
  <2> QED BY <1>1, <1>4, <2>1, <2>2, EmptyStore
<1>7. Core'
    BY <1>1, <1>2, <1>3, <1>4, <1>5, <1>6, Exported
<1>8. /\ Current = ConversationsOf(users) /\ Current' = ConversationsOf(users')
    BY <1>1, <1>2 DEF Current, ConversationsOf
<1>9. /\ DOMAIN Current = DOMAIN users
      /\ DOMAIN Current' = DOMAIN users \ {u}
      /\ \A v \in DOMAIN users \ {u} : Current'[v] = Current[v]
    BY <1>4, <1>8 DEF ConversationsOf
<1>10. Forward
    BY <1>2, <1>9, CurrentType DEF Forward
<1>11. EncryptedBefore'
    BY <1>1, <1>2, <1>3, <1>10, EncryptedLater DEF KeysStep
<1>12. CallStep
  <2>1. Current' = Restrict(Current, DOMAIN Current \ {u})
      BY <1>8, <1>9 DEF ConversationsOf, Restrict
  <2>2. CASE u \in DOMAIN Current
      BY <2>1, <2>2 DEF CallStep, Destroys
  <2>3. CASE u \notin DOMAIN Current
    <3>1. DOMAIN users \ {u} = DOMAIN users
        BY <1>9, <2>3
    <3>2. Current' = Current
        BY <1>4, <1>8, <3>1 DEF ConversationsOf
    <3> QED BY <3>2 DEF CallStep
  <2> QED BY <2>2, <2>3
<1> QED BY <1>7, <1>11, <1>12 DEF Good

\* A step that encrypts one message with the state v of conversation id, and
\* leaves a later state behind, keeps EncryptedBefore.
LEMMA EncryptedOne ==
    ASSUME EncryptedBefore, Grows(drawn, drawn'), NEW id, NEW v \in Nat,
           encrypted' = encrypted \union {<<id, v>>}, id \in 1..drawn'.conversations,
           forgotten_keys' = {} =>
              /\ forgotten_keys = {} /\ Forward
              /\ \A u \in DOMAIN Current' : id \in DOMAIN Current'[u] => v < Current'[u][id]
    PROVE  EncryptedBefore'
<1>1. drawn.conversations \in Nat /\ drawn'.conversations \in Nat
      /\ drawn.conversations <= drawn'.conversations
    BY MolchAssumption DEF Grows, Counts
<1>2. \A e \in encrypted' : e[1] \in 1..drawn'.conversations /\ e[2] \in Nat
    BY <1>1 DEF EncryptedBefore
<1>3. ASSUME forgotten_keys' = {}, NEW e \in encrypted', NEW u \in DOMAIN Current',
             e[1] \in DOMAIN Current'[u]
      PROVE  e[2] < Current'[u][e[1]]
  <2>1. CASE e \in encrypted
    <3>1. e[1] \in 1..drawn.conversations /\ e[2] \in Nat
        BY <2>1 DEF EncryptedBefore
    <3>2. PICK w \in DOMAIN Current :
             /\ e[1] \in DOMAIN Current[w]
             /\ Current[w][e[1]] \in Nat
             /\ Current'[u][e[1]] \in Nat
             /\ Current[w][e[1]] <= Current'[u][e[1]]
        BY <1>1, <1>3, <3>1 DEF Forward
    <3>3. e[2] < Current[w][e[1]]
        BY <1>3, <2>1, <3>2 DEF EncryptedBefore
    <3> QED BY <3>1, <3>2, <3>3
  <2>2. CASE e \notin encrypted
    <3>1. e[1] = id /\ e[2] = v
        BY <2>2
    <3> QED BY <1>3, <3>1
  <2> QED BY <2>1, <2>2
<1> QED BY <1>2, <1>3 DEF EncryptedBefore

\* A new conversation of user u, in a call that ends with export_all.
LEMMA NewConversation ==
    ASSUME Core, Running, NEW u \in DOMAIN users, NEW id,
           id = drawn.conversations + 1, id <= MaxConversations,
           users' \in UserStore, DOMAIN users' = DOMAIN users,
           \A w \in DOMAIN users :
              w # u => users'[w].conversations = users[w].conversations,
           users'[u].conversations = add(users[u].conversations, id, 1),
           drawn' = [drawn EXCEPT !.conversations = id],
           global_backup_key' = global_backup_key, export_all,
           archive' = archive, phase' = phase, known_keys' = known_keys,
           forgotten_keys' = forgotten_keys
    PROVE  /\ Core' /\ Forward /\ Grows(drawn, drawn')
           /\ id \in 1..drawn'.conversations
           /\ \A w \in DOMAIN Current' : id \in DOMAIN Current'[w] => Current'[w][id] = 1
           /\ Creates(Current, Current')
<1>1. StrongTypeOK /\ phase = "running" /\ drawn \in Counts
    BY DEF Core, Running, StrongTypeOK, Counts
<1>2. /\ drawn.conversations \in Nat /\ MaxConversations \in Nat /\ id \in Nat
      /\ id \in 1..MaxConversations
    BY <1>1, MolchAssumption DEF Counts
<1>3. /\ drawn'.keys = drawn.keys /\ drawn'.users = drawn.users
      /\ drawn'.conversations = id /\ drawn' \in Counts
    BY <1>1, <1>2 DEF Counts
<1>4. KeysStep
    BY <1>3, SameKeys
<1>5. Grows(drawn, drawn')
    BY <1>4 DEF KeysStep
<1>6. /\ DOMAIN users'[u].conversations = DOMAIN users[u].conversations \union {id}
      /\ users'[u].conversations[id] = 1
      /\ \A x \in DOMAIN users[u].conversations :
            x # id => users'[u].conversations[x] = users[u].conversations[x]
    BY DEF add
<1>7. \A w \in DOMAIN users : id \notin DOMAIN users[w].conversations
  <2>1. \A w \in DOMAIN users :
           DOMAIN users[w].conversations \subseteq 1..drawn.conversations
      BY DEF Core, Orderly
  <2> QED BY <1>2, <2>1
<1>8. Orderly(users', drawn')
  <2>1. Orderly(users, drawn')
      BY <1>5, OrderlyLater DEF Core
  <2>2. id \in 1..drawn'.conversations
      BY <1>2, <1>3
  <2>3. \A w \in DOMAIN users : DOMAIN users'[w].conversations
                                  \subseteq DOMAIN users[w].conversations \union {id}
      BY <1>6
  <2>4. \A w \in DOMAIN users :
           w # u => DOMAIN users'[w].conversations = DOMAIN users[w].conversations
      OBVIOUS
  <2>5. \A v, w \in DOMAIN users' : v # w =>
           DOMAIN users'[v].conversations \cap DOMAIN users'[w].conversations = {}
    <3> SUFFICES ASSUME NEW v \in DOMAIN users, NEW w \in DOMAIN users, v # w,
                        NEW x, x \in DOMAIN users'[v].conversations,
                        x \in DOMAIN users'[w].conversations
                 PROVE  FALSE
        OBVIOUS
    <3>1. DOMAIN users[v].conversations \cap DOMAIN users[w].conversations = {}
        BY <2>1 DEF Orderly
    <3>2. CASE x = id
        BY <1>7, <2>4, <3>2
    <3>3. CASE x # id
        BY <2>3, <3>1, <3>3
    <3> QED BY <3>2, <3>3
  <2>6. \A w \in DOMAIN users' :
           DOMAIN users'[w].conversations \subseteq 1..drawn'.conversations
      BY <2>1, <2>2, <2>3 DEF Orderly
  <2> QED BY <2>1, <2>5, <2>6 DEF Orderly
<1>9. global_backup_key' # nullptr
  <2>1. users # Nothing
      BY EmptyStore
  <2> QED BY <2>1 DEF Core, KeyWhileUsers
<1>10. Core'
    BY <1>1, <1>4, <1>8, <1>9, Exported
<1>11. Current = ConversationsOf(users) /\ Current' = ConversationsOf(users')
    BY <1>1 DEF Current, ConversationsOf
<1>12. /\ DOMAIN Current = DOMAIN users /\ DOMAIN Current' = DOMAIN users
       /\ \A w \in DOMAIN users : w # u => Current'[w] = Current[w]
       /\ Current[u] = users[u].conversations
       /\ Current'[u] = add(Current[u], id, 1)
       /\ \A w \in DOMAIN users : Current[w] = users[w].conversations
    BY <1>11 DEF ConversationsOf
<1>13. Forward
  <2> SUFFICES ASSUME NEW w \in DOMAIN Current', NEW x \in DOMAIN Current'[w], x # id
               PROVE  /\ x \in DOMAIN Current[w]
                      /\ Current'[w][x] = Current[w][x]
      BY <1>1, <1>2, <1>12, CurrentType DEF Forward
  <2>1. CASE w = u
      BY <1>12, <2>1 DEF add
  <2>2. CASE w # u
      BY <1>12, <2>2
  <2> QED BY <2>1, <2>2
<1>14. \A w \in DOMAIN Current' : id \in DOMAIN Current'[w] => Current'[w][id] = 1
  <2> SUFFICES ASSUME NEW w \in DOMAIN Current', id \in DOMAIN Current'[w]
               PROVE  Current'[w][id] = 1
      OBVIOUS
  <2>1. w = u
      BY <1>7, <1>12
  <2> QED BY <1>12, <2>1 DEF add
<1>15. Creates(Current, Current')
  <2>1. Current' = [Current EXCEPT ![u] = add(Current[u], id, 1)]
      BY <1>11, <1>12 DEF ConversationsOf
  <2>2. id \in DOMAIN Current'[u] \ DOMAIN Current[u]
      BY <1>7, <1>12 DEF add
  <2>3. u \in DOMAIN Current \cap DOMAIN Current'
      BY <1>12
  <2> QED BY <2>1, <2>2, <2>3 DEF Creates, add
<1> QED BY <1>2, <1>3, <1>5, <1>10, <1>13, <1>14, <1>15

\* molch_start_send_conversation
LEMMA StartSend ==
    ASSUME MolchInv, NEW u \in DOMAIN users, startSendConversation(u) PROVE Good
<1> DEFINE id == drawn.conversations + 1
<1>1. /\ Running /\ id <= MaxConversations
      /\ users' = withConversation(u, id, 1)
      /\ drawn' = [drawn EXCEPT !.conversations = id]
      /\ encrypted' = encrypted \union {<<id, 0>>}
      /\ global_backup_key' = global_backup_key /\ export_all
      /\ archive' = archive /\ phase' = phase /\ known_keys' = known_keys
      /\ forgotten_keys' = forgotten_keys
    BY DEF startSendConversation
<1>2. Core /\ EncryptedBefore /\ users \in UserStore
    BY DEF MolchInv, Core, StrongTypeOK
<1>3. id \in 1..MaxConversations /\ 1 \in 1..MaxVersion
  <2>1. drawn.conversations \in Nat /\ MaxConversations \in Nat /\ MaxVersion \in Nat \ {0}
      BY <1>2, MolchAssumption DEF Core, StrongTypeOK
  <2> QED BY <1>1, <2>1
<1>4. id = drawn.conversations + 1
    OBVIOUS
<1> HIDE DEF id
<1>5. /\ users' \in UserStore
      /\ DOMAIN users' = DOMAIN users
      /\ \A v \in DOMAIN users :
            v # u => users'[v].conversations = users[v].conversations
      /\ users'[u].conversations = add(users[u].conversations, id, 1)
    BY <1>1, <1>2, <1>3, WithConversation
<1>6. /\ Core' /\ Forward /\ Grows(drawn, drawn')
      /\ id \in 1..drawn'.conversations
      /\ \A w \in DOMAIN Current' : id \in DOMAIN Current'[w] => Current'[w][id] = 1
      /\ Creates(Current, Current')
    BY <1>1, <1>2, <1>4, <1>5, NewConversation
<1>7. EncryptedBefore'
    BY <1>1, <1>2, <1>6, EncryptedOne
<1> QED BY <1>6, <1>7 DEF Good, CallStep

\* A user record after its prekey store has changed.
LEMMA NextPrekeys ==
    ASSUME NEW f \in UserStore, NEW u \in DOMAIN f, f[u].prekeys < MaxPrekeys
    PROVE  LET after == [f EXCEPT ![u].prekeys = @ + 1]
           IN  /\ after \in UserStore
               /\ DOMAIN after = DOMAIN f
               /\ \A v \in DOMAIN f : after[v].conversations = f[v].conversations
               /\ \A v \in DOMAIN f : v # u => after[v] = f[v]
<1> DEFINE r == [f[u] EXCEPT !.prekeys = f[u].prekeys + 1]
           after == [f EXCEPT ![u] = r]
<1>1. f[u] \in User
    BY UserStoreShape
<1>2. r \in User /\ r.conversations = f[u].conversations
  <2>1. f[u].prekeys + 1 \in 0..MaxPrekeys
      BY <1>1, MolchAssumption DEF User
  <2> QED BY <1>1, <2>1 DEF User
<1>3. [f EXCEPT ![u].prekeys = @ + 1] = after
    OBVIOUS
<1>4. /\ after \in UserStore
      /\ DOMAIN after = DOMAIN f
      /\ after[u] = r
      /\ \A v \in DOMAIN f : v # u => after[v] = f[v]
  <2> HIDE DEF r
  <2> QED BY <1>2, ReplaceInUsers
<1> HIDE DEF r, after
<1>5. \A v \in DOMAIN f : after[v].conversations = f[v].conversations
    BY <1>2, <1>4
<1> QED BY <1>3, <1>4, <1>5

\* molch_start_receive_conversation
LEMMA StartReceive ==
    ASSUME MolchInv, NEW u \in DOMAIN users, startReceiveConversation(u) PROVE Good
<1> DEFINE id == drawn.conversations + 1
           w == withConversation(u, id, 1)
<1>1. /\ Running /\ id <= MaxConversations /\ users[u].prekeys < MaxPrekeys
      /\ users' = [w EXCEPT ![u].prekeys = @ + 1]
      /\ drawn' = [drawn EXCEPT !.conversations = id]
      /\ encrypted' = encrypted
      /\ global_backup_key' = global_backup_key /\ export_all
      /\ archive' = archive /\ phase' = phase /\ known_keys' = known_keys
      /\ forgotten_keys' = forgotten_keys
    BY DEF startReceiveConversation
<1>2. Core /\ EncryptedBefore /\ users \in UserStore
    BY DEF MolchInv, Core, StrongTypeOK
<1>3. id \in 1..MaxConversations /\ 1 \in 1..MaxVersion
  <2>1. drawn.conversations \in Nat /\ MaxConversations \in Nat /\ MaxVersion \in Nat \ {0}
      BY <1>2, MolchAssumption DEF Core, StrongTypeOK
  <2> QED BY <1>1, <2>1
<1>4. id = drawn.conversations + 1
    OBVIOUS
<1> HIDE DEF id
<1>5. /\ w \in UserStore
      /\ DOMAIN w = DOMAIN users
      /\ \A v \in DOMAIN users : w[v].prekeys = users[v].prekeys
      /\ \A v \in DOMAIN users : v # u => w[v].conversations = users[v].conversations
      /\ w[u].conversations = add(users[u].conversations, id, 1)
    BY <1>1, <1>2, <1>3, WithConversation
<1> HIDE DEF w
<1>6. /\ users' \in UserStore
      /\ DOMAIN users' = DOMAIN users
      /\ \A v \in DOMAIN users : users'[v].conversations = w[v].conversations
    BY <1>1, <1>5, NextPrekeys
<1>7. /\ Core' /\ Forward /\ Grows(drawn, drawn') /\ Creates(Current, Current')
  <2>1. /\ \A v \in DOMAIN users :
              v # u => users'[v].conversations = users[v].conversations
        /\ users'[u].conversations = add(users[u].conversations, id, 1)
      BY <1>5, <1>6
  <2>2. users' \in UserStore /\ DOMAIN users' = DOMAIN users
      BY <1>6
  <2> QED BY <1>1, <1>2, <1>4, <2>1, <2>2, NewConversation
<1>8. EncryptedBefore'
    BY <1>1, <1>2, <1>7, EncryptedLater
<1> QED BY <1>7, <1>8 DEF Good, CallStep

\* A prekey packet that does not decrypt, or molch_get_prekey_list
LEMMA ChangePrekeys ==
    ASSUME MolchInv, NEW u \in DOMAIN users, changePrekeys(u) PROVE Good
<1>1. /\ Running /\ users[u].prekeys < MaxPrekeys
      /\ users' = [users EXCEPT ![u].prekeys = @ + 1]
      /\ unsaved' = unsaved \union {u}
      /\ global_backup_key' = global_backup_key /\ disk' = disk /\ archive' = archive
      /\ phase' = phase /\ known_keys' = known_keys /\ forgotten_keys' = forgotten_keys
      /\ drawn' = drawn /\ encrypted' = encrypted /\ terminated' = terminated
    BY DEF changePrekeys
<1>2. Core /\ EncryptedBefore /\ StrongTypeOK /\ users \in UserStore /\ drawn \in Counts
    BY DEF MolchInv, Core, StrongTypeOK, Counts
<1>3. /\ users' \in UserStore
      /\ DOMAIN users' = DOMAIN users
      /\ \A v \in DOMAIN users : users'[v].conversations = users[v].conversations
      /\ \A v \in DOMAIN users : v # u => users'[v] = users[v]
    BY <1>1, <1>2, NextPrekeys
<1>4. KeysStep
    BY <1>1, <1>2, SameKeys
<1>5. unsaved' \subseteq 1..MaxUsers
  <2>1. DOMAIN users \subseteq 1..MaxUsers
      BY <1>2, UserStoreShape
  <2> QED BY <1>1, <1>2, <2>1 DEF StrongTypeOK
<1>6. Core' /\ Current' = Current
  <2>1. \A v \in DOMAIN users \ unsaved' : users'[v].prekeys = users[v].prekeys
      BY <1>1, <1>3
  <2>2. archive' \subseteq [id : 1..MaxConversations, key : 0..MaxKeys,
                            version : 1..MaxVersion]
      BY <1>1, <1>2 DEF StrongTypeOK
  <2> QED BY <1>1, <1>2, <1>3, <1>4, <1>5, <2>1, <2>2, Quiet
<1>7. EncryptedBefore'
    BY <1>1, <1>2, <1>4, <1>6, QuietInv DEF KeysStep
<1> QED BY <1>6, <1>7 DEF Good, CallStep

\* A conversation backup later than the full backup brings the conversation it is
\* of up to date, and nothing else.
LEMMA RestoredAdvanced ==
    ASSUME NEW full, NEW later, NEW store, NEW after, NEW backup,
           NEW o \in DOMAIN store, NEW id \in DOMAIN store[o].conversations,
           RestoredFrom(full, later) = ConversationsOf(store),
           \A u \in DOMAIN store : u # o => id \notin DOMAIN store[u].conversations,
           DOMAIN after = DOMAIN store,
           \A u \in DOMAIN store : u # o => after[u].conversations = store[u].conversations,
           after[o].conversations = add(store[o].conversations, id, backup.version)
    PROVE  RestoredFrom(full, add(later, id, backup)) = ConversationsOf(after)
<1> DEFINE Latest(u, backups) ==
              [x \in DOMAIN full[u].conversations |->
                  IF x \in DOMAIN backups THEN backups[x].version
                                          ELSE full[u].conversations[x]]
           now == add(later, id, backup)
<1>1. DOMAIN full = DOMAIN store
    BY DEF RestoredFrom, ConversationsOf
<1>2. \A u \in DOMAIN store : store[u].conversations = Latest(u, later)
  <2>1. \A u \in DOMAIN store : RestoredFrom(full, later)[u] = Latest(u, later)
      BY <1>1 DEF RestoredFrom
  <2>2. \A u \in DOMAIN store : ConversationsOf(store)[u] = store[u].conversations
      BY DEF ConversationsOf
  <2> QED BY <2>1, <2>2
<1>3. /\ DOMAIN now = DOMAIN later \union {id} /\ now[id] = backup
      /\ \A x \in DOMAIN later : x # id => now[x] = later[x]
    BY DEF add
<1>4. \A u \in DOMAIN store : DOMAIN store[u].conversations = DOMAIN full[u].conversations
    BY <1>2
<1> HIDE DEF now
<1>5. \A u \in DOMAIN store : after[u].conversations = Latest(u, now)
  <2> SUFFICES ASSUME NEW u \in DOMAIN store
               PROVE  after[u].conversations = Latest(u, now)
      OBVIOUS
  <2>1. CASE u # o
    <3>1. id \notin DOMAIN full[u].conversations
        BY <1>4, <2>1
    <3>2. Latest(u, now) = Latest(u, later)
        BY <1>3, <3>1
    <3> QED BY <1>2, <2>1, <3>2
  <2>2. CASE u = o
    <3> DEFINE c == store[o].conversations
    <3>1. id \in DOMAIN c /\ DOMAIN c = DOMAIN full[o].conversations
        BY <1>4
    <3>2. \A x \in DOMAIN c : c[x] = IF x \in DOMAIN later THEN later[x].version
                                     ELSE full[o].conversations[x]
        BY <1>2, ZenonT(60)
    <3>3. after[o].conversations = add(c, id, backup.version)
        OBVIOUS
    <3> HIDE DEF c
    <3>4. add(c, id, backup.version)
            = [x \in DOMAIN c |-> IF x = id THEN backup.version ELSE c[x]]
      <4>1. DOMAIN c \union {id} = DOMAIN c
          BY <3>1
      <4> QED BY <4>1 DEF add
    <3>5. \A x \in DOMAIN c : (IF x = id THEN backup.version ELSE c[x])
             = IF x \in DOMAIN now THEN now[x].version ELSE full[o].conversations[x]
        BY <1>3, <3>2
    <3>6. [x \in DOMAIN c |-> IF x = id THEN backup.version ELSE c[x]] = Latest(o, now)
        BY <3>1, <3>5
    <3> QED BY <2>2, <3>3, <3>4, <3>6
  <2> QED BY <2>1, <2>2
<1>6. ConversationsOf(after) = [u \in DOMAIN store |-> Latest(u, now)]
    BY <1>5 DEF ConversationsOf
<1>7. RestoredFrom(full, now) = [u \in DOMAIN full |-> Latest(u, now)]
    BY DEF RestoredFrom
<1> QED BY <1>1, <1>6, <1>7 DEF now

\* molch_encrypt_message and molch_decrypt_message: the state that the call leaves
\* behind is on the disk, and is later than the one that it found.
LEMMA Advance ==
    ASSUME MolchInv, NEW id \in Conversations, advance(id)
    PROVE  /\ Core' /\ Forward /\ KeysStep /\ Advances(Current, Current')
           /\ \A u \in DOMAIN Current' :
                 id \in DOMAIN Current'[u] => version(id) < Current'[u][id]
<1> DEFINE o == owner(id)
           value == version(id) + 1
           backup == [key |-> global_backup_key, version |-> value]
<1>1. /\ Running /\ version(id) < MaxVersion
      /\ users' = withConversation(o, id, value)
      /\ disk' = [disk EXCEPT !.conversations =
                     add(@, id, [key |-> global_backup_key,
                                 version |-> users'[owner(id)].conversations[id]])]
      /\ global_backup_key' = global_backup_key /\ archive' = archive
      /\ phase' = phase /\ known_keys' = known_keys
      /\ forgotten_keys' = forgotten_keys /\ drawn' = drawn
      /\ unsaved' = unsaved /\ terminated' = terminated
    BY DEF advance, export_conversation
<1>2. /\ Core /\ StrongTypeOK /\ phase = "running" /\ users \in UserStore
      /\ drawn \in Counts
    BY <1>1 DEF MolchInv, Core, Running, StrongTypeOK, Counts
<1>3. /\ o \in DOMAIN users /\ id \in DOMAIN users[o].conversations
      /\ id \in 1..MaxConversations /\ version(id) \in 1..MaxVersion
      /\ version(id) = users[o].conversations[id]
    BY <1>2, ConversationOwner DEF version
<1>4. value \in 1..MaxVersion /\ version(id) \in Nat /\ value \in Nat
    BY <1>1, <1>3, MolchAssumption
<1>5. value = version(id) + 1
    OBVIOUS
<1> HIDE DEF o, value
<1>6. /\ users' \in UserStore
      /\ DOMAIN users' = DOMAIN users
      /\ \A v \in DOMAIN users : users'[v].prekeys = users[v].prekeys
      /\ \A v \in DOMAIN users :
            v # o => users'[v].conversations = users[v].conversations
      /\ users'[o].conversations = add(users[o].conversations, id, value)
    BY <1>1, <1>2, <1>3, <1>4, WithConversation
<1>7. /\ DOMAIN users'[o].conversations = DOMAIN users[o].conversations
      /\ users'[o].conversations[id] = value
      /\ \A x \in DOMAIN users[o].conversations :
            x # id => users'[o].conversations[x] = users[o].conversations[x]
    BY <1>3, <1>6 DEF add
<1>8. /\ disk'.full = disk.full
      /\ disk'.conversations = add(disk.conversations, id, backup)
  <2>1. disk' = [disk EXCEPT !.conversations = add(@, id, backup)]
      BY <1>1, <1>7 DEF o
  <2> HIDE DEF backup
  <2> QED BY <1>2, <2>1 DEF StrongTypeOK
<1>9. global_backup_key \in 1..drawn.keys /\ drawn.keys \in 0..MaxKeys
  <2>1. users # Nothing
      BY <1>3, EmptyStore
  <2>2. global_backup_key # nullptr
      BY <1>2, <2>1 DEF Core, KeyWhileUsers
  <2>3. drawn.keys \in 0..MaxKeys
      BY <1>2 DEF Counts
  <2> QED BY <1>2, <2>2, <2>3, MolchAssumption DEF Core, KeysAccounted, nullptr
<1>10. /\ DOMAIN disk'.conversations = DOMAIN disk.conversations \union {id}
       /\ disk'.conversations[id] = backup
       /\ \A x \in DOMAIN disk.conversations :
             x # id => disk'.conversations[x] = disk.conversations[x]
       /\ disk'.conversations
            = [x \in DOMAIN disk'.conversations |-> disk'.conversations[x]]
  <2> HIDE DEF backup
  <2> QED BY <1>8 DEF add
<1>11. KeysStep
    BY <1>1, <1>2, SameKeys
<1>12. StrongTypeOK'
  <2>1. backup \in ConversationBackup
      BY <1>4, <1>9, MolchAssumption DEF ConversationBackup
  <2>2. /\ DOMAIN disk.conversations \subseteq 1..MaxConversations
        /\ \A x \in DOMAIN disk.conversations : disk.conversations[x] \in ConversationBackup
      BY <1>2 DEF StrongTypeOK, ConversationBackups
  <2> HIDE DEF backup
  <2>3. /\ DOMAIN disk'.conversations \subseteq 1..MaxConversations
        /\ \A x \in DOMAIN disk'.conversations : disk'.conversations[x] \in ConversationBackup
      BY <1>3, <1>10, <2>1, <2>2
  <2>4. disk'.conversations \in ConversationBackups
      BY <1>10, <2>3 DEF ConversationBackups
  <2>5. disk' \in [full : [key : 0..MaxKeys, users : UserStore],
                   conversations : ConversationBackups]
    <3>1. disk' = [full |-> disk.full, conversations |-> disk'.conversations]
      <4>1. disk = [full |-> disk.full, conversations |-> disk.conversations]
          BY <1>2 DEF StrongTypeOK
      <4> QED BY <1>1, <4>1
    <3>2. disk.full \in [key : 0..MaxKeys, users : UserStore]
        BY <1>2 DEF StrongTypeOK
    <3> QED BY <2>4, <3>1, <3>2
  <2> QED BY <1>1, <1>2, <1>6, <2>5 DEF StrongTypeOK
<1>13. Orderly(users, drawn)' /\ Orderly(disk.full.users, drawn)'
  <2>1. Orderly(users, drawn) /\ Orderly(disk.full.users, drawn)
      BY <1>2 DEF Core
  <2>2. \A v \in DOMAIN users :
           DOMAIN users'[v].conversations = DOMAIN users[v].conversations
      BY <1>6, <1>7
  <2>3. Orderly(users', drawn')
      BY <1>1, <1>6, <2>1, <2>2 DEF Orderly
  <2> QED BY <1>1, <1>8, <2>1, <2>3
<1>14. KeysAccounted'
  <2>1. \A x \in DOMAIN disk'.conversations : disk'.conversations[x].key \in 1..drawn.keys
      BY <1>2, <1>9, <1>10 DEF Core, KeysAccounted
  <2> QED BY <1>1, <1>2, <1>8, <2>1 DEF Core, KeysAccounted
<1>15. KeyWhileUsers' /\ PhaseOK'
    BY <1>1, <1>2, <1>9 DEF KeyWhileUsers, PhaseOK, nullptr
<1>16. \A v \in DOMAIN users : v # o => id \notin DOMAIN users[v].conversations
    BY <1>2, <1>3 DEF Core, Orderly
<1>17. CrashLosesNothing'
  <2>1. RestoredFrom(disk.full.users, disk.conversations) = ConversationsOf(users)
      BY <1>2 DEF Core, CrashLosesNothing, Restored, RestoredFrom, ConversationsOf
  <2>2. backup.version = value
      OBVIOUS
  <2>3. RestoredFrom(disk.full.users, add(disk.conversations, id, backup))
          = ConversationsOf(users')
    <3> HIDE DEF backup
    <3> QED BY <1>3, <1>6, <1>16, <2>1, <2>2, RestoredAdvanced
  <2>4. Restored' = [u \in DOMAIN users' |-> users'[u].conversations]
    <3>1. Restored' = RestoredFrom(disk'.full.users, disk'.conversations)
        BY DEF Restored, RestoredFrom
    <3>2. disk'.full.users = disk.full.users
        BY <1>8
    <3> HIDE DEF backup
    <3> QED BY <1>8, <2>3, <3>1, <3>2 DEF ConversationsOf
  <2>5. \A u \in DOMAIN users' \ unsaved' : users'[u].prekeys = disk'.full.users[u].prekeys
      BY <1>1, <1>2, <1>6, <1>8 DEF Core, CrashLosesNothing
  <2>6. {disk'.full.key} \union {disk'.conversations[x].key :
                                   x \in DOMAIN disk'.conversations}
          \subseteq known_keys' \union forgotten_keys'
    <3>1. users # Nothing
        BY <1>3, EmptyStore
    <3>2. /\ disk.full.key \in known_keys \union forgotten_keys
          /\ \A x \in DOMAIN disk.conversations :
                disk.conversations[x].key \in known_keys \union forgotten_keys
        BY <1>2, <3>1 DEF Core, CrashLosesNothing
    <3>3. backup.key \in known_keys \union forgotten_keys
        BY <1>2, <1>9 DEF Core, KeysAccounted
    <3> HIDE DEF backup
    <3>4. \A x \in DOMAIN disk'.conversations :
             disk'.conversations[x].key \in known_keys \union forgotten_keys
        BY <1>10, <3>2, <3>3
    <3> QED BY <1>1, <1>8, <3>2, <3>4
  <2> QED BY <2>4, <2>5, <2>6 DEF CrashLosesNothing
<1>18. /\ Current = ConversationsOf(users) /\ Current' = ConversationsOf(users')
    BY <1>1, <1>2 DEF Current, ConversationsOf
<1>19. /\ DOMAIN Current = DOMAIN users /\ DOMAIN Current' = DOMAIN users
       /\ \A v \in DOMAIN users : Current[v] = users[v].conversations
       /\ \A v \in DOMAIN users : Current'[v] = users'[v].conversations
    BY <1>6, <1>18 DEF ConversationsOf
<1>20. Forward
  <2> SUFFICES ASSUME NEW u \in DOMAIN Current', NEW x \in DOMAIN Current'[u]
               PROVE  /\ x \in DOMAIN Current[u]
                      /\ Current'[u][x] \in Nat
                      /\ Current[u][x] <= Current'[u][x]
      BY <1>2, <1>19, CurrentType DEF Forward
  <2>1. CASE u # o
      BY <1>2, <1>6, <1>19, <2>1, CurrentType
  <2>2. CASE u = o /\ x # id
      BY <1>2, <1>3, <1>7, <1>19, <2>2, CurrentType
  <2>3. CASE u = o /\ x = id
      BY <1>3, <1>4, <1>5, <1>7, <1>19, <2>3
  <2> QED BY <2>1, <2>2, <2>3
<1>21. Advances(Current, Current')
  <2> DEFINE c == users[o].conversations
  <2>1. Current' = [Current EXCEPT ![o] = add(c, id, value)]
      BY <1>3, <1>6, <1>18, <1>19 DEF ConversationsOf
  <2>2. c = [x \in DOMAIN c |-> c[x]]
    <3>1. c \in ConversationStore
        BY <1>2, <1>3, UserStoreShape DEF User
    <3> QED BY <3>1, ConversationStoreShape
  <2>3. id \in DOMAIN c /\ c[id] = version(id) /\ Current[o] = c
      BY <1>3, <1>19
  <2> HIDE DEF c
  <2>4. add(c, id, value) = [c EXCEPT ![id] = @ + 1]
    <3>1. DOMAIN c \union {id} = DOMAIN c
        BY <2>3
    <3> QED BY <1>5, <2>2, <2>3, <3>1 DEF add
  <2>5. Current' = [Current EXCEPT ![o][id] = @ + 1]
      BY <2>1, <2>3, <2>4
  <2> QED BY <1>3, <1>19, <2>3, <2>5 DEF Advances
<1>22. \A u \in DOMAIN Current' :
          id \in DOMAIN Current'[u] => version(id) < Current'[u][id]
  <2> SUFFICES ASSUME NEW u \in DOMAIN Current', id \in DOMAIN Current'[u]
               PROVE  version(id) < Current'[u][id]
      OBVIOUS
  <2>1. u = o
      BY <1>6, <1>16, <1>19
  <2> QED BY <1>3, <1>4, <1>5, <1>7, <1>19, <2>1
<1> QED BY <1>11, <1>12, <1>13, <1>14, <1>15, <1>17, <1>20, <1>21, <1>22,
           <1>6, <1>1 DEF Core

\* molch_encrypt_message
LEMMA EncryptMessage ==
    ASSUME MolchInv, NEW id \in Conversations, encryptMessage(id) PROVE Good
<1>1. advance(id) /\ encrypted' = encrypted \union {<<id, version(id)>>}
    BY DEF encryptMessage
<1>2. /\ Core' /\ Forward /\ KeysStep /\ Advances(Current, Current')
      /\ \A u \in DOMAIN Current' :
            id \in DOMAIN Current'[u] => version(id) < Current'[u][id]
    BY <1>1, Advance
<1>3. /\ EncryptedBefore /\ users \in UserStore /\ Orderly(users, drawn)
      /\ forgotten_keys' = forgotten_keys /\ drawn' = drawn
    BY <1>1 DEF MolchInv, StrongTypeOK, advance
<1>4. version(id) \in Nat /\ id \in 1..drawn'.conversations
  <2>1. /\ owner(id) \in DOMAIN users /\ id \in DOMAIN users[owner(id)].conversations
        /\ version(id) \in 1..MaxVersion
      BY <1>3, ConversationOwner
  <2> QED BY <1>3, <2>1, MolchAssumption DEF Orderly
<1>5. EncryptedBefore'
    BY <1>1, <1>2, <1>3, <1>4, EncryptedOne DEF KeysStep
<1> QED BY <1>2, <1>5 DEF Good, CallStep

\* molch_decrypt_message
LEMMA DecryptMessage ==
    ASSUME MolchInv, NEW id \in Conversations, decryptMessage(id) PROVE Good
<1>1. advance(id) /\ encrypted' = encrypted
    BY DEF decryptMessage
<1>2. Core' /\ Forward /\ KeysStep /\ Advances(Current, Current')
    BY <1>1, Advance
<1>3. EncryptedBefore /\ forgotten_keys' = forgotten_keys
    BY <1>1 DEF MolchInv, advance
<1>4. EncryptedBefore'
    BY <1>1, <1>2, <1>3, EncryptedLater DEF KeysStep
<1> QED BY <1>2, <1>4 DEF Good, CallStep

\* molch_end_conversation
LEMMA EndConversation ==
    ASSUME MolchInv, NEW id \in Conversations, endConversation(id) PROVE Good
<1> DEFINE o == owner(id)
           c == remove(users[o].conversations, id)
           r == [users[o] EXCEPT !.conversations = c]
<1>1. /\ Running /\ users' = [users EXCEPT ![o].conversations = c] /\ export_all
      /\ global_backup_key' = global_backup_key
      /\ archive' = archive /\ phase' = phase /\ known_keys' = known_keys
      /\ forgotten_keys' = forgotten_keys /\ drawn' = drawn /\ encrypted' = encrypted
    BY DEF endConversation
<1>2. /\ Core /\ EncryptedBefore /\ StrongTypeOK /\ phase = "running"
      /\ drawn \in Counts /\ users \in UserStore
    BY <1>1 DEF MolchInv, Core, Running, StrongTypeOK, Counts
<1>3. o \in DOMAIN users /\ id \in DOMAIN users[o].conversations
    BY <1>2, ConversationOwner
<1>4. users[o] \in User /\ users[o].conversations \in ConversationStore
    BY <1>2, <1>3, UserStoreShape DEF User
<1>5. /\ c \in ConversationStore
      /\ DOMAIN c = DOMAIN users[o].conversations \ {id}
      /\ \A x \in DOMAIN c : c[x] = users[o].conversations[x]
      /\ c = Restrict(users[o].conversations, DOMAIN users[o].conversations \ {id})
  <2>1. c \in ConversationStore
      BY <1>4, RemoveConversation
  <2> QED BY <2>1 DEF remove, Restrict
<1>6. users' = [users EXCEPT ![o] = r]
    BY <1>1
<1> HIDE DEF c, o
<1>7. r \in User /\ r.conversations = c
    BY <1>4, <1>5, ReplaceConversations
<1> HIDE DEF r
<1>8. /\ users' \in UserStore
      /\ DOMAIN users' = DOMAIN users
      /\ users'[o].conversations = c
      /\ \A v \in DOMAIN users : v # o => users'[v] = users[v]
    BY <1>2, <1>3, <1>6, <1>7, ReplaceInUsers
<1>9. KeysStep
    BY <1>1, <1>2, SameKeys
<1>10. Orderly(users', drawn')
  <2>1. \A v \in DOMAIN users :
           DOMAIN users'[v].conversations \subseteq DOMAIN users[v].conversations
      BY <1>5, <1>8
  <2>2. Orderly(users, drawn)
      BY <1>2 DEF Core
  <2> QED BY <1>1, <1>8, <2>1, <2>2 DEF Orderly
<1>11. global_backup_key' # nullptr
    BY <1>1, <1>2, <1>3, EmptyStore DEF Core, KeyWhileUsers
<1>12. Core'
    BY <1>1, <1>2, <1>8, <1>9, <1>10, <1>11, Exported
<1>13. Current = ConversationsOf(users) /\ Current' = ConversationsOf(users')
    BY <1>1, <1>2 DEF Current, ConversationsOf
<1>14. /\ DOMAIN Current = DOMAIN users /\ DOMAIN Current' = DOMAIN users
       /\ \A v \in DOMAIN users : Current[v] = users[v].conversations
       /\ \A v \in DOMAIN users : v # o => Current'[v] = Current[v]
       /\ Current'[o] = c
    BY <1>3, <1>8, <1>13 DEF ConversationsOf
<1>15. Forward
  <2> SUFFICES ASSUME NEW u \in DOMAIN Current', NEW x \in DOMAIN Current'[u]
               PROVE  x \in DOMAIN Current[u] /\ Current'[u][x] = Current[u][x]
      BY <1>2, <1>14, CurrentType DEF Forward
  <2> QED BY <1>5, <1>14
<1>16. EncryptedBefore'
    BY <1>1, <1>2, <1>9, <1>15, EncryptedLater DEF KeysStep
<1>17. Destroys(Current, Current')
  <2>1. c = Restrict(Current[o], DOMAIN Current[o] \ {id})
      BY <1>3, <1>5, <1>14
  <2>2. Current' = [Current EXCEPT ![o] = c]
      BY <1>3, <1>8, <1>13, <1>14 DEF ConversationsOf
  <2>3. o \in DOMAIN Current /\ id \in DOMAIN Current[o]
      BY <1>3, <1>14
  <2>4. Current' = [Current EXCEPT ![o] = Restrict(@, DOMAIN @ \ {id})]
      BY <2>1, <2>2, <2>3
  <2> QED BY <2>3, <2>4 DEF Destroys
<1> QED BY <1>12, <1>16, <1>17 DEF Good, CallStep

\* molch_export
LEMMA ExportAll ==
    ASSUME MolchInv, exportAll PROVE Good
<1>1. /\ Running /\ users' = users /\ export_all
      /\ global_backup_key' = global_backup_key
      /\ archive' = archive /\ phase' = phase /\ known_keys' = known_keys
      /\ forgotten_keys' = forgotten_keys /\ drawn' = drawn /\ encrypted' = encrypted
    BY DEF exportAll, library
<1>2. /\ Core /\ EncryptedBefore /\ phase = "running"
      /\ drawn \in Counts /\ users \in UserStore
    BY <1>1 DEF MolchInv, Core, Running, StrongTypeOK, Counts
<1>3. KeysStep
    BY <1>1, <1>2, SameKeys
<1>4. Orderly(users', drawn')
    BY <1>1, <1>2 DEF Core
<1>5. global_backup_key' = nullptr => users = Nothing /\ users' = Nothing
    BY <1>1, <1>2 DEF Core, KeyWhileUsers
<1>6. Core'
    BY <1>1, <1>2, <1>3, <1>4, <1>5, Exported
<1>7. Current' = Current
    BY <1>1, <1>2 DEF Current
<1>8. EncryptedBefore'
    BY <1>1, <1>2, <1>3, <1>6, <1>7, QuietInv DEF KeysStep
<1> QED BY <1>6, <1>7, <1>8 DEF Good, CallStep

\* molch_conversation_export
LEMMA ExportConversation ==
    ASSUME MolchInv, NEW id \in Conversations, exportConversation(id) PROVE Good
<1>1. /\ Running
      /\ archive' =
            {[id |-> id, key |-> global_backup_key, version |-> version(id)]}
      /\ users' = users /\ global_backup_key' = global_backup_key /\ disk' = disk
      /\ phase' = phase /\ known_keys' = known_keys /\ forgotten_keys' = forgotten_keys
      /\ drawn' = drawn /\ unsaved' = unsaved /\ encrypted' = encrypted
      /\ terminated' = terminated
    BY DEF exportConversation, library, history
<1>2. /\ Core /\ EncryptedBefore /\ drawn \in Counts /\ users \in UserStore
      /\ unsaved \subseteq 1..MaxUsers
    BY DEF MolchInv, Core, StrongTypeOK, Counts
<1>3. KeysStep
    BY <1>1, <1>2, SameKeys
<1>4. archive' \subseteq [id : 1..MaxConversations, key : 0..MaxKeys,
                          version : 1..MaxVersion]
  <2>1. id \in 1..MaxConversations /\ version(id) \in 1..MaxVersion
      BY <1>2, ConversationOwner
  <2>2. global_backup_key \in 0..MaxKeys
      BY <1>2, MolchAssumption DEF Core, KeysAccounted, Counts
  <2> QED BY <1>1, <2>1, <2>2
<1>5. Core' /\ Current' = Current
    BY <1>1, <1>2, <1>3, <1>4, Quiet
<1>6. EncryptedBefore'
    BY <1>1, <1>2, <1>3, <1>5, QuietInv DEF KeysStep
<1> QED BY <1>5, <1>6 DEF Good, CallStep

\* molch_update_backup_key
LEMMA UpdateBackupKey ==
    ASSUME MolchInv, updateBackupKey PROVE Good
<1>1. /\ Running /\ update_backup_key
      /\ drawn' = [drawn EXCEPT !.keys = @ + 1]
      /\ users' = users /\ disk' = disk /\ archive' = archive
      /\ phase' = phase /\ forgotten_keys' = forgotten_keys
      /\ unsaved' = unsaved /\ encrypted' = encrypted /\ terminated' = terminated
    BY DEF updateBackupKey
<1>2. /\ Core /\ EncryptedBefore /\ StrongTypeOK /\ users \in UserStore
    BY DEF MolchInv, Core, StrongTypeOK
<1>3. KeysStep /\ global_backup_key' # nullptr /\ known_keys \subseteq known_keys'
    BY <1>1, <1>2, DrawKey
<1>4. Core' /\ Current' = Current
    BY <1>1, <1>2, <1>3, Quiet DEF StrongTypeOK
<1>5. EncryptedBefore'
    BY <1>1, <1>2, <1>3, <1>4, QuietInv DEF KeysStep
<1> QED BY <1>4, <1>5 DEF Good, CallStep

\* molch_conversation_import of the state that the conversation is in
LEMMA ImportConversation ==
    ASSUME MolchInv, NEW backup \in archive, importConversation(backup) PROVE Good
<1> DEFINE id == backup.id
           o == owner(id)
<1>1. /\ Running /\ owners(id) # {} /\ users' = withConversation(o, id, backup.version)
      /\ update_backup_key /\ drawn' = [drawn EXCEPT !.keys = @ + 1]
      /\ backup.version = version(id)
      /\ disk' = disk /\ archive' = archive
      /\ phase' = phase /\ forgotten_keys' = forgotten_keys
      /\ unsaved' = unsaved /\ encrypted' = encrypted /\ terminated' = terminated
    BY DEF importConversation, import_conversation
<1>2. /\ Core /\ EncryptedBefore /\ StrongTypeOK /\ users \in UserStore
      /\ backup.id \in 1..MaxConversations /\ backup.version \in 1..MaxVersion
    BY DEF MolchInv, Core, StrongTypeOK
<1>3. KeysStep /\ global_backup_key' # nullptr /\ known_keys \subseteq known_keys'
    BY <1>1, <1>2, DrawKey
<1>4. o \in DOMAIN users /\ id \in DOMAIN users[o].conversations
    BY <1>1, Owner
<1>5. version(id) = users[o].conversations[id]
    BY DEF version
<1> HIDE DEF o
<1>6. /\ users' \in UserStore
      /\ DOMAIN users' = DOMAIN users
      /\ \A v \in DOMAIN users : users'[v].prekeys = users[v].prekeys
      /\ \A v \in DOMAIN users :
            v # o => users'[v].conversations = users[v].conversations
      /\ users'[o].conversations = add(users[o].conversations, id, backup.version)
    BY <1>1, <1>2, <1>4, WithConversation
<1>7. \A v \in DOMAIN users : users'[v].conversations = users[v].conversations
  <2> DEFINE c == users[o].conversations
  <2>1. c = [x \in DOMAIN c |-> c[x]]
    <3>1. c \in ConversationStore
        BY <1>2, <1>4, UserStoreShape DEF User
    <3> QED BY <3>1, ConversationStoreShape
  <2>2. id \in DOMAIN c /\ c[id] = backup.version
      BY <1>1, <1>4, <1>5
  <2> HIDE DEF c, id
  <2>3. add(c, id, backup.version) = c
    <3>1. DOMAIN c \union {id} = DOMAIN c
        BY <2>2
    <3> QED BY <2>1, <2>2, <3>1 DEF add
  <2> QED BY <1>6, <2>3 DEF c
<1> HIDE DEF id
<1>8. Core' /\ Current' = Current
  <2>1. /\ unsaved' \subseteq 1..MaxUsers
        /\ archive' \subseteq [id : 1..MaxConversations, key : 0..MaxKeys,
                               version : 1..MaxVersion]
      BY <1>1, <1>2 DEF StrongTypeOK
  <2> QED BY <1>1, <1>2, <1>3, <1>6, <1>7, <2>1, Quiet
<1>9. EncryptedBefore'
    BY <1>1, <1>2, <1>3, <1>8, QuietInv DEF KeysStep
<1> QED BY <1>8, <1>9 DEF Good, CallStep

\* A crash, or molch_destroy_all_users: the application still has what it had.
LEMMA Stops ==
    ASSUME MolchInv, users' = Nothing, phase' = "starting", unsaved' = {},
           global_backup_key' \in {global_backup_key, nullptr},
           terminated' \in BOOLEAN, disk' = disk, archive' = archive,
           known_keys' = known_keys, forgotten_keys' = forgotten_keys,
           drawn' = drawn, encrypted' = encrypted
    PROVE  Good
<1>1. Core /\ EncryptedBefore /\ StrongTypeOK /\ drawn \in Counts
    BY DEF MolchInv, Core, StrongTypeOK, Counts
<1>2. StrongTypeOK'
    BY <1>1, EmptyStore DEF StrongTypeOK
<1>3. Orderly(users, drawn)' /\ Orderly(disk.full.users, drawn)'
    BY <1>1, EmptyStore DEF Core, Orderly
<1>4. Grows(drawn, drawn')
  <2>1. drawn.users \in Nat /\ drawn.keys \in Nat /\ drawn.conversations \in Nat
      BY <1>1, MolchAssumption DEF Counts
  <2> QED BY <1>1, <2>1 DEF Grows
<1>5. KeysAccounted'
  <2>1. drawn.keys \in Nat
      BY <1>1, MolchAssumption DEF Counts
  <2>2. nullptr \in 0..drawn.keys
      BY <2>1 DEF nullptr
  <2> QED BY <1>1, <2>2 DEF Core, KeysAccounted
<1>6. KeyWhileUsers' /\ PhaseOK' /\ CrashLosesNothing'
    BY DEF KeyWhileUsers, PhaseOK, CrashLosesNothing
<1>7. Core'
    BY <1>2, <1>3, <1>5, <1>6 DEF Core
<1>8. Current' = Current
  <2>1. Current = Restored
      BY <1>1 DEF Core, CrashLosesNothing, Current
  <2>2. Restored' = Restored
      BY DEF Restored
  <2>3. Current' = Restored'
      BY DEF Current
  <2> QED BY <2>1, <2>2, <2>3
<1>9. EncryptedBefore'
    BY <1>1, <1>4, <1>7, <1>8, QuietInv
<1> QED BY <1>7, <1>8, <1>9 DEF Good, CallStep

\* The start without a backup that can be read: only after a key was forgotten can
\* there have been anything in it.
LEMMA StartEmpty ==
    ASSUME MolchInv, startEmpty PROVE Good
<1>1. /\ phase = "starting" /\ disk.full.key \notin known_keys /\ phase' = "running"
      /\ disk' = [full |-> NoBackup, conversations |-> Nothing]
      /\ users' = users /\ global_backup_key' = global_backup_key
      /\ archive' = archive /\ known_keys' = known_keys
      /\ forgotten_keys' = forgotten_keys /\ drawn' = drawn /\ unsaved' = unsaved
      /\ encrypted' = encrypted /\ terminated' = terminated
    BY DEF startEmpty, library, history
<1>2. /\ Core /\ EncryptedBefore /\ StrongTypeOK /\ drawn \in Counts /\ users = Nothing
      /\ drawn.keys \in Nat
    BY <1>1, MolchAssumption DEF MolchInv, Core, StrongTypeOK, Counts, PhaseOK
<1>3. /\ disk'.full.key = 0 /\ disk'.full.users = Nothing
      /\ disk'.conversations = Nothing
    BY <1>1 DEF NoBackup, nullptr
<1>4. StrongTypeOK'
  <2>1. disk' \in [full : [key : 0..MaxKeys, users : UserStore],
                   conversations : ConversationBackups]
    <3>1. 0 \in 0..MaxKeys
        BY MolchAssumption
    <3> QED BY <1>1, <3>1, EmptyStore DEF NoBackup, nullptr
  <2> QED BY <1>1, <1>2, <2>1 DEF StrongTypeOK
<1>5. Orderly(users, drawn)' /\ Orderly(disk.full.users, drawn)'
    BY <1>1, <1>2, <1>3, EmptyStore DEF Orderly
<1>6. Grows(drawn, drawn')
  <2>1. drawn.users \in Nat /\ drawn.keys \in Nat /\ drawn.conversations \in Nat
      BY <1>2, MolchAssumption DEF Counts
  <2> QED BY <1>1, <1>2, <2>1 DEF Grows
<1>7. KeysAccounted'
  <2>1. 0 \in 0..drawn.keys
      BY <1>2
  <2> QED BY <1>1, <1>2, <1>3, <2>1, EmptyStore DEF Core, KeysAccounted
<1>8. KeyWhileUsers' /\ PhaseOK'
    BY <1>1, <1>2 DEF KeyWhileUsers, PhaseOK
<1>9. Current' = ConversationsOf(Nothing)
    BY <1>1, <1>2 DEF Current, ConversationsOf
<1>10. RestoredFrom(Nothing, Nothing) = ConversationsOf(Nothing)
    BY EmptyStore, RestoredFull
<1>11. CrashLosesNothing'
  <2>1. Restored' = RestoredFrom(disk'.full.users, disk'.conversations)
      BY DEF Restored, RestoredFrom
  <2>2. Restored' = ConversationsOf(users')
      BY <1>1, <1>2, <1>3, <1>10, <2>1
  <2>3. DOMAIN users' = {}
      BY <1>1, <1>2, EmptyStore
  <2> QED BY <1>1, <1>2, <2>2, <2>3 DEF CrashLosesNothing, ConversationsOf
<1>12. Core'
    BY <1>4, <1>5, <1>7, <1>8, <1>11 DEF Core
<1>13. ASSUME forgotten_keys' = {} PROVE Current' = Current
  <2>1. known_keys = 1..drawn.keys
      BY <1>1, <1>2, <1>13 DEF Core, KeysAccounted
  <2>2. disk.full.key = 0
      BY <1>1, <1>2, <2>1 DEF Core, KeysAccounted
  <2>3. disk.full.users = Nothing
      BY <1>2, <2>2 DEF Core, KeysAccounted, nullptr
  <2>4. Current = [u \in {} |-> 0]
    <3>1. Current = Restored /\ DOMAIN disk.full.users = {}
        BY <1>1, <2>3, EmptyStore DEF Current
    <3> QED BY <3>1 DEF Restored
  <2>5. ConversationsOf(Nothing) = [u \in {} |-> 0]
      BY EmptyStore DEF ConversationsOf
  <2> QED BY <1>9, <2>4, <2>5
<1>14. EncryptedBefore'
  <2>1. forgotten_keys' = {} => Forward
      BY <1>2, <1>13, CurrentType, SameForward
  <2> QED BY <1>1, <1>2, <1>6, <2>1, EncryptedLater
<1> QED BY <1>12, <1>13, <1>14 DEF Good, CallStep

\* molch_import: what the application would have after importing everything stays
\* the same.
LEMMA ImportAll ==
    ASSUME MolchInv, importAll PROVE Good
<1>1. /\ phase = "starting" /\ users' = disk.full.users /\ update_backup_key
      /\ drawn' = [drawn EXCEPT !.keys = @ + 1] /\ phase' = "importing"
      /\ disk' = disk /\ archive' = archive /\ forgotten_keys' = forgotten_keys
      /\ unsaved' = unsaved /\ encrypted' = encrypted /\ terminated' = terminated
    BY DEF importAll, import_all
<1>2. Core /\ EncryptedBefore /\ StrongTypeOK
    BY DEF MolchInv, Core
<1>3. KeysStep /\ global_backup_key' # nullptr
    BY <1>1, <1>2, DrawKey
<1>4. Grows(drawn, drawn') /\ drawn' \in Counts
    BY <1>3 DEF KeysStep, Grows
<1>5. StrongTypeOK'
    BY <1>1, <1>2, <1>4 DEF StrongTypeOK, Counts
<1>6. Orderly(users, drawn)' /\ Orderly(disk.full.users, drawn)'
    BY <1>1, <1>2, <1>4, OrderlyLater DEF Core
<1>7. KeysAccounted'
  <2>1. drawn.keys \in Nat /\ drawn'.keys \in Nat /\ drawn.keys <= drawn'.keys
      BY <1>4, MolchAssumption DEF Grows, Counts
  <2> QED BY <1>1, <1>2, <1>3, <2>1 DEF Core, KeysAccounted, KeysStep
<1>8. KeyWhileUsers' /\ PhaseOK' /\ CrashLosesNothing'
    BY <1>1, <1>3 DEF KeyWhileUsers, PhaseOK, CrashLosesNothing
<1>9. Core'
    BY <1>5, <1>6, <1>7, <1>8 DEF Core
<1>10. Current' = Current
  <2>1. Restored' = Restored
      BY <1>1 DEF Restored
  <2> QED BY <1>1, <2>1 DEF Current
<1>11. EncryptedBefore'
    BY <1>1, <1>2, <1>4, <1>9, <1>10, QuietInv
<1> QED BY <1>9, <1>10, <1>11 DEF Good, CallStep

\* molch_conversation_import of a later state, after molch_import
LEMMA ImportLaterConversation ==
    ASSUME MolchInv, NEW id \in ToImport, importLaterConversation(id) PROVE Good
<1> DEFINE o == owner(id)
           value == disk.conversations[id].version
<1>1. /\ phase = "importing" /\ owners(id) # {}
      /\ users' = withConversation(o, id, value)
      /\ update_backup_key /\ drawn' = [drawn EXCEPT !.keys = @ + 1]
      /\ disk' = disk /\ archive' = archive /\ phase' = phase
      /\ forgotten_keys' = forgotten_keys
      /\ unsaved' = unsaved /\ encrypted' = encrypted /\ terminated' = terminated
    BY DEF importLaterConversation, import_conversation
<1>2. Core /\ EncryptedBefore /\ StrongTypeOK /\ users \in UserStore
    BY DEF MolchInv, Core, StrongTypeOK
<1>3. KeysStep /\ global_backup_key' # nullptr
    BY <1>1, <1>2, DrawKey
<1>4. Grows(drawn, drawn') /\ drawn' \in Counts
    BY <1>3 DEF KeysStep, Grows
<1>5. /\ o \in DOMAIN users /\ id \in DOMAIN users[o].conversations
      /\ id \in DOMAIN disk.conversations
    BY <1>1, Owner DEF ToImport
<1>6. id \in 1..MaxConversations /\ value \in 1..MaxVersion
    BY <1>2, <1>5 DEF StrongTypeOK, ConversationBackups, ConversationBackup
<1> HIDE DEF o
<1>7. /\ users' \in UserStore
      /\ DOMAIN users' = DOMAIN users
      /\ \A v \in DOMAIN users :
            v # o => users'[v].conversations = users[v].conversations
      /\ users'[o].conversations = add(users[o].conversations, id, value)
  <2> HIDE DEF value
  <2> QED BY <1>1, <1>2, <1>5, <1>6, WithConversation
<1>8. /\ DOMAIN users'[o].conversations = DOMAIN users[o].conversations
      /\ users'[o].conversations[id] = value
      /\ \A x \in DOMAIN users[o].conversations :
            x # id => users'[o].conversations[x] = users[o].conversations[x]
    BY <1>5, <1>7 DEF add
<1>9. StrongTypeOK'
    BY <1>1, <1>2, <1>4, <1>7 DEF StrongTypeOK, Counts
<1>10. Orderly(users, drawn)' /\ Orderly(disk.full.users, drawn)'
  <2>1. Orderly(users, drawn') /\ Orderly(disk.full.users, drawn')
      BY <1>2, <1>4, OrderlyLater DEF Core
  <2>2. \A v \in DOMAIN users :
           DOMAIN users'[v].conversations = DOMAIN users[v].conversations
      BY <1>7, <1>8
  <2>3. Orderly(users', drawn')
      BY <1>7, <2>1, <2>2 DEF Orderly
  <2> QED BY <1>1, <2>1, <2>3
<1>11. KeysAccounted'
  <2>1. drawn.keys \in Nat /\ drawn'.keys \in Nat /\ drawn.keys <= drawn'.keys
      BY <1>4, MolchAssumption DEF Grows, Counts
  <2> QED BY <1>1, <1>2, <1>3, <2>1 DEF Core, KeysAccounted, KeysStep
<1>12. PhaseOK'
  <2>1. /\ DOMAIN users = DOMAIN disk.full.users
        /\ \A u \in DOMAIN users :
              /\ DOMAIN users[u].conversations = DOMAIN disk.full.users[u].conversations
              /\ \A x \in DOMAIN users[u].conversations :
                    \/ users[u].conversations[x] = disk.full.users[u].conversations[x]
                    \/ /\ x \in DOMAIN disk.conversations
                       /\ users[u].conversations[x] = disk.conversations[x].version
      BY <1>1, <1>2 DEF Core, PhaseOK
  <2>2. /\ phase' = "importing" /\ global_backup_key' # nullptr /\ disk' = disk
        /\ DOMAIN users' = DOMAIN users
      BY <1>1, <1>3, <1>7
  <2> SUFFICES ASSUME NEW u \in DOMAIN users
               PROVE  /\ DOMAIN users'[u].conversations
                           = DOMAIN disk.full.users[u].conversations
                      /\ \A x \in DOMAIN users'[u].conversations :
                            \/ users'[u].conversations[x]
                                 = disk.full.users[u].conversations[x]
                            \/ /\ x \in DOMAIN disk.conversations
                               /\ users'[u].conversations[x]
                                    = disk.conversations[x].version
      BY <2>1, <2>2 DEF PhaseOK
  <2>3. CASE u # o
      BY <1>7, <2>1, <2>3
  <2>4. CASE u = o
      BY <1>5, <1>8, <2>1, <2>4
  <2> QED BY <2>3, <2>4
<1>13. KeyWhileUsers' /\ CrashLosesNothing'
    BY <1>1, <1>3 DEF KeyWhileUsers, CrashLosesNothing
<1>14. Core'
    BY <1>9, <1>10, <1>11, <1>12, <1>13 DEF Core
<1>15. Current' = Current
  <2>1. Restored' = Restored
      BY <1>1 DEF Restored
  <2> QED BY <1>1, <2>1 DEF Current
<1>16. EncryptedBefore'
    BY <1>1, <1>2, <1>4, <1>14, <1>15, QuietInv
<1> QED BY <1>14, <1>15, <1>16 DEF Good, CallStep

\* molch_export at the end of the import: if every key is known, everything on the
\* disk has been imported.
LEMMA FinishImport ==
    ASSUME MolchInv, finishImport PROVE Good
<1>1. /\ phase = "importing" /\ ToImport = {} /\ phase' = "running"
      /\ users' = users /\ global_backup_key' = global_backup_key /\ export_all
      /\ archive' = archive /\ known_keys' = known_keys
      /\ forgotten_keys' = forgotten_keys /\ drawn' = drawn /\ encrypted' = encrypted
    BY DEF finishImport, library
<1>2. /\ Core /\ EncryptedBefore /\ StrongTypeOK /\ drawn \in Counts
      /\ users \in UserStore
    BY DEF MolchInv, Core, StrongTypeOK, Counts
<1>3. KeysStep
    BY <1>1, <1>2, SameKeys
<1>4. Orderly(users', drawn') /\ users' \in UserStore
    BY <1>1, <1>2 DEF Core
<1>5. global_backup_key' # nullptr
    BY <1>1, <1>2 DEF Core, PhaseOK
<1>6. Core'
    BY <1>1, <1>2, <1>3, <1>4, <1>5, Exported
<1>7. ASSUME forgotten_keys' = {} PROVE Current' = Current
  <2> DEFINE Latest(u) ==
                [id \in DOMAIN disk.full.users[u].conversations |->
                    IF id \in DOMAIN disk.conversations
                    THEN disk.conversations[id].version
                    ELSE disk.full.users[u].conversations[id]]
  <2>1. known_keys = 1..drawn.keys
      BY <1>1, <1>2, <1>7 DEF Core, KeysAccounted
  <2>2. /\ DOMAIN users = DOMAIN disk.full.users
        /\ \A u \in DOMAIN users :
              /\ DOMAIN users[u].conversations = DOMAIN disk.full.users[u].conversations
              /\ \A x \in DOMAIN users[u].conversations :
                    \/ users[u].conversations[x] = disk.full.users[u].conversations[x]
                    \/ /\ x \in DOMAIN disk.conversations
                       /\ users[u].conversations[x] = disk.conversations[x].version
      BY <1>1, <1>2 DEF Core, PhaseOK
  <2>3. ASSUME NEW u \in DOMAIN users PROVE users[u].conversations = Latest(u)
    <3> DEFINE c == users[u].conversations
    <3>1. c = [x \in DOMAIN c |-> c[x]]
      <4>1. c \in ConversationStore
          BY <1>2, UserStoreShape DEF User
      <4> QED BY <4>1, ConversationStoreShape
    <3>2. ASSUME NEW x \in DOMAIN c, x \in DOMAIN disk.conversations
          PROVE  c[x] = disk.conversations[x].version
      <4>1. x \in Conversations
          BY DEF Conversations
      <4>2. owner(x) \in DOMAIN users /\ x \in DOMAIN users[owner(x)].conversations
          BY <1>2, <4>1, ConversationOwner
      <4>3. owner(x) = u
          BY <1>2, <4>2 DEF Core, Orderly
      <4>4. disk.conversations[x].key \in known_keys
          BY <1>2, <2>1, <3>2 DEF Core, KeysAccounted
      <4>5. version(x) = disk.conversations[x].version
          BY <1>1, <3>2, <4>1, <4>4 DEF ToImport
      <4> QED BY <4>3, <4>5 DEF version
    <3>3. \A x \in DOMAIN c : c[x] = IF x \in DOMAIN disk.conversations
                                     THEN disk.conversations[x].version
                                     ELSE disk.full.users[u].conversations[x]
        BY <2>2, <3>2
    <3>4. DOMAIN c = DOMAIN disk.full.users[u].conversations
        BY <2>2
    <3> HIDE DEF c
    <3>5. c = Latest(u)
        BY <3>1, <3>3, <3>4
    <3> QED BY <3>5 DEF c
  <2>4. Current = [u \in DOMAIN disk.full.users |-> Latest(u)]
      BY <1>1 DEF Current, Restored
  <2>5. Current' = [u \in DOMAIN users |-> users[u].conversations]
      BY <1>1 DEF Current
  <2> HIDE DEF Latest
  <2> QED BY <2>2, <2>3, <2>4, <2>5
<1>8. EncryptedBefore'
  <2>1. forgotten_keys' = {} => Forward
      BY <1>2, <1>7, CurrentType, SameForward
  <2> QED BY <1>1, <1>2, <1>3, <2>1, EncryptedLater DEF KeysStep
<1> QED BY <1>6, <1>7, <1>8 DEF Good, CallStep

-----------------------------------------------------------------------------
(***************************************************************************)
(* The theorems                                                            *)
(***************************************************************************)

\* The library begins without users, keys or backups.
LEMMA InitInv == Init => MolchInv
<1> SUFFICES ASSUME Init PROVE MolchInv
    OBVIOUS
<1>1. /\ users = Nothing /\ global_backup_key = 0
      /\ disk = [full |-> [key |-> 0, users |-> Nothing], conversations |-> Nothing]
      /\ archive = {} /\ phase = "running" /\ known_keys = {} /\ forgotten_keys = {}
      /\ drawn = [users |-> 0, conversations |-> 0, keys |-> 0]
      /\ unsaved = {} /\ encrypted = {} /\ terminated = FALSE
    BY DEF Init, NoBackup, nullptr
<1>2. /\ disk.full.key = 0 /\ disk.full.users = Nothing /\ disk.conversations = Nothing
    BY <1>1
<1>3. StrongTypeOK
  <2>1. 0 \in 0..MaxKeys /\ 0 \in 0..MaxUsers /\ 0 \in 0..MaxConversations
      BY MolchAssumption
  <2>2. disk \in [full : [key : 0..MaxKeys, users : UserStore],
                  conversations : ConversationBackups]
      BY <1>1, <2>1, EmptyStore
  <2>3. drawn \in [users : 0..MaxUsers, conversations : 0..MaxConversations,
                   keys : 0..MaxKeys]
      BY <1>1, <2>1
  <2> QED BY <1>1, <2>2, <2>3, EmptyStore DEF StrongTypeOK
<1>4. Orderly(users, drawn) /\ Orderly(disk.full.users, drawn)
    BY <1>1, <1>2, EmptyStore DEF Orderly
<1>5. KeysAccounted /\ KeyWhileUsers /\ PhaseOK
    BY <1>1, <1>2, EmptyStore DEF KeysAccounted, KeyWhileUsers, PhaseOK, nullptr
<1>6. CrashLosesNothing
    BY <1>1, <1>2, EmptyStore DEF CrashLosesNothing, Restored
<1>7. EncryptedBefore
    BY <1>1 DEF EncryptedBefore
<1> QED BY <1>3, <1>4, <1>5, <1>6, <1>7 DEF MolchInv

\* Every step keeps the invariant, and is a call of the crash-free library unless
\* a key was forgotten.
LEMMA StepGood == MolchInv /\ [Next]_vars => Good
<1> SUFFICES ASSUME MolchInv, [Next]_vars PROVE Good
    OBVIOUS
<1>1. CASE createUser
    BY <1>1, CreateUser
<1>2. CASE createUserFails
    BY <1>2, CreateUserFails
<1>3. CASE \E u \in 1..MaxUsers : destroyUser(u)
    BY <1>3, DestroyUser
<1>4. CASE \E u \in DOMAIN users : startSendConversation(u)
    BY <1>4, StartSend
<1>5. CASE \E u \in DOMAIN users : startReceiveConversation(u)
    BY <1>5, StartReceive
<1>6. CASE \E u \in DOMAIN users : changePrekeys(u)
    BY <1>6, ChangePrekeys
<1>7. CASE \E id \in Conversations : encryptMessage(id)
    BY <1>7, EncryptMessage
<1>8. CASE \E id \in Conversations : decryptMessage(id)
    BY <1>8, DecryptMessage
<1>9. CASE \E id \in Conversations : endConversation(id)
    BY <1>9, EndConversation
<1>10. CASE \E id \in Conversations : exportConversation(id)
    BY <1>10, ExportConversation
<1>11. CASE \E backup \in archive : importConversation(backup)
    BY <1>11, ImportConversation
<1>12. CASE exportAll
    BY <1>12, ExportAll
<1>13. CASE updateBackupKey
    BY <1>13, UpdateBackupKey
<1>14. CASE crash
    BY <1>14, Stops DEF crash
<1>15. CASE destroyAllUsers
  <2>1. terminated' \in BOOLEAN
      BY <1>15 DEF destroyAllUsers, MolchInv, StrongTypeOK
  <2> QED BY <1>15, <2>1, Stops DEF destroyAllUsers
<1>16. CASE startEmpty
    BY <1>16, StartEmpty
<1>17. CASE importAll
    BY <1>17, ImportAll
<1>18. CASE \E id \in ToImport : importLaterConversation(id)
    BY <1>18, ImportLaterConversation
<1>19. CASE finishImport
    BY <1>19, FinishImport
<1>20. CASE UNCHANGED vars
  <2>1. Current' = Current /\ Restored' = Restored
      BY <1>20 DEF vars, Current, Restored
  <2>2. StrongTypeOK' /\ Orderly(users, drawn)' /\ Orderly(disk.full.users, drawn)'
      BY <1>20 DEF vars, MolchInv, StrongTypeOK
  <2>3. KeysAccounted' /\ KeyWhileUsers' /\ PhaseOK'
      BY <1>20 DEF vars, MolchInv, KeysAccounted, KeyWhileUsers, PhaseOK
  <2>4. CrashLosesNothing' /\ EncryptedBefore'
      BY <1>20, <2>1 DEF vars, MolchInv, CrashLosesNothing, EncryptedBefore
  <2> QED BY <2>1, <2>2, <2>3, <2>4 DEF Good, Core, CallStep
<1> QED BY <1>1, <1>2, <1>3, <1>4, <1>5, <1>6, <1>7, <1>8, <1>9, <1>10, <1>11,
           <1>12, <1>13, <1>14, <1>15, <1>16, <1>17, <1>18, <1>19, <1>20 DEF Next

\* Good is the invariant after the step.
LEMMA GoodInv == Good => MolchInv'
    BY DEF Good, Core, MolchInv

\* The inductive invariant holds of every state of the library.
THEOREM MolchInvariant == Spec => []MolchInv
<1>1. MolchInv /\ [Next]_vars => MolchInv'
    BY StepGood, GoodInv
<1> QED BY <1>1, InitInv, PTL DEF Spec

\* The variables have their types.
THEOREM MolchTypeCorrect == Spec => []TypeOK
<1>1. MolchInv => TypeOK
  <2> SUFFICES ASSUME MolchInv PROVE TypeOK
      OBVIOUS
  <2>1. StrongTypeOK /\ KeysAccounted
      BY DEF MolchInv
  <2>2. drawn.keys \in Nat /\ drawn.keys <= MaxKeys /\ MaxKeys \in Nat
      BY <2>1, MolchAssumption DEF StrongTypeOK
  <2>3. /\ global_backup_key \in 0..MaxKeys
        /\ known_keys \subseteq 1..MaxKeys /\ forgotten_keys \subseteq 1..MaxKeys
    <3>1. 0..drawn.keys \subseteq 0..MaxKeys /\ 1..drawn.keys \subseteq 1..MaxKeys
        BY <2>2
    <3> QED BY <2>1, <3>1 DEF KeysAccounted
  <2>4. DOMAIN users \subseteq 1..MaxUsers /\ \A u \in DOMAIN users : users[u] \in User
      BY <2>1, UserStoreShape DEF StrongTypeOK
  <2>5. \A u \in DOMAIN users :
           /\ users[u].prekeys \in 0..MaxPrekeys
           /\ users[u].conversations \in ConversationStore
      BY <2>4 DEF User
  <2>6. \A u \in DOMAIN users :
           /\ DOMAIN users[u].conversations \subseteq 1..MaxConversations
           /\ \A id \in DOMAIN users[u].conversations :
                 users[u].conversations[id] \in 1..MaxVersion
      BY <2>5, ConversationStoreShape
  <2> QED BY <2>1, <2>3, <2>4, <2>5, <2>6 DEF TypeOK, StrongTypeOK
<1> QED BY <1>1, MolchInvariant, PTL

\* As long as there are users there is a backup key, so that no export after a
\* ratchet step can fail.
THEOREM BackupKeyWhileUsers == Spec => []KeyWhileUsers
<1>1. MolchInv => KeyWhileUsers
    BY DEF MolchInv
<1> QED BY <1>1, MolchInvariant, PTL

\* findConversation can only mean one user: the ids of conversations are disjoint
\* in the live store and in every backup that may replace it.
THEOREM ConversationHasOneOwner == Spec => []OneOwner
<1>1. MolchInv => OneOwner
  <2> SUFFICES ASSUME MolchInv, NEW id \in Conversations
               PROVE  Cardinality(owners(id)) = 1
      BY DEF OneOwner
  <2>1. PICK u \in DOMAIN users : id \in DOMAIN users[u].conversations
      BY DEF Conversations
  <2>2. owners(id) = {u}
      BY <2>1 DEF MolchInv, Orderly, owners
  <2> QED BY <2>2, FS_Singleton
<1> QED BY <1>1, MolchInvariant, PTL

\* A crash between any two calls loses no user and no message: what is on the disk
\* restores what is in memory.
THEOREM NothingLostInACrash == Spec => []CrashLosesNothing
<1>1. MolchInv => CrashLosesNothing
    BY DEF MolchInv
<1> QED BY <1>1, MolchInvariant, PTL

\* No state of a conversation encrypts two messages, through any number of crashes
\* and imports, as long as no call has lost a backup key.
THEOREM EncryptsOnce == Spec => NoStateEncryptsTwice
<1>1. ASSUME MolchInv, NEW id \in Conversations, encryptMessage(id), forgotten_keys = {}
      PROVE  <<id, version(id)>> \notin encrypted
  <2>1. phase = "running"
      BY <1>1 DEF encryptMessage, advance, Running
  <2>2. /\ owner(id) \in DOMAIN users /\ id \in DOMAIN users[owner(id)].conversations
        /\ version(id) \in Nat
      BY <1>1, ConversationOwner, MolchAssumption DEF MolchInv, StrongTypeOK
  <2>3. /\ owner(id) \in DOMAIN Current
        /\ Current[owner(id)] = users[owner(id)].conversations
      BY <2>1, <2>2 DEF Current
  <2>4. version(id) = Current[owner(id)][id]
      BY <2>3 DEF version
  <2>5. ASSUME <<id, version(id)>> \in encrypted PROVE version(id) < version(id)
    <3> DEFINE e == <<id, version(id)>>
    <3>1. e[1] = id /\ e[2] = version(id) /\ e \in encrypted
        BY <2>5
    <3>2. \A d \in encrypted : \A u \in DOMAIN Current :
             d[1] \in DOMAIN Current[u] => d[2] < Current[u][d[1]]
        BY <1>1 DEF MolchInv, EncryptedBefore
    <3> HIDE DEF e
    <3>3. e[2] < Current[owner(id)][e[1]]
        BY <2>2, <2>3, <3>1, <3>2
    <3> QED BY <2>4, <3>1, <3>3
  <2> QED BY <2>2, <2>5
<1>2. MolchInv /\ [Next]_vars =>
         [\A id \in Conversations :
            encryptMessage(id) /\ forgotten_keys = {} =>
                <<id, version(id)>> \notin encrypted]_vars
    BY <1>1
<1> QED BY <1>2, MolchInvariant, PTL DEF Spec, NoStateEncryptsTwice

\* A backup key is lost by the call that fails, and by no other.
LEMMA OnlyCreateUserForgets ==
    ASSUME [Next]_vars
    PROVE  forgotten_keys' = forgotten_keys \/ createUserFails
<1>1. CASE createUser \/ (\E u \in 1..MaxUsers : destroyUser(u))
    BY <1>1 DEF createUser, destroyUser
<1>2. CASE \E u \in DOMAIN users : \/ startSendConversation(u)
                                   \/ startReceiveConversation(u)
                                   \/ changePrekeys(u)
    BY <1>2 DEF startSendConversation, startReceiveConversation, changePrekeys
<1>3. CASE \E id \in Conversations : \/ encryptMessage(id)
                                     \/ decryptMessage(id)
                                     \/ endConversation(id)
                                     \/ exportConversation(id)
    BY <1>3 DEF encryptMessage, decryptMessage, advance, endConversation,
                exportConversation, history
<1>4. CASE (\E backup \in archive : importConversation(backup)) \/ exportAll
           \/ updateBackupKey \/ crash \/ destroyAllUsers
    BY <1>4 DEF importConversation, exportAll, updateBackupKey, crash, destroyAllUsers
<1>5. CASE startEmpty \/ importAll \/ finishImport
           \/ (\E id \in ToImport : importLaterConversation(id))
    BY <1>5 DEF startEmpty, history, importAll, finishImport, importLaterConversation
<1>6. CASE UNCHANGED vars
    BY <1>6 DEF vars
<1> QED BY <1>1, <1>2, <1>3, <1>4, <1>5, <1>6 DEF Next

\* The library with its crashes and its backups implements the crash-free one.
THEOREM BackupsAreDurable == Spec => ImplementsDurableLibrary
<1> DEFINE lost == forgotten_keys # {}
           DNext == Durable!Next
<1>1. Init => Durable!Init
  <2> SUFFICES ASSUME Init PROVE Current = Durable!None /\ lost = FALSE
      BY DEF Durable!Init, Current
  <2>1. Nothing = Durable!None
      BY DEF Nothing, Durable!None
  <2> QED BY <2>1, EmptyStore DEF Init, Current, Nothing
<1>2. ASSUME MolchInv, [Next]_vars
      PROVE  DNext \/ (Current' = Current /\ (lost' <=> lost))
  <2>1. forgotten_keys' = {} => CallStep
      BY <1>2, StepGood DEF Good
  <2>2. CASE createUserFails
    <3>1. Current' = Current
        BY <2>2 DEF createUserFails, Current, Restored
    <3>2. lost' = TRUE
        BY <2>2 DEF createUserFails
    <3> QED BY <3>1, <3>2 DEF Durable!Next, Durable!LoseKey, Current
  <2>3. CASE forgotten_keys' = forgotten_keys /\ forgotten_keys # {}
      BY <2>3 DEF Durable!Next, Durable!LoseState
  <2>4. CASE forgotten_keys' = forgotten_keys /\ forgotten_keys = {}
    <3>1. CASE Current' = Current
        BY <2>4, <3>1
    <3>2. CASE Current' # Current
      <4>1. \/ Creates(Current, Current') \/ Advances(Current, Current')
            \/ Destroys(Current, Current')
          BY <2>1, <2>4, <3>2 DEF CallStep
      <4>2. Creates(Current, Current') => Durable!Create
          BY DEF Creates, Durable!Create, Nothing, Durable!None, Current
      <4>3. Advances(Current, Current') => Durable!Advance
          BY DEF Advances, Durable!Advance, Current
      <4>4. Destroys(Current, Current') => Durable!Destroy
          BY DEF Destroys, Durable!Destroy, Restrict, Durable!Restrict, Current
      <4>5. Durable!Call
        <5>1. Durable!Create \/ Durable!Advance \/ Durable!Destroy
            BY <4>1, <4>2, <4>3, <4>4
        <5> QED BY <2>4, <3>2, <5>1 DEF Durable!Call, Current
      <4> QED BY <4>5 DEF Durable!Next
    <3> QED BY <3>1, <3>2
  <2> QED BY <1>2, <2>2, <2>3, <2>4, OnlyCreateUserForgets
<1>3. MolchInv /\ [Next]_vars => [Durable!Next]_(<<Current, lost>>)
    BY <1>2
<1>4. Spec => Durable!Init /\ [][Durable!Next]_(<<Current, lost>>)
    BY <1>1, <1>3, MolchInvariant, PTL DEF Spec
<1> QED BY <1>4, PTL DEF ImplementsDurableLibrary, Durable!Spec, Current
=============================================================================
