------------------------------- MODULE Molch -------------------------------
(***************************************************************************)
(* The library as an application sees it (lib/molch.cpp on top of          *)
(* lib/user-store.cpp and lib/conversation-store.cpp): the global user     *)
(* store, the global backup key, and the backups that the calls return.    *)
(*                                                                         *)
(* Everything the library knows is in memory.  The application keeps every *)
(* backup it is given and the key that belongs to it, starts the library   *)
(* from them after a crash, and asks for a backup whenever a call offers   *)
(* one (CreateBackup::YES; with NO the call is the same without export).   *)
(* What it saves is in the variable "disk".                                *)
(*                                                                         *)
(* A conversation is reduced to a version, the number of messages sent and *)
(* received in it (module Conversation has the rest), and a prekey store   *)
(* to the number of times it has changed (module PrekeyStore).             *)
(***************************************************************************)
EXTENDS Integers, FiniteSets, Functions

CONSTANTS
    MaxUsers,           \* bound: users ever created
    MaxConversations,   \* bound: conversations ever started
    MaxVersion,         \* bound: messages in a conversation
    MaxPrekeys,         \* bound: changes of a prekey store
    MaxKeys             \* bound: backup keys ever drawn

ASSUME MolchAssumption ==
    /\ {MaxUsers, MaxConversations, MaxVersion, MaxPrekeys, MaxKeys} \subseteq Nat
    /\ MaxVersion # 0      \* a conversation begins with a message

VARIABLES
    users,              \* user id -> its prekeys and conversations
    global_backup_key,  \* the current key, or nullptr
    disk,               \* the latest full backup, and later ones of conversations
    archive,            \* the conversation backup that the application put aside
    phase,              \* where the application is: starting, importing, running
    known_keys,         \* the backup keys that calls have returned
    forgotten_keys,     \* history: keys drawn by calls that did not return them
    drawn,              \* history: number of users, conversations, keys so far
    unsaved,            \* history: users whose prekeys changed without a backup
    encrypted,          \* history: <<conversation, version>> of each packet
    terminated          \* std::terminate() was called

library == <<users, global_backup_key>>
history == <<forgotten_keys, drawn, unsaved, encrypted>>
vars == <<users, global_backup_key, disk, archive, phase, known_keys,
          forgotten_keys, drawn, unsaved, encrypted, terminated>>

nullptr == 0
Nothing == [x \in {} |-> 0]         \* an empty store
NoBackup == [key |-> nullptr, users |-> Nothing]

Init ==
    /\ users = Nothing
    /\ global_backup_key = nullptr
    /\ disk = [full |-> NoBackup, conversations |-> Nothing]
    /\ archive = {}
    /\ phase = "running"
    /\ known_keys = {}
    /\ forgotten_keys = {}
    /\ drawn = [users |-> 0, conversations |-> 0, keys |-> 0]
    /\ unsaved = {}
    /\ encrypted = {}
    /\ terminated = FALSE

-----------------------------------------------------------------------------
(***************************************************************************)
(* The stores                                                              *)
(***************************************************************************)

\* UserStore::add and ConversationStore::add: an element with the same id is
\* replaced
add(f, id, value) ==
    [x \in DOMAIN f \union {id} |-> IF x = id THEN value ELSE f[x]]

\* UserStore::remove and ConversationStore::remove: no error if it is not there
remove(f, id) == Restrict(f, DOMAIN f \ {id})

\* UserStore::findConversation: the users that hold the conversation
owners(id) == {u \in DOMAIN users : id \in DOMAIN users[u].conversations}
owner(id) == CHOOSE u \in DOMAIN users : u \in owners(id)
version(id) == users[owner(id)].conversations[id]

Conversations == UNION {DOMAIN users[u].conversations : u \in DOMAIN users}

\* The user store after conversation id of user u was put in its store
withConversation(u, id, value) ==
    [users EXCEPT ![u].conversations = add(@, id, value)]

-----------------------------------------------------------------------------
(***************************************************************************)
(* Backups                                                                 *)
(***************************************************************************)

\* update_backup_key, in a call that returns the new key
update_backup_key ==
    LET key == drawn.keys + 1
    IN  /\ drawn.keys < MaxKeys
        /\ global_backup_key' = key
        /\ known_keys' = known_keys \union {key}

\* Mutant: the backup is made before the stores are changed
export_all_early ==
    IF global_backup_key' = nullptr
    THEN /\ terminated' = TRUE
         /\ UNCHANGED <<disk, unsaved>>
    ELSE /\ disk' = [full |-> [key |-> global_backup_key', users |-> users],
                     conversations |-> Nothing]
         /\ unsaved' = {}
         /\ UNCHANGED terminated

\* export_all at the end of a call: the application saves what it returns, and
\* has no use for older backups any more.  Without a backup key
\* GlobalBackupKeyUnlocker ends the process.
export_all ==
    IF global_backup_key' = nullptr
    THEN /\ terminated' = TRUE
         /\ UNCHANGED <<disk, unsaved>>
    ELSE /\ disk' = [full |-> [key |-> global_backup_key', users |-> users'],
                     conversations |-> Nothing]
         /\ unsaved' = {}
         /\ UNCHANGED terminated

\* Mutant: the backup is made before the message was encrypted or decrypted
export_conversation_early(id) ==
    disk' = [disk EXCEPT !.conversations =
                add(@, id, [key |-> global_backup_key, version |-> version(id)])]

\* export_conversation at the end of a call
export_conversation(id) ==
    disk' = [disk EXCEPT !.conversations =
                add(@, id, [key |-> global_backup_key,
                            version |-> users'[owner(id)].conversations[id]])]

-----------------------------------------------------------------------------
(***************************************************************************)
(* The calls                                                               *)
(***************************************************************************)
Running == phase = "running" /\ ~terminated

\* molch_create_user
createUser ==
    LET u == drawn.users + 1
    IN  /\ Running
        /\ drawn.users < MaxUsers
        /\ update_backup_key
        /\ users' = add(users, u, [prekeys |-> 0, conversations |-> Nothing])
        /\ drawn' = [drawn EXCEPT !.users = u, !.keys = @ + 1]
        /\ export_all
        /\ UNCHANGED <<archive, phase, forgotten_keys, encrypted>>

\* molch_create_user when User::create fails (spiced_random does if there is not
\* enough memory): the backup key has been replaced by then, and is not returned.
\* That memory runs out later, for the list or the backup, is left out, here as in
\* the other calls that end with an export.
createUserFails ==
    LET key == drawn.keys + 1
    IN  /\ Running
        /\ drawn.keys < MaxKeys
        /\ global_backup_key' = key
        /\ forgotten_keys' = forgotten_keys \union {key}
        /\ drawn' = [drawn EXCEPT !.keys = key]
        /\ UNCHANGED <<users, disk, archive, phase, known_keys, unsaved,
                       encrypted, terminated>>

\* molch_destroy_user, also of a user that does not exist
destroyUser(u) ==
    /\ Running
    /\ users' = remove(users, u)
    /\ UNCHANGED global_backup_key
    /\ export_all
    /\ UNCHANGED <<archive, phase, known_keys, forgotten_keys, drawn, encrypted>>

\* Mutant: the conversation is stored before its first packet is encrypted
startSendConversation_storedFirst(u) ==
    LET id == drawn.conversations + 1
    IN  /\ Running
        /\ id <= MaxConversations
        /\ users' = withConversation(u, id, 0)
        /\ drawn' = [drawn EXCEPT !.conversations = id]
        /\ encrypted' = encrypted \union {<<id, 0>>}
        /\ UNCHANGED global_backup_key
        /\ export_all
        /\ UNCHANGED <<archive, phase, known_keys, forgotten_keys>>

\* molch_start_send_conversation: its first packet is encrypted at once
startSendConversation(u) ==
    LET id == drawn.conversations + 1
    IN  /\ Running
        /\ id <= MaxConversations
        /\ users' = withConversation(u, id, 1)
        /\ drawn' = [drawn EXCEPT !.conversations = id]
        /\ encrypted' = encrypted \union {<<id, 0>>}
        /\ UNCHANGED global_backup_key
        /\ export_all
        /\ UNCHANGED <<archive, phase, known_keys, forgotten_keys>>

\* molch_start_receive_conversation with a packet that decrypts: a prekey is
\* used and a new prekey list made
startReceiveConversation(u) ==
    LET id == drawn.conversations + 1
    IN  /\ Running
        /\ id <= MaxConversations
        /\ users[u].prekeys < MaxPrekeys
        /\ users' = [withConversation(u, id, 1) EXCEPT ![u].prekeys = @ + 1]
        /\ drawn' = [drawn EXCEPT !.conversations = id]
        /\ UNCHANGED global_backup_key
        /\ export_all
        /\ UNCHANGED <<archive, phase, known_keys, forgotten_keys, encrypted>>

\* molch_start_receive_conversation with a packet that does not decrypt (the
\* prekey it names is used up and no backup is returned), or
\* molch_get_prekey_list, when rotate() replaces prekeys (it offers no backup)
changePrekeys(u) ==
    /\ Running
    /\ users[u].prekeys < MaxPrekeys
    /\ users' = [users EXCEPT ![u].prekeys = @ + 1]
    /\ unsaved' = unsaved \union {u}
    /\ UNCHANGED <<global_backup_key, disk, archive, phase, known_keys,
                   forgotten_keys, drawn, encrypted, terminated>>

\* The end of molch_encrypt_message and molch_decrypt_message.  With a
\* conversation there is a backup key (KeyWhileUsers), so export_conversation
\* does not fail.
advance(id) ==
    /\ Running
    /\ version(id) < MaxVersion
    /\ users' = withConversation(owner(id), id, version(id) + 1)
    /\ export_conversation(id)
    /\ UNCHANGED <<global_backup_key, archive, phase, known_keys,
                   forgotten_keys, drawn, unsaved, terminated>>

encryptMessage(id) ==
    /\ advance(id)
    /\ encrypted' = encrypted \union {<<id, version(id)>>}

\* molch_decrypt_message with a packet that decrypts; another one changes
\* nothing (RejectedPacketHarmless of module Conversation)
decryptMessage(id) ==
    /\ advance(id)
    /\ UNCHANGED encrypted

\* molch_end_conversation
endConversation(id) ==
    /\ Running
    /\ users' = [users EXCEPT ![owner(id)].conversations = remove(@, id)]
    /\ UNCHANGED global_backup_key
    /\ export_all
    /\ UNCHANGED <<archive, phase, known_keys, forgotten_keys, drawn, encrypted>>

\* molch_conversation_export: the application puts the backup aside (bound: it
\* keeps the last one)
exportConversation(id) ==
    /\ Running
    /\ archive' =
          {[id |-> id, key |-> global_backup_key, version |-> version(id)]}
    /\ UNCHANGED <<library, disk, phase, known_keys, history, terminated>>

\* molch_export
exportAll ==
    /\ Running
    /\ UNCHANGED library
    /\ export_all
    /\ UNCHANGED <<archive, phase, known_keys, forgotten_keys, drawn, encrypted>>

\* molch_update_backup_key
updateBackupKey ==
    /\ Running
    /\ update_backup_key
    /\ drawn' = [drawn EXCEPT !.keys = @ + 1]
    /\ UNCHANGED <<users, disk, archive, phase, forgotten_keys, unsaved,
                   encrypted, terminated>>

\* Mutant: the conversation goes to the user created last, not to its owner
import_conversation_lastUser(id, value) ==
    /\ owners(id) # {}
    /\ users' = withConversation(
                   CHOOSE u \in DOMAIN users : \A v \in DOMAIN users : v <= u,
                   id, value)
    /\ update_backup_key
    /\ drawn' = [drawn EXCEPT !.keys = @ + 1]

\* import_conversation.  The conversation must already be in some user's store:
\* otherwise the answer is NOT_FOUND, and nothing changes.
import_conversation(id, value) ==
    /\ owners(id) # {}
    /\ users' = withConversation(owner(id), id, value)
    /\ update_backup_key
    /\ drawn' = [drawn EXCEPT !.keys = @ + 1]

\* molch_conversation_import of a backup from the archive.  Importing an older
\* state of a live conversation would take the ratchet back: the application
\* does not.
importConversation(backup) ==
    /\ Running
    /\ backup.key \in known_keys
    /\ import_conversation(backup.id, backup.version)
    /\ backup.version = version(backup.id)
    /\ UNCHANGED <<disk, archive, phase, forgotten_keys, unsaved, encrypted,
                   terminated>>

-----------------------------------------------------------------------------
(***************************************************************************)
(* Crash and restart                                                       *)
(***************************************************************************)

\* The process ends, by itself or through std::terminate()
crash ==
    /\ users' = Nothing
    /\ global_backup_key' = nullptr
    /\ phase' = "starting"
    /\ terminated' = FALSE
    /\ unsaved' = {}
    /\ UNCHANGED <<disk, archive, known_keys, forgotten_keys, drawn, encrypted>>

\* molch_destroy_all_users, the end of a session in the same process: the backup
\* key stays as it is
destroyAllUsers ==
    /\ Running
    /\ users' = Nothing
    /\ phase' = "starting"
    /\ unsaved' = {}
    /\ UNCHANGED <<global_backup_key, disk, archive, known_keys, forgotten_keys,
                   drawn, encrypted, terminated>>

\* The application has no full backup that it can decrypt
startEmpty ==
    /\ phase = "starting"
    /\ disk.full.key \notin known_keys
    /\ phase' = "running"
    /\ disk' = [full |-> NoBackup, conversations |-> Nothing]
    /\ UNCHANGED <<library, archive, known_keys, history, terminated>>

\* import_all: the imported user store replaces the current one
import_all == users' = disk.full.users

\* Mutant: no new backup key is generated
importAll_noKey ==
    /\ phase = "starting"
    /\ disk.full.key \in known_keys
    /\ import_all
    /\ phase' = "importing"
    /\ UNCHANGED <<global_backup_key, known_keys, drawn,
                   disk, archive, forgotten_keys, unsaved, encrypted, terminated>>

\* molch_import
importAll ==
    /\ phase = "starting"
    /\ disk.full.key \in known_keys
    /\ import_all
    /\ update_backup_key
    /\ drawn' = [drawn EXCEPT !.keys = @ + 1]
    /\ phase' = "importing"
    /\ UNCHANGED <<disk, archive, forgotten_keys, unsaved, encrypted,
                   terminated>>

\* The conversation backups later than the full one that are still to import
ToImport ==
    {id \in DOMAIN disk.conversations :
        /\ disk.conversations[id].key \in known_keys
        /\ id \in Conversations
        /\ version(id) # disk.conversations[id].version}

\* molch_conversation_import for one of them
importLaterConversation(id) ==
    /\ phase = "importing"
    /\ import_conversation(id, disk.conversations[id].version)
    /\ UNCHANGED <<disk, archive, phase, forgotten_keys, unsaved, encrypted,
                   terminated>>

\* molch_export once everything is imported: later backups build on this one
finishImport ==
    /\ phase = "importing"
    /\ ToImport = {}
    /\ phase' = "running"
    /\ UNCHANGED library
    /\ export_all
    /\ UNCHANGED <<archive, known_keys, forgotten_keys, drawn, encrypted>>

Next ==
    \/ createUser
    \/ createUserFails
    \/ \E u \in 1..MaxUsers : destroyUser(u)
    \/ \E u \in DOMAIN users : \/ startSendConversation(u)
                               \/ startReceiveConversation(u)
                               \/ changePrekeys(u)
    \/ \E id \in Conversations : \/ encryptMessage(id)
                                 \/ decryptMessage(id)
                                 \/ endConversation(id)
                                 \/ exportConversation(id)
    \/ \E backup \in archive : importConversation(backup)
    \/ exportAll
    \/ updateBackupKey
    \/ crash
    \/ destroyAllUsers
    \/ startEmpty
    \/ importAll
    \/ \E id \in ToImport : importLaterConversation(id)
    \/ finishImport

Spec == Init /\ [][Next]_vars

-----------------------------------------------------------------------------
(***************************************************************************)
(* Properties                                                              *)
(***************************************************************************)

\* The variables have their types.
TypeOK ==
    /\ global_backup_key \in 0..MaxKeys
    /\ DOMAIN users \subseteq 1..MaxUsers
    /\ \A u \in DOMAIN users :
          /\ users[u].prekeys \in 0..MaxPrekeys
          /\ DOMAIN users[u].conversations \subseteq 1..MaxConversations
          /\ \A id \in DOMAIN users[u].conversations :
                users[u].conversations[id] \in 1..MaxVersion
    /\ phase \in {"starting", "importing", "running"}
    /\ known_keys \subseteq 1..MaxKeys /\ forgotten_keys \subseteq 1..MaxKeys
    /\ unsaved \subseteq 1..MaxUsers
    /\ terminated \in BOOLEAN

\* As long as there are users there is a backup key: no export that follows a
\* state change (encrypt_message, start_send_conversation, ...) can fail or end
\* the process after the ratchet has moved on.
KeyWhileUsers == users # Nothing => global_backup_key # nullptr

\* A conversation belongs to one user: findConversation, which stops at the
\* first, can only mean that one.
OneOwner == \A id \in Conversations : Cardinality(owners(id)) = 1

\* What the application would have after importing everything on its disk
Restored ==
    [u \in DOMAIN disk.full.users |->
        [id \in DOMAIN disk.full.users[u].conversations |->
            IF id \in DOMAIN disk.conversations
            THEN disk.conversations[id].version
            ELSE disk.full.users[u].conversations[id]]]

\* A crash loses nothing that the application was told of: between two calls
\* the backups on its disk hold every user, every conversation in its latest
\* state, and the prekeys except those changed by the calls that return no
\* backup; and the only backups it cannot read are those under the key of a
\* failed molch_create_user.
CrashLosesNothing ==
    phase = "running" =>
        /\ Restored = [u \in DOMAIN users |-> users[u].conversations]
        /\ \A u \in DOMAIN users \ unsaved :
              users[u].prekeys = disk.full.users[u].prekeys
        /\ users # Nothing =>
              {disk.full.key} \union {disk.conversations[id].key :
                                         id \in DOMAIN disk.conversations}
                 \subseteq known_keys \union forgotten_keys

\* The library implements the crash-free one: starting from the backups on the
\* disk, through as many crashes as it takes, gives the application the state it
\* had.
Durable == INSTANCE DurableLibrary WITH
    state <- IF phase = "running"
             THEN [u \in DOMAIN users |-> users[u].conversations]
             ELSE Restored,
    key_lost <- forgotten_keys # {}
ImplementsDurableLibrary == Durable!Spec

\* No state of a conversation encrypts two messages, however often the process
\* crashes in between: a restored ratchet that had sent since its backup would
\* use message keys again.  (Not so after a molch_create_user has failed, see
\* CrashLosesNothing.)
NoStateEncryptsTwice ==
    [][\A id \in Conversations :
          encryptMessage(id) /\ forgotten_keys = {} =>
              <<id, version(id)>> \notin encrypted]_vars

\* export_all returns INCORRECT_DATA, "No backup key found.", when there is none:
\* no call ends the process.
NoBackupKeyIsAnError == ~terminated
=============================================================================
