----------------------------- MODULE LuaBinding -----------------------------
(***************************************************************************)
(* The Lua binding (bindings/lua/molch.lua), which keeps a mirror of the   *)
(* library's users and conversations in tables, and the scenario runner's  *)
(* use of it: one variable holds the last exported backup.                 *)
(*                                                                         *)
(* Tables are references.  Only molch.import shares one: the backup that   *)
(* the caller passed also becomes users.attributes.backup and the backup   *)
(* of every user, and recursively_delete_table empties it for all of them. *)
(* The library itself is reduced to its users with their conversations     *)
(* (module Molch has the rest).  Calls that touch neither (encrypt and     *)
(* decrypt a message, get_prekey_list, the lists) are left out.            *)
(***************************************************************************)
EXTENDS Functions

CONSTANTS
    UserIds,            \* ids of users
    ConversationIds     \* ids of conversations

VARIABLES
    library,        \* external: the users in the C library -> their conversations
    users,          \* molch.users: user id -> ids of its conversation tables
    deleted,        \* conversations whose table was emptied
    key,            \* the library's backup key: "none", or whether it is "known",
                    \* that is equal to users.attributes.last_backup_key, or not
    backup,         \* the application's backup table
    aliases,        \* which tables of the mirror refer to that same table
    imported        \* history: the application has imported it

mirror == <<users, deleted, key>>
vars == <<library, mirror, backup, aliases, imported>>

Nothing == [u \in {} |-> {}]
Attributes == "attributes"      \* users.attributes.backup, among the aliases

\* "usable" means that content and key are there and fit together
Unusable == [usable |-> FALSE, library |-> Nothing]

ConversationsOf(f) == UNION {f[u] : u \in DOMAIN f}

\* Random ids do not repeat: an id is fresh if nothing refers to it any more
FreshUser(u) == u \notin DOMAIN library \union DOMAIN users \union DOMAIN backup.library
FreshConversation(c) ==
    c \notin ConversationsOf(library) \union ConversationsOf(users)
                \union ConversationsOf(backup.library)

-----------------------------------------------------------------------------

\* recursively_delete_table of the tables at these places
recursively_delete_table(places) ==
    backup' = IF places \cap aliases = {} THEN backup ELSE Unusable

Init ==
    /\ library = Nothing
    /\ users = Nothing
    /\ deleted = {}
    /\ key = "none"
    /\ backup = Unusable
    /\ aliases = {}
    /\ imported = FALSE

\* molch.user.new
userNew(u) ==
    LET added(f) == [v \in DOMAIN f \union {u} |-> IF v = u THEN {} ELSE f[v]]
    IN  /\ FreshUser(u)
        /\ library' = added(library)
        /\ users' = added(users)
        /\ key' = "known"
        /\ aliases' = aliases \ {Attributes}
        /\ UNCHANGED <<deleted, backup, imported>>

\* molch_create_user fails after it has replaced the library's backup key
userNewFails ==
    /\ key' = "unknown"
    /\ UNCHANGED <<library, users, deleted, backup, aliases, imported>>

\* molch.user:destroy: no backup is made
userDestroy(u) ==
    /\ library' = Restrict(library, DOMAIN library \ {u})
    /\ users' = Restrict(users, DOMAIN users \ {u})
    /\ deleted' = deleted \union users[u]
    /\ recursively_delete_table({u})
    /\ aliases' = aliases \ {u}
    /\ UNCHANGED <<key, imported>>

\* molch.destroy_all_users: last_backup_key is not set again
destroy_all_users ==
    /\ library' = Nothing
    /\ users' = Nothing
    /\ deleted' = deleted \union ConversationsOf(users)
    /\ key' = IF key = "none" THEN "none" ELSE "unknown"
    /\ recursively_delete_table(DOMAIN users \union {Attributes})
    /\ aliases' = {}
    /\ UNCHANGED imported

\* molch.user:start_send_conversation and start_receive_conversation; the library
\* refuses a user that it does not have
start_conversation(u, c) ==
    /\ u \in DOMAIN library
    /\ FreshConversation(c)
    /\ library' = [library EXCEPT ![u] = @ \union {c}]
    /\ users' = [users EXCEPT ![u] = @ \union {c}]
    /\ deleted' = deleted \ {c}
    /\ aliases' = aliases \ {u, Attributes}
    /\ UNCHANGED <<key, backup, imported>>

\* molch.conversation:destroy.  After molch_end_conversation,
\* containing_user.backup.copy() is called without the backup and raises an error:
\* the mirror keeps the conversation.  A conversation that the library does not
\* have any more is an error before that.
conversationDestroy(u, c) ==
    /\ c \in ConversationsOf(library)
    /\ library' = [v \in DOMAIN library |-> library[v] \ {c}]
    /\ aliases' = aliases \ {u}
    /\ UNCHANGED <<mirror, backup, imported>>

\* Without a known key the backup is empty, or has the wrong key
exported == IF key = "known" THEN [usable |-> TRUE, library |-> library] ELSE Unusable

\* Mutant: the table that is kept in users.attributes is returned itself
export_noCopy ==
    /\ key # "none"
    /\ backup' = exported
    /\ aliases' = {Attributes}
    /\ imported' = FALSE
    /\ UNCHANGED <<library, mirror>>

\* molch.export.  (Without any key molch_export ends the process, see Molch.)
export ==
    /\ key # "none"
    /\ backup' = exported
    /\ aliases' = {}
    /\ imported' = FALSE
    /\ UNCHANGED <<library, mirror>>

\* molch.update_backup_key
update_backup_key ==
    /\ key' = "known"
    /\ UNCHANGED <<library, users, deleted, backup, aliases, imported>>

\* Mutant: the users' tables are emptied before their conversations are set aside
import_deletesFirst ==
    /\ backup.usable
    /\ library' = backup.library
    /\ key' = "known"
    /\ users' = [u \in DOMAIN users \union DOMAIN library' |->
                    IF u \in DOMAIN library' THEN library'[u] ELSE {}]
    /\ deleted' = (deleted \union ConversationsOf(users))
                     \ (ConversationsOf(library') \ ConversationsOf(users))
    /\ recursively_delete_table(DOMAIN users \cap DOMAIN library')
    /\ aliases' = aliases \union DOMAIN library' \union {Attributes}
    /\ imported' = TRUE

(***************************************************************************)
(* molch.import.  The conversation tables are set aside, put back where    *)
(* the library still has the conversation, and emptied where it does not;  *)
(* a conversation without a table gets a new one.  The loop that is to     *)
(* remove users never does: its condition starts with                      *)
(* (not user_id == "attributes"), which is false for every user.           *)
(***************************************************************************)
import ==
    /\ backup.usable
    /\ library' = backup.library
    /\ key' = "known"
    /\ users' = [u \in DOMAIN users \union DOMAIN library' |->
                    IF u \in DOMAIN library' THEN library'[u] ELSE {}]
    /\ deleted' = (deleted \union ConversationsOf(users)) \ ConversationsOf(library')
    /\ recursively_delete_table(DOMAIN users \cap DOMAIN library')
    /\ aliases' = aliases \union DOMAIN library' \union {Attributes}
    /\ imported' = TRUE

Next ==
    \/ \E u \in UserIds : userNew(u)
    \/ userNewFails
    \/ \E u \in DOMAIN users : userDestroy(u)
    \/ destroy_all_users
    \/ \E u \in DOMAIN users, c \in ConversationIds : start_conversation(u, c)
    \/ \E u \in DOMAIN users : \E c \in users[u] : conversationDestroy(u, c)
    \/ export
    \/ update_backup_key
    \/ import

Spec == Init /\ [][Next]_vars

-----------------------------------------------------------------------------
(***************************************************************************)
(* Properties                                                              *)
(***************************************************************************)

\* Every user and every conversation of the library has its table in the mirror,
\* and none of these tables was emptied: whoever holds a conversation can go on
\* using it through exports and imports.
MirrorComplete ==
    \A u \in DOMAIN library :
        /\ u \in DOMAIN users
        /\ library[u] \subseteq users[u] \ deleted

\* A backup that the application has exported, with a known key, can be imported:
\* nothing that it does to users in between, destroy_all_users included, empties
\* a table that it has not handed to molch.import.
ExportedBackupIntact ==
    [][backup.usable /\ ~imported => backup'.usable \/ export]_vars

\* molch.import: "remove users that don't exist anymore".  After an import every
\* user in the mirror is one of the library's.
NoUsersThatDontExist == [][import => DOMAIN users' \subseteq DOMAIN library']_vars
=============================================================================
