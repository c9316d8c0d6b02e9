-------------------------- MODULE LuaBindingProofs --------------------------
(***************************************************************************)
(* Proofs about the mirror that the Lua binding keeps, for any sets of     *)
(* users and of conversations.                                             *)
(***************************************************************************)
EXTENDS LuaBinding, TLAPS

\* No conversation is in the tables of two users
Disjoint(f) == \A u, v \in DOMAIN f : u # v => f[u] \cap f[v] = {}

\* The inductive invariant: user:destroy empties the tables of all conversations
\* that the mirror has for the user, also of those that the library has ended, and
\* must not reach another user's that way.  The last part is what
\* ExportedBackupIntact rests on.
LuaInv ==
    /\ MirrorComplete
    /\ Disjoint(users)
    /\ Disjoint(backup.library)
    /\ ~imported => aliases = {}

\* recursively_delete_table leaves the backup alone or makes it unusable; while
\* the mirror does not refer to it, it leaves it alone.
LEMMA BackupAfterDelete ==
    ASSUME NEW places, recursively_delete_table(places), LuaInv
    PROVE  Disjoint(backup'.library) /\ (~imported => backup' = backup)
<1>1. backup' = IF places \cap aliases = {} THEN backup ELSE Unusable
    BY DEF recursively_delete_table
<1>2. Disjoint(Unusable.library)
    BY DEF Unusable, Nothing, Disjoint
<1> QED BY <1>1, <1>2 DEF LuaInv

\* molch.user.new
LEMMA UserNew ==
    ASSUME LuaInv, NEW u \in UserIds, userNew(u)
    PROVE  LuaInv' /\ backup' = backup
<1>1. /\ DOMAIN library' = DOMAIN library \union {u}
      /\ DOMAIN users' = DOMAIN users \union {u}
      /\ library'[u] = {} /\ users'[u] = {}
      /\ \A v \in DOMAIN library : library'[v] = library[v]
      /\ \A v \in DOMAIN users : users'[v] = users[v]
      /\ deleted' = deleted /\ backup' = backup /\ imported' = imported
      /\ aliases' = aliases \ {Attributes}
    BY DEF userNew, FreshUser
<1> QED BY <1>1 DEF LuaInv, MirrorComplete, Disjoint

\* molch.user:destroy: the tables that are emptied are those of one user only.
LEMMA UserDestroy ==
    ASSUME LuaInv, NEW u \in DOMAIN users, userDestroy(u)
    PROVE  LuaInv' /\ (~imported => backup' = backup)
<1>1. /\ DOMAIN library' = DOMAIN library \ {u}
      /\ DOMAIN users' = DOMAIN users \ {u}
      /\ \A v \in DOMAIN library \ {u} : library'[v] = library[v]
      /\ \A v \in DOMAIN users \ {u} : users'[v] = users[v]
      /\ deleted' = deleted \union users[u] /\ imported' = imported
      /\ aliases' = aliases \ {u}
    BY DEF userDestroy, Restrict
<1>2. Disjoint(backup'.library) /\ (~imported => backup' = backup)
    BY BackupAfterDelete DEF userDestroy
<1>3. MirrorComplete'
  <2> SUFFICES ASSUME NEW v \in DOMAIN library \ {u}
               PROVE  v \in DOMAIN users' /\ library'[v] \subseteq users'[v] \ deleted'
      BY <1>1 DEF MirrorComplete
  <2>1. v \in DOMAIN users /\ library[v] \subseteq users[v] \ deleted
      BY DEF LuaInv, MirrorComplete
  <2>2. users[v] \cap users[u] = {}
      BY <2>1 DEF LuaInv, Disjoint
  <2> QED BY <1>1, <2>1, <2>2
<1>4. Disjoint(users')
    BY <1>1 DEF LuaInv, Disjoint
<1> QED BY <1>1, <1>2, <1>3, <1>4 DEF LuaInv

\* molch.destroy_all_users
LEMMA DestroyAllUsers ==
    ASSUME LuaInv, destroy_all_users
    PROVE  LuaInv' /\ (~imported => backup' = backup)
<1>1. /\ DOMAIN library' = {} /\ DOMAIN users' = {} /\ aliases' = {}
      /\ imported' = imported
    BY DEF destroy_all_users, Nothing
<1>2. Disjoint(backup'.library) /\ (~imported => backup' = backup)
    BY BackupAfterDelete DEF destroy_all_users
<1> QED BY <1>1, <1>2 DEF LuaInv, MirrorComplete, Disjoint

\* start_send_conversation and start_receive_conversation: the table of a new
\* conversation is nobody else's.
LEMMA StartConversation ==
    ASSUME LuaInv, NEW u \in DOMAIN users, NEW c \in ConversationIds,
           start_conversation(u, c)
    PROVE  LuaInv' /\ backup' = backup
<1>1. /\ u \in DOMAIN library
      /\ c \notin ConversationsOf(users)
      /\ library' = [library EXCEPT ![u] = @ \union {c}]
      /\ users' = [users EXCEPT ![u] = @ \union {c}]
      /\ deleted' = deleted \ {c} /\ aliases' = aliases \ {u, Attributes}
      /\ backup' = backup /\ imported' = imported
    BY DEF start_conversation, FreshConversation
<1>2. /\ DOMAIN library' = DOMAIN library /\ DOMAIN users' = DOMAIN users
      /\ library'[u] = library[u] \union {c} /\ users'[u] = users[u] \union {c}
      /\ \A v \in DOMAIN library : v # u => library'[v] = library[v]
      /\ \A v \in DOMAIN users : v # u => users'[v] = users[v]
    BY <1>1
<1>3. \A v \in DOMAIN users : c \notin users[v]
    BY <1>1 DEF ConversationsOf
<1>4. MirrorComplete'
  <2> SUFFICES ASSUME NEW v \in DOMAIN library
               PROVE  v \in DOMAIN users /\ library'[v] \subseteq users'[v] \ deleted'
      BY <1>2 DEF MirrorComplete
  <2>1. v \in DOMAIN users /\ library[v] \subseteq users[v] \ deleted
      BY DEF LuaInv, MirrorComplete
  <2>2. CASE v = u
      BY <1>1, <1>2, <2>1, <2>2
  <2>3. CASE v # u
      BY <1>1, <1>2, <2>1, <2>3
  <2> QED BY <2>2, <2>3
<1>5. Disjoint(users')
  <2> SUFFICES ASSUME NEW v \in DOMAIN users, NEW w \in DOMAIN users, v # w,
                      NEW x \in users'[v], x \in users'[w]
               PROVE  FALSE
      BY <1>2 DEF Disjoint
  <2>1. users[v] \cap users[w] = {}
      BY DEF LuaInv, Disjoint
  <2> QED BY <1>2, <1>3, <2>1
<1> QED BY <1>1, <1>4, <1>5 DEF LuaInv

\* molch.conversation:destroy
LEMMA ConversationDestroy ==
    ASSUME LuaInv, NEW u, NEW c, conversationDestroy(u, c)
    PROVE  LuaInv' /\ backup' = backup
<1>1. /\ library' = [v \in DOMAIN library |-> library[v] \ {c}]
      /\ users' = users /\ deleted' = deleted /\ backup' = backup
      /\ imported' = imported /\ aliases' = aliases \ {u}
    BY DEF conversationDestroy, mirror
<1>2. DOMAIN library' = DOMAIN library /\ \A v \in DOMAIN library : library'[v] \subseteq library[v]
    BY <1>1
<1> QED BY <1>1, <1>2 DEF LuaInv, MirrorComplete

\* molch.export: what is exported is what the mirror shows, conversation by
\* conversation.
LEMMA Export == LuaInv /\ export => LuaInv'
<1> SUFFICES ASSUME LuaInv, export PROVE LuaInv'
    OBVIOUS
<1>1. /\ backup' = exported /\ aliases' = {} /\ imported' = FALSE
      /\ library' = library /\ users' = users /\ deleted' = deleted
    BY DEF export, mirror
<1>2. \A u, v \in DOMAIN library : u # v => library[u] \cap library[v] = {}
  <2> SUFFICES ASSUME NEW u \in DOMAIN library, NEW v \in DOMAIN library, u # v
               PROVE  library[u] \cap library[v] = {}
      OBVIOUS
  <2>1. /\ u \in DOMAIN users /\ library[u] \subseteq users[u]
        /\ v \in DOMAIN users /\ library[v] \subseteq users[v]
      BY DEF LuaInv, MirrorComplete
  <2>2. users[u] \cap users[v] = {}
      BY <2>1 DEF LuaInv, Disjoint
  <2> QED BY <2>1, <2>2
<1>3. Disjoint(exported.library)
    BY <1>2 DEF exported, Unusable, Nothing, Disjoint
<1> QED BY <1>1, <1>3 DEF LuaInv, MirrorComplete

\* molch.import: every conversation of the library has a table that is not empty,
\* its old one or a new one.
LEMMA Import ==
    ASSUME LuaInv, import
    PROVE  LuaInv' /\ (~imported => backup' = backup)
<1>1. /\ library' = backup.library
      /\ users' = [u \in DOMAIN users \union DOMAIN library' |->
                      IF u \in DOMAIN library' THEN library'[u] ELSE {}]
      /\ deleted' = (deleted \union ConversationsOf(users)) \ ConversationsOf(library')
      /\ imported' = TRUE
    BY DEF import
<1>2. Disjoint(backup'.library) /\ (~imported => backup' = backup)
    BY BackupAfterDelete DEF import
<1>3. MirrorComplete'
  <2>1. \A u \in DOMAIN library' : library'[u] \subseteq ConversationsOf(library')
      BY DEF ConversationsOf
  <2> QED BY <1>1, <2>1 DEF MirrorComplete
<1>4. Disjoint(users')
    BY <1>1 DEF LuaInv, Disjoint
<1> QED BY <1>1, <1>2, <1>3, <1>4 DEF LuaInv

\* Every step keeps the invariant, and an exported backup that was not imported.
LEMMA LuaStep ==
    LuaInv /\ [Next]_vars => LuaInv' /\ (~imported => backup' = backup \/ export)
<1> SUFFICES ASSUME LuaInv, [Next]_vars
             PROVE  LuaInv' /\ (~imported => backup' = backup \/ export)
    OBVIOUS
<1>1. CASE \E u \in UserIds : userNew(u)
    BY <1>1, UserNew
<1>2. CASE \E u \in DOMAIN users : userDestroy(u)
    BY <1>2, UserDestroy
<1>3. CASE destroy_all_users
    BY <1>3, DestroyAllUsers
<1>4. CASE \E u \in DOMAIN users, c \in ConversationIds : start_conversation(u, c)
    BY <1>4, StartConversation
<1>5. CASE \E u \in DOMAIN users : \E c \in users[u] : conversationDestroy(u, c)
    BY <1>5, ConversationDestroy
<1>6. CASE export
    BY <1>6, Export
<1>7. CASE import
    BY <1>7, Import
<1>8. CASE userNewFails \/ update_backup_key
    BY <1>8 DEF userNewFails, update_backup_key, LuaInv, MirrorComplete
<1>9. CASE UNCHANGED vars
    BY <1>9 DEF vars, mirror, LuaInv, MirrorComplete
<1> QED BY <1>1, <1>2, <1>3, <1>4, <1>5, <1>6, <1>7, <1>8, <1>9 DEF Next

\* The inductive invariant holds of every state of the binding.
THEOREM LuaInvariant == Spec => []LuaInv
<1>1. Init => LuaInv
    BY DEF Init, LuaInv, MirrorComplete, Disjoint, Nothing, Unusable
<1> QED BY <1>1, LuaStep, PTL DEF Spec

\* Every user and conversation of the library has its table in the mirror.
THEOREM MirrorIsComplete == Spec => []MirrorComplete
<1>1. LuaInv => MirrorComplete
    BY DEF LuaInv
<1> QED BY <1>1, LuaInvariant, PTL

\* No call empties the table of a backup that was not handed to molch.import.
THEOREM ExportedBackupStaysIntact == Spec => ExportedBackupIntact
<1>1. LuaInv /\ [Next]_vars =>
         [backup.usable /\ ~imported => backup'.usable \/ export]_vars
    BY LuaStep
<1> QED BY <1>1, LuaInvariant, PTL DEF Spec, ExportedBackupIntact
=============================================================================
