---------------------------- MODULE MasterKeys -----------------------------
(***************************************************************************)
(* The memory that holds private keys (lib/master-keys.cpp, and the global *)
(* backup key of lib/molch.cpp).  It is readable or writable only while an *)
(* Unlocker object is in scope.  Unlockers do not count: a constructor     *)
(* sets the protection and a destructor takes it away, also if another     *)
(* Unlocker of the same memory is in scope around it, as in sign() and     *)
(* exportProtobuf() under start_receive_conversation().                    *)
(*                                                                         *)
(* A call of the library is the sequence of its steps that touch this      *)
(* memory.  A loop over users is one step that puts the steps of its next  *)
(* round in front of what is left of it.  A step that fails (an            *)
(* OUTCOME_TRY, an exception) unwinds the scopes that are open and ends    *)
(* the call.                                                               *)
(***************************************************************************)
EXTENDS Naturals, Sequences, SequencesExt, Functions

CONSTANTS
    Memories,       \* addresses that sodium_malloc returns for users' keys
    BackupKey       \* the address of the global backup key

ASSUME MasterKeysAssumption == BackupKey \notin Memories

VARIABLES
    protection,     \* allocated memory -> what the page protection allows
    users,          \* the memories of the users in the user store
    unlockers,      \* the memories of the Unlockers in scope, innermost last
    todo            \* the steps that the current call still has to do

vars == <<protection, users, unlockers, todo>>

Modes == {"noaccess", "readonly", "readwrite"}

-----------------------------------------------------------------------------
(***************************************************************************)
(* Steps                                                                   *)
(***************************************************************************)

Allocate(m) == <<[op |-> "allocate", memory |-> m]>>
Unlock(m, mode) == <<[op |-> "unlock", memory |-> m, mode |-> mode]>>
Use(m, mode) == <<[op |-> "use", memory |-> m, mode |-> mode]>>
ScopeEnd == <<[op |-> "end"]>>
Own(ms) == <<[op |-> "own", memories |-> ms]>>   \* the user store is now this

\* An Unlocker around the use of the memory
Scope(m, mode) == Unlock(m, mode) \o Use(m, mode) \o ScopeEnd

\* UserStore::exportProtobuf and UserStore::import: a loop over the users ms
exportUsers(ms) == <<[op |-> "exportProtobuf", memories |-> ms]>>
importUsers(ms) == <<[op |-> "import", memories |-> ms]>>

-----------------------------------------------------------------------------
(***************************************************************************)
(* The functions of the library as steps                                   *)
(***************************************************************************)

\* MasterKeys::sign, MasterKeys::exportProtobuf
sign(m) == Scope(m, "readonly")
exportProtobuf(m) == Scope(m, "readonly")

\* MasterKeys::create with generate, MasterKeys::import
create(m) == Allocate(m) \o Scope(m, "readwrite")
import(m) == Allocate(m) \o Scope(m, "readwrite")

create_prekey_list(m) == sign(m)

update_backup_key ==
    (IF BackupKey \in DOMAIN protection THEN <<>> ELSE Allocate(BackupKey))
    \o Scope(BackupKey, "readwrite")

\* export_all for the users ms, if the caller of the library asked for a backup
export_all(ms, backup) ==
    IF backup
    THEN Unlock(BackupKey, "readonly") \o exportUsers(ms)
            \o Use(BackupKey, "readonly") \o ScopeEnd
    ELSE <<>>

\* export_conversation, also at the end of encrypt_message and decrypt_message
export_conversation == Scope(BackupKey, "readonly")

create_user(m, backup) ==
    update_backup_key \o create(m) \o Own(users \union {m})
        \o create_prekey_list(m) \o export_all(users \union {m}, backup)

destroy_user(m, backup) == Own(users \ {m}) \o export_all(users \ {m}, backup)

\* createSendConversation reads the private identity key
start_send_conversation(m, backup) ==
    Unlock(m, "readonly") \o Use(m, "readonly") \o export_all(users, backup)
        \o ScopeEnd

\* Mutant: the new prekey list is made before the packet is decrypted
start_receive_conversation_listFirst(m, backup) ==
    Unlock(m, "readonly") \o create_prekey_list(m) \o Use(m, "readonly")
        \o export_all(users, backup) \o ScopeEnd

\* createReceiveConversation reads the private identity key
start_receive_conversation(m, backup) ==
    Unlock(m, "readonly") \o Use(m, "readonly") \o create_prekey_list(m)
        \o export_all(users, backup) \o ScopeEnd

\* import_all: the new users are complete before they replace the old ones
import_all(ms) == importUsers(ms) \o update_backup_key \o Own(ms)

-----------------------------------------------------------------------------

Free == Memories \ DOMAIN protection

\* The calls the application can make.  Without a backup key an export ends the
\* process, see module Molch.
Calls ==
    {update_backup_key, Own({})}                    \* ..., molch_destroy_all_users
    \union {create_user(m, backup) : m \in Free, backup \in BOOLEAN}
    \union {import_all(ms) : ms \in SUBSET Free}
    \union {create_prekey_list(m) : m \in users}    \* molch_get_prekey_list
    \union (IF BackupKey \in DOMAIN protection
            THEN {export_conversation, export_all(users, TRUE)}
                 \union UNION {{destroy_user(m, backup),
                                start_send_conversation(m, backup),
                                start_receive_conversation(m, backup)}
                                  : m \in users, backup \in BOOLEAN}
            ELSE {})

Init ==
    /\ protection = [m \in {} |-> "noaccess"]
    /\ users = {}
    /\ unlockers = <<>>
    /\ todo = <<>>

call ==
    /\ todo = <<>>
    /\ todo' \in Calls
    /\ UNCHANGED <<protection, users, unlockers>>

Next_(op) == todo # <<>> /\ Head(todo).op = op /\ todo' = Tail(todo)

\* sodium_malloc returns memory that can be written; MasterKeys::init locks it
allocate ==
    /\ Next_("allocate")
    /\ LET m == Head(todo).memory
       IN  protection' = [x \in DOMAIN protection \union {m} |->
              IF x # m THEN protection[x]
              ELSE IF m = BackupKey THEN "readwrite" ELSE "noaccess"]
    /\ UNCHANGED <<users, unlockers>>

\* The constructor of Unlocker, ReadWriteUnlocker, GlobalBackupKeyUnlocker or
\* GlobalBackupKeyWriteUnlocker
unlock ==
    /\ Next_("unlock")
    /\ protection' = [protection EXCEPT ![Head(todo).memory] = Head(todo).mode]
    /\ unlockers' = Append(unlockers, Head(todo).memory)
    /\ UNCHANGED users

use ==
    /\ Next_("use")
    /\ UNCHANGED <<protection, users, unlockers>>

\* Mutant: the protection is left alone while another Unlocker, of whatever
\* memory, is in scope
lock_outermost ==
    /\ Next_("end")
    /\ protection' = IF Len(unlockers) > 1 THEN protection
                     ELSE [protection EXCEPT ![Last(unlockers)] = "noaccess"]
    /\ unlockers' = Front(unlockers)
    /\ UNCHANGED users

\* The destructor
lock ==
    /\ Next_("end")
    /\ protection' = [protection EXCEPT ![Last(unlockers)] = "noaccess"]
    /\ unlockers' = Front(unlockers)
    /\ UNCHANGED users

\* The user store changes; memory that no user and no local variable owns is freed
own ==
    /\ Next_("own")
    /\ users' = Head(todo).memories
    /\ protection' = Restrict(protection,
                              (users' \union {BackupKey}) \cap DOMAIN protection)
    /\ UNCHANGED unlockers

\* A round of the loop over the users, or its end
exportNext ==
    /\ todo # <<>> /\ Head(todo).op = "exportProtobuf"
    /\ LET ms == Head(todo).memories
       IN  \/ ms = {} /\ todo' = Tail(todo)
           \/ \E m \in ms :
                 todo' = exportProtobuf(m) \o exportUsers(ms \ {m}) \o Tail(todo)
    /\ UNCHANGED <<protection, users, unlockers>>

importNext ==
    /\ todo # <<>> /\ Head(todo).op = "import"
    /\ LET ms == Head(todo).memories
       IN  \/ ms = {} /\ todo' = Tail(todo)
           \/ \E m \in ms :
                 todo' = import(m) \o importUsers(ms \ {m}) \o Tail(todo)
    /\ UNCHANGED <<protection, users, unlockers>>

\* What can fail, but not while scopes are unwound.  Nothing can between the
\* allocation of the backup key and its Unlocker; what fails before another
\* Unlocker leaves the same behind as what fails in it.
MayFail ==
    /\ todo # <<>> /\ todo # Own(users)
    /\ Head(todo).op \in {"allocate", "use", "own"}

\* The destructors of the Unlockers in scope
Unwind == [i \in DOMAIN unlockers |-> [op |-> "end"]]

\* Mutant: no destructor frees the keys of a user that was not finished
fail_leak ==
    /\ MayFail
    /\ todo' = Unwind
    /\ UNCHANGED <<protection, users, unlockers>>

\* A step fails: the scopes are unwound, and what the call has not handed over to
\* the user store is freed
fail ==
    /\ MayFail
    /\ todo' = Unwind \o Own(users)
    /\ UNCHANGED <<protection, users, unlockers>>

Next ==
    \/ call \/ allocate \/ unlock \/ use \/ lock \/ own
    \/ exportNext \/ importNext \/ fail

Spec == Init /\ [][Next]_vars

-----------------------------------------------------------------------------
(***************************************************************************)
(* Properties                                                              *)
(***************************************************************************)

\* No call uses memory that its page protection forbids (the process would be
\* killed): although an inner Unlocker takes the protection of the outer one's
\* memory away, every use comes before that.  And no Unlocker touches memory that
\* is not allocated any more: no scope outlives the user whose keys it opened.
NoFault ==
    todo # <<>> =>
        LET step == Head(todo)
        IN  /\ step.op = "use" =>
                  /\ step.memory \in DOMAIN protection
                  /\ protection[step.memory] \in {step.mode, "readwrite"}
            /\ step.op = "unlock" => step.memory \in DOMAIN protection
            /\ step.op = "end" =>
                  unlockers # <<>> /\ Last(unlockers) \in DOMAIN protection

\* Between two calls no private key and not the backup key can be read, wherever
\* the last call failed.
LockedBetweenCalls ==
    todo = <<>> => \A m \in DOMAIN protection : protection[m] = "noaccess"

\* Between two calls the only private keys in memory are those of the users in
\* the store: a call that fails leaves none of the users it was making.
NoKeysWithoutUser == todo = <<>> => DOMAIN protection \ {BackupKey} = users
=============================================================================
