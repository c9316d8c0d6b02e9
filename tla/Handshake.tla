----------------------------- MODULE Handshake -----------------------------
(***************************************************************************)
(* How conversations begin (lib/molch.cpp, lib/conversation.cpp on top of  *)
(* the prekey store): a user publishes signed lists of its prekeys,        *)
(* senders pick a prekey of a list they hold and send a prekey packet, and *)
(* the user opens a conversation from it.  Lists may be old when they are  *)
(* used; packets may come late, damaged, several times or never; the       *)
(* process may crash at any point and start from its latest backup.        *)
(*                                                                         *)
(* Opening a conversation first takes the prekey (createReceiveConver-     *)
(* sation) and then makes a new prekey list (create_prekey_list), each     *)
(* with its own reading of the clock: two steps here, with nothing but the *)
(* clock between them.  A list signed by somebody else does not verify and *)
(* is left out.                                                            *)
(***************************************************************************)
EXTENDS PrekeyStore

CONSTANTS
    Senders,                        \* who starts conversations with the user
    prekey_list_expiration_time,    \* lifetime of a prekey list (3 months)
    MaxOpened                       \* bound: conversations opened per packet

ASSUME HandshakeAssumption ==
    /\ prekey_list_expiration_time \in Nat
    /\ MaxOpened \in Nat

VARIABLES
    published,      \* the prekey list that the library returned last
    held,           \* environment: the list that each sender holds
    packet,         \* environment: the prekey packet that each sender has sent
    opened,         \* how many conversations were opened from each packet
    call,           \* the sender whose packet is being opened
    backup,         \* the prekey store of the latest backup
    backed_list     \* history: when the last list was made that is in a backup

environment == <<held, packet>>
handshake == <<published, environment, opened, call, backup, backed_list>>
allVars == <<vars, handshake>>

\* "backed" is history: is the list's store in a backup, or was it lost in a crash?
PrekeyList ==
    [prekeys : [Slots -> PublicKey], expiration_date : Nat,
     backed : {"yes", "no", "lost"}]
NoList == [prekeys |-> <<>>, expiration_date |-> 0, backed |-> "no"]

\* When a list was made
MadeAt(list) == list.expiration_date - prekey_list_expiration_time

\* A packet names the prekey it was made with; the rest is history: when the list
\* was made that the prekey was chosen from, and whether that list was in a backup
Packet == [prekey : PublicKey, made : Nat, backed : {"yes", "no", "lost"}]
NoPacket == [prekey |-> <<0, 0>>, made |-> 0, backed |-> "no"]

Nobody == "nobody"      \* no call is under way

-----------------------------------------------------------------------------

\* PrekeyStore::list, with an expiration date, signed
prekeyList(prekeys, backed) ==
    [prekeys |-> [i \in Slots |-> prekeys[i].public_key],
     expiration_date |-> clock + prekey_list_expiration_time,
     backed |-> backed]

\* Mutant: the list is made without a rotation
create_prekey_list_noRotate(backed) ==
    /\ published' = prekeyList(prekeys_storage, backed)
    /\ UNCHANGED vars

\* create_prekey_list: the list is made after the rotation
create_prekey_list(backed) ==
    /\ rotate
    /\ published' = prekeyList(prekeys_storage', backed)

\* The part of export_all that is about the prekey store (exportProtobuf)
export ==
    /\ backup' = [prekeys |-> prekeys_storage', deprecated |-> deprecated_prekeys_storage']
    /\ backed_list' = IF published'.backed = "yes" THEN MadeAt(published') ELSE backed_list

\* verify_prekey_list
verify_prekey_list(list) == list # NoList /\ list.expiration_date >= clock

-----------------------------------------------------------------------------

\* molch_create_user returns the first prekey list and a backup
HandshakeInit ==
    /\ Init
    /\ published = prekeyList(prekeys_storage, "yes")
    /\ held = [s \in Senders |-> NoList]
    /\ packet = [s \in Senders |-> NoPacket]
    /\ opened = [s \in Senders |-> 0]
    /\ call = Nobody
    /\ backup = [prekeys |-> prekeys_storage, deprecated |-> {}]
    /\ backed_list = StartTime

\* molch_get_prekey_list, which returns no backup
get_prekey_list ==
    /\ call = Nobody
    /\ create_prekey_list("no")
    /\ UNCHANGED <<environment, opened, call, backup, backed_list>>

\* molch_export, or another call that returns a backup of everything
exportAll ==
    /\ call = Nobody
    /\ UNCHANGED <<vars, environment, opened, call>>
    /\ published' = [published EXCEPT !.backed = IF @ = "no" THEN "yes" ELSE @]
    /\ export

\* A sender fetches the list that was published last
fetchList(s) ==
    /\ packet[s] = NoPacket
    /\ held' = [held EXCEPT ![s] = published]
    /\ UNCHANGED <<vars, published, packet, opened, call, backup, backed_list>>

\* start_send_conversation by a sender: any prekey of a list that verifies
start_send_conversation(s) ==
    /\ packet[s] = NoPacket
    /\ verify_prekey_list(held[s])
    /\ \E i \in Slots :
          packet' = [packet EXCEPT ![s] =
              [prekey |-> held[s].prekeys[i],
               made |-> MadeAt(held[s]),
               backed |-> held[s].backed]]
    /\ UNCHANGED <<vars, published, held, opened, call, backup, backed_list>>

\* getPrekey for the prekey that the packet names.  Without it the call fails
\* with NOT_FOUND and changes nothing.
getPrekey(key) ==
    \/ \E i \in Slots :
          prekeys_storage[i].public_key = key /\ getPrekeyListed(i)
    \/ \E d \in deprecated_prekeys_storage :
          d.public_key = key /\ getPrekeyDeprecated(d)

\* The first half of start_receive_conversation, up to createReceiveConversation.
\* A damaged packet fails after its prekey was taken, and nothing is returned.
start_receive_conversation(s, damaged) ==
    /\ call = Nobody
    /\ packet[s] # NoPacket
    /\ opened[s] < MaxOpened
    /\ getPrekey(packet[s].prekey)
    /\ \A i \in Slots : generation'[i] < MaxGeneration   \* room for the rotation
    /\ call' = IF damaged THEN Nobody ELSE s
    /\ UNCHANGED <<published, environment, opened, backup, backed_list>>

\* Mutant: the backup is made before the new prekey list
finish_receive_conversation_earlyExport ==
    /\ call # Nobody
    /\ create_prekey_list("yes")
    /\ backup' = [prekeys |-> prekeys_storage, deprecated |-> deprecated_prekeys_storage]
    /\ backed_list' = clock
    /\ opened' = [opened EXCEPT ![call] = @ + 1]
    /\ call' = Nobody
    /\ UNCHANGED environment

\* Mutant: the call returns no backup
finish_receive_conversation_noExport ==
    /\ call # Nobody
    /\ create_prekey_list("no")
    /\ opened' = [opened EXCEPT ![call] = @ + 1]
    /\ call' = Nobody
    /\ UNCHANGED <<environment, backup, backed_list>>

\* The second half: a new prekey list, the conversation is stored, and both come
\* with a backup
finish_receive_conversation ==
    /\ call # Nobody
    /\ create_prekey_list("yes")
    /\ export
    /\ opened' = [opened EXCEPT ![call] = @ + 1]
    /\ call' = Nobody
    /\ UNCHANGED environment

\* The process ends, perhaps in the middle of a call, and starts from the latest
\* backup: PrekeyStore::import computes both caches anew
crash ==
    /\ prekeys_storage' = backup.prekeys
    /\ deprecated_prekeys_storage' = backup.deprecated
    /\ oldest_expiration_date' = updateExpirationDate(backup.prekeys)
    /\ oldest_deprecated_expiration_date' =
          updateDeprecatedExpirationDate(backup.deprecated)
    /\ published' = [published EXCEPT !.backed = IF @ = "no" THEN "lost" ELSE @]
    /\ call' = Nobody
    /\ UNCHANGED <<clock, generation, handed_out, delisted,
                   environment, opened, backup, backed_list>>

HandshakeNext ==
    \/ get_prekey_list
    \/ \E s \in Senders : fetchList(s)
    \/ \E s \in Senders : start_send_conversation(s)
    \/ \E s \in Senders, damaged \in BOOLEAN : start_receive_conversation(s, damaged)
    \/ finish_receive_conversation
    \/ exportAll
    \/ crash
    \/ tick /\ UNCHANGED handshake

HandshakeSpec == HandshakeInit /\ [][HandshakeNext]_allVars

-----------------------------------------------------------------------------
(***************************************************************************)
(* Properties                                                              *)
(***************************************************************************)

\* The variables that this module adds have their types.
HandshakeTypeOK ==
    /\ TypeOK
    /\ published \in PrekeyList
    /\ held \in [Senders -> PrekeyList \union {NoList}]
    /\ packet \in [Senders -> Packet \union {NoPacket}]
    /\ opened \in [Senders -> 0..MaxOpened]
    /\ call \in Senders \union {Nobody}
    /\ backed_list \in Nat

\* The user still has the private half of a prekey
Served(key) == key \in Listed \union Deprecated

\* Whoever uses the list that was published last is served, however old the list
\* is, whichever of its prekeys other packets, damaged ones too, have used up in
\* the meantime, and after crashes: keys are only thrown away by rotate(), and
\* rotate() is only called to make the next list.  Except after a crash if the
\* list comes from molch_get_prekey_list, which returns no backup, and nothing
\* else has made one since.
PublishedListServed ==
    published.backed # "lost" /\ call = Nobody =>
        \A i \in Slots : Served(published.prekeys[i])

\* A packet made from a list that has been replaced is served for at least
\* deprecated_prekey_expiration_time after its list was made.
FreshPacketServed ==
    \A s \in Senders :
        /\ packet[s].backed = "yes"
        /\ clock <= packet[s].made + deprecated_prekey_expiration_time
        => Served(packet[s].prekey)

\* All the times at which the prekey left the list lie more than
\* deprecated_prekey_expiration_time before t
LeftLongBefore(key, t) ==
    \A e \in delisted : e[1] = key => t > e[2] + deprecated_prekey_expiration_time

\* The prekeys that the backup has deprecated, and those that it lists
BackedDeprecated == {d.public_key : d \in backup.deprecated}
BackedListed == {backup.prekeys[i].public_key : i \in Slots}

\* A prekey that left the list can open packets (each time as a new conversation
\* that delivers the same message) until the first list is made that is later than
\* deprecated_prekey_expiration_time after it left: the private prekey is gone from
\* the store with that list, and from the backup with the first backup that holds
\* it.  From then on no crash brings it back.  Until then one does: a list of
\* molch_get_prekey_list comes without a backup, and a crash that loses it
\* restores the purged prekeys until the next list.  (A crash that undoes the
\* deprecation itself puts the prekey back in the list; the time counts from when
\* it leaves again.)
GoneAfterWindow ==
    \A key \in {e[1] : e \in delisted} :
        /\ published.backed # "lost" /\ LeftLongBefore(key, MadeAt(published))
              => key \notin Deprecated
        /\ LeftLongBefore(key, backed_list)
              => key \notin Deprecated \union BackedDeprecated

\* The prekey of a conversation that was opened is never again offered: it is
\* in no list, neither of the store nor of the backup nor the published one,
\* whatever is opened, rotated, exported or lost in crashes afterwards.
OpenedKeyNeverListed ==
    \A s \in Senders : opened[s] > 0 =>
        /\ packet[s].prekey \notin Listed \union BackedListed
        /\ \A i \in Slots : published.prekeys[i] # packet[s].prekey
=============================================================================
