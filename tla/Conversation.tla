---------------------------- MODULE Conversation ----------------------------
(***************************************************************************)
(* One conversation between two parties (lib/conversation.cpp on top of    *)
(* lib/ratchet.cpp and lib/packet.cpp) over a network that may lose,       *)
(* duplicate, reorder, delay and damage packets, with a restart from a     *)
(* backup at any time.  The library is single threaded: each call of the   *)
(* API is one step.                                                        *)
(*                                                                         *)
(* A packet that was sent stays available to the network for ever: it may  *)
(* be delivered never, once or many times, at any time, intact or damaged. *)
(***************************************************************************)
EXTENDS Ratchet, FiniteSetsExt, Bags

CONSTANTS
    MaxSend1,   \* bound: packets sent by party 1 (Bob)
    MaxSend2,   \* bound: packets sent by party 2 (Alice)
    MaxTime     \* bound: largest value of the clock

ASSUME ConversationAssumption == {MaxSend1, MaxSend2, MaxTime} \subseteq Nat

Parties == {1, 2}
Peer(p) == 3 - p
MaxSend(p) == IF p = 1 THEN MaxSend1 ELSE MaxSend2

VARIABLES
    ratchet,    \* party -> the ratchet of its conversation, or NoConversation
    sent,       \* the packets handed to the network
    received,   \* history: bag of the packets decrypted by their receivers
    drawn,      \* history: party -> key pairs drawn, names the next one
    forgotten,  \* history: message keys that left a store without being used
    clock       \* what now() returns

vars == <<ratchet, sent, received, drawn, forgotten, clock>>

NoConversation == [role |-> "none"]
HasConversation(p) == ratchet[p] # NoConversation

\* Party p's identity key pair; draw 1 is the prekey it has published
Identity(p) == <<p, 0>>
PublishedPrekey(p) == <<p, 1>>

NoPrekeyMetadata == [identity |-> NoPublicKey, ephemeral |-> NoPublicKey,
                     prekey |-> NoPublicKey]

Init ==
    /\ ratchet = [p \in Parties |-> NoConversation]
    /\ sent = {}
    /\ received = EmptyBag
    /\ drawn = [p \in Parties |-> 1]
    /\ forgotten = {}
    /\ clock = 0

-----------------------------------------------------------------------------
(***************************************************************************)
(* Packets                                                                 *)
(***************************************************************************)

\* What the network may do to the bytes of a packet
Damage == {"none", "header", "body"}

\* packet_decrypt_header: an empty key is refused, another key does not fit
decryptsHeader(packet, damage, header_key) ==
    /\ header_key # NoKey
    /\ damage # "header"
    /\ packet.header_key = header_key

\* packet_decrypt_message
decryptsMessage(packet, damage, message_key) ==
    damage # "body" /\ packet.message_key = message_key

\* packet_decrypt: header and message
decrypts(packet, damage, key) ==
    /\ decryptsHeader(packet, damage, key.header_key)
    /\ decryptsMessage(packet, damage, key.message_key)

-----------------------------------------------------------------------------
(***************************************************************************)
(* Receiving                                                               *)
(***************************************************************************)

\* trySkippedHeaderAndMessageKeys: the indices of keys that open the packet
fittingKeys(r, packet, damage) ==
    {i \in DOMAIN r.skipped : decrypts(packet, damage, r.skipped[i])}

\* Mutant: a skipped key stays in the store after it was used
useSkippedKey_keeps(r, i) == r

\* The key that opened a packet is removed
useSkippedKey(r, i) == [r EXCEPT !.skipped = remove(@, i)]

\* Which header key opens the packet
headerDecryptability(r, packet, damage) ==
    IF decryptsHeader(packet, damage, r.receive_header_key)
    THEN "CURRENT_DECRYPTABLE"
    ELSE IF decryptsHeader(packet, damage, r.next_receive_header_key)
    THEN "NEXT_DECRYPTABLE"
    ELSE "UNDECRYPTABLE"

(***************************************************************************)
(* The part of internal_receive after the skipped keys: header decryption, *)
(* Ratchet::receive, message decryption, setLastMessageAuthenticity(true). *)
(* "keys" are the keys both stores hold when the message is judged.        *)
(***************************************************************************)
advanceRatchet(r, packet, damage, now) ==
    LET tried == setHeaderDecryptability(r, headerDecryptability(r, packet, damage))
        staged == receive(tried.ratchet, packet.ephemeral, packet.message_number,
                          packet.previous_message_number, now)
    IN  IF ~tried.ok \/ tried.ratchet.header_decryptable = "UNDECRYPTABLE"
        THEN [ok |-> FALSE, ratchet |-> tried.ratchet, keys |-> {}]
        ELSE IF ~staged.ok \/ ~decryptsMessage(packet, damage, staged.message_key)
        THEN [ok |-> FALSE, ratchet |-> staged.ratchet, keys |-> {}]
        ELSE [ok |-> TRUE,
              ratchet |-> setLastMessageAuthenticity(staged.ratchet, TRUE, now),
              keys |-> ToSet(r.skipped) \union ToSet(staged.ratchet.staged)]

\* Conversation::internal_receive
internal_receive(r, packet, damage, now) ==
    LET fitting == fittingKeys(r, packet, damage)
    IN  IF fitting # {}
        THEN [ok |-> TRUE, ratchet |-> useSkippedKey(r, Min(fitting)),
              keys |-> {}]
        ELSE advanceRatchet(r, packet, damage, now)

\* Conversation::receive: a failure is reported to the ratchet
receivePacket(r, packet, damage, now) ==
    LET result == internal_receive(r, packet, damage, now)
    IN  IF result.ok THEN result
        ELSE [result EXCEPT
                !.ratchet = setLastMessageAuthenticity(@, FALSE, now)]

\* History: the message keys that a call dropped for want of room or for age
dropped(result, now) ==
    LET full == Cardinality(result.keys) > header_and_message_store_maximum_keys
    IN  {key.message_key : key \in
            {k \in result.keys \ ToSet(result.ratchet.skipped) :
                full \/ isOutdated(k, now)}}

-----------------------------------------------------------------------------
(***************************************************************************)
(* The calls of the API                                                    *)
(***************************************************************************)

SentBy(p) == {packet \in sent : packet.from = p}
SentTo(p) == SentBy(Peer(p))

\* Conversation::send, from the ratchet r: draws is the number of key pairs the
\* call has drawn before
send(p, r, prekey_metadata, draws) ==
    LET data == getSendData(r, <<p, drawn[p] + draws + 1>>)
        packet == [from |-> p,
                   header_key |-> data.header_key,
                   message_key |-> data.message_key,
                   ephemeral |-> data.ephemeral,
                   message_number |-> data.message_number,
                   previous_message_number |-> data.previous_message_number,
                   prekey_metadata |-> prekey_metadata]
    IN  /\ sent' = IF data.ok THEN sent \union {packet} ELSE sent
        /\ ratchet' = [ratchet EXCEPT ![p] = data.ratchet]
        /\ drawn' = [drawn EXCEPT
                        ![p] = @ + draws + IF r.ratchet_flag THEN 1 ELSE 0]
        /\ UNCHANGED <<received, forgotten, clock>>

\* Conversation::createSendConversation: party p starts the conversation
createSendConversation(p) ==
    LET ephemeral == <<p, drawn[p] + 1>>
        theirPrekey == PublishedPrekey(Peer(p))
    IN  /\ sent = {}
        /\ MaxSend(p) > 0
        /\ send(p,
                create(Identity(p), ephemeral, Identity(Peer(p)), theirPrekey),
                [identity |-> Identity(p), ephemeral |-> ephemeral,
                 prekey |-> theirPrekey],
                1)

\* molch_encrypt_message
encryptMessage(p) ==
    /\ HasConversation(p)
    /\ Cardinality(SentBy(p)) < MaxSend(p)
    /\ send(p, ratchet[p], NoPrekeyMetadata, 0)

\* The outcome of a call that tried to decrypt a packet for party p
applyResult(p, packet, result) ==
    /\ ratchet' = [ratchet EXCEPT ![p] = result.ratchet]
    /\ received' = IF result.ok THEN received (+) SetToBag({packet}) ELSE received
    /\ forgotten' = IF result.ok THEN forgotten \union dropped(result, clock)
                                 ELSE forgotten
    /\ UNCHANGED <<sent, drawn, clock>>

\* The ratchet that looks at a packet: that of the conversation, or the one that
\* createReceiveConversation makes from what the prekey packet says
receivingRatchet(p, r, packet) ==
    LET metadata == packet.prekey_metadata
    IN  IF r # NoConversation THEN r
        ELSE create(Identity(p), metadata.prekey,
                    metadata.identity, metadata.ephemeral)

\* Conversation::createReceiveConversation: the conversation is kept only when
\* its first packet decrypts.  (That the prekey is used up is part of
\* PrekeyStore.)
createReceiveConversation(p, packet, damage) ==
    LET result == receivePacket(receivingRatchet(p, ratchet[p], packet), packet, damage, clock)
    IN  /\ ~HasConversation(p)
        /\ packet.prekey_metadata # NoPrekeyMetadata
        /\ applyResult(p, packet,
                       IF result.ok THEN result
                       ELSE [result EXCEPT !.ratchet = NoConversation])

\* molch_decrypt_message
decryptMessage(p, packet, damage) ==
    /\ HasConversation(p)
    /\ applyResult(p, packet,
                   receivePacket(receivingRatchet(p, ratchet[p], packet), packet, damage, clock))

\* The process ends after a backup of the conversation and starts from it
restart(p) ==
    /\ HasConversation(p)
    /\ canExport(ratchet[p])
    /\ ratchet' = [ratchet EXCEPT ![p] = exportAndImport(@)]
    /\ UNCHANGED <<sent, received, drawn, forgotten, clock>>

tick ==
    /\ clock < MaxTime
    /\ clock' = clock + 1
    /\ UNCHANGED <<ratchet, sent, received, drawn, forgotten>>

Next ==
    \/ \E p \in Parties : createSendConversation(p)
    \/ \E p \in Parties : encryptMessage(p)
    \/ \E p \in Parties, damage \in Damage : \E packet \in SentTo(p) :
          \/ createReceiveConversation(p, packet, damage)
          \/ decryptMessage(p, packet, damage)
    \/ \E p \in Parties : restart(p)
    \/ tick

Spec == Init /\ [][Next]_vars

-----------------------------------------------------------------------------
(***************************************************************************)
(* Properties                                                              *)
(***************************************************************************)

HeaderDecryptability ==
    {"CURRENT_DECRYPTABLE", "NEXT_DECRYPTABLE", "UNDECRYPTABLE", "NOT_TRIED"}

RatchetTypeOK(r) ==
    /\ {r.role, r.ratchet_flag, r.received_valid} \subseteq BOOLEAN
    /\ r.header_decryptable \in HeaderDecryptability
    /\ {r.send_message_number, r.receive_message_number,
        r.previous_message_number, r.purported_message_number,
        r.purported_previous_message_number} \subseteq 0..(message_numbers - 1)
    /\ r.root_key.kind = "root"
    /\ {r.next_send_header_key.kind, r.next_receive_header_key.kind} = {"header"}
    /\ {r.send_chain_key.kind, r.receive_chain_key.kind}
          \subseteq {"none", "zero", "chain"}

\* The variables have their types.
TypeOK ==
    /\ \A p \in Parties : HasConversation(p) => RatchetTypeOK(ratchet[p])
    /\ \A p \in Parties : drawn[p] \in Nat \ {0}
    /\ IsABag(received)
    /\ clock \in 0..MaxTime

\* Between two calls of the API no ratchet is left in the middle of a packet:
\* whatever receive() went through, the next packet will be looked at (the
\* INVALID_STATE and FulfillOrFail exits of ratchet.cpp are never taken) and
\* nothing unauthenticated waits in the staging area.
ReadyForNextPacket ==
    \A p \in Parties : HasConversation(p) =>
        /\ ratchet[p].received_valid
        /\ ratchet[p].header_decryptable = "NOT_TRIED"
        /\ ratchet[p].staged = <<>>

Transcript(p) == ratchet[p].root_key.transcript

\* The two ratchets move in lock step: at most one of them is to start a new
\* chain, and then both have the same root key and each expects the header key
\* that the other will use next; otherwise one of them is exactly one Diffie
\* Hellman ahead, and the other waits for precisely that chain's header key.
LockStep ==
    (\A p \in Parties : HasConversation(p)) =>
        \A p \in Parties :
            LET me == ratchet[p]
                peer == ratchet[Peer(p)]
            IN  /\ me.ratchet_flag =>
                      /\ ~peer.ratchet_flag
                      /\ me.root_key = peer.root_key
                      /\ me.next_send_header_key = peer.next_receive_header_key
                      /\ me.next_receive_header_key = peer.next_send_header_key
                /\ ~me.ratchet_flag /\ ~peer.ratchet_flag =>
                      \/ /\ Transcript(Peer(p)) = Front(Transcript(p))
                         /\ me.send_header_key = peer.next_receive_header_key
                      \/ /\ Transcript(p) = Front(Transcript(Peer(p)))
                         /\ peer.send_header_key = me.next_receive_header_key

\* The packet is further ahead in its chain than the receiver may skip
TooFarAhead(r, packet) ==
    \/ /\ headerDecryptability(r, packet, "none") = "CURRENT_DECRYPTABLE"
       /\ packet.message_number
             > r.receive_message_number + maximum_skipped_messages
    \/ /\ headerDecryptability(r, packet, "none") = "NEXT_DECRYPTABLE"
       /\ \/ packet.previous_message_number
                > r.receive_message_number + maximum_skipped_messages
          \/ packet.message_number > maximum_skipped_messages

\* The packet's chain has used up the message numbers: the number of its packets,
\* which the next chain will announce, has wrapped around
Wrapped(packet) ==
    \E other \in sent :
        /\ other.message_key.transcript = packet.message_key.transcript
        /\ other.message_key.index >= message_numbers - 1

\* Every packet that was sent and not yet received can be decrypted right now,
\* in whatever order the others arrived and however often something else was
\* rejected, unless it is too far ahead, its key was dropped for want of room or
\* for age, or its chain has used up the message numbers.
MissingPacketsDecryptable ==
    \A p \in Parties : HasConversation(p) =>
        \A packet \in SentTo(p) :
            \/ BagIn(packet, received)
            \/ packet.message_key \in forgotten
            \/ TooFarAhead(ratchet[p], packet)
            \/ Wrapped(packet)
            \/ receivePacket(ratchet[p], packet, "none", clock).ok

\* The next packet of the current chain, or the first of the next one if the end
\* of the current chain that it announces is not too far ahead
NextInOrder(r, packet) ==
    \/ /\ headerDecryptability(r, packet, "none") = "CURRENT_DECRYPTABLE"
       /\ packet.message_key = deriveMessageKey(r.receive_chain_key)
    \/ /\ headerDecryptability(r, packet, "none") = "NEXT_DECRYPTABLE"
       /\ packet.message_key.index = 0
       /\ ~TooFarAhead(r, packet)

\* A packet that is the next of its chain is decrypted, and so is the first of a
\* new chain unless more packets of the old chain are missing than may be
\* skipped; also when the message number has wrapped around in the meantime.
\* (Packets that were skipped across the wrap are lost, but nothing else is.)
InOrderDecryptable ==
    \A p \in Parties : HasConversation(p) =>
        \A packet \in SentTo(p) :
            ~BagIn(packet, received) /\ NextInOrder(ratchet[p], packet) =>
                receivePacket(ratchet[p], packet, "none", clock).ok

\* The message keys that somebody who reads this state can compute
Retained(r, message_key) ==
    \/ \E i \in DOMAIN r.skipped : r.skipped[i].message_key = message_key
    \/ \E i \in DOMAIN r.staged : r.staged[i].message_key = message_key
    \/ \E chain_key \in {r.send_chain_key, r.receive_chain_key,
                         r.purported_receive_chain_key} :
          /\ chain_key.transcript = message_key.transcript
          /\ chain_key.index <= message_key.index

\* Forward secrecy of the stored state: the key of a message that was received
\* cannot be computed from the key stores and chain keys of its receiver any
\* more, and that of a message that was sent not from those of its sender.
\* (Purported chain keys of rejected packets included.)
UsedKeysErased ==
    \A p \in Parties : HasConversation(p) =>
        /\ \A packet \in SentTo(p) :
              BagIn(packet, received) => ~Retained(ratchet[p], packet.message_key)
        /\ \A packet \in SentBy(p) : ~Retained(ratchet[p], packet.message_key)

\* The key that party p's next message will be encrypted with
NextMessageKey(p) == getSendData(ratchet[p], <<p, drawn[p] + 1>>).message_key

\* No message key encrypts two messages: different packets have different keys,
\* and the key of the next message is not that of any packet so far.  A ratchet
\* that sends twice from one state, because a call or a restart took it back,
\* would break this.
MessageKeysFresh ==
    /\ \A a, b \in sent : a.message_key = b.message_key => a = b
    /\ \A p \in Parties : HasConversation(p) =>
          \A packet \in sent : packet.message_key # NextMessageKey(p)

\* A conversation can be written to a backup in every state it gets into.
AlwaysExportable ==
    \A p \in Parties : HasConversation(p) => canExport(ratchet[p])

\* Whoever has a conversation can send at once, and encrypts with keys that come
\* from a key agreement: the empty keys of a young conversation, which a backup
\* turns into zeroes that pass for keys, are never used.
NextMessageHasAgreedKeys ==
    \A p \in Parties : HasConversation(p) =>
        LET data == getSendData(ratchet[p], <<p, drawn[p] + 1>>)
        IN  /\ data.ok
            /\ data.message_key.transcript # <<>>
            /\ data.header_key.transcript # <<>>

\* What a ratchet's future depends on: all but the purported values
Durable(r) ==
    <<r.root_key, r.send_header_key, r.receive_header_key,
      r.next_send_header_key, r.next_receive_header_key,
      r.send_chain_key, r.receive_chain_key,
      r.our_private_ephemeral, r.our_public_ephemeral, r.their_public_ephemeral,
      r.send_message_number, r.receive_message_number, r.previous_message_number,
      r.ratchet_flag, r.role, r.received_valid, r.header_decryptable,
      r.skipped, r.staged>>

\* A packet that is rejected (a replay, a damaged packet, one that is too far
\* ahead) leaves nothing behind but purported values: a step in which nothing is
\* sent and nothing is received changes nothing durable, unless it is a restart.
RejectedPacketHarmless ==
    [][\A p \in Parties :
          HasConversation(p) /\ sent' = sent /\ received' = received =>
             \/ Durable(ratchet'[p]) = Durable(ratchet[p])
             \/ ratchet'[p] = exportAndImport(ratchet[p])]_vars

\* The conversation implements the channel that the application relies on.
Channel == INSTANCE SecureChannel WITH sent <- sent, received <- received
ImplementsSecureChannel == Channel!Spec
=============================================================================
