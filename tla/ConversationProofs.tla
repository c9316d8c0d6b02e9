------------------------- MODULE ConversationProofs -------------------------
(***************************************************************************)
(* A conversation is safe for every number of packets, every limit on      *)
(* skipped messages, every width of the message numbers and every age of   *)
(* the keys.                                                               *)
(***************************************************************************)
EXTENDS Conversation, RatchetProofs

\* The fields of a packet have their types
PacketTyped(packet) ==
    /\ packet.from \in Parties
    /\ packet.header_key \in HeaderKeys
    /\ packet.message_key \in MessageKeys
    /\ packet.ephemeral \in Name
    /\ packet.message_number \in MessageNumbers
    /\ packet.previous_message_number \in MessageNumbers
    /\ packet.prekey_metadata \in [identity : Name, ephemeral : Name, prekey : Name]
    /\ packet.prekey_metadata # NoPrekeyMetadata =>
          packet.prekey_metadata.identity = Identity(packet.from)

-----------------------------------------------------------------------------
(***************************************************************************)
(* Conversation::receive, case by case                                     *)
(***************************************************************************)

\* A skipped key opens the packet
BySkippedKey(r, packet, result, i) ==
    /\ result.ok = TRUE
    /\ result.ratchet = [r EXCEPT !.skipped = remove(@, i)]
    /\ result.keys = {}
    /\ r.skipped[i].header_key = packet.header_key
    /\ r.skipped[i].message_key = packet.message_key

\* The current receiving chain opens the packet
ByCurrentChain(r, packet, result, now) ==
    LET count == Skip(r.receive_message_number, packet.message_number)
    IN  /\ result.ok = TRUE
        /\ r.receive_header_key \in HeaderKeys
        /\ packet.header_key = r.receive_header_key
        /\ packet.message_key = deriveMessageKey(advanced(r.receive_chain_key, count))
        /\ result.keys = ToSet(r.skipped) \union
              ToSet(StagedKeys(r.receive_header_key, r.receive_chain_key, count, now))
        /\ OpenedCurrent(r, result.ratchet, packet.message_number, now)

\* A new receiving chain opens the packet
ByNextChain(r, packet, result, now) ==
    LET t == ReceivingTranscript(r, packet.ephemeral)
        count == Skip(0, packet.message_number)
    IN  /\ result.ok = TRUE
        /\ r.ratchet_flag = FALSE
        /\ packet.header_key = r.next_receive_header_key
        /\ packet.message_key = deriveMessageKey(advanced(ChainKey(t), count))
        /\ r.receive_chain_key \in ChainKeys =>
              packet.previous_message_number
                 <= r.receive_message_number + maximum_skipped_messages
        /\ result.keys = ToSet(r.skipped) \union
              ToSet(StagedForNext(r, packet.ephemeral, packet.message_number,
                                  packet.previous_message_number, now))
        /\ OpenedNext(r, result.ratchet, packet.ephemeral, packet.message_number,
                      packet.previous_message_number, now)

\* Nothing opens the packet
ByNothing(r, result) ==
    result.ok = FALSE /\ Rejected(r, result.ratchet)

Outcome(r, packet, result, now) ==
    \/ \E i \in DOMAIN r.skipped : BySkippedKey(r, packet, result, i)
    \/ ByCurrentChain(r, packet, result, now)
    \/ ByNextChain(r, packet, result, now)
    \/ ByNothing(r, result)

\* What setHeaderDecryptability does to a ratchet that waits for a packet.
LEMMA HeaderTried ==
    ASSUME NEW r, RatchetOK(r), NEW tried \in HeaderDecryptability \ {"NOT_TRIED"}
    PROVE  LET x == setHeaderDecryptability(r, tried)
               h == [r EXCEPT !.header_decryptable = tried]
           IN  /\ x.ok = TRUE /\ x.ratchet = h
               /\ DOMAIN h = Fields /\ h.header_decryptable = tried
               /\ h.received_valid = TRUE
               /\ SameKeys(r, h)
               /\ \A now : Rejected(r, setLastMessageAuthenticity(h, FALSE, now))
<1> DEFINE x == setHeaderDecryptability(r, tried)
           h == [r EXCEPT !.header_decryptable = tried]
<1>1. /\ RatchetTyped(r) /\ DOMAIN r = Fields
      /\ r.header_decryptable = "NOT_TRIED" /\ r.received_valid = TRUE
      /\ PurportedOK(r)
    BY DEF RatchetOK, RatchetTyped, Ready
<1>2. x.ok = TRUE /\ x.ratchet = h
    BY <1>1 DEF setHeaderDecryptability
<1>3. /\ DOMAIN h = Fields
      /\ h.header_decryptable = tried /\ h.received_valid = TRUE
      /\ SameKeys(r, h)
      /\ h.purported_message_number = r.purported_message_number
      /\ h.purported_previous_message_number = r.purported_previous_message_number
      /\ h.purported_receive_chain_key = r.purported_receive_chain_key
    BY <1>1 DEF Fields, SameKeys
<1> HIDE DEF h, x
<1>4. PurportedOK(h)
    BY <1>1, <1>3 DEF PurportedOK, SameKeys
<1>5. \A now : Rejected(r, setLastMessageAuthenticity(h, FALSE, now))
  <2> TAKE now
  <2> QED BY <1>1, <1>3, <1>4, Reject DEF RatchetTyped
<1> QED BY <1>2, <1>3, <1>5 DEF h, x

\* A packet is opened by a key that was skipped, by the current chain or by a new
\* one, or it leaves nothing but purported values behind.
LEMMA Receiving ==
    ASSUME NEW r, RatchetOK(r), NEW packet, PacketTyped(packet), NEW damage, NEW now \in Nat
    PROVE  Outcome(r, packet, receivePacket(r, packet, damage, now), now)
<1> DEFINE result == receivePacket(r, packet, damage, now)
           fitting == fittingKeys(r, packet, damage)
           tried == headerDecryptability(r, packet, damage)
           number == packet.message_number
           previous == packet.previous_message_number
           ephemeral == packet.ephemeral
           h == [r EXCEPT !.header_decryptable = tried]
           x == receive(h, ephemeral, number, previous, now)
           opens == x.ok /\ decryptsMessage(packet, damage, x.message_key)
<1>1. /\ number \in MessageNumbers /\ previous \in MessageNumbers /\ ephemeral \in Name
      /\ packet.header_key \in HeaderKeys
    BY DEF PacketTyped
<1>2. CASE fitting # {}
  <2> DEFINE i == Min(fitting)
  <2>1. fitting \subseteq DOMAIN r.skipped /\ DOMAIN r.skipped = 1..Len(r.skipped)
        /\ Len(r.skipped) \in Nat
    <3>1. r.skipped \in Seq(StoredKeys)
        BY DEF RatchetOK, RatchetTyped
    <3> QED BY <3>1, Vector DEF fittingKeys
  <2>2. \E n \in fitting : \A m \in fitting : n <= m
    <3>1. fitting \in SUBSET Nat
        BY <2>1
    <3> HIDE DEF fitting
    <3> QED BY <1>2, <3>1, LeastIndex
  <2>3. i \in fitting
      BY <2>2 DEF Min
  <2>4. i \in DOMAIN r.skipped /\ decrypts(packet, damage, r.skipped[i])
      BY <2>3 DEF fittingKeys
  <2>5. result = [ok |-> TRUE, ratchet |-> useSkippedKey(r, i), keys |-> {}]
      BY <1>2 DEF receivePacket, internal_receive
  <2>6. BySkippedKey(r, packet, result, i)
      BY <2>4, <2>5 DEF BySkippedKey, useSkippedKey, decrypts, decryptsHeader, decryptsMessage
  <2> QED BY <2>4, <2>6 DEF Outcome
<1>3. ASSUME fitting = {}
      PROVE  LET a == advanceRatchet(r, packet, damage, now)
             IN  /\ a.ok = TRUE => result = a
                 /\ a.ok = FALSE =>
                       /\ result.ok = FALSE
                       /\ result.ratchet = setLastMessageAuthenticity(a.ratchet, FALSE, now)
  <2> DEFINE a == advanceRatchet(r, packet, damage, now)
  <2>1. DOMAIN a = {"ok", "ratchet", "keys"}
      BY DEF advanceRatchet
  <2>2. result = IF a.ok THEN a
                 ELSE [a EXCEPT !.ratchet = setLastMessageAuthenticity(@, FALSE, now)]
      BY <1>3 DEF receivePacket, internal_receive
  <2> HIDE DEF a, result
  <2> QED BY <2>1, <2>2 DEF a, result
<1>4. tried \in HeaderDecryptability \ {"NOT_TRIED"}
    BY DEF headerDecryptability, HeaderDecryptability
<1>5. LET y == setHeaderDecryptability(r, tried)
      IN  /\ y.ok = TRUE /\ y.ratchet = h
          /\ DOMAIN h = Fields /\ h.header_decryptable = tried /\ h.received_valid = TRUE
          /\ SameKeys(r, h)
          /\ Rejected(r, setLastMessageAuthenticity(h, FALSE, now))
  <2> HIDE DEF tried
  <2> QED BY <1>4, HeaderTried, ZenonT(60)
<1>6. CASE fitting = {} /\ tried = "UNDECRYPTABLE"
  <2>1. advanceRatchet(r, packet, damage, now) = [ok |-> FALSE, ratchet |-> h, keys |-> {}]
    <3> HIDE DEF tried, h
    <3> QED BY <1>5, <1>6 DEF advanceRatchet, tried
  <2> DEFINE a == advanceRatchet(r, packet, damage, now)
  <2>2. a.ok = FALSE /\ a.ratchet = h
    <3> HIDE DEF h
    <3> QED BY <2>1
  <2> HIDE DEF h, result, a, fitting
  <2>3. /\ result.ok = FALSE
        /\ result.ratchet = setLastMessageAuthenticity(h, FALSE, now)
      BY <1>3, <1>6, <2>2 DEF a
  <2>4. ByNothing(r, result)
      BY <1>5, <2>3 DEF ByNothing
  <2> QED BY <2>4 DEF Outcome, result
<1>7. ASSUME fitting = {}, tried # "UNDECRYPTABLE"
      PROVE  /\ opens =>
                   /\ result.ok = TRUE
                   /\ result.ratchet = setLastMessageAuthenticity(x.ratchet, TRUE, now)
                   /\ result.keys = ToSet(r.skipped) \union ToSet(x.ratchet.staged)
             /\ ~opens =>
                   /\ result.ok = FALSE
                   /\ result.ratchet = setLastMessageAuthenticity(x.ratchet, FALSE, now)
  <2>1. advanceRatchet(r, packet, damage, now)
           = IF opens
             THEN [ok |-> TRUE,
                   ratchet |-> setLastMessageAuthenticity(x.ratchet, TRUE, now),
                   keys |-> ToSet(r.skipped) \union ToSet(x.ratchet.staged)]
             ELSE [ok |-> FALSE, ratchet |-> x.ratchet, keys |-> {}]
    <3> HIDE DEF tried, h
    <3> QED BY <1>5, <1>7 DEF advanceRatchet, tried
  <2> HIDE DEF x, result, opens, fitting
  <2> DEFINE a == advanceRatchet(r, packet, damage, now)
  <2>2. CASE opens
    <3>1. /\ a.ok = TRUE
          /\ a.ratchet = setLastMessageAuthenticity(x.ratchet, TRUE, now)
          /\ a.keys = ToSet(r.skipped) \union ToSet(x.ratchet.staged)
        BY <2>1, <2>2
    <3> HIDE DEF a
    <3> QED BY <1>3, <1>7, <2>2, <3>1 DEF a
  <2>3. CASE ~opens
    <3>1. a.ok = FALSE /\ a.ratchet = x.ratchet
        BY <2>1, <2>3
    <3> HIDE DEF a
    <3> QED BY <1>3, <1>7, <2>3, <3>1 DEF a
  <2> QED BY <2>2, <2>3
<1>8. CASE fitting = {} /\ tried = "CURRENT_DECRYPTABLE"
  <2> DEFINE count == Skip(r.receive_message_number, number)
             within == number <= r.receive_message_number + maximum_skipped_messages
  <2>1. packet.header_key = r.receive_header_key
      BY <1>8 DEF headerDecryptability, decryptsHeader
  <2>2. r.receive_header_key \in HeaderKeys
      BY <1>1, <2>1
  <2>3. h = [r EXCEPT !.header_decryptable = "CURRENT_DECRYPTABLE"]
      BY <1>8
  <2> HIDE DEF h, result, number, previous, ephemeral
  <2>4. /\ x.ok <=> within
        /\ Rejected(r, setLastMessageAuthenticity(x.ratchet, FALSE, now))
        /\ within =>
              /\ x.message_key = deriveMessageKey(advanced(r.receive_chain_key, count))
              /\ x.ratchet.staged = StagedKeys(r.receive_header_key,
                                               r.receive_chain_key, count, now)
              /\ OpenedCurrent(r, setLastMessageAuthenticity(x.ratchet, TRUE, now),
                               number, now)
      BY <1>1, <2>2, <2>3, ReceiveCurrent
  <2> HIDE DEF x
  <2>5. CASE opens
    <3>1. packet.message_key = x.message_key /\ within
        BY <2>4, <2>5 DEF decryptsMessage
    <3>2. ByCurrentChain(r, packet, result, now)
        BY <1>7, <1>8, <2>1, <2>2, <2>4, <2>5, <3>1 DEF ByCurrentChain, number
    <3> QED BY <3>2 DEF Outcome, result
  <2>6. CASE ~opens
    <3>1. ByNothing(r, result)
        BY <1>7, <1>8, <2>4, <2>6 DEF ByNothing
    <3> QED BY <3>1 DEF Outcome, result
  <2> QED BY <2>5, <2>6
<1>9. CASE fitting = {} /\ tried = "NEXT_DECRYPTABLE"
  <2>1. packet.header_key = r.next_receive_header_key
      BY <1>9 DEF headerDecryptability, decryptsHeader
  <2>2. h = [r EXCEPT !.header_decryptable = "NEXT_DECRYPTABLE"]
      BY <1>9
  <2>3. CASE r.ratchet_flag = FALSE
    <3> DEFINE t == ReceivingTranscript(r, ephemeral)
               within == /\ r.receive_chain_key \in ChainKeys =>
                               previous <= r.receive_message_number + maximum_skipped_messages
                         /\ number <= maximum_skipped_messages
    <3> HIDE DEF h, result, number, previous, ephemeral
    <3>1. /\ x.ok <=> within
          /\ Rejected(r, setLastMessageAuthenticity(x.ratchet, FALSE, now))
          /\ within =>
                /\ x.message_key = deriveMessageKey(advanced(ChainKey(t), Skip(0, number)))
                /\ x.ratchet.staged = StagedForNext(r, ephemeral, number, previous, now)
                /\ OpenedNext(r, setLastMessageAuthenticity(x.ratchet, TRUE, now),
                              ephemeral, number, previous, now)
        BY <1>1, <2>2, <2>3, ReceiveNext
    <3> HIDE DEF x, t
    <3>2. CASE opens
      <4>1. packet.message_key = x.message_key /\ within
          BY <3>1, <3>2 DEF decryptsMessage
      <4>2. ByNextChain(r, packet, result, now)
          BY <1>7, <1>9, <2>1, <2>3, <3>1, <3>2, <4>1
             DEF ByNextChain, number, previous, ephemeral, t
      <4> QED BY <4>2 DEF Outcome, result
    <3>3. CASE ~opens
      <4>1. ByNothing(r, result)
          BY <1>7, <1>9, <3>1, <3>3 DEF ByNothing
      <4> QED BY <4>1 DEF Outcome, result
    <3> QED BY <3>2, <3>3
  <2>4. CASE r.ratchet_flag # FALSE
    <3>1. r.ratchet_flag = TRUE
        BY <2>4 DEF RatchetOK, RatchetTyped
    <3>2. ~isCurrentChain(h) /\ ~isNewChain(h)
      <4> HIDE DEF h, tried
      <4> QED BY <1>5, <1>9, <3>1 DEF isCurrentChain, isNewChain, SameKeys
    <3>3. x.ok = FALSE /\ x.ratchet = h
      <4> HIDE DEF h
      <4> QED BY <1>5, <1>9, <3>2 DEF receive
    <3> HIDE DEF h, x, result
    <3>4. ByNothing(r, result)
        BY <1>5, <1>7, <1>9, <3>3 DEF ByNothing
    <3> QED BY <3>4 DEF Outcome, result
  <2> QED BY <2>3, <2>4
<1> QED BY <1>2, <1>4, <1>6, <1>8, <1>9 DEF HeaderDecryptability

\* What receiving a packet does to a ratchet, whichever way it went
Effect(r, packet, result) ==
    LET s == result.ratchet
    IN  /\ result.ok \in BOOLEAN
        /\ RatchetOK(s)
        /\ s.role = r.role
        /\ s.send_chain_key = r.send_chain_key
        /\ s.our_public_ephemeral = r.our_public_ephemeral
        /\ MovedOn(r, s)
        /\ result.ok = FALSE => Rejected(r, s)
        /\ result.ok = TRUE =>
              /\ \/ ~Passed(r.receive_chain_key, packet.message_key)
                 \/ \E k \in ToSet(r.skipped) : k.message_key = packet.message_key
              /\ Passed(s.receive_chain_key, packet.message_key)
              /\ \A k \in ToSet(s.skipped) : k.message_key # packet.message_key

\* A message is opened with a key that nothing has been opened with before: a key
\* of a message that the chain had not passed, or a skipped key.  Afterwards the
\* ratchet holds no key for it.
LEMMA ReceivingEffect ==
    ASSUME NEW r, RatchetOK(r), NEW packet, PacketTyped(packet), NEW result,
           NEW now \in Nat, Outcome(r, packet, result, now)
    PROVE  Effect(r, packet, result)
<1> DEFINE s == result.ratchet
           ck == r.receive_chain_key
           key == packet.message_key
           number == packet.message_number
<1>1. /\ number \in MessageNumbers /\ packet.previous_message_number \in MessageNumbers
      /\ packet.ephemeral \in Name
    BY DEF PacketTyped
<1>2. RatchetTyped(r) /\ ck.index \in Nat /\ Len(ck.transcript) \in Nat
    BY Lengths DEF RatchetOK
<1>3. ASSUME NEW i \in DOMAIN r.skipped, BySkippedKey(r, packet, result, i)
      PROVE  Effect(r, packet, result)
  <2>1. /\ result.ok = TRUE /\ s = [r EXCEPT !.skipped = remove(@, i)]
        /\ r.skipped[i].message_key = key
      BY <1>3 DEF BySkippedKey
  <2>2. /\ RatchetOK(s) /\ MovedOn(r, s)
        /\ \A f \in Fields \ {"skipped"} : s[f] = r[f]
        /\ r.skipped[i] \in ToSet(r.skipped)
        /\ key \in MessageKeys
        /\ Passed(ck, key)
        /\ \A k \in ToSet(s.skipped) : k.message_key # key
      BY <1>3, <2>1, UseKey
  <2> HIDE DEF s
  <2>3. /\ s.role = r.role /\ s.send_chain_key = r.send_chain_key
        /\ s.our_public_ephemeral = r.our_public_ephemeral
        /\ s.receive_chain_key = ck
      BY <2>2 DEF Fields
  <2> QED BY <2>1, <2>2, <2>3 DEF Effect, s
<1>4. ASSUME ByCurrentChain(r, packet, result, now)
      PROVE  Effect(r, packet, result)
  <2> DEFINE count == Skip(r.receive_message_number, number)
  <2>1. /\ result.ok = TRUE
        /\ r.receive_header_key \in HeaderKeys
        /\ key = deriveMessageKey(advanced(ck, count))
        /\ OpenedCurrent(r, s, number, now)
      BY <1>4 DEF ByCurrentChain
  <2>2. count \in Nat
    <3>1. r.receive_message_number \in Nat /\ number \in Nat
        BY <1>1, <1>2, RatchetAssumption DEF RatchetTyped, MessageNumbers
    <3> QED BY <3>1, SkipLimit
  <2> HIDE DEF s, number
  <2>3. /\ RatchetOK(s) /\ MovedOn(r, s)
        /\ s.receive_chain_key.transcript = ck.transcript
        /\ s.receive_chain_key.index = ck.index + count + 1
        /\ key.transcript = ck.transcript
        /\ key.index = ck.index + count
        /\ \A k \in ToSet(s.skipped) : k.message_key # key
    <3>1. PassedCurrent(r, s, number, now)
        BY <1>1, <2>1, OpenedCurrentOK
    <3> QED BY <2>1, <3>1 DEF PassedCurrent
  <2> HIDE DEF count
  <2>4. ~Passed(ck, key) /\ Passed(s.receive_chain_key, key)
      BY <1>2, <2>2, <2>3 DEF Passed
  <2>5. /\ s.role = r.role /\ s.send_chain_key = r.send_chain_key
        /\ s.our_public_ephemeral = r.our_public_ephemeral
      BY <2>1 DEF OpenedCurrent
  <2> QED BY <2>1, <2>3, <2>4, <2>5 DEF Effect, s
<1>5. ASSUME ByNextChain(r, packet, result, now)
      PROVE  Effect(r, packet, result)
  <2> DEFINE ephemeral == packet.ephemeral
             previous == packet.previous_message_number
             t == ReceivingTranscript(r, ephemeral)
             count == Skip(0, number)
  <2>1. /\ result.ok = TRUE
        /\ r.ratchet_flag = FALSE
        /\ key = deriveMessageKey(advanced(ChainKey(t), count))
        /\ ck \in ChainKeys =>
              previous <= r.receive_message_number + maximum_skipped_messages
        /\ OpenedNext(r, s, ephemeral, number, previous, now)
      BY <1>5 DEF ByNextChain
  <2>2. count \in Nat
    <3>1. number \in Nat
        BY <1>1, RatchetAssumption DEF MessageNumbers
    <3> QED BY <3>1, SkipLimit
  <2> HIDE DEF s, number, ephemeral, previous
  <2>3. /\ RatchetOK(s) /\ MovedOn(r, s)
        /\ Len(t) = Len(r.root_key.transcript) + 1
        /\ s.receive_chain_key.transcript = t
        /\ s.receive_chain_key.index = count + 1
        /\ key.transcript = t /\ key.index = count
        /\ \A k \in ToSet(s.skipped) : k.message_key # key
    <3>1. /\ ephemeral \in Name /\ number \in MessageNumbers
          /\ previous \in MessageNumbers
        BY <1>1 DEF ephemeral, number, previous
    <3>2. PassedNext(r, s, ephemeral, number, previous, now)
        BY <2>1, <3>1, OpenedNextOK
    <3> QED BY <2>1, <3>2 DEF PassedNext
  <2> HIDE DEF count, t
  <2>4. Len(ck.transcript) < Len(t) /\ Len(t) \in Nat
    <3>1. Len(ck.transcript) <= Len(r.root_key.transcript) /\ Len(r.root_key.transcript) \in Nat
        BY <1>2, Lengths DEF RatchetOK, ReceiveChainOK
    <3> QED BY <1>2, <2>3, <3>1
  <2>5. ~Passed(ck, key) /\ Passed(s.receive_chain_key, key)
      BY <1>2, <2>2, <2>3, <2>4 DEF Passed
  <2>6. /\ s.role = r.role /\ s.send_chain_key = r.send_chain_key
        /\ s.our_public_ephemeral = r.our_public_ephemeral
      BY <2>1 DEF OpenedNext
  <2> QED BY <2>1, <2>3, <2>5, <2>6 DEF Effect, s
<1>6. ASSUME ByNothing(r, result)
      PROVE  Effect(r, packet, result)
  <2>1. result.ok = FALSE /\ Rejected(r, s)
      BY <1>6 DEF ByNothing
  <2> HIDE DEF s
  <2>2. RatchetOK(s)
      BY <2>1, RejectedOK
  <2>3. /\ s.role = r.role /\ s.send_chain_key = r.send_chain_key
        /\ s.our_public_ephemeral = r.our_public_ephemeral
        /\ s.receive_chain_key = ck /\ s.skipped = r.skipped
      BY <2>1 DEF Rejected, SameKeys
  <2>4. MovedOn(r, s)
      BY <2>3 DEF MovedOn
  <2> QED BY <2>1, <2>2, <2>3, <2>4 DEF Effect, s
<1> QED BY <1>3, <1>4, <1>5, <1>6 DEF Outcome

\* The message key that getSendData returns is one that the sending chain has not
\* passed before, and has passed then.
LEMMA SendingEffect ==
    ASSUME NEW r, RatchetOK(r), NEW fresh \in Name
    PROVE  LET data == getSendData(r, fresh)
               s == data.ratchet
           IN  /\ data.ok
               /\ RatchetOK(s)
               /\ SameReceiver(r, s)
               /\ data.header_key \in HeaderKeys
               /\ data.message_key \in MessageKeys
               /\ data.ephemeral \in Name
               /\ data.message_number \in MessageNumbers
               /\ data.previous_message_number \in MessageNumbers
               /\ ~Passed(r.send_chain_key, data.message_key)
               /\ Passed(s.send_chain_key, data.message_key)
               /\ SendsOn(r.role, data.message_key.transcript)
               /\ \A k \in MessageKeys :
                     Passed(r.send_chain_key, k) => Passed(s.send_chain_key, k)
<1> DEFINE data == getSendData(r, fresh)
           s == data.ratchet
           t == NextTranscript(r, fresh, fresh, r.their_public_ephemeral)
           key == data.message_key
<1>0. SendData(r, fresh, data)
    BY GetSendData
<1> HIDE DEF data
<1>1. /\ data.ok
      /\ RatchetOK(s)
      /\ SameReceiver(r, s)
      /\ data.header_key \in HeaderKeys
      /\ key \in MessageKeys
      /\ s.send_chain_key \in ChainKeys
      /\ key.transcript = s.send_chain_key.transcript
      /\ s.send_chain_key.index = key.index + 1
      /\ data.ephemeral \in Name
      /\ data.message_number \in MessageNumbers
      /\ data.previous_message_number \in MessageNumbers
    BY <1>0 DEF SendData
<1>2. r.ratchet_flag = TRUE => key.transcript = t /\ Len(t) = Len(r.root_key.transcript) + 1
    BY <1>0 DEF SendData
<1>3. r.ratchet_flag = FALSE => /\ key.transcript = r.send_chain_key.transcript
                                /\ key.index = r.send_chain_key.index
    BY <1>0 DEF SendData
<1> HIDE DEF s, key, t, data
<1>4. /\ Len(key.transcript) \in Nat /\ key.index \in Nat
      /\ Len(r.send_chain_key.transcript) \in Nat /\ r.send_chain_key.index \in Nat
      /\ Len(r.root_key.transcript) \in Nat
      /\ Len(r.send_chain_key.transcript) <= Len(r.root_key.transcript)
  <2>1. Len(key.transcript) \in Nat /\ key.index \in Nat
      BY <1>1, LenProperties DEF MessageKeys, KeysOf, Transcripts
  <2>2. RatchetTyped(r)
      BY DEF RatchetOK
  <2> QED BY <2>1, <2>2, Lengths DEF RatchetOK, SendChainOK
<1>5. \/ Len(key.transcript) > Len(r.send_chain_key.transcript)
      \/ key.transcript = r.send_chain_key.transcript /\ key.index = r.send_chain_key.index
  <2>1. r.ratchet_flag = TRUE \/ r.ratchet_flag = FALSE
      BY DEF RatchetOK, RatchetTyped
  <2> QED BY <1>2, <1>3, <1>4, <2>1
<1>6. ~Passed(r.send_chain_key, key)
    BY <1>4, <1>5 DEF Passed
<1>7. Passed(s.send_chain_key, key)
    BY <1>1, <1>4 DEF Passed
<1>8. SendsOn(r.role, key.transcript)
  <2>1. SendsOn(s.role, s.send_chain_key.transcript)
      BY <1>1 DEF RatchetOK, SendChainOK
  <2>2. s.role = r.role
      BY <1>1 DEF SameReceiver
  <2> QED BY <1>1, <2>1, <2>2
<1>9. \A k \in MessageKeys : Passed(r.send_chain_key, k) => Passed(s.send_chain_key, k)
  <2> DEFINE a == r.send_chain_key
             b == s.send_chain_key
  <2>1. /\ Len(a.transcript) \in Nat /\ Len(b.transcript) \in Nat
        /\ a.index \in Nat /\ b.index \in Nat
        /\ \/ Len(a.transcript) < Len(b.transcript)
           \/ a.transcript = b.transcript /\ a.index <= b.index
      BY <1>1, <1>4, <1>5
  <2> HIDE DEF a, b
  <2>2. \A k \in MessageKeys : Passed(a, k) => Passed(b, k)
      BY <2>1, PassedMore
  <2> QED BY <2>2 DEF a, b
<1> QED BY <1>1, <1>6, <1>7, <1>8, <1>9 DEF s, key, data

-----------------------------------------------------------------------------
(***************************************************************************)
(* The invariant                                                           *)
(***************************************************************************)

TypesOK ==
    /\ DOMAIN ratchet = Parties
    /\ drawn \in [Parties -> Nat \ {0}]
    /\ IsABag(received)
    /\ DOMAIN received \subseteq sent
    /\ clock \in 0..MaxTime

\* Packets are typed, and party 2, who is Alice, sends on the chains with an even
\* number of secrets
PacketsOK ==
    \A packet \in sent :
        /\ PacketTyped(packet)
        /\ Len(packet.message_key.transcript) % 2 = 0 <=> packet.from = 2

\* The sending chain of p has passed what p has sent, the receiving chain what p
\* has received, and no key of what was received is kept as a skipped key
HistoryOK(p, r) ==
    /\ \A packet \in SentBy(p) : Passed(r.send_chain_key, packet.message_key)
    /\ \A packet \in SentTo(p) : BagIn(packet, received) =>
          /\ Passed(r.receive_chain_key, packet.message_key)
          /\ \A k \in ToSet(r.skipped) : k.message_key # packet.message_key

\* Nothing was sent or received without a conversation, and no conversation
\* exists unless somebody has sent a prekey packet
PartyOK(p) ==
    IF HasConversation(p)
    THEN /\ RatchetOK(ratchet[p])
         /\ ratchet[p].role = TRUE <=> p = 2
         /\ HistoryOK(p, ratchet[p])
         /\ \E packet \in sent : packet.prekey_metadata # NoPrekeyMetadata
    ELSE /\ SentBy(p) = {}
         /\ \A packet \in SentTo(p) : ~BagIn(packet, received)

\* Different packets have different keys
SentKeysDiffer == \A a, b \in sent : a.message_key = b.message_key => a = b

SafeInv ==
    /\ TypesOK
    /\ PacketsOK
    /\ \A p \in Parties : PartyOK(p)
    /\ SentKeysDiffer

\* A ratchet is a conversation.
LEMMA RatchetIsConversation ==
    ASSUME NEW r, RatchetOK(r)
    PROVE  r # NoConversation
<1>1. DOMAIN r = Fields
    BY DEF RatchetOK, RatchetTyped
<1>2. DOMAIN NoConversation = {"role"}
    BY DEF NoConversation
<1> QED BY <1>1, <1>2 DEF Fields

\* The two parties.
LEMMA TwoParties ==
    ASSUME NEW p \in Parties
    PROVE  /\ Peer(p) \in Parties /\ Peer(p) # p /\ Peer(Peer(p)) = p
           /\ Identity(p) \in Name /\ PublishedPrekey(p) \in Name
           /\ \A q \in Parties : q = p \/ q = Peer(p)
    BY DEF Parties, Peer, Identity, PublishedPrekey, Name

\* A ratchet that a party creates has that party's role.
LEMMA CreateForParty ==
    ASSUME NEW p \in Parties, NEW ours \in Name, NEW theirs \in Name
    PROVE  LET r == create(Identity(p), ours, Identity(Peer(p)), theirs)
           IN  /\ RatchetOK(r)
               /\ r.role = TRUE <=> p = 2
               /\ r.our_public_ephemeral = ours
               /\ r.skipped = <<>>
<1> DEFINE r == create(Identity(p), ours, Identity(Peer(p)), theirs)
<1>1. RatchetOK(r)
    BY TwoParties, Create
<1>2. r.role = (Identity(p)[1] > Identity(Peer(p))[1])
      /\ r.our_public_ephemeral = ours /\ r.skipped = <<>>
    BY DEF create
<1>3. Identity(p)[1] = p /\ Identity(Peer(p))[1] = 3 - p
    BY DEF Identity, Peer
<1> HIDE DEF r
<1>4. r.role = TRUE <=> p > 3 - p
    BY <1>2, <1>3
<1> QED BY <1>1, <1>2, <1>4 DEF Parties, r

\* The ratchet that looks at a packet is one of its receiver.
LEMMA ReceivingRatchet ==
    ASSUME SafeInv, NEW p \in Parties, NEW packet \in SentTo(p),
           HasConversation(p) \/ packet.prekey_metadata # NoPrekeyMetadata
    PROVE  LET r == receivingRatchet(p, ratchet[p], packet)
           IN  /\ RatchetOK(r)
               /\ r.role = TRUE <=> p = 2
               /\ HasConversation(p) => r = ratchet[p]
               /\ HistoryOK(p, r)
<1> DEFINE r == receivingRatchet(p, ratchet[p], packet)
<1>1. packet \in sent /\ PacketTyped(packet) /\ packet.from = Peer(p)
    BY DEF SafeInv, PacketsOK, SentTo, SentBy
<1>2. CASE HasConversation(p)
  <2>1. r = ratchet[p]
      BY <1>2 DEF receivingRatchet, HasConversation
  <2>2. PartyOK(p)
      BY DEF SafeInv
  <2> QED BY <1>2, <2>1, <2>2 DEF PartyOK
<1>3. CASE ~HasConversation(p)
  <2> DEFINE ours == packet.prekey_metadata.prekey
             theirs == packet.prekey_metadata.ephemeral
  <2>1. /\ ours \in Name /\ theirs \in Name
        /\ packet.prekey_metadata.identity = Identity(Peer(p))
      BY <1>1, <1>3 DEF PacketTyped
  <2>2. r = create(Identity(p), ours, Identity(Peer(p)), theirs)
      BY <1>3, <2>1 DEF receivingRatchet, HasConversation
  <2>3. RatchetOK(r) /\ (r.role = TRUE <=> p = 2)
    <3> DEFINE c == create(Identity(p), ours, Identity(Peer(p)), theirs)
    <3> HIDE DEF ours, theirs
    <3>1. RatchetOK(c) /\ (c.role = TRUE <=> p = 2)
        BY <2>1, CreateForParty
    <3> HIDE DEF c
    <3>2. r = c
        BY <2>2 DEF c
    <3> HIDE DEF r
    <3> QED BY <3>1, <3>2
  <2>4. PartyOK(p)
      BY DEF SafeInv
  <2>5. HistoryOK(p, r)
      BY <1>3, <2>4 DEF PartyOK, HistoryOK
  <2> QED BY <1>3, <2>3, <2>5
<1> QED BY <1>2, <1>3

\* Conversation::send keeps the invariant, and adds a packet with a new key.
LEMMA SendStep ==
    ASSUME SafeInv, NEW p \in Parties, NEW r, RatchetOK(r), r.role = TRUE <=> p = 2,
           HistoryOK(p, r),
           NEW metadata \in [identity : Name, ephemeral : Name, prekey : Name],
           metadata # NoPrekeyMetadata => metadata.identity = Identity(p),
           \/ metadata # NoPrekeyMetadata
           \/ \E packet \in sent : packet.prekey_metadata # NoPrekeyMetadata,
           NEW draws \in Nat, send(p, r, metadata, draws)
    PROVE  /\ SafeInv'
           /\ \E packet : packet \notin sent /\ sent' = sent \union {packet}
           /\ UNCHANGED received
<1> DEFINE fresh == <<p, drawn[p] + draws + 1>>
           data == getSendData(r, fresh)
           s == data.ratchet
           packet == [from |-> p,
                      header_key |-> data.header_key,
                      message_key |-> data.message_key,
                      ephemeral |-> data.ephemeral,
                      message_number |-> data.message_number,
                      previous_message_number |-> data.previous_message_number,
                      prekey_metadata |-> metadata]
<1>1. drawn[p] \in Nat /\ p \in Nat
    BY DEF SafeInv, TypesOK, Parties
<1>2. fresh \in Name
    BY <1>1 DEF Name
<1>3. /\ sent' = IF data.ok THEN sent \union {packet} ELSE sent
      /\ ratchet' = [ratchet EXCEPT ![p] = s]
      /\ drawn' = [drawn EXCEPT ![p] = @ + draws + IF r.ratchet_flag THEN 1 ELSE 0]
      /\ received' = received /\ clock' = clock
    BY DEF send
<1> HIDE DEF fresh
<1>4. /\ data.ok
      /\ RatchetOK(s)
      /\ SameReceiver(r, s)
      /\ data.header_key \in HeaderKeys
      /\ data.message_key \in MessageKeys
      /\ data.ephemeral \in Name
      /\ data.message_number \in MessageNumbers
      /\ data.previous_message_number \in MessageNumbers
      /\ ~Passed(r.send_chain_key, data.message_key)
      /\ Passed(s.send_chain_key, data.message_key)
      /\ SendsOn(r.role, data.message_key.transcript)
      /\ \A k \in MessageKeys :
            Passed(r.send_chain_key, k) => Passed(s.send_chain_key, k)
    BY <1>2, SendingEffect
<1> HIDE DEF data, s
<1>5. /\ packet.from = p /\ packet.message_key = data.message_key
      /\ packet.prekey_metadata = metadata
      /\ PacketTyped(packet)
    BY <1>4 DEF PacketTyped
<1>6. Len(packet.message_key.transcript) % 2 = 0 <=> packet.from = 2
  <2>1. Len(data.message_key.transcript) % 2 = 0 <=> r.role = TRUE
      BY <1>4 DEF SendsOn, ALICE
  <2> QED BY <1>5, <2>1
<1> HIDE DEF packet
<1>7. sent' = sent \union {packet}
    BY <1>3, <1>4
<1>8. \A b \in sent : b.message_key # packet.message_key
  <2> TAKE b \in sent
  <2>1. PacketTyped(b) /\ (Len(b.message_key.transcript) % 2 = 0 <=> b.from = 2)
      BY DEF SafeInv, PacketsOK
  <2>2. CASE b.from = p
    <3>1. Passed(r.send_chain_key, b.message_key)
        BY <2>2 DEF HistoryOK, SentBy
    <3> QED BY <1>4, <1>5, <3>1
  <2>3. CASE b.from # p
    <3>1. b.from = 2 <=> packet.from # 2
        BY <1>5, <2>1, <2>3 DEF PacketTyped, Parties
    <3> QED BY <1>6, <2>1, <3>1
  <2> QED BY <2>2, <2>3
<1>9. packet \notin sent
    BY <1>8
<1>10. SentKeysDiffer'
    BY <1>7, <1>8 DEF SafeInv, SentKeysDiffer
<1>11. PacketsOK'
    BY <1>5, <1>6, <1>7 DEF SafeInv, PacketsOK, PacketTyped
<1>12. TypesOK'
  <2>1. drawn' \in [Parties -> Nat \ {0}]
      BY <1>3 DEF SafeInv, TypesOK
  <2> QED BY <1>3, <1>7, <2>1 DEF SafeInv, TypesOK
<1>13. /\ ratchet'[p] = s
       /\ \A q \in Parties \ {p} : ratchet'[q] = ratchet[q]
    BY <1>3 DEF SafeInv, TypesOK
<1>14. s # NoConversation
    BY <1>4, RatchetIsConversation
<1>15. \A x \in sent' : BagIn(x, received') => x \in sent /\ BagIn(x, received)
    BY <1>3 DEF BagIn, BagToSet, SafeInv, TypesOK
<1>16. \E x \in sent' : x.prekey_metadata # NoPrekeyMetadata
    BY <1>5, <1>7
<1>17. PartyOK(p)'
  <2>1. /\ RatchetOK(ratchet'[p])
        /\ ratchet'[p].role = TRUE <=> p = 2
        /\ ratchet'[p].receive_chain_key = r.receive_chain_key
        /\ ratchet'[p].skipped = r.skipped
        /\ Passed(ratchet'[p].send_chain_key, packet.message_key)
        /\ \A k \in MessageKeys :
              Passed(r.send_chain_key, k) => Passed(ratchet'[p].send_chain_key, k)
      BY <1>4, <1>5, <1>13 DEF SameReceiver
  <2>2. (HasConversation(p))'
      BY <1>13, <1>14 DEF HasConversation
  <2>3. \A x \in SentBy(p)' : Passed(ratchet'[p].send_chain_key, x.message_key)
    <3> TAKE x \in SentBy(p)'
    <3>1. x = packet \/ x \in SentBy(p)
        BY <1>7 DEF SentBy
    <3>2. x \in SentBy(p) => x.message_key \in MessageKeys
        BY DEF SafeInv, PacketsOK, PacketTyped, SentBy
    <3> QED BY <2>1, <3>1, <3>2 DEF HistoryOK
  <2>4. \A x \in SentTo(p)' : BagIn(x, received') =>
          /\ Passed(ratchet'[p].receive_chain_key, x.message_key)
          /\ \A k \in ToSet(ratchet'[p].skipped) : k.message_key # x.message_key
    <3> TAKE x \in SentTo(p)'
    <3>1. BagIn(x, received') => x \in SentTo(p) /\ BagIn(x, received)
        BY <1>15 DEF SentTo, SentBy
    <3> QED BY <2>1, <3>1 DEF HistoryOK
  <2> QED BY <1>16, <2>1, <2>2, <2>3, <2>4 DEF PartyOK, HistoryOK, HasConversation
<1>18. \A q \in Parties \ {p} : PartyOK(q)'
  <2> TAKE q \in Parties \ {p}
  <2>1. ratchet'[q] = ratchet[q] /\ PartyOK(q)
      BY <1>13 DEF SafeInv
  <2>2. SentBy(q)' = SentBy(q)
      BY <1>5, <1>7 DEF SentBy
  <2>3. \A x \in SentTo(q)' : BagIn(x, received') => x \in SentTo(q) /\ BagIn(x, received)
      BY <1>15 DEF SentTo, SentBy
  <2> QED BY <1>16, <2>1, <2>2, <2>3 DEF PartyOK, HistoryOK, HasConversation
<1> QED BY <1>3, <1>7, <1>9, <1>10, <1>11, <1>12, <1>17, <1>18 DEF SafeInv

\* A packet added to the bag of the received ones.
LEMMA OneMore ==
    ASSUME NEW B, IsABag(B), NEW x
    PROVE  /\ IsABag(B (+) SetToBag({x}))
           /\ DOMAIN (B (+) SetToBag({x})) = DOMAIN B \union {x}
           /\ B (+) SetToBag({x}) # B
<1> DEFINE S == SetToBag({x})
           C == B (+) S
<1>1. S = [e \in {x} |-> 1]
    BY DEF SetToBag
<1>2. C = [e \in DOMAIN B \union {x} |->
              (IF e \in DOMAIN B THEN B[e] ELSE 0) + (IF e \in {x} THEN S[e] ELSE 0)]
    BY <1>1 DEF (+)
<1>3. \A e \in DOMAIN B : B[e] \in Nat /\ B[e] > 0
    BY DEF IsABag
<1>4. \A e \in DOMAIN B \union {x} :
         /\ C[e] \in Nat /\ C[e] > 0
         /\ e = x => C[e] = (IF e \in DOMAIN B THEN B[e] ELSE 0) + 1
    BY <1>1, <1>2, <1>3
<1>5. IsABag(C)
  <2>1. C \in [DOMAIN B \union {x} -> {n \in Nat : n > 0}]
      BY <1>2, <1>4
  <2> QED BY <2>1 DEF IsABag
<1>6. C # B
  <2>1. CASE x \in DOMAIN B
      BY <1>3, <1>4, <2>1
  <2>2. CASE x \notin DOMAIN B
      BY <1>2, <2>2
  <2> QED BY <2>1, <2>2
<1> QED BY <1>2, <1>5, <1>6

\* The outcome of receiving a packet keeps the invariant, and a packet that is
\* opened has not been received before.
LEMMA ReceiveStep ==
    ASSUME SafeInv, NEW p \in Parties, NEW packet \in SentTo(p), NEW r, RatchetOK(r),
           r.role = TRUE <=> p = 2, HistoryOK(p, r),
           \E x \in sent : x.prekey_metadata # NoPrekeyMetadata,
           NEW result, Effect(r, packet, result), applyResult(p, packet, result)
    PROVE  /\ SafeInv'
           /\ ratchet'[p] = result.ratchet
           /\ \A q \in Parties \ {p} : ratchet'[q] = ratchet[q]
           /\ result.ok = TRUE => ~BagIn(packet, received)
<1> DEFINE s == result.ratchet
<1>1. /\ RatchetOK(s) /\ s.role = r.role /\ s.send_chain_key = r.send_chain_key
      /\ MovedOn(r, s)
      /\ result.ok = FALSE => Rejected(r, s)
      /\ result.ok = TRUE =>
            /\ \/ ~Passed(r.receive_chain_key, packet.message_key)
               \/ \E k \in ToSet(r.skipped) : k.message_key = packet.message_key
            /\ Passed(s.receive_chain_key, packet.message_key)
            /\ \A k \in ToSet(s.skipped) : k.message_key # packet.message_key
      /\ result.ok = TRUE \/ result.ok = FALSE
    BY DEF Effect
<1>2. /\ ratchet' = [ratchet EXCEPT ![p] = s]
      /\ received' = IF result.ok THEN received (+) SetToBag({packet}) ELSE received
      /\ sent' = sent /\ drawn' = drawn /\ clock' = clock
    BY DEF applyResult
<1> HIDE DEF s
<1>3. /\ DOMAIN ratchet' = Parties /\ ratchet'[p] = s
      /\ \A q \in Parties \ {p} : ratchet'[q] = ratchet[q]
    BY <1>2 DEF SafeInv, TypesOK
<1>4. packet \in sent /\ packet.from = Peer(p)
    BY DEF SentTo, SentBy
<1>5. result.ok = TRUE => ~BagIn(packet, received)
    BY <1>1 DEF HistoryOK
<1>6. /\ IsABag(received') /\ DOMAIN received' \subseteq sent'
      /\ \A x : BagIn(x, received') =>
            BagIn(x, received) \/ (x = packet /\ result.ok = TRUE)
  <2>1. IsABag(received) /\ DOMAIN received \subseteq sent
      BY DEF SafeInv, TypesOK
  <2>2. CASE result.ok = TRUE
    <3>1. received' = received (+) SetToBag({packet})
        BY <1>2, <2>2
    <3>2. IsABag(received') /\ DOMAIN received' = DOMAIN received \union {packet}
        BY <2>1, <3>1, OneMore
    <3> QED BY <1>2, <1>4, <2>1, <2>2, <3>2 DEF BagIn, BagToSet
  <2>3. CASE result.ok = FALSE
      BY <1>2, <2>1, <2>3
  <2> QED BY <1>1, <2>2, <2>3
<1>7. TypesOK'
    BY <1>2, <1>3, <1>6 DEF SafeInv, TypesOK
<1>8. PacketsOK' /\ SentKeysDiffer'
    BY <1>2 DEF SafeInv, PacketsOK, PacketTyped, SentKeysDiffer
<1>9. PartyOK(p)'
  <2>1. (HasConversation(p))'
    <3>1. s # NoConversation
        BY <1>1, RatchetIsConversation
    <3> QED BY <1>3, <3>1 DEF HasConversation
  <2>2. /\ RatchetOK(ratchet'[p])
        /\ ratchet'[p].role = TRUE <=> p = 2
      BY <1>1, <1>3
  <2>3. \A x \in SentBy(p)' : Passed(ratchet'[p].send_chain_key, x.message_key)
    <3>1. SentBy(p)' = SentBy(p)
        BY <1>2 DEF SentBy
    <3> QED BY <1>1, <1>3, <3>1 DEF HistoryOK
  <2>4. \A x \in SentTo(p)' : BagIn(x, received') =>
          /\ Passed(ratchet'[p].receive_chain_key, x.message_key)
          /\ \A k \in ToSet(ratchet'[p].skipped) : k.message_key # x.message_key
    <3> SUFFICES ASSUME NEW x \in SentTo(p)', BagIn(x, received')
                 PROVE  /\ Passed(s.receive_chain_key, x.message_key)
                        /\ \A k \in ToSet(s.skipped) : k.message_key # x.message_key
        BY <1>3
    <3>1. x \in SentTo(p) /\ x \in sent
        BY <1>2 DEF SentTo, SentBy
    <3>2. CASE x = packet /\ result.ok = TRUE
        BY <1>1, <3>2
    <3>3. CASE BagIn(x, received)
      <4>1. /\ Passed(r.receive_chain_key, x.message_key)
            /\ \A k \in ToSet(r.skipped) : k.message_key # x.message_key
          BY <3>1, <3>3 DEF HistoryOK
      <4>2. x.message_key \in MessageKeys
          BY <3>1 DEF SafeInv, PacketsOK, PacketTyped
      <4>3. Passed(s.receive_chain_key, x.message_key)
          BY <1>1, <4>1, <4>2 DEF MovedOn
      <4>4. ASSUME NEW k \in ToSet(s.skipped) PROVE k.message_key # x.message_key
          BY <1>1, <4>1, <4>4 DEF MovedOn
      <4> QED BY <4>3, <4>4
    <3> QED BY <1>6, <3>2, <3>3
  <2> QED BY <1>2, <2>1, <2>2, <2>3, <2>4 DEF PartyOK, HistoryOK, HasConversation
<1>10. \A q \in Parties \ {p} : PartyOK(q)'
  <2> TAKE q \in Parties \ {p}
  <2>1. ratchet'[q] = ratchet[q] /\ PartyOK(q)
      BY <1>3 DEF SafeInv
  <2>2. SentBy(q)' = SentBy(q) /\ SentTo(q)' = SentTo(q)
      BY <1>2 DEF SentBy, SentTo
  <2>3. \A x \in SentTo(q) : BagIn(x, received') => BagIn(x, received)
    <3>1. Peer(q) # Peer(p)
        BY DEF Parties, Peer
    <3> QED BY <1>4, <1>6, <3>1 DEF SentTo, SentBy
  <2> QED BY <1>2, <2>1, <2>2, <2>3 DEF PartyOK, HistoryOK, HasConversation
<1> QED BY <1>3, <1>5, <1>7, <1>8, <1>9, <1>10 DEF SafeInv, s

\* A new packet was sent and nothing else happened to the channel
NewPacket ==
    /\ \E packet : packet \notin sent /\ sent' = sent \union {packet}
    /\ received' = received

\* A packet was received for the first time, or rejected: then no conversation has
\* lost or gained anything
PacketTried(packet) ==
    /\ packet \in sent
    /\ sent' = sent
    /\ \/ /\ ~BagIn(packet, received)
          /\ received' = received (+) SetToBag({packet})
       \/ /\ received' = received
          /\ \A q \in Parties : HasConversation(q) =>
                Durable(ratchet'[q]) = Durable(ratchet[q])

\* createSendConversation sends the first packet.
LEMMA StartConversation ==
    ASSUME SafeInv, NEW p \in Parties, createSendConversation(p)
    PROVE  SafeInv' /\ NewPacket
<1> DEFINE ephemeral == <<p, drawn[p] + 1>>
           theirPrekey == PublishedPrekey(Peer(p))
           r == create(Identity(p), ephemeral, Identity(Peer(p)), theirPrekey)
           metadata == [identity |-> Identity(p), ephemeral |-> ephemeral,
                        prekey |-> theirPrekey]
<1>1. sent = {} /\ send(p, r, metadata, 1)
    BY DEF createSendConversation
<1>2. ephemeral \in Name /\ theirPrekey \in Name /\ Identity(p) \in Name
  <2>1. drawn[p] \in Nat /\ p \in Nat
      BY DEF SafeInv, TypesOK, Parties
  <2>2. ephemeral \in Name
      BY <2>1 DEF Name
  <2>3. Peer(p) \in Parties /\ Identity(p) \in Name
      BY TwoParties
  <2>4. theirPrekey \in Name
      BY <2>3, TwoParties
  <2> QED BY <2>2, <2>3, <2>4
<1> HIDE DEF ephemeral, theirPrekey
<1>3. RatchetOK(r) /\ (r.role = TRUE <=> p = 2)
    BY <1>2, CreateForParty
<1>4. /\ metadata \in [identity : Name, ephemeral : Name, prekey : Name]
      /\ metadata.identity = Identity(p)
      /\ metadata # NoPrekeyMetadata
  <2>1. Identity(p) # NoPublicKey
      BY DEF Identity, NoPublicKey, ZeroedPrivateKey, Parties
  <2> QED BY <1>2, <2>1 DEF NoPrekeyMetadata
<1> HIDE DEF r, metadata
<1>5. HistoryOK(p, r)
    BY <1>1 DEF HistoryOK, SentBy, SentTo
<1> QED BY <1>1, <1>3, <1>4, <1>5, SendStep DEF NewPacket

\* molch_encrypt_message sends a packet.
LEMMA Encrypt ==
    ASSUME SafeInv, NEW p \in Parties, encryptMessage(p)
    PROVE  SafeInv' /\ NewPacket
<1>1. HasConversation(p) /\ send(p, ratchet[p], NoPrekeyMetadata, 0)
    BY DEF encryptMessage
<1>2. PartyOK(p)
    BY DEF SafeInv
<1>3. /\ RatchetOK(ratchet[p]) /\ (ratchet[p].role = TRUE <=> p = 2)
      /\ HistoryOK(p, ratchet[p])
      /\ \E packet \in sent : packet.prekey_metadata # NoPrekeyMetadata
    BY <1>1, <1>2 DEF PartyOK
<1>4. NoPrekeyMetadata \in [identity : Name, ephemeral : Name, prekey : Name]
    BY DEF NoPrekeyMetadata, NoPublicKey, ZeroedPrivateKey, Name
<1> DEFINE metadata == NoPrekeyMetadata
           none == 0
           r == ratchet[p]
<1>5. /\ send(p, r, metadata, none) /\ none \in Nat
      /\ metadata \in [identity : Name, ephemeral : Name, prekey : Name]
      /\ metadata # NoPrekeyMetadata => metadata.identity = Identity(p)
      /\ RatchetOK(r) /\ (r.role = TRUE <=> p = 2) /\ HistoryOK(p, r)
    BY <1>1, <1>3, <1>4
<1> HIDE DEF metadata, none, r
<1> QED BY <1>3, <1>5, SendStep DEF NewPacket

\* What receivePacket returns is a record.
LEMMA ResultFields ==
    ASSUME NEW r, NEW packet, NEW damage, NEW now
    PROVE  DOMAIN receivePacket(r, packet, damage, now) = {"ok", "ratchet", "keys"}
<1>1. DOMAIN internal_receive(r, packet, damage, now) = {"ok", "ratchet", "keys"}
    BY DEF internal_receive, advanceRatchet
<1> QED BY <1>1 DEF receivePacket

\* The ratchet of the receiver tries the packet.
LEMMA Tries ==
    ASSUME SafeInv, NEW p \in Parties, NEW packet \in SentTo(p), NEW damage,
           HasConversation(p) \/ packet.prekey_metadata # NoPrekeyMetadata
    PROVE  LET r == receivingRatchet(p, ratchet[p], packet)
           IN  Effect(r, packet, receivePacket(r, packet, damage, clock))
<1> DEFINE r == receivingRatchet(p, ratchet[p], packet)
           result == receivePacket(r, packet, damage, clock)
<1>1. RatchetOK(r)
    BY ReceivingRatchet
<1>2. PacketTyped(packet) /\ clock \in Nat
  <2>1. clock \in 0..MaxTime /\ MaxTime \in Nat
      BY ConversationAssumption DEF SafeInv, TypesOK
  <2>2. PacketTyped(packet)
      BY DEF SafeInv, PacketsOK, SentTo, SentBy
  <2> QED BY <2>1, <2>2
<1> HIDE DEF r
<1>3. Outcome(r, packet, result, clock)
    BY <1>1, <1>2, Receiving
<1> HIDE DEF result
<1>4. Effect(r, packet, result)
    BY <1>1, <1>2, <1>3, ReceivingEffect
<1> QED BY <1>4 DEF result, r

\* A rejected packet leaves what is durable.
LEMMA RejectedIsDurable ==
    ASSUME NEW r, RatchetOK(r), NEW s, Rejected(r, s)
    PROVE  Durable(s) = Durable(r)
    BY DEF RatchetOK, Ready, Rejected, SameKeys, Durable

\* molch_decrypt_message: a packet is received or rejected.
LEMMA Decrypt ==
    ASSUME SafeInv, NEW p \in Parties, NEW packet \in SentTo(p), NEW damage,
           decryptMessage(p, packet, damage)
    PROVE  SafeInv' /\ PacketTried(packet)
<1> DEFINE r == receivingRatchet(p, ratchet[p], packet)
           result == receivePacket(r, packet, damage, clock)
<1>1. HasConversation(p) /\ applyResult(p, packet, result)
    BY DEF decryptMessage
<1>2. /\ RatchetOK(r) /\ (r.role = TRUE <=> p = 2)
      /\ r = ratchet[p] /\ HistoryOK(p, r)
    BY <1>1, ReceivingRatchet
<1>3. Effect(r, packet, result)
    BY <1>1, Tries
<1>4. packet \in sent /\ \E x \in sent : x.prekey_metadata # NoPrekeyMetadata
    BY <1>1 DEF SafeInv, PartyOK, SentTo, SentBy
<1> HIDE DEF r, result
<1>5. /\ SafeInv'
      /\ ratchet'[p] = result.ratchet
      /\ \A q \in Parties \ {p} : ratchet'[q] = ratchet[q]
      /\ result.ok = TRUE => ~BagIn(packet, received)
    BY <1>1, <1>2, <1>3, <1>4, ReceiveStep
<1>6. /\ sent' = sent
      /\ received' = IF result.ok THEN received (+) SetToBag({packet}) ELSE received
    BY <1>1 DEF applyResult
<1>7. result.ok = TRUE \/ (result.ok = FALSE /\ Rejected(r, result.ratchet))
    BY <1>3 DEF Effect
<1>8. result.ok = FALSE => Durable(ratchet'[p]) = Durable(ratchet[p])
    BY <1>2, <1>5, <1>7, RejectedIsDurable
<1>9. PacketTried(packet)
  <2>1. CASE result.ok = TRUE
      BY <1>4, <1>5, <1>6, <2>1 DEF PacketTried
  <2>2. CASE result.ok = FALSE
    <3>1. \A q \in Parties : Durable(ratchet'[q]) = Durable(ratchet[q])
        BY <1>5, <1>8, <2>2
    <3> HIDE DEF Durable
    <3> QED BY <1>4, <1>6, <2>2, <3>1 DEF PacketTried
  <2> QED BY <1>7, <2>1, <2>2
<1> QED BY <1>5, <1>9

\* createReceiveConversation: a packet starts a conversation or changes nothing.
LEMMA AnswerConversation ==
    ASSUME SafeInv, NEW p \in Parties, NEW packet \in SentTo(p), NEW damage,
           createReceiveConversation(p, packet, damage)
    PROVE  SafeInv' /\ PacketTried(packet)
<1> DEFINE r == receivingRatchet(p, ratchet[p], packet)
           result == receivePacket(r, packet, damage, clock)
           kept == IF result.ok THEN result ELSE [result EXCEPT !.ratchet = NoConversation]
<1>1. /\ ~HasConversation(p) /\ packet.prekey_metadata # NoPrekeyMetadata
      /\ applyResult(p, packet, kept)
    BY DEF createReceiveConversation
<1>2. /\ RatchetOK(r) /\ (r.role = TRUE <=> p = 2) /\ HistoryOK(p, r)
    BY <1>1, ReceivingRatchet
<1>3. Effect(r, packet, result) /\ DOMAIN result = {"ok", "ratchet", "keys"}
    BY <1>1, Tries, ResultFields
<1>4. packet \in sent /\ \E x \in sent : x.prekey_metadata # NoPrekeyMetadata
    BY <1>1 DEF SentTo, SentBy
<1> HIDE DEF r, result
<1>5. result.ok = TRUE \/ result.ok = FALSE
    BY <1>3 DEF Effect
<1>6. CASE result.ok = TRUE
  <2>1. applyResult(p, packet, result)
      BY <1>1, <1>6
  <2>2. SafeInv' /\ ~BagIn(packet, received)
      BY <1>2, <1>3, <1>4, <1>6, <2>1, ReceiveStep
  <2>3. sent' = sent /\ received' = received (+) SetToBag({packet})
      BY <1>6, <2>1 DEF applyResult
  <2> QED BY <1>4, <2>2, <2>3 DEF PacketTried
<1>7. CASE result.ok = FALSE
  <2>1. kept.ok = FALSE /\ kept.ratchet = NoConversation
      BY <1>3, <1>7
  <2> HIDE DEF kept
  <2>2. /\ ratchet' = [ratchet EXCEPT ![p] = NoConversation]
        /\ received' = received /\ sent' = sent /\ drawn' = drawn /\ clock' = clock
      BY <1>1, <2>1 DEF applyResult
  <2>3. DOMAIN ratchet' = Parties /\ \A q \in Parties : ratchet'[q] = ratchet[q]
      BY <1>1, <2>2 DEF HasConversation, SafeInv, TypesOK
  <2>4. TypesOK' /\ PacketsOK' /\ SentKeysDiffer'
      BY <2>2, <2>3 DEF SafeInv, TypesOK, PacketsOK, PacketTyped, SentKeysDiffer
  <2>5. \A q \in Parties : PartyOK(q)'
    <3> TAKE q \in Parties
    <3>1. PartyOK(q) /\ SentBy(q)' = SentBy(q) /\ SentTo(q)' = SentTo(q)
        BY <2>2 DEF SafeInv, SentBy, SentTo
    <3> QED BY <2>2, <2>3, <3>1 DEF PartyOK, HistoryOK, HasConversation
  <2>6. \A q \in Parties : Durable(ratchet'[q]) = Durable(ratchet[q])
      BY <2>3
  <2> HIDE DEF Durable
  <2> QED BY <1>4, <2>2, <2>4, <2>5, <2>6 DEF SafeInv, PacketTried
<1> QED BY <1>5, <1>6, <1>7

\* A restart from a backup.
LEMMA Restart ==
    ASSUME SafeInv, NEW p \in Parties, restart(p)
    PROVE  /\ SafeInv'
           /\ sent' = sent /\ received' = received
           /\ \A q \in Parties : \/ ratchet'[q] = ratchet[q]
                                 \/ ratchet'[q] = exportAndImport(ratchet[q])
<1> DEFINE r == ratchet[p]
           s == exportAndImport(r)
<1>1. /\ HasConversation(p)
      /\ ratchet' = [ratchet EXCEPT ![p] = s]
      /\ sent' = sent /\ received' = received /\ drawn' = drawn /\ clock' = clock
    BY DEF restart
<1>2. PartyOK(p)
    BY DEF SafeInv
<1>3. RatchetOK(r) /\ (r.role = TRUE <=> p = 2) /\ HistoryOK(p, r)
      /\ \E packet \in sent : packet.prekey_metadata # NoPrekeyMetadata
    BY <1>1, <1>2 DEF PartyOK
<1> HIDE DEF r
<1>4. /\ RatchetOK(s)
      /\ \A f \in Fields \ {"receive_header_key", "send_chain_key",
                            "receive_chain_key"} : s[f] = r[f]
      /\ s.receive_chain_key.transcript = r.receive_chain_key.transcript
      /\ s.receive_chain_key.index = r.receive_chain_key.index
      /\ s.send_chain_key.transcript = r.send_chain_key.transcript
      /\ s.send_chain_key.index = r.send_chain_key.index
    BY <1>3, ExportAndImport
<1> HIDE DEF s
<1>5. s.role = r.role /\ s.skipped = r.skipped
    BY <1>4 DEF Fields
<1>6. \A k : /\ Passed(s.send_chain_key, k) <=> Passed(r.send_chain_key, k)
             /\ Passed(s.receive_chain_key, k) <=> Passed(r.receive_chain_key, k)
    BY <1>4 DEF Passed
<1>7. /\ DOMAIN ratchet' = Parties /\ ratchet'[p] = s
      /\ \A q \in Parties \ {p} : ratchet'[q] = ratchet[q]
    BY <1>1 DEF SafeInv, TypesOK
<1>8. TypesOK' /\ PacketsOK' /\ SentKeysDiffer'
    BY <1>1, <1>7 DEF SafeInv, TypesOK, PacketsOK, PacketTyped, SentKeysDiffer
<1>9. \A q \in Parties : SentBy(q)' = SentBy(q) /\ SentTo(q)' = SentTo(q)
    BY <1>1 DEF SentBy, SentTo
<1>10. PartyOK(p)'
  <2>1. (HasConversation(p))'
      BY <1>4, <1>7, RatchetIsConversation DEF HasConversation
  <2> QED BY <1>1, <1>3, <1>4, <1>5, <1>6, <1>7, <1>9, <2>1
          DEF PartyOK, HistoryOK, HasConversation
<1>11. \A q \in Parties \ {p} : PartyOK(q)'
  <2> TAKE q \in Parties \ {p}
  <2>1. PartyOK(q) /\ SentBy(q)' = SentBy(q) /\ SentTo(q)' = SentTo(q)
      BY <1>9 DEF SafeInv
  <2> QED BY <1>1, <1>7, <2>1 DEF PartyOK, HistoryOK, HasConversation
<1> QED BY <1>1, <1>7, <1>8, <1>10, <1>11 DEF SafeInv, s, r

\* Nothing but the clock changes in a tick, and nothing in a stuttering step.
LEMMA TickOrStutter ==
    ASSUME SafeInv, tick \/ UNCHANGED vars
    PROVE  /\ SafeInv'
           /\ sent' = sent /\ received' = received /\ ratchet' = ratchet
<1>1. /\ sent' = sent /\ received' = received /\ ratchet' = ratchet /\ drawn' = drawn
      /\ clock' \in 0..MaxTime
    BY ConversationAssumption DEF tick, vars, SafeInv, TypesOK
<1>2. TypesOK' /\ PacketsOK' /\ SentKeysDiffer'
    BY <1>1 DEF SafeInv, TypesOK, PacketsOK, PacketTyped, SentKeysDiffer
<1>3. \A q \in Parties : PartyOK(q)'
  <2> TAKE q \in Parties
  <2>1. PartyOK(q) /\ SentBy(q)' = SentBy(q) /\ SentTo(q)' = SentTo(q)
      BY <1>1 DEF SafeInv, SentBy, SentTo
  <2> QED BY <1>1, <2>1 DEF PartyOK, HistoryOK, HasConversation
<1> QED BY <1>1, <1>2, <1>3 DEF SafeInv

\* Between two steps every step of the specification keeps the invariant.
LEMMA SafeStep ==
    ASSUME SafeInv, [Next]_vars
    PROVE  SafeInv'
<1>1. ASSUME NEW p \in Parties, createSendConversation(p) PROVE SafeInv'
    BY <1>1, StartConversation
<1>2. ASSUME NEW p \in Parties, encryptMessage(p) PROVE SafeInv'
    BY <1>2, Encrypt
<1>3. ASSUME NEW p \in Parties, NEW damage \in Damage, NEW packet \in SentTo(p),
             createReceiveConversation(p, packet, damage)
      PROVE  SafeInv'
    BY <1>3, AnswerConversation
<1>4. ASSUME NEW p \in Parties, NEW damage \in Damage, NEW packet \in SentTo(p),
             decryptMessage(p, packet, damage)
      PROVE  SafeInv'
    BY <1>4, Decrypt
<1>5. ASSUME NEW p \in Parties, restart(p) PROVE SafeInv'
    BY <1>5, Restart
<1>6. ASSUME tick \/ UNCHANGED vars PROVE SafeInv'
    BY <1>6, TickOrStutter
<1> QED BY <1>1, <1>2, <1>3, <1>4, <1>5, <1>6 DEF Next

\* Initially nobody has a conversation and nothing was sent.
LEMMA SafeInit == Init => SafeInv
<1> SUFFICES ASSUME Init PROVE SafeInv
    OBVIOUS
<1>1. TypesOK
  <2>1. IsABag(received) /\ DOMAIN received = {}
      BY DEF Init, EmptyBag, SetToBag, IsABag
  <2>2. clock \in 0..MaxTime
      BY ConversationAssumption DEF Init
  <2> QED BY <2>1, <2>2 DEF Init, TypesOK
<1>2. PacketsOK /\ SentKeysDiffer
    BY DEF Init, PacketsOK, SentKeysDiffer
<1>3. ASSUME NEW p \in Parties PROVE PartyOK(p)
  <2>1. ~HasConversation(p)
      BY DEF Init, HasConversation
  <2>2. SentBy(p) = {} /\ SentTo(p) = {}
      BY DEF Init, SentBy, SentTo
  <2> QED BY <2>1, <2>2 DEF PartyOK
<1> QED BY <1>1, <1>2, <1>3 DEF SafeInv

\* The invariant holds: ratchets are sound between calls, chains have passed what
\* was sent and received, and no message key was used twice.
THEOREM ConversationInvariant == Spec => []SafeInv
<1>1. SafeInv /\ [Next]_vars => SafeInv'
    BY SafeStep
<1> QED BY <1>1, SafeInit, PTL DEF Spec

\* The ratchets have their types, key draws are counted, received is a bag.
THEOREM ConversationTypeCorrect == Spec => []TypeOK
<1>1. SafeInv => TypeOK
  <2> SUFFICES ASSUME SafeInv PROVE TypeOK
      OBVIOUS
  <2>1. ASSUME NEW p \in Parties, HasConversation(p) PROVE RatchetTypeOK(ratchet[p])
    <3> DEFINE r == ratchet[p]
    <3>1. RatchetTyped(r) /\ Ready(r)
        BY <2>1 DEF SafeInv, PartyOK, RatchetOK
    <3> HIDE DEF r
    <3>2. /\ r.root_key.kind = "root"
          /\ r.next_send_header_key.kind = "header"
          /\ r.next_receive_header_key.kind = "header"
          /\ r.send_chain_key.kind \in {"none", "zero", "chain"}
          /\ r.receive_chain_key.kind \in {"none", "zero", "chain"}
        BY <3>1 DEF RatchetTyped, RootKeys, HeaderKeys, ChainKeys, KeysOf,
                    EmptyKeys, NoKey, ZeroKey
    <3>3. /\ r.header_decryptable \in HeaderDecryptability
          /\ r.received_valid \in BOOLEAN
        BY <3>1 DEF Ready, HeaderDecryptability
    <3>4. /\ r.send_message_number \in MessageNumbers
          /\ r.receive_message_number \in MessageNumbers
          /\ r.previous_message_number \in MessageNumbers
          /\ r.purported_message_number \in MessageNumbers
          /\ r.purported_previous_message_number \in MessageNumbers
          /\ r.role \in BOOLEAN /\ r.ratchet_flag \in BOOLEAN
        BY <3>1 DEF RatchetTyped
    <3>5. RatchetTypeOK(r)
        BY <3>2, <3>3, <3>4 DEF RatchetTypeOK, MessageNumbers
    <3> QED BY <3>5 DEF r
  <2> QED BY <2>1 DEF TypeOK, SafeInv, TypesOK
<1> QED BY <1>1, ConversationInvariant, PTL

\* No call leaves a ratchet in the middle of a packet.
THEOREM RatchetsStayReady == Spec => []ReadyForNextPacket
<1>1. SafeInv => ReadyForNextPacket
    BY DEF SafeInv, PartyOK, RatchetOK, Ready, ReadyForNextPacket
<1> QED BY <1>1, ConversationInvariant, PTL

\* A backup of a conversation can always be made.
THEOREM BackupsAreAlwaysPossible == Spec => []AlwaysExportable
<1>1. SafeInv => AlwaysExportable
  <2> SUFFICES ASSUME SafeInv, NEW p \in Parties, HasConversation(p)
               PROVE  canExport(ratchet[p])
      BY DEF AlwaysExportable
  <2> DEFINE r == ratchet[p]
  <2>1. RatchetTyped(r) /\ SendChainOK(r) /\ ReceiveChainOK(r)
      BY DEF SafeInv, PartyOK, RatchetOK
  <2> HIDE DEF r
  <2>2. NoKey \notin RootKeys /\ NoKey \notin HeaderKeys /\ NoKey \notin ChainKeys
      BY DEF RootKeys, HeaderKeys, ChainKeys, KeysOf, NoKey
  <2>3. canExport(r)
      BY <2>1, <2>2 DEF canExport, RatchetTyped, SendChainOK, ReceiveChainOK
  <2> QED BY <2>3 DEF r
<1> QED BY <1>1, ConversationInvariant, PTL

\* Whoever has a conversation can send, with keys from a key agreement.
THEOREM MessagesHaveAgreedKeys == Spec => []NextMessageHasAgreedKeys
<1>1. SafeInv => NextMessageHasAgreedKeys
  <2> SUFFICES ASSUME SafeInv, NEW p \in Parties, HasConversation(p)
               PROVE  LET data == getSendData(ratchet[p], <<p, drawn[p] + 1>>)
                      IN  /\ data.ok
                          /\ data.message_key.transcript # <<>>
                          /\ data.header_key.transcript # <<>>
      BY DEF NextMessageHasAgreedKeys
  <2> DEFINE r == ratchet[p]
             fresh == <<p, drawn[p] + 1>>
             data == getSendData(r, fresh)
  <2>1. RatchetOK(r)
      BY DEF SafeInv, PartyOK
  <2>2. fresh \in Name
    <3>1. drawn[p] \in Nat /\ p \in Nat
        BY DEF SafeInv, TypesOK, Parties
    <3> QED BY <3>1 DEF Name
  <2> HIDE DEF r, fresh
  <2>3. data.ok /\ data.message_key \in MessageKeys /\ data.header_key \in HeaderKeys
      BY <2>1, <2>2, SendingEffect
  <2> HIDE DEF data
  <2>4. data.message_key.transcript # <<>> /\ data.header_key.transcript # <<>>
      BY <2>3 DEF MessageKeys, HeaderKeys, KeysOf, Transcripts
  <2> QED BY <2>3, <2>4 DEF data, r, fresh
<1> QED BY <1>1, ConversationInvariant, PTL

\* No message key encrypts two messages: the keys of the packets differ, and the
\* sending chain has passed the keys of all that its party has sent, so that the
\* next message gets another one.
THEOREM MessageKeysAreFresh == Spec => []MessageKeysFresh
<1>1. SafeInv => MessageKeysFresh
  <2> SUFFICES ASSUME SafeInv, NEW p \in Parties, HasConversation(p), NEW b \in sent
               PROVE  b.message_key # NextMessageKey(p)
      BY DEF SafeInv, SentKeysDiffer, MessageKeysFresh
  <2> DEFINE r == ratchet[p]
             fresh == <<p, drawn[p] + 1>>
             key == getSendData(r, fresh).message_key
  <2>1. /\ RatchetOK(r)
        /\ r.role = TRUE <=> p = 2
        /\ \A packet \in SentBy(p) : Passed(r.send_chain_key, packet.message_key)
      BY DEF SafeInv, PartyOK, HistoryOK
  <2>2. fresh \in Name
    <3>1. drawn[p] \in Nat /\ p \in Nat
        BY DEF SafeInv, TypesOK, Parties
    <3> QED BY <3>1 DEF Name
  <2>3. NextMessageKey(p) = key
      BY DEF NextMessageKey
  <2> HIDE DEF r, fresh
  <2>4. ~Passed(r.send_chain_key, key) /\ SendsOn(r.role, key.transcript)
      BY <2>1, <2>2, SendingEffect
  <2> HIDE DEF key
  <2>5. PacketTyped(b) /\ (Len(b.message_key.transcript) % 2 = 0 <=> b.from = 2)
      BY DEF SafeInv, PacketsOK
  <2>6. CASE b.from = p
      BY <2>1, <2>3, <2>4, <2>6 DEF SentBy
  <2>7. CASE b.from # p
    <3>1. b.from = 2 <=> p # 2
        BY <2>5, <2>7 DEF PacketTyped, Parties
    <3>2. Len(key.transcript) % 2 = 0 <=> r.role = TRUE
        BY <2>4 DEF SendsOn, ALICE
    <3> QED BY <2>1, <2>3, <2>5, <3>1, <3>2
  <2> QED BY <2>6, <2>7
<1> QED BY <1>1, ConversationInvariant, PTL

\* A rejected packet leaves nothing but purported values behind.
THEOREM RejectedPacketsAreHarmless == Spec => RejectedPacketHarmless
<1> DEFINE Harmless ==
        \A p \in Parties :
           HasConversation(p) /\ sent' = sent /\ received' = received =>
              \/ Durable(ratchet'[p]) = Durable(ratchet[p])
              \/ ratchet'[p] = exportAndImport(ratchet[p])
<1>1. SafeInv /\ [Next]_vars => [Harmless]_vars
  <2> SUFFICES ASSUME SafeInv, [Next]_vars PROVE Harmless
      OBVIOUS
  <2>1. NewPacket => Harmless
      BY DEF NewPacket
  <2>2. ASSUME NEW packet, PacketTried(packet) PROVE Harmless
    <3>1. received (+) SetToBag({packet}) # received
        BY OneMore DEF SafeInv, TypesOK
    <3> HIDE DEF Durable
    <3> QED BY <2>2, <3>1 DEF PacketTried
  <2>3. ASSUME \A q \in Parties : \/ ratchet'[q] = ratchet[q]
                                  \/ ratchet'[q] = exportAndImport(ratchet[q])
        PROVE  Harmless
    <3> HIDE DEF Durable, exportAndImport
    <3> QED BY <2>3
  <2> HIDE DEF Harmless
  <2>4. ASSUME NEW p \in Parties, createSendConversation(p) PROVE Harmless
      BY <2>1, <2>4, StartConversation
  <2>5. ASSUME NEW p \in Parties, encryptMessage(p) PROVE Harmless
      BY <2>1, <2>5, Encrypt
  <2>6. ASSUME NEW p \in Parties, NEW damage \in Damage, NEW packet \in SentTo(p),
               createReceiveConversation(p, packet, damage)
        PROVE  Harmless
      BY <2>2, <2>6, AnswerConversation
  <2>7. ASSUME NEW p \in Parties, NEW damage \in Damage, NEW packet \in SentTo(p),
               decryptMessage(p, packet, damage)
        PROVE  Harmless
      BY <2>2, <2>7, Decrypt
  <2>8. ASSUME NEW p \in Parties, restart(p) PROVE Harmless
      BY <2>3, <2>8, Restart
  <2>9. ASSUME tick \/ UNCHANGED vars PROVE Harmless
    <3>1. ratchet' = ratchet
        BY <2>9, TickOrStutter
    <3> QED BY <2>3, <3>1
  <2> QED BY <2>4, <2>5, <2>6, <2>7, <2>8, <2>9 DEF Next
<1> QED BY <1>1, ConversationInvariant, PTL DEF Spec, RejectedPacketHarmless

\* The conversation implements the secure channel: a packet is handed to the
\* application at most once, and only if the peer has sent it.
THEOREM ConversationIsSecureChannel == Spec => ImplementsSecureChannel
<1>1. Init => Channel!Init
    BY DEF Init, Channel!Init, EmptyBag, SetToBag, Channel!EmptyBag, Channel!SetToBag
<1>2. SafeInv /\ [Next]_vars => [Channel!Next]_<<sent, received>>
  <2> DEFINE Step == [Channel!Next]_<<sent, received>>
  <2> SUFFICES ASSUME SafeInv, [Next]_vars PROVE Step
      OBVIOUS
  <2>1. NewPacket => Step
    <3> SUFFICES ASSUME NewPacket PROVE Channel!Next
        OBVIOUS
    <3>1. PICK packet : packet \notin sent /\ sent' = sent \union {packet}
        BY DEF NewPacket
    <3>2. received' = received
        BY DEF NewPacket
    <3> QED BY <3>1, <3>2 DEF Channel!Next, Channel!Send
  <2>2. ASSUME NEW packet, PacketTried(packet) PROVE Step
    <3>1. BagIn(packet, received) <=> Channel!BagIn(packet, received)
        BY DEF BagIn, BagToSet, Channel!BagIn, Channel!BagToSet
    <3>2. received (+) SetToBag({packet})
             = Channel!(+)(received, Channel!SetToBag({packet}))
        BY DEF (+), SetToBag, Channel!(+), Channel!SetToBag
    <3> HIDE DEF Durable
    <3> QED BY <2>2, <3>1, <3>2 DEF PacketTried, Channel!Next, Channel!Receive
  <2>3. sent' = sent /\ received' = received => Step
      OBVIOUS
  <2> HIDE DEF Step
  <2>4. ASSUME NEW p \in Parties, createSendConversation(p) PROVE Step
      BY <2>1, <2>4, StartConversation
  <2>5. ASSUME NEW p \in Parties, encryptMessage(p) PROVE Step
      BY <2>1, <2>5, Encrypt
  <2>6. ASSUME NEW p \in Parties, NEW damage \in Damage, NEW packet \in SentTo(p),
               createReceiveConversation(p, packet, damage)
        PROVE  Step
      BY <2>2, <2>6, AnswerConversation
  <2>7. ASSUME NEW p \in Parties, NEW damage \in Damage, NEW packet \in SentTo(p),
               decryptMessage(p, packet, damage)
        PROVE  Step
      BY <2>2, <2>7, Decrypt
  <2>8. ASSUME NEW p \in Parties, restart(p) PROVE Step
      BY <2>3, <2>8, Restart
  <2>9. ASSUME tick \/ UNCHANGED vars PROVE Step
      BY <2>3, <2>9, TickOrStutter
  <2> QED BY <2>4, <2>5, <2>6, <2>7, <2>8, <2>9 DEF Next
<1> QED BY <1>1, <1>2, ConversationInvariant, PTL
        DEF Spec, ImplementsSecureChannel, Channel!Spec

\* A chain key or a stored key of the other direction does not give the key.
LEMMA OtherDirection ==
    ASSUME NEW role \in BOOLEAN, NEW t \in Transcripts, NEW u \in Transcripts,
           SendsOn(role, t), ReceivesOn(role, u)
    PROVE  t # u
<1>1. Len(t) \in Nat
    BY LenProperties DEF Transcripts
<1> QED BY <1>1, Parity DEF SendsOn, ReceivesOn, ALICE

\* Forward secrecy of the stored state: keys of messages that were received or sent
\* can no longer be computed from it.
THEOREM UsedKeysAreErased == Spec => []UsedKeysErased
<1>1. SafeInv => UsedKeysErased
  <2> SUFFICES ASSUME SafeInv, NEW p \in Parties, HasConversation(p),
                      NEW packet \in sent,
                      \/ packet \in SentTo(p) /\ BagIn(packet, received)
                      \/ packet \in SentBy(p)
               PROVE  ~Retained(ratchet[p], packet.message_key)
      BY DEF UsedKeysErased, SentTo, SentBy
  <2> DEFINE r == ratchet[p]
             key == packet.message_key
             t == key.transcript
  <2>1. RatchetOK(r) /\ (r.role = TRUE <=> p = 2) /\ HistoryOK(p, r)
      BY DEF SafeInv, PartyOK
  <2>2. /\ key \in MessageKeys
        /\ Len(t) % 2 = 0 <=> packet.from = 2
      BY DEF SafeInv, PacketsOK, PacketTyped
  <2>3. packet \in SentTo(p) => packet.from = Peer(p)
      BY DEF SentTo, SentBy
  <2>4. packet \in SentBy(p) => packet.from = p /\ Passed(r.send_chain_key, key)
      BY <2>1 DEF SentBy, HistoryOK
  <2>5. packet \in SentTo(p) /\ BagIn(packet, received) =>
           /\ Passed(r.receive_chain_key, key)
           /\ \A k \in ToSet(r.skipped) : k.message_key # key
      BY <2>1 DEF HistoryOK
  <2> HIDE DEF r, key
  <2>6. t \in Transcripts /\ key.index \in Nat /\ Len(t) \in Nat /\ t # <<>>
      BY <2>2, LenProperties DEF MessageKeys, KeysOf, Transcripts
  <2>7. r.role \in BOOLEAN
      BY <2>1 DEF RatchetOK, RatchetTyped
  <2> HIDE DEF t
  <2>8. packet \in SentBy(p) => SendsOn(r.role, t)
      BY <2>1, <2>2, <2>4 DEF SendsOn, ALICE
  <2>9. packet \in SentTo(p) => ReceivesOn(r.role, t)
    <3>1. packet \in SentTo(p) => (packet.from = 2 <=> p # 2)
        BY <2>3 DEF Parties, Peer
    <3>2. Len(t) % 2 = 1 <=> ~(Len(t) % 2 = 0)
        BY <2>6
    <3> QED BY <2>1, <2>2, <2>7, <3>1, <3>2 DEF ReceivesOn, ALICE
  <2>10. RatchetTyped(r) /\ r.staged = <<>>
      BY <2>1 DEF RatchetOK, Ready
  <2>11. ASSUME NEW i \in DOMAIN r.skipped PROVE r.skipped[i].message_key # key
    <3> DEFINE k == r.skipped[i]
    <3>1. k \in ToSet(r.skipped)
        BY DEF ToSet
    <3>2. k.message_key \in MessageKeys /\ ReceivesOn(r.role, k.message_key.transcript)
        BY <2>1, <3>1, SkippedKey
    <3>3. k.message_key.transcript \in Transcripts
        BY <3>2 DEF MessageKeys, KeysOf
    <3>4. CASE packet \in SentBy(p)
      <4>1. t # k.message_key.transcript
          BY <2>6, <2>7, <2>8, <3>2, <3>3, <3>4, OtherDirection
      <4> QED BY <4>1 DEF t
    <3>5. CASE packet \in SentTo(p) /\ BagIn(packet, received)
        BY <2>5, <3>1, <3>5
    <3> QED BY <3>4, <3>5
  <2>12. ~(r.send_chain_key.transcript = t /\ r.send_chain_key.index <= key.index)
    <3> DEFINE ck == r.send_chain_key
    <3> SUFFICES ASSUME ck.transcript = t, ck.index <= key.index PROVE FALSE
        OBVIOUS
    <3>1. ck \in ChainKeys
        BY <2>6, <2>10 DEF RatchetTyped, EmptyKeys, NoKey, ZeroKey
    <3>2. ck.transcript \in Transcripts /\ ck.index \in Nat /\ SendsOn(r.role, ck.transcript)
        BY <2>1, <3>1 DEF RatchetOK, SendChainOK, ChainKeys, KeysOf
    <3>3. packet \notin SentTo(p)
        BY <2>6, <2>7, <2>9, <3>2, OtherDirection
    <3>4. Passed(ck, key)
        BY <2>4, <3>3
    <3> HIDE DEF ck
    <3> QED BY <2>6, <3>2, <3>4 DEF Passed, t
  <2>13. ~(r.receive_chain_key.transcript = t /\ r.receive_chain_key.index <= key.index)
    <3> DEFINE ck == r.receive_chain_key
    <3> SUFFICES ASSUME ck.transcript = t, ck.index <= key.index PROVE FALSE
        OBVIOUS
    <3>1. ck \in ChainKeys
        BY <2>6, <2>10 DEF RatchetTyped, EmptyKeys, NoKey, ZeroKey
    <3>2. /\ ck.transcript \in Transcripts /\ ck.index \in Nat
          /\ ReceivesOn(r.role, ck.transcript)
        BY <2>1, <3>1 DEF RatchetOK, ReceiveChainOK, ChainKeys, KeysOf
    <3>3. packet \notin SentBy(p)
        BY <2>6, <2>7, <2>8, <3>2, OtherDirection
    <3>4. Passed(ck, key)
        BY <2>5, <3>3
    <3> HIDE DEF ck
    <3> QED BY <2>6, <3>2, <3>4 DEF Passed, t
  <2>14. ~(/\ r.purported_receive_chain_key.transcript = t
           /\ r.purported_receive_chain_key.index <= key.index)
    <3> DEFINE pk == r.purported_receive_chain_key
               ck == r.receive_chain_key
    <3> SUFFICES ASSUME pk.transcript = t, pk.index <= key.index PROVE FALSE
        OBVIOUS
    <3>1. pk \in ChainKeys
        BY <2>6, <2>10 DEF RatchetTyped, NoKey
    <3>2. /\ pk.transcript \in Transcripts /\ pk.index \in Nat
          /\ ReceivesOn(r.role, pk.transcript)
          /\ \/ Len(pk.transcript) > Len(ck.transcript)
             \/ pk.transcript = ck.transcript /\ pk.index >= ck.index
        BY <2>1, <3>1 DEF RatchetOK, PurportedOK, ChainKeys, KeysOf
    <3>3. packet \notin SentBy(p)
        BY <2>6, <2>7, <2>8, <3>2, OtherDirection
    <3>4. Passed(ck, key)
        BY <2>5, <3>3
    <3>5. Len(ck.transcript) \in Nat /\ ck.index \in Nat
        BY <2>10, Lengths
    <3> HIDE DEF ck, pk
    <3> QED BY <2>6, <3>2, <3>4, <3>5 DEF Passed, t
  <2>15. DOMAIN r.staged = {}
      BY <2>10
  <2>16. ~Retained(r, key)
      BY <2>11, <2>12, <2>13, <2>14, <2>15 DEF Retained, t
  <2> QED BY <2>16 DEF r, key
<1> QED BY <1>1, ConversationInvariant, PTL

-----------------------------------------------------------------------------
(***************************************************************************)
(* Header keys                                                             *)
(***************************************************************************)

(***************************************************************************)
(* The header key of a chain is derived before the chain is: that of the   *)
(* first three chains from the triple Diffie Hellman, and later that of    *)
(* the chain with transcript Append(Append(t, x), y) from t.               *)
(***************************************************************************)
HeaderAfterNext(t) == HeaderKey(t, IF Len(t) = 1 THEN 3 ELSE 1)
HeaderOfNext(t) == IF Len(t) = 1 THEN HeaderKey(t, 2) ELSE HeaderAfterNext(Front(t))
HeaderOf(t) == IF Len(t) = 1 THEN HeaderKey(t, 1) ELSE HeaderOfNext(Front(t))

\* The length of the transcript of the chain that a header key belongs to
ChainLength(header_key) ==
    IF Len(header_key.transcript) = 1 THEN header_key.index
    ELSE Len(header_key.transcript) + 2

\* Front undoes Append.
LEMMA FrontOfAppend ==
    ASSUME NEW S, NEW t \in Seq(S), NEW x \in S
    PROVE  Front(Append(t, x)) = t
<1> DEFINE u == Append(t, x)
           n == Len(t)
           f == SubSeq(u, 1, n)
<1>1. /\ u \in Seq(S) /\ Len(u) = n + 1 /\ n \in Nat
      /\ \A i \in 1..n : u[i] = t[i]
    BY AppendProperties, LenProperties
<1> HIDE DEF u
<1>2. \A i \in 1..n : u[i] \in S
    BY <1>1, LenProperties
<1>3. /\ f \in Seq(S)
      /\ Len(f) = IF 1 <= n THEN n - 1 + 1 ELSE 0
      /\ \A i \in 1..(n - 1 + 1) : f[i] = u[1 + i - 1]
    BY <1>1, <1>2, SubSeqProperties
<1>4. Len(f) = n /\ \A i \in 1..n : f[i] = t[i]
    BY <1>1, <1>3
<1>5. f = [i \in 1..n |-> f[i]] /\ t = [i \in 1..n |-> t[i]]
    BY <1>3, <1>4, LenProperties
<1>6. f = t
    BY <1>4, <1>5
<1>7. Front(u) = SubSeq(u, 1, n + 1 - 1)
    BY <1>1 DEF Front
<1>8. n + 1 - 1 = n
    BY <1>1
<1> QED BY <1>6, <1>7, <1>8 DEF u

\* The transcript before the last secret.
LEMMA FrontIsTranscript ==
    ASSUME NEW t \in Transcripts, Len(t) # 1
    PROVE  /\ Front(t) \in Transcripts
           /\ Len(t) \in Nat /\ Len(t) > 1 /\ Len(Front(t)) = Len(t) - 1
<1> DEFINE n == Len(t)
           f == SubSeq(t, 1, n - 1)
<1>1. t \in Seq(Secret) /\ n \in Nat /\ \A i \in 1..n : t[i] \in Secret
    BY LenProperties DEF Transcripts
<1>2. n # 0
    BY <1>1, EmptySeq DEF Transcripts
<1>3. n > 1
  <2>1. n # 1
      OBVIOUS
  <2> HIDE DEF n
  <2> QED BY <1>1, <1>2, <2>1
<1>4. f \in Seq(Secret) /\ Len(f) = n - 1
  <2>1. n - 1 \in Int /\ 1 \in Int /\ \A i \in 1..(n - 1) : t[i] \in Secret
      BY <1>1
  <2> HIDE DEF n
  <2>2. f \in Seq(Secret) /\ Len(f) = IF 1 <= n - 1 THEN n - 1 - 1 + 1 ELSE 0
      BY <2>1, SubSeqProperties
  <2> QED BY <1>1, <1>3, <2>2
<1>5. f # <<>>
  <2>1. Len(<<>>) = 0
      BY EmptySeq
  <2> HIDE DEF n, f
  <2> QED BY <1>1, <1>3, <1>4, <2>1
<1>6. Front(t) = f
    BY DEF Front
<1> QED BY <1>1, <1>3, <1>4, <1>5, <1>6 DEF Transcripts

\* A header key tells how long the transcript of its chain is.
LEMMA HeaderLengths ==
    ASSUME NEW t \in Transcripts
    PROVE  /\ Len(t) \in Nat /\ Len(t) > 0
           /\ HeaderOf(t) \in HeaderKeys
           /\ ChainLength(HeaderAfterNext(t)) = Len(t) + 2
           /\ ChainLength(HeaderOfNext(t)) = Len(t) + 1
           /\ ChainLength(HeaderOf(t)) = Len(t)
<1>1. \A u \in Transcripts : Len(u) \in Nat /\ Len(u) > 0
  <2> TAKE u \in Transcripts
  <2>1. u \in Seq(Secret) /\ u # <<>>
      BY DEF Transcripts
  <2> QED BY <2>1, LenProperties, EmptySeq
<1>2. \A u \in Transcripts, i \in Nat :
         /\ HeaderKey(u, i) \in HeaderKeys
         /\ HeaderKey(u, i).transcript = u /\ HeaderKey(u, i).index = i
    BY DEF HeaderKey, HeaderKeys, KeysOf
<1>3. \A u \in Transcripts :
         /\ HeaderAfterNext(u) \in HeaderKeys
         /\ ChainLength(HeaderAfterNext(u)) = Len(u) + 2
  <2> TAKE u \in Transcripts
  <2>1. CASE Len(u) = 1
    <3>1. HeaderAfterNext(u) = HeaderKey(u, 3)
        BY <2>1 DEF HeaderAfterNext
    <3> QED BY <1>2, <2>1, <3>1 DEF ChainLength
  <2>2. CASE Len(u) # 1
    <3>1. HeaderAfterNext(u) = HeaderKey(u, 1)
        BY <2>2 DEF HeaderAfterNext
    <3> QED BY <1>2, <2>2, <3>1 DEF ChainLength
  <2> QED BY <2>1, <2>2
<1>4. \A u \in Transcripts :
         /\ HeaderOfNext(u) \in HeaderKeys
         /\ ChainLength(HeaderOfNext(u)) = Len(u) + 1
  <2> TAKE u \in Transcripts
  <2>1. CASE Len(u) = 1
    <3>1. HeaderOfNext(u) = HeaderKey(u, 2)
        BY <2>1 DEF HeaderOfNext
    <3> QED BY <1>2, <2>1, <3>1 DEF ChainLength
  <2>2. CASE Len(u) # 1
    <3>1. HeaderOfNext(u) = HeaderAfterNext(Front(u))
        BY <2>2 DEF HeaderOfNext
    <3>2. Front(u) \in Transcripts /\ Len(Front(u)) = Len(u) - 1 /\ Len(u) \in Nat
        BY <2>2, FrontIsTranscript
    <3>3. /\ HeaderAfterNext(Front(u)) \in HeaderKeys
          /\ ChainLength(HeaderAfterNext(Front(u))) = Len(Front(u)) + 2
        BY <1>3, <3>2
    <3> QED BY <3>1, <3>2, <3>3
  <2> QED BY <2>1, <2>2
<1>5. HeaderOf(t) \in HeaderKeys /\ ChainLength(HeaderOf(t)) = Len(t)
  <2>1. CASE Len(t) = 1
    <3>1. HeaderOf(t) = HeaderKey(t, 1)
        BY <2>1 DEF HeaderOf
    <3> QED BY <1>2, <2>1, <3>1 DEF ChainLength
  <2>2. CASE Len(t) # 1
    <3>1. HeaderOf(t) = HeaderOfNext(Front(t))
        BY <2>2 DEF HeaderOf
    <3>2. Front(t) \in Transcripts /\ Len(Front(t)) = Len(t) - 1 /\ Len(t) \in Nat
        BY <2>2, FrontIsTranscript
    <3>3. /\ HeaderOfNext(Front(t)) \in HeaderKeys
          /\ ChainLength(HeaderOfNext(Front(t))) = Len(Front(t)) + 1
        BY <1>4, <3>2
    <3> QED BY <3>1, <3>2, <3>3
  <2> QED BY <2>1, <2>2
<1> QED BY <1>1, <1>3, <1>4, <1>5

\* What header keys become when a secret is added to the transcript.
LEMMA HeadersMoveUp ==
    ASSUME NEW t \in Transcripts, NEW x \in Secret
    PROVE  LET u == Append(t, x)
           IN  /\ Front(u) = t /\ Len(u) = Len(t) + 1
               /\ HeaderOf(u) = HeaderOfNext(t)
               /\ HeaderOfNext(u) = HeaderAfterNext(t)
               /\ HeaderAfterNext(u) = HeaderKey(u, 1)
<1> DEFINE u == Append(t, x)
<1>1. t \in Seq(Secret) /\ t # <<>>
    BY DEF Transcripts
<1>2. Front(u) = t
    BY <1>1, FrontOfAppend
<1>3. Len(u) = Len(t) + 1 /\ Len(t) \in Nat /\ Len(t) > 0
    BY <1>1, Growth
<1> HIDE DEF u
<1>4. Len(u) # 1
    BY <1>3
<1>5. /\ HeaderOf(u) = HeaderOfNext(t)
      /\ HeaderOfNext(u) = HeaderAfterNext(t)
      /\ HeaderAfterNext(u) = HeaderKey(u, 1)
    BY <1>2, <1>4 DEF HeaderOf, HeaderOfNext, HeaderAfterNext
<1> QED BY <1>2, <1>3, <1>5 DEF u

-----------------------------------------------------------------------------
(***************************************************************************)
(* One ratchet                                                             *)
(***************************************************************************)

\* Who does not have to start a chain sends on the latest one and receives on the
\* one before; who has to start one receives on the latest
TurnAligned(r) ==
    LET t == r.root_key.transcript
    IN  /\ r.root_key = RootKey(t)
        /\ r.ratchet_flag = FALSE =>
              /\ r.send_chain_key.transcript = t
              /\ r.receive_chain_key.transcript = Front(t)
              /\ Len(t) = Len(r.receive_chain_key.transcript) + 1
              /\ r.our_private_ephemeral = r.our_public_ephemeral
              /\ r.next_receive_header_key = HeaderOfNext(t)
              /\ r.next_send_header_key = HeaderAfterNext(t)
        /\ r.ratchet_flag = TRUE =>
              /\ r.receive_chain_key.transcript = t
              /\ Len(t) = Len(r.send_chain_key.transcript) + 1
              /\ r.next_send_header_key = HeaderOfNext(t)
              /\ r.next_receive_header_key = HeaderAfterNext(t)

\* Chains and skipped keys have the header keys of their chains
HeadersAligned(r) ==
    /\ r.send_chain_key \in ChainKeys =>
          r.send_header_key = HeaderOf(r.send_chain_key.transcript)
    /\ r.receive_chain_key \in ChainKeys =>
          r.receive_header_key = HeaderOf(r.receive_chain_key.transcript)
    /\ \A k \in ToSet(r.skipped) : k.header_key = HeaderOf(k.message_key.transcript)

\* Message numbers count the messages of their chains
Numbered(r) ==
    /\ r.send_chain_key \in ChainKeys =>
          r.send_message_number = r.send_chain_key.index % message_numbers
    /\ r.receive_chain_key \in ChainKeys =>
          r.receive_message_number = r.receive_chain_key.index % message_numbers

Aligned(r) == TurnAligned(r) /\ HeadersAligned(r) /\ Numbered(r)

\* A number is its quotient times the divisor and a remainder.
LEMMA Division ==
    ASSUME NEW i \in Nat, NEW m \in Int, m > 0
    PROVE  /\ i = m * (i \div m) + (i % m)
           /\ i \div m \in Int
           /\ i % m \in Int /\ 0 <= i % m /\ i % m < m
<1>1. i = m * (i \div m) + (i % m)
    BY Z3
<1>2. i \div m \in Int
    OBVIOUS
<1>3. i % m \in Int /\ 0 <= i % m /\ i % m < m
    OBVIOUS
<1> QED BY <1>1, <1>2, <1>3

\* There is only one remainder.
LEMMA Remainder ==
    ASSUME NEW m \in Nat \ {0}, NEW a \in Nat, NEW q \in Int, NEW r \in 0..(m - 1),
           a = m * q + r
    PROVE  a % m = r
    OBVIOUS

\* The successor of the message number of a message is that of the next one.
LEMMA NextNumber ==
    ASSUME NEW i \in Nat
    PROVE  /\ successor(i % message_numbers) = (i + 1) % message_numbers
           /\ 0 % message_numbers = 0
           /\ i < message_numbers => i % message_numbers = i
<1> DEFINE m == message_numbers
           q == i \div m
           r == i % m
<1>1. m \in Nat \ {0} /\ m \in Int /\ m > 0
    BY RatchetAssumption
<1> HIDE DEF m
<1>2. i = m * q + r /\ q \in Int /\ r \in Int /\ 0 <= r /\ r < m
    BY <1>1, Division
<1> HIDE DEF q, r
<1>3. \A n \in 0..(m - 1) : n % m = n
  <2> TAKE n \in 0..(m - 1)
  <2>1. n = m * 0 + n /\ n \in Nat
      BY <1>1
  <2> QED BY <1>1, <2>1, Remainder
<1>4. CASE r + 1 < m
  <2>1. i + 1 = m * q + (r + 1) /\ i + 1 \in Nat /\ r + 1 \in 0..(m - 1)
      BY <1>1, <1>2, <1>4
  <2>2. (i + 1) % m = r + 1
      BY <1>1, <1>2, <2>1, Remainder
  <2>3. (r + 1) % m = r + 1
      BY <1>3, <2>1
  <2> QED BY <1>1, <1>3, <2>2, <2>3 DEF r, m, successor
<1>5. CASE r + 1 = m
  <2> DEFINE next == q + 1
  <2>1. next \in Int /\ i + 1 = m * next + 0 /\ i + 1 \in Nat /\ 0 \in 0..(m - 1)
      BY <1>1, <1>2, <1>5
  <2> HIDE DEF next
  <2>2. (i + 1) % m = 0
      BY <1>1, <2>1, Remainder
  <2>3. r + 1 = m * 1 + 0 /\ r + 1 \in Nat
      BY <1>1, <1>2, <1>5
  <2>4. (r + 1) % m = 0
      BY <1>1, <2>1, <2>3, Remainder
  <2> QED BY <1>1, <1>3, <2>2, <2>4 DEF r, m, successor
<1> QED BY <1>1, <1>2, <1>4, <1>5

\* A new ratchet is aligned.
LEMMA CreateAligned ==
    ASSUME NEW ours \in Name, NEW ephemeral \in Name, NEW theirs \in Name, NEW prekey \in Name
    PROVE  Aligned(create(ours, ephemeral, theirs, prekey))
<1> DEFINE role == ours[1] > theirs[1]
           triple == triple_diffie_hellman(ours, ephemeral, theirs, prekey, role)
           t == <<triple>>
           r == create(ours, ephemeral, theirs, prekey)
<1>1. role \in BOOLEAN /\ Len(t) = 1 /\ Len(<<>>) = 0 /\ Front(t) = <<>>
  <2>1. role \in BOOLEAN /\ Len(t) = 1 /\ Len(<<>>) = 0
      OBVIOUS
  <2>2. Front(t) = <<>>
    <3> DEFINE S == {triple}
               none == <<>>
    <3>1. t = Append(none, triple) /\ none \in Seq(S) /\ triple \in S
        OBVIOUS
    <3> HIDE DEF triple, t, S, none
    <3>2. Front(t) = none
        BY <3>1, FrontOfAppend
    <3> QED BY <3>2 DEF none
  <2> QED BY <2>1, <2>2
<1>2. /\ r.root_key = RootKey(t)
      /\ r.send_header_key = IF role = ALICE THEN NoKey ELSE HeaderKey(t, 1)
      /\ r.receive_header_key = IF role = ALICE THEN HeaderKey(t, 1) ELSE NoKey
      /\ r.next_send_header_key = HeaderKey(t, IF role = ALICE THEN 2 ELSE 3)
      /\ r.next_receive_header_key = HeaderKey(t, IF role = ALICE THEN 3 ELSE 2)
      /\ r.send_chain_key = IF role = ALICE THEN NoKey ELSE ChainKey(t)
      /\ r.receive_chain_key = IF role = ALICE THEN ChainKey(t) ELSE NoKey
      /\ r.our_private_ephemeral = ephemeral /\ r.our_public_ephemeral = ephemeral
      /\ r.send_message_number = 0 /\ r.receive_message_number = 0
      /\ r.ratchet_flag = role /\ r.skipped = <<>>
    BY DEF create, derive_initial_root_chain_and_header_keys
<1> HIDE DEF r, role, t
<1>3. /\ RootKey(t).transcript = t /\ ChainKey(t).transcript = t /\ ChainKey(t).index = 0
      /\ NoKey.transcript = <<>> /\ NoKey \notin ChainKeys
    BY DEF RootKey, ChainKey, NoKey, ChainKeys, KeysOf
<1>4. /\ HeaderOf(t) = HeaderKey(t, 1)
      /\ HeaderOfNext(t) = HeaderKey(t, 2)
      /\ HeaderAfterNext(t) = HeaderKey(t, 3)
    BY <1>1 DEF HeaderOf, HeaderOfNext, HeaderAfterNext
<1>5. role = TRUE \/ role = FALSE
    BY <1>1
<1>6. TurnAligned(r)
  <2>1. r.root_key.transcript = t
      BY <1>2, <1>3
  <2>2. CASE role = TRUE
      BY <1>1, <1>2, <1>3, <1>4, <2>1, <2>2 DEF TurnAligned, ALICE
  <2>3. CASE role = FALSE
      BY <1>1, <1>2, <1>3, <1>4, <2>1, <2>3 DEF TurnAligned, ALICE
  <2> QED BY <1>5, <2>2, <2>3
<1>7. HeadersAligned(r)
  <2>1. ToSet(r.skipped) = {}
      BY <1>2 DEF ToSet
  <2>2. CASE role = TRUE
      BY <1>2, <1>3, <1>4, <2>1, <2>2 DEF HeadersAligned, ALICE
  <2>3. CASE role = FALSE
      BY <1>2, <1>3, <1>4, <2>1, <2>3 DEF HeadersAligned, ALICE
  <2> QED BY <1>5, <2>2, <2>3
<1>8. Numbered(r)
  <2>1. 0 % message_numbers = 0
      BY NextNumber
  <2> QED BY <1>2, <1>3, <2>1 DEF Numbered
<1>9. Aligned(r)
    BY <1>6, <1>7, <1>8 DEF Aligned
<1> QED BY <1>9 DEF r

\* Sending keeps a ratchet aligned, and the packet carries the header key of its
\* chain and the number of its message.
LEMMA SendAligned ==
    ASSUME NEW r, RatchetOK(r), Aligned(r), NEW fresh \in Name, NEW data,
           SendData(r, fresh, data)
    PROVE  /\ Aligned(data.ratchet)
           /\ data.header_key = HeaderOf(data.message_key.transcript)
           /\ data.message_number = data.message_key.index % message_numbers
<1> DEFINE s == data.ratchet
           key == data.message_key
           t == r.root_key.transcript
           theirs == r.their_public_ephemeral
           x == diffie_hellman(fresh, fresh, theirs, r.role)
           u == Append(t, x)
<1>1. /\ RatchetTyped(r) /\ t \in Transcripts /\ theirs \in Name /\ r.role \in BOOLEAN
      /\ r.ratchet_flag \in BOOLEAN
    BY DEF RatchetOK, RatchetTyped, RootKeys, KeysOf
<1>2. x \in Secret
    BY <1>1, AgreementIsSecret DEF Secret
<1>3. /\ Len(u) = Len(t) + 1 /\ Front(u) = t
      /\ HeaderOf(u) = HeaderOfNext(t)
      /\ HeaderOfNext(u) = HeaderAfterNext(t)
      /\ HeaderAfterNext(u) = HeaderKey(u, 1)
  <2> HIDE DEF x, t
  <2> QED BY <1>1, <1>2, HeadersMoveUp
<1>4. NextTranscript(r, fresh, fresh, theirs) = u
    BY DEF NextTranscript
<1> HIDE DEF u, x, theirs, key, s
<1>5. /\ s.ratchet_flag = FALSE
      /\ SameReceiver(r, s)
      /\ data.header_key = s.send_header_key
      /\ key \in MessageKeys
      /\ s.send_chain_key \in ChainKeys
      /\ key.transcript = s.send_chain_key.transcript
      /\ s.send_chain_key.index = key.index + 1
      /\ s.send_message_number = successor(data.message_number)
    BY DEF SendData, s, key
<1>6. r.ratchet_flag = TRUE =>
         /\ s.root_key = RootKey(u)
         /\ key.transcript = u /\ key.index = 0
         /\ s.send_header_key = r.next_send_header_key
         /\ s.next_send_header_key = HeaderKey(u, 1)
         /\ s.our_private_ephemeral = fresh /\ s.our_public_ephemeral = fresh
         /\ data.message_number = 0
    BY <1>4 DEF SendData, s, key, theirs
<1>7. r.ratchet_flag = FALSE =>
         /\ s.root_key = r.root_key
         /\ r.send_chain_key \in ChainKeys
         /\ key.transcript = r.send_chain_key.transcript
         /\ key.index = r.send_chain_key.index
         /\ s.send_header_key = r.send_header_key
         /\ s.next_send_header_key = r.next_send_header_key
         /\ s.our_private_ephemeral = r.our_private_ephemeral
         /\ s.our_public_ephemeral = r.our_public_ephemeral
         /\ data.message_number = r.send_message_number
    BY DEF SendData, s, key
<1>8. /\ s.receive_chain_key = r.receive_chain_key
      /\ s.next_receive_header_key = r.next_receive_header_key
      /\ s.receive_header_key = r.receive_header_key
      /\ s.receive_message_number = r.receive_message_number
      /\ s.skipped = r.skipped
    BY <1>5 DEF SameReceiver
<1>9. TurnAligned(r) /\ HeadersAligned(r) /\ Numbered(r)
    BY DEF Aligned
<1>10. TurnAligned(s) /\ data.header_key = HeaderOf(key.transcript)
  <2>1. CASE r.ratchet_flag = TRUE
    <3>1. /\ r.receive_chain_key.transcript = t
          /\ r.next_send_header_key = HeaderOfNext(t)
          /\ r.next_receive_header_key = HeaderAfterNext(t)
        BY <1>9, <2>1 DEF TurnAligned
    <3>2. s.root_key = RootKey(u) /\ s.root_key.transcript = u
        BY <1>6, <2>1 DEF RootKey
    <3>3. /\ s.send_chain_key.transcript = u
          /\ s.receive_chain_key.transcript = Front(u)
          /\ Len(u) = Len(s.receive_chain_key.transcript) + 1
          /\ s.our_private_ephemeral = s.our_public_ephemeral
          /\ s.next_receive_header_key = HeaderOfNext(u)
          /\ s.next_send_header_key = HeaderAfterNext(u)
          /\ data.header_key = HeaderOf(u)
        BY <1>3, <1>5, <1>6, <1>8, <2>1, <3>1
    <3>4. TurnAligned(s)
        BY <1>5, <3>2, <3>3 DEF TurnAligned
    <3> QED BY <1>6, <2>1, <3>3, <3>4
  <2>2. CASE r.ratchet_flag = FALSE
      BY <1>5, <1>7, <1>8, <1>9, <2>2 DEF TurnAligned, HeadersAligned
  <2> QED BY <1>1, <2>1, <2>2
<1>11. data.message_number = key.index % message_numbers /\ key.index \in Nat
  <2>1. key.index \in Nat
      BY <1>5 DEF MessageKeys, KeysOf
  <2>2. 0 % message_numbers = 0
      BY NextNumber
  <2> QED BY <1>1, <1>6, <1>7, <1>9, <2>1, <2>2 DEF Numbered
<1>12. Numbered(s)
  <2>1. successor(data.message_number) = (key.index + 1) % message_numbers
      BY <1>11, NextNumber
  <2> QED BY <1>5, <1>8, <1>9, <2>1 DEF Numbered
<1>13. HeadersAligned(s)
    BY <1>5, <1>8, <1>9, <1>10 DEF HeadersAligned
<1> QED BY <1>10, <1>11, <1>12, <1>13 DEF Aligned, s, key

\* What the peer's ratchet depends on has not changed
SameTurn(r, s) ==
    /\ s.root_key = r.root_key
    /\ s.ratchet_flag = r.ratchet_flag
    /\ s.our_public_ephemeral = r.our_public_ephemeral
    /\ s.their_public_ephemeral = r.their_public_ephemeral
    /\ s.role = r.role

\* The packet has started a new receiving chain
NewTurn(r, s, packet) ==
    LET t == ReceivingTranscript(r, packet.ephemeral)
    IN  /\ r.ratchet_flag = FALSE
        /\ packet.header_key = r.next_receive_header_key
        /\ packet.message_key.transcript = t
        /\ s.root_key.transcript = t
        /\ s.ratchet_flag = TRUE
        /\ s.our_public_ephemeral = r.our_public_ephemeral
        /\ s.their_public_ephemeral = packet.ephemeral
        /\ s.role = r.role

\* A ratchet that has all but its receiving chain and its skipped keys from an
\* aligned one.
LEMMA StaysAligned ==
    ASSUME NEW r, Aligned(r), NEW s,
           s.root_key = r.root_key, s.ratchet_flag = r.ratchet_flag,
           s.our_private_ephemeral = r.our_private_ephemeral,
           s.our_public_ephemeral = r.our_public_ephemeral,
           s.next_send_header_key = r.next_send_header_key,
           s.next_receive_header_key = r.next_receive_header_key,
           s.send_header_key = r.send_header_key,
           s.receive_chain_key \in ChainKeys => s.receive_header_key = r.receive_header_key,
           s.send_message_number = r.send_message_number,
           s.send_chain_key.transcript = r.send_chain_key.transcript,
           s.send_chain_key.index = r.send_chain_key.index,
           s.receive_chain_key.transcript = r.receive_chain_key.transcript,
           s.send_chain_key \in ChainKeys => r.send_chain_key \in ChainKeys,
           s.receive_chain_key \in ChainKeys => r.receive_chain_key \in ChainKeys,
           s.receive_chain_key \in ChainKeys =>
              s.receive_message_number = s.receive_chain_key.index % message_numbers,
           \A k \in ToSet(s.skipped) : k.header_key = HeaderOf(k.message_key.transcript)
    PROVE  Aligned(s)
<1>1. TurnAligned(s)
    BY DEF Aligned, TurnAligned
<1>2. HeadersAligned(s)
    BY DEF Aligned, HeadersAligned
<1>3. Numbered(s)
    BY DEF Aligned, Numbered
<1> QED BY <1>1, <1>2, <1>3 DEF Aligned

\* The key that a skipped key opened is gone, the rest is as it was.
LEMMA AlignedBySkippedKey ==
    ASSUME NEW r, RatchetOK(r), Aligned(r), NEW packet, NEW result,
           NEW i \in DOMAIN r.skipped, BySkippedKey(r, packet, result, i)
    PROVE  Aligned(result.ratchet) /\ SameTurn(r, result.ratchet)
<1> DEFINE s == result.ratchet
<1>1. s = [r EXCEPT !.skipped = remove(@, i)]
    BY DEF BySkippedKey
<1>2. /\ \A f \in Fields \ {"skipped"} : s[f] = r[f]
      /\ ToSet(s.skipped) = ToSet(r.skipped) \ {r.skipped[i]}
    BY <1>1, UseKey
<1> HIDE DEF s
<1>3. /\ s.root_key = r.root_key /\ s.ratchet_flag = r.ratchet_flag
      /\ s.our_private_ephemeral = r.our_private_ephemeral
      /\ s.our_public_ephemeral = r.our_public_ephemeral
      /\ s.their_public_ephemeral = r.their_public_ephemeral
      /\ s.role = r.role
      /\ s.next_send_header_key = r.next_send_header_key
      /\ s.next_receive_header_key = r.next_receive_header_key
      /\ s.send_header_key = r.send_header_key
      /\ s.receive_header_key = r.receive_header_key
      /\ s.send_message_number = r.send_message_number
      /\ s.receive_message_number = r.receive_message_number
      /\ s.send_chain_key = r.send_chain_key
      /\ s.receive_chain_key = r.receive_chain_key
    BY <1>2 DEF Fields
<1>4. /\ s.receive_chain_key \in ChainKeys =>
            s.receive_message_number = s.receive_chain_key.index % message_numbers
      /\ \A k \in ToSet(s.skipped) : k.header_key = HeaderOf(k.message_key.transcript)
    BY <1>2, <1>3 DEF Aligned, Numbered, HeadersAligned
<1>5. Aligned(s)
    BY <1>3, <1>4, StaysAligned
<1>6. SameTurn(r, s)
    BY <1>3 DEF SameTurn
<1> QED BY <1>5, <1>6 DEF s

\* Nothing that a rejected packet leaves behind matters.
LEMMA AlignedByNothing ==
    ASSUME NEW r, Aligned(r), NEW s, Rejected(r, s)
    PROVE  Aligned(s) /\ SameTurn(r, s)
<1>1. SameKeys(r, s)
    BY DEF Rejected
<1>2. /\ s.root_key = r.root_key /\ s.ratchet_flag = r.ratchet_flag
      /\ s.our_private_ephemeral = r.our_private_ephemeral
      /\ s.our_public_ephemeral = r.our_public_ephemeral
      /\ s.their_public_ephemeral = r.their_public_ephemeral
      /\ s.role = r.role
      /\ s.next_send_header_key = r.next_send_header_key
      /\ s.next_receive_header_key = r.next_receive_header_key
      /\ s.send_header_key = r.send_header_key
      /\ s.receive_header_key = r.receive_header_key
      /\ s.send_message_number = r.send_message_number
      /\ s.receive_message_number = r.receive_message_number
      /\ s.send_chain_key = r.send_chain_key
      /\ s.receive_chain_key = r.receive_chain_key
      /\ s.skipped = r.skipped
    BY <1>1 DEF SameKeys
<1>3. /\ s.receive_chain_key \in ChainKeys =>
            s.receive_message_number = s.receive_chain_key.index % message_numbers
      /\ \A k \in ToSet(s.skipped) : k.header_key = HeaderOf(k.message_key.transcript)
    BY <1>2 DEF Aligned, Numbered, HeadersAligned
<1>4. Aligned(s)
    BY <1>2, <1>3, StaysAligned
<1> QED BY <1>2, <1>4 DEF SameTurn

\* The current chain has moved on.
LEMMA AlignedByCurrentChain ==
    ASSUME NEW r, RatchetOK(r), Aligned(r), NEW packet, PacketTyped(packet),
           packet.message_number = packet.message_key.index % message_numbers,
           NEW result, NEW now \in Nat, ByCurrentChain(r, packet, result, now)
    PROVE  Aligned(result.ratchet) /\ SameTurn(r, result.ratchet)
<1> DEFINE s == result.ratchet
           number == packet.message_number
           count == Skip(r.receive_message_number, number)
           ck == r.receive_chain_key
           hk == r.receive_header_key
           staged == StagedKeys(hk, ck, count, now)
<1>1. /\ hk \in HeaderKeys
      /\ packet.message_key = deriveMessageKey(advanced(ck, count))
      /\ OpenedCurrent(r, s, number, now)
    BY DEF ByCurrentChain
<1>2. number \in MessageNumbers
    BY DEF PacketTyped
<1> HIDE DEF s, number
<1>3. PassedCurrent(r, s, number, now)
    BY <1>1, <1>2, OpenedCurrentOK
<1>4. /\ ck \in ChainKeys /\ s.receive_chain_key \in ChainKeys
      /\ s.receive_chain_key.transcript = ck.transcript
      /\ s.receive_chain_key.index = ck.index + count + 1
      /\ packet.message_key.index = ck.index + count
      /\ ToSet(s.skipped) \subseteq ToSet(r.skipped) \union ToSet(staged)
    BY <1>1, <1>3 DEF PassedCurrent
<1>5. count \in Nat /\ ck.index \in Nat
  <2>1. number \in Nat /\ r.receive_message_number \in Nat
      BY <1>2, RatchetAssumption DEF RatchetOK, RatchetTyped, MessageNumbers
  <2> QED BY <1>4, <2>1, SkipLimit DEF ChainKeys, KeysOf
<1>6. /\ s.root_key = r.root_key /\ s.ratchet_flag = r.ratchet_flag
      /\ s.our_private_ephemeral = r.our_private_ephemeral
      /\ s.our_public_ephemeral = r.our_public_ephemeral
      /\ s.their_public_ephemeral = r.their_public_ephemeral
      /\ s.role = r.role
      /\ s.next_send_header_key = r.next_send_header_key
      /\ s.next_receive_header_key = r.next_receive_header_key
      /\ s.send_header_key = r.send_header_key
      /\ s.receive_header_key = hk
      /\ s.send_message_number = r.send_message_number
      /\ s.send_chain_key = r.send_chain_key
      /\ s.receive_message_number = successor(number)
    BY <1>1 DEF OpenedCurrent
<1>7. s.receive_message_number = s.receive_chain_key.index % message_numbers
  <2> DEFINE i == ck.index + count
  <2>1. i \in Nat /\ number = i % message_numbers
      BY <1>4, <1>5 DEF number
  <2> HIDE DEF i
  <2>2. successor(number) = (i + 1) % message_numbers
      BY <2>1, NextNumber
  <2> QED BY <1>4, <1>6, <2>2 DEF i
<1>8. \A k \in ToSet(s.skipped) : k.header_key = HeaderOf(k.message_key.transcript)
  <2>1. hk = HeaderOf(ck.transcript)
      BY <1>4 DEF Aligned, HeadersAligned
  <2>2. \A k \in ToSet(staged) : k.header_key = hk /\ k.message_key.transcript = ck.transcript
    <3>1. AreStaged(staged, hk, ck, count, now)
        BY <1>1, <1>4, <1>5, StagedKeysAre
    <3> HIDE DEF staged
    <3> QED BY <3>1, Vector DEF AreStaged
  <2>3. \A k \in ToSet(r.skipped) : k.header_key = HeaderOf(k.message_key.transcript)
      BY DEF Aligned, HeadersAligned
  <2> HIDE DEF staged, hk, ck
  <2> QED BY <1>4, <2>1, <2>2, <2>3
<1> HIDE DEF ck, hk, staged, count
<1>9. s.receive_chain_key.transcript = r.receive_chain_key.transcript
      /\ s.receive_header_key = r.receive_header_key
      /\ r.receive_chain_key \in ChainKeys
    BY <1>4, <1>6 DEF ck, hk
<1>10. Aligned(s)
    BY <1>6, <1>7, <1>8, <1>9, StaysAligned
<1>11. SameTurn(r, s)
    BY <1>6 DEF SameTurn
<1> QED BY <1>10, <1>11 DEF s

\* A new chain has started.
LEMMA AlignedByNextChain ==
    ASSUME NEW r, RatchetOK(r), Aligned(r), NEW packet, PacketTyped(packet),
           packet.message_number = packet.message_key.index % message_numbers,
           NEW result, NEW now \in Nat, ByNextChain(r, packet, result, now)
    PROVE  Aligned(result.ratchet) /\ NewTurn(r, result.ratchet, packet)
<1> DEFINE s == result.ratchet
           number == packet.message_number
           previous == packet.previous_message_number
           ephemeral == packet.ephemeral
           key == packet.message_key
           t == r.root_key.transcript
           x == diffie_hellman(r.our_private_ephemeral, r.our_public_ephemeral,
                               ephemeral, r.role)
           u == Append(t, x)
           count == Skip(0, number)
           rest == RestOfChain(r, previous, now)
           new == StagedKeys(r.next_receive_header_key,
                             ChainKey(ReceivingTranscript(r, ephemeral)), count, now)
<1>1. /\ number \in MessageNumbers /\ previous \in MessageNumbers /\ ephemeral \in Name
      /\ key.index \in Nat
    BY DEF PacketTyped, MessageKeys, KeysOf
<1>2. /\ r.ratchet_flag = FALSE
      /\ packet.header_key = r.next_receive_header_key
      /\ key = deriveMessageKey(advanced(ChainKey(ReceivingTranscript(r, ephemeral)), count))
      /\ r.receive_chain_key \in ChainKeys =>
            previous <= r.receive_message_number + maximum_skipped_messages
      /\ OpenedNext(r, s, ephemeral, number, previous, now)
    BY DEF ByNextChain
<1>3. /\ t \in Transcripts /\ r.role \in BOOLEAN
      /\ r.our_private_ephemeral \in Name /\ r.our_public_ephemeral \in Name
    BY DEF RatchetOK, RatchetTyped, RootKeys, KeysOf
<1>4. x \in Secret
    BY <1>1, <1>3, AgreementIsSecret DEF Secret
<1>5. ReceivingTranscript(r, ephemeral) = u
    BY DEF ReceivingTranscript, NextTranscript
<1> HIDE DEF x, t, s, number, previous, ephemeral
<1>6. /\ Len(u) = Len(t) + 1
      /\ HeaderOf(u) = HeaderOfNext(t)
      /\ HeaderOfNext(u) = HeaderAfterNext(t)
      /\ HeaderAfterNext(u) = HeaderKey(u, 1)
    BY <1>3, <1>4, HeadersMoveUp
<1> HIDE DEF u
<1>7. PassedNext(r, s, ephemeral, number, previous, now)
    BY <1>1, <1>2, OpenedNextOK
<1>8. StagedOfBoth(r, ephemeral, number, previous, now)
    BY <1>1, <1>2, NextStagedAre
<1> HIDE DEF key
<1>9. /\ s.receive_chain_key \in ChainKeys
      /\ s.receive_chain_key.transcript = u
      /\ s.receive_chain_key.index = count + 1
      /\ key.transcript = u /\ key.index = count
      /\ ToSet(s.skipped) \subseteq ToSet(r.skipped) \union
            ToSet(StagedForNext(r, ephemeral, number, previous, now))
    BY <1>2, <1>5, <1>7 DEF PassedNext
<1>10. /\ ToSet(StagedForNext(r, ephemeral, number, previous, now))
             = ToSet(rest) \union ToSet(new)
       /\ \A k \in ToSet(rest) :
             /\ r.receive_chain_key \in ChainKeys
             /\ k.header_key = r.receive_header_key
             /\ k.message_key.transcript = r.receive_chain_key.transcript
       /\ \A k \in ToSet(new) :
             k.header_key = r.next_receive_header_key /\ k.message_key.transcript = u
    BY <1>5, <1>8 DEF StagedOfBoth
<1> HIDE DEF rest, new
<1>11. /\ s.root_key = RootKey(u)
       /\ s.send_header_key = r.send_header_key
       /\ s.receive_header_key = r.next_receive_header_key
       /\ s.next_send_header_key = r.next_send_header_key
       /\ s.next_receive_header_key = HeaderKey(u, 1)
       /\ s.send_chain_key = r.send_chain_key
       /\ s.our_public_ephemeral = r.our_public_ephemeral
       /\ s.their_public_ephemeral = ephemeral
       /\ s.send_message_number = r.send_message_number
       /\ s.ratchet_flag = TRUE
       /\ s.role = r.role
       /\ s.receive_message_number = successor(number)
    BY <1>2, <1>5 DEF OpenedNext
<1>12. TurnAligned(r) /\ HeadersAligned(r) /\ Numbered(r)
    BY DEF Aligned
<1>13. /\ r.send_chain_key.transcript = t
       /\ r.next_receive_header_key = HeaderOfNext(t)
       /\ r.next_send_header_key = HeaderAfterNext(t)
    BY <1>2, <1>12 DEF TurnAligned, t
<1>14. s.root_key.transcript = u
    BY <1>11 DEF RootKey
<1>15. TurnAligned(s)
    BY <1>6, <1>9, <1>11, <1>13, <1>14 DEF TurnAligned
<1>16. HeadersAligned(s)
  <2>1. ASSUME NEW k \in ToSet(s.skipped)
        PROVE  k.header_key = HeaderOf(k.message_key.transcript)
    <3>1. CASE k \in ToSet(r.skipped)
        BY <1>12, <3>1 DEF HeadersAligned
    <3>2. CASE k \in ToSet(rest)
        BY <1>10, <1>12, <3>2 DEF HeadersAligned
    <3>3. CASE k \in ToSet(new)
        BY <1>6, <1>10, <1>13, <3>3
    <3> QED BY <1>9, <1>10, <2>1, <3>1, <3>2, <3>3
  <2>2. s.receive_header_key = HeaderOf(s.receive_chain_key.transcript)
      BY <1>6, <1>9, <1>11, <1>13
  <2>3. s.send_chain_key \in ChainKeys =>
           s.send_header_key = HeaderOf(s.send_chain_key.transcript)
      BY <1>11, <1>12 DEF HeadersAligned
  <2> QED BY <2>1, <2>2, <2>3 DEF HeadersAligned
<1>17. Numbered(s)
  <2>1. number = key.index % message_numbers
      BY DEF number, key
  <2>2. successor(number) = (key.index + 1) % message_numbers
      BY <1>1, <2>1, NextNumber
  <2>3. s.receive_message_number = s.receive_chain_key.index % message_numbers
      BY <1>9, <1>11, <2>2
  <2> QED BY <1>11, <1>12, <2>3 DEF Numbered
<1>18. NewTurn(r, s, packet)
    BY <1>2, <1>5, <1>9, <1>11, <1>14 DEF NewTurn, key, ephemeral
<1> QED BY <1>15, <1>16, <1>17, <1>18 DEF Aligned, s

\* Receiving a packet keeps a ratchet aligned.
LEMMA ReceiveAligned ==
    ASSUME NEW r, RatchetOK(r), Aligned(r), NEW packet, PacketTyped(packet),
           packet.message_number = packet.message_key.index % message_numbers,
           NEW result, NEW now \in Nat, Outcome(r, packet, result, now)
    PROVE  /\ Aligned(result.ratchet)
           /\ SameTurn(r, result.ratchet) \/ NewTurn(r, result.ratchet, packet)
<1>1. ASSUME NEW i \in DOMAIN r.skipped, BySkippedKey(r, packet, result, i)
      PROVE  Aligned(result.ratchet) /\ SameTurn(r, result.ratchet)
    BY <1>1, AlignedBySkippedKey
<1>2. ASSUME ByCurrentChain(r, packet, result, now)
      PROVE  Aligned(result.ratchet) /\ SameTurn(r, result.ratchet)
    BY <1>2, AlignedByCurrentChain
<1>3. ASSUME ByNextChain(r, packet, result, now)
      PROVE  Aligned(result.ratchet) /\ NewTurn(r, result.ratchet, packet)
    BY <1>3, AlignedByNextChain
<1>4. ASSUME ByNothing(r, result)
      PROVE  Aligned(result.ratchet) /\ SameTurn(r, result.ratchet)
    BY <1>4, AlignedByNothing DEF ByNothing
<1> QED BY <1>1, <1>2, <1>3, <1>4 DEF Outcome

\* So does a restart from a backup.
LEMMA ExportAligned ==
    ASSUME NEW r, RatchetOK(r), Aligned(r)
    PROVE  Aligned(exportAndImport(r)) /\ SameTurn(r, exportAndImport(r))
<1> DEFINE s == exportAndImport(r)
<1>1. /\ \A f \in Fields \ {"receive_header_key", "send_chain_key",
                            "receive_chain_key"} : s[f] = r[f]
      /\ s.receive_chain_key.transcript = r.receive_chain_key.transcript
      /\ s.receive_chain_key.index = r.receive_chain_key.index
      /\ s.send_chain_key.transcript = r.send_chain_key.transcript
      /\ s.send_chain_key.index = r.send_chain_key.index
      /\ r.receive_chain_key \in ChainKeys <=> s.receive_chain_key \in ChainKeys
      /\ r.send_chain_key \in ChainKeys <=> s.send_chain_key \in ChainKeys
      /\ r.receive_header_key \in HeaderKeys => s.receive_header_key = r.receive_header_key
    BY ExportAndImport
<1> HIDE DEF s
<1>2. /\ s.root_key = r.root_key /\ s.ratchet_flag = r.ratchet_flag
      /\ s.our_private_ephemeral = r.our_private_ephemeral
      /\ s.our_public_ephemeral = r.our_public_ephemeral
      /\ s.their_public_ephemeral = r.their_public_ephemeral
      /\ s.role = r.role
      /\ s.next_send_header_key = r.next_send_header_key
      /\ s.next_receive_header_key = r.next_receive_header_key
      /\ s.send_header_key = r.send_header_key
      /\ s.send_message_number = r.send_message_number
      /\ s.receive_message_number = r.receive_message_number
      /\ s.skipped = r.skipped
    BY <1>1 DEF Fields
<1>3. s.receive_chain_key \in ChainKeys => s.receive_header_key = r.receive_header_key
    BY <1>1 DEF RatchetOK, ReceiveChainOK
<1>4. /\ s.receive_chain_key \in ChainKeys =>
            s.receive_message_number = s.receive_chain_key.index % message_numbers
      /\ \A k \in ToSet(s.skipped) : k.header_key = HeaderOf(k.message_key.transcript)
    BY <1>1, <1>2 DEF Aligned, Numbered, HeadersAligned
<1>5. Aligned(s)
    BY <1>1, <1>2, <1>3, <1>4, StaysAligned
<1> QED BY <1>2, <1>5 DEF SameTurn, s

-----------------------------------------------------------------------------
(***************************************************************************)
(* Two ratchets                                                            *)
(***************************************************************************)

\* Both have the same root key, and "me" is to start the next chain
Synced(me, peer) ==
    /\ me.ratchet_flag = TRUE /\ peer.ratchet_flag = FALSE
    /\ me.root_key.transcript = peer.root_key.transcript
    /\ me.their_public_ephemeral = peer.our_public_ephemeral

\* "me" has started a chain that "peer" has not received anything on
Ahead(me, peer) ==
    /\ me.ratchet_flag = FALSE /\ peer.ratchet_flag = FALSE
    /\ me.root_key.transcript
          = Append(peer.root_key.transcript,
                   diffie_hellman(me.our_public_ephemeral, me.our_public_ephemeral,
                                  peer.our_public_ephemeral, me.role))

InStep(a, b) == Synced(a, b) \/ Synced(b, a) \/ Ahead(a, b) \/ Ahead(b, a)

\* What a sent packet tells about the ratchet r that it was sent from: the header
\* key and the message number are those of its message key, and a packet of the
\* current chain has the current public ephemeral key
OnChain(packet, r) ==
    LET t == packet.message_key.transcript
    IN  /\ packet.header_key = HeaderOf(t)
        /\ packet.message_number = packet.message_key.index % message_numbers
        /\ Len(t) = Len(r.send_chain_key.transcript) =>
              /\ t = r.send_chain_key.transcript
              /\ packet.ephemeral = r.our_public_ephemeral

\* Who has sent a prekey packet is in step with who receives, or will receive, it
PrekeyPacketInStep(ratchets, packet) ==
    LET p == Peer(packet.from)
    IN  packet.prekey_metadata # NoPrekeyMetadata =>
           InStep(ratchets[packet.from], receivingRatchet(p, ratchets[p], packet))

SyncInv ==
    /\ \A p \in Parties : HasConversation(p) => Aligned(ratchet[p])
    /\ \A packet \in sent :
          /\ OnChain(packet, ratchet[packet.from])
          /\ PrekeyPacketInStep(ratchet, packet)

\* Both sides of a Diffie Hellman get the same secret, also of the triple one.
LEMMA AgreementIsSymmetric ==
    ASSUME NEW a, NEW b, NEW c, NEW d, NEW role \in BOOLEAN
    PROVE  /\ diffie_hellman(a, a, b, role) = diffie_hellman(b, b, a, ~role)
           /\ triple_diffie_hellman(a, c, b, d, role)
                 = triple_diffie_hellman(b, d, a, c, ~role)
<1>1. \A x, y : diffie_hellman(x, x, y, role) = diffie_hellman(y, y, x, ~role)
  <2> TAKE x, y
  <2>1. {x, y} = {y, x}
      OBVIOUS
  <2>2. CASE role = TRUE
      BY <2>1, <2>2 DEF diffie_hellman, ALICE
  <2>3. CASE role = FALSE
      BY <2>1, <2>3 DEF diffie_hellman, ALICE
  <2> QED BY <2>2, <2>3
<1>2. triple_diffie_hellman(a, c, b, d, role) = triple_diffie_hellman(b, d, a, c, ~role)
  <2>1. /\ diffie_hellman(a, a, d, role) = diffie_hellman(d, d, a, ~role)
        /\ diffie_hellman(c, c, b, role) = diffie_hellman(b, b, c, ~role)
        /\ diffie_hellman(c, c, d, role) = diffie_hellman(d, d, c, ~role)
      BY <1>1
  <2>2. CASE role = TRUE
      BY <2>1, <2>2 DEF triple_diffie_hellman, ALICE
  <2>3. CASE role = FALSE
      BY <2>1, <2>3 DEF triple_diffie_hellman, ALICE
  <2> QED BY <2>2, <2>3
<1> QED BY <1>1, <1>2

\* The ratchets that both parties create from the same four keys are in step.
LEMMA CreateInStep ==
    ASSUME NEW p \in Parties, NEW ours \in Name, NEW theirs \in Name
    PROVE  InStep(create(Identity(p), ours, Identity(Peer(p)), theirs),
                  create(Identity(Peer(p)), theirs, Identity(p), ours))
<1> DEFINE q == Peer(p)
           role == Identity(p)[1] > Identity(q)[1]
           other == Identity(q)[1] > Identity(p)[1]
           r == create(Identity(p), ours, Identity(q), theirs)
           s == create(Identity(q), theirs, Identity(p), ours)
           t == <<triple_diffie_hellman(Identity(p), ours, Identity(q), theirs, role)>>
           u == <<triple_diffie_hellman(Identity(q), theirs, Identity(p), ours, other)>>
<1>1. Identity(p)[1] = p /\ Identity(q)[1] = 3 - p
    BY DEF Identity, Peer
<1>2. role \in BOOLEAN /\ other = ~role
    BY <1>1 DEF Parties
<1>3. /\ r.root_key.transcript = t /\ r.ratchet_flag = role
      /\ r.our_public_ephemeral = ours /\ r.their_public_ephemeral = theirs
      /\ s.root_key.transcript = u /\ s.ratchet_flag = other
      /\ s.our_public_ephemeral = theirs /\ s.their_public_ephemeral = ours
    BY DEF create, derive_initial_root_chain_and_header_keys, RootKey
<1> HIDE DEF role, other
<1>4. t = u
    BY <1>2, AgreementIsSymmetric
<1> HIDE DEF r, s, t, u
<1>5. CASE role = TRUE
  <2>1. Synced(r, s)
      BY <1>2, <1>3, <1>4, <1>5 DEF Synced
  <2> QED BY <2>1 DEF InStep, r, s, q
<1>6. CASE role = FALSE
  <2>1. Synced(s, r)
      BY <1>2, <1>3, <1>4, <1>6 DEF Synced
  <2> QED BY <2>1 DEF InStep, r, s, q
<1> QED BY <1>2, <1>5, <1>6

\* Nothing that the peer depends on has changed.
LEMMA StaysInStep ==
    ASSUME NEW r, NEW s, NEW peer, SameTurn(r, s), InStep(r, peer)
    PROVE  InStep(s, peer)
<1>1. /\ s.root_key = r.root_key /\ s.ratchet_flag = r.ratchet_flag
      /\ s.our_public_ephemeral = r.our_public_ephemeral
      /\ s.their_public_ephemeral = r.their_public_ephemeral
      /\ s.role = r.role
    BY DEF SameTurn
<1>2. /\ Synced(r, peer) => Synced(s, peer)
      /\ Synced(peer, r) => Synced(peer, s)
      /\ Ahead(r, peer) => Ahead(s, peer)
      /\ Ahead(peer, r) => Ahead(peer, s)
    BY <1>1 DEF Synced, Ahead
<1> QED BY <1>2 DEF InStep

\* Sending keeps two ratchets in step: the first message of a new chain puts its
\* sender ahead.
LEMMA SendInStep ==
    ASSUME NEW r, NEW peer, InStep(r, peer), r.ratchet_flag \in BOOLEAN,
           NEW fresh, NEW data, SendData(r, fresh, data)
    PROVE  InStep(data.ratchet, peer)
<1> DEFINE s == data.ratchet
           t == NextTranscript(r, fresh, fresh, r.their_public_ephemeral)
<1>1. /\ s.ratchet_flag = FALSE /\ SameReceiver(r, s)
      /\ r.ratchet_flag = TRUE =>
            /\ s.root_key = RootKey(t)
            /\ s.our_public_ephemeral = fresh
      /\ r.ratchet_flag = FALSE =>
            /\ s.root_key = r.root_key
            /\ s.our_public_ephemeral = r.our_public_ephemeral
    BY DEF SendData
<1>2. s.role = r.role /\ s.their_public_ephemeral = r.their_public_ephemeral
    BY <1>1 DEF SameReceiver
<1> HIDE DEF s
<1>3. CASE r.ratchet_flag = TRUE
  <2>1. Synced(r, peer)
      BY <1>3 DEF InStep, Synced, Ahead
  <2>2. s.root_key.transcript = t
      BY <1>1, <1>3 DEF RootKey
  <2>3. t = Append(peer.root_key.transcript,
                   diffie_hellman(fresh, fresh, peer.our_public_ephemeral, r.role))
      BY <2>1 DEF NextTranscript, Synced
  <2> HIDE DEF t
  <2>4. Ahead(s, peer)
      BY <1>1, <1>2, <1>3, <2>1, <2>2, <2>3 DEF Ahead, Synced
  <2> QED BY <2>4 DEF InStep, s
<1>4. CASE r.ratchet_flag = FALSE
  <2>1. SameTurn(r, s)
      BY <1>1, <1>2, <1>4 DEF SameTurn
  <2>2. InStep(s, peer)
      BY <2>1, StaysInStep
  <2> QED BY <2>2 DEF s
<1> QED BY <1>3, <1>4

\* A packet whose chain is the one that follows the receiver's root key: the sender
\* is ahead, and the packet is one of its current chain.
LEMMA SenderIsAhead ==
    ASSUME NEW r, RatchetOK(r), NEW sender, RatchetOK(sender), Aligned(sender),
           InStep(r, sender), r.ratchet_flag = FALSE,
           NEW packet, packet.message_key \in MessageKeys,
           OnChain(packet, sender), Passed(sender.send_chain_key, packet.message_key),
           Len(packet.message_key.transcript) = Len(r.root_key.transcript) + 1
    PROVE  /\ Ahead(sender, r)
           /\ packet.message_key.transcript = sender.root_key.transcript
           /\ packet.ephemeral = sender.our_public_ephemeral
<1> DEFINE key == packet.message_key
           t == r.root_key.transcript
           u == sender.root_key.transcript
           v == sender.send_chain_key.transcript
<1>1. RatchetTyped(r) /\ RatchetTyped(sender) /\ TurnAligned(sender)
    BY DEF RatchetOK, Aligned
<1>2. Len(t) \in Nat /\ Len(u) \in Nat /\ Len(v) \in Nat
    BY <1>1, Lengths
<1>3. Len(key.transcript) <= Len(v)
    BY DEF Passed
<1>4. ~Synced(r, sender)
    BY DEF Synced
<1>5. ~Synced(sender, r)
  <2> SUFFICES ASSUME Synced(sender, r) PROVE FALSE
      OBVIOUS
  <2>1. u = t /\ Len(u) = Len(v) + 1
      BY <1>1 DEF Synced, TurnAligned
  <2> HIDE DEF t, u, v
  <2> QED BY <1>2, <1>3, <2>1 DEF t
<1>6. ~Ahead(r, sender)
  <2> SUFFICES ASSUME Ahead(r, sender) PROVE FALSE
      OBVIOUS
  <2> DEFINE x == diffie_hellman(r.our_public_ephemeral, r.our_public_ephemeral,
                                 sender.our_public_ephemeral, r.role)
  <2>1. t = Append(u, x) /\ v = u
      BY <1>1 DEF Ahead, TurnAligned
  <2>2. x \in Secret
    <3>1. r.our_public_ephemeral \in Name /\ sender.our_public_ephemeral \in Name
          /\ r.role \in BOOLEAN
        BY <1>1 DEF RatchetTyped
    <3>2. x \in Agreement
        BY <3>1, AgreementIsSecret
    <3> QED BY <3>2 DEF Secret
  <2>3. u \in Transcripts
      BY <1>1 DEF RatchetTyped, RootKeys, KeysOf
  <2> HIDE DEF x, t, u, v
  <2>4. Len(t) = Len(u) + 1
      BY <2>1, <2>2, <2>3, Growth
  <2> QED BY <1>2, <1>3, <2>1, <2>4 DEF t
<1>7. Ahead(sender, r)
    BY <1>4, <1>5, <1>6 DEF InStep
<1>8. v = u
    BY <1>1, <1>7 DEF Ahead, TurnAligned
<1>9. Len(u) = Len(t) + 1
  <2> DEFINE x == diffie_hellman(sender.our_public_ephemeral, sender.our_public_ephemeral,
                                 r.our_public_ephemeral, sender.role)
  <2>1. u = Append(t, x)
      BY <1>7 DEF Ahead
  <2>2. x \in Secret
    <3>1. r.our_public_ephemeral \in Name /\ sender.our_public_ephemeral \in Name
          /\ sender.role \in BOOLEAN
        BY <1>1 DEF RatchetTyped
    <3>2. x \in Agreement
        BY <3>1, AgreementIsSecret
    <3> QED BY <3>2 DEF Secret
  <2>3. t \in Transcripts
      BY <1>1 DEF RatchetTyped, RootKeys, KeysOf
  <2> HIDE DEF x, t, u, v
  <2> QED BY <2>1, <2>2, <2>3, Growth
<1>10. Len(key.transcript) = Len(v)
    BY <1>8, <1>9
<1> QED BY <1>7, <1>8, <1>10 DEF OnChain

\* The first message of a new chain brings its receiver to the sender's root key.
LEMMA ReceiveInStep ==
    ASSUME NEW r, RatchetOK(r), NEW sender, RatchetOK(sender), Aligned(sender),
           InStep(r, sender),
           NEW packet, packet.message_key \in MessageKeys, packet.ephemeral \in Name,
           OnChain(packet, sender), Passed(sender.send_chain_key, packet.message_key),
           NEW s, SameTurn(r, s) \/ NewTurn(r, s, packet)
    PROVE  InStep(s, sender)
<1>1. CASE SameTurn(r, s)
    BY <1>1, StaysInStep
<1>2. CASE NewTurn(r, s, packet)
  <2> DEFINE t == ReceivingTranscript(r, packet.ephemeral)
             x == diffie_hellman(r.our_private_ephemeral, r.our_public_ephemeral,
                                 packet.ephemeral, r.role)
  <2>1. /\ r.ratchet_flag = FALSE
        /\ packet.message_key.transcript = t
        /\ s.root_key.transcript = t
        /\ s.ratchet_flag = TRUE
        /\ s.their_public_ephemeral = packet.ephemeral
      BY <1>2 DEF NewTurn
  <2>2. Len(t) = Len(r.root_key.transcript) + 1
    <3>1. /\ r.our_private_ephemeral \in Name /\ r.our_public_ephemeral \in Name
          /\ r.role \in BOOLEAN /\ r.root_key.transcript \in Transcripts
        BY DEF RatchetOK, RatchetTyped, RootKeys, KeysOf
    <3>2. x \in Agreement
        BY <3>1, AgreementIsSecret
    <3>3. x \in Secret /\ t = Append(r.root_key.transcript, x)
        BY <3>2 DEF Secret, ReceivingTranscript, NextTranscript
    <3> HIDE DEF x, t
    <3> QED BY <3>1, <3>3, Growth
  <2> HIDE DEF t
  <2>3. /\ Ahead(sender, r)
        /\ packet.message_key.transcript = sender.root_key.transcript
        /\ packet.ephemeral = sender.our_public_ephemeral
      BY <2>1, <2>2, SenderIsAhead
  <2>4. Synced(s, sender)
      BY <2>1, <2>3 DEF Synced, Ahead
  <2> QED BY <2>4 DEF InStep
<1> QED BY <1>1, <1>2

\* Two ratchets that are in step are so from either side.
LEMMA InStepIsSymmetric ==
    ASSUME NEW a, NEW b, InStep(a, b)
    PROVE  InStep(b, a)
    BY DEF InStep

\* Once both parties have a conversation, it is these two ratchets that are in step.
LEMMA BothInStep ==
    ASSUME SafeInv, SyncInv, NEW p \in Parties, HasConversation(p), HasConversation(Peer(p))
    PROVE  InStep(ratchet[p], ratchet[Peer(p)])
<1>1. PICK x \in sent : x.prekey_metadata # NoPrekeyMetadata
    BY DEF SafeInv, PartyOK
<1>2. x.from \in Parties /\ PrekeyPacketInStep(ratchet, x)
    BY DEF SafeInv, PacketsOK, PacketTyped, SyncInv
<1>3. /\ x.from = p \/ x.from = Peer(p)
      /\ Peer(Peer(p)) = p
    BY <1>2, TwoParties
<1>4. InStep(ratchet[x.from], ratchet[Peer(x.from)])
  <2> HIDE DEF InStep
  <2> QED BY <1>1, <1>2, <1>3 DEF PrekeyPacketInStep, receivingRatchet, HasConversation
<1> QED BY <1>3, <1>4, InStepIsSymmetric

\* And then every prekey packet is in step.
LEMMA AllInStep ==
    ASSUME NEW ratchets, NEW p \in Parties, NEW packet, packet.from \in Parties,
           ratchets[p] # NoConversation, ratchets[Peer(p)] # NoConversation,
           InStep(ratchets[p], ratchets[Peer(p)])
    PROVE  PrekeyPacketInStep(ratchets, packet)
<1>1. /\ packet.from = p \/ packet.from = Peer(p)
      /\ Peer(Peer(p)) = p
    BY TwoParties
<1>2. InStep(ratchets[packet.from], ratchets[Peer(packet.from)])
    BY <1>1, InStepIsSymmetric
<1>3. ratchets[Peer(packet.from)] # NoConversation
    BY <1>1
<1> HIDE DEF InStep
<1> QED BY <1>2, <1>3 DEF PrekeyPacketInStep, receivingRatchet

\* A ratchet that sends on the same chain.
LEMMA StaysOnChain ==
    ASSUME NEW packet, NEW r, NEW s, OnChain(packet, r),
           s.send_chain_key.transcript = r.send_chain_key.transcript,
           s.our_public_ephemeral = r.our_public_ephemeral
    PROVE  OnChain(packet, s)
    BY DEF OnChain

\* Who has sent something has a conversation.
LEMMA SenderHasConversation ==
    ASSUME SafeInv, NEW packet \in sent
    PROVE  /\ packet.from \in Parties /\ PacketTyped(packet)
           /\ HasConversation(packet.from)
           /\ RatchetOK(ratchet[packet.from])
           /\ Passed(ratchet[packet.from].send_chain_key, packet.message_key)
<1> DEFINE p == packet.from
<1>1. p \in Parties /\ PacketTyped(packet)
    BY DEF SafeInv, PacketsOK, PacketTyped
<1>2. packet \in SentBy(p)
    BY DEF SentBy
<1>3. PartyOK(p)
    BY <1>1 DEF SafeInv
<1> HIDE DEF p
<1>4. HasConversation(p) /\ RatchetOK(ratchet[p]) /\ HistoryOK(p, ratchet[p])
    BY <1>2, <1>3 DEF PartyOK
<1>5. Passed(ratchet[p].send_chain_key, packet.message_key)
    BY <1>2, <1>4 DEF HistoryOK
<1> QED BY <1>1, <1>4, <1>5 DEF p

\* The packet is the next one of the sender's chain, or the first one of a new chain
SendsNext(r, packet, s) ==
    LET key == packet.message_key
    IN  /\ RatchetOK(s) /\ s.ratchet_flag = FALSE
        /\ SameReceiver(r, s)
        /\ key \in MessageKeys
        /\ key.transcript = s.send_chain_key.transcript
        /\ s.send_chain_key.index = key.index + 1
        /\ packet.previous_message_number = s.previous_message_number
        /\ r.ratchet_flag = TRUE =>
              /\ Len(key.transcript) = Len(r.root_key.transcript) + 1
              /\ s.previous_message_number = r.send_message_number
        /\ r.ratchet_flag = FALSE =>
              /\ key.transcript = r.send_chain_key.transcript
              /\ key.index = r.send_chain_key.index
              /\ s.previous_message_number = r.previous_message_number

\* What send() does to the sender, and what it hands to the network
Sends(p, r, metadata, packet, s) ==
    /\ SendsNext(r, packet, s)
    /\ received' = received /\ forgotten' = forgotten
    /\ Aligned(s)
    /\ s # NoConversation
    /\ ratchet'[p] = s
    /\ \A q \in Parties \ {p} : ratchet'[q] = ratchet[q]
    /\ sent' = sent \union {packet}
    /\ packet.from = p /\ packet.prekey_metadata = metadata
    /\ \A peer : InStep(r, peer) => InStep(s, peer)
    /\ OnChain(packet, s)
    /\ \A x \in SentBy(p) : OnChain(x, s)

\* Conversation::send: the packets of its sender are on their chains.
LEMMA SendOnItsChain ==
    ASSUME SafeInv, NEW p \in Parties, NEW r, RatchetOK(r), Aligned(r), HistoryOK(p, r),
           \A x \in SentBy(p) : OnChain(x, r),
           NEW metadata, NEW draws \in Nat, send(p, r, metadata, draws)
    PROVE  \E packet, s : Sends(p, r, metadata, packet, s)
<1> DEFINE fresh == <<p, drawn[p] + draws + 1>>
           data == getSendData(r, fresh)
           s == data.ratchet
           packet == [from |-> p,
                      header_key |-> data.header_key,
                      message_key |-> data.message_key,
                      ephemeral |-> data.ephemeral,
                      message_number |-> data.message_number,
                      previous_message_number |-> data.previous_message_number,
                      prekey_metadata |-> metadata]
<1>1. drawn[p] \in Nat /\ p \in Nat
    BY DEF SafeInv, TypesOK, Parties
<1>2. fresh \in Name
    BY <1>1 DEF Name
<1>3. /\ sent' = IF data.ok THEN sent \union {packet} ELSE sent
      /\ ratchet' = [ratchet EXCEPT ![p] = s]
      /\ received' = received /\ forgotten' = forgotten
    BY DEF send
<1> HIDE DEF fresh
<1>4. SendData(r, fresh, data)
    BY <1>2, GetSendData
<1> HIDE DEF data
<1>5. /\ Aligned(s)
      /\ data.header_key = HeaderOf(data.message_key.transcript)
      /\ data.message_number = data.message_key.index % message_numbers
    BY <1>2, <1>4, SendAligned
<1>6. r.ratchet_flag \in BOOLEAN /\ RatchetTyped(r)
    BY DEF RatchetOK, RatchetTyped
<1>7. \A peer : InStep(r, peer) => InStep(s, peer)
    BY <1>4, <1>6, SendInStep
<1>8. /\ data.ok /\ RatchetOK(s)
      /\ data.message_key.transcript = s.send_chain_key.transcript
      /\ data.ephemeral = s.our_public_ephemeral
    BY <1>4 DEF SendData
<1>9. s # NoConversation
    BY <1>8, RatchetIsConversation
<1>10. OnChain(packet, s)
  <2> HIDE DEF s
  <2> QED BY <1>5, <1>8 DEF OnChain
<1>11. ASSUME NEW x \in SentBy(p) PROVE OnChain(x, s)
  <2>1. OnChain(x, r) /\ Passed(r.send_chain_key, x.message_key)
      BY DEF HistoryOK
  <2>2. CASE r.ratchet_flag = TRUE
    <3>1. Len(s.send_chain_key.transcript) = Len(r.root_key.transcript) + 1
        BY <1>4, <1>8, <2>2 DEF SendData
    <3>2. /\ Len(x.message_key.transcript) <= Len(r.send_chain_key.transcript)
          /\ Len(r.send_chain_key.transcript) <= Len(r.root_key.transcript)
        BY <2>1 DEF Passed, RatchetOK, SendChainOK
    <3>3. /\ Len(r.send_chain_key.transcript) \in Nat /\ Len(r.root_key.transcript) \in Nat
          /\ Len(x.message_key.transcript) \in Nat
      <4>1. x.message_key \in MessageKeys
          BY DEF SafeInv, PacketsOK, PacketTyped, SentBy
      <4>2. Len(x.message_key.transcript) \in Nat
          BY <4>1, LenProperties DEF MessageKeys, KeysOf, Transcripts
      <4> QED BY <1>6, <4>2, Lengths
    <3>4. Len(x.message_key.transcript) # Len(s.send_chain_key.transcript)
        BY <3>1, <3>2, <3>3
    <3> QED BY <2>1, <3>4 DEF OnChain
  <2>3. CASE r.ratchet_flag = FALSE
    <3>1. /\ s.send_chain_key.transcript = r.send_chain_key.transcript
          /\ s.our_public_ephemeral = r.our_public_ephemeral
        BY <1>4, <2>3 DEF SendData
    <3> QED BY <2>1, <3>1, StaysOnChain
  <2> QED BY <1>6, <2>2, <2>3
<1>12. /\ ratchet'[p] = s
       /\ \A q \in Parties \ {p} : ratchet'[q] = ratchet[q]
    BY <1>3 DEF SafeInv, TypesOK
<1>13. /\ packet.from = p /\ packet.prekey_metadata = metadata
       /\ packet.message_key = data.message_key
       /\ packet.previous_message_number = data.previous_message_number
    OBVIOUS
<1> HIDE DEF s, packet
<1>14. sent' = sent \union {packet}
    BY <1>3, <1>8
<1>15. SendsNext(r, packet, s)
    BY <1>4, <1>13 DEF SendData, SendsNext, s
<1>16. Sends(p, r, metadata, packet, s)
    BY <1>3, <1>5, <1>7, <1>9, <1>10, <1>11, <1>12, <1>13, <1>14, <1>15 DEF Sends
<1> QED BY <1>16

\* createSendConversation: the ratchet that the peer will create is in step.
LEMMA StartSync ==
    ASSUME SafeInv, SyncInv, NEW p \in Parties, createSendConversation(p)
    PROVE  SyncInv'
<1> DEFINE q == Peer(p)
           ephemeral == <<p, drawn[p] + 1>>
           theirPrekey == PublishedPrekey(q)
           r == create(Identity(p), ephemeral, Identity(q), theirPrekey)
           c == create(Identity(q), theirPrekey, Identity(p), ephemeral)
           metadata == [identity |-> Identity(p), ephemeral |-> ephemeral,
                        prekey |-> theirPrekey]
           one == 1
<1>1. sent = {} /\ send(p, r, metadata, one) /\ one \in Nat
    BY DEF createSendConversation
<1>2. /\ ephemeral \in Name /\ theirPrekey \in Name /\ Identity(p) \in Name
      /\ Identity(q) \in Name /\ q \in Parties /\ q # p
  <2>1. drawn[p] \in Nat /\ p \in Nat
      BY DEF SafeInv, TypesOK, Parties
  <2>2. ephemeral \in Name
      BY <2>1 DEF Name
  <2>3. Peer(p) \in Parties /\ Identity(p) \in Name /\ Peer(p) # p
      BY TwoParties
  <2>4. theirPrekey \in Name /\ Identity(q) \in Name
      BY <2>3, TwoParties
  <2> QED BY <2>2, <2>3, <2>4
<1>3. ratchet[q] = NoConversation
    BY <1>1, <1>2 DEF SafeInv, PartyOK, HasConversation
<1>4. metadata.ephemeral = ephemeral /\ metadata.prekey = theirPrekey
      /\ metadata.identity = Identity(p)
    OBVIOUS
<1> HIDE DEF ephemeral, theirPrekey, one
<1>5. RatchetOK(r) /\ Aligned(r)
  <2>1. RatchetOK(r)
      BY <1>2, CreateForParty
  <2>2. Aligned(r)
      BY <1>2, CreateAligned
  <2> QED BY <2>1, <2>2
<1>6. InStep(r, c)
    BY <1>2, CreateInStep
<1> HIDE DEF r, c, metadata
<1>7. HistoryOK(p, r) /\ \A x \in SentBy(p) : OnChain(x, r)
    BY <1>1 DEF HistoryOK, SentBy, SentTo
<1>8. PICK packet, s : Sends(p, r, metadata, packet, s)
    BY <1>1, <1>5, <1>7, SendOnItsChain
<1>9. /\ Aligned(s) /\ ratchet'[p] = s /\ ratchet'[q] = NoConversation
      /\ sent' = {packet} /\ packet.from = p /\ packet.prekey_metadata = metadata
      /\ InStep(s, c) /\ OnChain(packet, s)
    BY <1>1, <1>2, <1>3, <1>6, <1>8 DEF Sends
<1>10. \A a \in Parties : (HasConversation(a))' => Aligned(ratchet'[a])
    BY <1>9, TwoParties DEF HasConversation
<1>11. receivingRatchet(q, ratchet'[q], packet) = c
    BY <1>4, <1>9 DEF receivingRatchet, c
<1>12. PrekeyPacketInStep(ratchet', packet)
    BY <1>9, <1>11 DEF PrekeyPacketInStep
<1> HIDE DEF q
<1> QED BY <1>9, <1>10, <1>12 DEF SyncInv

\* molch_encrypt_message keeps the ratchets in step.
LEMMA EncryptSync ==
    ASSUME SafeInv, SyncInv, NEW p \in Parties, encryptMessage(p)
    PROVE  SyncInv'
<1> DEFINE q == Peer(p)
           r == ratchet[p]
           metadata == NoPrekeyMetadata
           none == 0
<1>1. HasConversation(p) /\ send(p, r, metadata, none) /\ none \in Nat
    BY DEF encryptMessage
<1>2. RatchetOK(r) /\ HistoryOK(p, r) /\ Aligned(r) /\ r # NoConversation
    BY <1>1 DEF SafeInv, PartyOK, SyncInv, HasConversation
<1>3. \A x \in SentBy(p) : OnChain(x, r)
    BY DEF SentBy, SyncInv
<1>4. q \in Parties /\ q # p /\ Peer(q) = p /\ \A a \in Parties : a = p \/ a = q
    BY TwoParties
<1> HIDE DEF metadata, none
<1>5. PICK packet, s : Sends(p, r, metadata, packet, s)
  <2> HIDE DEF r
  <2> QED BY <1>1, <1>2, <1>3, SendOnItsChain
<1>6. /\ Aligned(s) /\ ratchet'[p] = s /\ ratchet'[q] = ratchet[q] /\ s # NoConversation
      /\ sent' = sent \union {packet}
      /\ packet.from = p /\ packet.prekey_metadata = NoPrekeyMetadata
      /\ \A peer : InStep(r, peer) => InStep(s, peer)
      /\ OnChain(packet, s)
      /\ \A x \in SentBy(p) : OnChain(x, s)
    BY <1>4, <1>5 DEF Sends, metadata
<1>7. \A a \in Parties : (HasConversation(a))' => Aligned(ratchet'[a])
    BY <1>4, <1>6 DEF SyncInv, HasConversation
<1>8. PrekeyPacketInStep(ratchet', packet)
    BY <1>6 DEF PrekeyPacketInStep
<1>9. ASSUME NEW x \in sent
      PROVE  OnChain(x, ratchet'[x.from]) /\ PrekeyPacketInStep(ratchet', x)
  <2>1. x.from \in Parties /\ OnChain(x, ratchet[x.from]) /\ PrekeyPacketInStep(ratchet, x)
      BY DEF SafeInv, PacketsOK, PacketTyped, SyncInv
  <2>2. CASE x.from = p
    <3>1. OnChain(x, s)
        BY <1>6, <2>2 DEF SentBy
    <3>2. PrekeyPacketInStep(ratchet', x)
      <4> HIDE DEF InStep
      <4> QED BY <1>6, <2>1, <2>2 DEF PrekeyPacketInStep
    <3> QED BY <1>6, <2>2, <3>1, <3>2
  <2>3. CASE x.from = q
    <3>1. InStep(r, ratchet[q])
      <4>1. HasConversation(q)
          BY <2>3, SenderHasConversation
      <4> QED BY <1>1, <4>1, BothInStep
    <3>2. InStep(ratchet'[p], ratchet'[Peer(p)])
        BY <1>6, <3>1
    <3>3. ratchet'[Peer(p)] # NoConversation
      <4>1. HasConversation(q)
          BY <2>3, SenderHasConversation
      <4> QED BY <1>6, <4>1 DEF HasConversation
    <3>4. PrekeyPacketInStep(ratchet', x)
        BY <1>6, <2>1, <3>2, <3>3, AllInStep
    <3> QED BY <1>6, <2>1, <2>3, <3>4
  <2> QED BY <1>4, <2>1, <2>2, <2>3
<1> HIDE DEF q
<1> QED BY <1>6, <1>7, <1>8, <1>9 DEF SyncInv

\* Nothing has happened to the conversations and the network.
LEMMA SyncFrame ==
    ASSUME SyncInv, SafeInv, sent' = sent,
           \A q \in Parties : ratchet'[q] = ratchet[q]
    PROVE  SyncInv'
<1>1. \A p \in Parties : (HasConversation(p))' => Aligned(ratchet'[p])
    BY DEF SyncInv, HasConversation
<1>2. ASSUME NEW x \in sent
      PROVE  OnChain(x, ratchet'[x.from]) /\ PrekeyPacketInStep(ratchet', x)
  <2>1. x.from \in Parties /\ OnChain(x, ratchet[x.from]) /\ PrekeyPacketInStep(ratchet, x)
      BY DEF SafeInv, PacketsOK, PacketTyped, SyncInv
  <2>2. Peer(x.from) \in Parties
      BY <2>1, TwoParties
  <2> HIDE DEF InStep
  <2> QED BY <2>1, <2>2 DEF PrekeyPacketInStep
<1> QED BY <1>1, <1>2 DEF SyncInv

\* One conversation has changed, and it sends on the same chain as before.
LEMMA SyncOneChanged ==
    ASSUME SafeInv, SyncInv, NEW p \in Parties, sent' = sent,
           \A q \in Parties \ {p} : ratchet'[q] = ratchet[q],
           NEW r, NEW s, ratchet'[p] = s, s # NoConversation, Aligned(s),
           HasConversation(p) => r = ratchet[p],
           s.send_chain_key.transcript = r.send_chain_key.transcript,
           s.our_public_ephemeral = r.our_public_ephemeral,
           HasConversation(Peer(p)) => InStep(s, ratchet[Peer(p)]),
           ~HasConversation(Peer(p)) => SameTurn(r, s)
    PROVE  SyncInv'
<1> DEFINE q == Peer(p)
<1>1. q \in Parties /\ q # p /\ Peer(q) = p /\ \A a \in Parties : a = p \/ a = q
    BY TwoParties
<1>2. ratchet'[q] = ratchet[q]
    BY <1>1
<1>3. \A a \in Parties : (HasConversation(a))' => Aligned(ratchet'[a])
    BY <1>1, <1>2 DEF SyncInv, HasConversation
<1>4. ASSUME NEW x \in sent
      PROVE  OnChain(x, ratchet'[x.from]) /\ PrekeyPacketInStep(ratchet', x)
  <2>1. x.from \in Parties /\ OnChain(x, ratchet[x.from]) /\ PrekeyPacketInStep(ratchet, x)
        /\ HasConversation(x.from)
      BY SenderHasConversation DEF SyncInv
  <2>2. OnChain(x, ratchet'[x.from])
    <3>1. CASE x.from = p
      <4>1. r = ratchet[p]
          BY <2>1, <3>1
      <4>2. OnChain(x, r)
          BY <2>1, <3>1, <4>1
      <4>3. OnChain(x, s)
          BY <4>2, StaysOnChain
      <4> QED BY <3>1, <4>3
    <3>2. CASE x.from = q
        BY <1>2, <2>1, <3>2
    <3> QED BY <1>1, <2>1, <3>1, <3>2
  <2>3. CASE HasConversation(q)
    <3>1. /\ ratchet'[Peer(p)] # NoConversation
          /\ InStep(ratchet'[p], ratchet'[Peer(p)])
        BY <1>2, <2>3 DEF HasConversation
    <3>2. PrekeyPacketInStep(ratchet', x)
        BY <2>1, <3>1, AllInStep
    <3> QED BY <2>2, <3>2
  <2>4. CASE ~HasConversation(q)
    <3>1. x.from = p /\ r = ratchet[p]
        BY <1>1, <2>1, <2>4
    <3>2. \A peer : InStep(r, peer) => InStep(s, peer)
        BY <2>4, StaysInStep
    <3>3. PrekeyPacketInStep(ratchet', x)
      <4> HIDE DEF InStep
      <4> QED BY <1>2, <2>1, <3>1, <3>2 DEF PrekeyPacketInStep
    <3> QED BY <2>2, <3>3
  <2> QED BY <2>3, <2>4
<1> HIDE DEF q
<1> QED BY <1>3, <1>4 DEF SyncInv

\* The ratchet that tries a packet is aligned and in step with the sender's.
LEMMA TriesInStep ==
    ASSUME SafeInv, SyncInv, NEW p \in Parties, NEW packet \in SentTo(p),
           HasConversation(p) \/ packet.prekey_metadata # NoPrekeyMetadata
    PROVE  LET r == receivingRatchet(p, ratchet[p], packet)
           IN  /\ Aligned(r)
               /\ HasConversation(Peer(p))
               /\ InStep(r, ratchet[Peer(p)])
<1> DEFINE r == receivingRatchet(p, ratchet[p], packet)
           q == Peer(p)
<1>1. /\ packet \in sent /\ PacketTyped(packet) /\ packet.from = q
      /\ q \in Parties /\ Peer(q) = p
    BY TwoParties DEF SafeInv, PacketsOK, SentTo, SentBy
<1>2. HasConversation(q)
    BY <1>1, SenderHasConversation
<1>3. CASE HasConversation(p)
  <2>1. r = ratchet[p]
      BY <1>3 DEF receivingRatchet, HasConversation
  <2>2. InStep(ratchet[p], ratchet[q])
      BY <1>2, <1>3, BothInStep
  <2>3. Aligned(ratchet[p])
      BY <1>3 DEF SyncInv
  <2> QED BY <1>2, <2>1, <2>2, <2>3
<1>4. CASE ~HasConversation(p)
  <2> DEFINE ours == packet.prekey_metadata.prekey
             theirs == packet.prekey_metadata.ephemeral
  <2>1. /\ ours \in Name /\ theirs \in Name
        /\ packet.prekey_metadata.identity = Identity(q)
        /\ Identity(p) \in Name /\ Identity(q) \in Name
      BY <1>1, <1>4, TwoParties DEF PacketTyped
  <2>2. r = create(Identity(p), ours, Identity(q), theirs)
      BY <1>4, <2>1 DEF receivingRatchet, HasConversation
  <2>3. Aligned(r)
    <3> DEFINE c == create(Identity(p), ours, Identity(q), theirs)
    <3> HIDE DEF ours, theirs
    <3>1. Aligned(c)
        BY <2>1, CreateAligned
    <3> HIDE DEF c
    <3>2. r = c
        BY <2>2 DEF c
    <3> HIDE DEF r
    <3> QED BY <3>1, <3>2
  <2>4. InStep(ratchet[q], r)
    <3>1. PrekeyPacketInStep(ratchet, packet)
        BY <1>1 DEF SyncInv
    <3> HIDE DEF InStep
    <3> QED BY <1>1, <1>4, <3>1 DEF PrekeyPacketInStep
  <2>5. InStep(r, ratchet[q])
    <3> HIDE DEF r
    <3> QED BY <2>4, InStepIsSymmetric
  <2> QED BY <1>2, <2>3, <2>5
<1> QED BY <1>3, <1>4

\* The outcome of receiving a packet keeps the ratchets in step.
LEMMA ReceiveSync ==
    ASSUME SafeInv, SyncInv, NEW p \in Parties, NEW packet \in SentTo(p), NEW damage,
           HasConversation(p) \/ packet.prekey_metadata # NoPrekeyMetadata,
           LET r == receivingRatchet(p, ratchet[p], packet)
           IN  applyResult(p, packet, receivePacket(r, packet, damage, clock))
    PROVE  SyncInv'
<1> DEFINE q == Peer(p)
           r == receivingRatchet(p, ratchet[p], packet)
           result == receivePacket(r, packet, damage, clock)
           s == result.ratchet
           sender == ratchet[q]
<1>1. RatchetOK(r) /\ (HasConversation(p) => r = ratchet[p])
    BY ReceivingRatchet
<1>2. /\ packet \in sent /\ PacketTyped(packet) /\ packet.from = q /\ clock \in Nat
  <2>1. clock \in 0..MaxTime /\ MaxTime \in Nat
      BY ConversationAssumption DEF SafeInv, TypesOK
  <2>2. PacketTyped(packet) /\ packet \in sent /\ packet.from = q
      BY DEF SafeInv, PacketsOK, SentTo, SentBy
  <2> QED BY <2>1, <2>2
<1>3. Aligned(r) /\ HasConversation(q) /\ InStep(r, sender)
    BY TriesInStep
<1>4. /\ RatchetOK(sender) /\ Aligned(sender)
      /\ Passed(sender.send_chain_key, packet.message_key)
      /\ OnChain(packet, sender)
  <2>1. q \in Parties
      BY TwoParties
  <2> QED BY <1>2, <1>3, <2>1, SenderHasConversation DEF SyncInv
<1>5. ratchet' = [ratchet EXCEPT ![p] = s] /\ sent' = sent
    BY DEF applyResult
<1> HIDE DEF r
<1>6. Outcome(r, packet, result, clock)
    BY <1>1, <1>2, Receiving
<1> HIDE DEF result
<1>7. Effect(r, packet, result)
    BY <1>1, <1>2, <1>6, ReceivingEffect
<1>8. packet.message_number = packet.message_key.index % message_numbers
    BY <1>4 DEF OnChain
<1>9. /\ Aligned(s)
      /\ SameTurn(r, s) \/ NewTurn(r, s, packet)
    BY <1>1, <1>2, <1>3, <1>6, <1>8, ReceiveAligned
<1>10. /\ RatchetOK(s) /\ s.send_chain_key = r.send_chain_key
       /\ s.our_public_ephemeral = r.our_public_ephemeral
    BY <1>7 DEF Effect
<1> HIDE DEF s
<1>11. InStep(s, sender)
  <2>1. packet.message_key \in MessageKeys /\ packet.ephemeral \in Name
      BY <1>2 DEF PacketTyped
  <2> HIDE DEF sender
  <2> QED BY <1>1, <1>3, <1>4, <1>9, <2>1, ReceiveInStep
<1>12. s # NoConversation
    BY <1>10, RatchetIsConversation
<1>13. /\ ratchet'[p] = s
       /\ \A a \in Parties \ {p} : ratchet'[a] = ratchet[a]
    BY <1>5 DEF SafeInv, TypesOK
<1> QED BY <1>1, <1>3, <1>5, <1>9, <1>10, <1>11, <1>12, <1>13, SyncOneChanged

\* createReceiveConversation keeps the ratchets in step.
LEMMA AnswerSync ==
    ASSUME SafeInv, SyncInv, NEW p \in Parties, NEW packet \in SentTo(p), NEW damage,
           createReceiveConversation(p, packet, damage)
    PROVE  SyncInv'
<1> DEFINE r == receivingRatchet(p, ratchet[p], packet)
           result == receivePacket(r, packet, damage, clock)
           kept == IF result.ok THEN result ELSE [result EXCEPT !.ratchet = NoConversation]
<1>1. /\ ~HasConversation(p) /\ packet.prekey_metadata # NoPrekeyMetadata
      /\ applyResult(p, packet, kept)
    BY DEF createReceiveConversation
<1>2. result.ok \in BOOLEAN /\ DOMAIN result = {"ok", "ratchet", "keys"}
  <2>1. Effect(r, packet, result)
      BY <1>1, Tries
  <2>2. DOMAIN result = {"ok", "ratchet", "keys"}
      BY ResultFields
  <2> HIDE DEF result, r
  <2> QED BY <2>1, <2>2 DEF Effect
<1>3. CASE result.ok = TRUE
  <2>1. kept = result
      BY <1>3
  <2>2. applyResult(p, packet, result)
      BY <1>1, <2>1
  <2> QED BY <1>1, <2>2, ReceiveSync
<1>4. CASE result.ok = FALSE
  <2> HIDE DEF result
  <2>1. kept.ok = FALSE /\ kept.ratchet = NoConversation
      BY <1>2, <1>4
  <2> HIDE DEF kept
  <2>2. ratchet' = [ratchet EXCEPT ![p] = NoConversation] /\ sent' = sent
      BY <1>1, <2>1 DEF applyResult
  <2>3. \A q \in Parties : ratchet'[q] = ratchet[q]
      BY <1>1, <2>2 DEF HasConversation, SafeInv, TypesOK
  <2> QED BY <2>2, <2>3, SyncFrame
<1> QED BY <1>2, <1>3, <1>4

\* A restart keeps the ratchets in step.
LEMMA RestartSync ==
    ASSUME SafeInv, SyncInv, NEW p \in Parties, restart(p)
    PROVE  SyncInv'
<1> DEFINE q == Peer(p)
           r == ratchet[p]
           s == exportAndImport(r)
<1>1. HasConversation(p) /\ ratchet' = [ratchet EXCEPT ![p] = s] /\ sent' = sent
    BY DEF restart
<1>2. RatchetOK(r) /\ Aligned(r)
    BY <1>1 DEF SafeInv, PartyOK, SyncInv
<1>3. /\ ratchet'[p] = s
      /\ \A a \in Parties \ {p} : ratchet'[a] = ratchet[a]
    BY <1>1 DEF SafeInv, TypesOK
<1>4. HasConversation(q) => InStep(r, ratchet[q])
    BY <1>1, BothInStep
<1> HIDE DEF r
<1>5. Aligned(s) /\ SameTurn(r, s)
    BY <1>2, ExportAligned
<1>6. RatchetOK(s) /\ s.send_chain_key.transcript = r.send_chain_key.transcript
    BY <1>2, ExportAndImport
<1> HIDE DEF s
<1>7. s # NoConversation /\ s.our_public_ephemeral = r.our_public_ephemeral
    BY <1>5, <1>6, RatchetIsConversation DEF SameTurn
<1>8. HasConversation(q) => InStep(s, ratchet[q])
    BY <1>4, <1>5, StaysInStep
<1>9. r = ratchet[p]
    BY DEF r
<1> QED BY <1>1, <1>3, <1>5, <1>6, <1>7, <1>8, <1>9, SyncOneChanged

\* Every step keeps the ratchets in step.
LEMMA SyncStep ==
    ASSUME SafeInv, SyncInv, [Next]_vars
    PROVE  SyncInv'
<1>1. ASSUME NEW p \in Parties, createSendConversation(p) PROVE SyncInv'
    BY <1>1, StartSync
<1>2. ASSUME NEW p \in Parties, encryptMessage(p) PROVE SyncInv'
    BY <1>2, EncryptSync
<1>3. ASSUME NEW p \in Parties, NEW damage \in Damage, NEW packet \in SentTo(p),
             createReceiveConversation(p, packet, damage)
      PROVE  SyncInv'
    BY <1>3, AnswerSync
<1>4. ASSUME NEW p \in Parties, NEW damage \in Damage, NEW packet \in SentTo(p),
             decryptMessage(p, packet, damage)
      PROVE  SyncInv'
  <2>1. /\ HasConversation(p)
        /\ applyResult(p, packet, receivePacket(receivingRatchet(p, ratchet[p], packet),
                                                packet, damage, clock))
      BY <1>4 DEF decryptMessage
  <2> QED BY <2>1, ReceiveSync
<1>5. ASSUME NEW p \in Parties, restart(p) PROVE SyncInv'
    BY <1>5, RestartSync
<1>6. ASSUME tick \/ UNCHANGED vars PROVE SyncInv'
  <2>1. sent' = sent /\ ratchet' = ratchet
      BY <1>6, TickOrStutter
  <2> QED BY <2>1, SyncFrame
<1> QED BY <1>1, <1>2, <1>3, <1>4, <1>5, <1>6 DEF Next

\* The two ratchets stay in step, for any number of messages in any order, with
\* losses, duplicates, damage and restarts.
THEOREM RatchetsStayInStep == Spec => [](SafeInv /\ SyncInv)
<1>1. Init => SyncInv
    BY DEF Init, SyncInv, HasConversation
<1>2. SafeInv /\ SyncInv /\ [Next]_vars => SyncInv'
    BY SyncStep
<1> QED BY <1>1, <1>2, ConversationInvariant, PTL DEF Spec

\* At most one of the ratchets is to start a new chain, and each waits for the
\* header key that the other uses next.
THEOREM LockStepHolds == Spec => []LockStep
<1>1. SafeInv /\ SyncInv => LockStep
  <2> SUFFICES ASSUME SafeInv, SyncInv, \A a \in Parties : HasConversation(a),
                      NEW p \in Parties
               PROVE  LET me == ratchet[p]
                          peer == ratchet[Peer(p)]
                      IN  /\ me.ratchet_flag =>
                                /\ ~peer.ratchet_flag
                                /\ me.root_key = peer.root_key
                                /\ me.next_send_header_key = peer.next_receive_header_key
                                /\ me.next_receive_header_key = peer.next_send_header_key
                          /\ ~me.ratchet_flag /\ ~peer.ratchet_flag =>
                                \/ /\ Transcript(Peer(p)) = Front(Transcript(p))
                                   /\ me.send_header_key = peer.next_receive_header_key
                                \/ /\ Transcript(p) = Front(Transcript(Peer(p)))
                                   /\ peer.send_header_key = me.next_receive_header_key
      BY DEF LockStep
  <2> DEFINE me == ratchet[p]
             peer == ratchet[Peer(p)]
  <2>1. Peer(p) \in Parties
      BY TwoParties
  <2>2. RatchetOK(me) /\ Aligned(me) /\ RatchetOK(peer) /\ Aligned(peer)
      BY <2>1 DEF SafeInv, PartyOK, SyncInv
  <2>3. InStep(me, peer)
      BY <2>1, BothInStep
  <2>4. /\ Transcript(p) = me.root_key.transcript
        /\ Transcript(Peer(p)) = peer.root_key.transcript
      BY DEF Transcript
  <2> HIDE DEF me, peer
  <2>5. me.ratchet_flag \in BOOLEAN /\ peer.ratchet_flag \in BOOLEAN
      BY <2>2 DEF RatchetOK, RatchetTyped
  <2>6. ASSUME me.ratchet_flag = TRUE
        PROVE  /\ peer.ratchet_flag = FALSE
               /\ me.root_key = peer.root_key
               /\ me.next_send_header_key = peer.next_receive_header_key
               /\ me.next_receive_header_key = peer.next_send_header_key
    <3>1. Synced(me, peer)
        BY <2>3, <2>6 DEF InStep, Synced, Ahead
    <3> QED BY <2>2, <2>6, <3>1 DEF Synced, Aligned, TurnAligned
  <2>7. ASSUME NEW a, NEW b, RatchetOK(a), Aligned(a), RatchetOK(b), Aligned(b), Ahead(a, b)
        PROVE  /\ b.root_key.transcript = Front(a.root_key.transcript)
               /\ a.send_header_key = b.next_receive_header_key
    <3> DEFINE t == b.root_key.transcript
               x == diffie_hellman(a.our_public_ephemeral, a.our_public_ephemeral,
                                   b.our_public_ephemeral, a.role)
    <3>1. a.root_key.transcript = Append(t, x)
          /\ a.ratchet_flag = FALSE /\ b.ratchet_flag = FALSE
        BY <2>7 DEF Ahead
    <3>2. /\ t \in Transcripts /\ a.our_public_ephemeral \in Name
          /\ b.our_public_ephemeral \in Name /\ a.role \in BOOLEAN
        BY <2>7 DEF RatchetOK, RatchetTyped, RootKeys, KeysOf
    <3>3. x \in Agreement
        BY <3>2, AgreementIsSecret
    <3>4. x \in Secret
        BY <3>3 DEF Secret
    <3> HIDE DEF x, t
    <3>5. Front(Append(t, x)) = t /\ HeaderOf(Append(t, x)) = HeaderOfNext(t)
        BY <3>2, <3>4, HeadersMoveUp
    <3>6. a.send_chain_key \in ChainKeys
        BY <2>7, <3>1 DEF RatchetOK, SendChainOK
    <3>7. /\ a.send_chain_key.transcript = Append(t, x)
          /\ a.send_header_key = HeaderOf(a.send_chain_key.transcript)
        BY <2>7, <3>1, <3>6 DEF Aligned, TurnAligned, HeadersAligned
    <3>8. b.next_receive_header_key = HeaderOfNext(t)
        BY <2>7, <3>1 DEF Aligned, TurnAligned, t
    <3> QED BY <3>1, <3>5, <3>7, <3>8 DEF t
  <2>8. ASSUME me.ratchet_flag = FALSE, peer.ratchet_flag = FALSE
        PROVE  \/ /\ peer.root_key.transcript = Front(me.root_key.transcript)
                  /\ me.send_header_key = peer.next_receive_header_key
               \/ /\ me.root_key.transcript = Front(peer.root_key.transcript)
                  /\ peer.send_header_key = me.next_receive_header_key
    <3>1. Ahead(me, peer) \/ Ahead(peer, me)
        BY <2>3, <2>8 DEF InStep, Synced
    <3>2. CASE Ahead(me, peer)
        BY <2>2, <2>7, <3>2
    <3>3. CASE Ahead(peer, me)
        BY <2>2, <2>7, <3>3
    <3> QED BY <3>1, <3>2, <3>3
  <2> HIDE DEF Front
  <2>9. /\ me.ratchet_flag =>
              /\ ~peer.ratchet_flag
              /\ me.root_key = peer.root_key
              /\ me.next_send_header_key = peer.next_receive_header_key
              /\ me.next_receive_header_key = peer.next_send_header_key
        /\ ~me.ratchet_flag /\ ~peer.ratchet_flag =>
              \/ /\ peer.root_key.transcript = Front(me.root_key.transcript)
                 /\ me.send_header_key = peer.next_receive_header_key
              \/ /\ me.root_key.transcript = Front(peer.root_key.transcript)
                 /\ peer.send_header_key = me.next_receive_header_key
    <3>1. CASE me.ratchet_flag = TRUE
        BY <2>5, <2>6, <3>1
    <3>2. CASE me.ratchet_flag = FALSE
        BY <2>5, <2>8, <3>2
    <3> QED BY <2>5, <3>1, <3>2
  <2> QED BY <2>4, <2>9 DEF me, peer
<1> QED BY <1>1, RatchetsStayInStep, PTL

-----------------------------------------------------------------------------
(***************************************************************************)
(* Packets that will be opened                                             *)
(***************************************************************************)

\* A skipped key fits, or the chain that the header key names has the message key
\* at the place that the message number names
Openable(r, packet) ==
    \/ fittingKeys(r, packet, "none") # {}
    \/ /\ headerDecryptability(r, packet, "none") = "CURRENT_DECRYPTABLE"
       /\ packet.message_number <= r.receive_message_number + maximum_skipped_messages
       /\ packet.message_key
             = deriveMessageKey(advanced(r.receive_chain_key,
                  Skip(r.receive_message_number, packet.message_number)))
    \/ /\ headerDecryptability(r, packet, "none") = "NEXT_DECRYPTABLE"
       /\ r.ratchet_flag = FALSE
       /\ r.receive_chain_key \in ChainKeys =>
             packet.previous_message_number
                <= r.receive_message_number + maximum_skipped_messages
       /\ packet.message_number <= maximum_skipped_messages
       /\ packet.message_key
             = deriveMessageKey(advanced(
                  ChainKey(ReceivingTranscript(r, packet.ephemeral)),
                  Skip(0, packet.message_number)))

\* Conversation::receive opens such a packet if it is not damaged.
LEMMA Opens ==
    ASSUME NEW r, RatchetOK(r), NEW packet, PacketTyped(packet), NEW now \in Nat,
           Openable(r, packet)
    PROVE  receivePacket(r, packet, "none", now).ok = TRUE
<1> DEFINE result == receivePacket(r, packet, "none", now)
           fitting == fittingKeys(r, packet, "none")
           tried == headerDecryptability(r, packet, "none")
           number == packet.message_number
           previous == packet.previous_message_number
           ephemeral == packet.ephemeral
           h == [r EXCEPT !.header_decryptable = tried]
           x == receive(h, ephemeral, number, previous, now)
           opens == x.ok /\ x.message_key = packet.message_key
<1>1. /\ number \in MessageNumbers /\ previous \in MessageNumbers /\ ephemeral \in Name
      /\ packet.header_key \in HeaderKeys
    BY DEF PacketTyped
<1>2. CASE fitting # {}
  <2>1. result = [ok |-> TRUE, ratchet |-> useSkippedKey(r, Min(fitting)), keys |-> {}]
      BY <1>2 DEF receivePacket, internal_receive
  <2> QED BY <2>1
<1>3. ASSUME fitting = {}, tried # "UNDECRYPTABLE", opens
      PROVE  result.ok = TRUE
  <2>1. tried \in HeaderDecryptability \ {"NOT_TRIED"}
      BY DEF headerDecryptability, HeaderDecryptability
  <2>2. LET y == setHeaderDecryptability(r, tried)
        IN  /\ y.ok = TRUE /\ y.ratchet = h
            /\ DOMAIN h = Fields /\ h.header_decryptable = tried /\ h.received_valid = TRUE
            /\ SameKeys(r, h)
            /\ Rejected(r, setLastMessageAuthenticity(h, FALSE, now))
    <3> HIDE DEF tried
    <3> QED BY <2>1, HeaderTried, ZenonT(60)
  <2>3. decryptsMessage(packet, "none", x.message_key)
      BY <1>3 DEF decryptsMessage
  <2>4. advanceRatchet(r, packet, "none", now)
           = [ok |-> TRUE,
              ratchet |-> setLastMessageAuthenticity(x.ratchet, TRUE, now),
              keys |-> ToSet(r.skipped) \union ToSet(x.ratchet.staged)]
    <3> HIDE DEF tried, h
    <3> QED BY <1>3, <2>2, <2>3 DEF advanceRatchet, tried
  <2> DEFINE a == advanceRatchet(r, packet, "none", now)
  <2>5. a.ok = TRUE
      BY <2>4
  <2> HIDE DEF a
  <2>6. result = a
      BY <1>3, <2>5 DEF receivePacket, internal_receive, a
  <2> QED BY <2>5, <2>6
<1>4. CASE /\ fitting = {} /\ tried = "CURRENT_DECRYPTABLE"
           /\ number <= r.receive_message_number + maximum_skipped_messages
           /\ packet.message_key = deriveMessageKey(advanced(r.receive_chain_key,
                                      Skip(r.receive_message_number, number)))
  <2>1. packet.header_key = r.receive_header_key
      BY <1>4 DEF headerDecryptability, decryptsHeader
  <2>2. r.receive_header_key \in HeaderKeys
      BY <1>1, <2>1
  <2>3. h = [r EXCEPT !.header_decryptable = "CURRENT_DECRYPTABLE"]
      BY <1>4
  <2> HIDE DEF h, result, number, previous, ephemeral
  <2> DEFINE count == Skip(r.receive_message_number, number)
             within == number <= r.receive_message_number + maximum_skipped_messages
  <2>4. /\ x.ok <=> within
        /\ Rejected(r, setLastMessageAuthenticity(x.ratchet, FALSE, now))
        /\ within =>
              /\ x.message_key = deriveMessageKey(advanced(r.receive_chain_key, count))
              /\ x.ratchet.staged = StagedKeys(r.receive_header_key,
                                               r.receive_chain_key, count, now)
              /\ OpenedCurrent(r, setLastMessageAuthenticity(x.ratchet, TRUE, now),
                               number, now)
      BY <1>1, <2>2, <2>3, ReceiveCurrent
  <2>5. opens
    <3> HIDE DEF x
    <3> QED BY <1>4, <2>4
  <2>6. fitting = {} /\ tried # "UNDECRYPTABLE"
    <3> HIDE DEF tried, fitting
    <3> QED BY <1>4
  <2> HIDE DEF x, tried, fitting, opens
  <2> QED BY <1>3, <2>5, <2>6 DEF result
<1>5. CASE /\ fitting = {} /\ tried = "NEXT_DECRYPTABLE" /\ r.ratchet_flag = FALSE
           /\ r.receive_chain_key \in ChainKeys =>
                 previous <= r.receive_message_number + maximum_skipped_messages
           /\ number <= maximum_skipped_messages
           /\ packet.message_key
                 = deriveMessageKey(advanced(ChainKey(ReceivingTranscript(r, ephemeral)),
                                             Skip(0, number)))
  <2>1. r.ratchet_flag = FALSE
      BY <1>5
  <2>2. h = [r EXCEPT !.header_decryptable = "NEXT_DECRYPTABLE"]
      BY <1>5
  <2> HIDE DEF h, result, number, previous, ephemeral
  <2> DEFINE t == ReceivingTranscript(r, ephemeral)
             within == /\ r.receive_chain_key \in ChainKeys =>
                             previous <= r.receive_message_number + maximum_skipped_messages
                       /\ number <= maximum_skipped_messages
  <2>3. /\ x.ok <=> within
        /\ Rejected(r, setLastMessageAuthenticity(x.ratchet, FALSE, now))
        /\ within =>
              /\ x.message_key = deriveMessageKey(advanced(ChainKey(t), Skip(0, number)))
              /\ x.ratchet.staged = StagedForNext(r, ephemeral, number, previous, now)
              /\ OpenedNext(r, setLastMessageAuthenticity(x.ratchet, TRUE, now),
                            ephemeral, number, previous, now)
      BY <1>1, <2>1, <2>2, ReceiveNext
  <2>4. opens
    <3> HIDE DEF x
    <3> QED BY <1>5, <2>3
  <2>5. fitting = {} /\ tried # "UNDECRYPTABLE"
    <3> HIDE DEF tried, fitting
    <3> QED BY <1>5
  <2> HIDE DEF x, tried, fitting, opens
  <2> QED BY <1>3, <2>4, <2>5 DEF result
<1> QED BY <1>2, <1>4, <1>5 DEF Openable

\* The receiver of a packet that was sent, and its sender
Exchange(r, sender, packet) ==
    /\ RatchetOK(r) /\ Aligned(r) /\ RatchetOK(sender) /\ Aligned(sender)
    /\ InStep(r, sender)
    /\ sender.role = ~r.role
    /\ PacketTyped(packet) /\ OnChain(packet, sender)
    /\ Passed(sender.send_chain_key, packet.message_key)

\* A packet that has the next header key is on the chain that its receiver derives
\* from the public ephemeral key in it.
LEMMA NextChainAgrees ==
    ASSUME NEW r, NEW sender, NEW packet, Exchange(r, sender, packet),
           packet.header_key = r.next_receive_header_key
    PROVE  /\ r.ratchet_flag = FALSE
           /\ packet.message_key.transcript = ReceivingTranscript(r, packet.ephemeral)
<1> DEFINE key == packet.message_key
           t == key.transcript
           u == r.root_key.transcript
<1>1. /\ RatchetOK(r) /\ Aligned(r) /\ RatchetOK(sender) /\ Aligned(sender)
      /\ InStep(r, sender) /\ sender.role = ~r.role
      /\ PacketTyped(packet) /\ OnChain(packet, sender)
      /\ Passed(sender.send_chain_key, key)
    BY DEF Exchange
<1>2. key \in MessageKeys /\ packet.ephemeral \in Name /\ t \in Transcripts
    BY <1>1 DEF PacketTyped, MessageKeys, KeysOf
<1>3. /\ u \in Transcripts /\ r.role \in BOOLEAN /\ r.ratchet_flag \in BOOLEAN
      /\ r.our_public_ephemeral \in Name /\ RatchetTyped(sender) /\ RatchetTyped(r)
    BY <1>1 DEF RatchetOK, RatchetTyped, RootKeys, KeysOf
<1>4. packet.header_key = HeaderOf(t)
    BY <1>1 DEF OnChain
<1> HIDE DEF t, u
<1>5. /\ ChainLength(HeaderOf(t)) = Len(t) /\ Len(t) \in Nat
      /\ ChainLength(HeaderOfNext(u)) = Len(u) + 1
      /\ ChainLength(HeaderAfterNext(u)) = Len(u) + 2 /\ Len(u) \in Nat
    BY <1>2, <1>3, HeaderLengths
<1>6. r.ratchet_flag = FALSE
  <2> SUFFICES ASSUME r.ratchet_flag = TRUE PROVE FALSE
      BY <1>3
  <2>1. r.next_receive_header_key = HeaderAfterNext(u)
      BY <1>1 DEF Aligned, TurnAligned, u
  <2>2. Len(t) = Len(u) + 2
      BY <1>4, <1>5, <2>1
  <2>3. Synced(r, sender)
      BY <1>1 DEF InStep, Synced, Ahead
  <2>4. sender.send_chain_key.transcript = u
      BY <1>1, <2>3 DEF Synced, Aligned, TurnAligned, u
  <2>5. Len(t) <= Len(u)
      BY <1>1, <2>4 DEF Passed, t
  <2> QED BY <1>5, <2>2, <2>5
<1>7. Len(t) = Len(u) + 1
  <2>1. r.next_receive_header_key = HeaderOfNext(u)
      BY <1>1, <1>6 DEF Aligned, TurnAligned, u
  <2> QED BY <1>4, <1>5, <2>1
<1>8. /\ Ahead(sender, r)
      /\ t = sender.root_key.transcript
      /\ packet.ephemeral = sender.our_public_ephemeral
    BY <1>1, <1>2, <1>6, <1>7, SenderIsAhead DEF t, u
<1>9. t = Append(u, diffie_hellman(packet.ephemeral, packet.ephemeral,
                                   r.our_public_ephemeral, ~r.role))
    BY <1>1, <1>8 DEF Ahead, u
<1>10. diffie_hellman(packet.ephemeral, packet.ephemeral, r.our_public_ephemeral, ~r.role)
          = diffie_hellman(r.our_public_ephemeral, r.our_public_ephemeral,
                           packet.ephemeral, r.role)
    BY <1>3, AgreementIsSymmetric
<1>11. r.our_private_ephemeral = r.our_public_ephemeral
    BY <1>1, <1>6 DEF Aligned, TurnAligned
<1>12. t = ReceivingTranscript(r, packet.ephemeral)
    BY <1>9, <1>10, <1>11 DEF ReceivingTranscript, NextTranscript, u
<1> QED BY <1>6, <1>12 DEF t

\* Every packet is an exchange between its sender and its receiver.
LEMMA PacketIsExchange ==
    ASSUME SafeInv, SyncInv, NEW p \in Parties, HasConversation(p), NEW packet \in SentTo(p)
    PROVE  Exchange(ratchet[p], ratchet[Peer(p)], packet)
<1> DEFINE q == Peer(p)
<1>1. /\ packet \in sent /\ packet.from = q /\ q \in Parties
    BY TwoParties DEF SentTo, SentBy
<1>2. /\ HasConversation(q) /\ RatchetOK(ratchet[q]) /\ PacketTyped(packet)
      /\ Passed(ratchet[q].send_chain_key, packet.message_key)
    BY <1>1, SenderHasConversation
<1>3. /\ RatchetOK(ratchet[p]) /\ (ratchet[p].role = TRUE <=> p = 2)
      /\ (ratchet[q].role = TRUE <=> q = 2)
    BY <1>1, <1>2 DEF SafeInv, PartyOK
<1>4. ratchet[q].role = ~ratchet[p].role
  <2>1. ratchet[p].role \in BOOLEAN /\ ratchet[q].role \in BOOLEAN
      BY <1>2, <1>3 DEF RatchetOK, RatchetTyped
  <2>2. q = 2 <=> p # 2
      BY DEF Parties, Peer
  <2> QED BY <1>3, <2>1, <2>2
<1>5. Aligned(ratchet[p]) /\ Aligned(ratchet[q]) /\ OnChain(packet, ratchet[q])
    BY <1>1, <1>2 DEF SyncInv
<1>6. InStep(ratchet[p], ratchet[q])
    BY <1>2, BothInStep
<1> QED BY <1>2, <1>3, <1>4, <1>5, <1>6 DEF Exchange

\* A packet that is the next of its chain is opened, and so is the first of a new
\* chain, for every width of the message numbers and every limit on skipping.
THEOREM InOrderIsDecryptable == Spec => []InOrderDecryptable
<1>1. SafeInv /\ SyncInv => InOrderDecryptable
  <2> SUFFICES ASSUME SafeInv, SyncInv, NEW p \in Parties, HasConversation(p),
                      NEW packet \in SentTo(p), NextInOrder(ratchet[p], packet)
               PROVE  receivePacket(ratchet[p], packet, "none", clock).ok
      BY DEF InOrderDecryptable
  <2> DEFINE r == ratchet[p]
             sender == ratchet[Peer(p)]
             key == packet.message_key
             number == packet.message_number
  <2>1. Exchange(r, sender, packet)
      BY PacketIsExchange
  <2>2. clock \in Nat
    <3>1. clock \in 0..MaxTime /\ MaxTime \in Nat
        BY ConversationAssumption DEF SafeInv, TypesOK
    <3> QED BY <3>1
  <2>3. NextInOrder(r, packet)
      OBVIOUS
  <2> HIDE DEF r, sender
  <2>4. /\ RatchetOK(r) /\ Aligned(r) /\ PacketTyped(packet)
        /\ number = key.index % message_numbers
      BY <2>1 DEF Exchange, OnChain
  <2>5. key \in MessageKeys /\ number \in MessageNumbers /\ key.index \in Nat
      BY <2>4 DEF PacketTyped, MessageKeys, KeysOf
  <2>6. /\ number \in Nat /\ r.receive_message_number \in Nat
        /\ maximum_skipped_messages \in Nat
      BY <2>4, <2>5, RatchetAssumption DEF RatchetOK, RatchetTyped, MessageNumbers
  <2>7. CASE /\ headerDecryptability(r, packet, "none") = "CURRENT_DECRYPTABLE"
             /\ key = deriveMessageKey(r.receive_chain_key)
    <3> DEFINE ck == r.receive_chain_key
    <3>1. ck \in ChainKeys
      <4>1. ck \in ChainKeys \union EmptyKeys
          BY <2>4 DEF RatchetOK, RatchetTyped
      <4>2. ck \notin EmptyKeys
          BY <2>5, <2>7 DEF EmptyKeys, NoKey, ZeroKey, deriveMessageKey,
                            MessageKeys, KeysOf, Transcripts
      <4> QED BY <4>1, <4>2
    <3>2. key.index = ck.index /\ advanced(ck, 0) = ck
        BY <2>7, <3>1 DEF deriveMessageKey, advanced, ChainKeys, KeysOf
    <3>3. number = r.receive_message_number
        BY <2>4, <3>1, <3>2 DEF Aligned, Numbered
    <3>4. Skip(r.receive_message_number, number) = 0
        BY <2>6, <3>3 DEF Skip
    <3>5. /\ number <= r.receive_message_number + maximum_skipped_messages
          /\ key = deriveMessageKey(advanced(ck, Skip(r.receive_message_number, number)))
      <4> HIDE DEF ck, number
      <4> QED BY <2>6, <2>7, <3>2, <3>3, <3>4 DEF ck
    <3>6. receivePacket(r, packet, "none", clock).ok = TRUE
        BY <2>2, <2>4, <2>7, <3>5, Opens DEF Openable
    <3> QED BY <3>6 DEF r
  <2>8. CASE /\ headerDecryptability(r, packet, "none") = "NEXT_DECRYPTABLE"
             /\ key.index = 0
             /\ ~TooFarAhead(r, packet)
    <3> DEFINE t == ReceivingTranscript(r, packet.ephemeral)
    <3>1. packet.header_key = r.next_receive_header_key
        BY <2>8 DEF headerDecryptability, decryptsHeader
    <3>2. r.ratchet_flag = FALSE /\ key.transcript = t
        BY <2>1, <3>1, NextChainAgrees
    <3>3. number = 0
        BY <2>4, <2>8, NextNumber
    <3>4. Skip(0, number) = 0
        BY <3>3 DEF Skip
    <3>5. /\ number <= maximum_skipped_messages
          /\ packet.previous_message_number
                <= r.receive_message_number + maximum_skipped_messages
      <4>1. packet.previous_message_number \in Nat
          BY <2>4, RatchetAssumption DEF PacketTyped, MessageNumbers
      <4> QED BY <2>6, <2>8, <4>1 DEF TooFarAhead
    <3>6. key = deriveMessageKey(advanced(ChainKey(t), Skip(0, number)))
      <4>1. key = [kind |-> "message", transcript |-> t, index |-> 0]
          BY <2>5, <2>8, <3>2 DEF MessageKeys, KeysOf
      <4> HIDE DEF t, key, number
      <4> DEFINE ck == ChainKey(t)
      <4>2. ck = [kind |-> "chain", transcript |-> t, index |-> 0] /\ ck.index + 0 = 0
          BY DEF ChainKey
      <4>3. [ck EXCEPT !.index = 0] = ck
          BY <4>2
      <4>4. advanced(ck, 0) = ck
          BY <4>2, <4>3 DEF advanced
      <4>5. deriveMessageKey(advanced(ChainKey(t), 0))
               = [kind |-> "message", transcript |-> t, index |-> 0]
          BY <4>2, <4>4 DEF deriveMessageKey
      <4> QED BY <3>4, <4>1, <4>5
    <3>7. receivePacket(r, packet, "none", clock).ok = TRUE
        BY <2>2, <2>4, <2>8, <3>2, <3>5, <3>6, Opens DEF Openable
    <3> QED BY <3>7 DEF r
  <2> QED BY <2>3, <2>7, <2>8 DEF NextInOrder
<1> QED BY <1>1, RatchetsStayInStep, PTL

-----------------------------------------------------------------------------
(***************************************************************************)
(* Packets that are missing                                                *)
(***************************************************************************)

\* The packets that MissingPacketsDecryptable promises to p, if they are not too
\* far ahead
Missing(p) ==
    {packet \in SentTo(p) :
        /\ ~BagIn(packet, received)
        /\ packet.message_key \notin forgotten
        /\ ~Wrapped(packet)}

\* The keys of the missing packets that the receiving chain has passed are kept
KeptFrom(missing, r) ==
    \A packet \in missing : Passed(r.receive_chain_key, packet.message_key) =>
        \E k \in ToSet(r.skipped) : k.message_key = packet.message_key

\* Packets as far along as the chain are on it
OnOneChain(packets, chain_key) ==
    \A packet \in packets :
        Len(packet.message_key.transcript) = Len(chain_key.transcript) =>
            packet.message_key.transcript = chain_key.transcript

\* The chain has not moved without a packet
MovedBy(packets, chain_key) ==
    \/ chain_key.index = 0
    \/ \E packet \in packets :
          /\ packet.message_key.transcript = chain_key.transcript
          /\ packet.message_key.index + 1 = chain_key.index

\* The numbers of the packets in the chain before the one of transcript t are below
\* the number of messages that is announced for it
Announced(packets, t, previous_message_number) ==
    \A packet \in packets :
        Len(packet.message_key.transcript) + 2 = Len(t) /\ ~Wrapped(packet) =>
            packet.message_key.index < previous_message_number

Receives(p, r) ==
    /\ OnOneChain(SentTo(p), r.receive_chain_key)
    /\ MovedBy(SentTo(p), r.receive_chain_key)
    /\ KeptFrom(Missing(p), r)

SendsInOrder(p, r) ==
    /\ MovedBy(SentBy(p), r.send_chain_key)
    /\ Announced(SentBy(p), r.send_chain_key.transcript, r.previous_message_number)

KeepInv ==
    /\ \A p \in Parties : HasConversation(p) =>
          Receives(p, ratchet[p]) /\ SendsInOrder(p, ratchet[p])
    /\ \A packet \in sent :
          Announced(SentBy(packet.from), packet.message_key.transcript,
                    packet.previous_message_number)

\* A message key is given by its chain and its place in it.
LEMMA SameKey ==
    ASSUME NEW a \in MessageKeys, NEW b \in MessageKeys,
           a.transcript = b.transcript, a.index = b.index
    PROVE  a = b
    BY DEF MessageKeys, KeysOf

\* A message key that a chain has passed since it was at another place of the same
\* chain.
LEMMA PassedSince ==
    ASSUME NEW a, NEW b, a.index \in Nat, b.index \in Nat, Len(a.transcript) \in Nat,
           a.transcript = b.transcript,
           NEW key \in MessageKeys, ~Passed(a, key), Passed(b, key)
    PROVE  /\ key.transcript = a.transcript
           /\ key.index \in Nat /\ a.index <= key.index /\ key.index < b.index
<1>1. key.index \in Nat
    BY DEF MessageKeys, KeysOf
<1> QED BY <1>1 DEF Passed

\* A key that is neither forgotten nor used is in the store after a commit.
LEMMA NotDropped ==
    ASSUME NEW result, NEW now, NEW k \in result.keys,
           \A l \in result.keys \ ToSet(result.ratchet.skipped) :
              \/ isOutdated(l, now)
              \/ Cardinality(result.keys) > header_and_message_store_maximum_keys,
           k.message_key \notin dropped(result, now)
    PROVE  k \in ToSet(result.ratchet.skipped)
    BY DEF dropped

\* One of the keys that are staged is that of a message between the chain's place
\* and the one that the packet has.
LEMMA StagedKeyOf ==
    ASSUME NEW keys, NEW header_key, NEW ck, NEW count \in Nat, NEW now,
           AreStaged(keys, header_key, ck, count, now), ck.index \in Nat,
           NEW key \in MessageKeys, key.transcript = ck.transcript,
           ck.index <= key.index, key.index < ck.index + count
    PROVE  \E k \in ToSet(keys) : k.message_key = key
<1> DEFINE i == key.index - ck.index + 1
<1>1. keys \in Seq(StoredKeys) /\ Len(keys) = count
    BY NewKeysAssumption DEF AreStaged
<1>2. key.index \in Nat
    BY DEF MessageKeys, KeysOf
<1>3. i \in 1..Len(keys) /\ ck.index + i - 1 = key.index
    BY <1>1, <1>2
<1> HIDE DEF i
<1>4. keys[i].message_key.transcript = ck.transcript
      /\ keys[i].message_key.index = ck.index + i - 1
    BY <1>3 DEF AreStaged
<1>5. keys[i] \in ToSet(keys) /\ keys[i] \in StoredKeys
    BY <1>1, <1>3, Vector
<1>6. keys[i].message_key \in MessageKeys
    BY <1>5 DEF StoredKeys
<1>7. keys[i].message_key = key
    BY <1>3, <1>4, <1>6, SameKey
<1> QED BY <1>5, <1>7

\* What is still missing after a packet was opened
StillMissing(missing, packet, result, now) ==
    \A x \in missing :
        /\ PacketTyped(x)
        /\ x.message_key # packet.message_key
        /\ x.message_key \notin dropped(result, now)

\* Using up the key of one packet leaves those of the others.
LEMMA KeptBySkippedKey ==
    ASSUME NEW r, RatchetOK(r), NEW packet, NEW result, NEW now,
           NEW i \in DOMAIN r.skipped, BySkippedKey(r, packet, result, i),
           NEW missing, KeptFrom(missing, r), StillMissing(missing, packet, result, now)
    PROVE  /\ KeptFrom(missing, result.ratchet)
           /\ result.ratchet.receive_chain_key = r.receive_chain_key
<1> DEFINE s == result.ratchet
<1>1. s = [r EXCEPT !.skipped = remove(@, i)] /\ r.skipped[i].message_key = packet.message_key
    BY DEF BySkippedKey
<1>2. /\ \A f \in Fields \ {"skipped"} : s[f] = r[f]
      /\ ToSet(s.skipped) = ToSet(r.skipped) \ {r.skipped[i]}
    BY <1>1, UseKey
<1> HIDE DEF s
<1>3. s.receive_chain_key = r.receive_chain_key
    BY <1>2 DEF Fields
<1>4. KeptFrom(missing, s)
    BY <1>1, <1>2, <1>3 DEF KeptFrom, StillMissing
<1> QED BY <1>3, <1>4 DEF s

\* The current chain keeps the keys of the messages that it passes over.
LEMMA KeptByCurrentChain ==
    ASSUME NEW r, RatchetOK(r), NEW packet, PacketTyped(packet),
           NEW result, NEW now \in Nat, ByCurrentChain(r, packet, result, now),
           NEW missing, KeptFrom(missing, r), StillMissing(missing, packet, result, now)
    PROVE  /\ KeptFrom(missing, result.ratchet)
           /\ result.ratchet.receive_chain_key.transcript = packet.message_key.transcript
           /\ result.ratchet.receive_chain_key.index = packet.message_key.index + 1
           /\ r.receive_chain_key.transcript = packet.message_key.transcript
<1> DEFINE s == result.ratchet
           number == packet.message_number
           count == Skip(r.receive_message_number, number)
           ck == r.receive_chain_key
           hk == r.receive_header_key
           staged == StagedKeys(hk, ck, count, now)
           key == packet.message_key
<1>1. /\ hk \in HeaderKeys
      /\ key = deriveMessageKey(advanced(ck, count))
      /\ OpenedCurrent(r, s, number, now)
      /\ result.keys = ToSet(r.skipped) \union ToSet(staged)
    BY DEF ByCurrentChain
<1>2. number \in MessageNumbers /\ key \in MessageKeys
    BY DEF PacketTyped
<1> HIDE DEF s, number, key
<1>3. PassedCurrent(r, s, number, now)
    BY <1>1, <1>2, OpenedCurrentOK
<1>4. /\ ck \in ChainKeys
      /\ s.receive_chain_key.transcript = ck.transcript
      /\ s.receive_chain_key.index = ck.index + count + 1
      /\ key.transcript = ck.transcript
      /\ key.index = ck.index + count
      /\ \A k \in result.keys \ ToSet(s.skipped) :
            \/ isOutdated(k, now)
            \/ Cardinality(result.keys) > header_and_message_store_maximum_keys
    BY <1>1, <1>3 DEF PassedCurrent
<1>5. count \in Nat /\ ck.index \in Nat /\ Len(ck.transcript) \in Nat
  <2>1. number \in Nat /\ r.receive_message_number \in Nat
      BY <1>2, RatchetAssumption DEF RatchetOK, RatchetTyped, MessageNumbers
  <2> QED BY <1>4, <2>1, SkipLimit, LenProperties DEF ChainKeys, KeysOf, Transcripts
<1>6. AreStaged(staged, hk, ck, count, now)
    BY <1>1, <1>4, <1>5, StagedKeysAre
<1> HIDE DEF staged, hk, count
<1>7. ASSUME NEW x \in missing, Passed(s.receive_chain_key, x.message_key)
      PROVE  \E k \in ToSet(s.skipped) : k.message_key = x.message_key
  <2>1. x.message_key \in MessageKeys /\ x.message_key # key
        /\ x.message_key \notin dropped(result, now)
      BY DEF StillMissing, PacketTyped, key
  <2>2. \E k \in result.keys : k.message_key = x.message_key
    <3>1. CASE Passed(ck, x.message_key)
        BY <1>1, <3>1 DEF KeptFrom
    <3>2. CASE ~Passed(ck, x.message_key)
      <4> DEFINE b == s.receive_chain_key
      <4>1. b.index \in Nat /\ b.index = ck.index + count + 1 /\ b.transcript = ck.transcript
          BY <1>4, <1>5
      <4> HIDE DEF b, ck
      <4>2. /\ x.message_key.transcript = ck.transcript
            /\ x.message_key.index \in Nat
            /\ ck.index <= x.message_key.index /\ x.message_key.index < b.index
          BY <1>5, <1>7, <2>1, <3>2, <4>1, PassedSince DEF b
      <4>3. x.message_key.index # ck.index + count
          BY <1>2, <1>4, <2>1, <4>2, SameKey
      <4>4. x.message_key.index < ck.index + count
          BY <1>5, <4>1, <4>2, <4>3
      <4>5. \E k \in ToSet(staged) : k.message_key = x.message_key
          BY <1>5, <1>6, <2>1, <4>2, <4>4, StagedKeyOf
      <4> QED BY <1>1, <4>5
    <3> QED BY <3>1, <3>2
  <2>3. PICK k \in result.keys : k.message_key = x.message_key
      BY <2>2
  <2>4. k \in ToSet(s.skipped)
      BY <1>4, <2>1, <2>3, NotDropped DEF s
  <2> QED BY <2>3, <2>4
<1> QED BY <1>4, <1>5, <1>7 DEF KeptFrom, s, key, ck

\* What a packet that starts a new chain of transcript t implies for the packets
\* that are missing: they are on the new chain, or on the chain before and below
\* the number that the packet announces, or on an older one
Precede(missing, t, previous_message_number) ==
    \A x \in missing :
        LET key == x.message_key
        IN  /\ Len(key.transcript) = Len(t) => key.transcript = t
            /\ Len(key.transcript) + 1 # Len(t)
            /\ Len(key.transcript) + 2 = Len(t) => key.index < previous_message_number
            /\ key.index < message_numbers

\* So does a new chain, and it stages what is left of the old one.
LEMMA KeptByNextChain ==
    ASSUME NEW r, RatchetOK(r), Aligned(r), NEW packet, PacketTyped(packet),
           NEW result, NEW now \in Nat, ByNextChain(r, packet, result, now),
           NEW missing, KeptFrom(missing, r), StillMissing(missing, packet, result, now),
           Precede(missing, packet.message_key.transcript, packet.previous_message_number)
    PROVE  /\ KeptFrom(missing, result.ratchet)
           /\ result.ratchet.receive_chain_key.transcript = packet.message_key.transcript
           /\ result.ratchet.receive_chain_key.index = packet.message_key.index + 1
<1> DEFINE s == result.ratchet
           number == packet.message_number
           previous == packet.previous_message_number
           ephemeral == packet.ephemeral
           key == packet.message_key
           u == ReceivingTranscript(r, ephemeral)
           count == Skip(0, number)
           ck == r.receive_chain_key
           hk == r.receive_header_key
           nhk == r.next_receive_header_key
           rest == RestOfChain(r, previous, now)
           new == StagedKeys(nhk, ChainKey(u), count, now)
           staged == StagedForNext(r, ephemeral, number, previous, now)
<1>1. /\ number \in MessageNumbers /\ previous \in MessageNumbers /\ ephemeral \in Name
      /\ key \in MessageKeys
    BY DEF PacketTyped
<1>2. /\ r.ratchet_flag = FALSE
      /\ key = deriveMessageKey(advanced(ChainKey(u), count))
      /\ ck \in ChainKeys => previous <= r.receive_message_number + maximum_skipped_messages
      /\ result.keys = ToSet(r.skipped) \union ToSet(staged)
      /\ OpenedNext(r, s, ephemeral, number, previous, now)
    BY DEF ByNextChain
<1> HIDE DEF s, number, previous, ephemeral, key
<1>3. PassedNext(r, s, ephemeral, number, previous, now)
    BY <1>1, <1>2, OpenedNextOK
<1>4. StagedOfBoth(r, ephemeral, number, previous, now)
    BY <1>1, <1>2, NextStagedAre
<1>5. /\ u \in Transcripts /\ Len(u) = Len(r.root_key.transcript) + 1
      /\ s.receive_chain_key.transcript = u
      /\ s.receive_chain_key.index = count + 1
      /\ key.transcript = u /\ key.index = count
      /\ \A k \in result.keys \ ToSet(s.skipped) :
            \/ isOutdated(k, now)
            \/ Cardinality(result.keys) > header_and_message_store_maximum_keys
    BY <1>2, <1>3 DEF PassedNext
<1>6. result.keys = ToSet(r.skipped) \union ToSet(rest) \union ToSet(new)
    BY <1>2, <1>4 DEF StagedOfBoth
<1>7. /\ RatchetTyped(r) /\ nhk \in HeaderKeys /\ ck \in ChainKeys \union EmptyKeys
      /\ number \in Nat /\ previous \in Nat /\ r.receive_message_number \in Nat
      /\ ck \in ChainKeys => hk \in HeaderKeys
    BY <1>1, RatchetAssumption DEF RatchetOK, RatchetTyped, ReceiveChainOK, MessageNumbers
<1>8. /\ Len(ck.transcript) \in Nat /\ ck.index \in Nat
      /\ Len(r.root_key.transcript) \in Nat
    BY <1>7, Lengths
<1>9. Len(r.root_key.transcript) = Len(ck.transcript) + 1
    BY <1>2 DEF Aligned, TurnAligned
<1>10. count \in Nat
    BY <1>7, SkipLimit
<1>11. /\ ChainKey(u) \in ChainKeys /\ ChainKey(u).transcript = u /\ ChainKey(u).index = 0
  <2> HIDE DEF u
  <2> QED BY <1>5 DEF ChainKey, ChainKeys, KeysOf
<1> HIDE DEF u, count, staged
<1>12. AreStaged(new, nhk, ChainKey(u), count, now)
  <2> DEFINE fresh == ChainKey(u)
  <2>1. fresh \in ChainKeys
      BY <1>11
  <2> HIDE DEF fresh, nhk
  <2>2. AreStaged(StagedKeys(nhk, fresh, count, now), nhk, fresh, count, now)
      BY <1>7, <1>10, <2>1, StagedKeysAre
  <2> QED BY <2>2 DEF fresh
<1> HIDE DEF new, nhk
<1>13. ASSUME NEW x \in missing, Passed(s.receive_chain_key, x.message_key)
      PROVE  \E k \in ToSet(s.skipped) : k.message_key = x.message_key
  <2> DEFINE mk == x.message_key
             t == mk.transcript
  <2>1. /\ mk \in MessageKeys /\ mk # key
        /\ mk \notin dropped(result, now)
      BY DEF StillMissing, PacketTyped, key
  <2>2. mk.index \in Nat /\ t \in Transcripts /\ Len(t) \in Nat
      BY <2>1, LenProperties DEF MessageKeys, KeysOf, Transcripts
  <2>3. /\ Len(t) = Len(u) => t = u
        /\ Len(t) + 1 # Len(u)
        /\ Len(t) + 2 = Len(u) => mk.index < previous
        /\ mk.index < message_numbers
      BY <1>5 DEF Precede, key, previous
  <2>4. Len(t) <= Len(u) /\ (t = u => mk.index < count + 1)
      BY <1>5, <1>13 DEF Passed
  <2> HIDE DEF mk, t
  <2>5. \E k \in result.keys : k.message_key = mk
    <3>1. CASE Passed(ck, mk)
        BY <1>6, <3>1 DEF KeptFrom, mk
    <3>2. CASE ~Passed(ck, mk) /\ Len(t) = Len(u)
      <4> DEFINE fresh == ChainKey(u)
      <4>1. t = u
          BY <2>3, <3>2
      <4>2. mk.index # count
          BY <1>1, <1>5, <2>1, <4>1, SameKey DEF t
      <4>3. mk.index < fresh.index + count /\ fresh.index <= mk.index /\ fresh.index \in Nat
            /\ mk.transcript = fresh.transcript
          BY <1>10, <1>11, <2>2, <2>4, <4>1, <4>2 DEF t
      <4> HIDE DEF fresh
      <4>4. AreStaged(new, nhk, fresh, count, now)
          BY <1>12 DEF fresh
      <4>5. \E k \in ToSet(new) : k.message_key = mk
          BY <1>10, <2>1, <4>3, <4>4, StagedKeyOf
      <4> QED BY <1>6, <4>5
    <3>3. CASE ~Passed(ck, mk) /\ Len(t) # Len(u)
      <4> DEFINE skip == Skip(r.receive_message_number, previous)
                 keys == StagedKeys(hk, ck, skip, now)
      <4>1. Len(t) <= Len(ck.transcript)
          BY <1>5, <1>8, <1>9, <2>2, <2>3, <2>4, <3>3
      <4>2. t = ck.transcript /\ ck.index <= mk.index
          BY <1>8, <2>2, <3>3, <4>1 DEF Passed, t
      <4>3. mk.index < previous
          BY <1>5, <1>8, <1>9, <2>3, <4>2
      <4>4. ck \in ChainKeys
        <5>1. ck.transcript # <<>>
            BY <2>2, <4>2 DEF Transcripts
        <5> HIDE DEF ck
        <5>2. ck \notin EmptyKeys
            BY <5>1 DEF EmptyKeys, NoKey, ZeroKey
        <5> QED BY <1>7, <5>2
      <4>5. r.receive_message_number = ck.index
        <5>1. r.receive_message_number = ck.index % message_numbers
            BY <4>4 DEF Aligned, Numbered
        <5>2. ck.index < message_numbers
            BY <1>8, <2>2, <2>3, <4>2, RatchetAssumption
        <5> HIDE DEF ck
        <5> QED BY <1>8, <5>1, <5>2, NextNumber
      <4>6. skip \in Nat /\ ck.index + skip = previous
        <5> HIDE DEF ck
        <5> QED BY <1>7, <1>8, <2>2, <4>2, <4>3, <4>5 DEF Skip
      <4>7. rest = keys
          BY <4>4 DEF RestOfChain
      <4> HIDE DEF rest, skip, hk, ck
      <4>8. AreStaged(keys, hk, ck, skip, now)
          BY <1>7, <4>4, <4>6, StagedKeysAre
      <4> HIDE DEF keys
      <4>9. mk.index < ck.index + skip /\ mk.transcript = ck.transcript
          BY <4>2, <4>3, <4>6 DEF t
      <4>10. \E k \in ToSet(keys) : k.message_key = mk
          BY <1>8, <2>1, <4>2, <4>6, <4>8, <4>9, StagedKeyOf
      <4> QED BY <1>6, <4>7, <4>10
    <3> QED BY <3>1, <3>2, <3>3
  <2>6. PICK k \in result.keys : k.message_key = mk
      BY <2>5
  <2>7. k \in ToSet(s.skipped)
      BY <1>5, <2>1, <2>6, NotDropped DEF s
  <2> QED BY <2>6, <2>7 DEF mk
<1> QED BY <1>5, <1>13 DEF KeptFrom, s, key

\* What is known of a packet that q has sent
ComesFrom(q, x) ==
    /\ q \in Parties /\ HasConversation(q)
    /\ RatchetOK(ratchet[q]) /\ Aligned(ratchet[q])
    /\ x \in sent /\ x.from = q /\ PacketTyped(x)
    /\ OnChain(x, ratchet[q])
    /\ Passed(ratchet[q].send_chain_key, x.message_key)
    /\ x.message_key \in MessageKeys /\ x.message_key.index \in Nat
    /\ x.message_key.transcript \in Transcripts
    /\ Len(x.message_key.transcript) \in Nat /\ Len(x.message_key.transcript) > 0
    /\ Len(x.message_key.transcript) % 2 = 0 <=> q = 2

\* It is known of every packet.
LEMMA PacketComesFrom ==
    ASSUME SafeInv, SyncInv, NEW x \in sent
    PROVE  ComesFrom(x.from, x)
<1> DEFINE q == x.from
           key == x.message_key
<1>1. /\ q \in Parties /\ HasConversation(q) /\ RatchetOK(ratchet[q]) /\ PacketTyped(x)
      /\ Passed(ratchet[q].send_chain_key, key)
    BY SenderHasConversation
<1>2. Aligned(ratchet[q]) /\ OnChain(x, ratchet[q])
    BY <1>1 DEF SyncInv
<1>3. Len(key.transcript) % 2 = 0 <=> q = 2
    BY DEF SafeInv, PacketsOK
<1>4. key \in MessageKeys
    BY <1>1 DEF PacketTyped
<1> HIDE DEF key
<1>5. key.index \in Nat /\ key.transcript \in Transcripts
    BY <1>4 DEF MessageKeys, KeysOf
<1>6. Len(key.transcript) \in Nat /\ Len(key.transcript) > 0
    BY <1>5, HeaderLengths
<1> QED BY <1>1, <1>2, <1>3, <1>4, <1>5, <1>6 DEF ComesFrom, key

\* The packets of the chain that a new packet starts, and of those before it.
LEMMA NewChainPackets ==
    ASSUME SafeInv, SyncInv, KeepInv, NEW p \in Parties, NEW packet \in SentTo(p),
           NEW r, RatchetOK(r), InStep(r, ratchet[Peer(p)]), r.ratchet_flag = FALSE,
           Len(packet.message_key.transcript) = Len(r.root_key.transcript) + 1,
           NEW missing \in SUBSET Missing(p)
    PROVE  /\ \A x \in SentTo(p) :
                 Len(x.message_key.transcript) = Len(packet.message_key.transcript) =>
                    x.message_key.transcript = packet.message_key.transcript
           /\ Precede(missing, packet.message_key.transcript, packet.previous_message_number)
<1> DEFINE q == Peer(p)
           sender == ratchet[q]
           u == packet.message_key.transcript
<1>1. \A x \in SentTo(p) : ComesFrom(q, x)
    BY PacketComesFrom DEF SentTo, SentBy
<1>2. ASSUME NEW x \in SentTo(p), Len(x.message_key.transcript) = Len(u)
      PROVE  x.message_key.transcript = sender.root_key.transcript
  <2>1. /\ RatchetOK(sender) /\ Aligned(sender) /\ x.message_key \in MessageKeys
        /\ OnChain(x, sender) /\ Passed(sender.send_chain_key, x.message_key)
      BY <1>1 DEF ComesFrom
  <2>2. Len(x.message_key.transcript) = Len(r.root_key.transcript) + 1
      BY <1>2
  <2>3. InStep(r, sender)
      OBVIOUS
  <2> HIDE DEF sender
  <2> QED BY <2>1, <2>2, <2>3, SenderIsAhead
<1>3. \A x \in SentTo(p) :
         Len(x.message_key.transcript) = Len(u) => x.message_key.transcript = u
    BY <1>2
<1>4. /\ Len(u) \in Nat /\ (Len(u) % 2 = 0 <=> q = 2) /\ packet \in sent /\ packet.from = q
    BY <1>1 DEF ComesFrom
<1>5. Announced(SentBy(q), u, packet.previous_message_number)
    BY <1>4 DEF KeepInv
<1> HIDE DEF u, sender
<1>6. ASSUME NEW x \in missing
      PROVE  LET key == x.message_key
             IN  /\ Len(key.transcript) = Len(u) => key.transcript = u
                 /\ Len(key.transcript) + 1 # Len(u)
                 /\ Len(key.transcript) + 2 = Len(u) =>
                       key.index < packet.previous_message_number
                 /\ key.index < message_numbers
  <2> DEFINE key == x.message_key
  <2>1. x \in SentTo(p) /\ ~Wrapped(x) /\ x \in SentBy(q)
      BY DEF Missing, SentTo
  <2>2. /\ Len(key.transcript) \in Nat /\ (Len(key.transcript) % 2 = 0 <=> q = 2)
        /\ key.index \in Nat /\ x \in sent
      BY <1>1, <2>1 DEF ComesFrom
  <2>3. key.index < message_numbers
      BY <2>1, <2>2, RatchetAssumption DEF Wrapped
  <2>4. Len(key.transcript) + 2 = Len(u) => key.index < packet.previous_message_number
      BY <1>5, <2>1 DEF Announced
  <2>5. Len(key.transcript) = Len(u) => key.transcript = u
      BY <1>3, <2>1
  <2>6. Len(key.transcript) + 1 # Len(u)
    <3> DEFINE n == Len(key.transcript)
    <3> HIDE DEF n, key, q
    <3>1. n \in Nat /\ (n % 2 = 0 <=> q = 2)
        BY <2>2 DEF n
    <3>2. /\ n % 2 = 0 <=> ~(n % 2 = 1)
          /\ (n + 1) % 2 = 0 <=> n % 2 = 1
        BY <3>1, Parity
    <3>3. n + 1 # Len(u)
        BY <1>4, <3>1, <3>2
    <3> QED BY <3>3 DEF n
  <2> QED BY <2>3, <2>4, <2>5, <2>6
<1>7. Precede(missing, u, packet.previous_message_number)
    BY <1>6 DEF Precede
<1> QED BY <1>3, <1>7 DEF u

\* What holds of p's ratchet after a packet, if "missing" is what is missing then
StillReceives(p, missing, r, s) ==
    /\ OnOneChain(SentTo(p), s.receive_chain_key)
    /\ MovedBy(SentTo(p), s.receive_chain_key)
    /\ KeptFrom(missing, s)
    /\ s.send_chain_key = r.send_chain_key
    /\ s.previous_message_number = r.previous_message_number

\* Whichever way a packet is received, the keys of what is missing are kept.
LEMMA ReceiveKeeps ==
    ASSUME SafeInv, SyncInv, KeepInv, NEW p \in Parties, NEW packet \in SentTo(p),
           NEW r, RatchetOK(r), Aligned(r), InStep(r, ratchet[Peer(p)]), Receives(p, r),
           NEW result, Outcome(r, packet, result, clock), NEW missing \in SUBSET Missing(p),
           result.ok = TRUE => StillMissing(missing, packet, result, clock)
    PROVE  StillReceives(p, missing, r, result.ratchet)
<1> DEFINE s == result.ratchet
           key == packet.message_key
<1>1. /\ OnOneChain(SentTo(p), r.receive_chain_key)
      /\ MovedBy(SentTo(p), r.receive_chain_key)
      /\ KeptFrom(missing, r)
    BY DEF Receives, KeptFrom
<1>2. PacketTyped(packet) /\ clock \in Nat
  <2>1. clock \in 0..MaxTime /\ MaxTime \in Nat
      BY ConversationAssumption DEF SafeInv, TypesOK
  <2>2. PacketTyped(packet)
      BY DEF SafeInv, PacketsOK, SentTo, SentBy
  <2> QED BY <2>1, <2>2
<1>3. ASSUME NEW i \in DOMAIN r.skipped, BySkippedKey(r, packet, result, i)
      PROVE  StillReceives(p, missing, r, s)
  <2>1. /\ result.ok = TRUE /\ s = [r EXCEPT !.skipped = remove(@, i)]
      BY <1>3 DEF BySkippedKey
  <2>2. KeptFrom(missing, s) /\ s.receive_chain_key = r.receive_chain_key
      BY <1>1, <1>3, <2>1, KeptBySkippedKey
  <2>3. \A f \in Fields \ {"skipped"} : s[f] = r[f]
      BY <2>1, UseKey
  <2> HIDE DEF s
  <2>4. /\ s.send_chain_key = r.send_chain_key
        /\ s.previous_message_number = r.previous_message_number
      BY <2>3 DEF Fields
  <2> QED BY <1>1, <2>2, <2>4 DEF StillReceives
<1>4. ASSUME ByCurrentChain(r, packet, result, clock)
      PROVE  StillReceives(p, missing, r, s)
  <2>1. result.ok = TRUE /\ OpenedCurrent(r, s, packet.message_number, clock)
      BY <1>4 DEF ByCurrentChain
  <2>2. /\ KeptFrom(missing, s)
        /\ s.receive_chain_key.transcript = key.transcript
        /\ s.receive_chain_key.index = key.index + 1
        /\ r.receive_chain_key.transcript = key.transcript
      BY <1>1, <1>2, <1>4, <2>1, KeptByCurrentChain
  <2>3. /\ s.send_chain_key = r.send_chain_key
        /\ s.previous_message_number = r.previous_message_number
      BY <2>1 DEF OpenedCurrent
  <2> HIDE DEF s
  <2>4. OnOneChain(SentTo(p), s.receive_chain_key)
      BY <1>1, <2>2 DEF OnOneChain
  <2>5. MovedBy(SentTo(p), s.receive_chain_key)
      BY <2>2 DEF MovedBy
  <2> QED BY <2>2, <2>3, <2>4, <2>5 DEF StillReceives
<1>5. ASSUME ByNextChain(r, packet, result, clock)
      PROVE  StillReceives(p, missing, r, s)
  <2> DEFINE previous == packet.previous_message_number
             number == packet.message_number
             ephemeral == packet.ephemeral
  <2>1. /\ result.ok = TRUE
        /\ r.ratchet_flag = FALSE
        /\ OpenedNext(r, s, ephemeral, number, previous, clock)
        /\ key = deriveMessageKey(advanced(ChainKey(ReceivingTranscript(r, ephemeral)),
                                           Skip(0, number)))
        /\ r.receive_chain_key \in ChainKeys =>
              previous <= r.receive_message_number + maximum_skipped_messages
        /\ ephemeral \in Name /\ number \in MessageNumbers /\ previous \in MessageNumbers
      BY <1>2, <1>5 DEF ByNextChain, PacketTyped
  <2>2. Len(key.transcript) = Len(r.root_key.transcript) + 1
    <3> HIDE DEF s, number, previous, ephemeral
    <3>1. PassedNext(r, s, ephemeral, number, previous, clock)
        BY <1>2, <2>1, OpenedNextOK
    <3> QED BY <2>1, <3>1 DEF PassedNext
  <2>3. /\ \A x \in SentTo(p) :
              Len(x.message_key.transcript) = Len(key.transcript) =>
                 x.message_key.transcript = key.transcript
        /\ Precede(missing, key.transcript, previous)
      BY <2>1, <2>2, NewChainPackets
  <2>4. /\ KeptFrom(missing, s)
        /\ s.receive_chain_key.transcript = key.transcript
        /\ s.receive_chain_key.index = key.index + 1
      BY <1>1, <1>2, <1>5, <2>1, <2>3, KeptByNextChain
  <2>5. /\ s.send_chain_key = r.send_chain_key
        /\ s.previous_message_number = r.previous_message_number
      BY <2>1 DEF OpenedNext
  <2> HIDE DEF s
  <2>6. OnOneChain(SentTo(p), s.receive_chain_key)
      BY <2>3, <2>4 DEF OnOneChain
  <2>7. MovedBy(SentTo(p), s.receive_chain_key)
      BY <2>4 DEF MovedBy
  <2> QED BY <2>4, <2>5, <2>6, <2>7 DEF StillReceives
<1>6. ASSUME ByNothing(r, result)
      PROVE  StillReceives(p, missing, r, s)
  <2>1. Rejected(r, s)
      BY <1>6 DEF ByNothing
  <2> HIDE DEF s
  <2>2. /\ s.receive_chain_key = r.receive_chain_key /\ s.skipped = r.skipped
        /\ s.send_chain_key = r.send_chain_key
        /\ s.previous_message_number = r.previous_message_number
      BY <2>1 DEF Rejected, SameKeys
  <2>3. KeptFrom(missing, s)
      BY <1>1, <2>2 DEF KeptFrom
  <2> QED BY <1>1, <2>2, <2>3 DEF StillReceives
<1> QED BY <1>3, <1>4, <1>5, <1>6 DEF Outcome

\* Created by the receiver of a prekey packet, a ratchet has passed no message.
LEMMA CreatedReceives ==
    ASSUME SafeInv, SyncInv, NEW p \in Parties, ~HasConversation(p), NEW packet \in SentTo(p),
           packet.prekey_metadata # NoPrekeyMetadata
    PROVE  LET r == receivingRatchet(p, ratchet[p], packet)
           IN  /\ Receives(p, r)
               /\ SendsInOrder(p, r)
<1> DEFINE q == Peer(p)
           sender == ratchet[q]
           metadata == packet.prekey_metadata
           r == receivingRatchet(p, ratchet[p], packet)
           role == p > q
<1>1. \A x \in SentTo(p) : ComesFrom(q, x)
    BY PacketComesFrom DEF SentTo, SentBy
<1>2. RatchetOK(r) /\ Aligned(r) /\ InStep(r, sender)
  <2>1. RatchetOK(r)
      BY ReceivingRatchet
  <2> QED BY <2>1, TriesInStep
<1>3. /\ metadata \in [identity : Name, ephemeral : Name, prekey : Name]
      /\ metadata.identity = Identity(q)
    BY <1>1 DEF ComesFrom, PacketTyped
<1>4. r = create(Identity(p), metadata.prekey, Identity(q), metadata.ephemeral)
    BY <1>3 DEF receivingRatchet, HasConversation
<1>5. /\ r.receive_chain_key.index = 0 /\ r.send_chain_key.index = 0
      /\ Len(r.receive_chain_key.transcript) <= 1
      /\ r.ratchet_flag = FALSE => r.receive_chain_key = NoKey
  <2>1. role \in BOOLEAN /\ Identity(p)[1] = p /\ Identity(q)[1] = q
      BY DEF Identity, Parties, Peer
  <2> DEFINE t == <<triple_diffie_hellman(Identity(p), metadata.prekey, Identity(q),
                                          metadata.ephemeral, role)>>
  <2>2. /\ r.send_chain_key = IF role = ALICE THEN NoKey ELSE ChainKey(t)
        /\ r.receive_chain_key = IF role = ALICE THEN ChainKey(t) ELSE NoKey
        /\ r.ratchet_flag = role
    <3> DEFINE ours == Identity(p)
               theirs == Identity(q)
               derived == derive_initial_root_chain_and_header_keys(
                             ours, metadata.prekey, theirs, metadata.ephemeral, role)
               c == create(ours, metadata.prekey, theirs, metadata.ephemeral)
    <3>1. (ours[1] > theirs[1]) = role
        BY <2>1
    <3>2. /\ derived.send_chain_key = IF role = ALICE THEN NoKey ELSE ChainKey(t)
          /\ derived.receive_chain_key = IF role = ALICE THEN ChainKey(t) ELSE NoKey
      <4> HIDE DEF role
      <4> QED BY DEF derive_initial_root_chain_and_header_keys
    <3>3. /\ c.send_chain_key = derived.send_chain_key
          /\ c.receive_chain_key = derived.receive_chain_key
          /\ c.ratchet_flag = role
      <4> HIDE DEF role, ours, theirs
      <4> QED BY <3>1 DEF create
    <3> HIDE DEF derived, t, r, role
    <3> QED BY <1>4, <3>2, <3>3
  <2>3. /\ ChainKey(t).index = 0 /\ Len(ChainKey(t).transcript) = 1
        /\ NoKey.index = 0 /\ Len(NoKey.transcript) = 0
      BY DEF ChainKey, NoKey
  <2> HIDE DEF t, r, role
  <2>4. CASE role = TRUE
    <3>1. /\ r.send_chain_key = NoKey /\ r.receive_chain_key = ChainKey(t)
          /\ ~(r.ratchet_flag = FALSE)
        BY <2>2, <2>4 DEF ALICE
    <3>2. r.receive_chain_key.index = 0 /\ r.send_chain_key.index = 0
        BY <2>3, <3>1
    <3>3. Len(r.receive_chain_key.transcript) = 1
        BY <2>3, <3>1
    <3> QED BY <3>1, <3>2, <3>3
  <2>5. CASE role = FALSE
    <3>1. r.send_chain_key = ChainKey(t) /\ r.receive_chain_key = NoKey
        BY <2>2, <2>5 DEF ALICE
    <3> QED BY <2>3, <3>1
  <2> QED BY <2>1, <2>4, <2>5
<1> HIDE DEF r, sender
<1>6. r.ratchet_flag \in BOOLEAN
    BY <1>2 DEF RatchetOK, RatchetTyped
<1>7. Len(r.receive_chain_key.transcript) \in Nat
    BY <1>2, Lengths DEF RatchetOK
<1>8. ASSUME NEW x \in SentTo(p),
             Len(x.message_key.transcript) <= Len(r.receive_chain_key.transcript)
      PROVE  x.message_key.transcript = r.receive_chain_key.transcript
  <2>1. /\ Len(x.message_key.transcript) \in Nat /\ Len(x.message_key.transcript) > 0
        /\ OnChain(x, sender) /\ Aligned(sender) /\ RatchetOK(sender)
      BY <1>1 DEF ComesFrom, sender
  <2>2. r.ratchet_flag = TRUE
    <3> SUFFICES ASSUME r.ratchet_flag = FALSE PROVE FALSE
        BY <1>6
    <3>1. Len(r.receive_chain_key.transcript) = 0
        BY <1>5 DEF NoKey
    <3> QED BY <1>8, <2>1, <3>1
  <2>3. Synced(r, sender)
      BY <1>2, <2>2 DEF InStep, Synced, Ahead
  <2>4. sender.send_chain_key.transcript = r.receive_chain_key.transcript
      BY <1>2, <2>1, <2>3 DEF Synced, Aligned, TurnAligned
  <2>5. Len(x.message_key.transcript) = Len(r.receive_chain_key.transcript)
      BY <1>5, <1>7, <1>8, <2>1
  <2> QED BY <2>1, <2>4, <2>5 DEF OnChain
<1>9. OnOneChain(SentTo(p), r.receive_chain_key)
  <2> SUFFICES ASSUME NEW x \in SentTo(p),
                      Len(x.message_key.transcript) = Len(r.receive_chain_key.transcript)
               PROVE  x.message_key.transcript = r.receive_chain_key.transcript
      BY DEF OnOneChain
  <2> QED BY <1>7, <1>8
<1>10. KeptFrom(Missing(p), r)
  <2> SUFFICES ASSUME NEW x \in SentTo(p), Passed(r.receive_chain_key, x.message_key)
               PROVE  FALSE
      BY DEF KeptFrom, Missing
  <2>1. x.message_key.transcript = r.receive_chain_key.transcript
      BY <1>8 DEF Passed
  <2>2. x.message_key.index < 0 /\ x.message_key.index \in Nat
      BY <1>1, <1>5, <2>1 DEF Passed, ComesFrom
  <2> QED BY <2>2
<1>11. MovedBy(SentTo(p), r.receive_chain_key) /\ MovedBy(SentBy(p), r.send_chain_key)
    BY <1>5 DEF MovedBy
<1>12. SentBy(p) = {}
    BY DEF SafeInv, PartyOK
<1>13. Announced(SentBy(p), r.send_chain_key.transcript, r.previous_message_number)
    BY <1>12 DEF Announced
<1>14. Receives(p, r) /\ SendsInOrder(p, r)
    BY <1>9, <1>10, <1>11, <1>13 DEF Receives, SendsInOrder
<1> QED BY <1>14 DEF r

\* Nothing is sent, and what is missing is kept.
LEMMA KeepSameNetwork ==
    ASSUME KeepInv, sent' = sent,
           \A a \in Parties : (HasConversation(a))' =>
              /\ OnOneChain(SentTo(a), ratchet'[a].receive_chain_key)
              /\ MovedBy(SentTo(a), ratchet'[a].receive_chain_key)
              /\ KeptFrom((Missing(a))', ratchet'[a])
              /\ SendsInOrder(a, ratchet'[a])
    PROVE  KeepInv'
<1>1. \A a : (SentTo(a))' = SentTo(a) /\ (SentBy(a))' = SentBy(a)
    BY DEF SentTo, SentBy
<1>2. \A x : (Wrapped(x))' <=> Wrapped(x)
    BY DEF Wrapped
<1>3. \A a, t, n : (Announced(SentBy(a), t, n))' <=> Announced(SentBy(a), t, n)
    BY <1>1, <1>2 DEF Announced
<1>4. ASSUME NEW a \in Parties, (HasConversation(a))'
      PROVE  (Receives(a, ratchet[a]))' /\ (SendsInOrder(a, ratchet[a]))'
  <2>1. (Receives(a, ratchet[a]))'
      BY <1>1, <1>4 DEF Receives, OnOneChain, MovedBy, KeptFrom
  <2>2. (SendsInOrder(a, ratchet[a]))'
      BY <1>1, <1>2, <1>4 DEF SendsInOrder, MovedBy, Announced
  <2> QED BY <2>1, <2>2
<1>5. ASSUME NEW x \in sent'
      PROVE  (Announced(SentBy(x.from), x.message_key.transcript,
                        x.previous_message_number))'
    BY <1>3, <1>5 DEF KeepInv
<1> QED BY <1>4, <1>5 DEF KeepInv

\* Nothing becomes missing, and what was received or dropped is not missing
LessMissing(packet, result) ==
    /\ sent' = sent
    /\ \A a \in Parties : (Missing(a))' \subseteq Missing(a)
    /\ result.ok = TRUE => \A a \in Parties : \A x \in (Missing(a))' :
          x # packet /\ x.message_key \notin dropped(result, clock)

\* Nothing becomes missing when a packet is received.
LEMMA LessIsMissing ==
    ASSUME SafeInv, NEW p \in Parties, NEW packet, NEW result, result.ok \in BOOLEAN,
           applyResult(p, packet, result)
    PROVE  LessMissing(packet, result)
<1>1. /\ received' = IF result.ok THEN received (+) SetToBag({packet}) ELSE received
      /\ forgotten' = IF result.ok THEN forgotten \union dropped(result, clock) ELSE forgotten
      /\ sent' = sent
    BY DEF applyResult
<1>2. IsABag(received)
    BY DEF SafeInv, TypesOK
<1>3. \A B, x : BagIn(x, B) <=> x \in DOMAIN B
    BY DEF BagIn, BagToSet
<1>4. result.ok = TRUE => DOMAIN received' = DOMAIN received \union {packet}
    BY <1>1, <1>2, OneMore
<1>5. result.ok = FALSE => received' = received
    BY <1>1
<1>6. \A x : BagIn(x, received) => BagIn(x, received')
    BY <1>3, <1>4, <1>5
<1>7. forgotten \subseteq forgotten'
      /\ (result.ok = TRUE => dropped(result, clock) \subseteq forgotten')
    BY <1>1
<1>8. \A a : (SentTo(a))' = SentTo(a)
    BY <1>1 DEF SentTo, SentBy
<1>9. \A x : (Wrapped(x))' <=> Wrapped(x)
    BY <1>1 DEF Wrapped
<1>10. ASSUME NEW a \in Parties, NEW x \in (Missing(a))'
       PROVE  /\ x \in Missing(a)
              /\ result.ok = TRUE => x # packet /\ x.message_key \notin dropped(result, clock)
  <2>1. /\ x \in SentTo(a) /\ ~BagIn(x, received')
        /\ x.message_key \notin forgotten' /\ ~Wrapped(x)
      BY <1>8, <1>9 DEF Missing
  <2>2. x \in Missing(a)
      BY <1>6, <1>7, <2>1 DEF Missing
  <2>3. result.ok = TRUE => x # packet
      BY <1>3, <1>4, <2>1
  <2> QED BY <1>7, <2>1, <2>2, <2>3
<1> QED BY <1>1, <1>10 DEF LessMissing

\* Receiving a packet, or rejecting it, keeps what is missing.
LEMMA ReceiveKeep ==
    ASSUME SafeInv, SyncInv, KeepInv, NEW p \in Parties, NEW packet \in SentTo(p), NEW damage,
           HasConversation(p) \/ packet.prekey_metadata # NoPrekeyMetadata,
           LET r == receivingRatchet(p, ratchet[p], packet)
           IN  applyResult(p, packet, receivePacket(r, packet, damage, clock))
    PROVE  KeepInv'
<1> DEFINE q == Peer(p)
           r == receivingRatchet(p, ratchet[p], packet)
           result == receivePacket(r, packet, damage, clock)
           s == result.ratchet
           missing == (Missing(p))'
<1>1. RatchetOK(r) /\ (HasConversation(p) => r = ratchet[p])
    BY ReceivingRatchet
<1>2. PacketTyped(packet) /\ clock \in Nat
  <2>1. clock \in 0..MaxTime /\ MaxTime \in Nat
      BY ConversationAssumption DEF SafeInv, TypesOK
  <2>2. PacketTyped(packet)
      BY DEF SafeInv, PacketsOK, SentTo, SentBy
  <2> QED BY <2>1, <2>2
<1>3. Aligned(r) /\ InStep(r, ratchet[q])
    BY TriesInStep
<1>4. Receives(p, r) /\ SendsInOrder(p, r)
  <2>1. CASE HasConversation(p)
      BY <1>1, <2>1 DEF KeepInv
  <2>2. CASE ~HasConversation(p)
      BY <2>2, CreatedReceives
  <2> QED BY <2>1, <2>2
<1>5. applyResult(p, packet, result)
    OBVIOUS
<1> HIDE DEF r
<1>6. Outcome(r, packet, result, clock)
    BY <1>1, <1>2, Receiving
<1> HIDE DEF result
<1>7. Effect(r, packet, result)
    BY <1>1, <1>2, <1>6, ReceivingEffect
<1>8. result.ok \in BOOLEAN
    BY <1>7 DEF Effect
<1>9. /\ sent' = sent
      /\ \A a \in Parties : (Missing(a))' \subseteq Missing(a)
      /\ result.ok = TRUE => \A a \in Parties : \A x \in (Missing(a))' :
            x # packet /\ x.message_key \notin dropped(result, clock)
  <2>1. LessMissing(packet, result)
      BY <1>5, <1>8, LessIsMissing
  <2> QED BY <2>1 DEF LessMissing
<1>10. ratchet' = [ratchet EXCEPT ![p] = s]
    BY <1>5 DEF applyResult
<1>11. /\ ratchet'[p] = s
       /\ \A a \in Parties \ {p} : ratchet'[a] = ratchet[a]
    BY <1>10 DEF SafeInv, TypesOK
<1>12. missing \subseteq Missing(p)
    BY <1>9
<1>13. result.ok = TRUE => StillMissing(missing, packet, result, clock)
  <2> SUFFICES ASSUME result.ok = TRUE, NEW x \in missing
               PROVE  /\ PacketTyped(x)
                      /\ x.message_key # packet.message_key
                      /\ x.message_key \notin dropped(result, clock)
      BY DEF StillMissing
  <2>1. x \in sent /\ packet \in sent
      BY <1>12 DEF Missing, SentTo, SentBy
  <2>2. x # packet /\ x.message_key \notin dropped(result, clock)
      BY <1>9
  <2>3. PacketTyped(x) /\ x.message_key # packet.message_key
      BY <2>1, <2>2 DEF SafeInv, PacketsOK, SentKeysDiffer
  <2> QED BY <2>2, <2>3
<1> HIDE DEF s, missing, q
<1>14. StillReceives(p, missing, r, s)
  <2>1. InStep(r, ratchet[Peer(p)])
      BY <1>3 DEF q
  <2>2. StillReceives(p, missing, r, result.ratchet)
      BY <1>1, <1>3, <1>4, <1>6, <1>12, <1>13, <2>1, ReceiveKeeps
  <2> QED BY <2>2 DEF s
<1>15. ASSUME NEW a \in Parties, (HasConversation(a))'
       PROVE  /\ OnOneChain(SentTo(a), ratchet'[a].receive_chain_key)
              /\ MovedBy(SentTo(a), ratchet'[a].receive_chain_key)
              /\ KeptFrom((Missing(a))', ratchet'[a])
              /\ SendsInOrder(a, ratchet'[a])
  <2>1. CASE a = p
    <3>1. SendsInOrder(p, s)
        BY <1>4, <1>14 DEF StillReceives, SendsInOrder
    <3>2. /\ OnOneChain(SentTo(p), s.receive_chain_key)
          /\ MovedBy(SentTo(p), s.receive_chain_key)
          /\ KeptFrom(missing, s)
        BY <1>14 DEF StillReceives
    <3> QED BY <1>11, <2>1, <3>1, <3>2 DEF missing
  <2>2. CASE a # p
    <3>1. ratchet'[a] = ratchet[a] /\ HasConversation(a)
        BY <1>11, <1>15, <2>2 DEF HasConversation
    <3>2. Receives(a, ratchet[a]) /\ SendsInOrder(a, ratchet[a])
        BY <3>1 DEF KeepInv
    <3>3. KeptFrom((Missing(a))', ratchet[a])
      <4>1. (Missing(a))' \subseteq Missing(a)
          BY <1>9
      <4> QED BY <3>2, <4>1 DEF Receives, KeptFrom
    <3> QED BY <3>1, <3>2, <3>3 DEF Receives
  <2> QED BY <2>1, <2>2
<1> QED BY <1>9, <1>15, KeepSameNetwork

\* Nothing but the clock has changed, or one ratchet has come back from a backup.
LEMMA KeepFrame ==
    ASSUME KeepInv, sent' = sent, received' = received, forgotten' = forgotten,
           \A a \in Parties : (HasConversation(a))' =>
              /\ HasConversation(a)
              /\ ratchet'[a].receive_chain_key.transcript
                    = ratchet[a].receive_chain_key.transcript
              /\ ratchet'[a].receive_chain_key.index = ratchet[a].receive_chain_key.index
              /\ ratchet'[a].send_chain_key.transcript = ratchet[a].send_chain_key.transcript
              /\ ratchet'[a].send_chain_key.index = ratchet[a].send_chain_key.index
              /\ ratchet'[a].previous_message_number = ratchet[a].previous_message_number
              /\ ratchet'[a].skipped = ratchet[a].skipped
    PROVE  KeepInv'
<1>1. \A a : (SentTo(a))' = SentTo(a)
    BY DEF SentTo, SentBy
<1>2. \A x : (Wrapped(x))' <=> Wrapped(x)
    BY DEF Wrapped
<1>3. \A a : (Missing(a))' = Missing(a)
    BY <1>1, <1>2 DEF Missing
<1>4. ASSUME NEW a \in Parties, (HasConversation(a))'
      PROVE  /\ OnOneChain(SentTo(a), ratchet'[a].receive_chain_key)
             /\ MovedBy(SentTo(a), ratchet'[a].receive_chain_key)
             /\ KeptFrom((Missing(a))', ratchet'[a])
             /\ SendsInOrder(a, ratchet'[a])
  <2> DEFINE r == ratchet[a]
             s == ratchet'[a]
  <2>1. Receives(a, r) /\ SendsInOrder(a, r)
      BY <1>4 DEF KeepInv
  <2>2. /\ s.receive_chain_key.transcript = r.receive_chain_key.transcript
        /\ s.receive_chain_key.index = r.receive_chain_key.index
        /\ s.send_chain_key.transcript = r.send_chain_key.transcript
        /\ s.send_chain_key.index = r.send_chain_key.index
        /\ s.previous_message_number = r.previous_message_number
        /\ s.skipped = r.skipped
      BY <1>4
  <2> HIDE DEF r, s
  <2>3. OnOneChain(SentTo(a), s.receive_chain_key) /\ MovedBy(SentTo(a), s.receive_chain_key)
      BY <2>1, <2>2 DEF Receives, OnOneChain, MovedBy
  <2>4. KeptFrom(Missing(a), s)
      BY <2>1, <2>2 DEF Receives, KeptFrom, Passed
  <2>5. SendsInOrder(a, s)
      BY <2>1, <2>2 DEF SendsInOrder, MovedBy
  <2> QED BY <1>3, <2>3, <2>4, <2>5 DEF s
<1> QED BY <1>4, KeepSameNetwork

\* createReceiveConversation keeps what is missing.
LEMMA AnswerKeep ==
    ASSUME SafeInv, SyncInv, KeepInv, NEW p \in Parties, NEW packet \in SentTo(p), NEW damage,
           createReceiveConversation(p, packet, damage)
    PROVE  KeepInv'
<1> DEFINE r == receivingRatchet(p, ratchet[p], packet)
           result == receivePacket(r, packet, damage, clock)
           kept == IF result.ok THEN result ELSE [result EXCEPT !.ratchet = NoConversation]
<1>1. /\ ~HasConversation(p) /\ packet.prekey_metadata # NoPrekeyMetadata
      /\ applyResult(p, packet, kept)
    BY DEF createReceiveConversation
<1>2. result.ok \in BOOLEAN /\ DOMAIN result = {"ok", "ratchet", "keys"}
  <2>1. Effect(r, packet, result)
      BY <1>1, Tries
  <2>2. DOMAIN result = {"ok", "ratchet", "keys"}
      BY ResultFields
  <2> HIDE DEF result, r
  <2> QED BY <2>1, <2>2 DEF Effect
<1>3. CASE result.ok = TRUE
  <2>1. kept = result
      BY <1>3
  <2>2. applyResult(p, packet, result)
      BY <1>1, <2>1
  <2> QED BY <1>1, <2>2, ReceiveKeep
<1>4. CASE result.ok = FALSE
  <2> HIDE DEF result
  <2>1. kept.ok = FALSE /\ kept.ratchet = NoConversation
      BY <1>2, <1>4
  <2> HIDE DEF kept
  <2>2. /\ ratchet' = [ratchet EXCEPT ![p] = NoConversation] /\ sent' = sent
        /\ received' = received /\ forgotten' = forgotten
      BY <1>1, <2>1 DEF applyResult
  <2>3. \A q \in Parties : ratchet'[q] = ratchet[q]
      BY <1>1, <2>2 DEF HasConversation, SafeInv, TypesOK
  <2>4. \A q \in Parties : (HasConversation(q))' => HasConversation(q)
      BY <2>3 DEF HasConversation
  <2> QED BY <2>2, <2>3, <2>4, KeepFrame
<1> QED BY <1>2, <1>3, <1>4

\* A restart keeps what is missing.
LEMMA RestartKeep ==
    ASSUME SafeInv, KeepInv, NEW p \in Parties, restart(p)
    PROVE  KeepInv'
<1> DEFINE r == ratchet[p]
           s == exportAndImport(r)
<1>1. /\ HasConversation(p) /\ ratchet' = [ratchet EXCEPT ![p] = s]
      /\ sent' = sent /\ received' = received /\ forgotten' = forgotten
    BY DEF restart
<1>2. RatchetOK(r)
    BY <1>1 DEF SafeInv, PartyOK
<1>3. /\ ratchet'[p] = s
      /\ \A a \in Parties \ {p} : ratchet'[a] = ratchet[a]
    BY <1>1 DEF SafeInv, TypesOK
<1> HIDE DEF r
<1>4. /\ \A f \in Fields \ {"receive_header_key", "send_chain_key",
                            "receive_chain_key"} : s[f] = r[f]
      /\ s.receive_chain_key.transcript = r.receive_chain_key.transcript
      /\ s.receive_chain_key.index = r.receive_chain_key.index
      /\ s.send_chain_key.transcript = r.send_chain_key.transcript
      /\ s.send_chain_key.index = r.send_chain_key.index
    BY <1>2, ExportAndImport
<1> HIDE DEF s
<1>5. s.previous_message_number = r.previous_message_number /\ s.skipped = r.skipped
    BY <1>4 DEF Fields
<1>6. ASSUME NEW a \in Parties, (HasConversation(a))'
      PROVE  /\ HasConversation(a)
             /\ ratchet'[a].receive_chain_key.transcript
                   = ratchet[a].receive_chain_key.transcript
             /\ ratchet'[a].receive_chain_key.index = ratchet[a].receive_chain_key.index
             /\ ratchet'[a].send_chain_key.transcript = ratchet[a].send_chain_key.transcript
             /\ ratchet'[a].send_chain_key.index = ratchet[a].send_chain_key.index
             /\ ratchet'[a].previous_message_number = ratchet[a].previous_message_number
             /\ ratchet'[a].skipped = ratchet[a].skipped
  <2>1. CASE a = p
      BY <1>1, <1>3, <1>4, <1>5, <2>1 DEF r
  <2>2. CASE a # p
    <3>1. ratchet'[a] = ratchet[a]
        BY <1>3, <2>2
    <3> QED BY <1>6, <3>1 DEF HasConversation
  <2> QED BY <2>1, <2>2
<1> QED BY <1>1, <1>6, KeepFrame

\* The packet that is sent next is ahead of what was sent before.
LEMMA NextIsAhead ==
    ASSUME SafeInv, NEW p \in Parties, NEW r, RatchetOK(r), HistoryOK(p, r),
           NEW z, NEW s, SendsNext(r, z, s), NEW y \in SentBy(p)
    PROVE  Passed(z.message_key, y.message_key)
<1> DEFINE t == z.message_key.transcript
           u == y.message_key.transcript
           v == r.send_chain_key.transcript
<1>1. Passed(r.send_chain_key, y.message_key)
    BY DEF HistoryOK
<1>2. Len(u) \in Nat /\ Len(v) \in Nat /\ Len(r.root_key.transcript) \in Nat
  <2>1. y.message_key \in MessageKeys
      BY DEF SafeInv, PacketsOK, PacketTyped, SentBy
  <2>2. Len(u) \in Nat
      BY <2>1, LenProperties DEF MessageKeys, KeysOf, Transcripts
  <2>3. RatchetTyped(r)
      BY DEF RatchetOK
  <2> QED BY <2>2, <2>3, Lengths
<1>3. CASE r.ratchet_flag = TRUE
  <2>1. Len(u) <= Len(v) /\ Len(v) <= Len(r.root_key.transcript)
      BY <1>1 DEF Passed, RatchetOK, SendChainOK
  <2>2. Len(t) = Len(r.root_key.transcript) + 1
      BY <1>3 DEF SendsNext
  <2>3. Len(u) < Len(t)
      BY <1>2, <2>1, <2>2
  <2> HIDE DEF t, u
  <2>4. t # u /\ Len(u) <= Len(t)
      BY <1>2, <2>2, <2>3
  <2> QED BY <2>4 DEF Passed, t, u
<1>4. CASE r.ratchet_flag = FALSE
  <2>1. t = v /\ z.message_key.index = r.send_chain_key.index
      BY <1>4 DEF SendsNext
  <2> QED BY <1>1, <2>1 DEF Passed
<1> QED BY <1>3, <1>4 DEF RatchetOK, RatchetTyped

\* The number of messages that a new chain announces is right, unless the message
\* numbers of the chain before have been used up.
LEMMA SendAnnounces ==
    ASSUME SafeInv, NEW p \in Parties, NEW r, RatchetOK(r), Aligned(r), HistoryOK(p, r),
           \A x \in SentBy(p) : OnChain(x, r), SendsInOrder(p, r),
           NEW z, NEW s, SendsNext(r, z, s)
    PROVE  Announced(SentBy(p), s.send_chain_key.transcript, s.previous_message_number)
<1> DEFINE v == r.send_chain_key.transcript
           t == s.send_chain_key.transcript
<1>1. Len(v) \in Nat /\ Len(r.root_key.transcript) \in Nat /\ r.send_chain_key.index \in Nat
  <2>1. RatchetTyped(r)
      BY DEF RatchetOK
  <2> QED BY <2>1, Lengths
<1>2. CASE r.ratchet_flag = FALSE
  <2>1. t = v /\ s.previous_message_number = r.previous_message_number
      BY <1>2 DEF SendsNext
  <2> QED BY <2>1 DEF SendsInOrder
<1>3. CASE r.ratchet_flag = TRUE
  <2> SUFFICES ASSUME NEW x \in SentBy(p), Len(x.message_key.transcript) + 2 = Len(t),
                      ~Wrapped(x)
               PROVE  x.message_key.index < s.previous_message_number
      BY DEF Announced
  <2> DEFINE key == x.message_key
             ck == r.send_chain_key
  <2>1. key.index \in Nat /\ Len(key.transcript) \in Nat /\ Len(key.transcript) > 0
    <3>1. key \in MessageKeys
        BY DEF SafeInv, PacketsOK, PacketTyped, SentBy
    <3>2. key.index \in Nat /\ key.transcript \in Transcripts
        BY <3>1 DEF MessageKeys, KeysOf
    <3> HIDE DEF key
    <3> QED BY <3>2, HeaderLengths
  <2>2. /\ Len(t) = Len(r.root_key.transcript) + 1
        /\ s.previous_message_number = r.send_message_number
        /\ Len(r.root_key.transcript) = Len(v) + 1
      BY <1>3 DEF SendsNext, Aligned, TurnAligned
  <2>3. Len(key.transcript) = Len(v)
      BY <1>1, <2>1, <2>2
  <2>4. key.transcript = v
      BY <2>3 DEF OnChain
  <2>5. key.index < ck.index
      BY <2>4 DEF HistoryOK, Passed
  <2>6. PICK y \in SentBy(p) : y.message_key.transcript = v /\ y.message_key.index + 1 = ck.index
    <3>1. ck.index # 0
        BY <1>1, <2>1, <2>5
    <3> QED BY <3>1 DEF SendsInOrder, MovedBy
  <2>7. ck.index < message_numbers
    <3>1. ~(y.message_key.index >= message_numbers - 1)
        BY <2>4, <2>6 DEF Wrapped, SentBy
    <3>2. y.message_key.index \in Nat
        BY DEF SafeInv, PacketsOK, PacketTyped, SentBy, MessageKeys, KeysOf
    <3> HIDE DEF ck
    <3> QED BY <1>1, <2>6, <3>1, <3>2, RatchetAssumption
  <2>8. ck \in ChainKeys
    <3>1. ck.transcript # <<>>
        BY <2>1, <2>4
    <3>2. ck \in ChainKeys \union EmptyKeys
        BY DEF RatchetOK, RatchetTyped
    <3> HIDE DEF ck
    <3>3. ck \notin EmptyKeys
        BY <3>1 DEF EmptyKeys, NoKey, ZeroKey
    <3> QED BY <3>2, <3>3
  <2>9. r.send_message_number = ck.index % message_numbers
      BY <2>8 DEF Aligned, Numbered
  <2> HIDE DEF ck
  <2>10. r.send_message_number = ck.index
      BY <1>1, <2>7, <2>9, NextNumber DEF ck
  <2> QED BY <2>2, <2>5, <2>10
<1> QED BY <1>2, <1>3 DEF RatchetOK, RatchetTyped

\* The latest chain of a sender is the one that its peer receives on, or longer.
LEMMA LatestChain ==
    ASSUME NEW s, RatchetOK(s), Aligned(s), s.ratchet_flag = FALSE,
           NEW r, RatchetOK(r), Aligned(r), InStep(s, r)
    PROVE  /\ s.send_chain_key.transcript = s.root_key.transcript
           /\ \/ s.root_key.transcript = r.receive_chain_key.transcript
              \/ Len(s.root_key.transcript) > Len(r.receive_chain_key.transcript)
<1> DEFINE t == s.root_key.transcript
           u == r.root_key.transcript
           v == r.receive_chain_key.transcript
<1>1. s.send_chain_key.transcript = t
    BY DEF Aligned, TurnAligned
<1>2. /\ t \in Transcripts /\ u \in Transcripts /\ RatchetTyped(r)
      /\ r.our_public_ephemeral \in Name /\ s.our_public_ephemeral \in Name
      /\ r.role \in BOOLEAN /\ s.role \in BOOLEAN
    BY DEF RatchetOK, RatchetTyped, RootKeys, KeysOf
<1>3. Len(v) \in Nat /\ Len(u) \in Nat
    BY <1>2, Lengths
<1>4. CASE Synced(r, s)
  <2>1. t = v
      BY <1>4 DEF Synced, Aligned, TurnAligned
  <2> QED BY <1>1, <2>1
<1>5. CASE Ahead(s, r)
  <2> DEFINE x == diffie_hellman(s.our_public_ephemeral, s.our_public_ephemeral,
                                 r.our_public_ephemeral, s.role)
  <2>1. t = Append(u, x) /\ Len(u) = Len(v) + 1
      BY <1>5 DEF Ahead, Aligned, TurnAligned
  <2>2. x \in Secret
      BY <1>2, AgreementIsSecret DEF Secret
  <2> HIDE DEF x, t, u, v
  <2>3. Len(t) = Len(u) + 1
      BY <1>2, <2>1, <2>2, Growth
  <2>4. Len(t) > Len(v)
      BY <1>3, <2>1, <2>3
  <2> QED BY <1>1, <2>4 DEF t, v
<1>6. CASE Ahead(r, s)
  <2> DEFINE x == diffie_hellman(r.our_public_ephemeral, r.our_public_ephemeral,
                                 s.our_public_ephemeral, r.role)
  <2>1. u = Append(t, x) /\ v = Front(u)
      BY <1>6 DEF Ahead, Aligned, TurnAligned
  <2>2. x \in Secret
      BY <1>2, AgreementIsSecret DEF Secret
  <2>3. t \in Seq(Secret)
      BY <1>2 DEF Transcripts
  <2> HIDE DEF x, t, u, v
  <2>4. v = t
      BY <2>1, <2>2, <2>3, FrontOfAppend
  <2> QED BY <1>1, <2>4 DEF t, v
<1>7. ~Synced(s, r)
    BY DEF Synced
<1> QED BY <1>4, <1>5, <1>6, <1>7 DEF InStep

\* Conversation::send keeps what is missing.
LEMMA SendKeep ==
    ASSUME SafeInv, SyncInv, KeepInv, NEW p \in Parties, NEW r, RatchetOK(r), Aligned(r),
           HistoryOK(p, r), \A x \in SentBy(p) : OnChain(x, r),
           Receives(p, r), SendsInOrder(p, r),
           HasConversation(Peer(p)) => InStep(r, ratchet[Peer(p)]),
           NEW metadata, NEW z, NEW s, Sends(p, r, metadata, z, s)
    PROVE  KeepInv'
<1> DEFINE q == Peer(p)
           key == z.message_key
<1>1. /\ SendsNext(r, z, s) /\ Aligned(s) /\ ratchet'[p] = s
      /\ \A a \in Parties \ {p} : ratchet'[a] = ratchet[a]
      /\ sent' = sent \union {z} /\ received' = received /\ forgotten' = forgotten
      /\ z.from = p
      /\ \A peer : InStep(r, peer) => InStep(s, peer)
    BY DEF Sends
<1>2. q \in Parties /\ q # p /\ Peer(q) = p /\ \A a \in Parties : a = p \/ a = q
    BY TwoParties
<1>3. /\ RatchetOK(s) /\ s.ratchet_flag = FALSE /\ SameReceiver(r, s)
      /\ key.transcript = s.send_chain_key.transcript
      /\ s.send_chain_key.index = key.index + 1
      /\ key \in MessageKeys
      /\ z.previous_message_number = s.previous_message_number
    BY <1>1 DEF SendsNext
<1>4. key.index \in Nat /\ Len(key.transcript) \in Nat
    BY <1>3, LenProperties DEF MessageKeys, KeysOf, Transcripts
<1>5. /\ (SentBy(p))' = SentBy(p) \union {z} /\ (SentBy(q))' = SentBy(q)
      /\ (SentTo(p))' = SentTo(p) /\ (SentTo(q))' = SentTo(q) \union {z}
      /\ SentTo(q) = SentBy(p) /\ SentTo(p) = SentBy(q)
    BY <1>1, <1>2 DEF SentBy, SentTo
<1>6. \A x : Wrapped(x) => (Wrapped(x))'
    BY <1>1 DEF Wrapped
<1>7. /\ (Missing(p))' \subseteq Missing(p)
      /\ (Missing(q))' \subseteq Missing(q) \union {z}
    BY <1>1, <1>5, <1>6 DEF Missing
<1>8. \A y \in SentBy(p) : Passed(key, y.message_key)
    BY <1>1, NextIsAhead
<1>9. Announced(SentBy(p), s.send_chain_key.transcript, s.previous_message_number)
    BY <1>1, SendAnnounces
<1> HIDE DEF q, key
<1>10. (Announced(SentBy(p), key.transcript, z.previous_message_number))'
  <2> SUFFICES ASSUME NEW x \in SentBy(p) \union {z},
                      Len(x.message_key.transcript) + 2 = Len(key.transcript),
                      ~(Wrapped(x))'
               PROVE  x.message_key.index < z.previous_message_number
      BY <1>5 DEF Announced, key
  <2>1. x # z
      BY <1>4 DEF key
  <2> QED BY <1>3, <1>6, <1>9, <2>1 DEF Announced
<1>11. ASSUME NEW y \in sent'
       PROVE  (Announced(SentBy(y.from), y.message_key.transcript,
                         y.previous_message_number))'
  <2>1. CASE y = z
      BY <1>1, <1>10, <2>1 DEF key
  <2>2. CASE y \in sent
    <3>1. Announced(SentBy(y.from), y.message_key.transcript, y.previous_message_number)
        BY <2>2 DEF KeepInv
    <3>2. y.from \in Parties
        BY <2>2 DEF SafeInv, PacketsOK, PacketTyped
    <3>3. CASE y.from = q
        BY <1>5, <1>6, <3>1, <3>3 DEF Announced
    <3>4. CASE y.from = p
      <4> SUFFICES ASSUME NEW x \in SentBy(p) \union {z},
                          Len(x.message_key.transcript) + 2 = Len(y.message_key.transcript),
                          ~(Wrapped(x))'
                   PROVE  x.message_key.index < y.previous_message_number
          BY <1>5, <3>4 DEF Announced
      <4>1. x # z
        <5>1. Len(y.message_key.transcript) <= Len(key.transcript)
            BY <1>8, <2>2, <3>4 DEF Passed, SentBy
        <5> QED BY <1>4, <5>1 DEF key
      <4> QED BY <1>6, <3>1, <3>4, <4>1 DEF Announced
    <3> QED BY <1>2, <3>2, <3>3, <3>4
  <2> QED BY <1>1, <2>1, <2>2
<1>12. (Receives(p, ratchet[p]))'
  <2>1. s.receive_chain_key = r.receive_chain_key /\ s.skipped = r.skipped
      BY <1>3 DEF SameReceiver
  <2>2. /\ OnOneChain(SentTo(p), s.receive_chain_key)
        /\ MovedBy(SentTo(p), s.receive_chain_key)
        /\ KeptFrom(Missing(p), s)
      BY <2>1 DEF Receives, KeptFrom
  <2>3. KeptFrom((Missing(p))', s)
      BY <1>7, <2>2 DEF KeptFrom
  <2> QED BY <1>1, <1>5, <2>2, <2>3 DEF Receives, OnOneChain, MovedBy, KeptFrom
<1>13. (SendsInOrder(p, ratchet[p]))'
  <2>1. MovedBy(SentBy(p) \union {z}, s.send_chain_key)
      BY <1>3 DEF MovedBy, key
  <2>2. (Announced(SentBy(p), ratchet[p].send_chain_key.transcript,
                   ratchet[p].previous_message_number))'
      BY <1>1, <1>3, <1>10 DEF Announced, key
  <2> QED BY <1>1, <1>5, <2>1, <2>2 DEF SendsInOrder, MovedBy
<1>14. ASSUME (HasConversation(q))'
       PROVE  (Receives(q, ratchet[q]))' /\ (SendsInOrder(q, ratchet[q]))'
  <2> DEFINE peer == ratchet[q]
             ck == peer.receive_chain_key
             v == ck.transcript
  <2>1. HasConversation(q) /\ ratchet'[q] = peer
      BY <1>1, <1>2, <1>14 DEF HasConversation
  <2>2. Receives(q, peer) /\ SendsInOrder(q, peer) /\ RatchetOK(peer) /\ Aligned(peer)
      BY <1>2, <2>1 DEF KeepInv, SafeInv, PartyOK, SyncInv
  <2>3. InStep(s, peer)
      BY <1>1, <2>1 DEF q
  <2> HIDE DEF peer
  <2>4. key.transcript = v \/ Len(key.transcript) > Len(v)
    <3>1. /\ s.send_chain_key.transcript = s.root_key.transcript
          /\ \/ s.root_key.transcript = v
             \/ Len(s.root_key.transcript) > Len(v)
        BY <1>1, <1>3, <2>2, <2>3, LatestChain
    <3> QED BY <1>3, <3>1
  <2>5. Len(v) \in Nat /\ ck.index \in Nat
      BY <2>2, Lengths DEF RatchetOK
  <2>6. OnOneChain(SentTo(q) \union {z}, ck)
    <3>1. OnOneChain(SentTo(q), ck)
        BY <2>2 DEF Receives
    <3>2. Len(key.transcript) = Len(v) => key.transcript = v
        BY <1>4, <2>4, <2>5
    <3> QED BY <3>1, <3>2 DEF OnOneChain, key
  <2>7. MovedBy(SentTo(q) \union {z}, ck)
      BY <2>2 DEF Receives, MovedBy
  <2>8. ~Passed(ck, key)
    <3> SUFFICES ASSUME Passed(ck, key) PROVE FALSE
        OBVIOUS
    <3>1. key.transcript = v /\ key.index < ck.index
        BY <1>4, <2>4, <2>5 DEF Passed
    <3>2. PICK y \in SentTo(q) : y.message_key.transcript = v /\ y.message_key.index + 1 = ck.index
      <4>1. ck.index # 0
          BY <1>4, <2>5, <3>1
      <4> QED BY <2>2, <4>1 DEF Receives, MovedBy
    <3>3. y.message_key.index \in Nat
        BY DEF SafeInv, PacketsOK, PacketTyped, SentTo, SentBy, MessageKeys, KeysOf
    <3>4. y.message_key.index < key.index
        BY <1>5, <1>8, <3>1, <3>2 DEF Passed
    <3> HIDE DEF ck
    <3> QED BY <1>4, <2>5, <3>1, <3>2, <3>3, <3>4
  <2>9. KeptFrom((Missing(q))', peer)
      BY <1>7, <2>2, <2>8 DEF Receives, KeptFrom, key
  <2>10. (Receives(q, ratchet[q]))'
      BY <1>5, <2>1, <2>6, <2>7, <2>9 DEF Receives, OnOneChain, MovedBy, KeptFrom
  <2>11. (SendsInOrder(q, ratchet[q]))'
      BY <1>5, <1>6, <2>1, <2>2 DEF SendsInOrder, MovedBy, Announced
  <2> QED BY <2>10, <2>11
<1>15. ASSUME NEW a \in Parties, (HasConversation(a))'
       PROVE  (Receives(a, ratchet[a]))' /\ (SendsInOrder(a, ratchet[a]))'
  <2>1. CASE a = p
      BY <1>12, <1>13, <2>1
  <2>2. CASE a = q
      BY <1>14, <1>15, <2>2
  <2> QED BY <1>2, <2>1, <2>2
<1> QED BY <1>11, <1>15 DEF KeepInv

\* createSendConversation: nothing is missing yet.
LEMMA StartKeep ==
    ASSUME SafeInv, SyncInv, KeepInv, NEW p \in Parties, createSendConversation(p)
    PROVE  KeepInv'
<1> DEFINE q == Peer(p)
           ephemeral == <<p, drawn[p] + 1>>
           theirPrekey == PublishedPrekey(q)
           r == create(Identity(p), ephemeral, Identity(q), theirPrekey)
           metadata == [identity |-> Identity(p), ephemeral |-> ephemeral,
                        prekey |-> theirPrekey]
           one == 1
<1>1. sent = {} /\ send(p, r, metadata, one) /\ one \in Nat
    BY DEF createSendConversation
<1>2. /\ ephemeral \in Name /\ theirPrekey \in Name /\ Identity(p) \in Name
      /\ Identity(q) \in Name /\ q \in Parties
  <2>1. drawn[p] \in Nat /\ p \in Nat
      BY DEF SafeInv, TypesOK, Parties
  <2>2. ephemeral \in Name
      BY <2>1 DEF Name
  <2>3. Peer(p) \in Parties /\ Identity(p) \in Name
      BY TwoParties
  <2>4. theirPrekey \in Name /\ Identity(q) \in Name
      BY <2>3, TwoParties
  <2> QED BY <2>2, <2>3, <2>4
<1>3. ~HasConversation(q)
    BY <1>1, <1>2 DEF SafeInv, PartyOK
<1>4. r.send_chain_key.index = 0 /\ r.receive_chain_key.index = 0
    BY DEF create, derive_initial_root_chain_and_header_keys, ChainKey, NoKey
<1> HIDE DEF ephemeral, theirPrekey, one
<1>5. RatchetOK(r) /\ Aligned(r)
  <2>1. RatchetOK(r)
      BY <1>2, CreateForParty
  <2>2. Aligned(r)
      BY <1>2, CreateAligned
  <2> QED BY <2>1, <2>2
<1> HIDE DEF r, metadata
<1>6. HistoryOK(p, r) /\ \A x \in SentBy(p) : OnChain(x, r)
    BY <1>1 DEF HistoryOK, SentBy, SentTo
<1>7. Receives(p, r) /\ SendsInOrder(p, r)
  <2>1. SentTo(p) = {} /\ SentBy(p) = {} /\ Missing(p) = {}
      BY <1>1 DEF SentTo, SentBy, Missing
  <2> QED BY <1>4, <2>1
         DEF Receives, SendsInOrder, OnOneChain, MovedBy, KeptFrom, Announced
<1>8. PICK z, s : Sends(p, r, metadata, z, s)
    BY <1>1, <1>5, <1>6, SendOnItsChain
<1> QED BY <1>3, <1>5, <1>6, <1>7, <1>8, SendKeep

\* molch_encrypt_message keeps what is missing.
LEMMA EncryptKeep ==
    ASSUME SafeInv, SyncInv, KeepInv, NEW p \in Parties, encryptMessage(p)
    PROVE  KeepInv'
<1> DEFINE r == ratchet[p]
           metadata == NoPrekeyMetadata
           none == 0
<1>1. HasConversation(p) /\ send(p, r, metadata, none) /\ none \in Nat
    BY DEF encryptMessage
<1>2. /\ RatchetOK(r) /\ HistoryOK(p, r) /\ Aligned(r)
      /\ Receives(p, r) /\ SendsInOrder(p, r)
    BY <1>1 DEF SafeInv, PartyOK, SyncInv, KeepInv
<1>3. \A x \in SentBy(p) : OnChain(x, r)
    BY DEF SentBy, SyncInv
<1>4. HasConversation(Peer(p)) => InStep(r, ratchet[Peer(p)])
    BY <1>1, BothInStep
<1> HIDE DEF r, metadata, none
<1>5. PICK z, s : Sends(p, r, metadata, z, s)
    BY <1>1, <1>2, <1>3, SendOnItsChain
<1> QED BY <1>2, <1>3, <1>4, <1>5, SendKeep

\* Every step keeps what is missing.
LEMMA KeepStep ==
    ASSUME SafeInv, SyncInv, KeepInv, [Next]_vars
    PROVE  KeepInv'
<1>1. ASSUME NEW p \in Parties, createSendConversation(p) PROVE KeepInv'
    BY <1>1, StartKeep
<1>2. ASSUME NEW p \in Parties, encryptMessage(p) PROVE KeepInv'
    BY <1>2, EncryptKeep
<1>3. ASSUME NEW p \in Parties, NEW damage \in Damage, NEW packet \in SentTo(p),
             createReceiveConversation(p, packet, damage)
      PROVE  KeepInv'
    BY <1>3, AnswerKeep
<1>4. ASSUME NEW p \in Parties, NEW damage \in Damage, NEW packet \in SentTo(p),
             decryptMessage(p, packet, damage)
      PROVE  KeepInv'
  <2>1. /\ HasConversation(p)
        /\ applyResult(p, packet, receivePacket(receivingRatchet(p, ratchet[p], packet),
                                                packet, damage, clock))
      BY <1>4 DEF decryptMessage
  <2> QED BY <2>1, ReceiveKeep
<1>5. ASSUME NEW p \in Parties, restart(p) PROVE KeepInv'
    BY <1>5, RestartKeep
<1>6. ASSUME tick \/ UNCHANGED vars PROVE KeepInv'
  <2>1. sent' = sent /\ ratchet' = ratchet /\ received' = received /\ forgotten' = forgotten
      BY <1>6 DEF tick, vars
  <2>2. \A a \in Parties : (HasConversation(a))' => HasConversation(a)
      BY <2>1 DEF HasConversation
  <2> QED BY <2>1, <2>2, KeepFrame
<1> QED BY <1>1, <1>2, <1>3, <1>4, <1>5, <1>6 DEF Next

\* The keys of what is missing are kept, for any number of packets in any order.
THEOREM MissingKeysAreKept == Spec => [](SafeInv /\ SyncInv /\ KeepInv)
<1>1. Init => KeepInv
    BY DEF Init, KeepInv, HasConversation
<1>2. SafeInv /\ SyncInv /\ KeepInv /\ [Next]_vars => KeepInv'
    BY KeepStep
<1> QED BY <1>1, <1>2, RatchetsStayInStep, PTL DEF Spec

\* A missing packet that the receiving chain has passed is opened by a skipped key.
LEMMA OpensBySkippedKey ==
    ASSUME NEW r, NEW sender, NEW x, Exchange(r, sender, x),
           NEW k \in ToSet(r.skipped), k.message_key = x.message_key
    PROVE  Openable(r, x)
<1> DEFINE t == x.message_key.transcript
<1>1. /\ r.skipped \in Seq(StoredKeys) /\ HeadersAligned(r)
      /\ x.header_key = HeaderOf(t) /\ x.header_key \in HeaderKeys
    BY DEF Exchange, RatchetOK, RatchetTyped, Aligned, OnChain, PacketTyped
<1>2. PICK i \in DOMAIN r.skipped : r.skipped[i] = k
    BY <1>1 DEF ToSet
<1>3. k.header_key = x.header_key
    BY <1>1 DEF HeadersAligned
<1>4. k.header_key # NoKey
    BY <1>1, <1>3 DEF HeaderKeys, KeysOf, NoKey
<1>5. decrypts(x, "none", r.skipped[i])
    BY <1>2, <1>3, <1>4 DEF decrypts, decryptsHeader, decryptsMessage
<1>6. i \in fittingKeys(r, x, "none")
    BY <1>5 DEF fittingKeys
<1> QED BY <1>6 DEF Openable

\* The key of a message is the one that its chain key gives after as many steps as
\* the message is ahead.
LEMMA KeyAfterSteps ==
    ASSUME NEW key \in MessageKeys, NEW ck \in ChainKeys, NEW steps \in Nat,
           key.transcript = ck.transcript, key.index = ck.index + steps
    PROVE  key = deriveMessageKey(advanced(ck, steps))
<1> DEFINE a == advanced(ck, steps)
           m == deriveMessageKey(a)
<1>1. a.transcript = ck.transcript /\ a.index = ck.index + steps
      /\ a \in ChainKeys
    BY DEF advanced, ChainKeys, KeysOf
<1> HIDE DEF a
<1>2. m.transcript = a.transcript /\ m.index = a.index /\ m \in MessageKeys
    BY <1>1 DEF deriveMessageKey, ChainKeys, MessageKeys, KeysOf
<1> HIDE DEF m
<1>3. key = m
    BY <1>1, <1>2, SameKey
<1> QED BY <1>3 DEF m, a

\* A packet that the receiving chain has not passed, and that is no further along, is
\* one of that chain.
LEMMA OpensByCurrentChain ==
    ASSUME NEW r, NEW sender, NEW x, Exchange(r, sender, x), ~TooFarAhead(r, x),
           x.message_key.index < message_numbers,
           ~Passed(r.receive_chain_key, x.message_key),
           Len(x.message_key.transcript) <= Len(r.receive_chain_key.transcript)
    PROVE  Openable(r, x)
<1> DEFINE ck == r.receive_chain_key
           key == x.message_key
           number == x.message_number
           current == r.receive_message_number
           steps == key.index - ck.index
<1>1. /\ RatchetOK(r) /\ Aligned(r) /\ PacketTyped(x)
      /\ x.header_key = HeaderOf(key.transcript) /\ x.header_key \in HeaderKeys
      /\ number = key.index % message_numbers
    BY DEF Exchange, OnChain, PacketTyped
<1>2. key \in MessageKeys /\ key.index \in Nat /\ key.transcript \in Transcripts
    BY <1>1 DEF PacketTyped, MessageKeys, KeysOf
<1>3. ck.index \in Nat /\ ck \in ChainKeys \union EmptyKeys
    BY <1>1, Lengths DEF RatchetOK, RatchetTyped
<1>4. key.transcript = ck.transcript /\ ck.index <= key.index
    BY <1>2, <1>3 DEF Passed
<1>5. ck \in ChainKeys
  <2>1. ck.transcript # <<>>
      BY <1>2, <1>4 DEF Transcripts
  <2> HIDE DEF ck
  <2>2. ck \notin EmptyKeys
      BY <2>1 DEF EmptyKeys, NoKey, ZeroKey
  <2> QED BY <1>3, <2>2
<1>6. r.receive_header_key = x.header_key
    BY <1>1, <1>4, <1>5 DEF Aligned, HeadersAligned
<1>7. headerDecryptability(r, x, "none") = "CURRENT_DECRYPTABLE"
  <2>1. x.header_key # NoKey
      BY <1>1 DEF HeaderKeys, KeysOf, NoKey
  <2> QED BY <1>6, <2>1 DEF headerDecryptability, decryptsHeader
<1>8. current = ck.index % message_numbers
    BY <1>1, <1>5 DEF Aligned, Numbered
<1> HIDE DEF ck, key, number, current
<1>9. number = key.index /\ current = ck.index
  <2>1. ck.index < message_numbers /\ key.index < message_numbers
      BY <1>2, <1>3, <1>4, RatchetAssumption DEF key
  <2> QED BY <1>1, <1>2, <1>3, <1>8, <2>1, NextNumber
<1>10. ~(number > current + maximum_skipped_messages)
    BY <1>7 DEF TooFarAhead, number, current
<1>11. number <= current + maximum_skipped_messages
    BY <1>2, <1>3, <1>9, <1>10, RatchetAssumption
<1>12. Skip(current, number) = steps /\ steps \in Nat /\ key.index = ck.index + steps
    BY <1>2, <1>3, <1>4, <1>9 DEF Skip
<1> HIDE DEF steps
<1>13. key = deriveMessageKey(advanced(ck, steps))
    BY <1>2, <1>4, <1>5, <1>12, KeyAfterSteps
<1>14. key = deriveMessageKey(advanced(ck, Skip(current, number)))
    BY <1>12, <1>13
<1> QED BY <1>7, <1>11, <1>14 DEF Openable, ck, key, number, current

\* A packet that is further along than the receiving chain is one of the chain that
\* the sender has just started.
LEMMA FurtherAlong ==
    ASSUME NEW r, NEW sender, NEW x, Exchange(r, sender, x),
           Len(x.message_key.transcript) % 2 = 0 <=> sender.role = TRUE,
           Len(x.message_key.transcript) > Len(r.receive_chain_key.transcript)
    PROVE  /\ r.ratchet_flag = FALSE
           /\ Len(x.message_key.transcript) = Len(r.root_key.transcript) + 1
           /\ x.header_key = r.next_receive_header_key
<1> DEFINE t == x.message_key.transcript
           u == r.root_key.transcript
           v == r.receive_chain_key.transcript
           w == sender.send_chain_key.transcript
           y == sender.root_key.transcript
<1>1. /\ RatchetOK(r) /\ Aligned(r) /\ RatchetOK(sender) /\ Aligned(sender)
      /\ InStep(r, sender) /\ OnChain(x, sender) /\ PacketTyped(x)
      /\ Len(t) <= Len(w)
      /\ x.header_key = HeaderOf(t)
    BY DEF Exchange, Passed, OnChain
<1>2. /\ u \in Transcripts /\ y \in Transcripts /\ t \in Transcripts
      /\ r.our_public_ephemeral \in Name /\ sender.our_public_ephemeral \in Name
      /\ r.role \in BOOLEAN /\ sender.role \in BOOLEAN
      /\ r.ratchet_flag \in BOOLEAN /\ RatchetTyped(r) /\ RatchetTyped(sender)
    BY <1>1 DEF RatchetOK, RatchetTyped, RootKeys, MessageKeys, KeysOf, PacketTyped
<1>3. Len(t) \in Nat /\ Len(u) \in Nat /\ Len(v) \in Nat /\ Len(w) \in Nat /\ Len(y) \in Nat
  <2>1. Len(u) \in Nat /\ Len(v) \in Nat
      BY <1>2, Lengths
  <2>2. Len(w) \in Nat /\ Len(y) \in Nat
      BY <1>2, Lengths
  <2>3. Len(t) \in Nat
      BY <1>2, LenProperties DEF Transcripts
  <2> QED BY <2>1, <2>2, <2>3
<1>4. Len(t) > Len(v)
    OBVIOUS
<1>5. ~Synced(r, sender)
  <2> SUFFICES ASSUME Synced(r, sender) PROVE FALSE
      OBVIOUS
  <2>1. w = v
      BY <1>1 DEF Synced, Aligned, TurnAligned
  <2> HIDE DEF t, v, w
  <2> QED BY <1>1, <1>3, <1>4, <2>1
<1>6. ~Synced(sender, r)
  <2> SUFFICES ASSUME Synced(sender, r) PROVE FALSE
      OBVIOUS
  <2>1. y = u /\ Len(y) = Len(w) + 1 /\ Len(u) = Len(v) + 1
      BY <1>1 DEF Synced, Aligned, TurnAligned
  <2> HIDE DEF t, u, v, w, y
  <2> QED BY <1>1, <1>3, <1>4, <2>1
<1>7. ~Ahead(r, sender)
  <2> SUFFICES ASSUME Ahead(r, sender) PROVE FALSE
      OBVIOUS
  <2> DEFINE d == diffie_hellman(r.our_public_ephemeral, r.our_public_ephemeral,
                                 sender.our_public_ephemeral, r.role)
  <2>1. u = Append(y, d) /\ w = y /\ Len(u) = Len(v) + 1
      BY <1>1 DEF Ahead, Aligned, TurnAligned
  <2>2. d \in Secret
      BY <1>2, AgreementIsSecret DEF Secret
  <2> HIDE DEF d, t, u, v, w, y
  <2>3. Len(u) = Len(y) + 1
      BY <1>2, <2>1, <2>2, Growth
  <2> QED BY <1>1, <1>3, <1>4, <2>1, <2>3
<1>8. Ahead(sender, r)
    BY <1>1, <1>5, <1>6, <1>7 DEF InStep
<1> DEFINE d == diffie_hellman(sender.our_public_ephemeral, sender.our_public_ephemeral,
                               r.our_public_ephemeral, sender.role)
<1>9. /\ r.ratchet_flag = FALSE /\ sender.ratchet_flag = FALSE
      /\ y = Append(u, d) /\ w = y /\ Len(u) = Len(v) + 1
      /\ r.next_receive_header_key = HeaderOfNext(u)
    BY <1>1, <1>8 DEF Ahead, Aligned, TurnAligned
<1>10. d \in Secret
    BY <1>2, AgreementIsSecret DEF Secret
<1>11. Len(w) % 2 = 0 <=> sender.role = TRUE
  <2>1. SendsOn(sender.role, w)
      BY <1>1, <1>9 DEF RatchetOK, SendChainOK
  <2> QED BY <2>1 DEF SendsOn, ALICE
<1>12. Len(t) % 2 = 0 <=> sender.role = TRUE
    OBVIOUS
<1> HIDE DEF t, u, v, w, y, d
<1>13. Len(y) = Len(u) + 1 /\ HeaderOf(y) = HeaderOfNext(u)
    BY <1>2, <1>9, <1>10, HeadersMoveUp
<1>14. Len(t) + 1 # Len(w)
  <2> DEFINE n == Len(t)
  <2> HIDE DEF n
  <2>1. n \in Nat
      BY <1>3 DEF n
  <2>2. /\ n % 2 = 0 <=> ~(n % 2 = 1)
        /\ (n + 1) % 2 = 0 <=> n % 2 = 1
      BY <2>1, Parity
  <2>3. n + 1 # Len(w)
      BY <1>11, <1>12, <2>1, <2>2 DEF n
  <2> QED BY <2>3 DEF n
<1>15. Len(t) = Len(w)
    BY <1>1, <1>3, <1>4, <1>9, <1>13, <1>14
<1>16. t = w
    BY <1>1, <1>15 DEF OnChain, t, w
<1> QED BY <1>1, <1>9, <1>13, <1>15, <1>16 DEF t, u

\* A packet that is further along than the receiving chain starts a new one.
LEMMA OpensByNextChain ==
    ASSUME NEW r, NEW sender, NEW x, Exchange(r, sender, x), ~TooFarAhead(r, x),
           x.message_key.index < message_numbers,
           Len(x.message_key.transcript) % 2 = 0 <=> sender.role = TRUE,
           Len(x.message_key.transcript) > Len(r.receive_chain_key.transcript)
    PROVE  Openable(r, x)
<1> DEFINE key == x.message_key
           number == x.message_number
           t == ReceivingTranscript(r, x.ephemeral)
           v == r.receive_chain_key.transcript
           zero == 0
<1>1. /\ RatchetOK(r) /\ Aligned(r) /\ PacketTyped(x)
      /\ x.header_key = HeaderOf(key.transcript) /\ x.header_key \in HeaderKeys
      /\ number = key.index % message_numbers
    BY DEF Exchange, OnChain, PacketTyped
<1>2. key \in MessageKeys /\ key.index \in Nat /\ key.transcript \in Transcripts
    BY <1>1 DEF PacketTyped, MessageKeys, KeysOf
<1>3. r.ratchet_flag = FALSE /\ x.header_key = r.next_receive_header_key
    BY FurtherAlong
<1>4. key.transcript = t
    BY <1>3, NextChainAgrees
<1>5. x.header_key # r.receive_header_key
  <2> SUFFICES ASSUME x.header_key = r.receive_header_key PROVE FALSE
      OBVIOUS
  <2>1. r.receive_chain_key \in ChainKeys
      BY <1>1 DEF RatchetOK, ReceiveChainOK
  <2>2. x.header_key = HeaderOf(v) /\ v \in Transcripts
      BY <1>1, <2>1 DEF Aligned, HeadersAligned, ChainKeys, KeysOf
  <2>3. Len(key.transcript) > Len(v)
      OBVIOUS
  <2> DEFINE u == key.transcript
  <2>4. HeaderOf(u) = HeaderOf(v) /\ u \in Transcripts
      BY <1>1, <1>2, <2>2
  <2> HIDE DEF u, v
  <2>5. ChainLength(HeaderOf(v)) = Len(v) /\ Len(v) \in Nat
      BY <2>2, HeaderLengths
  <2>6. ChainLength(HeaderOf(u)) = Len(u) /\ Len(u) \in Nat
      BY <2>4, HeaderLengths
  <2> QED BY <2>3, <2>4, <2>5, <2>6 DEF u
<1>6. headerDecryptability(r, x, "none") = "NEXT_DECRYPTABLE"
  <2>1. x.header_key # NoKey
      BY <1>1 DEF HeaderKeys, KeysOf, NoKey
  <2> QED BY <1>3, <1>5, <2>1 DEF headerDecryptability, decryptsHeader
<1>7. /\ x.previous_message_number \in Nat /\ r.receive_message_number \in Nat
      /\ maximum_skipped_messages \in Nat
    BY <1>1, RatchetAssumption DEF PacketTyped, RatchetOK, RatchetTyped, MessageNumbers
<1> HIDE DEF key, number, t
<1>8. number = key.index
    BY <1>1, <1>2, NextNumber DEF key
<1>9. /\ x.previous_message_number <= r.receive_message_number + maximum_skipped_messages
      /\ number <= maximum_skipped_messages
    BY <1>2, <1>6, <1>7, <1>8 DEF TooFarAhead, number
<1>10. Skip(0, number) = number /\ number \in Nat
    BY <1>2, <1>8 DEF Skip
<1> DEFINE fresh == ChainKey(t)
<1>11. fresh \in ChainKeys /\ fresh.transcript = t /\ fresh.index = 0
    BY <1>2, <1>4 DEF ChainKey, ChainKeys, KeysOf
<1> HIDE DEF fresh
<1>12. key = deriveMessageKey(advanced(fresh, number))
  <2>1. key.transcript = fresh.transcript /\ key.index = fresh.index + number
      BY <1>4, <1>8, <1>10, <1>11
  <2> QED BY <1>2, <1>10, <1>11, <2>1, KeyAfterSteps
<1>13. key = deriveMessageKey(advanced(ChainKey(t), Skip(0, number)))
    BY <1>10, <1>12 DEF fresh
<1> QED BY <1>3, <1>6, <1>9, <1>13 DEF Openable, key, number, t

\* Every packet that is missing can be decrypted at any time, in whatever order the
\* others arrive, unless it is too far ahead, its key was dropped for want of room or
\* for age, or its chain has used up the message numbers.
THEOREM MissingPacketsAreDecryptable == Spec => []MissingPacketsDecryptable
<1>1. SafeInv /\ SyncInv /\ KeepInv => MissingPacketsDecryptable
  <2> SUFFICES ASSUME SafeInv, SyncInv, KeepInv, NEW p \in Parties, HasConversation(p),
                      NEW x \in SentTo(p), ~BagIn(x, received),
                      x.message_key \notin forgotten, ~TooFarAhead(ratchet[p], x),
                      ~Wrapped(x)
               PROVE  receivePacket(ratchet[p], x, "none", clock).ok
      BY DEF MissingPacketsDecryptable
  <2> DEFINE q == Peer(p)
             r == ratchet[p]
             sender == ratchet[q]
             key == x.message_key
  <2>1. Exchange(r, sender, x)
      BY PacketIsExchange
  <2>2. ComesFrom(q, x)
      BY PacketComesFrom DEF SentTo, SentBy
  <2>3. key.index < message_numbers
    <3>1. x \in sent /\ key.index \in Nat
        BY <2>2 DEF ComesFrom
    <3> QED BY <3>1, RatchetAssumption DEF Wrapped
  <2>4. Len(key.transcript) % 2 = 0 <=> sender.role = TRUE
    <3>1. sender.role = TRUE <=> q = 2
        BY <2>2 DEF ComesFrom, SafeInv, PartyOK
    <3> QED BY <2>2, <3>1 DEF ComesFrom
  <2>5. x \in Missing(p)
      BY DEF Missing
  <2>6. Receives(p, r)
      BY DEF KeepInv
  <2>7. clock \in Nat
    <3>1. clock \in 0..MaxTime /\ MaxTime \in Nat
        BY ConversationAssumption DEF SafeInv, TypesOK
    <3> QED BY <3>1
  <2>8. ~TooFarAhead(r, x)
      OBVIOUS
  <2> HIDE DEF r, sender
  <2>9. RatchetOK(r) /\ PacketTyped(x)
      BY <2>1 DEF Exchange
  <2>10. Openable(r, x)
    <3>1. CASE Passed(r.receive_chain_key, key)
      <4>1. PICK k \in ToSet(r.skipped) : k.message_key = key
          BY <2>5, <2>6, <3>1 DEF Receives, KeptFrom
      <4> QED BY <2>1, <4>1, OpensBySkippedKey
    <3>2. CASE /\ ~Passed(r.receive_chain_key, key)
               /\ Len(key.transcript) <= Len(r.receive_chain_key.transcript)
        BY <2>1, <2>3, <2>8, <3>2, OpensByCurrentChain
    <3>3. CASE Len(key.transcript) > Len(r.receive_chain_key.transcript)
        BY <2>1, <2>3, <2>4, <2>8, <3>3, OpensByNextChain
    <3>4. Len(key.transcript) \in Nat /\ Len(r.receive_chain_key.transcript) \in Nat
      <4>1. RatchetTyped(r)
          BY <2>9 DEF RatchetOK
      <4> QED BY <2>2, <4>1, Lengths DEF ComesFrom
    <3> QED BY <3>1, <3>2, <3>3, <3>4
  <2>11. receivePacket(r, x, "none", clock).ok = TRUE
      BY <2>7, <2>9, <2>10, Opens
  <2> QED BY <2>11 DEF r
<1> QED BY <1>1, MissingKeysAreKept, PTL
=============================================================================
