--------------------------- MODULE RatchetProofs ---------------------------
(***************************************************************************)
(* What the operations of a ratchet do to its record, field by field, and  *)
(* the facts about one ratchet that every operation preserves.             *)
(***************************************************************************)
EXTENDS Ratchet, KeyStoreProofs

-----------------------------------------------------------------------------
(***************************************************************************)
(* The staging loop                                                        *)
(***************************************************************************)

\* A function that goes through the loop of stageSkippedHeaderAndMessageKeys step
\* by step ends with what the loop computes.
LEMMA LoopIsUnique ==
    ASSUME NEW area, NEW more, NEW now, Len(more) \in Nat, NEW g,
           DOMAIN g = 0..Len(more),
           g[0] = area,
           \A i \in 1..Len(more) : g[i] = add(g[i - 1], more[i], now)
    PROVE  addAll(area, more, now) = g[Len(more)]
<1> DEFINE n == Len(more)
           P(f) == f = [i \in 0..n |-> IF i = 0 THEN area ELSE add(f[i - 1], more[i], now)]
           F == CHOOSE f : P(f)
           G == [i \in 0..n |-> g[i]]
<1>1. P(G)
  <2> SUFFICES ASSUME NEW i \in 0..n
               PROVE  G[i] = IF i = 0 THEN area ELSE add(G[i - 1], more[i], now)
      OBVIOUS
  <2>1. i # 0 => i \in 1..n /\ i - 1 \in 0..n
      OBVIOUS
  <2> QED BY <2>1
<1>2. P(F)
  <2> HIDE DEF P, G
  <2> QED BY <1>1
<1>3. addAll(area, more, now) = F[n]
    BY DEF addAll
<1> HIDE DEF F
<1>4. /\ F[0] = area
      /\ \A i \in 1..n : F[i] = add(F[i - 1], more[i], now)
  <2>1. \A i \in 0..n : F[i] = IF i = 0 THEN area ELSE add(F[i - 1], more[i], now)
      BY <1>2
  <2>2. 0 \in 0..n /\ \A i \in 1..n : i \in 0..n /\ i # 0
      OBVIOUS
  <2> QED BY <2>1, <2>2
<1> HIDE DEF P
<1>5. \A i \in 0..n : F[i] = g[i]
  <2> DEFINE D == {i \in 0..n : F[i] # g[i]}
  <2> SUFFICES ASSUME D # {} PROVE FALSE
      OBVIOUS
  <2>1. D \in SUBSET Nat
      OBVIOUS
  <2>2. PICK m \in D : \A k \in D : m <= k
    <3> HIDE DEF D
    <3> QED BY <2>1, LeastIndex
  <2>3. m # 0 /\ m \in 1..n /\ m - 1 \in 0..n /\ m - 1 \notin D
      BY <1>4, <2>2
  <2>4. F[m - 1] = g[m - 1]
      BY <2>3
  <2> QED BY <1>4, <2>2, <2>3, <2>4
<1> QED BY <1>3, <1>5

\* Keys with one and the same date, which is not in the past, are put one behind
\* the other as long as there is room for them.
LEMMA AddAllAppends ==
    ASSUME NEW K, NEW area \in Seq(K), NEW more \in Seq(K), NEW now \in Int, NEW d \in Int,
           \A i \in 1..Len(area) : area[i].expiration_date = d,
           \A i \in 1..Len(more) : more[i].expiration_date = d,
           ~(d <= now - header_and_message_store_maximum_age),
           Len(area) + Len(more) <= header_and_message_store_maximum_keys
    PROVE  addAll(area, more, now) = area \o more
<1> DEFINE n == Len(more)
           a == Len(area)
           part(i) == [k \in 1..(a + i) |-> IF k <= a THEN area[k] ELSE more[k - a]]
           g == [i \in 0..n |-> part(i)]
<1>1. n \in Nat /\ a \in Nat /\ area \in [1..a -> K] /\ more \in [1..n -> K]
      /\ area = [k \in 1..a |-> area[k]]
    BY LenProperties
<1>2. g[0] = area
    BY <1>1
<1>3. \A i \in 0..n : part(i) \in Seq(K) /\ Len(part(i)) = a + i /\ DOMAIN part(i) = 1..(a + i)
  <2> TAKE i \in 0..n
  <2>1. \A k \in 1..(a + i) : IF k <= a THEN k \in 1..a ELSE k - a \in 1..n
      BY <1>1
  <2>2. part(i) \in [1..(a + i) -> K] /\ a + i \in Nat
      BY <1>1, <2>1
  <2>3. part(i) \in Seq(K)
      BY <2>2, SeqDef
  <2> QED BY <2>2, <2>3, LenProperties
<1>4. ASSUME NEW i \in 1..n PROVE g[i] = add(g[i - 1], more[i], now)
  <2> DEFINE before == part(i - 1)
  <2>1. i - 1 \in 0..n /\ i \in 0..n /\ g[i - 1] = before /\ g[i] = part(i)
      BY <1>1
  <2>2. before \in Seq(K) /\ Len(before) = a + i - 1 /\ DOMAIN before = 1..(a + i - 1)
      BY <1>1, <1>3, <2>1
  <2>3. \A k \in 1..(a + i - 1) : before[k].expiration_date = d
    <3> TAKE k \in 1..(a + i - 1)
    <3>1. IF k <= a THEN k \in 1..a ELSE k - a \in 1..n
        BY <1>1
    <3> QED BY <1>1, <3>1
  <2>4. more[i].expiration_date = d /\ more[i] \in K
      BY <1>1
  <2>5. part(i) = [k \in 1..(a + i) |-> IF k = a + i THEN more[i] ELSE before[k]]
    <3> SUFFICES ASSUME NEW k \in 1..(a + i)
                 PROVE  part(i)[k] = IF k = a + i THEN more[i] ELSE before[k]
        BY <1>1
    <3>1. k # a + i => k \in 1..(a + i - 1)
      <4> HIDE DEF a, n, part, before
      <4> QED BY <1>1
    <3> QED BY <1>1, <3>1
  <2> HIDE DEF before, part, g, n, a
  <2>6. ~isOutdated(more[i], now)
      BY <2>4 DEF isOutdated
  <2>7. makeRoom(before) = before
      BY <1>1, <2>2, KeyStoreAssumption DEF makeRoom, n, a
  <2>8. insertSorted(before, more[i]) = Append(before, more[i])
    <3>1. CASE before = <<>>
        BY <3>1 DEF insertSorted
    <3>2. CASE before # <<>>
      <4>1. a + i - 1 \in 1..(a + i - 1)
          BY <1>1, <2>2, <3>2, EmptySeq
      <4>2. Last(before).expiration_date = d
          BY <2>2, <2>3, <4>1 DEF Last
      <4> QED BY <2>4, <4>2 DEF insertSorted
    <3> QED BY <3>1, <3>2
  <2>9. add(before, more[i], now) = Append(before, more[i])
      BY <2>6, <2>7, <2>8 DEF add
  <2>10. Append(before, more[i]) = part(i)
    <3>1. /\ Append(before, more[i]) \in Seq(K)
          /\ Len(Append(before, more[i])) = a + i
          /\ Append(before, more[i])[a + i] = more[i]
          /\ \A k \in 1..(a + i - 1) : Append(before, more[i])[k] = before[k]
        BY <1>1, <2>2, <2>4, AppendProperties
    <3>2. /\ DOMAIN Append(before, more[i]) = 1..(a + i)
          /\ Append(before, more[i]) = [k \in 1..(a + i) |-> Append(before, more[i])[k]]
        BY <3>1, LenProperties
    <3>3. \A k \in 1..(a + i) : Append(before, more[i])[k]
                                   = IF k = a + i THEN more[i] ELSE before[k]
        BY <1>1, <3>1
    <3> QED BY <2>5, <3>2, <3>3
  <2> QED BY <2>1, <2>9, <2>10
<1>5. addAll(area, more, now) = g[n]
  <2>1. DOMAIN g = 0..n
      OBVIOUS
  <2> HIDE DEF g
  <2>2. /\ Len(more) \in Nat
        /\ DOMAIN g = 0..Len(more)
        /\ g[0] = area
        /\ \A i \in 1..Len(more) : g[i] = add(g[i - 1], more[i], now)
      BY <1>1, <1>2, <1>4, <2>1
  <2>3. addAll(area, more, now) = g[Len(more)]
    <3> HIDE DEF n, a, part
    <3> QED BY <2>2, LoopIsUnique
  <2> QED BY <2>3
<1>6. g[n] = area \o more
  <2>1. /\ area \o more \in Seq(K)
        /\ Len(area \o more) = a + n
        /\ \A k \in 1..(a + n) : (area \o more)[k] = IF k <= a THEN area[k] ELSE more[k - a]
      BY <1>1, ConcatProperties
  <2>2. area \o more = [k \in 1..(a + n) |-> (area \o more)[k]]
      BY <2>1, LenProperties
  <2> QED BY <1>1, <2>1, <2>2
<1> QED BY <1>5, <1>6

\* Keys that are outdated from the start are not kept.
LEMMA AddAllIgnores ==
    ASSUME NEW K, NEW area, NEW more \in Seq(K), NEW now,
           \A i \in 1..Len(more) : isOutdated(more[i], now)
    PROVE  addAll(area, more, now) = area
<1> DEFINE g == [i \in 0..Len(more) |-> area]
<1>1. Len(more) \in Nat
    BY LenProperties
<1>2. \A i \in 1..Len(more) : i - 1 \in 0..Len(more) /\ i \in 0..Len(more)
    BY <1>1
<1>3. \A i \in 1..Len(more) : g[i] = add(g[i - 1], more[i], now)
    BY <1>2 DEF add
<1>4. g[0] = area /\ g[Len(more)] = area /\ DOMAIN g = 0..Len(more)
    BY <1>1
<1> HIDE DEF g
<1> QED BY <1>1, <1>3, <1>4, LoopIsUnique

-----------------------------------------------------------------------------
(***************************************************************************)
(* Keys and ratchets                                                       *)
(***************************************************************************)

\* Names of key pairs, results of Diffie Hellman, and what keys are derived from:
\* the first secret of a transcript is that of the triple Diffie Hellman
Name == Nat \X Nat
Agreement == [secret : SUBSET Name, alice : Name, bob : Name]
Secret == Agreement \union Seq(Agreement)
Transcripts == Seq(Secret) \ {<<>>}

KeysOf(kind) == [kind : {kind}, transcript : Transcripts, index : Nat]
RootKeys == KeysOf("root")
HeaderKeys == KeysOf("header")
ChainKeys == KeysOf("chain")
MessageKeys == KeysOf("message")
EmptyKeys == {NoKey, ZeroKey}

StoredKeys == [header_key : HeaderKeys, message_key : MessageKeys, expiration_date : Nat]

MessageNumbers == 0..(message_numbers - 1)

\* The members of Ratchet
Fields ==
    {"root_key", "send_header_key", "receive_header_key", "next_send_header_key",
     "next_receive_header_key", "send_chain_key", "receive_chain_key",
     "our_private_ephemeral", "our_public_ephemeral", "their_public_ephemeral",
     "purported_root_key", "purported_receive_header_key",
     "purported_next_receive_header_key", "purported_receive_chain_key",
     "their_purported_public_ephemeral", "purported_message_number",
     "purported_previous_message_number", "send_message_number",
     "receive_message_number", "previous_message_number", "ratchet_flag", "role",
     "received_valid", "header_decryptable", "skipped", "staged"}

\* The members have their types
RatchetTyped(r) ==
    /\ DOMAIN r = Fields
    /\ r.root_key \in RootKeys
    /\ r.send_header_key \in HeaderKeys \union {NoKey}
    /\ r.receive_header_key \in HeaderKeys \union EmptyKeys
    /\ r.next_send_header_key \in HeaderKeys
    /\ r.next_receive_header_key \in HeaderKeys
    /\ r.send_chain_key \in ChainKeys \union EmptyKeys
    /\ r.receive_chain_key \in ChainKeys \union EmptyKeys
    /\ r.our_private_ephemeral \in Name
    /\ r.our_public_ephemeral \in Name
    /\ r.their_public_ephemeral \in Name
    /\ r.purported_receive_chain_key \in ChainKeys \union {NoKey}
    /\ r.purported_message_number \in MessageNumbers
    /\ r.purported_previous_message_number \in MessageNumbers
    /\ r.send_message_number \in MessageNumbers
    /\ r.receive_message_number \in MessageNumbers
    /\ r.previous_message_number \in MessageNumbers
    /\ r.ratchet_flag \in BOOLEAN
    /\ r.role \in BOOLEAN
    /\ r.skipped \in Seq(StoredKeys)

\* The ratchet waits for a packet
Ready(r) ==
    /\ r.received_valid = TRUE
    /\ r.header_decryptable = "NOT_TRIED"
    /\ r.staged = <<>>

\* Chains with an even number of secrets are Alice's to send on
SendsOn(role, t) == (Len(t) % 2 = 0) <=> (role = ALICE)
ReceivesOn(role, t) == (Len(t) % 2 = 1) <=> (role = ALICE)

\* Whose turn it is to start a new chain can be told from the root key
TurnOK(r) == (Len(r.root_key.transcript) % 2 = 1) <=> (r.role = r.ratchet_flag)

\* Header keys come with chain keys, the root key is at least as far as either
\* chain, and who does not have to start a chain has one to send on
SendChainOK(r) ==
    /\ Len(r.send_chain_key.transcript) <= Len(r.root_key.transcript)
    /\ r.send_chain_key \in ChainKeys => SendsOn(r.role, r.send_chain_key.transcript)
    /\ r.send_chain_key \in ChainKeys <=> r.send_header_key \in HeaderKeys
    /\ r.ratchet_flag = FALSE \/ r.role = BOB => r.send_chain_key \in ChainKeys

ReceiveChainOK(r) ==
    /\ Len(r.receive_chain_key.transcript) <= Len(r.root_key.transcript)
    /\ r.receive_chain_key \in ChainKeys => ReceivesOn(r.role, r.receive_chain_key.transcript)
    /\ r.receive_chain_key \in ChainKeys <=> r.receive_header_key \in HeaderKeys
    /\ r.role = ALICE => r.receive_chain_key \in ChainKeys

\* The key of a message that the receiving chain has passed
Passed(chain_key, key) ==
    /\ Len(key.transcript) <= Len(chain_key.transcript)
    /\ key.transcript = chain_key.transcript => key.index < chain_key.index

\* The skipped keys belong to messages that the receiving chain has passed, and no
\* message has two of them
SkippedOK(r) ==
    /\ SortedByDate(r.skipped)
    /\ IsInjective(r.skipped)
    /\ \A k, l \in ToSet(r.skipped) : k.message_key = l.message_key => k = l
    /\ \A k \in ToSet(r.skipped) :
          /\ Passed(r.receive_chain_key, k.message_key)
          /\ ReceivesOn(r.role, k.message_key.transcript)

\* A chain key that a rejected packet left behind is ahead of the receiving chain
PurportedOK(r) ==
    LET key == r.purported_receive_chain_key
        chain_key == r.receive_chain_key
    IN  key \in ChainKeys =>
           /\ ReceivesOn(r.role, key.transcript)
           /\ \/ Len(key.transcript) > Len(chain_key.transcript)
              \/ key.transcript = chain_key.transcript /\ key.index >= chain_key.index

\* What holds of a ratchet between two calls
RatchetOK(r) ==
    /\ RatchetTyped(r) /\ Ready(r)
    /\ TurnOK(r) /\ SendChainOK(r) /\ ReceiveChainOK(r)
    /\ SkippedOK(r) /\ PurportedOK(r)

\* A transcript that grows is a transcript, and one longer.
LEMMA Growth ==
    ASSUME NEW t \in Transcripts \union {<<>>}, NEW x \in Secret
    PROVE  /\ Append(t, x) \in Transcripts
           /\ Len(t) \in Nat
           /\ Len(Append(t, x)) = Len(t) + 1
           /\ t # <<>> <=> Len(t) > 0
           /\ t # <<>> <=> t \in Transcripts
<1>1. t \in Seq(Secret)
    BY EmptySeq DEF Transcripts
<1>2. Append(t, x) \in Seq(Secret) /\ Len(t) \in Nat /\ Len(Append(t, x)) = Len(t) + 1
    BY <1>1, AppendProperties, LenProperties
<1>3. t # <<>> <=> Len(t) > 0
    BY <1>1, <1>2, EmptySeq, LenProperties
<1>4. Append(t, x) # <<>>
    BY <1>2, EmptySeq
<1> QED BY <1>1, <1>2, <1>3, <1>4 DEF Transcripts

\* diffie_hellman of names gives a secret.
LEMMA AgreementIsSecret ==
    ASSUME NEW a \in Name, NEW b \in Name, NEW c \in Name, NEW role \in BOOLEAN
    PROVE  diffie_hellman(a, b, c, role) \in Agreement
    BY DEF diffie_hellman, Agreement, ALICE

\* Ratchet::create makes a ratchet that waits for its first packet.
LEMMA Create ==
    ASSUME NEW ours \in Name, NEW ephemeral \in Name,
           NEW theirs \in Name, NEW prekey \in Name
    PROVE  RatchetOK(create(ours, ephemeral, theirs, prekey))
<1> DEFINE r == create(ours, ephemeral, theirs, prekey)
           role == ours[1] > theirs[1]
           triple == triple_diffie_hellman(ours, ephemeral, theirs, prekey, role)
           t == <<triple>>
<1>1. role \in BOOLEAN
    OBVIOUS
<1>2. triple \in Seq(Agreement)
  <2> HIDE DEF role
  <2>1. /\ diffie_hellman(ours, ours, prekey, role) \in Agreement
        /\ diffie_hellman(ephemeral, ephemeral, theirs, role) \in Agreement
        /\ diffie_hellman(ephemeral, ephemeral, prekey, role) \in Agreement
      BY <1>1, AgreementIsSecret
  <2> QED BY <1>1, <2>1 DEF triple_diffie_hellman
<1>3. t \in Transcripts /\ Len(t) = 1
    BY <1>2 DEF Transcripts, Secret
<1> HIDE DEF triple
<1>4. /\ DOMAIN r = Fields
      /\ r.root_key = RootKey(t)
      /\ r.role = role /\ r.ratchet_flag = role
      /\ r.send_header_key = IF role THEN NoKey ELSE HeaderKey(t, 1)
      /\ r.receive_header_key = IF role THEN HeaderKey(t, 1) ELSE NoKey
      /\ r.send_chain_key = IF role THEN NoKey ELSE ChainKey(t)
      /\ r.receive_chain_key = IF role THEN ChainKey(t) ELSE NoKey
      /\ r.next_send_header_key = HeaderKey(t, IF role THEN 2 ELSE 3)
      /\ r.next_receive_header_key = HeaderKey(t, IF role THEN 3 ELSE 2)
      /\ r.our_private_ephemeral = ephemeral /\ r.our_public_ephemeral = ephemeral
      /\ r.their_public_ephemeral = prekey
      /\ r.purported_receive_chain_key = NoKey
      /\ r.purported_message_number = 0 /\ r.purported_previous_message_number = 0
      /\ r.send_message_number = 0 /\ r.receive_message_number = 0
      /\ r.previous_message_number = 0
      /\ r.received_valid = TRUE /\ r.header_decryptable = "NOT_TRIED"
      /\ r.skipped = <<>> /\ r.staged = <<>>
    BY <1>1 DEF create, derive_initial_root_chain_and_header_keys, triple, Fields, ALICE
<1> HIDE DEF r, role, t
<1>5. /\ RootKey(t) \in RootKeys /\ ChainKey(t) \in ChainKeys
      /\ HeaderKey(t, 1) \in HeaderKeys /\ HeaderKey(t, 2) \in HeaderKeys
      /\ HeaderKey(t, 3) \in HeaderKeys
      /\ NoKey \notin ChainKeys /\ NoKey \notin HeaderKeys
    BY <1>3 DEF RootKey, ChainKey, HeaderKey, NoKey, RootKeys, ChainKeys, HeaderKeys, KeysOf
<1>6. 0 \in MessageNumbers
    BY RatchetAssumption DEF MessageNumbers
<1>7. <<>> \in Seq(StoredKeys) /\ DOMAIN <<>> = {} /\ ToSet(<<>>) = {}
    BY DEF ToSet
<1>8. RatchetTyped(r)
    BY <1>1, <1>4, <1>5, <1>6, <1>7 DEF RatchetTyped, EmptyKeys
<1>9. TurnOK(r) /\ SendChainOK(r) /\ ReceiveChainOK(r)
  <2>1. Len(RootKey(t).transcript) = 1 /\ Len(ChainKey(t).transcript) = 1
        /\ Len(NoKey.transcript) = 0
      BY <1>3 DEF RootKey, ChainKey, NoKey
  <2>2. 1 % 2 = 1 /\ ~(1 % 2 = 0)
      OBVIOUS
  <2>3. CASE role = TRUE
    <3>1. /\ r.root_key = RootKey(t) /\ r.role = TRUE /\ r.ratchet_flag = TRUE
          /\ r.send_chain_key = NoKey /\ r.receive_chain_key = ChainKey(t)
          /\ r.send_header_key = NoKey /\ r.receive_header_key = HeaderKey(t, 1)
        BY <1>4, <2>3
    <3>2. TurnOK(r)
        BY <2>1, <2>2, <3>1 DEF TurnOK
    <3>3. ReceivesOn(r.role, ChainKey(t).transcript)
        BY <2>1, <2>2, <3>1 DEF ReceivesOn, ALICE
    <3>4. SendChainOK(r)
        BY <1>5, <2>1, <3>1, <3>3 DEF SendChainOK, ALICE, BOB
    <3>5. ReceiveChainOK(r)
        BY <1>5, <2>1, <3>1, <3>3 DEF ReceiveChainOK, ALICE
    <3> QED BY <3>2, <3>4, <3>5
  <2>4. CASE role = FALSE
    <3>1. /\ r.root_key = RootKey(t) /\ r.role = FALSE /\ r.ratchet_flag = FALSE
          /\ r.send_chain_key = ChainKey(t) /\ r.receive_chain_key = NoKey
          /\ r.send_header_key = HeaderKey(t, 1) /\ r.receive_header_key = NoKey
        BY <1>4, <2>4
    <3>2. TurnOK(r)
        BY <2>1, <2>2, <3>1 DEF TurnOK
    <3>3. SendsOn(r.role, ChainKey(t).transcript)
        BY <2>1, <2>2, <3>1 DEF SendsOn, ALICE
    <3>4. SendChainOK(r)
        BY <1>5, <2>1, <3>1, <3>3 DEF SendChainOK, ALICE, BOB
    <3>5. ReceiveChainOK(r)
        BY <1>5, <2>1, <3>1, <3>3 DEF ReceiveChainOK, ALICE
    <3> QED BY <3>2, <3>4, <3>5
  <2> QED BY <1>1, <2>3, <2>4
<1>10. SkippedOK(r)
    BY <1>4, <1>7 DEF SkippedOK, SortedByDate, IsInjective
<1>11. Ready(r) /\ PurportedOK(r)
    BY <1>4, <1>5 DEF Ready, PurportedOK
<1> QED BY <1>8, <1>9, <1>10, <1>11 DEF RatchetOK, r

-----------------------------------------------------------------------------
(***************************************************************************)
(* Sending                                                                 *)
(***************************************************************************)

\* Everything about receiving is the same in both ratchets
SameReceiver(r, s) ==
    /\ s.receive_header_key = r.receive_header_key
    /\ s.next_receive_header_key = r.next_receive_header_key
    /\ s.receive_chain_key = r.receive_chain_key
    /\ s.their_public_ephemeral = r.their_public_ephemeral
    /\ s.receive_message_number = r.receive_message_number
    /\ s.purported_receive_chain_key = r.purported_receive_chain_key
    /\ s.role = r.role
    /\ s.skipped = r.skipped

\* The keys that derive_root_next_header_and_chain_keys returns
NextTranscript(r, private, public, theirs) ==
    Append(r.root_key.transcript, diffie_hellman(private, public, theirs, r.role))

\* Message numbers stay in their range.
LEMMA Successor ==
    ASSUME NEW n \in Nat
    PROVE  successor(n) \in MessageNumbers /\ 0 \in MessageNumbers
    BY RatchetAssumption DEF successor, MessageNumbers

\* Of two successive numbers one is even and one is odd.
LEMMA Parity ==
    ASSUME NEW n \in Nat
    PROVE  /\ n % 2 = 0 <=> ~(n % 2 = 1)
           /\ (n + 1) % 2 = 0 <=> n % 2 = 1
           /\ (n + 1) % 2 = 1 <=> n % 2 = 0
    OBVIOUS

\* The keys of the next chain.
LEMMA NextChain ==
    ASSUME NEW r, RatchetTyped(r),
           NEW private \in Name, NEW public \in Name, NEW theirs \in Name
    PROVE  LET t == NextTranscript(r, private, public, theirs)
               d == derive_root_next_header_and_chain_keys(
                       private, public, theirs, r.root_key, r.role)
           IN  /\ t \in Transcripts
               /\ Len(r.root_key.transcript) \in Nat
               /\ Len(t) = Len(r.root_key.transcript) + 1
               /\ d.root_key = RootKey(t) /\ RootKey(t) \in RootKeys
               /\ d.next_header_key = HeaderKey(t, 1) /\ HeaderKey(t, 1) \in HeaderKeys
               /\ d.chain_key = ChainKey(t) /\ ChainKey(t) \in ChainKeys
               /\ RootKey(t).transcript = t
               /\ ChainKey(t).transcript = t /\ ChainKey(t).index = 0
<1> DEFINE dh == diffie_hellman(private, public, theirs, r.role)
           t == NextTranscript(r, private, public, theirs)
<1>1. r.role \in BOOLEAN /\ r.root_key.transcript \in Transcripts
    BY DEF RatchetTyped, RootKeys, KeysOf
<1>2. dh \in Secret
    BY <1>1, AgreementIsSecret DEF Secret
<1>3. /\ t \in Transcripts
      /\ Len(r.root_key.transcript) \in Nat
      /\ Len(t) = Len(r.root_key.transcript) + 1
  <2> HIDE DEF dh
  <2> QED BY <1>1, <1>2, Growth DEF NextTranscript, dh
<1>4. RootKey(t) \in RootKeys /\ HeaderKey(t, 1) \in HeaderKeys /\ ChainKey(t) \in ChainKeys
  <2> HIDE DEF t
  <2> QED BY <1>3 DEF RootKey, ChainKey, HeaderKey, RootKeys, ChainKeys, HeaderKeys, KeysOf
<1>5. RootKey(t).transcript = t /\ ChainKey(t).transcript = t /\ ChainKey(t).index = 0
  <2> HIDE DEF t
  <2> QED BY DEF RootKey, ChainKey
<1> QED BY <1>3, <1>4, <1>5 DEF derive_root_next_header_and_chain_keys, NextTranscript

\* The lengths of the transcripts of the keys of a ratchet are numbers.
LEMMA Lengths ==
    ASSUME NEW r, RatchetTyped(r)
    PROVE  /\ Len(r.root_key.transcript) \in Nat
           /\ Len(r.send_chain_key.transcript) \in Nat
           /\ Len(r.receive_chain_key.transcript) \in Nat
           /\ Len(r.purported_receive_chain_key.transcript) \in Nat
           /\ r.receive_chain_key.index \in Nat
           /\ r.send_chain_key.index \in Nat
           /\ r.purported_receive_chain_key.index \in Nat
<1>1. \A key \in RootKeys \union ChainKeys \union EmptyKeys :
         key.transcript \in Seq(Secret) /\ key.index \in Nat
  <2>1. \A key \in RootKeys \union ChainKeys : key.transcript \in Seq(Secret) /\ key.index \in Nat
      BY DEF RootKeys, ChainKeys, KeysOf, Transcripts
  <2>2. NoKey.transcript \in Seq(Secret) /\ NoKey.index \in Nat
      BY DEF NoKey
  <2>3. ZeroKey.transcript \in Seq(Secret) /\ ZeroKey.index \in Nat
      BY DEF ZeroKey
  <2> QED BY <2>1, <2>2, <2>3 DEF EmptyKeys
<1>2. /\ r.root_key \in RootKeys
      /\ r.send_chain_key \in ChainKeys \union EmptyKeys
      /\ r.receive_chain_key \in ChainKeys \union EmptyKeys
      /\ r.purported_receive_chain_key \in ChainKeys \union EmptyKeys
    BY DEF RatchetTyped, EmptyKeys
<1> QED BY <1>1, <1>2, LenProperties

\* The first half of getSendData: a new chain, one secret longer than the root key.
LEMMA StartSendChain ==
    ASSUME NEW r, RatchetOK(r), r.ratchet_flag = TRUE, NEW fresh \in Name
    PROVE  LET s == startSendChain(r, fresh)
               t == NextTranscript(r, fresh, fresh, r.their_public_ephemeral)
           IN  /\ RatchetOK(s)
               /\ t \in Transcripts
               /\ Len(t) = Len(r.root_key.transcript) + 1
               /\ s.root_key = RootKey(t)
               /\ s.send_chain_key = ChainKey(t)
               /\ s.send_header_key = r.next_send_header_key
               /\ s.next_send_header_key = HeaderKey(t, 1)
               /\ s.our_private_ephemeral = fresh /\ s.our_public_ephemeral = fresh
               /\ s.previous_message_number = r.send_message_number
               /\ s.send_message_number = 0
               /\ s.ratchet_flag = FALSE
               /\ SameReceiver(r, s)
<1> DEFINE s == startSendChain(r, fresh)
           t == NextTranscript(r, fresh, fresh, r.their_public_ephemeral)
           d == derive_root_next_header_and_chain_keys(
                   fresh, fresh, r.their_public_ephemeral, r.root_key, r.role)
<1>1. RatchetTyped(r) /\ r.their_public_ephemeral \in Name
    BY DEF RatchetOK, RatchetTyped
<1>2. /\ t \in Transcripts
      /\ Len(r.root_key.transcript) \in Nat
      /\ Len(t) = Len(r.root_key.transcript) + 1
      /\ d.root_key = RootKey(t) /\ RootKey(t) \in RootKeys
      /\ d.next_header_key = HeaderKey(t, 1) /\ HeaderKey(t, 1) \in HeaderKeys
      /\ d.chain_key = ChainKey(t) /\ ChainKey(t) \in ChainKeys
      /\ RootKey(t).transcript = t
      /\ ChainKey(t).transcript = t /\ ChainKey(t).index = 0
    BY <1>1, NextChain
<1>3. /\ DOMAIN s = Fields
      /\ s.root_key = d.root_key
      /\ s.send_chain_key = d.chain_key
      /\ s.send_header_key = r.next_send_header_key
      /\ s.next_send_header_key = d.next_header_key
      /\ s.our_private_ephemeral = fresh /\ s.our_public_ephemeral = fresh
      /\ s.previous_message_number = r.send_message_number
      /\ s.send_message_number = 0
      /\ s.ratchet_flag = FALSE
      /\ SameReceiver(r, s)
      /\ s.purported_message_number = r.purported_message_number
      /\ s.purported_previous_message_number = r.purported_previous_message_number
      /\ s.received_valid = r.received_valid
      /\ s.header_decryptable = r.header_decryptable
      /\ s.staged = r.staged
    BY <1>1 DEF RatchetTyped, Fields, startSendChain, SameReceiver
<1> HIDE DEF s, t, d
<1>4. RatchetTyped(s)
    BY <1>1, <1>2, <1>3, Successor DEF RatchetTyped, SameReceiver
<1>5. Ready(s)
    BY <1>3 DEF RatchetOK, Ready
<1>6. TurnOK(s) /\ SendsOn(s.role, t)
  <2>1. Len(r.root_key.transcript) % 2 = 1 <=> r.role = TRUE
      BY DEF RatchetOK, TurnOK
  <2>2. Len(t) % 2 = 0 <=> r.role = TRUE
      BY <1>2, <2>1, Parity
  <2>3. Len(t) % 2 = 1 <=> r.role = FALSE
      BY <1>1, <1>2, <2>1, Parity DEF RatchetTyped
  <2> QED BY <1>2, <1>3, <2>2, <2>3, ZenonT(60) DEF TurnOK, SendsOn, SameReceiver, ALICE
<1>7. SendChainOK(s)
    BY <1>1, <1>2, <1>3, <1>6 DEF SendChainOK, RatchetTyped
<1>8. ReceiveChainOK(s)
  <2>1. Len(s.receive_chain_key.transcript) <= Len(s.root_key.transcript)
      BY <1>1, <1>2, <1>3, Lengths DEF RatchetOK, ReceiveChainOK, SameReceiver
  <2> QED BY <1>3, <2>1 DEF RatchetOK, ReceiveChainOK, SameReceiver
<1>9. SkippedOK(s) /\ PurportedOK(s)
    BY <1>3 DEF RatchetOK, SkippedOK, PurportedOK, SameReceiver
<1>10. RatchetOK(s)
    BY <1>4, <1>5, <1>6, <1>7, <1>8, <1>9 DEF RatchetOK
<1> QED BY <1>2, <1>3, <1>10 DEF s, t

\* The second half: the chain moves on by one message.
LEMMA SendOnChain ==
    ASSUME NEW r, RatchetOK(r), r.ratchet_flag = FALSE
    PROVE  LET s == [r EXCEPT !.send_message_number = successor(@),
                              !.send_chain_key = deriveChainKey(@)]
           IN  /\ r.send_chain_key \in ChainKeys /\ r.send_header_key \in HeaderKeys
               /\ RatchetOK(s)
               /\ s.send_chain_key = [r.send_chain_key EXCEPT !.index = @ + 1]
               /\ s.send_message_number = successor(r.send_message_number)
               /\ s.root_key = r.root_key
               /\ s.send_header_key = r.send_header_key
               /\ s.next_send_header_key = r.next_send_header_key
               /\ s.our_private_ephemeral = r.our_private_ephemeral
               /\ s.our_public_ephemeral = r.our_public_ephemeral
               /\ s.previous_message_number = r.previous_message_number
               /\ s.ratchet_flag = r.ratchet_flag
               /\ SameReceiver(r, s)
<1> DEFINE s == [r EXCEPT !.send_message_number = successor(@),
                          !.send_chain_key = deriveChainKey(@)]
<1>1. RatchetTyped(r)
    BY DEF RatchetOK
<1>2. r.send_chain_key \in ChainKeys /\ r.send_header_key \in HeaderKeys
    BY DEF RatchetOK, SendChainOK
<1>3. /\ DOMAIN s = Fields
      /\ s.send_chain_key = deriveChainKey(r.send_chain_key)
      /\ s.send_message_number = successor(r.send_message_number)
      /\ s.root_key = r.root_key
      /\ s.send_header_key = r.send_header_key
      /\ s.next_send_header_key = r.next_send_header_key
      /\ s.our_private_ephemeral = r.our_private_ephemeral
      /\ s.our_public_ephemeral = r.our_public_ephemeral
      /\ s.previous_message_number = r.previous_message_number
      /\ s.ratchet_flag = r.ratchet_flag
      /\ SameReceiver(r, s)
      /\ s.purported_message_number = r.purported_message_number
      /\ s.purported_previous_message_number = r.purported_previous_message_number
      /\ s.received_valid = r.received_valid
      /\ s.header_decryptable = r.header_decryptable
      /\ s.staged = r.staged
    BY <1>1 DEF RatchetTyped, Fields, SameReceiver
<1> HIDE DEF s
<1>4. /\ deriveChainKey(r.send_chain_key) \in ChainKeys
      /\ deriveChainKey(r.send_chain_key).transcript = r.send_chain_key.transcript
    BY <1>2 DEF deriveChainKey, ChainKeys, KeysOf
<1>5. successor(r.send_message_number) \in MessageNumbers
  <2>1. r.send_message_number \in MessageNumbers
      BY <1>1 DEF RatchetTyped
  <2>2. r.send_message_number \in Nat
      BY <2>1, RatchetAssumption DEF MessageNumbers
  <2> QED BY <2>2, Successor
<1>6. RatchetTyped(s)
    BY <1>1, <1>3, <1>4, <1>5 DEF RatchetTyped, SameReceiver
<1>7. Ready(s) /\ TurnOK(s)
    BY <1>3 DEF RatchetOK, Ready, TurnOK, SameReceiver
<1>8. SendChainOK(s)
    BY <1>2, <1>3, <1>4 DEF RatchetOK, SendChainOK, SameReceiver
<1>9. ReceiveChainOK(s) /\ SkippedOK(s) /\ PurportedOK(s)
    BY <1>3 DEF RatchetOK, ReceiveChainOK, SkippedOK, PurportedOK, SameReceiver
<1>10. RatchetOK(s)
    BY <1>6, <1>7, <1>8, <1>9 DEF RatchetOK
<1> QED BY <1>2, <1>3, <1>10 DEF s, deriveChainKey

\* The data for the next message, from the current chain or from the new one that
\* getSendData has started
SendData(r, fresh, data) ==
    LET t == NextTranscript(r, fresh, fresh, r.their_public_ephemeral)
        s == data.ratchet
    IN  /\ data.ok
        /\ RatchetOK(s)
        /\ s.ratchet_flag = FALSE
        /\ SameReceiver(r, s)
        /\ data.header_key = s.send_header_key /\ data.header_key \in HeaderKeys
        /\ data.message_key \in MessageKeys
        /\ s.send_chain_key \in ChainKeys
        /\ data.message_key.transcript = s.send_chain_key.transcript
        /\ s.send_chain_key.index = data.message_key.index + 1
        /\ data.ephemeral = s.our_public_ephemeral /\ data.ephemeral \in Name
        /\ data.message_number \in MessageNumbers
        /\ s.send_message_number = successor(data.message_number)
        /\ data.previous_message_number = s.previous_message_number
        /\ data.previous_message_number \in MessageNumbers
        /\ r.ratchet_flag = TRUE =>
              /\ t \in Transcripts
              /\ Len(t) = Len(r.root_key.transcript) + 1
              /\ s.root_key = RootKey(t)
              /\ data.message_key.transcript = t /\ data.message_key.index = 0
              /\ s.send_header_key = r.next_send_header_key
              /\ s.next_send_header_key = HeaderKey(t, 1)
              /\ s.our_private_ephemeral = fresh /\ s.our_public_ephemeral = fresh
              /\ s.previous_message_number = r.send_message_number
              /\ data.message_number = 0
        /\ r.ratchet_flag = FALSE =>
              /\ s.root_key = r.root_key
              /\ r.send_chain_key \in ChainKeys
              /\ data.message_key.transcript = r.send_chain_key.transcript
              /\ data.message_key.index = r.send_chain_key.index
              /\ s.send_header_key = r.send_header_key
              /\ s.next_send_header_key = r.next_send_header_key
              /\ s.our_private_ephemeral = r.our_private_ephemeral
              /\ s.our_public_ephemeral = r.our_public_ephemeral
              /\ s.previous_message_number = r.previous_message_number
              /\ data.message_number = r.send_message_number

\* Ratchet::getSendData always succeeds.  It sends with the current chain, or with
\* the new one that it has started, and its message key is never derived again.
LEMMA GetSendData ==
    ASSUME NEW r, RatchetOK(r), NEW fresh \in Name
    PROVE  SendData(r, fresh, getSendData(r, fresh))
<1> DEFINE b == IF r.ratchet_flag THEN startSendChain(r, fresh) ELSE r
           t == NextTranscript(r, fresh, fresh, r.their_public_ephemeral)
           data == getSendData(r, fresh)
           e == [b EXCEPT !.send_message_number = successor(@),
                          !.send_chain_key = deriveChainKey(@)]
<1>1. r.ratchet_flag \in BOOLEAN
    BY DEF RatchetOK, RatchetTyped
<1>2. RatchetOK(b) /\ b.ratchet_flag = FALSE
    BY <1>1, StartSendChain
<1>3. /\ b.send_chain_key \in ChainKeys /\ b.send_header_key \in HeaderKeys
      /\ RatchetOK(e)
      /\ e.send_chain_key = [b.send_chain_key EXCEPT !.index = @ + 1]
      /\ e.send_message_number = successor(b.send_message_number)
      /\ e.root_key = b.root_key
      /\ e.send_header_key = b.send_header_key
      /\ e.next_send_header_key = b.next_send_header_key
      /\ e.our_private_ephemeral = b.our_private_ephemeral
      /\ e.our_public_ephemeral = b.our_public_ephemeral
      /\ e.previous_message_number = b.previous_message_number
      /\ e.ratchet_flag = b.ratchet_flag
      /\ SameReceiver(b, e)
  <2> HIDE DEF b
  <2> QED BY <1>2, SendOnChain
<1>4. SameReceiver(r, b)
    BY <1>1, StartSendChain DEF SameReceiver
<1>5. b.send_chain_key # NoKey /\ b.send_header_key # NoKey
  <2> HIDE DEF b, e
  <2> QED BY <1>3 DEF ChainKeys, HeaderKeys, KeysOf, NoKey
<1>6. /\ data.ok = TRUE
      /\ data.ratchet = e
      /\ data.header_key = b.send_header_key
      /\ data.message_key = deriveMessageKey(b.send_chain_key)
      /\ data.ephemeral = b.our_public_ephemeral
      /\ data.message_number = b.send_message_number
      /\ data.previous_message_number = b.previous_message_number
    BY <1>5 DEF getSendData
<1>7. r.ratchet_flag = TRUE =>
         /\ t \in Transcripts
         /\ Len(t) = Len(r.root_key.transcript) + 1
         /\ b.root_key = RootKey(t)
         /\ b.send_chain_key = ChainKey(t)
         /\ b.send_header_key = r.next_send_header_key
         /\ b.next_send_header_key = HeaderKey(t, 1)
         /\ b.our_private_ephemeral = fresh /\ b.our_public_ephemeral = fresh
         /\ b.previous_message_number = r.send_message_number
         /\ b.send_message_number = 0
    BY StartSendChain
<1>8. r.ratchet_flag = FALSE => b = r
    OBVIOUS
<1> HIDE DEF b, e, data, t
<1>9. /\ data.message_key \in MessageKeys
      /\ data.message_key.transcript = b.send_chain_key.transcript
      /\ data.message_key.index = b.send_chain_key.index
      /\ e.send_chain_key \in ChainKeys
      /\ e.send_chain_key.transcript = b.send_chain_key.transcript
      /\ e.send_chain_key.index = b.send_chain_key.index + 1
    BY <1>3, <1>6 DEF deriveMessageKey, MessageKeys, ChainKeys, KeysOf
<1>10. SameReceiver(r, e)
    BY <1>3, <1>4 DEF SameReceiver
<1>11. /\ b.our_public_ephemeral \in Name
       /\ b.send_message_number \in MessageNumbers
       /\ b.previous_message_number \in MessageNumbers
    BY <1>2 DEF RatchetOK, RatchetTyped
<1>12. ChainKey(t).transcript = t /\ ChainKey(t).index = 0
    BY DEF ChainKey
<1>13. r.ratchet_flag = TRUE =>
          /\ t \in Transcripts
          /\ Len(t) = Len(r.root_key.transcript) + 1
          /\ e.root_key = RootKey(t)
          /\ data.message_key.transcript = t /\ data.message_key.index = 0
          /\ e.send_header_key = r.next_send_header_key
          /\ e.next_send_header_key = HeaderKey(t, 1)
          /\ e.our_private_ephemeral = fresh /\ e.our_public_ephemeral = fresh
          /\ e.previous_message_number = r.send_message_number
          /\ data.message_number = 0
    BY <1>3, <1>6, <1>7, <1>9, <1>12
<1>14. r.ratchet_flag = FALSE =>
          /\ e.root_key = r.root_key
          /\ r.send_chain_key \in ChainKeys
          /\ data.message_key.transcript = r.send_chain_key.transcript
          /\ data.message_key.index = r.send_chain_key.index
          /\ e.send_header_key = r.send_header_key
          /\ e.next_send_header_key = r.next_send_header_key
          /\ e.our_private_ephemeral = r.our_private_ephemeral
          /\ e.our_public_ephemeral = r.our_public_ephemeral
          /\ e.previous_message_number = r.previous_message_number
          /\ data.message_number = r.send_message_number
    BY <1>3, <1>6, <1>8, <1>9
<1> QED BY <1>2, <1>3, <1>6, <1>9, <1>10, <1>11, <1>13, <1>14 DEF SendData, data, t

-----------------------------------------------------------------------------
(***************************************************************************)
(* Staging and committing keys                                             *)
(***************************************************************************)

\* How many messages a packet skips
Skip(current, future) == IF future > current THEN future - current ELSE 0

\* What the loop stages.  Keys that expire at once are not even staged.
StagedKeys(header_key, chain_key, count, now) ==
    IF expiration_time + header_and_message_store_maximum_age > 0
    THEN skippedKeys(header_key, chain_key, count, now)
    ELSE <<>>

\* The number of messages skipped is limited.
LEMMA SkipLimit ==
    ASSUME NEW current \in Nat, NEW future \in Nat
    PROVE  /\ Skip(current, future) \in Nat
           /\ future <= current + maximum_skipped_messages
                 => Skip(current, future) <= maximum_skipped_messages
    BY RatchetAssumption DEF Skip

\* Passing over messages gives a chain key of the same chain.
LEMMA Advance ==
    ASSUME NEW chain_key \in ChainKeys, NEW count \in Nat
    PROVE  LET key == advanced(chain_key, count)
           IN  /\ key \in ChainKeys
               /\ key.transcript = chain_key.transcript
               /\ key.index = chain_key.index + count
               /\ deriveMessageKey(key) \in MessageKeys
               /\ deriveMessageKey(key).transcript = chain_key.transcript
               /\ deriveMessageKey(key).index = chain_key.index + count
               /\ deriveChainKey(key) \in ChainKeys
               /\ deriveChainKey(key).transcript = chain_key.transcript
               /\ deriveChainKey(key).index = chain_key.index + count + 1
<1> DEFINE key == advanced(chain_key, count)
<1>1. key \in ChainKeys /\ key.transcript = chain_key.transcript
      /\ key.index = chain_key.index + count /\ chain_key.index \in Nat
    BY DEF advanced, ChainKeys, KeysOf
<1> HIDE DEF key
<1>2. /\ deriveMessageKey(key) \in MessageKeys
      /\ deriveMessageKey(key).transcript = key.transcript
      /\ deriveMessageKey(key).index = key.index
    BY <1>1 DEF deriveMessageKey, ChainKeys, MessageKeys, KeysOf
<1>3. /\ deriveChainKey(key) \in ChainKeys
      /\ deriveChainKey(key).transcript = key.transcript
      /\ deriveChainKey(key).index = key.index + 1
    BY <1>1 DEF deriveChainKey, ChainKeys, KeysOf
<1> QED BY <1>1, <1>2, <1>3 DEF key

\* The keys of the messages that are skipped on a chain, in the order of the chain
AreStaged(keys, header_key, chain_key, count, now) ==
    /\ keys \in Seq(StoredKeys)
    /\ Len(keys) \in 0..count
    /\ expiration_time + header_and_message_store_maximum_age > 0 => Len(keys) = count
    /\ \A i \in 1..Len(keys) :
          /\ keys[i].header_key = header_key
          /\ keys[i].message_key.transcript = chain_key.transcript
          /\ keys[i].message_key.index = chain_key.index + i - 1
          /\ keys[i].expiration_date = now + expiration_time

\* What the staged keys are.
LEMMA StagedKeysAre ==
    ASSUME NEW header_key \in HeaderKeys, NEW chain_key \in ChainKeys,
           NEW count \in Nat, NEW now \in Nat
    PROVE  AreStaged(StagedKeys(header_key, chain_key, count, now),
                     header_key, chain_key, count, now)
<1> DEFINE keys == skippedKeys(header_key, chain_key, count, now)
<1>1. \A i \in 1..count :
         /\ keys[i].header_key = header_key
         /\ keys[i].message_key = deriveMessageKey(advanced(chain_key, i - 1))
         /\ keys[i].expiration_date = now + expiration_time
    BY DEF skippedKeys, HeaderAndMessageKey
<1>2. \A i \in 1..count :
         /\ deriveMessageKey(advanced(chain_key, i - 1)) \in MessageKeys
         /\ deriveMessageKey(advanced(chain_key, i - 1)).transcript = chain_key.transcript
         /\ deriveMessageKey(advanced(chain_key, i - 1)).index = chain_key.index + i - 1
  <2> TAKE i \in 1..count
  <2>1. i - 1 \in Nat /\ chain_key.index \in Nat
      BY DEF ChainKeys, KeysOf
  <2>2. chain_key.index + (i - 1) = chain_key.index + i - 1
      BY <2>1
  <2> QED BY <2>1, <2>2, Advance
<1>3. \A i \in 1..count : keys[i] \in StoredKeys
    BY <1>2, KeyStoreAssumption DEF skippedKeys, HeaderAndMessageKey, StoredKeys
<1>4. keys \in Seq(StoredKeys) /\ Len(keys) = count
  <2>1. keys \in [1..count -> StoredKeys]
      BY <1>3 DEF skippedKeys
  <2>2. keys \in Seq(StoredKeys)
      BY <2>1, SeqDef
  <2> QED BY <2>1, <2>2, LenProperties
<1> HIDE DEF keys
<1>5. CASE expiration_time + header_and_message_store_maximum_age > 0
    BY <1>1, <1>2, <1>4, <1>5 DEF AreStaged, StagedKeys, keys
<1>6. CASE ~(expiration_time + header_and_message_store_maximum_age > 0)
  <2>1. StagedKeys(header_key, chain_key, count, now) = <<>>
      BY <1>6 DEF StagedKeys
  <2>2. <<>> \in Seq(StoredKeys) /\ Len(<<>>) = 0
      OBVIOUS
  <2> QED BY <1>6, <2>1, <2>2 DEF AreStaged
<1> QED BY <1>5, <1>6

\* stageSkippedHeaderAndMessageKeys of a chain that is not <none>: it fails when
\* too many messages would be skipped and leaves the staging area alone.
LEMMA StageFails ==
    ASSUME NEW area, NEW header_key, NEW chain_key \in ChainKeys,
           NEW current \in Nat, NEW future \in Nat, NEW now,
           future > current + maximum_skipped_messages
    PROVE  LET stage == stageSkippedHeaderAndMessageKeys(
                           area, header_key, current, future, chain_key, now)
           IN  stage.ok = FALSE /\ stage.staged = area
<1>1. ~isNone(chain_key)
    BY DEF isNone, ChainKeys, KeysOf, NoKey, ZeroKey
<1> QED BY <1>1 DEF stageSkippedHeaderAndMessageKeys

\* Few enough messages are skipped, and what is staged already was staged by the
\* same call and fills at most half of the staging area
CanStage(area, header_key, chain_key, current, future, now) ==
    /\ area \in Seq(StoredKeys)
    /\ header_key \in HeaderKeys
    /\ chain_key \in ChainKeys
    /\ current \in Nat /\ future \in Nat /\ now \in Nat
    /\ future <= current + maximum_skipped_messages
    /\ Len(area) <= maximum_skipped_messages
    /\ \A i \in 1..Len(area) : area[i].expiration_date = now + expiration_time

\* The keys of the messages that are skipped go behind those that are staged
\* already, and the chain has moved behind the message
Stages(area, header_key, chain_key, current, future, now) ==
    LET stage == stageSkippedHeaderAndMessageKeys(
                    area, header_key, current, future, chain_key, now)
        count == Skip(current, future)
    IN  /\ stage.ok = TRUE
        /\ stage.staged = area \o StagedKeys(header_key, chain_key, count, now)
        /\ stage.message_key = deriveMessageKey(advanced(chain_key, count))
        /\ stage.chain_key = deriveChainKey(advanced(chain_key, count))

\* Otherwise it stages the keys of the messages skipped behind those that are
\* staged already, and none of them is lost.
LEMMA StageSucceeds ==
    ASSUME NEW area, NEW header_key, NEW chain_key, NEW current, NEW future, NEW now,
           CanStage(area, header_key, chain_key, current, future, now)
    PROVE  Stages(area, header_key, chain_key, current, future, now)
<1> DEFINE count == Skip(current, future)
           keys == skippedKeys(header_key, chain_key, count, now)
           stage == stageSkippedHeaderAndMessageKeys(
                       area, header_key, current, future, chain_key, now)
<1>1. /\ area \in Seq(StoredKeys)
      /\ header_key \in HeaderKeys
      /\ chain_key \in ChainKeys
      /\ current \in Nat /\ future \in Nat /\ now \in Nat
      /\ future <= current + maximum_skipped_messages
      /\ Len(area) <= maximum_skipped_messages
      /\ \A i \in 1..Len(area) : area[i].expiration_date = now + expiration_time
    BY DEF CanStage
<1>2. ~isNone(chain_key)
    BY <1>1 DEF isNone, ChainKeys, KeysOf, NoKey, ZeroKey
<1>3. /\ stage.ok = TRUE
      /\ stage.staged = addAll(area, keys, now)
      /\ stage.message_key = deriveMessageKey(advanced(chain_key, count))
      /\ stage.chain_key = deriveChainKey(advanced(chain_key, count))
    BY <1>1, <1>2, RatchetAssumption DEF stageSkippedHeaderAndMessageKeys, Skip
<1>4. count \in Nat /\ count <= maximum_skipped_messages
    BY <1>1, SkipLimit
<1> HIDE DEF count
<1>5. \A i \in 1..count : keys[i].expiration_date = now + expiration_time
    BY DEF skippedKeys, HeaderAndMessageKey
<1>6. keys \in Seq(StoredKeys) /\ Len(keys) = count
  <2>1. \A i \in 1..count : keys[i] \in StoredKeys
    <3> TAKE i \in 1..count
    <3>1. i - 1 \in Nat
        BY <1>4
    <3>2. deriveMessageKey(advanced(chain_key, i - 1)) \in MessageKeys
        BY <1>1, <3>1, Advance
    <3> QED BY <1>1, <3>2, KeyStoreAssumption DEF skippedKeys, HeaderAndMessageKey, StoredKeys
  <2>2. keys \in [1..count -> StoredKeys]
      BY <2>1 DEF skippedKeys
  <2>3. keys \in Seq(StoredKeys)
      BY <1>4, <2>2, SeqDef
  <2> QED BY <1>4, <2>2, <2>3, LenProperties
<1> HIDE DEF keys, stage
<1>7. CASE expiration_time + header_and_message_store_maximum_age > 0
  <2>1. now + expiration_time \in Int /\ now \in Int
        /\ ~(now + expiration_time <= now - header_and_message_store_maximum_age)
      BY <1>1, <1>7, KeyStoreAssumption
  <2>2. Len(area) + Len(keys) <= header_and_message_store_maximum_keys
      BY <1>1, <1>4, <1>6, RatchetAssumption, KeyStoreAssumption, LenProperties
  <2>3. addAll(area, keys, now) = area \o keys
      BY <1>1, <1>5, <1>6, <2>1, <2>2, AddAllAppends
  <2> QED BY <1>3, <1>7, <2>3 DEF Stages, StagedKeys, keys, count, stage
<1>8. CASE ~(expiration_time + header_and_message_store_maximum_age > 0)
  <2>1. \A i \in 1..Len(keys) : isOutdated(keys[i], now)
      BY <1>1, <1>5, <1>6, <1>8, KeyStoreAssumption DEF isOutdated
  <2>2. addAll(area, keys, now) = area
      BY <1>6, <2>1, AddAllIgnores
  <2>3. area \o <<>> = area
      BY <1>1, ConcatEmptySeq
  <2> QED BY <1>3, <1>8, <2>2, <2>3 DEF Stages, StagedKeys, keys, count, stage
<1> QED BY <1>7, <1>8

\* The store after commitSkippedHeaderAndMessageKeys
Committed(skipped, staged, now) ==
    removeOutdatedAndTrimSize(addStore(skipped, staged, now), now)

\* A commit of keys for messages that have none yet loses a key only for its age
\* or when there are too many.
LEMMA CommitStaged ==
    ASSUME NEW a \in Seq(StoredKeys), NEW b \in Seq(StoredKeys), NEW now \in Nat,
           SortedByDate(a), IsInjective(a),
           \A k, l \in ToSet(a) : k.message_key = l.message_key => k = l,
           \A i \in 1..Len(b) : b[i].expiration_date = now + expiration_time,
           \A i, j \in 1..Len(b) : b[i].message_key = b[j].message_key => i = j,
           \A k \in ToSet(a), i \in 1..Len(b) : k.message_key # b[i].message_key
    PROVE  LET after == Committed(a, b, now)
               all == ToSet(a) \union ToSet(b)
           IN  /\ after \in Seq(StoredKeys)
               /\ SortedByDate(after)
               /\ IsInjective(after)
               /\ ToSet(after) \subseteq all
               /\ \A k, l \in ToSet(after) : k.message_key = l.message_key => k = l
               /\ \A k \in all \ ToSet(after) :
                     \/ isOutdated(k, now)
                     \/ Cardinality(all) > header_and_message_store_maximum_keys
<1> DEFINE after == Committed(a, b, now)
           all == ToSet(a) \union ToSet(b)
           pool == {k \in all : ~isOutdated(k, now)}
           room == header_and_message_store_maximum_keys
<1>1. Dated(StoredKeys) /\ now \in Int
    BY DEF Dated, StoredKeys
<1>2. DOMAIN b = 1..Len(b) /\ ToSet(b) = {b[i] : i \in 1..Len(b)} /\ Len(b) \in Nat
    BY Vector
<1>3. SortedByDate(b)
    BY <1>2, KeyStoreAssumption DEF SortedByDate
<1>4. IsInjective(b)
    BY <1>2 DEF IsInjective
<1>5. ToSet(a) \cap ToSet(b) = {}
    BY <1>2
<1>6. /\ after \in Seq(StoredKeys)
      /\ SortedByDate(after)
      /\ IsInjective(after)
      /\ ToSet(after) \subseteq pool
      /\ Len(after) = IF Cardinality(pool) < room THEN Cardinality(pool) ELSE room
    BY <1>1, <1>3, <1>4, <1>5, Commit DEF Committed
<1>7. \A k, l \in all : k.message_key = l.message_key => k = l
    BY <1>2
<1>8. ASSUME NEW k \in all \ ToSet(after), ~isOutdated(k, now)
      PROVE  Cardinality(all) > room
  <2>1. IsFiniteSet(ToSet(a)) /\ IsFiniteSet(ToSet(b)) /\ IsFiniteSet(ToSet(after))
        /\ Cardinality(ToSet(after)) = Len(after)
      BY <1>4, <1>6, CountKeys
  <2> HIDE DEF after
  <2>2. IsFiniteSet(all)
      BY <2>1, FS_Union
  <2>3. k \in pool /\ pool \subseteq all
      BY <1>8
  <2> HIDE DEF all, pool
  <2>4. IsFiniteSet(pool) /\ Cardinality(pool) <= Cardinality(all)
      BY <2>2, <2>3, FS_Subset
  <2>5. Cardinality(ToSet(after)) # Cardinality(pool)
      BY <1>6, <1>8, <2>3, <2>4, FS_Subset
  <2>6. Cardinality(ToSet(after)) <= Cardinality(pool)
      BY <1>6, <2>4, FS_Subset
  <2>7. Cardinality(pool) \in Nat /\ Cardinality(all) \in Nat /\ room \in Nat
        /\ Len(after) \in Nat
      BY <1>6, <2>2, <2>4, FS_CardinalityType, KeyStoreAssumption, LenProperties
  <2> QED BY <1>6, <2>1, <2>4, <2>5, <2>6, <2>7
<1> QED BY <1>6, <1>7, <1>8

-----------------------------------------------------------------------------
(***************************************************************************)
(* Receiving                                                               *)
(***************************************************************************)

\* Everything that outlives a packet that is being tried
SameKeys(r, s) ==
    /\ s.root_key = r.root_key
    /\ s.send_header_key = r.send_header_key
    /\ s.receive_header_key = r.receive_header_key
    /\ s.next_send_header_key = r.next_send_header_key
    /\ s.next_receive_header_key = r.next_receive_header_key
    /\ s.send_chain_key = r.send_chain_key
    /\ s.receive_chain_key = r.receive_chain_key
    /\ s.our_private_ephemeral = r.our_private_ephemeral
    /\ s.our_public_ephemeral = r.our_public_ephemeral
    /\ s.their_public_ephemeral = r.their_public_ephemeral
    /\ s.send_message_number = r.send_message_number
    /\ s.receive_message_number = r.receive_message_number
    /\ s.previous_message_number = r.previous_message_number
    /\ s.ratchet_flag = r.ratchet_flag
    /\ s.role = r.role
    /\ s.skipped = r.skipped

\* Nothing but purported values has changed
Rejected(r, s) ==
    /\ DOMAIN s = Fields
    /\ SameKeys(r, s)
    /\ Ready(s)
    /\ s.purported_message_number \in MessageNumbers
    /\ s.purported_previous_message_number \in MessageNumbers
    /\ s.purported_receive_chain_key \in ChainKeys \union {NoKey}
    /\ PurportedOK(s)

\* A message of the current chain has been opened: the chain has moved behind it
OpenedCurrent(r, s, number, now) ==
    LET count == Skip(r.receive_message_number, number)
    IN  /\ DOMAIN s = Fields
        /\ s.root_key = r.root_key
        /\ s.send_header_key = r.send_header_key
        /\ s.receive_header_key = r.receive_header_key
        /\ s.next_send_header_key = r.next_send_header_key
        /\ s.next_receive_header_key = r.next_receive_header_key
        /\ s.send_chain_key = r.send_chain_key
        /\ s.our_private_ephemeral = r.our_private_ephemeral
        /\ s.our_public_ephemeral = r.our_public_ephemeral
        /\ s.their_public_ephemeral = r.their_public_ephemeral
        /\ s.send_message_number = r.send_message_number
        /\ s.previous_message_number = r.previous_message_number
        /\ s.ratchet_flag = r.ratchet_flag
        /\ s.role = r.role
        /\ Ready(s)
        /\ s.receive_chain_key = deriveChainKey(advanced(r.receive_chain_key, count))
        /\ s.purported_receive_chain_key = s.receive_chain_key
        /\ s.receive_message_number = successor(number)
        /\ s.purported_message_number = number
        /\ s.purported_previous_message_number = r.purported_previous_message_number
        /\ s.skipped = Committed(r.skipped,
                          StagedKeys(r.receive_header_key, r.receive_chain_key, count, now), now)

\* What is staged of the old chain when the first message of a new one arrives
RestOfChain(r, previous_number, now) ==
    IF r.receive_chain_key \in ChainKeys
    THEN StagedKeys(r.receive_header_key, r.receive_chain_key,
                    Skip(r.receive_message_number, previous_number), now)
    ELSE <<>>

\* The transcript of the chain that a public ephemeral announces
ReceivingTranscript(r, ephemeral) ==
    NextTranscript(r, r.our_private_ephemeral, r.our_public_ephemeral, ephemeral)

\* What is staged of both chains
StagedForNext(r, ephemeral, number, previous_number, now) ==
    RestOfChain(r, previous_number, now) \o
       StagedKeys(r.next_receive_header_key, ChainKey(ReceivingTranscript(r, ephemeral)),
                  Skip(0, number), now)

\* A message of a new chain has been opened
OpenedNext(r, s, ephemeral, number, previous_number, now) ==
    LET t == ReceivingTranscript(r, ephemeral)
    IN  /\ DOMAIN s = Fields
        /\ s.root_key = RootKey(t)
        /\ s.send_header_key = r.send_header_key
        /\ s.receive_header_key = r.next_receive_header_key
        /\ s.next_send_header_key = r.next_send_header_key
        /\ s.next_receive_header_key = HeaderKey(t, 1)
        /\ s.send_chain_key = r.send_chain_key
        /\ s.our_private_ephemeral = ZeroedPrivateKey
        /\ s.our_public_ephemeral = r.our_public_ephemeral
        /\ s.their_public_ephemeral = ephemeral
        /\ s.send_message_number = r.send_message_number
        /\ s.previous_message_number = r.previous_message_number
        /\ s.ratchet_flag = TRUE
        /\ s.role = r.role
        /\ Ready(s)
        /\ s.receive_chain_key = deriveChainKey(advanced(ChainKey(t), Skip(0, number)))
        /\ s.purported_receive_chain_key = s.receive_chain_key
        /\ s.receive_message_number = successor(number)
        /\ s.purported_message_number = number
        /\ s.purported_previous_message_number = previous_number
        /\ s.skipped = Committed(r.skipped,
                          StagedForNext(r, ephemeral, number, previous_number, now), now)

\* rejectMessage takes back what a packet has done to a ratchet that was ready.
LEMMA Reject ==
    ASSUME NEW r, RatchetOK(r), NEW x, NEW now, DOMAIN x = Fields, SameKeys(r, x),
           x.purported_message_number \in MessageNumbers,
           x.purported_previous_message_number \in MessageNumbers,
           x.purported_receive_chain_key \in ChainKeys \union {NoKey},
           PurportedOK(x)
    PROVE  Rejected(r, setLastMessageAuthenticity(x, FALSE, now))
<1> DEFINE s == rejectMessage(x)
<1>1. setLastMessageAuthenticity(x, FALSE, now) = s
    BY DEF setLastMessageAuthenticity
<1>2. /\ DOMAIN s = Fields
      /\ SameKeys(x, s)
      /\ s.received_valid = TRUE /\ s.header_decryptable = "NOT_TRIED" /\ s.staged = <<>>
      /\ s.purported_message_number = x.purported_message_number
      /\ s.purported_previous_message_number = x.purported_previous_message_number
      /\ s.purported_receive_chain_key = x.purported_receive_chain_key
    BY DEF rejectMessage, Fields, SameKeys
<1> HIDE DEF s
<1>3. SameKeys(r, s)
    BY <1>2 DEF SameKeys
<1>4. PurportedOK(s)
    BY <1>2 DEF SameKeys, PurportedOK
<1>5. Rejected(r, s)
    BY <1>2, <1>3, <1>4 DEF Rejected, Ready
<1> QED BY <1>1, <1>5

\* A rejected packet leaves a ratchet that is as good as before.
LEMMA RejectedOK ==
    ASSUME NEW r, RatchetOK(r), NEW s, Rejected(r, s)
    PROVE  RatchetOK(s)
<1>1. RatchetTyped(s)
    BY DEF RatchetOK, RatchetTyped, Rejected, SameKeys
<1>2. TurnOK(s) /\ SendChainOK(s) /\ ReceiveChainOK(s)
    BY DEF RatchetOK, TurnOK, SendChainOK, ReceiveChainOK, Rejected, SameKeys
<1>3. SkippedOK(s)
    BY DEF RatchetOK, SkippedOK, Rejected, SameKeys
<1> QED BY <1>1, <1>2, <1>3 DEF RatchetOK, Rejected

\* The receiving chain has moved to the purported chain key and the staged keys
\* are committed
Advanced(r, s, now) ==
    /\ DOMAIN s = Fields
    /\ s.root_key = r.root_key
    /\ s.send_header_key = r.send_header_key
    /\ s.receive_header_key = r.receive_header_key
    /\ s.next_send_header_key = r.next_send_header_key
    /\ s.next_receive_header_key = r.next_receive_header_key
    /\ s.send_chain_key = r.send_chain_key
    /\ s.our_private_ephemeral = r.our_private_ephemeral
    /\ s.our_public_ephemeral = r.our_public_ephemeral
    /\ s.their_public_ephemeral = r.their_public_ephemeral
    /\ s.send_message_number = r.send_message_number
    /\ s.previous_message_number = r.previous_message_number
    /\ s.ratchet_flag = r.ratchet_flag
    /\ s.role = r.role
    /\ s.received_valid = r.received_valid
    /\ s.header_decryptable = r.header_decryptable
    /\ s.staged = <<>>
    /\ s.receive_chain_key = r.purported_receive_chain_key
    /\ s.purported_receive_chain_key = r.purported_receive_chain_key
    /\ s.receive_message_number = successor(r.purported_message_number)
    /\ s.purported_message_number = r.purported_message_number
    /\ s.purported_previous_message_number = r.purported_previous_message_number
    /\ s.skipped = Committed(r.skipped, r.staged, now)

\* The end of setLastMessageAuthenticity(true), member by member.
LEMMA AdvanceReceiveChain ==
    ASSUME NEW r, DOMAIN r = Fields, NEW now
    PROVE  Advanced(r, advanceReceiveChain(r, now), now)
<1> DEFINE c == commitSkippedHeaderAndMessageKeys(r, now)
           s == advanceReceiveChain(r, now)
<1>1. /\ DOMAIN c = Fields
      /\ c.root_key = r.root_key
      /\ c.send_header_key = r.send_header_key
      /\ c.receive_header_key = r.receive_header_key
      /\ c.next_send_header_key = r.next_send_header_key
      /\ c.next_receive_header_key = r.next_receive_header_key
      /\ c.send_chain_key = r.send_chain_key
      /\ c.our_private_ephemeral = r.our_private_ephemeral
      /\ c.our_public_ephemeral = r.our_public_ephemeral
      /\ c.their_public_ephemeral = r.their_public_ephemeral
      /\ c.send_message_number = r.send_message_number
      /\ c.previous_message_number = r.previous_message_number
      /\ c.ratchet_flag = r.ratchet_flag
      /\ c.role = r.role
      /\ c.received_valid = r.received_valid
      /\ c.header_decryptable = r.header_decryptable
      /\ c.staged = <<>>
      /\ c.purported_receive_chain_key = r.purported_receive_chain_key
      /\ c.purported_message_number = r.purported_message_number
      /\ c.purported_previous_message_number = r.purported_previous_message_number
      /\ c.skipped = Committed(r.skipped, r.staged, now)
    BY DEF commitSkippedHeaderAndMessageKeys, Committed, Fields
<1>2. s = [c EXCEPT !.receive_message_number = successor(r.purported_message_number),
                    !.receive_chain_key = r.purported_receive_chain_key]
    BY DEF advanceReceiveChain
<1> HIDE DEF c, s
<1>3. Advanced(r, s, now)
    BY <1>1, <1>2 DEF Advanced, Fields
<1> QED BY <1>3 DEF s

\* Ratchet::receive and setLastMessageAuthenticity for a packet whose header the
\* current header key opened.
LEMMA ReceiveCurrent ==
    ASSUME NEW r, RatchetOK(r), r.receive_header_key \in HeaderKeys,
           NEW number \in MessageNumbers, NEW ephemeral, NEW previous_number,
           NEW now \in Nat
    PROVE  LET h == [r EXCEPT !.header_decryptable = "CURRENT_DECRYPTABLE"]
               x == receive(h, ephemeral, number, previous_number, now)
               count == Skip(r.receive_message_number, number)
               within == number <= r.receive_message_number + maximum_skipped_messages
           IN  /\ x.ok <=> within
               /\ Rejected(r, setLastMessageAuthenticity(x.ratchet, FALSE, now))
               /\ within =>
                     /\ x.message_key = deriveMessageKey(advanced(r.receive_chain_key, count))
                     /\ x.ratchet.staged = StagedKeys(r.receive_header_key,
                                                      r.receive_chain_key, count, now)
                     /\ OpenedCurrent(r, setLastMessageAuthenticity(x.ratchet, TRUE, now),
                                      number, now)
<1> DEFINE h == [r EXCEPT !.header_decryptable = "CURRENT_DECRYPTABLE"]
           x == receive(h, ephemeral, number, previous_number, now)
           count == Skip(r.receive_message_number, number)
           within == number <= r.receive_message_number + maximum_skipped_messages
           stage == stageSkippedHeaderAndMessageKeys(
                       h.staged, h.receive_header_key, h.receive_message_number,
                       number, h.receive_chain_key, now)
<1>1. /\ RatchetTyped(r) /\ Ready(r)
      /\ r.receive_chain_key \in ChainKeys
      /\ r.receive_message_number \in Nat /\ number \in Nat /\ maximum_skipped_messages \in Nat
    BY RatchetAssumption DEF RatchetOK, ReceiveChainOK, RatchetTyped, MessageNumbers
<1>2. /\ DOMAIN h = Fields
      /\ SameKeys(r, h)
      /\ h.purported_message_number = r.purported_message_number
      /\ h.purported_previous_message_number = r.purported_previous_message_number
      /\ h.purported_receive_chain_key = r.purported_receive_chain_key
      /\ h.received_valid = TRUE /\ h.header_decryptable = "CURRENT_DECRYPTABLE"
      /\ h.staged = <<>>
    BY <1>1 DEF RatchetTyped, Ready, Fields, SameKeys
<1>3. ~isNone(r.receive_header_key) /\ ~isNone(r.receive_chain_key)
    BY <1>1 DEF isNone, HeaderKeys, ChainKeys, KeysOf, NoKey, ZeroKey
<1> HIDE DEF h
<1>4. isCurrentChain(h)
    BY <1>2, <1>3 DEF isCurrentChain, SameKeys
<1>5. x = receiveCurrent(h, number, now)
    BY <1>2, <1>4 DEF receive
<1>6. stage = stageSkippedHeaderAndMessageKeys(
                 <<>>, r.receive_header_key, r.receive_message_number,
                 number, r.receive_chain_key, now)
    BY <1>2 DEF SameKeys
<1> HIDE DEF stage
<1>7. /\ x.ok = stage.ok
      /\ x.message_key = stage.message_key
      /\ DOMAIN x.ratchet = Fields
      /\ SameKeys(r, x.ratchet)
      /\ x.ratchet.purported_message_number = number
      /\ x.ratchet.purported_previous_message_number = r.purported_previous_message_number
      /\ x.ratchet.staged = stage.staged
      /\ x.ratchet.purported_receive_chain_key =
            IF stage.ok THEN stage.chain_key ELSE r.purported_receive_chain_key
      /\ x.ratchet.header_decryptable = "CURRENT_DECRYPTABLE"
  <2> DEFINE y == [h EXCEPT
            !.purported_message_number = number,
            !.staged = stage.staged,
            !.purported_receive_chain_key =
                IF stage.ok /\ ~isNone(h.receive_chain_key)
                THEN stage.chain_key ELSE @,
            !.received_valid = IF stage.ok THEN FALSE ELSE @]
  <2>1. x.ok = stage.ok /\ x.message_key = stage.message_key /\ x.ratchet = y
      BY <1>5 DEF receiveCurrent, stage
  <2>2. /\ DOMAIN y = Fields
        /\ SameKeys(h, y)
        /\ y.purported_message_number = number
        /\ y.purported_previous_message_number = h.purported_previous_message_number
        /\ y.staged = stage.staged
        /\ y.purported_receive_chain_key =
              IF stage.ok /\ ~isNone(h.receive_chain_key)
              THEN stage.chain_key ELSE h.purported_receive_chain_key
        /\ y.header_decryptable = h.header_decryptable
      BY <1>2 DEF Fields, SameKeys
  <2> HIDE DEF y
  <2> QED BY <1>2, <1>3, <2>1, <2>2 DEF SameKeys
<1> HIDE DEF x
<1>8. count \in Nat /\ (within => count <= maximum_skipped_messages)
    BY <1>1, SkipLimit
<1>9. CASE ~within
  <2>1. stage.ok = FALSE
    <3>1. number > r.receive_message_number + maximum_skipped_messages
        BY <1>1, <1>9
    <3> QED BY <1>1, <1>6, <3>1, StageFails
  <2>2. PurportedOK(x.ratchet)
      BY <1>7, <2>1 DEF RatchetOK, PurportedOK, SameKeys
  <2>3. /\ x.ratchet.purported_previous_message_number \in MessageNumbers
        /\ x.ratchet.purported_receive_chain_key \in ChainKeys \union {NoKey}
      BY <1>1, <1>7, <2>1 DEF RatchetTyped
  <2>4. Rejected(r, setLastMessageAuthenticity(x.ratchet, FALSE, now))
      BY <1>7, <2>2, <2>3, Reject
  <2> QED BY <1>7, <1>9, <2>1, <2>4 DEF x, h
<1>10. CASE within
  <2> DEFINE keys == StagedKeys(r.receive_header_key, r.receive_chain_key, count, now)
             reached == deriveChainKey(advanced(r.receive_chain_key, count))
             s == setLastMessageAuthenticity(x.ratchet, TRUE, now)
             area == <<>>
  <2>1. /\ area \in Seq(StoredKeys) /\ Len(area) <= maximum_skipped_messages
        /\ \A i \in 1..Len(area) : area[i].expiration_date = now + expiration_time
      BY <1>1
  <2>2. /\ stage.ok = TRUE
        /\ stage.staged = area \o keys
        /\ stage.message_key = deriveMessageKey(advanced(r.receive_chain_key, count))
        /\ stage.chain_key = reached
    <3>1. stage = stageSkippedHeaderAndMessageKeys(
                     area, r.receive_header_key, r.receive_message_number,
                     number, r.receive_chain_key, now)
        BY <1>6
    <3> DEFINE hk == r.receive_header_key
               ck == r.receive_chain_key
               current == r.receive_message_number
    <3>2. CanStage(area, hk, ck, current, number, now)
        BY <1>1, <1>10, <2>1 DEF CanStage
    <3>3. stage = stageSkippedHeaderAndMessageKeys(area, hk, current, number, ck, now)
        BY <3>1
    <3> HIDE DEF area, hk, ck, current
    <3>4. /\ stage.ok = TRUE
          /\ stage.staged = area \o StagedKeys(hk, ck, Skip(current, number), now)
          /\ stage.message_key = deriveMessageKey(advanced(ck, Skip(current, number)))
          /\ stage.chain_key = deriveChainKey(advanced(ck, Skip(current, number)))
        BY <3>2, <3>3, StageSucceeds, ZenonT(60) DEF Stages
    <3> QED BY <3>4 DEF hk, ck, current
  <2>3. keys \in Seq(StoredKeys)
      BY <1>1, <1>8, StagedKeysAre DEF AreStaged
  <2> HIDE DEF keys
  <2>4. <<>> \o keys = keys
      BY <2>3, ConcatEmptySeq
  <2>5. /\ reached \in ChainKeys
        /\ reached.transcript = r.receive_chain_key.transcript
        /\ reached.index = r.receive_chain_key.index + count + 1
        /\ r.receive_chain_key.index \in Nat
      BY <1>1, <1>8, Advance, Lengths
  <2> HIDE DEF reached
  <2>6. PurportedOK(x.ratchet)
    <3>1. x.ratchet.purported_receive_chain_key = reached
          /\ x.ratchet.receive_chain_key = r.receive_chain_key /\ x.ratchet.role = r.role
        BY <1>7, <2>2 DEF SameKeys
    <3>2. ReceivesOn(r.role, reached.transcript)
        BY <1>1, <2>5 DEF RatchetOK, ReceiveChainOK
    <3>3. reached.index >= r.receive_chain_key.index
        BY <1>8, <2>5
    <3> QED BY <2>5, <3>1, <3>2, <3>3 DEF PurportedOK
  <2>7. x.ratchet.purported_previous_message_number \in MessageNumbers
      BY <1>1, <1>7 DEF RatchetTyped
  <2>8. Rejected(r, setLastMessageAuthenticity(x.ratchet, FALSE, now))
      BY <1>7, <2>2, <2>5, <2>6, <2>7, Reject
  <2>9. isCurrentChain(x.ratchet)
      BY <1>3, <1>7 DEF isCurrentChain, SameKeys
  <2> DEFINE ready == [x.ratchet EXCEPT !.received_valid = TRUE,
                                       !.header_decryptable = "NOT_TRIED"]
  <2>10. s = advanceReceiveChain(ready, now)
      BY <2>9 DEF setLastMessageAuthenticity
  <2>11. /\ DOMAIN ready = Fields
         /\ SameKeys(x.ratchet, ready)
         /\ ready.received_valid = TRUE /\ ready.header_decryptable = "NOT_TRIED"
         /\ ready.staged = x.ratchet.staged
         /\ ready.purported_message_number = x.ratchet.purported_message_number
         /\ ready.purported_previous_message_number
               = x.ratchet.purported_previous_message_number
         /\ ready.purported_receive_chain_key = x.ratchet.purported_receive_chain_key
      BY <1>7 DEF Fields, SameKeys
  <2> HIDE DEF ready, s
  <2>12. OpenedCurrent(r, s, number, now)
    <3>1. Advanced(ready, s, now)
        BY <2>10, <2>11, AdvanceReceiveChain
    <3> QED BY <1>7, <2>2, <2>4, <2>11, <3>1
            DEF Advanced, OpenedCurrent, SameKeys, Ready, keys, reached
  <2> QED BY <1>7, <1>10, <2>2, <2>4, <2>8, <2>12 DEF x, h, keys, s
<1> QED BY <1>9, <1>10

\* What is staged of the old chain: nothing if there is none, and it fails only if
\* too many messages would be skipped.
LEMMA StageRest ==
    ASSUME NEW r, RatchetOK(r), NEW number \in MessageNumbers, NEW now \in Nat
    PROVE  LET old == stageSkippedHeaderAndMessageKeys(
                         <<>>, r.receive_header_key, r.receive_message_number,
                         number, r.receive_chain_key, now)
               rest == RestOfChain(r, number, now)
               within == r.receive_chain_key \in ChainKeys =>
                            number <= r.receive_message_number + maximum_skipped_messages
           IN  /\ old.ok <=> within
               /\ within => /\ old.staged = rest
                            /\ rest \in Seq(StoredKeys)
                            /\ Len(rest) <= maximum_skipped_messages
                            /\ \A i \in 1..Len(rest) :
                                  rest[i].expiration_date = now + expiration_time
<1> DEFINE hk == r.receive_header_key
           ck == r.receive_chain_key
           current == r.receive_message_number
           area == <<>>
           old == stageSkippedHeaderAndMessageKeys(area, hk, current, number, ck, now)
           rest == RestOfChain(r, number, now)
<1>1. /\ current \in Nat /\ number \in Nat /\ maximum_skipped_messages \in Nat
      /\ ck \in ChainKeys \union EmptyKeys
      /\ ck \in ChainKeys => hk \in HeaderKeys
    BY RatchetAssumption DEF RatchetOK, RatchetTyped, ReceiveChainOK, MessageNumbers
<1>2. /\ area \in Seq(StoredKeys) /\ Len(area) <= maximum_skipped_messages /\ Len(area) = 0
      /\ \A i \in 1..Len(area) : area[i].expiration_date = now + expiration_time
    BY <1>1
<1>3. CASE ck \notin ChainKeys
  <2>1. isNone(ck)
      BY <1>1, <1>3 DEF isNone, EmptyKeys
  <2>2. old.ok = TRUE /\ old.staged = area
      BY <2>1 DEF stageSkippedHeaderAndMessageKeys
  <2>3. rest = area
      BY <1>3 DEF RestOfChain
  <2> QED BY <1>2, <1>3, <2>2, <2>3
<1>4. CASE ck \in ChainKeys /\ ~(number <= current + maximum_skipped_messages)
  <2>1. number > current + maximum_skipped_messages
      BY <1>1, <1>4
  <2>2. old.ok = FALSE
    <3> HIDE DEF area, hk, ck, current
    <3> QED BY <1>1, <1>4, <2>1, StageFails, ZenonT(60)
  <2> QED BY <1>4, <2>2
<1>5. CASE ck \in ChainKeys /\ number <= current + maximum_skipped_messages
  <2> DEFINE count == Skip(current, number)
             keys == StagedKeys(hk, ck, count, now)
  <2>1. CanStage(area, hk, ck, current, number, now)
      BY <1>1, <1>2, <1>5 DEF CanStage
  <2>2. rest = keys
      BY <1>5 DEF RestOfChain
  <2> HIDE DEF area, hk, ck, current, rest
  <2>3. old.ok = TRUE /\ old.staged = area \o keys
      BY <2>1, StageSucceeds DEF Stages
  <2>4. count \in Nat /\ count <= maximum_skipped_messages
      BY <1>1, <1>5, SkipLimit
  <2> HIDE DEF count
  <2>5. /\ keys \in Seq(StoredKeys)
        /\ Len(keys) \in 0..count
        /\ \A i \in 1..Len(keys) : keys[i].expiration_date = now + expiration_time
    <3>1. hk \in HeaderKeys /\ ck \in ChainKeys /\ count \in Nat
        BY <1>1, <1>5, <2>4
    <3>2. AreStaged(keys, hk, ck, count, now)
        BY <3>1, StagedKeysAre
    <3> QED BY <3>2 DEF AreStaged
  <2> HIDE DEF keys, old
  <2>6. area \o keys = keys
      BY <2>5, ConcatEmptySeq DEF area
  <2>7. Len(keys) <= maximum_skipped_messages
      BY <1>1, <2>4, <2>5
  <2>8. /\ old.ok = TRUE /\ old.staged = rest
        /\ rest \in Seq(StoredKeys)
        /\ Len(rest) <= maximum_skipped_messages
        /\ \A i \in 1..Len(rest) : rest[i].expiration_date = now + expiration_time
      BY <2>2, <2>3, <2>5, <2>6, <2>7
  <2> QED BY <1>5, <2>8 DEF old, rest, hk, ck, current, area
<1> QED BY <1>3, <1>4, <1>5

\* Ratchet::receive and setLastMessageAuthenticity for a packet whose header the
\* next header key opened.
LEMMA ReceiveNext ==
    ASSUME NEW r, RatchetOK(r), r.ratchet_flag = FALSE, NEW ephemeral \in Name,
           NEW number \in MessageNumbers, NEW previous_number \in MessageNumbers,
           NEW now \in Nat
    PROVE  LET h == [r EXCEPT !.header_decryptable = "NEXT_DECRYPTABLE"]
               x == receive(h, ephemeral, number, previous_number, now)
               t == ReceivingTranscript(r, ephemeral)
               within == /\ r.receive_chain_key \in ChainKeys =>
                               previous_number <= r.receive_message_number
                                                     + maximum_skipped_messages
                         /\ number <= maximum_skipped_messages
           IN  /\ x.ok <=> within
               /\ Rejected(r, setLastMessageAuthenticity(x.ratchet, FALSE, now))
               /\ within =>
                     /\ x.message_key = deriveMessageKey(advanced(ChainKey(t), Skip(0, number)))
                     /\ x.ratchet.staged
                           = StagedForNext(r, ephemeral, number, previous_number, now)
                     /\ OpenedNext(r, setLastMessageAuthenticity(x.ratchet, TRUE, now),
                                   ephemeral, number, previous_number, now)
<1> DEFINE h == [r EXCEPT !.header_decryptable = "NEXT_DECRYPTABLE"]
           x == receive(h, ephemeral, number, previous_number, now)
           t == ReceivingTranscript(r, ephemeral)
           rest == RestOfChain(r, previous_number, now)
           within1 == r.receive_chain_key \in ChainKeys =>
                         previous_number <= r.receive_message_number
                                               + maximum_skipped_messages
           within2 == number <= maximum_skipped_messages
           old == stageSkippedHeaderAndMessageKeys(
                     h.staged, h.receive_header_key, h.receive_message_number,
                     previous_number, h.receive_chain_key, now)
           d == derive_root_next_header_and_chain_keys(
                   h.our_private_ephemeral, h.our_public_ephemeral,
                   ephemeral, h.root_key, h.role)
           new == stageSkippedHeaderAndMessageKeys(
                     old.staged, h.next_receive_header_key, 0, number, d.chain_key, now)
<1>1. /\ RatchetTyped(r) /\ Ready(r)
      /\ r.receive_message_number \in Nat /\ number \in Nat /\ maximum_skipped_messages \in Nat
      /\ r.our_private_ephemeral \in Name /\ r.our_public_ephemeral \in Name
      /\ r.next_receive_header_key \in HeaderKeys
    BY RatchetAssumption DEF RatchetOK, RatchetTyped, MessageNumbers
<1>2. /\ DOMAIN h = Fields
      /\ SameKeys(r, h)
      /\ h.purported_message_number = r.purported_message_number
      /\ h.purported_previous_message_number = r.purported_previous_message_number
      /\ h.purported_receive_chain_key = r.purported_receive_chain_key
      /\ h.received_valid = TRUE /\ h.header_decryptable = "NEXT_DECRYPTABLE"
      /\ h.staged = <<>>
    BY <1>1 DEF RatchetTyped, Ready, Fields, SameKeys
<1> HIDE DEF h
<1>3. isNewChain(h) /\ ~isCurrentChain(h)
    BY <1>2 DEF isNewChain, isCurrentChain, SameKeys
<1>4. x = receiveNext(h, ephemeral, number, previous_number, now)
    BY <1>2, <1>3 DEF receive
<1>5. /\ old = stageSkippedHeaderAndMessageKeys(
                 <<>>, r.receive_header_key, r.receive_message_number,
                 previous_number, r.receive_chain_key, now)
      /\ d = derive_root_next_header_and_chain_keys(
                r.our_private_ephemeral, r.our_public_ephemeral,
                ephemeral, r.root_key, r.role)
      /\ new = stageSkippedHeaderAndMessageKeys(
                  old.staged, r.next_receive_header_key, 0, number, d.chain_key, now)
    BY <1>2 DEF SameKeys
<1> HIDE DEF old, d, new
<1>6. /\ t \in Transcripts
      /\ Len(r.root_key.transcript) \in Nat
      /\ Len(t) = Len(r.root_key.transcript) + 1
      /\ d.root_key = RootKey(t)
      /\ d.next_header_key = HeaderKey(t, 1)
      /\ d.chain_key = ChainKey(t) /\ ChainKey(t) \in ChainKeys
      /\ ChainKey(t).transcript = t
    BY <1>1, <1>5, NextChain DEF ReceivingTranscript
<1> HIDE DEF t
<1>7. /\ old.ok <=> within1
      /\ within1 => /\ old.staged = rest
                    /\ rest \in Seq(StoredKeys)
                    /\ Len(rest) <= maximum_skipped_messages
                    /\ \A i \in 1..Len(rest) :
                          rest[i].expiration_date = now + expiration_time
    BY <1>5, StageRest
<1>8. /\ ReceivesOn(r.role, t)
      /\ Len(t) > Len(r.receive_chain_key.transcript)
  <2>1. Len(r.root_key.transcript) % 2 = 1 <=> r.role = FALSE
      BY DEF RatchetOK, TurnOK
  <2>2. Len(t) % 2 = 1 <=> r.role = TRUE
      BY <1>1, <1>6, <2>1, Parity DEF RatchetTyped
  <2>3. Len(r.receive_chain_key.transcript) <= Len(r.root_key.transcript)
      BY DEF RatchetOK, ReceiveChainOK
  <2>4. ReceivesOn(r.role, t)
      BY <2>2 DEF ReceivesOn, ALICE
  <2>5. Len(r.receive_chain_key.transcript) \in Nat
      BY <1>1, Lengths
  <2>6. Len(t) > Len(r.receive_chain_key.transcript)
      BY <1>6, <2>3, <2>5
  <2> QED BY <2>4, <2>6
<1> HIDE DEF within1, within2, rest
\* Any chain key of the new chain may be left behind
<1>9. ASSUME NEW y, DOMAIN y = Fields, SameKeys(r, y),
             y.purported_message_number = number,
             y.purported_previous_message_number = previous_number,
             \/ y.purported_receive_chain_key = r.purported_receive_chain_key
             \/ /\ y.purported_receive_chain_key \in ChainKeys
                /\ y.purported_receive_chain_key.transcript = t
      PROVE  Rejected(r, setLastMessageAuthenticity(y, FALSE, now))
  <2>1. PurportedOK(y)
    <3>1. CASE y.purported_receive_chain_key = r.purported_receive_chain_key
        BY <1>9, <3>1 DEF RatchetOK, PurportedOK, SameKeys
    <3>2. CASE /\ y.purported_receive_chain_key \in ChainKeys
               /\ y.purported_receive_chain_key.transcript = t
        BY <1>8, <1>9, <3>2 DEF PurportedOK, SameKeys
    <3> QED BY <1>9, <3>1, <3>2
  <2>2. y.purported_receive_chain_key \in ChainKeys \union {NoKey}
      BY <1>1, <1>9 DEF RatchetTyped
  <2> QED BY <1>9, <2>1, <2>2, Reject
<1> DEFINE claimed == [h EXCEPT
              !.purported_message_number = number,
              !.purported_previous_message_number = previous_number,
              !.their_purported_public_ephemeral = ephemeral]
           purported == [claimed EXCEPT
              !.staged = new.staged,
              !.purported_receive_header_key = h.next_receive_header_key,
              !.purported_root_key = d.root_key,
              !.purported_next_receive_header_key = d.next_header_key,
              !.purported_receive_chain_key =
                  IF new.ok THEN new.chain_key ELSE d.chain_key,
              !.received_valid = IF new.ok THEN FALSE ELSE @]
<1>10. x = IF ~old.ok
           THEN [ok |-> FALSE, message_key |-> NoKey, ratchet |-> claimed]
           ELSE [ok |-> new.ok, message_key |-> new.message_key, ratchet |-> purported]
    BY <1>4 DEF receiveNext, old, d, new
<1>11. /\ DOMAIN claimed = Fields
       /\ SameKeys(r, claimed)
       /\ claimed.purported_message_number = number
       /\ claimed.purported_previous_message_number = previous_number
       /\ claimed.their_purported_public_ephemeral = ephemeral
       /\ claimed.purported_receive_chain_key = r.purported_receive_chain_key
       /\ claimed.header_decryptable = "NEXT_DECRYPTABLE"
    BY <1>2 DEF Fields, SameKeys
<1> HIDE DEF x, claimed
<1>12. /\ DOMAIN purported = Fields
       /\ SameKeys(claimed, purported)
       /\ purported.purported_message_number = number
       /\ purported.purported_previous_message_number = previous_number
       /\ purported.their_purported_public_ephemeral = ephemeral
       /\ purported.purported_receive_chain_key
             = IF new.ok THEN new.chain_key ELSE d.chain_key
       /\ purported.purported_receive_header_key = r.next_receive_header_key
       /\ purported.purported_root_key = d.root_key
       /\ purported.purported_next_receive_header_key = d.next_header_key
       /\ purported.staged = new.staged
       /\ purported.header_decryptable = "NEXT_DECRYPTABLE"
  <2>1. h.next_receive_header_key = r.next_receive_header_key
      BY <1>2 DEF SameKeys
  <2> QED BY <1>11, <2>1 DEF Fields, SameKeys
<1>13. SameKeys(r, purported)
    BY <1>11, <1>12 DEF SameKeys
<1> HIDE DEF purported
<1>14. CASE ~within1
  <2>1. x.ok = FALSE /\ x.ratchet = claimed
      BY <1>7, <1>10, <1>14
  <2>2. Rejected(r, setLastMessageAuthenticity(x.ratchet, FALSE, now))
      BY <1>9, <1>11, <2>1
  <2> QED BY <1>14, <2>1, <2>2 DEF within1, within2, x, h
<1>15. CASE within1 /\ ~within2
  <2>1. new.ok = FALSE
    <3> DEFINE hk == r.next_receive_header_key
               ck == d.chain_key
               area == old.staged
    <3>1. ck \in ChainKeys /\ 0 \in Nat /\ number > 0 + maximum_skipped_messages
        BY <1>1, <1>6, <1>15 DEF within2
    <3>2. new = stageSkippedHeaderAndMessageKeys(area, hk, 0, number, ck, now)
        BY <1>5
    <3> HIDE DEF hk, ck, area
    <3> QED BY <1>1, <3>1, <3>2, StageFails
  <2>2. x.ok = FALSE /\ x.ratchet = purported
      BY <1>7, <1>10, <1>15, <2>1
  <2>3. purported.purported_receive_chain_key = ChainKey(t)
      BY <1>6, <1>12, <2>1
  <2>4. Rejected(r, setLastMessageAuthenticity(x.ratchet, FALSE, now))
      BY <1>6, <1>9, <1>12, <1>13, <2>2, <2>3
  <2> QED BY <1>15, <2>2, <2>4 DEF within1, within2, x, h
<1>16. CASE within1 /\ within2
  <2> DEFINE count == Skip(0, number)
             keys == StagedKeys(r.next_receive_header_key, ChainKey(t), count, now)
             reached == deriveChainKey(advanced(ChainKey(t), count))
             s == setLastMessageAuthenticity(x.ratchet, TRUE, now)
  <2>1. /\ new.ok = TRUE
        /\ new.staged = rest \o keys
        /\ new.message_key = deriveMessageKey(advanced(ChainKey(t), count))
        /\ new.chain_key = reached
    <3> DEFINE hk == r.next_receive_header_key
               ck == ChainKey(t)
               first == 0
    <3>1. CanStage(rest, hk, ck, first, number, now)
        BY <1>1, <1>6, <1>7, <1>16 DEF CanStage, within2
    <3>2. new = stageSkippedHeaderAndMessageKeys(rest, hk, first, number, ck, now)
        BY <1>5, <1>6, <1>7, <1>16
    <3> HIDE DEF hk, ck, first, new
    <3> DEFINE stage == stageSkippedHeaderAndMessageKeys(rest, hk, first, number, ck, now)
    <3>3. /\ stage.ok = TRUE
          /\ stage.staged = rest \o StagedKeys(hk, ck, Skip(first, number), now)
          /\ stage.message_key = deriveMessageKey(advanced(ck, Skip(first, number)))
          /\ stage.chain_key = deriveChainKey(advanced(ck, Skip(first, number)))
      <4>1. Stages(rest, hk, ck, first, number, now)
          BY <3>1, StageSucceeds
      <4> QED BY <4>1 DEF Stages
    <3> HIDE DEF stage
    <3>4. new = stage
        BY <3>2 DEF stage
    <3> QED BY <3>3, <3>4 DEF hk, ck, first
  <2>2. rest \o keys = StagedForNext(r, ephemeral, number, previous_number, now)
      BY DEF StagedForNext, rest, t
  <2>3. count \in Nat
      BY <1>1, SkipLimit
  <2>4. reached \in ChainKeys /\ reached.transcript = t
    <3> HIDE DEF count
    <3> QED BY <1>6, <2>3, Advance
  <2> HIDE DEF keys, reached, count
  <2>5. /\ x.ok = TRUE /\ x.ratchet = purported
        /\ x.message_key = deriveMessageKey(advanced(ChainKey(t), count))
      BY <1>7, <1>10, <1>16, <2>1
  <2>6. purported.purported_receive_chain_key = reached
      BY <1>12, <2>1
  <2>7. Rejected(r, setLastMessageAuthenticity(x.ratchet, FALSE, now))
      BY <1>9, <1>12, <1>13, <2>4, <2>5, <2>6
  <2> DEFINE ready == [purported EXCEPT !.received_valid = TRUE,
                                        !.header_decryptable = "NOT_TRIED"]
             accepted == acceptNewChain(ready)
  <2>8. s = advanceReceiveChain(accepted, now)
    <3>1. isNewChain(purported) /\ ~isCurrentChain(purported)
        BY <1>12, <1>13 DEF isNewChain, isCurrentChain, SameKeys
    <3> QED BY <2>5, <3>1 DEF setLastMessageAuthenticity
  <2>9. /\ DOMAIN ready = Fields
        /\ SameKeys(purported, ready)
        /\ ready.received_valid = TRUE /\ ready.header_decryptable = "NOT_TRIED"
        /\ ready.staged = purported.staged
        /\ ready.purported_message_number = number
        /\ ready.purported_previous_message_number = previous_number
        /\ ready.their_purported_public_ephemeral = ephemeral
        /\ ready.purported_receive_chain_key = purported.purported_receive_chain_key
        /\ ready.purported_receive_header_key = purported.purported_receive_header_key
        /\ ready.purported_root_key = purported.purported_root_key
        /\ ready.purported_next_receive_header_key
              = purported.purported_next_receive_header_key
      BY <1>12 DEF Fields, SameKeys
  <2> HIDE DEF ready
  <2>10. /\ DOMAIN accepted = Fields
         /\ accepted.root_key = ready.purported_root_key
         /\ accepted.send_header_key = ready.send_header_key
         /\ accepted.receive_header_key = ready.purported_receive_header_key
         /\ accepted.next_send_header_key = ready.next_send_header_key
         /\ accepted.next_receive_header_key = ready.purported_next_receive_header_key
         /\ accepted.send_chain_key = ready.send_chain_key
         /\ accepted.our_private_ephemeral = ZeroedPrivateKey
         /\ accepted.our_public_ephemeral = ready.our_public_ephemeral
         /\ accepted.their_public_ephemeral = ephemeral
         /\ accepted.send_message_number = ready.send_message_number
         /\ accepted.previous_message_number = ready.previous_message_number
         /\ accepted.ratchet_flag = TRUE
         /\ accepted.role = ready.role
         /\ accepted.received_valid = TRUE /\ accepted.header_decryptable = "NOT_TRIED"
         /\ accepted.staged = ready.staged /\ accepted.skipped = ready.skipped
         /\ accepted.purported_message_number = number
         /\ accepted.purported_previous_message_number = previous_number
         /\ accepted.purported_receive_chain_key = ready.purported_receive_chain_key
      BY <2>9 DEF acceptNewChain, Fields
  <2> HIDE DEF accepted, s
  <2>11. Advanced(accepted, s, now)
      BY <2>8, <2>10, AdvanceReceiveChain
  <2>12. /\ accepted.root_key = RootKey(t)
         /\ accepted.receive_header_key = r.next_receive_header_key
         /\ accepted.next_receive_header_key = HeaderKey(t, 1)
         /\ accepted.purported_receive_chain_key = reached
         /\ accepted.staged = StagedForNext(r, ephemeral, number, previous_number, now)
         /\ accepted.skipped = r.skipped
         /\ accepted.send_header_key = r.send_header_key
         /\ accepted.next_send_header_key = r.next_send_header_key
         /\ accepted.send_chain_key = r.send_chain_key
         /\ accepted.our_public_ephemeral = r.our_public_ephemeral
         /\ accepted.send_message_number = r.send_message_number
         /\ accepted.previous_message_number = r.previous_message_number
         /\ accepted.role = r.role
      BY <1>6, <1>12, <1>13, <2>1, <2>2, <2>6, <2>9, <2>10 DEF SameKeys
  <2>13. OpenedNext(r, s, ephemeral, number, previous_number, now)
      BY <2>10, <2>11, <2>12 DEF Advanced, OpenedNext, Ready, t, reached, count
  <2>14. x.ratchet.staged = StagedForNext(r, ephemeral, number, previous_number, now)
      BY <1>12, <2>1, <2>2, <2>5
  <2> QED BY <1>16, <2>5, <2>7, <2>13, <2>14 DEF within1, within2, x, h, t, s, count
<1> QED BY <1>14, <1>15, <1>16

\* A message key that the old receiving chain has passed, the new one has passed
\* too; a key that was skipped on the way is one that the old one had not passed
MovedOn(r, s) ==
    /\ \A k \in MessageKeys :
          Passed(r.receive_chain_key, k) => Passed(s.receive_chain_key, k)
    /\ \A k \in ToSet(s.skipped) :
          k \in ToSet(r.skipped) \/ ~Passed(r.receive_chain_key, k.message_key)

\* A chain key that is further along has passed more messages.
LEMMA PassedMore ==
    ASSUME NEW a, NEW b,
           Len(a.transcript) \in Nat, Len(b.transcript) \in Nat,
           a.index \in Nat, b.index \in Nat,
           \/ Len(a.transcript) < Len(b.transcript)
           \/ a.transcript = b.transcript /\ a.index <= b.index,
           NEW k \in MessageKeys, Passed(a, k)
    PROVE  Passed(b, k)
<1>1. Len(k.transcript) \in Nat /\ k.index \in Nat
    BY LenProperties DEF MessageKeys, KeysOf, Transcripts
<1>2. CASE Len(a.transcript) < Len(b.transcript)
  <2>1. Len(k.transcript) < Len(b.transcript)
      BY <1>1, <1>2 DEF Passed
  <2> QED BY <1>1, <2>1 DEF Passed
<1>3. CASE a.transcript = b.transcript /\ a.index <= b.index
    BY <1>1, <1>3 DEF Passed
<1> QED BY <1>2, <1>3

\* The keys in the store of a ratchet, taken one by one.
LEMMA SkippedKey ==
    ASSUME NEW r, RatchetOK(r), NEW k \in ToSet(r.skipped)
    PROVE  /\ k \in StoredKeys
           /\ k.message_key \in MessageKeys
           /\ Passed(r.receive_chain_key, k.message_key)
           /\ ReceivesOn(r.role, k.message_key.transcript)
<1>1. r.skipped \in Seq(StoredKeys)
    BY DEF RatchetOK, RatchetTyped
<1>2. k \in StoredKeys
    BY <1>1, Vector
<1> QED BY <1>2 DEF RatchetOK, SkippedOK, StoredKeys

\* The current chain has passed a message
PassedCurrent(r, s, number, now) ==
    LET count == Skip(r.receive_message_number, number)
        key == deriveMessageKey(advanced(r.receive_chain_key, count))
        staged == StagedKeys(r.receive_header_key, r.receive_chain_key, count, now)
    IN  /\ RatchetOK(s)
        /\ MovedOn(r, s)
        /\ r.receive_chain_key \in ChainKeys
        /\ s.receive_chain_key \in ChainKeys
        /\ s.receive_chain_key.transcript = r.receive_chain_key.transcript
        /\ s.receive_chain_key.index = r.receive_chain_key.index + count + 1
        /\ key \in MessageKeys
        /\ key.transcript = r.receive_chain_key.transcript
        /\ key.index = r.receive_chain_key.index + count
        /\ \A k \in ToSet(s.skipped) : k.message_key # key
        /\ ToSet(s.skipped) \subseteq ToSet(r.skipped) \union ToSet(staged)
        /\ \A k \in (ToSet(r.skipped) \union ToSet(staged)) \ ToSet(s.skipped) :
              \/ isOutdated(k, now)
              \/ Cardinality(ToSet(r.skipped) \union ToSet(staged))
                    > header_and_message_store_maximum_keys

\* After a message of the current chain was opened the ratchet is as good as before,
\* the chain has passed the message, and no key for the message was kept.
LEMMA OpenedCurrentOK ==
    ASSUME NEW r, RatchetOK(r), r.receive_header_key \in HeaderKeys,
           NEW number \in MessageNumbers, NEW now \in Nat,
           NEW s, OpenedCurrent(r, s, number, now)
    PROVE  PassedCurrent(r, s, number, now)
<1> DEFINE hk == r.receive_header_key
           ck == r.receive_chain_key
           count == Skip(r.receive_message_number, number)
           key == deriveMessageKey(advanced(ck, count))
           reached == deriveChainKey(advanced(ck, count))
           a == r.skipped
           b == StagedKeys(hk, ck, count, now)
           after == Committed(a, b, now)
<1>1. /\ hk \in HeaderKeys /\ ck \in ChainKeys
      /\ r.receive_message_number \in Nat /\ number \in Nat
      /\ ck.index \in Nat /\ Len(ck.transcript) \in Nat
  <2>1. RatchetTyped(r) /\ ReceiveChainOK(r)
      BY DEF RatchetOK
  <2>2. hk \in HeaderKeys /\ ck \in ChainKeys
      BY <2>1 DEF ReceiveChainOK
  <2>3. r.receive_message_number \in Nat /\ number \in Nat
      BY <2>1, RatchetAssumption DEF RatchetTyped, MessageNumbers
  <2> QED BY <2>1, <2>2, <2>3, Lengths
<1>2. count \in Nat
    BY <1>1, SkipLimit
<1>3. /\ a \in Seq(StoredKeys) /\ SortedByDate(a) /\ IsInjective(a)
      /\ \A k, l \in ToSet(a) : k.message_key = l.message_key => k = l
    BY DEF RatchetOK, RatchetTyped, SkippedOK
<1>4. \A k \in ToSet(a) : /\ k.message_key \in MessageKeys
                          /\ Passed(ck, k.message_key)
                          /\ ReceivesOn(r.role, k.message_key.transcript)
    BY SkippedKey
<1>5. /\ DOMAIN s = Fields
      /\ s.receive_chain_key = reached
      /\ s.purported_receive_chain_key = reached
      /\ s.skipped = after
      /\ s.role = r.role
    BY DEF OpenedCurrent
<1> HIDE DEF hk, ck, count, a
<1>6. /\ b \in Seq(StoredKeys) /\ Len(b) \in 0..count
      /\ \A i \in 1..Len(b) :
            /\ b[i].message_key.transcript = ck.transcript
            /\ b[i].message_key.index = ck.index + i - 1
            /\ b[i].expiration_date = now + expiration_time
  <2>1. hk \in HeaderKeys /\ ck \in ChainKeys /\ count \in Nat
      BY <1>1, <1>2
  <2>2. AreStaged(b, hk, ck, count, now)
      BY <2>1, StagedKeysAre
  <2> QED BY <2>2 DEF AreStaged
<1>7. /\ key \in MessageKeys
      /\ key.transcript = ck.transcript /\ key.index = ck.index + count
      /\ reached \in ChainKeys
      /\ reached.transcript = ck.transcript /\ reached.index = ck.index + count + 1
    BY <1>1, <1>2, Advance
<1> HIDE DEF b, key, reached
<1>8. \A i \in 1..Len(b) :
         /\ ~Passed(ck, b[i].message_key)
         /\ Passed(reached, b[i].message_key)
         /\ b[i].message_key # key
         /\ b[i].message_key \in MessageKeys
  <2> TAKE i \in 1..Len(b)
  <2>1. /\ b[i].message_key.transcript = ck.transcript
        /\ b[i].message_key.index = ck.index + i - 1
        /\ i \in Nat /\ i >= 1 /\ i <= count
      BY <1>2, <1>6
  <2>2. b[i] \in StoredKeys
      BY <1>6, Vector
  <2>3. b[i].message_key \in MessageKeys
      BY <2>2 DEF StoredKeys
  <2> QED BY <1>1, <1>2, <1>7, <2>1, <2>3 DEF Passed
<1>9. /\ \A i, j \in 1..Len(b) : b[i].message_key = b[j].message_key => i = j
      /\ \A k \in ToSet(a), i \in 1..Len(b) : k.message_key # b[i].message_key
  <2>1. \A i, j \in 1..Len(b) : b[i].message_key = b[j].message_key => i = j
    <3> TAKE i, j \in 1..Len(b)
    <3>1. i \in Nat /\ j \in Nat
        BY <1>2, <1>6
    <3>2. /\ b[i].message_key.index = ck.index + i - 1
          /\ b[j].message_key.index = ck.index + j - 1
        BY <1>6
    <3> QED BY <1>1, <3>1, <3>2
  <2> QED BY <1>4, <1>8, <2>1
<1>10. /\ after \in Seq(StoredKeys)
       /\ SortedByDate(after)
       /\ IsInjective(after)
       /\ ToSet(after) \subseteq ToSet(a) \union ToSet(b)
       /\ \A k, l \in ToSet(after) : k.message_key = l.message_key => k = l
       /\ \A k \in (ToSet(a) \union ToSet(b)) \ ToSet(after) :
             \/ isOutdated(k, now)
             \/ Cardinality(ToSet(a) \union ToSet(b))
                   > header_and_message_store_maximum_keys
    BY <1>3, <1>6, <1>9, CommitStaged
<1> HIDE DEF after
<1>11. Len(reached.transcript) = Len(ck.transcript) /\ reached.index \in Nat
       /\ ck.index <= reached.index
    BY <1>1, <1>2, <1>7
<1>12. \A k \in MessageKeys : Passed(ck, k) => Passed(reached, k)
    BY <1>1, <1>7, <1>11, PassedMore
<1>13. \A k \in ToSet(b) : /\ k.message_key.transcript = ck.transcript
                           /\ ~Passed(ck, k.message_key)
                           /\ Passed(reached, k.message_key)
                           /\ k.message_key # key
  <2>1. ToSet(b) = {b[i] : i \in 1..Len(b)}
      BY <1>6, Vector
  <2> QED BY <1>6, <1>8, <2>1
<1>14. \A k \in ToSet(after) :
          /\ k \in ToSet(a) \/ ~Passed(ck, k.message_key)
          /\ Passed(reached, k.message_key)
          /\ k.message_key # key
          /\ ReceivesOn(r.role, k.message_key.transcript)
  <2> TAKE k \in ToSet(after)
  <2>1. CASE k \in ToSet(a)
    <3>1. ~Passed(ck, key)
        BY <1>1, <1>2, <1>7 DEF Passed
    <3> QED BY <1>4, <1>12, <2>1, <3>1
  <2>2. CASE k \in ToSet(b)
    <3>1. ReceivesOn(r.role, ck.transcript)
        BY <1>1 DEF RatchetOK, ReceiveChainOK, ck
    <3> QED BY <1>13, <2>2, <3>1
  <2> QED BY <1>10, <2>1, <2>2
<1>15. MovedOn(r, s)
    BY <1>5, <1>12, <1>14 DEF MovedOn, ck, a
<1>16. RatchetOK(s)
  <2>1. RatchetTyped(s) /\ Ready(s)
    <3>1. successor(number) \in MessageNumbers
        BY <1>1, Successor
    <3> QED BY <1>5, <1>7, <1>10, <3>1
            DEF RatchetOK, RatchetTyped, OpenedCurrent
  <2>2. TurnOK(s)
      BY DEF RatchetOK, TurnOK, OpenedCurrent
  <2>3. SendChainOK(s)
    <3>1. /\ s.send_chain_key = r.send_chain_key /\ s.root_key = r.root_key
          /\ s.send_header_key = r.send_header_key /\ s.role = r.role
          /\ s.ratchet_flag = r.ratchet_flag
        BY DEF OpenedCurrent
    <3>2. SendChainOK(r)
        BY DEF RatchetOK
    <3> QED BY <3>1, <3>2 DEF SendChainOK
  <2>4. ReceiveChainOK(s)
    <3>1. ReceivesOn(s.role, reached.transcript)
        BY <1>1, <1>5, <1>7 DEF RatchetOK, ReceiveChainOK, ck
    <3>2. Len(ck.transcript) <= Len(s.root_key.transcript)
        BY DEF RatchetOK, ReceiveChainOK, OpenedCurrent, ck
    <3>3. s.receive_header_key \in HeaderKeys
        BY <1>1 DEF OpenedCurrent, hk
    <3> QED BY <1>5, <1>7, <3>1, <3>2, <3>3 DEF ReceiveChainOK
  <2>5. SkippedOK(s)
      BY <1>5, <1>10, <1>14 DEF SkippedOK
  <2>6. PurportedOK(s)
    <3>1. ReceivesOn(s.role, reached.transcript)
        BY <1>1, <1>5, <1>7 DEF RatchetOK, ReceiveChainOK, ck
    <3> QED BY <1>5, <1>11, <3>1 DEF PurportedOK
  <2> QED BY <2>1, <2>2, <2>3, <2>4, <2>5, <2>6 DEF RatchetOK
<1> QED BY <1>1, <1>5, <1>7, <1>10, <1>14, <1>15, <1>16
        DEF PassedCurrent, hk, ck, a, b, key, count

\* The rest of the old chain and the beginning of the new one, and no message twice
StagedOfBoth(r, ephemeral, number, previous_number, now) ==
    LET t == ReceivingTranscript(r, ephemeral)
        rest == RestOfChain(r, previous_number, now)
        new == StagedKeys(r.next_receive_header_key, ChainKey(t), Skip(0, number), now)
        b == StagedForNext(r, ephemeral, number, previous_number, now)
    IN  /\ b \in Seq(StoredKeys)
        /\ ToSet(b) = ToSet(rest) \union ToSet(new)
        /\ \A i \in 1..Len(b) : b[i].expiration_date = now + expiration_time
        /\ \A i, j \in 1..Len(b) : b[i].message_key = b[j].message_key => i = j
        /\ \A k \in ToSet(rest) :
              /\ r.receive_chain_key \in ChainKeys
              /\ k.header_key = r.receive_header_key
              /\ k.message_key.transcript = r.receive_chain_key.transcript
              /\ k.message_key.index \in Nat
              /\ k.message_key.index >= r.receive_chain_key.index
        /\ \A k \in ToSet(new) :
              /\ k.header_key = r.next_receive_header_key
              /\ k.message_key.transcript = t
              /\ k.message_key.index \in 0..(Skip(0, number) - 1)

\* What is staged when the first message of a new chain arrives.
LEMMA NextStagedAre ==
    ASSUME NEW r, RatchetOK(r), NEW ephemeral \in Name, NEW number \in MessageNumbers,
           NEW previous_number \in MessageNumbers, NEW now \in Nat,
           r.receive_chain_key \in ChainKeys =>
              previous_number <= r.receive_message_number + maximum_skipped_messages
    PROVE  StagedOfBoth(r, ephemeral, number, previous_number, now)
<1> DEFINE t == ReceivingTranscript(r, ephemeral)
           rest == RestOfChain(r, previous_number, now)
           count == Skip(0, number)
           nhk == r.next_receive_header_key
           fresh == ChainKey(t)
           new == StagedKeys(nhk, fresh, count, now)
           b == StagedForNext(r, ephemeral, number, previous_number, now)
           ck == r.receive_chain_key
<1>1. /\ RatchetTyped(r)
      /\ r.receive_message_number \in Nat /\ number \in Nat /\ previous_number \in Nat
      /\ r.our_private_ephemeral \in Name /\ r.our_public_ephemeral \in Name
      /\ nhk \in HeaderKeys
    BY RatchetAssumption DEF RatchetOK, RatchetTyped, MessageNumbers
<1>2. /\ t \in Transcripts
      /\ Len(r.root_key.transcript) \in Nat
      /\ Len(t) = Len(r.root_key.transcript) + 1
      /\ fresh \in ChainKeys /\ fresh.transcript = t /\ fresh.index = 0
    BY <1>1, NextChain DEF ReceivingTranscript
<1>3. /\ Len(ck.transcript) \in Nat /\ ck.index \in Nat
      /\ Len(ck.transcript) <= Len(r.root_key.transcript)
      /\ ck \in ChainKeys => r.receive_header_key \in HeaderKeys
    BY <1>1, Lengths DEF RatchetOK, ReceiveChainOK
<1>4. ck.transcript # t
    BY <1>2, <1>3
<1>5. count \in Nat
    BY <1>1, SkipLimit
<1> HIDE DEF t, nhk, fresh, count
<1>6. AreStaged(new, nhk, fresh, count, now)
    BY <1>1, <1>2, <1>5, StagedKeysAre
<1>7. /\ rest \in Seq(StoredKeys)
      /\ \A i \in 1..Len(rest) :
            /\ ck \in ChainKeys
            /\ rest[i].header_key = r.receive_header_key
            /\ rest[i].message_key.transcript = ck.transcript
            /\ rest[i].message_key.index = ck.index + i - 1
            /\ rest[i].expiration_date = now + expiration_time
  <2>1. CASE ck \in ChainKeys
    <3> DEFINE hk == r.receive_header_key
               skip == Skip(r.receive_message_number, previous_number)
    <3>1. rest = StagedKeys(hk, ck, skip, now)
        BY <2>1 DEF RestOfChain
    <3>2. hk \in HeaderKeys /\ skip \in Nat
        BY <1>1, <1>3, <2>1, SkipLimit
    <3> HIDE DEF hk, skip, ck, rest
    <3>3. AreStaged(rest, hk, ck, skip, now)
        BY <2>1, <3>1, <3>2, StagedKeysAre
    <3> QED BY <2>1, <3>3 DEF AreStaged, hk
  <2>2. CASE ck \notin ChainKeys
    <3>1. rest = <<>>
        BY <2>2 DEF RestOfChain
    <3> QED BY <3>1
  <2> QED BY <2>1, <2>2
<1>8. /\ new \in Seq(StoredKeys)
      /\ \A i \in 1..Len(new) :
            /\ new[i].header_key = nhk
            /\ new[i].message_key.transcript = t
            /\ new[i].message_key.index = i - 1
            /\ new[i].expiration_date = now + expiration_time
      /\ Len(new) \in 0..count
  <2> HIDE DEF new
  <2> QED BY <1>2, <1>6 DEF AreStaged
<1>9. b = rest \o new
    BY DEF StagedForNext, t, nhk, fresh, count
<1> HIDE DEF b, rest, new, ck
<1>10. Len(rest) \in Nat /\ Len(new) \in Nat
    BY <1>7, <1>8, LenProperties
<1>11. /\ b \in Seq(StoredKeys)
       /\ Len(b) = Len(rest) + Len(new)
       /\ \A i \in 1..Len(b) : b[i] = IF i <= Len(rest) THEN rest[i] ELSE new[i - Len(rest)]
    BY <1>7, <1>8, <1>9, ConcatProperties
<1>12. \A i \in 1..Len(b) :
          \/ /\ i <= Len(rest) /\ i \in 1..Len(rest)
             /\ b[i] = rest[i]
          \/ /\ ~(i <= Len(rest)) /\ i - Len(rest) \in 1..Len(new)
             /\ b[i] = new[i - Len(rest)]
    BY <1>10, <1>11
<1>13. \A i \in 1..Len(b) : b[i].expiration_date = now + expiration_time
    BY <1>7, <1>8, <1>12
<1>14. \A i, j \in 1..Len(b) : b[i].message_key = b[j].message_key => i = j
  <2> SUFFICES ASSUME NEW i \in 1..Len(b), NEW j \in 1..Len(b),
                      b[i].message_key = b[j].message_key
               PROVE  i = j
      OBVIOUS
  <2>1. i \in Nat /\ j \in Nat
      BY <1>10, <1>11
  <2>2. CASE i <= Len(rest) /\ j <= Len(rest)
    <3>1. /\ b[i].message_key.index = ck.index + i - 1
          /\ b[j].message_key.index = ck.index + j - 1
        BY <1>7, <1>12, <2>2
    <3> QED BY <1>3, <2>1, <3>1 DEF ck
  <2>3. CASE ~(i <= Len(rest)) /\ ~(j <= Len(rest))
    <3>1. /\ b[i].message_key.index = i - Len(rest) - 1
          /\ b[j].message_key.index = j - Len(rest) - 1
        BY <1>8, <1>12, <2>3
    <3> QED BY <1>10, <2>1, <3>1
  <2>4. CASE i <= Len(rest) /\ ~(j <= Len(rest))
    <3>1. b[i].message_key.transcript = ck.transcript
        BY <1>7, <1>12, <2>4
    <3>2. b[j].message_key.transcript = t
        BY <1>8, <1>12, <2>4
    <3> QED BY <1>4, <3>1, <3>2 DEF ck
  <2>5. CASE ~(i <= Len(rest)) /\ j <= Len(rest)
    <3>1. b[j].message_key.transcript = ck.transcript
        BY <1>7, <1>12, <2>5
    <3>2. b[i].message_key.transcript = t
        BY <1>8, <1>12, <2>5
    <3> QED BY <1>4, <3>1, <3>2 DEF ck
  <2> QED BY <2>2, <2>3, <2>4, <2>5
<1>15. /\ ToSet(rest) = {rest[i] : i \in 1..Len(rest)}
       /\ ToSet(new) = {new[i] : i \in 1..Len(new)}
       /\ ToSet(b) = {b[i] : i \in 1..Len(b)}
    BY <1>7, <1>8, <1>11, Vector
<1>16. ToSet(b) = ToSet(rest) \union ToSet(new)
  <2>1. \A k \in ToSet(b) : k \in ToSet(rest) \union ToSet(new)
      BY <1>12, <1>15
  <2>2. \A k \in ToSet(rest) : k \in ToSet(b)
    <3> TAKE k \in ToSet(rest)
    <3>1. PICK i \in 1..Len(rest) : k = rest[i]
        BY <1>15
    <3>2. i \in 1..Len(b) /\ i <= Len(rest)
        BY <1>10, <1>11
    <3>3. b[i] = rest[i]
        BY <1>11, <3>2
    <3> QED BY <1>15, <3>1, <3>2, <3>3
  <2>3. \A k \in ToSet(new) : k \in ToSet(b)
    <3> TAKE k \in ToSet(new)
    <3>1. PICK i \in 1..Len(new) : k = new[i]
        BY <1>15
    <3>2. /\ i + Len(rest) \in 1..Len(b) /\ ~(i + Len(rest) <= Len(rest))
          /\ i + Len(rest) - Len(rest) = i
        BY <1>10, <1>11
    <3>3. b[i + Len(rest)] = new[i]
        BY <1>11, <3>2
    <3> QED BY <1>15, <3>1, <3>2, <3>3
  <2> QED BY <2>1, <2>2, <2>3
<1>17. \A k \in ToSet(rest) :
          /\ ck \in ChainKeys
          /\ k.header_key = r.receive_header_key
          /\ k.message_key.transcript = ck.transcript
          /\ k.message_key.index \in Nat
          /\ k.message_key.index >= ck.index
  <2> TAKE k \in ToSet(rest)
  <2>1. PICK i \in 1..Len(rest) : k = rest[i]
      BY <1>15
  <2>2. i \in Nat /\ i >= 1
      BY <1>10
  <2>3. k.message_key.index = ck.index + i - 1 /\ ck.index \in Nat
      BY <1>3, <1>7, <2>1 DEF ck
  <2> QED BY <1>7, <2>1, <2>2, <2>3
<1>18. \A k \in ToSet(new) :
          /\ k.header_key = nhk
          /\ k.message_key.transcript = t
          /\ k.message_key.index \in 0..(count - 1)
  <2> TAKE k \in ToSet(new)
  <2>1. PICK i \in 1..Len(new) : k = new[i]
      BY <1>15
  <2>2. i - 1 \in 0..(count - 1)
      BY <1>5, <1>8
  <2> QED BY <1>8, <2>1, <2>2
<1> QED BY <1>11, <1>13, <1>14, <1>16, <1>17, <1>18
        DEF StagedOfBoth, t, rest, new, b, ck, nhk, fresh, count

\* A new chain has passed a message
PassedNext(r, s, ephemeral, number, previous_number, now) ==
    LET t == ReceivingTranscript(r, ephemeral)
        key == deriveMessageKey(advanced(ChainKey(t), Skip(0, number)))
        staged == StagedForNext(r, ephemeral, number, previous_number, now)
    IN  /\ RatchetOK(s)
        /\ MovedOn(r, s)
        /\ t \in Transcripts
        /\ Len(t) = Len(r.root_key.transcript) + 1
        /\ s.receive_chain_key \in ChainKeys
        /\ s.receive_chain_key.transcript = t
        /\ s.receive_chain_key.index = Skip(0, number) + 1
        /\ key \in MessageKeys
        /\ key.transcript = t /\ key.index = Skip(0, number)
        /\ \A k \in ToSet(s.skipped) : k.message_key # key
        /\ ToSet(s.skipped) \subseteq ToSet(r.skipped) \union ToSet(staged)
        /\ \A k \in (ToSet(r.skipped) \union ToSet(staged)) \ ToSet(s.skipped) :
              \/ isOutdated(k, now)
              \/ Cardinality(ToSet(r.skipped) \union ToSet(staged))
                    > header_and_message_store_maximum_keys

\* After a message of a new chain was opened the ratchet is as good as before, the
\* chain has passed the message, and no key for the message was kept.
LEMMA OpenedNextOK ==
    ASSUME NEW r, RatchetOK(r), r.ratchet_flag = FALSE, NEW ephemeral \in Name,
           NEW number \in MessageNumbers, NEW previous_number \in MessageNumbers,
           NEW now \in Nat,
           r.receive_chain_key \in ChainKeys =>
              previous_number <= r.receive_message_number + maximum_skipped_messages,
           NEW s, OpenedNext(r, s, ephemeral, number, previous_number, now)
    PROVE  PassedNext(r, s, ephemeral, number, previous_number, now)
<1> DEFINE t == ReceivingTranscript(r, ephemeral)
           count == Skip(0, number)
           fresh == ChainKey(t)
           key == deriveMessageKey(advanced(fresh, count))
           reached == deriveChainKey(advanced(fresh, count))
           ck == r.receive_chain_key
           a == r.skipped
           b == StagedForNext(r, ephemeral, number, previous_number, now)
           after == Committed(a, b, now)
           rest == RestOfChain(r, previous_number, now)
           new == StagedKeys(r.next_receive_header_key, ChainKey(t), Skip(0, number), now)
<1>1. /\ RatchetTyped(r)
      /\ number \in Nat
      /\ r.our_private_ephemeral \in Name /\ r.our_public_ephemeral \in Name
      /\ r.next_receive_header_key \in HeaderKeys
    BY RatchetAssumption DEF RatchetOK, RatchetTyped, MessageNumbers
<1>2. /\ t \in Transcripts
      /\ Len(r.root_key.transcript) \in Nat
      /\ Len(t) = Len(r.root_key.transcript) + 1
      /\ RootKey(t) \in RootKeys /\ RootKey(t).transcript = t
      /\ HeaderKey(t, 1) \in HeaderKeys
      /\ fresh \in ChainKeys /\ fresh.transcript = t /\ fresh.index = 0
    BY <1>1, NextChain DEF ReceivingTranscript
<1>3. /\ Len(ck.transcript) \in Nat /\ ck.index \in Nat
      /\ Len(ck.transcript) <= Len(r.root_key.transcript)
    BY <1>1, Lengths DEF RatchetOK, ReceiveChainOK
<1>4. Len(ck.transcript) < Len(t) /\ ck.transcript # t
    BY <1>2, <1>3
<1>5. count \in Nat
    BY <1>1, SkipLimit
<1>6. /\ b \in Seq(StoredKeys)
      /\ ToSet(b) = ToSet(rest) \union ToSet(new)
      /\ \A i \in 1..Len(b) : b[i].expiration_date = now + expiration_time
      /\ \A i, j \in 1..Len(b) : b[i].message_key = b[j].message_key => i = j
      /\ \A k \in ToSet(rest) :
            /\ ck \in ChainKeys
            /\ k.message_key.transcript = ck.transcript
            /\ k.message_key.index \in Nat
            /\ k.message_key.index >= ck.index
      /\ \A k \in ToSet(new) :
            /\ k.message_key.transcript = t
            /\ k.message_key.index \in 0..(count - 1)
  <2>1. StagedOfBoth(r, ephemeral, number, previous_number, now)
      BY NextStagedAre
  <2> QED BY <2>1 DEF StagedOfBoth
<1>7. /\ a \in Seq(StoredKeys) /\ SortedByDate(a) /\ IsInjective(a)
      /\ \A k, l \in ToSet(a) : k.message_key = l.message_key => k = l
    BY DEF RatchetOK, RatchetTyped, SkippedOK
<1>8. \A k \in ToSet(a) : /\ k.message_key \in MessageKeys
                          /\ Passed(ck, k.message_key)
                          /\ ReceivesOn(r.role, k.message_key.transcript)
    BY SkippedKey
<1>9. /\ DOMAIN s = Fields
      /\ s.root_key = RootKey(t)
      /\ s.receive_chain_key = reached
      /\ s.purported_receive_chain_key = reached
      /\ s.skipped = after
      /\ s.role = r.role
      /\ s.ratchet_flag = TRUE
      /\ s.send_chain_key = r.send_chain_key
      /\ s.send_header_key = r.send_header_key
      /\ s.receive_header_key = r.next_receive_header_key
    BY DEF OpenedNext
\* The parity of the new chain
<1>10. /\ ReceivesOn(r.role, t)
       /\ Len(t) % 2 = 1 <=> r.role = TRUE
  <2>1. Len(r.root_key.transcript) % 2 = 1 <=> r.role = FALSE
      BY DEF RatchetOK, TurnOK
  <2>2. Len(t) % 2 = 1 <=> r.role = TRUE
      BY <1>1, <1>2, <2>1, Parity DEF RatchetTyped
  <2> QED BY <2>2 DEF ReceivesOn, ALICE
<1> HIDE DEF t, count, fresh, ck, a, b, rest, new
<1>11. /\ key \in MessageKeys
       /\ key.transcript = t /\ key.index = count
       /\ reached \in ChainKeys
       /\ reached.transcript = t /\ reached.index = count + 1
  <2>1. /\ key \in MessageKeys
        /\ key.transcript = fresh.transcript /\ key.index = fresh.index + count
        /\ reached \in ChainKeys
        /\ reached.transcript = fresh.transcript
        /\ reached.index = fresh.index + count + 1
      BY <1>2, <1>5, Advance
  <2> QED BY <1>2, <1>5, <2>1
<1> HIDE DEF key, reached
<1>12. Len(reached.transcript) = Len(t) /\ reached.index \in Nat /\ Len(t) \in Nat
    BY <1>2, <1>5, <1>11
<1>13. \A k \in MessageKeys : Passed(ck, k) => Passed(reached, k)
  <2> TAKE k \in MessageKeys
  <2> QED BY <1>3, <1>4, <1>11, <1>12, PassedMore DEF ck
<1>14. \A k \in ToSet(b) :
          /\ ~Passed(ck, k.message_key)
          /\ Passed(reached, k.message_key)
          /\ k.message_key # key
          /\ ReceivesOn(r.role, k.message_key.transcript)
  <2> TAKE k \in ToSet(b)
  <2>1. CASE k \in ToSet(rest)
    <3>1. /\ ck \in ChainKeys
          /\ k.message_key.transcript = ck.transcript
          /\ k.message_key.index \in Nat
          /\ k.message_key.index >= ck.index
        BY <1>6, <2>1
    <3>2. ReceivesOn(r.role, ck.transcript)
        BY <3>1 DEF RatchetOK, ReceiveChainOK, ck
    <3>3. ck.index \in Nat /\ Len(ck.transcript) < Len(t) /\ ck.transcript # t
        BY <1>3, <1>4 DEF ck
    <3>4. ~Passed(ck, k.message_key)
        BY <3>1, <3>3 DEF Passed
    <3>5. Passed(reached, k.message_key)
        BY <1>3, <1>11, <1>12, <3>1, <3>3 DEF Passed
    <3>6. k.message_key # key
        BY <1>11, <3>1, <3>3
    <3> QED BY <3>1, <3>2, <3>4, <3>5, <3>6
  <2>2. CASE k \in ToSet(new)
    <3>1. /\ k.message_key.transcript = t
          /\ k.message_key.index \in 0..(count - 1)
        BY <1>6, <2>2
    <3>2. ~Passed(ck, k.message_key)
        BY <1>3, <1>4, <1>12, <3>1 DEF Passed
    <3>3. Passed(reached, k.message_key)
        BY <1>5, <1>11, <1>12, <3>1 DEF Passed
    <3>4. k.message_key # key
        BY <1>5, <1>11, <3>1
    <3> QED BY <1>10, <3>1, <3>2, <3>3, <3>4
  <2> QED BY <1>6, <2>1, <2>2
<1>15. \A k \in ToSet(a), i \in 1..Len(b) : k.message_key # b[i].message_key
  <2>1. \A i \in 1..Len(b) : b[i] \in ToSet(b)
      BY <1>6, Vector
  <2> QED BY <1>8, <1>14, <2>1
<1>16. /\ after \in Seq(StoredKeys)
       /\ SortedByDate(after)
       /\ IsInjective(after)
       /\ ToSet(after) \subseteq ToSet(a) \union ToSet(b)
       /\ \A k, l \in ToSet(after) : k.message_key = l.message_key => k = l
       /\ \A k \in (ToSet(a) \union ToSet(b)) \ ToSet(after) :
             \/ isOutdated(k, now)
             \/ Cardinality(ToSet(a) \union ToSet(b))
                   > header_and_message_store_maximum_keys
    BY <1>6, <1>7, <1>15, CommitStaged
<1> HIDE DEF after
<1>17. \A k \in ToSet(after) :
          /\ k \in ToSet(a) \/ ~Passed(ck, k.message_key)
          /\ Passed(reached, k.message_key)
          /\ k.message_key # key
          /\ ReceivesOn(r.role, k.message_key.transcript)
  <2> TAKE k \in ToSet(after)
  <2>1. CASE k \in ToSet(a)
    <3>1. ~Passed(ck, key)
        BY <1>3, <1>4, <1>11, <1>12 DEF Passed
    <3> QED BY <1>8, <1>13, <2>1, <3>1
  <2>2. CASE k \in ToSet(b)
      BY <1>14, <2>2
  <2> QED BY <1>16, <2>1, <2>2
<1>18. MovedOn(r, s)
    BY <1>9, <1>13, <1>17 DEF MovedOn, ck, a
<1>19. RatchetOK(s)
  <2>1. RatchetTyped(s) /\ Ready(s)
    <3>1. successor(number) \in MessageNumbers
        BY <1>1, Successor
    <3>2. ZeroedPrivateKey \in Name
        BY DEF ZeroedPrivateKey, Name
    <3>3. s.next_receive_header_key \in HeaderKeys
        BY <1>2 DEF OpenedNext, t
    <3> QED BY <1>2, <1>9, <1>11, <1>16, <3>1, <3>2, <3>3
            DEF RatchetOK, RatchetTyped, OpenedNext
  <2>2. TurnOK(s)
    <3>1. Len(s.root_key.transcript) = Len(t)
        BY <1>2, <1>9
    <3> QED BY <1>1, <1>9, <1>10, <3>1 DEF TurnOK, RatchetTyped
  <2>3. SendChainOK(s)
    <3>1. SendChainOK(r)
        BY DEF RatchetOK
    <3>2. Len(s.root_key.transcript) = Len(t) /\ Len(r.send_chain_key.transcript) \in Nat
        BY <1>1, <1>2, <1>9, Lengths
    <3>3. Len(s.send_chain_key.transcript) <= Len(s.root_key.transcript)
        BY <1>2, <1>9, <3>1, <3>2 DEF SendChainOK
    <3> QED BY <1>9, <3>1, <3>3 DEF SendChainOK
  <2>4. ReceiveChainOK(s)
    <3>1. Len(reached.transcript) <= Len(s.root_key.transcript)
        BY <1>2, <1>9, <1>12
    <3>2. ReceivesOn(s.role, reached.transcript)
        BY <1>9, <1>10, <1>11
    <3> QED BY <1>1, <1>9, <1>11, <3>1, <3>2 DEF ReceiveChainOK
  <2>5. SkippedOK(s)
      BY <1>9, <1>16, <1>17 DEF SkippedOK
  <2>6. PurportedOK(s)
    <3>1. ReceivesOn(s.role, reached.transcript)
        BY <1>9, <1>10, <1>11
    <3> QED BY <1>9, <1>12, <3>1 DEF PurportedOK
  <2> QED BY <2>1, <2>2, <2>3, <2>4, <2>5, <2>6 DEF RatchetOK
<1> QED BY <1>2, <1>9, <1>11, <1>16, <1>17, <1>18, <1>19
        DEF PassedNext, t, count, fresh, key, a, b

-----------------------------------------------------------------------------
(***************************************************************************)
(* Skipped keys and backups                                                *)
(***************************************************************************)

\* The key that opened a packet goes, and with it the only key for that message.
LEMMA UseKey ==
    ASSUME NEW r, RatchetOK(r), NEW i \in DOMAIN r.skipped
    PROVE  LET s == [r EXCEPT !.skipped = remove(@, i)]
               key == r.skipped[i].message_key
           IN  /\ RatchetOK(s)
               /\ MovedOn(r, s)
               /\ DOMAIN s = Fields
               /\ \A f \in Fields \ {"skipped"} : s[f] = r[f]
               /\ ToSet(s.skipped) = ToSet(r.skipped) \ {r.skipped[i]}
               /\ r.skipped[i] \in ToSet(r.skipped)
               /\ key \in MessageKeys
               /\ Passed(r.receive_chain_key, key)
               /\ ReceivesOn(r.role, key.transcript)
               /\ \A k \in ToSet(s.skipped) : k.message_key # key
<1> DEFINE s == [r EXCEPT !.skipped = remove(@, i)]
           after == remove(r.skipped, i)
<1>1. /\ RatchetTyped(r) /\ r.skipped \in Seq(StoredKeys)
      /\ SortedByDate(r.skipped) /\ IsInjective(r.skipped)
      /\ \A k, l \in ToSet(r.skipped) : k.message_key = l.message_key => k = l
    BY DEF RatchetOK, RatchetTyped, SkippedOK
<1>2. /\ DOMAIN s = Fields
      /\ s.skipped = after
      /\ \A f \in Fields \ {"skipped"} : s[f] = r[f]
    BY <1>1 DEF RatchetTyped, Fields
<1>3. /\ after \in Seq(StoredKeys) /\ SortedByDate(after) /\ IsInjective(after)
      /\ ToSet(after) = ToSet(r.skipped) \ {r.skipped[i]}
    BY <1>1, RemoveKey
<1>4. r.skipped[i] \in ToSet(r.skipped)
    BY DEF ToSet
<1> HIDE DEF s, after
<1>5. /\ s.root_key = r.root_key
      /\ s.send_header_key = r.send_header_key
      /\ s.receive_header_key = r.receive_header_key
      /\ s.next_send_header_key = r.next_send_header_key
      /\ s.next_receive_header_key = r.next_receive_header_key
      /\ s.send_chain_key = r.send_chain_key
      /\ s.receive_chain_key = r.receive_chain_key
      /\ s.our_private_ephemeral = r.our_private_ephemeral
      /\ s.our_public_ephemeral = r.our_public_ephemeral
      /\ s.their_public_ephemeral = r.their_public_ephemeral
      /\ s.purported_receive_chain_key = r.purported_receive_chain_key
      /\ s.purported_message_number = r.purported_message_number
      /\ s.purported_previous_message_number = r.purported_previous_message_number
      /\ s.send_message_number = r.send_message_number
      /\ s.receive_message_number = r.receive_message_number
      /\ s.previous_message_number = r.previous_message_number
      /\ s.ratchet_flag = r.ratchet_flag
      /\ s.role = r.role
      /\ s.received_valid = r.received_valid
      /\ s.header_decryptable = r.header_decryptable
      /\ s.staged = r.staged
    BY <1>2 DEF Fields
<1>6. RatchetTyped(s) /\ Ready(s)
    BY <1>1, <1>2, <1>3, <1>5 DEF RatchetOK, RatchetTyped, Ready
<1>7. TurnOK(s)
    BY <1>5 DEF RatchetOK, TurnOK
<1>8. SendChainOK(s) /\ ReceiveChainOK(s)
    BY <1>5 DEF RatchetOK, SendChainOK, ReceiveChainOK
<1>9. PurportedOK(s)
    BY <1>5 DEF RatchetOK, PurportedOK
<1>10. SkippedOK(s)
    BY <1>1, <1>2, <1>3, <1>5 DEF RatchetOK, SkippedOK
<1>11. RatchetOK(s)
    BY <1>6, <1>7, <1>8, <1>9, <1>10 DEF RatchetOK
<1>12. MovedOn(r, s)
    BY <1>2, <1>3, <1>5 DEF MovedOn
<1> QED BY <1>1, <1>2, <1>3, <1>4, <1>11, <1>12, SkippedKey DEF s

\* A ratchet that comes back from a backup is as good as the one that was written:
\* an empty key that comes back as zeroes is still not taken for a key.
LEMMA ExportAndImport ==
    ASSUME NEW r, RatchetOK(r)
    PROVE  LET s == exportAndImport(r)
           IN  /\ RatchetOK(s)
               /\ DOMAIN s = Fields
               /\ \A f \in Fields \ {"receive_header_key", "send_chain_key",
                                     "receive_chain_key"} : s[f] = r[f]
               /\ s.receive_chain_key.transcript = r.receive_chain_key.transcript
               /\ s.receive_chain_key.index = r.receive_chain_key.index
               /\ s.send_chain_key.transcript = r.send_chain_key.transcript
               /\ s.send_chain_key.index = r.send_chain_key.index
               /\ r.receive_chain_key \in ChainKeys <=> s.receive_chain_key \in ChainKeys
               /\ r.send_chain_key \in ChainKeys <=> s.send_chain_key \in ChainKeys
               /\ r.receive_header_key \in HeaderKeys => s.receive_header_key = r.receive_header_key
<1> DEFINE s == exportAndImport(r)
<1>1. RatchetTyped(r)
    BY DEF RatchetOK
<1>2. /\ DOMAIN s = Fields
      /\ s.receive_header_key = reimported(r.receive_header_key)
      /\ s.send_chain_key = reimported(r.send_chain_key)
      /\ s.receive_chain_key = reimported(r.receive_chain_key)
      /\ \A f \in Fields \ {"receive_header_key", "send_chain_key", "receive_chain_key"} :
            s[f] = r[f]
    BY <1>1 DEF exportAndImport, RatchetTyped, Fields
<1> HIDE DEF s
<1>3. \A k \in ChainKeys \union EmptyKeys :
         /\ reimported(k) \in ChainKeys \union EmptyKeys
         /\ reimported(k).transcript = k.transcript
         /\ reimported(k).index = k.index
         /\ k \in ChainKeys <=> reimported(k) \in ChainKeys
    BY DEF reimported, ChainKeys, KeysOf, EmptyKeys, NoKey, ZeroKey
<1>4. \A k \in HeaderKeys \union EmptyKeys :
         /\ reimported(k) \in HeaderKeys \union EmptyKeys
         /\ k \in HeaderKeys => reimported(k) = k
         /\ k \in HeaderKeys <=> reimported(k) \in HeaderKeys
    BY DEF reimported, HeaderKeys, KeysOf, EmptyKeys, NoKey, ZeroKey
<1>5. /\ s.receive_chain_key \in ChainKeys \union EmptyKeys
      /\ s.receive_chain_key.transcript = r.receive_chain_key.transcript
      /\ s.receive_chain_key.index = r.receive_chain_key.index
      /\ r.receive_chain_key \in ChainKeys <=> s.receive_chain_key \in ChainKeys
    BY <1>1, <1>2, <1>3 DEF RatchetTyped
<1>6. /\ s.send_chain_key \in ChainKeys \union EmptyKeys
      /\ s.send_chain_key.transcript = r.send_chain_key.transcript
      /\ s.send_chain_key.index = r.send_chain_key.index
      /\ r.send_chain_key \in ChainKeys <=> s.send_chain_key \in ChainKeys
    BY <1>1, <1>2, <1>3 DEF RatchetTyped
<1>7. /\ s.receive_header_key \in HeaderKeys \union EmptyKeys
      /\ r.receive_header_key \in HeaderKeys => s.receive_header_key = r.receive_header_key
      /\ r.receive_header_key \in HeaderKeys <=> s.receive_header_key \in HeaderKeys
    BY <1>1, <1>2, <1>4 DEF RatchetTyped
<1>8. /\ s.root_key = r.root_key
      /\ s.send_header_key = r.send_header_key
      /\ s.next_send_header_key = r.next_send_header_key
      /\ s.next_receive_header_key = r.next_receive_header_key
      /\ s.our_private_ephemeral = r.our_private_ephemeral
      /\ s.our_public_ephemeral = r.our_public_ephemeral
      /\ s.their_public_ephemeral = r.their_public_ephemeral
      /\ s.purported_receive_chain_key = r.purported_receive_chain_key
      /\ s.purported_message_number = r.purported_message_number
      /\ s.purported_previous_message_number = r.purported_previous_message_number
      /\ s.send_message_number = r.send_message_number
      /\ s.receive_message_number = r.receive_message_number
      /\ s.previous_message_number = r.previous_message_number
      /\ s.ratchet_flag = r.ratchet_flag
      /\ s.role = r.role
      /\ s.received_valid = r.received_valid
      /\ s.header_decryptable = r.header_decryptable
      /\ s.staged = r.staged /\ s.skipped = r.skipped
    BY <1>2 DEF Fields
<1>9. RatchetTyped(s) /\ Ready(s)
    BY <1>1, <1>2, <1>5, <1>6, <1>7, <1>8 DEF RatchetOK, RatchetTyped, Ready
<1>10. TurnOK(s)
    BY <1>8 DEF RatchetOK, TurnOK
<1>11. SendChainOK(s)
  <2>1. SendChainOK(r)
      BY DEF RatchetOK
  <2> QED BY <1>6, <1>8, <2>1 DEF SendChainOK
<1>12. ReceiveChainOK(s)
  <2>1. ReceiveChainOK(r)
      BY DEF RatchetOK
  <2> QED BY <1>5, <1>7, <1>8, <2>1 DEF ReceiveChainOK
<1>13. SkippedOK(s)
  <2>1. SkippedOK(r)
      BY DEF RatchetOK
  <2> QED BY <1>5, <1>8, <2>1 DEF SkippedOK, Passed
<1>14. PurportedOK(s)
  <2>1. PurportedOK(r)
      BY DEF RatchetOK
  <2> QED BY <1>5, <1>8, <2>1 DEF PurportedOK
<1> QED BY <1>2, <1>5, <1>6, <1>7, <1>9, <1>10, <1>11, <1>12, <1>13, <1>14 DEF RatchetOK, s
=============================================================================
