------------------------------- MODULE Ratchet -------------------------------
(***************************************************************************)
(* The double ratchet of one party (lib/ratchet.cpp), as operators on the  *)
(* record of its state.  Every operation returns the state it leaves       *)
(* behind, also when it fails half way, next to what it returns to its     *)
(* caller (Conversation).  The identity keys, which the ratchet stores but *)
(* never uses again after create(), are left out of the record.            *)
(***************************************************************************)
EXTENDS Keys, HeaderAndMessageKeyStore

CONSTANTS
    maximum_skipped_messages,   \* how far a chain may be skipped at once
    message_numbers             \* how many there are: 2^32, they are uint32_t

\* 500 and 1000 in the code: one packet can skip a part of the current chain and
\* a part of the next, and the staging area has room for both
ASSUME RatchetAssumption ==
    /\ maximum_skipped_messages \in Nat
    /\ message_numbers \in Nat \ {0}
    /\ 2 * maximum_skipped_messages <= header_and_message_store_maximum_keys

NoPublicKey == ZeroedPrivateKey     \* an empty std::optional<PublicKey>

\* Ns++ and Np + 1, which wrap around
successor(message_number) == (message_number + 1) % message_numbers

-----------------------------------------------------------------------------

\* Ratchet::create: the party with the bigger public identity key is Alice
create(our_identity, our_ephemeral, their_identity, their_ephemeral) ==
    LET role == our_identity[1] > their_identity[1]
        derived == derive_initial_root_chain_and_header_keys(
                      our_identity, our_ephemeral,
                      their_identity, their_ephemeral, role)
    IN  [root_key |-> derived.root_key,
         send_header_key |-> derived.send_header_key,
         receive_header_key |-> derived.receive_header_key,
         next_send_header_key |-> derived.next_send_header_key,
         next_receive_header_key |-> derived.next_receive_header_key,
         send_chain_key |-> derived.send_chain_key,
         receive_chain_key |-> derived.receive_chain_key,
         our_private_ephemeral |-> our_ephemeral,
         our_public_ephemeral |-> our_ephemeral,
         their_public_ephemeral |-> their_ephemeral,
         \* what a message claims, until it proves authentic
         purported_root_key |-> NoKey,
         purported_receive_header_key |-> NoKey,
         purported_next_receive_header_key |-> NoKey,
         purported_receive_chain_key |-> NoKey,
         their_purported_public_ephemeral |-> NoPublicKey,
         purported_message_number |-> 0,
         purported_previous_message_number |-> 0,
         \* message numbers, flags and key stores
         send_message_number |-> 0,
         receive_message_number |-> 0,
         previous_message_number |-> 0,
         ratchet_flag |-> role,
         role |-> role,
         received_valid |-> TRUE,
         header_decryptable |-> "NOT_TRIED",
         skipped |-> <<>>,
         staged |-> <<>>]

-----------------------------------------------------------------------------

\* Mutant: the number of messages in the previous chain is not remembered
startSendChain_forgetsPN(r, fresh) ==
    LET derived == derive_root_next_header_and_chain_keys(
                      fresh, fresh, r.their_public_ephemeral, r.root_key, r.role)
    IN  [r EXCEPT !.our_private_ephemeral = fresh,
                  !.our_public_ephemeral = fresh,
                  !.send_header_key = r.next_send_header_key,
                  !.root_key = derived.root_key,
                  !.next_send_header_key = derived.next_header_key,
                  !.send_chain_key = derived.chain_key,
                  !.send_message_number = 0,
                  !.ratchet_flag = FALSE]

\* The first half of getSendData when ratchet_flag is set: a fresh key pair and
\* with it a new sending chain
startSendChain(r, fresh) ==
    LET derived == derive_root_next_header_and_chain_keys(
                      fresh, fresh, r.their_public_ephemeral, r.root_key, r.role)
    IN  [r EXCEPT !.our_private_ephemeral = fresh,
                  !.our_public_ephemeral = fresh,
                  !.send_header_key = r.next_send_header_key,
                  !.root_key = derived.root_key,
                  !.next_send_header_key = derived.next_header_key,
                  !.send_chain_key = derived.chain_key,
                  !.previous_message_number = r.send_message_number,
                  !.send_message_number = 0,
                  !.ratchet_flag = FALSE]

\* Ratchet::getSendData.  It fails when the chain key or the header key is
\* missing, and leaves behind what it has changed by then.
getSendData(r, fresh) ==
    LET s == IF r.ratchet_flag THEN startSendChain(r, fresh) ELSE r
        ok == s.send_chain_key # NoKey /\ s.send_header_key # NoKey
    IN  [ok |-> ok,
         header_key |-> s.send_header_key,
         message_key |-> deriveMessageKey(s.send_chain_key),
         ephemeral |-> s.our_public_ephemeral,
         message_number |-> s.send_message_number,
         previous_message_number |-> s.previous_message_number,
         ratchet |-> IF ~ok THEN s
                     ELSE [s EXCEPT !.send_message_number = successor(@),
                                    !.send_chain_key = deriveChainKey(@)]]

\* Ratchet::setHeaderDecryptability: only once per packet
setHeaderDecryptability(r, header_decryptable) ==
    IF r.header_decryptable = "NOT_TRIED" /\ header_decryptable # "NOT_TRIED"
    THEN [ok |-> TRUE,
          ratchet |-> [r EXCEPT !.header_decryptable = header_decryptable]]
    ELSE [ok |-> FALSE, ratchet |-> r]

-----------------------------------------------------------------------------

\* The chain key reached after the keys of "steps" messages were passed over
advanced(chain_key, steps) == [chain_key EXCEPT !.index = @ + steps]

\* The keys of the messages that are passed over, in the order of the loop
skippedKeys(header_key, chain_key, count, now) ==
    [i \in 1..count |->
        HeaderAndMessageKey(header_key,
                            deriveMessageKey(advanced(chain_key, i - 1)), now)]

\* The loop itself: one call of add(header_key, message_key) after the other
addAll(staging_area, keys, now) ==
    LET loop[i \in 0..Len(keys)] ==
            IF i = 0 THEN staging_area ELSE add(loop[i - 1], keys[i], now)
    IN  loop[Len(keys)]

(***************************************************************************)
(* stageSkippedHeaderAndMessageKeys.  With a chain key that is <none> it   *)
(* does nothing, not even set its outputs.  A message number below the     *)
(* current one stages nothing and yields the keys of the current one.      *)
(***************************************************************************)
stageSkippedHeaderAndMessageKeys(staging_area, header_key, current, future, chain_key, now) ==
    LET count == IF future > current THEN future - current ELSE 0
        reached == advanced(chain_key, count)
    IN  IF isNone(chain_key)
        THEN [ok |-> TRUE, staged |-> staging_area,
              message_key |-> NoKey, chain_key |-> NoKey]
        ELSE IF future > current + maximum_skipped_messages
        THEN [ok |-> FALSE, staged |-> staging_area,
              message_key |-> NoKey, chain_key |-> NoKey]
        ELSE [ok |-> TRUE,
              staged |-> addAll(staging_area,
                                skippedKeys(header_key, chain_key, count, now), now),
              message_key |-> deriveMessageKey(reached),
              chain_key |-> deriveChainKey(reached)]

\* The branch of Ratchet::receive for a message of the current chain
receiveCurrent(r, message_number, now) ==
    LET stage == stageSkippedHeaderAndMessageKeys(
                    r.staged, r.receive_header_key, r.receive_message_number,
                    message_number, r.receive_chain_key, now)
    IN  [ok |-> stage.ok,
         message_key |-> stage.message_key,
         ratchet |-> [r EXCEPT
            !.purported_message_number = message_number,
            !.staged = stage.staged,
            !.purported_receive_chain_key =
                IF stage.ok /\ ~isNone(r.receive_chain_key)
                THEN stage.chain_key ELSE @,
            !.received_valid = IF stage.ok THEN FALSE ELSE @]]

(***************************************************************************)
(* The branch for the first message of a new chain: what is left of the    *)
(* old chain is staged first, then what the new chain has skipped.         *)
(***************************************************************************)
receiveNext(r, ephemeral, message_number, previous_message_number, now) ==
    LET claimed == [r EXCEPT
            !.purported_message_number = message_number,
            !.purported_previous_message_number = previous_message_number,
            !.their_purported_public_ephemeral = ephemeral]
        old == stageSkippedHeaderAndMessageKeys(
                  r.staged, r.receive_header_key, r.receive_message_number,
                  previous_message_number, r.receive_chain_key, now)
        derived == derive_root_next_header_and_chain_keys(
                      r.our_private_ephemeral, r.our_public_ephemeral,
                      ephemeral, r.root_key, r.role)
        new == stageSkippedHeaderAndMessageKeys(
                  old.staged, r.next_receive_header_key, 0,
                  message_number, derived.chain_key, now)
        purported == [claimed EXCEPT
            !.staged = new.staged,
            !.purported_receive_header_key = r.next_receive_header_key,
            !.purported_root_key = derived.root_key,
            !.purported_next_receive_header_key = derived.next_header_key,
            !.purported_receive_chain_key =
                IF new.ok THEN new.chain_key ELSE derived.chain_key,
            !.received_valid = IF new.ok THEN FALSE ELSE @]
    IN  IF ~old.ok
        THEN [ok |-> FALSE, message_key |-> NoKey, ratchet |-> claimed]
        ELSE [ok |-> new.ok, message_key |-> new.message_key,
              ratchet |-> purported]

\* if ratchet_flag or not Dec(NHKr, header): undecryptable
isNewChain(r) == ~r.ratchet_flag /\ r.header_decryptable = "NEXT_DECRYPTABLE"

isCurrentChain(r) ==
    ~isNone(r.receive_header_key) /\ r.header_decryptable = "CURRENT_DECRYPTABLE"

\* Ratchet::receive
receive(r, ephemeral, message_number, previous_message_number, now) ==
    IF ~r.received_valid \/ r.header_decryptable = "NOT_TRIED"
    THEN [ok |-> FALSE, message_key |-> NoKey, ratchet |-> r]
    ELSE IF isCurrentChain(r)
    THEN receiveCurrent(r, message_number, now)
    ELSE IF isNewChain(r)
    THEN receiveNext(r, ephemeral, message_number, previous_message_number, now)
    ELSE [ok |-> FALSE, message_key |-> NoKey, ratchet |-> r]

-----------------------------------------------------------------------------

\* Ratchet::commitSkippedHeaderAndMessageKeys
commitSkippedHeaderAndMessageKeys(r, now) ==
    [r EXCEPT !.skipped = removeOutdatedAndTrimSize(
                              addStore(r.skipped, r.staged, now), now),
              !.staged = <<>>]

\* Mutant: the next header key of the new chain is not taken over
acceptNewChain_keepsNHKr(r) ==
    [r EXCEPT !.root_key = r.purported_root_key,
              !.receive_header_key = r.purported_receive_header_key,
              !.their_public_ephemeral = r.their_purported_public_ephemeral,
              !.our_private_ephemeral = ZeroedPrivateKey,
              !.ratchet_flag = TRUE]

\* The purported values of a new chain become the values
acceptNewChain(r) ==
    [r EXCEPT !.root_key = r.purported_root_key,
              !.receive_header_key = r.purported_receive_header_key,
              !.next_receive_header_key = r.purported_next_receive_header_key,
              !.their_public_ephemeral = r.their_purported_public_ephemeral,
              !.our_private_ephemeral = ZeroedPrivateKey,
              !.ratchet_flag = TRUE]

\* Mutant: a rejected message leaves its keys in the staging area
rejectMessage_keepsStaged(r) ==
    [r EXCEPT !.received_valid = TRUE, !.header_decryptable = "NOT_TRIED"]

\* setLastMessageAuthenticity(false)
rejectMessage(r) ==
    [r EXCEPT !.received_valid = TRUE,
              !.header_decryptable = "NOT_TRIED",
              !.staged = <<>>]

\* Mutant: the message number of the last packet is counted down
advanceReceiveChain_back(r, now) ==
    [commitSkippedHeaderAndMessageKeys(r, now) EXCEPT
        !.receive_message_number = r.purported_message_number - 1,
        !.receive_chain_key = r.purported_receive_chain_key]

\* The end of setLastMessageAuthenticity(true): Nr = Np + 1, CKr = CKp
advanceReceiveChain(r, now) ==
    [commitSkippedHeaderAndMessageKeys(r, now) EXCEPT
        !.receive_message_number = successor(r.purported_message_number),
        !.receive_chain_key = r.purported_receive_chain_key]

\* Ratchet::setLastMessageAuthenticity
setLastMessageAuthenticity(r, valid, now) ==
    LET ready == [r EXCEPT !.received_valid = TRUE,
                           !.header_decryptable = "NOT_TRIED"]
    IN  IF ~valid \/ (~isCurrentChain(r) /\ ~isNewChain(r))
        THEN rejectMessage(r)
        ELSE IF isCurrentChain(r)
        THEN advanceReceiveChain(ready, now)
        ELSE advanceReceiveChain(acceptNewChain(ready), now)

-----------------------------------------------------------------------------

\* Ratchet::exportProtobuf refuses a ratchet that lacks a key it must have
canExport(r) ==
    /\ r.root_key # NoKey
    /\ r.next_send_header_key # NoKey
    /\ r.next_receive_header_key # NoKey
    /\ r.role = BOB => r.send_header_key # NoKey /\ r.send_chain_key # NoKey
    /\ r.role = ALICE =>
          r.receive_header_key # NoKey /\ r.receive_chain_key # NoKey

\* Mutant: the backup leaves the skipped keys out
exportAndImport_dropsSkipped(r) ==
    [r EXCEPT !.receive_header_key = reimported(@),
              !.send_chain_key = reimported(@),
              !.receive_chain_key = reimported(@),
              !.skipped = <<>>]

\* Mutant: the backup is from before the last message that was sent
exportAndImport_olderChain(r) ==
    [r EXCEPT !.receive_header_key = reimported(@),
              !.send_chain_key = IF r.send_message_number > 0
                                 THEN [@ EXCEPT !.index = @ - 1] ELSE reimported(@),
              !.send_message_number = IF @ > 0 THEN @ - 1 ELSE 0,
              !.receive_chain_key = reimported(@)]

\* Ratchet::exportProtobuf followed by Ratchet::import: these three keys are
\* written even when they are empty, and come back as zeroes that are not
\* flagged as empty.  The optional ones stay absent, the rest is unchanged.
exportAndImport(r) ==
    [r EXCEPT !.receive_header_key = reimported(@),
              !.send_chain_key = reimported(@),
              !.receive_chain_key = reimported(@)]
=============================================================================
