-------------------------------- MODULE Keys --------------------------------
(***************************************************************************)
(* A symbolic algebra of the keys that molch derives (lib/key.hpp,         *)
(* lib/key-derivation.cpp, lib/diffie-hellman.cpp).  A key is named by     *)
(* what it was derived from, so that two derivations give the same key     *)
(* exactly when they start from the same secrets in the same order: the    *)
(* hash functions are taken to be free of collisions, and a key is known   *)
(* only to who can derive it.                                              *)
(*                                                                         *)
(* A key pair is named by a pair <<party, draw>>; the name stands for the  *)
(* public and for the private half.                                        *)
(***************************************************************************)
EXTENDS Integers, Sequences, FiniteSets

ALICE == TRUE   \* Ratchet::Role is a bool
BOB == FALSE

\* A private key that was overwritten: PrivateKey::zero()
ZeroedPrivateKey == <<0, 0>>

(***************************************************************************)
(* An EmptyableKey is a value and a flag.  NoKey is an empty key; ZeroKey  *)
(* is 32 zero bytes in a key that is not flagged as empty, which is what   *)
(* an empty key becomes when it is written to a backup and read again.     *)
(* Every other key is its kind, the Diffie Hellman results that went into  *)
(* it (transcript), and an index.                                          *)
(***************************************************************************)
NoKey == [kind |-> "none", transcript |-> <<>>, index |-> 0]
ZeroKey == [kind |-> "zero", transcript |-> <<>>, index |-> 0]

RootKey(t) == [kind |-> "root", transcript |-> t, index |-> 0]
HeaderKey(t, i) == [kind |-> "header", transcript |-> t, index |-> i]
ChainKey(t) == [kind |-> "chain", transcript |-> t, index |-> 0]

\* EmptyableKey::isNone
isNone(key) == key \in {NoKey, ZeroKey}

\* EmptyableChainKey::deriveMessageKey
deriveMessageKey(chain_key) == [chain_key EXCEPT !.kind = "message"]

\* EmptyableChainKey::deriveChainKey
deriveChainKey(chain_key) == [chain_key EXCEPT !.index = @ + 1]

\* exportProtobuf and fromSpan of a key that is always written to a backup:
\* fromSpan clears the empty flag
reimported(key) == IF key = NoKey THEN ZeroKey ELSE key

-----------------------------------------------------------------------------

\* Mutant: each side hashes its own public key first
diffie_hellman_unordered(our_private, our_public, their_public, role) ==
    [secret |-> {our_private, their_public},
     alice |-> our_public,
     bob |-> their_public]

\* diffie_hellman: the shared secret, hashed with both public keys, Alice's first
diffie_hellman(our_private, our_public, their_public, role) ==
    [secret |-> {our_private, their_public},
     alice |-> IF role = ALICE THEN our_public ELSE their_public,
     bob |-> IF role = ALICE THEN their_public ELSE our_public]

\* triple_diffie_hellman: DH(A, B0), DH(A0, B), DH(A0, B0), in this order
triple_diffie_hellman(our_identity, our_ephemeral, their_identity, their_ephemeral, role) ==
    LET identity == diffie_hellman(our_identity, our_identity,
                                   their_ephemeral, role)
        ephemeral == diffie_hellman(our_ephemeral, our_ephemeral,
                                    their_identity, role)
    IN  <<IF role = ALICE THEN identity ELSE ephemeral,
          IF role = ALICE THEN ephemeral ELSE identity,
          diffie_hellman(our_ephemeral, our_ephemeral, their_ephemeral, role)>>

\* derive_root_next_header_and_chain_keys
derive_root_next_header_and_chain_keys(our_private, our_public, their_public, previous_root_key, role) ==
    LET t == Append(previous_root_key.transcript,
                    diffie_hellman(our_private, our_public, their_public, role))
    IN  [root_key |-> RootKey(t),
         next_header_key |-> HeaderKey(t, 1),
         chain_key |-> ChainKey(t)]

\* Mutant: Alice gets the keys to send with, Bob those to receive with, as
\* though Bob were to start the first new chain
derive_initial_root_chain_and_header_keys_swapped(our_identity, our_ephemeral, their_identity, their_ephemeral, role) ==
    LET t == <<triple_diffie_hellman(our_identity, our_ephemeral,
                                     their_identity, their_ephemeral, role)>>
        alice == role = ALICE
    IN  [root_key |-> RootKey(t),
         send_header_key |-> IF alice THEN HeaderKey(t, 1) ELSE NoKey,
         receive_header_key |-> IF alice THEN NoKey ELSE HeaderKey(t, 1),
         next_send_header_key |-> HeaderKey(t, IF alice THEN 2 ELSE 3),
         next_receive_header_key |-> HeaderKey(t, IF alice THEN 3 ELSE 2),
         send_chain_key |-> IF alice THEN ChainKey(t) ELSE NoKey,
         receive_chain_key |-> IF alice THEN NoKey ELSE ChainKey(t)]

\* derive_initial_root_chain_and_header_keys: what Alice receives with, Bob
\* sends with.  Alice has no send keys and Bob has no receive keys yet.
derive_initial_root_chain_and_header_keys(our_identity, our_ephemeral, their_identity, their_ephemeral, role) ==
    LET t == <<triple_diffie_hellman(our_identity, our_ephemeral,
                                     their_identity, their_ephemeral, role)>>
        alice == role = ALICE
    IN  [root_key |-> RootKey(t),
         send_header_key |-> IF alice THEN NoKey ELSE HeaderKey(t, 1),
         receive_header_key |-> IF alice THEN HeaderKey(t, 1) ELSE NoKey,
         next_send_header_key |-> HeaderKey(t, IF alice THEN 2 ELSE 3),
         next_receive_header_key |-> HeaderKey(t, IF alice THEN 3 ELSE 2),
         send_chain_key |-> IF alice THEN NoKey ELSE ChainKey(t),
         receive_chain_key |-> IF alice THEN ChainKey(t) ELSE NoKey]
=============================================================================
