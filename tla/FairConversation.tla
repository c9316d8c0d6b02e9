-------------------------- MODULE FairConversation --------------------------
(***************************************************************************)
(* A conversation over a network that does not give up.                    *)
(***************************************************************************)
EXTENDS Conversation

VARIABLE
    deliverable     \* party -> the missing packets it could decrypt, see below

\* The missing packets that party p, with the ratchet r, would decrypt if they
\* arrived now, intact
Deliverable(p, r, packets, decrypted, now) ==
    {packet \in packets :
        /\ packet.from = Peer(p)
        /\ ~BagIn(packet, decrypted)
        /\ r # NoConversation \/ packet.prekey_metadata # NoPrekeyMetadata
        /\ receivePacket(receivingRatchet(p, r, packet), packet, "none", now).ok}

FairInit ==
    /\ Init
    /\ deliverable = [p \in Parties |->
                         Deliverable(p, ratchet[p], sent, received, clock)]

FairNext ==
    /\ Next
    /\ deliverable' = [p \in Parties |->
                          Deliverable(p, ratchet'[p], sent', received', clock')]

\* Party p has received such a packet: the part of createReceiveConversation and
\* of decryptMessage that fairness is about.  Whenever "deliverable" is not empty
\* one of them can take this step.
Delivered(p) ==
    \E packet \in deliverable[p] : received' = received (+) SetToBag({packet})

\* The network delivers, sooner or later and intact, some packet that is missing,
\* unless time and again there is none that its receiver can decrypt.  Nothing
\* is assumed of what the parties send, of damage, repetition and restarts.
FairSpec ==
    /\ FairInit
    /\ [][FairNext]_<<vars, deliverable>>
    /\ \A p \in Parties : WF_received(Delivered(p))

\* If the network keeps delivering, every packet is received in the end: no
\* order of arrival, replay, damage or restart makes one undecryptable.
EverythingArrives == <>[](\A packet \in sent : BagIn(packet, received))
=============================================================================
