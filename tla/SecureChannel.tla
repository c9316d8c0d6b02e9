--------------------------- MODULE SecureChannel ---------------------------
(***************************************************************************)
(* What a conversation promises to the application above it: whatever the  *)
(* network does, a message is handed to the receiving application at most  *)
(* once, and only if its peer sent it.                                     *)
(***************************************************************************)
EXTENDS Bags

VARIABLES
    sent,       \* the set of messages that were sent
    received    \* the bag of messages handed to their receivers

Init ==
    /\ sent = {}
    /\ received = EmptyBag

Send(m) ==
    /\ m \notin sent
    /\ sent' = sent \union {m}
    /\ UNCHANGED received

Receive(m) ==
    /\ m \in sent
    /\ ~BagIn(m, received)
    /\ received' = received (+) SetToBag({m})
    /\ UNCHANGED sent

Next ==
    \/ \E m \in sent' \ sent : Send(m)
    \/ \E m \in sent : Receive(m)

Spec == Init /\ [][Next]_<<sent, received>>
=============================================================================
