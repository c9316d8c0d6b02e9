--------------------------- MODULE DurableLibrary ---------------------------
(***************************************************************************)
(* What the library promises to an application that saves every backup it  *)
(* is given: the application's users and conversations change by its own   *)
(* calls only.  There are no crashes here: one that the application        *)
(* recovers from cannot be told from nothing having happened.  The one     *)
(* exception is a backup key that was replaced by a call that failed and   *)
(* did not return it; after that, something may be lost.                   *)
(***************************************************************************)
EXTENDS Naturals, Functions

VARIABLES
    state,      \* user -> its conversations -> number of messages
    key_lost    \* a backup key was drawn that the application does not know

None == [x \in {} |-> 0]

Init ==
    /\ state = None
    /\ key_lost = FALSE

\* A call that creates a user or, with its first message, a conversation
Create ==
    \/ \E u \in DOMAIN state' \ DOMAIN state :
          state' = [v \in DOMAIN state \union {u} |->
                        IF v = u THEN None ELSE state[v]]
    \/ \E u \in DOMAIN state \cap DOMAIN state' :
          \E id \in DOMAIN state'[u] \ DOMAIN state[u] :
             state' = [state EXCEPT ![u] =
                [x \in DOMAIN state[u] \union {id} |->
                    IF x = id THEN 1 ELSE state[u][x]]]

\* A call that sends or receives one message
Advance ==
    \E u \in DOMAIN state : \E id \in DOMAIN state[u] :
        state' = [state EXCEPT ![u][id] = @ + 1]

\* A call that ends a conversation or destroys a user
Destroy ==
    \/ \E u \in DOMAIN state : state' = Restrict(state, DOMAIN state \ {u})
    \/ \E u \in DOMAIN state : \E id \in DOMAIN state[u] :
          state' = [state EXCEPT ![u] = Restrict(@, DOMAIN @ \ {id})]

LoseKey ==
    /\ key_lost' = TRUE
    /\ UNCHANGED state

\* What a restart without the key can do
LoseState ==
    /\ key_lost
    /\ UNCHANGED key_lost

Call ==
    /\ state' # state
    /\ UNCHANGED key_lost
    /\ Create \/ Advance \/ Destroy

Next == LoseState \/ LoseKey \/ Call

Spec == Init /\ [][Next]_<<state, key_lost>>
=============================================================================
