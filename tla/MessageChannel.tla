--------------------------- MODULE MessageChannel ---------------------------
(***************************************************************************)
(* What two netports connected by a socket promise to the layer above      *)
(* (src/bas/netport.h:3-12), and nothing of how they keep the promise: the *)
(* messages sent at one end reach the other whole, once each, in order.    *)
(***************************************************************************)
EXTENDS Naturals, Sequences

CONSTANTS
  Ends,       \* the two ends
  Peer(_),    \* the other end
  Messages    \* what can be sent

VARIABLES
  sent,       \* sent[e]      : the messages accepted at e
  delivered,  \* delivered[e] : those given to the receive callback at e
  broken      \* whether an end was closed or the connection was lost

vars == <<sent, delivered, broken>>

Init ==
  /\ sent = [e \in Ends |-> <<>>]
  /\ delivered = [e \in Ends |-> <<>>]
  /\ broken = FALSE

Send(e) ==
  /\ \E m \in Messages : sent' = [sent EXCEPT ![e] = Append(@, m)]
  /\ UNCHANGED <<delivered, broken>>

\* The next message of the other end comes in at e.
Deliver(e) ==
  /\ Len(delivered[e]) < Len(sent[Peer(e)])
  /\ delivered' = [delivered EXCEPT ![e] = Append(@, sent[Peer(e)][Len(@) + 1])]
  /\ UNCHANGED <<sent, broken>>

Break == broken' = TRUE /\ UNCHANGED <<sent, delivered>>

Next == Break \/ \E e \in Ends : Send(e) \/ Deliver(e)

Spec == Init /\ [][Next]_vars

\* While the connection holds, what was sent arrives.
FairSpec == Spec /\ \A e \in Ends : WF_vars(Deliver(e) /\ ~broken)
=============================================================================
