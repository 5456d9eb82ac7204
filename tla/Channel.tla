------------------------------- MODULE Channel -------------------------------
(***************************************************************************)
(* What "ordered+reliable delivery" (msg/Dispatcher.h) means to the users  *)
(* of a lossless Connection: the k-th message that a dispatcher is given   *)
(* is the k-th message that was submitted at the other end, and every      *)
(* submitted message is given to it in the end, up to a reset that the     *)
(* sender is told of.                                                      *)
(***************************************************************************)
EXTENDS Naturals, Sequences

CONSTANTS
    Node,
    Resettable      \* the nodes whose session may be reset under them

VARIABLES
    Submitted,      \* Submitted[n]: how many messages n has sent
    Delivered       \* Delivered[n]: their numbers, as dispatched at the peer

vars == <<Submitted, Delivered>>

Init ==
    /\ Submitted = [n \in Node |-> 0]
    /\ Delivered = [n \in Node |-> <<>>]

Submit(n) ==
    /\ Submitted' = [Submitted EXCEPT ![n] = @ + 1]
    /\ UNCHANGED Delivered

Deliver(n) ==
    /\ Len(Delivered[n]) < Submitted[n]
    /\ Delivered' = [Delivered EXCEPT ![n] = Append(@, Len(@) + 1)]
    /\ UNCHANGED Submitted

(* ms_handle_remote_reset: what n had sent may be gone. *)
Reset(n) ==
    /\ n \in Resettable
    /\ Submitted' = [Submitted EXCEPT ![n] = 0]
    /\ Delivered' = [Delivered EXCEPT ![n] = <<>>]

Next == \E n \in Node : Submit(n) \/ Deliver(n) \/ Reset(n)

FairSpec ==
    /\ Init /\ [][Next]_vars
    /\ \A n \in Node : WF_vars(Deliver(n))
=============================================================================
