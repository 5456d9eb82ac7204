------------------------------- MODULE MCPipe -------------------------------
(***************************************************************************)
(* TLC instances of Pipe: the pairs of policies the client meets (Messenger *)
(* policies set in Client, MonClient and Objecter), and the peers that     *)
(* connect to each other.                                                  *)
(***************************************************************************)
EXTENDS Pipe, TLC
CONSTANTS c1, s1

Nodes == {c1, s1}
Addrs == (c1 :> 1) @@ (s1 :> 2)
Client == [lossy |-> FALSE, server |-> FALSE, standby |-> FALSE, resetcheck |-> TRUE]
StatefulServer == [lossy |-> FALSE, server |-> TRUE, standby |-> TRUE, resetcheck |-> TRUE]
StatelessServer == [lossy |-> TRUE, server |-> TRUE, standby |-> FALSE, resetcheck |-> FALSE]
LosslessPeer == [lossy |-> FALSE, server |-> FALSE, standby |-> TRUE, resetcheck |-> FALSE]

Pair(x, y) == (c1 :> x) @@ (s1 :> y)

(* A lossless client and its server; nobody marks the session down. *)
Session ==
    [policy |-> Pair(Client, StatefulServer), starts |-> {0}, fast |-> {},
     sends |-> Pair(1, 2), downs |-> Pair(0, 0), faults |-> 2, retries |-> 6]

FastSession == [Session EXCEPT !.fast = Nodes, !.sends = Pair(2, 1)]

(* One of them marks it down; the first one meets a fault as well. *)
ClientReset ==
    [Session EXCEPT !.starts = {0, 5}, !.sends = Pair(2, 1),
                    !.downs = Pair(1, 0), !.faults = 1]

ServerReset == [ClientReset EXCEPT !.downs = Pair(0, 1), !.faults = 0]

(* A stateless server, whose READY reply makes the connection lossy. *)
Lossy ==
    [Session EXCEPT !.policy = Pair(Client, StatelessServer),
                    !.sends = Pair(2, 1), !.faults = 1]

(* Two peers that connect to each other at the same time. *)
Peers ==
    [Session EXCEPT !.policy = Pair(LosslessPeer, LosslessPeer),
                    !.sends = Pair(1, 1), !.faults = 1, !.retries = 4]

Sessions == {Session, FastSession, ClientReset, ServerReset, Lossy, Peers}
=============================================================================
