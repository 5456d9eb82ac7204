-------------------------- MODULE MCClientRequests --------------------------
(* Two callers and two ranks; each scenario is one kind of trouble.         *)
EXTENDS ClientRequests, TLC

CONSTANTS q1, q2, a, b

Reqs == {q1, q2}
Ranks == {a, b}
AllOnA == [q \in Reqs |-> a]
NoTargets == [r \in Ranks |-> {}]
AToB == [NoTargets EXCEPT ![a] = {b}]

Calm ==
    [crash |-> 0, fragile |-> {a}, late |-> 0, evict |-> 0, estale |-> 0, abort |-> 0,
     strays |-> FALSE, unmounts |-> FALSE, targets |-> NoTargets]

Troubles ==
    {[Calm EXCEPT !.crash = 1, !.strays = TRUE],
     [Calm EXCEPT !.crash = 1, !.late = 1, !.unmounts = TRUE],
     [Calm EXCEPT !.targets = AToB, !.unmounts = TRUE],
     [Calm EXCEPT !.evict = 1, !.unmounts = TRUE],
     [Calm EXCEPT !.estale = 1, !.strays = TRUE],
     [Calm EXCEPT !.abort = 1, !.unmounts = TRUE]}
=============================================================================
