----------------------------- MODULE MCObjecter -----------------------------
(* Up to three operations on one object that two OSDs can be primary for.   *)
EXTENDS Objecter, TLC

Calm(kinds) ==
    [kinds |-> kinds, fail |-> 0, reset |-> 0, pause |-> 0, full |-> 0, remove |-> 0, again |-> 0,
     error |-> 0, redirect |-> 0, jump |-> 0, barrier |-> 0]

(* Every way to be sent again, alone and two at a time. *)
Mixes ==
    {[Calm(<<"write", "sync">>) EXCEPT !.fail = 1],
     [Calm(<<"write", "write">>) EXCEPT !.fail = 1, !.reset = 1],
     [Calm(<<"write", "write">>) EXCEPT !.fail = 1, !.jump = 1],
     [Calm(<<"write", "read">>) EXCEPT !.fail = 1, !.redirect = 1],
     [Calm(<<"write", "read">>) EXCEPT !.fail = 1, !.barrier = 1],
     [Calm(<<"write">>) EXCEPT !.fail = 1, !.pause = 1],
     [Calm(<<"write", "sync", "write">>) EXCEPT !.reset = 2],
     [Calm(<<"write", "sync", "write">>) EXCEPT !.full = 1],
     [Calm(<<"write", "write">>) EXCEPT !.full = 2, !.reset = 1],
     [Calm(<<"write", "read", "write">>) EXCEPT !.pause = 1, !.barrier = 1],
     [Calm(<<"write", "read", "sync">>) EXCEPT !.remove = 1],
     [Calm(<<"write", "read">>) EXCEPT !.again = 1, !.redirect = 1],
     [Calm(<<"write", "sync", "read">>) EXCEPT !.error = 1]}
=============================================================================
