---------------------------- MODULE MCClientCaps ----------------------------
(* One file, two ranks; each scenario mixes some users with one trouble.    *)
EXTENDS ClientCaps, TLC

CONSTANTS a, b

Ranks == {a, b}

(* What the MDS's locks hand out: exclusive, mixed, shared and locked. *)
LockCaps == {Bits, {"Fr", "Fw"}, {"Fr", "Fc"}, {"Fc", "Fb", "Ax"}, {}}

Calm ==
    [write |-> 0, read |-> 0, chmod |-> 0, close |-> 0, open |-> 0, fsync |-> 0, sync |-> 0,
     issue |-> 0, crash |-> 0, deny |-> 0, migrate |-> 0]

Mixes ==
    {[Calm EXCEPT !.write = 2, !.issue = 1],
     [Calm EXCEPT !.read = 1, !.issue = 2],
     [Calm EXCEPT !.write = 1, !.read = 1, !.issue = 1],
     [Calm EXCEPT !.write = 1, !.issue = 1, !.crash = 1],
     [Calm EXCEPT !.chmod = 1, !.close = 1, !.open = 1, !.issue = 1, !.crash = 1],
     [Calm EXCEPT !.write = 1, !.sync = 1, !.close = 1, !.issue = 1],
     [Calm EXCEPT !.write = 1, !.issue = 1, !.migrate = 1],
     [Calm EXCEPT !.chmod = 1, !.close = 1, !.issue = 1, !.migrate = 1],
     [Calm EXCEPT !.chmod = 2, !.sync = 1, !.crash = 1],
     [Calm EXCEPT !.write = 1, !.sync = 1, !.crash = 1, !.deny = 1],
     [Calm EXCEPT !.write = 1, !.chmod = 1, !.fsync = 1, !.crash = 1]}

(* The smallest instance of fsync() after a change of the mode. *)
ChmodThenFsync == {[Calm EXCEPT !.chmod = 1, !.fsync = 1, !.close = 1]}
=============================================================================
