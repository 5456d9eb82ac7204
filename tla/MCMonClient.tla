---------------------------- MODULE MCMonClient -----------------------------
(* Two monitors, of which one leaves; operations that ask for the newest    *)
(* OSD map.                                                                 *)
EXTENDS MonClient, TLC

CONSTANTS a, b

Mons == {a, b}
Maps == <<{a, b}, {b}>>

Calm == [slow |-> 0, lapse |-> 0, forget |-> 0, expire |-> 0, osd |-> 0, timeout |-> 0, version |-> 0,
         wait |-> 0, statfs |-> 0, shutdown |-> 0, deny |-> 0, break |-> 0, stop |-> 0,
         monmap |-> 0, osdmap |-> 0, mdsmap |-> 0]

(* Each way to lose a session or an answer, alone and two at a time, against *)
(* the calls that depend on it.                                             *)
Mixes ==
    {[Calm EXCEPT !.slow = 2, !.break = 1],
     [Calm EXCEPT !.slow = 1, !.version = 1, !.osdmap = 1],
     [Calm EXCEPT !.break = 1, !.version = 1],
     [Calm EXCEPT !.stop = 1, !.mdsmap = 1],
     [Calm EXCEPT !.monmap = 1, !.break = 1],
     [Calm EXCEPT !.monmap = 1, !.version = 1],
     [Calm EXCEPT !.lapse = 1, !.forget = 1, !.mdsmap = 1],
     [Calm EXCEPT !.wait = 1, !.osdmap = 1, !.osd = 1],
     [Calm EXCEPT !.wait = 1, !.osdmap = 1, !.break = 1],
     [Calm EXCEPT !.statfs = 1, !.break = 1, !.slow = 1],
     [Calm EXCEPT !.statfs = 1, !.shutdown = 1],
     [Calm EXCEPT !.expire = 1, !.break = 1],
     [Calm EXCEPT !.deny = 1, !.break = 1],
     [Calm EXCEPT !.timeout = 1, !.slow = 1],
     [Calm EXCEPT !.shutdown = 1, !.version = 1],
     [Calm EXCEPT !.shutdown = 1, !.break = 1]}
=============================================================================
