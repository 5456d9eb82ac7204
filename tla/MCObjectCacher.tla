--------------------------- MODULE MCObjectCacher ---------------------------
(* Scenarios for ObjectCacher. *)
EXTENDS ObjectCacher

C(kind, off, len) == [kind |-> kind, off |-> off, len |-> len]

Calm(calls) == [calls |-> calls, present |-> TRUE, max_size |-> 9, max_dirty |-> 9, target_dirty |-> 9,
                read_error |-> 0, write_error |-> 0, full |-> 0, discard |-> 0, release |-> 0]

Mixes == {
    \* a write into buffers that are being read; an object that is not there
    Calm(<<C("read", 0, 3), C("write", 1, 1), C("read", 1, 2), C("flush", 0, 1)>>),
    [Calm(<<C("read", 0, 3), C("write", 1, 1), C("flush", 0, 1), C("read", 0, 2), C("read", 2, 1)>>)
        EXCEPT !.present = FALSE, !.release = 1],
    \* overwriting what is being written back; a write that fails
    [Calm(<<C("write", 0, 2), C("write", 1, 1), C("range", 1, 1), C("flush", 0, 1), C("read", 0, 3)>>)
        EXCEPT !.write_error = 1],
    \* reads that fail and are tried again
    [Calm(<<C("read", 0, 3), C("write", 0, 1), C("read", 0, 3), C("read", 2, 1)>>)
        EXCEPT !.read_error = 1, !.release = 1],
    \* too much dirty data; write-through
    [Calm(<<C("write", 0, 2), C("write", 1, 2), C("write", 0, 1), C("read", 0, 3), C("flush", 0, 1)>>)
        EXCEPT !.max_dirty = 2, !.target_dirty = 1],
    [Calm(<<C("read", 0, 2), C("read", 2, 1), C("write", 0, 2), C("range", 1, 1), C("write", 1, 2)>>)
        EXCEPT !.max_size = 2, !.release = 1, !.write_error = 1, !.max_dirty = 0],
    \* a cache smaller than the object: reads queue up, and clean data is trimmed
    [Calm(<<C("read", 0, 2), C("write", 0, 2), C("write", 2, 1), C("read", 2, 1), C("read", 0, 2)>>)
        EXCEPT !.max_size = 2, !.present = FALSE],
    [Calm(<<C("read", 0, 2), C("read", 2, 1), C("write", 0, 2), C("read", 1, 1)>>)
        EXCEPT !.max_size = 2, !.release = 1, !.read_error = 1],
    \* the cluster fills up; the file is truncated
    [Calm(<<C("read", 0, 1), C("write", 0, 2), C("flush", 0, 1), C("write", 1, 1), C("read", 0, 3)>>)
        EXCEPT !.full = 1, !.present = FALSE],
    [Calm(<<C("write", 0, 2), C("write", 1, 2), C("read", 0, 3)>>)
        EXCEPT !.full = 1, !.max_dirty = 2, !.target_dirty = 1, !.present = FALSE],
    [Calm(<<C("write", 0, 2), C("write", 1, 1), C("flush", 0, 3), C("read", 0, 3)>>) EXCEPT !.discard = 1]
}
=============================================================================
