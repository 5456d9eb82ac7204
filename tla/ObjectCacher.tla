---------------------------- MODULE ObjectCacher ----------------------------
(***************************************************************************)
(* osdc/ObjectCacher: the client's cache of one object of a file.  Readers *)
(* and writers share buffer heads that are split, merged, read in, written *)
(* back and dropped; the OSD answers requests in the order it gets them,   *)
(* commits writes later, and the finisher thread runs the completions.     *)
(*                                                                         *)
(* Everything runs under the Client's client_lock, which a thread releases *)
(* only to wait; a step is what happens between two waits.  Operators take *)
(* the state of the cache and return the next one, or, where the LRU       *)
(* decides, the set of the possible next ones.                             *)
(*                                                                         *)
(* A byte's value is the number of the write it comes from (0: a hole,     *)
(* negative: what was there at first), so that a newer value is a larger   *)
(* one.  Statistics, the LRUs' order, dontneed hints, snapshots and what   *)
(* only librbd asks for (return_enoent, copy on write) are left out.       *)
(***************************************************************************)
EXTENDS Integers, Sequences, FiniteSets, FiniteSetsExt, SequencesExt

CONSTANTS
    Size,           \* bytes of the object: 0 .. Size - 1
    MaxCalls,       \* threads, one call each
    Scenarios       \* the calls, the sizes of the cache, and what goes wrong

Byte == 0 .. Size - 1

Kinds == {"read", "write", "flush", "range"}

(* A scenario: calls, one thread each: [kind, off, len]; present: whether   *)
(* the object exists at first; max_size, max_dirty and target_dirty, in     *)
(* bytes; and how often what goes wrong may still happen: read_error,       *)
(* write_error, full, discard, release.                                     *)
ASSUME SizeAssumption == Size \in Nat \ {0} /\ MaxCalls \in Nat
ASSUME ScenariosAssumption ==
    \A s \in Scenarios :
        /\ Len(s.calls) <= MaxCalls
        /\ \A i \in DOMAIN s.calls : /\ s.calls[i].kind \in Kinds
                                     /\ s.calls[i].off + s.calls[i].len <= Size
                                     /\ s.calls[i].kind = "read" => s.calls[i].len <= s.max_size
        /\ {s.max_size, s.max_dirty, s.target_dirty} \cup
              {s[b] : b \in {"read_error", "write_error", "full", "discard", "release"}} \subseteq Nat

VARIABLES
    budget,         \* what may still go wrong
    c,              \* the cache and its threads
    osd,            \* the OSD (external)
    fin             \* the finisher's queue of completions

vars == <<budget, c, osd, fin>>

Thread == 1 .. Len(budget.calls)
call(t) == budget.calls[t]
Extent(t) == call(t).off .. call(t).off + call(t).len - 1
Spend(what) == budget[what] > 0 /\ budget' = [budget EXCEPT ![what] = @ - 1]

Fail(y, why) == [y EXCEPT !.failed = @ \cup {why}]

-----------------------------------------------------------------------------
(* Buffer heads: y.data maps the start of each to the rest of it.           *)

End(d, s) == s + d[s].len
Drop(d, S) == [s \in DOMAIN d \ S |-> d[s]]
Add(d, s, bh) == [q \in DOMAIN d \cup {s} |-> IF q = s THEN bh ELSE d[q]]
Over(d, off, end) == {s \in DOMAIN d : s < end /\ End(d, s) > off}
InState(d, states) == {s \in DOMAIN d : d[s].state \in states}
Stat(d, states) == MapThenSumSet(LAMBDA s : d[s].len, InState(d, states))
dirty_or_tx(y) == Stat(y.data, {"dirty", "tx"})

BufferHead(len) == [len |-> len, state |-> "missing", wtid |-> 0, rtid |-> 0, bl |-> <<>>, wait |-> {}]

(* bh_stat_add() wakes the writers that wait for room: y.signal. *)
mark(y, s, state) == [y EXCEPT !.data[s].state = state, !.signal = TRUE]

Cut(bl, m, n) == IF bl = <<>> THEN bl ELSE SubSeq(bl, m, n)

split(y, at) ==
    LET cut(z, s) ==
            LET bh == z.data[s]
                n == at - s
                left == [bh EXCEPT !.len = n, !.bl = Cut(@, 1, n), !.wait = {w \in @ : w.at < at}]
                right == [bh EXCEPT !.len = @ - n, !.bl = Cut(@, n + 1, bh.len),
                                    !.wait = {w \in @ : w.at >= at}]
            IN  [z EXCEPT !.data = Add(Add(@, s, left), at, right), !.signal = TRUE]
    IN  FoldSet(LAMBDA s, z : cut(z, s), y, {s \in DOMAIN y.data : s < at /\ at < End(y.data, s)})

merge_left(y, l, r) ==
    LET a == y.data[l]
        b == y.data[r]
        ab == [a EXCEPT !.len = @ + b.len, !.bl = @ \o b.bl, !.wait = @ \cup b.wait,
                        !.wtid = Max({@, b.wtid})]
    IN  [y EXCEPT !.data = Add(Drop(@, {r}), l, ab), !.signal = TRUE]

(* With the neighbours that are in the same state. *)
try_merge_bh(y, s) ==
    LET same(z, l, r) == z.data[l].state = z.data[r].state /\ End(z.data, l) = r
        lefts == {l \in DOMAIN y.data : l < s /\ same(y, l, s)}
        z == IF lefts = {} THEN y ELSE merge_left(y, Max(lefts), s)
        m == IF lefts = {} THEN s ELSE Max(lefts)
        r == End(z.data, m)
    IN  IF y.data[s].state = "rx" THEN y
        ELSE IF r \in DOMAIN z.data /\ same(z, m, r) THEN merge_left(z, m, r) ELSE z

bh_read(y, s) ==
    LET tid == y.last_read_tid + 1
        m == [kind |-> "read", tid |-> tid, off |-> s, len |-> y.data[s].len,
              bl |-> <<>>, rc |-> "ok", live |-> TRUE]
    IN  [mark(y, s, "rx") EXCEPT !.data[s].rtid = tid, !.last_read_tid = tid, !.net = Append(@, m)]

bh_write_unpinned(y, s) ==
    LET tid == y.last_tid + 1
        m == [kind |-> "write", tid |-> tid, off |-> s, len |-> y.data[s].len,
              bl |-> y.data[s].bl, rc |-> "ok", live |-> TRUE]
    IN  [mark(y, s, "tx") EXCEPT !.data[s].wtid = tid, !.last_write_tid = tid, !.last_tid = tid,
                                 !.net = Append(@, m)]

bh_write(y, s) ==
    LET tid == y.last_tid + 1
        m == [kind |-> "write", tid |-> tid, off |-> s, len |-> y.data[s].len,
              bl |-> y.data[s].bl, rc |-> "ok", live |-> TRUE]
    IN  [mark(y, s, "tx") EXCEPT !.data[s].wtid = tid, !.last_write_tid = tid, !.last_tid = tid,
                                 !.refs = @ + 1, !.net = Append(@, m)]

Sorted(S) == SetToSortSeq(S, <)
WriteBack(y, S) == FoldLeft(bh_write, y, Sorted(S))

(* flush_set_callback(): the Client drops the reference that Client::_write *)
(* took when the first byte became dirty.                                   *)
Flushed(was, y) ==
    IF dirty_or_tx(was) > 0 /\ dirty_or_tx(y) = 0 THEN [y EXCEPT !.buffer_refs = @ - 1] ELSE y

get_object(y) ==
    IF y.open THEN y
    ELSE [y EXCEPT !.open = TRUE, !.complete = FALSE, !.exists = TRUE,
                   !.last_write_tid = 0, !.last_commit_tid = 0]

can_close(y) == DOMAIN y.data = {} /\ y.refs = 0

close_object(y) ==
    IF y.waitfor_commit # {} THEN Fail(y, "waitfor_commit.empty()") ELSE [y EXCEPT !.open = FALSE]

-----------------------------------------------------------------------------
(* Reading.                                                                 *)

(* The least recently used buffers go, in any order, until few enough clean *)
(* bytes are left.                                                          *)
Trimmed(d) ==
    LET many(S) == Stat(Drop(d, S), {"clean"}) > budget.max_size
    IN  {S \in SUBSET InState(d, {"clean", "zero"}) : ~many(S) /\ (S = {} \/ \E s \in S : many(S \ {s}))}

trim_keeping_complete(y) == {[y EXCEPT !.data = Drop(@, S)] : S \in Trimmed(y.data)}

trim(y) == {[y EXCEPT !.data = Drop(@, S), !.complete = @ /\ S = {}] : S \in Trimmed(y.data)}

(* New buffer heads for what the extent lacks: zero when the object is      *)
(* known to hold nothing else.                                              *)
map_read(y, off, end) ==
    LET bare == {b \in off .. end - 1 : Over(y.data, b, b + 1) = {}}
        first == {b \in bare : b - 1 \notin bare}
        bh(b) == [BufferHead(Min({e \in b + 1 .. end : e \notin bare}) - b)
                    EXCEPT !.state = IF y.complete THEN "zero" ELSE "missing"]
    IN  [y EXCEPT !.data = [s \in DOMAIN @ \cup first |-> IF s \in first THEN bh(s) ELSE @[s]],
                  !.signal = @ \/ first # {}]

Value(d, b) ==
    LET s == CHOOSE q \in Over(d, b, b + 1) : TRUE
    IN  IF d[s].state = "zero" THEN 0 ELSE d[s].bl[b - s + 1]

Readable == {"clean", "zero", "dirty", "tx"}

(* The bytes a reader is given that are not what the file holds. *)
Wrong(y, S) == {b \in S \cap y.known : Value(y.data, b) # y.logical[b]}

Await(y, t, s) == [y EXCEPT !.data[s].wait = @ \cup {[at |-> Max({s, call(t).off}), t |-> t]}]

(* A missing buffer is read in, or dropped again when too many reads are    *)
(* under way; the reader waits at the first, or in the cache's own list.    *)
ReadMissing(y, t, s, first) ==
    IF y.waitfor_read # <<>> \/ Stat(y.data, {"rx"}) + y.data[s].len > budget.max_size
    THEN [y EXCEPT !.data = Drop(@, {s}), !.waitfor_read = IF first THEN Append(@, t) ELSE @]
    ELSE IF first THEN Await(bh_read(y, s), t, s) ELSE bh_read(y, s)

_readx(y0, t, external_call) ==
    LET off == call(t).off
        end == off + call(t).len
        y == map_read(get_object(y0), off, end)
        In(states) == Over(y.data, off, end) \cap InState(y.data, states)
        missing == In(IF external_call THEN {"missing", "error"} ELSE {"missing"})
        rx == In({"rx"})
        bad == In({"error"}) # {}
    IN  IF missing # {}
        THEN {[FoldLeft(LAMBDA z, s : ReadMissing(z, t, s, s = Min(missing)), y, Sorted(missing))
                 EXCEPT !.thr[t].state = "reading"]}
        ELSE IF rx # {} THEN {[Await(y, t, Min(rx)) EXCEPT !.thr[t].state = "reading"]}
        ELSE trim([y EXCEPT !.thr[t] = [@ EXCEPT !.state = "done", !.rc = IF bad THEN "error" ELSE "ok",
                                                 !.wrong = IF bad THEN {} ELSE Wrong(y, Extent(t)),
                                                 !.odd = IF bad THEN {} ELSE y.spoiled]])

Retry(Y, ts) == FoldLeft(LAMBDA Z, t : UNION {_readx(z, t, FALSE) : z \in Z}, Y, ts)

retry_waiting_reads(y) ==
    LET next(z, t) == IF z.waitfor_read = <<>> THEN _readx(z, t, FALSE)
                      ELSE {[z EXCEPT !.waitfor_read = Append(@, t)]}
    IN  FoldLeft(LAMBDA Z, t : UNION {next(z, t) : z \in Z}, {[y EXCEPT !.waitfor_read = <<>>]}, y.waitfor_read)

Waiters(y, S) == UNION {y.data[s].wait : s \in S}
InOrder(W) == LET w == SetToSortSeq(W, LAMBDA a, b : a.at < b.at \/ (a.at = b.at /\ a.t < b.t))
              IN  [i \in DOMAIN w |-> w[i].t]
Unwait(y, S) == [y EXCEPT !.data = [s \in DOMAIN @ |-> IF s \in S THEN [@[s] EXCEPT !.wait = {}] ELSE @[s]]]

VisitedIfReading(d, off, end) == Over(d, off, end) \cap InState(d, {"rx"})

(* The buffers a reply for off .. end - 1 visits: those that overlap it,    *)
(* and the next one when it ends in a gap.                                  *)
Visited(d, off, end) ==
    LET later == {s \in DOMAIN d : s >= end}
    IN  Over(d, off, end) \cup IF Over(d, end - 1, end) = {} /\ later # {} THEN {Min(later)} ELSE {}

(* What a buffer gets of the data that was read at r.off: always its head.  *)
Part(r, s, len) == SubSeq(r.bl, 1, len)

(* The object is not there: from now on what is not cached is zero. *)
NotThere(y) ==
    [y EXCEPT !.complete = TRUE, !.exists = FALSE,
              !.data = IF \A s \in DOMAIN @ : @[s].state \in {"zero", "rx"} THEN <<>> ELSE @]

Filled(y, r, s) ==
    LET len == y.data[s].len
        full == [mark(y, s, "clean") EXCEPT !.data[s].bl = Part(r, s, len),
                                            !.spoiled = @ \cup IF s = r.off THEN {} ELSE s .. s + len - 1]
    IN  CASE r.rc = "ENOENT" -> [y EXCEPT !.data = Drop(@, {s})]
          [] r.rc = "error" -> try_merge_bh(mark(y, s, "error"), s)
          [] r.rc = "ok" -> try_merge_bh(full, s)

bh_read_finish(y, r) ==
    LET end == r.off + r.len
        gone == r.rc = "ENOENT" /\ ~y.complete
        all == IF gone THEN DOMAIN y.data ELSE {}
        y1 == IF gone THEN NotThere(Unwait(y, all)) ELSE y
        seen == Visited(y1.data, r.off, end)
        mine == {s \in seen \cap InState(y1.data, {"rx"}) : y1.data[s].rtid = r.tid}
        y2 == FoldLeft(LAMBDA z, s : Filled(z, r, s), Unwait(y1, seen), Sorted(mine))
        ls == InOrder(Waiters(y, all)) \o InOrder(Waiters(y1, seen))
    IN  IF y.open THEN UNION {retry_waiting_reads(z) : z \in Retry({y2}, ls)}
        ELSE retry_waiting_reads(y)

-----------------------------------------------------------------------------
(* Writing, writing back and waiting.                                       *)

map_write(y, off, len) ==
    LET z == split(split(y, off), off + len)
        pieces == Over(z.data, off, off + len)
        bh == [BufferHead(len) EXCEPT !.wait = Waiters(z, pieces),
                                      !.wtid = Max({0} \cup {z.data[s].wtid : s \in pieces})]
    IN  [z EXCEPT !.data = Add(Drop(@, pieces), off, bh)]

Waiting(y, t) == MapThenSumSet(LAMBDA u : call(u).len, {u \in Thread \ {t} : y.thr[u].state = "blocked"})

maybe_wait_for_writeback(y, t) ==
    IF dirty_or_tx(y) > 0 /\ dirty_or_tx(y) >= budget.max_dirty + Waiting(y, t)
    THEN {[y EXCEPT !.thr[t].state = "blocked", !.thr[t].woken = FALSE]}
    ELSE trim([y EXCEPT !.thr[t].state = "done"])

(* What a caller who flushes relies on. *)
Relying(y, t, bytes) == [y EXCEPT !.thr[t].goal = [b \in bytes \cap y.known |-> y.logical[b]]]

(* The flush waits for the last write of the object, whichever bytes that   *)
(* covers.                                                                  *)
WaitForCommit(y, t) ==
    [y EXCEPT !.waitfor_commit = @ \cup {[tid |-> y.last_write_tid, t |-> t]}, !.thr[t].state = "flushing"]

Done(y, t, rc) == [y EXCEPT !.thr[t].state = "done", !.thr[t].rc = rc]

flush_set_of_dirty(y, t) ==
    IF InState(y.data, {"dirty"}) = {} THEN Done(y, t, "ok")
    ELSE WaitForCommit(WriteBack(y, InState(y.data, {"dirty"})), t)

flush_set(y, t) ==
    IF dirty_or_tx(y) = 0 THEN Done(y, t, "ok")
    ELSE WaitForCommit(WriteBack(y, InState(y.data, {"dirty"})), t)

flush_set_extent(y, t) ==
    LET near == {s \in DOMAIN y.data : End(y.data, s) > call(t).off /\ s <= call(t).off + call(t).len}
        busy == near \cap InState(y.data, {"dirty", "tx"})
    IN  IF busy = {} THEN Done(y, t, "ok")
        ELSE WaitForCommit(WriteBack(y, near \cap InState(y.data, {"dirty"})), t)

writex(y0, t) ==
    LET off == call(t).off
        len == call(t).len
        v == y0.clock + 1
        y == [map_write(get_object(y0), off, len)
                EXCEPT !.clock = v,
                       !.logical = [b \in Byte |-> IF b \in Extent(t) THEN v ELSE @[b]],
                       !.known = @ \cup Extent(t), !.spoiled = @ \ Extent(t)]
        z == try_merge_bh(mark([y EXCEPT !.data[off].bl = [i \in 1 .. len |-> v]], off, "dirty"), off)
    IN  IF budget.max_dirty > 0 THEN maybe_wait_for_writeback(z, t) ELSE {flush_set_extent(Relying(z, t, Extent(t)), t)}

Bytes(d, S) == UNION {s .. End(d, s) - 1 : s \in S}

(* Buffers of this write are clean now, or dirty again.  A flush that does  *)
(* not wait for this very write never hears of its error: what the caller   *)
(* relies on loses those bytes.                                             *)
Written(y, w, S) ==
    LET state == IF w.rc = "ok" THEN "clean" ELSE "dirty"
        z == FoldSet(LAMBDA s, q : mark(q, s, state), y, S)
        unheard(t) == w.rc # "ok" /\ [tid |-> w.tid, t |-> t] \notin y.waitfor_commit
        kept(t) == DOMAIN y.thr[t].goal \ IF unheard(t) THEN w.off .. w.off + w.len - 1 ELSE {}
    IN  [z EXCEPT !.thr = [t \in Thread |-> [@[t] EXCEPT !.goal = [b \in kept(t) |-> @[b]]]]]

CommittedByAny(y, w, near) == near

(* Of the buffers near the write, the ones it carried as they are now. *)
Committed(y, w, near) == {s \in near : y.data[s].wtid = w.tid}

bh_write_commit(y, w) ==
    LET end == w.off + w.len
        near == {s \in InState(y.data, {"tx"}) : /\ End(y.data, s) > w.off /\ s <= end
                                                /\ ~(s < w.off /\ End(y.data, s) > end)}
        mine == Committed(y, w, near)
        ls == {q \in y.waitfor_commit : q.tid = w.tid}
        told == {q.t : q \in ls}
        state(t) == IF call(t).kind = "write" THEN "written" ELSE "done"
        z == [Written(y, w, mine) EXCEPT
                !.exists = TRUE, !.last_commit_tid = w.tid, !.refs = @ - 1,
                !.waitfor_commit = @ \ ls,
                !.thr = [t \in Thread |-> IF t \in told THEN [@[t] EXCEPT !.state = state(t), !.rc = w.rc]
                                         ELSE @[t]]]
    IN  CASE ~y.open -> y
          [] y.open /\ \E s \in near : y.data[s].wtid < w.tid -> Fail(y, "bh->last_write_tid > tid")
          [] y.open /\ y.last_commit_tid >= w.tid -> Fail(y, "ob->last_commit_tid < tid")
          [] OTHER -> Flushed(y, z)

(* Buffers S leave the cache with what they hold.  bh_remove() does not     *)
(* signal stat_cond: a writer that waits for room is not told.              *)
Removed(y, S) ==
    IF Waiters(y, S) # {} THEN Fail(y, "bh->waitfor_read.empty()")
    ELSE [y EXCEPT !.data = Drop(@, S),
                   !.known = @ \ Bytes(y.data, S \cap InState(y.data, {"dirty", "tx"})),
                   !.stuck = @ \cup IF InState(y.data, {"dirty", "tx"}) \cap S = {} THEN {}
                                    ELSE {t \in Thread : y.thr[t].state = "blocked" /\ ~y.thr[t].woken}]

purge_set_silently(y) == IF ~y.open THEN y ELSE Removed(y, DOMAIN y.data)

(* truncate(0) leaves `complete' as it is. *)
purge_set(y) ==
    IF ~y.open THEN y
    ELSE Flushed(y, Removed([y EXCEPT !.spoiled = @ \cup IF y.complete THEN Byte ELSE {}], DOMAIN y.data))

discard(y, off) ==
    LET z == [split(y, off) EXCEPT !.exists = TRUE, !.complete = FALSE]
    IN  Removed(z, {s \in DOMAIN z.data : s >= off})

discard_set(y, off) == IF y.open THEN Flushed(y, discard(y, off)) ELSE y

release(y) ==
    LET z == [y EXCEPT !.data = Drop(@, InState(@, {"clean", "zero"}))]
    IN  IF can_close(z) THEN close_object(z) ELSE [z EXCEPT !.complete = FALSE, !.exists = TRUE]

release_set(y) == IF y.open THEN release(y) ELSE y

-----------------------------------------------------------------------------
(* The steps.                                                               *)

(* What the step sent goes out; the writers that waited before it, and that *)
(* it signalled, are woken.                                                 *)
Take(y) ==
    /\ c.failed = {}
    /\ c' = [y EXCEPT
                !.net = <<>>, !.signal = FALSE,
                !.thr = [t \in Thread |->
                           IF y.signal /\ c.thr[t].state = "blocked" /\ @[t].state = "blocked"
                           THEN [@[t] EXCEPT !.woken = TRUE] ELSE @[t]],
                !.stuck = IF y.signal THEN {} ELSE @]
    /\ osd' = [osd EXCEPT !.net = @ \o y.net]

(* Client::_read. *)
Read(t) ==
    /\ c.thr[t].state = "new" /\ call(t).kind = "read"
    /\ \E y \in _readx(c, t, TRUE) : Take(y)
    /\ UNCHANGED <<budget, fin>>

(* Client::_write: refused while the cluster is full, unless the flag was   *)
(* looked at before it went up.                                             *)
Write(t) ==
    LET y == [c EXCEPT !.buffer_refs = IF dirty_or_tx(c) = 0 THEN @ + 1 ELSE @]
    IN  /\ c.thr[t].state = "new" /\ call(t).kind = "write"
        /\ \/ \E z \in writex(y, t) : Take(z)
           \/ c.full # "no" /\ Take(Done(c, t, "ENOSPC"))
        /\ UNCHANGED <<budget, fin>>

(* Client::_flush. *)
_flush(y, t) ==
    IF dirty_or_tx(y) = 0 THEN Done(y, t, "ok")
    ELSE IF y.full # "no" THEN Done(purge_set(y), t, "ENOSPC")
    ELSE flush_set(y, t)

Flush(t) ==
    /\ c.thr[t].state = "new" /\ call(t).kind = "flush"
    /\ Take(_flush(Relying(c, t, Byte), t))
    /\ UNCHANGED <<budget, fin>>

(* Client::_flush_range. *)
FlushRange(t) ==
    /\ c.thr[t].state = "new" /\ call(t).kind = "range"
    /\ LET y == Relying(c, t, Extent(t))
       IN  Take(IF dirty_or_tx(c) = 0 THEN Done(y, t, "ok") ELSE flush_set_extent(y, t))
    /\ UNCHANGED <<budget, fin>>

(* A writer that waited for room, or for its write-through. *)
Resume(t) ==
    /\ \/ /\ c.thr[t].state = "blocked" /\ c.thr[t].woken
          /\ \E y \in maybe_wait_for_writeback(c, t) : Take(y)
       \/ /\ c.thr[t].state = "written"
          /\ \E y \in trim([c EXCEPT !.thr[t].state = "done"]) : Take(y)
    /\ UNCHANGED <<budget, fin>>

(* What one pass of the flusher may write back: the oldest buffers until    *)
(* the excess is covered, or, with no excess, buffers that are old.         *)
FlusherChoice(y) ==
    LET dirty == InState(y.data, {"dirty"})
        excess == Stat(y.data, {"dirty"}) + Waiting(y, 0) - budget.target_dirty
        sum(S) == MapThenSumSet(LAMBDA s : y.data[s].len, S)
        enough(S) == S = dirty \/ sum(S) >= excess
    IN  {S \in SUBSET dirty \ {{}} :
            excess > 0 => enough(S) /\ \E s \in S : sum(S \ {s}) < excess}

Flusher ==
    /\ \E S \in FlusherChoice(c) : Take(WriteBack(c, S))
    /\ UNCHANGED <<budget, fin>>

(* A completion runs, under client_lock. *)
Finisher ==
    /\ fin # <<>> /\ fin' = Tail(fin)
    /\ LET m == Head(fin)
       IN  IF m.kind = "read" THEN \E y \in bh_read_finish(c, m) : Take(y)
           ELSE Take(bh_write_commit(c, m))
    /\ UNCHANGED budget

(* The MDS revoked the right to cache, and nobody uses it: Client::_release. *)
Release ==
    /\ Spend("release")
    /\ dirty_or_tx(c) = 0 /\ \A t \in Thread : c.thr[t].state # "reading"
    /\ Take(release_set(c))
    /\ UNCHANGED fin

(* The file is truncated at off: Client::_invalidate_inode_cache. *)
Discard ==
    /\ Spend("discard")
    /\ \E off \in Byte :
          LET y == discard_set(c, off) IN Take([y EXCEPT !.known = @ \cap 0 .. off - 1])
    /\ UNCHANGED fin

(* trim() for the sake of other objects. *)
Expire ==
    /\ c.open /\ can_close(c)
    /\ Take(close_object(c))
    /\ UNCHANGED <<budget, fin>>

(* The Objecter has a map that says the cluster is full ... *)
FullMap ==
    /\ c.failed = {} /\ c.full = "no" /\ Spend("full")
    /\ c' = [c EXCEPT !.full = "seen"]
    /\ UNCHANGED <<osd, fin>>

(* ... then the Client: every write that is out is cancelled, whether or    *)
(* not the OSD has it, and what was dirty is thrown away.                   *)
Cancelled(q) == [i \in DOMAIN q |-> [q[i] EXCEPT !.live = @ /\ q[i].kind = "read"]]
IsLiveWrite(m) == m.kind = "write" /\ m.live

handle_osd_map ==
    LET out == SelectSeq(osd.unstable \o osd.net, IsLiveWrite)
    IN  /\ c.failed = {} /\ c.full = "seen"
        /\ c' = [(IF dirty_or_tx(c) > 0 THEN purge_set(c) ELSE c) EXCEPT !.full = "handled"]
        /\ \E arrived \in BOOLEAN :
              osd' = [osd EXCEPT !.unstable = Cancelled(@),
                                 !.net = Cancelled(IF arrived THEN @ ELSE SelectSeq(@, LAMBDA m : ~IsLiveWrite(m)))]
        /\ fin' = fin \o [i \in DOMAIN out |-> [out[i] EXCEPT !.rc = "ENOSPC"]]
        /\ UNCHANGED budget

FullEnds ==
    /\ c.failed = {} /\ c.full = "handled"
    /\ c' = [c EXCEPT !.full = "no"]
    /\ UNCHANGED <<budget, osd, fin>>

(* The OSD (external) takes the requests in order; the Objecter keeps the   *)
(* writes to itself while the cluster is full.                              *)
Ready == {i \in DOMAIN osd.net : c.full = "no" \/ ~IsLiveWrite(osd.net[i])}

Stored(f, m) == [b \in Byte |-> IF m.off <= b /\ b < m.off + m.len THEN m.bl[b - m.off + 1] ELSE f[b]]

OsdReads(i, rc) ==
    LET m == osd.net[i]
        bl == [k \in 1 .. m.len |-> osd.disk[m.off + k - 1]]
    IN  /\ m.kind = "read"
        /\ osd' = [osd EXCEPT !.net = RemoveAt(@, i)]
        /\ fin' = Append(fin, [m EXCEPT !.rc = rc, !.bl = IF rc = "ok" THEN bl ELSE <<>>])

OsdWrites(i, rc) ==
    LET m == [osd.net[i] EXCEPT !.rc = rc]
    IN  /\ m.kind = "write"
        /\ osd' = [osd EXCEPT !.net = RemoveAt(@, i), !.unstable = Append(@, m),
                              !.disk = IF rc = "ok" THEN Stored(@, m) ELSE @,
                              !.present = @ \/ rc = "ok"]
        /\ UNCHANGED fin

OsdExecutes ==
    /\ Ready # {}
    /\ LET i == Min(Ready)
       IN  \/ UNCHANGED budget /\ OsdReads(i, IF osd.present THEN "ok" ELSE "ENOENT")
           \/ Spend("read_error") /\ OsdReads(i, "error")
           \/ UNCHANGED budget /\ OsdWrites(i, "ok")
           \/ Spend("write_error") /\ OsdWrites(i, "error")
    /\ UNCHANGED c

OsdCommits ==
    /\ osd.unstable # <<>>
    /\ LET m == Head(osd.unstable)
       IN  /\ osd' = [osd EXCEPT !.unstable = Tail(@), !.stable = IF m.rc = "ok" THEN Stored(@, m) ELSE @]
           /\ fin' = IF m.live THEN Append(fin, m) ELSE fin
    /\ UNCHANGED <<budget, c>>

-----------------------------------------------------------------------------

Init ==
    /\ budget \in Scenarios
    /\ LET disk == [b \in Byte |-> IF budget.present THEN -(b + 1) ELSE 0]
       IN  /\ osd = [net |-> <<>>, unstable |-> <<>>, disk |-> disk, stable |-> disk, present |-> budget.present]
           /\ c = [open |-> FALSE, data |-> <<>>, complete |-> FALSE, exists |-> TRUE,
                   last_write_tid |-> 0, last_commit_tid |-> 0, last_read_tid |-> 0, last_tid |-> 0,
                   refs |-> 0, buffer_refs |-> 0, waitfor_commit |-> {}, waitfor_read |-> <<>>,
                   thr |-> [t \in Thread |-> [state |-> "new", woken |-> FALSE, rc |-> "ok",
                                              wrong |-> {}, odd |-> {}, goal |-> <<>>]],
                   full |-> "no", net |-> <<>>, signal |-> FALSE,
                   clock |-> 0, logical |-> disk, known |-> Byte, spoiled |-> {}, stuck |-> {}, failed |-> {}]
    /\ fin = <<>>

Next ==
    \/ \E t \in Thread : Read(t) \/ Write(t) \/ Flush(t) \/ FlushRange(t) \/ Resume(t)
    \/ Flusher \/ Finisher \/ Release \/ Discard \/ Expire
    \/ FullMap \/ handle_osd_map \/ FullEnds \/ OsdExecutes \/ OsdCommits

Spec == Init /\ [][Next]_vars

(* Calls are made, the finisher and the flusher run (the latter at least    *)
(* once a second, and no buffer stays dirty longer than max_dirty_age), a   *)
(* full cluster gets room again, and the OSD answers.  Every step spends    *)
(* something (a call, a tid, a queued request), so that to run for ever is  *)
(* to come to rest.                                                         *)
Called(t) == c.thr[t].state = "blocked" /\ c.thr[t].woken

Busy ==
    \/ fin # <<>> \/ osd.net # <<>> \/ osd.unstable # <<>> \/ c.full # "no"
    \/ InState(c.data, {"dirty"}) # {}
    \/ \E t \in Thread : c.thr[t].state \in {"new", "written"} \/ Called(t)

EverythingRuns == []<>(c.failed # {} \/ ~Busy)

FairSpec == Spec /\ EverythingRuns

-----------------------------------------------------------------------------
(* What audit_buffers() checks: buffer heads do not overlap, the readers    *)
(* that wait at one wait for a byte of it, and one that can be read holds   *)
(* as many bytes as it is long.  None is left "missing" between two steps.  *)
TypeOK ==
    /\ \A s \in DOMAIN c.data :
          /\ c.data[s].len > 0 /\ End(c.data, s) <= Size
          /\ Over(c.data, s, End(c.data, s)) = {s}
          /\ \A w \in c.data[s].wait : w.at >= s /\ w.at < End(c.data, s)
          /\ c.data[s].state \in Readable \cup {"rx", "error"}
          /\ Len(c.data[s].bl) = IF c.data[s].state \in {"clean", "dirty", "tx"} THEN c.data[s].len ELSE 0
    /\ c.refs >= 0 /\ c.buffer_refs \in 0 .. 1

(* The assertions of bh_write_commit() and close_object() hold: commits of  *)
(* an object come in order, no buffer in flight is older than a commit that *)
(* comes in for it, and an object is closed only when no flush waits on it. *)
(* The assertion that a buffer thrown away has no reader does fail, when a  *)
(* purge or a truncation meets a read in flight: that is where a behaviour  *)
(* ends.  What audit_buffers() checks is part of it.                        *)
NoAssertFails == TypeOK /\ c.failed \subseteq {"bh->waitfor_read.empty()"}

(* A read returns, for every byte, the last value that was written, through *)
(* any interleaving of reads, writes, writeback, trimming and errors,       *)
(* except for bytes spoiled in one of two ways: bh_read_finish() filled the *)
(* right part of a split buffer, or a purge left `complete' standing.       *)
ReadsSeeWrites == \A t \in Thread : c.thr[t].wrong \subseteq c.thr[t].odd

(* What the cache may drop is safe: a byte that no dirty or in-flight       *)
(* buffer holds is on stable storage with the last value written to it.     *)
DroppableIsStable ==
    \A b \in c.known : Over(c.data, b, b + 1) \cap InState(c.data, {"dirty", "tx"}) = {}
                       => osd.stable[b] = c.logical[b]

(* When a flush, a flush of a range or a write-through has returned success *)
(* every byte it was to flush is on stable storage, as it was at the call   *)
(* or newer, although the caller waits for one tid only; except for bytes   *)
(* of an earlier write that failed, which that tid says nothing about.      *)
FlushIsDurable ==
    \A t \in Thread : c.thr[t].state = "done" /\ c.thr[t].rc = "ok"
                        => \A b \in DOMAIN c.thr[t].goal : osd.stable[b] >= c.thr[t].goal[b]

(* The Client holds its reference on the caps to cache and to buffer        *)
(* exactly while something is dirty or in flight, whether that ends by      *)
(* commits, by a truncation or by a purge: flush_set_callback() runs once   *)
(* per time Client::_write took the reference.                              *)
BufferRefBalances == c.buffer_refs = IF dirty_or_tx(c) > 0 THEN 1 ELSE 0

(* Every read, write and flush returns, however buffers are split, merged,  *)
(* trimmed and refused for want of room while it waits; except for a writer *)
(* that waited for room when dirty data was thrown away, which nobody       *)
(* signals.                                                                 *)
EveryCallReturns ==
    \A t \in 1 .. MaxCalls : <>(t \in Thread => c.thr[t].state = "done" \/ t \in c.stuck \/ c.failed # {})

(* A read returns what the file holds: ceph_read() is to "read data from    *)
(* the file".                                                               *)
ReadsReturnTheFile == \A t \in Thread : c.thr[t].wrong = {}
=============================================================================
