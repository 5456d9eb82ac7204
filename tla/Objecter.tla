------------------------------ MODULE Objecter ------------------------------
(***************************************************************************)
(* osdc/Objecter: operations on an object, sent to the OSD that is primary *)
(* for it in the client's OSD map, and sent again whenever the map moves   *)
(* the primary, the connection is reset, an OSD restarts or a pause ends.  *)
(*                                                                         *)
(* rwlock protects the map and the sessions, a session's lock its          *)
(* operations; a step is what a thread does while it holds them.  Replies  *)
(* are handled by the reader thread of each connection (fast dispatch),    *)
(* maps by the dispatch thread.  The OSDs, the monitor and the lossy       *)
(* connections are external.                                               *)
(***************************************************************************)
EXTENDS Integers, Sequences, FiniteSets, FiniteSetsExt, SequencesExt

CONSTANTS
    NOsd,           \* OSDs are 1 .. NOsd, 0 is none
    MaxOps,         \* operations are 1 .. MaxOps
    Scenarios       \* the kinds of the operations, and what goes wrong

Osd == 1 .. NOsd
Homeless == 0       \* the session of the operations without an OSD
NoSession == -1

Kind == {"write", "sync", "read"}
Budget ==
    [kinds : Seq(Kind), fail : Nat, reset : Nat, pause : Nat, full : Nat, remove : Nat,
     again : Nat, error : Nat, redirect : Nat, jump : Nat, barrier : Nat]

ASSUME SizeAssumption == NOsd \in Nat \ {0} /\ MaxOps \in Nat
ASSUME ScenariosAssumption == Scenarios \subseteq {s \in Budget : Len(s.kinds) <= MaxOps}

VARIABLES
    budget,         \* what may still happen
    maps,           \* the maps the monitor has published (external)
    proc,           \* proc[o]: incarnation of the OSD that runs, 0 if none
    pg,             \* what the OSDs keep of the object (external)
    inq,            \* inq[o]: replies on the connection to o, in order
    x,              \* the Objecter
    callbacks,      \* completions a reader thread is about to run
    finished,       \* history: the completions that ran, in order
    odd             \* history: the rare cases that befell the client

vars == <<budget, maps, proc, pg, inq, x, callbacks, finished, odd>>

Op == 1 .. Len(budget.kinds)
IsWrite(i) == budget.kinds[i] # "read"
Latest == maps[Len(maps)]
Spend(what) == budget[what] > 0 /\ budget' = [budget EXCEPT ![what] = @ - 1]

Fail(y, why) == [y EXCEPT !.failed = @ \cup {why}]
Map(y) == maps[y.epoch]

-----------------------------------------------------------------------------
(* Targets.  These take the Objecter's state and return the next one.       *)

target_should_be_paused(y, i) ==
    \/ IsWrite(i) /\ (Map(y).pause \/ Map(y).full)
    \/ y.epoch < y.epoch_barrier

(* _calc_target(): where an operation belongs now, and whether that is news. *)
_calc_target(y, i) ==
    LET op == y.ops[i]
        unpaused == op.paused /\ ~target_should_be_paused(y, i)
        moved == op.primary # Map(y).primary
    IN  IF ~Map(y).pool
        THEN [op |-> [op EXCEPT !.osd = 0], result |-> "pool_dne"]
        ELSE [op |-> [op EXCEPT !.paused = @ /\ ~unpaused,
                                !.primary = Map(y).primary,
                                !.osd = IF moved THEN Map(y).primary ELSE @],
              result |-> IF unpaused \/ moved THEN "need_resend" ELSE "no_action"]

(* OSDMap::get_inst(): only of an OSD that is up. *)
_get_session(y, o) ==
    IF o = 0 \/ y.sess[o].open THEN y
    ELSE IF Map(y).inc[o] = 0 THEN Fail(y, "is_up(osd)")
    ELSE [y EXCEPT !.sess[o] = [open |-> TRUE, id |-> y.last_id + 1, con |-> y.last_id + 1,
                                 inc |-> Map(y).inc[o]],
                   !.last_id = @ + 1]

Ops(y, s) == {i \in Op : y.ops[i].session = s /\ y.ops[i].listed}
(* Mutant: the map of operations is walked from its end. *)
ByTidDescending(y, S) == SetToSortSeq(S, LAMBDA i, j : y.ops[i].tid > y.ops[j].tid)
ByTid(y, S) == SetToSortSeq(S, LAMBDA i, j : y.ops[i].tid < y.ops[j].tid)

_session_op_assign(y, i, s) ==
    IF y.ops[i].session # NoSession THEN Fail(y, "op->session == NULL")
    ELSE [y EXCEPT !.ops[i].session = s, !.ops[i].listed = TRUE,
                   !.num_homeless_ops = IF s = Homeless THEN @ + 1 ELSE @]

_session_op_remove(y, i) ==
    [y EXCEPT !.ops[i].session = NoSession, !.ops[i].listed = FALSE,
              !.num_homeless_ops = IF y.ops[i].session = Homeless THEN @ - 1 ELSE @]

(* _prepare_osd_op() and _send_op(). *)
_send_op(y, i) ==
    LET op == y.ops[i]
        m == [op |-> i, tid |-> op.tid, attempt |-> op.attempts, epoch |-> y.epoch,
              ack |-> op.onack, con |-> y.sess[op.session].con]
    IN  [y EXCEPT !.ops[i].paused = FALSE, !.ops[i].attempts = @ + 1,
                  !.out[op.session] = IF m.con = 0 THEN @ ELSE Append(@, m)]

_maybe_request_map(y) ==
    [y EXCEPT !.asked = IF Map(y).pause \/ Map(y).full THEN "always" ELSE "once"]

_finish_op(y, i) ==
    LET z == _session_op_remove(y, i)
    IN  IF i \in y.check_latest_map_ops THEN Fail(y, "check_latest_map_ops")
        ELSE [z EXCEPT !.ops[i].state = "done", !.in_flight = @ - 1]

_op_cancel_map_check(y, i) == [y EXCEPT !.check_latest_map_ops = @ \ {i}]

Callback(i, what, r, id) == [op |-> i, what |-> what, r |-> r, sess |-> id]
(* Mutant: the first reply is taken for the commit. *)
CompletionAtOnce(op, i, commit, r, id) ==
    (IF op.onack THEN <<Callback(i, "ack", r, id)>> ELSE <<>>)
        \o (IF op.oncommit THEN <<Callback(i, "commit", r, id)>> ELSE <<>>)
Completion(op, i, commit, r, id) ==
    (IF op.onack THEN <<Callback(i, "ack", r, id)>> ELSE <<>>)
        \o (IF op.oncommit /\ commit THEN <<Callback(i, "commit", r, id)>> ELSE <<>>)

(* Callbacks run under the locks: op_cancel() and _check_op_pool_dne().     *)
Complete(y, i, r) ==
    [y EXCEPT !.done = @ \o Completion(y.ops[i], i, TRUE, r, 0),
              !.ops[i].onack = FALSE, !.ops[i].oncommit = FALSE]

_check_op_pool_dne(y, i) ==
    LET bound == IF y.ops[i].attempts > 0 THEN y.epoch ELSE y.ops[i].map_dne_bound
        z == [y EXCEPT !.ops[i].map_dne_bound = bound]
    IN  CASE bound > 0 /\ y.epoch >= bound -> _finish_op(Complete(z, i, "ENOENT"), i)
          [] bound > 0 /\ y.epoch < bound -> z
          [] OTHER -> [z EXCEPT !.check_latest_map_ops = @ \cup {i}]

-----------------------------------------------------------------------------
(* A new map.                                                               *)

(* Mutant: an operation to be sent again stays with its session. *)
_scan_request_in_place(y, i, skipped, was_full) ==
    LET t == _calc_target(y, i)
        z == [y EXCEPT !.ops[i] = t.op]
    IN  CASE t.result = "need_resend" -> [_op_cancel_map_check(z, i) EXCEPT !.need_resend = @ \cup {i}]
          [] t.result = "pool_dne" -> _check_op_pool_dne(z, i)
          [] OTHER -> z

_scan_request(y, i, skipped, was_full) ==
    LET t == _calc_target(y, i)
        z == [y EXCEPT !.ops[i] = t.op]
        resend == \/ t.result = "need_resend"
                  \/ t.result = "no_action" /\ (skipped \/ (was_full /\ IsWrite(i)))
    IN  CASE resend -> [_op_cancel_map_check(_session_op_remove(z, i), i) EXCEPT
                            !.need_resend = @ \cup {i}]
          [] t.result = "pool_dne" -> _check_op_pool_dne(z, i)
          [] OTHER -> z

_scan_requests(y, s, skipped, was_full) ==
    FoldLeft(LAMBDA z, i : _scan_request(z, i, skipped, was_full), y, ByTid(y, Ops(y, s)))

close_session(y, o) ==
    LET z == [y EXCEPT !.sess[o].open = FALSE, !.out[o] = <<>>]
    IN  FoldSet(LAMBDA i, w : _session_op_assign(_session_op_remove(w, i), i, Homeless), z, Ops(y, o))

ScanSession(y, o, skipped, was_full) ==
    LET z == _scan_requests(y, o, skipped, was_full)
    IN  IF ~y.sess[o].open THEN y
        ELSE IF Map(z).inc[o] # z.sess[o].inc THEN close_session(z, o) ELSE z

(* One epoch of the message: decode it, then look at every operation. *)
ApplyEpoch(y, e, skipped) ==
    LET z == [y EXCEPT !.epoch = e, !.was_full = @ \/ maps[e].full]
        w == _scan_requests(z, Homeless, skipped, z.was_full)
    IN  FoldLeft(LAMBDA v, o : ScanSession(v, o, skipped, z.was_full), w, [o \in Osd |-> o])

_resend(y, i) ==
    LET t == _calc_target(y, i)
        z == _get_session([y EXCEPT !.ops[i] = t.op], t.op.osd)
        w == _session_op_assign(z, i, t.op.osd)
    IN  IF t.op.osd # 0 /\ ~t.op.paused THEN _send_op(w, i) ELSE w

(* The epochs of a message are the ones after ours, or one full map if the  *)
(* monitor does not have them any more.                                     *)
handle_osd_map(n, skipped) ==
    LET y == [x EXCEPT !.was_full = Map(x).full,
                       !.asked = IF @ = "once" THEN "no" ELSE @]
        epochs == IF skipped THEN <<n>> ELSE [k \in 1 .. n - x.epoch |-> x.epoch + k]
        z == FoldLeft(LAMBDA v, e : ApplyEpoch(v, e, skipped), y, epochs)
        paused == Map(x).pause \/ Map(x).full \/ Map(z).pause \/ Map(z).full
        w == IF paused \/ z.epoch < z.epoch_barrier THEN _maybe_request_map(z) ELSE z
        v == FoldLeft(_resend, w, ByTid(w, w.need_resend))
    IN  [v EXCEPT !.need_resend = {}, !.was_full = FALSE, !.client_turn = Map(v).full]

(* The callbacks that ran in this step, under the locks. *)
Ran(y) ==
    /\ x' = [y EXCEPT !.done = <<>>]
    /\ finished' = finished \o y.done

HandleOsdMap ==
    /\ x.asked # "no"
    /\ ~x.client_turn
    /\ \E n \in x.epoch + 1 .. Len(maps) :
        \/ Ran(handle_osd_map(n, FALSE)) /\ UNCHANGED budget
        \/ n > x.epoch + 1 /\ Ran(handle_osd_map(n, TRUE)) /\ Spend("jump")
    /\ UNCHANGED <<maps, proc, pg, inq, callbacks, odd>>

(* Mutant: a cancelled operation keeps its share of the throttle. *)
op_cancel_keeping_budget(y, i, r) ==
    [_session_op_remove(_op_cancel_map_check(Complete(y, i, r), i), i) EXCEPT !.ops[i].state = "done"]

op_cancel(y, i, r) == _finish_op(_op_cancel_map_check(Complete(y, i, r), i), i)

(* The writes of the OSDs' sessions; not the homeless ones. *)
op_cancel_writes(y, r) ==
    FoldLeft(LAMBDA z, i : op_cancel(z, i, r), y,
             ByTid(y, {i \in UNION {Ops(y, o) : o \in Osd} : IsWrite(i)}))

(* Client::handle_osd_map(), which gets the message after the Objecter; it  *)
(* has something to do when the map says full.                              *)
ClientHandlesOsdMap ==
    /\ x.client_turn
    /\ Ran(op_cancel_writes([x EXCEPT !.client_turn = FALSE], "ENOSPC"))
    /\ UNCHANGED <<budget, maps, proc, pg, inq, callbacks, odd>>

-----------------------------------------------------------------------------
(* Submitting.                                                              *)

Submitted(y, i) ==
    LET o == y.ops[i].osd
        z == _get_session(y, o)
        paused == IsWrite(i) /\ (Map(y).pause \/ Map(y).full)
        tid == IF y.ops[i].tid = 0 THEN y.last_tid + 1 ELSE y.ops[i].tid
        w == [z EXCEPT !.ops[i].paused = @ \/ paused, !.ops[i].tid = tid, !.ops[i].state = "live", !.ops[i].epoch = 0,
                       !.last_tid = IF y.ops[i].tid = 0 THEN @ + 1 ELSE @]
        v == _session_op_assign(IF paused \/ o = 0 THEN _maybe_request_map(w) ELSE w, i, o)
        u == IF ~paused /\ o # 0 /\ z.failed = {} THEN _send_op(v, i) ELSE v
    IN  IF y.ops[i].check THEN [u EXCEPT !.check_latest_map_ops = @ \cup {i}] ELSE u

(* _op_submit(): without a session, or with a map to ask for, rwlock is     *)
(* released to take it for writing (RWLock::Context::promote).              *)
_op_submit(y, i) ==
    LET t == _calc_target(y, i)
        dne == t.result = "pool_dne"
        z == [y EXCEPT !.ops[i] = [t.op EXCEPT !.check = dne, !.epoch = y.epoch]]
    IN  IF dne \/ (t.op.osd # 0 /\ ~y.sess[t.op.osd].open)
        THEN [z EXCEPT !.ops[i].state = "promote"]
        ELSE Submitted(z, i)

(* Callers hold client_lock: one submits at a time. *)
op_submit(i) ==
    /\ x.ops[i].state = "new"
    /\ \A j \in Op : j < i => x.ops[j].tid # 0 \/ x.ops[j].attempts > 0
    /\ x' = _op_submit([x EXCEPT !.in_flight = @ + 1], i)
    /\ UNCHANGED <<budget, maps, proc, pg, inq, callbacks, finished, odd>>

Promoted(i) ==
    /\ x.ops[i].state = "promote"
    /\ x' = Submitted(x, i)
    /\ odd' = IF x.ops[i].epoch = x.epoch THEN odd ELSE odd \cup {"raced"}
    /\ UNCHANGED <<budget, maps, proc, pg, inq, callbacks, finished>>

C_Op_Map_Latest(i) ==
    /\ i \in x.check_latest_map_ops
    /\ \E latest \in x.epoch .. Len(maps) :
        Ran(_check_op_pool_dne([x EXCEPT !.check_latest_map_ops = @ \ {i},
                !.ops[i].map_dne_bound = IF @ = 0 THEN latest ELSE @], i))
    /\ UNCHANGED <<budget, maps, proc, pg, inq, callbacks, odd>>

Laggy ==
    /\ x.asked = "no"
    /\ x.num_homeless_ops > 0 \/ \E o \in Osd : x.sess[o].open /\ Ops(x, o) # {}

tick ==
    /\ Laggy
    /\ x' = _maybe_request_map(x)
    /\ UNCHANGED <<budget, maps, proc, pg, inq, callbacks, finished, odd>>

set_epoch_barrier ==
    /\ Spend("barrier")
    /\ \E e \in x.epoch + 1 .. Len(maps) :
        x' = IF e >= x.epoch_barrier THEN _maybe_request_map([x EXCEPT !.epoch_barrier = e]) ELSE x
    /\ UNCHANGED <<maps, proc, pg, inq, callbacks, finished, odd>>

-----------------------------------------------------------------------------
(* Replies and resets.                                                      *)

(* The operation a reply is for: the session has it under this tid and this *)
(* is the answer to its last attempt.                                       *)
AnswersLast(m, op) == m.attempt = op.attempts - 1
Answered(m, o) ==
    {i \in Ops(x, o) : x.ops[i].tid = m.tid /\ AnswersLast(m, x.ops[i])}

Resubmitted(y, i) ==
    [y EXCEPT !.ops[i].listed = FALSE, !.ops[i].tid = y.last_tid + 1, !.last_tid = @ + 1]

(* Mutant: the acknowledgement's callback is kept until the commit. *)
AckedByCommit(op, m) ==
    [op EXCEPT !.onack = @ /\ ~m.ondisk, !.oncommit = @ /\ ~m.ondisk /\ m.rc = "ok"]

(* What the operation still waits for after a reply. *)
Acked(op, m) ==
    [op EXCEPT !.onack = FALSE, !.oncommit = @ /\ ~m.ondisk /\ m.rc = "ok"]

handle_osd_op_reply(y, i, m) ==
    LET z == [y EXCEPT !.ops[i] = Acked(@, m)]
    IN  CASE m.rc = "redirect" -> _op_submit([_session_op_remove(y, i) EXCEPT !.ops[i].tid = 0], i)
          [] m.rc = "EAGAIN" -> _send_op(Resubmitted(y, i), i)
          [] OTHER -> IF ~z.ops[i].onack /\ ~z.ops[i].oncommit THEN _finish_op(z, i) ELSE z

Again == {"redirect", "EAGAIN"}

(* Mutant: no completion_lock. *)
UnlockedAlways(o) == o \in Osd
Unlocked(o) == \A cb \in callbacks : Head(cb).sess # x.sess[o].id

(* The reader of the connection to o.  Callbacks run after the session's    *)
(* lock is released, one reply of a session at a time (completion_lock).    *)
(* What is left on a connection that was marked down is dropped, unless its *)
(* reader has it in hand.                                                   *)
HandleReply(o) ==
    /\ inq[o] # <<>>
    /\ Unlocked(o)
    /\ inq' = [inq EXCEPT ![o] = Tail(@)]
    /\ LET m == Head(inq[o])
           hit == IF x.sess[o].open THEN Answered(m, o) ELSE {}
       IN  \/ /\ hit = {} \/ m.con # x.sess[o].con
              /\ UNCHANGED <<x, callbacks, odd>>
           \/ \E i \in hit :
                LET run == IF m.rc \in Again THEN <<>>
                           ELSE Completion(x.ops[i], i, m.ondisk \/ m.rc # "ok", m.rc, x.sess[o].id)
                IN  /\ x' = handle_osd_op_reply(x, i, m)
                    /\ callbacks' = IF run = <<>> THEN callbacks ELSE callbacks \cup {run}
                    /\ odd' = odd \cup ({m.rc} \cap Again)
    /\ UNCHANGED <<budget, maps, proc, pg, finished>>

RunCallbacks(cb) ==
    /\ cb \in callbacks
    /\ callbacks' = callbacks \ {cb}
    /\ finished' = finished \o cb
    /\ UNCHANGED <<budget, maps, proc, pg, inq, x, odd>>

_reopen_session(y, o) ==
    [y EXCEPT !.sess[o].con = y.last_id + 1, !.sess[o].inc = Map(y).inc[o],
              !.last_id = @ + 1, !.out[o] = <<>>]

(* Mutant: a reopened session waits for new operations. *)
_kick_requests_later(y, o) == [y EXCEPT !.out[o] = <<>>]

_kick_requests(y, o) ==
    FoldLeft(LAMBDA z, i : _send_op(z, i), y, ByTid(y, {i \in Ops(y, o) : ~y.ops[i].paused}))

(* The OSD is looked up by the address the connection had. *)
ms_handle_reset(o) ==
    /\ \E r \in x.resets :
        /\ r.osd = o
        /\ LET y == [x EXCEPT !.resets = @ \ {r}]
           IN  x' = IF Map(x).inc[o] = r.inc /\ x.sess[o].open
                    THEN _maybe_request_map(_kick_requests(_reopen_session(y, o), o))
                    ELSE y
    /\ UNCHANGED <<budget, maps, proc, pg, inq, callbacks, finished, odd>>

(* Lossy: what was under way is lost, and the session hears of it. *)
Broken(y, o) ==
    IF y.sess[o].open /\ y.sess[o].con # 0
    THEN [y EXCEPT !.sess[o].con = 0, !.out[o] = <<>>,
                   !.resets = @ \cup {[osd |-> o, inc |-> y.sess[o].inc]}]
    ELSE y

ConnectionFault(o) ==
    /\ x.sess[o].open /\ x.sess[o].con # 0
    /\ Spend("reset")
    /\ x' = Broken(x, o)
    /\ inq' = [inq EXCEPT ![o] = <<>>]
    /\ UNCHANGED <<maps, proc, pg, callbacks, finished, odd>>

-----------------------------------------------------------------------------
(* The OSDs and the monitor (external).  An OSD serves a request if it has  *)
(* been the primary since the map the request was sent under, does a write  *)
(* once, acknowledges it when it is done and again when it is on disk, and  *)
(* shares newer maps.                                                       *)

Reply(o, m, ondisk, rc) ==
    LET r == [tid |-> m.tid, attempt |-> m.attempt, con |-> m.con, ondisk |-> ondisk, rc |-> rc]
    IN  inq' = [inq EXCEPT ![o] = IF m.con = x.sess[o].con THEN Append(@, r) ELSE @]

Committed(i) == \E k \in 1 .. pg.stable : pg.log[k] = i

OsdWrites(o, m) ==
    /\ pg' = [pg EXCEPT !.log = IF Contains(@, m.op) THEN @ ELSE Append(@, m.op),
                        !.wait = IF Committed(m.op) THEN @
                                 ELSE {w \in @ : w.m.op # m.op} \cup {[osd |-> o, m |-> m]}]
    /\ IF Committed(m.op) \/ m.ack THEN Reply(o, m, Committed(m.op), "ok") ELSE UNCHANGED inq

OsdReceives(o) ==
    /\ x.out[o] # <<>>
    /\ proc[o] # 0 /\ proc[o] = x.sess[o].inc
    /\ LET m == Head(x.out[o])
           serves == Latest.pool /\ \A e \in m.epoch .. Len(maps) : maps[e].primary = o
       IN  /\ x' = [x EXCEPT !.out[o] = Tail(@),
                             !.asked = IF m.epoch < Len(maps) /\ @ = "no" THEN "once" ELSE @]
           /\ \/ ~serves /\ UNCHANGED <<budget, pg, inq>>
              \/ serves /\ ~IsWrite(m.op) /\ Reply(o, m, TRUE, "ok") /\ UNCHANGED <<budget, pg>>
              \/ serves /\ ~IsWrite(m.op) /\ Spend("again") /\ Reply(o, m, FALSE, "EAGAIN") /\ UNCHANGED pg
              \/ serves /\ Spend("error") /\ Reply(o, m, FALSE, "error") /\ UNCHANGED pg
              \/ serves /\ Spend("redirect") /\ Reply(o, m, FALSE, "redirect") /\ UNCHANGED pg
              \/ serves /\ IsWrite(m.op) /\ OsdWrites(o, m) /\ UNCHANGED budget
    /\ UNCHANGED <<maps, proc, callbacks, finished, odd>>

Serving(o) == o # 0 /\ proc[o] # 0 /\ proc[o] = Latest.inc[o]

OsdCommits ==
    /\ pg.stable < Len(pg.log)
    /\ Serving(Latest.primary)
    /\ LET i == pg.log[pg.stable + 1]
           mine == {w \in pg.wait : w.m.op = i}
       IN  /\ pg' = [pg EXCEPT !.stable = @ + 1, !.wait = @ \ mine]
           /\ \/ mine = {} /\ UNCHANGED inq
              \/ \E w \in mine : Reply(w.osd, w.m, TRUE, "ok")
    /\ UNCHANGED <<budget, maps, proc, x, callbacks, finished, odd>>

Primary(inc) == IF \A o \in Osd : inc[o] = 0 THEN 0 ELSE Min({o \in Osd : inc[o] # 0})
Publish(m) == maps' = Append(maps, [m EXCEPT !.primary = Primary(m.inc)])

OsdDies(o) ==
    /\ Serving(o) /\ o = Latest.primary
    /\ Spend("fail")
    /\ proc' = [proc EXCEPT ![o] = 0]
    /\ x' = Broken(x, o)
    /\ pg' = [pg EXCEPT !.wait = {w \in @ : w.osd # o}]
    /\ UNCHANGED <<maps, inq, callbacks, finished, odd>>

(* The next primary has what was on disk, and perhaps more. *)
MarkDown(o) ==
    /\ Latest.inc[o] # 0 /\ proc[o] = 0
    /\ Publish([Latest EXCEPT !.inc[o] = 0])
    /\ \E n \in pg.stable .. Len(pg.log) :
        pg' = [pg EXCEPT !.log = IF o = Latest.primary THEN SubSeq(@, 1, n) ELSE @,
                         !.wait = {w \in @ : w.osd = maps'[Len(maps) + 1].primary}]
    /\ UNCHANGED <<budget, proc, inq, x, callbacks, finished, odd>>

Boot(o) ==
    /\ proc[o] = 0 /\ Latest.inc[o] = 0
    /\ proc' = [proc EXCEPT ![o] = Len(maps) + 1]
    /\ Publish([Latest EXCEPT !.inc[o] = Len(maps) + 1])
    /\ pg' = [pg EXCEPT !.wait = {w \in @ : w.osd = maps'[Len(maps) + 1].primary}]
    /\ UNCHANGED <<budget, inq, x, callbacks, finished, odd>>

Pause ==
    /\ \/ Spend("pause") /\ Publish([Latest EXCEPT !.pause = TRUE])
       \/ Spend("full") /\ Publish([Latest EXCEPT !.full = TRUE])
    /\ UNCHANGED <<proc, pg, inq, x, callbacks, finished, odd>>

Unpause ==
    /\ Latest.pause \/ Latest.full
    /\ Publish([Latest EXCEPT !.pause = FALSE, !.full = FALSE])
    /\ UNCHANGED <<budget, proc, pg, inq, x, callbacks, finished, odd>>

RemovePool ==
    /\ Latest.pool
    /\ Spend("remove")
    /\ Publish([Latest EXCEPT !.pool = FALSE])
    /\ UNCHANGED <<proc, pg, inq, x, callbacks, finished, odd>>

-----------------------------------------------------------------------------
NewOp(kind) ==
    [state |-> "new", tid |-> 0, osd |-> 0, primary |-> -1, paused |-> FALSE, attempts |-> 0,
     session |-> NoSession, listed |-> FALSE, check |-> FALSE, epoch |-> 0, map_dne_bound |-> 0,
     onack |-> kind # "write", oncommit |-> kind # "read"]

Init ==
    /\ budget \in Scenarios
    /\ maps = <<[inc |-> [o \in Osd |-> 1], primary |-> 1, pool |-> TRUE, pause |-> FALSE, full |-> FALSE]>>
    /\ proc = [o \in Osd |-> 1]
    /\ pg = [log |-> <<>>, stable |-> 0, wait |-> {}]
    /\ inq = [o \in Osd |-> <<>>]
    /\ x = [epoch |-> 1, ops |-> [i \in Op |-> NewOp(budget.kinds[i])],
            sess |-> [o \in Osd |-> [open |-> FALSE, id |-> 0, con |-> 0, inc |-> 0]],
            out |-> [o \in Osd |-> <<>>], last_id |-> 0, last_tid |-> 0, num_homeless_ops |-> 0,
            in_flight |-> 0, check_latest_map_ops |-> {}, need_resend |-> {}, was_full |-> FALSE,
            epoch_barrier |-> 0, asked |-> "no", client_turn |-> FALSE, resets |-> {},
            done |-> <<>>, failed |-> {}]
    /\ callbacks = {}
    /\ finished = <<>>
    /\ odd = {}

Next ==
    \/ \E i \in Op : op_submit(i)
    \/ \E i \in Op : Promoted(i)
    \/ \E i \in Op : C_Op_Map_Latest(i)
    \/ HandleOsdMap
    \/ ClientHandlesOsdMap
    \/ tick
    \/ set_epoch_barrier
    \/ \E o \in Osd : HandleReply(o)
    \/ \E cb \in callbacks : RunCallbacks(cb)
    \/ \E o \in Osd : ms_handle_reset(o)
    \/ \E o \in Osd : ConnectionFault(o)
    \/ \E o \in Osd : OsdReceives(o)
    \/ OsdCommits
    \/ \E o \in Osd : OsdDies(o)
    \/ \E o \in Osd : MarkDown(o)
    \/ \E o \in Osd : Boot(o)
    \/ Pause
    \/ Unpause
    \/ RemovePool

Spec == Init /\ [][Next]_vars

(* Every thread runs: what it has to do does not stay to be done. *)
ThreadsRun ==
    /\ \A i \in 1 .. MaxOps :
        /\ []<>~(i \in Op /\ x.ops[i].state \in {"new", "promote"})
        /\ []<>(i \notin x.check_latest_map_ops)
    /\ \A o \in Osd : []<>(inq[o] = <<>>)
    /\ []<>(callbacks = {})
    /\ []<>(x.resets = {})
    /\ []<>~x.client_turn
    /\ []<>~Laggy

(* The cluster delivers, commits, recovers and hands out its maps. *)
ClusterServes ==
    /\ []<>~(x.asked # "no" /\ x.epoch < Len(maps))
    /\ []<>~(pg.stable < Len(pg.log) /\ Serving(Latest.primary))
    /\ \A o \in Osd :
        /\ []<>(x.out[o] = <<>>)
        /\ []<>(proc[o] # 0)
    /\ []<>~(Latest.pause \/ Latest.full)

FairSpec == Spec /\ ThreadsRun /\ ClusterServes

-----------------------------------------------------------------------------
(* Every variable has its type, the Objecter's map is one that was          *)
(* published, and the count of homeless operations never wraps below zero.  *)
TypeOK ==
    /\ budget \in Budget
    /\ x.epoch \in 1 .. Len(maps)
    /\ \A i \in Op :
        /\ x.ops[i].state \in {"new", "promote", "live", "done"}
        /\ x.ops[i].osd \in 0 .. NOsd
        /\ x.ops[i].session \in -1 .. NOsd
    /\ x.num_homeless_ops \in Nat
    /\ pg.stable \in 0 .. Len(pg.log)

(* No assert of _session_op_assign() (op->session == NULL), _finish_op()    *)
(* (not in check_latest_map_ops) or OSDMap::get_inst() (is_up) fails,       *)
(* however maps, replies, resets and cancellations interleave; the last one *)
(* may, but only when a map arrived while _op_submit() had released rwlock. *)
(* The types are part of it.                                                *)
NoAssertFails ==
    /\ TypeOK
    /\ x.failed \subseteq (IF "raced" \in odd THEN {"is_up(osd)"} ELSE {})

(* _get_session() opens a connection only to an OSD that is up in the map   *)
(* it holds: assert(is_up(osd)) of OSDMap::get_inst().  It fails when a map *)
(* marks the target down while _op_submit() waits to promote its lock.      *)
TargetIsUp == "is_up(osd)" \notin x.failed

(* Whatever ends an operation (reply, cancellation, pool removal), its share *)
(* of the throttle is returned exactly once, and num_homeless_ops, which    *)
(* decides whether tick() asks for maps, counts the homeless session.       *)
InFlightBalances ==
    /\ x.in_flight = Cardinality({i \in Op : x.ops[i].state \in {"promote", "live"}})
    /\ x.num_homeless_ops = Cardinality(Ops(x, Homeless))

(* However often an operation is sent, and whichever of a reply, a removed  *)
(* pool or a cancellation ends it, each of its callbacks runs at most once, *)
(* and has run when it is done and no reader is about to run callbacks.  A  *)
(* commit callback with success means the write is on disk and survives the *)
(* loss of any primary: an acknowledgement, a reply to an earlier attempt   *)
(* or from an earlier primary is never taken for a commit.                  *)
CallbacksAreTrue ==
    LET ran(i, what) == Cardinality({k \in DOMAIN finished : finished[k].op = i /\ finished[k].what = what})
    IN  /\ \A i \in Op :
            /\ ran(i, "ack") <= 1
            /\ ran(i, "commit") <= 1
            /\ x.ops[i].state = "done" /\ callbacks = {} =>
                  /\ ran(i, "ack") = (IF budget.kinds[i] = "write" THEN 0 ELSE 1)
                  /\ ran(i, "commit") = (IF budget.kinds[i] = "read" THEN 0 ELSE 1)
        /\ \A k \in DOMAIN finished :
            (finished[k].what = "commit" /\ finished[k].r = "ok") => Committed(finished[k].op)

Commits(id) == SelectSeq(finished, LAMBDA f : f.what = "commit" /\ f.r = "ok" /\ f.sess = id)

(* Writes to the object take effect in the order of their tids, across      *)
(* resends after resets, primary changes, skipped maps and pauses; and      *)
(* within a session commit callbacks run in that order ("serialize          *)
(* completions"), also when the connection was replaced while a reader of   *)
(* the old one still held replies.  Unless a map raced a submission or the  *)
(* OSD sent a redirect.                                                     *)
OrderIsKept ==
    odd = {} =>
        /\ \A j, k \in DOMAIN pg.log : j < k => x.ops[pg.log[j]].tid < x.ops[pg.log[k]].tid
        /\ \A id \in 1 .. x.last_id : \A j, k \in DOMAIN Commits(id) :
                j < k => x.ops[Commits(id)[j].op].tid < x.ops[Commits(id)[k].op].tid

(* Every operation is completed, whatever is lost or moved on the way, as   *)
(* long as the cluster recovers; not if it raced a map at submission or got *)
(* EAGAIN, after which handle_osd_op_reply() forgets it.                    *)
EveryOpCompletes ==
    \A i \in 1 .. MaxOps :
        (i \in Op) ~> (i \notin Op \/ x.ops[i].state = "done" \/ odd \cap {"raced", "EAGAIN"} # {})
=============================================================================
