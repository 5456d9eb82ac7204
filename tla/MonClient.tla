----------------------------- MODULE MonClient ------------------------------
(* The client's session with the monitors (mon/MonClient.cc), with the      *)
(* cephx handshake (auth/cephx), the finisher that runs its callbacks       *)
(* (common/Finisher.cc), and the calls that Client and Objecter make.       *)
(*                                                                          *)
(* Callers, the dispatch thread, the timer and the finisher take turns on   *)
(* monc_lock; a handler is one step.  mark_down() leaves what is in the     *)
(* dispatch queue there, so that messages are handled whose session is gone *)
(* ("stale").  A handler that may open a session chooses a monitor at       *)
(* random and is therefore written as the set of its outcomes.  The         *)
(* monitors, the messenger and the tickets' lifetimes are external.         *)
EXTENDS Naturals, Sequences, SequencesExt, FiniteSets, FiniteSetsExt

CONSTANTS Mon,          \* the monitors
          None,         \* no monitor, no message
          MonMaps,      \* the members of each monmap that is published
          MaxVersion,   \* bound on the epochs of the OSD and MDS maps
          Scenarios     \* the numbers of faults and calls; one is chosen

ASSUME NoneAssumption == None \notin Mon
ASSUME MaxVersionAssumption == MaxVersion \in Nat
ASSUME MonMapsAssumption == MonMaps \in Seq(SUBSET Mon) /\ {} \notin ToSet(MonMaps) /\ MonMaps # <<>>

VARIABLES budget,   \* what may still happen
          c,        \* MonClient, its finisher, connection and dispatch thread
          mon,      \* the monitors: which answer, and the newest maps
          user,     \* Client and Objecter
          phase     \* how far shutdown() is

vars == <<budget, c, mon, user, phase>>

What == {"monmap", "osdmap", "mdsmap"}
Ticket == {"AUTH", "service"}
EAGAIN == 0     \* as the result of a version request; versions start at 1
NoSub == [start |-> 0, once |-> FALSE, on |-> FALSE]
NoSubs == [w \in What |-> NoSub]

Spend(what) == /\ budget[what] > 0
               /\ budget' = [budget EXCEPT ![what] = @ - 1]

Fail(y, what) == [y EXCEPT !.failed = @ \cup {what}]

(* The addresses of a monmap; the one built from the configuration has      *)
(* epoch 0 and names the monitors of the first.                             *)
Members(epoch) == MonMaps[Max({epoch, 1})]

-----------------------------------------------------------------------------
(* A lossy connection, and the session the monitor keeps with it.           *)
NewCon(n) == [mon |-> n, state |-> "connecting", out |-> <<>>,
              session |-> "none", subs |-> NoSubs, overdue |-> FALSE]

NoCon == [NewCon(None) EXCEPT !.state = "none"]

(* A request equal to one that is still queued changes nothing there.       *)
Put(q, m) == IF m \in ToSet(q) THEN q ELSE Append(q, m)

_send_mon_message(y, m, force) ==
    IF y.cur_mon = None THEN Fail(y, "!cur_mon.empty()")
    ELSE IF ~(force \/ y.state = "HAVE_SESSION") THEN [y EXCEPT !.waiting = Put(@, m)]
    ELSE IF y.con.state = "broken" THEN y
    ELSE [y EXCEPT !.con.out = Put(@, m)]

Subscribe(y) == [type |-> "subscribe", subs |-> y.subs]

(* _renew_subs() while there is a monitor. *)
Renewed(y) ==
    IF y.subs = NoSubs THEN y
    ELSE _send_mon_message([y EXCEPT !.renew_sent = TRUE], Subscribe(y), FALSE)

_pick_random_mon(y) ==
    LET all == Members(y.monmap)
    IN  IF Cardinality(all) = 1 THEN all ELSE all \ {y.cur_mon}

(* The messages of the connection that was marked down. *)
Stale(queue) == [k \in DOMAIN queue |-> [queue[k] EXCEPT !.stale = TRUE]]

(* Mutant: the new monitor is not told of the subscriptions. *)
_reopen_session_silently(y) ==
    {_send_mon_message(
        [y EXCEPT !.cur_mon = n, !.con = NewCon(n), !.queue = Stale(@), !.waiting = <<>>,
                  !.reqs = {}, !.finisher_queue = @ \o SetToSeq({[h |-> h, r |-> EAGAIN] : h \in y.reqs}),
                  !.state = "NEGOTIATING", !.hunting = TRUE],
        [type |-> "auth", req |-> "hello"], TRUE) : n \in _pick_random_mon(y)}

(* The old connection is marked down, what was queued for it is dropped,    *)
(* callers of get_version() are told EAGAIN, and the handshake starts.      *)
_reopen_session(y) ==
    {Renewed(_send_mon_message(
        [y EXCEPT !.cur_mon = n, !.con = NewCon(n), !.queue = Stale(@), !.waiting = <<>>,
                  !.reqs = {}, !.finisher_queue = @ \o SetToSeq({[h |-> h, r |-> EAGAIN] : h \in y.reqs}),
                  !.state = "NEGOTIATING", !.hunting = TRUE],
        [type |-> "auth", req |-> "hello"], TRUE)) : n \in _pick_random_mon(y)}

_renew_subs(y) ==
    IF y.subs # NoSubs /\ y.cur_mon = None THEN _reopen_session(y) ELSE {Renewed(y)}

_sub_want(y, what, start, once) ==
    [y EXCEPT !.subs[what] = [start |-> start, once |-> once, on |-> TRUE]]

_sub_got(y, what, got) ==
    IF ~y.subs[what].on THEN y
    ELSE IF y.subs[what].once THEN [y EXCEPT !.subs[what] = NoSub]
    ELSE [y EXCEPT !.subs[what].start = got + 1]

(* sub_want() and, if that changed anything, renew_subs(). *)
WantAndRenew(y, what, start, once) ==
    LET z == _sub_want(y, what, start, once)
    IN  IF z = y THEN {y} ELSE _renew_subs(z)

-----------------------------------------------------------------------------
(* The cephx handshake: CephxClientHandler.  "valid" are the tickets that   *)
(* have not expired.                                                        *)
need(auth) == Ticket \ auth.valid

build_request(auth) ==
    [type |-> "auth", req |-> IF "AUTH" \in need(auth) THEN "key" ELSE "tickets"]

handle_response(auth, r) ==
    LET Got(t) == [auth EXCEPT !.valid = @ \cup t]
    IN  CASE r = "EPERM" -> [auth |-> auth, ret |-> r]
          [] r = "challenge" /\ auth.starting ->
                [auth |-> [auth EXCEPT !.starting = FALSE, !.valid = @ \ {"AUTH"}], ret |-> "EAGAIN"]
          [] r = "key" /\ ~auth.starting ->
                [auth |-> Got({"AUTH"}), ret |-> IF need(Got({"AUTH"})) = {} THEN "0" ELSE "EAGAIN"]
          [] r = "tickets" /\ ~auth.starting -> [auth |-> Got({"service"}), ret |-> "0"]
          [] OTHER -> [auth |-> auth, ret |-> "unknown request_type"]

_check_auth_tickets(y) ==
    IF y.state = "HAVE_SESSION" /\ need(y.auth) # {}
    THEN _send_mon_message(y, build_request(y.auth), FALSE) ELSE y

(* The messages that waited for the session, in their order. *)
SendWaiting(y) ==
    FoldLeft(LAMBDA z, m : _send_mon_message(z, m, FALSE), [y EXCEPT !.waiting = <<>>], y.waiting)

handle_auth(y, r) ==
    IF y.state = "NEGOTIATING" /\ r = "ENOTSUP"
    THEN [y EXCEPT !.auth = [handler |-> FALSE, starting |-> FALSE, valid |-> {}],
                   !.authenticate_err = "ENOTSUP"]
    ELSE LET begun == IF y.state = "NEGOTIATING"
                      THEN [y EXCEPT !.auth.handler = TRUE, !.auth.starting = TRUE, !.state = "AUTHENTICATING"]
                      ELSE y
             res == handle_response(begun.auth, r)
             z == [begun EXCEPT !.auth = res.auth]
             found == [z EXCEPT !.hunting = FALSE, !.authenticate_err = res.ret]
         IN  CASE ~begun.auth.handler -> Fail(y, "auth")
               [] res.ret = "unknown request_type" -> Fail(y, "assert(0)")
               [] res.ret = "EAGAIN" -> _send_mon_message(z, build_request(z.auth), TRUE)
               [] res.ret = "EPERM" -> found
               [] OTHER -> _check_auth_tickets(SendWaiting([found EXCEPT !.state = "HAVE_SESSION"]))

-----------------------------------------------------------------------------
(* The dispatch thread.                                                     *)

handle_monmap(y, epoch) ==
    LET z == _sub_got([y EXCEPT !.monmap = epoch], "monmap", epoch)
    IN  IF y.cur_mon = None THEN {Fail(y, "!cur_mon.empty()")}
        ELSE IF y.con.mon \in Members(epoch) THEN {z} ELSE _reopen_session(z)

handle_subscribe_ack(y) ==
    IF y.renew_sent THEN [y EXCEPT !.renew_due = FALSE, !.renew_sent = FALSE] ELSE y

handle_get_version_reply(y, h, v) ==
    IF h \notin y.reqs THEN y
    ELSE [y EXCEPT !.reqs = @ \ {h}, !.finisher_queue = Append(@, [h |-> h, r |-> v])]

ms_handle_reset(y, stale) ==
    IF y.cur_mon = None \/ stale \/ y.hunting THEN {y} ELSE _reopen_session(y)

(* What ms_dispatch() does with the message of the current session.         *)
Handled(y, m) ==
    CASE m.type = "monmap" -> handle_monmap(y, m.v)
      [] m.type = "auth" -> {handle_auth(y, m.r)}
      [] m.type = "subscribe_ack" -> {handle_subscribe_ack(y)}
      [] m.type = "version" -> {handle_get_version_reply(y, m.h, m.v)}

(* Mutant: a message of an earlier session is handled too. *)
ms_dispatch_any(y, m, stale) == Handled(y, m)

(* "ignore any messages outside our current session" *)
ms_dispatch(y, m, stale) == IF stale THEN {y} ELSE Handled(y, m)

(* Each request has a handle of its own among those that are outstanding.   *)
get_version(y, v) ==
    LET h == <<v, CHOOSE k \in 1 .. Cardinality(y.reqs) + 1 : <<v, k>> \notin y.reqs>>
    IN  _send_mon_message([y EXCEPT !.reqs = @ \cup {h}], [type |-> "get_version", h |-> h], FALSE)

_fs_stats_submit(y) == _send_mon_message(y, [type |-> "statfs"], FALSE)

(* Objecter::ms_handle_connect(): the callbacks that were told EAGAIN have  *)
(* dropped their requests, and nobody was told of the statfs that was       *)
(* dropped; all that are still wanted are made again.                       *)
resend_mon_ops(y, u) ==
    FoldSet(LAMBDA v, z : get_version(z, v), IF u.statfs THEN _fs_stats_submit(y) ELSE y, u.checks)

(* Mutant: nothing is made again. *)
ms_handle_connect_lazily(y, u) == y

ms_handle_connect(y, u) == resend_mon_ops(y, u)

(* Objecter::_maybe_request_map(), for maps without the full or pause flag. *)
_maybe_request_map(y, have) ==
    WantAndRenew(y, "osdmap", IF have = 0 THEN 0 ELSE have + 1, TRUE)

(* The parts of Objecter::handle_osd_map() and Client::handle_mds_map()     *)
(* that tell MonClient; "waits" is the epoch somebody waits for.            *)
handle_map(y, what, v, have, waits) ==
    LET now == Max({v, have})
    IN  IF what = "mdsmap" THEN {IF v < have THEN y ELSE _sub_got(y, what, now)}
        ELSE IF waits > now THEN _maybe_request_map(_sub_got(y, what, now), now)
        ELSE {_sub_got(y, what, now)}

(* The next message or event of the queue goes to the dispatchers; Client   *)
(* and Objecter do not listen any more once they are shut down.             *)
Dispatch ==
    LET m == Head(c.queue).m
        y == [c EXCEPT !.queue = Tail(@)]
        stale == Head(c.queue).stale
    IN  /\ c.queue # <<>>
        /\ \/ /\ m.type \in {"monmap", "auth", "subscribe_ack", "version"}
              /\ c' \in ms_dispatch(y, m, stale)
              /\ UNCHANGED user
           \/ /\ m.type = "reset"
              /\ c' \in ms_handle_reset(y, stale)
              /\ UNCHANGED user
           \/ /\ m.type = "connect" /\ phase = "up"
              /\ c' = ms_handle_connect(y, user)
              /\ UNCHANGED user
           \/ /\ m.type = "statfs_reply" /\ phase = "up"
              /\ c' = y
              /\ user' = [user EXCEPT !.statfs = FALSE]
           \/ /\ m.type = "map" /\ phase = "up"
              /\ c' \in handle_map(y, m.what, m.v, user.have[m.what], user.waits)
              /\ user' = [user EXCEPT !.have[m.what] = Max({@, m.v})]
           \/ /\ m.type \in {"connect", "map", "statfs_reply"} /\ phase # "up"
              /\ c' = y
              /\ UNCHANGED user
        /\ UNCHANGED <<budget, mon, phase>>

(* OSDs send maps to their clients as well, new or old; of interest while   *)
(* somebody waits for one.                                                  *)
OsdSendsMap ==
    \E v \in 1 .. mon.latest["osdmap"] :
        /\ phase = "up" /\ user.waits > user.have["osdmap"]
        /\ Spend("osd")
        /\ c' \in handle_map(c, "osdmap", v, user.have["osdmap"], user.waits)
        /\ user' = [user EXCEPT !.have["osdmap"] = Max({@, v})]
        /\ UNCHANGED <<mon, phase>>

-----------------------------------------------------------------------------
(* The timer.                                                               *)

Alive(n) == n \in mon.up /\ n \in Members(mon.latest["monmap"])

(* The monitor answers in time, unless the budget says it is slow.          *)
Answers(y) == y.con.state \in {"connecting", "open"} /\ Alive(y.con.mon)

Quiet(y) == y.queue = <<>> /\ y.con.out = <<>>

tick(y) ==
    LET z == _check_auth_tickets(y)
        w == IF z.renew_due THEN Renewed(z) ELSE z
    IN  IF z.hunting THEN _reopen_session(z)
        ELSE IF z.cur_mon = None THEN {z}
        ELSE {w} \cup (IF z.state = "HAVE_SESSION" /\ ~Answers(z) THEN _reopen_session(w) ELSE {})

(* Ticks are seconds apart: while the monitor answers, one comes only after *)
(* what the last one sent is dealt with, and none interrupts the handshake  *)
(* unless the monitor is slow.                                              *)
Tick ==
    /\ c.timer
    /\ IF Quiet(c) \/ ~Answers(c) THEN UNCHANGED budget ELSE c.hunting /\ Spend("slow")
    /\ c' \in tick(c)
    /\ UNCHANGED <<mon, user, phase>>

(* Half of the interval that the monitor granted has passed. *)
RenewalDue ==
    /\ ~c.renew_due
    /\ Spend("lapse")
    /\ c' = [c EXCEPT !.renew_due = TRUE, !.con.overdue = TRUE]
    /\ UNCHANGED <<mon, user, phase>>

TicketsExpire ==
    \E gone \in {{"service"}, Ticket} :
        /\ c.state = "HAVE_SESSION" /\ need(c.auth) = {}
        /\ Spend("expire")
        /\ c' = [c EXCEPT !.auth.valid = @ \ gone]
        /\ UNCHANGED <<mon, user, phase>>

-----------------------------------------------------------------------------
(* The finisher's thread.  Awake, it goes on until the queue is empty; one  *)
(* that finds finisher_stop set when it wakes up leaves the queue alone.    *)

FinisherTakes ==
    /\ c.finisher = "running" \/ (c.finisher = "asleep" /\ ~c.finisher_stop)
    /\ c.batch = <<>> /\ c.finisher_queue # <<>>
    /\ c' = [c EXCEPT !.finisher = "running", !.batch = c.finisher_queue, !.finisher_queue = <<>>]
    /\ UNCHANGED <<budget, mon, user, phase>>

(* C_Op_Map_Latest::finish() *)
FinisherRuns ==
    /\ c.batch # <<>>
    /\ c' = [c EXCEPT !.batch = Tail(@)]
    /\ LET v == Head(c.batch).h[1]
           r == Head(c.batch).r
       IN  user' = IF r = EAGAIN \/ v \notin user.checks THEN user
                   ELSE [user EXCEPT !.checks = @ \ {v}, !.got[v] = r]
    /\ UNCHANGED <<budget, mon, phase>>

FinisherSleeps ==
    /\ c.finisher = "running" /\ c.batch = <<>> /\ c.finisher_queue = <<>>
    /\ c' = [c EXCEPT !.finisher = IF c.finisher_stop THEN "off" ELSE "asleep"]
    /\ UNCHANGED <<budget, mon, user, phase>>

FinisherExits ==
    /\ c.finisher = "asleep" /\ c.finisher_stop
    /\ c' = [c EXCEPT !.finisher = "off"]
    /\ UNCHANGED <<budget, mon, user, phase>>

-----------------------------------------------------------------------------
(* The callers: Client and Objecter.                                        *)

(* Objecter::start() and the end of Client::init(). *)
ClientInit ==
    /\ user.pc = "init"
    /\ c' \in UNION {WantAndRenew(y, "mdsmap", 0, FALSE) : y \in _maybe_request_map(c, 0)}
    /\ user' = [user EXCEPT !.pc = "mounting"]
    /\ UNCHANGED <<budget, mon, phase>>

authenticate ==
    /\ user.pc = "mounting"
    /\ IF c.state = "HAVE_SESSION"
       THEN user' = [user EXCEPT !.pc = "mounted"] /\ UNCHANGED c
       ELSE /\ user' = [user EXCEPT !.pc = "authenticating"]
            /\ LET z == _sub_want(c, "monmap", IF c.monmap = 0 THEN 0 ELSE c.monmap + 1, FALSE)
               IN  c' \in IF c.cur_mon = None THEN _reopen_session(z) ELSE {z}
    /\ UNCHANGED <<budget, mon, phase>>

Mounted(err) == [user EXCEPT !.pc = IF err = "0" THEN "mounted" ELSE "failed"]

AuthenticateReturns ==
    /\ user.pc = "authenticating"
    /\ c.state = "HAVE_SESSION" \/ c.authenticate_err # "0"
    /\ user' = Mounted(c.authenticate_err)
    /\ UNCHANGED <<budget, c, mon, phase>>

AuthenticateTimesOut ==
    /\ user.pc = "authenticating" /\ c.state # "HAVE_SESSION"
    /\ Spend("timeout")
    /\ c' = [c EXCEPT !.authenticate_err = "ETIMEDOUT"]
    /\ user' = Mounted("ETIMEDOUT")
    /\ UNCHANGED <<mon, phase>>

(* Objecter::_send_op_map_check() for the operation v. *)
AskVersion ==
    \E v \in DOMAIN user.got :
        /\ user.pc = "mounted" /\ phase = "up"
        /\ v \notin user.checks /\ user.floor[v] = 0
        /\ Spend("version")
        /\ c' = get_version(c, v)
        /\ user' = [user EXCEPT !.checks = @ \cup {v}, !.floor[v] = mon.latest["osdmap"]]
        /\ UNCHANGED <<mon, phase>>

(* Client::statfs(), which waits for the answer. *)
get_fs_stats ==
    /\ user.pc = "mounted" /\ phase = "up" /\ ~user.statfs
    /\ Spend("statfs")
    /\ c' = _fs_stats_submit(c)
    /\ user' = [user EXCEPT !.statfs = TRUE]
    /\ UNCHANGED <<mon, phase>>

(* Objecter::_wait_for_new_map() for the next epoch. *)
WaitForMap ==
    /\ user.pc = "mounted" /\ phase = "up"
    /\ user.have["osdmap"] > 0 /\ user.waits <= user.have["osdmap"] /\ user.have["osdmap"] < MaxVersion
    /\ Spend("wait")
    /\ c' \in _maybe_request_map(c, user.have["osdmap"])
    /\ user' = [user EXCEPT !.waits = user.have["osdmap"] + 1]
    /\ UNCHANGED <<mon, phase>>

(* shutdown(), after Objecter's: cancel what is outstanding, ... *)
Shutdown ==
    /\ phase = "up"
    /\ user.pc = "failed" \/ (user.pc = "mounted" /\ budget.shutdown > 0)
    /\ c' = [c EXCEPT !.reqs = {}, !.waiting = <<>>]
    /\ user' = [user EXCEPT !.checks = {}, !.statfs = FALSE]
    /\ phase' = "stopping"
    /\ UNCHANGED <<budget, mon>>

(* ... Finisher::stop(), ... *)
FinisherStop ==
    /\ phase = "stopping"
    /\ c' = [c EXCEPT !.finisher_stop = TRUE]
    /\ phase' = "joining"
    /\ UNCHANGED <<budget, mon, user>>

(* Mutant: cur_con still names the connection. *)
ShutdownEndsWithCon ==
    /\ phase = "joining" /\ c.finisher = "off"
    /\ c' = [c EXCEPT !.timer = FALSE, !.con.state = "none", !.con.out = <<>>, !.cur_mon = None]
    /\ phase' = "down"
    /\ UNCHANGED <<budget, mon, user>>

(* ... and, once that has joined its thread, the timer and the connection.  *)
ShutdownEnds ==
    /\ phase = "joining" /\ c.finisher = "off"
    /\ c' = [c EXCEPT !.timer = FALSE, !.con = NoCon, !.queue = Stale(@), !.cur_mon = None]
    /\ phase' = "down"
    /\ UNCHANGED <<budget, mon, user>>

-----------------------------------------------------------------------------
(* The monitors.                                                            *)

Queued(m) == [m |-> m, stale |-> FALSE]

(* The connection comes up with the first message, and the event is put in  *)
(* front of what is queued; a monitor drops what comes before the session   *)
(* is authenticated.                                                        *)
MonServes ==
    LET m == Head(c.con.out)
        y == [c EXCEPT !.con.state = "open", !.con.out = Tail(@),
                       !.queue = IF c.con.state = "open" THEN @ ELSE <<Queued([type |-> "connect"])>> \o @]
        Answer(a) == [y EXCEPT !.queue = Append(@, Queued(a))]
        Auth(r, session) == [Answer([type |-> "auth", r |-> r]) EXCEPT !.con.session = session]
        known == c.con.session = "authenticated"
    IN  /\ Answers(c) /\ c.con.out # <<>>
        /\ \/ /\ m.type = "auth"
              /\ c' = CASE m.req = "hello" -> Auth("challenge", "begun")
                        [] m.req = "key" -> Auth("key", "authenticated")
                        [] m.req = "tickets" -> Auth("tickets", c.con.session)
              /\ UNCHANGED budget
           \/ \E r \in {"ENOTSUP", "EPERM"} :
              /\ m.type = "auth" /\ (r = "ENOTSUP" => m.req = "hello")
              /\ Spend("deny")
              /\ c' = Auth(r, c.con.session)
           \/ /\ m.type = "subscribe"
              /\ c' = IF ~known THEN y
                      ELSE [Answer([type |-> "subscribe_ack"]) EXCEPT
                              !.con.overdue = FALSE,
                              !.con.subs = [w \in What |-> IF m.subs[w].on THEN m.subs[w] ELSE @[w]]]
              /\ UNCHANGED budget
           \/ /\ m.type = "get_version"
              /\ c' = IF ~known THEN y
                      ELSE Answer([type |-> "version", h |-> m.h, v |-> mon.latest["osdmap"]])
              /\ UNCHANGED budget
           \/ /\ m.type = "statfs"
              /\ c' = IF known THEN Answer([type |-> "statfs_reply"]) ELSE y
              /\ UNCHANGED budget
        /\ UNCHANGED <<mon, user, phase>>

(* A map that somebody subscribed to; a monitor that is no longer a member  *)
(* still says so.                                                           *)
Sends(w) ==
    /\ c.con.state = "open" /\ c.con.mon \in mon.up
    /\ Alive(c.con.mon) \/ w = "monmap"
    /\ c.con.subs[w].on /\ c.con.subs[w].start <= mon.latest[w]

MonSends(w) ==
    /\ Sends(w)
    /\ LET v == mon.latest[w]
           m == IF w = "monmap" THEN [type |-> w, v |-> v] ELSE [type |-> "map", what |-> w, v |-> v]
       IN  c' = [c EXCEPT !.queue = Append(@, Queued(m)),
                          !.con.subs[w] = IF @.once THEN NoSub ELSE [@ EXCEPT !.start = v + 1]]
    /\ UNCHANGED <<budget, mon, user, phase>>

Publish(w) ==
    /\ mon.latest[w] < IF w = "monmap" THEN Len(MonMaps) ELSE MaxVersion
    /\ Spend(w)
    /\ user.pc = "mounted" \/ w = "monmap"
    /\ w = "monmap" => Members(mon.latest[w] + 1) \cap mon.up # {}
    /\ mon' = [mon EXCEPT !.latest[w] = @ + 1]
    /\ UNCHANGED <<c, user, phase>>

(* discard_queue() removes the messages of this connection; events and what *)
(* came over connections before it stay.                                    *)
Kept(queue) ==
    FoldLeft(LAMBDA q, e : IF e.stale \/ e.m.type = "connect" THEN Append(q, e) ELSE q, <<>>, queue)

(* The connection breaks: what was not dispatched is dropped with it, but   *)
(* for the message whose handler may be waiting for the lock.               *)
Broken(kept) ==
    IF c.con.state # "open" THEN c
    ELSE [c EXCEPT !.con.state = "broken", !.con.out = <<>>,
                   !.queue = SubSeq(@, 1, kept) \o <<Queued([type |-> "reset"])>>
                               \o Kept(SubSeq(@, kept + 1, Len(@)))]

ConBreaks ==
    \E kept \in 0 .. Min({1, Len(c.queue)}) :
        /\ c.con.state = "open"
        /\ Spend("break")
        /\ c' = Broken(kept)
        /\ UNCHANGED <<mon, user, phase>>

(* A monitor stops: with a reset of its connection, or unnoticed.           *)
MonStops ==
    \E n \in mon.up, noticed \in BOOLEAN :
        /\ Spend("stop")
        /\ (mon.up \ {n}) \cap Members(mon.latest["monmap"]) # {}
        /\ mon' = [mon EXCEPT !.up = @ \ {n}]
        /\ c' = IF noticed /\ c.con.mon = n THEN Broken(0) ELSE c
        /\ UNCHANGED <<user, phase>>

(* A monitor forgets the subscriptions that were not renewed in time.       *)
SubsLapse ==
    /\ c.con.overdue /\ c.con.subs # NoSubs
    /\ Spend("forget")
    /\ c' = [c EXCEPT !.con.subs = NoSubs]
    /\ UNCHANGED <<mon, user, phase>>

-----------------------------------------------------------------------------
Init ==
    /\ budget \in Scenarios
    /\ c = [state |-> "NONE", cur_mon |-> None, con |-> NoCon, queue |-> <<>>, hunting |-> TRUE,
            monmap |-> 0, waiting |-> <<>>, subs |-> NoSubs, renew_due |-> TRUE, renew_sent |-> FALSE,
            auth |-> [handler |-> FALSE, starting |-> FALSE, valid |-> {}], authenticate_err |-> "0",
            reqs |-> {}, finisher_queue |-> <<>>, batch |-> <<>>, finisher |-> "asleep",
            finisher_stop |-> FALSE, timer |-> TRUE, failed |-> {}]
    /\ mon = [up |-> Mon, latest |-> [w \in What |-> 1]]
    /\ user = [pc |-> "init", have |-> [w \in {"osdmap", "mdsmap"} |-> 0], waits |-> 0, checks |-> {}, statfs |-> FALSE,
               floor |-> [v \in 1 .. 2 |-> 0], got |-> [v \in 1 .. 2 |-> 0]]
    /\ phase = "up"

Next ==
    /\ c.failed = {}
    /\ \/ Dispatch \/ Tick \/ RenewalDue \/ TicketsExpire \/ OsdSendsMap
       \/ FinisherTakes \/ FinisherRuns \/ FinisherSleeps \/ FinisherExits
       \/ ClientInit \/ authenticate \/ AuthenticateReturns \/ AuthenticateTimesOut
       \/ AskVersion \/ get_fs_stats \/ WaitForMap \/ Shutdown \/ FinisherStop \/ ShutdownEnds
       \/ MonServes \/ ConBreaks \/ MonStops \/ SubsLapse
       \/ \E w \in What : MonSends(w) \/ Publish(w)

Spec == Init /\ [][Next]_vars

(* The client's threads run: what is queued is dispatched, the finisher     *)
(* works, callers go on, and the timer comes round when there is something  *)
(* for it to do.                                                            *)
HasToTick ==
    /\ c.timer
    /\ \/ c.hunting /\ (Quiet(c) \/ ~Answers(c))
       \/ c.state = "HAVE_SESSION" /\ ~Answers(c) /\ c.cur_mon # None
       \/ /\ ~c.hunting /\ c.cur_mon # None /\ Quiet(c)
          /\ \/ c.state = "HAVE_SESSION" /\ need(c.auth) # {}
             \/ c.renew_due /\ c.subs # NoSubs /\ c.state = "HAVE_SESSION"

ThreadsRun ==
    /\ []<>(c.queue = <<>>)
    /\ []<>~HasToTick
    /\ []<>(c.batch = <<>>)
    /\ []<>(c.finisher_queue = <<>> \/ c.finisher = "off")
    /\ []<>(user.pc \notin {"init", "mounting", "failed"} \/ phase # "up")
    /\ []<>(user.pc # "authenticating" \/ ~(c.state = "HAVE_SESSION" \/ c.authenticate_err # "0"))
    /\ []<>(phase # "stopping")
    /\ []<>~(phase = "joining")

(* A monitor that is reached answers and sends the maps it was asked for.   *)
MonitorsServe ==
    /\ []<>(c.con.out = <<>> \/ ~Answers(c))
    /\ \A w \in What : []<>~Sends(w)

FairSpec == Spec /\ ThreadsRun /\ MonitorsServe

-----------------------------------------------------------------------------
(* The values of the fields of MonClient and of its callers. *)
TypeOK ==
    /\ c.state \in {"NONE", "NEGOTIATING", "AUTHENTICATING", "HAVE_SESSION"}
    /\ c.cur_mon \in Mon \cup {None}
    /\ c.monmap \in 0 .. Len(MonMaps)
    /\ c.auth.valid \subseteq Ticket
    /\ c.finisher \in {"asleep", "running", "off"}
    /\ user.waits \in 0 .. MaxVersion

(* Every variable has its type and no assertion fails: a monitor is chosen  *)
(* whenever a message is sent or a monmap comes in, also around shutdown(), *)
(* and no answer of the handshake comes that cephx does not expect.         *)
NoAssertFails == TypeOK /\ c.failed = {}

(* HAVE_SESSION means that the monitor at the other end of cur_con, and not *)
(* the one before it, has authenticated the client; and the version that a  *)
(* callback of get_version() is given is not older than the newest one of   *)
(* the moment it was asked for.                                             *)
SessionIsAuthenticated ==
    /\ c.state = "HAVE_SESSION" /\ c.cur_mon # None => c.con.session = "authenticated"
    /\ \A v \in DOMAIN user.got : user.got[v] # 0 => user.got[v] >= user.floor[v]

Denied == c.authenticate_err = "EPERM"

(* authenticate() and shutdown() return, and the version an operation asked *)
(* for and the answer to a statfs arrive, however often the session moves   *)
(* to another monitor: unless the client is shut down or a monitor refused  *)
(* it, after which _finish_hunting() has ended the search.  And the client  *)
(* gets every MDS map, the OSD map that somebody waits for, and new tickets *)
(* for those that expired, across lost sessions, monitors that leave,       *)
(* subscriptions that lapse and maps that OSDs send.                        *)
EveryoneIsServed ==
    /\ user.pc = "authenticating" ~> user.pc # "authenticating"
    /\ phase = "stopping" ~> phase = "down"
    /\ \A v \in 1 .. 2 : v \in user.checks ~> v \notin user.checks \/ Denied
    /\ user.statfs ~> ~user.statfs \/ Denied
    /\ \A v \in 1 .. MaxVersion :
        /\ (mon.latest["mdsmap"] = v /\ user.pc = "mounted")
              ~> (user.have["mdsmap"] >= v \/ phase # "up" \/ Denied)
        /\ (user.waits = v /\ mon.latest["osdmap"] >= v)
              ~> (user.have["osdmap"] >= v \/ phase # "up" \/ Denied)
    /\ (c.state = "HAVE_SESSION" /\ need(c.auth) # {})
          ~> (need(c.auth) = {} \/ phase # "up" \/ Denied)
=============================================================================
