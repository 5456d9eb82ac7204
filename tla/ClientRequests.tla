--------------------------- MODULE ClientRequests ---------------------------
(***************************************************************************)
(* client/Client: requests to metadata servers (MDS) and the sessions they *)
(* travel on.  A caller blocks in make_request() until the dispatch thread *)
(* hands it a reply; an MDS may answer twice, first "unsafe" (done) and    *)
(* then "safe" (on disk), may forward the request, or may fail and come    *)
(* back as another incarnation to which the client reconnects.             *)
(*                                                                         *)
(* Everything runs under client_lock, so a step is what a thread does      *)
(* between two waits.  A Connection is the ordered, reliable channel that  *)
(* module Pipe implements; it ends with the MDS incarnation or with        *)
(* mark_down().  The MDS and the monitor are external.                     *)
(***************************************************************************)
EXTENDS Integers, Sequences, FiniteSets, SequencesExt

CONSTANTS
    Req,            \* the requests, each made by a caller of its own
    Rank,           \* MDS ranks
    Auth,           \* Auth[q]: the rank that executes q
    Scenarios,      \* what may go wrong, and how often
    None            \* MDS_RANK_NONE, -1

ASSUME NoneAssumption == None \notin Rank
ASSUME AuthAssumption == Auth \in [Req -> Rank]

(* How many times which ranks fail, a reconnect comes too late, a client is *)
(* evicted, an MDS answers ESTALE and a mount times out; whether requests   *)
(* go to the wrong MDS, and whether the client unmounts; the export_targets *)
(* of each rank in the MDSMap.                                              *)
Budget ==
    [crash : Nat, fragile : SUBSET Rank, late : Nat, evict : Nat, estale : Nat,
     abort : Nat, strays : BOOLEAN, unmounts : BOOLEAN, targets : [Rank -> SUBSET Rank]]

ASSUME ScenariosAssumption == Scenarios \subseteq Budget

VARIABLES
    budget,         \* what may still go wrong
    mds,            \* mds[r]: the server (external)
    maps,           \* MDSMaps on their way to the client, oldest first
    inbox,          \* inbox[r]: messages and reset events from r, in order
    c,              \* the client
    dispatcher,     \* the reply whose caller has to answer first, or Idle
    phase,          \* where Client::mount() and unmount() are
    seen,           \* history: seen[q], the requests that had returned when q began
    denied          \* history: the ranks that dropped the session by themselves

vars == <<budget, mds, maps, inbox, c, dispatcher, phase, seen, denied>>

Idle == [q |-> None, safe |-> FALSE]
NoSession == [state |-> "none", con |-> 0, inc |-> 0, up |-> FALSE, unsafe |-> <<>>]

(* "on" is the session whose waiting_for_open list holds the caller, "item"  *)
(* the session whose requests list holds the request; "sig" says that       *)
(* caller_cond has been signalled, "retried" that retry_attempt > 0.        *)
NewRequest ==
    [tid |-> 0, oldest |-> 0, mds |-> None, resend_mds |-> None, retried |-> FALSE,
     got_unsafe |-> FALSE, reply |-> "none", kick |-> FALSE, aborted |-> FALSE,
     caller_cond |-> "null", sig |-> FALSE, dispatch_cond |-> FALSE,
     item |-> None, on |-> None]

ByTid(x, S) == SetToSortSeq(S, LAMBDA a, b : x.req[a].tid < x.req[b].tid)
Fail(x, why) == [x EXCEPT !.failed = @ \cup {why}]

-----------------------------------------------------------------------------
(* The MDSMap.  The states below RECONNECT are "down", those between        *)
(* RECONNECT and ACTIVE are "reconnect".                                    *)

Up(m) == {r \in Rank : m[r].state # "down"}
is_active(m, r) == r \in Rank /\ m[r].state = "active"

-----------------------------------------------------------------------------
(* Sending.  All of these take the client's state and return the next one. *)

have_open_session(x, r) == x.sess[r].state \in {"open", "stale"}

(* con->send_message(): the message is lost once the connection is marked  *)
(* down or the incarnation it leads to is gone.                            *)
Send(x, r, m) ==
    IF x.sess[r].up /\ x.sess[r].inc = mds[r].inc /\ mds[r].state # "down"
    THEN [x EXCEPT !.out[r] = Append(@, [con |-> x.sess[r].con] @@ m)]
    ELSE x

Connect(x, r) ==
    [x EXCEPT !.cons[r] = @ + 1,
              !.sess[r].con = x.cons[r] + 1,
              !.sess[r].inc = x.mdsmap[r].inc,
              !.sess[r].up = TRUE]

_open_mds_session(x, r) ==
    LET fresh == [x EXCEPT !.sess[r] = [NoSession EXCEPT !.state = "opening"]]
    IN  IF x.sess[r].state # "none"
        THEN Fail(x, "mds_sessions.count(mds) == 0")
        ELSE Send(Connect(fresh, r), r, [type |-> "open"])

_get_or_open_mds_session(x, r) ==
    IF x.sess[r].state = "none" THEN _open_mds_session(x, r) ELSE x

_close_mds_session(x, r) ==
    Send([x EXCEPT !.sess[r].state = "closing"], r, [type |-> "close"])

connect_mds_targets(x, r) ==
    LET missing == {t \in budget.targets[r] : x.sess[t].state = "none" /\ is_active(x.mdsmap, t)}
    IN  FoldSet(LAMBDA t, y : _open_mds_session(y, t), x, missing)

forget(x, q) ==
    [x EXCEPT !.pending = @ \ {q},
              !.req[q].item = None,
              !.sess = [r \in Rank |-> [@[r] EXCEPT !.unsafe = SelectSeq(@, LAMBDA p : p # q)]]]

send_request(x, q, r) ==
    IF x.req[q].aborted
    THEN [x EXCEPT !.pending = @ \ {q}, !.req[q].item = None]
    ELSE Send([x EXCEPT !.req[q].mds = r, !.req[q].retried = TRUE, !.req[q].item = r],
              r, [type |-> "request", q |-> q, replay |-> x.req[q].got_unsafe,
                  oldest |-> x.req[q].oldest])

send_requests(x, s, r) == FoldLeft(LAMBDA y, q : send_request(y, q, r), x, s)

(* new requests only *)
kick_requests(x, r) ==
    send_requests(x, ByTid(x, {q \in x.pending : /\ ~x.req[q].got_unsafe
                                                 /\ ~x.req[q].retried
                                                 /\ x.req[q].mds = r}), r)

(* A mutant: the requests without an answer go before the unsafe ones. *)
resend_unsafe_requests_last(x, r) ==
    LET old == {q \in x.pending : ~x.req[q].got_unsafe /\ x.req[q].retried /\ x.req[q].mds = r}
    IN  send_requests(x, ByTid(x, old) \o x.sess[r].unsafe, r)

(* The unsafe requests in the order they were answered, then the old       *)
(* requests in the order they were made.                                   *)
resend_unsafe_requests(x, r) ==
    LET old == {q \in x.pending : ~x.req[q].got_unsafe /\ x.req[q].retried /\ x.req[q].mds = r}
    IN  send_requests(x, x.sess[r].unsafe \o ByTid(x, old), r)

send_reconnect(x, r) ==
    LET resent == resend_unsafe_requests(connect_mds_targets(x, r), r)
    IN  [Send(resent, r, [type |-> "reconnect"]) EXCEPT !.mount_cond = TRUE]

-----------------------------------------------------------------------------
(* Waking. *)

(* caller_cond->Signal(): undefined without a caller behind caller_cond. *)
SignalCaller(x, q) ==
    IF x.req[q].caller_cond = "live" THEN [x EXCEPT !.req[q].sig = TRUE]
                                     ELSE Fail(x, "caller_cond")

signal_waiting_for_open(x, r) ==
    [x EXCEPT !.pc = [q \in Req |-> IF @[q] = "open" /\ x.req[q].on = r THEN "run" ELSE @[q]]]

signal_waiting_for_mdsmap(x) ==
    [x EXCEPT !.pc = [q \in Req |-> IF @[q] = "map" THEN "run" ELSE @[q]]]

Closed(x, r) == {q \in x.pending : x.req[q].mds = r}

(* A mutant: the callers of the session's requests are not told. *)
kick_requests_closed_silent(x, r) ==
    LET y == [x EXCEPT !.req = [q \in Req |->
                 IF q \in Closed(x, r) THEN [@[q] EXCEPT !.item = None] ELSE @[q]]]
    IN  FoldSet(LAMBDA q, z : forget(z, q), y, {q \in Closed(x, r) : x.req[q].got_unsafe})

kick_requests_closed(x, r) ==
    LET kicked(q) == IF x.req[q].caller_cond # "null" THEN [x.req[q] EXCEPT !.kick = TRUE, !.sig = TRUE]
                                                      ELSE x.req[q]
        y == [x EXCEPT !.req = [q \in Req |->
                 IF q \in Closed(x, r) THEN [kicked(q) EXCEPT !.item = None] ELSE @[q]]]
        z == FoldSet(LAMBDA q, w : forget(w, q), y, {q \in Closed(x, r) : x.req[q].got_unsafe})
        dangling == \E q \in Closed(x, r) : x.req[q].caller_cond = "dead"
        left == z.sess[r].unsafe # <<>> \/ \E q \in Req : z.req[q].item = r
    IN  [z EXCEPT !.failed = @ \cup (IF dangling THEN {"caller_cond"} ELSE {})
                               \cup (IF left THEN {"session->requests.empty()"} ELSE {})]

_closed_mds_session(x, r) ==
    LET y == [signal_waiting_for_open(x, r) EXCEPT !.mount_cond = TRUE]
    IN  [kick_requests_closed(y, r) EXCEPT !.sess[r] = NoSession]

-----------------------------------------------------------------------------
(* make_request(), from one wait of the caller to the next. *)

(* resend_mds if it is set; otherwise the MDS that the caps, the fragment  *)
(* tree or a random choice among the up ranks point at.                    *)
choose_target_mds(x, q) ==
    LET hints == IF budget.strays
                 THEN Up(x.mdsmap) \cup {r \in Rank : x.sess[r].state # "none"}
                 ELSE {Auth[q]}
    IN  IF x.req[q].resend_mds # None THEN {x.req[q].resend_mds}
        ELSE IF hints = {} THEN {None} ELSE hints

TimedOut(x, q) ==
    LET y == IF x.req[q].retried THEN x ELSE [x EXCEPT !.pending = @ \ {q}, !.req[q].item = None]
        z == [y EXCEPT !.pc[q] = "timedout",
                       !.req[q].caller_cond = IF @ = "live" THEN "dead" ELSE @]
    IN  IF x.req[q].got_unsafe THEN Fail(z, "!request->got_unsafe") ELSE z

(* One round of the loop with target r. *)
Try(x, q, r) ==
    LET y == [x EXCEPT !.req[q].caller_cond = "live", !.req[q].sig = FALSE,
                       !.req[q].resend_mds = None]
        opened == _get_or_open_mds_session(y, r)
    IN  IF ~is_active(y.mdsmap, r) THEN [y EXCEPT !.pc[q] = "map"]
        ELSE IF have_open_session(y, r)
        THEN [send_request(y, q, r) EXCEPT !.pc[q] = "reply", !.req[q].kick = FALSE,
                                           !.req[q].sig = y.req[q].reply # "none"]
        ELSE IF opened.sess[r].state = "opening"
        THEN [opened EXCEPT !.pc[q] = "open", !.req[q].on = r]
        ELSE [opened EXCEPT !.pc[q] = "run"]

Again(x, q) ==
    IF x.req[q].aborted
    THEN c' = TimedOut(x, q)
    ELSE \E r \in choose_target_mds(x, q) : c' = Try(x, q, r)

(* A mutant: the request calls itself the oldest one. *)
OldestSelf(x) == x.last_tid + 1

(* mds_requests.begin()->first, the new request included. *)
Oldest(x) ==
    LET tids == {x.req[q].tid : q \in x.pending} \cup {x.last_tid + 1}
    IN  CHOOSE t \in tids : \A u \in tids : t <= u

make_request(q) ==
    /\ c.pc[q] = "idle"
    /\ phase = "mounted" \/ (phase = "mounting" /\ \A p \in Req : c.pc[p] = "idle")
    /\ Again([c EXCEPT !.last_tid = @ + 1,
                       !.pending = @ \cup {q},
                       !.req[q].tid = c.last_tid + 1,
                       !.req[q].oldest = Oldest(c)], q)
    /\ seen' = [seen EXCEPT ![q] = {p \in Req : c.pc[p] = "done"}]
    /\ UNCHANGED <<budget, mds, maps, inbox, dispatcher, phase, denied>>

(* The session opened or closed, or there is a new MDSMap. *)
Retry(q) ==
    /\ c.pc[q] = "run"
    /\ Again(c, q)
    /\ UNCHANGED <<budget, mds, maps, inbox, dispatcher, phase, seen, denied>>

(* reply, forward or kick *)
Woken(q) ==
    LET x == [c EXCEPT !.req[q].caller_cond = "null", !.req[q].sig = FALSE]
        ok == c.req[q].reply = "ok"
    IN  /\ c.pc[q] = "reply" /\ c.req[q].sig
        /\ \/ c.req[q].reply # "none"
           \/ c.req[q].resend_mds # None
           \/ c.req[q].kick
        /\ IF c.req[q].reply = "none"
           THEN Again(x, q) /\ UNCHANGED phase
           ELSE /\ c' = IF ~c.req[q].dispatch_cond
                        THEN Fail(x, "request->dispatch_cond")
                        ELSE [x EXCEPT !.req[q].reply = "none",
                                       !.req[q].dispatch_cond = FALSE,
                                       !.pc[q] = IF ok THEN "done" ELSE "estale"]
                /\ phase' = IF phase = "mounting" /\ ok THEN "mounted" ELSE phase
        /\ UNCHANGED <<budget, mds, maps, inbox, dispatcher, seen, denied>>

-----------------------------------------------------------------------------
(* The dispatch thread: ms_dispatch() of the next message of rank r, and    *)
(* ms_handle_remote_reset().                                                *)

Unmounting == phase \in {"draining", "closing"}

(* Only a message that came over the connection the session uses counts. *)
_get_mds_session(r, m) == c.sess[r].state # "none" /\ c.sess[r].con = m.con

Receive(r, type) ==
    /\ dispatcher = Idle
    /\ inbox[r] # <<>> /\ Head(inbox[r]).type = type
    /\ inbox' = [inbox EXCEPT ![r] = Tail(@)]

handle_client_session_open(r) ==
    LET m == Head(inbox[r])
        x == [c EXCEPT !.sess[r].state = "open"]
        y == IF Unmounting THEN [x EXCEPT !.mount_cond = TRUE] ELSE connect_mds_targets(x, r)
    IN  /\ Receive(r, "open")
        /\ c' = IF _get_mds_session(r, m) THEN signal_waiting_for_open(y, r) ELSE c
        /\ UNCHANGED <<budget, mds, maps, dispatcher, phase, seen, denied>>

handle_client_session_close(r) ==
    LET m == Head(inbox[r])
    IN  /\ Receive(r, "close")
        /\ c' = IF _get_mds_session(r, m) THEN _closed_mds_session(c, r) ELSE c
        /\ UNCHANGED <<budget, mds, maps, dispatcher, phase, seen, denied>>

handle_client_request_forward(r) ==
    LET m == Head(inbox[r])
        x == [c EXCEPT !.req[m.q].retried = FALSE, !.req[m.q].mds = None,
                       !.req[m.q].resend_mds = m.dest]
    IN  /\ Receive(r, "forward")
        /\ c' = IF _get_mds_session(r, m) /\ m.q \in c.pending THEN SignalCaller(x, m.q) ELSE c
        /\ UNCHANGED <<budget, mds, maps, dispatcher, phase, seen, denied>>

(* A mutant: the session keeps no list of unsafe requests. *)
GotReplyUnlisted(r, m) ==
    LET x == [c EXCEPT !.req[m.q].reply = IF m.type = "estale" THEN "estale" ELSE "ok",
                       !.req[m.q].got_unsafe = @ \/ ~m.safe]
    IN  IF c.req[m.q].reply # "none" THEN Fail(x, "request->reply == NULL") ELSE x

(* request->reply = reply; an unsafe one goes on the session's list. *)
GotReply(r, m) ==
    LET x == [c EXCEPT !.req[m.q].reply = IF m.type = "estale" THEN "estale" ELSE "ok",
                       !.req[m.q].got_unsafe = @ \/ ~m.safe,
                       !.sess[r].unsafe = IF m.safe THEN @ ELSE Append(@, m.q)]
    IN  IF c.req[m.q].reply # "none" THEN Fail(x, "request->reply == NULL") ELSE x

(* A mutant: unmount() is not told that a request is gone. *)
CommittedSilently(x, q, safe) == IF safe THEN forget(x, q) ELSE x

(* The rest of handle_client_reply() once the caller has the reply. *)
Committed(x, q, safe) ==
    LET y == IF safe THEN forget(x, q) ELSE x
    IN  [y EXCEPT !.mount_cond = @ \/ Unmounting]

(* Only the first reply is for the caller, and the dispatcher then waits.   *)
Deliver(r, m) ==
    IF ~m.safe \/ ~c.req[m.q].got_unsafe
    THEN /\ c' = SignalCaller([GotReply(r, m) EXCEPT !.req[m.q].dispatch_cond = TRUE], m.q)
         /\ dispatcher' = [q |-> m.q, safe |-> m.safe]
    ELSE /\ c' = Committed(GotReply(r, m), m.q, m.safe)
         /\ UNCHANGED dispatcher

(* A mutant: a second unsafe reply is not recognised. *)
UnwantedReplyButUnsafe(r, m) == ~_get_mds_session(r, m) \/ m.q \notin c.pending

UnwantedReply(r, m) ==
    \/ ~_get_mds_session(r, m)
    \/ m.q \notin c.pending
    \/ c.req[m.q].got_unsafe /\ ~m.safe

handle_client_reply(r) ==
    LET m == Head(inbox[r])
    IN  /\ Receive(r, "reply")
        /\ IF UnwantedReply(r, m) THEN UNCHANGED <<c, dispatcher>> ELSE Deliver(r, m)
        /\ UNCHANGED <<budget, mds, maps, phase, seen, denied>>

(* -ESTALE: try the MDS that is authoritative now; "moved" says that the    *)
(* inode's cap has migrated since the request was sent.                     *)
handle_client_reply_estale(r) ==
    LET m == Head(inbox[r])
    IN  /\ Receive(r, "estale")
        /\ IF UnwantedReply(r, m) THEN UNCHANGED <<c, dispatcher>>
           ELSE \E t \in choose_target_mds(c, m.q), moved \in BOOLEAN :
                    IF t # None /\ t = c.req[m.q].mds /\ ~moved
                    THEN Deliver(r, m)
                    ELSE /\ c' = SignalCaller([c EXCEPT !.req[m.q].resend_mds = t], m.q)
                         /\ UNCHANGED dispatcher
        /\ UNCHANGED <<budget, mds, maps, phase, seen, denied>>

Kickback ==
    /\ dispatcher # Idle
    /\ ~c.req[dispatcher.q].dispatch_cond
    /\ c' = Committed(c, dispatcher.q, dispatcher.safe)
    /\ dispatcher' = Idle
    /\ UNCHANGED <<budget, mds, maps, inbox, phase, seen, denied>>

(* The session is found by the address the MDSMap gives for its rank. *)
ms_handle_remote_reset(r) ==
    LET mine == Head(inbox[r]).inc = c.mdsmap[r].inc
        on == {q \in Req : c.pc[q] = "open" /\ c.req[q].on = r}
        reopened == _get_or_open_mds_session(_closed_mds_session(c, r), r)
    IN  /\ Receive(r, "reset")
        /\ c' = CASE mine /\ c.sess[r].state = "closing" -> _closed_mds_session(c, r)
                  [] mine /\ c.sess[r].state = "opening" ->
                        [reopened EXCEPT !.pc = [q \in Req |-> IF q \in on THEN "open" ELSE @[q]]]
                  [] mine /\ c.sess[r].state = "open" -> [c EXCEPT !.sess[r].state = "stale"]
                  [] OTHER -> c
        /\ UNCHANGED <<budget, mds, maps, dispatcher, phase, seen, denied>>

(* What a new MDSMap means for the session with r. *)
MapSession(x, r) ==
    LET old == c.mdsmap[r].state
        new == x.mdsmap[r].state
        lost == new = "down" \/ x.mdsmap[r].inc # x.sess[r].inc
        x1 == IF lost THEN [x EXCEPT !.sess[r].up = FALSE,
                                     !.sess[r].inc = IF new = "down" THEN @ ELSE x.mdsmap[r].inc]
                      ELSE x
        x2 == IF new = "reconnect" THEN send_reconnect(Connect(x1, r), r) ELSE x1
        x3 == IF old = "active" THEN x2 ELSE signal_waiting_for_open(kick_requests(x2, r), r)
    IN  IF ~lost /\ old = new THEN x
        ELSE IF new = "active" THEN connect_mds_targets(x3, r)
        ELSE x2

handle_mds_map ==
    LET x == [c EXCEPT !.mdsmap = Head(maps)]
        live == {r \in Rank : c.sess[r].state # "none"}
    IN  /\ dispatcher = Idle
        /\ maps # <<>>
        /\ maps' = Tail(maps)
        /\ c' = signal_waiting_for_mdsmap(FoldSet(LAMBDA r, y : MapSession(y, r), x, live))
        /\ UNCHANGED <<budget, mds, inbox, dispatcher, phase, seen, denied>>

-----------------------------------------------------------------------------
(* Other threads. *)

(* the kick_stale_sessions command of the admin socket *)
_kick_stale_sessions ==
    LET stale == {r \in Rank : c.sess[r].state = "stale"}
    IN  /\ stale # {}
        /\ c' = FoldSet(LAMBDA r, x : _closed_mds_session(x, r), c, stale)
        /\ UNCHANGED <<budget, mds, maps, inbox, dispatcher, phase, seen, denied>>

(* tick(): the mount request has timed out. *)
tick ==
    LET q == CHOOSE p \in c.pending : \A o \in c.pending : c.req[p].tid <= c.req[o].tid
        x == [c EXCEPT !.req[q].aborted = TRUE,
                       !.req[q].kick = @ \/ c.req[q].caller_cond = "live",
                       !.req[q].sig = @ \/ c.req[q].caller_cond = "live"]
        y == signal_waiting_for_mdsmap(x)
    IN  /\ phase = "mounting" /\ c.pending # {} /\ budget.abort > 0
        /\ budget' = [budget EXCEPT !.abort = @ - 1]
        /\ c' = FoldSet(LAMBDA r, z : signal_waiting_for_open(z, r), y, Rank)
        /\ UNCHANGED <<mds, maps, inbox, dispatcher, phase, seen, denied>>

(* unmount(), from one wait on mount_cond to the next: first for the        *)
(* requests, then for the sessions, closing those that are not closing.     *)
Unmount(x) ==
    LET open == {r \in Rank : x.sess[r].state \notin {"none", "closing"}}
    IN  IF phase # "closing" /\ x.pending # {}
        THEN c' = x /\ phase' = "draining"
        ELSE /\ c' = FoldSet(LAMBDA r, y : _close_mds_session(y, r), x, open)
             /\ phase' = IF \A r \in Rank : x.sess[r].state = "none" THEN "unmounted" ELSE "closing"

unmount ==
    /\ phase = "mounted" /\ budget.unmounts
    /\ Unmount([c EXCEPT !.mount_cond = FALSE])
    /\ UNCHANGED <<budget, mds, maps, inbox, dispatcher, seen, denied>>

unmount_woken ==
    /\ Unmounting /\ c.mount_cond
    /\ Unmount([c EXCEPT !.mount_cond = FALSE])
    /\ UNCHANGED <<budget, mds, maps, inbox, dispatcher, seen, denied>>

-----------------------------------------------------------------------------
(* The metadata servers and the monitor (external).  An MDS executes a      *)
(* request in memory, may answer it at once, and answers it again when it   *)
(* is journaled; the journal, the open sessions and the requests completed  *)
(* (until oldest_client_tid passes them) survive it.                        *)

Log(r) == mds[r].journal \o mds[r].mem

Publish(r, state, inc) ==
    maps' = Append(maps, [(IF maps = <<>> THEN c.mdsmap ELSE Last(maps))
                            EXCEPT ![r] = [state |-> state, inc |-> inc]])

Reply(r, m) == inbox' = [inbox EXCEPT ![r] = Append(@, m)]

MdsOpen(r, m) ==
    /\ m.type = "open"
    /\ mds' = [mds EXCEPT ![r].session = TRUE, ![r].con = m.con]
    /\ Reply(r, [type |-> "open", con |-> m.con])
    /\ UNCHANGED budget

(* A close, or a reconnect that comes too late. *)
MdsClose(r, m) ==
    /\ m.type \in {"close", "reconnect"}
    /\ mds' = [mds EXCEPT ![r].session = @ /\ m.type = "reconnect"]
    /\ IF mds[r].session = (m.type = "close")
       THEN Reply(r, [type |-> "close", con |-> m.con])
       ELSE UNCHANGED inbox
    /\ UNCHANGED budget

MdsRequest(r, m) ==
    LET q == m.q
        trimmed == {p \in mds[r].completed : c.req[p].tid >= m.oldest}
        here == [mds[r] EXCEPT !.completed = trimmed, !.con = m.con]
        reply(type, safe) == Reply(r, [type |-> type, con |-> m.con, q |-> q, safe |-> safe])
    IN  /\ m.type = "request"
        /\ \/ /\ ~mds[r].session
              /\ UNCHANGED <<mds, inbox, budget>>
           \/ /\ mds[r].session /\ Auth[q] # r
              /\ mds' = [mds EXCEPT ![r] = here]
              /\ Reply(r, [type |-> "forward", con |-> m.con, q |-> q, dest |-> Auth[q]])
              /\ UNCHANGED budget
           \/ /\ mds[r].session /\ Auth[q] = r /\ q \in trimmed
              /\ mds' = [mds EXCEPT ![r] = here]
              /\ reply("reply", TRUE)
              /\ UNCHANGED budget
           \/ /\ mds[r].session /\ Auth[q] = r /\ q \notin trimmed
              /\ mds' = [mds EXCEPT ![r] = [here EXCEPT !.mem = Append(@, q)]]
              /\ reply("reply", FALSE) \/ UNCHANGED inbox
              /\ UNCHANGED budget
           \/ /\ mds[r].session /\ budget.estale > 0 /\ ~m.replay
              /\ q \notin trimmed
              /\ mds' = [mds EXCEPT ![r] = here]
              /\ reply("estale", TRUE)
              /\ budget' = [budget EXCEPT !.estale = @ - 1]

MdsHandle(r) ==
    /\ mds[r].state = "active" /\ c.out[r] # <<>>
    /\ LET m == Head(c.out[r]) IN MdsOpen(r, m) \/ MdsClose(r, m) \/ MdsRequest(r, m)
    /\ c' = [c EXCEPT !.out[r] = Tail(@)]
    /\ UNCHANGED <<maps, dispatcher, phase, seen, denied>>

MdsJournal(r) ==
    LET q == Head(mds[r].mem)
    IN  /\ mds[r].state = "active" /\ mds[r].mem # <<>>
        /\ mds' = [mds EXCEPT ![r].mem = Tail(@), ![r].journal = Append(@, q),
                              ![r].completed = @ \cup {q}]
        /\ Reply(r, [type |-> "reply", con |-> mds[r].con, q |-> q, safe |-> TRUE])
        /\ UNCHANGED <<budget, c, maps, dispatcher, phase, seen, denied>>

(* What is on the wire from it may still arrive. *)
MdsCrash(r) ==
    /\ budget.crash > 0 /\ r \in budget.fragile /\ mds[r].state # "down"
    /\ budget' = [budget EXCEPT !.crash = @ - 1]
    /\ mds' = [mds EXCEPT ![r].state = "down", ![r].mem = <<>>]
    /\ c' = [c EXCEPT !.out[r] = <<>>]
    /\ \E n \in 0..Len(inbox[r]) : inbox' = [inbox EXCEPT ![r] = SubSeq(@, 1, n)]
    /\ Publish(r, "down", mds[r].inc)
    /\ UNCHANGED <<dispatcher, phase, seen, denied>>

MdsRestart(r) ==
    /\ mds[r].state = "down"
    /\ mds' = [mds EXCEPT ![r].state = "reconnect", ![r].inc = @ + 1]
    /\ Publish(r, "reconnect", mds[r].inc + 1)
    /\ UNCHANGED <<budget, c, inbox, dispatcher, phase, seen, denied>>

(* The client with a session reconnects, and is told that it is open. *)
MdsActive(r) ==
    LET back == {i \in DOMAIN c.out[r] : c.out[r][i].type = "reconnect"}
        i == CHOOSE j \in back : TRUE
        con == c.out[r][i].con
    IN  /\ mds[r].state = "reconnect"
        /\ mds[r].session => back # {}
        /\ IF mds[r].session
           THEN /\ mds' = [mds EXCEPT ![r].state = "active", ![r].con = con]
                /\ c' = [c EXCEPT !.out[r] = RemoveAt(@, i)]
                /\ Reply(r, [type |-> "open", con |-> con])
           ELSE /\ mds' = [mds EXCEPT ![r].state = "active"]
                /\ UNCHANGED <<c, inbox>>
        /\ Publish(r, "active", mds[r].inc)
        /\ UNCHANGED <<budget, dispatcher, phase, seen, denied>>

(* It stops waiting for the client and drops the session. *)
MdsReconnectTimeout(r) ==
    /\ mds[r].state = "reconnect" /\ mds[r].session /\ budget.late > 0
    /\ budget' = [budget EXCEPT !.late = @ - 1]
    /\ mds' = [mds EXCEPT ![r].state = "active", ![r].session = FALSE]
    /\ Publish(r, "active", mds[r].inc)
    /\ denied' = denied \cup {<<r, "late">>}
    /\ UNCHANGED <<c, inbox, dispatcher, phase, seen>>

(* It drops the session of a client that was silent for too long: the       *)
(* connection is reset, and nothing more arrives over it.  The end of the   *)
(* session is journaled after what the session did.                         *)
MdsEvict(r) ==
    /\ mds[r].state = "active" /\ mds[r].session /\ budget.evict > 0
    /\ budget' = [budget EXCEPT !.evict = @ - 1]
    /\ mds' = [mds EXCEPT ![r].session = FALSE, ![r].mem = <<>>, ![r].journal = Log(r),
                          ![r].completed = @ \cup ToSet(mds[r].mem)]
    /\ c' = [c EXCEPT !.out[r] = <<>>]
    /\ inbox' = [inbox EXCEPT ![r] = <<[type |-> "reset", inc |-> mds[r].inc]>>]
    /\ denied' = denied \cup {<<r, "evicted">>}
    /\ UNCHANGED <<maps, dispatcher, phase, seen>>

-----------------------------------------------------------------------------
Init ==
    /\ budget \in Scenarios
    /\ mds = [r \in Rank |-> [state |-> "active", inc |-> 1, session |-> FALSE, con |-> 0,
                              mem |-> <<>>, journal |-> <<>>, completed |-> {}]]
    /\ maps = <<>>
    /\ inbox = [r \in Rank |-> <<>>]
    /\ c = [mdsmap |-> [r \in Rank |-> [state |-> "active", inc |-> 1]],
            sess |-> [r \in Rank |-> NoSession], cons |-> [r \in Rank |-> 0],
            req |-> [q \in Req |-> NewRequest], pc |-> [q \in Req |-> "idle"],
            pending |-> {}, last_tid |-> 0, out |-> [r \in Rank |-> <<>>],
            mount_cond |-> FALSE, failed |-> {}]
    /\ dispatcher = Idle
    /\ phase = IF budget.abort > 0 THEN "mounting" ELSE "mounted"
    /\ seen = [q \in Req |-> {}]
    /\ denied = {}

Caller(q) == make_request(q) \/ Retry(q) \/ Woken(q)

Dispatch(r) ==
    \/ handle_client_session_open(r)
    \/ handle_client_session_close(r)
    \/ handle_client_request_forward(r)
    \/ handle_client_reply(r)
    \/ handle_client_reply_estale(r)
    \/ ms_handle_remote_reset(r)

Mds(r) == MdsHandle(r) \/ MdsJournal(r) \/ MdsRestart(r) \/ MdsActive(r)

Fault(r) == MdsCrash(r) \/ MdsReconnectTimeout(r) \/ MdsEvict(r)

(* A failed assertion ends the process. *)
Next ==
    /\ c.failed = {}
    /\ \/ \E q \in Req : Caller(q)
       \/ \E r \in Rank : Dispatch(r) \/ Mds(r) \/ Fault(r)
       \/ Kickback
       \/ handle_mds_map
       \/ _kick_stale_sessions
       \/ tick
       \/ unmount
       \/ unmount_woken

Spec == Init /\ [][Next]_vars

(* Threads that can run do run, and the servers answer.  Nobody has to make *)
(* a request, unmount, run the admin command or let a mount time out.  The  *)
(* steps of the dispatch thread are named by the queue they shorten: no     *)
(* other step does, and each kind of message has its handler.               *)
Running == c.failed = {}

TakesMessage(r) ==
    Running /\ dispatcher = Idle /\ inbox[r] # <<>> /\ inbox' = [inbox EXCEPT ![r] = Tail(@)]
TakesMap == Running /\ dispatcher = Idle /\ maps # <<>> /\ maps' = Tail(maps)
TakesKickback ==
    Running /\ dispatcher # Idle /\ ~c.req[dispatcher.q].dispatch_cond /\ dispatcher' = Idle

Fairness ==
    /\ \A q \in Req : WF_vars(Running /\ Retry(q)) /\ WF_vars(Running /\ Woken(q))
    /\ \A r \in Rank : WF_inbox(TakesMessage(r))
    /\ \A r \in Rank : WF_vars(Running /\ MdsHandle(r)) /\ WF_vars(Running /\ MdsJournal(r))
    /\ \A r \in Rank : WF_vars(Running /\ MdsRestart(r)) /\ WF_vars(Running /\ MdsActive(r))
    /\ WF_dispatcher(TakesKickback)
    /\ WF_maps(TakesMap)
    /\ WF_vars(Running /\ unmount_woken)

FairSpec == Spec /\ Fairness

-----------------------------------------------------------------------------
(* The sessions, requests and waits have the shapes Client.h gives them; a  *)
(* request is on at most one session's unsafe list, and once; the           *)
(* dispatcher waits for at most one caller.                                 *)
TypeOK ==
    /\ budget \in Budget
    /\ phase \in {"mounting", "mounted", "draining", "closing", "unmounted"}
    /\ c.pending \subseteq Req
    /\ c.pc \in [Req -> {"idle", "run", "map", "open", "reply", "done", "estale", "timedout"}]
    /\ \A q \in Req : /\ c.req[q].mds \in Rank \cup {None}
                      /\ c.req[q].resend_mds \in Rank \cup {None}
                      /\ c.req[q].item \in Rank \cup {None}
                      /\ c.req[q].caller_cond \in {"null", "live", "dead"}
    /\ \A r \in Rank : c.sess[r].state \in {"none", "opening", "open", "closing", "stale"}
    /\ IsInjective(FlattenSeq(SetToSeq({c.sess[r].unsafe : r \in Rank})))
    /\ dispatcher.q \in Req \cup {None}

(* No assertion of make_request(), handle_client_reply(),                   *)
(* _open_mds_session() or kick_requests_closed() fails, and no handler      *)
(* signals a caller that has left make_request(); the exception is the      *)
(* late reply to a mount request that timed out, see tick().  The types are *)
(* part of it.                                                              *)
NoAssertFails ==
    /\ TypeOK
    /\ c.failed \subseteq IF \E q \in Req : c.req[q].aborted THEN {"caller_cond"} ELSE {}

(* An operation that a caller was told is done outlives the MDS: it is on   *)
(* the journal, or the client still lists it as unsafe and will send it     *)
(* again when the MDS comes back.  Only an MDS that gives up the client's   *)
(* session takes this away.                                                 *)
AckedIsKept ==
    \A q \in Req :
        c.pc[q] = "done" /\ c.failed = {} =>
            \/ q \in ToSet(mds[Auth[q]].journal)
            \/ q \in ToSet(c.sess[Auth[q]].unsafe)
            \/ Auth[q] \in {d[1] : d \in denied}

(* However often a request is sent, forwarded and replayed, the MDS applies *)
(* it once: no retry comes after oldest_client_tid let the MDS forget it.   *)
(* And a request that was made after another one had returned is applied    *)
(* after it, also when both are replayed to a restarted MDS.                *)
AppliedOnceInOrder ==
    /\ \A r \in Rank : IsInjective(Log(r))
    /\ \A q \in Req : \A p \in seen[q] :
        LET r == Auth[q]
        IN  /\ Auth[p] = r
            /\ r \notin {d[1] : d \in denied}
            => \A j \in DOMAIN Log(r) : Log(r)[j] = q => \E i \in 1..j : Log(r)[i] = p

(* Every caller returns from make_request(), unless its session was reset   *)
(* and is stale, which only the administrator's command ends.  unmount()    *)
(* returns too: it is told of the last request and of every session that    *)
(* closes, also when an MDS restarts meanwhile; an MDS that evicted the     *)
(* client does not answer a close.                                          *)
EveryCallReturns ==
    /\ \A q \in Req :
        c.pc[q] # "idle" ~> \/ c.pc[q] \in {"done", "estale", "timedout"}
                            \/ c.failed # {}
                            \/ \E r \in Rank : c.sess[r].state = "stale"
    /\ Unmounting ~> \/ phase = "unmounted"
                     \/ c.failed # {}
                     \/ \E d \in denied : d[2] = "evicted"

=============================================================================
