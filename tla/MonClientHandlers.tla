------------------------- MODULE MonClientHandlers --------------------------
(* Proofs about MonClient, second part: the handlers of the dispatch thread *)
(* and the timer, and the steps of the client's threads and callers up to   *)
(* the mount.                                                               *)
EXTENDS MonClientSession

(* The first message, if it is an answer of the handshake, is expected. *)
FirstExpected(state, auth, session, out, queue) ==
    FreshAuth(queue, 1) =>
        /\ state # "NONE" /\ (state = "AUTHENTICATING" => ~auth.starting)
        /\ queue[1].m.r \in {"challenge", "ENOTSUP"} => state = "NEGOTIATING"
        /\ queue[1].m.r \in {"key", "tickets"} => state # "NEGOTIATING" /\ session = "authenticated"
        /\ state = "NEGOTIATING" => NoAuth(out, Tail(queue))

(* The first message may be taken from the queue, and if it is an answer of *)
(* the handshake that is not stale then cephx expects it.                   *)
LEMMA HandshakeTail ==
    ASSUME NEW state, NEW auth, NEW session, NEW out \in Seq(Request),
           NEW queue \in Seq(Entry), queue # <<>>,
           Handshake(state, auth, session, out, queue)
    PROVE  /\ Handshake(state, auth, session, out, Tail(queue))
           /\ FirstExpected(state, auth, session, out, queue)
<1> DEFINE tail == Tail(queue)
<1>1. /\ 1 \in DOMAIN queue
      /\ \A i \in DOMAIN tail : i \in Int /\ i + 1 # 1 /\ i + 1 \in DOMAIN queue /\ tail[i] = queue[i + 1]
  OBVIOUS
<1> HIDE DEF tail
<1>2. \A i \in DOMAIN tail : FreshAuth(tail, i) => FreshAuth(queue, i + 1)
  BY <1>1 DEF FreshAuth
<1>3. Handshake(state, auth, session, out, tail)
  <2>1. \A i, j \in DOMAIN tail : i + 1 = j + 1 => i = j
    BY <1>1
  <2> QED
    BY <1>1, <1>2, <2>1 DEF Handshake
<1>4. ASSUME FreshAuth(queue, 1)
      PROVE  /\ state # "NONE" /\ (state = "AUTHENTICATING" => ~auth.starting)
             /\ queue[1].m.r \in {"challenge", "ENOTSUP"} => state = "NEGOTIATING"
             /\ queue[1].m.r \in {"key", "tickets"} => state # "NEGOTIATING" /\ session = "authenticated"
             /\ state = "NEGOTIATING" => NoAuth(out, tail)
  BY <1>1, <1>2, <1>4 DEF Handshake, NoAuth
<1> QED
  BY <1>3, <1>4 DEF tail, FirstExpected

(* The head of the queue is taken from it. *)
Taken(y) == [y EXCEPT !.queue = Tail(@)]

(* What the dispatch thread may rely on when it takes a message: the client *)
(* is sound without it, a version is on behalf of an operation and new      *)
(* enough, and an answer of cephx from the current session is expected.     *)
LEMMA TakenSound ==
    ASSUME NEW floor \in [Asker -> Nat], NEW y, Sound(y, floor), y.queue # <<>>
    PROVE  /\ Sound(Taken(y), floor)
           /\ Taken(y).queue = Tail(y.queue)
           /\ Taken(y).cur_mon = y.cur_mon /\ Taken(y).subs = y.subs /\ Taken(y).timer = y.timer
           /\ Taken(y).con = y.con /\ Taken(y).state = y.state
           /\ Head(y.queue) \in Entry
           /\ Head(y.queue).m.type = "version" =>
                 /\ Head(y.queue).m \in [type : {"version"}, h : Handle, v : Nat]
                 /\ floor[Head(y.queue).m.h[1]] # 0 /\ Head(y.queue).m.v >= floor[Head(y.queue).m.h[1]]
           /\ ~Head(y.queue).stale /\ IsAuth(Head(y.queue).m) /\ y.cur_mon # None =>
                 Head(y.queue).m.r \in AuthReply /\ Expected(Taken(y), Head(y.queue).m.r)
<1> DEFINE z == Taken(y)
           head == Head(y.queue)
<1>1. y \in Client /\ y.con \in Con /\ y.con.out \in Seq(Request) /\ y.queue \in Seq(Entry)
  BY DEF Sound, Client, Con
<1>2. /\ Tail(y.queue) \in Seq(Entry) /\ head = y.queue[1] /\ head \in Entry
      /\ 1 \in DOMAIN y.queue
      /\ \A i \in DOMAIN Tail(y.queue) : i + 1 \in DOMAIN y.queue /\ Tail(y.queue)[i] = y.queue[i + 1]
  BY <1>1
<1>3. z \in Client /\ z.queue = Tail(y.queue)
  BY <1>1, <1>2 DEF Client, Taken
<1>4. /\ z.failed = y.failed /\ z.con = y.con /\ z.waiting = y.waiting /\ z.cur_mon = y.cur_mon
      /\ z.reqs = y.reqs /\ z.finisher_queue = y.finisher_queue /\ z.batch = y.batch
      /\ z.subs = y.subs /\ z.timer = y.timer /\ z.state = y.state /\ z.auth = y.auth
  BY <1>1 DEF Client, Taken
<1> HIDE DEF z
<1>5. Handshake(y.state, y.auth, y.con.session, y.con.out, y.queue)
  BY DEF Sound
<1>6. /\ Handshake(y.state, y.auth, y.con.session, y.con.out, Tail(y.queue))
      /\ FirstExpected(y.state, y.auth, y.con.session, y.con.out, y.queue)
  BY <1>1, <1>5, HandshakeTail
<1>7. Arrives(floor, z.queue)
  BY <1>2, <1>3 DEF Sound, Arrives
<1>8. Sound(z, floor)
  BY <1>3, <1>4, <1>6, <1>7 DEF Sound
<1>9. ASSUME head.m.type = "version"
      PROVE  /\ head.m \in [type : {"version"}, h : Handle, v : Nat]
             /\ floor[head.m.h[1]] # 0 /\ head.m.v >= floor[head.m.h[1]]
  <2>1. head.m \in [type : {"version"}, h : Handle, v : Nat]
    BY <1>2, <1>9 DEF Entry, Event
  <2>2. Arrives(floor, y.queue)
    BY DEF Sound
  <2> QED
    BY <1>2, <1>9, <2>1, <2>2 DEF Arrives
<1>10. ASSUME ~head.stale, IsAuth(head.m), y.cur_mon # None
       PROVE  head.m.r \in AuthReply /\ Expected(z, head.m.r)
  <2>1. head.m.r \in AuthReply
    BY <1>2, <1>10 DEF IsAuth, Entry, Event
  <2>2. FreshAuth(y.queue, 1)
    BY <1>2, <1>10 DEF FreshAuth
  <2>3. y.state \in {"NEGOTIATING", "AUTHENTICATING", "HAVE_SESSION"}
    BY <1>1, <1>6, <2>2 DEF Client, FirstExpected
  <2> QED
    BY <1>2, <1>3, <1>4, <1>6, <1>10, <2>1, <2>2, <2>3 DEF Expected, FirstExpected
<1> QED
  BY <1>2, <1>3, <1>4, <1>8, <1>9, <1>10 DEF z


(* _sub_want() and _sub_got() change one subscription. *)
LEMMA SubsReplaced ==
    ASSUME NEW floor, NEW y, Sound(y, floor), NEW what \in What, NEW sub \in Sub
    PROVE  LET z == [y EXCEPT !.subs[what] = sub]
           IN  /\ Sound(z, floor) /\ z.cur_mon = y.cur_mon /\ z.timer = y.timer
               /\ z.con = y.con /\ z.subs[what] = sub
<1> DEFINE subs == [y.subs EXCEPT ![what] = sub]
           z == [y EXCEPT !.subs = subs]
<1>1. y \in Client /\ y.subs \in [What -> Sub]
  BY DEF Sound, Client
<1>2. subs \in [What -> Sub] /\ subs[what] = sub
  BY <1>1
<1> HIDE DEF subs
<1>3. z \in Client /\ z.subs = subs /\ Agree(y, z) /\ z.timer = y.timer
  BY <1>1, <1>2 DEF Client, Agree
<1> HIDE DEF z
<1>4. Sound(z, floor)
  BY <1>3, AgreeSound
<1>5. z = [y EXCEPT !.subs[what] = sub]
  BY DEF z, subs
<1> QED
  BY <1>2, <1>3, <1>4, <1>5 DEF Agree

(* _sub_got(): a subscription is ended or moves past the map that came in. *)
LEMMA SubGot ==
    ASSUME NEW floor, NEW y, Sound(y, floor), NEW what \in What, NEW got \in Nat
    PROVE  LET z == _sub_got(y, what, got)
           IN  /\ Sound(z, floor) /\ z.cur_mon = y.cur_mon /\ z.timer = y.timer /\ z.con = y.con
               /\ y.subs = NoSubs => z.subs = NoSubs
<1> DEFINE old == y.subs[what]
           sub == [old EXCEPT !.start = got + 1]
<1>1. y \in Client /\ y.subs \in [What -> Sub] /\ old \in Sub
  BY DEF Sound, Client
<1>2. NoSub \in Sub /\ sub \in Sub
  BY <1>1 DEF NoSub, Sub
<1>3. y.subs = NoSubs => ~old.on
  BY DEF NoSubs, NoSub
<1>4. CASE ~old.on
  BY <1>4 DEF _sub_got
<1>5. CASE old.on /\ old.once
  BY <1>2, <1>3, <1>5, SubsReplaced DEF _sub_got
<1>6. CASE old.on /\ ~old.once
  <2>1. _sub_got(y, what, got) = [y EXCEPT !.subs[what] = sub]
    BY <1>6 DEF _sub_got
  <2> HIDE DEF sub
  <2> QED
    BY <1>2, <1>3, <1>6, <2>1, SubsReplaced
<1> QED
  BY <1>4, <1>5, <1>6

(* sub_want() and, if that changed anything, renew_subs(), for a subscription. *)
Wanted(y, what, sub) ==
    IF [y EXCEPT !.subs[what] = sub] = y THEN {y} ELSE _renew_subs([y EXCEPT !.subs[what] = sub])

(* sub_want() and renew_subs(): a subscription is asked for, and if no      *)
(* monitor is chosen yet a session is opened.                               *)
LEMMA WantRenewed ==
    ASSUME NEW floor \in [Asker -> Nat], NEW y, Sound(y, floor), y.cur_mon # None \/ y.subs = NoSubs,
           NEW what \in What, NEW sub \in Sub, sub.on, NEW z \in Wanted(y, what, sub)
    PROVE  Sound(z, floor) /\ z.cur_mon # None /\ z.timer = y.timer
<1> DEFINE w == [y EXCEPT !.subs[what] = sub]
<1>2. w = y \/ z \in _renew_subs(w)
  BY DEF Wanted
<1>3. w = y => z = y
  BY DEF Wanted
<1>4. /\ Sound(w, floor) /\ w.cur_mon = y.cur_mon /\ w.timer = y.timer /\ w.subs[what] = sub
  BY SubsReplaced
<1> HIDE DEF w
<1>5. w.subs # NoSubs
  BY <1>4 DEF NoSubs, NoSub
<1>6. CASE w = y
  BY <1>3, <1>5, <1>6
<1>7. CASE z \in _renew_subs(w) /\ w.cur_mon = None
  <2>1. z \in _reopen_session(w)
    BY <1>5, <1>7 DEF _renew_subs
  <2> QED
    BY <1>4, <2>1, ReopenSound
<1>8. CASE z \in _renew_subs(w) /\ w.cur_mon # None
  <2>1. z = Renewed(w)
    BY <1>8 DEF _renew_subs
  <2> QED
    BY <1>4, <1>8, <2>1, RenewedSound DEF Same
<1> QED
  BY <1>2, <1>6, <1>7, <1>8

(* Objecter::_maybe_request_map() wants the OSD map in one of two ways. *)
LEMMA OsdmapWanted ==
    ASSUME NEW y, NEW have \in Nat, NEW z \in _maybe_request_map(y, have)
    PROVE  \E sub \in Sub : sub.on /\ z \in Wanted(y, "osdmap", sub)
<1> DEFINE sub == [start |-> IF have = 0 THEN 0 ELSE have + 1, once |-> TRUE, on |-> TRUE]
<1>1. sub \in Sub /\ sub.on
  BY DEF Sub
<1>2. z \in Wanted(y, "osdmap", sub)
  BY DEF _maybe_request_map, WantAndRenew, _sub_want, Wanted
<1> QED
  BY <1>1, <1>2

(* handle_osd_map() and handle_mds_map(): the subscription has got the map, *)
(* and while an operation waits for an OSD map the next one is asked for.   *)
LEMMA MapHandled ==
    ASSUME NEW floor \in [Asker -> Nat], NEW y, Sound(y, floor), y.cur_mon # None,
           NEW what \in Maps, NEW v \in Nat, NEW have \in Nat, NEW waits \in Nat,
           NEW z \in handle_map(y, what, v, have, waits)
    PROVE  /\ Sound(z, floor) /\ z.cur_mon # None /\ z.timer = y.timer
           /\ y.subs = NoSubs /\ waits = 0 => z.subs = NoSubs
<1> DEFINE now == Max({v, have})
           got == _sub_got(y, what, now)
<1>1. now \in Nat
  BY DEF Max
<1> HIDE DEF now
<1>2. /\ Sound(got, floor) /\ got.cur_mon = y.cur_mon /\ got.timer = y.timer
      /\ y.subs = NoSubs => got.subs = NoSubs
  <2>1. what \in What
    BY DEF Maps, What
  <2> QED
    BY <1>1, <2>1, SubGot
<1>3. z \in {y, got} \/ (waits # 0 /\ z \in _maybe_request_map(got, now))
  BY <1>1 DEF handle_map, now
<1>4. CASE z \in {y, got}
  BY <1>2, <1>4
<1>5. CASE waits # 0 /\ z \in _maybe_request_map(got, now)
  <2>1. PICK sub \in Sub : sub.on /\ z \in Wanted(got, "osdmap", sub)
    BY <1>1, <1>5, OsdmapWanted
  <2> HIDE DEF got
  <2>2. "osdmap" \in What /\ got.cur_mon # None
    BY <1>2 DEF What
  <2>3. Sound(z, floor) /\ z.cur_mon # None /\ z.timer = got.timer
    BY <1>2, <2>1, <2>2, WantRenewed
  <2> QED
    BY <1>2, <1>5, <2>3
<1> QED
  BY <1>3, <1>4, <1>5

(* handle_monmap(): if the monitor at hand is not in the new monmap, a      *)
(* session is opened with one that is.                                      *)
LEMMA MonmapHandled ==
    ASSUME NEW floor \in [Asker -> Nat], NEW y, Sound(y, floor), y.cur_mon # None,
           NEW epoch \in 1 .. Len(MonMaps), NEW z \in handle_monmap(y, epoch)
    PROVE  /\ Sound(z, floor) /\ z.cur_mon # None /\ z.timer = y.timer
           /\ y.subs = NoSubs => z.subs = NoSubs
<1> DEFINE w == [y EXCEPT !.monmap = epoch]
           got == _sub_got(w, "monmap", epoch)
<1>1. y \in Client /\ epoch \in Nat /\ epoch \in 0 .. Len(MonMaps) /\ "monmap" \in What
  BY MonMapsAssumption DEF Sound, What
<1>2. w \in Client /\ Agree(y, w) /\ w.timer = y.timer /\ w.subs = y.subs
  BY <1>1 DEF Client, Agree
<1>3. z = got \/ z \in _reopen_session(got)
  BY DEF handle_monmap
<1> HIDE DEF w
<1>4. Sound(w, floor)
  BY <1>2, AgreeSound
<1>5. /\ Sound(got, floor) /\ got.cur_mon = w.cur_mon /\ got.timer = w.timer
      /\ w.subs = NoSubs => got.subs = NoSubs
  BY <1>1, <1>4, SubGot
<1> HIDE DEF got
<1> QED
  BY <1>2, <1>3, <1>5, ReopenSound DEF Agree


(* handle_get_version_reply(): a request that is pending is removed and its *)
(* answer queued to the finisher; a late answer is ignored.                 *)
LEMMA VersionReplied ==
    ASSUME NEW floor, NEW y, Sound(y, floor), NEW h \in Handle, NEW v \in Nat,
           floor[h[1]] # 0, v >= floor[h[1]]
    PROVE  LET z == handle_get_version_reply(y, h, v)
           IN  Sound(z, floor) /\ z.cur_mon = y.cur_mon /\ z.subs = y.subs
<1> DEFINE a == [h |-> h, r |-> v]
           reqs == y.reqs \ {h}
           answers == Append(y.finisher_queue, a)
           z == [y EXCEPT !.reqs = reqs, !.finisher_queue = answers]
<1>1. /\ y \in Client /\ y.finisher_queue \in Seq(Answer) /\ Answered(floor, y.finisher_queue)
      /\ y.reqs \in SUBSET Handle /\ OnBehalf(floor, y.reqs)
  BY DEF Sound, Client
<1>2. a \in Answer /\ a.h = h /\ a.r = v
  BY DEF Answer
<1> HIDE DEF a
<1>3. z \in Client /\ z.reqs = y.reqs \ {h} /\ z.finisher_queue = Append(y.finisher_queue, a)
  <2>1. reqs \in SUBSET Handle /\ answers \in Seq(Answer)
    BY <1>1, <1>2
  <2> HIDE DEF reqs, answers
  <2>2. z \in Client /\ z.reqs = reqs /\ z.finisher_queue = answers
    BY <1>1, <2>1 DEF Client
  <2> QED
    BY <2>2 DEF reqs, answers
<1>4. /\ z.failed = y.failed /\ z.con = y.con /\ z.waiting = y.waiting /\ z.cur_mon = y.cur_mon
      /\ z.batch = y.batch /\ z.subs = y.subs /\ z.state = y.state /\ z.auth = y.auth
      /\ z.queue = y.queue
  BY <1>1 DEF Client
<1>5. h \in y.reqs => z = handle_get_version_reply(y, h, v)
  BY DEF handle_get_version_reply, a
<1> HIDE DEF z
<1>6. OnBehalf(floor, z.reqs)
  BY <1>1, <1>3, FS_Subset DEF OnBehalf
<1>7. Answered(floor, z.finisher_queue)
  <2> DEFINE s == Append(y.finisher_queue, a)
  <2>1. \A i \in DOMAIN s : (i \in DOMAIN y.finisher_queue /\ s[i] = y.finisher_queue[i]) \/ s[i] = a
    BY <1>1, <1>2
  <2> HIDE DEF s
  <2>2. z.finisher_queue = s
    BY <1>3 DEF s
  <2> QED
    BY <1>1, <1>2, <2>1, <2>2 DEF Answered
<1>8. Sound(z, floor)
  BY <1>3, <1>4, <1>6, <1>7 DEF Sound
<1> QED
  BY <1>4, <1>5, <1>8 DEF handle_get_version_reply

(* handle_subscribe_ack() changes only when the subscriptions are renewed. *)
LEMMA AckHandled ==
    ASSUME NEW floor, NEW y, Sound(y, floor)
    PROVE  LET z == handle_subscribe_ack(y)
           IN  Sound(z, floor) /\ z.cur_mon = y.cur_mon /\ z.subs = y.subs
<1> DEFINE z == handle_subscribe_ack(y)
<1>1. y \in Client
  BY DEF Sound
<1>2. z \in Client /\ Agree(y, z) /\ z.subs = y.subs
  <2>1. CASE y.renew_sent
    <3>1. z = [y EXCEPT !.renew_due = FALSE, !.renew_sent = FALSE]
      BY <2>1 DEF handle_subscribe_ack
    <3> HIDE DEF z
    <3> QED
      BY <1>1, <3>1 DEF Client, Agree
  <2>2. CASE ~y.renew_sent
    BY <1>1, <2>2 DEF Agree, handle_subscribe_ack
  <2> QED
    BY <2>1, <2>2
<1> HIDE DEF z
<1>3. Sound(z, floor)
  BY <1>2, AgreeSound
<1> QED
  BY <1>2, <1>3 DEF Agree, z

(* ms_dispatch(): each message of the monitor that MonClient handles leaves *)
(* it sound and with a monitor.                                             *)
LEMMA MessageHandled ==
    ASSUME NEW floor \in [Asker -> Nat], NEW x, Sound(x, floor), x.cur_mon # None, x.queue # <<>>,
           Head(x.queue).m.type \in {"monmap", "auth", "subscribe_ack", "version"},
           NEW z \in ms_dispatch(Taken(x), Head(x.queue).m, Head(x.queue).stale)
    PROVE  Sound(z, floor) /\ z.cur_mon # None /\ (x.subs = NoSubs => z.subs = NoSubs)
<1> DEFINE m == Head(x.queue).m
           y == Taken(x)
<1>1. /\ Sound(y, floor) /\ y.cur_mon # None /\ y.subs = x.subs /\ Head(x.queue) \in Entry
      /\ m.type = "version" => /\ m \in [type : {"version"}, h : Handle, v : Nat]
                               /\ floor[m.h[1]] # 0 /\ m.v >= floor[m.h[1]]
      /\ ~Head(x.queue).stale /\ IsAuth(m) => m.r \in AuthReply /\ Expected(y, m.r)
  BY TakenSound
<1> HIDE DEF y
<1>2. CASE Head(x.queue).stale
  BY <1>1, <1>2 DEF ms_dispatch, y
<1>3. CASE ~Head(x.queue).stale
  <2>1. z \in Handled(y, m)
    BY <1>3 DEF ms_dispatch, y
  <2>2. CASE m.type = "monmap"
    <3>1. m.v \in 1 .. Len(MonMaps)
      BY <1>1, <2>2 DEF Entry, Event
    <3>2. z \in handle_monmap(y, m.v)
      BY <2>1, <2>2 DEF Handled
    <3> QED
      BY <1>1, <3>1, <3>2, MonmapHandled
  <2>3. CASE m.type = "auth"
    <3>1. z = handle_auth(y, m.r)
      BY <2>1, <2>3 DEF Handled
    <3>2. m.r \in AuthReply /\ Expected(y, m.r)
      BY <1>1, <1>3, <2>3 DEF IsAuth
    <3> QED
      BY <1>1, <3>1, <3>2, AuthHandled
  <2>4. CASE m.type = "subscribe_ack"
    <3>1. z = handle_subscribe_ack(y)
      BY <2>1, <2>4 DEF Handled
    <3> QED
      BY <1>1, <3>1, AckHandled
  <2>5. CASE m.type = "version"
    <3>1. z = handle_get_version_reply(y, m.h, m.v) /\ m.h \in Handle /\ m.v \in Nat
      BY <1>1, <2>1, <2>5 DEF Handled
    <3> QED
      BY <1>1, <2>5, <3>1, VersionReplied
  <2> QED
    BY <2>2, <2>3, <2>4, <2>5
<1> QED
  BY <1>2, <1>3

(* ms_handle_reset(): the loss of the session's connection opens a session  *)
(* with another monitor; that of an older one, or while hunting, does       *)
(* nothing.                                                                 *)
LEMMA ResetHandled ==
    ASSUME NEW floor \in [Asker -> Nat], NEW y, Sound(y, floor), y.cur_mon # None, NEW stale,
           NEW z \in ms_handle_reset(y, stale)
    PROVE  Sound(z, floor) /\ z.cur_mon # None /\ z.subs = y.subs
<1>1. z = y \/ z \in _reopen_session(y)
  BY DEF ms_handle_reset
<1> QED
  BY <1>1, ReopenSound

(* tick(): the tickets are checked, and a session that does not come about, *)
(* or is lost, is opened anew.                                              *)
LEMMA Ticked ==
    ASSUME NEW floor \in [Asker -> Nat], NEW y, Sound(y, floor),
           y.state = "HAVE_SESSION" => y.cur_mon # None, NEW z \in tick(y)
    PROVE  Sound(z, floor) /\ z.subs = y.subs /\ (z = y \/ z.cur_mon # None)
<1> DEFINE t == _check_auth_tickets(y)
           w == IF t.renew_due THEN Renewed(t) ELSE t
<1>1. Sound(t, floor) /\ Same(y, t)
  BY TicketsChecked
<1>2. t.cur_mon = None => t = y
  BY <1>1 DEF Same, _check_auth_tickets
<1> HIDE DEF t
<1>3. t.cur_mon # None => Sound(w, floor) /\ Same(t, w)
  BY <1>1, RenewedSound DEF Same
<1> HIDE DEF w
<1>4. \/ z \in _reopen_session(t)
      \/ t.cur_mon = None /\ z = t
      \/ t.cur_mon # None /\ (z = w \/ z \in _reopen_session(w))
  BY DEF tick, t, w
<1>5. CASE z \in _reopen_session(t)
  BY <1>1, <1>5, ReopenSound DEF Same
<1>6. CASE t.cur_mon = None /\ z = t
  BY <1>1, <1>2, <1>6
<1>7. CASE t.cur_mon # None /\ (z = w \/ z \in _reopen_session(w))
  BY <1>1, <1>3, <1>7, ReopenSound DEF Same
<1> QED
  BY <1>4, <1>5, <1>6, <1>7

-----------------------------------------------------------------------------
(* What a step may assume of the state before it. *)
LEMMA Facts ==
    ASSUME IInv
    PROVE  /\ Sound(c, user.floor) /\ c \in Client /\ user \in User /\ mon \in Monitors
           /\ user.floor \in [Asker -> Nat] /\ user.checks \in SUBSET Asker
           /\ user.waits \in Nat /\ user.have \in [Maps -> Nat] /\ user.got \in [Asker -> Nat]
           /\ \A v \in user.checks : user.floor[v] # 0
           /\ phase # "down" => c.queue = <<>> \/ c.cur_mon # None
           /\ user.pc # "init" /\ phase # "down" => c.cur_mon # None
           /\ c.cur_mon # None => phase # "down"
<1>1. user \in User /\ mon \in Monitors /\ Sound(c, user.floor) /\ Connected /\ Versions
  BY DEF IInv
<1>2. user.waits \in Nat
  BY <1>1, MaxVersionAssumption DEF User
<1> QED
  BY <1>1, <1>2 DEF Sound, User, Connected, Versions

(* Steps of the client alone that leave it with a monitor. *)
LEMMA WithMonitor ==
    ASSUME IInv, Sound(c', user.floor), c'.cur_mon # None, phase # "down",
           user.pc = "init" => c'.subs = NoSubs, UNCHANGED <<mon, user, phase>>
    PROVE  IInv'
<1>1. Connected'
  BY DEF IInv, Connected
<1>2. Versions'
  BY DEF IInv, Versions
<1>3. Sound(c', user'.floor)
  OBVIOUS
<1> QED
  BY <1>1, <1>2, <1>3 DEF IInv

(* Steps of the client alone that do not concern its connection. *)
LEMMA SameMonitor ==
    ASSUME IInv, Sound(c', user.floor), c'.cur_mon = c.cur_mon, c'.con.state = c.con.state,
           c'.queue = c.queue, c'.state = c.state, c'.timer = c.timer, c'.subs = c.subs,
           UNCHANGED <<mon, user, phase>>
    PROVE  IInv'
<1>1. Connected'
  BY DEF IInv, Connected
<1>2. Versions'
  BY DEF IInv, Versions
<1>3. Sound(c', user'.floor)
  OBVIOUS
<1> QED
  BY <1>1, <1>2, <1>3 DEF IInv

(* The dispatch thread handles a message. *)
LEMMA DispatchKeeps ==
    ASSUME IInv, Dispatch
    PROVE  IInv'
<1> DEFINE m == Head(c.queue).m
           stale == Head(c.queue).stale
           floor == user.floor
<1>1. /\ Sound(c, floor) /\ c \in Client /\ user \in User /\ floor \in [Asker -> Nat]
      /\ user.checks \in SUBSET Asker /\ \A v \in user.checks : floor[v] # 0
      /\ user.waits \in Nat /\ user.have \in [Maps -> Nat]
      /\ c.cur_mon # None => phase # "down"
  BY Facts
<1>2. c.queue # <<>> /\ UNCHANGED <<budget, mon, phase>>
  BY Zenon DEF Dispatch
<1>3. /\ Sound(Taken(c), floor)
      /\ Taken(c).queue = Tail(c.queue)
      /\ Taken(c).cur_mon = c.cur_mon /\ Taken(c).subs = c.subs /\ Taken(c).timer = c.timer
      /\ Taken(c).con = c.con /\ Taken(c).state = c.state
      /\ Head(c.queue) \in Entry
  BY <1>1, <1>2, TakenSound
<1>4. \/ /\ m.type \in {"monmap", "auth", "subscribe_ack", "version"}
         /\ c' \in ms_dispatch(Taken(c), m, stale)
         /\ UNCHANGED user
      \/ /\ m.type = "reset"
         /\ c' \in ms_handle_reset(Taken(c), stale)
         /\ UNCHANGED user
      \/ /\ m.type = "connect" /\ phase = "up"
         /\ c' = ms_handle_connect(Taken(c), user)
         /\ UNCHANGED user
      \/ /\ m.type = "statfs_reply" /\ phase = "up"
         /\ c' = Taken(c)
         /\ user' = [user EXCEPT !.statfs = FALSE]
      \/ /\ m.type = "map" /\ phase = "up"
         /\ c' \in handle_map(Taken(c), m.what, m.v, user.have[m.what], user.waits)
         /\ user' = [user EXCEPT !.have[m.what] = Max({@, m.v})]
      \/ /\ m.type \in {"connect", "map", "statfs_reply"} /\ phase # "up"
         /\ c' = Taken(c)
         /\ UNCHANGED user
  BY Zenon DEF Dispatch, Taken
<1> HIDE DEF m, stale
<1>5. CASE c.cur_mon = None
  <2>1. phase = "down" /\ stale
    BY <1>1, <1>2, <1>5 DEF IInv, Connected, Client, stale
  <2>2. c' = Taken(c) /\ UNCHANGED user
    BY <1>3, <1>4, <1>5, <2>1 DEF ms_dispatch, ms_handle_reset
  <2>3. Connected'
    <3>1. \A i \in DOMAIN c'.queue : i + 1 \in DOMAIN c.queue /\ c'.queue[i] = c.queue[i + 1]
      <4>1. c.queue \in Seq(Entry) /\ c'.queue = Tail(c.queue)
        BY <1>1, <1>3, <2>2 DEF Client
      <4> QED
        BY <1>2, <4>1
    <3> QED
      BY <1>2, <1>3, <1>5, <2>1, <2>2, <3>1 DEF IInv, Connected
  <2>4. Sound(c', user'.floor)
    BY <1>3, <2>2
  <2> QED
    BY <1>2, <2>2, <2>3, <2>4 DEF IInv, Versions
<1>6. CASE c.cur_mon # None
  <2>0. user.pc = "init" => c.subs = NoSubs /\ user.waits = 0
    BY DEF IInv, Connected
  <2>1. CASE m.type \in {"monmap", "auth", "subscribe_ack", "version"} /\ c' \in ms_dispatch(Taken(c), m, stale)
             /\ UNCHANGED user
    <3>1. Sound(c', floor) /\ c'.cur_mon # None /\ (c.subs = NoSubs => c'.subs = NoSubs)
      BY <1>1, <1>2, <1>6, <2>1, MessageHandled DEF m, stale
    <3> QED
      BY <1>1, <1>2, <1>6, <2>0, <2>1, <3>1, WithMonitor
  <2>2. CASE c' \in ms_handle_reset(Taken(c), stale) /\ UNCHANGED user
    <3>1. Sound(c', floor) /\ c'.cur_mon # None /\ c'.subs = c.subs
      BY <1>1, <1>3, <1>6, <2>2, ResetHandled
    <3> QED
      BY <1>1, <1>2, <1>6, <2>0, <2>2, <3>1, WithMonitor
  <2>3. CASE c' = ms_handle_connect(Taken(c), user) /\ UNCHANGED user
    <3>1. Sound(c', floor) /\ Same(Taken(c), c')
      BY <1>1, <1>3, <1>6, <2>3, OpsResent DEF ms_handle_connect
    <3>2. c'.cur_mon # None /\ c'.subs = c.subs
      BY <1>3, <1>6, <3>1 DEF Same
    <3> QED
      BY <1>1, <1>2, <1>6, <2>0, <2>3, <3>1, <3>2, WithMonitor
  <2>4. CASE c' = Taken(c) /\ user' = [user EXCEPT !.statfs = FALSE]
    <3>1. user' \in User /\ user'.floor = floor /\ user'.pc = user.pc /\ user'.waits = user.waits
          /\ user'.checks = user.checks /\ user'.got = user.got
      BY <1>1, <2>4 DEF User
    <3>2. Connected'
      BY <1>1, <1>2, <1>3, <1>6, <2>0, <2>4, <3>1 DEF IInv, Connected
    <3>3. Versions'
      BY <1>2, <3>1 DEF IInv, Versions
    <3>4. Sound(c', user'.floor)
      BY <1>3, <2>4, <3>1
    <3> QED
      BY <1>2, <3>1, <3>2, <3>3, <3>4 DEF IInv
  <2>5. CASE /\ m.type = "map"
             /\ c' \in handle_map(Taken(c), m.what, m.v, user.have[m.what], user.waits)
             /\ user' = [user EXCEPT !.have[m.what] = Max({@, m.v})]
    <3>1. m.what \in Maps /\ m.v \in Nat
      BY <1>3, <2>5 DEF Entry, Event, m
    <3>2. user.have[m.what] \in Nat
      BY <1>1, <3>1
    <3>3. Sound(c', floor) /\ c'.cur_mon # None /\ (c.subs = NoSubs /\ user.waits = 0 => c'.subs = NoSubs)
      <4> DEFINE what == m.what
                 v == m.v
                 have == user.have[what]
                 waits == user.waits
                 y == Taken(c)
      <4>1. what \in Maps /\ v \in Nat /\ have \in Nat /\ waits \in Nat
        BY <1>1, <3>1, <3>2
      <4>2. Sound(y, floor) /\ y.cur_mon # None /\ c' \in handle_map(y, what, v, have, waits)
        BY <1>3, <1>6, <2>5
      <4> HIDE DEF what, v, have, waits, y
      <4>3. Sound(c', floor) /\ c'.cur_mon # None /\ (y.subs = NoSubs /\ waits = 0 => c'.subs = NoSubs)
        BY <1>1, <4>1, <4>2, MapHandled
      <4> QED
        BY <1>3, <4>3 DEF y, waits
    <3>4. Max({user.have[m.what], m.v}) \in Nat
      BY <3>1, <3>2 DEF Max
    <3>5. user' \in User /\ user'.floor = floor /\ user'.pc = user.pc /\ user'.waits = user.waits
          /\ user'.checks = user.checks /\ user'.got = user.got
      <4> DEFINE have == [user.have EXCEPT ![m.what] = Max({@, m.v})]
      <4>1. have \in [Maps -> Nat]
        BY <1>1, <3>1, <3>4
      <4>2. user' = [user EXCEPT !.have = have]
        BY <2>5
      <4> HIDE DEF have
      <4> QED
        BY <1>1, <4>1, <4>2 DEF User
    <3>6. Connected'
      BY <1>1, <1>2, <1>6, <2>0, <3>3, <3>5 DEF IInv, Connected
    <3>7. Versions'
      BY <1>2, <3>5 DEF IInv, Versions
    <3>8. Sound(c', user'.floor)
      BY <3>3, <3>5
    <3> QED
      BY <1>2, <3>5, <3>6, <3>7, <3>8 DEF IInv
  <2>6. CASE c' = Taken(c) /\ UNCHANGED user
    BY <1>1, <1>2, <1>3, <1>6, <2>0, <2>6, WithMonitor
  <2> QED
    BY <1>4, <2>1, <2>2, <2>3, <2>4, <2>5, <2>6
<1> QED
  BY <1>5, <1>6

-----------------------------------------------------------------------------
(* The timer runs tick(). *)
LEMMA TickKeeps ==
    ASSUME IInv, Tick
    PROVE  IInv'
<1>1. Sound(c, user.floor) /\ user.floor \in [Asker -> Nat]
  BY Facts
<1>2. c.timer /\ c' \in tick(c) /\ UNCHANGED <<mon, user, phase>>
  BY DEF Tick
<1>3. phase # "down" /\ (c.state = "HAVE_SESSION" => c.cur_mon # None) /\ (user.pc = "init" => c.subs = NoSubs)
  BY <1>2 DEF IInv, Connected
<1>4. Sound(c', user.floor) /\ c'.subs = c.subs /\ (c' = c \/ c'.cur_mon # None)
  BY <1>1, <1>2, <1>3, Ticked
<1>5. CASE c' = c
  BY <1>2, <1>4, <1>5, SameMonitor
<1>6. CASE c'.cur_mon # None
  BY <1>2, <1>3, <1>4, <1>6, WithMonitor
<1> QED
  BY <1>4, <1>5, <1>6

(* What Sound is about, the connection's requests and session included. *)
Alike(y, z) ==
    /\ z.failed = y.failed /\ z.state = y.state /\ z.auth = y.auth /\ z.queue = y.queue
    /\ z.waiting = y.waiting /\ z.cur_mon = y.cur_mon /\ z.reqs = y.reqs
    /\ z.finisher_queue = y.finisher_queue /\ z.batch = y.batch
    /\ z.con.out = y.con.out /\ z.con.session = y.con.session

(* Sound depends on nothing but the fields that Alike names. *)
LEMMA AlikeSound ==
    ASSUME NEW floor, NEW y, NEW z \in Client, Sound(y, floor), Alike(y, z)
    PROVE  Sound(z, floor)
BY DEF Sound, Alike

(* The time comes to renew the subscriptions. *)
LEMMA RenewalDueKeeps ==
    ASSUME IInv, RenewalDue
    PROVE  IInv'
<1> DEFINE con == [c.con EXCEPT !.overdue = TRUE]
<1>1. Sound(c, user.floor) /\ c \in Client /\ c.con \in Con
  BY Facts DEF Client
<1>2. UNCHANGED <<mon, user, phase>>
  BY DEF RenewalDue
<1>3. con \in Con /\ con.out = c.con.out /\ con.session = c.con.session /\ con.state = c.con.state
  BY <1>1 DEF Con
<1>4. c' = [c EXCEPT !.renew_due = TRUE, !.con = con]
  BY DEF RenewalDue
<1> HIDE DEF con
<1>5. c' \in Client /\ c'.con = con
  BY <1>1, <1>3, <1>4 DEF Client
<1>6. Alike(c, c') /\ c'.timer = c.timer /\ c'.subs = c.subs
  BY <1>1, <1>3, <1>4, <1>5 DEF Client, Alike
<1>7. Sound(c', user.floor)
  BY <1>1, <1>5, <1>6, AlikeSound
<1> QED
  BY <1>2, <1>3, <1>5, <1>6, <1>7, SameMonitor DEF Alike

(* Tickets of the client expire. *)
LEMMA TicketsExpireKeeps ==
    ASSUME IInv, TicketsExpire
    PROVE  IInv'
<1>1. Sound(c, user.floor) /\ c \in Client /\ c.auth \in AuthState
  BY Facts DEF Client, AuthState
<1>2. PICK gone \in {{"service"}, Ticket} :
          c' = [c EXCEPT !.auth.valid = @ \ gone] /\ UNCHANGED <<mon, user, phase>>
  BY DEF TicketsExpire
<1> DEFINE auth == [c.auth EXCEPT !.valid = @ \ gone]
<1>3. auth \in AuthState /\ auth.handler = c.auth.handler /\ auth.starting = c.auth.starting
  BY <1>1 DEF AuthState
<1>4. c' = [c EXCEPT !.auth = auth]
  BY <1>2
<1> HIDE DEF auth
<1>5. c' \in Client /\ c'.auth = auth
  BY <1>1, <1>3, <1>4 DEF Client, AuthState
<1>6. Moved(c, c') /\ c'.state = c.state
  BY <1>1, <1>4 DEF Client, Moved
<1>7. Handshake(c.state, c'.auth, c.con.session, c.con.out, c.queue)
  <2>1. Handshake(c.state, c.auth, c.con.session, c.con.out, c.queue)
    BY <1>1 DEF Sound
  <2> QED
    BY <1>3, <1>5, <2>1 DEF Handshake
<1>8. Sound(c', user.floor)
  BY <1>1, <1>5, <1>6, <1>7 DEF Sound, Moved
<1> QED
  BY <1>2, <1>6, <1>8, SameMonitor DEF Moved

(* Steps of a caller, while there is a monitor. *)
LEMMA CallerSteps ==
    ASSUME IInv, Sound(c', user.floor), c'.cur_mon # None, phase # "down",
           user' \in User, user'.floor = user.floor, user'.got = user.got,
           user'.checks \subseteq user.checks,
           user'.pc = "init" => c'.subs = NoSubs /\ user'.waits = 0,
           phase # "up" => user'.pc \in {"mounted", "failed"}, UNCHANGED <<mon, phase>>
    PROVE  IInv'
<1>1. Connected'
  BY DEF IInv, Connected
<1>2. Versions'
  BY DEF IInv, Versions
<1>3. Sound(c', user'.floor)
  OBVIOUS
<1> QED
  BY <1>1, <1>2, <1>3 DEF IInv

(* An OSD sends a map, which Objecter handles like one from a monitor. *)
LEMMA OsdSendsMapKeeps ==
    ASSUME IInv, OsdSendsMap
    PROVE  IInv'
<1> DEFINE have == user.have["osdmap"]
           waits == user.waits
           floor == user.floor
<1>1. /\ Sound(c, floor) /\ user \in User /\ floor \in [Asker -> Nat] /\ waits \in Nat
      /\ user.have \in [Maps -> Nat] /\ "osdmap" \in Maps /\ mon \in Monitors
      /\ user.pc # "init" /\ phase # "down" => c.cur_mon # None
  BY Facts DEF Maps
<1>2. PICK v \in 1 .. mon.latest["osdmap"] :
          /\ phase = "up" /\ waits > have
          /\ c' \in handle_map(c, "osdmap", v, have, waits)
          /\ user' = [user EXCEPT !.have["osdmap"] = Max({@, v})]
          /\ UNCHANGED <<mon, phase>>
  BY DEF OsdSendsMap
<1>3. have \in Nat /\ v \in Nat
  BY <1>1 DEF Monitors, What
<1>4. waits # 0 /\ user.pc # "init" /\ c.cur_mon # None
  <2>1. waits # 0
    BY <1>1, <1>2, <1>3
  <2> QED
    BY <1>1, <1>2, <2>1 DEF IInv, Connected
<1>5. Max({have, v}) \in Nat
  BY <1>3 DEF Max
<1>6. /\ user' \in User /\ user'.floor = floor /\ user'.pc = user.pc /\ user'.checks = user.checks
      /\ user'.got = user.got
  <2> DEFINE newer == [user.have EXCEPT !["osdmap"] = Max({@, v})]
  <2>1. newer \in [Maps -> Nat]
    BY <1>1, <1>5
  <2>2. user' = [user EXCEPT !.have = newer]
    BY <1>2
  <2> HIDE DEF newer
  <2> QED
    BY <1>1, <2>1, <2>2 DEF User
<1>7. Sound(c', floor) /\ c'.cur_mon # None
  <2> DEFINE what == "osdmap"
  <2>1. what \in Maps /\ c' \in handle_map(c, what, v, have, waits)
    BY <1>1, <1>2
  <2> HIDE DEF have, waits, what
  <2> QED
    BY <1>1, <1>3, <1>4, <2>1, MapHandled
<1> QED
  BY <1>2, <1>4, <1>6, <1>7, CallerSteps

-----------------------------------------------------------------------------
(* The finisher takes the callbacks that are queued. *)
LEMMA FinisherTakesKeeps ==
    ASSUME IInv, FinisherTakes
    PROVE  IInv'
<1> DEFINE none == <<>>
           q == c.finisher_queue
<1>1. Sound(c, user.floor) /\ c \in Client /\ q \in Seq(Answer)
  BY Facts DEF Client
<1>2. c' = [c EXCEPT !.finisher = "running", !.batch = q, !.finisher_queue = none]
      /\ UNCHANGED <<mon, user, phase>>
  BY DEF FinisherTakes
<1>3. none \in Seq(Answer) /\ Answered(user.floor, none)
  BY DEF Answered
<1>4. Answered(user.floor, q)
  BY <1>1 DEF Sound
<1> HIDE DEF none, q
<1>5. c' \in Client /\ c'.batch = q /\ c'.finisher_queue = none
  BY <1>1, <1>2, <1>3 DEF Client
<1>6. /\ c'.failed = c.failed /\ c'.con = c.con /\ c'.waiting = c.waiting /\ c'.cur_mon = c.cur_mon
      /\ c'.reqs = c.reqs /\ c'.subs = c.subs /\ c'.state = c.state /\ c'.auth = c.auth
      /\ c'.queue = c.queue /\ c'.timer = c.timer
  BY <1>1, <1>2 DEF Client
<1>7. Sound(c', user.floor)
  BY <1>1, <1>3, <1>4, <1>5, <1>6 DEF Sound
<1> QED
  BY <1>2, <1>6, <1>7, SameMonitor

(* C_Op_Map_Latest::finish() of an answer: an operation that still waits    *)
(* takes the version, which is not older than its floor; -EAGAIN changes    *)
(* nothing.                                                                 *)
LEMMA FinisherRunsKeeps ==
    ASSUME IInv, FinisherRuns
    PROVE  IInv'
<1> DEFINE v == Head(c.batch).h[1]
           r == Head(c.batch).r
           rest == Tail(c.batch)
           floor == user.floor
<1>1. /\ Sound(c, floor) /\ c \in Client /\ user \in User /\ c.batch \in Seq(Answer)
      /\ Answered(floor, c.batch) /\ user.checks \in SUBSET Asker /\ user.got \in [Asker -> Nat]
  BY Facts, Zenon DEF Sound, Client
<1>2. c.batch # <<>> /\ c' = [c EXCEPT !.batch = rest] /\ UNCHANGED <<mon, phase>>
  BY DEF FinisherRuns
<1>3. /\ rest \in Seq(Answer) /\ Head(c.batch) = c.batch[1] /\ Head(c.batch) \in Answer
      /\ 1 \in DOMAIN c.batch
      /\ \A i \in DOMAIN rest : i + 1 \in DOMAIN c.batch /\ rest[i] = c.batch[i + 1]
  BY <1>1, <1>2
<1>4. v \in Asker /\ r \in Nat /\ floor[v] # 0 /\ (r = EAGAIN \/ r >= floor[v])
  <2>1. v \in Asker /\ r \in Nat
    BY <1>3 DEF Answer, Handle
  <2> QED
    BY <1>1, <1>3, <2>1 DEF Answered
<1>5. Answered(floor, rest)
  BY <1>1, <1>3 DEF Answered
<1>6. \/ user' = user
      \/ r # EAGAIN /\ user' = [user EXCEPT !.checks = @ \ {v}, !.got[v] = r]
  BY DEF FinisherRuns
<1> HIDE DEF rest, v, r
<1>7. c' \in Client /\ c'.batch = rest
  BY <1>1, <1>2, <1>3 DEF Client
<1>8. /\ c'.failed = c.failed /\ c'.con = c.con /\ c'.waiting = c.waiting /\ c'.cur_mon = c.cur_mon
      /\ c'.reqs = c.reqs /\ c'.subs = c.subs /\ c'.state = c.state /\ c'.auth = c.auth
      /\ c'.queue = c.queue /\ c'.timer = c.timer /\ c'.finisher_queue = c.finisher_queue
  BY <1>1, <1>2 DEF Client
<1>9. Sound(c', floor)
  BY <1>1, <1>5, <1>7, <1>8 DEF Sound
<1>10. CASE user' = user
  BY <1>2, <1>8, <1>9, <1>10, SameMonitor
<1>11. CASE r # EAGAIN /\ user' = [user EXCEPT !.checks = @ \ {v}, !.got[v] = r]
  <2> DEFINE checks == user.checks \ {v}
             got == [user.got EXCEPT ![v] = r]
  <2>1. /\ checks \in SUBSET Asker /\ got \in [Asker -> Nat]
        /\ \A w \in Asker : got[w] = user.got[w] \/ (w = v /\ got[w] = r)
    BY <1>1, <1>4
  <2>2. user' = [user EXCEPT !.checks = checks, !.got = got]
    BY <1>11
  <2>3. checks \subseteq user.checks
    OBVIOUS
  <2> HIDE DEF checks, got
  <2>4. /\ user' \in User /\ user'.checks = checks /\ user'.got = got /\ user'.floor = floor
        /\ user'.pc = user.pc /\ user'.waits = user.waits
    BY <1>1, <2>1, <2>2 DEF User
  <2>5. Connected'
    BY <1>2, <1>8, <2>4 DEF IInv, Connected
  <2>6. Versions'
    <3>1. ASSUME NEW w \in Asker
          PROVE  got[w] # 0 => floor[w] # 0 /\ got[w] >= floor[w]
      BY <1>4, <1>11, <2>1 DEF IInv, Versions, EAGAIN
    <3> QED
      BY <1>2, <2>3, <2>4, <3>1 DEF IInv, Versions
  <2>7. Sound(c', user'.floor)
    BY <1>9, <2>4
  <2> QED
    BY <1>2, <2>4, <2>5, <2>6, <2>7 DEF IInv
<1> QED
  BY <1>6, <1>10, <1>11

(* The finisher's thread goes to sleep, or ends. *)
LEMMA FinisherRestsKeeps ==
    ASSUME IInv, FinisherSleeps \/ FinisherExits
    PROVE  IInv'
<1>1. Sound(c, user.floor) /\ c \in Client
  BY Facts
<1>2. PICK f \in {"off", "asleep"} : c' = [c EXCEPT !.finisher = f]
  BY DEF FinisherSleeps, FinisherExits
<1>3. UNCHANGED <<mon, user, phase>>
  BY DEF FinisherSleeps, FinisherExits
<1>4. c' \in Client /\ Agree(c, c') /\ c'.timer = c.timer /\ c'.subs = c.subs
  BY <1>1, <1>2 DEF Client, Agree
<1>5. Sound(c', user.floor)
  BY <1>1, <1>4, AgreeSound
<1> QED
  BY <1>3, <1>4, <1>5, SameMonitor DEF Agree

(* Objecter::start() and Client::init() subscribe to the OSD and MDS maps,  *)
(* which opens the first session.                                           *)
LEMMA ClientInitKeeps ==
    ASSUME IInv, ClientInit
    PROVE  IInv'
<1>1. Sound(c, user.floor) /\ user \in User /\ user.floor \in [Asker -> Nat]
  BY Facts
<1>2. /\ user.pc = "init" /\ user' = [user EXCEPT !.pc = "mounting"] /\ UNCHANGED <<mon, phase>>
      /\ c.subs = NoSubs /\ phase = "up"
  BY DEF ClientInit, IInv, Connected
<1>3. PICK y \in _maybe_request_map(c, 0) : c' \in WantAndRenew(y, "mdsmap", 0, FALSE)
  BY DEF ClientInit
<1>4. Sound(y, user.floor) /\ y.cur_mon # None
  <2>1. PICK sub \in Sub : sub.on /\ y \in Wanted(c, "osdmap", sub)
    BY OsdmapWanted
  <2> QED
    BY <1>1, <1>2, <2>1, WantRenewed DEF What
<1> DEFINE sub == [start |-> 0, once |-> FALSE, on |-> TRUE]
<1>5. sub \in Sub /\ sub.on /\ "mdsmap" \in What
  BY DEF Sub, What
<1>6. c' \in Wanted(y, "mdsmap", sub)
  BY <1>3 DEF WantAndRenew, _sub_want, Wanted
<1> HIDE DEF sub
<1>7. Sound(c', user.floor) /\ c'.cur_mon # None
  BY <1>1, <1>4, <1>5, <1>6, WantRenewed
<1>8. user' \in User /\ user'.floor = user.floor /\ user'.got = user.got /\ user'.checks = user.checks
      /\ user'.pc = "mounting"
  BY <1>1, <1>2 DEF User
<1> QED
  BY <1>2, <1>7, <1>8, CallerSteps

-----------------------------------------------------------------------------
(* MonClient::authenticate() is called. *)
LEMMA AuthenticateKeeps ==
    ASSUME IInv, authenticate
    PROVE  IInv'
<1>1. /\ Sound(c, user.floor) /\ c \in Client /\ user \in User
      /\ user.pc # "init" /\ phase # "down" => c.cur_mon # None
  BY Facts
<1>2. user.pc = "mounting" /\ phase = "up" /\ UNCHANGED <<mon, phase>>
  BY DEF authenticate, IInv, Connected
<1>3. c.cur_mon # None
  BY <1>1, <1>2
<1>4. PICK pc \in {"mounted", "authenticating"} : user' = [user EXCEPT !.pc = pc]
  BY DEF authenticate
<1>5. user' \in User /\ user'.floor = user.floor /\ user'.got = user.got /\ user'.checks = user.checks
      /\ user'.pc # "init"
  BY <1>1, <1>4 DEF User
<1> DEFINE sub == [start |-> IF c.monmap = 0 THEN 0 ELSE c.monmap + 1, once |-> FALSE, on |-> TRUE]
           what == "monmap"
           w == [c EXCEPT !.subs[what] = sub]
<1>6. sub \in Sub /\ what \in What
  BY <1>1, MonMapsAssumption DEF Client, Sub, What
<1>7. c' = c \/ c' = w
  BY <1>3 DEF authenticate, _sub_want
<1> HIDE DEF sub, what
<1>8. Sound(w, user.floor) /\ w.cur_mon = c.cur_mon
  BY <1>1, <1>6, SubsReplaced
<1> HIDE DEF w
<1>9. Sound(c', user.floor) /\ c'.cur_mon # None
  BY <1>1, <1>3, <1>7, <1>8
<1> QED
  BY <1>2, <1>5, <1>9, CallerSteps

(* MonClient::authenticate() returns with a session or an error. *)
LEMMA AuthenticateReturnsKeeps ==
    ASSUME IInv, AuthenticateReturns
    PROVE  IInv'
<1>1. /\ Sound(c, user.floor) /\ user \in User
      /\ user.pc # "init" /\ phase # "down" => c.cur_mon # None
  BY Facts
<1>2. user.pc = "authenticating" /\ phase = "up" /\ UNCHANGED <<c, mon, phase>>
  BY DEF AuthenticateReturns, IInv, Connected
<1>3. PICK pc \in {"mounted", "failed"} : user' = [user EXCEPT !.pc = pc]
  BY DEF AuthenticateReturns, Mounted
<1>4. user' \in User /\ user'.floor = user.floor /\ user'.got = user.got /\ user'.checks = user.checks
      /\ user'.pc # "init"
  BY <1>1, <1>3 DEF User
<1> QED
  BY <1>1, <1>2, <1>4, CallerSteps

(* MonClient::authenticate() gives up after its timeout. *)
LEMMA AuthenticateTimesOutKeeps ==
    ASSUME IInv, AuthenticateTimesOut
    PROVE  IInv'
<1>1. /\ Sound(c, user.floor) /\ c \in Client /\ user \in User
      /\ user.pc # "init" /\ phase # "down" => c.cur_mon # None
  BY Facts
<1>2. /\ user.pc = "authenticating" /\ phase = "up" /\ UNCHANGED <<mon, phase>>
      /\ c' = [c EXCEPT !.authenticate_err = "ETIMEDOUT"]
  BY DEF AuthenticateTimesOut, IInv, Connected
<1>3. PICK pc \in {"mounted", "failed"} : user' = [user EXCEPT !.pc = pc]
  BY DEF AuthenticateTimesOut, Mounted
<1>4. user' \in User /\ user'.floor = user.floor /\ user'.got = user.got /\ user'.checks = user.checks
      /\ user'.pc # "init"
  BY <1>1, <1>3 DEF User
<1>5. c' \in Client /\ Agree(c, c')
  BY <1>1, <1>2 DEF Client, Agree
<1>6. Sound(c', user.floor) /\ c'.cur_mon # None
  BY <1>1, <1>2, <1>5, AgreeSound DEF Agree
<1> QED
  BY <1>2, <1>4, <1>6, CallerSteps

(* An operation that has not asked yet may get its floor: nothing under way *)
(* is on its behalf.                                                        *)
LEMMA FloorRaised ==
    ASSUME NEW floor \in [Asker -> Nat], NEW y, Sound(y, floor), NEW v \in Asker, floor[v] = 0,
           NEW now \in Nat
    PROVE  Sound(y, [floor EXCEPT ![v] = now])
<1> DEFINE raised == [floor EXCEPT ![v] = now]
<1>1. /\ y \in Client /\ y.waiting \in Seq(Request) /\ y.queue \in Seq(Entry)
      /\ y.con.out \in Seq(Request) /\ y.reqs \in SUBSET Handle
      /\ y.finisher_queue \in Seq(Answer) /\ y.batch \in Seq(Answer)
  BY DEF Sound, Client, Con
<1>2. \A w \in Asker : floor[w] # 0 => raised[w] = floor[w]
  OBVIOUS
<1> HIDE DEF raised
<1>3. ASSUME NEW s \in Seq(Request), AskedFor(floor, s)
      PROVE  AskedFor(raised, s)
  <2> SUFFICES ASSUME NEW i \in DOMAIN s, s[i].type = "get_version"
               PROVE  raised[s[i].h[1]] # 0
    BY DEF AskedFor
  <2>1. s[i].h[1] \in Asker
    BY DEF Request, Handle
  <2> QED
    BY <1>2, <1>3, <2>1 DEF AskedFor
<1>4. ASSUME NEW s \in Seq(Answer), Answered(floor, s)
      PROVE  Answered(raised, s)
  <2>1. \A i \in DOMAIN s : s[i].h[1] \in Asker
    <3>1. \A i \in DOMAIN s : s[i] \in Answer
      OBVIOUS
    <3> QED
      BY <3>1 DEF Answer, Handle
  <2> QED
    BY <1>2, <1>4, <2>1 DEF Answered
<1>5. ASSUME Arrives(floor, y.queue)
      PROVE  Arrives(raised, y.queue)
  <2> SUFFICES ASSUME NEW i \in DOMAIN y.queue, y.queue[i].m.type = "version"
               PROVE  /\ raised[y.queue[i].m.h[1]] # 0
                      /\ y.queue[i].m.v >= raised[y.queue[i].m.h[1]]
    BY DEF Arrives
  <2>1. y.queue[i] \in Entry
    BY <1>1
  <2>2. y.queue[i].m.h[1] \in Asker
    BY <2>1 DEF Entry, Event, Handle
  <2> QED
    BY <1>2, <1>5, <2>2 DEF Arrives
<1>6. ASSUME OnBehalf(floor, y.reqs)
      PROVE  OnBehalf(raised, y.reqs)
  <2>1. \A h \in y.reqs : h[1] \in Asker
    BY <1>1 DEF Handle
  <2> QED
    BY <1>2, <1>6, <2>1 DEF OnBehalf
<1>7. Sound(y, raised)
  BY <1>1, <1>3, <1>4, <1>5, <1>6 DEF Sound
<1> QED
  BY <1>7 DEF raised

(* An operation asks for the newest version of the OSD map. *)
LEMMA AskVersionKeeps ==
    ASSUME IInv, AskVersion
    PROVE  IInv'
<1>1. /\ Sound(c, user.floor) /\ user \in User /\ user.floor \in [Asker -> Nat]
      /\ user.checks \in SUBSET Asker /\ user.got \in [Asker -> Nat] /\ mon \in Monitors
      /\ user.pc # "init" /\ phase # "down" => c.cur_mon # None
  BY Facts
<1> DEFINE now == mon.latest["osdmap"]
<1>2. PICK v \in DOMAIN user.got :
          /\ user.pc = "mounted" /\ phase = "up" /\ v \notin user.checks /\ user.floor[v] = 0
          /\ c' = get_version(c, v)
          /\ user' = [user EXCEPT !.checks = @ \cup {v}, !.floor[v] = now]
          /\ UNCHANGED <<mon, phase>>
  BY Zenon DEF AskVersion
<1> DEFINE floor == [user.floor EXCEPT ![v] = now]
           checks == user.checks \cup {v}
<1>3. v \in Asker /\ now \in Nat /\ now # 0 /\ c.cur_mon # None
  BY <1>1, <1>2 DEF Monitors, What, IInv
<1> HIDE DEF now
<1>4. Sound(c, floor)
  BY <1>1, <1>2, <1>3, FloorRaised
<1>5. /\ floor \in [Asker -> Nat] /\ floor[v] = now /\ checks \in SUBSET Asker
      /\ \A w \in Asker : w # v => floor[w] = user.floor[w]
  BY <1>1, <1>3
<1>6. user' = [user EXCEPT !.checks = checks, !.floor = floor]
  BY <1>2
<1>7. \A w \in checks : w = v \/ w \in user.checks
  OBVIOUS
<1> HIDE DEF floor, checks
<1>8. /\ user' \in User /\ user'.checks = checks /\ user'.got = user.got /\ user'.floor = floor
      /\ user'.pc = user.pc /\ user'.waits = user.waits
  BY <1>1, <1>5, <1>6 DEF User
<1>9. Sound(get_version(c, v), floor) /\ Same(c, get_version(c, v))
  BY <1>3, <1>4, <1>5, VersionAsked
<1>10. Sound(c', user'.floor) /\ c'.cur_mon # None
  BY <1>2, <1>3, <1>8, <1>9 DEF Same
<1>11. Connected'
  BY <1>2, <1>8, <1>10 DEF IInv, Connected
<1>12. Versions'
  <2> SUFFICES ASSUME NEW w \in Asker
               PROVE  /\ floor[w] =< now
                      /\ w \in checks => floor[w] # 0
                      /\ user.got[w] # 0 => floor[w] # 0 /\ user.got[w] >= floor[w]
    BY <1>2, <1>8 DEF Versions, now
  <2>1. /\ user.floor[w] =< now /\ (w \in user.checks => user.floor[w] # 0)
        /\ user.got[w] # 0 => user.floor[w] # 0 /\ user.got[w] >= user.floor[w]
    BY DEF IInv, Versions, now
  <2> QED
    BY <1>2, <1>3, <1>5, <1>7, <2>1
<1> QED
  BY <1>2, <1>8, <1>10, <1>11, <1>12 DEF IInv

=============================================================================
