--------------------------- MODULE MonClientProof ---------------------------
(* Proofs about MonClient, third part: the remaining calls, shutdown(), the *)
(* connection and the monitors; and the theorems.                           *)
EXTENDS MonClientHandlers

(* Client::statfs() calls Objecter::get_fs_stats(). *)
LEMMA GetFsStatsKeeps ==
    ASSUME IInv, get_fs_stats
    PROVE  IInv'
<1>1. /\ Sound(c, user.floor) /\ user \in User /\ user.floor \in [Asker -> Nat]
      /\ user.pc # "init" /\ phase # "down" => c.cur_mon # None
  BY Facts
<1>2. /\ user.pc = "mounted" /\ phase = "up" /\ c' = _fs_stats_submit(c)
      /\ user' = [user EXCEPT !.statfs = TRUE] /\ UNCHANGED <<mon, phase>>
  BY DEF get_fs_stats
<1>3. Sound(c', user.floor) /\ c'.cur_mon # None
  BY <1>1, <1>2, StatfsSubmitted DEF Same
<1>4. user' \in User /\ user'.floor = user.floor /\ user'.got = user.got /\ user'.checks = user.checks
      /\ user'.pc = "mounted"
  BY <1>1, <1>2 DEF User
<1> QED
  BY <1>2, <1>3, <1>4, CallerSteps

(* Objecter::_wait_for_new_map() asks for the next OSD map. *)
LEMMA WaitForMapKeeps ==
    ASSUME IInv, WaitForMap
    PROVE  IInv'
<1> DEFINE have == user.have["osdmap"]
<1>1. /\ Sound(c, user.floor) /\ user \in User /\ user.floor \in [Asker -> Nat]
      /\ user.have \in [Maps -> Nat]
      /\ user.pc # "init" /\ phase # "down" => c.cur_mon # None
  BY Facts
<1>2. /\ user.pc = "mounted" /\ phase = "up" /\ have < MaxVersion
      /\ c' \in _maybe_request_map(c, have)
      /\ user' = [user EXCEPT !.waits = have + 1] /\ UNCHANGED <<mon, phase>>
  BY DEF WaitForMap
<1>3. have \in Nat /\ have + 1 \in 0 .. MaxVersion
  BY <1>1, <1>2, MaxVersionAssumption DEF Maps
<1> HIDE DEF have
<1>4. Sound(c', user.floor) /\ c'.cur_mon # None
  <2>1. PICK sub \in Sub : sub.on /\ c' \in Wanted(c, "osdmap", sub)
    BY <1>2, <1>3, OsdmapWanted
  <2> QED
    BY <1>1, <1>2, <2>1, WantRenewed DEF What
<1>5. user' \in User /\ user'.floor = user.floor /\ user'.got = user.got /\ user'.checks = user.checks
      /\ user'.pc = "mounted"
  BY <1>1, <1>2, <1>3 DEF User
<1> QED
  BY <1>2, <1>4, <1>5, CallerSteps

(* shutdown() cancels what is outstanding. *)
LEMMA ShutdownKeeps ==
    ASSUME IInv, Shutdown
    PROVE  IInv'
<1> DEFINE none == <<>>
           empty == {}
<1>1. /\ Sound(c, user.floor) /\ c \in Client /\ user \in User
      /\ user.pc # "init" /\ phase # "down" => c.cur_mon # None
  BY Facts
<1>2. /\ user.pc \in {"mounted", "failed"} /\ phase = "up" /\ phase' = "stopping" /\ UNCHANGED mon
      /\ c' = [c EXCEPT !.reqs = empty, !.waiting = none]
      /\ user' = [user EXCEPT !.checks = empty, !.statfs = FALSE]
  BY DEF Shutdown
<1>3. /\ none \in Seq(Request) /\ AskedFor(user.floor, none) /\ \A i \in DOMAIN none : ~IsAuth(none[i])
      /\ empty \in SUBSET Handle /\ empty \in SUBSET Asker /\ OnBehalf(user.floor, empty)
  BY FS_EmptySet DEF AskedFor, OnBehalf
<1>4. \A v : v \notin empty
  OBVIOUS
<1> HIDE DEF none, empty
<1>5. c' \in Client /\ c'.reqs = empty /\ c'.waiting = none
  BY <1>1, <1>2, <1>3 DEF Client
<1>6. /\ c'.failed = c.failed /\ c'.con = c.con /\ c'.cur_mon = c.cur_mon
      /\ c'.subs = c.subs /\ c'.state = c.state /\ c'.auth = c.auth /\ c'.batch = c.batch
      /\ c'.queue = c.queue /\ c'.timer = c.timer /\ c'.finisher_queue = c.finisher_queue
  BY <1>1, <1>2 DEF Client
<1>7. /\ user' \in User /\ user'.floor = user.floor /\ user'.got = user.got /\ user'.checks = empty
      /\ user'.pc = user.pc
  BY <1>1, <1>2, <1>3 DEF User
<1>8. Sound(c', user'.floor)
  BY <1>1, <1>3, <1>5, <1>6, <1>7 DEF Sound
<1>9. Connected'
  BY <1>1, <1>2, <1>6, <1>7 DEF Connected
<1>10. Versions'
  BY <1>2, <1>4, <1>7 DEF IInv, Versions
<1> QED
  BY <1>2, <1>7, <1>8, <1>9, <1>10 DEF IInv

(* shutdown() tells the finisher to stop. *)
LEMMA FinisherStopKeeps ==
    ASSUME IInv, FinisherStop
    PROVE  IInv'
<1>1. Sound(c, user.floor) /\ c \in Client /\ c.cur_mon # None
  BY Facts DEF FinisherStop, IInv, Connected
<1>2. /\ phase = "stopping" /\ phase' = "joining" /\ UNCHANGED <<mon, user>>
      /\ c' = [c EXCEPT !.finisher_stop = TRUE]
  BY DEF FinisherStop
<1>3. c' \in Client /\ Agree(c, c')
  BY <1>1, <1>2 DEF Client, Agree
<1>4. Sound(c', user'.floor)
  BY <1>1, <1>2, <1>3, AgreeSound
<1>5. Connected'
  BY <1>1, <1>2, <1>3 DEF IInv, Connected, Agree
<1>6. Versions'
  BY <1>2 DEF IInv, Versions
<1> QED
  BY <1>2, <1>4, <1>5, <1>6 DEF IInv

(* shutdown() ends: the timer is stopped and the connection marked down,    *)
(* which leaves only stale messages in the queue.                           *)
LEMMA ShutdownEndsKeeps ==
    ASSUME IInv, ShutdownEnds
    PROVE  IInv'
<1> DEFINE queue == Stale(c.queue)
           con == NoCon
<1>1. Sound(c, user.floor) /\ c \in Client /\ c.queue \in Seq(Entry)
  BY Facts DEF Client
<1>2. /\ phase = "joining" /\ phase' = "down" /\ UNCHANGED <<mon, user>>
      /\ c' = [c EXCEPT !.timer = FALSE, !.con = con, !.queue = queue, !.cur_mon = None]
  BY DEF ShutdownEnds
<1>3. /\ queue \in Seq(Entry) /\ DOMAIN queue = DOMAIN c.queue
      /\ \A i \in DOMAIN queue : queue[i].stale /\ queue[i].m = c.queue[i].m
  BY <1>1, StaleQueue
<1>4. /\ con \in Con /\ con.state = "none" /\ DOMAIN con.out = {} /\ con.out \in Seq(Request)
  <2> DEFINE none == <<>>
  <2>1. none \in Seq(Request) /\ DOMAIN none = {}
    OBVIOUS
  <2>2. NoSubs \in [What -> Sub]
    BY DEF NoSubs, NoSub, Sub
  <2>3. con = [[mon |-> None, state |-> "connecting", out |-> none,
                session |-> "none", subs |-> NoSubs, overdue |-> FALSE] EXCEPT !.state = "none"]
    BY Zenon DEF NoCon, NewCon
  <2> HIDE DEF none, con
  <2> QED
    BY <2>1, <2>2, <2>3 DEF Con
<1> HIDE DEF queue, con
<1>5. c' \in Client /\ c'.con = con /\ c'.queue = queue /\ c'.cur_mon = None /\ ~c'.timer
  BY <1>1, <1>2, <1>3, <1>4 DEF Client
<1>6. /\ c'.failed = c.failed /\ c'.waiting = c.waiting /\ c'.reqs = c.reqs
      /\ c'.subs = c.subs /\ c'.state = c.state /\ c'.auth = c.auth /\ c'.batch = c.batch
      /\ c'.finisher_queue = c.finisher_queue
  BY <1>1, <1>2 DEF Client
<1>7. Handshake(c'.state, c'.auth, c'.con.session, c'.con.out, c'.queue)
  <2>1. Handshake(c.state, c.auth, c.con.session, c.con.out, c.queue)
    BY <1>1 DEF Sound
  <2>2. \A i \in DOMAIN queue : ~FreshAuth(queue, i)
    BY <1>3 DEF FreshAuth
  <2> QED
    BY <1>4, <1>5, <1>6, <2>1, <2>2 DEF Handshake
<1>8. AskedFor(user.floor, c'.con.out)
  BY <1>4, <1>5 DEF AskedFor
<1>9. Arrives(user.floor, c'.queue)
  BY <1>1, <1>3, <1>5 DEF Sound, Arrives
<1>10. Sound(c', user'.floor)
  BY <1>1, <1>2, <1>5, <1>6, <1>7, <1>8, <1>9 DEF Sound
<1>11. Connected'
  BY <1>2, <1>3, <1>4, <1>5, <1>6 DEF IInv, Connected
<1>12. Versions'
  BY <1>2 DEF IInv, Versions
<1> QED
  BY <1>2, <1>10, <1>11, <1>12 DEF IInv

(* The monitor forgets subscriptions that were not renewed. *)
LEMMA SubsLapseKeeps ==
    ASSUME IInv, SubsLapse
    PROVE  IInv'
<1> DEFINE con == [c.con EXCEPT !.subs = NoSubs]
<1>1. Sound(c, user.floor) /\ c \in Client /\ c.con \in Con
  BY Facts DEF Client
<1>2. UNCHANGED <<mon, user, phase>>
  BY DEF SubsLapse
<1>3. NoSubs \in [What -> Sub]
  BY DEF NoSubs, NoSub, Sub
<1>4. con \in Con /\ con.out = c.con.out /\ con.session = c.con.session /\ con.state = c.con.state
  BY <1>1, <1>3 DEF Con
<1>5. c' = [c EXCEPT !.con = con]
  BY DEF SubsLapse
<1> HIDE DEF con
<1>6. c' \in Client /\ c'.con = con
  BY <1>1, <1>4, <1>5 DEF Client
<1>7. Alike(c, c') /\ c'.timer = c.timer /\ c'.subs = c.subs
  BY <1>1, <1>4, <1>5, <1>6 DEF Client, Alike
<1>8. Sound(c', user.floor)
  BY <1>1, <1>6, <1>7, AlikeSound
<1> QED
  BY <1>2, <1>4, <1>6, <1>7, <1>8, SameMonitor DEF Alike

(* A new map is published; the floors of the operations stay below the      *)
(* newest version.                                                          *)
LEMMA PublishKeeps ==
    ASSUME IInv, NEW w \in What, Publish(w)
    PROVE  IInv'
<1>1. mon \in Monitors /\ mon.latest \in [What -> Nat]
  BY DEF IInv, Monitors
<1> DEFINE latest == [mon.latest EXCEPT ![w] = @ + 1]
<1>2. /\ mon.latest[w] < IF w = "monmap" THEN Len(MonMaps) ELSE MaxVersion
      /\ mon' = [mon EXCEPT !.latest = latest] /\ UNCHANGED <<c, user, phase>>
  BY DEF Publish
<1>3. /\ latest \in [What -> Nat] /\ \A x \in What : latest[x] >= mon.latest[x]
      /\ latest["monmap"] \in 1 .. Len(MonMaps) /\ latest["osdmap"] # 0
  BY <1>1, <1>2, MonMapsAssumption DEF What, IInv
<1> HIDE DEF latest
<1>4. mon' \in Monitors /\ mon'.latest = latest
  BY <1>1, <1>2, <1>3 DEF Monitors
<1>5. Versions'
  <2>1. latest["osdmap"] \in Nat /\ mon.latest["osdmap"] \in Nat /\ latest["osdmap"] >= mon.latest["osdmap"]
    BY <1>1, <1>3 DEF What
  <2>2. user.floor \in [Asker -> Nat]
    BY Facts
  <2> QED
    BY <1>2, <1>4, <2>1, <2>2 DEF IInv, Versions
<1>6. Connected'
  BY <1>2 DEF IInv, Connected
<1> QED
  BY <1>2, <1>3, <1>4, <1>5, <1>6 DEF IInv

-----------------------------------------------------------------------------
(* What is left in the queue when the connection breaks. *)
LeftOver(queue, kept) ==
    SubSeq(queue, 1, kept) \o <<Queued([type |-> "reset"])>> \o Kept(SubSeq(queue, kept + 1, Len(queue)))

(* What is left in the queue when a connection breaks: at most the message  *)
(* that is being handled, the reset, stale messages and connect events.     *)
LEMMA LeftOverEntries ==
    ASSUME NEW queue \in Seq(Entry), NEW kept \in 0 .. 1, kept =< Len(queue)
    PROVE  /\ LeftOver(queue, kept) \in Seq(Entry)
           /\ \A i \in DOMAIN LeftOver(queue, kept) :
                 \/ LeftOver(queue, kept)[i] = Queued([type |-> "reset"])
                 \/ i = 1 /\ 1 \in DOMAIN queue /\ LeftOver(queue, kept)[i] = queue[1]
                 \/ /\ LeftOver(queue, kept)[i].stale \/ LeftOver(queue, kept)[i].m.type = "connect"
                    /\ \E j \in DOMAIN queue : LeftOver(queue, kept)[i] = queue[j]
<1> DEFINE first == SubSeq(queue, 1, kept)
           reset == Queued([type |-> "reset"])
           rest == SubSeq(queue, kept + 1, Len(queue))
           last == Kept(rest)
           head == first \o <<reset>>
<1>1. /\ first \in Seq(Entry) /\ Len(first) = kept
      /\ \A i \in DOMAIN first : i = 1 /\ 1 \in DOMAIN queue /\ first[i] = queue[1]
  OBVIOUS
<1>2. /\ rest \in Seq(Entry)
      /\ \A i \in DOMAIN rest : i + kept \in DOMAIN queue /\ rest[i] = queue[i + kept]
  OBVIOUS
<1>3. reset \in Entry
  BY DEF Queued, Entry, Event
<1> HIDE DEF first, rest, reset
<1>4. /\ last \in Seq(Entry)
      /\ \A i \in DOMAIN last : /\ last[i].stale \/ last[i].m.type = "connect"
                                /\ \E j \in DOMAIN rest : last[i] = rest[j]
  BY <1>2, KeptEntries
<1> HIDE DEF last
<1>5. \A i \in DOMAIN last : \E j \in DOMAIN queue : last[i] = queue[j]
  BY <1>2, <1>4
<1>6. head \in Seq(Entry) /\ Len(head) = kept + 1
      /\ \A i \in DOMAIN head : head[i] = reset \/ (i \in DOMAIN first /\ head[i] = first[i])
  BY <1>1, <1>3
<1> HIDE DEF head
<1>7. /\ head \o last \in Seq(Entry)
      /\ \A i \in DOMAIN (head \o last) :
            \/ i \in DOMAIN head /\ (head \o last)[i] = head[i]
            \/ i - Len(head) \in DOMAIN last /\ (head \o last)[i] = last[i - Len(head)]
  BY <1>4, <1>6
<1>8. LeftOver(queue, kept) = head \o last
  BY DEF LeftOver, head, first, reset, rest, last
<1> HIDE DEF LeftOver
<1>9. ASSUME NEW i \in DOMAIN (head \o last)
      PROVE  \/ (head \o last)[i] = reset
             \/ i = 1 /\ 1 \in DOMAIN queue /\ (head \o last)[i] = queue[1]
             \/ /\ (head \o last)[i].stale \/ (head \o last)[i].m.type = "connect"
                /\ \E j \in DOMAIN queue : (head \o last)[i] = queue[j]
  <2>1. CASE i \in DOMAIN head /\ (head \o last)[i] = head[i]
    BY <1>1, <1>6, <2>1
  <2>2. CASE i - Len(head) \in DOMAIN last /\ (head \o last)[i] = last[i - Len(head)]
    BY <1>4, <1>5, <2>2
  <2> QED
    BY <1>7, <2>1, <2>2
<1> QED
  BY <1>7, <1>8, <1>9 DEF reset

(* A lost connection leaves the client sound, with the monitor it had: no   *)
(* answer of the handshake is left that the client could still take for one *)
(* of a new session.                                                        *)
LEMMA BrokenSound ==
    ASSUME IInv, c.con.state = "open", NEW kept \in 0 .. 1, kept =< Len(c.queue)
    PROVE  /\ Sound(Broken(kept), user.floor) /\ Broken(kept).cur_mon # None
           /\ Broken(kept).subs = c.subs /\ phase # "down"
<1> DEFINE z == Broken(kept)
           queue == LeftOver(c.queue, kept)
           none == <<>>
           con == [c.con EXCEPT !.state = "broken", !.out = none]
<1>1. /\ Sound(c, user.floor) /\ c \in Client /\ c.con \in Con /\ c.queue \in Seq(Entry)
      /\ c.cur_mon # None => phase # "down"
  BY Facts DEF Client
<1>2. c.cur_mon # None
  BY DEF IInv, Connected
<1>3. none \in Seq(Request) /\ DOMAIN none = {}
  OBVIOUS
<1>4. z = [c EXCEPT !.con = [c.con EXCEPT !.state = "broken", !.out = none], !.queue = queue]
  BY <1>1 DEF Broken, LeftOver
<1> HIDE DEF none
<1>5. con \in Con /\ con.session = c.con.session /\ con.out = none
  BY <1>1, <1>3 DEF Con
<1>6. /\ queue \in Seq(Entry)
      /\ \A i \in DOMAIN queue :
            \/ queue[i] = Queued([type |-> "reset"])
            \/ i = 1 /\ 1 \in DOMAIN c.queue /\ queue[i] = c.queue[1]
            \/ /\ queue[i].stale \/ queue[i].m.type = "connect"
               /\ \E j \in DOMAIN c.queue : queue[i] = c.queue[j]
  BY <1>1, LeftOverEntries
<1> HIDE DEF z, queue, con
<1>7. z = [c EXCEPT !.con = con, !.queue = queue]
  BY <1>4 DEF con
<1>8. z \in Client /\ z.con = con /\ z.queue = queue
  BY <1>1, <1>5, <1>6, <1>7 DEF Client
<1>9. /\ z.failed = c.failed /\ z.waiting = c.waiting /\ z.reqs = c.reqs /\ z.cur_mon = c.cur_mon
      /\ z.subs = c.subs /\ z.state = c.state /\ z.auth = c.auth /\ z.batch = c.batch
      /\ z.finisher_queue = c.finisher_queue
  BY <1>1, <1>7 DEF Client
<1>10. \A i \in DOMAIN queue : FreshAuth(queue, i) =>
           i = 1 /\ 1 \in DOMAIN c.queue /\ FreshAuth(c.queue, 1) /\ queue[i] = c.queue[1]
  BY <1>6 DEF FreshAuth, IsAuth, Queued
<1>11. Handshake(c.state, c.auth, c.con.session, none, queue)
  <2>1. Handshake(c.state, c.auth, c.con.session, c.con.out, c.queue)
    BY <1>1 DEF Sound
  <2> QED
    BY <1>3, <1>10, <2>1 DEF Handshake
<1>12. AskedFor(user.floor, none)
  BY <1>3 DEF AskedFor
<1>13. Arrives(user.floor, queue)
  <2>1. \A i \in DOMAIN queue : queue[i].m.type = "version" =>
            \E j \in DOMAIN c.queue : queue[i] = c.queue[j]
    BY <1>6 DEF Queued
  <2>2. Arrives(user.floor, c.queue)
    BY <1>1 DEF Sound
  <2> QED
    BY <2>1, <2>2 DEF Arrives
<1>14. Sound(z, user.floor)
  BY <1>1, <1>5, <1>8, <1>9, <1>11, <1>12, <1>13 DEF Sound
<1> QED
  BY <1>1, <1>2, <1>9, <1>14 DEF z

(* The connection to the monitor is lost. *)
LEMMA ConBreaksKeeps ==
    ASSUME IInv, ConBreaks
    PROVE  IInv'
<1>1. c.queue \in Seq(Entry) /\ (user.pc = "init" => c.subs = NoSubs)
  BY Facts DEF Client, IInv, Connected
<1>2. PICK kept \in 0 .. Min({1, Len(c.queue)}) :
          c.con.state = "open" /\ c' = Broken(kept) /\ UNCHANGED <<mon, user, phase>>
  BY DEF ConBreaks
<1>3. kept \in 0 .. 1 /\ kept =< Len(c.queue)
  <2>1. Len(c.queue) \in Nat
    BY <1>1
  <2> QED
    BY <2>1 DEF Min
<1>4. /\ Sound(c', user.floor) /\ c'.cur_mon # None /\ c'.subs = c.subs /\ phase # "down"
  BY <1>2, <1>3, BrokenSound
<1> QED
  BY <1>1, <1>2, <1>4, WithMonitor

(* A monitor stops, and with it the connection to it. *)
LEMMA MonStopsKeeps ==
    ASSUME IInv, MonStops
    PROVE  IInv'
<1>1. /\ mon \in Monitors /\ Sound(c, user.floor) /\ c.queue \in Seq(Entry)
      /\ user.pc = "init" => c.subs = NoSubs
  BY Facts DEF Client, IInv, Connected
<1>2. PICK n \in mon.up : /\ mon' = [mon EXCEPT !.up = @ \ {n}] /\ UNCHANGED <<user, phase>>
                          /\ c' = Broken(0) \/ c' = c
  BY DEF MonStops
<1>3. mon' \in Monitors /\ mon'.latest = mon.latest
  BY <1>1, <1>2 DEF Monitors
<1>4. Versions'
  BY <1>2, <1>3 DEF IInv, Versions
<1>5. CASE c' = c
  <2>1. Connected'
    BY <1>2, <1>5 DEF IInv, Connected
  <2> QED
    BY <1>1, <1>2, <1>3, <1>4, <1>5, <2>1 DEF IInv
<1>6. CASE c' = Broken(0) /\ c.con.state = "open"
  <2>1. 0 \in 0 .. 1 /\ 0 =< Len(c.queue)
    BY <1>1
  <2>2. /\ Sound(c', user.floor) /\ c'.cur_mon # None /\ c'.subs = c.subs /\ phase # "down"
    BY <1>6, <2>1, BrokenSound
  <2>3. Connected'
    BY <1>1, <1>2, <2>2 DEF IInv, Connected
  <2> QED
    BY <1>2, <1>3, <1>4, <2>2, <2>3 DEF IInv
<1>7. c.con.state # "open" => Broken(0) = c
  BY DEF Broken
<1> QED
  BY <1>2, <1>5, <1>6, <1>7

-----------------------------------------------------------------------------
(* A message is queued for the dispatch thread. *)
LEMMA QueueGrows ==
    ASSUME NEW queue \in Seq(Entry), NEW e \in Entry
    PROVE  /\ Append(queue, e) \in Seq(Entry)
           /\ \A i \in DOMAIN Append(queue, e) : \/ i \in DOMAIN queue /\ Append(queue, e)[i] = queue[i]
                                                 \/ i = Len(queue) + 1 /\ Append(queue, e)[i] = e
OBVIOUS

(* A message that is not of cephx leaves the handshake as it was. *)
LEMMA HandshakeGrows ==
    ASSUME NEW state, NEW auth, NEW session, NEW out, NEW queue \in Seq(Entry),
           NEW e \in Entry, ~IsAuth(e.m), Handshake(state, auth, session, out, queue)
    PROVE  Handshake(state, auth, session, out, Append(queue, e))
<1> DEFINE q == Append(queue, e)
<1>1. \A i \in DOMAIN q : FreshAuth(q, i) => i \in DOMAIN queue /\ FreshAuth(queue, i) /\ q[i] = queue[i]
  BY QueueGrows DEF FreshAuth
<1> HIDE DEF q
<1>2. Handshake(state, auth, session, out, q)
  BY <1>1 DEF Handshake
<1> QED
  BY <1>2 DEF q

(* A version that arrives for an operation and is new enough keeps Arrives. *)
LEMMA ArrivesGrows ==
    ASSUME NEW floor, NEW queue \in Seq(Entry), NEW e \in Entry, Arrives(floor, queue),
           e.m.type = "version" => floor[e.m.h[1]] # 0 /\ e.m.v >= floor[e.m.h[1]]
    PROVE  Arrives(floor, Append(queue, e))
<1> DEFINE q == Append(queue, e)
<1>1. \A i \in DOMAIN q : q[i] = e \/ (i \in DOMAIN queue /\ q[i] = queue[i])
  BY QueueGrows
<1> HIDE DEF q
<1>2. Arrives(floor, q)
  BY <1>1 DEF Arrives
<1> QED
  BY <1>2 DEF q

(* A monitor sends a map that the client subscribed to. *)
LEMMA MonSendsKeeps ==
    ASSUME IInv, NEW w \in What, MonSends(w)
    PROVE  IInv'
<1> DEFINE v == mon.latest[w]
           m == IF w = "monmap" THEN [type |-> w, v |-> v] ELSE [type |-> "map", what |-> w, v |-> v]
           old == c.con.subs[w]
           sub == IF old.once THEN NoSub ELSE [old EXCEPT !.start = v + 1]
           e == Queued(m)
           queue == Append(c.queue, e)
           con == [c.con EXCEPT !.subs[w] = sub]
<1>1. /\ Sound(c, user.floor) /\ c \in Client /\ c.con \in Con /\ c.queue \in Seq(Entry)
      /\ mon \in Monitors /\ (c.cur_mon # None => phase # "down")
      /\ user.pc = "init" => c.subs = NoSubs
  BY Facts DEF Client, IInv, Connected
<1>2. /\ c' = [c EXCEPT !.queue = queue, !.con.subs[w] = sub]
      /\ c.cur_mon # None /\ UNCHANGED <<mon, user, phase>>
  BY <1>1 DEF MonSends, Sends, IInv, Connected
<1>3. v \in Nat /\ (w = "monmap" => v \in 1 .. Len(MonMaps))
  BY <1>1 DEF Monitors, IInv
<1> HIDE DEF v
<1>4. e \in Entry /\ ~IsAuth(e.m) /\ e.m.type # "version"
  <2>1. m \in Event /\ m.type \in {"monmap", "map"}
    <3>1. CASE w = "monmap"
      BY <1>3, <3>1 DEF Event
    <3>2. CASE w # "monmap"
      BY <1>3, <3>2 DEF Event, What, Maps
    <3> QED
      BY <3>1, <3>2
  <2> HIDE DEF m
  <2> QED
    BY <2>1 DEF Queued, Entry, IsAuth
<1> HIDE DEF e
<1>5. sub \in Sub
  <2>1. old \in Sub
    BY <1>1 DEF Con
  <2> HIDE DEF old
  <2> QED
    BY <1>3, <2>1 DEF Sub, NoSub
<1> HIDE DEF sub
<1>6. con \in Con /\ con.out = c.con.out /\ con.session = c.con.session
  <2> DEFINE subs == [c.con.subs EXCEPT ![w] = sub]
  <2>1. subs \in [What -> Sub]
    BY <1>1, <1>5 DEF Con
  <2>2. con = [c.con EXCEPT !.subs = subs]
    OBVIOUS
  <2> HIDE DEF subs, con
  <2> QED
    BY <1>1, <2>1, <2>2 DEF Con
<1>7. c' = [c EXCEPT !.queue = queue, !.con = con]
  BY <1>2
<1>8. queue \in Seq(Entry)
  BY <1>1, <1>4
<1>9. Handshake(c.state, c.auth, c.con.session, c.con.out, queue) /\ Arrives(user.floor, queue)
  <2>1. Handshake(c.state, c.auth, c.con.session, c.con.out, c.queue) /\ Arrives(user.floor, c.queue)
    BY <1>1 DEF Sound
  <2> QED
    BY <1>1, <1>4, <2>1, HandshakeGrows, ArrivesGrows
<1> HIDE DEF queue, con
<1>10. c' \in Client /\ c'.con = con /\ c'.queue = queue
  BY <1>1, <1>6, <1>7, <1>8 DEF Client
<1>11. /\ c'.failed = c.failed /\ c'.waiting = c.waiting /\ c'.reqs = c.reqs /\ c'.cur_mon = c.cur_mon
       /\ c'.subs = c.subs /\ c'.state = c.state /\ c'.auth = c.auth /\ c'.batch = c.batch
       /\ c'.finisher_queue = c.finisher_queue
  BY <1>1, <1>7 DEF Client
<1>12. Sound(c', user.floor)
  BY <1>1, <1>6, <1>9, <1>10, <1>11 DEF Sound
<1> QED
  BY <1>1, <1>2, <1>11, <1>12, WithMonitor

(* The event that the connection is up comes before what is queued. *)
Opened(queue, open) == IF open THEN queue ELSE <<Queued([type |-> "connect"])>> \o queue

(* The event that a connection is up is queued before the first answer and  *)
(* is not part of the handshake.                                            *)
LEMMA OpenedQueue ==
    ASSUME NEW queue \in Seq(Entry), NEW open, NEW floor, Arrives(floor, queue),
           NEW state, NEW auth, NEW session, NEW out, Handshake(state, auth, session, out, queue)
    PROVE  /\ Opened(queue, open) \in Seq(Entry)
           /\ Arrives(floor, Opened(queue, open))
           /\ Handshake(state, auth, session, out, Opened(queue, open))
<1> DEFINE e == Queued([type |-> "connect"])
           q == <<e>> \o queue
<1>1. e \in Entry /\ ~IsAuth(e.m) /\ e.m.type # "version"
  BY DEF Queued, Entry, Event, IsAuth
<1> HIDE DEF e
<1>2. /\ q \in Seq(Entry)
      /\ \A i \in DOMAIN q : i \in Int /\ (q[i] = e \/ (i - 1 \in DOMAIN queue /\ q[i] = queue[i - 1]))
  BY <1>1
<1> HIDE DEF q
<1>3. \A i \in DOMAIN q : FreshAuth(q, i) =>
          i - 1 \in DOMAIN queue /\ FreshAuth(queue, i - 1) /\ q[i] = queue[i - 1]
  BY <1>1, <1>2 DEF FreshAuth
<1>4. Arrives(floor, q)
  BY <1>1, <1>2 DEF Arrives
<1>5. Handshake(state, auth, session, out, q)
  <2>1. \A i, j \in DOMAIN q : i - 1 = j - 1 => i = j
    BY <1>2
  <2> QED
    BY <1>3, <2>1 DEF Handshake
<1> QED
  BY <1>2, <1>4, <1>5 DEF Opened, e, q

(* A request is taken from the connection by the monitor. *)
LEMMA HandshakeServed ==
    ASSUME NEW state, NEW auth, NEW session, NEW out \in Seq(Request), out # <<>>, NEW queue,
           Handshake(state, auth, session, out, queue)
    PROVE  Handshake(state, auth, session, Tail(out), queue)
<1> DEFINE tail == Tail(out)
<1>1. \A i \in DOMAIN tail : i \in Int /\ i + 1 # 1 /\ i + 1 \in DOMAIN out /\ tail[i] = out[i + 1]
  OBVIOUS
<1> HIDE DEF tail
<1>2. Handshake(state, auth, session, tail, queue)
  BY <1>1 DEF Handshake
<1> QED
  BY <1>2 DEF tail

(* The answer r, after which the session is s, to the request m. *)
Answering(m, r, session, s) ==
    \/ r = "challenge" /\ m.req = "hello"
    \/ r = "key" /\ m.req = "key" /\ s = "authenticated"
    \/ r = "tickets" /\ m.req = "tickets" /\ s = session
    \/ r = "ENOTSUP" /\ m.req = "hello" /\ s = session
    \/ r = "EPERM" /\ s = session

(* The monitor's answer to a request of the handshake is one that the       *)
(* client expects when it comes to it.                                      *)
LEMMA HandshakeAnswered ==
    ASSUME NEW state, NEW auth, NEW session, NEW out \in Seq(Request), out # <<>>,
           NEW queue \in Seq(Entry), Handshake(state, auth, session, out, queue),
           NEW e \in Entry, IsAuth(e.m), IsAuth(Head(out)),
           NEW s, Answering(Head(out), e.m.r, session, s)
    PROVE  /\ Handshake(state, auth, s, Tail(out), Append(queue, e))
           /\ state = "HAVE_SESSION" /\ session = "authenticated" => s = "authenticated"
<1> DEFINE tail == Tail(out)
           q == Append(queue, e)
           m == Head(out)
<1>1. /\ \A i \in DOMAIN tail : i \in Int /\ i + 1 # 1 /\ i + 1 \in DOMAIN out /\ tail[i] = out[i + 1]
      /\ 1 \in DOMAIN out /\ m = out[1] /\ m \in Request
  OBVIOUS
<1>2. \A i \in DOMAIN q : \/ i \in DOMAIN queue /\ q[i] = queue[i]
                          \/ i = Len(queue) + 1 /\ q[i] = e
  BY QueueGrows
<1>3. \A i \in DOMAIN q : FreshAuth(q, i) => \/ i \in DOMAIN queue /\ FreshAuth(queue, i) /\ q[i] = queue[i]
                                             \/ i = Len(queue) + 1 /\ q[i] = e
  BY <1>2 DEF FreshAuth
<1> HIDE DEF tail, q, m
<1>4. state # "NONE" /\ ~(state = "AUTHENTICATING" /\ auth.starting)
  BY <1>1 DEF Handshake, m
<1>5. CASE m.req = "hello"
  <2>1. /\ state = "NEGOTIATING" /\ \A i \in DOMAIN queue : ~FreshAuth(queue, i)
        /\ \A i \in DOMAIN tail : ~IsAuth(tail[i])
    BY <1>1, <1>5 DEF Handshake, m
  <2>2. e.m.r \in {"challenge", "ENOTSUP", "EPERM"}
    BY <1>5 DEF Answering, m
  <2> QED
    BY <1>3, <2>1, <2>2 DEF Handshake, tail, q
<1>6. CASE m.req # "hello"
  <2>1. state # "NEGOTIATING" /\ (m.req = "tickets" => session = "authenticated")
    BY <1>1, <1>6 DEF Handshake, m
  <2>2. /\ e.m.r \in {"key", "tickets", "EPERM"} /\ (e.m.r # "EPERM" => s = "authenticated")
        /\ s = session \/ s = "authenticated"
    BY <1>6, <2>1 DEF Answering, m
  <2>3. /\ \A i \in DOMAIN tail : IsAuth(tail[i]) => tail[i].req # "hello"
        /\ \A i \in DOMAIN tail : IsAuth(tail[i]) /\ tail[i].req = "tickets" => session = "authenticated"
    BY <1>1, <2>1 DEF Handshake
  <2>4. \A i \in DOMAIN q : FreshAuth(q, i) =>
            /\ q[i].m.r \notin {"challenge", "ENOTSUP"}
            /\ q[i].m.r \in {"key", "tickets"} => s = "authenticated"
    BY <1>3, <2>1, <2>2 DEF Handshake
  <2>5. /\ state \in {"AUTHENTICATING", "HAVE_SESSION"} => auth.handler
        /\ state = "HAVE_SESSION" => ~auth.starting
    BY DEF Handshake
  <2>6. Handshake(state, auth, s, tail, q)
    BY <1>4, <2>1, <2>2, <2>3, <2>4, <2>5 DEF Handshake
  <2> QED
    BY <2>2, <2>6 DEF tail, q
<1> QED
  BY <1>5, <1>6

-----------------------------------------------------------------------------
(* The state after the monitor has taken a request: the connection is con   *)
(* and the queue is queue.                                                  *)
LEMMA ServedKeeps ==
    ASSUME IInv, Answers(c), c.con.out # <<>>, UNCHANGED <<mon, user, phase>>,
           NEW con \in Con, con.out = Tail(c.con.out),
           NEW queue \in Seq(Entry), Arrives(user.floor, queue),
           Handshake(c.state, c.auth, con.session, con.out, queue),
           c.state = "HAVE_SESSION" /\ c.con.session = "authenticated" => con.session = "authenticated",
           c' = [c EXCEPT !.con = con, !.queue = queue]
    PROVE  IInv'
<1>1. /\ Sound(c, user.floor) /\ c \in Client /\ c.con.out \in Seq(Request)
      /\ c.cur_mon # None => phase # "down"
      /\ user.pc = "init" => c.subs = NoSubs
  BY Facts DEF Client, Con, IInv, Connected
<1>2. c.cur_mon # None
  BY DEF Answers, IInv, Connected
<1>3. c' \in Client /\ c'.con = con /\ c'.queue = queue
  BY <1>1 DEF Client
<1>4. /\ c'.failed = c.failed /\ c'.waiting = c.waiting /\ c'.reqs = c.reqs /\ c'.cur_mon = c.cur_mon
      /\ c'.subs = c.subs /\ c'.state = c.state /\ c'.auth = c.auth /\ c'.batch = c.batch
      /\ c'.finisher_queue = c.finisher_queue
  BY <1>1 DEF Client
<1>5. AskedFor(user.floor, con.out)
  <2>1. \A i \in DOMAIN con.out : i + 1 \in DOMAIN c.con.out /\ con.out[i] = c.con.out[i + 1]
    BY <1>1
  <2>2. AskedFor(user.floor, c.con.out)
    BY <1>1 DEF Sound
  <2> QED
    BY <2>1, <2>2 DEF AskedFor
<1>6. Sound(c', user.floor)
  BY <1>1, <1>3, <1>4, <1>5 DEF Sound
<1> QED
  BY <1>1, <1>2, <1>4, <1>6, WithMonitor

(* The connection after a request was taken from it. *)
Took(con, session) == [con EXCEPT !.state = "open", !.out = Tail(@), !.session = session]

(* The connection is still of its type when a request was taken from it. *)
LEMMA TookCon ==
    ASSUME NEW con \in Con, con.out # <<>>, NEW s \in {"none", "begun", "authenticated"}
    PROVE  /\ Took(con, s) \in Con /\ Took(con, s).out = Tail(con.out) /\ Took(con, s).session = s
<1>1. Tail(con.out) \in Seq(Request)
  BY DEF Con
<1> QED
  BY <1>1 DEF Con, Took

Open == Opened(c.queue, c.con.state = "open")

(* The connection and the queue that the monitor's answer is added to. *)
LEMMA OpenFacts ==
    ASSUME IInv
    PROVE  /\ c \in Client /\ c.con \in Con /\ c.con.out \in Seq(Request) /\ Open \in Seq(Entry)
           /\ Arrives(user.floor, Open)
           /\ Handshake(c.state, c.auth, c.con.session, c.con.out, Open)
           /\ AskedFor(user.floor, c.con.out)
           /\ c.con.session \in {"none", "begun", "authenticated"}
<1>1. /\ c \in Client /\ c.queue \in Seq(Entry) /\ c.con \in Con /\ AskedFor(user.floor, c.con.out)
      /\ Arrives(user.floor, c.queue)
      /\ Handshake(c.state, c.auth, c.con.session, c.con.out, c.queue)
  BY Facts DEF Sound, Client
<1> DEFINE open == c.con.state = "open"
<1>2. Opened(c.queue, open) \in Seq(Entry) /\ Arrives(user.floor, Opened(c.queue, open))
      /\ Handshake(c.state, c.auth, c.con.session, c.con.out, Opened(c.queue, open))
  <2> HIDE DEF open
  <2> QED
    BY <1>1, OpenedQueue
<1> QED
  BY <1>1, <1>2 DEF Open, Con

(* A request of the handshake is answered. *)
LEMMA AuthServed ==
    ASSUME IInv, Answers(c), c.con.out # <<>>, UNCHANGED <<mon, user, phase>>,
           IsAuth(Head(c.con.out)), NEW r \in AuthReply, NEW s \in {"none", "begun", "authenticated"},
           Answering(Head(c.con.out), r, c.con.session, s),
           c' = [c EXCEPT !.con = Took(c.con, s), !.queue = Append(Open, Queued([type |-> "auth", r |-> r]))]
    PROVE  IInv'
<1> DEFINE e == Queued([type |-> "auth", r |-> r])
           con == Took(c.con, s)
           queue == Append(Open, e)
<1>1. e \in Entry /\ IsAuth(e.m) /\ e.m.type # "version" /\ e.m.r = r
  BY DEF Queued, Entry, Event, IsAuth
<1> HIDE DEF e
<1>2. con \in Con /\ con.out = Tail(c.con.out) /\ con.session = s
  BY OpenFacts, TookCon
<1>3. queue \in Seq(Entry) /\ Arrives(user.floor, queue)
  BY <1>1, OpenFacts, QueueGrows, ArrivesGrows
<1>4. /\ Handshake(c.state, c.auth, s, Tail(c.con.out), queue)
      /\ c.state = "HAVE_SESSION" /\ c.con.session = "authenticated" => s = "authenticated"
  BY <1>1, OpenFacts, HandshakeAnswered
<1>5. c' = [c EXCEPT !.con = con, !.queue = queue]
  BY DEF e
<1> HIDE DEF con, queue
<1>6. /\ Handshake(c.state, c.auth, con.session, con.out, queue)
      /\ c.state = "HAVE_SESSION" /\ c.con.session = "authenticated" => con.session = "authenticated"
  BY <1>2, <1>4
<1> QED
  BY <1>2, <1>3, <1>5, <1>6, ServedKeeps, Zenon

(* Another request is dropped or answered. *)
LEMMA OtherServed ==
    ASSUME IInv, Answers(c), c.con.out # <<>>, UNCHANGED <<mon, user, phase>>,
           NEW con \in Con, con.out = Tail(c.con.out), con.session = c.con.session,
           NEW queue,
           \/ queue = Open
           \/ \E e \in Entry :
                /\ ~IsAuth(e.m)
                /\ e.m.type = "version" => user.floor[e.m.h[1]] # 0 /\ e.m.v >= user.floor[e.m.h[1]]
                /\ queue = Append(Open, e),
           c' = [c EXCEPT !.con = con, !.queue = queue]
    PROVE  IInv'
<1>1. Handshake(c.state, c.auth, con.session, con.out, Open)
  BY OpenFacts, HandshakeServed
<1>2. CASE queue = Open
  BY <1>1, <1>2, OpenFacts, ServedKeeps, Zenon
<1>3. CASE queue # Open
  <2>1. PICK e \in Entry :
                /\ ~IsAuth(e.m)
                /\ e.m.type = "version" => user.floor[e.m.h[1]] # 0 /\ e.m.v >= user.floor[e.m.h[1]]
                /\ queue = Append(Open, e)
    BY <1>3
  <2>2. queue \in Seq(Entry) /\ Arrives(user.floor, queue)
    BY <2>1, OpenFacts, QueueGrows, ArrivesGrows
  <2>3. Handshake(c.state, c.auth, con.session, con.out, queue)
    BY <1>1, <2>1, OpenFacts, HandshakeGrows
  <2> QED
    BY <2>2, <2>3, ServedKeeps, Zenon
<1> QED
  BY <1>2, <1>3

-----------------------------------------------------------------------------
(* The monitor takes the oldest request: it authenticates the client,       *)
(* enters a subscription, or answers; what comes before the session is      *)
(* authenticated it drops.                                                  *)
LEMMA MonServesKeeps ==
    ASSUME IInv, MonServes
    PROVE  IInv'
<1> DEFINE m == Head(c.con.out)
           y == [c EXCEPT !.con.state = "open", !.con.out = Tail(@),
                          !.queue = IF c.con.state = "open" THEN @ ELSE <<Queued([type |-> "connect"])>> \o @]
           Reply(a) == [y EXCEPT !.queue = Append(@, Queued(a))]
           Auth(r, session) == [Reply([type |-> "auth", r |-> r]) EXCEPT !.con.session = session]
           known == c.con.session = "authenticated"
           con == [c.con EXCEPT !.state = "open", !.out = Tail(@)]
<1>1. Answers(c) /\ c.con.out # <<>> /\ UNCHANGED <<mon, user, phase>>
  BY DEF MonServes
<1>2. \/ /\ m.type = "auth"
         /\ c' = CASE m.req = "hello" -> Auth("challenge", "begun")
                   [] m.req = "key" -> Auth("key", "authenticated")
                   [] m.req = "tickets" -> Auth("tickets", c.con.session)
      \/ \E r \in {"ENOTSUP", "EPERM"} :
         /\ m.type = "auth" /\ (r = "ENOTSUP" => m.req = "hello")
         /\ c' = Auth(r, c.con.session)
      \/ /\ m.type = "subscribe"
         /\ c' = IF ~known THEN y
                 ELSE [Reply([type |-> "subscribe_ack"]) EXCEPT
                         !.con.overdue = FALSE,
                         !.con.subs = [w \in What |-> IF m.subs[w].on THEN m.subs[w] ELSE @[w]]]
      \/ /\ m.type = "get_version"
         /\ c' = IF ~known THEN y
                 ELSE Reply([type |-> "version", h |-> m.h, v |-> mon.latest["osdmap"]])
      \/ /\ m.type = "statfs"
         /\ c' = IF known THEN Reply([type |-> "statfs_reply"]) ELSE y
  BY Zenon DEF MonServes
<1>3. /\ c \in Client /\ c.con \in Con /\ c.con.out \in Seq(Request) /\ m \in Request
      /\ c.con.session \in {"none", "begun", "authenticated"} /\ Tail(c.con.out) \in Seq(Request)
  BY <1>1, OpenFacts
<1>4. con \in Con /\ con.out = Tail(c.con.out) /\ con.session = c.con.session /\ con.subs = c.con.subs
  BY <1>3 DEF Con
<1>5. y = [c EXCEPT !.con = con, !.queue = Open]
  BY DEF Open, Opened
<1>6. ASSUME NEW a
      PROVE  Reply(a) = [c EXCEPT !.con = con, !.queue = Append(Open, Queued(a))]
  <2> HIDE DEF y, con
  <2> QED
    BY <1>3, <1>5 DEF Client
<1>7. ASSUME NEW r, NEW s
      PROVE  Auth(r, s) = [c EXCEPT !.con = Took(c.con, s),
                                    !.queue = Append(Open, Queued([type |-> "auth", r |-> r]))]
  <2>1. Reply([type |-> "auth", r |-> r])
            = [c EXCEPT !.con = con, !.queue = Append(Open, Queued([type |-> "auth", r |-> r]))]
    BY <1>6, Zenon
  <2>2. [con EXCEPT !.session = s] = Took(c.con, s)
    BY <1>3 DEF Took, Con
  <2> HIDE DEF Reply, con
  <2> QED
    BY <1>3, <2>1, <2>2 DEF Client
<1> HIDE DEF y, Reply, Auth, con, m
<1>8. CASE m.type = "auth"
  <2>1. m.req \in AuthReq /\ IsAuth(m)
    BY <1>3, <1>8 DEF Request, IsAuth
  <2>2. PICK r \in AuthReply, s \in {"none", "begun", "authenticated"} :
            Answering(m, r, c.con.session, s) /\ c' = Auth(r, s)
    <3>1. CASE \E r \in {"ENOTSUP", "EPERM"} :
                  (r = "ENOTSUP" => m.req = "hello") /\ c' = Auth(r, c.con.session)
      BY <1>3, <3>1 DEF Answering, AuthReply
    <3>2. CASE c' = CASE m.req = "hello" -> Auth("challenge", "begun")
                      [] m.req = "key" -> Auth("key", "authenticated")
                      [] m.req = "tickets" -> Auth("tickets", c.con.session)
      <4>1. CASE m.req = "hello"
        BY <3>2, <4>1 DEF Answering, AuthReply
      <4>2. CASE m.req = "key"
        BY <3>2, <4>2 DEF Answering, AuthReply
      <4>3. CASE m.req = "tickets"
        BY <1>3, <3>2, <4>3 DEF Answering, AuthReply
      <4> QED
        BY <2>1, <4>1, <4>2, <4>3 DEF AuthReq
    <3> QED
      BY <1>2, <1>8, <3>1, <3>2
  <2>3. c' = [c EXCEPT !.con = Took(c.con, s), !.queue = Append(Open, Queued([type |-> "auth", r |-> r]))]
    BY <1>7, <2>2, Zenon
  <2> QED
    BY <1>1, <2>1, <2>2, <2>3, AuthServed, Zenon DEF m
<1>9. CASE c' = y
  <2>1. c' = [c EXCEPT !.con = con, !.queue = Open]
    BY <1>5, <1>9
  <2> QED
    BY <1>1, <1>4, <2>1, OtherServed, Zenon
<1>10. ASSUME NEW a \in Event, a.type # "auth",
              a.type = "version" => user.floor[a.h[1]] # 0 /\ a.v >= user.floor[a.h[1]],
              NEW con2 \in Con, con2.out = con.out, con2.session = con.session,
              c' = [c EXCEPT !.con = con2, !.queue = Append(Open, Queued(a))]
       PROVE  IInv'
  <2> DEFINE e == Queued(a)
             queue == Append(Open, e)
  <2>1. e \in Entry /\ e.m = a
    BY DEF Queued, Entry
  <2> HIDE DEF e
  <2>2. \E x \in Entry :
            /\ ~IsAuth(x.m)
            /\ x.m.type = "version" => user.floor[x.m.h[1]] # 0 /\ x.m.v >= user.floor[x.m.h[1]]
            /\ queue = Append(Open, x)
    BY <1>10, <2>1 DEF IsAuth
  <2>3. c' = [c EXCEPT !.con = con2, !.queue = queue]
    BY <1>10 DEF e
  <2> HIDE DEF queue
  <2> QED
    BY <1>1, <1>4, <1>10, <2>2, <2>3, OtherServed, Zenon
<1>11. CASE m.type = "subscribe" /\ known
  <2> DEFINE a == [type |-> "subscribe_ack"]
             subs == [w \in What |-> IF m.subs[w].on THEN m.subs[w] ELSE c.con.subs[w]]
             con2 == [con EXCEPT !.overdue = FALSE, !.subs = subs]
  <2>1. m.subs \in [What -> Sub] /\ c.con.subs \in [What -> Sub]
    BY <1>3, <1>11 DEF Request, Con
  <2>2. subs \in [What -> Sub]
    BY <2>1
  <2>3. con2 \in Con /\ con2.out = con.out /\ con2.session = con.session
    <3> HIDE DEF subs
    <3> QED
      BY <1>4, <2>2 DEF Con
  <2>4. a \in Event /\ a.type # "auth" /\ a.type # "version"
    BY DEF Event
  <2>5. c' = [Reply(a) EXCEPT !.con.overdue = FALSE,
                              !.con.subs = [w \in What |-> IF m.subs[w].on THEN m.subs[w] ELSE @[w]]]
    BY <1>2, <1>11
  <2>6. Reply(a) = [c EXCEPT !.con = con, !.queue = Append(Open, Queued(a))]
    BY <1>6, Zenon
  <2> HIDE DEF a
  <2>7. c' = [c EXCEPT !.con = con2, !.queue = Append(Open, Queued(a))]
    <3>1. Reply(a).con = con
      BY <1>3, <2>6 DEF Client
    <3>2. [Reply(a).con EXCEPT !.overdue = FALSE,
             !.subs = [w \in What |-> IF m.subs[w].on THEN m.subs[w] ELSE @[w]]] = con2
      BY <1>4, <3>1 DEF Con
    <3>3. c' = [Reply(a) EXCEPT !.con = con2]
      BY <2>5, <3>2
    <3> HIDE DEF con2
    <3> QED
      BY <1>3, <2>6, <3>3 DEF Client
  <2> HIDE DEF con2
  <2> QED
    BY <1>10, <2>3, <2>4, <2>7, Zenon
<1>12. CASE m.type = "get_version" /\ known
  <2> DEFINE a == [type |-> "version", h |-> m.h, v |-> mon.latest["osdmap"]]
  <2>1. m.h \in Handle /\ m.h[1] \in Asker
    BY <1>3, <1>12 DEF Request, Handle
  <2>2. mon.latest["osdmap"] \in Nat /\ user.floor[m.h[1]] =< mon.latest["osdmap"]
    BY <2>1 DEF IInv, Versions, Monitors, What
  <2>3. user.floor[m.h[1]] # 0 /\ user.floor[m.h[1]] \in Nat
    <3>1. 1 \in DOMAIN c.con.out /\ m = c.con.out[1]
      BY <1>1, <1>3 DEF m
    <3>2. user.floor \in [Asker -> Nat]
      BY Facts
    <3> QED
      BY <1>12, <2>1, <3>1, <3>2, OpenFacts DEF AskedFor
  <2>4. /\ a \in Event /\ a.type # "auth"
        /\ user.floor[a.h[1]] # 0 /\ a.v >= user.floor[a.h[1]]
    BY <2>1, <2>2, <2>3 DEF Event
  <2>5. c' = [c EXCEPT !.con = con, !.queue = Append(Open, Queued(a))]
    BY <1>2, <1>6, <1>12, Zenon
  <2> HIDE DEF a
  <2> QED
    BY <1>4, <1>10, <2>4, <2>5, Zenon
<1>13. CASE m.type = "statfs" /\ known
  <2> DEFINE a == [type |-> "statfs_reply"]
  <2>1. a \in Event /\ a.type # "auth" /\ a.type # "version"
    BY DEF Event
  <2>2. c' = [c EXCEPT !.con = con, !.queue = Append(Open, Queued(a))]
    BY <1>2, <1>6, <1>13, Zenon
  <2> HIDE DEF a
  <2> QED
    BY <1>4, <1>10, <2>1, <2>2, Zenon
<1> QED
  BY <1>2, <1>8, <1>9, <1>11, <1>12, <1>13

-----------------------------------------------------------------------------
(* The state after the constructors, MonClient::build_initial_monmap() and  *)
(* MonClient::init().                                                       *)
LEMMA InitSound ==
    ASSUME Init
    PROVE  IInv
<1> DEFINE none == <<>>
           empty == {}
           auth == [handler |-> FALSE, starting |-> FALSE, valid |-> {}]
           con == NoCon
           zero == [v \in 1 .. 2 |-> 0]
           have == [w \in {"osdmap", "mdsmap"} |-> 0]
           latest == [w \in What |-> 1]
<1>1. c = [state |-> "NONE", cur_mon |-> None, con |-> con, queue |-> none, hunting |-> TRUE,
           monmap |-> 0, waiting |-> none, subs |-> NoSubs, renew_due |-> TRUE, renew_sent |-> FALSE,
           auth |-> auth, authenticate_err |-> "0", reqs |-> empty, finisher_queue |-> none,
           batch |-> none, finisher |-> "asleep", finisher_stop |-> FALSE, timer |-> TRUE,
           failed |-> empty]
  BY Zenon DEF Init
<1>2. /\ mon = [up |-> Mon, latest |-> latest] /\ phase = "up"
      /\ user = [pc |-> "init", have |-> have, waits |-> 0, checks |-> empty, statfs |-> FALSE,
                 floor |-> zero, got |-> zero]
  BY Zenon DEF Init
<1>3. /\ none \in Seq(Request) /\ none \in Seq(Entry) /\ none \in Seq(Answer) /\ DOMAIN none = {}
      /\ AskedFor(zero, none) /\ Arrives(zero, none) /\ Answered(zero, none)
  BY DEF AskedFor, Arrives, Answered
<1>4. /\ empty \in SUBSET Handle /\ empty \in SUBSET Asker /\ empty \in SUBSET STRING
      /\ OnBehalf(zero, empty) /\ \A v : v \notin empty
  BY FS_EmptySet DEF OnBehalf
<1>5. /\ zero \in [Asker -> Nat] /\ have \in [Maps -> Nat] /\ latest \in [What -> Nat]
      /\ \A v \in Asker : zero[v] = 0
      /\ latest["osdmap"] = 1 /\ latest["monmap"] \in 1 .. Len(MonMaps)
  BY MonMapsAssumption DEF Asker, Maps, What
<1>6. NoSubs \in [What -> Sub]
  BY DEF NoSubs, NoSub, Sub
<1>7. con \in Con /\ con.state = "none" /\ con.out = none
  <2>1. con = [[mon |-> None, state |-> "connecting", out |-> none,
                session |-> "none", subs |-> NoSubs, overdue |-> FALSE] EXCEPT !.state = "none"]
    BY Zenon DEF NoCon, NewCon
  <2> HIDE DEF none, con
  <2> QED
    BY <1>3, <1>6, <2>1 DEF Con
<1>8. auth \in AuthState
  BY DEF AuthState
<1>9. 0 \in 0 .. Len(MonMaps) /\ 0 \in 0 .. MaxVersion
  BY MonMapsAssumption, MaxVersionAssumption
<1> HIDE DEF none, empty, auth, con, zero, have, latest
<1>10. c \in Client
  BY <1>1, <1>3, <1>4, <1>6, <1>7, <1>8, <1>9 DEF Client, AuthState
<1>11. user \in User /\ mon \in Monitors
  BY <1>2, <1>4, <1>5, <1>9 DEF User, Monitors
<1>12. Sound(c, user.floor)
  <2>1. Handshake(c.state, c.auth, c.con.session, c.con.out, c.queue)
    BY <1>1, <1>3, <1>7 DEF Handshake
  <2>2. c.failed = {}
    BY <1>1 DEF empty
  <2> QED
    BY <1>1, <1>2, <1>3, <1>4, <1>7, <1>10, <2>1, <2>2 DEF Sound
<1>13. Connected
  <2>1. c.queue = <<>>
    BY <1>1 DEF none
  <2> QED
    BY <1>1, <1>2, <1>3, <1>7, <2>1 DEF Connected
<1>14. Versions
  BY <1>2, <1>4, <1>5 DEF Versions
<1> QED
  BY <1>2, <1>5, <1>11, <1>12, <1>13, <1>14 DEF IInv

(* IInv holds in every state, for any monitors, monmaps and bounds, and     *)
(* however often connections break, monitors stop, tickets expire and maps  *)
(* are published.                                                           *)
THEOREM Inductive == Spec => []IInv
<1>1. Init => IInv
  BY InitSound
<1>2. IInv /\ [Next]_vars => IInv'
  <2> SUFFICES ASSUME IInv, [Next]_vars
               PROVE  IInv'
    OBVIOUS
  <2>1. CASE Dispatch
    BY <2>1, DispatchKeeps
  <2>2. CASE Tick
    BY <2>2, TickKeeps
  <2>3. CASE RenewalDue
    BY <2>3, RenewalDueKeeps
  <2>4. CASE TicketsExpire
    BY <2>4, TicketsExpireKeeps
  <2>5. CASE OsdSendsMap
    BY <2>5, OsdSendsMapKeeps
  <2>6. CASE FinisherTakes
    BY <2>6, FinisherTakesKeeps
  <2>7. CASE FinisherRuns
    BY <2>7, FinisherRunsKeeps
  <2>8. CASE FinisherSleeps \/ FinisherExits
    BY <2>8, FinisherRestsKeeps
  <2>9. CASE ClientInit
    BY <2>9, ClientInitKeeps
  <2>10. CASE authenticate
    BY <2>10, AuthenticateKeeps
  <2>11. CASE AuthenticateReturns
    BY <2>11, AuthenticateReturnsKeeps
  <2>12. CASE AuthenticateTimesOut
    BY <2>12, AuthenticateTimesOutKeeps
  <2>13. CASE AskVersion
    BY <2>13, AskVersionKeeps
  <2>14. CASE get_fs_stats
    BY <2>14, GetFsStatsKeeps
  <2>15. CASE WaitForMap
    BY <2>15, WaitForMapKeeps
  <2>16. CASE Shutdown
    BY <2>16, ShutdownKeeps
  <2>17. CASE FinisherStop
    BY <2>17, FinisherStopKeeps
  <2>18. CASE ShutdownEnds
    BY <2>18, ShutdownEndsKeeps
  <2>19. CASE MonServes
    BY <2>19, MonServesKeeps
  <2>20. CASE ConBreaks
    BY <2>20, ConBreaksKeeps
  <2>21. CASE MonStops
    BY <2>21, MonStopsKeeps
  <2>22. CASE SubsLapse
    BY <2>22, SubsLapseKeeps
  <2>23. CASE \E w \in What : MonSends(w) \/ Publish(w)
    BY <2>23, MonSendsKeeps, PublishKeeps
  <2>24. CASE UNCHANGED vars
    <3>1. UNCHANGED <<c, mon, user, phase>>
      BY <2>24 DEF vars
    <3> QED
      BY <3>1 DEF IInv, Connected, Versions
  <2> QED
    BY <2>1, <2>2, <2>3, <2>4, <2>5, <2>6, <2>7, <2>8, <2>9, <2>10, <2>11, <2>12, <2>13, <2>14,
       <2>15, <2>16, <2>17, <2>18, <2>19, <2>20, <2>21, <2>22, <2>23, <2>24 DEF Next
<1> QED
  BY <1>1, <1>2, PTL DEF Spec

(* No assertion of MonClient and the cephx handler ever fails: a monitor is *)
(* chosen whenever a message is sent or a monmap comes in, also around      *)
(* shutdown(), and handle_auth() is given no answer that cephx does not     *)
(* expect, whichever sessions were opened and lost before.                  *)
THEOREM NoAssertionFails == Spec => []NoAssertFails
<1>1. IInv => NoAssertFails
  <2> SUFFICES ASSUME IInv
               PROVE  NoAssertFails
    OBVIOUS
  <2>1. c \in Client /\ user \in User /\ c.failed = {}
    BY Facts DEF Sound
  <2> QED
    BY <2>1 DEF NoAssertFails, TypeOK, Client, User
<1> QED
  BY <1>1, Inductive, PTL

(* A client in HAVE_SESSION talks to a monitor that has authenticated it,   *)
(* never on the strength of an answer of the session before; and a callback *)
(* of get_version() is given no version older than the newest one of when   *)
(* it was asked for.                                                        *)
THEOREM SessionsAreAuthenticated == Spec => []SessionIsAuthenticated
<1>1. IInv => SessionIsAuthenticated
  <2> SUFFICES ASSUME IInv
               PROVE  SessionIsAuthenticated
    OBVIOUS
  <2>1. Sound(c, user.floor) /\ user.got \in [Asker -> Nat]
    BY Facts
  <2> QED
    BY <2>1 DEF SessionIsAuthenticated, IInv, Sound, Versions
<1> QED
  BY <1>1, Inductive, PTL

=============================================================================
