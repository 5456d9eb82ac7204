-------------------------- MODULE MonClientSession --------------------------
(* Proofs about MonClient, first part: the inductive invariant, and that    *)
(* sending, (re)opening a session and the cephx handshake keep what it says *)
(* of the client.                                                           *)
EXTENDS MonClient, FoldFacts

-----------------------------------------------------------------------------
(* The values of the fields. *)

Maps == {"osdmap", "mdsmap"}
Asker == 1 .. 2
Handle == Asker \X Nat
Sub == [start : Nat, once : BOOLEAN, on : BOOLEAN]
AuthReq == {"hello", "key", "tickets"}
AuthReply == {"challenge", "key", "tickets", "EPERM", "ENOTSUP"}

Request ==
    [type : {"auth"}, req : AuthReq] \cup [type : {"subscribe"}, subs : [What -> Sub]]
        \cup [type : {"get_version"}, h : Handle] \cup [type : {"statfs"}]

Event ==
    [type : {"connect", "reset", "subscribe_ack", "statfs_reply"}]
        \cup [type : {"auth"}, r : AuthReply]
        \cup [type : {"version"}, h : Handle, v : Nat]
        \cup [type : {"monmap"}, v : 1 .. Len(MonMaps)]
        \cup [type : {"map"}, what : Maps, v : Nat]

Entry == [m : Event, stale : BOOLEAN]
Answer == [h : Handle, r : Nat]

Con == [mon : Mon \cup {None}, state : {"none", "connecting", "open", "broken"},
        out : Seq(Request), session : {"none", "begun", "authenticated"},
        subs : [What -> Sub], overdue : BOOLEAN]

Client ==
    [state : {"NONE", "NEGOTIATING", "AUTHENTICATING", "HAVE_SESSION"},
     cur_mon : Mon \cup {None}, con : Con, queue : Seq(Entry), hunting : BOOLEAN,
     monmap : 0 .. Len(MonMaps), waiting : Seq(Request), subs : [What -> Sub],
     renew_due : BOOLEAN, renew_sent : BOOLEAN,
     auth : [handler : BOOLEAN, starting : BOOLEAN, valid : SUBSET Ticket],
     authenticate_err : {"0", "EPERM", "ENOTSUP", "ETIMEDOUT"}, reqs : SUBSET Handle, finisher_queue : Seq(Answer),
     batch : Seq(Answer), finisher : {"asleep", "running", "off"}, finisher_stop : BOOLEAN,
     timer : BOOLEAN, failed : SUBSET STRING]

User ==
    [pc : {"init", "mounting", "authenticating", "mounted", "failed"}, have : [Maps -> Nat],
     waits : 0 .. MaxVersion, checks : SUBSET Asker, statfs : BOOLEAN,
     floor : [Asker -> Nat], got : [Asker -> Nat]]

Monitors == [up : SUBSET Mon, latest : [What -> Nat]]

-----------------------------------------------------------------------------
(* The inductive invariant. *)

IsAuth(m) == m.type = "auth"
FreshAuth(queue, i) == ~queue[i].stale /\ IsAuth(queue[i].m)

(* The handshake: which requests and answers of cephx are on their way. *)
Handshake(state, auth, session, out, queue) ==
    /\ state \in {"AUTHENTICATING", "HAVE_SESSION"} => auth.handler
    /\ state = "HAVE_SESSION" => ~auth.starting
    /\ state = "NONE" \/ (state = "AUTHENTICATING" /\ auth.starting) =>
          /\ \A i \in DOMAIN out : ~IsAuth(out[i])
          /\ \A i \in DOMAIN queue : ~FreshAuth(queue, i)
    /\ \A i \in DOMAIN out : IsAuth(out[i]) =>
          IF out[i].req = "hello"
          THEN /\ state = "NEGOTIATING" /\ session = "none" /\ i = 1
               /\ \A j \in DOMAIN queue : ~FreshAuth(queue, j)
          ELSE /\ state # "NEGOTIATING"
               /\ out[i].req = "tickets" => session = "authenticated"
    /\ \A i \in DOMAIN queue : FreshAuth(queue, i) =>
          /\ queue[i].m.r \in {"challenge", "ENOTSUP"} => state = "NEGOTIATING"
          /\ queue[i].m.r \in {"key", "tickets"} => state # "NEGOTIATING" /\ session = "authenticated"
          /\ state = "NEGOTIATING" => \A j \in DOMAIN queue : FreshAuth(queue, j) => i = j

(* A version is asked for, or answered, only on behalf of an operation that *)
(* wants it, and what is answered is not older than when it did.            *)
AskedFor(floor, s) ==
    \A i \in DOMAIN s : s[i].type = "get_version" => floor[s[i].h[1]] # 0
Answered(floor, s) ==
    \A i \in DOMAIN s : floor[s[i].h[1]] # 0 /\ (s[i].r = EAGAIN \/ s[i].r >= floor[s[i].h[1]])
Arrives(floor, queue) ==
    \A i \in DOMAIN queue : queue[i].m.type = "version" =>
        floor[queue[i].m.h[1]] # 0 /\ queue[i].m.v >= floor[queue[i].m.h[1]]
OnBehalf(floor, reqs) == IsFiniteSet(reqs) /\ \A h \in reqs : floor[h[1]] # 0

(* What holds of the client between two steps, given the floors. *)
Sound(y, floor) ==
    /\ y \in Client
    /\ y.failed = {}
    /\ Handshake(y.state, y.auth, y.con.session, y.con.out, y.queue)
    /\ \A i \in DOMAIN y.waiting : ~IsAuth(y.waiting[i])
    /\ y.state = "HAVE_SESSION" /\ y.cur_mon # None => y.con.session = "authenticated"
    /\ y.cur_mon # None => y.state # "NONE"
    /\ AskedFor(floor, y.con.out)
    /\ AskedFor(floor, y.waiting)
    /\ Arrives(floor, y.queue)
    /\ OnBehalf(floor, y.reqs)
    /\ Answered(floor, y.finisher_queue)
    /\ Answered(floor, y.batch)

(* There is a monitor from the moment Client::init() needs one until        *)
(* shutdown() is through.                                                   *)
Connected ==
    /\ phase = "down" => c.cur_mon = None /\ ~c.timer
    /\ c.cur_mon = None =>
          /\ c.con.state = "none"
          /\ phase # "down" => c.queue = <<>> /\ c.state = "NONE" /\ user.pc = "init"
          /\ \A i \in DOMAIN c.queue : c.queue[i].stale
    /\ user.pc = "init" => c.subs = NoSubs /\ user.waits = 0
    /\ phase # "up" => user.pc \in {"mounted", "failed"}

Versions ==
    \A v \in Asker : /\ user.floor[v] =< mon.latest["osdmap"]
                     /\ v \in user.checks => user.floor[v] # 0
                     /\ user.got[v] # 0 => user.floor[v] # 0 /\ user.got[v] >= user.floor[v]

IInv ==
    /\ Sound(c, user.floor)
    /\ user \in User
    /\ mon \in Monitors
    /\ mon.latest["monmap"] \in 1 .. Len(MonMaps) /\ mon.latest["osdmap"] # 0
    /\ phase \in {"up", "stopping", "joining", "down"}
    /\ Connected
    /\ Versions

-----------------------------------------------------------------------------
(* The queue of a connection, or waiting_for_session, after a message was   *)
(* put there.                                                               *)
LEMMA PutCases ==
    ASSUME NEW q \in Seq(Request), NEW m \in Request
    PROVE  /\ Put(q, m) \in {q, Append(q, m)}
           /\ Put(q, m) \in Seq(Request)
BY DEF Put

(* Queueing a version request for an operation that has a floor keeps       *)
(* AskedFor.                                                                *)
LEMMA PutAsked ==
    ASSUME NEW floor, NEW q \in Seq(Request), NEW m \in Request, AskedFor(floor, q),
           m.type = "get_version" => floor[m.h[1]] # 0
    PROVE  AskedFor(floor, Put(q, m))
<1>1. AskedFor(floor, Append(q, m))
  <2> SUFFICES ASSUME NEW i \in DOMAIN Append(q, m), Append(q, m)[i].type = "get_version"
               PROVE  floor[Append(q, m)[i].h[1]] # 0
    BY DEF AskedFor
  <2>1. CASE i \in DOMAIN q
    BY <2>1 DEF AskedFor
  <2>2. CASE i = Len(q) + 1
    BY <2>2
  <2> QED
    BY <2>1, <2>2
<1> QED
  BY <1>1, PutCases

(* Queueing a message that is not of cephx leaves the handshake as it was. *)
LEMMA PutHandshake ==
    ASSUME NEW state, NEW auth, NEW session, NEW out \in Seq(Request), NEW queue, NEW m \in Request,
           ~IsAuth(m), Handshake(state, auth, session, out, queue)
    PROVE  Handshake(state, auth, session, Put(out, m), queue)
<1>1. \A i \in DOMAIN Append(out, m) : IsAuth(Append(out, m)[i]) =>
          i \in DOMAIN out /\ Append(out, m)[i] = out[i]
  OBVIOUS
<1>2. Handshake(state, auth, session, Append(out, m), queue)
  BY <1>1 DEF Handshake
<1> QED
  BY <1>2, PutCases

(* waiting_for_session never holds a message of the handshake, which is     *)
(* always sent with force.                                                  *)
LEMMA PutNoAuth ==
    ASSUME NEW q \in Seq(Request), NEW m \in Request, ~IsAuth(m),
           \A i \in DOMAIN q : ~IsAuth(q[i])
    PROVE  \A i \in DOMAIN Put(q, m) : ~IsAuth(Put(q, m)[i])
<1>1. \A i \in DOMAIN Append(q, m) : ~IsAuth(Append(q, m)[i])
  OBVIOUS
<1> QED
  BY <1>1, PutCases

(* What a message that is sent or kept leaves alone. *)
Same(y, z) ==
    /\ z.cur_mon = y.cur_mon /\ z.subs = y.subs /\ z.timer = y.timer /\ z.queue = y.queue
    /\ z.state = y.state /\ z.hunting = y.hunting /\ z.auth = y.auth

(* _send_mon_message() of a message that is not of cephx, sent or kept for  *)
(* the session, with a monitor chosen.                                      *)
LEMMA SendSound ==
    ASSUME NEW floor \in [Asker -> Nat], NEW y, Sound(y, floor), y.cur_mon # None,
           NEW m \in Request, ~IsAuth(m), m.type = "get_version" => floor[m.h[1]] # 0
    PROVE  /\ Sound(_send_mon_message(y, m, FALSE), floor)
           /\ Same(y, _send_mon_message(y, m, FALSE))
<1> DEFINE z == _send_mon_message(y, m, FALSE)
<1>0. y \in Client
  BY DEF Sound
<1>1. CASE y.state # "HAVE_SESSION"
  <2>1. z = [y EXCEPT !.waiting = Put(@, m)]
    BY <1>1 DEF _send_mon_message
  <2>2. Put(y.waiting, m) \in {y.waiting, Append(y.waiting, m)} /\ Put(y.waiting, m) \in Seq(Request)
    BY <1>0, PutCases DEF Client
  <2>3. z \in Client /\ z.waiting = Put(y.waiting, m)
    BY <1>0, <2>1, <2>2 DEF Client
  <2>4. /\ z.failed = y.failed /\ z.con = y.con /\ z.reqs = y.reqs /\ Same(y, z)
        /\ z.finisher_queue = y.finisher_queue /\ z.batch = y.batch
    BY <1>0, <2>1 DEF Client, Same
  <2> HIDE DEF z
  <2>5. y.waiting \in Seq(Request) /\ AskedFor(floor, y.waiting)
    BY <1>0 DEF Sound, Client
  <2>6. AskedFor(floor, z.waiting)
    BY <2>3, <2>5, PutAsked
  <2>7. \A i \in DOMAIN z.waiting : ~IsAuth(z.waiting[i])
    BY <2>3, <2>5, PutNoAuth DEF Sound
  <2> QED
    BY <2>3, <2>4, <2>6, <2>7 DEF Sound, Same, z
<1>2. CASE y.state = "HAVE_SESSION" /\ y.con.state = "broken"
  BY <1>2 DEF _send_mon_message, Same
<1>3. CASE y.state = "HAVE_SESSION" /\ y.con.state # "broken"
  <2>1. z = [y EXCEPT !.con.out = Put(@, m)]
    BY <1>3 DEF _send_mon_message
  <2>2. y.con \in Con /\ y.con.out \in Seq(Request) /\ Put(y.con.out, m) \in Seq(Request)
    BY <1>0, PutCases DEF Client, Con
  <2>3. z \in Client /\ z.con.out = Put(y.con.out, m)
    <3>1. [y.con EXCEPT !.out = Put(@, m)] \in Con
      BY <2>2 DEF Con
    <3>2. z = [y EXCEPT !.con = [y.con EXCEPT !.out = Put(@, m)]]
      BY <2>1
    <3>3. z \in Client /\ z.con = [y.con EXCEPT !.out = Put(@, m)]
      BY <1>0, <3>1, <3>2 DEF Client
    <3> QED
      BY <2>2, <3>3 DEF Con
  <2>4. /\ z.failed = y.failed /\ z.con.session = y.con.session /\ z.reqs = y.reqs /\ Same(y, z)
        /\ z.finisher_queue = y.finisher_queue /\ z.batch = y.batch /\ z.waiting = y.waiting
    BY <1>0, <2>1 DEF Client, Con, Same
  <2> HIDE DEF z
  <2>5. AskedFor(floor, z.con.out)
    BY <2>2, <2>3, PutAsked DEF Sound
  <2>6. Handshake(y.state, y.auth, y.con.session, y.con.out, y.queue)
    BY DEF Sound
  <2>7. Handshake(y.state, y.auth, y.con.session, z.con.out, y.queue)
    BY <2>2, <2>3, <2>6, PutHandshake
  <2> QED
    BY <2>3, <2>4, <2>5, <2>7 DEF Sound, Same, z
<1> QED
  BY <1>1, <1>2, <1>3

(* The fields that Sound is about. *)
Agree(y, z) ==
    /\ z.failed = y.failed /\ z.state = y.state /\ z.auth = y.auth /\ z.con = y.con
    /\ z.queue = y.queue /\ z.waiting = y.waiting /\ z.cur_mon = y.cur_mon /\ z.reqs = y.reqs
    /\ z.finisher_queue = y.finisher_queue /\ z.batch = y.batch

(* Sound depends on nothing but the fields that Agree names. *)
LEMMA AgreeSound ==
    ASSUME NEW floor, NEW y, NEW z \in Client, Sound(y, floor), Agree(y, z)
    PROVE  Sound(z, floor)
BY DEF Sound, Agree

(* _renew_subs() with a monitor: MMonSubscribe is sent or kept for the      *)
(* session.                                                                 *)
LEMMA RenewedSound ==
    ASSUME NEW floor \in [Asker -> Nat], NEW y, Sound(y, floor), y.cur_mon # None
    PROVE  Sound(Renewed(y), floor) /\ Same(y, Renewed(y))
<1> DEFINE z == [y EXCEPT !.renew_sent = TRUE]
<1>0. y \in Client
  BY DEF Sound
<1>1. z \in Client /\ Agree(y, z) /\ Same(y, z)
  BY <1>0 DEF Client, Agree, Same
<1>2. Sound(z, floor)
  BY <1>1, AgreeSound
<1>3. Subscribe(y) \in Request /\ ~IsAuth(Subscribe(y)) /\ Subscribe(y).type # "get_version"
  BY <1>0 DEF Subscribe, Request, IsAuth, Client
<1> HIDE DEF z
<1>4. /\ Sound(_send_mon_message(z, Subscribe(y), FALSE), floor)
      /\ Same(z, _send_mon_message(z, Subscribe(y), FALSE))
  BY <1>1, <1>2, <1>3, SendSound DEF Same
<1> QED
  BY <1>1, <1>4 DEF Renewed, Same, z

(* A request for the key, or for tickets once the session is authenticated, *)
(* may go out once the challenge was answered; handle_auth() and            *)
(* _check_auth_tickets() send them.                                         *)
LEMMA AuthSent ==
    ASSUME NEW floor \in [Asker -> Nat], NEW y, Sound(y, floor), y.cur_mon # None,
           NEW req \in {"key", "tickets"}, NEW force \in BOOLEAN, force \/ y.state = "HAVE_SESSION",
           y.state \in {"AUTHENTICATING", "HAVE_SESSION"}, ~y.auth.starting,
           req = "tickets" => y.con.session = "authenticated"
    PROVE  /\ Sound(_send_mon_message(y, [type |-> "auth", req |-> req], force), floor)
           /\ Same(y, _send_mon_message(y, [type |-> "auth", req |-> req], force))
<1> DEFINE m == [type |-> "auth", req |-> req]
           z == _send_mon_message(y, m, force)
<1>0. y \in Client /\ y.con \in Con /\ y.con.out \in Seq(Request)
  BY DEF Sound, Client, Con
<1>1. CASE y.con.state = "broken"
  BY <1>1 DEF _send_mon_message, Same
<1>2. CASE y.con.state # "broken"
  <2>1. z = [y EXCEPT !.con = [y.con EXCEPT !.out = Put(@, m)]]
    BY <1>2 DEF _send_mon_message
  <2>2. m \in Request /\ IsAuth(m) /\ m.req = req /\ m.type # "get_version"
    BY DEF Request, IsAuth, AuthReq
  <2> HIDE DEF m
  <2>3. Put(y.con.out, m) \in {y.con.out, Append(y.con.out, m)} /\ Put(y.con.out, m) \in Seq(Request)
    BY <1>0, <2>2, PutCases
  <2>4. [y.con EXCEPT !.out = Put(@, m)] \in Con
    BY <1>0, <2>3 DEF Con
  <2>5. /\ z \in Client /\ z.con = [y.con EXCEPT !.out = Put(@, m)]
        /\ z.failed = y.failed /\ z.reqs = y.reqs /\ Same(y, z)
        /\ z.finisher_queue = y.finisher_queue /\ z.batch = y.batch /\ z.waiting = y.waiting
    BY <1>0, <2>1, <2>4 DEF Client, Same
  <2> HIDE DEF z
  <2>6. z.con.session = y.con.session /\ z.con.out = Put(y.con.out, m)
    BY <1>0, <2>5 DEF Con
  <2>7. AskedFor(floor, z.con.out)
    BY <1>0, <2>2, <2>6, PutAsked DEF Sound
  <2>8. Handshake(y.state, y.auth, y.con.session, y.con.out, y.queue)
    BY DEF Sound
  <2>9. Handshake(y.state, y.auth, y.con.session, Append(y.con.out, m), y.queue)
    <3> DEFINE out == y.con.out
    <3>1. \A i \in DOMAIN Append(out, m) : \/ i \in DOMAIN out /\ Append(out, m)[i] = out[i]
                                          \/ Append(out, m)[i] = m
      BY <1>0, <2>2
    <3> HIDE DEF out
    <3>2. Handshake(y.state, y.auth, y.con.session, out, y.queue)
      BY <2>8 DEF out
    <3> QED
      BY <2>2, <3>1, <3>2 DEF Handshake, out
  <2>10. Handshake(y.state, y.auth, y.con.session, z.con.out, y.queue)
    BY <2>3, <2>6, <2>8, <2>9
  <2> QED
    BY <2>5, <2>6, <2>7, <2>10 DEF Sound, Same, z, m
<1> QED
  BY <1>1, <1>2

(* _check_auth_tickets(), from tick() and handle_auth(): tickets are asked  *)
(* for only in a session, which the monitor has authenticated.              *)
LEMMA TicketsChecked ==
    ASSUME NEW floor \in [Asker -> Nat], NEW y, Sound(y, floor),
           y.state = "HAVE_SESSION" => y.cur_mon # None
    PROVE  Sound(_check_auth_tickets(y), floor) /\ Same(y, _check_auth_tickets(y))
<1>1. CASE y.state = "HAVE_SESSION" /\ need(y.auth) # {}
  <2>1. PICK req \in {"key", "tickets"} : build_request(y.auth) = [type |-> "auth", req |-> req]
    BY DEF build_request
  <2>2. y.con.session = "authenticated" /\ ~y.auth.starting
    BY <1>1 DEF Sound, Handshake
  <2>3. /\ Sound(_send_mon_message(y, [type |-> "auth", req |-> req], FALSE), floor)
        /\ Same(y, _send_mon_message(y, [type |-> "auth", req |-> req], FALSE))
    BY <1>1, <2>2, AuthSent
  <2> QED
    BY <1>1, <2>1, <2>3 DEF _check_auth_tickets
<1>2. CASE ~(y.state = "HAVE_SESSION" /\ need(y.auth) # {})
  BY <1>2 DEF _check_auth_tickets, Same
<1> QED
  BY <1>1, <1>2

(* SetToSeq gives a sequence of the set's elements: the order in which      *)
(* _reopen_session() goes through version_requests.                         *)
LEMMA SetToSeqType ==
    ASSUME NEW S, IsFiniteSet(S)
    PROVE  SetToSeq(S) \in Seq(S)
<1> DEFINE P(f) == f \in [1 .. Cardinality(S) -> S] /\ IsInjective(f)
<1>1. Cardinality(S) \in Nat /\ ExistsBijection(1 .. Cardinality(S), S)
  BY FS_CardinalityType
<1>2. PICK f : f \in Bijection(1 .. Cardinality(S), S)
  BY <1>1 DEF ExistsBijection
<1>3. P(f)
  BY <1>2 DEF Bijection, Injection
<1>4. SetToSeq(S) = CHOOSE g : P(g)
  BY Zenon DEF SetToSeq
<1>5. P(SetToSeq(S))
  BY <1>3, <1>4, Zenon
<1> QED
  BY <1>1, <1>5

(* mark_down() makes what is queued stale and changes nothing else about    *)
(* it.                                                                      *)
LEMMA StaleQueue ==
    ASSUME NEW queue \in Seq(Entry)
    PROVE  /\ Stale(queue) \in Seq(Entry)
           /\ DOMAIN Stale(queue) = DOMAIN queue
           /\ \A i \in DOMAIN queue : Stale(queue)[i].stale /\ Stale(queue)[i].m = queue[i].m
<1>1. \A i \in DOMAIN queue : queue[i] \in Entry
  OBVIOUS
<1>2. \A i \in DOMAIN queue : [queue[i] EXCEPT !.stale = TRUE] \in Entry
  BY <1>1 DEF Entry
<1>3. Stale(queue) \in Seq(Entry)
  BY <1>2 DEF Stale
<1> QED
  BY <1>1, <1>3 DEF Stale, Entry

(* _pick_random_mon() returns a monitor of the current monmap, which is     *)
(* never empty.                                                             *)
LEMMA PickedMon ==
    ASSUME NEW y \in Client, NEW n \in _pick_random_mon(y)
    PROVE  n \in Mon
<1>1. \A k \in 0 .. Len(MonMaps) : Max({k, 1}) \in 1 .. Len(MonMaps)
  BY MonMapsAssumption DEF Max
<1> DEFINE k == Max({y.monmap, 1})
<1>2. k \in 1 .. Len(MonMaps)
  BY <1>1 DEF Client
<1>3. n \in MonMaps[k]
  BY DEF _pick_random_mon, Members
<1>4. MonMaps \in Seq(SUBSET Mon)
  BY MonMapsAssumption
<1> HIDE DEF k
<1> QED
  BY <1>2, <1>3, <1>4

(* _reopen_session() completes every version request with -EAGAIN: on       *)
(* behalf of an operation, and without a version.                           *)
LEMMA EagainAnswers ==
    ASSUME NEW floor, NEW reqs \in SUBSET Handle, OnBehalf(floor, reqs),
           NEW q \in Seq(Answer), Answered(floor, q)
    PROVE  LET s == q \o SetToSeq({[h |-> h, r |-> EAGAIN] : h \in reqs})
           IN  s \in Seq(Answer) /\ Answered(floor, s)
<1> DEFINE S == {[h |-> h, r |-> EAGAIN] : h \in reqs}
           t == SetToSeq(S)
           f == [h \in reqs |-> [h |-> h, r |-> EAGAIN]]
<1>1. IsFiniteSet(S)
  <2>1. f \in Surjection(reqs, S)
    BY DEF Surjection
  <2> QED
    BY <2>1, FS_Surjection DEF OnBehalf
<1>2. t \in Seq(S)
  BY <1>1, SetToSeqType
<1>3. \A e \in S : e \in Answer /\ e.r = EAGAIN /\ floor[e.h[1]] # 0
  BY DEF Answer, EAGAIN, OnBehalf
<1> HIDE DEF S, t
<1>4. t \in Seq(Answer) /\ Answered(floor, t)
  BY <1>2, <1>3 DEF Answered
<1>5. \A i \in DOMAIN (q \o t) : \/ i \in DOMAIN q /\ (q \o t)[i] = q[i]
                                \/ \E j \in DOMAIN t : (q \o t)[i] = t[j]
  BY <1>4
<1>6. Answered(floor, q \o t)
  BY <1>4, <1>5 DEF Answered
<1> QED
  BY <1>4, <1>6 DEF S, t

Hello == [type |-> "auth", req |-> "hello"]

(* _reopen_session() before the subscriptions are renewed. *)
Reopened(y, n) ==
    [y EXCEPT !.cur_mon = n, !.con = NewCon(n), !.queue = Stale(@), !.waiting = <<>>,
              !.reqs = {}, !.finisher_queue = @ \o SetToSeq({[h |-> h, r |-> EAGAIN] : h \in y.reqs}),
              !.state = "NEGOTIATING", !.hunting = TRUE]

(* _reopen_session() up to its MAuth: the old session's messages are stale, *)
(* the requests dropped, and the handshake begins with the new monitor.     *)
LEMMA ReopenedSound ==
    ASSUME NEW floor \in [Asker -> Nat], NEW y, Sound(y, floor), NEW n \in Mon
    PROVE  LET z == _send_mon_message(Reopened(y, n), Hello, TRUE)
           IN  Sound(z, floor) /\ z.cur_mon = n /\ z.subs = y.subs /\ z.timer = y.timer
<1> DEFINE con == [NewCon(n) EXCEPT !.out = <<Hello>>]
           queue == Stale(y.queue)
           fq == y.finisher_queue \o SetToSeq({[h |-> h, r |-> EAGAIN] : h \in y.reqs})
           w == Reopened(y, n)
           z == [w EXCEPT !.con = con]
<1>0. y \in Client /\ n # None
  BY NoneAssumption DEF Sound
<1>1. NoSubs \in [What -> Sub] /\ NewCon(n) \in Con /\ NewCon(n).state = "connecting" /\ NewCon(n).out = <<>>
  BY DEF NoSubs, NoSub, Sub, NewCon, Con
<1>2. Hello \in Request /\ IsAuth(Hello) /\ Hello.req = "hello" /\ Hello.type # "get_version"
  BY DEF Hello, Request, IsAuth, AuthReq
<1>3. con \in Con /\ con.out = <<Hello>> /\ con.session = "none"
  <2>1. <<Hello>> \in Seq(Request)
    BY <1>2
  <2>2. con \in Con /\ con.out = <<Hello>>
    BY <1>1, <2>1 DEF Con
  <2> QED
    BY <2>2 DEF NewCon
<1>4. /\ queue \in Seq(Entry) /\ DOMAIN queue = DOMAIN y.queue
      /\ \A i \in DOMAIN y.queue : queue[i].stale /\ queue[i].m = y.queue[i].m
  BY <1>0, StaleQueue DEF Client
<1>5. fq \in Seq(Answer) /\ Answered(floor, fq)
  BY <1>0, EagainAnswers DEF Sound, Client
<1> HIDE DEF con, queue, fq
<1>6. /\ w \in Client /\ w.con = NewCon(n) /\ w.cur_mon = n /\ w.queue = queue /\ w.waiting = <<>>
      /\ w.reqs = {} /\ w.finisher_queue = fq /\ w.state = "NEGOTIATING" /\ w.subs = y.subs
      /\ w.timer = y.timer /\ w.failed = y.failed /\ w.batch = y.batch /\ w.auth = y.auth
  <2> DEFINE none == <<>>
  <2>1. w = [y EXCEPT !.cur_mon = n, !.con = NewCon(n), !.queue = queue, !.waiting = none, !.reqs = {},
                      !.finisher_queue = fq, !.state = "NEGOTIATING", !.hunting = TRUE]
    BY <1>0 DEF Reopened, queue, fq, Client
  <2> HIDE DEF w
  <2>2. w \in Client
    <3>1. NewCon(n) \in Con /\ queue \in Seq(Entry) /\ fq \in Seq(Answer) /\ none \in Seq(Request)
      BY <1>1, <1>4, <1>5
    <3> HIDE DEF none
    <3> QED
      BY <1>0, <2>1, <3>1 DEF Client
  <2>3. /\ w.con = NewCon(n) /\ w.cur_mon = n /\ w.queue = queue /\ w.waiting = <<>>
        /\ w.reqs = {} /\ w.finisher_queue = fq /\ w.state = "NEGOTIATING"
    BY <1>0, <2>1 DEF Client
  <2>4. /\ w.subs = y.subs /\ w.timer = y.timer /\ w.failed = y.failed /\ w.batch = y.batch
        /\ w.auth = y.auth
    BY <1>0, <2>1 DEF Client
  <2> QED
    BY <2>2, <2>3, <2>4
<1> HIDE DEF w
<1>7. Put(NewCon(n).out, Hello) = <<Hello>>
  BY <1>1 DEF Put, ToSet
<1>8. _send_mon_message(w, Hello, TRUE) = z
  <2>1. _send_mon_message(w, Hello, TRUE) = [w EXCEPT !.con = [w.con EXCEPT !.out = Put(@, Hello)]]
    BY <1>0, <1>1, <1>6 DEF _send_mon_message
  <2>2. [w.con EXCEPT !.out = Put(@, Hello)] = con
    BY <1>1, <1>6, <1>7 DEF con, NewCon
  <2> QED
    BY <2>1, <2>2
<1>9. /\ z \in Client /\ z.con = con /\ z.cur_mon = n /\ z.queue = queue /\ z.waiting = <<>>
      /\ z.reqs = {} /\ z.finisher_queue = fq /\ z.state = "NEGOTIATING" /\ z.subs = y.subs
      /\ z.timer = y.timer /\ z.failed = y.failed /\ z.batch = y.batch /\ z.auth = y.auth
  BY <1>3, <1>6 DEF Client
<1> HIDE DEF z
<1>10. Handshake("NEGOTIATING", y.auth, con.session, con.out, queue)
  BY <1>2, <1>3, <1>4 DEF Handshake, FreshAuth
<1>11. AskedFor(floor, con.out) /\ AskedFor(floor, z.waiting)
  BY <1>2, <1>3, <1>9 DEF AskedFor
<1>12. Arrives(floor, queue)
  BY <1>4 DEF Sound, Arrives
<1>13. OnBehalf(floor, {})
  BY FS_EmptySet DEF OnBehalf
<1>14. Sound(z, floor)
  BY <1>5, <1>9, <1>10, <1>11, <1>12, <1>13 DEF Sound
<1> QED
  BY <1>8, <1>9, <1>14 DEF w

(* A session with another monitor starts afresh: what was queued for the   *)
(* old one is dropped or stale, so no answer of the old handshake counts.  *)
LEMMA ReopenSound ==
    ASSUME NEW floor \in [Asker -> Nat], NEW y, Sound(y, floor), NEW z \in _reopen_session(y)
    PROVE  Sound(z, floor) /\ z.cur_mon # None /\ z.subs = y.subs /\ z.timer = y.timer
<1>1. PICK n \in _pick_random_mon(y) : z = Renewed(_send_mon_message(Reopened(y, n), Hello, TRUE))
  BY Zenon DEF _reopen_session, Reopened, Hello
<1>2. n \in Mon /\ n # None
  BY PickedMon, NoneAssumption DEF Sound
<1> DEFINE w == _send_mon_message(Reopened(y, n), Hello, TRUE)
<1>3. Sound(w, floor) /\ w.cur_mon = n /\ w.subs = y.subs /\ w.timer = y.timer
  BY <1>2, ReopenedSound
<1> HIDE DEF w
<1>4. Sound(Renewed(w), floor) /\ Same(w, Renewed(w))
  BY <1>2, <1>3, RenewedSound
<1> QED
  BY <1>1, <1>2, <1>3, <1>4 DEF w, Same

(* handle_auth(), when the handshake has succeeded, sends                   *)
(* waiting_for_session message by message. By induction over the messages.  *)
LEMMA WaitingSent ==
    ASSUME NEW floor \in [Asker -> Nat], NEW y, Sound(y, floor), y.cur_mon # None
    PROVE  Sound(SendWaiting(y), floor) /\ Same(y, SendWaiting(y))
<1> DEFINE none == <<>>
           w == [y EXCEPT !.waiting = none]
           n == Len(y.waiting)
           S == 1 .. n
           D == {z \in Client : Sound(z, floor) /\ Same(y, z)}
           pick == [s \in SUBSET S |-> Max(s)]
           step == [p \in S \X D |-> _send_mon_message(p[2], y.waiting[p[1]], FALSE)]
           Eq(h) == h = [s \in SUBSET S |-> IF s = {} THEN w
                                            ELSE _send_mon_message(h[s \ {Max(s)}], y.waiting[Max(s)], FALSE)]
           iter == CHOOSE h : Eq(h)
           U == {s \in SUBSET S : iter[s] \in D}
<1>1. y \in Client /\ y.waiting \in Seq(Request) /\ n \in Nat /\ DOMAIN y.waiting = S
  BY DEF Sound, Client
<1>2. w \in D
  <2>1. none \in Seq(Request) /\ DOMAIN none = {}
    OBVIOUS
  <2>2. AskedFor(floor, none) /\ \A i \in DOMAIN none : ~IsAuth(none[i])
    BY <2>1 DEF AskedFor
  <2> HIDE DEF none
  <2>3. w \in Client /\ w.waiting = none
    BY <1>1, <2>1 DEF Client
  <2>4. /\ w.failed = y.failed /\ w.con = y.con /\ w.reqs = y.reqs /\ Same(y, w)
        /\ w.finisher_queue = y.finisher_queue /\ w.batch = y.batch
    BY <1>1 DEF Client, Same
  <2> HIDE DEF w
  <2>5. Sound(w, floor)
    BY <2>2, <2>3, <2>4 DEF Sound, Same
  <2> QED
    BY <2>3, <2>4, <2>5
<1> HIDE DEF w, n
<1>3. ASSUME NEW i \in S, NEW z \in D
      PROVE  _send_mon_message(z, y.waiting[i], FALSE) \in D
  <2> DEFINE m == y.waiting[i]
  <2>1. m \in Request /\ ~IsAuth(m) /\ (m.type = "get_version" => floor[m.h[1]] # 0)
    BY <1>1 DEF Sound, AskedFor
  <2> HIDE DEF m
  <2>2. Sound(z, floor) /\ Same(y, z) /\ z.cur_mon # None
    BY DEF Same
  <2>3. Sound(_send_mon_message(z, m, FALSE), floor) /\ Same(z, _send_mon_message(z, m, FALSE))
    BY <2>1, <2>2, SendSound
  <2> QED
    BY <2>2, <2>3, Zenon DEF Same, Sound, m
<1> HIDE DEF D
<1>4. step \in [S \X D -> D]
  BY <1>3
<1>5. IsFiniteSet(S) /\ Picks(S, pick)
  BY <1>1, IntervalPicks
<1>6. \E h : Eq(h)
  <2>1. PICK h \in [SUBSET S -> D] : IsFold(h, S, pick, w, step)
    <3> HIDE DEF pick, step, S
    <3> QED
      BY <1>2, <1>4, <1>5, FoldExists
  <2>2. Eq(h)
    BY <1>5, <2>1 DEF Picks, IsFold
  <2> QED
    BY <2>2
<1>7. Eq(iter)
  BY <1>6
<1>8. S \in U
  <2>1. {} \in U
    BY <1>2, <1>7
  <2>2. ASSUME NEW s \in SUBSET S, s # {} /\ s \ {pick[s]} \in U PROVE s \in U
     <3>1. pick[s] \in S
       BY <1>5, <2>2 DEF Picks
     <3>2. iter[s] = _send_mon_message(iter[s \ {pick[s]}], y.waiting[pick[s]], FALSE)
       BY <1>7, <2>2
     <3> QED
       BY <1>3, <2>2, <3>1, <3>2
  <2> HIDE DEF pick, U, S
  <2> QED
    BY <1>5, <2>1, <2>2, PickInduction
<1>9. SendWaiting(y) = iter[S]
  <2>1. SendWaiting(y) = (CHOOSE h : h = [s \in SUBSET DOMAIN y.waiting |->
            IF s = {} THEN [y EXCEPT !.waiting = <<>>]
            ELSE _send_mon_message(h[s \ {Max(s)}], y.waiting[Max(s)], FALSE)])[DOMAIN y.waiting]
    BY Zenon DEF SendWaiting, FoldLeft, MapThenFoldSet
  <2> QED
    BY <1>1, <2>1, Zenon DEF w
<1> QED
  BY <1>8, <1>9 DEF D

(* get_version() finds a handle that no pending request has. A set of n     *)
(* requests leaves one of the handles 1 .. n+1 free.                        *)
LEMMA FreeHandle ==
    ASSUME NEW reqs, IsFiniteSet(reqs), NEW v
    PROVE  \E k \in 1 .. Cardinality(reqs) + 1 : <<v, k>> \notin reqs
<1> DEFINE n == Cardinality(reqs)
           f == [k \in 1 .. n + 1 |-> <<v, k>>]
<1>1. n \in Nat
  BY FS_CardinalityType
<1> HIDE DEF n
<1> SUFFICES ASSUME \A k \in 1 .. n + 1 : <<v, k>> \in reqs PROVE FALSE
  BY DEF n
<1>2. f \in Injection(1 .. n + 1, reqs)
  BY DEF Injection, IsInjective
<1>3. Cardinality(1 .. n + 1) =< n
  BY <1>2, FS_Injection DEF n
<1>4. Cardinality(1 .. n + 1) = n + 1
  BY <1>1, FS_Interval
<1> QED
  BY <1>1, <1>3, <1>4

(* get_version(): the request is entered in version_requests and sent or    *)
(* kept for the session.                                                    *)
LEMMA VersionAsked ==
    ASSUME NEW floor \in [Asker -> Nat], NEW y, Sound(y, floor), y.cur_mon # None,
           NEW v \in Asker, floor[v] # 0
    PROVE  Sound(get_version(y, v), floor) /\ Same(y, get_version(y, v))
<1> DEFINE k == CHOOSE i \in 1 .. Cardinality(y.reqs) + 1 : <<v, i>> \notin y.reqs
           h == <<v, k>>
           w == [y EXCEPT !.reqs = @ \cup {h}]
           m == [type |-> "get_version", h |-> h]
<1>1. y \in Client /\ y.reqs \in SUBSET Handle /\ OnBehalf(floor, y.reqs)
  BY DEF Sound, Client
<1>2. k \in Nat
  <2>1. k \in 1 .. Cardinality(y.reqs) + 1
    BY <1>1, FreeHandle DEF OnBehalf
  <2> QED
    BY <1>1, <2>1, FS_CardinalityType DEF OnBehalf
<1> HIDE DEF k
<1>3. h \in Handle /\ h[1] = v
  BY <1>2 DEF Handle
<1>4. m \in Request /\ ~IsAuth(m) /\ m.h = h
  BY <1>3 DEF Request, IsAuth
<1> HIDE DEF h, m
<1>5. /\ w \in Client /\ w.reqs = y.reqs \cup {h} /\ w.failed = y.failed /\ w.con = y.con
      /\ w.waiting = y.waiting /\ w.finisher_queue = y.finisher_queue /\ w.batch = y.batch /\ Same(y, w)
  BY <1>1, <1>3 DEF Client, Same
<1>6. OnBehalf(floor, w.reqs)
  BY <1>1, <1>3, <1>5, FS_AddElement DEF OnBehalf
<1> HIDE DEF w
<1>7. Sound(w, floor)
  BY <1>5, <1>6 DEF Sound, Same
<1> DEFINE z == _send_mon_message(w, m, FALSE)
<1>8. Sound(z, floor) /\ Same(w, z)
  <2>1. w.cur_mon # None /\ floor[m.h[1]] # 0
    BY <1>3, <1>4, <1>5 DEF Same
  <2> QED
    BY <1>4, <1>7, <2>1, SendSound
<1>9. get_version(y, v) = z
  BY Zenon DEF get_version, w, m, h, k
<1> HIDE DEF z
<1> QED
  BY <1>5, <1>8, <1>9 DEF Same

(* Objecter::_fs_stats_submit(): MStatfs is sent or kept for the session. *)
LEMMA StatfsSubmitted ==
    ASSUME NEW floor \in [Asker -> Nat], NEW y, Sound(y, floor), y.cur_mon # None
    PROVE  Sound(_fs_stats_submit(y), floor) /\ Same(y, _fs_stats_submit(y))
<1> DEFINE m == [type |-> "statfs"]
<1>1. m \in Request /\ ~IsAuth(m) /\ m.type # "get_version"
  BY DEF Request, IsAuth
<1> HIDE DEF m
<1>2. Sound(_send_mon_message(y, m, FALSE), floor) /\ Same(y, _send_mon_message(y, m, FALSE))
  BY <1>1, SendSound
<1> QED
  BY <1>2 DEF _fs_stats_submit, m

(* Objecter::resend_mon_ops() asks again for the version of every operation *)
(* that waits for one. By induction over those operations.                  *)
LEMMA OpsResent ==
    ASSUME NEW floor \in [Asker -> Nat], NEW y, Sound(y, floor), y.cur_mon # None,
           NEW u, u.checks \in SUBSET Asker, \A v \in u.checks : floor[v] # 0
    PROVE  Sound(resend_mon_ops(y, u), floor) /\ Same(y, resend_mon_ops(y, u))
<1> DEFINE w == IF u.statfs THEN _fs_stats_submit(y) ELSE y
           S == u.checks
           D == {z \in Client : Sound(z, floor) /\ Same(y, z)}
           pick == [s \in SUBSET S |-> CHOOSE x \in s : TRUE]
           step == [p \in S \X D |-> get_version(p[2], p[1])]
           Eq(h) == h = [s \in SUBSET S |->
                           IF s = {} THEN w
                           ELSE get_version(h[s \ {CHOOSE x \in s : TRUE}], CHOOSE x \in s : TRUE)]
           iter == CHOOSE h : Eq(h)
           U == {s \in SUBSET S : iter[s] \in D}
<1>1. w \in D
  BY StatfsSubmitted DEF Same, Sound
<1>2. ASSUME NEW v \in S, NEW z \in D PROVE get_version(z, v) \in D
  <2>1. Sound(z, floor) /\ Same(y, z) /\ z.cur_mon # None /\ v \in Asker /\ floor[v] # 0
    BY DEF Same
  <2>2. Sound(get_version(z, v), floor) /\ Same(z, get_version(z, v))
    BY <2>1, VersionAsked
  <2> QED
    BY <2>1, <2>2, Zenon DEF Same, Sound
<1> HIDE DEF D, w
<1>3. step \in [S \X D -> D]
  BY <1>2
<1>4. IsFiniteSet(S) /\ Picks(S, pick)
  <2>1. IsFiniteSet(Asker)
    BY 1 \in Int, 2 \in Int, FS_Interval, Zenon DEF Asker
  <2>2. IsFiniteSet(S)
    BY <2>1, FS_Subset
  <2> QED
    BY <2>2, ChoicePicks
<1>5. \E h : Eq(h)
  <2>1. PICK h \in [SUBSET S -> D] : IsFold(h, S, pick, w, step)
    <3> HIDE DEF pick, step, S
    <3> QED
      BY <1>1, <1>3, <1>4, FoldExists
  <2>2. Eq(h)
    BY <1>4, <2>1 DEF Picks, IsFold
  <2> HIDE DEF Eq
  <2> QED
    BY <2>2
<1>6. Eq(iter)
  BY <1>5
<1>7. S \in U
  <2>1. {} \in U
    BY <1>1, <1>6
  <2>2. ASSUME NEW s \in SUBSET S, s # {} /\ s \ {pick[s]} \in U PROVE s \in U
     <3>1. pick[s] \in S
       BY <1>4, <2>2 DEF Picks
     <3>2. iter[s] = get_version(iter[s \ {pick[s]}], pick[s])
       BY <1>6, <2>2
     <3> QED
       BY <1>2, <2>2, <3>1, <3>2
  <2> HIDE DEF pick, U, S
  <2> QED
    BY <1>4, <2>1, <2>2, PickInduction
<1>8. resend_mon_ops(y, u) = iter[S]
  BY Zenon DEF resend_mon_ops, FoldSet, MapThenFoldSet, w
<1> QED
  BY <1>7, <1>8, Zenon DEF D

(* What is left of the queue of a broken connection. *)
LEMMA KeptEntries ==
    ASSUME NEW queue \in Seq(Entry)
    PROVE  /\ Kept(queue) \in Seq(Entry)
           /\ \A i \in DOMAIN Kept(queue) :
                 /\ Kept(queue)[i].stale \/ Kept(queue)[i].m.type = "connect"
                 /\ \E j \in DOMAIN queue : Kept(queue)[i] = queue[j]
<1> DEFINE none == <<>>
           S == 1 .. Len(queue)
           keep(q, e) == IF e.stale \/ e.m.type = "connect" THEN Append(q, e) ELSE q
           D == {q \in Seq(Entry) : \A i \in DOMAIN q :
                    (q[i].stale \/ q[i].m.type = "connect") /\ \E j \in DOMAIN queue : q[i] = queue[j]}
           pick == [s \in SUBSET S |-> Max(s)]
           step == [p \in S \X D |-> keep(p[2], queue[p[1]])]
           Eq(h) == h = [s \in SUBSET S |-> IF s = {} THEN none
                                            ELSE keep(h[s \ {Max(s)}], queue[Max(s)])]
           iter == CHOOSE h : Eq(h)
           U == {s \in SUBSET S : iter[s] \in D}
<1>1. DOMAIN queue = S /\ Len(queue) \in Nat
  OBVIOUS
<1>2. none \in D
  OBVIOUS
<1>3. ASSUME NEW i \in S, NEW q \in D PROVE keep(q, queue[i]) \in D
  <2>1. CASE queue[i].stale \/ queue[i].m.type = "connect"
    <3>1. Append(q, queue[i]) \in Seq(Entry)
      BY <1>1
    <3>2. ASSUME NEW k \in DOMAIN Append(q, queue[i])
          PROVE  \/ k \in DOMAIN q /\ Append(q, queue[i])[k] = q[k]
                 \/ Append(q, queue[i])[k] = queue[i]
      BY <1>1
    <3> QED
      BY <1>1, <2>1, <3>1, <3>2
  <2>2. CASE ~(queue[i].stale \/ queue[i].m.type = "connect")
    BY <2>2
  <2> QED
    BY <2>1, <2>2
<1> HIDE DEF D, keep, none
<1>4. step \in [S \X D -> D]
  BY <1>3
<1>5. IsFiniteSet(S) /\ Picks(S, pick)
  BY <1>1, IntervalPicks
<1>6. \E h : Eq(h)
  <2>1. PICK h \in [SUBSET S -> D] : IsFold(h, S, pick, none, step)
    <3> HIDE DEF pick, step, S
    <3> QED
      BY <1>2, <1>4, <1>5, FoldExists
  <2>2. Eq(h)
    BY <1>5, <2>1 DEF Picks, IsFold
  <2> HIDE DEF Eq
  <2> QED
    BY <2>2
<1>7. Eq(iter)
  BY <1>6
<1>8. S \in U
  <2>1. {} \in U
    BY <1>2, <1>7
  <2>2. ASSUME NEW s \in SUBSET S, s # {} /\ s \ {pick[s]} \in U PROVE s \in U
     <3>1. pick[s] \in S
       BY <1>5, <2>2 DEF Picks
     <3>2. iter[s] = keep(iter[s \ {pick[s]}], queue[pick[s]])
       BY <1>7, <2>2
     <3> QED
       BY <1>3, <2>2, <3>1, <3>2
  <2> HIDE DEF pick, U, S
  <2> QED
    BY <1>5, <2>1, <2>2, PickInduction
<1>9. Kept(queue) = iter[S]
  <2>1. Kept(queue) = (CHOOSE h : h = [s \in SUBSET DOMAIN queue |->
            IF s = {} THEN <<>>
            ELSE keep(h[s \ {Max(s)}], queue[Max(s)])])[DOMAIN queue]
    BY Zenon DEF Kept, FoldLeft, MapThenFoldSet, keep
  <2> QED
    BY <1>1, <2>1, Zenon DEF none
<1> QED
  BY <1>8, <1>9 DEF D

AuthState == [handler : BOOLEAN, starting : BOOLEAN, valid : SUBSET Ticket]

(* No request or answer of the handshake is on its way. *)
NoAuth(out, queue) ==
    /\ \A i \in DOMAIN out : ~IsAuth(out[i])
    /\ \A i \in DOMAIN queue : ~FreshAuth(queue, i)

(* The answer r is one that the handshake may get now. *)
Expected(y, r) ==
    /\ y.cur_mon # None
    /\ y.state \in {"NEGOTIATING", "AUTHENTICATING", "HAVE_SESSION"}
    /\ y.state = "AUTHENTICATING" => ~y.auth.starting
    /\ r \in {"challenge", "ENOTSUP"} => y.state = "NEGOTIATING"
    /\ r \in {"key", "tickets"} => y.state # "NEGOTIATING" /\ y.con.session = "authenticated"
    /\ y.state = "NEGOTIATING" => NoAuth(y.con.out, y.queue)

(* Only the handshake, and what Sound is not about, differs. *)
Moved(y, z) ==
    /\ z.failed = y.failed /\ z.con = y.con /\ z.queue = y.queue /\ z.waiting = y.waiting
    /\ z.cur_mon = y.cur_mon /\ z.reqs = y.reqs /\ z.finisher_queue = y.finisher_queue
    /\ z.batch = y.batch /\ z.subs = y.subs /\ z.timer = y.timer

(* A step that changes nothing but the state of the handshake keeps Sound   *)
(* if the new state fits the requests and answers under way.                *)
LEMMA HandshakeMoves ==
    ASSUME NEW floor, NEW y, Sound(y, floor), NEW z \in Client, Moved(y, z), z.state # "NONE",
           Handshake(z.state, z.auth, y.con.session, y.con.out, y.queue),
           z.state = "HAVE_SESSION" => y.con.session = "authenticated"
    PROVE  Sound(z, floor)
BY DEF Sound, Moved

(* handle_auth() with the auth handler that it has or that it makes. *)
Begun(y) ==
    IF y.state = "NEGOTIATING"
    THEN [y EXCEPT !.auth.handler = TRUE, !.auth.starting = TRUE, !.state = "AUTHENTICATING"]
    ELSE y

(* The three outcomes of handle_auth(), according to what the cephx handler *)
(* returns.                                                                 *)
LEMMA HandleAuthCases ==
    ASSUME NEW y, NEW r, ~(y.state = "NEGOTIATING" /\ r = "ENOTSUP"), Begun(y).auth.handler
    PROVE  LET res == handle_response(Begun(y).auth, r)
               z == [Begun(y) EXCEPT !.auth = res.auth]
               found == [z EXCEPT !.hunting = FALSE, !.authenticate_err = res.ret]
           IN  /\ res.ret = "EAGAIN" => handle_auth(y, r) = _send_mon_message(z, build_request(z.auth), TRUE)
               /\ res.ret = "EPERM" => handle_auth(y, r) = found
               /\ res.ret = "0" =>
                     handle_auth(y, r) = _check_auth_tickets(SendWaiting([found EXCEPT !.state = "HAVE_SESSION"]))
<1> DEFINE begun == Begun(y)
           res == handle_response(begun.auth, r)
           z == [begun EXCEPT !.auth = res.auth]
           found == [z EXCEPT !.hunting = FALSE, !.authenticate_err = res.ret]
<1>1. handle_auth(y, r) =
          CASE ~begun.auth.handler -> Fail(y, "auth")
            [] res.ret = "unknown request_type" -> Fail(y, "assert(0)")
            [] res.ret = "EAGAIN" -> _send_mon_message(z, build_request(z.auth), TRUE)
            [] res.ret = "EPERM" -> found
            [] OTHER -> _check_auth_tickets(SendWaiting([found EXCEPT !.state = "HAVE_SESSION"]))
  BY DEF handle_auth, Begun
<1> HIDE DEF begun, res, z, found
<1>2. /\ res.ret = "EAGAIN" => handle_auth(y, r) = _send_mon_message(z, build_request(z.auth), TRUE)
      /\ res.ret = "EPERM" => handle_auth(y, r) = found
      /\ res.ret = "0" =>
            handle_auth(y, r) = _check_auth_tickets(SendWaiting([found EXCEPT !.state = "HAVE_SESSION"]))
  BY <1>1 DEF begun
<1> QED
  BY <1>2, Zenon DEF begun, res, z, found

(* The answer to the hello makes a new auth handler and starts              *)
(* authenticating.                                                          *)
LEMMA BegunFields ==
    ASSUME NEW y \in Client, y.state = "NEGOTIATING"
    PROVE  /\ Begun(y) \in Client /\ Begun(y).state = "AUTHENTICATING" /\ Moved(y, Begun(y))
           /\ Begun(y).auth \in AuthState /\ Begun(y).auth.handler /\ Begun(y).auth.starting
<1>1. Begun(y) = [y EXCEPT !.auth = [y.auth EXCEPT !.handler = TRUE, !.starting = TRUE],
                           !.state = "AUTHENTICATING"]
  BY DEF Begun, Client
<1> DEFINE auth == [y.auth EXCEPT !.handler = TRUE, !.starting = TRUE]
<1>2. auth \in AuthState /\ auth.handler /\ auth.starting
  BY DEF Client, AuthState
<1> HIDE DEF auth
<1>3. Begun(y) = [y EXCEPT !.auth = auth, !.state = "AUTHENTICATING"]
  BY <1>1 DEF auth
<1> QED
  BY <1>2, <1>3 DEF Client, AuthState, Moved

(* handle_auth() while negotiating: the challenge, or a refusal. *)
LEMMA NegotiationAnswered ==
    ASSUME NEW floor \in [Asker -> Nat], NEW y, Sound(y, floor), NEW r \in AuthReply, Expected(y, r),
           y.state = "NEGOTIATING"
    PROVE  /\ Sound(handle_auth(y, r), floor)
           /\ handle_auth(y, r).cur_mon = y.cur_mon
           /\ handle_auth(y, r).subs = y.subs
           /\ handle_auth(y, r).timer = y.timer
<1> DEFINE w == Begun(y)
           res == handle_response(w.auth, r)
           z == [w EXCEPT !.auth = res.auth]
           u == handle_auth(y, r)
<1>0. y \in Client /\ NoAuth(y.con.out, y.queue)
  BY DEF Sound, Expected
<1>1. /\ w \in Client /\ w.state = "AUTHENTICATING" /\ Moved(y, w)
      /\ w.auth \in AuthState /\ w.auth.handler /\ w.auth.starting
  BY <1>0, BegunFields
<1>2. CASE r = "ENOTSUP"
  <2>1. u = [y EXCEPT !.auth = [handler |-> FALSE, starting |-> FALSE, valid |-> {}],
                      !.authenticate_err = "ENOTSUP"]
    BY <1>2 DEF handle_auth
  <2> HIDE DEF u, w
  <2>a. u \in Client
    BY <1>0, <2>1 DEF Client
  <2>2. u \in Client /\ u.state = "NEGOTIATING" /\ Moved(y, u)
    BY <1>0, <2>1, <2>a DEF Client, Moved
  <2>3. Handshake(u.state, u.auth, y.con.session, y.con.out, y.queue)
    BY <1>0, <2>2 DEF Handshake, NoAuth
  <2>4. Sound(u, floor)
    BY <2>2, <2>3, HandshakeMoves
  <2> QED
    BY <2>2, <2>4 DEF Moved, u
<1>3. CASE r = "EPERM"
  <2>1. res.auth = w.auth /\ res.ret = "EPERM"
    BY <1>3 DEF handle_response
  <2> HIDE DEF w, res
  <2>2. u = [[w EXCEPT !.auth = res.auth] EXCEPT !.hunting = FALSE, !.authenticate_err = res.ret]
    BY <1>1, <1>3, <2>1, HandleAuthCases, Zenon DEF w, res
  <2> HIDE DEF u, z
  <2>b. u = [w EXCEPT !.auth = w.auth, !.hunting = FALSE, !.authenticate_err = "EPERM"]
    BY <1>1, <2>1, <2>2 DEF Client
  <2>a. u \in Client
    BY <1>1, <2>b DEF Client
  <2>3. u \in Client /\ u.state = "AUTHENTICATING" /\ u.auth = w.auth /\ Moved(y, u)
    BY <1>1, <2>b, <2>a DEF Client, Moved
  <2>4. Handshake(u.state, u.auth, y.con.session, y.con.out, y.queue)
    BY <1>0, <1>1, <2>3 DEF Handshake, NoAuth
  <2>5. Sound(u, floor)
    BY <2>3, <2>4, HandshakeMoves
  <2> QED
    BY <2>3, <2>5 DEF Moved, u
<1>4. CASE r = "challenge"
  <2>1. /\ res.auth = [w.auth EXCEPT !.starting = FALSE, !.valid = @ \ {"AUTH"}]
        /\ res.ret = "EAGAIN"
    BY <1>1, <1>4 DEF handle_response
  <2> HIDE DEF w, res
  <2>2. res.auth \in AuthState /\ res.auth.handler /\ ~res.auth.starting /\ "AUTH" \notin res.auth.valid
    BY <1>1, <2>1 DEF AuthState
  <2>3. z \in Client /\ z.state = "AUTHENTICATING" /\ z.auth = res.auth /\ Moved(y, z)
    BY <1>1, <2>2 DEF Client, Moved, AuthState
  <2>4. u = _send_mon_message(z, build_request(z.auth), TRUE)
    <3>1. ~(y.state = "NEGOTIATING" /\ r = "ENOTSUP") /\ Begun(y).auth.handler
      BY <1>1, <1>4 DEF w
    <3>2. handle_response(Begun(y).auth, r).ret = "EAGAIN"
      BY <2>1, Zenon DEF w, res
    <3> QED
      BY <3>1, <3>2, HandleAuthCases, Zenon DEF w, res
  <2> HIDE DEF z, u
  <2>5. build_request(z.auth) = [type |-> "auth", req |-> "key"]
    BY <2>2, <2>3 DEF build_request, need, Ticket
  <2>6. Handshake(z.state, z.auth, y.con.session, y.con.out, y.queue)
    BY <1>0, <2>2, <2>3 DEF Handshake, NoAuth
  <2>7. Sound(z, floor) /\ z.cur_mon # None /\ ~z.auth.starting
    BY <2>2, <2>3, <2>6, HandshakeMoves DEF Moved, Expected
  <2>8. /\ Sound(_send_mon_message(z, [type |-> "auth", req |-> "key"], TRUE), floor)
        /\ Same(z, _send_mon_message(z, [type |-> "auth", req |-> "key"], TRUE))
    BY <2>3, <2>7, AuthSent
  <2> QED
    BY <2>3, <2>4, <2>5, <2>8 DEF Same, Moved, u
<1> QED
  BY <1>2, <1>3, <1>4 DEF Expected, AuthReply


(* handle_auth() while authenticating or in a session: the key, the         *)
(* tickets, or a refusal.                                                   *)
LEMMA SessionAnswered ==
    ASSUME NEW floor \in [Asker -> Nat], NEW y, Sound(y, floor), NEW r \in AuthReply, Expected(y, r),
           y.state # "NEGOTIATING"
    PROVE  /\ Sound(handle_auth(y, r), floor)
           /\ handle_auth(y, r).cur_mon = y.cur_mon
           /\ handle_auth(y, r).subs = y.subs
           /\ handle_auth(y, r).timer = y.timer
<1> DEFINE res == handle_response(y.auth, r)
           z == [y EXCEPT !.auth = res.auth]
           found == [z EXCEPT !.hunting = FALSE, !.authenticate_err = res.ret]
           have == [found EXCEPT !.state = "HAVE_SESSION"]
           u == handle_auth(y, r)
<1>1. /\ y \in Client /\ y.auth \in AuthState /\ y.auth.handler /\ ~y.auth.starting
      /\ Handshake(y.state, y.auth, y.con.session, y.con.out, y.queue)
      /\ y.state \in {"AUTHENTICATING", "HAVE_SESSION"} /\ y.cur_mon # None
      /\ r \in {"EPERM", "key", "tickets"} /\ (r # "EPERM" => y.con.session = "authenticated")
  <2>1. y \in Client /\ Handshake(y.state, y.auth, y.con.session, y.con.out, y.queue)
    BY DEF Sound
  <2> QED
    BY <2>1, Zenon DEF Client, AuthState, Handshake, Expected, AuthReply
<1>2. /\ res.auth \in AuthState /\ res.auth.handler /\ ~res.auth.starting
      /\ res.ret \in {"EAGAIN", "EPERM", "0"}
      /\ r = "EPERM" => res.auth = y.auth /\ res.ret = "EPERM"
      /\ res.ret # "EPERM" => r # "EPERM"
  <2>1. CASE r = "EPERM"
    BY <1>1, <2>1 DEF handle_response
  <2>2. CASE r = "key"
    <3>1. /\ res.auth = [y.auth EXCEPT !.valid = @ \cup {"AUTH"}] /\ res.ret \in {"EAGAIN", "0"}
      BY <1>1, <2>2 DEF handle_response
    <3> QED
      BY <1>1, <2>2, <3>1 DEF AuthState, Ticket
  <2>3. CASE r = "tickets"
    <3>1. /\ res.auth = [y.auth EXCEPT !.valid = @ \cup {"service"}] /\ res.ret = "0"
      BY <1>1, <2>3 DEF handle_response
    <3> QED
      BY <1>1, <2>3, <3>1 DEF AuthState, Ticket
  <2> QED
    BY <1>1, <2>1, <2>2, <2>3
<1> HIDE DEF res
<1>3. /\ res.ret = "EAGAIN" => u = _send_mon_message(z, build_request(z.auth), TRUE)
      /\ res.ret = "EPERM" => u = found
      /\ res.ret = "0" => u = _check_auth_tickets(SendWaiting(have))
  <2>1. u = CASE ~y.auth.handler -> Fail(y, "auth")
              [] res.ret = "unknown request_type" -> Fail(y, "assert(0)")
              [] res.ret = "EAGAIN" -> _send_mon_message(z, build_request(z.auth), TRUE)
              [] res.ret = "EPERM" -> found
              [] OTHER -> _check_auth_tickets(SendWaiting(have))
    BY DEF handle_auth, res
  <2> HIDE DEF z, found, have, u
  <2> QED
    BY <1>1, <2>1
<1>4. CASE res.ret = "EAGAIN"
  <2>1. z \in Client /\ z.state = y.state /\ z.auth = res.auth /\ Moved(y, z)
    BY <1>1, <1>2 DEF Client, Moved, AuthState
  <2>2. PICK req \in {"key", "tickets"} : build_request(z.auth) = [type |-> "auth", req |-> req]
    BY DEF build_request
  <2> HIDE DEF z, u, found
  <2>3. Handshake(z.state, z.auth, y.con.session, y.con.out, y.queue)
    BY <1>1, <1>2, <2>1 DEF Handshake
  <2>4. y.con.session = "authenticated" /\ z.con = y.con /\ z.cur_mon # None
    BY <1>1, <1>2, <1>4, <2>1 DEF Moved
  <2>5. Sound(z, floor)
    BY <1>1, <2>1, <2>3, <2>4, HandshakeMoves
  <2>6. /\ Sound(_send_mon_message(z, [type |-> "auth", req |-> req], TRUE), floor)
        /\ Same(z, _send_mon_message(z, [type |-> "auth", req |-> req], TRUE))
    BY <1>1, <1>2, <2>1, <2>4, <2>5, AuthSent
  <2> QED
    BY <1>3, <1>4, <2>1, <2>2, <2>6 DEF Same, Moved, u
<1>5. CASE res.ret = "EPERM"
  <2>1. found = [y EXCEPT !.auth = res.auth, !.hunting = FALSE, !.authenticate_err = "EPERM"]
    BY <1>5
  <2> HIDE DEF found, u
  <2>2. found \in Client
    BY <1>1, <1>2, <2>1 DEF Client, AuthState
  <2>3. found.state = y.state /\ found.auth = res.auth /\ Moved(y, found)
    BY <1>1, <1>2, <2>1 DEF Client, Moved
  <2>4. Handshake(found.state, found.auth, y.con.session, y.con.out, y.queue)
    BY <1>1, <1>2, <2>3 DEF Handshake
  <2>5. y.state = "HAVE_SESSION" => y.con.session = "authenticated"
    BY <1>1 DEF Sound
  <2>6. Sound(found, floor)
    BY <1>1, <2>2, <2>3, <2>4, <2>5, HandshakeMoves
  <2> QED
    BY <1>3, <1>5, <2>3, <2>6 DEF Moved, u
<1>6. CASE res.ret = "0"
  <2>1. have = [y EXCEPT !.auth = res.auth, !.hunting = FALSE, !.authenticate_err = "0",
                         !.state = "HAVE_SESSION"]
    BY <1>6
  <2> HIDE DEF found, have, u
  <2>2. have \in Client
    BY <1>1, <1>2, <2>1 DEF Client, AuthState
  <2>3. have.state = "HAVE_SESSION" /\ have.auth = res.auth /\ Moved(y, have)
    BY <1>1, <1>2, <2>1 DEF Client, Moved
  <2>4. Handshake(have.state, have.auth, y.con.session, y.con.out, y.queue)
    BY <1>1, <1>2, <2>3, Zenon DEF Handshake
  <2>5. y.con.session = "authenticated" /\ have.cur_mon # None
    BY <1>1, <1>2, <1>6, <2>3 DEF Moved
  <2>6. Sound(have, floor)
    BY <1>1, <2>2, <2>3, <2>4, <2>5, HandshakeMoves
  <2>7. Sound(SendWaiting(have), floor) /\ Same(have, SendWaiting(have))
    BY <2>5, <2>6, WaitingSent
  <2>8. Sound(u, floor) /\ Same(SendWaiting(have), u)
    BY <1>3, <1>6, <2>5, <2>7, TicketsChecked DEF Same
  <2> QED
    BY <2>3, <2>7, <2>8 DEF Same, Moved, u
<1> QED
  BY <1>2, <1>4, <1>5, <1>6

(* handle_auth() with an answer that is expected leaves the client sound,   *)
(* with the same monitor and the same subscriptions.                        *)
LEMMA AuthHandled ==
    ASSUME NEW floor \in [Asker -> Nat], NEW y, Sound(y, floor), NEW r \in AuthReply, Expected(y, r)
    PROVE  /\ Sound(handle_auth(y, r), floor)
           /\ handle_auth(y, r).cur_mon = y.cur_mon
           /\ handle_auth(y, r).subs = y.subs
           /\ handle_auth(y, r).timer = y.timer
BY NegotiationAnswered, SessionAnswered

=============================================================================
