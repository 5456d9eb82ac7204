-------------------------------- MODULE Pipe --------------------------------
(***************************************************************************)
(* msg/simple/Pipe: the session protocol that gives two messengers ordered *)
(* delivery over TCP sockets that break.  Both ends run the same code; the *)
(* Policy of each end makes it the client and the stateful server of a     *)
(* session with an MDS, the client and the stateless server of a session   *)
(* with a monitor or an OSD, or one of two peers.                          *)
(*                                                                         *)
(* A Pipe holds pipe_lock except while it reads or writes its socket, so a *)
(* step of the model is what a thread does between two releases of it.     *)
(* Sockets are pairs of sequences; what was written before a socket broke  *)
(* may or may not still be read.                                           *)
(***************************************************************************)
EXTENDS Integers, Sequences, FiniteSets

CONSTANTS
    Node,           \* the two messengers
    Addr,           \* Addr[n]: n's address, compared in connection races
    Scenarios,      \* how the two treat each other, and what may happen
    MaxPipes, MaxSocks      \* bounds: pipes and TCP connections

PolicyType ==
    [lossy : BOOLEAN, server : BOOLEAN, standby : BOOLEAN, resetcheck : BOOLEAN]

ASSUME NodeAssumption == Cardinality(Node) = 2
ASSUME AddrAssumption == Addr \in [Node -> Nat]
ASSUME BoundsAssumption == MaxPipes \in Nat /\ MaxSocks \in Nat
ASSUME ScenariosAssumption ==
    \A x \in Scenarios :
        /\ x.policy \in [Node -> PolicyType]
        /\ x.starts \subseteq Nat /\ 0 \in x.starts
        /\ x.fast \subseteq Node
        /\ x.sends \in [Node -> Nat] /\ x.downs \in [Node -> Nat]
        /\ x.faults \in Nat /\ x.retries \in Nat

PipeId == 1..MaxPipes
SockId == 1..MaxSocks
NoPipe == 0
NoSock == 0

VARIABLES
    scenario,   \* the member of Scenarios this behaviour is of; never changes
    pipes,      \* the Pipe objects, in the order they were created
    reg,        \* reg[n]: n's rank_pipe entry for its peer
    gseq,       \* gseq[n]: n's SimpleMessenger::global_seq
    socks,      \* TCP connections, in the order they were made
    events,     \* events[n]: remote resets waiting in n's DispatchQueue
    inq,        \* inq[n]: messages waiting in n's DispatchQueue
    log,        \* log[n]: what n's dispatchers were given, in order
    epoch,      \* epoch[n]: how often n has dropped what it had to send
    nsent,      \* nsent[n]: messages submitted at n in the current epoch
    downs,      \* mark_down() calls so far, per node
    subs,       \* messages submitted so far, per node
    faults,     \* failed connection attempts and broken sockets so far
    aborted     \* nodes that failed an assertion

vars == <<scenario, pipes, reg, gseq, socks, events, inq, log, epoch, nsent,
          downs, subs, faults, aborted>>

Policy == scenario.policy       \* Policy[n]: how n treats its peer (Messenger::Policy)
SeqStarts == scenario.starts    \* values randomize_out_seq may return
FastDispatch == scenario.fast   \* nodes whose dispatchers take messages in the reader
MaxSends == scenario.sends      \* bounds: submits,
MaxDowns == scenario.downs      \* mark_downs,
MaxFaults == scenario.faults    \* broken sockets
MaxConnectSeq == scenario.retries   \* and rounds of RETRY_SESSION

Peer(n) == CHOOSE m \in Node : m # n

-----------------------------------------------------------------------------
(* Sockets *)

Opposite(p) == IF socks[pipes[p].sock].cli = p THEN "s2c" ELSE "c2s"
Outward(p) == IF socks[pipes[p].sock].cli = p THEN "c2s" ELSE "s2c"
HasSock(p) == pipes[p].sock # NoSock
Up(p) == HasSock(p) /\ socks[pipes[p].sock].up
Incoming(p) == IF HasSock(p) THEN socks[pipes[p].sock][Opposite(p)] ELSE <<>>

(* tcp_read of the next item, and a write of items, on p's socket. *)
Consumed(p) == [socks EXCEPT ![pipes[p].sock][Opposite(p)] = Tail(@)]
Written(p, items) ==
    [Consumed(p) EXCEPT ![pipes[p].sock][Outward(p)] =
        IF Up(p) THEN @ \o items ELSE @]
Wrote(p, items) ==
    [socks EXCEPT ![pipes[p].sock][Outward(p)] = @ \o items]

(* shutdown_socket(): what the other end sent is lost, what this end sent  *)
(* can still be read over there.                                           *)
shutdown_socket(p, ss) ==
    IF ~HasSock(p) THEN ss
    ELSE [ss EXCEPT ![pipes[p].sock].up = FALSE,
                    ![pipes[p].sock][Opposite(p)] = <<>>]

-----------------------------------------------------------------------------
(* Pipe objects *)

NewPipe(n, st, k) ==
    [node |-> n, state |-> st, sock |-> NoSock, hs |-> "idle", cid |-> k,
     lossy |-> Policy[n].lossy, keepalive |-> FALSE, keepalive_ack |-> FALSE,
     connect_seq |-> 0, cseq |-> 0, gseq |-> 0, peer_global_seq |-> 0,
     rq |-> <<>>, q |-> <<>>, sent |-> <<>>,
     out_seq |-> 0, in_seq |-> 0, in_seq_acked |-> 0,
     tag |-> "none", replaced |-> FALSE, dispatching |-> <<>>]

(* A stopped Pipe: only its identity is left. *)
Closed(P) == [NewPipe(P.node, "CLOSED", P.cid) EXCEPT !.dispatching = P.dispatching]

is_queued(P) == P.rq # <<>> \/ P.q # <<>> \/ P.keepalive \/ P.keepalive_ack

(* _lookup_pipe: closed pipes are ignored. *)
_lookup_pipe(n) ==
    IF reg[n] # NoPipe /\ pipes[reg[n]].state # "CLOSED" THEN reg[n] ELSE NoPipe

(* Mutant: the requeued messages go behind the ones that never left. *)
requeue_sent_behind(P) ==
    [P EXCEPT !.q = @ \o P.sent, !.sent = <<>>, !.out_seq = @ - Len(P.sent)]

requeue_sent(P) ==
    [P EXCEPT !.rq = P.sent \o @, !.sent = <<>>, !.out_seq = @ - Len(P.sent)]

(* handle_ack: trim what the peer has received. *)
handle_ack(P, seq) ==
    [P EXCEPT !.sent = SelectSeq(@, LAMBDA m : m.seq > seq)]

(* discard_requeued_up_to: as long as the front of the requeued messages   *)
(* has been received by the peer, drop it and count it as sent.            *)
discard_requeued_up_to(P, seq) ==
    LET dropped == {i \in 1..Len(P.rq) :
                      \A j \in 1..i : P.rq[j].seq # 0 /\ P.rq[j].seq <= seq}
        k == Cardinality(dropped)
    IN  [P EXCEPT !.rq = SubSeq(@, k + 1, Len(@)), !.out_seq = @ + k]

(* was_session_reset() and the randomize_out_seq() it ends with. *)
was_session_reset(P, start) ==
    [P EXCEPT !.sent = <<>>, !.rq = <<>>, !.q = <<>>,
              !.out_seq = start, !.in_seq = 0, !.connect_seq = 0]

(* The part of fault() that follows the lossy case. *)
fault(P) ==
    LET R == [requeue_sent(P) EXCEPT !.sock = NoSock, !.hs = "idle"]
        pol == Policy[P.node]
    IN  IF pol.standby /\ ~is_queued(R) THEN [R EXCEPT !.state = "STANDBY"]
        ELSE IF P.state = "CONNECTING" THEN R
        ELSE IF pol.server THEN [R EXCEPT !.state = "STANDBY"]
        ELSE [R EXCEPT !.state = "CONNECTING", !.connect_seq = @ + 1]

(* in_q->discard_queue(conn_id) *)
discard_queue(s, k) == SelectSeq(s, LAMBDA x : x.cid # k)

(* n drops whatever it had queued to send: what it sends next belongs to a *)
(* new epoch.                                                              *)
NewEpoch(n) ==
    /\ epoch' = [epoch EXCEPT ![n] = @ + 1]
    /\ nsent' = [nsent EXCEPT ![n] = 0]

FreePipe == {i \in PipeId : pipes[i].state = "NONE" /\ \A j \in 1..(i-1) : pipes[j].state # "NONE"}
FreeSock == {i \in SockId : socks[i].cli = NoPipe /\ \A j \in 1..(i-1) : socks[j].cli # NoPipe}


-----------------------------------------------------------------------------
(* The application *)

(* submit_message: onto the registered pipe, or onto a new one that        *)
(* connect_rank makes; a server without a session drops the message.       *)
submit_message(n) ==
    LET p == _lookup_pipe(n)
        m == [e |-> epoch[n], n |-> nsent[n] + 1, seq |-> 0]
    IN  /\ subs[n] < MaxSends[n]
        /\ subs' = [subs EXCEPT ![n] = @ + 1]
        /\ nsent' = [nsent EXCEPT ![n] = @ + 1]
        /\ \/ /\ p # NoPipe
              /\ pipes' = [pipes EXCEPT ![p].q = Append(@, m)]
              /\ UNCHANGED reg
           \/ /\ p = NoPipe
              /\ ~Policy[n].server
              /\ \E i \in FreePipe :
                    /\ pipes' = [pipes EXCEPT ![i] =
                                    [NewPipe(n, "CONNECTING", i) EXCEPT !.q = <<m>>]]
                    /\ reg' = [reg EXCEPT ![n] = i]
        /\ UNCHANGED <<gseq, socks, events, inq, log, epoch, downs, faults, aborted>>

(* mark_down(con) *)
mark_down(n) ==
    LET p == _lookup_pipe(n)
    IN  /\ downs[n] < MaxDowns[n]
        /\ p # NoPipe
        /\ downs' = [downs EXCEPT ![n] = @ + 1]
        /\ reg' = [reg EXCEPT ![n] = NoPipe]
        /\ pipes' = [pipes EXCEPT ![p] = Closed(@)]
        /\ socks' = shutdown_socket(p, socks)
        /\ NewEpoch(n)
        /\ UNCHANGED <<gseq, events, inq, log, subs, faults, aborted>>

(* The dispatch thread: resets go before messages, messages of one         *)
(* connection in order.                                                    *)
Dispatch(n) ==
    /\ \/ /\ events[n] # <<>>
          /\ log' = [log EXCEPT ![n] = Append(@, [cid |-> Head(events[n]), m |-> <<>>])]
          /\ events' = [events EXCEPT ![n] = Tail(@)]
          /\ UNCHANGED inq
       \/ /\ events[n] = <<>>
          /\ \E i \in 1..Len(inq[n]) :
                /\ \A j \in 1..(i-1) : inq[n][j].cid # inq[n][i].cid
                /\ log' = [log EXCEPT ![n] = Append(@, inq[n][i])]
                /\ inq' = [inq EXCEPT ![n] = SubSeq(@, 1, i-1) \o SubSeq(@, i+1, Len(@))]
          /\ UNCHANGED events
    /\ UNCHANGED <<pipes, reg, gseq, socks, epoch, nsent, downs, subs, faults, aborted>>

(* The reader is back from fast_dispatch(). *)
FastDispatched(p) ==
    LET P == pipes[p]
    IN  /\ P.dispatching # <<>>
        /\ log' = [log EXCEPT ![P.node] = Append(@, [cid |-> P.cid, m |-> P.dispatching])]
        /\ pipes' = [pipes EXCEPT ![p].dispatching = <<>>]
        /\ UNCHANGED <<reg, gseq, socks, events, inq, epoch, nsent, downs, subs, faults, aborted>>

-----------------------------------------------------------------------------
(* connect(): the writer of a CONNECTING pipe *)

Offer(c, g) == [t |-> "connect", cseq |-> c, gseq |-> g]
Reply(tg, c, g, l, s) ==
    [t |-> "reply", tag |-> tg, cseq |-> c, gseq |-> g, lossy |-> l, seq |-> s]

(* A new socket and, behind the peer's Accepter, a new accepting pipe. *)
Connect(p) ==
    LET P == pipes[p]
        g == gseq[P.node] + 1
    IN  /\ P.state = "CONNECTING" /\ P.hs = "idle"
        /\ P.dispatching = <<>>                     \* join_reader()
        /\ \E i \in FreePipe, s \in FreeSock :
              /\ pipes' = [pipes EXCEPT
                    ![p] = [@ EXCEPT !.cseq = P.connect_seq, !.gseq = g,
                                     !.sock = s, !.hs = "reply"],
                    ![i] = [NewPipe(Peer(P.node), "ACCEPTING", i) EXCEPT !.sock = s]]
              /\ socks' = [socks EXCEPT ![s] =
                    [cli |-> p, srv |-> i, up |-> TRUE,
                     c2s |-> <<Offer(P.connect_seq, g)>>, s2c |-> <<>>]]
        /\ gseq' = [gseq EXCEPT ![P.node] = g]
        /\ UNCHANGED <<reg, events, inq, log, epoch, nsent, downs, subs, faults, aborted>>
(* ::connect() fails, or the socket breaks before the reply is complete. *)
ConnectFault(p) ==
    /\ pipes[p].state = "CONNECTING"
    /\ \/ /\ pipes[p].hs = "idle"
          /\ faults < MaxFaults
          /\ faults' = faults + 1
       \/ /\ pipes[p].hs = "reply"
          /\ ~Up(p)
          /\ UNCHANGED faults
    /\ pipes' = [pipes EXCEPT ![p] = fault(@)]
    /\ socks' = shutdown_socket(p, socks)
    /\ UNCHANGED <<reg, gseq, events, inq, log, epoch, nsent, downs, subs, aborted>>

ReplyReady(p, tags) ==
    /\ pipes[p].state = "CONNECTING" /\ pipes[p].hs = "reply"
    /\ Incoming(p) # <<>>
    /\ Head(Incoming(p)).t = "reply"
    /\ Head(Incoming(p)).tag \in tags

(* Ask again on the same socket. *)
Reconnect(p, P, c, g) ==
    /\ pipes' = [pipes EXCEPT ![p] = [P EXCEPT !.cseq = c, !.gseq = g]]
    /\ socks' = Written(p, <<Offer(c, g)>>)

ReplyResetSession(p) ==
    LET P == pipes[p]
    IN  /\ ReplyReady(p, {"RESETSESSION"})
        /\ \E start \in SeqStarts :
              Reconnect(p, was_session_reset(P, start), 0, P.gseq)
        /\ inq' = [inq EXCEPT ![P.node] = discard_queue(@, P.cid)]
        /\ events' = [events EXCEPT ![P.node] = Append(@, P.cid)]
        /\ NewEpoch(P.node)
        /\ UNCHANGED <<reg, gseq, log, downs, subs, faults, aborted>>

(* RETRY_GLOBAL has no action here: between two messengers only offers on  *)
(* sockets that their pipe has given up are that old, so nobody reads it.  *)

(* assert(reply.connect_seq > connect_seq) *)
ReplyRetrySession(p) ==
    LET P == pipes[p]
        c == Head(Incoming(p)).cseq
    IN  /\ ReplyReady(p, {"RETRY_SESSION"})
        /\ Reconnect(p, [P EXCEPT !.connect_seq = c], c, P.gseq)
        /\ aborted' = IF c > P.connect_seq THEN aborted ELSE aborted \cup {P.node}
        /\ UNCHANGED <<reg, gseq, events, inq, log, epoch, nsent, downs, subs, faults>>

ReplyWait(p) ==
    /\ ReplyReady(p, {"WAIT"})
    /\ pipes' = [pipes EXCEPT ![p] = [@ EXCEPT !.state = "WAIT", !.hs = "idle"]]
    /\ socks' = Consumed(p)
    /\ UNCHANGED <<reg, gseq, events, inq, log, epoch, nsent, downs, subs, faults, aborted>>

(* READY or SEQ: the session is open.  SEQ carries the last message the    *)
(* peer has received, and is answered with ours.                           *)
ReplyOpen(p) ==
    LET P == pipes[p]
        r == Head(Incoming(p))
        queued == P.rq \o P.q
        k == IF r.tag = "SEQ" /\ r.seq > P.out_seq THEN r.seq - P.out_seq ELSE 0
        ok == /\ k <= Len(queued)
              /\ \A i \in 1..k : queued[i].seq <= r.seq
              /\ P.cseq + 1 = r.cseq
        kept == IF k <= Len(P.rq)
                THEN [P EXCEPT !.rq = SubSeq(@, k + 1, Len(@))]
                ELSE [P EXCEPT !.rq = <<>>, !.q = SubSeq(@, k - Len(P.rq) + 1, Len(@))]
    IN  /\ ReplyReady(p, {"READY", "SEQ"})
        /\ pipes' = [pipes EXCEPT ![p] =
              [kept EXCEPT !.state = "OPEN", !.hs = "none", !.out_seq = @ + k,
                           !.connect_seq = P.cseq + 1, !.lossy = r.lossy,
                           !.peer_global_seq = r.gseq]]
        /\ socks' = IF r.tag = "SEQ" THEN Written(p, <<[t |-> "seq", seq |-> P.in_seq]>>)
                    ELSE Consumed(p)
        /\ aborted' = IF ok THEN aborted ELSE aborted \cup {P.node}
        /\ UNCHANGED <<reg, gseq, events, inq, log, epoch, nsent, downs, subs, faults>>

-----------------------------------------------------------------------------
(* accept(): the reader of an ACCEPTING pipe *)

OfferReady(p) ==
    /\ pipes[p].state = "ACCEPTING"
    /\ Incoming(p) # <<>>

(* Mutant: a reconnect is welcome although its session is gone. *)
NoSessionForgiving(m) == "open"

(* No existing pipe: "we reset, and they are opening a new session". *)
NoSession(m) == IF m.cseq > 0 THEN "RESETSESSION" ELSE "open"

(* What accept() decides about offer m in view of the existing pipe. *)
Verdict(n, m) ==
    LET e == _lookup_pipe(n)
        E == pipes[e]
    IN  IF e = NoPipe THEN NoSession(m)
        ELSE IF m.gseq < E.peer_global_seq THEN "RETRY_GLOBAL"
        ELSE IF E.lossy THEN "replace lossy"
        ELSE IF m.cseq = 0 /\ E.connect_seq > 0 THEN "replace reset"
        ELSE IF m.cseq < E.connect_seq THEN "RETRY_SESSION"
        ELSE IF m.cseq = E.connect_seq
        THEN IF E.state \in {"OPEN", "STANDBY"} THEN "RETRY_SESSION"
             ELSE IF Addr[Peer(n)] < Addr[n] \/ Policy[n].server THEN "replace race"
             ELSE "WAIT"
        ELSE IF Policy[n].resetcheck /\ E.connect_seq = 0 THEN "RESETSESSION"
        ELSE "replace"

(* Mutant: the peer is not asked to go beyond the existing session. *)
RetrySeqSame(E) == E.connect_seq

(* retry_session: the connect_seq the peer is to come back with. *)
RetrySeq(E) == E.connect_seq + 1

(* Mutant: the existing pipe is replaced in the middle of a dispatch. *)
NotDispatchingIgnored(n) == TRUE

(* accept() waits while the existing pipe is in fast_dispatch(). *)
NotDispatching(n) ==
    _lookup_pipe(n) # NoPipe => pipes[_lookup_pipe(n)].dispatching = <<>>

(* The replies that leave the pipe ACCEPTING. *)
AcceptRefuse(p) ==
    LET n == pipes[p].node
        m == Head(Incoming(p))
        e == _lookup_pipe(n)
        v == Verdict(n, m)
    IN  /\ OfferReady(p)
        /\ NotDispatching(n)
        /\ v \in {"RESETSESSION", "RETRY_GLOBAL", "RETRY_SESSION", "WAIT"}
        /\ v = "RETRY_SESSION" => pipes[e].connect_seq < MaxConnectSeq
        /\ socks' = Written(p, <<Reply(v,
                        IF v = "RETRY_SESSION" THEN RetrySeq(pipes[e]) ELSE 0,
                        IF v = "RETRY_GLOBAL" THEN pipes[e].peer_global_seq ELSE 0,
                        FALSE, 0)>>)
        /\ IF v = "WAIT"
           THEN /\ pipes' = [pipes EXCEPT ![e].keepalive = TRUE]
                /\ aborted' = IF pipes[e].state = "CONNECTING" /\ Addr[Peer(n)] > Addr[n]
                              THEN aborted ELSE aborted \cup {n}
           ELSE UNCHANGED <<pipes, aborted>>
        /\ UNCHANGED <<reg, gseq, events, inq, log, epoch, nsent, downs, subs, faults>>
(* open, or replace the existing pipe and take over its queues.  From here *)
(* on the pipe is registered; the reply is still to be written.            *)
AcceptOpen(p) ==
    LET P == pipes[p]
        n == P.node
        m == Head(Incoming(p))
        e == _lookup_pipe(n)
        v == Verdict(n, m)
        E == pipes[e]
        reset == v = "replace lossy" \/ (v = "replace reset" /\ Policy[n].resetcheck)
        opened == [P EXCEPT !.state = "OPEN", !.hs = "writing",
                            !.connect_seq = m.cseq + 1,
                            !.peer_global_seq = m.gseq, !.gseq = gseq[n] + 1,
                            !.tag = IF v \in {"open", "replace reset"} THEN "READY" ELSE "SEQ",
                            !.replaced = (v # "open")]
        Stolen(X) ==
            LET R == requeue_sent(X)
                s == IF v = "replace reset" THEN 0 ELSE X.in_seq
            IN  [opened EXCEPT !.cid = X.cid, !.in_seq = s, !.in_seq_acked = s,
                               !.out_seq = R.out_seq, !.rq = R.rq, !.q = R.q]
    IN  /\ OfferReady(p)
        /\ NotDispatching(n)
        /\ v \in {"open", "replace", "replace lossy", "replace reset", "replace race"}
        /\ IF e = NoPipe
           THEN pipes' = [pipes EXCEPT ![p] = opened]
           ELSE \E start \in IF reset THEN SeqStarts ELSE {0} :
                  pipes' = [pipes EXCEPT
                     ![p] = IF E.lossy THEN opened
                            ELSE Stolen(IF reset THEN was_session_reset(E, start) ELSE E),
                     ![e] = Closed(E)]
        /\ socks' = IF e = NoPipe THEN Consumed(p) ELSE shutdown_socket(e, Consumed(p))
        /\ reg' = [reg EXCEPT ![n] = p]
        /\ gseq' = [gseq EXCEPT ![n] = @ + 1]
        /\ IF reset
           THEN /\ inq' = [inq EXCEPT ![n] = discard_queue(@, E.cid)]
                /\ events' = [events EXCEPT ![n] = Append(@, E.cid)]
                /\ NewEpoch(n)
           ELSE UNCHANGED <<inq, events, epoch, nsent>>
        /\ aborted' = IF v = "replace race" /\ E.state \notin {"CONNECTING", "WAIT"}
                      THEN aborted \cup {n} ELSE aborted
        /\ UNCHANGED <<log, downs, subs, faults>>

(* The READY or SEQ reply goes out. *)
AcceptReply(p) ==
    LET P == pipes[p]
    IN  /\ P.state = "OPEN" /\ P.hs = "writing"
        /\ Up(p)
        /\ socks' = Wrote(p, <<Reply(P.tag, P.connect_seq, P.gseq, P.lossy, P.in_seq)>>)
        /\ pipes' = [pipes EXCEPT ![p].hs = IF P.tag = "SEQ" THEN "seq" ELSE "none"]
        /\ UNCHANGED <<reg, gseq, events, inq, log, epoch, nsent, downs, subs, faults, aborted>>

(* newly_acked_seq arrives; accept() ends and the writer starts. *)
AcceptSeq(p) ==
    /\ pipes[p].state = "OPEN" /\ pipes[p].hs = "seq"
    /\ Incoming(p) # <<>>
    /\ pipes' = [pipes EXCEPT ![p] =
          [discard_requeued_up_to(@, Head(Incoming(p)).seq) EXCEPT !.hs = "none"]]
    /\ socks' = Consumed(p)
    /\ UNCHANGED <<reg, gseq, events, inq, log, epoch, nsent, downs, subs, faults, aborted>>

(* fault() on a lossy channel: the session is over. *)
FailLossy(p) ==
    LET P == pipes[p]
        n == P.node
    IN  /\ pipes' = [pipes EXCEPT ![p] = Closed(P)]
        /\ reg' = IF reg[n] = p THEN [reg EXCEPT ![n] = NoPipe] ELSE reg
        /\ inq' = [inq EXCEPT ![n] = discard_queue(@, P.cid)]
        /\ NewEpoch(n)

(* fail_unlocked and fail_registered: accept() loses its socket. *)
AcceptFault(p) ==
    LET P == pipes[p]
        pol == Policy[P.node]
        F == [P EXCEPT !.state = IF is_queued(P)
                                 THEN IF pol.server THEN "STANDBY" ELSE "CONNECTING"
                                 ELSE IF P.replaced THEN "STANDBY" ELSE "CLOSED"]
    IN  /\ P.state = "ACCEPTING" \/ (P.state = "OPEN" /\ P.hs \in {"writing", "seq"})
        /\ ~Up(p)
        /\ IF F.state # "CLOSED" /\ F.state # "CONNECTING" /\ P.lossy
           THEN FailLossy(p)
           ELSE /\ pipes' = [pipes EXCEPT ![p] =
                                IF F.state = "CLOSED" THEN Closed(P) ELSE fault(F)]
                /\ UNCHANGED <<reg, inq, epoch, nsent>>
        /\ socks' = shutdown_socket(p, socks)
        /\ UNCHANGED <<gseq, events, log, downs, subs, faults, aborted>>

-----------------------------------------------------------------------------
(* reader() and writer() of an open pipe *)

Running(p) == pipes[p].state = "OPEN" /\ pipes[p].hs = "none"

(* An old message is dropped; it should not come at all (the assertion     *)
(* "old msgs despite reconnect_seq feature").                              *)
ReadMessage(p) ==
    LET P == pipes[p]
        n == P.node
        m == Head(Incoming(p)).m
    IN  /\ Running(p) /\ P.dispatching = <<>>
        /\ Incoming(p) # <<>>
        /\ Head(Incoming(p)).t = "msg"
        /\ socks' = Consumed(p)
        /\ IF m.seq <= P.in_seq
           THEN /\ aborted' = aborted \cup {n}
                /\ UNCHANGED <<pipes, inq>>
           ELSE /\ IF n \in FastDispatch
                   THEN /\ pipes' = [pipes EXCEPT ![p] =
                              [@ EXCEPT !.in_seq = m.seq, !.dispatching = m]]
                        /\ UNCHANGED inq
                   ELSE /\ pipes' = [pipes EXCEPT ![p].in_seq = m.seq]
                        /\ inq' = [inq EXCEPT ![n] = Append(@, [cid |-> P.cid, m |-> m])]
                /\ UNCHANGED aborted
        /\ UNCHANGED <<reg, gseq, events, log, epoch, nsent, downs, subs, faults>>

ReadControl(p) ==
    LET P == pipes[p]
        x == Head(Incoming(p))
    IN  /\ Running(p) /\ P.dispatching = <<>>
        /\ Incoming(p) # <<>>
        /\ x.t \in {"ack", "keepalive2", "keepalive2_ack"}
        /\ socks' = Consumed(p)
        /\ pipes' = [pipes EXCEPT ![p] =
              IF x.t = "ack" THEN handle_ack(P, x.seq)
              ELSE IF x.t = "keepalive2" THEN [P EXCEPT !.keepalive_ack = TRUE]
              ELSE P]
        /\ UNCHANGED <<reg, gseq, events, inq, log, epoch, nsent, downs, subs, faults, aborted>>

(* One round of writer(): keepalives, the ack, the next message. *)
WriterRound(p) ==
    LET P == pipes[p]
        acks == (IF P.keepalive THEN <<[t |-> "keepalive2"]>> ELSE <<>>)
             \o (IF P.keepalive_ack THEN <<[t |-> "keepalive2_ack"]>> ELSE <<>>)
             \o (IF P.in_seq > P.in_seq_acked THEN <<[t |-> "ack", seq |-> P.in_seq]>> ELSE <<>>)
        A == [P EXCEPT !.keepalive = FALSE, !.keepalive_ack = FALSE,
                       !.in_seq_acked = IF P.in_seq > @ THEN P.in_seq ELSE @]
        some == P.rq # <<>> \/ P.q # <<>>
        m == [(IF P.rq # <<>> THEN Head(P.rq) ELSE Head(P.q)) EXCEPT !.seq = P.out_seq + 1]
        B == [A EXCEPT !.out_seq = @ + 1,
                       !.rq = IF @ # <<>> THEN Tail(@) ELSE @,
                       !.q = IF P.rq = <<>> THEN Tail(@) ELSE @,
                       !.sent = IF P.lossy THEN @ ELSE Append(@, m)]
    IN  /\ Running(p)
        /\ Up(p)
        /\ is_queued(P) \/ P.in_seq > P.in_seq_acked
        /\ pipes' = [pipes EXCEPT ![p] = IF some THEN B ELSE A]
        /\ socks' = Wrote(p, acks \o (IF some THEN <<[t |-> "msg", m |-> m]>> ELSE <<>>))
        /\ UNCHANGED <<reg, gseq, events, inq, log, epoch, nsent, downs, subs, faults, aborted>>

(* writer(): a standby pipe with something to send reconnects. *)
WriterStandby(p) ==
    LET P == pipes[p]
    IN  /\ P.state = "STANDBY" /\ is_queued(P) /\ ~Policy[P.node].server
        /\ pipes' = [pipes EXCEPT ![p] =
              [@ EXCEPT !.state = "CONNECTING", !.connect_seq = @ + 1]]
        /\ UNCHANGED <<reg, gseq, socks, events, inq, log, epoch, nsent, downs, subs, faults, aborted>>

(* reader() or writer() fails on the broken socket. *)
Fault(p) ==
    LET P == pipes[p]
    IN  /\ Running(p)
        /\ ~Up(p)
        /\ IF P.lossy THEN FailLossy(p)
           ELSE /\ pipes' = [pipes EXCEPT ![p] = fault(@)]
                /\ UNCHANGED <<reg, inq, epoch, nsent>>
        /\ socks' = shutdown_socket(p, socks)
        /\ UNCHANGED <<gseq, events, log, downs, subs, faults, aborted>>

(* The network drops a TCP connection, or a read times out. *)
NetFault(s) ==
    /\ socks[s].up
    /\ faults < MaxFaults
    /\ faults' = faults + 1
    /\ socks' = [socks EXCEPT ![s].up = FALSE]
    /\ UNCHANGED <<pipes, reg, gseq, events, inq, log, epoch, nsent, downs, subs, aborted>>
-----------------------------------------------------------------------------
NoSockets == [cli |-> NoPipe, srv |-> NoPipe, up |-> FALSE, c2s |-> <<>>, s2c |-> <<>>]

Init ==
    /\ scenario \in Scenarios
    /\ pipes = [i \in PipeId |-> NewPipe(CHOOSE n \in Node : TRUE, "NONE", i)]
    /\ reg = [n \in Node |-> NoPipe]
    /\ gseq = [n \in Node |-> 0]
    /\ socks = [s \in SockId |-> NoSockets]
    /\ events = [n \in Node |-> <<>>]
    /\ inq = [n \in Node |-> <<>>]
    /\ log = [n \in Node |-> <<>>]
    /\ epoch = [n \in Node |-> 0]
    /\ nsent = [n \in Node |-> 0]
    /\ downs = [n \in Node |-> 0]
    /\ subs = [n \in Node |-> 0]
    /\ faults = 0
    /\ aborted = {}

(* The two threads of a Pipe. *)
Reader(p) ==
    \/ AcceptRefuse(p) \/ AcceptOpen(p) \/ AcceptReply(p) \/ AcceptSeq(p)
    \/ AcceptFault(p)
    \/ ReadMessage(p) \/ ReadControl(p) \/ FastDispatched(p)
    \/ Fault(p)

Writer(p) ==
    \/ Connect(p) \/ ConnectFault(p)
    \/ ReplyResetSession(p) \/ ReplyRetrySession(p)
    \/ ReplyWait(p) \/ ReplyOpen(p)
    \/ WriterRound(p) \/ WriterStandby(p)

Next ==
    /\ \/ \E n \in Node : submit_message(n) \/ mark_down(n) \/ Dispatch(n)
       \/ \E p \in PipeId : Reader(p) \/ Writer(p)
       \/ \E s \in SockId : NetFault(s)
    /\ UNCHANGED scenario

Spec == Init /\ [][Next]_vars

(* A lossless client and its server, and nobody marks the session down.    *)
LastingScenarios ==
    {x \in Scenarios :
        /\ \A n \in Node : x.downs[n] = 0 /\ ~x.policy[n].lossy
        /\ \E n \in Node : x.policy[n].server /\ ~x.policy[Peer(n)].server}
Lasting == scenario \in LastingScenarios

(* Every thread of a lasting session keeps running: the reader and the     *)
(* writer of each Pipe and the dispatch thread of each messenger.  Nothing *)
(* is assumed of the application or of the network.                        *)
FairSpec ==
    /\ Spec
    /\ \A p \in PipeId :
          /\ WF_vars(Lasting /\ Reader(p) /\ UNCHANGED scenario)
          /\ WF_vars(Lasting /\ Writer(p) /\ UNCHANGED scenario)
    /\ \A n \in Node : WF_vars(Lasting /\ Dispatch(n) /\ UNCHANGED scenario)

-----------------------------------------------------------------------------
Message == [e : Nat, n : Nat, seq : Nat]

PipeState == {"NONE", "ACCEPTING", "CONNECTING", "OPEN", "STANDBY", "CLOSED", "WAIT"}

PipeType ==
    [node : Node, state : PipeState, sock : SockId \cup {NoSock},
     hs : {"idle", "reply", "writing", "seq", "none"}, cid : PipeId,
     lossy : BOOLEAN, keepalive : BOOLEAN, keepalive_ack : BOOLEAN,
     connect_seq : Nat, cseq : Nat, gseq : Nat, peer_global_seq : Nat,
     rq : Seq(Message), q : Seq(Message), sent : Seq(Message),
     out_seq : Nat, in_seq : Nat, in_seq_acked : Nat,
     tag : {"none", "READY", "SEQ"}, replaced : BOOLEAN,
     dispatching : Message \cup {<<>>}]

(* What travels on a socket. *)
Item ==
    [t : {"connect"}, cseq : Nat, gseq : Nat]
    \cup [t : {"reply"}, cseq : Nat, gseq : Nat, lossy : BOOLEAN, seq : Nat,
          tag : {"RESETSESSION", "RETRY_GLOBAL", "RETRY_SESSION", "WAIT", "READY", "SEQ"}]
    \cup [t : {"seq", "ack"}, seq : Nat]
    \cup [t : {"msg"}, m : Message]
    \cup [t : {"keepalive2", "keepalive2_ack"}]

SockType ==
    [cli : PipeId \cup {NoPipe}, srv : PipeId \cup {NoPipe}, up : BOOLEAN,
     c2s : Seq(Item), s2c : Seq(Item)]

Dispatched == [cid : PipeId, m : Message \cup {<<>>}]

(* The values of the fields; out_seq in particular is unsigned in the code *)
(* and requeue_sent() never takes it below zero.                           *)
TypeOK ==
    /\ scenario \in Scenarios
    /\ pipes \in [PipeId -> PipeType]
    /\ reg \in [Node -> PipeId \cup {NoPipe}]
    /\ gseq \in [Node -> Nat]
    /\ socks \in [SockId -> SockType]
    /\ events \in [Node -> Seq(PipeId)]
    /\ inq \in [Node -> Seq(Dispatched)] /\ log \in [Node -> Seq(Dispatched)]
    /\ epoch \in [Node -> Nat] /\ nsent \in [Node -> Nat]
    /\ downs \in [Node -> Nat] /\ subs \in [Node -> Nat]
    /\ faults \in Nat
    /\ aborted \subseteq Node

IsMessage(x) == x.m # <<>>

(* The assertions of connect() and accept() hold in every interleaving of  *)
(* faults, reconnects and resets: a RETRY_SESSION always asks for a larger *)
(* connect_seq, a SEQ reply never acknowledges more than was sent, both    *)
(* ends agree on the connect_seq of an open session, a connection race     *)
(* finds the existing pipe connecting or waiting, and no message comes     *)
(* twice ("old msgs despite reconnect_seq feature").  The types, out_seq    *)
(* never below zero among them, are part of it.                            *)
NoAssertFails == TypeOK /\ aborted = {}

(* Within one connection, and up to a remote reset the dispatcher is told  *)
(* of, messages arrive in the order of submit_message and none is missing, *)
(* whatever breaks, is requeued, resent or taken over by another pipe.     *)
(* This is about messages that go through the DispatchQueue: fast_dispatch *)
(* can overtake the queued remote reset that precedes its message.         *)
NoSilentLoss ==
    \A n \in Node \ FastDispatch : \A i \in 1..Len(log[n]) :
        IsMessage(log[n][i]) =>
            LET x == log[n][i]
                before == {j \in 1..(i-1) : log[n][j].cid = x.cid}
                prev == log[n][CHOOSE j \in before : \A k \in before : k <= j]
            IN  IF before = {} \/ ~IsMessage(prev) THEN x.m.n = 1
                ELSE x.m.e = prev.m.e /\ x.m.n = prev.m.n + 1

(* A session reset never goes unnoticed at the other end: when the node    *)
(* that was sending is not told of it (and so begins no new epoch), what   *)
(* it sends keeps arriving on the one connection it was sent on.           *)
ResetsAreNoticed ==
    \A n \in Node : \A i, j \in 1..Len(log[n]) :
        (IsMessage(log[n][i]) /\ IsMessage(log[n][j])
            /\ log[n][i].m.e = log[n][j].m.e)
        => log[n][i].cid = log[n][j].cid

-----------------------------------------------------------------------------
(* The numbers of the messages of n's current epoch, as dispatched.        *)
Received(n) ==
    LET mine == SelectSeq(log[Peer(n)], LAMBDA x : IsMessage(x) /\ x.m.e = epoch[n])
    IN  [i \in 1..Len(mine) |-> mine[i].m.n]

Reliable == INSTANCE Channel WITH
    Resettable <- {n \in Node : \E x \in Scenarios : x.policy[n].server},
    Submitted <- [n \in Node |-> IF Lasting THEN nsent[n] ELSE 0],
    Delivered <- [n \in Node |-> IF Lasting THEN Received(n) ELSE <<>>]

(* While the session lasts, Pipe implements the Channel that               *)
(* dispatchers program against: however often the socket breaks, every     *)
(* message of the client is dispatched exactly once, in order and in the   *)
(* end.  So is every message of the server, unless it is told of a reset:  *)
(* a client that never saw the READY reply starts the session afresh.      *)
ReliableDelivery == Reliable!FairSpec
=============================================================================
