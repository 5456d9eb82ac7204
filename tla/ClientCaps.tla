----------------------------- MODULE ClientCaps -----------------------------
(***************************************************************************)
(* client/Client: the capabilities of one file.  A metadata server (MDS)   *)
(* issues capability bits and revokes them; the client may cache, buffer   *)
(* and change the file's metadata only while it holds the bits, counts     *)
(* what uses them, flushes what it changed and gives a revoked bit back    *)
(* once nothing uses it.  The file's MDS may restart, close the session or *)
(* hand the inode to another rank meanwhile.                               *)
(*                                                                         *)
(* Everything runs under client_lock: a step is what a thread does between *)
(* two waits.  The MDS, the OSDs and the connections (ordered and reliable *)
(* until the MDS fails, module Pipe) are external.                         *)
(***************************************************************************)
EXTENDS Integers, Sequences, FiniteSets, FiniteSetsExt, SequencesExt

CONSTANTS
    Rank,           \* MDS ranks
    None,           \* no rank
    Issuable,       \* the sets of bits the MDS issues
    MaxWrites,      \* how often the file is written at most
    Scenarios       \* what the users do and what goes wrong, how often

(* FILE_RD, FILE_WR, FILE_CACHE, FILE_BUFFER and AUTH_EXCL; the two that    *)
(* can be dirty stand for the file's size and for its mode.                 *)
Bits == {"Fr", "Fw", "Fc", "Fb", "Ax"}
FileBits == {"Fr", "Fw", "Fc", "Fb"}
Meta == {"Fw", "Ax"}
Thread == {"writer", "reader", "syncer"}

Budget ==
    [write : Nat, read : Nat, chmod : Nat, close : Nat, open : Nat, fsync : Nat, sync : Nat,
     issue : Nat, crash : Nat, deny : Nat, migrate : Nat]

ASSUME NoneAssumption == None \notin Rank
ASSUME IssuableAssumption == Bits \in Issuable /\ Issuable \subseteq SUBSET Bits
ASSUME ScenariosAssumption == Scenarios \subseteq {s \in Budget : s.write <= MaxWrites}

VARIABLES
    budget,         \* what may still happen
    mds,            \* the server side of the inode (external)
    inbox,          \* inbox[r]: messages from r, in order
    c,              \* the client and its inode
    thread,         \* the threads that use the file
    lost            \* history: how the client came to lose track of the MDS

vars == <<budget, mds, inbox, c, thread, lost>>

Width == 65536      \* flushing_cap_tid is a __u16
NoCap == [id |-> 0, issued |-> {}, implemented |-> {}, seq |-> 0, mseq |-> 0, wanted |-> {}]

Fail(x, why) == [x EXCEPT !.failed = @ \cup {why}]

-----------------------------------------------------------------------------
(* Inode: what is held, used and wanted.                                    *)

Held(x) == {r \in Rank : x.caps[r].id # 0}
caps_issued(x) == UNION {x.caps[r].issued : r \in Rank}
caps_implemented(x) == UNION {x.caps[r].implemented : r \in Rank}
caps_used(x) == {b \in FileBits : x.cap_refs[b] > 0}
caps_file_wanted(x) == IF x.open > 0 THEN Bits ELSE {}
caps_wanted(x) == caps_file_wanted(x) \cup caps_used(x)
caps_dirty(x) == x.dirty_caps \cup x.flushing_caps

dirty_or_tx(x) == x.oset.dirty \/ x.oset.tx # {}
set_is_empty(x) == ~x.oset.clean /\ ~dirty_or_tx(x) /\ x.oset.rx = 0
release_set(x) == [x EXCEPT !.oset.clean = FALSE]
get_caps_used(x) == caps_used(x) \cup (IF set_is_empty(x) THEN {} ELSE {"Fc"})

signal_waitfor_caps(x) == [x EXCEPT !.waitfor_caps = {}]

-----------------------------------------------------------------------------
(* Telling the MDS.  These take the client's state and return the next one. *)

(* con->send_message(): lost unless the connection leads to a live MDS.     *)
Send(x, r, m) == IF mds.linked THEN [x EXCEPT !.out[r] = Append(@, m)] ELSE x

(* A bit that is no longer issued goes once nothing uses it.                *)
StillImplementedIssued(cap, issued, used) == issued

StillImplemented(cap, issued, used) == cap.implemented \cap (issued \cup used)

send_cap(x, r, used, want, retain, flush) ==
    LET cap == x.caps[r]
        issued == cap.issued \cap (retain \ (cap.implemented \ cap.issued))
        implemented == StillImplemented(cap, issued, used)
        tid == IF flush = {} THEN 0 ELSE x.last_flush_tid + 1
        auth == r = x.auth_cap
    IN  Send([x EXCEPT !.caps[r].issued = issued,
                       !.caps[r].implemented = implemented,
                       !.caps[r].wanted = want,
                       !.last_flush_tid = IF flush = {} THEN @ ELSE tid,
                       !.flushing_cap_tid = [b \in Meta |-> IF b \in flush THEN tid % Width ELSE @[b]],
                       !.reported_size = x.val["Fw"],
                       !.requested_max_size = IF auth THEN x.wanted_max_size ELSE @],
             r, [op |-> "update", id |-> cap.id, seq |-> cap.seq, mseq |-> cap.mseq,
                 caps |-> implemented, wanted |-> want, dirty |-> flush, tid |-> tid,
                 val |-> x.val, max |-> IF auth THEN x.wanted_max_size ELSE 0])

mark_caps_dirty_again(x, b) ==
    [x EXCEPT !.nref = IF x.dirty_caps = {} THEN @ + 1 ELSE @, !.dirty_caps = @ \cup {b}]

mark_caps_dirty(x, b) ==
    [x EXCEPT !.nref = IF caps_dirty(x) = {} THEN @ + 1 ELSE @,
              !.dirty_caps = @ \cup {b}]

mark_caps_flushing_recounted(x) ==
    [x EXCEPT !.num_flushing_caps = @ + 1, !.flushing_caps = @ \cup x.dirty_caps,
              !.dirty_caps = {}, !.last_flush_seq = @ + 1,
              !.flushing_cap_seq = x.last_flush_seq + 1, !.flushing_list = x.auth_cap]

(* The item moves to the list of the auth MDS's session. *)
mark_caps_flushing(x) ==
    [x EXCEPT !.num_flushing_caps = IF x.flushing_caps = {} THEN @ + 1 ELSE @,
              !.flushing_caps = @ \cup x.dirty_caps,
              !.dirty_caps = {},
              !.last_flush_seq = @ + 1,
              !.flushing_cap_seq = x.last_flush_seq + 1,
              !.flushing_list = x.auth_cap]

(* check_caps(): whether the MDS of this cap has to hear from us now, or    *)
(* could but the release is delayed (hold_caps_until).                      *)
MustAck(x, r, wanted, cap_used) ==
    LET cap == x.caps[r]
        revoking == cap.implemented \ cap.issued
    IN  \/ x.wanted_max_size > x.max_size /\ x.wanted_max_size > x.requested_max_size
           /\ r = x.auth_cap
        \/ "Fw" \in cap.issued /\ 2 * x.val["Fw"] >= x.max_size
           /\ 2 * x.reported_size < x.max_size /\ r = x.auth_cap
        \/ revoking # {} /\ revoking \cap cap_used = {}
        \/ ~(wanted \subseteq (cap.wanted \cup cap.issued))

check_cap(x, r, wanted, used, retain, is_delayed) ==
    LET cap == x.caps[r]
        cap_used == IF x.auth_cap \notin {None, r} THEN used \ x.caps[x.auth_cap].issued ELSE used
        nothing == wanted = cap.wanted /\ cap.issued \subseteq retain /\ x.dirty_caps = {}
        flush == r = x.auth_cap /\ x.dirty_caps # {}
    IN  IF MustAck(x, r, wanted, cap_used) \/ (~nothing /\ is_delayed)
        THEN send_cap(IF flush THEN mark_caps_flushing(x) ELSE x, r, cap_used, wanted, retain,
                      IF flush THEN x.dirty_caps ELSE {})
        ELSE x

check_caps(x, is_delayed) ==
    LET wanted == caps_wanted(x)
        used == get_caps_used(x)
        retain == IF wanted = {} THEN used ELSE Bits
        y == IF is_delayed THEN x ELSE [x EXCEPT !.cap_item = "delayed"]
    IN  IF Held(x) = {} THEN x
        ELSE FoldSet(LAMBDA r, z : check_cap(z, r, wanted, used, retain, is_delayed), y, Held(x))

flush_caps(x, r) ==
    IF r # x.auth_cap THEN Fail(x, "cap->session == session")
    ELSE send_cap(x, r, get_caps_used(x), caps_wanted(x),
                  x.caps[r].issued \cup x.caps[r].implemented, x.flushing_caps)

-----------------------------------------------------------------------------
(* References to capabilities, and the object cache.                        *)

get_cap_ref(x, S) ==
    [x EXCEPT !.nref = @ + Cardinality({b \in S \cap {"Fb", "Fc"} : x.cap_refs[b] = 0}),
              !.cap_refs = [b \in FileBits |-> IF b \in S THEN @[b] + 1 ELSE @[b]]]

_invalidate_inode_cache(x) == check_caps(release_set(x), FALSE)

put_cap_ref(x, S) ==
    LET y == [x EXCEPT !.cap_refs = [b \in FileBits |-> IF b \in S THEN @[b] - 1 ELSE @[b]]]
        last == {b \in S : y.cap_refs[b] = 0}
        drop == (last \ caps_issued(y)) \cup ((last \cap {"Fc"}) \ caps_wanted(y))
        z == IF "Fc" \in drop THEN _invalidate_inode_cache(y)
             ELSE IF drop # {} THEN check_caps(y, FALSE) ELSE y
    IN  IF \E b \in S : x.cap_refs[b] = 0 THEN Fail(x, "cap_refs[c] > 0")
        ELSE [z EXCEPT !.nref = @ - Cardinality(last \cap {"Fb", "Fc"})]

(* bh_write() of what is dirty: the write carries everything up to size.    *)
Writeback(x) ==
    IF x.oset.dirty
    THEN [x EXCEPT !.oset.dirty = FALSE, !.oset.tx = @ \cup {x.written}]
    ELSE x

_release_lazy(x) == IF x.cap_refs["Fc"] = 0 THEN release_set(x) ELSE x

_release(x) == IF x.cap_refs["Fc"] = 0 THEN _invalidate_inode_cache(x) ELSE x
_flushed(x) == put_cap_ref(x, {"Fc", "Fb"})

-----------------------------------------------------------------------------
(* Messages from an MDS.                                                    *)

(* "ceph_seq_cmp(seq, cap->seq) <= 0": sent before the import message.      *)
add_update_cap(x, r, id, caps, newseq, newmseq, isauth) ==
    LET cap == x.caps[r]
        early == cap.id # 0 /\ newseq <= cap.seq
        seq == IF early THEN cap.seq ELSE newseq
        mseq == IF early THEN cap.mseq ELSE newmseq
        issued == IF early THEN caps \cup cap.issued ELSE caps
        takes == /\ isauth \/ early
                 /\ x.auth_cap # r
                 /\ x.auth_cap = None \/ x.caps[x.auth_cap].mseq < mseq
        fresh == issued \ cap.issued
        y == [x EXCEPT
                !.cap_item = IF cap.id = 0 THEN "listed" ELSE @,
                !.auth_cap = IF takes THEN r ELSE @,
                !.flushing_list = IF takes /\ x.auth_cap # None /\ @ # None THEN r ELSE @,
                !.caps[r] = [@ EXCEPT !.id = id, !.issued = @ \cup issued, !.seq = seq,
                                      !.implemented = @ \cup issued, !.mseq = mseq]]
        conflict == \E o \in Held(y) \ {r} :
                        (y.caps[o].implemented \ y.caps[o].issued) \cap issued # {}
        z == IF fresh # {} /\ y.auth_cap = r /\ conflict THEN check_caps(y, TRUE) ELSE y
    IN  IF early /\ ~(r = x.auth_cap /\ cap.id = id) THEN Fail(x, "cap == in->auth_cap")
        ELSE IF fresh # {} THEN signal_waitfor_caps(z) ELSE z

remove_cap(x, r) ==
    [x EXCEPT !.caps[r] = NoCap,
              !.auth_cap = IF @ = r THEN None ELSE @,
              !.flushing_list = IF x.auth_cap = r THEN None ELSE @]

handle_cap_export(x, r, m) ==
    LET cap == x.caps[r]
        t == m.peer
        stale == x.caps[t].id # m.peer_id \/ x.caps[t].seq < m.peer_seq
        moved == [x EXCEPT
                    !.caps[t] = [@ EXCEPT !.id = m.peer_id, !.seq = m.peer_seq - 1, !.mseq = m.mseq,
                                          !.issued = @ \cup cap.issued,
                                          !.implemented = @ \cup cap.issued],
                    !.auth_cap = IF @ = r THEN t ELSE @,
                    !.flushing_list = IF x.auth_cap \in {r, t} /\ @ # None THEN t ELSE @]
        y == IF x.caps[t].id = 0
             THEN add_update_cap(x, t, m.peer_id, cap.issued, m.peer_seq - 1, m.mseq, r = x.auth_cap)
             ELSE IF stale THEN moved ELSE x
    IN  IF cap.id = m.id THEN remove_cap(y, r) ELSE x

handle_cap_import(x, r, m) ==
    LET y == add_update_cap(x, r, m.id, m.caps, m.seq, m.mseq, TRUE)
        z == IF y.caps[m.peer].id = m.peer_id THEN remove_cap(y, m.peer) ELSE y
    IN  IF z.auth_cap = r /\ z.flushing_caps # {} THEN flush_caps(z, r) ELSE z

(* The bits under which the client's own attributes are the newer ones.     *)
OwnBitsIssued(x) == caps_issued(x)

OwnBits(x) == caps_issued(x) \cup caps_implemented(x) \cup caps_dirty(x)

(* The inode's attributes, unless the client's own are as good or better.   *)
update_inode(x, r, m) ==
    LET issued == OwnBits(x)
        grown == m.val["Fw"] > x.val["Fw"]
        reset == r = x.auth_cap /\ m.max # x.max_size /\ m.max > x.wanted_max_size
    IN  [x EXCEPT !.val = [b \in Meta |->
                            CASE b = "Ax" -> IF "Ax" \in issued THEN @[b] ELSE m.val[b]
                              [] b = "Fw" -> IF grown THEN m.val[b] ELSE @[b]],
                  !.reported_size = IF grown THEN m.val["Fw"] ELSE @,
                  !.max_size = IF r = x.auth_cap THEN m.max ELSE @,
                  !.wanted_max_size = IF reset THEN 0 ELSE @,
                  !.requested_max_size = IF reset THEN 0 ELSE @]

handle_cap_grant(x, r, m) ==
    LET used == get_caps_used(x)
        old == x.caps[r].issued
        import == m.op = "import" /\ m.wanted # caps_wanted(x)
        u == update_inode(x, r, m)
        y == [u EXCEPT !.caps[r].seq = m.seq,
                       !.caps[r].issued = m.caps,
                       !.caps[r].implemented = @ \cup m.caps]
        conflict == r = x.auth_cap /\ \E o \in Held(x) \ {r} :
                        (x.caps[o].implemented \ x.caps[o].issued) \cap m.caps # {}
        flushes == "Fb" \in used \ m.caps /\ dirty_or_tx(x)
        checked(z) == IF import THEN check_caps(z, FALSE) ELSE z
        z == CASE old \ m.caps # {} /\ flushes -> checked(Writeback(y))
               [] old \ m.caps # {} /\ ~flushes /\ "Fc" \in old \ m.caps -> checked(_release(y))
               [] old \ m.caps # {} /\ ~flushes /\ "Fc" \notin old \ m.caps ->
                    check_caps([y EXCEPT !.caps[r].wanted = {}], FALSE)
               [] old = m.caps -> checked(y)
               [] OTHER -> IF conflict THEN check_caps(y, FALSE) ELSE checked(y)
    IN  IF m.caps # {} THEN signal_waitfor_caps(z) ELSE z

(* The bits whose last flush this acknowledges. *)
CleanedByAny(x, m) == m.dirty

Cleaned(x, m) == {b \in m.dirty : m.tid % Width = x.flushing_cap_tid[b]}

handle_cap_flush_ack(x, m) ==
    LET cleaned == Cleaned(x, m)
        left == x.flushing_caps \ cleaned
        done == left = {}
    IN  IF cleaned = {} \/ x.flushing_caps = {} THEN x
        ELSE [x EXCEPT !.flushing_caps = left,
                       !.flushing_list = IF done THEN None ELSE @,
                       !.num_flushing_caps = IF done THEN @ - 1 ELSE @,
                       !.sync_cond = IF done THEN {} ELSE @,
                       !.nref = IF done /\ x.dirty_caps = {} THEN @ - 1 ELSE @]

(* The session was closed under us. *)
remove_session_caps(x, r) ==
    LET auth == x.auth_cap = r
        y == signal_waitfor_caps(remove_cap(x, r))
        z == [y EXCEPT !.wanted_max_size = IF auth THEN 0 ELSE @,
                       !.requested_max_size = IF auth THEN 0 ELSE @]
        dropped == [z EXCEPT !.num_flushing_caps = IF x.flushing_caps # {} THEN @ - 1 ELSE @,
                             !.flushing_caps = {}, !.dirty_caps = {}, !.nref = @ - 1]
        w == IF x.caps[r].id = 0 THEN x
             ELSE IF auth /\ caps_dirty(x) # {} THEN dropped ELSE z
    IN  [w EXCEPT !.sync_cond = {}]

(* Without a cap of that MDS a grant or an ack is dropped. *)
handle_caps(x, r, m) ==
    CASE m.op = "close" -> remove_session_caps(x, r)
      [] m.op = "export" -> handle_cap_export(x, r, m)
      [] m.op = "import" -> handle_cap_grant(handle_cap_import(x, r, m), r, m)
      [] m.op = "grant" -> IF r \in Held(x) THEN handle_cap_grant(x, r, m) ELSE x
      [] m.op = "ack" -> IF r \in Held(x) THEN handle_cap_flush_ack(x, m) ELSE x

ReceiveCaps(r) ==
    /\ inbox[r] # <<>>
    /\ inbox' = [inbox EXCEPT ![r] = Tail(@)]
    /\ c' = handle_caps(c, r, Head(inbox[r]))
    /\ UNCHANGED <<budget, mds, thread, lost>>

-----------------------------------------------------------------------------
(* Threads that use the file.  "goal" is what a sync call found when it     *)
(* began, "tx" the writes it waits for, "want" the flush it waits for.      *)

NewThread == [pc |-> "idle", tx |-> {}, want |-> 0, goal |-> [b \in Meta |-> 0], result |-> "none"]

Go(t, pc) == thread' = [thread EXCEPT ![t].pc = pc]
Spend(what) == budget[what] > 0 /\ budget' = [budget EXCEPT ![what] = @ - 1]

Need(t) == IF t = "writer" THEN {"Fw"} ELSE {"Fr"}
Want(t) == IF t = "writer" THEN {"Fb"} ELSE {"Fc"}
EndOff(x) == x.val["Fw"] + 1

AskMaxSizeLater(x) ==
    IF EndOff(x) > x.wanted_max_size THEN [x EXCEPT !.wanted_max_size = EndOff(x)] ELSE x

(* get_caps(): one round of its loop, with a larger max_size asked for.     *)
AskMaxSize(x) ==
    IF (EndOff(x) >= x.max_size \/ EndOff(x) > 2 * x.val["Fw"]) /\ EndOff(x) > x.wanted_max_size
    THEN check_caps([x EXCEPT !.wanted_max_size = EndOff(x)], FALSE)
    ELSE x

CanHave(x, t) ==
    LET have == caps_issued(x)
        butnot == Want(t) \ (have \cap Need(t))
        revoking == caps_implemented(x) \ have
    IN  /\ t = "writer" => EndOff(x) <= x.max_size
        /\ Need(t) \subseteq have
        /\ revoking \cap butnot = {}

(* The end of _write(), after the data has been buffered or written. *)
EndWrite(x) ==
    LET y == mark_caps_dirty([x EXCEPT !.val["Fw"] = @ + 1], "Fw")
        near == 2 * y.val["Fw"] >= y.max_size /\ 2 * y.reported_size < y.max_size
        z == IF near THEN check_caps(y, FALSE) ELSE y
    IN  put_cap_ref(mark_caps_dirty(z, "Fw"), {"Fw"})

BufferWriteIfCached(x) ==
    LET y == IF ~set_is_empty(x) THEN x ELSE get_cap_ref(x, {"Fc", "Fb"})
    IN  [get_cap_ref(y, {"Fb"}) EXCEPT !.oset.dirty = TRUE, !.written = @ + 1]

BufferWrite(x) ==
    LET y == IF dirty_or_tx(x) THEN x ELSE get_cap_ref(x, {"Fc", "Fb"})
    IN  [get_cap_ref(y, {"Fb"}) EXCEPT !.oset.dirty = TRUE, !.written = @ + 1]

(* The write may block in the object cache, with client_lock released. *)
StartWrite(x) ==
    \/ /\ "Fb" \in caps_issued(x)
       /\ c' = EndWrite(put_cap_ref(BufferWrite(x), {"Fb"}))
       /\ Go("writer", "idle")
    \/ /\ "Fb" \in caps_issued(x)
       /\ c' = BufferWrite(x)
       /\ Go("writer", "throttled")
    \/ /\ "Fb" \notin caps_issued(x)
       /\ c' = [get_cap_ref(x, {"Fb"}) EXCEPT !.unsafe_sync_write = @ + 1]
       /\ Go("writer", "writing")

StartRead(x) ==
    \/ /\ "Fc" \in caps_issued(x)
       /\ ~set_is_empty(x) /\ x.oset.rx = 0
       /\ c' = put_cap_ref(x, {"Fr"})
       /\ Go("reader", "idle")
    \/ /\ "Fc" \in caps_issued(x)
       /\ set_is_empty(x)
       /\ c' = [get_cap_ref(x, {"Fc"}) EXCEPT !.oset.rx = @ + 1]
       /\ Go("reader", "caching")
    \/ /\ "Fc" \notin caps_issued(x)
       /\ c' = x
       /\ Go("reader", "reading")

Begin(t, what) ==
    /\ thread[t].pc = "idle"
    /\ c.open > 0
    /\ Spend(what)
    /\ Go(t, "caps")
    /\ UNCHANGED <<mds, inbox, c, lost>>

get_caps(t) ==
    /\ thread[t].pc = "caps"
    /\ t \notin c.waitfor_caps
    /\ \/ /\ Held(c) = {}
          /\ Go(t, "stale")
          /\ UNCHANGED c
       \/ LET x == IF t = "writer" THEN AskMaxSize(c) ELSE c
              y == [x EXCEPT !.cap_refs = [b \in FileBits |-> IF b \in Need(t) THEN @[b] + 1 ELSE @[b]]]
          IN  /\ Held(c) # {}
              /\ \/ CanHave(x, t) /\ t = "writer" /\ StartWrite(y)
                 \/ CanHave(x, t) /\ t = "reader" /\ StartRead(y)
                 \/ /\ ~CanHave(x, t)
                    /\ c' = [x EXCEPT !.waitfor_caps = @ \cup {t}]
                    /\ UNCHANGED thread
    /\ UNCHANGED <<budget, mds, inbox, lost>>

Throttled ==
    /\ thread["writer"].pc = "throttled"
    /\ c' = EndWrite(put_cap_ref(c, {"Fb"}))
    /\ Go("writer", "idle")
    /\ UNCHANGED <<budget, mds, inbox, lost>>

WriteAcked ==
    /\ thread["writer"].pc = "writing"
    /\ c' = EndWrite(c)
    /\ Go("writer", "idle")
    /\ UNCHANGED <<budget, mds, inbox, lost>>

sync_write_commit ==
    /\ c.unsafe_sync_write > 0
    /\ c' = put_cap_ref([c EXCEPT !.unsafe_sync_write = @ - 1], {"Fb"})
    /\ UNCHANGED <<budget, mds, inbox, thread, lost>>

ReadDone ==
    /\ \/ /\ thread["reader"].pc = "caching"
          /\ LET x == [c EXCEPT !.oset.rx = @ - 1, !.oset.clean = TRUE]
             IN  c' = put_cap_ref(put_cap_ref(x, {"Fc"}), {"Fr"})
       \/ /\ thread["reader"].pc = "reading"
          /\ c' = put_cap_ref(c, {"Fr"})
    /\ Go("reader", "idle")
    /\ UNCHANGED <<budget, mds, inbox, lost>>

(* _setattr() of the mode, made locally. *)
_setattr ==
    /\ c.open > 0
    /\ "Ax" \in caps_issued(c)
    /\ Spend("chmod")
    /\ c' = mark_caps_dirty([c EXCEPT !.val["Ax"] = @ + 1], "Ax")
    /\ UNCHANGED <<mds, inbox, thread, lost>>

_release_fh ==
    /\ c.open > 0
    /\ \A t \in Thread : thread[t].pc = "idle"
    /\ Spend("close")
    /\ LET x == Writeback([c EXCEPT !.open = @ - 1])
       IN  c' = IF x.cap_refs["Fc"] = 0 /\ "Fc" \notin caps_wanted(x) /\ ~set_is_empty(x)
                THEN _invalidate_inode_cache(x)
                ELSE check_caps(x, FALSE)
    /\ UNCHANGED <<mds, inbox, thread, lost>>

(* _open() with the caps at hand. *)
_open ==
    /\ c.open = 0
    /\ Bits \subseteq caps_issued(c)
    /\ Spend("open")
    /\ c' = check_caps([c EXCEPT !.open = 1], TRUE)
    /\ UNCHANGED <<mds, inbox, thread, lost>>

(* The object cache writes dirty data back when it likes to. *)
FlusherWrites ==
    /\ c.oset.dirty
    /\ c' = Writeback(c)
    /\ UNCHANGED <<budget, mds, inbox, thread, lost>>

(* flush_set_callback() once nothing is dirty or in flight any more. *)
WriteCommitted(v) ==
    /\ v \in c.oset.tx
    /\ LET x == [c EXCEPT !.oset.tx = @ \ {v}, !.oset.clean = TRUE]
       IN  c' = IF dirty_or_tx(x) THEN x ELSE _flushed(x)
    /\ UNCHANGED <<budget, mds, inbox, thread, lost>>

(* tick(): the inodes whose delay is over. *)
tick ==
    /\ c.cap_item = "delayed"
    /\ c' = check_caps([c EXCEPT !.cap_item = "listed"], TRUE)
    /\ UNCHANGED <<budget, mds, inbox, thread, lost>>

-----------------------------------------------------------------------------
(* sync_fs() and fsync().                                                   *)

WaitsBefore(x, want) == x.flushing_list # None /\ x.flushing_cap_seq < want

(* wait_sync_caps(): the first inode on the flushing list. *)
Waits(x, want) == x.flushing_list # None /\ x.flushing_cap_seq <= want

flush_all_caps(x) ==
    LET y == IF x.cap_item = "delayed" THEN check_caps([x EXCEPT !.cap_item = "none"], TRUE) ELSE x
    IN  IF y.cap_item = "listed" THEN check_caps(y, TRUE) ELSE y

SyncState(pc, tx, want, goal) ==
    thread' = [thread EXCEPT !["syncer"] = [pc |-> pc, tx |-> tx, want |-> want, goal |-> goal,
                                            result |-> "none"]]

_sync_fs ==
    /\ thread["syncer"].pc = "idle"
    /\ Spend("sync")
    /\ c' = flush_all_caps(c)
    /\ SyncState("sync", {}, c'.last_flush_seq,
                 IF c.cap_item # "none" THEN c.val ELSE [b \in Meta |-> 0])
    /\ UNCHANGED <<mds, inbox, lost>>

_fsync ==
    /\ thread["syncer"].pc = "idle"
    /\ c.open > 0
    /\ Spend("fsync")
    /\ LET x == Writeback(c)
           meta == c.dirty_caps \ {"Fw"} # {}
           ranks == {r \in Held(x) : ~(x.caps[r].implemented \subseteq {"Fw", "Fb"})}
       IN  /\ c' = IF meta THEN FoldSet(LAMBDA r, y : flush_caps(y, r), x, ranks) ELSE x
           /\ SyncState("data", c'.oset.tx, IF meta THEN c'.last_flush_tid ELSE -1, c.val)
    /\ UNCHANGED <<mds, inbox, lost>>

FsyncData ==
    /\ thread["syncer"].pc = "data"
    /\ thread["syncer"].tx \cap c.oset.tx = {}
    /\ thread' = [thread EXCEPT !["syncer"].pc = "fsync", !["syncer"].tx = {}]
    /\ UNCHANGED <<budget, mds, inbox, c, lost>>

wait_sync_caps ==
    /\ thread["syncer"].pc \in {"sync", "fsync"}
    /\ "syncer" \notin c.sync_cond
    /\ IF Waits(c, thread["syncer"].want)
       THEN c' = [c EXCEPT !.sync_cond = {"syncer"}] /\ UNCHANGED thread
       ELSE /\ thread' = [thread EXCEPT !["syncer"].pc = "idle", !["syncer"].want = 0,
                            !["syncer"].result = thread["syncer"].pc]
            /\ UNCHANGED c
    /\ UNCHANGED <<budget, mds, inbox, lost>>

-----------------------------------------------------------------------------
(* A failed MDS comes back: handle_mds_map() with it in RECONNECT, and then *)
(* with it ACTIVE.  What the old one sent on the old connection is dropped. *)

InUse(x) ==
    {b \in {"Fr", "Fw"} : x.cap_refs[b] > 0}
        \cup (IF set_is_empty(x) THEN {} ELSE {"Fc"})
        \cup (IF dirty_or_tx(x) THEN {"Fb"} ELSE {})

send_reconnect(x, r) ==
    LET y == [x EXCEPT !.caps[r].seq = 0, !.caps[r].mseq = 0]
        m == [op |-> "reconnect", id |-> x.caps[r].id, caps |-> x.caps[r].issued,
              wanted |-> caps_wanted(x)]
    IN  IF r \in Held(x) THEN [y EXCEPT !.out[r] = Append(@, m)] ELSE x

MapReconnect ==
    /\ mds.state = "down"
    /\ mds' = [mds EXCEPT !.state = "reconnect", !.linked = TRUE]
    /\ inbox' = [inbox EXCEPT ![mds.auth] = <<>>]
    /\ c' = [send_reconnect(c, mds.auth) EXCEPT !.active = FALSE]
    /\ lost' = IF InUse(c) \subseteq c.caps[mds.auth].issued THEN lost ELSE lost \cup {"in use"}
    /\ UNCHANGED <<budget, thread>>

kick_nothing(x, r) == x

kick_flushing_caps(x, r) ==
    IF x.flushing_list = r /\ x.flushing_caps # {} THEN flush_caps(x, r) ELSE x

kick_maxsize_requests(x, r) ==
    IF r \in Held(x)
    THEN signal_waitfor_caps([x EXCEPT !.requested_max_size = 0, !.wanted_max_size = 0])
    ELSE x

MapActive ==
    /\ mds.state = "active"
    /\ ~c.active
    /\ c' = [kick_maxsize_requests(kick_flushing_caps(c, mds.auth), mds.auth) EXCEPT !.active = TRUE]
    /\ UNCHANGED <<budget, mds, inbox, thread, lost>>

-----------------------------------------------------------------------------
(* The MDS (external).  It journals what it is told before it acknowledges  *)
(* it, and keeps in "revokes" what the client had before each revocation    *)
(* that has not been confirmed.  "owes": the client has to be told of        *)
(* max_size, because it asked for more or has reconnected.                  *)

Tell(m, fields) ==
    inbox' = [inbox EXCEPT ![m.auth] =
        Append(@, fields @@ [id |-> m.id, caps |-> m.pending, seq |-> m.last_sent, mseq |-> m.mseq,
                             val |-> m.val, max |-> m.max])]

Issued(m) == m.pending \cup UNION {m.revokes[i].before : i \in DOMAIN m.revokes}

issue(m, S) ==
    LET open == {i \in DOMAIN m.revokes : ~(m.revokes[i].before \subseteq S)}
        kept == IF open = {} THEN 0 ELSE Max(open)
    IN  IF m.pending \subseteq S
        THEN [m EXCEPT !.pending = S, !.issued = @ \cup S, !.last_sent = @ + 1,
                       !.revokes = SubSeq(@, 1, kept)]
        ELSE [m EXCEPT !.pending = S, !.issued = @ \cup S, !.last_sent = @ + 1,
                       !.revokes = Append(@, [before |-> m.pending, seq |-> m.last_sent])]

confirm_receipt(m, seq, caps) ==
    LET later == SelectSeq(m.revokes, LAMBDA e : e.seq >= seq)
        mine == IF later # <<>> /\ later[1].seq = seq
                THEN [later EXCEPT ![1].before = caps] ELSE later
        n == [m EXCEPT !.revokes = mine]
    IN  IF seq = m.last_sent
        THEN [m EXCEPT !.revokes = <<>>, !.issued = caps, !.pending = @ \cap caps]
        ELSE [n EXCEPT !.issued = IF mine = <<>> THEN caps \cup m.pending ELSE Issued(n)]

MdsUpdate(m, u) ==
    LET n == confirm_receipt([m EXCEPT !.wanted = u.wanted], u.seq, u.caps)
        o == [n EXCEPT !.max = IF u.max > @ THEN u.max ELSE @,
                       !.owes = @ \/ u.max > m.max \/ (m.last_sent = 0 /\ "Fw" \in n.pending)]
    IN  IF u.dirty = {} THEN o
        ELSE [o EXCEPT !.val = [b \in Meta |-> IF b \in u.dirty THEN u.val[b] ELSE @[b]],
                       !.log = Append(@, [dirty |-> u.dirty, tid |-> u.tid, val |-> u.val])]

MdsReconnected(m, u) ==
    [m EXCEPT !.state = "active", !.id = u.id, !.pending = u.caps, !.issued = u.caps,
              !.wanted = u.wanted, !.mseq = 0, !.last_sent = 0]

MdsReceives(r) ==
    /\ mds.state # "down"
    /\ c.out[r] # <<>>
    /\ c' = [c EXCEPT !.out[r] = Tail(@)]
    /\ LET u == Head(c.out[r])
       IN  mds' = CASE u.op = "reconnect" -> MdsReconnected(mds, u)
                    [] u.op = "update" /\ r = mds.auth /\ u.id = mds.id /\ u.mseq >= mds.mseq ->
                            MdsUpdate(mds, u)
                    [] OTHER -> mds
    /\ UNCHANGED <<budget, inbox, thread, lost>>

MdsCommits ==
    /\ mds.log # <<>>
    /\ LET e == Head(mds.log)
       IN  /\ mds' = [mds EXCEPT !.log = Tail(@),
                        !.stable = [b \in Meta |-> IF b \in e.dirty THEN e.val[b] ELSE @[b]]]
           /\ inbox' = [inbox EXCEPT ![mds.auth] =
                            Append(@, [op |-> "ack", dirty |-> e.dirty, tid |-> e.tid])]
    /\ UNCHANGED <<budget, c, thread, lost>>

Serving == mds.state = "active" /\ mds.id # 0

(* Other clients' needs make it issue other bits, ... *)
MdsIssues ==
    /\ Serving
    /\ Spend("issue")
    /\ \E S \in Issuable \ {mds.pending} :
            mds' = issue(mds, S) /\ Tell(issue(mds, S), [op |-> "grant"])
    /\ UNCHANGED <<c, thread, lost>>

(* ... but in the end it issues what this one wants, and a larger max_size. *)
MdsGrants ==
    /\ Serving
    /\ ~(mds.wanted \subseteq mds.pending) \/ mds.owes
    /\ LET m == issue([mds EXCEPT !.owes = FALSE],
                      IF mds.wanted \subseteq mds.pending THEN mds.pending ELSE Bits)
       IN  mds' = m /\ Tell(m, [op |-> "grant"])
    /\ UNCHANGED <<budget, c, thread, lost>>

MdsCrashes ==
    /\ Serving
    /\ c.active
    /\ Spend("crash")
    /\ mds' = [mds EXCEPT !.state = "down", !.linked = FALSE, !.val = mds.stable, !.log = <<>>,
                          !.revokes = <<>>, !.owes = FALSE]
    /\ c' = [c EXCEPT !.out[mds.auth] = <<>>]
    /\ UNCHANGED <<inbox, thread, lost>>

(* The reconnect came too late, or was refused. *)
MdsDenies ==
    /\ mds.state = "reconnect"
    /\ Spend("deny")
    /\ mds' = [mds EXCEPT !.state = "active", !.linked = FALSE, !.id = 0, !.pending = {},
                          !.issued = {}, !.wanted = {}]
    /\ inbox' = [inbox EXCEPT ![mds.auth] = Append(@, [op |-> "close"])]
    /\ c' = [c EXCEPT !.out[mds.auth] = <<>>]
    /\ lost' = lost \cup {"denied"}
    /\ UNCHANGED thread

(* It hands the inode to another rank, once its own journal is clean.       *)
MdsMigrates(to) ==
    /\ Serving
    /\ mds.log = <<>>
    /\ to # mds.auth
    /\ Spend("migrate")
    /\ LET had == mds.issued \cup mds.pending
           m == [mds EXCEPT !.auth = to, !.id = @ + 1, !.pending = had, !.issued = had,
                            !.revokes = <<>>, !.last_sent = 1, !.mseq = @ + 1]
       IN  /\ mds' = m
           /\ inbox' = [inbox EXCEPT
                ![mds.auth] = Append(@, [op |-> "export", id |-> mds.id, peer |-> to,
                                         peer_id |-> m.id, peer_seq |-> 1, mseq |-> m.mseq]),
                ![to] = Append(@, [op |-> "import", id |-> m.id, caps |-> had, seq |-> 1,
                                   mseq |-> m.mseq, val |-> m.val, max |-> m.max,
                                   wanted |-> m.wanted, peer |-> mds.auth, peer_id |-> mds.id])]
    /\ UNCHANGED <<c, thread, lost>>

-----------------------------------------------------------------------------
Start == CHOOSE r \in Rank : TRUE

(* An open file with every bit issued, nothing dirty and nothing cached.    *)
Init ==
    /\ budget \in Scenarios
    /\ mds = [auth |-> Start, id |-> 1, pending |-> Bits, issued |-> Bits, revokes |-> <<>>,
              last_sent |-> 1, mseq |-> 0, wanted |-> Bits, val |-> [b \in Meta |-> 1],
              stable |-> [b \in Meta |-> 1], log |-> <<>>, max |-> 2, owes |-> FALSE,
              state |-> "active", linked |-> TRUE]
    /\ inbox = [r \in Rank |-> <<>>]
    /\ c = [caps |-> [r \in Rank |-> IF r # Start THEN NoCap
                        ELSE [id |-> 1, issued |-> Bits, implemented |-> Bits, seq |-> 1,
                              mseq |-> 0, wanted |-> Bits]],
            auth_cap |-> Start, dirty_caps |-> {}, flushing_caps |-> {},
            flushing_cap_tid |-> [b \in Meta |-> 0], last_flush_tid |-> 0,
            flushing_cap_seq |-> 0, last_flush_seq |-> 0, num_flushing_caps |-> 0,
            flushing_list |-> None, cap_item |-> "listed",
            cap_refs |-> [b \in FileBits |-> 0], nref |-> 0, open |-> 1,
            val |-> [b \in Meta |-> 1], max_size |-> 2, wanted_max_size |-> 0,
            requested_max_size |-> 0, reported_size |-> 1,
            oset |-> [dirty |-> FALSE, tx |-> {}, rx |-> 0, clean |-> FALSE],
            written |-> 0, unsafe_sync_write |-> 0, waitfor_caps |-> {}, sync_cond |-> {},
            active |-> TRUE, out |-> [r \in Rank |-> <<>>], failed |-> {}]
    /\ thread = [t \in Thread |-> NewThread]
    /\ lost = {}

Next ==
    \/ Begin("writer", "write")
    \/ Begin("reader", "read")
    \/ \E t \in {"writer", "reader"} : get_caps(t)
    \/ Throttled
    \/ WriteAcked
    \/ sync_write_commit
    \/ ReadDone
    \/ _setattr
    \/ _release_fh
    \/ _open
    \/ FlusherWrites
    \/ \E v \in c.oset.tx : WriteCommitted(v)
    \/ tick
    \/ _sync_fs
    \/ _fsync
    \/ FsyncData
    \/ wait_sync_caps
    \/ \E r \in Rank : ReceiveCaps(r)
    \/ MapReconnect
    \/ MapActive
    \/ \E r \in Rank : MdsReceives(r)
    \/ MdsCommits
    \/ MdsIssues
    \/ MdsGrants
    \/ MdsCrashes
    \/ MdsDenies
    \/ \E r \in Rank : MdsMigrates(r)

Spec == Init /\ [][Next]_vars

(* A thread, a callback or the timer does not stay for ever at a step it    *)
(* can take.  Taking the step ends the state that enables it, so that is    *)
(* what weak fairness of these steps says.                                  *)
ThreadsRun ==
    /\ \A t \in {"writer", "reader"} : []<>~(thread[t].pc = "caps" /\ t \notin c.waitfor_caps)
    /\ \A pc \in {"throttled", "writing"} : []<>(thread["writer"].pc # pc)
    /\ \A pc \in {"caching", "reading"} : []<>(thread["reader"].pc # pc)
    /\ []<>~(thread["syncer"].pc = "data" /\ thread["syncer"].tx \cap c.oset.tx = {})
    /\ []<>~(thread["syncer"].pc \in {"sync", "fsync"} /\ c.sync_cond = {})
    /\ []<>~c.oset.dirty
    /\ []<>(c.cap_item # "delayed")

(* Every write sent to the OSDs is committed, ... *)
OsdsCommit ==
    /\ \A v \in 1 .. MaxWrites : []<>(v \notin c.oset.tx)
    /\ []<>(c.unsafe_sync_write = 0)

(* ... every message arrives, and the MDS answers, recovers and grants.     *)
MdsServes ==
    /\ \A r \in Rank :
        /\ WF_inbox(inbox[r] # <<>> /\ inbox' = [inbox EXCEPT ![r] = Tail(@)])
        /\ WF_c(mds.state # "down" /\ c.out[r] # <<>> /\ c' = [c EXCEPT !.out[r] = Tail(@)])
    /\ WF_vars(MdsCommits)
    /\ []<>(mds.state # "down")
    /\ []<>~(mds.state = "active" /\ ~c.active)
    /\ WF_vars(MdsGrants)

FairSpec == Spec /\ ThreadsRun /\ OsdsCommit /\ MdsServes

-----------------------------------------------------------------------------
(* Types, and a cap's issued bits are among the ones it implements. *)
TypeOK ==
    /\ budget \in Budget
    /\ c.auth_cap \in Rank \cup {None}
    /\ c.flushing_list \in Rank \cup {None}
    /\ c.cap_item \in {"none", "listed", "delayed"}
    /\ c.dirty_caps \subseteq Meta /\ c.flushing_caps \subseteq Meta
    /\ \A r \in Rank : c.caps[r].issued \subseteq c.caps[r].implemented
    /\ c.cap_refs \in [FileBits -> Nat]
    /\ mds.state \in {"active", "down", "reconnect"}

(* No assertion of the capability code fails: no reference is put that was  *)
(* not taken (Inode::put_cap_ref), an import that was overtaken by its      *)
(* export finds the placeholder (add_update_cap) and a flush is sent by the *)
(* auth cap only (flush_caps).  The types are part of it.                   *)
NoAssertFails == TypeOK /\ c.failed = {}

(* The point of capabilities: what the client reads, writes, caches or      *)
(* buffers under a bit, the MDS still counts as issued, however revocations *)
(* cross with writebacks, delayed releases and migrations; so no other      *)
(* client has been given a conflicting bit.  The one exception is a restart *)
(* of the MDS while a bit is being given back: send_reconnect() reports     *)
(* cap->issued and not cap->implemented, and "lost" notes it.               *)
RevokedIsUnused ==
    (Serving /\ lost = {}) => InUse(c) \subseteq mds.issued

(* Metadata the client changed is dirty or flushing until the MDS has it on *)
(* disk: handle_cap_flush_ack() cleans a bit only for the flush that        *)
(* carried the last change of it, across re-flushes, restarts, exports and  *)
(* imports; and when sync_fs() returns and the file was not changed since   *)
(* it was called, the MDS has all of its metadata on disk.  (If it was, a   *)
(* second flush raises flushing_cap_seq, and wait_sync_caps() stops waiting *)
(* for the first.)  A session that was closed under the client drops it.    *)
CleanIsStable ==
    "denied" \notin lost =>
        /\ \A b \in Meta \ caps_dirty(c) : mds.stable[b] >= c.val[b]
        /\ thread["syncer"].result = "sync" /\ thread["syncer"].goal = c.val =>
                \A b \in Meta : mds.stable[b] >= c.val[b]

(* The inode is pinned once for buffered data, once for cached data and     *)
(* once while it has dirty or flushing caps, and every path that ends one   *)
(* of these gives that pin back exactly once (get_cap_ref, put_cap_ref,     *)
(* mark_caps_dirty, handle_cap_flush_ack, remove_session_caps).  With       *)
(* flushing caps it is on the list of a session, where sync and a reconnect *)
(* find it, also while its auth cap moves between ranks; and                *)
(* num_flushing_caps counts it once.                                        *)
CountsBalance ==
    /\ c.nref = Cardinality({b \in {"Fb", "Fc"} : c.cap_refs[b] > 0})
                   + (IF caps_dirty(c) = {} THEN 0 ELSE 1)
    /\ c.num_flushing_caps = IF c.flushing_caps = {} THEN 0 ELSE 1
    /\ (c.flushing_caps # {}) = (c.flushing_list # None)

(* fsync(syncdataonly = 0) returns once the metadata the file had when it   *)
(* was called is on the MDS's disk (include/cephfs/libcephfs.h:803-808).    *)
FsyncIsDurable ==
    (thread["syncer"].result = "fsync" /\ "denied" \notin lost) =>
        mds.stable["Ax"] >= thread["syncer"].goal["Ax"]

(* update_inode_file_bits() and handle_cap_grant() never replace a change   *)
(* of the client's by an older value the MDS sent before it knew of it.     *)
OwnChangesKept == [][\A b \in Meta : c'.val[b] >= c.val[b]]_vars

(* A bit the MDS takes back is given back, or the MDS changes its mind:     *)
(* buffered data is written out, the cache is dropped, users finish and the *)
(* last put_cap_ref() or the tick tells the MDS.  And a read, write, sync   *)
(* or fsync does not wait for ever: get_caps() is woken by the grant it     *)
(* needs, a writer gets the max_size it asked for, also from a restarted    *)
(* MDS, and a syncer is woken by the last ack.                              *)
WaitsEnd ==
    /\ ~(mds.issued \subseteq mds.pending) ~> (mds.issued \subseteq mds.pending)
    /\ \A t \in Thread : (thread[t].pc # "idle") ~> (thread[t].pc \in {"idle", "stale"})

(* What was changed before the file was closed reaches the MDS's disk       *)
(* without anybody asking for it: _release_fh() queues the inode and tick() *)
(* flushes it, and kick_flushing_caps() flushes it again after a restart.   *)
ClosedIsFlushed ==
    (c.open = 0) ~> (c.open > 0 \/ "denied" \in lost \/ mds.stable = c.val)
====
