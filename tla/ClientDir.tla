------------------------------ MODULE ClientDir ------------------------------
(***************************************************************************)
(* client/Client: the cached entries of one directory.  The client answers *)
(* lookups itself while it has a lease on the dentry or the FILE_SHARED    *)
(* bit of the directory, concludes that a name does not exist once it has  *)
(* marked the directory complete, and lists it from the cache once the     *)
(* dentries are also in the order of the metadata server (MDS).  Callers   *)
(* look up, create, unlink and rename; listers read the directory; the     *)
(* cache is trimmed; the MDS revokes what it issued, lets other clients    *)
(* change the directory, and may restart.                                  *)
(*                                                                         *)
(* Everything runs under client_lock: a step is what a thread does between *)
(* two waits or unlocks.  The directory is one fragment of files.  The MDS *)
(* and the ordered connection to it (module Pipe) are external.            *)
(***************************************************************************)
EXTENDS Integers, Sequences, FiniteSets, FiniteSetsExt, SequencesExt

CONSTANTS
    MaxName,        \* names are 1..MaxName, in the order in which the MDS lists them
    Chunk,          \* how many entries the MDS puts into a readdir reply
    Caller,         \* threads that look up, create, unlink and rename
    Lister,         \* threads that read the directory
    Scenarios       \* what the threads do and what happens meanwhile

Name == 1..MaxName

(* reads: one entry a call (readdirplus_r) or several (getdents).  issues   *)
(* and grants: how often the MDS issues bits with a reply or by a message.  *)
Scenario ==
    [files : SUBSET Name, caps : {{}, {"s"}, {"s", "x"}}, ops : SUBSET {"lookup", "create", "unlink", "rename"}, calls : Nat,
     reads : {"single", "getdents"}, lists : Nat, rewinds : Nat, leases : BOOLEAN, others : Nat,
     issues : Nat, grants : Nat, trims : Nat, expiries : Nat, restarts : Nat]

ASSUME SizesAssumption == MaxName \in Nat \ {0} /\ Chunk \in Nat \ {0}
ASSUME ThreadsAssumption == Caller \cap Lister = {}
ASSUME ScenariosAssumption == Scenarios \subseteq Scenario

VARIABLES
    left,           \* the scenario, and what of it may still happen
    mds,            \* the directory at the MDS (external)
    inbox,          \* messages from the MDS, in order
    outbox,         \* messages to the MDS, in order
    c,              \* the directory's inode, its Dir and its dentries
    caller,         \* the callers and their requests
    lister,         \* the listers, each with its dir_result_t
    seen            \* history: what happened that the properties leave out

vars == <<left, mds, inbox, outbox, c, caller, lister, seen>>

END == 1000         \* dir_result_t::END
NoReply == [kind |-> "none"]
NoRelease == [seq |-> -1, caps |-> {}, dname |-> 0]

-----------------------------------------------------------------------------
(* The cache.  x is the state of the directory in the client; dn is a       *)
(* partial function, list is the Dir's dentry_list.  A name's inode is 0    *)
(* when the dentry is null.                                                 *)

open_dir(x) == IF x.dir THEN x ELSE [x EXCEPT !.dir = TRUE]

(* The counters are the Dir's and go with it.                               *)
close_dir(x) == [x EXCEPT !.dir = FALSE, !.release_count = 0, !.ordered_count = 0]

NewDentry == [ino |-> 0, lease |-> FALSE, gen |-> 0, offset |-> 0]

link(x, n, ino) ==
    [x EXCEPT !.dn = IF n \in DOMAIN x.dn THEN [@ EXCEPT ![n].ino = ino]
                     ELSE (n :> [NewDentry EXCEPT !.ino = ino]) @@ @,
              !.list = Append(SelectSeq(@, LAMBDA k : k # n), n)]

(* unlink(dn, keepdir, keepdentry) keeps the dentry, or drops it.           *)
unlink(x, n) == [x EXCEPT !.dn[n].ino = 0, !.dn[n].lease = FALSE]

unlink_drop(x, n, keepdir) ==
    LET y == [x EXCEPT !.dn = Restrict(@, DOMAIN @ \ {n}),
                       !.list = SelectSeq(@, LAMBDA k : k # n)]
    IN  IF DOMAIN y.dn = {} /\ ~keepdir THEN close_dir(y) ELSE y

ClearComplete(x) == [x EXCEPT !.complete = FALSE, !.ordered = FALSE]

trim_dentry_quietly(x, n) == unlink_drop(x, n, FALSE)

trim_dentry(x, n) ==
    unlink_drop(ClearComplete([x EXCEPT !.release_count = @ + 1]), n, FALSE)

check_cap_issue_same_gen(x, issued) ==
    IF "s" \in issued /\ "s" \notin x.caps THEN [x EXCEPT !.ordered = FALSE] ELSE x

check_cap_issue(x, issued) ==
    IF "s" \in issued /\ "s" \notin x.caps
    THEN ClearComplete([x EXCEPT !.shared_gen = @ + 1])
    ELSE x

add_update_cap(x, st) ==
    [check_cap_issue(x, st.caps) EXCEPT !.caps = @ \cup st.caps, !.seq = st.seq]

(* An empty directory is complete; what is cached of it becomes null.       *)
add_update_inode(x, st) ==
    LET updating == x.version < st.version
        y == [add_update_cap(x, st) EXCEPT !.version = IF updating THEN st.version ELSE @]
        z == [y EXCEPT !.complete = TRUE, !.ordered = TRUE,
                       !.dn = [n \in DOMAIN @ |-> [@[n] EXCEPT !.ino = 0, !.lease = FALSE]]]
    IN  CASE ~(updating /\ "s" \in st.caps /\ "x" \notin x.caps /\ st.empty) -> y
          [] x.dir /\ x.list = <<>> -> close_dir(z)
          [] OTHER -> z

update_dentry_lease_only(x, n, lease) ==
    [x EXCEPT !.dn[n].lease = @ \/ lease]

update_dentry_lease(x, n, lease) ==
    [x EXCEPT !.dn[n].lease = @ \/ lease, !.dn[n].gen = x.shared_gen]

Reordered(x) == [x EXCEPT !.ordered_count = @ + 1, !.ordered = FALSE]

(* old is the dentry a rename has moved away from, 0 when there is none.    *)
insert_dentry_inode(x, n, ino, lease, old) ==
    LET same == n \in DOMAIN x.dn /\ x.dn[n].ino = ino
        y == IF n \in DOMAIN x.dn THEN unlink(x, n) ELSE x
        z == IF old = 0 THEN y ELSE unlink_drop(y, old, TRUE)
    IN  update_dentry_lease(IF same THEN x ELSE link(Reordered(z), n, ino), n, lease)

(* insert_readdir_results(): entry i of the reply becomes the last of the   *)
(* dentry_list and gets its place in the listing.                           *)
InsertEntry(x, m, i) ==
    LET e == m.ents[i]
        y == IF e.name \in DOMAIN x.dn /\ x.dn[e.name].ino # e.ino THEN unlink(x, e.name) ELSE x
        z == update_dentry_lease(link(y, e.name, e.ino), e.name, m.lease)
    IN  [z EXCEPT !.dn[e.name].offset = m.offset + i - 1]

insert_readdir_results(x, m) ==
    LET y == FoldLeft(LAMBDA acc, i : InsertEntry(acc, m, i), open_dir(x),
                      [i \in 1..Len(m.ents) |-> i])
    IN  IF DOMAIN y.dn = {} THEN close_dir(y) ELSE y

(* A reply without a trace: the operation was answered from what the MDS    *)
(* remembers of it after a restart, or it failed.  held are the request's   *)
(* dentries that are still in the Dir.                                      *)
insert_no_trace(x, m, held) ==
    LET d == IF m.op = "rename" THEN m.name2 ELSE m.name
        y == IF d \in held THEN ClearComplete([x EXCEPT !.release_count = @ + 1]) ELSE x
    IN  IF m.ok /\ m.op \in {"unlink", "rename"} /\ m.name \in held
        THEN unlink(y, m.name) ELSE y

(* A dentry that is not there any more leaves a null dentry.                *)
insert_null(x, n) ==
    IF n \in DOMAIN x.dn /\ x.dn[n].ino # 0 THEN unlink(Reordered(x), n) ELSE x

insert_trace(x, m, held) ==
    LET y == add_update_inode(x, m.st)
    IN  CASE m.op = "readdir" -> insert_readdir_results(y, m)
          [] m.op # "readdir" /\ ~m.trace -> insert_no_trace(x, m, held)
          [] m.op = "lookup" /\ m.ino # 0 ->
                 insert_dentry_inode(open_dir(y), m.name, m.ino, m.lease, 0)
          [] m.op = "create" /\ m.trace ->
                 insert_dentry_inode(open_dir(y), m.name, m.ino, FALSE, 0)
          [] m.op = "rename" /\ m.trace ->
                 insert_dentry_inode(open_dir(y), m.name2, m.ino, FALSE, m.name)
          [] OTHER -> insert_null(y, m.name)

-----------------------------------------------------------------------------
(* Looking a name up, and what a request tells the MDS.                     *)

(* _lookup() is answered by the dentry, or by its absence.                  *)
HitDentry(x, n) ==
    n \in DOMAIN x.dn /\ (x.dn[n].lease \/ ("s" \in x.caps /\ x.dn[n].gen = x.shared_gen))
HitComplete(x, n) == n \notin DOMAIN x.dn /\ "s" \in x.caps /\ x.complete
Local(x, n) == HitDentry(x, n) \/ HitComplete(x, n)
Answer(x, n) == IF HitDentry(x, n) THEN x.dn[n].ino ELSE 0

get_or_create(x, n) ==
    LET y == open_dir(x) IN IF n \in DOMAIN y.dn THEN y ELSE link(y, n, 0)

(* The dentries of the request: its dentry, then its old_dentry.            *)
Dentries(op, n, n2) ==
    CASE op \in {"create", "unlink"} -> <<n>> [] op = "rename" -> <<n2, n>> [] OTHER -> <<>>

(* encode_cap_releases(): FILE_SHARED goes unless the client has FILE_EXCL. *)
(* The lease of the first dentry is released with it; dn keeps its lease.   *)
Drops(x, op) == op \in {"create", "unlink", "rename"} /\ "s" \in x.caps /\ "x" \notin x.caps

encode_cap_releases(x, op) == IF Drops(x, op) THEN [x EXCEPT !.caps = @ \ {"s"}] ELSE x

Release(x, op, n, n2) ==
    LET d == Dentries(op, n, n2)[1]
    IN  IF op \in {"lookup", "readdir"} THEN NoRelease
        ELSE [seq |-> x.seq, caps |-> encode_cap_releases(x, op).caps,
              dname |-> IF Drops(x, op) /\ d \in DOMAIN x.dn /\ x.dn[d].lease THEN d ELSE 0]

Request(x, p, op, n, n2, last, offset) ==
    [kind |-> "request", p |-> p, op |-> op, name |-> n, name2 |-> n2, last |-> last,
     offset |-> offset, release |-> Release(x, op, n, n2)]

-----------------------------------------------------------------------------
(* Callers.                                                                 *)

NoCall == [pc |-> "idle", op |-> "lookup", name |-> 0, name2 |-> 0, todo |-> <<>>, held |-> {},
           reply |-> NoReply]

(* The names that are looked up before the request is made.                 *)
Lookups(op, n, n2) ==
    CASE op = "create" -> <<>> [] op = "rename" -> <<n, n2>> [] OTHER -> <<n>>

(* The first of them that the cache cannot answer, or that ends the call:   *)
(* only the target of a rename may be missing.                              *)
Walk(x, u, todo) ==
    LET stops == {i \in DOMAIN todo :
                    \/ ~Local(x, todo[i])
                    \/ u.op # "lookup" /\ todo[i] = u.name /\ Answer(x, u.name) = 0}
        i == Min(stops)
    IN  CASE stops = {} /\ u.op # "lookup" -> [go |-> "request", todo |-> <<>>]
          [] stops # {} /\ ~Local(x, todo[i]) -> [go |-> "lookup", todo |-> SubSeq(todo, i, Len(todo))]
          [] OTHER -> [go |-> "idle", todo |-> <<>>]

(* Whatever drops dentries: a request keeps its reference to one that is no *)
(* longer in the Dir; a listing in its callback has pointers to two.        *)
Hold(cs, x, y) == [p \in Caller |-> [cs[p] EXCEPT !.held = @ \ (DOMAIN x.dn \ DOMAIN y.dn)]]
Follow(ls, x, y) ==
    [p \in Lister |->
        [ls[p] EXCEPT !.dangling = @ \/ {ls[p].dn, ls[p].pd} \cap (DOMAIN x.dn \ DOMAIN y.dn) # {},
                      !.reopened = @ \/ (x.dir /\ ~y.dir)]]

(* The call returns: what it has changed is known from now on.              *)
Returned(p) == [mds EXCEPT !.done[p] = <<>>]

(* u goes on with the names that are still to be looked up.                 *)
Proceed(p, u, x, todo) ==
    LET w == Walk(x, u, todo)
        v == [u EXCEPT !.pc = w.go, !.todo = w.todo, !.reply = NoReply]
    IN  /\ caller' = [caller EXCEPT ![p] = IF w.go = "idle" THEN NoCall ELSE v]
        /\ c' = IF w.go = "request" THEN encode_cap_releases(x, u.op) ELSE x
        /\ outbox' = CASE w.go = "request" ->
                              Append(outbox, Request(x, p, u.op, u.name, u.name2, 0, 0))
                       [] w.go = "lookup" ->
                              Append(outbox, Request(x, p, "lookup", Head(w.todo), 0, 0, 0))
                       [] OTHER -> outbox
        /\ seen' = IF w.go = "request" /\ Release(x, u.op, u.name, u.name2).dname # 0
                   THEN seen \cup {"lease"} ELSE seen
        /\ mds' = IF w.go = "idle" THEN Returned(p) ELSE mds

(* lookup, _mknod, _create, _mkdir, _symlink, _unlink, _rmdir, _rename.     *)
Call(p) ==
    /\ caller[p].pc = "idle" /\ left.calls > 0
    /\ \E op \in left.ops, n, n2 \in Name :
        /\ n2 # n \/ op # "rename"
        /\ op # "rename" => n2 = n
        /\ LET held == Dentries(op, n, n2)
               x == FoldLeft(get_or_create, c, Reverse(held))
               u == [NoCall EXCEPT !.op = op, !.name = n, !.name2 = n2, !.held = ToSet(held)]
           IN  Proceed(p, u, x, Lookups(op, n, n2))
    /\ left' = [left EXCEPT !.calls = @ - 1]
    /\ UNCHANGED <<inbox, lister>>

(* make_request() returns.  A lookup goes on with the next name; a create   *)
(* or rename that got no trace looks up what it has made                    *)
(* (verify_reply_trace).                                                    *)
Resume(p) ==
    /\ caller[p].reply # NoReply
    /\ LET u == caller[p]
           m == u.reply
           d == Dentries(u.op, u.name, u.name2)[1]
       IN  CASE u.pc = "lookup" /\ ~(m.ino = 0 /\ u.op # "lookup" /\ Head(u.todo) = u.name) ->
                    Proceed(p, u, c, Tail(u.todo))
             [] u.pc = "request" /\ u.op \in {"create", "rename"} /\ m.ok /\ ~m.trace ->
                    /\ caller' = [caller EXCEPT ![p] = [u EXCEPT !.pc = "lookup", !.op = "lookup",
                                                           !.name = d, !.todo = <<d>>, !.reply = NoReply]]
                    /\ outbox' = Append(outbox, Request(c, p, "lookup", d, 0, 0, 0))
                    /\ seen' = IF d \in u.held THEN seen ELSE seen \cup {"unlinked"}
                    /\ UNCHANGED <<mds, c>>
             [] OTHER ->
                    /\ caller' = [caller EXCEPT ![p] = NoCall]
                    /\ mds' = Returned(p)
                    /\ UNCHANGED <<c, outbox, seen>>
    /\ UNCHANGED <<left, inbox, lister>>

-----------------------------------------------------------------------------
(* Listers.                                                                 *)

NoList == [pc |-> "idle", offset |-> 2, this_offset |-> 0, next_offset |-> 2, last_name |-> 0,
           at_cache_name |-> 0, release_count |-> 0, ordered_count |-> 0, start_shared_gen |-> 0,
           buffered |-> FALSE, buffer |-> <<>>, reply |-> NoReply,
           dn |-> 0, pd |-> 0, r |-> 0, prev_name |-> 0, next_off |-> 0,
           got |-> <<>>, same |-> {}, version |-> 0, cached |-> FALSE, by_position |-> FALSE,
           dangling |-> FALSE, reopened |-> FALSE]

(* What the MDS has done for a call that has not heard of it yet.           *)
Unanswered == UNION {DOMAIN mds.done[p] : p \in Caller}

(* The version of the directory, if the client has heard of all its changes. *)
Settled == IF Unanswered = {} THEN mds.version ELSE 0

(* _opendir(); "." and ".." come first and are left out.                    *)
opendir(p) ==
    /\ lister[p].pc \in {"idle", "end"} /\ left.lists > 0
    /\ lister' = [lister EXCEPT ![p] =
           [NoList EXCEPT !.pc = "open",
                          !.release_count = IF c.dir THEN c.release_count ELSE 0,
                          !.ordered_count = IF c.dir THEN c.ordered_count ELSE 0,
                          !.start_shared_gen = c.shared_gen,
                          !.version = Settled, !.same = Name \ Unanswered]]
    /\ left' = [left EXCEPT !.lists = @ - 1]
    /\ UNCHANGED <<mds, inbox, outbox, c, caller, seen>>

rewinddir(p) ==
    /\ lister[p].pc \in {"open", "end"} /\ left.rewinds > 0
    /\ lister' = [lister EXCEPT ![p] =
           [@ EXCEPT !.pc = "open", !.offset = 2, !.this_offset = 0, !.next_offset = 2,
                     !.last_name = 0, !.at_cache_name = 0, !.buffered = FALSE, !.buffer = <<>>,
                     !.got = <<>>, !.version = Settled, !.same = Name \ Unanswered,
                     !.cached = FALSE, !.by_position = FALSE]]
    /\ left' = [left EXCEPT !.rewinds = @ - 1]
    /\ UNCHANGED <<mds, inbox, outbox, c, caller, seen>>

UsesCache(x, d) ==
    (d.offset = 2 \/ d.at_cache_name # 0) /\ x.complete /\ x.ordered /\ "s" \in x.caps

Position(x, n) == IF n = 0 THEN Len(x.list) + 1 ELSE CHOOSE i \in 1..Len(x.list) : x.list[i] = n

(* _readdir_cache_cb() at place i of the dentry_list: the next entry goes   *)
(* to the callback, without the lock, or the listing is at its end.  The    *)
(* callback of getdents takes one entry here and refuses the next.          *)
CacheStep(d, x, i) ==
    LET rest == {k \in i..Len(x.list) : x.dn[x.list[k]].ino # 0
                                        /\ x.dn[x.list[k]].gen = x.shared_gen}
        k == Min(rest)
        n == x.list[k]
        r == CASE left.reads = "single" -> 1 [] d.prev_name = 0 -> 0 [] OTHER -> -1
    IN  IF rest = {} THEN [d EXCEPT !.pc = "end", !.offset = END, !.prev_name = 0]
        ELSE [d EXCEPT !.pc = "callback", !.r = r, !.dn = n, !.cached = TRUE,
                       !.pd = IF k = Len(x.list) THEN 0 ELSE x.list[k + 1],
                       !.next_off = IF k = Len(x.list) THEN END ELSE x.dn[n].offset + 1,
                       !.got = IF r < 0 THEN @ ELSE Append(@, n)]

(* The callback has returned.                                               *)
CacheResume(p) ==
    /\ lister[p].pc = "callback"
    /\ LET d == [lister[p] EXCEPT !.pc = "open", !.dn = 0, !.pd = 0]
           dn == lister[p].dn
       IN  lister' = [lister EXCEPT ![p] =
              CASE d.dangling -> [d EXCEPT !.pc = "idle"]
                [] d.r < 0 -> [d EXCEPT !.next_offset = c.dn[dn].offset,
                                        !.at_cache_name = d.prev_name, !.prev_name = 0]
                [] d.r > 0 -> [d EXCEPT !.offset = d.next_off]
                [] OTHER -> CacheStep([d EXCEPT !.offset = d.next_off, !.prev_name = dn],
                                      c, Position(c, lister[p].pd))]
    /\ seen' = IF lister[p].dangling THEN seen \cup {"dangling"} ELSE seen
    /\ UNCHANGED <<left, mds, inbox, outbox, c, caller>>

(* The dentry_list passes for the order of the MDS and is not.              *)
Shuffled(x) ==
    x.ordered /\ \E i, j \in 1..Len(x.list) : i < j /\ x.list[i] > x.list[j]
                     /\ x.dn[x.list[i]].ino # 0 /\ x.dn[x.list[j]].ino # 0

Noticing(x) == IF Shuffled(x) THEN {"shuffled"} ELSE {}

(* The end of a listing that went to the MDS: the directory is complete     *)
(* when nothing was dropped from the cache since opendir.                   *)
MarkCompleteAlways(x, d) == [x EXCEPT !.complete = TRUE, !.ordered = TRUE]

MarkComplete(x, d) ==
    IF ~(x.dir /\ x.shared_gen = d.start_shared_gen /\ x.release_count = d.release_count) THEN x
    ELSE [x EXCEPT !.complete = TRUE, !.ordered = @ \/ x.ordered_count = d.ordered_count]

(* The loop of readdir_r_cb(): an entry of the buffer, the next chunk, or   *)
(* the end.                                                                 *)
ReadBuffer(p, d) ==
    LET i == d.offset - d.this_offset + 1
        inside == d.buffered /\ i \in DOMAIN d.buffer
        more == d.offset < END /\ ~inside /\ (~d.buffered \/ d.last_name # 0)
        end == d.offset < END /\ ~inside /\ ~more
    IN  /\ lister' = [lister EXCEPT ![p] =
              CASE more -> [d EXCEPT !.pc = "wait", !.buffered = FALSE, !.buffer = <<>>, !.reply = NoReply]
                [] inside -> [d EXCEPT !.pc = "open", !.got = Append(@, d.buffer[i].name),
                                       !.offset = @ + 1, !.reply = NoReply]
                [] OTHER -> [d EXCEPT !.pc = "end", !.offset = END, !.buffered = FALSE,
                                      !.buffer = <<>>, !.reply = NoReply]]
        /\ outbox' = IF more THEN Append(outbox, Request(c, p, "readdir", 0, 0, d.last_name, d.next_offset))
                     ELSE outbox
        /\ c' = IF end THEN MarkComplete(c, d) ELSE c
        /\ seen' = seen \cup Noticing(c')
                        \cup (IF end /\ d.reopened /\ MarkComplete(c, d) # c THEN {"reopened"} ELSE {})

readdir_r_cb(p) ==
    /\ lister[p].pc = "open"
    /\ LET d == lister[p]
           lost == d.at_cache_name # 0 /\ d.at_cache_name \notin DOMAIN c.dn
       IN  IF d.offset < END /\ UsesCache(c, d) /\ ~(c.dir /\ lost)
           THEN /\ lister' = [lister EXCEPT ![p] =
                      IF ~c.dir THEN [d EXCEPT !.pc = "end", !.offset = END]
                      ELSE CacheStep(d, c, IF d.at_cache_name = 0 THEN 1
                                           ELSE Position(c, d.at_cache_name) + 1)]
                /\ UNCHANGED <<outbox, c, seen>>
           ELSE ReadBuffer(p, [d EXCEPT !.last_name = IF d.at_cache_name = 0 THEN @ ELSE d.at_cache_name,
                                        !.at_cache_name = 0, !.by_position = @ \/ d.cached])
    /\ UNCHANGED <<left, mds, inbox, caller>>

(* _readdir_get_frag() after its request.                                   *)
readdir_get_frag(p) ==
    /\ lister[p].reply # NoReply
    /\ LET d == lister[p]
           m == d.reply
       IN  ReadBuffer(p, [d EXCEPT !.buffered = TRUE, !.buffer = m.ents, !.this_offset = d.next_offset,
                                   !.next_offset = IF m.end THEN 2 ELSE @ + Len(m.ents),
                                   !.last_name = IF m.end THEN 0 ELSE Last(m.ents).name])
    /\ UNCHANGED <<left, mds, inbox, caller>>

-----------------------------------------------------------------------------
(* The cache shrinks: trim_cache(), trim_caps().  A request pins dentries.  *)

Pinned == UNION {caller[p].held : p \in Caller}

Trim(n) ==
    /\ left.trims > 0 /\ n \in DOMAIN c.dn \ Pinned
    /\ c' = trim_dentry(c, n)
    /\ lister' = Follow(lister, c, c')
    /\ left' = [left EXCEPT !.trims = @ - 1]
    /\ UNCHANGED <<mds, inbox, outbox, caller, seen>>

(* lease_ttl passes. *)
LeaseExpires(n) ==
    /\ left.expiries > 0 /\ n \in DOMAIN c.dn /\ c.dn[n].lease
    /\ c' = [c EXCEPT !.dn[n].lease = FALSE]
    /\ left' = [left EXCEPT !.expiries = @ - 1]
    /\ UNCHANGED <<mds, inbox, outbox, caller, lister, seen>>

-----------------------------------------------------------------------------
(* Messages from the MDS.  The dispatcher waits until the caller has taken  *)
(* the reply.                                                               *)

Dispatching == \A p \in Caller : caller[p].reply = NoReply /\ \A q \in Lister : lister[q].reply = NoReply

handle_client_reply(m) ==
    LET held == IF m.p \in Caller THEN caller[m.p].held ELSE {}
        old == m.op = "rename" /\ m.trace => m.name \in held
    IN  /\ c' = IF old THEN insert_trace(c, m, held) ELSE c
        /\ caller' = IF m.p \in Caller THEN [Hold(caller, c, c') EXCEPT ![m.p].reply = m]
                     ELSE Hold(caller, c, c')
        /\ lister' = IF m.p \in Lister THEN [Follow(lister, c, c') EXCEPT ![m.p].reply = m]
                     ELSE Follow(lister, c, c')
        /\ seen' = seen \cup Noticing(c') \cup (IF old THEN {} ELSE {"unlinked"})
        /\ UNCHANGED outbox

(* handle_cap_grant() asks check_cap_issue() about the bits it had, not     *)
(* about the new ones.                                                      *)
handle_cap_grant(m) ==
    /\ c' = [check_cap_issue(c, c.caps) EXCEPT !.caps = m.caps, !.seq = m.seq]
    /\ outbox' = IF c.caps \subseteq m.caps THEN outbox
                 ELSE Append(outbox, [kind |-> "ack", seq |-> m.seq, caps |-> m.caps])
    /\ seen' = IF "s" \in m.caps \ c.caps THEN seen \cup {"grant"} ELSE seen
    /\ UNCHANGED <<caller, lister>>

handle_lease_forgets(m) ==
    /\ c' = IF m.name \in DOMAIN c.dn THEN [c EXCEPT !.dn[m.name].lease = FALSE] ELSE c
    /\ outbox' = IF m.name \in DOMAIN c.dn THEN Append(outbox, [kind |-> "lease", name |-> m.name]) ELSE outbox
    /\ UNCHANGED <<caller, lister, seen>>

handle_lease(m) ==
    /\ c' = IF m.name \in DOMAIN c.dn THEN [c EXCEPT !.dn[m.name].lease = FALSE] ELSE c
    /\ outbox' = Append(outbox, [kind |-> "lease", name |-> m.name])
    /\ UNCHANGED <<caller, lister, seen>>

Dispatch ==
    /\ inbox # <<>> /\ Dispatching
    /\ inbox' = Tail(inbox)
    /\ CASE Head(inbox).kind = "reply" -> handle_client_reply(Head(inbox))
         [] Head(inbox).kind = "cap" -> handle_cap_grant(Head(inbox))
         [] OTHER -> handle_lease(Head(inbox))
    /\ UNCHANGED <<left, mds>>

-----------------------------------------------------------------------------
(* The MDS (external).  It changes the directory only when nobody caches    *)
(* what changes: the client that has FILE_EXCL is alone and may keep its    *)
(* bits.                                                                    *)

Changes(r) == r.op \in {"create", "unlink", "rename"}
Files(m) == {n \in Name : m.ns[n] # 0}
Succeeds(m, r) == IF r.op = "create" THEN m.ns[r.name] = 0 ELSE m.ns[r.name] # 0
Touches(r) == ToSet(Dentries(r.op, r.name, r.name2))
Alone(m) == m.issued = {} \/ ("x" \in m.issued /\ m.issued = m.pending)
Blocked(m, r) ==
    /\ Changes(r) /\ mds.done[r.p] = <<>> /\ Succeeds(m, r)
    /\ ~Alone(m) \/ Touches(r) \cap m.leases # {}

(* confirm_receipt(): only an answer to the last message takes bits away    *)
(* that are still pending.                                                  *)
Confirm(m, seq, caps) ==
    CASE seq = m.seq -> [m EXCEPT !.issued = caps, !.pending = @ \cap caps]
      [] seq < m.seq /\ seq >= m.revoke_seq -> [m EXCEPT !.issued = caps \cup m.pending]
      [] OTHER -> m

MdsReceives ==
    /\ outbox # <<>>
    /\ LET r == Head(outbox)
       IN  mds' = CASE r.kind = "ack" -> Confirm(mds, r.seq, r.caps)
                    [] r.kind = "lease" -> [mds EXCEPT !.leases = @ \ {r.name}, !.asked = @ \ {r.name}]
                    [] r.kind = "request" /\ r.release = NoRelease -> [mds EXCEPT !.wait = @ \cup {r}]
                    [] OTHER -> [Confirm(mds, r.release.seq, r.release.caps) EXCEPT
                                    !.leases = @ \ {r.release.dname}, !.wait = @ \cup {r}]
    /\ outbox' = Tail(outbox)
    /\ UNCHANGED <<left, inbox, c, caller, lister, seen>>

(* The bits the client has after a reply: more, if nothing is revoked.      *)
Issuable(m, n) ==
    {m.pending} \cup (IF n > 0 /\ m.issued = m.pending
                      THEN {k \in {{"s"}, {"s", "x"}} : m.pending \subseteq k} ELSE {})

Applied(m, r) ==
    LET ino == IF r.op = "create" THEN m.next ELSE m.ns[r.name]
        ns == CASE r.op = "create" -> [m.ns EXCEPT ![r.name] = ino]
                [] r.op = "unlink" -> [m.ns EXCEPT ![r.name] = 0]
                [] OTHER -> [m.ns EXCEPT ![r.name] = 0, ![r.name2] = ino]
    IN  [m EXCEPT !.ns = ns, !.version = @ + 1,
                  !.next = IF r.op = "create" THEN @ + 1 ELSE @,
                  !.done[r.p] = [n \in Touches(r) |-> m.ns[n]]]

Changed(names) == [p \in Lister |-> [lister[p] EXCEPT !.same = @ \ names]]

MdsServes(r) ==
    \E k \in Issuable(mds, left.issues) :
        LET fresh == Changes(r) /\ Succeeds(mds, r) /\ mds.done[r.p] = <<>>
            m == IF fresh THEN Applied(mds, r) ELSE mds
            after == {n \in Files(mds) : n > r.last}
            names == SetToSortSeq(after, <)
            trace == IF Changes(r) THEN fresh ELSE TRUE
            lease == left.leases /\ "s" \notin k /\ ~Changes(r) /\ mds.asked = {}
            pending == IF trace THEN k ELSE mds.pending
            ents == IF r.op = "readdir"
                    THEN [i \in 1..Min({Chunk, Len(names)}) |-> [name |-> names[i], ino |-> m.ns[names[i]]]]
                    ELSE <<>>
            reply == [kind |-> "reply", p |-> r.p, op |-> r.op, name |-> r.name, name2 |-> r.name2,
                      ok |-> IF Changes(r) THEN fresh \/ mds.done[r.p] # <<>> ELSE TRUE,
                      trace |-> trace, lease |-> lease, offset |-> r.offset,
                      ino |-> CASE r.op \in {"lookup", "create"} -> m.ns[r.name]
                                [] r.op = "rename" -> m.ns[r.name2] [] OTHER -> 0,
                      ents |-> ents, end |-> Len(names) <= Chunk,
                      st |-> [caps |-> pending, seq |-> mds.seq + 1, version |-> m.version,
                              empty |-> Files(m) = {}]]
        IN  /\ ~Blocked(mds, r)
            /\ trace \/ k = mds.pending
            /\ mds' = [m EXCEPT !.wait = @ \ {r}, !.pending = pending, !.issued = @ \cup pending,
                                !.seq = IF trace THEN @ + 1 ELSE @,
                                !.leases = IF lease /\ r.op = "lookup" /\ m.ns[r.name] # 0 THEN @ \cup {r.name}
                                           ELSE IF lease THEN @ \cup {e.name : e \in ToSet(ents)} ELSE @]
            /\ inbox' = Append(inbox, reply)
            /\ lister' = IF fresh THEN Changed(Touches(r)) ELSE lister
            /\ left' = [left EXCEPT !.issues = IF k = mds.pending THEN @ ELSE @ - 1]
            /\ UNCHANGED <<outbox, c, caller, seen>>

(* The MDS takes back what a request or another client needs.               *)
MdsRevokes ==
    /\ mds.pending # {}
    /\ left.others > 0 \/ \E r \in mds.wait : Blocked(mds, r) /\ ~Alone(mds)
    /\ mds' = [mds EXCEPT !.pending = {}, !.seq = @ + 1, !.revoke_seq = mds.seq]
    /\ inbox' = Append(inbox, [kind |-> "cap", caps |-> {}, seq |-> mds.seq + 1])
    /\ UNCHANGED <<left, outbox, c, caller, lister, seen>>

MdsRevokesLease(n) ==
    /\ n \in mds.leases \ mds.asked
    /\ left.others > 0 \/ \E r \in mds.wait : Blocked(mds, r) /\ n \in Touches(r)
    /\ mds' = [mds EXCEPT !.asked = @ \cup {n}]
    /\ inbox' = Append(inbox, [kind |-> "lease", name |-> n])
    /\ UNCHANGED <<left, outbox, c, caller, lister, seen>>

MdsGrants ==
    /\ left.grants > 0
    /\ \E k \in Issuable(mds, 1) \ {mds.pending} :
        /\ mds' = [mds EXCEPT !.pending = k, !.issued = k, !.seq = @ + 1]
        /\ inbox' = Append(inbox, [kind |-> "cap", caps |-> k, seq |-> mds.seq + 1])
    /\ left' = [left EXCEPT !.grants = @ - 1]
    /\ UNCHANGED <<outbox, c, caller, lister, seen>>

(* Another client creates or removes a file.                                *)
OtherClient(n) ==
    /\ left.others > 0 /\ mds.issued = {} /\ n \notin mds.leases
    /\ mds' = [mds EXCEPT !.ns[n] = IF @ = 0 THEN mds.next ELSE 0, !.version = @ + 1,
                          !.next = IF mds.ns[n] = 0 THEN @ + 1 ELSE @]
    /\ lister' = Changed({n})
    /\ left' = [left EXCEPT !.others = @ - 1]
    /\ UNCHANGED <<inbox, outbox, c, caller, seen>>

(* The MDS restarts; what it had done is in its journal.  The client trims  *)
(* its cache, tells the MDS what it has (send_reconnect) and sends its      *)
(* requests again.  Leases run out meanwhile.                               *)
Outstanding(p) == IF p \in Caller THEN caller[p].pc \in {"lookup", "request"} /\ caller[p].reply = NoReply
                  ELSE lister[p].pc = "wait" /\ lister[p].reply = NoReply

Resend(x, p) ==
    IF p \in Lister THEN Request(x, p, "readdir", 0, 0, lister[p].last_name, lister[p].next_offset)
    ELSE IF caller[p].pc = "lookup" THEN Request(x, p, "lookup", Head(caller[p].todo), 0, 0, 0)
    ELSE Request(x, p, caller[p].op, caller[p].name, caller[p].name2, 0, 0)

ResendOp(p) == IF p \in Caller /\ caller[p].pc = "request" THEN caller[p].op ELSE "lookup"

trim_cache_for_reconnect(x) ==
    LET y == FoldLeft(trim_dentry, x, SelectSeq(x.list, LAMBDA n : n \notin Pinned))
    IN  [y EXCEPT !.dn = [n \in DOMAIN @ |-> [@[n] EXCEPT !.lease = FALSE]], !.seq = 0]

MdsRestarts ==
    /\ left.restarts > 0 /\ Dispatching
    /\ LET x == trim_cache_for_reconnect(c)
           again == SetToSeq({p \in Caller \cup Lister : Outstanding(p)})
           y(i) == FoldLeft(LAMBDA acc, p : encode_cap_releases(acc, ResendOp(p)), x, SubSeq(again, 1, i))
       IN  /\ c' = y(Len(again))
           /\ outbox' = [i \in DOMAIN again |-> Resend(y(i - 1), again[i])]
           /\ mds' = [mds EXCEPT !.pending = x.caps, !.issued = x.caps, !.seq = 0, !.revoke_seq = 0,
                                 !.leases = {}, !.asked = {}, !.wait = {}]
           /\ lister' = Follow(lister, c, c')
    /\ inbox' = <<>>
    /\ left' = [left EXCEPT !.restarts = @ - 1]
    /\ UNCHANGED <<caller, seen>>

-----------------------------------------------------------------------------
Init ==
    /\ left \in Scenarios
    /\ mds = [ns |-> [n \in Name |-> IF n \in left.files THEN n ELSE 0], next |-> MaxName + 1,
              version |-> 1, pending |-> left.caps, issued |-> left.caps, seq |-> 0, revoke_seq |-> 0,
              leases |-> {}, asked |-> {}, wait |-> {}, done |-> [p \in Caller |-> <<>>]]
    /\ inbox = <<>> /\ outbox = <<>>
    /\ c = [dir |-> FALSE, release_count |-> 0, ordered_count |-> 0, dn |-> <<>>, list |-> <<>>,
            complete |-> FALSE, ordered |-> FALSE, caps |-> left.caps, seq |-> 0,
            shared_gen |-> IF left.caps = {} THEN 0 ELSE 1,
            version |-> 1]
    /\ caller = [p \in Caller |-> NoCall]
    /\ lister = [p \in Lister |-> NoList]
    /\ seen = {}

Next ==
    \/ \E p \in Caller : Call(p) \/ Resume(p)
    \/ \E p \in Lister :
           opendir(p) \/ rewinddir(p) \/ readdir_r_cb(p) \/ CacheResume(p) \/ readdir_get_frag(p)
    \/ \E n \in Name : Trim(n) \/ LeaseExpires(n) \/ MdsRevokesLease(n) \/ OtherClient(n)
    \/ \E r \in mds.wait : MdsServes(r)
    \/ Dispatch \/ MdsReceives \/ MdsRevokes \/ MdsGrants \/ MdsRestarts

(* What the client and the MDS have begun goes on, and the application     *)
(* reads a directory to its end.                                           *)
Progress ==
    \/ \E p \in Caller : Resume(p)
    \/ \E p \in Lister : readdir_r_cb(p) \/ CacheResume(p) \/ readdir_get_frag(p)
    \/ \E r \in mds.wait : MdsServes(r)
    \/ \E n \in Name : MdsRevokesLease(n)
    \/ Dispatch \/ MdsReceives \/ MdsRevokes

Spec == Init /\ [][Next]_vars /\ WF_vars(Progress)

-----------------------------------------------------------------------------
(* What a name may be answered with: what it is at the MDS, or what it was  *)
(* before a change whose caller still waits.                                *)
Current(n) ==
    {mds.ns[n]} \cup {mds.done[p][n] : p \in {q \in Caller : n \in DOMAIN mds.done[q]}}

(* Whatever _lookup() answers from the cache, by a dentry with a lease, by  *)
(* one under FILE_SHARED or by its absence from a complete directory, is    *)
(* what the MDS would answer, or would have before a change that its caller *)
(* has not been told of: across revocations, trims, listings that mark the  *)
(* directory complete, replies without a trace and restarts of the MDS.     *)
(* seen names the code paths that are excepted (handle_cap_grant,           *)
(* encode_dentry_release, a reopened or shuffled Dir, dentries unlinked     *)
(* under a request or a callback).                                          *)
LookupsAreTrue == seen = {} => \A n \in Name : Local(c, n) => Answer(c, n) \in Current(n)

(* A listing that readdir_r_cb() has ended has every file that stayed since *)
(* opendir or rewinddir exactly once and no name that stayed absent,        *)
(* whether its entries came from the cache, from the MDS or first from the  *)
(* one and then from the other, in which case it goes on by position and    *)
(* the directory must not have changed.                                     *)
ListingsAreTrue ==
    seen = {} =>
        \A p \in Lister : lister[p].pc = "end" /\ ~(lister[p].by_position /\ mds.version # lister[p].version) =>
            \A n \in lister[p].same :
                Cardinality({i \in DOMAIN lister[p].got : lister[p].got[i] = n})
                    = IF mds.ns[n] = 0 THEN 0 ELSE 1

(* Every lookup, create, unlink and rename returns and every listing comes  *)
(* to its end: leases and bits the MDS asks for are given back              *)
(* (handle_lease, handle_cap_grant), also for dentries that are gone, and   *)
(* requests are sent again to an MDS that restarts.                         *)
EveryCallReturns ==
    /\ \A p \in Caller : caller[p].pc # "idle" ~> caller[p].pc = "idle"
    /\ \A p \in Lister : lister[p].pc # "end" ~> lister[p].pc \in {"idle", "end"}

=============================================================================
