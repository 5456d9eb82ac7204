----------------------------- MODULE DokanProof -----------------------------
(***************************************************************************)
(* Descriptors are neither leaked nor shared, for any handles, names,      *)
(* inodes, descriptors and number of workers.                              *)
(***************************************************************************)
EXTENDS Dokan, TLAPS

(* A request that has begun and not failed is about a name below Root. *)
NamesAPath ==
    \A h \in Handle :
        /\ handle[h].pc \notin {"none", "closed"} => handle[h].path \in Path
        /\ handle[h].pc = "rename" => handle[h].to \in Path

(* A callback opens once: up to its ceph_open, and after ceph_close, there *)
(* is no descriptor in its Context that an open could overwrite.           *)
OpensOnce ==
    \A h \in Handle :
        handle[h].pc \notin {"chown", "opened", "alloc", "rename", "cleaned"}
            => handle[h].fd = NoFd

IInv == TypeOK /\ DescriptorsOwned /\ NamesAPath /\ OpensOnce

(* What NamesAPath and OpensOnce ask of one handle. *)
InOrder(r) ==
    /\ r.pc \notin {"none", "closed"} => r.path \in Path
    /\ r.pc = "rename" => r.to \in Path
    /\ r.pc \notin {"chown", "opened", "alloc", "rename", "cleaned"} => r.fd = NoFd

(* The types of the name space, which no descriptor depends on. *)
NamesTyped ==
    /\ ns \in [Path -> Ino \cup {NoIno}]
    /\ kind \in [Ino -> {"none", "file", "dir"}]
    /\ data \in [Ino -> 0..MaxData]
    /\ acl \in [Ino -> BOOLEAN]

LEMMA SameIsTyped ==
    ASSUME IInv, UNCHANGED <<ns, kind, data, acl>>
    PROVE  NamesTyped'
BY DEF IInv, TypeOK, NamesTyped

LEMMA NewHandleTyped == NewHandle \in HandleType /\ NewHandle.fd = NoFd
BY BoundsAssumption DEF NewHandle, HandleType

(* The three things a step can do to the descriptors.  It keeps the one of *)
(* its handle.                                                             *)
LEMMA KeepStep ==
    ASSUME IInv, NEW h \in Handle, NEW r \in HandleType, InOrder(r),
           handle' = [handle EXCEPT ![h] = r],
           r.fd = handle[h].fd, fds' = fds, NamesTyped'
    PROVE  IInv'
<1>1. TypeOK'
  BY DEF IInv, TypeOK, NamesTyped
<1>2. \A g \in Handle : handle'[g] = IF g = h THEN r ELSE handle[g]
  BY DEF IInv, TypeOK
<1>3. \A g \in Handle : handle'[g].fd = handle[g].fd
  BY <1>2
<1>4. DescriptorsOwned'
  BY <1>3 DEF IInv, DescriptorsOwned, HasContext
<1>5. NamesAPath' /\ OpensOnce'
  BY <1>2 DEF IInv, NamesAPath, OpensOnce, InOrder
<1> QED
  BY <1>1, <1>4, <1>5 DEF IInv

(* It opens inode i on a free descriptor, its handle having none. *)
LEMMA OpenStep ==
    ASSUME IInv, NEW h \in Handle, NEW r \in HandleType, InOrder(r),
           handle' = [handle EXCEPT ![h] = r],
           handle[h].fd = NoFd, NEW d \in FreeFd, NEW i \in Ino,
           r.fd = d, fds' = [fds EXCEPT ![d] = i], NamesTyped'
    PROVE  IInv'
<1>1. d \in Fd /\ fds[d] = NoIno /\ d # NoFd /\ i # NoIno
  BY FdAssumption, InoAssumption DEF FreeFd, Least
<1>2. TypeOK'
  BY <1>1 DEF IInv, TypeOK, NamesTyped
<1>3. \A g \in Handle : handle'[g] = IF g = h THEN r ELSE handle[g]
  BY DEF IInv, TypeOK
<1>4. \A e \in Fd : fds'[e] = IF e = d THEN i ELSE fds[e]
  BY DEF IInv, TypeOK
<1>5. \A g \in Handle : handle[g].fd \in Fd \cup {NoFd} /\ handle[g].fd # d
  BY <1>1 DEF IInv, TypeOK, HandleType, DescriptorsOwned, HasContext
<1>6. DescriptorsOwned'
  <2>1. \A e \in Fd : fds'[e] # NoIno => \E g \in Handle : handle'[g].fd = e
    <3> SUFFICES ASSUME NEW e \in Fd, fds'[e] # NoIno
                 PROVE  \E g \in Handle : handle'[g].fd = e
      OBVIOUS
    <3>1. CASE e = d
      BY <3>1, <1>3
    <3>2. CASE e # d
      <4>1. PICK g \in Handle : handle[g].fd = e
        BY <3>2, <1>4 DEF IInv, DescriptorsOwned
      <4>2. g # h
        BY <4>1, FdAssumption
      <4> QED
        BY <4>1, <4>2, <1>3
    <3> QED
      BY <3>1, <3>2
  <2>2. \A g \in Handle : handle'[g].fd # NoFd => fds'[handle'[g].fd] # NoIno
    BY <1>1, <1>3, <1>4, <1>5 DEF IInv, DescriptorsOwned, HasContext
  <2>3. \A g, k \in Handle :
           g # k /\ handle'[g].fd # NoFd => handle'[g].fd # handle'[k].fd
    BY <1>1, <1>3, <1>5 DEF IInv, DescriptorsOwned, HasContext
  <2> QED
    BY <2>1, <2>2, <2>3 DEF DescriptorsOwned, HasContext
<1>7. NamesAPath' /\ OpensOnce'
  BY <1>3 DEF IInv, NamesAPath, OpensOnce, InOrder
<1> QED
  BY <1>2, <1>6, <1>7 DEF IInv

(* It closes the descriptor of its handle, if there is one. *)
LEMMA CloseStep ==
    ASSUME IInv, NEW h \in Handle, NEW r \in HandleType, InOrder(r),
           handle' = [handle EXCEPT ![h] = r], r.fd = NoFd,
           fds' = IF HasContext(h) THEN [fds EXCEPT ![handle[h].fd] = NoIno] ELSE fds,
           NamesTyped'
    PROVE  IInv'
<1>1. TypeOK'
  BY DEF IInv, TypeOK, NamesTyped
<1>2. \A g \in Handle : handle'[g] = IF g = h THEN r ELSE handle[g]
  BY DEF IInv, TypeOK
<1>3. \A g \in Handle : handle[g].fd \in Fd \cup {NoFd}
  BY DEF IInv, TypeOK, HandleType
<1>4. \A e \in Fd : fds'[e] = IF e = handle[h].fd THEN NoIno ELSE fds[e]
  BY FdAssumption DEF IInv, TypeOK, HasContext
<1>5. DescriptorsOwned'
  <2>1. \A e \in Fd : fds'[e] # NoIno => \E g \in Handle : handle'[g].fd = e
    BY <1>2, <1>4 DEF IInv, DescriptorsOwned
  <2>2. \A g \in Handle : handle'[g].fd # NoFd => fds'[handle'[g].fd] # NoIno
    BY <1>2, <1>3, <1>4 DEF IInv, DescriptorsOwned, HasContext
  <2>3. \A g, k \in Handle :
           g # k /\ handle'[g].fd # NoFd => handle'[g].fd # handle'[k].fd
    BY <1>2 DEF IInv, DescriptorsOwned, HasContext
  <2> QED
    BY <2>1, <2>2, <2>3 DEF DescriptorsOwned, HasContext
<1>6. NamesAPath' /\ OpensOnce'
  BY <1>2 DEF IInv, NamesAPath, OpensOnce, InOrder
<1> QED
  BY <1>1, <1>5, <1>6 DEF IInv

-----------------------------------------------------------------------------
(* The steps that actions share. *)

Places == InProgress \cup {"none", "opened", "cleaned", "closed"}

LEMMA HandleFacts ==
    ASSUME IInv, NEW h \in Handle
    PROVE  handle[h] \in HandleType /\ InOrder(handle[h])
BY DEF IInv, TypeOK, NamesAPath, OpensOnce, InOrder

LEMMA GotoStep ==
    ASSUME IInv, NEW h \in Handle, NEW pc \in Places, Goto(h, pc),
           InOrder([handle[h] EXCEPT !.pc = pc]), fds' = fds, NamesTyped'
    PROVE  IInv'
<1> DEFINE r == [handle[h] EXCEPT !.pc = pc]
<1>1. r \in HandleType /\ r.fd = handle[h].fd
  BY HandleFacts DEF HandleType, Places
<1>2. handle' = [handle EXCEPT ![h] = r]
  BY DEF Goto
<1> HIDE DEF r
<1>3. InOrder(r)
  BY DEF r
<1> QED
  BY <1>1, <1>2, <1>3, KeepStep

LEMMA FailStep ==
    ASSUME IInv, NEW h \in Handle, handle[h].fd = NoFd, Fail(h), Same
    PROVE  IInv'
<1> DEFINE r == [NewHandle EXCEPT !.pc = "closed"]
<1>1. r \in HandleType /\ r.fd = NoFd /\ InOrder(r)
  BY NewHandleTyped DEF HandleType, InOrder
<1>2. handle' = [handle EXCEPT ![h] = r]
  BY DEF Fail
<1>3. fds' = fds /\ NamesTyped'
  BY SameIsTyped DEF Same
<1> HIDE DEF r
<1> QED
  BY <1>1, <1>2, <1>3, KeepStep

LEMMA CephOpenStep ==
    ASSUME IInv, NEW h \in Handle, handle[h].fd = NoFd, handle[h].path \in Path,
           NEW create \in BOOLEAN, NEW next \in {"opened", "chown"},
           ceph_open(h, create, next)
    PROVE  IInv'
<1> DEFINE p == handle[h].path
           r(d, new) == [handle[h] EXCEPT !.pc = next, !.fd = d, !.born = new]
<1>1. ASSUME NEW d \in FreeFd, NEW new \in BOOLEAN
      PROVE  r(d, new) \in HandleType /\ r(d, new).fd = d /\ InOrder(r(d, new))
  <2>1. d \in Fd
    BY DEF FreeFd, Least
  <2>2. handle[h] \in HandleType
    BY HandleFacts
  <2>3. next \in Places /\ d \in Fd \cup {NoFd}
    BY <2>1 DEF Places, InProgress
  <2>4. r(d, new) \in HandleType
    BY <2>2, <2>3 DEF HandleType, Places
  <2>5. r(d, new).fd = d /\ r(d, new).pc = next /\ r(d, new).path = p
    BY <2>2 DEF HandleType
  <2> HIDE DEF r
  <2>6. InOrder(r(d, new))
    BY <2>5 DEF InOrder
  <2> QED
    BY <2>4, <2>5, <2>6
<1>2. CASE Fail(h) /\ Same
  BY <1>2, FailStep
<1>3. CASE /\ Exists(p)
           /\ \E d \in FreeFd :
                 /\ fds' = [fds EXCEPT ![d] = ns[p]]
                 /\ handle' = [handle EXCEPT ![h] = r(d, FALSE)]
           /\ data' = data \/ data' = [data EXCEPT ![ns[p]] = 0]
           /\ UNCHANGED <<ns, kind, acl>>
  <2>1. PICK d \in FreeFd : /\ fds' = [fds EXCEPT ![d] = ns[p]]
                            /\ handle' = [handle EXCEPT ![h] = r(d, FALSE)]
    BY <1>3
  <2>2. ns[p] \in Ino
    BY <1>3 DEF IInv, TypeOK, Exists
  <2>3. NamesTyped'
    BY <1>3, <2>2, BoundsAssumption DEF IInv, TypeOK, NamesTyped
  <2> HIDE DEF p, r
  <2> QED
    BY <1>1, <2>1, <2>2, <2>3, OpenStep
<1>4. CASE /\ \E d \in FreeFd, i \in FreeIno :
                 /\ ns' = [ns EXCEPT ![p] = i]
                 /\ kind' = [kind EXCEPT ![i] = "file"]
                 /\ fds' = [fds EXCEPT ![d] = i]
                 /\ handle' = [handle EXCEPT ![h] = r(d, TRUE)]
           /\ UNCHANGED <<data, acl>>
  <2>1. PICK d \in FreeFd, i \in FreeIno :
           /\ ns' = [ns EXCEPT ![p] = i]
           /\ kind' = [kind EXCEPT ![i] = "file"]
           /\ fds' = [fds EXCEPT ![d] = i]
           /\ handle' = [handle EXCEPT ![h] = r(d, TRUE)]
    BY <1>4
  <2>2. i \in Ino
    BY DEF FreeIno, Least
  <2>3. NamesTyped'
    BY <1>4, <2>1, <2>2 DEF IInv, TypeOK, NamesTyped
  <2> HIDE DEF p, r
  <2> QED
    BY <1>1, <2>1, <2>2, <2>3, OpenStep
<1> QED
  BY <1>2, <1>3, <1>4 DEF ceph_open

-----------------------------------------------------------------------------
(* One lemma for each group of actions. *)

LEMMA StartStep ==
    ASSUME IInv, NEW h \in Handle, Start(h)
    PROVE  IInv'
<1>1. handle[h] \in HandleType /\ InOrder(handle[h])
  BY HandleFacts
<1>2. ASSUME NEW p \in Path, NEW d \in Disposition, NEW w \in BOOLEAN,
             NEW del \in BOOLEAN, CreateFile(h, p, d, w, del)
      PROVE  IInv'
  <2> DEFINE r == [handle[h] EXCEPT !.pc = "stat", !.path = p, !.disp = d,
                                    !.write = w, !.delete_on_close = del]
  <2>2. r \in HandleType
    BY <1>1 DEF HandleType, InProgress
  <2>3. r.fd = handle[h].fd /\ r.pc = "stat" /\ r.path = p /\ handle[h].fd = NoFd
    BY <1>1, <1>2 DEF HandleType, CreateFile, At, InOrder
  <2>4. handle' = [handle EXCEPT ![h] = r] /\ fds' = fds /\ NamesTyped'
    BY <1>2, SameIsTyped DEF CreateFile, Same
  <2> HIDE DEF r
  <2>5. InOrder(r)
    BY <2>3 DEF InOrder
  <2> QED
    BY <2>2, <2>3, <2>4, <2>5, KeepStep
<1>3. ASSUME NEW p \in Path, NEW pc \in {"mkstat", "dstat"}, handle[h].pc = "none", Same,
             handle' = [handle EXCEPT ![h] =
                [@ EXCEPT !.pc = pc, !.path = p, !.IsDirectory = TRUE]]
      PROVE  IInv'
  <2> DEFINE r == [handle[h] EXCEPT !.pc = pc, !.path = p, !.IsDirectory = TRUE]
  <2>1. r \in HandleType
    BY <1>1 DEF HandleType, InProgress
  <2>2. r.fd = handle[h].fd /\ r.pc = pc /\ r.path = p /\ handle[h].fd = NoFd
    BY <1>1, <1>3 DEF HandleType, InOrder
  <2>3. handle' = [handle EXCEPT ![h] = r] /\ fds' = fds /\ NamesTyped'
    BY <1>3, SameIsTyped DEF Same
  <2> HIDE DEF r
  <2>4. InOrder(r)
    BY <2>2 DEF InOrder
  <2> QED
    BY <2>1, <2>2, <2>3, <2>4, KeepStep
<1>4. ASSUME NEW p \in Path, CreateDirectory(h, p)
      PROVE  IInv'
  BY <1>1, <1>3, <1>4, FailStep DEF CreateDirectory, At, InOrder
<1>5. ASSUME NEW p \in Path, OpenDirectory(h, p)
      PROVE  IInv'
  BY <1>3, <1>5 DEF OpenDirectory, At
<1> QED
  BY <1>2, <1>4, <1>5 DEF Start

(* A step within a callback that only moves on to pc. *)
LEMMA MoveOn ==
    ASSUME IInv, NEW h \in Handle, NEW pc \in Places, Goto(h, pc),
           handle[h].pc \notin {"none", "closed"}, pc # "rename",
           handle[h].fd = NoFd
              \/ pc \in {"chown", "opened", "alloc", "rename", "cleaned"},
           fds' = fds, NamesTyped'
    PROVE  IInv'
<1> DEFINE r == [handle[h] EXCEPT !.pc = pc]
<1>1. handle[h] \in HandleType /\ InOrder(handle[h])
  BY HandleFacts
<1>2. r.pc = pc /\ r.path = handle[h].path /\ r.fd = handle[h].fd
  BY <1>1 DEF HandleType
<1> HIDE DEF r
<1>3. InOrder(r)
  BY <1>1, <1>2 DEF InOrder
<1> QED
  BY <1>3, GotoStep DEF r

(* Places between which a callback has no descriptor. *)
Before == {"stat", "create", "attr", "open", "trunc", "dstat", "dopen", "mkstat",
           "mkdir", "closing"}

LEMMA ContinueStep ==
    ASSUME IInv, NEW h \in Handle, Continue(h)
    PROVE  IInv'
<1> DEFINE H == handle[h]
<1>1. H \in HandleType /\ InOrder(H)
  BY HandleFacts
<1>2. ASSUME H.pc \in Before
      PROVE  H.fd = NoFd /\ H.path \in Path /\ H.pc \notin {"none", "closed"}
  BY <1>1, <1>2 DEF InOrder, Before
<1>3. ASSUME H.pc \in Before, Same, NEW pc \in Places \ {"rename"}, Goto(h, pc)
      PROVE  IInv'
  <2>1. fds' = fds /\ NamesTyped'
    BY <1>3, SameIsTyped DEF Same
  <2> QED
    BY <1>2, <1>3, <2>1, MoveOn
<1>4. ASSUME H.pc \in Before, Same, Fail(h)
      PROVE  IInv'
  BY <1>2, <1>4, FailStep
<1>5. CASE CreateFileStat(h)
  <2>1. H.pc \in Before /\ Same
    BY <1>5 DEF CreateFileStat, At, Before
  <2>2. CASE handle' = [handle EXCEPT ![h] =
                [@ EXCEPT !.pc = "opened", !.delete_on_close = FALSE]]
    <3> DEFINE r == [H EXCEPT !.pc = "opened", !.delete_on_close = FALSE]
    <3>1. r \in HandleType
      BY <1>1 DEF HandleType
    <3>2. r.fd = H.fd /\ r.pc = "opened" /\ r.path = H.path
      BY <1>1 DEF HandleType
    <3>3. handle' = [handle EXCEPT ![h] = r] /\ fds' = fds /\ NamesTyped'
      BY <2>1, <2>2, SameIsTyped DEF Same
    <3> HIDE DEF r
    <3>4. InOrder(r)
      BY <1>2, <2>1, <3>2 DEF InOrder
    <3> QED
      BY <3>1, <3>2, <3>3, <3>4, KeepStep
  <2>3. CASE \E pc \in {"trunc", "attr", "open", "create"} : Goto(h, pc)
    BY <1>3, <2>1, <2>3 DEF Places, InProgress
  <2>4. CASE Fail(h)
    BY <1>4, <2>1, <2>4
  <2> QED
    BY <1>5, <2>2, <2>3, <2>4 DEF CreateFileStat
<1>6. CASE QueryAttributes(h)
  <2>1. H.pc \in Before /\ Same
    BY <1>6 DEF QueryAttributes, At, Before
  <2>2. CASE handle' = [handle EXCEPT ![h] =
                [@ EXCEPT !.pc = "open", !.read_only = TRUE]]
    <3> DEFINE r == [H EXCEPT !.pc = "open", !.read_only = TRUE]
    <3>1. r \in HandleType
      BY <1>1 DEF HandleType, InProgress
    <3>2. r.fd = H.fd /\ r.pc = "open" /\ r.path = H.path
      BY <1>1 DEF HandleType
    <3>3. handle' = [handle EXCEPT ![h] = r] /\ fds' = fds /\ NamesTyped'
      BY <2>1, <2>2, SameIsTyped DEF Same
    <3> HIDE DEF r
    <3>4. InOrder(r)
      BY <1>2, <2>1, <3>2 DEF InOrder
    <3> QED
      BY <3>1, <3>2, <3>3, <3>4, KeepStep
  <2>3. CASE Goto(h, "open")
    BY <1>3, <2>1, <2>3 DEF Places, InProgress
  <2>4. CASE Fail(h)
    BY <1>4, <2>1, <2>4
  <2> QED
    BY <1>6, <2>2, <2>3, <2>4 DEF QueryAttributes
<1>7. CASE OpenExisting(h)
  BY <1>2, <1>4, <1>7, CephOpenStep DEF OpenExisting, At, Before
<1>8. CASE OpenTruncate(h)
  BY <1>2, <1>4, <1>8, CephOpenStep DEF OpenTruncate, At, Before
<1>9. CASE OpenCreate(h)
  BY <1>2, <1>4, <1>9, CephOpenStep DEF OpenCreate, At, Before
<1>10. CASE OpenChown(h)
  <2>1. NamesTyped' /\ fds' = fds /\ H.pc = "chown" /\ Goto(h, "opened")
    BY <1>10 DEF OpenChown, InitAcl, At, IInv, TypeOK, NamesTyped
  <2> QED
    BY <2>1, MoveOn DEF Places
<1>11. CASE CreateDirectoryStat(h)
  BY <1>3, <1>4, <1>11 DEF CreateDirectoryStat, At, Before, Places, InProgress
<1>12. CASE ceph_mkdir(h)
  <2>1. H.pc \in Before
    BY <1>12 DEF ceph_mkdir, At, Before
  <2>2. CASE Fail(h) /\ Same
    BY <1>4, <2>1, <2>2
  <2>3. CASE /\ \E i \in FreeIno :
                   /\ ns' = [ns EXCEPT ![H.path] = i]
                   /\ kind' = [kind EXCEPT ![i] = "dir"]
             /\ handle' = [handle EXCEPT ![h] = [@ EXCEPT !.pc = "chown", !.born = TRUE]]
             /\ UNCHANGED <<data, acl, fds>>
    <3> DEFINE r == [H EXCEPT !.pc = "chown", !.born = TRUE]
    <3>1. r \in HandleType
      BY <1>1 DEF HandleType, InProgress
    <3>2. r.fd = H.fd /\ r.pc = "chown" /\ r.path = H.path
      BY <1>1 DEF HandleType
    <3>3. NamesTyped'
      <4>1. PICK i \in Ino : /\ ns' = [ns EXCEPT ![H.path] = i]
                             /\ kind' = [kind EXCEPT ![i] = "dir"]
        BY <2>3 DEF FreeIno, Least
      <4>2. UNCHANGED <<data, acl>>
        BY <2>3
      <4> QED
        BY <4>1, <4>2 DEF IInv, TypeOK, NamesTyped
    <3>4. handle' = [handle EXCEPT ![h] = r] /\ fds' = fds
      BY <2>3
    <3> HIDE DEF r
    <3>5. InOrder(r)
      BY <1>2, <2>1, <3>2 DEF InOrder
    <3> QED
      BY <3>1, <3>2, <3>3, <3>4, <3>5, KeepStep
  <2> QED
    BY <1>12, <2>2, <2>3 DEF ceph_mkdir
<1>13. CASE OpenDirectoryStat(h)
  BY <1>3, <1>4, <1>13 DEF OpenDirectoryStat, At, Before, Places, InProgress
<1>14. CASE OpenDirectoryOpen(h)
  <2>1. H.pc \in Before
    BY <1>14 DEF OpenDirectoryOpen, At, Before
  <2>2. CASE Fail(h) /\ Same
    BY <1>4, <2>1, <2>2
  <2>3. CASE Exists(H.path)
    <3>1. PICK d \in FreeFd :
             /\ fds' = [fds EXCEPT ![d] = ns[H.path]]
             /\ handle' = [handle EXCEPT ![h] = [@ EXCEPT !.pc = "opened", !.fd = d]]
      BY <1>14, <2>3 DEF OpenDirectoryOpen
    <3> DEFINE r == [H EXCEPT !.pc = "opened", !.fd = d]
    <3>2. d \in Fd
      BY DEF FreeFd, Least
    <3>3. r \in HandleType
      BY <1>1, <3>2 DEF HandleType
    <3>4. r.fd = d /\ r.pc = "opened" /\ r.path = H.path
      BY <1>1 DEF HandleType
    <3>5. ns[H.path] \in Ino
      BY <1>2, <2>1, <2>3 DEF IInv, TypeOK, Exists
    <3>6. NamesTyped'
      BY <1>14, <2>3, SameIsTyped DEF OpenDirectoryOpen
    <3>7. handle' = [handle EXCEPT ![h] = r]
      BY <3>1
    <3> HIDE DEF r
    <3>8. InOrder(r)
      BY <1>2, <2>1, <3>4 DEF InOrder
    <3> QED
      BY <1>2, <2>1, <3>1, <3>3, <3>4, <3>5, <3>6, <3>7, <3>8, OpenStep
  <2> QED
    BY <1>14, <2>2, <2>3 DEF OpenDirectoryOpen
<1>15. CASE SetAllocationTruncate(h)
  <2> DEFINE r == [H EXCEPT !.pc = "opened", !.size = 0]
  <2>1. r \in HandleType
    <3>1. 0 \in 0..MaxData
      BY BoundsAssumption
    <3> HIDE DEF H
    <3> QED
      BY <1>1, <3>1 DEF HandleType
  <2>2. r.fd = H.fd /\ r.pc = "opened" /\ r.path = H.path /\ H.pc = "alloc"
    BY <1>1, <1>15 DEF HandleType, SetAllocationTruncate, At
  <2>3. H.size \in 0..MaxData
    BY <1>1 DEF HandleType
  <2>4. handle' = [handle EXCEPT ![h] = r] /\ fds' = fds /\ NamesTyped'
    BY <1>15, <2>3 DEF SetAllocationTruncate, IInv, TypeOK, NamesTyped
  <2> HIDE DEF r
  <2>5. InOrder(r)
    BY <1>1, <2>2 DEF InOrder
  <2> QED
    BY <2>1, <2>2, <2>4, <2>5, KeepStep
<1>16. CASE ceph_rename(h)
  <2>1. H.pc = "rename" /\ H.path \in Path /\ H.to \in Path
    BY <1>1, <1>16 DEF ceph_rename, At, InOrder
  <2>2. PICK q \in {H.path, H.to} :
           handle' = [handle EXCEPT ![h] =
              [@ EXCEPT !.pc = "opened", !.path = q, !.to = Root]]
    <3>1. [H EXCEPT !.pc = "opened", !.path = H.path, !.to = Root]
             = [H EXCEPT !.pc = "opened", !.to = Root]
      BY <1>1 DEF HandleType
    <3> QED
      BY <1>16, <3>1 DEF ceph_rename
  <2> DEFINE r == [H EXCEPT !.pc = "opened", !.path = q, !.to = Root]
  <2>3. r \in HandleType
    BY <1>1, <2>1 DEF HandleType
  <2>4. r.fd = H.fd /\ r.pc = "opened" /\ r.path = q
    BY <1>1 DEF HandleType
  <2>5. fds' = fds /\ NamesTyped'
    BY <1>16, <2>1 DEF ceph_rename, IInv, TypeOK, NamesTyped
  <2>6. handle' = [handle EXCEPT ![h] = r]
    BY <2>2
  <2> HIDE DEF r
  <2>7. InOrder(r)
    BY <2>1, <2>4 DEF InOrder
  <2> QED
    BY <2>3, <2>4, <2>5, <2>6, <2>7, KeepStep
<1>17. CASE CloseFileUnlink(h)
  <2>1. H.pc \in Before /\ Goto(h, "closed") /\ fds' = fds
    BY <1>17 DEF CloseFileUnlink, At, Before
  <2>2. NamesTyped'
    BY <1>17 DEF CloseFileUnlink, ceph_unlink, IInv, TypeOK, NamesTyped
  <2> QED
    BY <1>2, <2>1, <2>2, MoveOn DEF Places
<1> QED
  BY <1>5, <1>6, <1>7, <1>8, <1>9, <1>10, <1>11, <1>12, <1>13, <1>14, <1>15,
     <1>16, <1>17 DEF Continue

LEMMA RequestStep ==
    ASSUME IInv, NEW h \in Handle, Request(h)
    PROVE  IInv'
<1> DEFINE H == handle[h]
<1>1. H \in HandleType /\ InOrder(H)
  BY HandleFacts
<1>2. ASSUME UNCHANGED <<ns, kind, acl, fds, handle>>, data' \in [Ino -> 0..MaxData]
      PROVE  IInv'
  BY <1>2 DEF IInv, TypeOK, DescriptorsOwned, HasContext, NamesAPath, OpensOnce
<1>3. CASE WriteFile(h)
  <2>1. data' \in [Ino -> 0..MaxData]
    <3>1. OpenIno(h) \in Ino
      BY <1>1, <1>3 DEF WriteFile, HasContext, OpenIno, IInv, TypeOK,
                        DescriptorsOwned, HandleType
    <3>2. data[OpenIno(h)] + 1 \in 0..MaxData
      BY <1>3, <3>1, BoundsAssumption DEF WriteFile, IInv, TypeOK
    <3> QED
      BY <1>3, <3>1, <3>2 DEF WriteFile, IInv, TypeOK
  <2> QED
    BY <1>2, <1>3, <2>1 DEF WriteFile
<1>4. ASSUME NEW n \in 0..MaxData, SetEndOfFile(h, n)
      PROVE  IInv'
  BY <1>2, <1>4 DEF SetEndOfFile, IInv, TypeOK
<1>5. ASSUME NEW n \in 0..MaxData, SetAllocationSize(h, n)
      PROVE  IInv'
  <2> DEFINE r == [H EXCEPT !.pc = "alloc", !.size = n]
  <2>1. r \in HandleType
    BY <1>1 DEF HandleType, InProgress
  <2>2. r.fd = H.fd /\ r.pc = "alloc" /\ r.path = H.path /\ H.pc = "opened"
    BY <1>1, <1>5 DEF HandleType, SetAllocationSize, At
  <2>3. handle' = [handle EXCEPT ![h] = r] /\ fds' = fds /\ NamesTyped'
    BY <1>5, SameIsTyped DEF SetAllocationSize, Same
  <2> HIDE DEF r
  <2>4. InOrder(r)
    BY <1>1, <2>2 DEF InOrder
  <2> QED
    BY <2>1, <2>2, <2>3, <2>4, KeepStep
<1>6. CASE DeleteFile(h) \/ DeleteDirectory(h)
  <2> DEFINE r == [H EXCEPT !.DeleteOnClose = TRUE, !.authorised = TRUE]
  <2>1. r \in HandleType
    BY <1>1 DEF HandleType
  <2>2. r.fd = H.fd /\ r.pc = H.pc /\ r.path = H.path /\ r.to = H.to
    BY <1>1 DEF HandleType
  <2>3. handle' = [handle EXCEPT ![h] = r] /\ fds' = fds /\ NamesTyped'
    BY <1>6, SameIsTyped DEF DeleteFile, DeleteDirectory, Same
  <2> HIDE DEF r
  <2>4. InOrder(r)
    BY <1>1, <2>2 DEF InOrder
  <2> QED
    BY <2>1, <2>2, <2>3, <2>4, KeepStep
<1>7. ASSUME NEW q \in Path, NEW replace \in BOOLEAN, MoveFile(h, q, replace)
      PROVE  IInv'
  <2> DEFINE r == [H EXCEPT !.pc = "rename", !.to = q]
  <2>1. r \in HandleType
    BY <1>1 DEF HandleType, InProgress
  <2>2. /\ r.fd = H.fd /\ r.pc = "rename" /\ r.path = H.path /\ r.to = q
        /\ H.pc = "opened"
    BY <1>1, <1>7 DEF HandleType, MoveFile, At
  <2>3. handle' = [handle EXCEPT ![h] = r] /\ fds' = fds /\ NamesTyped'
    BY <1>7, SameIsTyped DEF MoveFile, Same
  <2> HIDE DEF r
  <2>4. InOrder(r)
    BY <1>1, <2>2 DEF InOrder
  <2> QED
    BY <2>1, <2>2, <2>3, <2>4, KeepStep
<1>8. CASE Cleanup(h)
  <2>1. H.pc = "opened" /\ Goto(h, "cleaned") /\ fds' = fds
    BY <1>8 DEF Cleanup, At
  <2>2. NamesTyped'
    BY <1>8 DEF Cleanup, ceph_rmdir, ceph_unlink, IInv, TypeOK, NamesTyped
  <2> QED
    BY <2>1, <2>2, MoveOn DEF Places
<1>9. CASE CloseFile(h)
  <2>1. PICK pc \in {"closing", "closed"} :
           handle' = [handle EXCEPT ![h] = [@ EXCEPT !.pc = pc, !.fd = NoFd]]
    BY <1>9 DEF CloseFile
  <2> DEFINE r == [H EXCEPT !.pc = pc, !.fd = NoFd]
  <2>2. r \in HandleType
    BY <1>1 DEF HandleType, InProgress
  <2>3. r.fd = NoFd /\ r.pc = pc /\ r.path = H.path /\ H.pc = "cleaned"
    BY <1>1, <1>9 DEF HandleType, CloseFile, At
  <2>4. NamesTyped'
    BY <1>9, SameIsTyped DEF CloseFile
  <2>5. handle' = [handle EXCEPT ![h] = r]
    BY <2>1
  <2>6. fds' = IF HasContext(h) THEN [fds EXCEPT ![handle[h].fd] = NoIno] ELSE fds
    BY <1>9 DEF CloseFile
  <2> HIDE DEF r
  <2>7. InOrder(r)
    BY <1>1, <2>3 DEF InOrder
  <2> QED
    BY <2>2, <2>3, <2>4, <2>5, <2>6, <2>7, CloseStep
<1> QED
  BY <1>3, <1>4, <1>5, <1>6, <1>7, <1>8, <1>9 DEF Request

LEMMA InitIInv == Init => IInv
<1> SUFFICES ASSUME Init PROVE IInv
  OBVIOUS
<1>1. TypeOK
  BY NewHandleTyped, BoundsAssumption DEF Init, Least, TypeOK
<1>2. \A h \in Handle : handle[h] = NewHandle
  BY DEF Init
<1>3. \A h \in Handle : handle[h].fd = NoFd /\ handle[h].pc = "none"
  BY <1>2 DEF NewHandle
<1>4. DescriptorsOwned
  BY <1>3 DEF Init, DescriptorsOwned, HasContext
<1> QED
  BY <1>1, <1>3, <1>4 DEF IInv, NamesAPath, OpensOnce

LEMMA NextIInv == IInv /\ [Next]_vars => IInv'
<1> SUFFICES ASSUME IInv, [Next]_vars PROVE IInv'
  OBVIOUS
<1>1. CASE UNCHANGED vars
  BY <1>1 DEF vars, IInv, TypeOK, DescriptorsOwned, HasContext, NamesAPath, OpensOnce
<1>2. CASE Next
  BY <1>2, StartStep, ContinueStep, RequestStep DEF Next
<1> QED
  BY <1>1, <1>2

(* The callbacks keep every field within its type, whatever they race      *)
(* with: WriteFile and the truncations never pass the largest size.        *)
THEOREM TypeCorrect == Spec => []TypeOK
<1>1. IInv => TypeOK
  BY DEF IInv
<1> QED
  BY InitIInv, NextIInv, <1>1, PTL DEF Spec

(* For any number of handles, workers and descriptors, a descriptor that   *)
(* libcephfs has open is in exactly one Context, whichever of the failing  *)
(* exits of CreateFile and OpenDirectory the callbacks take.               *)
THEOREM NoDescriptorLeaks == Spec => []DescriptorsOwned
<1>1. IInv => DescriptorsOwned
  BY DEF IInv
<1> QED
  BY InitIInv, NextIInv, <1>1, PTL DEF Spec
=============================================================================
