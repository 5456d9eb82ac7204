-------------------------- MODULE DokanFilesProof ---------------------------
(***************************************************************************)
(* What the callbacks do to files, for any handles, names, inodes and      *)
(* workers: a CreateFile makes what it says, and nothing is truncated or   *)
(* deleted that nobody asked for.                                          *)
(***************************************************************************)
EXTENDS DokanProof

(* The places of a callback before its ceph_open or ceph_mkdir. *)
Begun == {"none", "stat", "create", "attr", "open", "trunc", "dstat", "dopen", "mkstat", "mkdir"}

(* A handle that is to be deleted by Cleanup or CloseFile was asked about  *)
(* or opened for that.                                                     *)
Asked(r) ==
    /\ r.DeleteOnClose => r.authorised
    /\ r.pc = "closing" => r.delete_on_close

(* The way a disposition takes through CreateFile; directories have none.  *)
Disposed(r) ==
    /\ r.pc \in Begun => ~r.born
    /\ r.pc \in {"none", "dstat", "dopen", "mkstat", "mkdir"} => r.disp = "none"
    /\ r.pc = "trunc" => r.disp \in {"CREATE_ALWAYS", "TRUNCATE_EXISTING"}
    /\ r.pc \in {"attr", "open"} => r.disp # "CREATE_NEW"
    /\ r.pc \in {"chown", "opened", "alloc", "rename"} /\ r.disp = "CREATE_NEW" => r.born

(* Inodes that have a name or a descriptor are not free. *)
InodesInUse ==
    /\ \A p \in Path : ns[p] # NoIno => kind[ns[p]] # "none"
    /\ \A d \in Fd : fds[d] # NoIno => kind[fds[d]] # "none"

(* Without moves, a file that h has made and that still has its name has   *)
(* its ACL, not only when the request returns but as long as it is open.   *)
HasAcl(h) ==
    /\ handle[h].pc # "rename"
    /\ (/\ handle[h].pc \in {"opened", "alloc"}
        /\ HasContext(h)
        /\ handle[h].born /\ handle[h].disp \notin {"CREATE_ALWAYS", "TRUNCATE_EXISTING"}
        /\ ns[handle[h].path] = OpenIno(h))
       => acl[OpenIno(h)]

FInv ==
    /\ IInv
    /\ \A h \in Handle : Asked(handle[h]) /\ Disposed(handle[h])
    /\ InodesInUse
    /\ use.moves = {} => \A h \in Handle : HasAcl(h)

(* What a step of h leaves alone: ACLs stay, a name gets at most a free    *)
(* inode, and of the descriptors in use only its own changes.              *)
Frame(h) ==
    /\ \A i \in Ino : acl[i] => acl'[i]
    /\ \A p \in Path : ns'[p] \in {ns[p], NoIno} \/ kind[ns'[p]] = "none"
    /\ \A d \in Fd : d = handle[h].fd \/ fds[d] = NoIno \/ fds'[d] = fds[d]

LEMMA OthersKeepAcl ==
    ASSUME FInv, NEW h \in Handle, NEW g \in Handle, g # h, handle'[g] = handle[g],
           Frame(h), HasAcl(g)
    PROVE  HasAcl(g)'
<1> SUFFICES ASSUME HasContext(g), handle[g].pc \in {"opened", "alloc"}, handle[g].born,
                    handle[g].disp \notin {"CREATE_ALWAYS", "TRUNCATE_EXISTING"},
                    ns'[handle[g].path] = OpenIno(g)'
             PROVE  acl'[OpenIno(g)']
  BY DEF HasAcl, HasContext
<1>1. handle[g].path \in Path /\ handle[g].fd \in Fd
  BY HandleFacts DEF FInv, InOrder, HandleType, HasContext
<1>2. OpenIno(g) # NoIno /\ OpenIno(g) \in Ino /\ handle[g].fd # handle[h].fd
  BY <1>1 DEF FInv, IInv, TypeOK, DescriptorsOwned, OpenIno
<1>3. OpenIno(g)' = OpenIno(g)
  BY <1>1, <1>2 DEF Frame, OpenIno
<1>4. ns[handle[g].path] = OpenIno(g)
  BY <1>1, <1>2, <1>3 DEF Frame, FInv, InodesInUse, OpenIno
<1> QED
  BY <1>2, <1>3, <1>4 DEF HasAcl, Frame

(* A step of h that leaves h in r. *)
LEMMA FilesStep ==
    ASSUME FInv, IInv', NEW h \in Handle, NEW r, handle' = [handle EXCEPT ![h] = r],
           use' = use, Asked(r), Disposed(r), InodesInUse',
           use.moves = {} => Frame(h) /\ HasAcl(h)'
    PROVE  FInv'
<1>1. \A g \in Handle : handle'[g] = IF g = h THEN r ELSE handle[g]
  BY DEF FInv, IInv, TypeOK
<1>2. \A g \in Handle : Asked(handle'[g]) /\ Disposed(handle'[g])
  BY <1>1 DEF FInv
<1>3. use.moves = {} => \A g \in Handle : HasAcl(g)'
  BY <1>1, OthersKeepAcl DEF FInv
<1> QED
  BY <1>2, <1>3 DEF FInv

(* One that leaves the name space and the descriptors in use alone, and    *)
(* leaves h without a file that it made, or with the one it had.           *)
LEMMA QuietStep ==
    ASSUME FInv, IInv', NEW h \in Handle, NEW r, handle' = [handle EXCEPT ![h] = r],
           use' = use, Asked(r), Disposed(r), UNCHANGED <<ns, kind, acl, fds>>,
           \/ r.pc \notin {"opened", "alloc", "rename"}
           \/ r.fd = NoFd /\ r.pc # "rename"
           \/ /\ r.pc \in {"opened", "alloc"} /\ handle[h].pc \in {"opened", "alloc"}
              /\ r.fd = handle[h].fd /\ r.born = handle[h].born
              /\ r.disp = handle[h].disp /\ r.path = handle[h].path
           \/ use.moves # {}
    PROVE  FInv'
<1>1. handle'[h] = r
  BY DEF FInv, IInv, TypeOK
<1>2. InodesInUse' /\ Frame(h)
  BY DEF FInv, InodesInUse, Frame
<1>3. use.moves = {} => HasAcl(h)'
  BY <1>1 DEF FInv, HasAcl, HasContext, OpenIno
<1> QED
  BY <1>2, <1>3, FilesStep

-----------------------------------------------------------------------------
(* The steps that actions share. *)

LEMMA FileFacts ==
    ASSUME FInv, NEW h \in Handle
    PROVE  /\ handle[h] \in HandleType /\ InOrder(handle[h])
           /\ Asked(handle[h]) /\ Disposed(handle[h])
BY HandleFacts DEF FInv

LEMMA FailsQuietly ==
    ASSUME FInv, IInv', NEW h \in Handle, use' = use, Fail(h), Same
    PROVE  FInv'
<1> DEFINE r == [NewHandle EXCEPT !.pc = "closed"]
<1>1. r.pc = "closed" /\ r.DeleteOnClose = FALSE
  BY DEF NewHandle
<1>2. handle' = [handle EXCEPT ![h] = r]
  BY DEF Fail
<1> HIDE DEF r
<1>3. Asked(r) /\ Disposed(r)
  BY <1>1 DEF Asked, Disposed, Begun
<1> QED
  BY <1>1, <1>2, <1>3, QuietStep DEF Same

(* A callback goes on to its next place, without a descriptor. *)
LEMMA GoesOn ==
    ASSUME FInv, IInv', NEW h \in Handle, use' = use, NEW pc, Goto(h, pc),
           UNCHANGED <<ns, kind, acl, fds>>,
           pc \notin {"closing", "rename", "opened", "alloc"},
           Disposed([handle[h] EXCEPT !.pc = pc])
    PROVE  FInv'
<1> DEFINE r == [handle[h] EXCEPT !.pc = pc]
<1>1. r.pc = pc /\ r.DeleteOnClose = handle[h].DeleteOnClose /\ r.authorised = handle[h].authorised
  BY FileFacts DEF HandleType
<1>2. handle' = [handle EXCEPT ![h] = r]
  BY DEF Goto
<1>3. Disposed(r)
  OBVIOUS
<1> HIDE DEF r
<1>4. Asked(r)
  BY <1>1, FileFacts DEF Asked
<1> QED
  BY <1>1, <1>2, <1>3, <1>4, QuietStep

LEMMA OpensSoundly ==
    ASSUME FInv, IInv', NEW h \in Handle, use' = use, handle[h].pc \in {"open", "trunc", "create"},
           NEW create \in BOOLEAN, NEW next \in {"opened", "chown"}, ceph_open(h, create, next),
           handle[h].pc = "open" => ~create, handle[h].pc = "create" => next = "chown" /\ create
    PROVE  FInv'
<1> DEFINE H == handle[h]
           p == H.path
           r(d, new) == [handle[h] EXCEPT !.pc = next, !.fd = d, !.born = new]
<1>1. /\ H \in HandleType /\ InOrder(H) /\ Asked(H) /\ Disposed(H)
      /\ p \in Path /\ H.fd = NoFd
  BY FileFacts DEF InOrder
<1>2. ASSUME NEW d \in FreeFd, NEW new \in BOOLEAN, H.disp = "CREATE_NEW" => new
      PROVE  /\ r(d, new).pc = next /\ r(d, new).fd = d /\ r(d, new).born = new
             /\ r(d, new).disp = H.disp /\ Asked(r(d, new)) /\ Disposed(r(d, new))
  <2>1. /\ r(d, new).pc = next /\ r(d, new).fd = d /\ r(d, new).born = new
        /\ r(d, new).disp = H.disp /\ r(d, new).DeleteOnClose = H.DeleteOnClose
        /\ r(d, new).authorised = H.authorised
    BY <1>1 DEF HandleType
  <2> HIDE DEF r, H
  <2> QED
    BY <1>1, <1>2, <2>1 DEF Asked, Disposed, Begun
<1>3. CASE Fail(h) /\ Same
  BY <1>3, FailsQuietly
<1>4. CASE /\ Exists(p) /\ ~(create /\ Exclusive(H.disp))
           /\ \E d \in FreeFd :
                 /\ fds' = [fds EXCEPT ![d] = ns[p]]
                 /\ handle' = [handle EXCEPT ![h] = r(d, FALSE)]
           /\ UNCHANGED <<ns, kind, acl>>
  <2>1. PICK d \in FreeFd : /\ fds' = [fds EXCEPT ![d] = ns[p]]
                            /\ handle' = [handle EXCEPT ![h] = r(d, FALSE)]
    BY <1>4
  <2>2. d \in Fd /\ fds[d] = NoIno /\ ns[p] # NoIno
    BY <1>4 DEF FreeFd, Least, Exists
  <2>3. InodesInUse' /\ Frame(h)
    BY <1>1, <1>4, <2>1, <2>2 DEF FInv, IInv, TypeOK, InodesInUse, Frame
  <2>4. H.disp # "CREATE_NEW"
    BY <1>1, <1>4 DEF Disposed, Exclusive
  <2>5. handle'[h] = r(d, FALSE)
    BY <2>1 DEF FInv, IInv, TypeOK
  <2> HIDE DEF r, H, p
  <2>6. handle'[h].pc = next /\ handle'[h].born = FALSE
    BY <1>2, <2>4, <2>5
  <2>7. HasAcl(h)'
    BY <2>6 DEF HasAcl
  <2> QED
    BY <1>2, <2>1, <2>3, <2>4, <2>7, FilesStep
<1>5. CASE /\ create
           /\ \E d \in FreeFd, i \in FreeIno :
                 /\ ns' = [ns EXCEPT ![p] = i]
                 /\ kind' = [kind EXCEPT ![i] = "file"]
                 /\ fds' = [fds EXCEPT ![d] = i]
                 /\ handle' = [handle EXCEPT ![h] = r(d, TRUE)]
           /\ UNCHANGED acl
  <2>1. PICK d \in FreeFd, i \in FreeIno :
           /\ ns' = [ns EXCEPT ![p] = i]
           /\ kind' = [kind EXCEPT ![i] = "file"]
           /\ fds' = [fds EXCEPT ![d] = i]
           /\ handle' = [handle EXCEPT ![h] = r(d, TRUE)]
    BY <1>5
  <2>2. d \in Fd /\ fds[d] = NoIno /\ i \in Ino /\ kind[i] = "none"
    BY DEF FreeFd, FreeIno, Least
  <2>3. InodesInUse'
    BY <1>1, <2>1, <2>2 DEF FInv, IInv, TypeOK, InodesInUse
  <2>4. Frame(h)
    BY <1>1, <1>5, <2>1, <2>2 DEF FInv, IInv, TypeOK, Frame
  <2>5. handle'[h] = r(d, TRUE)
    BY <2>1 DEF FInv, IInv, TypeOK
  <2>6. next = "opened" => H.disp \in {"CREATE_ALWAYS", "TRUNCATE_EXISTING"}
    BY <1>1, <1>5 DEF Disposed
  <2> HIDE DEF r, H, p
  <2>7. handle'[h].pc = next /\ handle'[h].disp = H.disp
    BY <1>2, <2>5
  <2>8. HasAcl(h)'
    BY <2>6, <2>7 DEF HasAcl
  <2> QED
    BY <1>2, <2>1, <2>3, <2>4, <2>8, FilesStep
<1> QED
  BY <1>3, <1>4, <1>5 DEF ceph_open

-----------------------------------------------------------------------------
(* One lemma for each group of actions. *)

LEMMA StartKeepsFiles ==
    ASSUME FInv, IInv', NEW h \in Handle, Start(h)
    PROVE  FInv'
<1>1. /\ handle[h] \in HandleType /\ Asked(handle[h]) /\ Disposed(handle[h]) /\ use' = use
  BY FileFacts DEF Start
<1>2. ASSUME NEW p \in Path, NEW d \in Disposition, NEW w \in BOOLEAN,
             NEW del \in BOOLEAN, CreateFile(h, p, d, w, del)
      PROVE  FInv'
  <2> DEFINE r == [handle[h] EXCEPT !.pc = "stat", !.path = p, !.disp = d,
                                    !.write = w, !.delete_on_close = del]
  <2>1. /\ r.pc = "stat" /\ r.born = handle[h].born
        /\ r.DeleteOnClose = handle[h].DeleteOnClose /\ r.authorised = handle[h].authorised
    BY <1>1 DEF HandleType
  <2>2. handle' = [handle EXCEPT ![h] = r] /\ Same /\ handle[h].pc = "none"
    BY <1>2 DEF CreateFile, At
  <2> HIDE DEF r
  <2>3. Asked(r) /\ Disposed(r)
    BY <1>1, <2>1, <2>2 DEF Asked, Disposed, Begun
  <2> QED
    BY <1>1, <2>1, <2>2, <2>3, QuietStep DEF Same
<1>3. ASSUME NEW p \in Path, NEW pc \in {"mkstat", "dstat"}, handle[h].pc = "none", Same,
             handle' = [handle EXCEPT ![h] =
                [@ EXCEPT !.pc = pc, !.path = p, !.IsDirectory = TRUE]]
      PROVE  FInv'
  <2> DEFINE r == [handle[h] EXCEPT !.pc = pc, !.path = p, !.IsDirectory = TRUE]
  <2>1. /\ r.pc = pc /\ r.born = handle[h].born /\ r.disp = handle[h].disp
        /\ r.DeleteOnClose = handle[h].DeleteOnClose /\ r.authorised = handle[h].authorised
    BY <1>1 DEF HandleType
  <2>2. handle' = [handle EXCEPT ![h] = r]
    BY <1>3
  <2> HIDE DEF r
  <2>3. Asked(r) /\ Disposed(r)
    BY <1>1, <1>3, <2>1 DEF Asked, Disposed, Begun
  <2> QED
    BY <1>1, <1>3, <2>1, <2>2, <2>3, QuietStep DEF Same
<1>4. ASSUME NEW p \in Path, CreateDirectory(h, p)
      PROVE  FInv'
  BY <1>1, <1>3, <1>4, FailsQuietly DEF CreateDirectory, At
<1>5. ASSUME NEW p \in Path, OpenDirectory(h, p)
      PROVE  FInv'
  BY <1>3, <1>5 DEF OpenDirectory, At
<1> QED
  BY <1>2, <1>4, <1>5 DEF Start

LEMMA ContinueKeepsFiles ==
    ASSUME FInv, IInv', NEW h \in Handle, Continue(h)
    PROVE  FInv'
<1> DEFINE H == handle[h]
<1>1. /\ H \in HandleType /\ InOrder(H) /\ Asked(H) /\ Disposed(H) /\ use' = use
  BY FileFacts DEF Continue
<1>2. ASSUME NEW pc
      PROVE  /\ [H EXCEPT !.pc = pc].pc = pc /\ [H EXCEPT !.pc = pc].disp = H.disp
             /\ [H EXCEPT !.pc = pc].born = H.born
  BY <1>1 DEF HandleType
<1>3. ASSUME NEW pc \in Begun \ {"none"}, H.pc \in Begun, Goto(h, pc), Same,
             pc \in {"dstat", "dopen", "mkstat", "mkdir"} => H.disp = "none",
             pc = "trunc" => H.disp \in {"CREATE_ALWAYS", "TRUNCATE_EXISTING"},
             pc \in {"attr", "open"} => H.disp # "CREATE_NEW"
      PROVE  FInv'
  <2>1. Disposed([H EXCEPT !.pc = pc])
    BY <1>1, <1>2, <1>3 DEF Disposed, Begun
  <2>2. pc \notin {"closing", "rename", "opened", "alloc"}
    BY <1>3 DEF Begun
  <2> QED
    BY <1>1, <1>3, <2>1, <2>2, GoesOn DEF Same
<1>4. CASE CreateFileStat(h)
  <2>1. H.pc = "stat" /\ H.pc \in Begun /\ Same
    BY <1>4 DEF CreateFileStat, At, Begun
  <2>2. CASE /\ H.disp # "CREATE_NEW"
             /\ handle' = [handle EXCEPT ![h] =
                   [@ EXCEPT !.pc = "opened", !.delete_on_close = FALSE]]
    <3> DEFINE r == [H EXCEPT !.pc = "opened", !.delete_on_close = FALSE]
    <3>1. /\ r.pc = "opened" /\ r.fd = NoFd /\ r.disp = H.disp
          /\ r.DeleteOnClose = H.DeleteOnClose /\ r.authorised = H.authorised
      BY <1>1, <2>1 DEF HandleType, InOrder
    <3>2. handle' = [handle EXCEPT ![h] = r]
      BY <2>2
    <3> HIDE DEF r
    <3>3. Asked(r) /\ Disposed(r)
      BY <1>1, <2>2, <3>1 DEF Asked, Disposed, Begun
    <3> QED
      BY <1>1, <2>1, <3>1, <3>2, <3>3, QuietStep DEF Same
  <2>3. CASE \/ Goto(h, "trunc") /\ H.disp \in {"TRUNCATE_EXISTING", "CREATE_ALWAYS"}
             \/ H.disp \in {"OPEN_ALWAYS", "OPEN_EXISTING"} /\ (Goto(h, "attr") \/ Goto(h, "open"))
             \/ Goto(h, "create")
    BY <1>3, <2>1, <2>3 DEF Begun
  <2>4. CASE Fail(h)
    BY <1>1, <2>1, <2>4, FailsQuietly
  <2> QED
    BY <1>4, <2>2, <2>3, <2>4 DEF CreateFileStat
<1>5. CASE QueryAttributes(h)
  <2>1. H.pc = "attr" /\ H.pc \in Begun /\ Same
    BY <1>5 DEF QueryAttributes, At, Begun
  <2>2. CASE handle' = [handle EXCEPT ![h] =
                [@ EXCEPT !.pc = "open", !.read_only = TRUE]]
    <3> DEFINE r == [H EXCEPT !.pc = "open", !.read_only = TRUE]
    <3>1. /\ r.pc = "open" /\ r.disp = H.disp /\ r.born = H.born
          /\ r.DeleteOnClose = H.DeleteOnClose /\ r.authorised = H.authorised
      BY <1>1 DEF HandleType
    <3>2. handle' = [handle EXCEPT ![h] = r]
      BY <2>2
    <3> HIDE DEF r
    <3>3. Asked(r) /\ Disposed(r)
      BY <1>1, <2>1, <3>1 DEF Asked, Disposed, Begun
    <3> QED
      BY <1>1, <2>1, <3>1, <3>2, <3>3, QuietStep DEF Same
  <2>3. CASE Goto(h, "open")
    BY <1>1, <1>3, <2>1, <2>3 DEF Begun, Disposed
  <2>4. CASE Fail(h)
    BY <1>1, <2>1, <2>4, FailsQuietly
  <2> QED
    BY <1>5, <2>2, <2>3, <2>4 DEF QueryAttributes
<1>6. CASE OpenExisting(h)
  BY <1>1, <1>6, FailsQuietly, OpensSoundly DEF OpenExisting, At
<1>7. CASE OpenTruncate(h)
  BY <1>1, <1>7, FailsQuietly, OpensSoundly DEF OpenTruncate, At
<1>8. CASE OpenCreate(h)
  BY <1>1, <1>8, FailsQuietly, OpensSoundly DEF OpenCreate, At
<1>9. CASE OpenChown(h)
  <2> DEFINE r == [H EXCEPT !.pc = "opened"]
  <2>1. /\ r.pc = "opened" /\ r.disp = H.disp /\ r.born = H.born /\ H.pc = "chown"
        /\ r.fd = H.fd /\ r.path = H.path /\ H.path \in Path
        /\ r.DeleteOnClose = H.DeleteOnClose /\ r.authorised = H.authorised
    BY <1>1, <1>9 DEF HandleType, OpenChown, At, InOrder
  <2>2. /\ handle' = [handle EXCEPT ![h] = r] /\ UNCHANGED <<ns, kind, fds>>
        /\ acl' = IF Exists(H.path) THEN [acl EXCEPT ![ns[H.path]] = TRUE] ELSE acl
    BY <1>9 DEF OpenChown, InitAcl, Goto
  <2>3. handle'[h] = r
    BY <2>2 DEF FInv, IInv, TypeOK
  <2> HIDE DEF r
  <2>4. Asked(r) /\ Disposed(r)
    BY <1>1, <2>1 DEF Asked, Disposed, Begun
  <2>5. InodesInUse' /\ Frame(h)
    BY <2>1, <2>2 DEF FInv, IInv, TypeOK, InodesInUse, Frame, Exists
  <2>6. HasAcl(h)'
    <3> SUFFICES ASSUME HasContext(h)', ns'[H.path] = OpenIno(h)'
                 PROVE  acl'[OpenIno(h)']
      BY <2>1, <2>3 DEF HasAcl
    <3>1. OpenIno(h)' = ns[H.path] /\ ns[H.path] \in Ino
      <4>1. H.fd # NoFd
        BY <2>1, <2>3 DEF HasContext
      <4>2. OpenIno(h)' = fds[H.fd] /\ ns[H.path] = OpenIno(h)'
        BY <2>1, <2>2, <2>3 DEF OpenIno
      <4>3. fds[H.fd] # NoIno
        BY <4>1 DEF FInv, IInv, DescriptorsOwned, HasContext
      <4>4. ns[H.path] \in Ino \cup {NoIno}
        BY <2>1 DEF FInv, IInv, TypeOK
      <4> QED
        BY <4>2, <4>3, <4>4
    <3>2. Exists(H.path)
      BY <3>1, InoAssumption DEF Exists
    <3>3. acl' = [acl EXCEPT ![ns[H.path]] = TRUE]
      BY <2>2, <3>2
    <3> QED
      BY <3>1, <3>3 DEF FInv, IInv, TypeOK
  <2> QED
    BY <1>1, <2>2, <2>4, <2>5, <2>6, FilesStep
<1>10. CASE CreateDirectoryStat(h)
  BY <1>1, <1>3, <1>10, FailsQuietly DEF CreateDirectoryStat, At, Begun, Disposed
<1>11. CASE ceph_mkdir(h)
  <2>1. CASE Fail(h) /\ Same
    BY <1>1, <2>1, FailsQuietly
  <2>2. CASE /\ \E i \in FreeIno :
                   /\ ns' = [ns EXCEPT ![H.path] = i]
                   /\ kind' = [kind EXCEPT ![i] = "dir"]
             /\ handle' = [handle EXCEPT ![h] = [@ EXCEPT !.pc = "chown", !.born = TRUE]]
             /\ UNCHANGED <<data, acl, fds>>
    <3> DEFINE r == [H EXCEPT !.pc = "chown", !.born = TRUE]
    <3>1. /\ r.pc = "chown" /\ r.disp = H.disp /\ r.born = TRUE /\ H.pc = "mkdir" /\ H.path \in Path
          /\ r.DeleteOnClose = H.DeleteOnClose /\ r.authorised = H.authorised
      BY <1>1, <1>11 DEF HandleType, ceph_mkdir, At, InOrder
    <3>2. PICK i \in FreeIno :
                   /\ ns' = [ns EXCEPT ![H.path] = i]
                   /\ kind' = [kind EXCEPT ![i] = "dir"]
      BY <2>2
    <3>3. i \in Ino /\ kind[i] = "none"
      BY DEF FreeIno, Least
    <3>4. handle' = [handle EXCEPT ![h] = r] /\ handle'[h] = r
      BY <2>2 DEF FInv, IInv, TypeOK
    <3> HIDE DEF r
    <3>5. Asked(r) /\ Disposed(r)
      BY <1>1, <3>1 DEF Asked, Disposed, Begun
    <3>6. InodesInUse' /\ Frame(h)
      BY <2>2, <3>1, <3>2, <3>3 DEF FInv, IInv, TypeOK, InodesInUse, Frame
    <3>7. HasAcl(h)'
      BY <3>1, <3>4 DEF HasAcl
    <3> QED
      BY <1>1, <3>4, <3>5, <3>6, <3>7, FilesStep
  <2> QED
    BY <1>11, <2>1, <2>2 DEF ceph_mkdir
<1>12. CASE OpenDirectoryStat(h)
  BY <1>1, <1>3, <1>12, FailsQuietly DEF OpenDirectoryStat, At, Begun, Disposed
<1>13. CASE OpenDirectoryOpen(h)
  <2>1. CASE Fail(h) /\ Same
    BY <1>1, <2>1, FailsQuietly
  <2>2. CASE Exists(H.path)
    <3>1. PICK d \in FreeFd :
             /\ fds' = [fds EXCEPT ![d] = ns[H.path]]
             /\ handle' = [handle EXCEPT ![h] = [@ EXCEPT !.pc = "opened", !.fd = d]]
      BY <1>13, <2>2 DEF OpenDirectoryOpen
    <3> DEFINE r == [H EXCEPT !.pc = "opened", !.fd = d]
    <3>2. /\ r.pc = "opened" /\ r.disp = H.disp /\ r.born = H.born /\ H.pc = "dopen" /\ H.path \in Path
          /\ r.DeleteOnClose = H.DeleteOnClose /\ r.authorised = H.authorised
      BY <1>1, <1>13 DEF HandleType, OpenDirectoryOpen, At, InOrder
    <3>3. d \in Fd /\ fds[d] = NoIno /\ UNCHANGED <<ns, kind, acl>>
      BY <1>13, <2>2 DEF FreeFd, Least, OpenDirectoryOpen
    <3>4. handle' = [handle EXCEPT ![h] = r] /\ handle'[h] = r
      BY <3>1 DEF FInv, IInv, TypeOK
    <3> HIDE DEF r
    <3>5. Asked(r) /\ Disposed(r) /\ ~r.born
      BY <1>1, <3>2 DEF Asked, Disposed, Begun
    <3>6. InodesInUse' /\ Frame(h)
      BY <2>2, <3>1, <3>2, <3>3 DEF FInv, IInv, TypeOK, InodesInUse, Frame, Exists
    <3>7. HasAcl(h)'
      BY <3>2, <3>4, <3>5 DEF HasAcl
    <3> QED
      BY <1>1, <3>4, <3>5, <3>6, <3>7, FilesStep
  <2> QED
    BY <1>13, <2>1, <2>2 DEF OpenDirectoryOpen
<1>14. CASE SetAllocationTruncate(h)
  <2> DEFINE r == [H EXCEPT !.pc = "opened", !.size = 0]
  <2>1. /\ r.pc = "opened" /\ r.disp = H.disp /\ r.born = H.born /\ H.pc = "alloc"
        /\ r.fd = H.fd /\ r.path = H.path
        /\ r.DeleteOnClose = H.DeleteOnClose /\ r.authorised = H.authorised
    BY <1>1, <1>14 DEF HandleType, SetAllocationTruncate, At
  <2>2. handle' = [handle EXCEPT ![h] = r] /\ UNCHANGED <<ns, kind, acl, fds>>
    BY <1>14 DEF SetAllocationTruncate
  <2> HIDE DEF r
  <2>3. Asked(r) /\ Disposed(r)
    BY <1>1, <2>1 DEF Asked, Disposed, Begun
  <2> QED
    BY <1>1, <2>1, <2>2, <2>3, QuietStep
<1>15. CASE ceph_rename(h)
  <2>1. H.pc = "rename" /\ H.path \in Path /\ H.to \in Path /\ UNCHANGED <<kind, acl, fds>>
    BY <1>1, <1>15 DEF ceph_rename, At, InOrder
  <2>2. use.moves # {}
    BY <2>1 DEF FInv, HasAcl
  <2>3. PICK q \in {H.path, H.to} :
           handle' = [handle EXCEPT ![h] =
              [@ EXCEPT !.pc = "opened", !.path = q, !.to = Root]]
    <3>1. [H EXCEPT !.pc = "opened", !.path = H.path, !.to = Root]
             = [H EXCEPT !.pc = "opened", !.to = Root]
      BY <1>1 DEF HandleType
    <3> QED
      BY <1>15, <3>1 DEF ceph_rename
  <2> DEFINE r == [H EXCEPT !.pc = "opened", !.path = q, !.to = Root]
  <2>4. /\ r.pc = "opened" /\ r.disp = H.disp /\ r.born = H.born
        /\ r.DeleteOnClose = H.DeleteOnClose /\ r.authorised = H.authorised
    BY <1>1 DEF HandleType
  <2>5. InodesInUse'
    BY <1>15, <2>1 DEF ceph_rename, FInv, IInv, TypeOK, InodesInUse
  <2>6. handle' = [handle EXCEPT ![h] = r]
    BY <2>3
  <2> HIDE DEF r
  <2>7. Asked(r) /\ Disposed(r)
    BY <1>1, <2>1, <2>4 DEF Asked, Disposed, Begun
  <2> QED
    BY <1>1, <2>2, <2>5, <2>6, <2>7, FilesStep
<1>16. CASE CloseFileUnlink(h)
  <2> DEFINE r == [H EXCEPT !.pc = "closed"]
  <2>1. /\ r.pc = "closed" /\ H.path \in Path
        /\ r.DeleteOnClose = H.DeleteOnClose /\ r.authorised = H.authorised
    BY <1>1, <1>16 DEF HandleType, CloseFileUnlink, At, InOrder
  <2>2. handle' = [handle EXCEPT ![h] = r] /\ handle'[h] = r
    BY <1>16 DEF CloseFileUnlink, Goto, FInv, IInv, TypeOK
  <2> HIDE DEF r
  <2>3. Asked(r) /\ Disposed(r)
    BY <1>1, <2>1 DEF Asked, Disposed, Begun
  <2>4. InodesInUse' /\ Frame(h)
    BY <1>16, <2>1 DEF CloseFileUnlink, ceph_unlink, FInv, IInv, TypeOK, InodesInUse, Frame
  <2>5. HasAcl(h)'
    BY <2>1, <2>2 DEF HasAcl
  <2> QED
    BY <1>1, <2>2, <2>3, <2>4, <2>5, FilesStep
<1> QED
  BY <1>4, <1>5, <1>6, <1>7, <1>8, <1>9, <1>10, <1>11, <1>12, <1>13, <1>14,
     <1>15, <1>16 DEF Continue

LEMMA RequestKeepsFiles ==
    ASSUME FInv, IInv', NEW h \in Handle, Request(h)
    PROVE  FInv'
<1> DEFINE H == handle[h]
<1>1. /\ H \in HandleType /\ InOrder(H) /\ Asked(H) /\ Disposed(H) /\ use' = use
  BY FileFacts DEF Request
<1>2. ASSUME UNCHANGED <<ns, kind, acl, fds, handle>>
      PROVE  FInv'
  BY <1>1, <1>2 DEF FInv, InodesInUse, HasAcl, HasContext, OpenIno
<1>3. CASE WriteFile(h) \/ \E n \in 0..MaxData : SetEndOfFile(h, n)
  BY <1>2, <1>3 DEF WriteFile, SetEndOfFile
<1>4. ASSUME NEW n \in 0..MaxData, SetAllocationSize(h, n)
      PROVE  FInv'
  <2> DEFINE r == [H EXCEPT !.pc = "alloc", !.size = n]
  <2>1. /\ r.pc = "alloc" /\ r.disp = H.disp /\ r.born = H.born /\ H.pc = "opened"
        /\ r.fd = H.fd /\ r.path = H.path
        /\ r.DeleteOnClose = H.DeleteOnClose /\ r.authorised = H.authorised
    BY <1>1, <1>4 DEF HandleType, SetAllocationSize, At
  <2>2. handle' = [handle EXCEPT ![h] = r] /\ Same
    BY <1>4 DEF SetAllocationSize
  <2> HIDE DEF r
  <2>3. Asked(r) /\ Disposed(r)
    BY <1>1, <2>1 DEF Asked, Disposed, Begun
  <2> QED
    BY <1>1, <2>1, <2>2, <2>3, QuietStep DEF Same
<1>5. CASE DeleteFile(h) \/ DeleteDirectory(h)
  <2> DEFINE r == [H EXCEPT !.DeleteOnClose = TRUE, !.authorised = TRUE]
  <2>1. /\ r.pc = "opened" /\ r.disp = H.disp /\ r.born = H.born /\ H.pc = "opened"
        /\ r.fd = H.fd /\ r.path = H.path /\ r.authorised = TRUE
    BY <1>1, <1>5 DEF HandleType, DeleteFile, DeleteDirectory, At
  <2>2. handle' = [handle EXCEPT ![h] = r] /\ Same
    BY <1>5 DEF DeleteFile, DeleteDirectory
  <2> HIDE DEF r
  <2>3. Asked(r) /\ Disposed(r)
    BY <1>1, <2>1 DEF Asked, Disposed, Begun
  <2> QED
    BY <1>1, <2>1, <2>2, <2>3, QuietStep DEF Same
<1>6. ASSUME NEW q \in Path, NEW replace \in use.moves, MoveFile(h, q, replace)
      PROVE  FInv'
  <2> DEFINE r == [H EXCEPT !.pc = "rename", !.to = q]
  <2>1. /\ r.pc = "rename" /\ r.disp = H.disp /\ r.born = H.born /\ H.pc = "opened"
        /\ r.DeleteOnClose = H.DeleteOnClose /\ r.authorised = H.authorised
    BY <1>1, <1>6 DEF HandleType, MoveFile, At
  <2>2. handle' = [handle EXCEPT ![h] = r] /\ Same
    BY <1>6 DEF MoveFile
  <2>3. use.moves # {}
    OBVIOUS
  <2> HIDE DEF r
  <2>4. Asked(r) /\ Disposed(r)
    BY <1>1, <2>1 DEF Asked, Disposed, Begun
  <2> QED
    BY <1>1, <2>2, <2>3, <2>4, QuietStep DEF Same
<1>7. CASE Cleanup(h)
  <2> DEFINE r == [H EXCEPT !.pc = "cleaned"]
  <2>1. /\ r.pc = "cleaned" /\ H.path \in Path
        /\ r.DeleteOnClose = H.DeleteOnClose /\ r.authorised = H.authorised
    BY <1>1, <1>7 DEF HandleType, Cleanup, At, InOrder
  <2>2. handle' = [handle EXCEPT ![h] = r] /\ handle'[h] = r
    BY <1>7 DEF Cleanup, Goto, FInv, IInv, TypeOK
  <2> HIDE DEF r
  <2>3. Asked(r) /\ Disposed(r)
    BY <1>1, <2>1 DEF Asked, Disposed, Begun
  <2>4. InodesInUse' /\ Frame(h)
    BY <1>7, <2>1 DEF Cleanup, ceph_rmdir, ceph_unlink, FInv, IInv, TypeOK, InodesInUse, Frame
  <2>5. HasAcl(h)'
    BY <2>1, <2>2 DEF HasAcl
  <2> QED
    BY <1>1, <2>2, <2>3, <2>4, <2>5, FilesStep
<1>8. CASE CloseFile(h)
  <2>1. PICK pc \in {"closing", "closed"} :
           /\ handle' = [handle EXCEPT ![h] = [@ EXCEPT !.pc = pc, !.fd = NoFd]]
           /\ pc = "closing" => H.delete_on_close
    BY <1>8 DEF CloseFile
  <2> DEFINE r == [H EXCEPT !.pc = pc, !.fd = NoFd]
  <2>2. /\ r.pc = pc /\ r.delete_on_close = H.delete_on_close
        /\ r.DeleteOnClose = H.DeleteOnClose /\ r.authorised = H.authorised
    BY <1>1 DEF HandleType
  <2>3. handle' = [handle EXCEPT ![h] = r] /\ handle'[h] = r
    BY <2>1 DEF FInv, IInv, TypeOK
  <2> HIDE DEF r
  <2>4. Asked(r) /\ Disposed(r)
    BY <1>1, <2>1, <2>2 DEF Asked, Disposed, Begun
  <2>5. \A d \in Fd : fds'[d] \in {fds[d], NoIno} /\ (d # H.fd => fds'[d] = fds[d])
    BY <1>8 DEF CloseFile, FInv, IInv, TypeOK
  <2>6. InodesInUse' /\ Frame(h)
    BY <1>8, <2>5 DEF CloseFile, FInv, InodesInUse, Frame
  <2>7. HasAcl(h)'
    BY <2>1, <2>2, <2>3 DEF HasAcl
  <2> QED
    BY <1>1, <2>3, <2>4, <2>6, <2>7, FilesStep
<1> QED
  BY <1>3, <1>4, <1>5, <1>6, <1>7, <1>8 DEF Request

LEMMA InitFInv == Init => FInv
<1> SUFFICES ASSUME Init PROVE FInv
  OBVIOUS
<1>1. IInv
  BY InitIInv
<1>2. \A h \in Handle : handle[h] = NewHandle
  BY DEF Init
<1>3. \A h \in Handle : Asked(handle[h]) /\ Disposed(handle[h]) /\ HasAcl(h)
  <2>1. /\ NewHandle.pc = "none" /\ NewHandle.disp = "none"
        /\ ~NewHandle.born /\ ~NewHandle.DeleteOnClose
    BY DEF NewHandle
  <2>2. Asked(NewHandle) /\ Disposed(NewHandle)
    BY <2>1 DEF Asked, Disposed
  <2>3. \A h \in Handle : HasAcl(h)
    BY <1>2, <2>1 DEF HasAcl
  <2> QED
    BY <1>2, <2>2, <2>3
<1>4. InodesInUse
  BY InoAssumption DEF Init, InodesInUse, Least
<1> QED
  BY <1>1, <1>3, <1>4 DEF FInv

LEMMA NextFInv == FInv /\ [Next]_vars => FInv'
<1> SUFFICES ASSUME FInv, [Next]_vars PROVE FInv'
  OBVIOUS
<1>1. IInv'
  BY NextIInv DEF FInv
<1>2. CASE UNCHANGED vars
  BY <1>1, <1>2 DEF vars, FInv, InodesInUse, HasAcl, HasContext, OpenIno
<1>3. CASE Next
  BY <1>1, <1>3, StartKeepsFiles, ContinueKeepsFiles, RequestKeepsFiles DEF Next
<1> QED
  BY <1>2, <1>3

-----------------------------------------------------------------------------
(* What NothingLostUnasked asks of the steps of one handle. *)
LosesNothing(h) ==
    /\ (/\ handle[h].pc \in {"open", "trunc", "create"}
        /\ handle'[h].pc # handle[h].pc
        /\ handle[h].disp \notin {"CREATE_ALWAYS", "TRUNCATE_EXISTING"})
       => data' = data
    /\ (/\ handle[h].pc \in {"opened", "closing"}
        /\ handle'[h].pc \in {"cleaned", "closed"}
        /\ ns' # ns)
       => handle[h].authorised \/ handle[h].delete_on_close

LEMMA OwnStepLosesNothing ==
    ASSUME FInv, NEW h \in Handle, Start(h) \/ Continue(h) \/ Request(h)
    PROVE  LosesNothing(h)
<1>1. Asked(handle[h]) /\ Disposed(handle[h])
  BY FileFacts
<1>2. ASSUME handle[h].pc \in {"open", "trunc", "create"},
             handle[h].disp \notin {"CREATE_ALWAYS", "TRUNCATE_EXISTING"}
      PROVE  data' = data
  <2>1. OpenExisting(h) \/ OpenTruncate(h) \/ OpenCreate(h)
    BY <1>2 DEF Start, Continue, Request, CreateFile, CreateDirectory, OpenDirectory,
        CreateFileStat, QueryAttributes, OpenChown, CreateDirectoryStat, ceph_mkdir,
        OpenDirectoryStat, OpenDirectoryOpen, SetAllocationTruncate, ceph_rename,
        CloseFileUnlink, WriteFile, SetEndOfFile, SetAllocationSize, DeleteFile,
        DeleteDirectory, MoveFile, Cleanup, CloseFile, At
  <2>2. ASSUME NEW create, NEW next, ceph_open(h, create, next)
        PROVE  data' = data
    BY <1>2, <2>2 DEF ceph_open, Truncates, Same
  <2> QED
    BY <2>1, <2>2 DEF OpenExisting, OpenTruncate, OpenCreate, Same
<1>3. ASSUME handle[h].pc = "closing"
      PROVE  handle[h].delete_on_close
  BY <1>1, <1>3 DEF Asked
<1>4. ASSUME handle[h].pc = "opened", ns' # ns
      PROVE  handle[h].authorised
  <2>1. Cleanup(h)
    BY <1>4 DEF Start, Continue, Request, CreateFile, CreateDirectory, OpenDirectory,
        CreateFileStat, QueryAttributes, OpenExisting, OpenTruncate, OpenCreate, OpenChown,
        CreateDirectoryStat, ceph_mkdir, OpenDirectoryStat, OpenDirectoryOpen,
        SetAllocationTruncate, ceph_rename, CloseFileUnlink, WriteFile, SetEndOfFile,
        SetAllocationSize, DeleteFile, DeleteDirectory, MoveFile, CloseFile, At, Same
  <2> QED
    BY <1>1, <1>4, <2>1 DEF Cleanup, Asked
<1> QED
  BY <1>2, <1>3, <1>4 DEF LosesNothing

(* The step of a handle does not move the others. *)
LEMMA OthersStay ==
    ASSUME FInv, NEW h \in Handle, Start(h) \/ Continue(h) \/ Request(h),
           NEW g \in Handle, g # h
    PROVE  handle'[g] = handle[g]
<1>1. CASE Start(h)
  BY <1>1 DEF Start, CreateFile, CreateDirectory, OpenDirectory, Fail, FInv, IInv, TypeOK
<1>2. CASE Continue(h)
  BY <1>2 DEF Continue, CreateFileStat, QueryAttributes, OpenExisting, OpenTruncate,
      OpenCreate, ceph_open, OpenChown, InitAcl, CreateDirectoryStat, ceph_mkdir,
      OpenDirectoryStat, OpenDirectoryOpen, SetAllocationTruncate, ceph_rename,
      CloseFileUnlink, Goto, Fail, FInv, IInv, TypeOK
<1>3. CASE Request(h)
  BY <1>3 DEF Request, WriteFile, SetEndOfFile, SetAllocationSize, DeleteFile,
      DeleteDirectory, MoveFile, Cleanup, CloseFile, Goto, FInv, IInv, TypeOK
<1> QED
  BY <1>1, <1>2, <1>3

LEMMA NextLosesNothing == FInv /\ Next => \A g \in Handle : LosesNothing(g)
<1> SUFFICES ASSUME FInv, Next, NEW g \in Handle PROVE LosesNothing(g)
  OBVIOUS
<1>1. PICK h \in Handle : Start(h) \/ Continue(h) \/ Request(h)
  BY DEF Next
<1>2. CASE g = h
  BY <1>1, <1>2, OwnStepLosesNothing
<1>3. CASE g # h
  <2>1. handle'[g] = handle[g]
    BY <1>1, <1>3, OthersStay
  <2> QED
    BY <2>1 DEF LosesNothing
<1> QED
  BY <1>2, <1>3

(* For any handles, names and workers: whoever succeeds with CREATE_NEW    *)
(* has made the file, although CreateFile asks with a stat and acts with   *)
(* an open; and where names are not moved, a new file that keeps its name  *)
(* has its owner and ACL when the request returns.                         *)
THEOREM CreatesSucceedSoundly == Spec => []CreatesAreSound
<1>1. FInv => CreatesAreSound
  BY DEF FInv, CreatesAreSound, Disposed, HasAcl, At
<1> QED
  BY InitFInv, NextFInv, <1>1, PTL DEF Spec

(* For any handles, names and workers: an open truncates only if its       *)
(* disposition says so, and Cleanup and CloseFile take a name away only    *)
(* for a handle that asked FileDelete or was opened for deletion.          *)
THEOREM NothingIsLost == Spec => NothingLostUnasked
<1>1. FInv /\ [Next]_vars
        => [\A h \in Handle :
              /\ (/\ handle[h].pc \in {"open", "trunc", "create"}
                  /\ handle'[h].pc # handle[h].pc
                  /\ handle[h].disp \notin {"CREATE_ALWAYS", "TRUNCATE_EXISTING"})
                 => data' = data
              /\ (/\ handle[h].pc \in {"opened", "closing"}
                  /\ handle'[h].pc \in {"cleaned", "closed"}
                  /\ ns' # ns)
                 => handle[h].authorised \/ handle[h].delete_on_close]_vars
  BY NextLosesNothing DEF LosesNothing
<1> QED
  BY InitFInv, NextFInv, <1>1, PTL DEF Spec, NothingLostUnasked
=============================================================================
