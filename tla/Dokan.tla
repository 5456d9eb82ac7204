-------------------------------- MODULE Dokan --------------------------------
(***************************************************************************)
(* dokan/ceph_dokan.c: the callbacks that turn the requests of the Windows *)
(* I/O manager into libcephfs calls.  Dokan runs them on ThreadCount       *)
(* worker threads, so the calls of callbacks for different handles         *)
(* interleave; every libcephfs call and every question to the policy       *)
(* service (revise.cpp) is a step of its own.                              *)
(*                                                                         *)
(* Context is the fd_context that CreateFile and OpenDirectory store in    *)
(* the DokanFileInfo: a Context of zero is one whose fd is 0.              *)
(***************************************************************************)
EXTENDS Naturals, FiniteSets

CONSTANTS
    Handle,         \* DokanFileInfo objects, each opened once
    Path, Root,     \* names, and the directory "/" above them
    Parent,         \* Parent[p]: the directory that p is in
    Ino, Fd,        \* inodes, and the descriptors libcephfs hands out
    ReadOnly,       \* paths for which FileAuth reports read without write
    Uses,           \* what the requests ask for: see UsesAssumption
    ThreadCount,    \* dokanOptions->ThreadCount
    MaxData         \* the largest size: 1 TB in WriteFile, a bound here

NoIno == 0
NoFd == 0

ASSUME PathAssumption == Root \notin Path /\ Parent \in [Path -> Path \cup {Root}]
ASSUME InoAssumption == Ino \subseteq Nat \ {NoIno}
ASSUME FdAssumption == Fd \subseteq Nat \ {NoFd}     \* free_fd_set starts at 10
ASSUME ReadOnlyAssumption == ReadOnly \subseteq Path

Disposition == {"CREATE_NEW", "CREATE_ALWAYS", "OPEN_ALWAYS", "OPEN_EXISTING", "TRUNCATE_EXISTING"}

(* The names that occur, the dispositions of CreateFile, whether it asks    *)
(* for write access, whether it is called with DELETE_ON_CLOSE or           *)
(* TEMPORARY, and the ReplaceIfExisting of MoveFile.                        *)
ASSUME UsesAssumption ==
    \A u \in Uses : /\ u.paths \subseteq Path /\ u.dispositions \subseteq Disposition
                    /\ u.writes \subseteq BOOLEAN /\ u.deletes \subseteq BOOLEAN
                    /\ u.moves \subseteq BOOLEAN
ASSUME BoundsAssumption == ThreadCount \in Nat /\ MaxData \in Nat

VARIABLES
    ns,         \* ns[p]: the inode named p in CephFS
    kind,       \* kind[i]: "none", "file" or "dir"
    data,       \* data[i]: the size of i
    acl,        \* acl[i]: chown and fuse_init_acl have been done for i
    fds,        \* fds[d]: the inode open on descriptor d
    handle,     \* the requests on each handle
    use         \* what they ask for: a member of Uses

vars == <<ns, kind, data, acl, fds, handle, use>>

-----------------------------------------------------------------------------
(* External: the CephFS namespace behind libcephfs *)

Exists(p) == ns[p] # NoIno
IsDir(p) == IF p = Root THEN TRUE ELSE Exists(p) /\ kind[ns[p]] = "dir"
IsFile(p) == Exists(p) /\ kind[ns[p]] = "file"
Least(S) == {m \in S : \A n \in S : m <= n}
FreeIno == Least({i \in Ino : kind[i] = "none"})

(* Client::get_fd hands out the smallest descriptor that is free. *)
FreeFd == Least({d \in Fd : fds[d] = NoIno})

Children(p) == {q \in Path : Parent[q] = p /\ Exists(q)}

(* ceph_unlink and ceph_rmdir of a name; a failure changes nothing. *)
ceph_unlink(p) == ns' = IF IsFile(p) THEN [ns EXCEPT ![p] = NoIno] ELSE ns
ceph_rmdir(p) ==
    ns' = IF IsDir(p) /\ Children(p) = {} THEN [ns EXCEPT ![p] = NoIno] ELSE ns

-----------------------------------------------------------------------------
(* Handles *)

NewHandle ==
    [pc |-> "none", path |-> Root, disp |-> "none", write |-> FALSE,
     fd |-> NoFd, delete_on_close |-> FALSE, read_only |-> FALSE,
     IsDirectory |-> FALSE, DeleteOnClose |-> FALSE,
     to |-> Root, size |-> 0, authorised |-> FALSE, born |-> FALSE]

(* The callbacks that are running; each occupies a worker thread. *)
InProgress ==
    {"stat", "create", "attr", "open", "trunc", "chown", "dstat", "dopen",
     "mkstat", "mkdir", "alloc", "rename", "closing"}
Busy == Cardinality({h \in Handle : handle[h].pc \in InProgress})
WorkerFree == Busy < ThreadCount

At(h, pc) == handle[h].pc = pc
Goto(h, pc) == handle' = [handle EXCEPT ![h].pc = pc]
Fail(h) == handle' = [handle EXCEPT ![h] = [NewHandle EXCEPT !.pc = "closed"]]
Same == UNCHANGED <<ns, kind, data, acl, fds>>

-----------------------------------------------------------------------------
(* WinCephCreateFile *)

(* Entry: TEMPORARY and DELETE_ON_CLOSE are noted in the fd_context.       *)
CreateFile(h, p, d, w, del) ==
    /\ At(h, "none") /\ WorkerFree
    /\ handle' = [handle EXCEPT ![h] =
          [@ EXCEPT !.pc = "stat", !.path = p, !.disp = d, !.write = w,
                    !.delete_on_close = del]]
    /\ Same

(* ceph_stat, and the switch on what exists and on the disposition.  An    *)
(* existing directory is opened without a Context.                         *)
CreateFileStat(h) ==
    LET H == handle[h]
        denied == H.disp = "CREATE_NEW"
    IN  /\ At(h, "stat")
        /\ IF IsFile(H.path)
           THEN IF denied THEN Fail(h)
                ELSE \/ /\ H.disp \in {"TRUNCATE_EXISTING", "CREATE_ALWAYS"}
                        /\ Goto(h, "trunc")
                     \/ /\ H.disp \in {"OPEN_ALWAYS", "OPEN_EXISTING"}
                        /\ Goto(h, IF H.write THEN "attr" ELSE "open")
           ELSE IF IsDir(H.path)
           THEN IF denied THEN Fail(h)
                ELSE handle' = [handle EXCEPT ![h] =
                        [@ EXCEPT !.pc = "opened", !.delete_on_close = FALSE]]
           ELSE \/ /\ H.disp \in {"CREATE_NEW", "CREATE_ALWAYS", "OPEN_ALWAYS"}
                   /\ Goto(h, "create")
                \/ /\ H.disp \in {"OPEN_EXISTING", "TRUNCATE_EXISTING"}
                   /\ Fail(h)
        /\ Same

(* Mutant: the query opens the file for writing and so queries again. *)
QueryAttributesNested(h) ==
    /\ At(h, "attr")
    /\ Busy + 1 < ThreadCount
    /\ Goto(h, "open")
    /\ Same

(* GetFileAttributesW on the mounted drive: Dokan serves it with another   *)
(* worker (CreateFile, GetFileInformation, Cleanup, CloseFile).  A file    *)
(* that has vanished yields INVALID_FILE_ATTRIBUTES, whose READONLY bit is *)
(* set.  A read-only file goes on only if readonly.txt can be opened.      *)
QueryAttributes(h) ==
    LET p == handle[h].path
    IN  /\ At(h, "attr") /\ WorkerFree
        /\ IF p \in ReadOnly \/ ~Exists(p)
           THEN \/ handle' = [handle EXCEPT ![h] =
                       [@ EXCEPT !.pc = "open", !.read_only = TRUE]]
                \/ Fail(h)
           ELSE Goto(h, "open")
        /\ Same

(* Mutant: OPEN_ALWAYS asks for a truncating open. *)
TruncatesAlways(disp) == disp \in {"CREATE_ALWAYS", "TRUNCATE_EXISTING", "OPEN_ALWAYS"}

(* The open flags of each case. *)
Truncates(disp) == disp \in {"CREATE_ALWAYS", "TRUNCATE_EXISTING"}

(* Mutant: CREATE_NEW opens without O_EXCL. *)
ExclusiveNever(disp) == FALSE

Exclusive(disp) == disp = "CREATE_NEW"

(* ceph_open: it makes the file if it may, and gives out a descriptor.  A  *)
(* directory may or may not be opened.                                     *)
ceph_open(h, create, next) ==
    LET H == handle[h]
        p == H.path
        Opened(d, i, new) ==
            /\ fds' = [fds EXCEPT ![d] = i]
            /\ handle' = [handle EXCEPT ![h] = [@ EXCEPT !.pc = next, !.fd = d, !.born = new]]
    IN  \/ /\ \/ ~create /\ ~Exists(p)
              \/ create /\ Exclusive(H.disp) /\ Exists(p)
              \/ create /\ ~Exists(p) /\ ~IsDir(Parent[p])
              \/ IsDir(p)
           /\ Fail(h)
           /\ Same
        \/ /\ Exists(p)
           /\ ~(create /\ Exclusive(H.disp))
           /\ \E d \in FreeFd : Opened(d, ns[p], FALSE)
           /\ data' = IF create /\ Truncates(H.disp)
                      THEN [data EXCEPT ![ns[p]] = 0] ELSE data
           /\ UNCHANGED <<ns, kind, acl>>
        \/ /\ create /\ ~Exists(p) /\ IsDir(Parent[p])
           /\ \E d \in FreeFd, i \in FreeIno :
                 /\ ns' = [ns EXCEPT ![p] = i]
                 /\ kind' = [kind EXCEPT ![i] = "file"]
                 /\ Opened(d, i, TRUE)
           /\ UNCHANGED <<data, acl>>

(* The ACL check of the path and the open of a file that was there.        *)
OpenExisting(h) ==
    /\ At(h, "open")
    /\ \/ Fail(h) /\ Same
       \/ ceph_open(h, FALSE, "opened")

(* TRUNCATE_EXISTING and CREATE_ALWAYS of a file that was there: the flags *)
(* include O_CREAT, and a file made here is not given an ACL.              *)
OpenTruncate(h) ==
    /\ At(h, "trunc")
    /\ \/ Fail(h) /\ Same
       \/ ceph_open(h, TRUE, "opened")

(* Mutant: the new file is left with the ownership the open gave it. *)
OpenCreateUnowned(h) ==
    /\ At(h, "create")
    /\ \/ Fail(h) /\ Same
       \/ ceph_open(h, TRUE, "opened")

(* The ACL check of the parent, FileCreate, and the open of a file that    *)
(* was not there.                                                          *)
OpenCreate(h) ==
    /\ At(h, "create")
    /\ \/ Fail(h) /\ Same
       \/ ceph_open(h, TRUE, "chown")

(* ceph_chown and fuse_init_acl, which name the file again. *)
InitAcl(h, next) ==
    LET p == handle[h].path
    IN  /\ acl' = IF Exists(p) THEN [acl EXCEPT ![ns[p]] = TRUE] ELSE acl
        /\ Goto(h, next)
        /\ UNCHANGED <<ns, kind, data, fds>>

OpenChown(h) == At(h, "chown") /\ InitAcl(h, "opened")

-----------------------------------------------------------------------------
(* WinCephCreateDirectory and WinCephOpenDirectory *)

(* FileCreate(path, TRUE) is asked first. *)
CreateDirectory(h, p) ==
    /\ At(h, "none") /\ WorkerFree
    /\ \/ handle' = [handle EXCEPT ![h] =
             [@ EXCEPT !.pc = "mkstat", !.path = p, !.IsDirectory = TRUE]]
       \/ Fail(h)
    /\ Same

(* An existing directory is refused, an existing file goes on to mkdir. *)
CreateDirectoryStat(h) ==
    /\ At(h, "mkstat")
    /\ IF IsDir(handle[h].path) THEN Fail(h) ELSE Goto(h, "mkdir")
    /\ Same

ceph_mkdir(h) ==
    LET p == handle[h].path
    IN  /\ At(h, "mkdir")
        /\ IF Exists(p) \/ ~IsDir(Parent[p])
           THEN Fail(h) /\ Same
           ELSE /\ \E i \in FreeIno :
                      /\ ns' = [ns EXCEPT ![p] = i]
                      /\ kind' = [kind EXCEPT ![i] = "dir"]
                /\ handle' = [handle EXCEPT ![h] = [@ EXCEPT !.pc = "chown", !.born = TRUE]]
                /\ UNCHANGED <<data, acl, fds>>

OpenDirectory(h, p) ==
    /\ At(h, "none") /\ WorkerFree
    /\ handle' = [handle EXCEPT ![h] =
          [@ EXCEPT !.pc = "dstat", !.path = p, !.IsDirectory = TRUE]]
    /\ Same

(* ceph_stat and the ACL check; only a directory is opened. *)
OpenDirectoryStat(h) ==
    /\ At(h, "dstat")
    /\ \/ IsDir(handle[h].path) /\ Goto(h, "dopen")
       \/ Fail(h)
    /\ Same

(* ceph_open(O_RDONLY) of whatever the name stands for now. *)
OpenDirectoryOpen(h) ==
    LET p == handle[h].path
    IN  /\ At(h, "dopen")
        /\ IF Exists(p)
           THEN /\ \E d \in FreeFd :
                      /\ fds' = [fds EXCEPT ![d] = ns[p]]
                      /\ handle' = [handle EXCEPT ![h] =
                            [@ EXCEPT !.pc = "opened", !.fd = d]]
                /\ UNCHANGED <<ns, kind, data, acl>>
           ELSE Fail(h) /\ Same

-----------------------------------------------------------------------------
(* Requests on an open handle *)

HasContext(h) == handle[h].fd # NoFd
OpenIno(h) == fds[handle[h].fd]

(* WinCephWriteFile.  Without a Context the file is reopened O_RDONLY, and *)
(* ceph_write then fails.                                                  *)
WriteFile(h) ==
    /\ At(h, "opened") /\ WorkerFree
    /\ ~handle[h].read_only
    /\ HasContext(h)
    /\ kind[OpenIno(h)] = "file"
    /\ data[OpenIno(h)] < MaxData
    /\ data' = [data EXCEPT ![OpenIno(h)] = @ + 1]
    /\ UNCHANGED <<ns, kind, acl, fds, handle>>

(* WinCephSetEndOfFile: ceph_ftruncate, which does not look at the mode of *)
(* the descriptor.                                                         *)
SetEndOfFile(h, n) ==
    /\ At(h, "opened") /\ WorkerFree
    /\ HasContext(h)
    /\ kind[OpenIno(h)] = "file"
    /\ data' = [data EXCEPT ![OpenIno(h)] = n]
    /\ UNCHANGED <<ns, kind, acl, fds, handle>>

(* WinCephSetAllocationSize: ceph_fstat, and ceph_ftruncate to a size that *)
(* was below the file's.                                                   *)
SetAllocationSize(h, n) ==
    /\ At(h, "opened") /\ WorkerFree
    /\ HasContext(h)
    /\ n < data[OpenIno(h)]
    /\ handle' = [handle EXCEPT ![h] = [@ EXCEPT !.pc = "alloc", !.size = n]]
    /\ Same

SetAllocationTruncate(h) ==
    /\ At(h, "alloc")
    /\ data' = [data EXCEPT ![OpenIno(h)] = handle[h].size]
    /\ handle' = [handle EXCEPT ![h] = [@ EXCEPT !.pc = "opened", !.size = 0]]
    /\ UNCHANGED <<ns, kind, acl, fds>>

(* WinCephDeleteFile asks FileDelete; Dokan then sets DeleteOnClose. *)
DeleteFile(h) ==
    /\ At(h, "opened") /\ WorkerFree
    /\ ~handle[h].IsDirectory
    /\ ~handle[h].DeleteOnClose
    /\ handle' = [handle EXCEPT ![h] =
          [@ EXCEPT !.DeleteOnClose = TRUE, !.authorised = TRUE]]
    /\ Same

(* WinCephDeleteDirectory also wants the directory to be empty. *)
DeleteDirectory(h) ==
    LET H == handle[h]
    IN  /\ At(h, "opened") /\ WorkerFree
        /\ H.IsDirectory
        /\ ~H.DeleteOnClose
        /\ IsDir(H.path) /\ Children(H.path) = {}
        /\ handle' = [handle EXCEPT ![h] =
              [@ EXCEPT !.DeleteOnClose = TRUE, !.authorised = TRUE]]
        /\ Same

(* WinCephMoveFile: the stat of the new name and FileMove. *)
MoveFile(h, q, replace) ==
    LET H == handle[h]
    IN  /\ At(h, "opened") /\ WorkerFree
        /\ q # H.path
        /\ replace \/ ~(IF H.IsDirectory THEN IsDir(q) ELSE IsFile(q))
        /\ handle' = [handle EXCEPT ![h] = [@ EXCEPT !.pc = "rename", !.to = q]]
        /\ Same

(* ceph_rename; Dokan gives the handle its new name when it succeeds. *)
ceph_rename(h) ==
    LET H == handle[h]
        ok == /\ Exists(H.path)
              /\ IsDir(Parent[H.to]) /\ Parent[H.to] # H.path
              /\ Exists(H.to) =>
                    /\ kind[ns[H.to]] = kind[ns[H.path]]
                    /\ Children(H.to) = {}
              /\ IsDir(H.path) => Children(H.path) = {}
    IN  /\ At(h, "rename")
        /\ IF ok
           THEN /\ ns' = [ns EXCEPT ![H.to] = ns[H.path], ![H.path] = NoIno]
                /\ handle' = [handle EXCEPT ![h] =
                      [@ EXCEPT !.pc = "opened", !.path = H.to, !.to = Root]]
           ELSE /\ handle' = [handle EXCEPT ![h] = [@ EXCEPT !.pc = "opened", !.to = Root]]
                /\ UNCHANGED ns
        /\ UNCHANGED <<kind, data, acl, fds>>

(* Mutant: a directory is removed whether or not that was asked for. *)
CleanupAlways(h) ==
    /\ At(h, "opened") /\ WorkerFree
    /\ IF HasContext(h) /\ handle[h].IsDirectory
       THEN ceph_rmdir(handle[h].path) ELSE UNCHANGED ns
    /\ Goto(h, "cleaned")
    /\ UNCHANGED <<kind, data, acl, fds>>

(* WinCephCleanup: delete by name if asked to; nothing without a Context. *)
Cleanup(h) ==
    LET H == handle[h]
    IN  /\ At(h, "opened") /\ WorkerFree
        /\ IF HasContext(h) /\ H.DeleteOnClose
           THEN IF H.IsDirectory THEN ceph_rmdir(H.path) ELSE ceph_unlink(H.path)
           ELSE UNCHANGED ns
        /\ Goto(h, "cleaned")
        /\ UNCHANGED <<kind, data, acl, fds>>

(* Mutant: a file that is to be deleted is not closed. *)
CloseFileLeak(h) ==
    LET H == handle[h]
    IN  /\ At(h, "cleaned") /\ WorkerFree
        /\ fds' = IF HasContext(h) /\ ~H.DeleteOnClose THEN [fds EXCEPT ![H.fd] = NoIno] ELSE fds
        /\ handle' = [handle EXCEPT ![h] = [@ EXCEPT !.pc = "closed", !.fd = NoFd]]
        /\ UNCHANGED <<ns, kind, data, acl>>

(* WinCephCloseFile: ceph_close, then the unlink for fdc.delete_on_close.  *)
CloseFile(h) ==
    LET H == handle[h]
    IN  /\ At(h, "cleaned") /\ WorkerFree
        /\ fds' = IF HasContext(h) THEN [fds EXCEPT ![H.fd] = NoIno] ELSE fds
        /\ handle' = [handle EXCEPT ![h] =
              [@ EXCEPT !.pc = IF HasContext(h) /\ H.delete_on_close /\ ~H.IsDirectory
                               THEN "closing" ELSE "closed",
                        !.fd = NoFd]]
        /\ UNCHANGED <<ns, kind, data, acl>>

CloseFileUnlink(h) ==
    /\ At(h, "closing")
    /\ ceph_unlink(handle[h].path)
    /\ Goto(h, "closed")
    /\ UNCHANGED <<kind, data, acl, fds>>

-----------------------------------------------------------------------------
Init ==
    /\ use \in Uses
    /\ \E there \in {{}} \cup {{p} : p \in {q \in use.paths : Parent[q] = Root}} :
          \E k \in {"file", "dir"}, i \in Least(Ino) :
             /\ ns = [p \in Path |-> IF p \in there THEN i ELSE NoIno]
             /\ kind = [j \in Ino |-> IF there # {} /\ j = i THEN k ELSE "none"]
    /\ data = [i \in Ino |-> 0]
    /\ acl = [i \in Ino |-> kind[i] # "none"]
    /\ fds = [d \in Fd |-> NoIno]
    /\ handle = [h \in Handle |-> NewHandle]

Start(h) ==
    /\ UNCHANGED use
    /\ \E p \in Path :
          /\ p \in use.paths
          /\ \/ \E d \in Disposition, w, del \in BOOLEAN :
                   /\ d \in use.dispositions /\ w \in use.writes /\ del \in use.deletes
                   /\ CreateFile(h, p, d, w, del)
             \/ CreateDirectory(h, p)
             \/ OpenDirectory(h, p)

(* What a worker does for a request it has begun. *)
Continue(h) ==
    /\ UNCHANGED use
    /\ \/ CreateFileStat(h) \/ QueryAttributes(h)
       \/ OpenExisting(h) \/ OpenTruncate(h) \/ OpenCreate(h)
       \/ OpenChown(h) \/ CreateDirectoryStat(h) \/ ceph_mkdir(h)
       \/ OpenDirectoryStat(h) \/ OpenDirectoryOpen(h)
       \/ SetAllocationTruncate(h) \/ ceph_rename(h) \/ CloseFileUnlink(h)

Request(h) ==
    /\ UNCHANGED use
    /\ \/ WriteFile(h)
       \/ \E n \in 0..MaxData : SetEndOfFile(h, n) \/ SetAllocationSize(h, n)
       \/ DeleteFile(h) \/ DeleteDirectory(h)
       \/ \E q \in Path, r \in BOOLEAN : q \in use.paths /\ r \in use.moves /\ MoveFile(h, q, r)
       \/ Cleanup(h) \/ CloseFile(h)

Next == \E h \in Handle : Start(h) \/ Continue(h) \/ Request(h)

Spec == Init /\ [][Next]_vars

(* A worker that has begun a request goes on with it. *)
FairSpec == Spec /\ \A h \in Handle : WF_vars(Continue(h))

-----------------------------------------------------------------------------
HandleType ==
    [pc : InProgress \cup {"none", "opened", "cleaned", "closed"},
     path : Path \cup {Root}, disp : Disposition \cup {"none"}, write : BOOLEAN,
     fd : Fd \cup {NoFd}, delete_on_close : BOOLEAN, read_only : BOOLEAN,
     IsDirectory : BOOLEAN, DeleteOnClose : BOOLEAN, to : Path \cup {Root},
     size : 0..MaxData, authorised : BOOLEAN, born : BOOLEAN]

(* The values of the name space, the descriptor table and the requests;    *)
(* WriteFile in particular refuses what lies beyond the largest size.      *)
TypeOK ==
    /\ ns \in [Path -> Ino \cup {NoIno}]
    /\ kind \in [Ino -> {"none", "file", "dir"}]
    /\ data \in [Ino -> 0..MaxData]
    /\ acl \in [Ino -> BOOLEAN]
    /\ fds \in [Fd -> Ino \cup {NoIno}]
    /\ handle \in [Handle -> HandleType]

(* Every descriptor that libcephfs has open is in exactly one Context, on  *)
(* every path through the callbacks, and a Context names an open one: none *)
(* leaks when a request fails half way, none is closed under another.      *)
DescriptorsOwned ==
    /\ \A d \in Fd : fds[d] # NoIno => \E h \in Handle : handle[h].fd = d
    /\ \A h \in Handle : HasContext(h) => fds[handle[h].fd] # NoIno
    /\ \A g, h \in Handle : g # h /\ HasContext(g) => handle[g].fd # handle[h].fd

(* CREATE_NEW is exclusive although the stat and the open are two calls:   *)
(* whoever succeeds has made the file itself.  And a file that a           *)
(* CreateFile has made has its owner and ACL by the time the request       *)
(* returns, although they are set by name after the open: unless names are *)
(* moved, or this one is deleted, nobody can have put another file in its  *)
(* place.  A disposition that truncates is left out: when its file goes    *)
(* away between the stat and the open, the open makes a new one and        *)
(* nothing is set.                                                         *)
CreatesAreSound ==
    \A h \in Handle :
        At(h, "opened") =>
            /\ handle[h].disp = "CREATE_NEW" => handle[h].born
            /\ (/\ use.moves = {}
                /\ HasContext(h)
                /\ handle[h].born /\ handle[h].disp \notin {"CREATE_ALWAYS", "TRUNCATE_EXISTING"}
                /\ ns[handle[h].path] = OpenIno(h))
               => acl[OpenIno(h)]

(* No open destroys data unless its disposition asks for a truncation,     *)
(* whatever happens to the name between the stat and the open; and no      *)
(* interleaving of callbacks takes a name away in Cleanup or CloseFile     *)
(* unless FileDelete was asked for this handle, or it was opened with      *)
(* DELETE_ON_CLOSE or TEMPORARY.                                           *)
NothingLostUnasked ==
    [][\A h \in Handle :
          /\ (/\ handle[h].pc \in {"open", "trunc", "create"}
              /\ handle'[h].pc # handle[h].pc
              /\ handle[h].disp \notin {"CREATE_ALWAYS", "TRUNCATE_EXISTING"})
             => data' = data
          /\ (/\ handle[h].pc \in {"opened", "closing"}
              /\ handle'[h].pc \in {"cleaned", "closed"}
              /\ ns' # ns)
             => handle[h].authorised \/ handle[h].delete_on_close]_vars

(* Every request is answered, provided a worker is left for the attribute  *)
(* query that CreateFile makes on its own drive.                           *)
RequestsReturn ==
    \A h \in Handle : handle[h].pc \in InProgress ~> handle[h].pc \notin InProgress
=============================================================================
