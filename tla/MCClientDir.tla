---------------------------- MODULE MCClientDir ----------------------------
(***************************************************************************)
(* Two callers and a lister on a directory of up to three names, in the    *)
(* scenarios below.                                                        *)
(***************************************************************************)
EXTENDS ClientDir

None == [files |-> {1, 2}, caps |-> {"s"}, ops |-> {}, calls |-> 0, reads |-> "single", lists |-> 0,
         rewinds |-> 0, leases |-> FALSE, others |-> 0, issues |-> 0, grants |-> 0, trims |-> 0,
         expiries |-> 0, restarts |-> 0]

(* Two callers change the directory at once.                               *)
Changing == {[None EXCEPT !.ops = {"create", "unlink", "rename"}, !.calls = 2]}

(* Leases are given, revoked and dropped while names are looked up.        *)
Leasing ==
    {[None EXCEPT !.caps = {}, !.ops = {"lookup", "unlink"}, !.calls = 2, !.leases = TRUE, !.others = 1,
                  !.trims = 1],
     [None EXCEPT !.files = {1}, !.caps = {}, !.ops = {"lookup"}, !.calls = 2, !.leases = TRUE,
                  !.others = 1, !.grants = 1, !.expiries = 1]}

(* The directory is listed while its own client changes it, one entry a    *)
(* call or several.                                                        *)
Listing ==
    {[None EXCEPT !.files = {1, 2, 3}, !.caps = {"s", "x"}, !.ops = {"create", "unlink"}, !.calls = 1,
                  !.lists = 2, !.reads = k] : k \in {"single", "getdents"}}
    \cup {[None EXCEPT !.files = {1, 2, 3}, !.caps = {"s", "x"}, !.ops = {"unlink"}, !.calls = 1,
                       !.lists = 1, !.rewinds = 1, !.reads = "getdents"]}

(* It is listed while the cache is trimmed, and while other clients change *)
(* it.                                                                     *)
Shrinking ==
    {[None EXCEPT !.files = {1}, !.ops = {"lookup"}, !.calls = 1, !.lists = 2, !.trims = 1],
     [None EXCEPT !.lists = 2, !.others = 1, !.issues = 1, !.trims = 1]}

(* The MDS restarts.                                                       *)
Restarting ==
    {[None EXCEPT !.caps = {"s", "x"}, !.ops = {"create", "rename"}, !.calls = 1, !.lists = 1, !.restarts = 1],
     [None EXCEPT !.ops = {"lookup"}, !.calls = 1, !.lists = 2, !.trims = 1, !.restarts = 1]}

MCScenarios == Changing \cup Leasing \cup Listing \cup Shrinking \cup Restarting
=============================================================================
