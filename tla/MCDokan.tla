------------------------------ MODULE MCDokan -------------------------------
(* TLC instances of Dokan: what the requests of two handles ask for. *)
EXTENDS Dokan, TLC
CONSTANTS h1, h2, d, e, f, g, root

Handles == {h1, h2}
Names == {d, e, f, g}
Parents == (d :> root) @@ (e :> d) @@ (f :> root) @@ (g :> root)
ReadOnlyNames == {e, f}
Inodes == 1..3
Descriptors == 10..11

\* Two files side by side, moved onto each other.  These dispositions do not
\* look at the access asked for.
Files == [paths |-> {f, g}, dispositions |-> {"CREATE_NEW", "CREATE_ALWAYS"},
          writes |-> {FALSE}, deletes |-> {FALSE}, moves |-> {TRUE}]

\* A directory and a file in it, that handles may delete when they close.
\* OPEN_EXISTING treats a file that is there as OPEN_ALWAYS does.
Tree == [paths |-> {d, e}, dispositions |-> {"CREATE_NEW", "OPEN_ALWAYS", "TRUNCATE_EXISTING"},
         writes |-> BOOLEAN, deletes |-> BOOLEAN, moves |-> {}]

FilesAndTree == {Files, Tree}
=============================================================================
