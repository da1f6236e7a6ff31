------------------------------- MODULE VniUse -------------------------------
(***************************************************************************)
(* What the VNI allocator of an overlay promises to the connections that   *)
(* are rendered over it: as long as the process runs, a connection is      *)
(* given a VNI that none was given before, and no two have the same.       *)
(***************************************************************************)
VARIABLES taken,   \* VNIs the allocator has given out
          use      \* the VNIs of the connections: pairs of connection and VNI

Init == taken = {} /\ use = {}

\* The connections are rendered anew.  A connection keeps its VNI or has a new
\* one; one that failed has none, and its VNI may have been taken all the same.
Render ==
    /\ taken \subseteq taken'
    /\ \A u \in use' \ use : u[2] \in taken' \ taken
    /\ \A u, v \in use' : u[1] = v[1] <=> u[2] = v[2]

\* The process ends and its allocator with it.
Stop == taken' = {} /\ use' = {}

Spec == Init /\ [][Render \/ Stop]_<<taken, use>>
=============================================================================
