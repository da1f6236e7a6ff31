----------------------------- MODULE MCRenderer -----------------------------
(* Small instances of Renderer.                                            *)
EXTENDS Renderer

CONSTANTS n1, sA, sB, k1, k2, k3, v1, v2

KV(m) == [k \in Keys |-> IF k \in DOMAIN m THEN m[k] ELSE None]
At(k, v) == [x \in {k} |-> v]
Both(k, v, l, w) == [x \in {k, l} |-> IF x = k THEN v ELSE w]

\* The node renders k1.  The service renders k2 and, in one of its specs, also
\* the node's k1 with another value; its other spec stands for a connection
\* that draws a fresh VNI, so that the key differs from render to render.
MCRenderings ==
  [e \in Entities |-> [s \in Specs |->
     IF e \in Nodes
     THEN IF s = "s1" THEN {KV(At(k1, v1))} ELSE {KV(At(k1, v2))}
     ELSE IF s = "s1" THEN {KV(Both(k1, v2, k2, v1))}
                      ELSE {KV(At(k2, v1)), KV(At(k3, v1))}]]
MCSpecs == {"s1", "s2"}
NoFaultsAllowed == [f \in Faults |-> 0]
OneOfEach       == [f \in Faults |-> 1]
CrashAndWriteError ==
    [f \in Faults |-> IF f \in {"crash", "put"} THEN 1 ELSE 0]
OneWriteError   == [f \in Faults |-> IF f = "put" THEN 1 ELSE 0]
=============================================================================
