----------------------------- MODULE HostNames -----------------------------
(***************************************************************************)
(* The Linux interface name of a tap or veth, shortened from the names of  *)
(* a pod and its interface (constructBaseHostName).  A name is a sequence  *)
(* of characters; the model checker applies the operators to strings.      *)
(***************************************************************************)
EXTENDS Integers, Sequences

IfNameLen == 15      \* IFNAMSIZ without the terminating NULL

\* The first n and the last m characters of a name that is longer.
stringFirstNLastM(n, m, str) ==
    IF Len(str) <= n + m THEN str
    ELSE SubSeq(str, 1, n) \o SubSeq(str, Len(str) - m + 1, Len(str))

(***************************************************************************)
(* A name that does not use up its share leaves the rest to the other one, *)
(* the larger half for its beginning.  An empty name leaves nothing.       *)
(***************************************************************************)
Spare(str, share) == IF Len(str) \in 1 .. share - 1 THEN share - Len(str) ELSE 0

constructBaseHostName(container, port) ==
    LET c == Spare(port, 7)
        p == Spare(container, 8)
    IN  stringFirstNLastM(4 + (c + 1) \div 2, 4 + c \div 2, container)
            \o stringFirstNLastM(3 + (p + 1) \div 2, 4 + p \div 2, port)
=============================================================================
