--------------------------- MODULE IpamAllocator ---------------------------
(***************************************************************************)
(* The address allocator of one IPAM pool (idapi/ipam), as operators on a  *)
(* record.  Address ids are unsigned integers of W bits: W is 32 in the    *)
(* code and small under TLC.  A network is its masked address together     *)
(* with the number of host bits its mask leaves.                           *)
(***************************************************************************)
EXTENDS Integers, FiniteSets

CONSTANT W

ASSUME WidthAssumption == W \in Nat \ {0}

\* What is used of powers of two.
ASSUME PowersAssumption == 2^0 = 1 /\ \A n \in 0..W - 1 : 2^(n + 1) = 2 * 2^n

MaxU32 == 2^W - 1
U32    == 0..MaxU32
Wrap(n) == n % 2^W

\* A bitwise or of two ids: bit b is set when either argument has it.
Bit(n, b) == (n \div 2^b) % 2
BitOr(m, n) ==
  LET upTo[b \in 0..W] ==
        IF b = 0 THEN 0
        ELSE upTo[b - 1] + (IF Bit(m, b - 1) + Bit(n, b - 1) > 0 THEN 2^(b - 1) ELSE 0)
  IN  upTo[W]

\* Mutant: the default range ends at the broadcast address.
NewIPAMPoolAllocatorToBroadcast(spec) ==
  LET first == IF spec.start = 0 THEN 1 ELSE spec.start
      last  == IF spec.end = 0 THEN Wrap(2^spec.hostBits - 1) ELSE spec.end
  IN  [start |-> first, end |-> last, next |-> first, total |-> Wrap(last - first + 1),
       net |-> spec.net, allocated |-> {}]

\* Mutant: the size of the range does not wrap.
NewIPAMPoolAllocatorUnwrapped(spec) ==
  LET first == IF spec.start = 0 THEN 1 ELSE spec.start
      last  == IF spec.end = 0 THEN Wrap(2^spec.hostBits - 2) ELSE spec.end
  IN  [start |-> first, end |-> last, next |-> first, total |-> last - first + 1,
       net |-> spec.net, allocated |-> {}]

\* NewIPAMPoolAllocator for an IPv4 network.  Nothing compares the range with
\* the network, and the uint32 subtractions wrap.
NewIPAMPoolAllocator(spec) ==
  LET first == IF spec.start = 0 THEN 1 ELSE spec.start
      last  == IF spec.end = 0 THEN Wrap(2^spec.hostBits - 2) ELSE spec.end
  IN  [start |-> first, end |-> last, next |-> first, total |-> Wrap(last - first + 1),
       net |-> spec.net, allocated |-> {}]

FormatIPAddress(a, id) == BitOr(a.net, id)

InRange(a, id) == a.start <= id /\ id <= a.end

\* The ids the two loops of AllocateIPAddress look at.  When the range ends at
\* the largest uint32, the first loop's counter wraps to zero and goes on.
FirstLoop(a)  == IF a.end = MaxU32 THEN U32 ELSE a.next..a.end
SecondLoop(a) == a.start..(a.next - 1)

Free(a, ids) == ids \ a.allocated

\* The first free id when counting up from id from.
FirstFrom(from, ids) == CHOOSE x \in ids : \A y \in ids : Wrap(x - from) <= Wrap(y - from)

Exhausted(a) ==
  \/ Wrap(Cardinality(a.allocated)) = a.total
  \/ Free(a, FirstLoop(a)) \cup Free(a, SecondLoop(a)) = {}

\* The id AllocateIPAddress hands out when the pool is not exhausted.
Allocatable(a) ==
  IF Free(a, FirstLoop(a)) # {} THEN FirstFrom(a.next, Free(a, FirstLoop(a)))
                                ELSE FirstFrom(a.start, Free(a, SecondLoop(a)))

\* The allocator after AllocateIPAddress.
AllocateIPAddress(a) ==
  LET id == Allocatable(a) IN
  [a EXCEPT !.allocated = @ \cup {id},
            !.next = IF Wrap(id + 1) > a.end THEN a.start ELSE Wrap(id + 1)]

\* The allocator after SetAddress; an id outside the range is refused.
SetAddress(a, id) == [a EXCEPT !.allocated = @ \cup {id}]
=============================================================================
