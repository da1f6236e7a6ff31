---------------------------- MODULE IdAllocators ----------------------------
(***************************************************************************)
(* The allocators of idapi/: the bitmap behind the VNI allocator, the VNI  *)
(* allocator of an overlay, and the memif, MAC and VRF counters.  Every    *)
(* operator that changes an allocator returns the changed allocator, with  *)
(* the identifier it hands out where there is one.                         *)
(***************************************************************************)
EXTENDS Integers, FiniteSets, FiniteSetsExt

CONSTANTS WordBits,    \* bits of one word of a bitmap: 64 in the code
          UintRange    \* number of values of a uint32: 2^32 in the code

ASSUME WordAssumption == WordBits \in Nat \ {0}
ASSUME UintAssumption == UintRange \in Nat \ {0}

Uint(i) == i % UintRange

(***************************************************************************)
(* A bitmap is its words, each the set of the positions of its ones        *)
(* counted from the high end, and the number of its bits.  Bits are        *)
(* numbered from 1.                                                        *)
(***************************************************************************)
Word      == 0 .. WordBits - 1
WordOf(i) == (i - 1) \div WordBits
PosOf(i)  == (i - 1) % WordBits

IsSet(bm, i) == i \in 1 .. bm.numBits /\ PosOf(i) \in bm.words[WordOf(i)]

Set(bm, i) ==
    IF i \in 1 .. bm.numBits
    THEN [bm EXCEPT !.words[WordOf(i)] = @ \cup {PosOf(i)}]
    ELSE bm

(***************************************************************************)
(* The first word that is not full has a position that is not set, so the  *)
(* search never goes past it; a position after the last bit means that     *)
(* there is no free bit.                                                   *)
(***************************************************************************)
OpenWords(bm)     == {i \in DOMAIN bm.words : bm.words[i] # Word}
ClearBits(bm, i)  == {j \in Word : ~IsSet(bm, i * WordBits + j + 1)}

FindFirstClear(bm) ==
    IF OpenWords(bm) = {} THEN 0
    ELSE LET i   == Min(OpenWords(bm))
             bit == i * WordBits + Min(ClearBits(bm, i)) + 1
         IN  IF bit > bm.numBits THEN 0 ELSE bit

NewBitmap(numBits) ==
    [words   |-> [i \in 0 .. Uint(numBits - 1) \div WordBits |-> {}],
     numBits |-> numBits]

(***************************************************************************)
(* The VNI allocator.  The range is not checked: the number of bits of an  *)
(* inverted range wraps around.                                            *)
(***************************************************************************)
NewVxlanVniAllocator(startVni, endVni) ==
    [StartVni |-> startVni, EndVni |-> endVni,
     BM |-> NewBitmap(Uint(endVni - startVni + 1))]

VniFree(v) == FindFirstClear(v.BM) # 0

AllocateVni(v) == [v EXCEPT !.BM = Set(@, FindFirstClear(@))]

AllocatedVni(v) == Uint(FindFirstClear(v.BM) + v.StartVni - 1)

(***************************************************************************)
(* The counters.  The memif and MAC counters hold the last identifier      *)
(* handed out, the VRF counter the next one.                               *)
(***************************************************************************)
NewMemifAllocator   == 0
NewMacAddrAllocator == 0
NewVrfAllocator     == 10

AllocateMemif(id)   == Uint(id + 1)
AllocateMacAddr(id) == Uint(id + 1)
AllocateVrf(id)     == Uint(id + 1)

\* The second octet would be the fifth byte of a four-byte identifier.
Shift8(id) == id \div 256

formatMacAddress(id) ==
    <<2, 0, Shift8(Shift8(Shift8(id))) % 256, Shift8(Shift8(id)) % 256,
      Shift8(id) % 256, id % 256>>
=============================================================================
