-------------------------- MODULE IdentifierProofs --------------------------
(***************************************************************************)
(* What the identifier allocators promise, for every word width and every  *)
(* range: a VNI handed out lies in the range and was free, only that VNI   *)
(* becomes taken, and allocation fails only when the range is used up;     *)
(* two interface counters never give the same MAC address; a host name     *)
(* fits the kernel's limit.                                                *)
(***************************************************************************)
EXTENDS IdAllocators, HostNames, WellFoundedInduction, TLAPS

\* A bitmap as NewBitmap and Set make it: enough words for its bits.
Bitmap(bm) ==
    \E n \in Nat :
        /\ bm = [words |-> bm.words, numBits |-> bm.numBits]
        /\ bm.numBits \in Nat
        /\ bm.words \in [0 .. n -> SUBSET Word]
        /\ bm.numBits <= (n + 1) * WordBits

(***************************************************************************)
(* Every nonempty set of naturals has a least member, the one that Min     *)
(* (the position at which a loop over the words or bits stops) names.      *)
(***************************************************************************)
LEMMA MinIsLeast ==
    ASSUME NEW S \in SUBSET Nat, S # {}
    PROVE  Min(S) \in S /\ \A y \in S : Min(S) <= y
<1> DEFINE Less == {p \in Nat \X Nat : p[1] < p[2]}
<1>1. IsWellFoundedOn(Less, Nat)
  BY NatLessThanWellFounded, Zenon DEF OpToRel
<1>2. PICK x \in S : \A y \in S : <<y, x>> \notin Less
  BY <1>1, WFMin, Zenon
<1>3. \A y, z \in Nat : y < z => <<y, z>> \in Less
  BY Zenon
<1> HIDE DEF Less
<1>4. ASSUME NEW y \in S PROVE x <= y
  <2>1. x \in Nat /\ y \in Nat
    BY Zenon
  <2>2. ~(y < x)
    BY <1>2, <1>3, <2>1, Zenon
  <2> QED
    BY <2>1, <2>2
<1> QED
  BY <1>4, Zenon DEF Min

(***************************************************************************)
(* A bit's number is its word and its position.                            *)
(***************************************************************************)
LEMMA BitPlace ==
    ASSUME NEW b \in Nat \ {0}
    PROVE  /\ WordOf(b) \in Nat
           /\ PosOf(b) \in Word
           /\ b = WordOf(b) * WordBits + PosOf(b) + 1
BY WordAssumption, Z3 DEF WordOf, PosOf, Word

LEMMA PlaceBit ==
    ASSUME NEW i \in Nat, NEW j \in Word
    PROVE  /\ i * WordBits + j + 1 \in Nat \ {0}
           /\ WordOf(i * WordBits + j + 1) = i
           /\ PosOf(i * WordBits + j + 1) = j
BY WordAssumption, Z3 DEF WordOf, PosOf, Word

(***************************************************************************)
(* Arithmetic that stays below the width does not wrap.                    *)
(***************************************************************************)
LEMMA UintSmall ==
    ASSUME NEW i \in Nat, i < UintRange
    PROVE  Uint(i) = i
BY UintAssumption, Z3 DEF Uint

(***************************************************************************)
(* Words are laid out in order.                                            *)
(***************************************************************************)
LEMMA WordOrder ==
    ASSUME NEW p \in Nat, NEW q \in Nat, p * WordBits < q * WordBits
    PROVE  p < q
<1> SUFFICES ASSUME p >= q PROVE FALSE
  OBVIOUS
<1>1. PICK d \in Nat : p = q + d
  <2> WITNESS p - q \in Nat
  <2> QED OBVIOUS
<1>2. (q + d) * WordBits = q * WordBits + d * WordBits
  BY WordAssumption, Z3
<1>3. d * WordBits \in Nat /\ q * WordBits \in Nat
  BY WordAssumption, Z3
<1> QED
  BY <1>1, <1>2, <1>3

LEMMA WordInRange ==
    ASSUME NEW n \in Nat, NEW b \in Nat \ {0}, b <= (n + 1) * WordBits
    PROVE  WordOf(b) \in 0 .. n
<1>1. /\ WordOf(b) \in Nat /\ PosOf(b) \in Word
      /\ b = WordOf(b) * WordBits + PosOf(b) + 1
  BY BitPlace, Zenon
<1>2. WordOf(b) * WordBits < (n + 1) * WordBits
  <2>1. WordOf(b) * WordBits \in Nat /\ (n + 1) * WordBits \in Nat
    BY <1>1, WordAssumption, Z3
  <2> QED
    BY <1>1, <2>1, WordAssumption DEF Word
<1>3. WordOf(b) < n + 1
  BY <1>1, <1>2, WordOrder
<1> QED
  BY <1>1, <1>3

(***************************************************************************)
(* What the search of FindFirstClear returns is a bit that is clear, and   *)
(* zero only when every bit of the bitmap is set.                          *)
(***************************************************************************)
LEMMA FirstClear ==
    ASSUME NEW bm, Bitmap(bm)
    PROVE  LET f == FindFirstClear(bm)
           IN  \/ f \in 1 .. bm.numBits /\ ~IsSet(bm, f)
               \/ f = 0 /\ \A b \in 1 .. bm.numBits : IsSet(bm, b)
<1> DEFINE i   == Min(OpenWords(bm))
           m   == Min(ClearBits(bm, i))
           bit == i * WordBits + m + 1
<1>1. PICK n \in Nat : /\ bm.numBits \in Nat
                       /\ bm.words \in [0 .. n -> SUBSET Word]
                       /\ bm.numBits <= (n + 1) * WordBits
  BY Zenon DEF Bitmap
<1>2. \A b \in 1 .. bm.numBits : WordOf(b) \in 0 .. n
  <2> TAKE b \in 1 .. bm.numBits
  <2>1. b \in Nat \ {0} /\ b <= (n + 1) * WordBits
    BY <1>1, WordAssumption
  <2> QED
    BY <2>1, WordInRange, Zenon
<1>3. CASE OpenWords(bm) = {}
  <2>1. \A b \in 1 .. bm.numBits : IsSet(bm, b)
    BY <1>1, <1>2, <1>3, BitPlace DEF OpenWords, IsSet
  <2> QED
    BY <1>3, <2>1, Zenon DEF FindFirstClear
<1>4. CASE OpenWords(bm) # {}
  <2> OpenWords(bm) \in SUBSET Nat
    BY <1>1 DEF OpenWords
  <2>1. i \in OpenWords(bm) /\ \A k \in OpenWords(bm) : i <= k
    BY <1>4, MinIsLeast, Zenon
  <2>2. i \in 0 .. n /\ bm.words[i] # Word
    BY <1>1, <2>1, Zenon DEF OpenWords
  <2> HIDE DEF i
  <2>3. PICK j \in Word : j \notin bm.words[i]
    BY <1>1, <2>2, Zenon
  <2>4. j \in ClearBits(bm, i)
    BY <2>2, <2>3, PlaceBit DEF ClearBits, IsSet
  <2>5. ClearBits(bm, i) \in SUBSET Nat
    BY WordAssumption DEF ClearBits, Word
  <2>6. m \in ClearBits(bm, i) /\ \A k \in ClearBits(bm, i) : m <= k
    BY <2>4, <2>5, MinIsLeast, Zenon
  <2> HIDE DEF m
  <2>7. m \in Word /\ ~IsSet(bm, bit) /\ bit \in Nat \ {0}
    BY <2>2, <2>6, PlaceBit DEF ClearBits
  <2>8. FindFirstClear(bm) = IF bit > bm.numBits THEN 0 ELSE bit
    BY <1>4, Zenon DEF FindFirstClear, i, m
  <2>9. CASE bit <= bm.numBits
    BY <1>1, <2>7, <2>8, <2>9
  <2>10. CASE bit > bm.numBits
    <3> SUFFICES ASSUME NEW b \in 1 .. bm.numBits PROVE IsSet(bm, b)
      BY <1>1, <2>7, <2>8, <2>10, Zenon
    <3>1. /\ b \in Nat \ {0} /\ WordOf(b) \in Nat /\ PosOf(b) \in Word
          /\ b = WordOf(b) * WordBits + PosOf(b) + 1
      BY <1>1, BitPlace
    <3>2. WordOf(b) <= i
      <4>1. (i + 1) * WordBits = i * WordBits + WordBits
        BY <2>2, WordAssumption, Z3
      <4>2. i * WordBits \in Nat /\ WordOf(b) * WordBits \in Nat
        BY <2>2, <3>1, WordAssumption, Z3
      <4> DEFINE x == i * WordBits
                 y == WordOf(b) * WordBits
      <4>3. /\ b = y + PosOf(b) + 1 /\ b < x + m + 1
            /\ m < WordBits /\ PosOf(b) >= 0
        BY <1>1, <2>7, <2>10, <3>1, WordAssumption DEF Word
      <4>4. /\ x \in Nat /\ y \in Nat /\ m \in Nat /\ PosOf(b) \in Nat
            /\ WordBits \in Nat
        BY <2>7, <3>1, <4>2, WordAssumption DEF Word
      <4> HIDE DEF x, y
      <4>5. y < x + WordBits
        BY <4>3, <4>4
      <4>6. WordOf(b) * WordBits < (i + 1) * WordBits
        BY <4>1, <4>5, Zenon DEF x, y
      <4>7. WordOf(b) < i + 1
        BY <2>2, <3>1, <4>6, WordOrder
      <4> QED
        BY <2>2, <3>1, <4>7
    <3>3. CASE WordOf(b) = i
      <4>1. PosOf(b) < m
        BY <1>1, <2>2, <2>7, <2>10, <3>1, <3>3, WordAssumption DEF Word
      <4>2. PosOf(b) \notin ClearBits(bm, i)
        BY <2>5, <2>6, <3>1, <4>1, WordAssumption DEF Word
      <4> QED
        BY <3>1, <3>3, <4>2, Zenon DEF ClearBits
    <3>4. CASE WordOf(b) < i
      <4>1. bm.words[WordOf(b)] = Word
        BY <1>1, <1>2, <2>1, <2>2, <3>4 DEF OpenWords
      <4> QED
        BY <1>1, <3>1, <4>1, Zenon DEF IsSet
    <3> QED
      BY <2>2, <3>1, <3>2, <3>3, <3>4
  <2> QED
    BY <1>1, <2>7, <2>9, <2>10
<1> QED
  BY <1>3, <1>4, Zenon

(***************************************************************************)
(* Set sets the bit it is given and no other.                              *)
(***************************************************************************)
LEMMA SetOne ==
    ASSUME NEW bm, Bitmap(bm), NEW c \in 1 .. bm.numBits
    PROVE  /\ Bitmap(Set(bm, c))
           /\ Set(bm, c).numBits = bm.numBits
           /\ \A b \in 1 .. bm.numBits :
                  IsSet(Set(bm, c), b) <=> IsSet(bm, b) \/ b = c
<1>1. PICK n \in Nat : /\ bm = [words |-> bm.words, numBits |-> bm.numBits]
                       /\ bm.numBits \in Nat
                       /\ bm.words \in [0 .. n -> SUBSET Word]
                       /\ bm.numBits <= (n + 1) * WordBits
  BY Zenon DEF Bitmap
<1> DEFINE new == [bm.words EXCEPT ![WordOf(c)] = @ \cup {PosOf(c)}]
<1>2. \A b \in 1 .. bm.numBits : /\ WordOf(b) \in 0 .. n
                                 /\ PosOf(b) \in Word
                                 /\ b = WordOf(b) * WordBits + PosOf(b) + 1
  <2> TAKE b \in 1 .. bm.numBits
  <2>1. b \in Nat \ {0} /\ b <= (n + 1) * WordBits
    BY <1>1, WordAssumption
  <2> QED
    BY <2>1, WordInRange, BitPlace, Zenon
<1>3. new \in [0 .. n -> SUBSET Word]
  BY <1>1, <1>2, Zenon
<1>4. Set(bm, c) = [words |-> new, numBits |-> bm.numBits]
  BY <1>1, Zenon DEF Set
<1>5. ASSUME NEW b \in 1 .. bm.numBits
      PROVE  PosOf(b) \in new[WordOf(b)]
                 <=> PosOf(b) \in bm.words[WordOf(b)] \/ b = c
  <2>1. WordOf(b) = WordOf(c) /\ PosOf(b) = PosOf(c) <=> b = c
    BY <1>2, Zenon
  <2>2. new[WordOf(b)] = IF WordOf(b) = WordOf(c)
                         THEN bm.words[WordOf(c)] \cup {PosOf(c)}
                         ELSE bm.words[WordOf(b)]
    BY <1>1, <1>2, Zenon
  <2> HIDE DEF new
  <2>3. CASE WordOf(b) = WordOf(c)
    BY <2>1, <2>2, <2>3, Zenon
  <2>4. CASE WordOf(b) # WordOf(c)
    BY <2>1, <2>2, <2>4, Zenon
  <2> QED
    BY <2>3, <2>4, Zenon
<1> HIDE DEF new
<1>6. Bitmap(Set(bm, c))
  BY <1>1, <1>3, <1>4 DEF Bitmap
<1> QED
  BY <1>4, <1>5, <1>6 DEF IsSet

-----------------------------------------------------------------------------
(***************************************************************************)
(* An allocator of a range that is not inverted, and the VNIs it has       *)
(* handed out.                                                             *)
(***************************************************************************)
VniAllocator(v) ==
    /\ v = [StartVni |-> v.StartVni, EndVni |-> v.EndVni, BM |-> v.BM]
    /\ v.StartVni \in Nat /\ v.EndVni \in Nat
    /\ v.StartVni <= v.EndVni /\ v.EndVni < UintRange
    /\ Bitmap(v.BM)
    /\ v.BM.numBits = v.EndVni - v.StartVni + 1

Taken(v) == {vni \in v.StartVni .. v.EndVni :
                IsSet(v.BM, vni - v.StartVni + 1)}

(***************************************************************************)
(* NewVxlanVniAllocator makes such an allocator, with nothing handed out,  *)
(* from every range that NetworkNodeOverlayMgr.validate would accept.      *)
(* (A range as wide as a uint32 is left out: its number of bits wraps      *)
(* to zero.)                                                               *)
(***************************************************************************)
THEOREM NewVniAllocator ==
    ASSUME NEW lo \in Nat, NEW hi \in Nat, lo <= hi, hi < UintRange,
           hi - lo + 1 < UintRange
    PROVE  LET v == NewVxlanVniAllocator(lo, hi)
           IN  VniAllocator(v) /\ Taken(v) = {}
<1> DEFINE v == NewVxlanVniAllocator(lo, hi)
           n == hi - lo + 1
           w == (n - 1) \div WordBits
<1>1. n \in Nat \ {0} /\ n < UintRange
  OBVIOUS
<1>2. Uint(n) = n /\ Uint(n - 1) = n - 1
  <2> HIDE DEF n
  <2>1. n - 1 \in Nat /\ n - 1 < UintRange
    BY <1>1, UintAssumption
  <2> QED
    BY <1>1, <2>1, UintSmall, Zenon
<1>3. w \in Nat /\ n <= (w + 1) * WordBits
  <2> HIDE DEF n
  <2>1. w = WordOf(n)
    BY Zenon DEF WordOf
  <2>2. /\ w \in Nat /\ PosOf(n) \in Word
        /\ n = w * WordBits + PosOf(n) + 1
    BY <1>1, <2>1, BitPlace, Zenon
  <2> HIDE DEF w
  <2>3. (w + 1) * WordBits = w * WordBits + WordBits /\ w * WordBits \in Nat
    BY <2>2, WordAssumption, Z3
  <2> QED
    BY <2>2, <2>3, WordAssumption DEF Word
<1>4. v = [StartVni |-> lo, EndVni |-> hi,
           BM |-> [words |-> [i \in 0 .. w |-> {}], numBits |-> n]]
  BY <1>2, Zenon DEF NewVxlanVniAllocator, NewBitmap
<1> HIDE DEF v, n, w
<1>5. Bitmap(v.BM)
  BY <1>1, <1>3, <1>4, Zenon DEF Bitmap
<1>6. \A b \in 1 .. n : WordOf(b) \in 0 .. w
  <2> TAKE b \in 1 .. n
  <2>1. b \in Nat \ {0} /\ b <= (w + 1) * WordBits
    BY <1>1, <1>3, WordAssumption
  <2> QED
    BY <1>3, <2>1, WordInRange, Zenon
<1>7. \A b : ~IsSet(v.BM, b)
  BY <1>4, <1>6, Zenon DEF IsSet
<1>8. VniAllocator(v)
  <2>1. v.BM.numBits = hi - lo + 1
    BY <1>4, Zenon DEF n
  <2> QED
    BY <1>4, <1>5, <2>1, Zenon DEF VniAllocator
<1>9. Taken(v) = {}
  BY <1>7, Zenon DEF Taken
<1> QED
  BY <1>8, <1>9, Zenon DEF v

(***************************************************************************)
(* AllocateVni hands out a VNI of the range that was not taken and takes   *)
(* only that one; it fails ("all vni's allocated") only when the whole     *)
(* range is taken.  Two connections of one run of the controller therefore *)
(* never share a VNI of a mesh.                                            *)
(***************************************************************************)
THEOREM VniAllocation ==
    ASSUME NEW v, VniAllocator(v)
    PROVE  /\ VniFree(v) =>
                  /\ AllocatedVni(v) \in (v.StartVni .. v.EndVni) \ Taken(v)
                  /\ VniAllocator(AllocateVni(v))
                  /\ Taken(AllocateVni(v)) = Taken(v) \cup {AllocatedVni(v)}
           /\ ~VniFree(v) => Taken(v) = v.StartVni .. v.EndVni
<1> DEFINE f   == FindFirstClear(v.BM)
           new == Set(v.BM, f)
<1>1. /\ v = [StartVni |-> v.StartVni, EndVni |-> v.EndVni, BM |-> v.BM]
      /\ v.StartVni \in Nat /\ v.EndVni \in Nat
      /\ v.StartVni <= v.EndVni /\ v.EndVni < UintRange
      /\ Bitmap(v.BM)
      /\ v.BM.numBits = v.EndVni - v.StartVni + 1
  BY Zenon DEF VniAllocator
<1>2. \A vni \in v.StartVni .. v.EndVni :
          vni - v.StartVni + 1 \in 1 .. v.BM.numBits
  BY <1>1
<1>3. \/ f \in 1 .. v.BM.numBits /\ ~IsSet(v.BM, f)
      \/ f = 0 /\ \A b \in 1 .. v.BM.numBits : IsSet(v.BM, b)
  BY <1>1, FirstClear, Zenon
<1> HIDE DEF f
<1>4. CASE f # 0
  <2>1. f \in 1 .. v.BM.numBits /\ ~IsSet(v.BM, f)
    BY <1>3, <1>4, Zenon
  <2>2. AllocatedVni(v) = f + v.StartVni - 1
    <3>1. f + v.StartVni - 1 \in Nat /\ f + v.StartVni - 1 < UintRange
      BY <1>1, <2>1, UintAssumption
    <3>2. Uint(f + v.StartVni - 1) = f + v.StartVni - 1
      BY <3>1, UintSmall, Zenon
    <3> QED
      BY <3>2, Zenon DEF AllocatedVni, f
  <2>3. AllocatedVni(v) \in (v.StartVni .. v.EndVni) \ Taken(v)
    BY <1>1, <2>1, <2>2 DEF Taken
  <2>4. AllocateVni(v) = [StartVni |-> v.StartVni, EndVni |-> v.EndVni,
                          BM |-> new]
    BY <1>1 DEF AllocateVni, f
  <2>5. /\ Bitmap(new) /\ new.numBits = v.BM.numBits
        /\ \A b \in 1 .. v.BM.numBits :
               IsSet(new, b) <=> IsSet(v.BM, b) \/ b = f
    BY <1>1, <2>1, SetOne, Zenon
  <2> HIDE DEF new
  <2>6. VniAllocator(AllocateVni(v))
    BY <1>1, <2>4, <2>5 DEF VniAllocator
  <2>7. Taken(AllocateVni(v)) = Taken(v) \cup {AllocatedVni(v)}
    <3>1. \A vni \in v.StartVni .. v.EndVni :
              IsSet(new, vni - v.StartVni + 1)
                  <=> IsSet(v.BM, vni - v.StartVni + 1) \/ vni = AllocatedVni(v)
      BY <1>1, <1>2, <2>1, <2>2, <2>5
    <3> QED
      BY <2>3, <2>4, <3>1 DEF Taken
  <2> QED
    BY <1>4, <2>3, <2>6, <2>7, Zenon DEF VniFree, f
<1>5. CASE f = 0
  BY <1>2, <1>3, <1>5 DEF VniFree, Taken, f
<1> QED
  BY <1>4, <1>5, Zenon

\* A number is given by its last byte and by what is shifted down.
LEMMA ByteAndRest ==
    ASSUME NEW n \in Nat, NEW m \in Nat, Shift8(n) = Shift8(m), n % 256 = m % 256
    PROVE  n = m
<1>1. n = 256 * Shift8(n) + (n % 256)  BY DEF Shift8
<1>2. m = 256 * Shift8(m) + (m % 256)  BY DEF Shift8
<1> QED  BY <1>1, <1>2

\* Three shifts leave one byte of a uint32.
LEMMA TopByte ==
    ASSUME NEW z \in Nat, z < 256 * 256 * 256 * 256
    PROVE  Shift8(Shift8(Shift8(z))) \in 0 .. 255
<1>1. PICK z1 \in Nat : z1 = Shift8(z) /\ z1 < 256 * 256 * 256
  BY DEF Shift8
<1>2. PICK z2 \in Nat : z2 = Shift8(z1) /\ z2 < 256 * 256
  BY <1>1 DEF Shift8
<1>3. Shift8(z2) \in 0 .. 255
  BY <1>2 DEF Shift8
<1> QED
  BY <1>1, <1>2, <1>3

(***************************************************************************)
(* formatMacAddress gives different counters different addresses, over all *)
(* of a uint32: the counter and not the text decides uniqueness.           *)
(***************************************************************************)
THEOREM MacAddressesDiffer ==
    ASSUME NEW x \in Nat, x < 256 * 256 * 256 * 256,
           NEW y \in Nat, y < 256 * 256 * 256 * 256,
           formatMacAddress(x) = formatMacAddress(y)
    PROVE  x = y
<1> DEFINE x1 == Shift8(x)    y1 == Shift8(y)
           x2 == Shift8(x1)   y2 == Shift8(y1)
           x3 == Shift8(x2)   y3 == Shift8(y2)
<1>1. /\ x3 % 256 = y3 % 256 /\ x2 % 256 = y2 % 256
      /\ x1 % 256 = y1 % 256 /\ x % 256 = y % 256
  BY SMT DEF formatMacAddress
<1>2. x3 \in 0 .. 255 /\ y3 \in 0 .. 255
  BY TopByte
<1>3. \A n \in Nat : Shift8(n) \in Nat
  BY DEF Shift8
<1>4. x1 \in Nat /\ y1 \in Nat /\ x2 \in Nat /\ y2 \in Nat
  BY <1>3, Zenon
<1>5. x3 = Shift8(x2) /\ y3 = Shift8(y2)
  BY Zenon
<1>6. x2 = Shift8(x1) /\ y2 = Shift8(y1)
  BY Zenon
<1>7. x1 = Shift8(x) /\ y1 = Shift8(y)
  BY Zenon
<1> HIDE DEF x1, y1, x2, y2, x3, y3
<1>8. x3 = y3
  <2>1. \A n \in 0 .. 255 : n % 256 = n
    OBVIOUS
  <2>2. x3 % 256 = x3 /\ y3 % 256 = y3
    BY <1>2, <2>1, Zenon
  <2> QED BY <1>1, <2>2, Zenon
<1>9. x2 = y2
  BY <1>1, <1>4, <1>5, <1>8, ByteAndRest, Zenon
<1>10. x1 = y1
  BY <1>1, <1>4, <1>6, <1>9, ByteAndRest, Zenon
<1> QED
  BY <1>1, <1>7, <1>10, ByteAndRest, Zenon

-----------------------------------------------------------------------------
(* Host names.                                                             *)

(***************************************************************************)
(* stringFirstNLastM keeps a short name and cuts a long one to n + m.      *)
(***************************************************************************)
LEMMA CutLength ==
    ASSUME NEW S, NEW str \in Seq(S), NEW n \in Nat, NEW m \in Nat
    PROVE  /\ stringFirstNLastM(n, m, str) \in Seq(S)
           /\ Len(stringFirstNLastM(n, m, str)) <= n + m
           /\ Len(stringFirstNLastM(n, m, str)) <= Len(str)
<1>1. CASE Len(str) <= n + m
  BY <1>1 DEF stringFirstNLastM
<1>2. CASE Len(str) > n + m
  <2> DEFINE k == Len(str) - m + 1
             head == SubSeq(str, 1, n)
             tail == SubSeq(str, k, Len(str))
  <2>1. Len(str) \in Nat /\ k \in 1 .. Len(str) + 1
    BY <1>2
  <2>2. head \in Seq(S) /\ Len(head) = n
    BY <1>2, <2>1
  <2>3. tail \in Seq(S) /\ Len(tail) = m
    BY <1>2, <2>1
  <2>4. stringFirstNLastM(n, m, str) = head \o tail
    BY <1>2, <2>1 DEF stringFirstNLastM
  <2> HIDE DEF head, tail, k
  <2>5. head \o tail \in Seq(S) /\ Len(head \o tail) = n + m
    BY <2>2, <2>3
  <2> QED
    BY <1>2, <2>4, <2>5
<1> QED
  BY <1>1, <1>2

LEMMA SpareIsNat ==
    ASSUME NEW S, NEW str \in Seq(S), NEW share \in Nat
    PROVE  Spare(str, share) \in Nat
<1>1. PICK n \in Nat : n = Len(str)
  OBVIOUS
<1>2. (IF n \in 1 .. share - 1 THEN share - n ELSE 0) \in Nat
  OBVIOUS
<1> QED
  BY <1>1, <1>2, Zenon DEF Spare

(***************************************************************************)
(* The shortened name fits the kernel's limit whatever the names of the    *)
(* pod and of the interface are ("a total of 15 chars").                   *)
(***************************************************************************)
THEOREM HostNameFits ==
    ASSUME NEW S, NEW container \in Seq(S), NEW port \in Seq(S)
    PROVE  Len(constructBaseHostName(container, port)) <= IfNameLen
<1> DEFINE c  == Spare(port, 7)
           p  == Spare(container, 8)
           cs == stringFirstNLastM(4 + (c + 1) \div 2, 4 + c \div 2, container)
           ps == stringFirstNLastM(3 + (p + 1) \div 2, 4 + p \div 2, port)
<1>1. /\ Len(container) \in Nat /\ Len(port) \in Nat
      /\ c = IF Len(port) \in 1 .. 6 THEN 7 - Len(port) ELSE 0
      /\ p = IF Len(container) \in 1 .. 7 THEN 8 - Len(container) ELSE 0
  BY DEF Spare
<1>2. c \in Nat /\ p \in Nat
  BY SpareIsNat, Zenon
<1>3. /\ cs \in Seq(S) /\ Len(cs) <= Len(container)
      /\ Len(cs) <= (4 + (c + 1) \div 2) + (4 + c \div 2)
  <2> HIDE DEF c
  <2>1. 4 + (c + 1) \div 2 \in Nat /\ 4 + c \div 2 \in Nat
    BY <1>2
  <2> QED
    BY <2>1, CutLength, Zenon
<1>4. /\ ps \in Seq(S) /\ Len(ps) <= Len(port)
      /\ Len(ps) <= (3 + (p + 1) \div 2) + (4 + p \div 2)
  <2> HIDE DEF p
  <2>1. 3 + (p + 1) \div 2 \in Nat /\ 4 + p \div 2 \in Nat
    BY <1>2
  <2> QED
    BY <2>1, CutLength, Zenon
<1>5. constructBaseHostName(container, port) = cs \o ps
  BY Zenon DEF constructBaseHostName
<1> HIDE DEF c, p, cs, ps
<1>6. Len(cs) <= 8 + c /\ Len(ps) <= 7 + p
  BY <1>2, <1>3, <1>4
<1>7. Len(cs) \in Nat /\ Len(ps) \in Nat /\ Len(cs \o ps) = Len(cs) + Len(ps)
  BY <1>3, <1>4
<1>8. Len(cs) + Len(ps) <= 15
  BY <1>1, <1>3, <1>4, <1>6, <1>7
<1> QED
  BY <1>5, <1>7, <1>8, Zenon DEF IfNameLen
=============================================================================
