--------------------------- MODULE IpamPoolsProofs ---------------------------
(***************************************************************************)
(* The operators of IpamAllocator and IpamPools and the typing of the pool *)
(* manager, for every width and every set of pools, nodes, services and    *)
(* requests: that a search of AllocateIPAddress ends with a free number of *)
(* the range, what InitInterfaceStatus does to the allocators and to the   *)
(* status whatever pools it runs through, and what each step leaves behind *)
(* in the allocators.                                                      *)
(***************************************************************************)
EXTENDS IpamPools, WellFoundedInduction, TLAPS

-----------------------------------------------------------------------------
(* Numbers.                                                                *)

\* A set of naturals that is not empty has a least element.
LEMMA LeastNumber ==
  ASSUME NEW S \in SUBSET Nat, S # {}
  PROVE  \E x \in S : \A y \in S : x <= y
<1> DEFINE Less == {p \in Nat \X Nat : p[1] < p[2]}
<1>1. IsWellFoundedOn(Less, Nat)
  BY NatLessThanWellFounded, Zenon DEF OpToRel
<1>2. PICK x \in S : \A y \in S : <<y, x>> \notin Less
  BY <1>1, WFMin, Zenon
<1>3. \A y, z \in Nat : y < z => <<y, z>> \in Less
  BY Zenon
<1> HIDE DEF Less
<1>4. ASSUME NEW y \in S PROVE x <= y
  <2>1. x \in Nat /\ y \in Nat
    BY Zenon
  <2>2. ~(y < x)
    BY <1>2, <1>3, <2>1, Zenon
  <2> QED BY <2>1, <2>2
<1> QED BY <1>4, Zenon

\* Induction up to N, for a set G of the numbers that are good.
LEMMA InductionUpTo ==
  ASSUME NEW N \in Nat, NEW G, 0 \in G, \A n \in 1..N : n - 1 \in G => n \in G
  PROVE  \A n \in 0..N : n \in G
<1> DEFINE Bad == {n \in 0..N : n \notin G}
<1> SUFFICES ASSUME Bad # {} PROVE FALSE
  BY Zenon
<1>1. PICK x \in Bad : \A y \in Bad : x <= y
  <2>1. Bad \in SUBSET Nat
    OBVIOUS
  <2> HIDE DEF Bad
  <2> QED BY <2>1, LeastNumber, Zenon
<1>2. x \in 1..N /\ x \notin G /\ x - 1 \in 0..N
  BY <1>1
<1>3. x - 1 \in G
  BY <1>1, <1>2
<1> QED BY <1>2, <1>3, Zenon

LEMMA PowersType == \A n \in 0..W : 2^n \in Nat \ {0}
<1> DEFINE G == {n \in 0..W : 2^n \in Nat \ {0}}
<1>1. W \in Nat
  BY WidthAssumption, Zenon
<1>2. 0 \in G
  BY <1>1, PowersAssumption
<1>3. ASSUME NEW n \in 1..W, n - 1 \in G PROVE n \in G
  <2>1. n - 1 \in 0..W - 1 /\ (n - 1) + 1 = n
    BY <1>1
  <2>2. 2^n = 2 * 2^(n - 1)
    BY <2>1, PowersAssumption, Zenon
  <2> QED BY <1>3, <2>2
<1> HIDE DEF G
<1>4. \A n \in 0..W : n \in G
  BY <1>1, <1>2, <1>3, InductionUpTo, Zenon
<1> QED BY <1>4, Zenon DEF G

LEMMA U32Facts ==
  /\ 2^W \in Nat \ {0} /\ MaxU32 \in Nat /\ U32 \subseteq Nat /\ 0 \in U32
  /\ \A n \in Int : Wrap(n) \in U32
  /\ \A n \in U32 : Wrap(n) = n
<1>1. PICK M \in Nat \ {0} : M = 2^W
  BY PowersType, WidthAssumption
<1>2. \A n \in Int : n % M \in 0..M - 1
  BY <1>1
<1>3. \A n \in 0..M - 1 : n % M = n
  BY <1>1
<1> QED BY <1>1, <1>2, <1>3 DEF MaxU32, U32, Wrap

\* A function may be defined by recursion up to N.
Recursive(f, N, S, r, g) ==
  f \in [0..N -> S] /\ f[0] = r /\ \A n \in 1..N : f[n] = g[<<n, f[n - 1]>>]

LEMMA RecursionUpTo ==
  ASSUME NEW N \in Nat, NEW S, NEW r \in S, NEW g \in [(1..N) \X S -> S]
  PROVE  \E f : Recursive(f, N, S, r, g)
<1> DEFINE G == {k \in 0..N : \E f : Recursive(f, k, S, r, g)}
<1>1. 0 \in G
  <2>1. Recursive([n \in 0..0 |-> r], 0, S, r, g)
    BY DEF Recursive
  <2> QED BY <2>1
<1>2. ASSUME NEW k \in 1..N, k - 1 \in G PROVE k \in G
  <2>1. PICK f : Recursive(f, k - 1, S, r, g)
    BY <1>2, Zenon
  <2>2. k - 1 \in 0..k - 1 /\ f[k - 1] \in S
    BY <2>1 DEF Recursive
  <2>3. PICK x \in S : x = g[<<k, f[k - 1]>>]
    BY <2>2, Zenon
  <2> DEFINE h == [n \in 0..k |-> IF n = k THEN x ELSE f[n]]
  <2>4. \A n \in 0..k - 1 : h[n] = f[n] /\ f[n] \in S
    BY <2>1 DEF Recursive
  <2>5. h[k] = x /\ h \in [0..k -> S]
    <3>1. h[k] = x
      OBVIOUS
    <3>2. \A n \in 0..k : n \in 0..k - 1 \/ n = k
      OBVIOUS
    <3>3. \A n \in 0..k : h[n] \in S
      BY <2>4, <3>1, <3>2, Zenon
    <3> QED BY <3>1, <3>3, Zenon
  <2>6. h[0] = r
    BY <2>1, <2>4 DEF Recursive
  <2>7. ASSUME NEW n \in 1..k PROVE h[n] = g[<<n, h[n - 1]>>]
    <3>1. n - 1 \in 0..k - 1
      OBVIOUS
    <3>2. h[n - 1] = f[n - 1]
      BY <2>4, <3>1, Zenon
    <3>3. CASE n = k
      BY <2>3, <2>5, <3>2, <3>3, Zenon
    <3>4. CASE n # k
      <4>1. n \in 1..k - 1 /\ n \in 0..k - 1
        BY <3>4
      <4>2. f[n] = g[<<n, f[n - 1]>>]
        BY <2>1, <4>1, Zenon DEF Recursive
      <4> QED BY <2>4, <3>2, <4>1, <4>2, Zenon
    <3> QED BY <3>3, <3>4, Zenon
  <2> HIDE DEF h
  <2>8. Recursive(h, k, S, r, g)
    BY <2>5, <2>6, <2>7, Zenon DEF Recursive
  <2> QED BY <2>8
<1> HIDE DEF G
<1>3. N \in G
  BY <1>1, <1>2, InductionUpTo
<1> QED BY <1>3, Zenon DEF G

-----------------------------------------------------------------------------
(* Addresses.                                                              *)

\* What BitOr adds for bit n.
OrBit(m, k, n) == IF Bit(m, n - 1) + Bit(k, n - 1) > 0 THEN 2^(n - 1) ELSE 0

\* The sums BitOr runs through.
LEMMA BitOrSums ==
  ASSUME NEW m \in U32, NEW k \in U32
  PROVE  \E up : /\ BitOr(m, k) = up[W] /\ up[0] = 0
                 /\ \A b \in 1..W : OrBit(m, k, b) \in Nat /\ OrBit(m, k, b) <= 2^(b - 1)
                                    /\ up[b] = up[b - 1] + OrBit(m, k, b)
<1>1. W \in Nat /\ W \in 0..W
  BY WidthAssumption
<1>2. \A n \in 1..W : OrBit(m, k, n) \in Nat /\ OrBit(m, k, n) <= 2^(n - 1)
  <2> SUFFICES ASSUME NEW n \in 1..W PROVE OrBit(m, k, n) \in Nat /\ OrBit(m, k, n) <= 2^(n - 1)
    BY Zenon
  <2>1. 2^(n - 1) \in Nat \ {0}
    BY <1>1, PowersType
  <2> QED BY <2>1 DEF OrBit
<1> DEFINE Sums(f) == f = [b \in 0..W |-> IF b = 0 THEN 0 ELSE f[b - 1] + OrBit(m, k, b)]
           up == CHOOSE f : Sums(f)
<1>3. BitOr(m, k) = up[W]
  BY Zenon DEF BitOr, OrBit
<1>4. \E f : Sums(f)
  <2> DEFINE g == [x \in (1..W) \X Nat |-> x[2] + OrBit(m, k, x[1])]
  <2>1. g \in [(1..W) \X Nat -> Nat]
    BY <1>2
  <2>2. PICK f : Recursive(f, W, Nat, 0, g)
    <3> HIDE DEF g
    <3> QED BY <1>1, <2>1, RecursionUpTo, Zenon
  <2>3. \A b \in 1..W : f[b] = f[b - 1] + OrBit(m, k, b)
    <3> SUFFICES ASSUME NEW b \in 1..W PROVE f[b] = f[b - 1] + OrBit(m, k, b)
      BY Zenon
    <3>1. b - 1 \in 0..W /\ f[b - 1] \in Nat /\ f[b] = g[<<b, f[b - 1]>>]
      <4> HIDE DEF g
      <4> QED BY <1>1, <2>2 DEF Recursive
    <3>2. <<b, f[b - 1]>> \in (1..W) \X Nat
      BY <3>1, Zenon
    <3> QED BY <3>1, <3>2, Zenon
  <2>4. Sums(f)
    BY <1>1, <2>2, <2>3 DEF Recursive
  <2> QED BY <2>4, Zenon
<1>5. Sums(up)
  BY <1>4, Zenon
<1> HIDE DEF up
<1>6. up[0] = 0 /\ \A b \in 1..W : up[b] = up[b - 1] + OrBit(m, k, b)
  BY <1>1, <1>5
<1> QED BY <1>2, <1>3, <1>6, Zenon

LEMMA BitOrType ==
  ASSUME NEW m \in U32, NEW k \in U32
  PROVE  BitOr(m, k) \in U32
<1>1. W \in Nat /\ W \in 0..W
  BY WidthAssumption
<1>2. PICK up : /\ BitOr(m, k) = up[W] /\ up[0] = 0
                /\ \A b \in 1..W : OrBit(m, k, b) \in Nat /\ OrBit(m, k, b) <= 2^(b - 1)
                                   /\ up[b] = up[b - 1] + OrBit(m, k, b)
  BY BitOrSums, Zenon
<1> DEFINE G == {b \in 0..W : up[b] \in Nat /\ up[b] < 2^b}
<1>7. 0 \in G
  BY <1>1, <1>2, PowersAssumption
<1>8. ASSUME NEW b \in 1..W, b - 1 \in G PROVE b \in G
  <2>1. b - 1 \in 0..W - 1 /\ (b - 1) + 1 = b
    BY <1>1
  <2>2. 2^b = 2 * 2^(b - 1) /\ 2^(b - 1) \in Nat
    BY <1>1, <2>1, PowersAssumption, PowersType
  <2>3. up[b - 1] \in Nat /\ up[b - 1] < 2^(b - 1)
    BY <1>8, Zenon
  <2>4. PICK p \in Nat, q \in Nat : p = 2^(b - 1) /\ q = OrBit(m, k, b) /\ q <= p
    BY <1>2, <2>2, Zenon
  <2> QED BY <1>2, <2>2, <2>3, <2>4
<1> HIDE DEF G
<1>9. W \in G
  BY <1>1, <1>7, <1>8, InductionUpTo, Zenon
<1> QED BY <1>2, <1>9, U32Facts DEF G, U32, MaxU32

\* A number is determined by its quotient and remainder.
LEMMA Division ==
  ASSUME NEW d \in Nat \ {0}, NEW q \in Nat, NEW r \in 0..d - 1, NEW x \in Nat, x = d * q + r
  PROVE  x \div d = q /\ x % d = r
OBVIOUS

\* The remainder of x by 2k: that by k, and the bit above it.
LEMMA Halves ==
  ASSUME NEW k \in Nat \ {0}, NEW x \in Nat
  PROVE  /\ (x \div k) % 2 \in {0, 1} /\ x % k \in 0..k - 1
         /\ x % (2 * k) = (x % k) + k * ((x \div k) % 2)
<1>1. PICK q \in Nat, r \in 0..k - 1 : q = x \div k /\ r = x % k /\ x = k * q + r
  OBVIOUS
<1>2. PICK t \in Nat : q = 2 * t \/ q = 2 * t + 1
  <2>1. q \div 2 \in Nat /\ (q = 2 * (q \div 2) \/ q = 2 * (q \div 2) + 1)
    OBVIOUS
  <2> QED BY <2>1, Zenon
<1>3. 2 * k \in Nat \ {0} /\ k \in Int /\ k + r \in 0..2 * k - 1 /\ r \in 0..2 * k - 1
  BY <1>1
<1>4. k * (2 * t) = (2 * k) * t
  OBVIOUS
<1>5. CASE q = 2 * t
  <2>1. q % 2 = 0 /\ x = (2 * k) * t + r
    BY <1>1, <1>4, <1>5
  <2>2. x % (2 * k) = r
    BY <1>3, <2>1, Division
  <2> QED BY <1>1, <2>1, <2>2
<1>6. CASE q = 2 * t + 1
  <2>1. q % 2 = 1
    BY <1>6
  <2>2. k * (2 * t + 1) = k * (2 * t) + k
    OBVIOUS
  <2>3. x = (2 * k) * t + (k + r)
    BY <1>1, <1>4, <1>6, <2>2
  <2>4. x % (2 * k) = k + r
    <3>1. PICK d \in Nat \ {0} : d = 2 * k /\ k + r \in 0..d - 1
      BY <1>3, Zenon
    <3>2. PICK y \in 0..d - 1 : y = k + r
      BY <3>1, Zenon
    <3>3. x = d * t + y
      BY <2>3, <3>1, <3>2, Zenon
    <3>4. x % d = y
      BY <3>3, Division
    <3> QED BY <3>1, <3>2, <3>4, Zenon
  <2> QED BY <1>1, <2>1, <2>4
<1> QED BY <1>2, <1>5, <1>6

\* What is a multiple of 2^h has no bit below h.
LEMMA Masked ==
  ASSUME NEW x \in Nat, NEW h \in 0..W, x % 2^h = 0
  PROVE  \A b \in 0..h - 1 : Bit(x, b) = 0
<1>1. W \in Nat /\ h \in Nat
  BY WidthAssumption
<1>2. ASSUME NEW b \in 0..h - 1, x % 2^(b + 1) = 0
      PROVE  x % 2^b = 0 /\ Bit(x, b) = 0
  <2>1. PICK k \in Nat \ {0} : k = 2^b /\ 2^(b + 1) = 2 * k
    <3>1. b \in 0..W /\ b \in 0..W - 1
      BY <1>1
    <3> QED BY <3>1, PowersType, PowersAssumption, Zenon
  <2>2. PICK s \in {0, 1}, r \in 0..k - 1 : s = (x \div k) % 2 /\ r = x % k /\ x % (2 * k) = r + k * s
    BY Halves, Zenon
  <2>3. r + k * s = 0
    BY <1>2, <2>1, <2>2, Zenon
  <2>4. s = 0 /\ r = 0
    BY <2>3
  <2> QED BY <2>1, <2>2, <2>4, Zenon DEF Bit
<1> DEFINE G == {n \in 0..h : x % 2^(h - n) = 0}
<1>3. 0 \in G
  <2>1. h - 0 = h /\ 0 \in 0..h
    BY <1>1
  <2> QED BY <2>1, Zenon
<1>4. ASSUME NEW n \in 1..h, n - 1 \in G PROVE n \in G
  <2>1. h - n \in 0..h - 1 /\ h - (n - 1) = (h - n) + 1 /\ n \in 0..h
    BY <1>1
  <2> QED BY <1>2, <1>4, <2>1, Zenon
<1> HIDE DEF G
<1>5. \A n \in 0..h : n \in G
  BY <1>1, <1>3, <1>4, InductionUpTo, Zenon
<1>6. ASSUME NEW b \in 0..h - 1 PROVE Bit(x, b) = 0
  <2>1. PICK n \in 0..h : h - n = b + 1
    <3>1. h - (b + 1) \in 0..h /\ h - (h - (b + 1)) = b + 1
      BY <1>1
    <3> QED BY <3>1, Zenon
  <2> QED BY <1>2, <1>5, <2>1, Zenon DEF G
<1> QED BY <1>6, Zenon

\* What is less than 2^h has no bit from h on.
LEMMA Short ==
  ASSUME NEW x \in Nat, NEW h \in 0..W, x < 2^h
  PROVE  \A b \in h..W : Bit(x, b) = 0
<1>1. W \in Nat /\ h \in Nat /\ W - h \in Nat
  BY WidthAssumption
<1> DEFINE G == {n \in 0..W - h : x < 2^(h + n)}
<1>2. 0 \in G
  <2>1. h + 0 = h /\ 0 \in 0..W - h
    BY <1>1
  <2> QED BY <2>1, Zenon
<1>3. ASSUME NEW n \in 1..W - h, n - 1 \in G PROVE n \in G
  <2>1. h + (n - 1) \in 0..W - 1 /\ h + n = (h + (n - 1)) + 1 /\ n \in 0..W - h /\ h + (n - 1) \in 0..W
    BY <1>1
  <2>2. PICK k \in Nat \ {0} : k = 2^(h + (n - 1)) /\ 2^(h + n) = 2 * k
    BY <2>1, PowersType, PowersAssumption, Zenon
  <2>3. x < k
    BY <1>3, <2>2, Zenon
  <2>4. x < 2 * k
    BY <2>3
  <2> QED BY <2>1, <2>2, <2>4, Zenon
<1> HIDE DEF G
<1>4. \A n \in 0..W - h : n \in G
  BY <1>1, <1>2, <1>3, InductionUpTo, Zenon
<1>5. ASSUME NEW b \in h..W PROVE Bit(x, b) = 0
  <2>1. b \in 0..W /\ b - h \in 0..W - h /\ h + (b - h) = b
    BY <1>1
  <2>2. PICK k \in Nat \ {0} : k = 2^b
    BY <2>1, PowersType, Zenon
  <2>3. x < k
    BY <1>4, <2>1, <2>2, Zenon DEF G
  <2>4. x \div k = 0
    BY <2>3
  <2>5. 0 % 2 = 0
    OBVIOUS
  <2> QED BY <2>2, <2>4, <2>5, Zenon DEF Bit
<1> QED BY <1>5, Zenon

\* The or of a multiple of 2^h and a number below 2^h is their sum.
LEMMA BitOrSum ==
  ASSUME NEW m \in U32, NEW k \in U32, NEW h \in 0..W, m % 2^h = 0, k < 2^h
  PROVE  BitOr(m, k) = m + k
<1>1. W \in Nat /\ W \in 0..W /\ m \in Nat /\ k \in Nat
  BY WidthAssumption, U32Facts
<1>2. PICK up : /\ BitOr(m, k) = up[W] /\ up[0] = 0
                /\ \A b \in 1..W : OrBit(m, k, b) \in Nat /\ OrBit(m, k, b) <= 2^(b - 1)
                                   /\ up[b] = up[b - 1] + OrBit(m, k, b)
  BY BitOrSums, Zenon
<1>3. \A b \in 0..W : Bit(m, b) = 0 \/ Bit(k, b) = 0
  <2>1. \A b \in 0..W : b \in 0..h - 1 \/ b \in h..W
    BY <1>1
  <2> QED BY <1>1, <2>1, Masked, Short, Zenon
<1> DEFINE G == {b \in 0..W : up[b] = (m % 2^b) + (k % 2^b)}
<1>4. 0 \in G
  <2>1. m % 1 = 0 /\ k % 1 = 0 /\ 0 + 0 = 0 /\ 0 \in 0..W
    BY <1>1
  <2> QED BY <1>2, <2>1, PowersAssumption, Zenon
<1>5. ASSUME NEW b \in 1..W, b - 1 \in G PROVE b \in G
  <2>1. b - 1 \in 0..W - 1 /\ (b - 1) + 1 = b /\ b - 1 \in 0..W /\ b \in 0..W
    BY <1>1
  <2>2. PICK c \in Nat \ {0} : c = 2^(b - 1) /\ 2^b = 2 * c
    BY <2>1, PowersType, PowersAssumption, Zenon
  <2>3. PICK s \in {0, 1}, r \in 0..c - 1 : s = (m \div c) % 2 /\ r = m % c /\ m % (2 * c) = r + c * s
    BY <1>1, Halves, Zenon
  <2>4. PICK t \in {0, 1}, u \in 0..c - 1 : t = (k \div c) % 2 /\ u = k % c /\ k % (2 * c) = u + c * t
    BY <1>1, Halves, Zenon
  <2>5. s = Bit(m, b - 1) /\ t = Bit(k, b - 1)
    BY <2>2, <2>3, <2>4, Zenon DEF Bit
  <2>6. s = 0 \/ t = 0
    BY <1>3, <2>1, <2>5, Zenon
  <2>7. OrBit(m, k, b) = IF s + t > 0 THEN c ELSE 0
    BY <2>2, <2>5, Zenon DEF OrBit
  <2>8. OrBit(m, k, b) = c * s + c * t
    <3>1. c * 0 = 0 /\ c * 1 = c /\ 0 + 0 = 0 /\ c + 0 = c /\ 0 + c = c
      OBVIOUS
    <3>2. ~(0 + 0 > 0) /\ 0 + 1 > 0 /\ 1 + 0 > 0
      OBVIOUS
    <3>3. CASE s = 0 /\ t = 0
      BY <2>7, <3>1, <3>2, <3>3
    <3>4. CASE s = 0 /\ t = 1
      BY <2>7, <3>1, <3>2, <3>4
    <3>5. CASE s = 1 /\ t = 0
      BY <2>7, <3>1, <3>2, <3>5
    <3> QED BY <2>6, <3>3, <3>4, <3>5
  <2>9. up[b] = (r + u) + (c * s + c * t)
    BY <1>2, <1>5, <2>2, <2>3, <2>4, <2>8, Zenon
  <2>10. c * s \in Int /\ c * t \in Int
    OBVIOUS
  <2>11. up[b] = (r + c * s) + (u + c * t)
    BY <2>9, <2>10
  <2> QED BY <2>1, <2>2, <2>3, <2>4, <2>11, Zenon
<1> HIDE DEF G
<1>6. W \in G
  BY <1>1, <1>4, <1>5, InductionUpTo, Zenon
<1>7. m % 2^W = m /\ k % 2^W = k
  BY U32Facts, Zenon DEF Wrap
<1> QED BY <1>2, <1>6, <1>7, Zenon DEF G

\* An address made of a masked network and a number that fits its host bits is
\* one of the network, and its host part is the number.
LEMMA InNetwork ==
  ASSUME NEW m \in U32, NEW k \in U32, NEW h \in 0..W, m % 2^h = 0, k < 2^h
  PROVE  BitOr(m, k) \div 2^h = m \div 2^h /\ BitOr(m, k) % 2^h = k
<1>1. m \in Nat /\ k \in Nat
  BY U32Facts, Zenon
<1>2. PICK d \in Nat \ {0} : d = 2^h
  BY PowersType, Zenon
<1>3. k \in 0..d - 1 /\ m + k \in Nat
  BY <1>1, <1>2
<1>4. PICK q \in Nat : q = m \div d /\ m = d * q
  <2>1. m % d = 0
    BY <1>2, Zenon
  <2>2. m \div d \in Nat /\ m = d * (m \div d)
    BY <1>1, <2>1
  <2> QED BY <2>2, Zenon
<1>5. PICK x \in Nat : x = m + k /\ x = d * q + k
  BY <1>3, <1>4, Zenon
<1>6. x \div d = q /\ x % d = k
  <2>1. PICK r \in 0..d - 1 : r = k
    BY <1>3, Zenon
  <2>2. x = d * q + r
    BY <1>5, <2>1, Zenon
  <2>3. x \div d = q /\ x % d = r
    BY <2>2, Division
  <2> QED BY <2>1, <2>3, Zenon
<1> QED BY <1>2, <1>4, <1>5, <1>6, BitOrSum, Zenon

LEMMA FirstFromFacts ==
  ASSUME NEW from \in U32, NEW ids \in SUBSET U32, ids # {}
  PROVE  FirstFrom(from, ids) \in ids
<1> DEFINE D == {Wrap(x - from) : x \in ids}
<1>1. \A x \in ids : Wrap(x - from) \in Nat
  <2>1. from \in Nat /\ \A x \in ids : x \in Nat
    BY U32Facts, Zenon
  <2>2. \A x \in ids : x - from \in Int
    BY <2>1
  <2> QED BY <2>2, U32Facts, Zenon
<1>2. D \in SUBSET Nat /\ D # {}
  BY <1>1, Zenon
<1>3. PICK d \in D : \A y \in D : d <= y
  <2> HIDE DEF D
  <2> QED BY <1>2, LeastNumber, Zenon
<1>4. \E x \in ids : \A y \in ids : Wrap(x - from) <= Wrap(y - from)
  BY <1>3, Zenon
<1> QED BY <1>4, Zenon DEF FirstFrom

\* An allocator whose first loop ends by itself, as it does when the range does
\* not reach the largest number; next is then a number of the range.
Sound(a) == a.end # MaxU32 /\ (a.next = a.start \/ (a.start <= a.next /\ a.next <= a.end))

LEMMA AllocatableFacts ==
  ASSUME NEW a \in Allocators, ~Exhausted(a)
  PROVE  /\ Allocatable(a) \in U32 \ a.allocated
         /\ Sound(a) => InRange(a, Allocatable(a))
<1> DEFINE F == Free(a, FirstLoop(a))
           S == Free(a, SecondLoop(a))
<1>1. a.start \in U32 /\ a.end \in U32 /\ a.next \in U32
  BY Zenon DEF Allocators
<1>2. /\ a.next..a.end \subseteq U32 /\ a.start..(a.next - 1) \subseteq U32
  BY <1>1, U32Facts DEF U32
<1>3. F \in SUBSET (U32 \ a.allocated) /\ S \in SUBSET (U32 \ a.allocated)
  BY <1>2, Zenon DEF Free, FirstLoop, SecondLoop
<1>4. F # {} \/ S # {}
  BY Zenon DEF Exhausted
<1>5. Sound(a) => (\A x \in F : InRange(a, x)) /\ (\A x \in S : InRange(a, x))
  <2>1. a.start \in Nat /\ a.end \in Nat /\ a.next \in Nat
    BY <1>1, U32Facts, Zenon
  <2>2. Sound(a) => FirstLoop(a) = a.next..a.end /\ SecondLoop(a) = a.start..(a.next - 1)
    BY Zenon DEF Sound, FirstLoop, SecondLoop
  <2>3. Sound(a) => a.next >= a.start /\ (a.next = a.start \/ a.next <= a.end)
    BY <2>1 DEF Sound
  <2>4. ASSUME Sound(a), NEW x \in F PROVE InRange(a, x)
    BY <2>1, <2>2, <2>3, <2>4 DEF InRange, Free
  <2>5. ASSUME Sound(a), NEW x \in S PROVE InRange(a, x)
    BY <2>1, <2>2, <2>3, <2>5 DEF InRange, Free
  <2> QED BY <2>4, <2>5, Zenon
<1>6. Allocatable(a) = IF F # {} THEN FirstFrom(a.next, F) ELSE FirstFrom(a.start, S)
  BY Zenon DEF Allocatable
<1> HIDE DEF F, S
<1>7. CASE F # {}
  <2>1. FirstFrom(a.next, F) \in F
    BY <1>1, <1>3, <1>7, FirstFromFacts, Zenon
  <2>2. PICK x \in F : x = Allocatable(a)
    BY <1>6, <1>7, <2>1, Zenon
  <2> QED BY <1>3, <1>5, <2>2, Zenon
<1>8. CASE F = {}
  BY <1>1, <1>3, <1>4, <1>5, <1>6, <1>8, FirstFromFacts, Zenon
<1> QED BY <1>7, <1>8, Zenon

LEMMA AllocateFacts ==
  ASSUME NEW a \in Allocators, ~Exhausted(a)
  PROVE  /\ AllocateIPAddress(a) \in Allocators
         /\ AllocateIPAddress(a).start = a.start /\ AllocateIPAddress(a).end = a.end
         /\ AllocateIPAddress(a).net = a.net
         /\ AllocateIPAddress(a).allocated = a.allocated \cup {Allocatable(a)}
         /\ Sound(a) => Sound(AllocateIPAddress(a))
<1>1. PICK id \in U32 : id = Allocatable(a) /\ (Sound(a) => InRange(a, id))
  BY AllocatableFacts, Zenon
<1>2. PICK next \in U32 : next = IF Wrap(id + 1) > a.end THEN a.start ELSE Wrap(id + 1)
  <2>1. id + 1 \in Int /\ a.start \in U32
    BY <1>1, U32Facts DEF Allocators
  <2> QED BY <2>1, U32Facts, Zenon
<1>3. AllocateIPAddress(a) = [a EXCEPT !.allocated = a.allocated \cup {id}, !.next = next]
  BY <1>1, <1>2, Zenon DEF AllocateIPAddress
<1>4. /\ AllocateIPAddress(a) \in Allocators
      /\ AllocateIPAddress(a).start = a.start /\ AllocateIPAddress(a).end = a.end
      /\ AllocateIPAddress(a).net = a.net /\ AllocateIPAddress(a).next = next
      /\ AllocateIPAddress(a).allocated = a.allocated \cup {id}
  BY <1>3, ZenonT(30) DEF Allocators
<1>5. Sound(a) => next = a.start \/ (a.start <= next /\ next <= a.end)
  <2> SUFFICES ASSUME Sound(a), next # a.start PROVE a.start <= next /\ next <= a.end
    BY Zenon
  <2>1. a.start \in Nat /\ a.end \in Nat /\ MaxU32 \in Nat /\ a.end <= MaxU32 /\ a.end # MaxU32
    BY U32Facts DEF Allocators, Sound, U32
  <2>2. id \in Nat /\ a.start <= id /\ id <= a.end
    BY <1>1, U32Facts, Zenon DEF InRange
  <2>3. id + 1 \in U32
    BY <2>1, <2>2 DEF U32
  <2>4. Wrap(id + 1) = id + 1
    BY <2>3, U32Facts, Zenon
  <2> QED BY <1>2, <2>1, <2>2, <2>4
<1> QED BY <1>1, <1>4, <1>5, Zenon DEF Sound

LEMMA NewFacts ==
  ASSUME NEW spec \in PoolSpecs
  PROVE  /\ NewIPAMPoolAllocator(spec) \in Allocators
         /\ NewIPAMPoolAllocator(spec).allocated = {}
         /\ NewIPAMPoolAllocator(spec).next = NewIPAMPoolAllocator(spec).start
<1>1. /\ spec.start \in U32 /\ spec.end \in U32 /\ spec.net \in U32 /\ spec.hostBits \in 0..W
  BY PoolSpecsAssumption, Zenon
<1>2. 1 \in U32
  <2>1. 2^W > 1
    <3>1. W - 1 \in 0..W - 1 /\ (W - 1) + 1 = W /\ W - 1 \in 0..W
      BY WidthAssumption
    <3>2. 2^W = 2 * 2^(W - 1) /\ 2^(W - 1) \in Nat \ {0}
      BY <3>1, PowersAssumption, PowersType, Zenon
    <3> QED BY <3>2
  <2> QED BY <2>1, U32Facts DEF U32, MaxU32
<1>3. PICK first \in U32 : first = IF spec.start = 0 THEN 1 ELSE spec.start
  BY <1>1, <1>2, Zenon
<1>4. PICK last \in U32 : last = IF spec.end = 0 THEN Wrap(2^spec.hostBits - 2) ELSE spec.end
  <2>1. 2^spec.hostBits - 2 \in Int
    BY <1>1, PowersType
  <2> QED BY <1>1, <2>1, U32Facts, Zenon
<1>5. PICK total \in U32 : total = Wrap(last - first + 1)
  <2>1. first \in Nat /\ last \in Nat
    BY U32Facts, Zenon
  <2>2. last - first + 1 \in Int
    BY <2>1
  <2> QED BY <2>2, U32Facts, Zenon
<1>6. NewIPAMPoolAllocator(spec) =
        [start |-> first, end |-> last, next |-> first, total |-> total,
         net |-> spec.net, allocated |-> {}]
  BY <1>3, <1>4, <1>5, Zenon DEF NewIPAMPoolAllocator
<1> QED BY <1>1, <1>6 DEF Allocators

LEMMA SetFacts ==
  ASSUME NEW a \in Allocators, NEW id \in U32
  PROVE  /\ SetAddress(a, id) \in Allocators
         /\ SetAddress(a, id).start = a.start /\ SetAddress(a, id).end = a.end
         /\ SetAddress(a, id).net = a.net /\ SetAddress(a, id).next = a.next
         /\ SetAddress(a, id).allocated = a.allocated \cup {id}
BY Zenon DEF SetAddress, Allocators

-----------------------------------------------------------------------------
(* InitInterfaceStatus.                                                    *)

AllocatorMaps == [AllocatorNames -> Allocators \cup {None, Nil}]
Results == [al : AllocatorMaps, st : IfaceStatuses, end : {"ok", "error", "panic"}]
PoolsOK == pools \in [Pools -> PoolSpecs \cup {None}]

LEMMA NameFacts ==
  ASSUME PoolsOK, NEW p \in Pools, pools[p] # None, NEW node \in Nodes, NEW service \in Entities
  PROVE  /\ AllocatorName(p, node, service) \in AllocatorNames
         /\ AllocatorName(p, node, service)[1] = pools[p].scope
         /\ AllocatorName(p, node, service)[2] = p
         /\ pools[p] \in PoolSpecs /\ pools[p].scope \in Scopes
<1>1. pools[p] \in PoolSpecs
  BY Zenon DEF PoolsOK
<1>2. pools[p].scope \in Scopes
  BY <1>1, PoolSpecsAssumption, Zenon
<1>3. PICK x \in Entities \cup {None} : AllocatorName(p, node, service) = <<pools[p].scope, p, x>>
  BY <1>2, Zenon DEF AllocatorName, Scopes, ScopeSystem, ScopeNode, ScopeService, Entities
<1> QED BY <1>1, <1>2, <1>3 DEF AllocatorNames

\* What becomes of an allocator while numbers are marked in it.
Grown(a, b) ==
  IF a \in {None, Nil} THEN b = a
  ELSE /\ b \notin {None, Nil} /\ a.allocated \subseteq b.allocated
       /\ b.start = a.start /\ b.end = a.end /\ b.net = a.net
       /\ Sound(a) => Sound(b)

\* The number x of pool p was free in al and is marked in al1.
Taken(al, al1, p, x, node, service) ==
  LET n == AllocatorName(p, node, service) IN
  /\ pools[p] # None /\ al[n] \notin {None, Nil}
  /\ x \in al1[n].allocated \ al[n].allocated
  /\ Sound(al[n]) => InRange(al[n], x)

\* From the result r to the result x numbers were only added, and those added
\* were free.
Extends(r, x, node, service) ==
  /\ x \in Results /\ x.st.node = r.st.node /\ x.st.made = r.st.made
  /\ \A n \in AllocatorNames : Grown(r.al[n], x.al[n])
  /\ \A p \in Pools : r.st.nums[p] # None => x.st.nums[p] = r.st.nums[p]
  /\ \A p \in Pools : r.st.nums[p] = None /\ x.st.nums[p] # None =>
       Taken(r.al, x.al, p, x.st.nums[p], node, service)

LEMMA ResultFacts ==
  ASSUME NEW r \in Results
  PROVE  /\ r.al \in AllocatorMaps /\ r.st \in IfaceStatuses /\ r.end \in {"ok", "error", "panic"}
         /\ r.st.nums \in [Pools -> Ids] /\ r.st.ips \in SUBSET U32
         /\ \A n \in AllocatorNames : r.al[n] \notin {None, Nil} => r.al[n] \in Allocators
BY Zenon DEF Results, IfaceStatuses, AllocatorMaps

LEMMA GrownSame == \A a : Grown(a, a)
BY Zenon DEF Grown

LEMMA ExtendsSame ==
  ASSUME NEW r \in Results, NEW node, NEW service
  PROVE  Extends(r, r, node, service)
BY GrownSame, Zenon DEF Extends

LEMMA GrownOn ==
  ASSUME NEW a, NEW b, NEW c, Grown(a, b), Grown(b, c)
  PROVE  Grown(a, c)
BY Zenon DEF Grown

LEMMA ExtendsOn ==
  ASSUME PoolsOK, NEW node \in Nodes, NEW service \in Entities,
         NEW r \in Results, NEW x, NEW y, Extends(r, x, node, service), Extends(x, y, node, service)
  PROVE  Extends(r, y, node, service)
<1>1. \A n \in AllocatorNames : Grown(r.al[n], x.al[n]) /\ Grown(x.al[n], y.al[n])
  BY Zenon DEF Extends
<1>2. \A n \in AllocatorNames : Grown(r.al[n], y.al[n])
  BY <1>1, GrownOn, Zenon
<1>3. ASSUME NEW p \in Pools, r.st.nums[p] = None, y.st.nums[p] # None
      PROVE  Taken(r.al, y.al, p, y.st.nums[p], node, service)
  <2> DEFINE n == AllocatorName(p, node, service)
  <2>1. CASE x.st.nums[p] # None
    <3>1. /\ Taken(r.al, x.al, p, x.st.nums[p], node, service) /\ y.st.nums[p] = x.st.nums[p]
      BY <1>3, <2>1, Zenon DEF Extends
    <3>2. n \in AllocatorNames
      BY <3>1, NameFacts, Zenon DEF Taken
    <3>3. Grown(r.al[n], x.al[n]) /\ Grown(x.al[n], y.al[n])
      BY <1>1, <3>2, Zenon
    <3> HIDE DEF n
    <3> QED BY <3>1, <3>3, Zenon DEF Taken, Grown, n
  <2>2. CASE x.st.nums[p] = None
    <3>1. Taken(x.al, y.al, p, y.st.nums[p], node, service)
      BY <1>3, <2>2, Zenon DEF Extends
    <3>2. n \in AllocatorNames
      BY <3>1, NameFacts, Zenon DEF Taken
    <3>3. Grown(r.al[n], x.al[n])
      BY <1>1, <3>2, Zenon
    <3> QED BY <3>1, <3>3, Zenon DEF Taken, Grown, InRange
  <2> QED BY <2>1, <2>2, Zenon
<1> QED BY <1>2, <1>3, Zenon DEF Extends

LEMMA AllocateAddressFacts ==
  ASSUME PoolsOK, NEW node \in Nodes, NEW service \in Entities, NEW p \in Pools,
         NEW r \in Results, r.st.nums[p] = None
  PROVE  /\ Extends(r, AllocateAddress(r, p, node, service), node, service)
         /\ AllocateAddress(r, p, node, service).end = "ok" =>
              AllocateAddress(r, p, node, service).st.nums[p] # None
<1> DEFINE n == AllocatorName(p, node, service)
           a == r.al[n]
           y == AllocateAddress(r, p, node, service)
<1>1. ASSUME NEW e \in {"error", "panic"}, y = [r EXCEPT !.end = e]
      PROVE  Extends(r, y, node, service) /\ y.end # "ok"
  <2>1. y \in Results /\ y.al = r.al /\ y.st = r.st /\ y.end = e
    BY <1>1, Zenon DEF Results
  <2> HIDE DEF y
  <2> QED BY <2>1, GrownSame, Zenon DEF Extends
<1>2. CASE ~Usable(r.al, p, node, service) \/ a = Nil \/ Exhausted(a) \/ ~r.st.made
  BY <1>1, <1>2, Zenon DEF AllocateAddress
<1>3. CASE Usable(r.al, p, node, service) /\ a # Nil /\ ~Exhausted(a) /\ r.st.made
  <2>1. pools[p] # None /\ a # None
    BY <1>3, Zenon DEF Usable
  <2>2. n \in AllocatorNames /\ a \in Allocators
    BY <1>3, <2>1, NameFacts, ResultFacts, Zenon
  <2>3. PICK id \in U32 \ a.allocated : id = Allocatable(a) /\ (Sound(a) => InRange(a, id))
    BY <1>3, <2>2, AllocatableFacts, Zenon
  <2>4. PICK b \in Allocators : b = AllocateIPAddress(a) /\ Grown(a, b) /\ id \in b.allocated
    BY <1>3, <2>2, <2>3, AllocateFacts, RecordsAssumption, Zenon DEF Grown
  <2>5. PICK addr \in U32 : addr = FormatIPAddress(a, id)
    BY <2>2, <2>3, BitOrType, Zenon DEF FormatIPAddress, Allocators
  <2>6. y = [al  |-> [r.al EXCEPT ![n] = b],
             st  |-> [r.st EXCEPT !.nums[p] = id, !.ips = r.st.ips \cup {addr}],
             end |-> "ok"]
    BY <1>3, <2>3, <2>4, <2>5, Zenon DEF AllocateAddress
  <2> HIDE DEF y, a, n
  <2>7. /\ [r.al EXCEPT ![n] = b] \in AllocatorMaps
        /\ [r.al EXCEPT ![n] = b][n] = b
        /\ \A m \in AllocatorNames : m # n => [r.al EXCEPT ![n] = b][m] = r.al[m]
    BY <2>2, ResultFacts, Zenon DEF AllocatorMaps
  <2>8. PICK st : st = [r.st EXCEPT !.nums[p] = id, !.ips = r.st.ips \cup {addr}]
    BY Zenon
  <2>9. /\ st \in IfaceStatuses /\ st.node = r.st.node /\ st.made = r.st.made /\ st.nums[p] = id
        /\ \A q \in Pools : q # p => st.nums[q] = r.st.nums[q]
    BY <2>3, <2>5, <2>8, ResultFacts, Zenon DEF IfaceStatuses, Ids
  <2>10. /\ y \in Results /\ y.st = st /\ y.end = "ok" /\ y.al[n] = b
         /\ \A m \in AllocatorNames : m # n => y.al[m] = r.al[m]
    BY <2>6, <2>7, <2>8, <2>9, Zenon DEF Results
  <2>11. \A m \in AllocatorNames : Grown(r.al[m], y.al[m])
    BY <2>4, <2>10, GrownSame, Zenon DEF a
  <2>12. Taken(r.al, y.al, p, id, node, service)
    BY <1>3, <2>1, <2>2, <2>3, <2>4, <2>10, RecordsAssumption, Zenon DEF Taken, a, n
  <2>13. id # None
    BY <2>3, NothingAssumption, Zenon
  <2>14. Extends(r, y, node, service)
    BY <2>9, <2>10, <2>11, <2>12, Zenon DEF Extends
  <2> QED BY <2>9, <2>10, <2>13, <2>14, Zenon DEF y
<1> QED BY <1>2, <1>3, Zenon

\* One round of the loop of AllocateAll.
Advance(x, p, node, service) ==
  IF x.end # "ok" \/ x.st.nums[p] # None THEN x ELSE AllocateAddress(x, p, node, service)

LEMMA AdvanceFacts ==
  ASSUME PoolsOK, NEW node \in Nodes, NEW service \in Entities, NEW p \in Pools, NEW x \in Results
  PROVE  /\ Extends(x, Advance(x, p, node, service), node, service)
         /\ Advance(x, p, node, service) \in Results
         /\ x.end # "ok" => Advance(x, p, node, service) = x
         /\ Advance(x, p, node, service).end = "ok" =>
              Advance(x, p, node, service).st.nums[p] # None
<1>1. CASE x.end # "ok" \/ x.st.nums[p] # None
  <2>1. PICK y : y = Advance(x, p, node, service) /\ y = x
    BY <1>1, Zenon DEF Advance
  <2>2. Extends(x, x, node, service)
    BY ExtendsSame, Zenon
  <2> QED BY <1>1, <2>1, <2>2, Zenon
<1>2. CASE x.end = "ok" /\ x.st.nums[p] = None
  <2>1. PICK y : y = AllocateAddress(x, p, node, service) /\ Advance(x, p, node, service) = y
    BY <1>2, Zenon DEF Advance
  <2>2. Extends(x, y, node, service) /\ (y.end = "ok" => y.st.nums[p] # None)
    BY <1>2, <2>1, AllocateAddressFacts, Zenon
  <2>3. y \in Results
    BY <2>2, Zenon DEF Extends
  <2> QED BY <1>2, <2>1, <2>2, <2>3, Zenon
<1> QED BY <1>1, <1>2, Zenon

Run(r, wanted, node, service) ==
  CHOOSE f : f = [n \in 0..Len(wanted) |->
                    IF n = 0 THEN r ELSE Advance(f[n - 1], wanted[n], node, service)]

LEMMA RunFacts ==
  ASSUME PoolsOK, NEW node \in Nodes, NEW service \in Entities,
         NEW r \in Results, NEW wanted \in Seq(Pools)
  PROVE  /\ Run(r, wanted, node, service)[0] = r
         /\ \A n \in 1..Len(wanted) :
              Run(r, wanted, node, service)[n] =
                Advance(Run(r, wanted, node, service)[n - 1], wanted[n], node, service)
<1> DEFINE N == Len(wanted)
           Rounds(f) == f = [n \in 0..N |->
                               IF n = 0 THEN r ELSE Advance(f[n - 1], wanted[n], node, service)]
           run == CHOOSE f : Rounds(f)
<1>1. N \in Nat /\ \A n \in 1..N : wanted[n] \in Pools
  OBVIOUS
<1>2. Run(r, wanted, node, service) = run
  BY Zenon DEF Run
<1> HIDE DEF N
<1>3. \E f : Rounds(f)
  <2> DEFINE g == [y \in (1..N) \X Results |-> Advance(y[2], wanted[y[1]], node, service)]
  <2>1. g \in [(1..N) \X Results -> Results]
    BY <1>1, AdvanceFacts, Zenon
  <2>2. PICK f : Recursive(f, N, Results, r, g)
    <3> HIDE DEF g
    <3> QED BY <1>1, <2>1, RecursionUpTo, Zenon
  <2>3. ASSUME NEW n \in 1..N PROVE f[n] = Advance(f[n - 1], wanted[n], node, service)
    <3>1. n - 1 \in 0..N /\ f[n - 1] \in Results /\ f[n] = g[<<n, f[n - 1]>>]
      <4> HIDE DEF g
      <4> QED BY <1>1, <2>2 DEF Recursive
    <3>2. <<n, f[n - 1]>> \in (1..N) \X Results
      BY <3>1, Zenon
    <3> QED BY <3>1, <3>2, Zenon
  <2> HIDE DEF g
  <2>4. f = [n \in 0..N |-> f[n]] /\ f[0] = r
    BY <2>2, Zenon DEF Recursive
  <2>5. \A n \in 0..N : f[n] = IF n = 0 THEN r ELSE Advance(f[n - 1], wanted[n], node, service)
    <3>1. \A n \in 0..N : n = 0 \/ n \in 1..N
      BY <1>1
    <3>2. \A n \in 1..N : n # 0
      BY <1>1
    <3> QED BY <2>3, <2>4, <3>1, <3>2, Zenon
  <2>6. Rounds(f)
    BY <2>4, <2>5, Zenon
  <2> QED BY <2>6, Zenon
<1>4. Rounds(run)
  BY <1>3, Zenon
<1> HIDE DEF run
<1>5. run[0] = r /\ \A n \in 1..N : run[n] = Advance(run[n - 1], wanted[n], node, service)
  BY <1>1, <1>4
<1> QED BY <1>2, <1>5, Zenon DEF N

LEMMA AllocateAllFacts ==
  ASSUME PoolsOK, NEW node \in Nodes, NEW service \in Entities,
         NEW r \in Results, NEW wanted \in Seq(Pools)
  PROVE  /\ Extends(r, AllocateAll(r, wanted, node, service), node, service)
         /\ AllocateAll(r, wanted, node, service).end = "ok" =>
              /\ r.end = "ok"
              /\ \A n \in 1..Len(wanted) :
                   AllocateAll(r, wanted, node, service).st.nums[wanted[n]] # None
<1>1. PICK N \in Nat : N = Len(wanted) /\ \A n \in 1..N : wanted[n] \in Pools
  OBVIOUS
<1>2. PICK f : f = Run(r, wanted, node, service)
  BY Zenon
<1>3. AllocateAll(r, wanted, node, service) = f[N]
  BY <1>1, <1>2, Zenon DEF AllocateAll, Run, Advance
<1>4. f[0] = r /\ \A n \in 1..N : f[n] = Advance(f[n - 1], wanted[n], node, service)
  BY <1>1, <1>2, RunFacts
<1> DEFINE Fine(n) ==
      /\ Extends(r, f[n], node, service)
      /\ f[n].end = "ok" => r.end = "ok" /\ \A m \in 1..n : f[n].st.nums[wanted[m]] # None
           G == {n \in 0..N : Fine(n)}
<1>5. 0 \in G
  BY <1>1, <1>4, ExtendsSame
<1>6. ASSUME NEW n \in 1..N, n - 1 \in G PROVE n \in G
  <2>1. PICK x \in Results : x = f[n - 1] /\ Extends(r, x, node, service)
    BY <1>6, Zenon DEF Extends
  <2>2. PICK y : y = Advance(x, wanted[n], node, service)
    BY Zenon
  <2>3. /\ Extends(x, y, node, service) /\ (x.end # "ok" => y = x)
        /\ y.end = "ok" => y.st.nums[wanted[n]] # None
    BY <1>1, <2>1, <2>2, AdvanceFacts, Zenon
  <2>4. f[n] = y /\ Extends(r, y, node, service)
    BY <1>4, <2>1, <2>2, <2>3, ExtendsOn, Zenon
  <2>5. y.end = "ok" => x.end = "ok"
    BY <2>3, Zenon
  <2>6. x.end = "ok" => r.end = "ok" /\ \A m \in 1..n - 1 : x.st.nums[wanted[m]] # None
    BY <1>6, <2>1, Zenon
  <2>7. \A m \in 1..n - 1 : x.st.nums[wanted[m]] # None =>
          y.st.nums[wanted[m]] = x.st.nums[wanted[m]]
    <3>1. \A m \in 1..n - 1 : wanted[m] \in Pools
      BY <1>1
    <3> QED BY <2>3, <3>1, Zenon DEF Extends
  <2>8. \A m \in 1..n : m \in 1..n - 1 \/ m = n
    OBVIOUS
  <2>9. y.end = "ok" => r.end = "ok" /\ \A m \in 1..n : y.st.nums[wanted[m]] # None
    BY <2>3, <2>5, <2>6, <2>7, <2>8, Zenon
  <2> QED BY <1>1, <2>4, <2>9
<1> HIDE DEF G
<1>7. \A n \in 1..N : n - 1 \in G => n \in G
  BY <1>6, Zenon
<1>8. \A n \in 0..N : n \in G
  BY <1>5, <1>7, InductionUpTo, Zenon
<1>9. Fine(N)
  BY <1>8 DEF G
<1> QED BY <1>1, <1>3, <1>9, Zenon

LEMMA SetAllFacts ==
  ASSUME PoolsOK, NEW node \in Nodes, NEW service \in Entities,
         NEW al \in AllocatorMaps, NEW st \in IfaceStatuses,
         NEW ps \in SUBSET Settable(al, st, node, service)
  PROVE  /\ SetAll(al, st, ps, node, service) \in AllocatorMaps
         /\ \A n \in AllocatorNames : Grown(al[n], SetAll(al, st, ps, node, service)[n])
         /\ \A p \in ps :
              /\ p \in Pools /\ pools[p] # None /\ st.nums[p] \in U32
              /\ al[AllocatorName(p, node, service)] \in Allocators
              /\ st.nums[p] \in SetAll(al, st, ps, node, service)[AllocatorName(p, node, service)].allocated
<1> DEFINE all == SetAll(al, st, ps, node, service)
           name(p) == AllocatorName(p, node, service)
<1>1. ASSUME NEW p \in ps
      PROVE  /\ p \in Pools /\ pools[p] # None /\ st.nums[p] \in U32
             /\ name(p) \in AllocatorNames /\ name(p)[2] = p /\ al[name(p)] \in Allocators
  <2>1. p \in Pools /\ st.nums[p] # None /\ Usable(al, p, node, service) /\ al[name(p)] # Nil
    BY Zenon DEF Settable, Held, NilHeld
  <2>2. pools[p] # None /\ al[name(p)] # None
    BY <2>1, Zenon DEF Usable
  <2>3. st.nums[p] \in U32
    BY <2>1, Zenon DEF IfaceStatuses, Ids
  <2> QED BY <2>1, <2>2, <2>3, NameFacts, Zenon DEF AllocatorMaps
<1>2. ASSUME NEW n \in AllocatorNames
      PROVE  /\ all[n] \in Allocators \cup {None, Nil} /\ Grown(al[n], all[n])
             /\ \A p \in ps : name(p) = n => st.nums[p] \in all[n].allocated
  <2>1. CASE \E p \in ps : name(p) = n
    <3>1. PICK p \in ps : name(p) = n
      BY <2>1, Zenon
    <3>2. al[n] \in Allocators /\ n[2] = p /\ st.nums[p] \in U32
      BY <1>1, <3>1, Zenon
    <3>3. all[n] = SetAddress(al[n], st.nums[p])
      BY <3>1, <3>2, Zenon DEF SetAll
    <3>4. all[n] \in Allocators /\ Grown(al[n], all[n]) /\ st.nums[p] \in all[n].allocated
      <4>1. PICK a \in Allocators, id \in U32 : a = al[n] /\ id = st.nums[p]
        BY <3>2, Zenon
      <4>2. all[n] = SetAddress(a, id)
        BY <3>3, <4>1, Zenon
      <4> HIDE DEF all
      <4>3. PICK b \in Allocators :
              /\ b = all[n] /\ b.start = a.start /\ b.end = a.end /\ b.net = a.net /\ b.next = a.next
              /\ b.allocated = a.allocated \cup {id}
        BY <4>2, SetFacts, Zenon
      <4>4. Grown(a, b)
        BY <4>3, RecordsAssumption, Zenon DEF Grown, Sound
      <4> QED BY <4>1, <4>3, <4>4, Zenon
    <3>5. \A q \in ps : name(q) = n => q = p
      BY <1>1, <3>2, Zenon
    <3> HIDE DEF all, name
    <3> QED BY <3>4, <3>5, Zenon
  <2>2. CASE ~\E p \in ps : name(p) = n
    <3>1. all[n] = al[n]
      BY <2>2, Zenon DEF SetAll
    <3> QED BY <2>2, <3>1, GrownSame, Zenon DEF AllocatorMaps
  <2> QED BY <2>1, <2>2, Zenon
<1>3. all = [n \in AllocatorNames |-> all[n]]
  BY Zenon DEF SetAll
<1> HIDE DEF all
<1>4. all \in AllocatorMaps
  BY <1>2, <1>3, Zenon DEF AllocatorMaps
<1> QED BY <1>1, <1>2, <1>4, Zenon DEF all

\* The status InitInterfaceStatus starts from.
Begin(i, node) == IF ifStates[i] # None THEN ifStates[i] ELSE IfaceStatus(node)

LEMMA BeginFacts ==
  ASSUME NEW i \in Ifaces, NEW node \in Nodes, ifStates \in [Ifaces -> IfaceStatuses \cup {None}]
  PROVE  Begin(i, node) \in IfaceStatuses
BY Zenon DEF Begin, IfaceStatus, IfaceStatuses, NoNums, Ids

\* The result r is GatherAddresses's before its loop over IpamPoolNames.
StartedFrom(r, i, ps, end, node, service) ==
  LET q    == GatherAddresses(i, ps, end, node, service)
      spec == entities[Owner(i)].spec[i]
  IN
  /\ r.al = SetAll(allocators, Begin(i, node), ps, node, service)
  /\ r.st.nums = Begin(i, node).nums /\ r.st.node = Begin(i, node).node /\ r.end = end
  /\ q = AllocateAll(r, spec.pools, node, service) /\ Extends(r, q, node, service)
  /\ q.end = "ok" => \A n \in 1..Len(spec.pools) : q.st.nums[spec.pools[n]] # None

LEMMA InitFacts ==
  ASSUME PoolsOK, NEW i \in Ifaces, NEW node \in Nodes, NEW service \in Entities,
         allocators \in AllocatorMaps, ifStates \in [Ifaces -> IfaceStatuses \cup {None}],
         entities[Owner(i)].spec[i] \in IfaceSpecs,
         NEW ps \in SetChoices(allocators, Begin(i, node), node, service),
         NEW end \in SetEnds(allocators, Begin(i, node), node, service)
  PROVE  \E r \in Results : StartedFrom(r, i, ps, end, node, service)
<1>1. PICK st \in IfaceStatuses : st = Begin(i, node)
  BY BeginFacts, Zenon
<1>2. PICK spec \in IfaceSpecs : spec = entities[Owner(i)].spec[i]
  BY Zenon
<1>3. spec.static \in SUBSET U32 /\ spec.pools \in Seq(Pools)
  BY <1>2, IfaceSpecsAssumption, Zenon
<1>4. ps \in SUBSET Settable(allocators, st, node, service)
  BY <1>1, Zenon DEF SetChoices
<1>5. end \in {"ok", "error", "panic"}
  BY Zenon DEF SetEnds
<1> DEFINE set == {FormatIPAddress(allocators[AllocatorName(p, node, service)], st.nums[p]) : p \in ps}
<1>6. set \in SUBSET U32
  <2> SUFFICES ASSUME NEW p \in ps
               PROVE  FormatIPAddress(allocators[AllocatorName(p, node, service)], st.nums[p]) \in U32
    BY Zenon
  <2>1. st.nums[p] \in U32 /\ allocators[AllocatorName(p, node, service)].net \in U32
    BY <1>1, <1>4, SetAllFacts, Zenon DEF Allocators
  <2> QED BY <2>1, BitOrType, Zenon DEF FormatIPAddress
<1>7. SetAll(allocators, st, ps, node, service) \in AllocatorMaps
  BY <1>1, <1>4, SetAllFacts, Zenon
<1>8. PICK r : r = [al |-> SetAll(allocators, st, ps, node, service),
                    st |-> [st EXCEPT !.ips = spec.static \cup set], end |-> end]
  BY Zenon
<1>9. GatherAddresses(i, ps, end, node, service) = AllocateAll(r, spec.pools, node, service)
  BY <1>1, <1>2, <1>8, Zenon DEF GatherAddresses, Begin
<1> HIDE DEF set
<1>10. PICK st1 \in IfaceStatuses :
         /\ st1 = [st EXCEPT !.ips = spec.static \cup set]
         /\ st1.nums = st.nums /\ st1.node = st.node /\ st1.made = st.made
  <2>1. PICK I : I = spec.static \cup set
    BY Zenon
  <2>2. I \in SUBSET U32
    BY <1>3, <1>6, <2>1, Zenon
  <2>3. [st EXCEPT !.ips = I] \in IfaceStatuses
    BY <2>2, Zenon DEF IfaceStatuses
  <2>4. /\ [st EXCEPT !.ips = I].nums = st.nums /\ [st EXCEPT !.ips = I].node = st.node
        /\ [st EXCEPT !.ips = I].made = st.made
    BY Zenon DEF IfaceStatuses
  <2> QED BY <2>1, <2>3, <2>4, Zenon
<1>11. /\ r \in Results /\ r.al = SetAll(allocators, st, ps, node, service)
       /\ r.st = st1 /\ r.end = end
  BY <1>5, <1>7, <1>8, <1>10, Zenon DEF Results
<1>12. /\ Extends(r, AllocateAll(r, spec.pools, node, service), node, service)
       /\ AllocateAll(r, spec.pools, node, service).end = "ok" =>
              /\ r.end = "ok"
              /\ \A n \in 1..Len(spec.pools) :
                   AllocateAll(r, spec.pools, node, service).st.nums[spec.pools[n]] # None
  BY <1>3, <1>11, AllocateAllFacts, Zenon
<1> QED BY <1>1, <1>2, <1>9, <1>10, <1>11, <1>12, Zenon DEF StartedFrom

-----------------------------------------------------------------------------
(* Owners, records and types.                                              *)

IfacesIn(e) == {IfacesOf[e][n] : n \in 1..Len(IfacesOf[e])}

LEMMA OwnerFacts ==
  /\ \A i \in Ifaces : Owner(i) \in Entities /\ i \in IfacesIn(Owner(i))
  /\ \A e \in Entities : IfacesIn(e) \in SUBSET Ifaces
  /\ \A e \in Entities : \A i \in IfacesIn(e) : Owner(i) = e
  /\ \A e \in Entities : IfacesOf[e] \in Seq(IfacesIn(e))
<1>1. \A e \in Entities : IfacesIn(e) \in SUBSET Ifaces
  BY Zenon DEF IfacesIn, Ifaces
<1>2. ASSUME NEW i \in Ifaces PROVE Owner(i) \in Entities /\ i \in IfacesIn(Owner(i))
  <2>1. \E e \in Entities : \E n \in 1..Len(IfacesOf[e]) : IfacesOf[e][n] = i
    BY Zenon DEF Ifaces
  <2> QED BY <2>1, Zenon DEF Owner, IfacesIn
<1>3. ASSUME NEW e \in Entities, NEW i \in IfacesIn(e) PROVE Owner(i) = e
  <2>1. PICK m \in 1..Len(IfacesOf[e]) : i = IfacesOf[e][m]
    BY Zenon DEF IfacesIn
  <2>2. i \in Ifaces
    BY <1>1, Zenon
  <2>3. PICK n \in 1..Len(IfacesOf[Owner(i)]) : i = IfacesOf[Owner(i)][n]
    BY <1>2, <2>2, Zenon DEF IfacesIn
  <2> QED BY <1>2, <2>1, <2>2, <2>3, IfacesAssumption, Zenon
<1>4. ASSUME NEW e \in Entities PROVE IfacesOf[e] \in Seq(IfacesIn(e))
  <2>1. IfacesOf[e] \in Seq(Ifaces)
    BY IfacesAssumption, Zenon
  <2>2. PICK s \in Seq(Ifaces) : s = IfacesOf[e]
    BY <2>1, Zenon
  <2>3. \A n \in 1..Len(s) : s[n] \in IfacesIn(e)
    BY <2>2, Zenon DEF IfacesIn
  <2>4. s \in Seq(IfacesIn(e))
    BY <2>3
  <2> QED BY <2>2, <2>4, Zenon
<1> QED BY <1>1, <1>2, <1>3, <1>4, Zenon

LEMMA NodeOfType ==
  ASSUME host \in [Ifaces -> Hosts], NEW i \in Ifaces
  PROVE  NodeOf(i) \in Nodes
BY OwnerFacts, EntitiesAssumption, Zenon DEF NodeOf

\* A cache of entities, or what etcd holds of them.
EntityMaps == {es \in [Entities -> (UNION {EntityRecords(e) : e \in Entities}) \cup {None}] :
                 \A e \in Entities : es[e] \in EntityRecords(e) \cup {None}}

NoError  == ""
Opers    == {"nil", NoError, "Up", "Down"}
Statuses == [oper : Opers, ifs : [Ifaces -> IfaceStatuses \cup {None}]]

LEMMA OperFacts ==
  /\ NoError \in Opers /\ "Down" \in Opers /\ "Up" \in Opers /\ "nil" \in Opers
  /\ NoError # "Down" /\ NoError # "Up" /\ NoError # "nil"
  /\ Verdict(NoError) = "Up"
  /\ \A oper : oper # NoError => Verdict(oper) = "Down"
  /\ \A oper : Verdict(oper) \in Opers
BY Zenon DEF NoError, Opers, Verdict

LEMMA EntityRecordFacts ==
  ASSUME NEW e \in Entities, NEW r \in EntityRecords(e)
  PROVE  /\ r.spec \in SpecsOf(e) /\ r.status \in Statuses /\ r.status.ifs \in [Ifaces -> IfaceStatuses \cup {None}]
         /\ r.status.oper \in Opers /\ r = [spec |-> r.spec, status |-> r.status]
         /\ r.status = [oper |-> r.status.oper, ifs |-> r.status.ifs]
         /\ r # None
<1>1. PICK S, O, F : /\ S = SpecsOf(e) /\ O = Opers
                     /\ F = [Ifaces -> IfaceStatuses \cup {None}]
                     /\ EntityRecords(e) = [spec : S, status : [oper : O, ifs : F]]
                     /\ Statuses = [oper : O, ifs : F]
  BY Zenon DEF EntityRecords, Statuses, Opers, NoError
<1>2. r \in [spec : S, status : [oper : O, ifs : F]]
  BY <1>1, Zenon
<1>4. r.spec \in S /\ r.status \in [oper : O, ifs : F] /\ r = [spec |-> r.spec, status |-> r.status]
  BY <1>2, Zenon
<1>5. PICK t \in [oper : O, ifs : F] : t = r.status
  BY <1>4, Zenon
<1>6. t.oper \in O /\ t.ifs \in F /\ t = [oper |-> t.oper, ifs |-> t.ifs]
  BY Zenon
<1>3. r # None
  BY RecordsAssumption, Zenon
<1> QED BY <1>1, <1>3, <1>4, <1>5, <1>6, Zenon

LEMMA EntityRecordMade ==
  ASSUME NEW e \in Entities, NEW spec \in SpecsOf(e), NEW status \in Statuses
  PROVE  [spec |-> spec, status |-> status] \in EntityRecords(e)
BY Zenon DEF EntityRecords, Statuses, Opers, NoError

LEMMA StatusMade ==
  ASSUME NEW oper \in Opers, NEW ifs \in [Ifaces -> IfaceStatuses \cup {None}]
  PROVE  [oper |-> oper, ifs |-> ifs] \in Statuses
BY Zenon DEF Statuses

LEMMA SpecFacts ==
  ASSUME NEW e \in Entities, NEW spec \in SpecsOf(e), NEW i \in IfacesIn(e)
  PROVE  spec[i] \in IfaceSpecs
BY Zenon DEF SpecsOf, IfacesIn

LEMMA EntityMapFacts ==
  ASSUME NEW es \in EntityMaps, NEW e \in Entities
  PROVE  /\ es[e] # None => es[e] \in EntityRecords(e)
         /\ e \in Configured(es) <=> es[e] # None
BY Zenon DEF EntityMaps, Configured

\* The same with another record for one entity.
Updated(es, e, r) == [es EXCEPT ![e] = r]

LEMMA EntityMapUpdate ==
  ASSUME NEW es \in EntityMaps, NEW e \in Entities, NEW r \in EntityRecords(e) \cup {None}
  PROVE  /\ Updated(es, e, r) \in EntityMaps
         /\ Updated(es, e, r)[e] = r
         /\ \A d \in Entities \ {e} : Updated(es, e, r)[d] = es[d]
<1>1. PICK R : R = (UNION {EntityRecords(d) : d \in Entities}) \cup {None}
  BY Zenon
<1>2. es \in [Entities -> R] /\ r \in R
  <2>1. es \in [Entities -> R]
    BY <1>1, Zenon DEF EntityMaps
  <2>2. EntityRecords(e) \subseteq UNION {EntityRecords(d) : d \in Entities}
    BY Zenon
  <2>3. PICK Q : Q = UNION {EntityRecords(d) : d \in Entities}
    BY Zenon
  <2>4. R = Q \cup {None} /\ EntityRecords(e) \subseteq Q
    BY <1>1, <2>2, <2>3, Zenon
  <2>5. r \in R
    BY <2>4, Zenon
  <2> QED BY <2>1, <2>5, Zenon
<1>3. /\ [es EXCEPT ![e] = r] \in [Entities -> R] /\ [es EXCEPT ![e] = r][e] = r
      /\ \A d \in Entities \ {e} : [es EXCEPT ![e] = r][d] = es[d]
  BY <1>2, Zenon
<1>4. \A d \in Entities : [es EXCEPT ![e] = r][d] \in EntityRecords(d) \cup {None}
  BY <1>3, Zenon DEF EntityMaps
<1> QED BY <1>1, <1>3, <1>4, Zenon DEF EntityMaps, Updated

\* The record of an entity with another status.
With(e, oper, ifs) == [spec |-> entities[e].spec, status |-> [oper |-> oper, ifs |-> ifs]]

LEMMA WithFacts ==
  ASSUME NEW e \in Entities, entities \in EntityMaps, entities[e] # None,
         NEW oper \in Opers, NEW ifs \in [Ifaces -> IfaceStatuses \cup {None}]
  PROVE  /\ With(e, oper, ifs) \in EntityRecords(e)
         /\ With(e, oper, ifs) # None
         /\ With(e, oper, ifs).spec = entities[e].spec
         /\ With(e, oper, ifs).status.oper = oper
         /\ With(e, oper, ifs).status.ifs = ifs
<1>1. entities[e].spec \in SpecsOf(e)
  BY EntityMapFacts, EntityRecordFacts, Zenon
<1>2. [oper |-> oper, ifs |-> ifs] \in Statuses
  BY StatusMade, Zenon
<1>3. With(e, oper, ifs) \in EntityRecords(e)
  BY <1>1, <1>2, EntityRecordMade, Zenon DEF With
<1>4. With(e, oper, ifs) # None
  BY <1>3, RecordsAssumption, Zenon
<1> QED BY <1>3, <1>4, Zenon DEF With

\* Names for the updates of an entity's status.
PutStatus(e, oper, ifs)  == [entities EXCEPT ![e].status = [oper |-> oper, ifs |-> ifs]]
PutOper(e, oper)         == [entities EXCEPT ![e].status.oper = oper]
PutIface(e, i, x)        == [entities EXCEPT ![e].status.ifs[i] = x]
PutError(e, i, x, oper)  == [entities EXCEPT ![e].status.ifs[i] = x, ![e].status.oper = oper]
WithIface(e, oper, i, x) == With(e, oper, [entities[e].status.ifs EXCEPT ![i] = x])

LEMMA EntityUpdates ==
  ASSUME NEW e \in Entities, entities \in EntityMaps, entities[e] # None,
         NEW oper, NEW ifs
  PROVE  /\ PutStatus(e, oper, ifs) = Updated(entities, e, With(e, oper, ifs))
         /\ PutOper(e, oper) = Updated(entities, e, With(e, oper, entities[e].status.ifs))
         /\ [entities[e] EXCEPT !.status.oper = oper] = With(e, oper, entities[e].status.ifs)
<1>1. /\ entities[e] = [spec |-> entities[e].spec, status |-> entities[e].status]
      /\ entities[e].status = [oper |-> entities[e].status.oper, ifs |-> entities[e].status.ifs]
  BY EntityMapFacts, EntityRecordFacts, Zenon
<1>2. PICK sp, op, fs : /\ sp = entities[e].spec /\ op = entities[e].status.oper
                        /\ fs = entities[e].status.ifs
                        /\ entities[e] = [spec |-> sp, status |-> [oper |-> op, ifs |-> fs]]
  BY <1>1, Zenon
<1>3. DOMAIN entities = Entities /\ entities = [d \in Entities |-> entities[d]]
  BY Zenon DEF EntityMaps
<1>4. [entities[e] EXCEPT !.status = [oper |-> oper, ifs |-> ifs]] = With(e, oper, ifs)
  BY <1>2 DEF With
<1>5. [entities[e] EXCEPT !.status.oper = oper] = With(e, oper, entities[e].status.ifs)
  BY <1>2 DEF With
<1>7. /\ [entities EXCEPT ![e].status = [oper |-> oper, ifs |-> ifs]] =
           [entities EXCEPT ![e] = With(e, oper, ifs)]
      /\ [entities EXCEPT ![e].status.oper = oper] =
           [entities EXCEPT ![e] = With(e, oper, entities[e].status.ifs)]
  BY <1>3, <1>4, <1>5, Zenon
<1> QED BY <1>5, <1>7, Zenon DEF PutStatus, PutOper, Updated

LEMMA InterfaceUpdate ==
  ASSUME NEW e \in Entities, entities \in EntityMaps, entities[e] # None, NEW i \in Ifaces, NEW x
  PROVE  PutIface(e, i, x) = Updated(entities, e, WithIface(e, entities[e].status.oper, i, x))
<1>1. /\ entities[e] = [spec |-> entities[e].spec, status |-> entities[e].status]
      /\ entities[e].status = [oper |-> entities[e].status.oper, ifs |-> entities[e].status.ifs]
  BY EntityMapFacts, EntityRecordFacts, Zenon
<1>2. PICK sp, op, fs : /\ sp = entities[e].spec /\ op = entities[e].status.oper
                        /\ fs = entities[e].status.ifs
                        /\ entities[e] = [spec |-> sp, status |-> [oper |-> op, ifs |-> fs]]
  BY <1>1, Zenon
<1>3. DOMAIN entities = Entities /\ entities = [d \in Entities |-> entities[d]]
  BY Zenon DEF EntityMaps
<1>6. [entities[e] EXCEPT !.status.ifs[i] = x] =
         With(e, entities[e].status.oper, [entities[e].status.ifs EXCEPT ![i] = x])
  BY <1>2 DEF With
<1> QED BY <1>3, <1>6, Zenon DEF PutIface, Updated, WithIface

LEMMA InterfaceError ==
  ASSUME NEW e \in Entities, entities \in EntityMaps, entities[e] # None, NEW i \in Ifaces, NEW x, NEW oper
  PROVE  PutError(e, i, x, oper) = Updated(entities, e, WithIface(e, oper, i, x))
<1>1. /\ entities[e] = [spec |-> entities[e].spec, status |-> entities[e].status]
      /\ entities[e].status = [oper |-> entities[e].status.oper, ifs |-> entities[e].status.ifs]
  BY EntityMapFacts, EntityRecordFacts, Zenon
<1>2. PICK sp, op, fs : /\ sp = entities[e].spec /\ op = entities[e].status.oper
                        /\ fs = entities[e].status.ifs
                        /\ entities[e] = [spec |-> sp, status |-> [oper |-> op, ifs |-> fs]]
  BY <1>1, Zenon
<1>3. DOMAIN entities = Entities /\ entities = [d \in Entities |-> entities[d]]
  BY Zenon DEF EntityMaps
<1>8. [entities EXCEPT ![e].status.ifs[i] = x] =
        [entities EXCEPT ![e] = With(e, entities[e].status.oper, [entities[e].status.ifs EXCEPT ![i] = x])]
  <2>1. PutIface(e, i, x) = Updated(entities, e, WithIface(e, entities[e].status.oper, i, x))
    BY InterfaceUpdate, Zenon
  <2> QED BY <2>1, Zenon DEF PutIface, Updated, WithIface
<1>9. [entities EXCEPT ![e].status.ifs[i] = x, ![e].status.oper = oper] =
        [entities EXCEPT ![e] = With(e, oper, [entities[e].status.ifs EXCEPT ![i] = x])]
  <2>1. PICK g : g = [entities EXCEPT ![e].status.ifs[i] = x]
    BY Zenon
  <2>2. [entities EXCEPT ![e].status.ifs[i] = x, ![e].status.oper = oper] = [g EXCEPT ![e].status.oper = oper]
    BY <2>1, Zenon
  <2>3. PICK fx : fx = [entities[e].status.ifs EXCEPT ![i] = x]
    BY Zenon
  <2>4. g = [entities EXCEPT ![e] = [spec |-> sp, status |-> [oper |-> op, ifs |-> fx]]]
    BY <1>2, <1>8, <2>1, <2>3, Zenon DEF With
  <2>5. g[e] = [spec |-> sp, status |-> [oper |-> op, ifs |-> fx]]
    BY <1>3, <2>4, Zenon
  <2>6. [g[e] EXCEPT !.status.oper = oper] = [spec |-> sp, status |-> [oper |-> oper, ifs |-> fx]]
    BY <2>5
  <2>7. [g EXCEPT ![e].status.oper = oper] = [entities EXCEPT ![e] = [spec |-> sp, status |-> [oper |-> oper, ifs |-> fx]]]
    BY <1>3, <2>4, <2>6, ZenonT(30)
  <2> QED BY <1>2, <2>2, <2>3, <2>7, Zenon DEF With
<1> QED BY <1>9, Zenon DEF PutError, Updated, WithIface

-----------------------------------------------------------------------------
(* Types.                                                                  *)

\* The entity being rendered is a configured one, its interfaces are its own,
\* and there is no work but while rendering.
WorkOK ==
  /\ cur # None => pc = "render" /\ cur \in Configured(entities) /\ rest \in Seq(IfacesIn(cur))
  /\ todo \subseteq Configured(entities)
  /\ pc # "render" => todo = {}

Typed == TypeOK /\ entities \in EntityMaps /\ saved \in EntityMaps /\ WorkOK

LEMMA TypedFacts ==
  ASSUME Typed
  PROVE  /\ PoolsOK /\ allocators \in AllocatorMaps
         /\ ifStates \in [Ifaces -> IfaceStatuses \cup {None}]
         /\ entities \in EntityMaps /\ saved \in EntityMaps
         /\ \A e \in Entities : entities[e] # None => entities[e] \in EntityRecords(e)
         /\ \A e \in Entities : saved[e] # None => saved[e] \in EntityRecords(e)
         /\ host \in [Ifaces -> Hosts]
BY EntityMapFacts, Zenon DEF Typed, TypeOK, PoolsOK, AllocatorMaps

\* What RenderInterface did, r being where the loop over IpamPoolNames began
\* and q where it ended.
RenderedInterface(i, r, q) ==
  /\ r.st.nums = Begin(i, NodeOf(i)).nums /\ r.st.node = Begin(i, NodeOf(i)).node
  /\ \A n \in AllocatorNames : Grown(allocators[n], r.al[n])
  /\ Extends(r, q, NodeOf(i), Owner(i))
  /\ q.end = "ok" => \A n \in 1..Len(entities[cur].spec[i].pools) :
                       q.st.nums[entities[cur].spec[i].pools[n]] # None
  /\ UNCHANGED <<pools, host, msgs, crashes>>
  /\ \/ /\ pc' = "panic" /\ ClearRAM
        /\ saved' = [saved EXCEPT ![cur] = With(cur, Verdict(entities[cur].status.oper), entities[cur].status.ifs)]
     \/ /\ q.end = "ok" /\ UNCHANGED <<saved, pc, todo, cur>> /\ rest' = Tail(rest)
        /\ allocators' = q.al /\ ifStates' = [ifStates EXCEPT ![i] = q.st]
        /\ entities' = [entities EXCEPT ![cur] =
             With(cur, entities[cur].status.oper, [entities[cur].status.ifs EXCEPT ![i] = q.st])]
     \/ /\ q.end = "error" /\ UNCHANGED <<saved, pc, todo, cur>> /\ rest' = <<>>
        /\ allocators' = q.al /\ ifStates' = [ifStates EXCEPT ![i] = None]
        /\ entities' = [entities EXCEPT ![cur] =
             With(cur, "Down", [entities[cur].status.ifs EXCEPT ![i] = None])]

\* What RenderInterface does for interface i when q are the addresses gathered:
\* it may panic after that in SetAddressIfInPool, whatever they are.
Handled(i, q) ==
  \/ /\ pc' = "panic" /\ ClearRAM
     /\ saved' = [saved EXCEPT ![cur] = [entities[cur] EXCEPT !.status.oper = Verdict(entities[cur].status.oper)]]
  \/ /\ q.end = "ok"
     /\ allocators' = q.al /\ ifStates' = [ifStates EXCEPT ![i] = q.st]
     /\ entities' = [entities EXCEPT ![cur].status.ifs[i] = q.st]
     /\ rest' = Tail(rest) /\ UNCHANGED <<saved, pc, todo, cur>>
  \/ /\ q.end = "error"
     /\ allocators' = q.al /\ ifStates' = [ifStates EXCEPT ![i] = None]
     /\ entities' = [entities EXCEPT ![cur].status.ifs[i] = None, ![cur].status.oper = "Down"]
     /\ rest' = <<>> /\ UNCHANGED <<saved, pc, todo, cur>>

LEMMA RenderInterfaceCall ==
  ASSUME RenderInterface, NEW i, i = Head(rest)
  PROVE  \E ps \in SetChoices(allocators, Begin(i, NodeOf(i)), NodeOf(i), Owner(i)),
            end \in SetEnds(allocators, Begin(i, NodeOf(i)), NodeOf(i), Owner(i)) :
           Handled(i, GatherAddresses(i, ps, end, NodeOf(i), Owner(i)))
<1>1. PICK ps \in SetChoices(allocators, Begin(i, NodeOf(i)), NodeOf(i), Owner(i)),
           end \in SetEnds(allocators, Begin(i, NodeOf(i)), NodeOf(i), Owner(i)) :
        Handled(i, InitInterfaceStatus(i, ps, end, NodeOf(i), Owner(i)))
  BY ZenonT(30) DEF RenderInterface, Begin, Handled
<1>2. PICK q : q = GatherAddresses(i, ps, end, NodeOf(i), Owner(i))
  BY Zenon
<1>3. PICK z : z = InitInterfaceStatus(i, ps, end, NodeOf(i), Owner(i))
  BY Zenon
<1>4. z = q \/ z = [al |-> q.al, st |-> q.st, end |-> "panic"]
  BY <1>2, <1>3, Zenon DEF InitInterfaceStatus
<1>5. Handled(i, z)
  BY <1>1, <1>3, Zenon
<1>6. z = [al |-> q.al, st |-> q.st, end |-> "panic"] => z.end = "panic" /\ z.end # "ok" /\ z.end # "error"
  OBVIOUS
<1>7. Handled(i, q)
  BY <1>4, <1>5, <1>6, Zenon DEF Handled
<1> QED BY <1>1, <1>2, <1>7, Zenon

LEMMA RenderInterfaceEffect ==
  ASSUME Typed, RenderInterface
  PROVE  /\ pc = "render" /\ cur \in Entities /\ entities[cur] # None
         /\ Head(rest) \in IfacesIn(cur) /\ Head(rest) \in Ifaces /\ Owner(Head(rest)) = cur
         /\ rest \in Seq(IfacesIn(cur)) /\ rest # <<>>
         /\ \E r, q \in Results : RenderedInterface(Head(rest), r, q)
<1>1. pc = "render" /\ cur \in Configured(entities) /\ rest \in Seq(IfacesIn(cur)) /\ rest # <<>>
  BY Zenon DEF RenderInterface, Typed, WorkOK
<1>2. cur \in Entities /\ entities[cur] # None
  BY <1>1, Zenon DEF Configured
<1>3. PICK i : i = Head(rest)
  BY Zenon
<1>4. i \in IfacesIn(cur)
  BY <1>1, <1>3
<1>5. i \in Ifaces /\ Owner(i) = cur
  BY <1>2, <1>4, OwnerFacts, Zenon
<1>6. NodeOf(i) \in Nodes
  BY <1>5, TypedFacts, NodeOfType, Zenon
<1>7. entities[Owner(i)].spec[i] \in IfaceSpecs
  BY <1>2, <1>4, <1>5, TypedFacts, EntityRecordFacts, SpecFacts, Zenon
<1>8. PICK ps \in SetChoices(allocators, Begin(i, NodeOf(i)), NodeOf(i), Owner(i)),
           end \in SetEnds(allocators, Begin(i, NodeOf(i)), NodeOf(i), Owner(i)) :
        Handled(i, GatherAddresses(i, ps, end, NodeOf(i), Owner(i)))
  BY <1>3, RenderInterfaceCall, Zenon
<1>9. PICK q : q = GatherAddresses(i, ps, end, NodeOf(i), Owner(i))
  BY Zenon
<1>10. PICK r \in Results :
         /\ r.al = SetAll(allocators, Begin(i, NodeOf(i)), ps, NodeOf(i), Owner(i))
         /\ r.st.nums = Begin(i, NodeOf(i)).nums /\ r.st.node = Begin(i, NodeOf(i)).node
         /\ Extends(r, q, NodeOf(i), Owner(i))
         /\ q.end = "ok" => \A n \in 1..Len(entities[Owner(i)].spec[i].pools) :
                              q.st.nums[entities[Owner(i)].spec[i].pools[n]] # None
  <2>1. /\ PoolsOK /\ allocators \in AllocatorMaps /\ Owner(i) \in Entities
        /\ ifStates \in [Ifaces -> IfaceStatuses \cup {None}]
    BY <1>2, <1>5, TypedFacts, Zenon
  <2>2. \E r \in Results : StartedFrom(r, i, ps, end, NodeOf(i), Owner(i))
    BY <1>5, <1>6, <1>7, <1>8, <2>1, InitFacts, Zenon
  <2> QED BY <1>9, <2>2, ZenonT(30) DEF StartedFrom
<1>11. q \in Results
  BY <1>10, ZenonT(30) DEF Extends
<1>12. \A n \in AllocatorNames : Grown(allocators[n], r.al[n])
  <2>1. PICK st \in IfaceStatuses : st = Begin(i, NodeOf(i))
    BY <1>5, <1>6, TypedFacts, BeginFacts, ZenonT(30)
  <2>2. ps \in SUBSET Settable(allocators, st, NodeOf(i), Owner(i))
    BY <2>1, Zenon DEF SetChoices
  <2> QED BY <1>2, <1>5, <1>6, <1>10, <2>1, <2>2, TypedFacts, SetAllFacts, ZenonT(30)
<1>13. UNCHANGED <<pools, host, msgs, crashes>>
  BY Zenon DEF RenderInterface
<1>14. RenderedInterface(i, r, q)
  <2>1. /\ cur \in Entities /\ entities \in EntityMaps /\ entities[cur] # None /\ i \in Ifaces
    BY <1>2, <1>5, TypedFacts, Zenon
  <2>3. [entities[cur] EXCEPT !.status.oper = Verdict(entities[cur].status.oper)] =
             With(cur, Verdict(entities[cur].status.oper), entities[cur].status.ifs)
    BY <2>1, EntityUpdates, Zenon
  <2>4. /\ PutIface(cur, i, q.st) = Updated(entities, cur, WithIface(cur, entities[cur].status.oper, i, q.st))
        /\ PutError(cur, i, None, "Down") = Updated(entities, cur, WithIface(cur, "Down", i, None))
    BY <2>1, InterfaceUpdate, InterfaceError, ZenonT(30)
  <2>5. /\ [entities EXCEPT ![cur].status.ifs[i] = q.st] = [entities EXCEPT ![cur] =
              With(cur, entities[cur].status.oper, [entities[cur].status.ifs EXCEPT ![i] = q.st])]
        /\ [entities EXCEPT ![cur].status.ifs[i] = None, ![cur].status.oper = "Down"] =
             [entities EXCEPT ![cur] = With(cur, "Down", [entities[cur].status.ifs EXCEPT ![i] = None])]
    BY <2>4, Zenon DEF PutIface, PutError, Updated, WithIface
  <2>2. q.end = "ok" => \A n \in 1..Len(entities[cur].spec[i].pools) :
                          q.st.nums[entities[cur].spec[i].pools[n]] # None
    BY <1>5, <1>10, Zenon
  <2> QED BY <1>8, <1>9, <1>10, <1>12, <1>13, <2>2, <2>3, <2>5, Zenon DEF RenderedInterface, Handled
<1> QED BY <1>1, <1>2, <1>3, <1>4, <1>5, <1>10, <1>11, <1>14, Zenon

LEMMA NewAllocatorFacts ==
  ASSUME NEW spec \in PoolSpecs
  PROVE  /\ NewAllocator(spec) \in Allocators \cup {Nil}
         /\ NewAllocator(spec) # None
         /\ spec.v6 => NewAllocator(spec) = Nil
         /\ ~spec.v6 => NewAllocator(spec) = NewIPAMPoolAllocator(spec) /\ NewAllocator(spec) \in Allocators
BY NewFacts, RecordsAssumption, NothingAssumption, Zenon DEF NewAllocator

LEMMA WantedFacts ==
  ASSUME NEW ps, NEW known, NEW n \in Wanted(ps, known)
  PROVE  n \in AllocatorNames /\ n[2] \in Pools /\ ps[n[2]] # None /\ ps[n[2]].scope = n[1]
<1>1. n \in AllocatorNames /\ ps[n[2]] # None /\ ps[n[2]].scope = n[1]
  BY Zenon DEF Wanted
<1>2. n[2] \in Pools
  BY <1>1, Zenon DEF AllocatorNames
<1> QED BY <1>1, <1>2, Zenon

LEMMA EntityCreateFacts ==
  ASSUME NEW ps \in [Pools -> PoolSpecs \cup {None}], allocators \in AllocatorMaps, NEW names
  PROVE  /\ EntityCreate(ps, names) \in AllocatorMaps
         /\ \A n \in AllocatorNames :
              \/ EntityCreate(ps, names)[n] = allocators[n]
              \/ /\ allocators[n] = None /\ n \in names /\ n \in Wanted(ps, Entities)
                 /\ ps[n[2]] \in PoolSpecs /\ EntityCreate(ps, names)[n] = NewAllocator(ps[n[2]])
<1> DEFINE new == EntityCreate(ps, names)
<1>1. new = [n \in AllocatorNames |-> new[n]]
  BY Zenon DEF EntityCreate
<1>2. ASSUME NEW n \in AllocatorNames
      PROVE  /\ new[n] \in Allocators \cup {None, Nil}
             /\ \/ new[n] = allocators[n]
                \/ /\ allocators[n] = None /\ n \in names /\ n \in Wanted(ps, Entities)
                   /\ ps[n[2]] \in PoolSpecs /\ new[n] = NewAllocator(ps[n[2]])
  <2>1. CASE n \in names \cap Wanted(ps, Entities) /\ allocators[n] = None
    <3>1. ps[n[2]] \in PoolSpecs
      BY <2>1, WantedFacts
    <3>2. new[n] = NewAllocator(ps[n[2]])
      BY <2>1, Zenon DEF EntityCreate
    <3> QED BY <2>1, <3>1, <3>2, NewAllocatorFacts, Zenon
  <2>2. CASE ~(n \in names \cap Wanted(ps, Entities) /\ allocators[n] = None)
    <3>1. new[n] = allocators[n]
      BY <2>2, Zenon DEF EntityCreate
    <3> QED BY <3>1, Zenon DEF AllocatorMaps
  <2> QED BY <2>1, <2>2, Zenon
<1> HIDE DEF new
<1>3. new \in AllocatorMaps
  BY <1>1, <1>2, Zenon DEF AllocatorMaps
<1> QED BY <1>2, <1>3, Zenon DEF new

LEMMA EntityDeleteFacts ==
  ASSUME NEW ps, allocators \in AllocatorMaps, NEW x, NEW scope
  PROVE  /\ EntityDelete(ps, x, scope) \in AllocatorMaps
         /\ \A n \in AllocatorNames :
              \/ EntityDelete(ps, x, scope)[n] = allocators[n]
              \/ EntityDelete(ps, x, scope)[n] = None /\ n[1] = scope /\ (scope = ScopeSystem \/ n[3] = x)
BY Zenon DEF EntityDelete, AllocatorMaps

LEMMA ReloadedFacts ==
  ASSUME NEW st \in IfaceStatuses \cup {None}
  PROVE  /\ Reloaded(st) \in IfaceStatuses \cup {None}
         /\ Reloaded(st) = None <=> st = None
         /\ st # None => Reloaded(st).nums = st.nums /\ Reloaded(st).node = st.node
                         /\ Held(Reloaded(st)) = Held(st)
                         /\ (Reloaded(st).made = FALSE => Held(st) = {})
<1>1. CASE st = None
  BY <1>1, Zenon DEF Reloaded
<1>2. CASE st # None
  <2>1. st \in IfaceStatuses
    BY <1>2, Zenon
  <2>2. PICK b \in BOOLEAN : b = (Held(st) # {})
    BY Zenon
  <2>3. Reloaded(st) = [st EXCEPT !.made = b]
    BY <1>2, <2>2, Zenon DEF Reloaded
  <2>4. /\ Reloaded(st) \in IfaceStatuses /\ Reloaded(st).nums = st.nums /\ Reloaded(st).node = st.node
        /\ Reloaded(st).made = b
    BY <2>1, <2>3, Zenon DEF IfaceStatuses
  <2>5. Held(Reloaded(st)) = Held(st)
    BY <2>4, Zenon DEF Held
  <2>6. Reloaded(st) # None
    BY <2>4, RecordsAssumption, Zenon
  <2> QED BY <1>2, <2>2, <2>4, <2>5, <2>6, Zenon
<1> QED BY <1>1, <1>2, Zenon

\* The interface statuses etcd holds, each with the entity that owns it.
SavedStates ==
  [i \in Ifaces |-> IF saved[Owner(i)] = None THEN None ELSE saved[Owner(i)].status.ifs[i]]

LEMMA SavedStatesFacts ==
  ASSUME saved \in EntityMaps
  PROVE  /\ SavedStates \in [Ifaces -> IfaceStatuses \cup {None}]
         /\ LoadedStates \in [Ifaces -> IfaceStatuses \cup {None}]
         /\ \A i \in Ifaces : LoadedStates[i] = Reloaded(SavedStates[i])
         /\ \A i \in Ifaces : SavedStates[i] # None =>
              saved[Owner(i)] # None /\ SavedStates[i] = saved[Owner(i)].status.ifs[i]
<1>1. ASSUME NEW i \in Ifaces
      PROVE  /\ SavedStates[i] \in IfaceStatuses \cup {None}
             /\ LoadedStates[i] = Reloaded(SavedStates[i])
             /\ SavedStates[i] # None => saved[Owner(i)] # None /\ SavedStates[i] = saved[Owner(i)].status.ifs[i]
  <2>1. Owner(i) \in Entities
    BY OwnerFacts, Zenon
  <2>2. CASE saved[Owner(i)] = None
    BY <2>2, Zenon DEF SavedStates, LoadedStates, Reloaded
  <2>3. CASE saved[Owner(i)] # None
    <3>1. saved[Owner(i)].status.ifs \in [Ifaces -> IfaceStatuses \cup {None}]
      BY <2>1, <2>3, EntityMapFacts, EntityRecordFacts, Zenon
    <3>2. saved[Owner(i)].status.ifs[i] \in IfaceStatuses \cup {None}
      BY <3>1, Zenon
    <3> QED BY <2>3, <3>2, Zenon DEF SavedStates, LoadedStates
  <2> QED BY <2>2, <2>3, Zenon
<1>2. \A i \in Ifaces : LoadedStates[i] \in IfaceStatuses \cup {None}
  BY <1>1, ReloadedFacts, Zenon
<1>3. /\ SavedStates = [i \in Ifaces |-> SavedStates[i]]
      /\ LoadedStates = [i \in Ifaces |-> LoadedStates[i]]
  BY Zenon DEF SavedStates, LoadedStates
<1> QED BY <1>1, <1>2, <1>3, Zenon

LEMMA LoadedNumsType ==
  ASSUME NEW choice, NEW n \in AllocatorNames, saved \in EntityMaps,
         \A j \in DOMAIN choice : /\ j \in Ifaces /\ LoadedStates[j] # None
                                  /\ choice[j] \subseteq Held(LoadedStates[j])
  PROVE  LoadedNums(n, choice) \in SUBSET U32
<1> SUFFICES ASSUME NEW j \in DOMAIN choice, n[2] \in choice[j]
             PROVE  LoadedStates[j].nums[n[2]] \in U32
  BY Zenon DEF LoadedNums
<1>1. LoadedStates[j] \in IfaceStatuses /\ n[2] \in Pools /\ LoadedStates[j].nums[n[2]] # None
  BY SavedStatesFacts, Zenon DEF Held
<1> QED BY <1>1, Zenon DEF IfaceStatuses, Ids

\* The allocators made at start-up, before any number is marked.
Fresh == [n \in AllocatorNames |->
            IF n \in Wanted(pools, Configured(saved)) THEN NewAllocator(pools[n[2]]) ELSE None]

LEMMA FreshFacts ==
  ASSUME PoolsOK
  PROVE  /\ Fresh \in AllocatorMaps
         /\ \A n \in AllocatorNames : Fresh[n] # None =>
              /\ n \in Wanted(pools, Configured(saved)) /\ pools[n[2]] \in PoolSpecs
              /\ Fresh[n] = NewAllocator(pools[n[2]])
<1>1. ASSUME NEW n \in AllocatorNames
      PROVE  /\ Fresh[n] \in Allocators \cup {None, Nil}
             /\ Fresh[n] # None =>
                  /\ n \in Wanted(pools, Configured(saved)) /\ pools[n[2]] \in PoolSpecs
                  /\ Fresh[n] = NewAllocator(pools[n[2]])
  <2>1. CASE n \in Wanted(pools, Configured(saved))
    <3>1. pools[n[2]] \in PoolSpecs
      BY <2>1, WantedFacts, Zenon DEF PoolsOK
    <3>2. Fresh[n] = NewAllocator(pools[n[2]])
      BY <2>1, Zenon DEF Fresh
    <3> QED BY <2>1, <3>1, <3>2, NewAllocatorFacts, Zenon
  <2>2. CASE n \notin Wanted(pools, Configured(saved))
    BY <2>2, Zenon DEF Fresh
  <2> QED BY <2>1, <2>2, Zenon
<1>2. Fresh = [n \in AllocatorNames |-> Fresh[n]]
  BY Zenon DEF Fresh
<1> QED BY <1>1, <1>2, Zenon DEF AllocatorMaps

\* What a start leaves in RAM.
Started(choice) ==
  /\ allocators' = [n \in AllocatorNames |->
                      IF Fresh[n] \in {None, Nil} THEN Fresh[n]
                      ELSE [Fresh[n] EXCEPT !.allocated = LoadedNums(n, choice)]]
  /\ ifStates' = LoadedStates
  /\ entities' \in EntityMaps
  /\ \A e \in Entities : saved[e] = None => entities'[e] = None
  /\ \A e \in Entities : saved[e] # None =>
       /\ entities'[e] # None /\ entities'[e].spec = saved[e].spec
       /\ \A i \in Ifaces : entities'[e].status.ifs[i] = Reloaded(saved[e].status.ifs[i])
  /\ pc' \in {"boot", "panic"} /\ UNCHANGED <<pools, saved, host, work, msgs, crashes>>

LEMMA LoadedEntity ==
  ASSUME NEW e \in Entities, NEW r \in EntityRecords(e)
  PROVE  \E x \in EntityRecords(e) :
           /\ x = [r EXCEPT !.status.ifs = [i \in Ifaces |-> Reloaded(r.status.ifs[i])]]
           /\ x.spec = r.spec
           /\ \A i \in Ifaces : x.status.ifs[i] = Reloaded(r.status.ifs[i])
<1>1. PICK sp, op, fs : /\ sp = r.spec /\ op = r.status.oper /\ fs = r.status.ifs
                        /\ r = [spec |-> sp, status |-> [oper |-> op, ifs |-> fs]]
  <2>1. r = [spec |-> r.spec, status |-> r.status] /\ r.status = [oper |-> r.status.oper, ifs |-> r.status.ifs]
    BY EntityRecordFacts, Zenon
  <2> QED BY <2>1, Zenon
<1>2. sp \in SpecsOf(e) /\ op \in Opers /\ fs \in [Ifaces -> IfaceStatuses \cup {None}]
  BY <1>1, EntityRecordFacts, Zenon
<1>3. PICK gs : gs = [i \in Ifaces |-> Reloaded(fs[i])]
  BY Zenon
<1>4. \A i \in Ifaces : Reloaded(fs[i]) \in IfaceStatuses \cup {None}
  BY <1>2, ReloadedFacts, Zenon
<1>5. gs \in [Ifaces -> IfaceStatuses \cup {None}] /\ \A i \in Ifaces : gs[i] = Reloaded(fs[i])
  BY <1>3, <1>4, Zenon
<1>6. PICK x : x = [spec |-> sp, status |-> [oper |-> op, ifs |-> gs]]
  BY Zenon
<1>7. x \in EntityRecords(e)
  BY <1>2, <1>5, <1>6, StatusMade, EntityRecordMade, Zenon
<1>8. x = [r EXCEPT !.status.ifs = gs]
  BY <1>1, <1>6
<1>9. x.spec = r.spec /\ x.status.ifs = gs
  BY <1>1, <1>6, Zenon
<1> QED BY <1>1, <1>3, <1>5, <1>7, <1>8, <1>9

LEMMA StartEffect ==
  ASSUME Typed, Start
  PROVE  /\ ~Up
         /\ \E choice :
              /\ DOMAIN choice = {i \in Ifaces : LoadedStates[i] # None}
              /\ \A i \in DOMAIN choice :
                   choice[i] \in SetChoices(Fresh, LoadedStates[i], LoadedStates[i].node, Owner(i))
              /\ Started(choice)
<1> DEFINE loaded == {i \in Ifaces : LoadedStates[i] # None}
<1>1. PICK choice \in [loaded -> SUBSET Pools] :
        /\ \A i \in loaded : choice[i] \in SetChoices(Fresh, LoadedStates[i], LoadedStates[i].node, Owner(i))
        /\ allocators' = [n \in AllocatorNames |->
                            IF Fresh[n] \in {None, Nil} THEN Fresh[n]
                            ELSE [Fresh[n] EXCEPT !.allocated = LoadedNums(n, choice)]]
  BY Zenon DEF Start, Fresh
<1>2. DOMAIN choice = loaded
  BY Zenon
<1>3. /\ ~Up /\ ifStates' = LoadedStates /\ pc' \in {"boot", "panic"}
      /\ UNCHANGED <<pools, saved, host, work, msgs, crashes>>
  BY Zenon DEF Start
<1>4. entities' = [e \in Entities |->
        IF saved[e] = None THEN None
        ELSE [saved[e] EXCEPT !.status.ifs = [i \in Ifaces |-> Reloaded(saved[e].status.ifs[i])]]]
  BY Zenon DEF Start
<1>5. ASSUME NEW e \in Entities
      PROVE  /\ entities'[e] \in EntityRecords(e) \cup {None}
             /\ saved[e] = None => entities'[e] = None
             /\ saved[e] # None =>
                  /\ entities'[e] # None /\ entities'[e].spec = saved[e].spec
                  /\ \A i \in Ifaces : entities'[e].status.ifs[i] = Reloaded(saved[e].status.ifs[i])
  <2>1. CASE saved[e] = None
    BY <1>4, <2>1, Zenon
  <2>2. CASE saved[e] # None
    <3>1. PICK r \in EntityRecords(e) : r = saved[e]
      BY <2>2, TypedFacts, Zenon
    <3>2. entities'[e] = [r EXCEPT !.status.ifs = [i \in Ifaces |-> Reloaded(r.status.ifs[i])]]
      BY <1>4, <2>2, <3>1, Zenon
    <3>3. PICK x \in EntityRecords(e) :
             /\ x = [r EXCEPT !.status.ifs = [i \in Ifaces |-> Reloaded(r.status.ifs[i])]]
             /\ x.spec = r.spec
             /\ \A i \in Ifaces : x.status.ifs[i] = Reloaded(r.status.ifs[i])
      BY LoadedEntity, Zenon
    <3>4. x = entities'[e] /\ x # None
      BY <3>2, <3>3, RecordsAssumption, Zenon
    <3> QED BY <2>2, <3>1, <3>3, <3>4, ZenonT(30)
  <2> QED BY <2>1, <2>2, Zenon
<1>6. entities' \in EntityMaps
  <2>1. PICK es : es = entities'
    BY Zenon
  <2>2. es = [e \in Entities |-> es[e]]
    BY <1>4, <2>1, Zenon
  <2>3. \A e \in Entities : es[e] \in EntityRecords(e) \cup {None}
    BY <1>5, <2>1, Zenon
  <2>4. PICK Q : Q = UNION {EntityRecords(e) : e \in Entities}
    BY Zenon
  <2>5. \A e \in Entities : EntityRecords(e) \subseteq Q
    BY <2>4, Zenon
  <2>6. es \in [Entities -> Q \cup {None}]
    BY <2>2, <2>3, <2>5, Zenon
  <2>7. es \in EntityMaps
    BY <2>3, <2>4, <2>6, Zenon DEF EntityMaps
  <2> QED BY <2>1, <2>7, Zenon
<1>7. Started(choice)
  BY <1>1, <1>3, <1>5, <1>6, Zenon DEF Started
<1> QED BY <1>1, <1>2, <1>3, <1>7, Zenon

LEMMA TypedInit == Init => Typed
<1> SUFFICES ASSUME Init PROVE Typed
  BY Zenon
<1>1. pools \in [Pools -> PoolSpecs \cup {None}] /\ allocators \in [AllocatorNames -> Allocators \cup {None, Nil}]
  BY Zenon DEF Init, NoNums, NoAllocators
<1>2. ifStates \in [Ifaces -> IfaceStatuses \cup {None}] /\ host \in [Ifaces -> Hosts]
  BY Zenon DEF Init, NoStatuses
<1>3. entities \in EntityMaps /\ saved \in EntityMaps
  BY Zenon DEF Init, NoEntities, EntityMaps
<1>4. todo = {} /\ cur = None /\ rest = <<>> /\ pc = "down" /\ msgs = 0 /\ crashes = 0
  BY Zenon DEF Init, NoWork
<1>5. \A e \in Entities : {entities[e], saved[e]} \subseteq EntityRecords(e) \cup {None}
  BY Zenon DEF Init, NoEntities
<1> QED BY <1>1, <1>2, <1>3, <1>4, <1>5, BoundsAssumption DEF Typed, TypeOK, WorkOK

\* What has to be shown of a step to keep the types.
LEMMA TypedStep ==
  ASSUME pools' \in [Pools -> PoolSpecs \cup {None}], allocators' \in AllocatorMaps,
         ifStates' \in [Ifaces -> IfaceStatuses \cup {None}],
         entities' \in EntityMaps, saved' \in EntityMaps, host' \in [Ifaces -> Hosts],
         pc' \in {"down", "panic", "boot", "idle", "render"}, cur' \in Entities \cup {None},
         rest' \in Seq(Ifaces), msgs' \in 0..MaxMsgs, crashes' \in 0..MaxCrashes,
         cur' # None => pc' = "render" /\ entities'[cur'] # None /\ rest' \in Seq(IfacesIn(cur')),
         \A e \in todo' : e \in Entities /\ entities'[e] # None,
         pc' # "render" => todo' = {}
  PROVE  Typed'
<1>1. \A e \in Entities : {entities[e]', saved[e]'} \subseteq EntityRecords(e) \cup {None}
  BY Zenon DEF EntityMaps
<1>2. TypeOK'
  BY <1>1, Zenon DEF TypeOK, AllocatorMaps
<1>3. WorkOK'
  BY Zenon DEF WorkOK, Configured
<1> QED BY <1>2, <1>3, Zenon DEF Typed

\* What the types say of the variables.
LEMMA TypedVars ==
  ASSUME Typed
  PROVE  /\ pools \in [Pools -> PoolSpecs \cup {None}] /\ allocators \in AllocatorMaps
         /\ ifStates \in [Ifaces -> IfaceStatuses \cup {None}]
         /\ entities \in EntityMaps /\ saved \in EntityMaps /\ host \in [Ifaces -> Hosts]
         /\ pc \in {"down", "panic", "boot", "idle", "render"} /\ cur \in Entities \cup {None}
         /\ rest \in Seq(Ifaces) /\ msgs \in 0..MaxMsgs /\ crashes \in 0..MaxCrashes
         /\ cur # None => pc = "render" /\ entities[cur] # None /\ rest \in Seq(IfacesIn(cur))
         /\ \A e \in todo : e \in Entities /\ entities[e] # None
         /\ pc # "render" => todo = {}
BY Zenon DEF Typed, TypeOK, WorkOK, AllocatorMaps, Configured

LEMMA ClearedTypes ==
  ASSUME ClearRAM
  PROVE  /\ allocators' \in AllocatorMaps /\ ifStates' \in [Ifaces -> IfaceStatuses \cup {None}]
         /\ entities' \in EntityMaps /\ todo' = {} /\ cur' = None /\ rest' = <<>> /\ rest' \in Seq(Ifaces)
         /\ \A e \in Entities : entities'[e] = None
<1>1. entities' \in EntityMaps /\ \A e \in Entities : entities'[e] = None
  BY Zenon DEF ClearRAM, NoEntities, EntityMaps
<1>2. allocators' \in AllocatorMaps /\ ifStates' \in [Ifaces -> IfaceStatuses \cup {None}]
  BY Zenon DEF ClearRAM, NoAllocators, NoStatuses, AllocatorMaps
<1> QED BY <1>1, <1>2 DEF ClearRAM

LEMMA TypedStart == Typed /\ Start => Typed'
<1> SUFFICES ASSUME Typed, Start PROVE Typed'
  BY Zenon
<1>1. PICK choice : /\ DOMAIN choice = {i \in Ifaces : LoadedStates[i] # None}
                    /\ \A i \in DOMAIN choice :
                         choice[i] \in SetChoices(Fresh, LoadedStates[i], LoadedStates[i].node, Owner(i))
                    /\ Started(choice)
  BY StartEffect, ZenonT(30)
<1>2. ASSUME NEW n \in AllocatorNames PROVE allocators'[n] \in Allocators \cup {None, Nil}
  <2>1. Fresh[n] \in Allocators \cup {None, Nil}
    BY FreshFacts, TypedFacts, Zenon DEF AllocatorMaps
  <2>2. \A j \in DOMAIN choice : choice[j] \subseteq Held(LoadedStates[j])
    BY <1>1, ZenonT(30) DEF SetChoices, Settable
  <2>3. LoadedNums(n, choice) \in SUBSET U32
    BY <1>1, <2>2, TypedFacts, LoadedNumsType, Zenon
  <2>4. CASE Fresh[n] \in {None, Nil}
    BY <1>1, <2>4, Zenon DEF Started
  <2>5. CASE Fresh[n] \notin {None, Nil}
    <3>1. allocators'[n] = [Fresh[n] EXCEPT !.allocated = LoadedNums(n, choice)]
      BY <1>1, <2>5, Zenon DEF Started
    <3>2. PICK a \in Allocators : a = Fresh[n]
      BY <2>1, <2>5, Zenon
    <3>3. PICK N \in SUBSET U32 : N = LoadedNums(n, choice)
      BY <2>3, Zenon
    <3>4. [a EXCEPT !.allocated = N] \in Allocators
      BY Zenon DEF Allocators
    <3> QED BY <3>1, <3>2, <3>3, <3>4, Zenon
  <2> QED BY <2>4, <2>5, Zenon
<1>3. allocators' = [n \in AllocatorNames |-> allocators'[n]]
  BY <1>1, Zenon DEF Started
<1>4. allocators' \in AllocatorMaps
  BY <1>2, <1>3, Zenon DEF AllocatorMaps
<1>5. pc \notin {"boot", "idle", "render"}
  BY StartEffect, Zenon DEF Up
<1>6. cur = None /\ todo = {}
  BY <1>5, TypedVars, Zenon
<1>7. /\ ifStates' = LoadedStates /\ entities' \in EntityMaps /\ pc' \in {"boot", "panic"}
      /\ UNCHANGED <<pools, saved, host, todo, cur, rest, msgs, crashes>>
  BY <1>1, Zenon DEF Started, work
<1> QED BY <1>4, <1>6, <1>7, TypedVars, SavedStatesFacts, TypedStep, Zenon

LEMMA TypedBootRender == Typed /\ BootRender => Typed'
<1> SUFFICES ASSUME Typed, BootRender PROVE Typed'
  BY Zenon
<1>1. /\ pc = "boot" /\ pc' = "render" /\ \A e \in todo' : e \in Entities /\ entities'[e] # None
  BY Zenon DEF BootRender, Configured
<1> QED BY <1>1, TypedVars, TypedStep, Zenon DEF BootRender

LEMMA TypedCrash == Typed /\ Crash => Typed'
<1> SUFFICES ASSUME Typed, Crash PROVE Typed'
  BY Zenon
<1>1. crashes' \in 0..MaxCrashes
  BY TypedVars, BoundsAssumption DEF Crash
<1>2. ClearRAM /\ pc' = "down" /\ UNCHANGED <<pools, saved, host, msgs>>
  BY Zenon DEF Crash
<1> QED BY <1>1, <1>2, TypedVars, ClearedTypes, TypedStep, Zenon

LEMMA TypedRenderEnd == Typed /\ RenderEnd => Typed'
<1> SUFFICES ASSUME Typed, RenderEnd PROVE Typed'
  BY Zenon
<1> QED BY TypedVars, TypedStep, Zenon DEF RenderEnd, work

\* What a request leaves to be done: at rest everything is to be rendered.
RequestMade ==
  /\ msgs' = msgs + 1 /\ msgs < MaxMsgs /\ UNCHANGED <<crashes, cur, rest>>
  /\ \/ pc = "boot" /\ pc' = "boot" /\ todo' = todo
     \/ pc = "idle" /\ pc' = "render" /\ todo' = Configured(entities')

LEMMA RequestTypes ==
  ASSUME Typed, RequestMade
  PROVE  /\ msgs' \in 0..MaxMsgs /\ crashes' \in 0..MaxCrashes /\ pc' \in {"boot", "render"}
         /\ cur' = None /\ rest' \in Seq(Ifaces)
         /\ \A e \in todo' : e \in Entities /\ entities'[e] # None
         /\ pc' # "render" => todo' = {}
<1>1. msgs' \in 0..MaxMsgs /\ crashes' \in 0..MaxCrashes
  BY TypedVars, BoundsAssumption DEF RequestMade
<1>2. cur' = None /\ rest' \in Seq(Ifaces) /\ pc' \in {"boot", "render"} /\ (pc' # "render" => todo' = {})
  BY TypedVars, Zenon DEF RequestMade
<1>3. \A e \in todo' : e \in Entities /\ entities'[e] # None
  BY TypedVars, Zenon DEF RequestMade, Configured
<1> QED BY <1>1, <1>2, <1>3, Zenon

LEMMA PoolCUEffect ==
  ASSUME Typed, NEW p \in Pools, NEW spec \in PoolSpecs, PoolCU(p, spec)
  PROVE  /\ RequestMade /\ pools' = [pools EXCEPT ![p] = spec]
         /\ allocators' = EntityCreate(pools', {n \in Wanted(pools', Configured(entities)) : n[1] = spec.scope})
         /\ pools' \in [Pools -> PoolSpecs \cup {None}]
         /\ UNCHANGED <<ifStates, entities, saved, host>>
         /\ (IF pools[p] = None THEN "setPool" ELSE "changePool") \in Requests
<1>1. /\ pools' = [pools EXCEPT ![p] = spec] /\ UNCHANGED <<ifStates, entities, saved, host>>
      /\ (IF pools[p] = None THEN "setPool" ELSE "changePool") \in Requests
  BY Zenon DEF PoolCU, Request
<1>2. allocators' = EntityCreate(pools', {n \in Wanted(pools', Configured(entities)) : n[1] = spec.scope})
  BY <1>1, Zenon DEF PoolCU
<1>3. RequestMade
  <2>1. /\ \E kind : Request(kind) /\ RenderIfRunning(entities)
        /\ pc \in {"boot", "idle"}
    BY Zenon DEF PoolCU
  <2> QED BY <1>1, <2>1, Zenon DEF Request, RenderIfRunning, RequestMade
<1>4. pools' \in [Pools -> PoolSpecs \cup {None}]
  BY <1>1, TypedVars, Zenon
<1> QED BY <1>1, <1>2, <1>3, <1>4, Zenon

LEMMA TypedPoolCU ==
  ASSUME Typed, NEW p \in Pools, NEW spec \in PoolSpecs, PoolCU(p, spec)
  PROVE  Typed'
<1>1. allocators' \in AllocatorMaps
  <2>1. pools' \in [Pools -> PoolSpecs \cup {None}] /\ \E names : allocators' = EntityCreate(pools', names)
    BY PoolCUEffect, Zenon
  <2> QED BY <2>1, EntityCreateFacts, TypedVars
<1>2. /\ RequestMade /\ pools' \in [Pools -> PoolSpecs \cup {None}]
      /\ UNCHANGED <<ifStates, entities, saved, host>>
  BY PoolCUEffect, ZenonT(30)
<1> QED BY <1>1, <1>2, RequestTypes, TypedVars, TypedStep, Zenon

LEMMA TypedPoolD ==
  ASSUME Typed, NEW p \in Pools, PoolD(p)
  PROVE  Typed'
<1>1. allocators' \in AllocatorMaps
  <2>1. \E ps, x, scope : allocators' = EntityDelete(ps, x, scope)
    BY Zenon DEF PoolD
  <2> QED BY <2>1, EntityDeleteFacts, TypedVars
<1>2. pools' \in [Pools -> PoolSpecs \cup {None}] /\ UNCHANGED <<ifStates, entities, saved, host>>
  BY TypedVars, Zenon DEF PoolD
<1>3. RequestMade
  BY <1>2, Zenon DEF PoolD, Request, RenderIfRunning, RequestMade
<1> QED BY <1>1, <1>2, <1>3, RequestTypes, TypedVars, TypedStep, Zenon

LEMMA TypedMove ==
  ASSUME Typed, NEW i \in Ifaces, NEW n \in Hosts, Move(i, n)
  PROVE  Typed'
<1>1. host' \in [Ifaces -> Hosts] /\ UNCHANGED <<pools, allocators, ifStates, entities, saved>>
  BY TypedVars, Zenon DEF Move
<1>2. RequestMade
  BY <1>1, Zenon DEF Move, Request, RenderIfRunning, RequestMade
<1> QED BY <1>1, <1>2, RequestTypes, TypedVars, TypedStep, ZenonT(30)

LEMMA NilStatusType == NilStatus \in Statuses /\ NoStatuses \in [Ifaces -> IfaceStatuses \cup {None}]
BY Zenon DEF NilStatus, NoStatuses, Statuses, Opers, NoError

LEMMA EntityCUEffect ==
  ASSUME Typed, NEW e \in Entities, NEW spec \in SpecsOf(e), EntityCU(e, spec)
  PROVE  /\ RequestMade
         /\ entities' \in EntityMaps /\ saved' \in EntityMaps
         /\ entities'[e] = [spec |-> spec, status |-> NilStatus] /\ saved'[e] = entities'[e]
         /\ entities'[e] # None
         /\ \A d \in Entities \ {e} : entities'[d] = entities[d] /\ saved'[d] = saved[d]
         /\ allocators' = EntityCreate(pools, {n \in AllocatorNames : n[1] = ScopeOf(e) /\ n[3] = e})
         /\ UNCHANGED <<pools, ifStates, host>>
<1>1. PICK new : new = [spec |-> spec, status |-> NilStatus]
  BY Zenon
<1>2. new \in EntityRecords(e)
  BY <1>1, NilStatusType, EntityRecordMade, Zenon
<1>3. /\ entities' = [entities EXCEPT ![e] = new] /\ saved' = [saved EXCEPT ![e] = new]
      /\ allocators' = EntityCreate(pools, {n \in AllocatorNames : n[1] = ScopeOf(e) /\ n[3] = e})
      /\ UNCHANGED <<pools, ifStates, host>>
  BY <1>1, Zenon DEF EntityCU
<1>4. /\ entities' \in EntityMaps /\ saved' \in EntityMaps /\ entities'[e] = new /\ saved'[e] = new
      /\ \A d \in Entities \ {e} : entities'[d] = entities[d] /\ saved'[d] = saved[d]
  <2>1. entities' = Updated(entities, e, new) /\ saved' = Updated(saved, e, new)
    BY <1>3, Zenon DEF Updated
  <2> QED BY <1>2, <2>1, TypedVars, EntityMapUpdate
<1>5. RequestMade
  <2>1. Request("set") /\ pc \in {"boot", "idle"} /\ RenderIfRunning(entities')
    BY Zenon DEF EntityCU
  <2> QED BY <2>1, Zenon DEF Request, RenderIfRunning, RequestMade
<1>6. new # None
  BY <1>2, RecordsAssumption, Zenon
<1> QED BY <1>1, <1>3, <1>4, <1>5, <1>6, Zenon

LEMMA TypedEntityCU ==
  ASSUME Typed, NEW e \in Entities, NEW spec \in SpecsOf(e), EntityCU(e, spec)
  PROVE  Typed'
<1>1. allocators' \in AllocatorMaps
  <2>1. \E names : allocators' = EntityCreate(pools, names)
    BY EntityCUEffect, Zenon
  <2> QED BY <2>1, EntityCreateFacts, TypedVars
<1>2. /\ RequestMade /\ entities' \in EntityMaps /\ saved' \in EntityMaps
      /\ UNCHANGED <<pools, ifStates, host>>
  BY EntityCUEffect, ZenonT(30)
<1> QED BY <1>1, <1>2, RequestTypes, TypedVars, TypedStep, Zenon

LEMMA EntityDEffect ==
  ASSUME Typed, NEW e \in Entities, EntityD(e)
  PROVE  /\ RequestMade /\ pc = "idle" /\ entities[e] # None
         /\ entities' \in EntityMaps /\ saved' \in EntityMaps
         /\ entities'[e] = None /\ saved'[e] = None
         /\ \A d \in Entities \ {e} : entities'[d] = entities[d] /\ saved'[d] = saved[d]
         /\ ifStates' = [i \in Ifaces |-> IF entities[e].status.ifs[i] # None THEN None ELSE ifStates[i]]
         /\ allocators' = EntityDelete(pools, e, ScopeOf(e))
         /\ UNCHANGED <<pools, host>>
         /\ (CASE e \in Nodes -> "deleteNode"
               [] entities[e].status.oper = "Down" -> "deleteDown"
               [] OTHER -> "delete") \in Requests
<1>1. /\ pc = "idle" /\ entities[e] # None
      /\ ifStates' = [i \in Ifaces |-> IF entities[e].status.ifs[i] # None THEN None ELSE ifStates[i]]
      /\ entities' = [entities EXCEPT ![e] = None] /\ saved' = [saved EXCEPT ![e] = None]
      /\ allocators' = EntityDelete(pools, e, ScopeOf(e))
      /\ UNCHANGED <<pools, host>>
  BY Zenon DEF EntityD
<1>2. /\ entities' \in EntityMaps /\ saved' \in EntityMaps /\ entities'[e] = None /\ saved'[e] = None
      /\ \A d \in Entities \ {e} : entities'[d] = entities[d] /\ saved'[d] = saved[d]
  <2>1. entities' = Updated(entities, e, None) /\ saved' = Updated(saved, e, None)
    BY <1>1, Zenon DEF Updated
  <2> QED BY <2>1, TypedVars, EntityMapUpdate
<1>3. RequestMade
  <2>1. \E kind : Request(kind) /\ RenderIfRunning(entities')
    BY Zenon DEF EntityD
  <2> QED BY <1>1, <2>1, Zenon DEF Request, RenderIfRunning, RequestMade
<1>4. (CASE e \in Nodes -> "deleteNode"
         [] entities[e].status.oper = "Down" -> "deleteDown"
         [] OTHER -> "delete") \in Requests
  BY Zenon DEF EntityD, Request
<1> QED BY <1>1, <1>2, <1>3, <1>4, Zenon

LEMMA TypedEntityD ==
  ASSUME Typed, NEW e \in Entities, EntityD(e)
  PROVE  Typed'
<1>1. allocators' \in AllocatorMaps
  BY EntityDEffect, EntityDeleteFacts, TypedVars
<1>2. ifStates' \in [Ifaces -> IfaceStatuses \cup {None}]
  BY EntityDEffect, TypedVars, Zenon
<1>3. RequestMade /\ entities' \in EntityMaps /\ saved' \in EntityMaps /\ UNCHANGED <<pools, host>>
  BY EntityDEffect, Zenon
<1> QED BY <1>1, <1>2, <1>3, RequestTypes, TypedVars, TypedStep, Zenon

LEMMA RenderStartEffect ==
  ASSUME Typed, NEW e \in Entities, RenderStart(e)
  PROVE  /\ pc = "render" /\ cur = None /\ e \in todo /\ entities[e] # None
         /\ cur' = e /\ todo' = todo \ {e}
         /\ entities' \in EntityMaps
         /\ \E oper \in {NoError, "Down"} :
              /\ rest' = IF oper = NoError THEN IfacesOf[e] ELSE <<>>
              /\ entities'[e] = With(e, oper, NoStatuses)
         /\ entities'[e] # None /\ entities'[e].spec = entities[e].spec
         /\ entities'[e].status.ifs = NoStatuses
         /\ entities'[e].status.oper = "Down" =>
              \E n \in 1..Len(IfacesOf[e]) : entities[NodeOf(IfacesOf[e][n])] = None
         /\ \A d \in Entities \ {e} : entities'[d] = entities[d]
         /\ UNCHANGED <<pools, allocators, ifStates, saved, host, pc, msgs, crashes>>
<1>1. /\ pc = "render" /\ cur = None /\ e \in todo /\ cur' = e /\ todo' = todo \ {e}
      /\ UNCHANGED <<pools, allocators, ifStates, saved, host, pc, msgs, crashes>>
  BY Zenon DEF RenderStart
<1>2. entities[e] # None /\ entities \in EntityMaps
  BY <1>1, TypedVars, Zenon
<1>3. PICK oper \in {NoError, "Down"} :
        /\ rest' = IF oper = NoError THEN IfacesOf[e] ELSE <<>>
        /\ entities' = [entities EXCEPT ![e].status = [oper |-> oper, ifs |-> NoStatuses]]
        /\ oper = "Down" => \E n \in 1..Len(IfacesOf[e]) : entities[NodeOf(IfacesOf[e][n])] = None
  <2>1. PICK placed \in BOOLEAN :
          placed = \A n \in 1..Len(IfacesOf[e]) : entities[NodeOf(IfacesOf[e][n])] # None
    BY Zenon
  <2>2. /\ rest' = IF placed THEN IfacesOf[e] ELSE <<>>
        /\ entities' = [entities EXCEPT ![e].status =
             [oper |-> IF placed THEN NoError ELSE "Down", ifs |-> NoStatuses]]
    BY <2>1, Zenon DEF RenderStart, NoError
  <2>3. NoError # "Down"
    BY OperFacts, Zenon
  <2> QED BY <2>1, <2>2, <2>3, Zenon
<1>4. entities' = Updated(entities, e, With(e, oper, NoStatuses))
  <2>1. entities' = PutStatus(e, oper, NoStatuses)
    BY <1>3, Zenon DEF PutStatus
  <2> QED BY <1>2, <2>1, EntityUpdates, Zenon
<1>5. /\ With(e, oper, NoStatuses) \in EntityRecords(e) /\ With(e, oper, NoStatuses) # None
      /\ With(e, oper, NoStatuses).spec = entities[e].spec
      /\ With(e, oper, NoStatuses).status.ifs = NoStatuses
      /\ With(e, oper, NoStatuses).status.oper = oper
  <2>1. oper \in Opers
    BY OperFacts, Zenon
  <2>2. NoStatuses \in [Ifaces -> IfaceStatuses \cup {None}]
    BY NilStatusType, Zenon
  <2>3. PICK f : f = NoStatuses
    BY Zenon
  <2>4. f \in [Ifaces -> IfaceStatuses \cup {None}]
    BY <2>2, <2>3, Zenon
  <2>5. /\ With(e, oper, f) \in EntityRecords(e) /\ With(e, oper, f) # None
        /\ With(e, oper, f).spec = entities[e].spec /\ With(e, oper, f).status.ifs = f
        /\ With(e, oper, f).status.oper = oper
    BY <1>2, <2>1, <2>4, WithFacts
  <2> QED BY <2>3, <2>5, Zenon
<1>6. /\ entities' \in EntityMaps /\ entities'[e] = With(e, oper, NoStatuses)
      /\ \A d \in Entities \ {e} : entities'[d] = entities[d]
  <2>1. PICK r : r = With(e, oper, NoStatuses)
    BY Zenon
  <2>2. entities' = Updated(entities, e, r) /\ r \in EntityRecords(e)
    BY <1>4, <1>5, <2>1, Zenon
  <2>3. /\ Updated(entities, e, r) \in EntityMaps /\ Updated(entities, e, r)[e] = r
        /\ \A d \in Entities \ {e} : Updated(entities, e, r)[d] = entities[d]
    BY <1>2, <2>2, EntityMapUpdate
  <2> QED BY <2>1, <2>2, <2>3, Zenon
<1> QED BY <1>1, <1>2, <1>3, <1>5, <1>6, Zenon

LEMMA TypedRenderStart ==
  ASSUME Typed, NEW e \in Entities, RenderStart(e)
  PROVE  Typed'
<1>1. rest' \in Seq(IfacesIn(e))
  <2>1. rest' = IfacesOf[e] \/ rest' = <<>>
    BY RenderStartEffect, Zenon
  <2>2. IfacesOf[e] \in Seq(IfacesIn(e)) /\ <<>> \in Seq(IfacesIn(e))
    BY OwnerFacts
  <2> QED BY <2>1, <2>2, Zenon
<1>2. rest' \in Seq(Ifaces)
  <2>1. rest' = IfacesOf[e] \/ rest' = <<>>
    BY RenderStartEffect, Zenon
  <2>2. IfacesOf[e] \in Seq(Ifaces) /\ <<>> \in Seq(Ifaces)
    BY IfacesAssumption
  <2> QED BY <2>1, <2>2, ZenonT(30)
<1>3. /\ pc = "render" /\ cur' = e /\ todo' = todo \ {e} /\ entities' \in EntityMaps /\ entities'[e] # None
      /\ \A d \in Entities \ {e} : entities'[d] = entities[d]
      /\ UNCHANGED <<pools, allocators, ifStates, saved, host, pc, msgs, crashes>>
  BY RenderStartEffect, Zenon
<1> QED BY <1>1, <1>2, <1>3, TypedVars, TypedStep, Zenon

LEMMA RenderCompleteEffect ==
  ASSUME Typed, RenderComplete
  PROVE  /\ cur \in Entities /\ entities[cur] # None /\ pc = "render" /\ rest = <<>> /\ cur' = None
         /\ entities' \in EntityMaps /\ saved' \in EntityMaps
         /\ saved'[cur] = entities'[cur] /\ entities'[cur] # None
         /\ entities'[cur].spec = entities[cur].spec
         /\ entities'[cur].status.ifs = entities[cur].status.ifs
         /\ entities'[cur].status.oper = Verdict(entities[cur].status.oper)
         /\ \A d \in Entities \ {cur} : entities'[d] = entities[d] /\ saved'[d] = saved[d]
         /\ UNCHANGED <<pools, allocators, ifStates, host, pc, todo, rest, msgs, crashes>>
<1>1. /\ cur # None /\ rest = <<>> /\ cur' = None
      /\ UNCHANGED <<pools, allocators, ifStates, host, pc, todo, rest, msgs, crashes>>
  BY Zenon DEF RenderComplete
<1>2. pc = "render" /\ cur \in Entities /\ entities[cur] # None /\ entities \in EntityMaps /\ saved \in EntityMaps
  BY <1>1, TypedVars, Zenon
<1>3. PICK e : e = cur
  BY Zenon
<1>4. PICK oper : oper = Verdict(entities[e].status.oper)
  BY Zenon
<1>5. PICK fs : fs = entities[e].status.ifs
  BY Zenon
<1>6. fs \in [Ifaces -> IfaceStatuses \cup {None}] /\ oper \in Opers
  BY <1>2, <1>3, <1>4, <1>5, EntityMapFacts, EntityRecordFacts, OperFacts, Zenon
<1>7. PICK r : r = With(e, oper, fs)
  BY Zenon
<1>8. r \in EntityRecords(e) /\ r # None /\ r.spec = entities[e].spec /\ r.status.oper = oper /\ r.status.ifs = fs
  BY <1>2, <1>3, <1>6, <1>7, WithFacts
<1>9. entities' = Updated(entities, e, r)
  <2>1. entities' = PutOper(e, oper)
    BY <1>3, <1>4, Zenon DEF RenderComplete, PutOper
  <2> QED BY <1>2, <1>3, <1>5, <1>7, <2>1, EntityUpdates, Zenon
<1>10. /\ entities' \in EntityMaps /\ entities'[e] = r
       /\ \A d \in Entities \ {e} : entities'[d] = entities[d]
  BY <1>2, <1>3, <1>8, <1>9, EntityMapUpdate
<1>11. saved' = Updated(saved, e, r)
  BY <1>3, <1>10, ZenonT(30) DEF RenderComplete, Updated
<1>12. /\ saved' \in EntityMaps /\ saved'[e] = r /\ \A d \in Entities \ {e} : saved'[d] = saved[d]
  BY <1>2, <1>3, <1>8, <1>11, EntityMapUpdate
<1> QED BY <1>1, <1>2, <1>3, <1>4, <1>5, <1>8, <1>10, <1>12, Zenon

LEMMA TypedRenderComplete == Typed /\ RenderComplete => Typed'
<1> SUFFICES ASSUME Typed, RenderComplete PROVE Typed'
  BY Zenon
<1>1. /\ pc = "render" /\ cur' = None /\ entities' \in EntityMaps /\ saved' \in EntityMaps
      /\ \A d \in Entities : entities[d] # None => entities'[d] # None
      /\ UNCHANGED <<pools, allocators, ifStates, host, pc, todo, rest, msgs, crashes>>
  BY RenderCompleteEffect, Zenon
<1> QED BY <1>1, TypedVars, TypedStep, Zenon

\* The ways RenderInterface can end, in terms of the entity's record.
Panicked(r, q) ==
  /\ pc' = "panic" /\ ClearRAM /\ UNCHANGED <<pools, host, msgs, crashes>>
  /\ saved' \in EntityMaps /\ saved'[cur] # None
  /\ saved'[cur].spec = entities[cur].spec /\ saved'[cur].status.ifs = entities[cur].status.ifs
  /\ \A d \in Entities \ {cur} : saved'[d] = saved[d]

Persisted(i, r, q) ==
  /\ UNCHANGED <<pools, host, msgs, crashes, saved, pc, todo, cur>>
  /\ rest' = Tail(rest)
  /\ allocators' = q.al /\ ifStates' = [ifStates EXCEPT ![i] = q.st]
  /\ entities' \in EntityMaps /\ entities'[cur] # None
  /\ entities'[cur].spec = entities[cur].spec /\ entities'[cur].status.oper = entities[cur].status.oper
  /\ entities'[cur].status.ifs = [entities[cur].status.ifs EXCEPT ![i] = q.st]
  /\ \A d \in Entities \ {cur} : entities'[d] = entities[d]

Failed(i, r, q) ==
  /\ UNCHANGED <<pools, host, msgs, crashes, saved, pc, todo, cur>>
  /\ rest' = <<>>
  /\ allocators' = q.al /\ ifStates' = [ifStates EXCEPT ![i] = None]
  /\ entities' \in EntityMaps /\ entities'[cur] # None
  /\ entities'[cur].spec = entities[cur].spec /\ entities'[cur].status.oper = "Down"
  /\ entities'[cur].status.ifs = [entities[cur].status.ifs EXCEPT ![i] = None]
  /\ \A d \in Entities \ {cur} : entities'[d] = entities[d]

LEMMA RenderedEffect ==
  ASSUME Typed, cur \in Entities, entities[cur] # None, NEW i \in Ifaces,
         NEW r \in Results, NEW q \in Results, RenderedInterface(i, r, q)
  PROVE  \/ Panicked(r, q)
         \/ q.end = "ok" /\ Persisted(i, r, q)
         \/ q.end = "error" /\ Failed(i, r, q)
<1>1. PICK e : e = cur
  BY Zenon
<1>2. e \in Entities /\ entities[e] # None /\ entities \in EntityMaps /\ saved \in EntityMaps
  BY <1>1, TypedVars, Zenon
<1>3. PICK fs, op : fs = entities[e].status.ifs /\ op = entities[e].status.oper
  BY Zenon
<1>4. fs \in [Ifaces -> IfaceStatuses \cup {None}] /\ op \in Opers
  BY <1>2, <1>3, EntityMapFacts, EntityRecordFacts, ZenonT(30)
<1>5. UNCHANGED <<pools, host, msgs, crashes>>
  BY Zenon DEF RenderedInterface
<1>6. CASE /\ pc' = "panic" /\ ClearRAM
           /\ saved' = [saved EXCEPT ![cur] = With(cur, Verdict(entities[cur].status.oper), entities[cur].status.ifs)]
  <2>1. PICK v : v = Verdict(op)
    BY Zenon
  <2>2. PICK x : x = With(e, v, fs)
    BY Zenon
  <2>3. x \in EntityRecords(e) /\ x # None /\ x.spec = entities[e].spec /\ x.status.ifs = fs
    BY <1>2, <1>4, <2>1, <2>2, WithFacts, OperFacts
  <2>4. saved' = Updated(saved, e, x)
    BY <1>1, <1>3, <1>6, <2>1, <2>2, Zenon DEF Updated
  <2>5. /\ saved' \in EntityMaps /\ saved'[e] = x /\ \A d \in Entities \ {e} : saved'[d] = saved[d]
    BY <1>2, <2>3, <2>4, EntityMapUpdate
  <2> QED BY <1>1, <1>3, <1>5, <1>6, <2>3, <2>5, Zenon DEF Panicked
<1>7. CASE /\ q.end = "ok" /\ UNCHANGED <<saved, pc, todo, cur>> /\ rest' = Tail(rest)
           /\ allocators' = q.al /\ ifStates' = [ifStates EXCEPT ![i] = q.st]
           /\ entities' = [entities EXCEPT ![cur] =
                With(cur, entities[cur].status.oper, [entities[cur].status.ifs EXCEPT ![i] = q.st])]
  <2>1. PICK gs : gs = [fs EXCEPT ![i] = q.st]
    BY Zenon
  <2>2. gs \in [Ifaces -> IfaceStatuses \cup {None}]
    BY <1>4, <2>1, ResultFacts, Zenon
  <2>3. PICK x : x = With(e, op, gs)
    BY Zenon
  <2>4. /\ x \in EntityRecords(e) /\ x # None /\ x.spec = entities[e].spec /\ x.status.oper = op
        /\ x.status.ifs = gs
    BY <1>2, <1>4, <2>2, <2>3, WithFacts
  <2>5. entities' = Updated(entities, e, x)
    BY <1>1, <1>3, <1>7, <2>1, <2>3, Zenon DEF Updated
  <2>6. /\ entities' \in EntityMaps /\ entities'[e] = x /\ \A d \in Entities \ {e} : entities'[d] = entities[d]
    BY <1>2, <2>4, <2>5, EntityMapUpdate
  <2> QED BY <1>1, <1>3, <1>5, <1>7, <2>1, <2>4, <2>6, Zenon DEF Persisted
<1>8. CASE /\ q.end = "error" /\ UNCHANGED <<saved, pc, todo, cur>> /\ rest' = <<>>
           /\ allocators' = q.al /\ ifStates' = [ifStates EXCEPT ![i] = None]
           /\ entities' = [entities EXCEPT ![cur] =
                With(cur, "Down", [entities[cur].status.ifs EXCEPT ![i] = None])]
  <2>1. PICK gs : gs = [fs EXCEPT ![i] = None]
    BY ZenonT(30)
  <2>2. gs \in [Ifaces -> IfaceStatuses \cup {None}]
    BY <1>4, <2>1, Zenon
  <2>3. PICK x : x = With(e, "Down", gs)
    BY Zenon
  <2>4. /\ x \in EntityRecords(e) /\ x # None /\ x.spec = entities[e].spec /\ x.status.oper = "Down"
        /\ x.status.ifs = gs
    BY <1>2, <2>2, <2>3, WithFacts, OperFacts
  <2>5. entities' = Updated(entities, e, x)
    BY <1>1, <1>3, <1>8, <2>1, <2>3, Zenon DEF Updated
  <2>6. /\ entities' \in EntityMaps /\ entities'[e] = x /\ \A d \in Entities \ {e} : entities'[d] = entities[d]
    BY <1>2, <2>4, <2>5, EntityMapUpdate
  <2> QED BY <1>1, <1>3, <1>5, <1>8, <2>1, <2>4, <2>6, ZenonT(30) DEF Failed
<1> QED BY <1>6, <1>7, <1>8, Zenon DEF RenderedInterface

LEMMA TypedRenderInterface == Typed /\ RenderInterface => Typed'
<1> SUFFICES ASSUME Typed, RenderInterface PROVE Typed'
  BY Zenon
<1>1. PICK i : i = Head(rest)
  BY Zenon
<1>2. /\ pc = "render" /\ cur \in Entities /\ entities[cur] # None /\ i \in Ifaces
      /\ rest \in Seq(IfacesIn(cur)) /\ rest # <<>>
  BY <1>1, RenderInterfaceEffect, Zenon
<1>3. PICK r \in Results, q \in Results : RenderedInterface(i, r, q)
  BY <1>1, RenderInterfaceEffect, Zenon
<1>4. q.al \in AllocatorMaps /\ q.st \in IfaceStatuses
  BY ResultFacts, Zenon
<1>5. CASE Panicked(r, q)
  <2>1. /\ pc' = "panic" /\ ClearRAM /\ saved' \in EntityMaps /\ UNCHANGED <<pools, host, msgs, crashes>>
    BY <1>5, Zenon DEF Panicked
  <2> QED BY <2>1, ClearedTypes, TypedVars, TypedStep, Zenon
<1>6. CASE Persisted(i, r, q)
  <2>1. /\ UNCHANGED <<pools, host, msgs, crashes, saved, pc, todo, cur>> /\ rest' = Tail(rest)
        /\ allocators' = q.al /\ ifStates' = [ifStates EXCEPT ![i] = q.st]
        /\ entities' \in EntityMaps /\ \A d \in Entities : entities[d] # None => entities'[d] # None
    BY <1>6, ZenonT(30) DEF Persisted
  <2>2. ifStates' \in [Ifaces -> IfaceStatuses \cup {None}]
    BY <1>4, <2>1, TypedVars, ZenonT(30)
  <2>3. rest' \in Seq(IfacesIn(cur')) /\ rest' \in Seq(Ifaces)
    BY <1>2, <2>1, TypedVars
  <2> QED BY <1>2, <1>4, <2>1, <2>2, <2>3, TypedVars, TypedStep, Zenon
<1>7. CASE Failed(i, r, q)
  <2>1. /\ UNCHANGED <<pools, host, msgs, crashes, saved, pc, todo, cur>> /\ rest' = <<>>
        /\ allocators' = q.al /\ ifStates' = [ifStates EXCEPT ![i] = None]
        /\ entities' \in EntityMaps /\ \A d \in Entities : entities[d] # None => entities'[d] # None
    BY <1>7, ZenonT(30) DEF Failed
  <2>2. ifStates' \in [Ifaces -> IfaceStatuses \cup {None}]
    BY <2>1, TypedVars, Zenon
  <2>3. rest' \in Seq(IfacesIn(cur')) /\ rest' \in Seq(Ifaces)
    BY <2>1
  <2> QED BY <1>2, <1>4, <2>1, <2>2, <2>3, TypedVars, TypedStep, Zenon
<1> QED BY <1>2, <1>3, <1>5, <1>6, <1>7, RenderedEffect, Zenon

LEMMA TypedNext == Typed /\ [Next]_vars => Typed'
<1> SUFFICES ASSUME Typed, [Next]_vars PROVE Typed'
  BY Zenon
<1>1. CASE UNCHANGED vars
  <2>1. UNCHANGED <<pools, allocators, ifStates, entities, saved, host, pc, todo, cur, rest, msgs, crashes>>
    BY <1>1, Zenon DEF vars, work
  <2> QED BY <2>1, TypedVars, TypedStep, Zenon
<1> QED BY <1>1, TypedStart, TypedBootRender, TypedCrash, TypedPoolD, TypedPoolCU, TypedEntityD,
           TypedRenderStart, TypedEntityCU, TypedMove, TypedRenderInterface, TypedRenderComplete,
           TypedRenderEnd, Zenon DEF Next

\* Every variable keeps its type: in particular the address ids, ranges and
\* formatted addresses that InitInterfaceStatus, SetAddress and AllocateAddress
\* compute stay unsigned integers of W bits, and the statuses that a start
\* reads back from etcd are statuses.
THEOREM TypeCorrect == Spec => []TypeOK
<1>1. Spec => []Typed
  BY TypedInit, TypedNext, PTL DEF Spec
<1>2. Typed => TypeOK
  BY Zenon DEF Typed
<1> QED BY <1>1, <1>2, PTL

-----------------------------------------------------------------------------
(* What makes a rendering fail, and that it stays so.                      *)

\* An allocator that is missing, nil or used up is as it was.
Kept(a, b) == (a \in {None, Nil} \/ Exhausted(a)) => b = a

\* AllocateAddress cannot give a number of pool p.
Blocked(al, p, node, service) ==
  \/ pools[p] = None
  \/ al[AllocatorName(p, node, service)] = None
  \/ Exhausted(al[AllocatorName(p, node, service)])

LEMMA KeptFacts ==
  /\ \A a : Kept(a, a)
  /\ \A a, b, c : Kept(a, b) /\ Kept(b, c) => Kept(a, c)
BY Zenon DEF Kept

LEMMA AllocateAddressCause ==
  ASSUME PoolsOK, NEW node \in Nodes, NEW service \in Entities, NEW p \in Pools, NEW r \in Results
  PROVE  /\ \A m \in AllocatorNames : Kept(r.al[m], AllocateAddress(r, p, node, service).al[m])
         /\ AllocateAddress(r, p, node, service).end = "error" =>
              Blocked(AllocateAddress(r, p, node, service).al, p, node, service)
<1>1. PICK n, a, y : /\ n = AllocatorName(p, node, service) /\ a = r.al[n]
                     /\ y = AllocateAddress(r, p, node, service)
  BY Zenon
<1>2. r.al \in AllocatorMaps
  BY ResultFacts, Zenon
<1>3. ASSUME NEW e, y = [r EXCEPT !.end = e] PROVE y.al = r.al /\ y.end = e
  BY <1>3, Zenon DEF Results
<1>4. CASE ~Usable(r.al, p, node, service) \/ (a # Nil /\ Exhausted(a))
  <2>1. y.al = r.al
    BY <1>1, <1>3, <1>4, Zenon DEF AllocateAddress
  <2>2. Blocked(y.al, p, node, service)
    BY <1>1, <1>4, <2>1, Zenon DEF Blocked, Usable
  <2> QED BY <1>1, <2>1, <2>2, KeptFacts, Zenon
<1>5. CASE Usable(r.al, p, node, service) /\ (a = Nil \/ (~Exhausted(a) /\ ~r.st.made))
  <2>1. y.al = r.al /\ y.end = "panic"
    BY <1>1, <1>3, <1>5, Zenon DEF AllocateAddress
  <2> QED BY <1>1, <2>1, KeptFacts, Zenon
<1>6. CASE Usable(r.al, p, node, service) /\ a # Nil /\ ~Exhausted(a) /\ r.st.made
  <2>1. y = [al  |-> [r.al EXCEPT ![n] = AllocateIPAddress(a)],
             st  |-> [r.st EXCEPT !.nums[p] = Allocatable(a),
                                  !.ips = @ \cup {FormatIPAddress(a, Allocatable(a))}],
             end |-> "ok"]
    BY <1>1, <1>6, Zenon DEF AllocateAddress
  <2>2. y.al = [r.al EXCEPT ![n] = AllocateIPAddress(a)] /\ y.end # "error"
    BY <2>1, Zenon
  <2>3. \A m \in AllocatorNames : m # n => y.al[m] = r.al[m]
    BY <1>2, <2>2, Zenon DEF AllocatorMaps
  <2>4. a # None
    BY <1>1, <1>6, Zenon DEF Usable
  <2>5. \A b : Kept(a, b)
    BY <1>6, <2>4, Zenon DEF Kept
  <2> QED BY <1>1, <2>2, <2>3, <2>5, KeptFacts, Zenon
<1> QED BY <1>4, <1>5, <1>6, Zenon

LEMMA AllocateAllCause ==
  ASSUME PoolsOK, NEW node \in Nodes, NEW service \in Entities,
         NEW r \in Results, r.end = "ok", NEW wanted \in Seq(Pools)
  PROVE  /\ \A m \in AllocatorNames : Kept(r.al[m], AllocateAll(r, wanted, node, service).al[m])
         /\ AllocateAll(r, wanted, node, service).end = "error" =>
              \E n \in 1..Len(wanted) :
                Blocked(AllocateAll(r, wanted, node, service).al, wanted[n], node, service)
<1>1. PICK N \in Nat : N = Len(wanted) /\ \A n \in 1..N : wanted[n] \in Pools
  OBVIOUS
<1>2. PICK f : f = Run(r, wanted, node, service)
  BY Zenon
<1>3. AllocateAll(r, wanted, node, service) = f[N]
  BY <1>1, <1>2, Zenon DEF AllocateAll, Run, Advance
<1>4. f[0] = r /\ \A n \in 1..N : f[n] = Advance(f[n - 1], wanted[n], node, service)
  BY <1>1, <1>2, RunFacts
<1> DEFINE Fine(n) ==
      /\ f[n] \in Results /\ \A m \in AllocatorNames : Kept(r.al[m], f[n].al[m])
      /\ f[n].end = "error" => \E k \in 1..n : Blocked(f[n].al, wanted[k], node, service)
           G == {n \in 0..N : Fine(n)}
<1>5. 0 \in G
  <2>1. 0 \in 0..N
    BY <1>1
  <2>2. f[0] \in Results /\ f[0].end # "error"
    BY <1>4, Zenon
  <2>3. \A m \in AllocatorNames : Kept(r.al[m], f[0].al[m])
    BY <1>4, KeptFacts, Zenon
  <2> QED BY <2>1, <2>2, <2>3, Zenon
<1>6. ASSUME NEW n \in 1..N, n - 1 \in G PROVE n \in G
  <2>1. n \in 0..N /\ n \in 1..n /\ \A k \in 1..n - 1 : k \in 1..n
    BY <1>1
  <2>2. PICK x \in Results : /\ x = f[n - 1] /\ \A m \in AllocatorNames : Kept(r.al[m], x.al[m])
                             /\ x.end = "error" => \E k \in 1..n - 1 : Blocked(x.al, wanted[k], node, service)
    BY <1>6, Zenon
  <2>3. PICK y : y = Advance(x, wanted[n], node, service)
    BY Zenon
  <2>4. f[n] = y /\ y \in Results /\ wanted[n] \in Pools
    BY <1>1, <1>4, <2>2, <2>3, AdvanceFacts, Zenon
  <2>5. CASE y = x
    <3>1. y.end = "error" => \E k \in 1..n : Blocked(y.al, wanted[k], node, service)
      BY <2>1, <2>2, <2>5, Zenon
    <3> QED BY <2>1, <2>2, <2>4, <2>5, <3>1, Zenon
  <2>6. CASE y = AllocateAddress(x, wanted[n], node, service)
    <3>1. /\ \A m \in AllocatorNames : Kept(x.al[m], y.al[m])
          /\ y.end = "error" => Blocked(y.al, wanted[n], node, service)
      BY <2>4, <2>6, AllocateAddressCause, Zenon
    <3>2. \A m \in AllocatorNames : Kept(r.al[m], y.al[m])
      BY <2>2, <3>1, KeptFacts, Zenon
    <3> QED BY <2>1, <2>4, <3>1, <3>2, Zenon
  <2> QED BY <2>3, <2>5, <2>6, Zenon DEF Advance
<1> HIDE DEF G
<1>7. N \in G
  <2>1. N \in 0..N
    BY <1>1
  <2> QED BY <1>1, <1>5, <1>6, <2>1, InductionUpTo, Zenon
<1> QED BY <1>1, <1>3, <1>7, Zenon DEF G

\* EntityCreate has made every allocator that is wanted.
AllMade == Up => \A n \in Wanted(pools, Configured(entities)) : allocators[n] # None

\* What DownHasCause accepts as a reason, for one interface of the entity.
CauseAt(e, i) ==
  \/ entities[NodeOf(i)] = None
  \/ \E m \in 1..Len(entities[e].spec[i].pools) : LET p == entities[e].spec[i].pools[m] IN
       \/ pools[p] = None
       \/ pools[p].scope = ScopeService /\ e \in Nodes
       \/ LET a == allocators[AllocatorName(p, NodeOf(i), e)] IN a # None /\ Exhausted(a)
Cause(e) == \E i \in IfacesIn(e) : CauseAt(e, i)

\* An entity that has been rendered, or is being rendered, and is down.
Causes ==
  pc \in {"idle", "render"} => \A e \in Configured(entities) :
    (e \notin todo \/ e = cur) /\ entities[e].status.oper = "Down" => Cause(e)

LEMMA WantedFrame ==
  ASSUME NEW ps, NEW ps1, NEW K, NEW K1, NEW n \in Wanted(ps, K), K \subseteq K1, ps1[n[2]] = ps[n[2]]
  PROVE  n \in Wanted(ps1, K1)
<1>1. n \in AllocatorNames /\ ps1[n[2]] # None /\ ps1[n[2]].scope = n[1]
  BY WantedFacts, Zenon
<1>2. n[1] \in Scopes
  BY <1>1, Zenon DEF AllocatorNames
<1>3. CASE n[1] = ScopeSystem
  BY <1>1, <1>3, Zenon DEF Wanted, ScopeSystem, ScopeNode, ScopeService
<1>4. CASE n[1] = ScopeNode
  BY <1>1, <1>4, Zenon DEF Wanted, ScopeSystem, ScopeNode, ScopeService
<1>5. CASE n[1] = ScopeService
  BY <1>1, <1>5, ZenonT(30) DEF Wanted, ScopeSystem, ScopeNode, ScopeService
<1> QED BY <1>2, <1>3, <1>4, <1>5, Zenon DEF Scopes

LEMMA SameWanted ==
  ASSUME AllMade, Up, pools' = pools, Configured(entities') = Configured(entities),
         \A n \in AllocatorNames : allocators[n] # None => allocators'[n] # None
  PROVE  AllMade'
BY WantedFacts, Zenon DEF AllMade

LEMMA StartedAllocators ==
  ASSUME Typed, Start, NEW n \in Wanted(pools, Configured(saved))
  PROVE  allocators'[n] # None
<1>1. PICK choice :
        /\ DOMAIN choice = {i \in Ifaces : LoadedStates[i] # None}
        /\ \A i \in DOMAIN choice :
             choice[i] \in SetChoices(Fresh, LoadedStates[i], LoadedStates[i].node, Owner(i))
        /\ Started(choice)
  BY StartEffect, Zenon
<1>2. n \in AllocatorNames /\ n[2] \in Pools /\ pools[n[2]] # None
  BY WantedFacts, Zenon
<1>3. pools[n[2]] \in PoolSpecs
  BY <1>2, TypedFacts, Zenon DEF PoolsOK
<1>4. PICK a \in Allocators \cup {Nil} : a = Fresh[n]
  BY <1>2, <1>3, NewAllocatorFacts, Zenon DEF Fresh
<1>5. PICK L : L = LoadedNums(n, choice)
  BY Zenon
<1>6. L \in SUBSET U32
  <2>1. \A j \in DOMAIN choice : /\ j \in Ifaces /\ LoadedStates[j] # None
                                 /\ choice[j] \subseteq Held(LoadedStates[j])
    BY <1>1, Zenon DEF SetChoices, Settable
  <2> QED BY <1>2, <1>5, <2>1, LoadedNumsType, TypedVars, Zenon
<1>7. allocators'[n] = IF a \in {None, Nil} THEN a ELSE [a EXCEPT !.allocated = L]
  BY <1>1, <1>2, <1>4, <1>5, Zenon DEF Started
<1>8. Nil # None
  BY NothingAssumption, Zenon
<1>9. CASE a = Nil
  BY <1>7, <1>8, <1>9, Zenon
<1>10. CASE a \in Allocators
  <2>1. a \notin {None, Nil}
    BY <1>10, RecordsAssumption, Zenon
  <2>2. [a EXCEPT !.allocated = L] \in Allocators
    BY <1>6, <1>10, Zenon DEF Allocators
  <2>3. None \notin Allocators
    BY RecordsAssumption, Zenon
  <2> QED BY <1>7, <2>1, <2>2, <2>3, Zenon
<1> QED BY <1>9, <1>10, Zenon

LEMMA CreatedAllocators ==
  ASSUME NEW ps \in [Pools -> PoolSpecs \cup {None}], NEW names, allocators' = EntityCreate(ps, names)
  PROVE  \A n \in AllocatorNames :
           allocators[n] # None \/ (n \in names /\ n \in Wanted(ps, Entities)) => allocators'[n] # None
<1>1. \A n \in Wanted(ps, Entities) : NewAllocator(ps[n[2]]) # None
  BY WantedFacts, NewAllocatorFacts, Zenon
<1> QED BY <1>1, Zenon DEF EntityCreate

LEMMA AllMadePoolCU ==
  ASSUME Typed, AllMade, NEW p \in Pools, NEW spec \in PoolSpecs, PoolCU(p, spec)
  PROVE  AllMade'
<1>1. /\ Up /\ pools' = [pools EXCEPT ![p] = spec] /\ entities' = entities
      /\ allocators' = EntityCreate(pools', {n \in Wanted(pools', Configured(entities)) : n[1] = spec.scope})
      /\ pools' \in [Pools -> PoolSpecs \cup {None}]
  BY PoolCUEffect, Zenon DEF RequestMade, Up
<1>2. PICK ps : ps = pools'
  BY Zenon
<1>3. ps[p] = spec /\ \A o \in Pools \ {p} : ps[o] = pools[o]
  BY <1>1, <1>2, TypedVars, Zenon
<1>4. PICK K : K = Configured(entities)
  BY Zenon
<1>5. K \subseteq Entities
  BY <1>4, Zenon DEF Configured
<1>7. PICK S : S = {n \in Wanted(ps, K) : n[1] = spec.scope}
  BY Zenon
<1>8. ps \in [Pools -> PoolSpecs \cup {None}] /\ allocators' = EntityCreate(ps, S)
  BY <1>1, <1>2, <1>4, <1>7, Zenon
<1>9. \A n \in AllocatorNames :
        allocators[n] # None \/ (n \in S /\ n \in Wanted(ps, Entities)) => allocators'[n] # None
  BY <1>8, CreatedAllocators, Zenon
<1>6. ASSUME NEW n \in Wanted(ps, K) PROVE allocators'[n] # None
  <2>1. n \in AllocatorNames /\ n[2] \in Pools /\ ps[n[2]].scope = n[1]
    BY WantedFacts, Zenon
  <2>2. n \in Wanted(ps, Entities)
    BY <1>5, WantedFrame, Zenon
  <2>3. CASE n[2] = p
    <3>1. n \in S
      BY <1>3, <1>7, <2>1, <2>3, Zenon
    <3> QED BY <1>9, <2>1, <2>2, <3>1, Zenon
  <2>4. CASE n[2] # p
    <3>1. n \in Wanted(pools, K)
      BY <1>3, <2>1, <2>4, WantedFrame, Zenon
    <3>2. allocators[n] # None
      BY <1>1, <1>4, <3>1, Zenon DEF AllMade
    <3> QED BY <1>9, <2>1, <3>2, Zenon
  <2> QED BY <2>3, <2>4, Zenon
<1> QED BY <1>1, <1>2, <1>4, <1>6, Zenon DEF AllMade

\* Whose allocator a wanted name is.
LEMMA WantedOwner ==
  ASSUME NEW ps, NEW K, NEW n \in Wanted(ps, K), NEW e \in Entities
  PROVE  /\ n \in Wanted(ps, K \ {e}) \/ (n[1] = ScopeOf(e) /\ n[3] = e)
         /\ n[1] = ScopeOf(e) /\ n[3] = e => e \in K
<1>1. ScopeSystem # ScopeNode /\ ScopeSystem # ScopeService /\ ScopeNode # ScopeService
  BY Zenon DEF ScopeSystem, ScopeNode, ScopeService
<1>2. /\ n \in AllocatorNames /\ ps[n[2]] # None /\ ps[n[2]].scope = n[1]
      /\ CASE n[1] = ScopeSystem  -> n[3] = None
           [] n[1] = ScopeNode    -> n[3] \in Nodes \cap K
           [] n[1] = ScopeService -> n[3] \in Services \cap K
  BY Zenon DEF Wanted
<1>3. n[1] \in {ScopeSystem, ScopeNode, ScopeService}
  BY <1>2 DEF AllocatorNames, Scopes
<1>4. e \in Nodes => e \notin Services
  BY EntitiesAssumption, Zenon
<1>5. CASE n[1] = ScopeSystem
  <2>1. n[3] = None
    BY <1>1, <1>2, <1>5, Zenon
  <2>2. n \in Wanted(ps, K \ {e}) /\ n[1] # ScopeOf(e)
    BY <1>1, <1>2, <1>5, <2>1, Zenon DEF Wanted, ScopeOf
  <2> QED BY <2>2, Zenon
<1>6. CASE n[1] = ScopeNode
  <2>1. n[3] \in Nodes \cap K
    BY <1>1, <1>2, <1>6, Zenon
  <2>2. n[3] # e => n \in Wanted(ps, K \ {e})
    BY <1>1, <1>2, <1>6, <2>1, Zenon DEF Wanted
  <2>3. n[3] = e => n[1] = ScopeOf(e) /\ e \in K
    BY <1>6, <2>1, Zenon DEF ScopeOf
  <2> QED BY <2>2, <2>3, Zenon
<1>7. CASE n[1] = ScopeService
  <2>1. n[3] \in Services \cap K
    BY <1>1, <1>2, <1>7, Zenon
  <2>2. n[3] # e => n \in Wanted(ps, K \ {e})
    BY <1>1, <1>2, <1>7, <2>1, Zenon DEF Wanted
  <2>3. n[3] = e => n[1] = ScopeOf(e) /\ e \in K
    BY <1>4, <1>7, <2>1, Zenon DEF ScopeOf
  <2> QED BY <2>2, <2>3, Zenon
<1> QED BY <1>3, <1>5, <1>6, <1>7, Zenon

LEMMA AllMadeEntityCU ==
  ASSUME Typed, AllMade, NEW e \in Entities, NEW spec \in SpecsOf(e), EntityCU(e, spec)
  PROVE  AllMade'
<1>1. /\ Up /\ pools' = pools
      /\ \A d \in Entities \ {e} : entities'[d] = entities[d]
      /\ allocators' = EntityCreate(pools, {n \in AllocatorNames : n[1] = ScopeOf(e) /\ n[3] = e})
      /\ pools \in [Pools -> PoolSpecs \cup {None}]
  BY EntityCUEffect, TypedVars, Zenon DEF RequestMade, Up
<1>2. PICK K, K1 : K = Configured(entities) /\ K1 = Configured(entities')
  BY Zenon
<1>3. K1 \ {e} \subseteq K /\ K1 \subseteq Entities
  BY <1>1, <1>2, Zenon DEF Configured
<1>7. PICK S : S = {n \in AllocatorNames : n[1] = ScopeOf(e) /\ n[3] = e}
  BY Zenon
<1>8. allocators' = EntityCreate(pools, S)
  BY <1>1, <1>7, Zenon
<1>9. \A n \in AllocatorNames :
        allocators[n] # None \/ (n \in S /\ n \in Wanted(pools, Entities)) => allocators'[n] # None
  BY <1>1, <1>8, CreatedAllocators, Zenon
<1>4. ASSUME NEW n \in Wanted(pools, K1) PROVE allocators'[n] # None
  <2>1. n \in AllocatorNames /\ n \in Wanted(pools, Entities)
    BY <1>3, WantedFacts, WantedFrame, Zenon
  <2>2. CASE n[1] = ScopeOf(e) /\ n[3] = e
    <3>1. n \in S
      BY <1>7, <2>1, <2>2, Zenon
    <3> QED BY <1>9, <2>1, <3>1, Zenon
  <2>3. CASE n \in Wanted(pools, K1 \ {e})
    <3>1. n \in Wanted(pools, K)
      BY <1>3, <2>3, WantedFrame, Zenon
    <3>2. allocators[n] # None
      BY <1>1, <1>2, <3>1, Zenon DEF AllMade
    <3> QED BY <1>9, <2>1, <3>2, Zenon
  <2> QED BY <2>2, <2>3, WantedOwner, Zenon
<1> QED BY <1>1, <1>2, <1>4, Zenon DEF AllMade

LEMMA AllMadeEntityD ==
  ASSUME Typed, AllMade, NEW e \in Entities, EntityD(e)
  PROVE  AllMade'
<1>1. /\ Up /\ pools' = pools /\ entities'[e] = None
      /\ \A d \in Entities \ {e} : entities'[d] = entities[d]
      /\ allocators' = EntityDelete(pools, e, ScopeOf(e))
      /\ allocators \in AllocatorMaps
  BY EntityDEffect, TypedVars, Zenon DEF RequestMade, Up
<1>2. PICK K, K1 : K = Configured(entities) /\ K1 = Configured(entities')
  BY Zenon
<1>3. K1 \subseteq K /\ e \notin K1
  BY <1>1, <1>2, Zenon DEF Configured
<1>4. ASSUME NEW n \in Wanted(pools, K1) PROVE allocators'[n] # None
  <2>1. n \in AllocatorNames /\ n \in Wanted(pools, K)
    BY <1>3, WantedFacts, WantedFrame, Zenon
  <2>2. allocators[n] # None
    BY <1>1, <1>2, <2>1, Zenon DEF AllMade
  <2>3. ~(n[1] = ScopeOf(e) /\ n[3] = e)
    BY <1>3, WantedOwner, Zenon
  <2>4. ScopeOf(e) # ScopeSystem
    BY Zenon DEF ScopeOf, ScopeSystem, ScopeNode, ScopeService
  <2>5. allocators'[n] = allocators[n]
    <3>1. PICK sc : sc = ScopeOf(e)
      BY Zenon
    <3>2. \/ EntityDelete(pools, e, sc)[n] = allocators[n]
          \/ n[1] = sc /\ (sc = ScopeSystem \/ n[3] = e)
      BY <2>1, Zenon DEF EntityDelete
    <3> QED BY <1>1, <2>3, <2>4, <3>1, <3>2, Zenon
  <2> QED BY <2>2, <2>5, Zenon
<1> QED BY <1>1, <1>2, <1>4, Zenon DEF AllMade

LEMMA CauseFrame ==
  ASSUME Typed, UNCHANGED <<pools, host>>, \A d \in Entities : entities[d] = None => entities'[d] = None,
         NEW e \in Entities, entities[e] # None, entities'[e].spec = entities[e].spec,
         \A n \in AllocatorNames : Kept(allocators[n], allocators'[n]), Cause(e)
  PROVE  Cause(e)'
<1>1. PICK i \in IfacesIn(e) : CauseAt(e, i)
  BY Zenon DEF Cause
<1>2. i \in Ifaces
  BY <1>1, OwnerFacts, Zenon
<1>3. NodeOf(i) \in Nodes /\ NodeOf(i) \in Entities /\ PoolsOK
  BY <1>2, TypedFacts, NodeOfType, Zenon DEF Entities
<1>4. NodeOf(i)' = NodeOf(i)
  BY Zenon DEF NodeOf
<1>5. ASSUME entities[NodeOf(i)] = None PROVE CauseAt(e, i)'
  BY <1>3, <1>4, <1>5, Zenon DEF CauseAt
<1>6. ASSUME NEW m \in 1..Len(entities[e].spec[i].pools), NEW p, p = entities[e].spec[i].pools[m],
             pools[p] # None, ~(pools[p].scope = ScopeService /\ e \in Nodes),
             allocators[AllocatorName(p, NodeOf(i), e)] # None,
             Exhausted(allocators[AllocatorName(p, NodeOf(i), e)])
      PROVE  CauseAt(e, i)'
  <2>1. p \in Pools
    <3>1. entities[e].spec[i] \in IfaceSpecs
      BY <1>1, TypedFacts, EntityRecordFacts, SpecFacts, Zenon
    <3>2. PICK w \in Seq(Pools) : w = entities[e].spec[i].pools
      BY <3>1, IfaceSpecsAssumption, Zenon
    <3>3. \A k \in 1..Len(w) : w[k] \in Pools
      BY <3>2
    <3> QED BY <1>6, <3>2, <3>3, Zenon
  <2>2. PICK n \in AllocatorNames : n = AllocatorName(p, NodeOf(i), e)
    BY <1>3, <1>6, <2>1, NameFacts, Zenon
  <2>3. AllocatorName(p, NodeOf(i), e)' = n
    BY <1>4, <2>2, Zenon DEF AllocatorName
  <2>4. allocators'[n] = allocators[n]
    BY <1>6, <2>2, Zenon DEF Kept
  <2> QED BY <1>6, <2>2, <2>3, <2>4, Zenon DEF CauseAt
<1>7. ASSUME NEW m \in 1..Len(entities[e].spec[i].pools), NEW p, p = entities[e].spec[i].pools[m],
             pools[p] = None \/ (pools[p].scope = ScopeService /\ e \in Nodes)
      PROVE  CauseAt(e, i)'
  BY <1>7, Zenon DEF CauseAt
<1>8. CauseAt(e, i)'
  <2>1. ASSUME entities[NodeOf(i)] # None PROVE CauseAt(e, i)'
    <3>1. PICK m \in 1..Len(entities[e].spec[i].pools) : LET p == entities[e].spec[i].pools[m] IN
            \/ pools[p] = None
            \/ pools[p].scope = ScopeService /\ e \in Nodes
            \/ LET a == allocators[AllocatorName(p, NodeOf(i), e)] IN a # None /\ Exhausted(a)
      BY <1>1, <2>1, Zenon DEF CauseAt
    <3>2. PICK p : p = entities[e].spec[i].pools[m]
      BY Zenon
    <3>3. \/ pools[p] = None
          \/ pools[p].scope = ScopeService /\ e \in Nodes
          \/ /\ allocators[AllocatorName(p, NodeOf(i), e)] # None
             /\ Exhausted(allocators[AllocatorName(p, NodeOf(i), e)])
      BY <3>1, <3>2, Zenon
    <3> QED BY <1>6, <1>7, <3>1, <3>2, <3>3, Zenon
  <2> QED BY <1>5, <2>1, Zenon
<1> QED BY <1>8, Zenon DEF Cause

\* The allocator that AllocateAddress looks for is there.
LEMMA NamedIsWanted ==
  ASSUME PoolsOK, NEW p \in Pools, pools[p] # None, NEW node \in Nodes, entities[node] # None,
         NEW e \in Entities, entities[e] # None, ~(pools[p].scope = ScopeService /\ e \in Nodes)
  PROVE  AllocatorName(p, node, e) \in Wanted(pools, Configured(entities))
<1>1. PICK n \in AllocatorNames : n = AllocatorName(p, node, e)
  BY NameFacts, Zenon
<1>2. n[1] = pools[p].scope /\ n[2] = p /\ pools[p].scope \in {ScopeSystem, ScopeNode, ScopeService}
  BY <1>1, NameFacts, Zenon DEF Scopes
<1>3. ScopeSystem # ScopeNode /\ ScopeSystem # ScopeService /\ ScopeNode # ScopeService
  BY Zenon DEF ScopeSystem, ScopeNode, ScopeService
<1>4. node \in Nodes \cap Configured(entities)
  BY Zenon DEF Configured, Entities
<1>5. CASE n[1] = ScopeSystem
  <2>1. n[3] = None
    BY <1>1, <1>2, <1>3, <1>5 DEF AllocatorName
  <2> QED BY <1>1, <1>2, <1>3, <1>5, <2>1, Zenon DEF Wanted
<1>6. CASE n[1] = ScopeNode
  <2>1. n[3] = node
    BY <1>1, <1>2, <1>3, <1>6 DEF AllocatorName
  <2> QED BY <1>1, <1>2, <1>3, <1>4, <1>6, <2>1, Zenon DEF Wanted
<1>7. CASE n[1] = ScopeService
  <2>1. n[3] = e
    BY <1>1, <1>2, <1>3, <1>7 DEF AllocatorName
  <2>2. e \in Services \cap Configured(entities)
    BY <1>2, <1>7, Zenon DEF Configured, Entities
  <2> QED BY <1>1, <1>2, <1>3, <1>7, <2>1, <2>2, Zenon DEF Wanted
<1> QED BY <1>2, <1>5, <1>6, <1>7, Zenon

\* A step that begins no rendering and ends none.
LEMMA CausesFrame ==
  ASSUME Typed, Causes, pc \in {"idle", "render"}, UNCHANGED <<pools, host>>,
         \A d \in Entities : entities'[d] = None <=> entities[d] = None,
         \A n \in AllocatorNames : Kept(allocators[n], allocators'[n]),
         NEW e \in Entities, entities[e] # None, e \notin todo \/ e = cur,
         entities'[e].spec = entities[e].spec, entities[e].status.oper = "Down"
  PROVE  Cause(e)'
<1>1. Cause(e)
  BY Zenon DEF Causes, Configured
<1> QED BY <1>1, CauseFrame, Zenon

LEMMA CausesRenderStart ==
  ASSUME Typed, Causes, NEW e \in Entities, RenderStart(e)
  PROVE  Causes'
<1>1. /\ pc = "render" /\ cur = None /\ cur' = e /\ todo' = todo \ {e} /\ entities[e] # None
      /\ entities'[e].status.oper = "Down" =>
           \E n \in 1..Len(IfacesOf[e]) : entities[NodeOf(IfacesOf[e][n])] = None
      /\ \A d \in Entities \ {e} : entities'[d] = entities[d]
      /\ \A d \in Entities : entities'[d] = None <=> entities[d] = None
      /\ UNCHANGED <<pools, allocators, host>>
  BY RenderStartEffect, Zenon
<1>2. ASSUME entities'[e].status.oper = "Down" PROVE Cause(e)'
  <2>1. PICK n \in 1..Len(IfacesOf[e]) : entities[NodeOf(IfacesOf[e][n])] = None
    BY <1>1, <1>2, Zenon
  <2>2. PICK i : i = IfacesOf[e][n]
    BY Zenon
  <2>3. i \in IfacesIn(e)
    BY <2>1, <2>2, Zenon DEF IfacesIn
  <2>4. i \in Ifaces
    BY <2>3, OwnerFacts, Zenon
  <2>5. PICK d \in Entities : d = NodeOf(i)
    BY <2>4, TypedFacts, NodeOfType, Zenon DEF Entities
  <2>6. NodeOf(i)' = d /\ entities'[d] = None
    BY <1>1, <2>1, <2>2, <2>5, Zenon DEF NodeOf
  <2>7. CauseAt(e, i)'
    BY <2>6, Zenon DEF CauseAt
  <2> QED BY <2>3, <2>7, Zenon DEF Cause
<1>3. ASSUME NEW d \in Entities \ {e}, entities'[d] # None, d \notin todo' \/ d = cur',
             entities'[d].status.oper = "Down"
      PROVE  Cause(d)'
  <2>1. entities[d] # None /\ d \notin todo /\ entities'[d] = entities[d]
    BY <1>1, <1>3, Zenon
  <2>2. \A n \in AllocatorNames : Kept(allocators[n], allocators'[n])
    BY <1>1, KeptFacts, Zenon
  <2> QED BY <1>1, <1>3, <2>1, <2>2, CausesFrame, Zenon
<1> QED BY <1>2, <1>3, Zenon DEF Causes, Configured
=============================================================================
