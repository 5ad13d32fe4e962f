---------------------------- MODULE TensorProofs ----------------------------
(***************************************************************************)
(* Proofs about Tensor, for any tensors, dimensions, images, outputs and   *)
(* any width of an int.                                                    *)
(*                                                                         *)
(* size() is a loop over the dimensions, and what it computes is found by  *)
(* the least number of dimensions for which it would not.  The inductive   *)
(* invariant speaks of each storage by itself (ByStorage), and every       *)
(* operation but copy and a reshape to the same size gives one tensor a    *)
(* new storage (RenewalStep) or ends the process (FailStep).  Why a fault  *)
(* takes what it does is EvenOverrun and EvenOverread.  Where the elements *)
(* of a batch are is arithmetic of places: a number written in three       *)
(* digits to two bases (ThreeDigits), as swap_channels and memcpy lay the  *)
(* images out, at offsets that an int can count (OffsetsExact).            *)
(***************************************************************************)
EXTENDS Tensor, SequenceTheorems, FiniteSetTheorems, WellFoundedInduction,
        TLAPS

(* The product of a sequence of dimensions, one at a time.                 *)
Factors(s, f) ==
    \A i \in 1..(Len(s) + 1) :
        f[i] = IF i > Len(s) \/ s[i] <= 0 THEN 1 ELSE s[i] * f[i + 1]

Below == {ss \in Nat \X Nat : ss[1] < ss[2]}

(* Every set of natural numbers has a least element.                       *)
LEMMA LeastElement ==
    ASSUME NEW T \in SUBSET Nat, T # {}
    PROVE  \E x \in T : \A y \in T : x <= y
<1>1. OpToRel(<, Nat) = Below
  BY Zenon DEF OpToRel, Below
<1>2. IsWellFoundedOn(Below, Nat)
  BY Zenon, <1>1, NatLessThanWellFounded
<1>3. PICK x \in T : \A y \in T : <<y, x>> \notin Below
  BY <1>2, WFMin
<1>4. ASSUME NEW y \in T, y < x
      PROVE  FALSE
  BY <1>3, <1>4 DEF Below
<1>5. QED BY <1>4

(* The loop of size() can be run from any dimension to the last.           *)
LEMMA FactorsExist ==
    ASSUME NEW s \in Seq(Int)
    PROVE  \E f \in [1..(Len(s) + 1) -> Nat \ {0}] : Factors(s, f)
<1> DEFINE L == Len(s)
           Good(n, f) ==
             \A i \in (L + 1 - n)..(L + 1) :
                 f[i] = IF i > L \/ s[i] <= 0 THEN 1 ELSE s[i] * f[i + 1]
           From(n) == [(L + 1 - n)..(L + 1) -> Nat \ {0}]
           Missing == {n \in 0..L : ~ \E f \in From(n) : Good(n, f)}
<1>1. L \in Nat /\ \A i \in 1..L : s[i] \in Int
  OBVIOUS
<1>2. L \notin Missing => \E f \in [1..(L + 1) -> Nat \ {0}] : Factors(s, f)
  <2> SUFFICES ASSUME NEW f \in From(L), Good(L, f)
               PROVE  f \in [1..(L + 1) -> Nat \ {0}] /\ Factors(s, f)
    BY <1>1
  <2>1. L + 1 - L = 1
    BY <1>1
  <2>2. QED BY <2>1 DEF Factors
<1> HIDE DEF L
<1>3. ASSUME NEW n \in Missing, \A m \in Missing : n <= m
      PROVE  FALSE
  <2>1. CASE n = 0
    <3> DEFINE f == [i \in (L + 1 - n)..(L + 1) |-> 1]
    <3>1. f \in From(n) /\ Good(n, f)
      BY <1>1, <2>1
    <3>2. QED BY <3>1
  <2>2. CASE n # 0
    <3>1. n - 1 \in 0..L /\ n - 1 \notin Missing
      <4>1. n \in 0..L
        BY <1>3
      <4> HIDE DEF Missing
      <4>2. QED BY <1>1, <1>3, <2>2, <4>1
    <3>2. PICK g \in From(n - 1) : Good(n - 1, g)
      BY <3>1
    <3> DEFINE k == L + 1 - n
               f == [i \in k..(L + 1) |->
                        IF i = k THEN IF s[k] <= 0 THEN 1 ELSE s[k] * g[k + 1]
                        ELSE g[i]]
    <3>3. k \in 1..L /\ L + 1 - (n - 1) = k + 1
      BY <1>1, <2>2
    <3>4. g \in [(k + 1)..(L + 1) -> Nat \ {0}]
      BY <3>3
    <3>5. \A i \in (k + 1)..(L + 1) :
            g[i] = IF i > L \/ s[i] <= 0 THEN 1 ELSE s[i] * g[i + 1]
      BY <3>2, <3>3
    <3> HIDE DEF k
    <3>6. f \in [k..(L + 1) -> Nat \ {0}]
      <4>1. s[k] \in Int /\ g[k + 1] \in Nat \ {0}
        BY <1>1, <3>3, <3>4
      <4>2. s[k] > 0 => s[k] * g[k + 1] \in Nat \ {0}
        BY <4>1
      <4>3. \A i \in k..(L + 1) : i = k \/ i \in (k + 1)..(L + 1)
        BY <1>1, <3>3
      <4>4. ASSUME NEW i \in k..(L + 1)
            PROVE  (IF i = k THEN IF s[k] <= 0 THEN 1 ELSE s[k] * g[k + 1]
                    ELSE g[i]) \in Nat \ {0}
        <5>1. CASE i = k
          BY <4>1, <4>2, <5>1
        <5>2. CASE i # k
          BY <3>4, <4>3, <5>2
        <5>3. QED BY <5>1, <5>2
      <4>5. QED BY <4>4
    <3>7. ASSUME NEW i \in k..(L + 1)
          PROVE  f[i] = IF i > L \/ s[i] <= 0 THEN 1 ELSE s[i] * f[i + 1]
      <4>1. CASE i = k
        <5>1. f[k + 1] = g[k + 1] /\ ~(k > L)
          BY <1>1, <3>3
        <5>2. QED BY <4>1, <5>1, <3>3
      <4>2. CASE i # k
        <5>1. i \in (k + 1)..(L + 1)
          BY <1>1, <3>3, <4>2
        <5>2. ~(i > L) => i + 1 \in (k + 1)..(L + 1) /\ i + 1 # k
          BY <1>1, <3>3, <5>1
        <5>3. f[i] = g[i] /\ (~(i > L) => f[i + 1] = g[i + 1])
          BY <4>2, <5>1, <5>2, <3>3
        <5>4. QED BY <3>5, <5>1, <5>3
      <4>3. QED BY <4>1, <4>2
    <3> HIDE DEF f
    <3>8. f \in From(n) /\ Good(n, f)
      BY <3>6, <3>7 DEF k
    <3>9. QED BY <3>8
  <2>3. QED BY <2>1, <2>2
<1>4. Missing = {}
  <2>1. Missing \in SUBSET Nat
    BY <1>1
  <2> HIDE DEF Missing
  <2>2. QED BY <1>3, <2>1, LeastElement
<1>5. L \in Nat /\ L = Len(s)
  BY <1>1 DEF L
<1>6. QED BY <1>2, <1>4, <1>5

(* And its result is the same however it is found.                         *)
LEMMA FactorsUnique ==
    ASSUME NEW s \in Seq(Int),
           NEW f \in [1..(Len(s) + 1) -> Nat \ {0}], Factors(s, f),
           NEW g, Factors(s, g)
    PROVE  f[1] = g[1]
<1> DEFINE L == Len(s)
           Apart == {n \in 0..L : f[L + 1 - n] # g[L + 1 - n]}
<1>1. L \in Nat
  OBVIOUS
<1>2. \A i \in 1..(L + 1) :
        /\ f[i] = IF i > L \/ s[i] <= 0 THEN 1 ELSE s[i] * f[i + 1]
        /\ g[i] = IF i > L \/ s[i] <= 0 THEN 1 ELSE s[i] * g[i + 1]
  BY DEF Factors
<1> HIDE DEF L
<1>3. ASSUME NEW n \in Apart, \A m \in Apart : n <= m
      PROVE  FALSE
  <2> DEFINE i == L + 1 - n
  <2>1. i \in 1..(L + 1) /\ f[i] # g[i]
    BY <1>1
  <2>2. i <= L => f[i + 1] = g[i + 1]
    <3>1. ASSUME i <= L
          PROVE  f[i + 1] = g[i + 1]
      <4>1. n \in 0..L /\ n - 1 \in 0..L /\ L + 1 - (n - 1) = i + 1
        BY <1>1, <3>1
      <4>2. n - 1 \notin Apart
        <5> HIDE DEF Apart
        <5>1. QED BY <1>3, <4>1
      <4>3. QED BY <4>1, <4>2
    <3>2. QED BY <3>1
  <2> HIDE DEF i
  <2>3. QED BY <1>1, <1>2, <2>1, <2>2
<1>4. Apart = {}
  <2>1. Apart \in SUBSET Nat
    BY <1>1
  <2> HIDE DEF Apart
  <2>2. QED BY <1>3, <2>1, LeastElement
<1>5. L \in 0..L /\ L + 1 - L = 1
  BY <1>1
<1>6. QED BY <1>4, <1>5

(* So the product is what the loop multiplies.                             *)
LEMMA ProductIsLoop ==
    ASSUME NEW s \in Seq(Int)
    PROVE  \E f \in [1..(Len(s) + 1) -> Nat \ {0}] :
               Factors(s, f) /\ Product(s) = f[1]
<1>1. PICK f \in [1..(Len(s) + 1) -> Nat \ {0}] : Factors(s, f)
  BY FactorsExist
<1> DEFINE step(h) ==
             [i \in 1..(Len(s) + 1) |->
                 IF i > Len(s) \/ s[i] <= 0 THEN 1 ELSE s[i] * h[i + 1]]
           from == CHOOSE h : h = step(h)
<1>2. f = step(f)
  BY <1>1 DEF Factors
<1>3. from = step(from)
  <2> HIDE DEF step
  <2>1. QED BY <1>2
<1>4. Factors(s, from)
  <2> HIDE DEF from
  <2>1. QED BY <1>3 DEF Factors
<1>5. Product(s) = from[1]
  BY DEF Product
<1>6. f[1] = from[1]
  <2> HIDE DEF from
  <2>1. QED BY <1>1, <1>4, FactorsUnique
<1>7. QED BY <1>1, <1>5, <1>6

-----------------------------------------------------------------------------
(* Arithmetic of places: dividing takes off the last digit.                *)
LEMMA LastDigit ==
    ASSUME NEW a \in Nat, NEW b \in Nat \ {0}, NEW r \in 0..(b - 1)
    PROVE  (a * b + r) \div b = a /\ (a * b + r) % b = r
<1> DEFINE n == a * b + r
           q == n \div b
<1>1. n \in Nat /\ q \in Nat
  OBVIOUS
<1>2. q * b <= n /\ n < (q + 1) * b
  OBVIOUS
<1>3. q = a
  <2>1. ~(q < a)
    <3>1. ASSUME q < a
          PROVE  (q + 1) * b <= a * b
      BY <1>1, <3>1
    <3>2. QED BY <1>1, <1>2, <3>1
  <2>2. ~(a < q)
    <3>1. ASSUME a < q
          PROVE  (a + 1) * b <= q * b
      BY <1>1, <3>1
    <3>2. (a + 1) * b = a * b + b
      OBVIOUS
    <3>3. QED BY <1>1, <1>2, <3>1, <3>2
  <2>3. QED BY <1>1, <2>1, <2>2
<1>4. n % b = n - b * q
  OBVIOUS
<1>5. QED BY <1>3, <1>4

-----------------------------------------------------------------------------
(* Ints.                                                                   *)
LEMMA Widths ==
    /\ IntHalf \in Nat \ {0} /\ UintSize \in Nat \ {0}
    /\ UintSize = IntHalf + IntHalf
BY ConstantsAssumption DEF UintSize

(* What wrapping around leaves of a natural number.                        *)
LEMMA SignedFacts ==
    ASSUME NEW x \in Nat
    PROVE  /\ Signed(x) \in Int /\ Signed(x) <= x
           /\ x < IntHalf => Signed(x) = x
           /\ x >= IntHalf /\ x < UintSize => Signed(x) = x - UintSize
<1> DEFINE H == IntHalf
           U == UintSize
           m == (x + H) % U
<1>1. H \in Nat \ {0} /\ U \in Nat \ {0} /\ U = H + H
  BY Widths
<1>2. Signed(x) = m - H
  BY DEF Signed
<1> HIDE DEF H, U
<1>3. m \in Nat /\ m <= x + H
  BY <1>1
<1>4. x < H => m = x + H
  BY <1>1
<1>5. ASSUME x >= H, x < U
      PROVE  m = x + H - U
  <2>1. x + H = 1 * U + (x + H - U) /\ x + H - U \in 0..(U - 1)
    BY <1>1, <1>5
  <2>2. (1 * U + (x + H - U)) % U = x + H - U
    BY <1>1, <2>1, LastDigit
  <2>3. QED BY <2>1, <2>2
<1> HIDE DEF m
<1>6. QED BY <1>1, <1>2, <1>3, <1>4, <1>5 DEF H, U

(* It is the same after an unsigned int has wrapped around.                *)
LEMMA SignedOfUnsigned ==
    ASSUME NEW x \in Nat
    PROVE  Signed(x % UintSize) = Signed(x)
<1> DEFINE H == IntHalf
           U == UintSize
           q == x \div U
           r == x % U
<1>1. H \in Nat \ {0} /\ U \in Nat \ {0} /\ U = H + H
  BY Widths
<1>2. q \in Nat /\ r \in 0..(U - 1) /\ x = q * U + r
  <2> HIDE DEF U
  <2>1. QED BY <1>1
<1>3. Signed(r) = ((r + H) % U) - H /\ Signed(x) = ((x + H) % U) - H
  BY DEF Signed
<1> HIDE DEF H, U, q, r
<1>4. CASE r + H < U
  <2>1. x + H = q * U + (r + H) /\ r + H \in 0..(U - 1)
    <3>1. q * U \in Nat
      BY <1>1, <1>2
    <3>2. QED BY <1>1, <1>2, <1>4, <3>1
  <2>2. (x + H) % U = r + H
    BY <1>1, <1>2, <2>1, LastDigit
  <2>3. (r + H) % U = r + H
    BY <1>1, <2>1
  <2>4. QED BY <1>3, <2>2, <2>3 DEF r, U
<1>5. CASE ~(r + H < U)
  <2> DEFINE z == r + H - U
  <2>1. z \in 0..(U - 1)
    BY <1>1, <1>2, <1>5
  <2>2. x + H = (q + 1) * U + z /\ r + H = 1 * U + z
    <3>1. (q + 1) * U = q * U + U /\ q * U \in Nat
      BY <1>1, <1>2
    <3>2. QED BY <1>1, <1>2, <3>1
  <2> HIDE DEF z
  <2>3. (x + H) % U = z /\ (r + H) % U = z
    BY <1>1, <1>2, <2>1, <2>2, LastDigit
  <2>4. QED BY <1>3, <2>3 DEF r, U
<1>6. QED BY <1>4, <1>5

-----------------------------------------------------------------------------
(* A product of dimensions is positive, and size() a natural number.       *)
LEMMA SizeType ==
    ASSUME NEW s \in Seq(Int), s # <<>>
    PROVE  Product(s) \in Nat \ {0} /\ Size(s) \in Nat
<1>1. PICK f \in [1..(Len(s) + 1) -> Nat \ {0}] :
             Factors(s, f) /\ Product(s) = f[1]
  BY ProductIsLoop
<1>2. 1 \in 1..(Len(s) + 1)
  OBVIOUS
<1>3. Product(s) \in Nat \ {0}
  BY <1>1, <1>2
<1>4. Product(s) % UintSize \in Nat
  BY <1>3, Widths
<1>5. QED BY <1>3, <1>4 DEF Size

(* The two shapes whose size the operations rely on: one row.              *)
LEMMA SizeOfRow ==
    ASSUME NEW p \in Nat \ {0}, p < UintSize
    PROVE  Size(<<1, p>>) = p
<1> DEFINE s == <<1, p>>
<1>1. s \in Seq(Int) /\ Len(s) = 2 /\ s[1] = 1 /\ s[2] = p
  OBVIOUS
<1> HIDE DEF s
<1>2. Len(s) + 1 = 3
  BY <1>1
<1>3. PICK f \in [1..3 -> Nat \ {0}] : Factors(s, f) /\ Product(s) = f[1]
  BY <1>1, <1>2, ProductIsLoop
<1>4. f[3] = 1 /\ f[2] = p * f[3] /\ f[1] = 1 * f[2]
  BY <1>1, <1>3 DEF Factors
<1>5. Product(s) = p
  BY <1>3, <1>4
<1>6. p % UintSize = p
  BY Widths
<1>7. QED BY <1>1, <1>5, <1>6 DEF Size, s

(* Four positive dimensions.                                               *)
LEMMA SizeOfFour ==
    ASSUME NEW a \in Nat \ {0}, NEW b \in Nat \ {0},
           NEW c \in Nat \ {0}, NEW d \in Nat \ {0}
    PROVE  Size(<<a, b, c, d>>) = (a * (b * (c * d))) % UintSize
<1> DEFINE s == <<a, b, c, d>>
<1>1. /\ s \in Seq(Int) /\ Len(s) = 4
      /\ s[1] = a /\ s[2] = b /\ s[3] = c /\ s[4] = d
  OBVIOUS
<1> HIDE DEF s
<1>2. Len(s) + 1 = 5
  BY <1>1
<1>3. PICK f \in [1..5 -> Nat \ {0}] : Factors(s, f) /\ Product(s) = f[1]
  BY <1>1, <1>2, ProductIsLoop
<1>4. /\ f[5] = 1 /\ f[4] = d * f[5] /\ f[3] = c * f[4]
      /\ f[2] = b * f[3] /\ f[1] = a * f[2]
  BY <1>1, <1>3 DEF Factors
<1>5. f[4] = d
  BY <1>4
<1>6. Product(s) = a * (b * (c * d))
  BY <1>3, <1>4, <1>5
<1>7. QED BY <1>1, <1>6 DEF Size, s

(* A net's output has dimensions, all positive.                            *)
LEMMA OutputDims ==
    ASSUME NEW dims \in Shapes(NetDims, NetRank)
    PROVE  dims \in Seq(Int) /\ Len(dims) \in Nat \ {0}
             /\ \A i \in 1..Len(dims) : dims[i] \in Nat \ {0}
<1>1. PICK n \in 1..NetRank : dims \in [1..n -> NetDims]
  BY DEF Shapes
<1>2. n \in Nat \ {0} /\ NetDims \subseteq Nat \ {0}
  BY ConstantsAssumption
<1>3. \A i \in 1..n : dims[i] \in Nat \ {0}
  BY <1>1, <1>2
<1>4. dims \in Seq(Int) /\ Len(dims) = n
  <2>1. DOMAIN dims = 1..n /\ dims = [i \in 1..n |-> dims[i]]
    BY <1>1
  <2>2. dims \in [1..n -> Int]
    BY <1>3, <2>1
  <2>3. QED BY <1>2, <2>2
<1>5. QED BY <1>2, <1>3, <1>4

(* The size of an output is the number of its elements.                    *)
LEMMA SizeOfOutput ==
    ASSUME NEW dims \in Shapes(NetDims, NetRank), Product(dims) < UintSize
    PROVE  Size(dims) = Product(dims)
<1>1. /\ dims \in Seq(Int) /\ Len(dims) \in Nat \ {0}
      /\ \A i \in 1..Len(dims) : dims[i] \in Nat \ {0}
  BY OutputDims
<1>2. dims \in Seq(Int) /\ dims # <<>> /\ dims[1] > 0
  BY <1>1
<1>3. Product(dims) \in Nat
  BY <1>2, SizeType
<1>4. Product(dims) % UintSize = Product(dims)
  BY <1>3, Widths
<1>5. QED BY <1>2, <1>4 DEF Size

(* An image's size as numbers.                                             *)
LEMMA ImageSizes ==
    ASSUME NEW m \in Images
    PROVE  /\ m.rows \in Nat /\ m.cols \in Nat /\ m.channels \in Nat \ {0}
           /\ m.step \in Nat \ {0} /\ m.depth \in Nat \ {0} /\ m.room \in Nat
           /\ m.step >= m.cols * m.channels
           /\ Items(m) \in Nat
           /\ Items(m) = m.channels * (m.rows * m.cols)
           /\ Items(m) # 0 <=> m.rows # 0 /\ m.cols # 0
<1>1. /\ m.rows \in Nat /\ m.cols \in Nat /\ m.channels \in Nat \ {0}
      /\ m.step \in Nat \ {0} /\ m.depth \in Nat \ {0} /\ m.room \in Nat
      /\ m.step >= m.cols * m.channels
  BY ImagesAssumption, ConstantsAssumption
<1> DEFINE c == m.channels
           r == m.rows
           w == m.cols
<1>2. Items(m) = c * r * w
  BY DEF Items
<1>3. c \in Nat \ {0} /\ r \in Nat /\ w \in Nat
  BY <1>1
<1> HIDE DEF c, r, w
<1>4. c * r * w \in Nat /\ c * r * w = c * (r * w)
  BY <1>3
<1>5. c * r * w # 0 <=> r # 0 /\ w # 0
  <2>1. r = 0 \/ w = 0 => c * (r * w) = 0
    BY <1>3
  <2>2. r # 0 /\ w # 0 => r * w \in Nat \ {0}
    BY <1>3
  <2>3. r # 0 /\ w # 0 => c * (r * w) # 0
    BY <1>3, <2>2
  <2>4. QED BY <1>4, <2>1, <2>3
<1>6. QED BY <1>1, <1>2, <1>4, <1>5 DEF c, r, w

(* The elements of an image that is not empty are in its memory.           *)
LEMMA ImageInMemory ==
    ASSUME NEW m \in Images, Items(m) # 0
    PROVE  Items(m) * m.depth <= m.room
<1> DEFINE c == m.channels
           r == m.rows
           w == m.cols
           row == w * c
           st == m.step
           d == m.depth
<1>1. /\ r \in Nat \ {0} /\ w \in Nat /\ c \in Nat /\ st \in Nat
      /\ d \in Nat /\ m.room \in Nat /\ st >= row
      /\ Items(m) = c * (r * w)
  BY ImageSizes
<1>2. m.room >= ((r - 1) * st + row) * d
  BY ImageSizes, ImagesAssumption DEF Span
<1> HIDE DEF c, r, w, st, d
<1>3. Items(m) = r * row
  BY <1>1
<1>4. row \in Nat
  BY <1>1
<1> HIDE DEF row
<1>5. (r - 1) * row <= (r - 1) * st
  BY <1>1, <1>4
<1>6. (r - 1) * row + row = r * row
  BY <1>1, <1>4
<1>7. /\ (r - 1) * row \in Nat /\ (r - 1) * st \in Nat /\ r * row \in Nat
  BY <1>1, <1>4
<1> DEFINE small == r * row
           large == (r - 1) * st + row
<1>8. small <= large /\ small \in Nat /\ large \in Nat
  BY <1>4, <1>5, <1>6, <1>7
<1>9. Items(m) = small /\ m.room >= large * d
  BY <1>2, <1>3
<1> HIDE DEF small, large
<1>10. small * d <= large * d
  BY <1>1, <1>8
<1>11. small * d \in Nat /\ large * d \in Nat
  BY <1>1, <1>8
<1>12. QED BY <1>1, <1>9, <1>10, <1>11 DEF d

(* cv::split() writes no more than the image when its elements are no      *)
(* wider than T, and all of it when they are of type T.                    *)
LEMMA ReachFacts ==
    ASSUME NEW m \in Images
    PROVE  /\ Reach(m) \in Nat
           /\ m.depth <= TSize => Reach(m) <= Items(m)
           /\ m.depth = TSize => Reach(m) = Items(m)
<1> DEFINE p == m.rows * m.cols
           d == m.depth
           T == TSize
           len == Items(m)
           q == (p * d + T - 1) \div T
<1>1. /\ p \in Nat /\ d \in Nat \ {0} /\ T \in Nat \ {0} /\ len \in Nat
      /\ p <= len
  <2>1. /\ m.rows \in Nat /\ m.cols \in Nat /\ m.channels \in Nat \ {0}
        /\ len = m.channels * p /\ d \in Nat \ {0} /\ len \in Nat
    BY ImageSizes
  <2>2. p \in Nat
    BY <2>1
  <2> HIDE DEF p, len
  <2>3. 1 * p <= m.channels * p
    BY <2>1, <2>2
  <2>4. QED BY <2>1, <2>2, <2>3, ConstantsAssumption
<1>2. Reach(m) = IF len = 0 THEN 0 ELSE len - p + q
  BY DEF Reach
<1> HIDE DEF p, d, T, len
<1>3. p * d \in Nat /\ p * T \in Nat
  BY <1>1
<1>4. q \in Nat
  BY <1>1, <1>3
<1>5. ASSUME d = T
      PROVE  q = p
  <2>1. p * d + T - 1 = p * T + (T - 1) /\ T - 1 \in 0..(T - 1)
    BY <1>1, <1>3, <1>5
  <2>2. (p * T + (T - 1)) \div T = p
    BY <1>1, <2>1, LastDigit
  <2>3. QED BY <2>1, <2>2
<1>6. ASSUME d <= T
      PROVE  q <= p
  <2> DEFINE n == p * d + T - 1
  <2>1. p * d <= p * T
    BY <1>1, <1>6
  <2>2. n \in Nat /\ q * T <= n
    <3>1. n \in Nat
      BY <1>1, <1>3
    <3> HIDE DEF n
    <3>2. (n \div T) * T <= n
      BY <1>1, <3>1
    <3>3. QED BY <3>1, <3>2 DEF n
  <2>3. q * T < p * T + T
    <3>1. q * T \in Nat
      BY <1>1, <1>4
    <3> HIDE DEF q
    <3>2. QED BY <1>1, <1>3, <2>1, <2>2, <3>1
  <2>4. p * T + T = (p + 1) * T
    BY <1>1
  <2> HIDE DEF q
  <2>5. ASSUME q >= p + 1
        PROVE  FALSE
    <3>1. q * T >= (p + 1) * T
      BY <1>1, <1>4, <2>5
    <3>2. q * T \in Nat /\ (p + 1) * T \in Nat
      BY <1>1, <1>4
    <3>3. QED BY <2>3, <2>4, <3>1, <3>2
  <2>6. QED BY <1>1, <1>4, <2>5
<1> HIDE DEF q
<1>7. QED BY <1>1, <1>2, <1>4, <1>5, <1>6 DEF d, T, len

(* The size of a tensor made for a batch of n such images.                 *)
LEMMA SizeOfBatch ==
    ASSUME NEW m \in Images, NEW n \in Nat \ {0}, NEW swap \in BOOLEAN
    PROVE  /\ ShapeOf(m, n, swap) \in Seq(Int)
           /\ Len(ShapeOf(m, n, swap)) = 4
           /\ Size(ShapeOf(m, n, swap)) \in Nat
           /\ Items(m) # 0 =>
                Size(ShapeOf(m, n, swap)) = (n * Items(m)) % UintSize
<1> DEFINE c == m.channels
           r == m.rows
           w == m.cols
           s == ShapeOf(m, n, swap)
<1>1. c \in Nat \ {0} /\ r \in Nat /\ w \in Nat /\ Items(m) = c * (r * w)
        /\ (Items(m) # 0 => r # 0 /\ w # 0)
  BY ImageSizes
<1>2. s = <<n, c, r, w>> \/ s = <<n, r, w, c>>
  BY DEF ShapeOf
<1> HIDE DEF c, r, w, s
<1>3. s \in Seq(Int) /\ Len(s) = 4
  <2>1. c \in Int /\ r \in Int /\ w \in Int /\ n \in Int
    BY <1>1
  <2>2. <<n, c, r, w>> \in Seq(Int) /\ Len(<<n, c, r, w>>) = 4
    BY <2>1
  <2>3. <<n, r, w, c>> \in Seq(Int) /\ Len(<<n, r, w, c>>) = 4
    BY <2>1
  <2>4. QED BY <1>2, <2>2, <2>3
<1>4. Size(s) \in Nat
  <2>1. s # <<>>
    BY <1>3
  <2>2. QED BY <1>3, <2>1, SizeType
<1>5. ASSUME Items(m) # 0
      PROVE  Size(s) = (n * Items(m)) % UintSize
  <2>1. r \in Nat \ {0} /\ w \in Nat \ {0}
    BY <1>1, <1>5
  <2>2. CASE s = <<n, c, r, w>>
    <3>1. Size(s) = (n * (c * (r * w))) % UintSize
      BY <1>1, <2>1, <2>2, SizeOfFour
    <3>2. QED BY <1>1, <3>1
  <2>3. CASE s = <<n, r, w, c>>
    <3>1. Size(s) = (n * (r * (w * c))) % UintSize
      BY <1>1, <2>1, <2>3, SizeOfFour
    <3>2. r * (w * c) = c * (r * w)
      BY <1>1
    <3>3. QED BY <1>1, <3>1, <3>2
  <2>4. QED BY <1>2, <2>2, <2>3
<1>6. QED BY <1>3, <1>4, <1>5 DEF s


-----------------------------------------------------------------------------
(* Where a load ends in a fault.                                           *)

(* A source of images as an operation makes it.                            *)
Loadable(src) ==
    /\ src \in Sources /\ OfImages(src)
    /\ src.op = "mat" => Len(src.images) = 1

(* What it is, field by field.                                             *)
LEMMA LoadableFields ==
    ASSUME NEW src \in Sources, OfImages(src)
    PROVE  /\ src.images \in Seq(Images) /\ Len(src.images) \in Nat
           /\ \A k \in 1..Len(src.images) : src.images[k] \in Images
           /\ src.batch \in Nat /\ src.swap \in BOOLEAN
           /\ src.op = "mat" => src.batch = 1
<1>1. \/ src \in [op : {"mat"}, images : Seq(Images), batch : {1},
                  swap : BOOLEAN]
      \/ src \in [op : {"mats"}, images : Seq(Images), batch : 0..MaxBatch,
                  swap : BOOLEAN]
  BY DEF Sources, OfImages
<1>2. MaxBatch \in Nat
  BY ConstantsAssumption
<1>3. QED BY <1>1, <1>2

(* How large the storage of a load is.                                     *)
LEMMA ExtentFacts ==
    ASSUME NEW src \in Sources, OfImages(src), Admitted(src),
           src.images # <<>>
    PROVE  /\ src.batch \in Nat \ {0} /\ Len(src.images) \in 1..src.batch
           /\ src.images[1] \in Images /\ Items(src.images[1]) \in Nat
           /\ LoadedShape(src) \in Seq(Int) /\ Len(LoadedShape(src)) = 4
           /\ Extent(src) \in Nat
           /\ Items(src.images[1]) # 0 =>
                Extent(src) = (src.batch * Items(src.images[1])) % UintSize
<1>1. /\ src.batch \in Nat \ {0} /\ src.swap \in BOOLEAN
      /\ Len(src.images) \in Nat /\ Len(src.images) <= src.batch
      /\ src.images \in Seq(Images) \ {<<>>}
  BY LoadableFields DEF Admitted
<1>2. Len(src.images) \in 1..src.batch /\ src.images[1] \in Images
  BY <1>1
<1>3. Items(src.images[1]) \in Nat
  BY <1>2, ImageSizes
<1>4. QED BY <1>1, <1>2, <1>3, SizeOfBatch DEF Extent, LoadedShape

(* Images no larger than the first that an int can count stay inside the   *)
(* storage.                                                                *)
LEMMA EvenOverrun ==
    ASSUME NEW src, Loadable(src), Admitted(src), src.images # <<>>,
           ~TooLarge(src),
           src.swap => \A k \in 1..Len(src.images) :
                          /\ Items(src.images[k]) <= Items(src.images[1])
                          /\ src.images[k].depth <= TSize
    PROVE  ~Overruns(src)
<1> DEFINE ms == src.images
           first == Items(ms[1])
           n == src.batch
           N == Len(ms)
           E == Extent(src)
           v == Nitems(ms[1])
           mat == src.op = "mat"
<1>1. /\ n \in Nat \ {0} /\ N \in 1..n /\ first \in Nat /\ E \in Nat
      /\ first # 0 => E = (n * first) % UintSize
  BY ExtentFacts DEF Loadable
<1>2. /\ mat => n = 1 /\ N = 1
      /\ \A k \in 1..N : ms[k] \in Images
  BY LoadableFields DEF Loadable
<1>3. IntHalf \in Nat /\ UintSize \in Nat /\ IntHalf <= UintSize
  BY Widths
<1>4. /\ n * first < UintSize
      /\ ~mat => n * first < IntHalf
      /\ n * first \in Nat
  <2>1. n * first \in Nat
    BY <1>1
  <2>2. ~(n * first >= IF mat THEN UintSize ELSE IntHalf)
    BY DEF TooLarge
  <2> HIDE DEF n, first, mat
  <2>3. QED BY <1>3, <2>1, <2>2
<1>5. /\ v \in Int
      /\ first < IntHalf => v = first
  BY <1>1, SignedFacts DEF Nitems
<1>6. /\ \A k \in 1..N : Offset(src, k) = IF src.swap THEN Signed((k - 1) * v)
                                         ELSE (k - 1) * v
  BY DEF Offset
<1>7. \A k \in 1..N : Written(src, k) = IF src.swap THEN Reach(ms[k])
                                       ELSE IF mat THEN E ELSE v
  BY DEF Written, Count
<1>8. src.swap => \A k \in 1..N :
                     Reach(ms[k]) \in Nat /\ Reach(ms[k]) <= first
  <2> SUFFICES ASSUME src.swap, NEW k \in 1..N
               PROVE  Reach(ms[k]) \in Nat /\ Reach(ms[k]) <= first
    OBVIOUS
  <2>1. ms[k] \in Images /\ Items(ms[k]) <= first /\ ms[k].depth <= TSize
    BY <1>2
  <2>2. /\ Reach(ms[k]) \in Nat /\ Reach(ms[k]) <= Items(ms[k])
        /\ Items(ms[k]) \in Nat
    BY <2>1, ReachFacts, ImageSizes
  <2> HIDE DEF first
  <2>3. QED BY <1>1, <2>1, <2>2
<1>9. first # 0 => E = n * first
  <2> HIDE DEF n, first, E
  <2>1. QED BY <1>1, <1>3, <1>4
<1>10. first <= n * first
  <2> HIDE DEF n, first
  <2>1. 1 * first <= n * first
    BY <1>1
  <2>2. QED BY <1>1, <2>1
<1>11. Signed(0) = 0
  BY SignedFacts, Widths
<1> HIDE DEF ms, first, n, N, E, v, mat
<1>12. ASSUME NEW k \in 1..N
       PROVE  LET off == Offset(src, k)
              IN /\ off \in Nat
                 /\ first # 0 => off + first <= E
                 /\ mat => off = 0
                 /\ ~mat => v = first
  <2>1. CASE mat
    <3>1. k = 1
      BY <1>2, <2>1
    <3>2. (k - 1) * v = 0
      BY <1>5, <3>1
    <3>3. Offset(src, k) = 0
      BY <1>6, <1>11, <3>2
    <3>4. first # 0 => 0 + first <= E
      BY <1>1, <1>4, <1>9, <1>10
    <3>5. QED BY <2>1, <3>3, <3>4
  <2>2. CASE ~mat
    <3> DEFINE x == (k - 1) * first
               y == k * first
               z == n * first
    <3>1. v = first
      BY <1>1, <1>3, <1>4, <1>5, <1>10, <2>2
    <3>2. k \in Nat \ {0} /\ k <= n
      BY <1>1
    <3>3. x \in Nat /\ y \in Nat /\ x + first = y
      BY <1>1, <3>2
    <3>4. y <= z
      BY <1>1, <3>2
    <3>5. z \in Nat /\ z < IntHalf /\ (first # 0 => E = z)
      BY <1>4, <1>9, <2>2
    <3>6. Offset(src, k) = IF src.swap THEN Signed(x) ELSE x
      BY <1>6, <3>1
    <3> HIDE DEF x, y, z
    <3>7. x < IntHalf
      BY <1>1, <1>3, <3>3, <3>4, <3>5
    <3>8. Offset(src, k) = x
      BY <3>3, <3>6, <3>7, SignedFacts
    <3>9. first # 0 => x + first <= E
      BY <1>1, <3>3, <3>4, <3>5
    <3>10. QED BY <2>2, <3>1, <3>3, <3>8, <3>9
  <2>3. QED BY <2>1, <2>2
<1>13. ASSUME NEW k \in 1..N
       PROVE  LET off == Offset(src, k)
                  w == Written(src, k)
              IN w # 0 => off >= 0 /\ w > 0 /\ off + w <= E
  <2> DEFINE off == Offset(src, k)
             w == Written(src, k)
  <2>1. /\ off \in Nat
        /\ first # 0 => off + first <= E
        /\ mat => off = 0
        /\ ~mat => v = first
    BY <1>12
  <2>2. w = IF src.swap THEN Reach(ms[k]) ELSE IF mat THEN E ELSE v
    BY <1>7
  <2> HIDE DEF off, w
  <2>3. CASE src.swap
    <3>1. w \in Nat /\ w <= first
      BY <1>8, <2>2, <2>3
    <3>2. QED BY <1>1, <2>1, <3>1 DEF off, w
  <2>4. CASE ~src.swap /\ mat
    <3>1. w = E /\ off = 0
      BY <2>1, <2>2, <2>4
    <3>2. QED BY <1>1, <3>1 DEF off, w
  <2>5. CASE ~src.swap /\ ~mat
    <3>1. w = first
      BY <2>1, <2>2, <2>5
    <3>2. QED BY <1>1, <2>1, <3>1 DEF off, w
  <2>6. QED BY <2>3, <2>4, <2>5
<1>14. QED BY <1>13 DEF Overruns, ms, N, E

(* memcpy() stays inside images no smaller than the first.                 *)
LEMMA EvenOverread ==
    ASSUME NEW src, Loadable(src), Admitted(src), src.images # <<>>,
           ~src.swap => /\ src.op = "mat" => Items(src.images[1]) # 0
                        /\ \A k \in 1..Len(src.images) :
                             /\ Items(src.images[k]) >= Items(src.images[1])
                             /\ src.images[k].depth >= TSize
    PROVE  ~Overreads(src)
<1> SUFFICES ASSUME ~src.swap, NEW k \in 1..Len(src.images)
             PROVE  ~(Count(src) * TSize > src.images[k].room)
  BY DEF Overreads
<1> DEFINE first == Items(src.images[1])
           n == src.batch
           m == src.images[k]
           c == Count(src)
           T == TSize
           len == Items(m)
           d == m.depth
<1>1. /\ n \in Nat \ {0} /\ first \in Nat
      /\ first # 0 => Extent(src) = (n * first) % UintSize
  BY ExtentFacts DEF Loadable
<1>2. src.op = "mat" => n = 1 /\ first # 0
  BY LoadableFields DEF Loadable
<1>3. m \in Images /\ len >= first /\ d >= T
  BY LoadableFields DEF Loadable
<1>4. len \in Nat /\ d \in Nat /\ m.room \in Nat /\ T \in Nat
        /\ (len # 0 => len * d <= m.room)
  BY <1>3, ImageSizes, ImageInMemory, ConstantsAssumption
<1>5. c \in Int /\ c <= first
  <2>1. CASE src.op = "mat"
    <3>1. c = (n * first) % UintSize /\ n = 1
      BY <1>1, <1>2, <2>1 DEF Count
    <3> HIDE DEF c, n, first
    <3>2. c = first % UintSize
      BY <1>1, <3>1
    <3>3. QED BY <1>1, <3>2, Widths
  <2>2. CASE src.op # "mat"
    <3>1. c = Signed(first)
      BY <2>2 DEF Count, Nitems
    <3> HIDE DEF c, first
    <3>2. QED BY <1>1, <3>1, SignedFacts
  <2>3. QED BY <2>1, <2>2
<1> HIDE DEF first, n, m, c, T, len, d
<1>6. c * T \in Int /\ first * T \in Nat /\ len * T \in Nat /\ len * d \in Nat
  BY <1>1, <1>4, <1>5
<1>7. c * T <= first * T
  BY <1>1, <1>4, <1>5
<1>8. first * T <= len * T
  BY <1>1, <1>3, <1>4
<1>9. len * T <= len * d
  BY <1>3, <1>4
<1>10. len = 0 => len * d = 0
  BY <1>4
<1> DEFINE a == c * T
           b == len * d
<1>11. a <= b /\ a \in Int /\ b \in Nat
  BY <1>6, <1>7, <1>8, <1>9
<1>12. b <= m.room
  BY <1>4, <1>10
<1> HIDE DEF a, b
<1>13. ~(a > m.room)
  BY <1>4, <1>11, <1>12
<1>14. QED BY <1>13 DEF a, c, T, m

(* The assertion at the end fails only for an empty first image.           *)
LEMMA EvenFills ==
    ASSUME NEW src, Loadable(src), Admitted(src), src.images # <<>>,
           Items(src.images[1]) # 0
    PROVE  Fills(src)
<1> DEFINE x == src.batch * Items(src.images[1])
<1>1. /\ src.batch \in Nat /\ Items(src.images[1]) \in Nat
      /\ Extent(src) = x % UintSize
  BY ExtentFacts DEF Loadable
<1>2. x \in Nat
  BY <1>1
<1> HIDE DEF x
<1>3. Signed(x % UintSize) = Signed(x)
  BY <1>2, SignedOfUnsigned
<1>4. QED BY <1>1, <1>3 DEF Fills, x

(* What is odd about a source that a fault takes.                          *)
Odd(kind, src) ==
    LET first == Items(src.images[1])
        each == ToSet(src.images)
    IN \/ src.op = "mnn" /\ Product(src.dims) >= IntHalf
       \/ /\ OfImages(src) /\ kind = "overrun"
          /\ \/ TooLarge(src)
             \/ /\ src.swap
                /\ \E m \in each : Items(m) > first \/ m.depth > TSize
       \/ /\ OfImages(src) /\ kind = "overread"
          /\ \/ src.images = <<>>
             \/ /\ ~src.swap
                /\ \E m \in each :
                      \/ Items(m) < first \/ m.depth < TSize
                      \/ src.op = "mat" /\ first = 0
       \/ /\ src.op = "mats" /\ kind = "assert"
          /\ ~Admitted(src) \/ first = 0

Kinds == {"overrun", "overread", "assert"}

(* A load faults only for an odd source.                                   *)
LEMMA LoadFaults ==
    ASSUME NEW src, Loadable(src), NEW kind \in Faults(src)
    PROVE  kind \in Kinds /\ Odd(kind, src)
<1>1. OfImages(src) /\ src.op \in {"mat", "mats"}
  BY DEF Loadable, OfImages
<1>2. CASE ~Admitted(src)
  <2>1. kind = "assert"
    BY <1>2 DEF Faults
  <2>2. src.op # "mat"
    <3> DEFINE N == Len(src.images)
    <3>1. src.op = "mat" => src.batch = 1 /\ N = 1
      BY LoadableFields DEF Loadable
    <3>2. Admitted(src) <=> src.batch > 0 /\ N <= src.batch
      BY DEF Admitted
    <3> HIDE DEF N
    <3>3. QED BY <1>2, <3>1, <3>2
  <2>3. QED BY <1>1, <1>2, <2>1, <2>2 DEF Odd, Kinds
<1>3. CASE Admitted(src) /\ src.images = <<>>
  <2>1. kind = "overread"
    BY <1>3 DEF Faults
  <2>2. QED BY <1>1, <1>3, <2>1 DEF Odd, Kinds
<1>4. CASE Admitted(src) /\ src.images # <<>>
  <2> DEFINE ms == src.images
             first == Items(ms[1])
  <2>1. /\ kind \in Kinds
        /\ kind = "overrun" => Overruns(src)
        /\ kind = "overread" => Overreads(src)
        /\ kind = "assert" => src.op = "mats" /\ ~Fills(src)
    BY <1>4 DEF Faults, Kinds
  <2>2. first \in Nat /\ \A k \in 1..Len(ms) : ms[k] \in Images
    BY <1>4, ExtentFacts, LoadableFields DEF Loadable
  <2>3. \A k \in 1..Len(ms) :
          /\ ms[k] \in ToSet(ms) /\ Items(ms[k]) \in Nat
          /\ ms[k].depth \in Nat /\ TSize \in Nat
    BY <2>2, ImageSizes, ConstantsAssumption DEF ToSet
  <2>4. CASE kind = "overrun"
    <3>1. ASSUME ~TooLarge(src), src.swap,
                 \A m \in ToSet(ms) : ~(Items(m) > first \/ m.depth > TSize)
          PROVE  \A k \in 1..Len(ms) :
                    Items(ms[k]) <= first /\ ms[k].depth <= TSize
      <4> HIDE DEF first
      <4>1. QED BY <2>2, <2>3, <3>1
    <3>2. QED BY <1>1, <1>4, <2>1, <2>4, <3>1, EvenOverrun DEF Odd
  <2>5. CASE kind = "overread"
    <3>1. ASSUME ~src.swap,
                 \A m \in ToSet(ms) :
                    ~(\/ Items(m) < first \/ m.depth < TSize
                      \/ src.op = "mat" /\ first = 0)
          PROVE  /\ src.op = "mat" => first # 0
                 /\ \A k \in 1..Len(ms) :
                      Items(ms[k]) >= first /\ ms[k].depth >= TSize
      <4>1. ms[1] \in ToSet(ms)
        BY <1>4, <2>3, ExtentFacts DEF Loadable
      <4> HIDE DEF first
      <4>2. QED BY <2>2, <2>3, <3>1, <4>1
    <3>2. QED BY <1>1, <1>4, <2>1, <2>5, <3>1, EvenOverread DEF Odd
  <2>6. CASE kind = "assert"
    BY <1>4, <2>1, <2>6, EvenFills DEF Odd
  <2>7. QED BY <2>1, <2>4, <2>5, <2>6 DEF Kinds
<1>5. QED BY <1>2, <1>3, <1>4

-----------------------------------------------------------------------------
(* What a load leaves.                                                     *)

(* A set of indices has a last one.                                        *)
LEMMA LastIndex ==
    ASSUME NEW n \in Nat, NEW T \in SUBSET (1..n), T # {}
    PROVE  Max(T) \in T /\ \A k \in T : Max(T) >= k
<1> DEFINE D == {n - k : k \in T}
<1>1. D \in SUBSET Nat /\ D # {}
  <2>1. \A k \in T : n - k \in Nat
    OBVIOUS
  <2>2. PICK k \in T : TRUE
    OBVIOUS
  <2>3. n - k \in D
    OBVIOUS
  <2>4. QED BY <2>1, <2>3
<1>2. PICK d \in D : \A e \in D : d <= e
  <2> HIDE DEF D
  <2>1. QED BY <1>1, LeastElement
<1>3. PICK k \in T : d = n - k
  BY <1>2
<1>4. \A j \in T : k >= j
  <2> SUFFICES ASSUME NEW j \in T
               PROVE  k >= j
    OBVIOUS
  <2>1. n - j \in D
    OBVIOUS
  <2>2. n - k <= n - j
    BY <1>2, <1>3, <2>1
  <2>3. QED BY <2>2
<1>5. QED BY <1>4 DEF Max

(* A sequence of n equal elements.                                         *)
LEMMA FilledType ==
    ASSUME NEW n \in Nat, NEW S, NEW item \in S
    PROVE  Filled(n, item) \in Seq(S) /\ Len(Filled(n, item)) = n
BY DEF Filled

(* An element of an image, wherever it is.                                 *)
LEMMA ElementType ==
    ASSUME NEW m \in Images, NEW k \in Nat, NEW j \in Nat,
           NEW swap \in BOOLEAN,
           swap /\ m.depth = TSize => j < Items(m)
    PROVE  Element(m, k, j, swap) \in Seq(Int)
<1> DEFINE c == m.channels
           r == m.rows
           w == m.cols
           st == m.step
           plane == r * w
           y == j \div st
           pos == j % st
<1>1. /\ c \in Nat \ {0} /\ r \in Nat /\ w \in Nat /\ st \in Nat \ {0}
      /\ Items(m) # 0 <=> r # 0 /\ w # 0
      /\ Items(m) \in Nat
  BY ImageSizes
<1>2. Misfit \in Seq(Int) /\ Margin \in Seq(Int)
  BY DEF Misfit, Margin
<1>3. ASSUME swap, m.depth = TSize
      PROVE  InPlanes(m, k, j) \in Seq(Int)
  <2>1. InPlanes(m, k, j) = <<k, j \div plane, (j % plane) \div w, j % w>>
    BY DEF InPlanes
  <2>2. r \in Nat \ {0} /\ w \in Nat \ {0}
    <3> HIDE DEF r, w
    <3>1. QED BY <1>1, <1>3
  <2> HIDE DEF r, w
  <2>3. plane \in Nat \ {0}
    BY <2>2
  <2> HIDE DEF plane
  <2>4. j \div plane \in Int /\ j % plane \in Int /\ j % w \in Int
    BY <2>2, <2>3
  <2>5. (j % plane) \div w \in Int
    BY <2>2, <2>4
  <2>6. QED BY <2>1, <2>4, <2>5
<1>4. InMemory(m, k, j) \in Seq(Int)
  <2>1. InMemory(m, k, j) = IF y < r /\ pos < w * c
                            THEN <<k, pos % c, y, pos \div c>> ELSE Margin
    BY DEF InMemory
  <2> HIDE DEF c, r, w, st
  <2>2. y \in Int /\ pos \in Int
    BY <1>1
  <2> HIDE DEF y, pos
  <2>3. pos % c \in Int /\ pos \div c \in Int
    BY <1>1, <2>2
  <2>4. <<k, pos % c, y, pos \div c>> \in Seq(Int)
    BY <2>2, <2>3
  <2>5. QED BY <1>2, <2>1, <2>4
<1>5. QED BY <1>2, <1>3, <1>4 DEF Element

(* The image that an element of a loaded storage comes from.               *)
At(src, i, k) == i - 1 - Offset(src, k)

From(src, i) ==
    {k \in 1..Len(src.images) : At(src, i, k) \in 0..(Written(src, k) - 1)}

LoadedElement(src, i) ==
    IF From(src, i) = {} THEN Zero
    ELSE LET k == Max(From(src, i))
         IN Element(src.images[k], k, At(src, i, k), src.swap)

(* What a load leaves, element by element.                                 *)
LEMMA LoadedElements ==
    ASSUME NEW src
    PROVE  Loaded(src) = [i \in 1..Extent(src) |-> LoadedElement(src, i)]
BY DEF Loaded, LoadedElement, From, At

(* It is a sequence of pixels, as long as the storage.                     *)
LEMMA LoadedType ==
    ASSUME NEW src \in Sources, OfImages(src), Extent(src) \in Nat
    PROVE  /\ Loaded(src) \in Seq(Seq(Int))
           /\ Len(Loaded(src)) = Extent(src)
<1>1. ASSUME NEW i \in 1..Extent(src)
      PROVE  LoadedElement(src, i) \in Seq(Int)
  <2> DEFINE ks == From(src, i)
             k == Max(ks)
             j == At(src, i, k)
             m == src.images[k]
  <2>1. Zero \in Seq(Int)
    BY DEF Zero
  <2>2. ASSUME ks # {}
        PROVE  k \in 1..Len(src.images) /\ j \in 0..(Written(src, k) - 1)
    <3>1. Len(src.images) \in Nat /\ ks \in SUBSET (1..Len(src.images))
      BY LoadableFields DEF From
    <3> HIDE DEF ks
    <3>2. k \in ks
      BY <2>2, <3>1, LastIndex
    <3>3. QED BY <3>1, <3>2 DEF From, ks
  <2>3. ASSUME ks # {}
        PROVE  Element(m, k, j, src.swap) \in Seq(Int)
    <3>1. m \in Images /\ k \in Nat /\ src.swap \in BOOLEAN
      BY <2>2, <2>3, LoadableFields
    <3>2. j \in Nat
      BY <2>2, <2>3
    <3>3. ASSUME src.swap, m.depth = TSize
          PROVE  j < Items(m)
      <4>1. Written(src, k) = Items(m) /\ Items(m) \in Nat
        BY <3>1, <3>3, ReachFacts, ImageSizes DEF Written
      <4> HIDE DEF k, j, m
      <4>2. QED BY <2>2, <2>3, <4>1
    <3> HIDE DEF k, j, m
    <3>4. QED BY <3>1, <3>2, <3>3, ElementType
  <2>4. QED BY <2>1, <2>3 DEF LoadedElement
<1>2. QED BY <1>1, LoadedElements

-----------------------------------------------------------------------------
Storages == [data : Seq(Seq(Int)), source : Sources]

(* What holds of a storage on its own: the part of the invariant that is   *)
(* about what made it.                                                     *)
Sound(st) ==
    LET src == st.source
        whole == st.data = Filled(Product(src.dims), <<1>>)
    IN /\ st \in Storages
       /\ OfImages(src) => Faults(src) = {} /\ st.data = Loaded(src)
       /\ src.op = "mxnet" =>
            (/\ Len(src.dims) <= 4 /\ Product(src.dims) < UintSize
             /\ \A i \in 1..Len(src.dims) : src.dims[i] < IntHalf
             => whole)
       /\ src.op = "mnn" => (Product(src.dims) < IntHalf => whole)

(* The invariant is about one storage at a time, but for the sizes.        *)
ByStorage ==
    /\ shape \in [Tensors -> Seq(Int)]
    /\ \A t \in Tensors : Len(shape[t]) \in 1..4
    /\ ref \in [Tensors -> Tensors]
    /\ storage \in [Tensors -> Storages]
    /\ \A b \in Tensors : ~Used(b) => storage[b] = Blank(0)
    /\ fault \in [kind : {"none"} \union Kinds, source : Sources]
    /\ SizeIsStorage
    /\ \A b \in Tensors : Sound(storage[b])
    /\ fault.kind # "none" => Odd(fault.kind, fault.source)

(* It is the inductive invariant of the module.                            *)
LEMMA IInvByStorage == IInv <=> ByStorage
<1>1. TypeOK <=>
        /\ shape \in [Tensors -> Seq(Int)]
        /\ \A t \in Tensors : Len(shape[t]) \in 1..4
        /\ ref \in [Tensors -> Tensors]
        /\ storage \in [Tensors -> Storages]
        /\ \A b \in Tensors : ~Used(b) => storage[b] = Blank(0)
        /\ fault \in [kind : {"none"} \union Kinds, source : Sources]
  <2>1. {"none"} \union Kinds = {"none", "overrun", "overread", "assert"}
    BY DEF Kinds
  <2>2. QED BY <2>1 DEF TypeOK, Storages
<1>2. FaultNeedsOddBatch <=>
        (fault.kind # "none" => Odd(fault.kind, fault.source))
  BY DEF FaultNeedsOddBatch, Odd
<1>3. storage \in [Tensors -> Storages] =>
        (AsLoaded /\ OutputsArrive <=>
            \A b \in Tensors : Sound(storage[b]))
  BY DEF AsLoaded, OutputsArrive, Sound
<1>4. QED BY <1>1, <1>2, <1>3 DEF IInv, ByStorage

(* A new storage for n elements.                                           *)
LEMMA BlankSound ==
    ASSUME NEW n \in Nat
    PROVE  Sound(Blank(n)) /\ Len(Blank(n).data) = n
<1>1. Filled(n, Zero) \in Seq(Seq(Int)) /\ Len(Filled(n, Zero)) = n
  <2>1. Zero \in Seq(Int)
    BY DEF Zero
  <2>2. QED BY <2>1, FilledType
<1>2. Blank(n) \in Storages
  BY <1>1 DEF Blank, Storages, Sources
<1>3. QED BY <1>1, <1>2 DEF Blank, Sound, OfImages

(* The storage of images.                                                  *)
LEMMA LoadSound ==
    ASSUME NEW src \in Sources, OfImages(src), Faults(src) = {}
    PROVE  LET st == [data |-> Loaded(src), source |-> src]
           IN /\ Sound(st) /\ Len(st.data) = Size(LoadedShape(src))
              /\ LoadedShape(src) \in Seq(Int)
              /\ Len(LoadedShape(src)) \in 1..4
<1> DEFINE st == [data |-> Loaded(src), source |-> src]
<1>1. Admitted(src) /\ src.images # <<>>
  BY DEF Faults
<1>2. /\ LoadedShape(src) \in Seq(Int) /\ Len(LoadedShape(src)) = 4
      /\ Extent(src) \in Nat
  BY <1>1, ExtentFacts
<1>3. Loaded(src) \in Seq(Seq(Int)) /\ Len(Loaded(src)) = Extent(src)
  BY <1>2, LoadedType
<1>4. st \in Storages
  BY <1>3 DEF Storages
<1>5. st.source = src /\ st.data = Loaded(src)
  OBVIOUS
<1>6. src.op # "mxnet" /\ src.op # "mnn"
  BY DEF OfImages
<1>7. Sound(st)
  <2> HIDE DEF st
  <2>1. QED BY <1>4, <1>5, <1>6 DEF Sound
<1>8. QED BY <1>2, <1>3, <1>7 DEF Extent

(* The storage of an output of MXNet.                                      *)
LEMMA MxnetSound ==
    ASSUME NEW dims \in Shapes(NetDims, NetRank), NEW size \in Nat,
           /\ Len(dims) <= 4 /\ Product(dims) < UintSize
           /\ \A i \in 1..Len(dims) : dims[i] < IntHalf
           => size = Product(dims)
    PROVE  /\ Sound(GetOutput(size, dims))
           /\ Len(GetOutput(size, dims).data) = size
<1> DEFINE item == IF size = Product(dims) THEN <<1>> ELSE Zero
           st == GetOutput(size, dims)
<1>1. item \in Seq(Int)
  BY DEF Zero
<1>2. st = [data |-> Filled(size, item),
            source |-> [op |-> "mxnet", dims |-> dims]]
  BY DEF GetOutput
<1>3. size = Product(dims) => item = <<1>>
  OBVIOUS
<1> HIDE DEF item, st
<1>4. Filled(size, item) \in Seq(Seq(Int)) /\ Len(Filled(size, item)) = size
  BY <1>1, FilledType
<1>5. /\ st \in Storages /\ st.source.op = "mxnet" /\ st.source.dims = dims
      /\ st.data = Filled(size, item)
  BY <1>2, <1>4 DEF Storages, Sources
<1>6. Sound(st)
  BY <1>3, <1>5 DEF Sound, OfImages
<1>7. QED BY <1>4, <1>5, <1>6 DEF st

(* An output that has arrived.                                             *)
Whole(dims) == Filled(Product(dims), <<1>>)

(* The storage of an output of MNN.                                        *)
LEMMA MnnSound ==
    ASSUME NEW dims \in Shapes(NetDims, NetRank),
           NEW data \in Seq(Seq(Int)),
           Product(dims) < IntHalf => data = Whole(dims)
    PROVE  Sound([data |-> data, source |-> [op |-> "mnn", dims |-> dims]])
<1> DEFINE st == [data |-> data, source |-> [op |-> "mnn", dims |-> dims]]
<1>1. /\ st \in Storages /\ st.source.op = "mnn" /\ st.source.dims = dims
      /\ st.data = data
  BY DEF Storages, Sources
<1> HIDE DEF st
<1>2. Sound(st)
  BY <1>1 DEF Sound, OfImages, Whole
<1>3. QED BY <1>2 DEF st

-----------------------------------------------------------------------------
(* A storage is always free for the tensor that asks for a new one: there  *)
(* are as many of them as tensors, and it lets go of its own.              *)
LEMMA FreeStorage ==
    ASSUME ref \in [Tensors -> Tensors], NEW t \in Tensors
    PROVE  \E c \in Tensors : c \notin {ref[u] : u \in Tensors \ {t}}
<1> SUFFICES ASSUME \A c \in Tensors : c \in {ref[u] : u \in Tensors \ {t}}
             PROVE  FALSE
  OBVIOUS
<1> DEFINE S == Tensors \ {t}
           g == [u \in S |-> ref[u]]
<1>1. IsFiniteSet(Tensors)
  BY ConstantsAssumption
<1>2. /\ IsFiniteSet(S) /\ Cardinality(Tensors) \in Nat
      /\ Cardinality(S) = Cardinality(Tensors) - 1
  BY <1>1, FS_RemoveElement, FS_CardinalityType
<1>3. g \in Surjection(S, Tensors)
  BY DEF Surjection
<1>4. Cardinality(Tensors) <= Cardinality(S)
  <2> HIDE DEF S, g
  <2>1. QED BY <1>2, <1>3, FS_Surjection
<1>5. QED BY <1>2, <1>4

(* Tensor t gets the storage b, which nobody else has.                     *)
Gets(t, b, new) ==
    /\ ref' = [ref EXCEPT ![t] = b]
    /\ \A u \in Tensors \ {t} : ref[u] # b
    /\ storage' = [c \in Tensors |->
          IF c = b THEN new
          ELSE IF c \in {ref[u] : u \in Tensors \ {t}}
               THEN storage[c] ELSE Blank(0)]

(* What reset() does: only the storage of the tensor changes hands.        *)
LEMMA ResetFacts ==
    ASSUME ref \in [Tensors -> Tensors], NEW t \in Tensors, NEW new,
           Reset(t, new)
    PROVE  \E b \in Tensors : Gets(t, b, new)
<1> DEFINE others == {ref[u] : u \in Tensors \ {t}}
           b == CHOOSE c \in Tensors : c \notin others
<1>1. b \in Tensors /\ b \notin others
  BY FreeStorage
<1>2. /\ ref' = [ref EXCEPT ![t] = b]
      /\ storage' = [c \in Tensors |->
             IF c = b THEN new
             ELSE IF c \in others THEN storage[c] ELSE Blank(0)]
  BY DEF Reset
<1> HIDE DEF b
<1>3. QED BY <1>1, <1>2 DEF Gets

-----------------------------------------------------------------------------
(* An operation that gives tensor t the shape s and a new storage.         *)
Renewed(t, s, new) ==
    /\ shape' = [shape EXCEPT ![t] = s]
    /\ Reset(t, new)
    /\ s \in Seq(Int) /\ Len(s) \in 1..4
    /\ Sound(new)
    /\ new.source.op # "vector" => Len(new.data) = Size(s)
    /\ fault' = fault

(* It keeps the invariant.                                                 *)
LEMMA RenewalStep ==
    ASSUME IInv, NEW t \in Tensors, NEW s, NEW new, Renewed(t, s, new)
    PROVE  IInv'
<1>1. /\ shape \in [Tensors -> Seq(Int)]
      /\ \A u \in Tensors : Len(shape[u]) \in 1..4
      /\ ref \in [Tensors -> Tensors]
      /\ storage \in [Tensors -> Storages]
      /\ \A c \in Tensors : Sound(storage[c])
  BY IInvByStorage DEF ByStorage
<1>2. PICK b \in Tensors : Gets(t, b, new)
  <2>1. Reset(t, new)
    BY DEF Renewed
  <2>2. QED BY <1>1, <2>1, ResetFacts
<1>3. /\ ref'[t] = b /\ storage'[b] = new
      /\ \A u \in Tensors \ {t} :
            /\ ref'[u] = ref[u] /\ ref[u] \in Tensors
            /\ storage'[ref[u]] = storage[ref[u]]
  BY <1>1, <1>2 DEF Gets
<1>4. \A c \in Tensors : storage'[c] \in {new, storage[c], Blank(0)}
  BY <1>2 DEF Gets
<1>5. shape' \in [Tensors -> Seq(Int)]
        /\ \A u \in Tensors : Len(shape'[u]) \in 1..4
  BY <1>1 DEF Renewed
<1>6. ref' \in [Tensors -> Tensors]
  BY <1>1, <1>2 DEF Gets
<1>7. \A c \in Tensors : Sound(storage'[c])
  BY <1>1, <1>4, BlankSound DEF Renewed
<1>8. storage' \in [Tensors -> Storages]
  BY <1>2, <1>7 DEF Sound, Gets
<1>9. ASSUME NEW c \in Tensors, ~Used(c)'
      PROVE  storage'[c] = Blank(0)
  <2>1. c # b /\ \A u \in Tensors \ {t} : ref[u] # c
    BY <1>3, <1>9 DEF Used
  <2>2. QED BY <1>2, <2>1 DEF Gets
<1>10. SizeIsStorage'
  <2> SUFFICES ASSUME NEW u \in Tensors, Of(u)'.source.op # "vector"
               PROVE  Len(Of(u)'.data) = Size(shape'[u])
    BY DEF SizeIsStorage
  <2>1. CASE u = t
    <3>1. Of(u)' = new /\ shape'[u] = s
      BY <1>1, <1>3, <2>1 DEF Of, Renewed
    <3>2. QED BY <3>1 DEF Renewed
  <2>2. CASE u # t
    <3>1. Of(u)' = Of(u) /\ shape'[u] = shape[u]
      BY <1>1, <1>3, <2>2 DEF Of, Renewed
    <3>2. QED BY <3>1, IInvByStorage DEF ByStorage, SizeIsStorage
  <2>3. QED BY <2>1, <2>2
<1>11. /\ fault' \in [kind : {"none"} \union Kinds, source : Sources]
       /\ fault'.kind # "none" => Odd(fault'.kind, fault'.source)
  BY IInvByStorage DEF Renewed, ByStorage
<1>12. ByStorage'
  <2>1. \A c \in Tensors : Sound(storage[c])'
    BY <1>7 DEF Sound
  <2>2. fault'.kind # "none" => Odd(fault.kind, fault.source)'
    BY <1>11 DEF Odd
  <2>3. QED BY <1>5, <1>6, <1>8, <1>9, <1>10, <1>11, <2>1, <2>2
          DEF ByStorage
<1>13. QED BY <1>12, IInvByStorage, PTL

-----------------------------------------------------------------------------
(* Tensors that are new, at first or because the process ended.            *)
NewTensors ==
    /\ NewShape \in [Tensors -> Seq(Int)]
    /\ \A t \in Tensors : Len(NewShape[t]) \in 1..4 /\ Size(NewShape[t]) = 0
    /\ NewRef \in [Tensors -> Tensors] /\ \A t \in Tensors : NewRef[t] = t
    /\ NewStorage \in [Tensors -> Storages]
    /\ \A b \in Tensors :
          /\ NewStorage[b] = Blank(0) /\ Sound(NewStorage[b])
          /\ Len(NewStorage[b].data) = 0

(* Each has an empty storage of its own.                                   *)
LEMMA NewTensorsHold == NewTensors
<1>1. Sound(Blank(0)) /\ Len(Blank(0).data) = 0 /\ Blank(0) \in Storages
  BY BlankSound DEF Sound
<1>2. <<0, 0, 0, 0>> \in Seq(Int) /\ Len(<<0, 0, 0, 0>>) \in 1..4
  OBVIOUS
<1>3. Size(<<0, 0, 0, 0>>) = 0
  BY DEF Size
<1>4. QED BY <1>1, <1>2, <1>3 DEF NewTensors, NewShape, NewRef, NewStorage

(* So they are at first.                                                   *)
LEMMA InitIInv == Init => IInv
<1> SUFFICES ASSUME Init
             PROVE  ByStorage
  BY IInvByStorage
<1>1. /\ shape = NewShape /\ ref = NewRef /\ storage = NewStorage
      /\ fault = [kind |-> "none", source |-> [op |-> "new"]]
  BY DEF Init, NoFault
<1>2. NewTensors
  BY NewTensorsHold
<1>3. fault \in [kind : {"none"} \union Kinds, source : Sources]
        /\ fault.kind = "none"
  BY <1>1 DEF Sources
<1>4. SizeIsStorage
  BY <1>1, <1>2 DEF SizeIsStorage, Of, NewTensors
<1>5. QED BY <1>1, <1>2, <1>3, <1>4 DEF ByStorage, Used, NewTensors

(* And so after a fault.                                                   *)
LEMMA FailStep ==
    ASSUME NEW kind \in Kinds, NEW src \in Sources, Odd(kind, src),
           Fail(kind, src)
    PROVE  IInv'
<1>1. /\ shape' = NewShape /\ ref' = NewRef /\ storage' = NewStorage
      /\ fault' = [kind |-> kind, source |-> src]
  BY DEF Fail
<1>2. NewTensors
  BY NewTensorsHold
<1>3. /\ fault' \in [kind : {"none"} \union Kinds, source : Sources]
      /\ fault'.kind = kind /\ fault'.source = src
  BY <1>1
<1>4. SizeIsStorage'
  BY <1>1, <1>2 DEF SizeIsStorage, Of, NewTensors
<1>5. \A c \in Tensors : Sound(storage[c])'
  BY <1>1, <1>2 DEF Sound, NewTensors
<1>6. Odd(fault.kind, fault.source)'
  BY <1>3 DEF Odd
<1>7. \A c \in Tensors : Used(c)'
  BY <1>1, <1>2 DEF Used, NewTensors
<1>8. ByStorage'
  BY <1>1, <1>2, <1>3, <1>4, <1>5, <1>6, <1>7 DEF ByStorage, NewTensors
<1>9. QED BY <1>8, IInvByStorage, PTL

-----------------------------------------------------------------------------
(* Shapes that the operations ask for.                                     *)
LEMMA ShapesAreShapes ==
    ASSUME NEW s \in Shapes(Dims, MaxRank)
    PROVE  s \in Seq(Int) /\ Len(s) \in 1..4 /\ Size(s) \in Nat
<1>1. PICK n \in 1..MaxRank : s \in [1..n -> Dims]
  BY DEF Shapes
<1>2. s \in Seq(Int) /\ Len(s) = n /\ s # <<>>
  <2>1. n \in Nat \ {0}
    BY ConstantsAssumption
  <2>2. Dims \subseteq Int
    BY ConstantsAssumption
  <2>3. s \in [1..n -> Int]
    BY <1>1, <2>2
  <2>4. QED BY <2>1, <2>3
<1>3. QED BY <1>2, ConstantsAssumption, SizeType

(* A tensor made or reshaped.                                              *)
LEMMA BlankStep ==
    ASSUME IInv, NEW t \in Tensors, NEW s \in Shapes(Dims, MaxRank),
           SetShape(t, s), Reset(t, Blank(Size(s))), UNCHANGED fault
    PROVE  IInv'
<1>1. s \in Seq(Int) /\ Len(s) \in 1..4 /\ Size(s) \in Nat
  BY ShapesAreShapes
<1>2. Sound(Blank(Size(s))) /\ Len(Blank(Size(s)).data) = Size(s)
  BY <1>1, BlankSound
<1>3. Renewed(t, s, Blank(Size(s)))
  BY <1>1, <1>2 DEF Renewed, SetShape
<1>4. QED BY <1>3, RenewalStep

(* A copy lets its storage go and shares the other's.                      *)
LEMMA CopyStep ==
    ASSUME IInv, NEW t \in Tensors, NEW u \in Tensors, Copy(t, u)
    PROVE  IInv'
<1>1. ByStorage
  BY IInvByStorage
<1>2. /\ shape' = [shape EXCEPT ![t] = shape[u]]
      /\ ref' = [ref EXCEPT ![t] = ref[u]]
      /\ storage' = [c \in Tensors |->
            IF \E v \in Tensors : ref'[v] = c THEN storage[c] ELSE Blank(0)]
      /\ fault' = fault
  BY DEF Copy, SetShape
<1>3. /\ shape' \in [Tensors -> Seq(Int)] /\ ref' \in [Tensors -> Tensors]
      /\ \A v \in Tensors : Len(shape'[v]) \in 1..4
  BY <1>1, <1>2 DEF ByStorage
<1>4. \A c \in Tensors : storage'[c] \in {storage[c], Blank(0)}
  BY <1>2
<1>5. \A c \in Tensors : Sound(storage'[c])
  <2>1. Sound(Blank(0))
    BY BlankSound
  <2>2. \A c \in Tensors : Sound(storage[c])
    BY <1>1 DEF ByStorage
  <2>3. QED BY <1>4, <2>1, <2>2
<1>6. storage' \in [Tensors -> Storages]
  BY <1>2, <1>5 DEF Sound
<1>7. \A c \in Tensors : ~Used(c)' => storage'[c] = Blank(0)
  BY <1>2 DEF Used
<1>8. SizeIsStorage'
  <2> SUFFICES ASSUME NEW v \in Tensors, Of(v)'.source.op # "vector"
               PROVE  Len(Of(v)'.data) = Size(shape'[v])
    BY DEF SizeIsStorage
  <2>1. PICK w \in Tensors : ref'[v] = ref[w] /\ shape'[v] = shape[w]
    BY <1>1, <1>2 DEF ByStorage
  <2>2. ref[w] \in Tensors
    BY <1>1 DEF ByStorage
  <2>3. Of(v)' = Of(w)
    BY <1>2, <2>1, <2>2 DEF Of
  <2>4. QED BY <1>1, <2>1, <2>3 DEF ByStorage, SizeIsStorage
<1>9. ByStorage'
  <2>1. \A c \in Tensors : Sound(storage[c])'
    BY <1>5 DEF Sound
  <2>2. Odd(fault.kind, fault.source)' <=> Odd(fault.kind, fault.source)
    BY <1>2 DEF Odd
  <2>3. QED BY <1>1, <1>2, <1>3, <1>6, <1>7, <1>8, <2>1, <2>2
          DEF ByStorage
<1>10. QED BY <1>9, IInvByStorage, PTL

(* A reshape to the same size keeps the storage.                           *)
LEMMA SameSizeStep ==
    ASSUME IInv, NEW t \in Tensors, NEW s \in Shapes(Dims, MaxRank),
           SetShape(t, s), Size(s) = Size(shape[t]),
           UNCHANGED <<ref, storage, fault>>
    PROVE  IInv'
<1>1. ByStorage
  BY IInvByStorage
<1>2. s \in Seq(Int) /\ Len(s) \in 1..4
  BY ShapesAreShapes
<1>3. /\ shape' = [shape EXCEPT ![t] = s]
      /\ UNCHANGED <<ref, storage, fault>>
  BY DEF SetShape
<1>4. /\ shape' \in [Tensors -> Seq(Int)]
      /\ \A v \in Tensors : Len(shape'[v]) \in 1..4
      /\ \A v \in Tensors : Size(shape'[v]) = Size(shape[v])
  BY <1>1, <1>2, <1>3 DEF ByStorage
<1>5. SizeIsStorage'
  BY <1>1, <1>3, <1>4 DEF ByStorage, SizeIsStorage, Of
<1>6. ByStorage'
  <2>1. \A c \in Tensors : Used(c)' <=> Used(c)
    BY <1>3 DEF Used
  <2>2. \A c \in Tensors : Sound(storage[c])' <=> Sound(storage[c])
    BY <1>3 DEF Sound
  <2>3. Odd(fault.kind, fault.source)' <=> Odd(fault.kind, fault.source)
    BY <1>3 DEF Odd
  <2>4. QED BY <1>1, <1>3, <1>4, <1>5, <2>1, <2>2, <2>3 DEF ByStorage
<1>7. QED BY <1>6, IInvByStorage, PTL

-----------------------------------------------------------------------------
(* from_vector(): the shape stays, whatever the vector's size.             *)
LEMMA VectorStep ==
    ASSUME IInv, NEW t \in Tensors, FromVector(t)
    PROVE  IInv'
<1>1. PICK n \in 0..MaxRank :
        Reset(t, [data |-> Filled(n, <<0>>), source |-> [op |-> "vector"]])
  BY DEF FromVector
<1> DEFINE new == [data |-> Filled(n, <<0>>), source |-> [op |-> "vector"]]
<1>2. n \in Nat /\ <<0>> \in Seq(Int)
  BY ConstantsAssumption
<1>3. Filled(n, <<0>>) \in Seq(Seq(Int))
  BY <1>2, FilledType
<1>4. new \in Storages /\ new.source.op = "vector"
  BY <1>3 DEF Storages, Sources
<1>5. shape \in [Tensors -> Seq(Int)] /\ Len(shape[t]) \in 1..4
  BY IInvByStorage DEF ByStorage
<1>6. shape' = [shape EXCEPT ![t] = shape[t]] /\ fault' = fault
  BY <1>5 DEF FromVector
<1>7. Reset(t, new)
  BY <1>1
<1> HIDE DEF new
<1>8. Sound(new)
  BY <1>4 DEF Sound, OfImages
<1>9. Renewed(t, shape[t], new)
  BY <1>4, <1>5, <1>6, <1>7, <1>8 DEF Renewed
<1>10. QED BY <1>9, RenewalStep

(* The load of images, with what becomes of the process.                   *)
LEMMA LoadStep ==
    ASSUME IInv, NEW t \in Tensors, NEW src, Loadable(src), Load(t, src)
    PROVE  IInv'
<1>1. src \in Sources /\ OfImages(src)
  BY DEF Loadable
<1>2. ASSUME NEW kind \in Faults(src), Fail(kind, src)
      PROVE  IInv'
  <2>1. kind \in Kinds /\ Odd(kind, src)
    BY LoadFaults
  <2>2. QED BY <1>1, <1>2, <2>1, FailStep
<1> DEFINE new == [data |-> Loaded(src), source |-> src]
<1>3. ASSUME Faults(src) = {}, SetShape(t, LoadedShape(src)), Reset(t, new),
             UNCHANGED fault
      PROVE  IInv'
  <2>1. /\ Sound(new) /\ Len(new.data) = Size(LoadedShape(src))
        /\ LoadedShape(src) \in Seq(Int) /\ Len(LoadedShape(src)) \in 1..4
    BY <1>1, <1>3, LoadSound
  <2> HIDE DEF new
  <2>2. Renewed(t, LoadedShape(src), new)
    BY <1>3, <2>1 DEF Renewed, SetShape
  <2>3. QED BY <2>2, RenewalStep
<1>4. QED BY <1>2, <1>3 DEF Load

(* One image.                                                              *)
LEMMA MatStep ==
    ASSUME IInv, NEW t \in Tensors, FromMat(t)
    PROVE  IInv'
<1>1. PICK m \in Images, swap \in BOOLEAN :
             Load(t, Source("mat", <<m>>, 1, swap))
  BY DEF FromMat
<1> DEFINE src == Source("mat", <<m>>, 1, swap)
<1>2. /\ <<m>> \in Seq(Images) /\ Len(<<m>>) = 1
      /\ src = [op |-> "mat", images |-> <<m>>, batch |-> 1, swap |-> swap]
  BY DEF Source
<1>3. src \in Sources /\ src.op = "mat" /\ src.images = <<m>>
  BY <1>2 DEF Sources
<1> HIDE DEF src
<1>4. Loadable(src)
  BY <1>2, <1>3 DEF Loadable, OfImages
<1>5. QED BY <1>1, <1>4, LoadStep DEF src

(* A batch.                                                                *)
LEMMA BatchStep ==
    ASSUME IInv, NEW t \in Tensors, FromBatch(t)
    PROVE  IInv'
<1>1. PICK ms \in Lists, n \in 0..MaxBatch, swap \in BOOLEAN :
             Load(t, Source("mats", ms, n, swap))
  BY DEF FromBatch
<1> DEFINE src == Source("mats", ms, n, swap)
<1>2. ms \in Seq(Images)
  BY ConstantsAssumption
<1>3. src = [op |-> "mats", images |-> ms, batch |-> n, swap |-> swap]
  BY DEF Source
<1>4. src \in Sources /\ src.op = "mats"
  BY <1>2, <1>3 DEF Sources
<1> HIDE DEF src
<1>5. Loadable(src)
  BY <1>4 DEF Loadable, OfImages
<1>6. QED BY <1>1, <1>5, LoadStep DEF src

-----------------------------------------------------------------------------
(* The outputs of MXNet.                                                   *)
LEMMA MxnetStep ==
    ASSUME IInv, NEW t \in Tensors, MxnetOutput(t)
    PROVE  IInv'
<1>1. PICK dims \in Shapes(NetDims, NetRank) :
        /\ SetShape(t, OutputShape(dims))
        /\ Reset(t, GetOutput(Size(OutputShape(dims)), dims))
  BY DEF MxnetOutput
<1> DEFINE s == OutputShape(dims)
           n == Len(dims)
           l == IF n <= 4 THEN n ELSE 4
<1>2. /\ dims \in Seq(Int) /\ n \in Nat \ {0}
      /\ \A i \in 1..n : dims[i] \in Nat \ {0}
  BY OutputDims
<1>3. s = [i \in 1..l |-> Signed(dims[i])]
  BY DEF OutputShape
<1>4. dims = [i \in 1..n |-> dims[i]]
  BY <1>2
<1> HIDE DEF s, n
<1>5. l \in 1..4 /\ l <= n
  BY <1>2
<1>6. \A i \in 1..l : i \in 1..n
  BY <1>2, <1>5
<1>7. n <= 4 => l = n
  OBVIOUS
<1> HIDE DEF l
<1>8. \A i \in 1..l : Signed(dims[i]) \in Int
  BY <1>2, <1>6, SignedFacts
<1>9. s \in Seq(Int) /\ Len(s) \in 1..4
  BY <1>3, <1>5, <1>8
<1>10. ASSUME n <= 4, Product(dims) < UintSize,
              \A i \in 1..n : dims[i] < IntHalf
       PROVE  Size(s) = Product(dims)
  <2>1. \A i \in 1..n : Signed(dims[i]) = dims[i]
    BY <1>2, <1>10, SignedFacts
  <2>2. s = dims
    BY <1>3, <1>4, <1>7, <1>10, <2>1
  <2>3. QED BY <1>10, <2>2, SizeOfOutput
<1>11. Size(s) \in Nat
  <2>1. s # <<>>
    BY <1>9
  <2>2. QED BY <1>9, <2>1, SizeType
<1> DEFINE new == GetOutput(Size(s), dims)
<1>12. Sound(new) /\ Len(new.data) = Size(s)
  BY <1>10, <1>11, MxnetSound DEF n
<1>13. SetShape(t, s) /\ Reset(t, new) /\ UNCHANGED fault
  BY <1>1 DEF s, MxnetOutput
<1> HIDE DEF new
<1>14. Renewed(t, s, new)
  BY <1>9, <1>12, <1>13 DEF Renewed, SetShape
<1>15. QED BY <1>14, RenewalStep

(* The outputs of MNN.                                                     *)
LEMMA MnnStep ==
    ASSUME IInv, NEW t \in Tensors, MnnOutput(t)
    PROVE  IInv'
<1> DEFINE Row(size) == [i \in 1..Size(<<1, size>>) |->
                            IF i <= size THEN <<1>> ELSE Zero]
           Made(dims) == [op |-> "mnn", dims |-> dims]
<1>1. PICK dims \in Shapes(NetDims, NetRank) :
        LET size == Signed(Product(dims))
        IN IF size < 0 THEN Fail("overrun", Made(dims))
           ELSE /\ SetShape(t, <<1, size>>)
                /\ Reset(t, [data |-> Row(size), source |-> Made(dims)])
                /\ UNCHANGED fault
  BY DEF MnnOutput
<1> DEFINE p == Product(dims)
           size == Signed(p)
<1>2. p \in Nat \ {0}
  <2>1. dims \in Seq(Int) /\ dims # <<>>
    <3>1. dims \in Seq(Int) /\ Len(dims) \in Nat \ {0}
      BY OutputDims
    <3>2. QED BY <3>1
  <2>2. QED BY <2>1, SizeType
<1>3. size \in Int /\ (p < IntHalf => size = p)
  BY <1>2, SignedFacts
<1>4. Made(dims) \in Sources
  BY DEF Sources
<1> HIDE DEF p
<1>5. CASE size < 0
  <2>1. p >= IntHalf
    <3> HIDE DEF size
    <3>1. QED BY <1>2, <1>3, <1>5, Widths
  <2>2. Odd("overrun", Made(dims))
    BY <2>1 DEF Odd, p
  <2>3. Fail("overrun", Made(dims))
    BY <1>1, <1>5 DEF p
  <2>4. "overrun" \in Kinds
    BY DEF Kinds
  <2> HIDE DEF Made
  <2>5. QED BY <1>4, <2>2, <2>3, <2>4, FailStep
<1>6. CASE ~(size < 0)
  <2> DEFINE s == <<1, size>>
             new == [data |-> Row(size), source |-> Made(dims)]
  <2>1. SetShape(t, s) /\ Reset(t, new) /\ UNCHANGED fault
    BY <1>1, <1>6 DEF p
  <2> HIDE DEF size
  <2>2. s \in Seq(Int) /\ Len(s) \in 1..4 /\ Size(s) \in Nat
    <3>1. s \in Seq(Int) /\ Len(s) = 2 /\ s # <<>>
      BY <1>3
    <3> HIDE DEF s
    <3>2. Size(s) \in Nat
      BY <3>1, SizeType
    <3>3. QED BY <3>1, <3>2
  <2>3. Row(size) \in Seq(Seq(Int)) /\ Len(Row(size)) = Size(s)
    <3> HIDE DEF s
    <3> DEFINE n == Size(s)
               El(i) == IF i <= size THEN <<1>> ELSE Zero
    <3>1. Row(size) = [i \in 1..n |-> El(i)]
      BY DEF s
    <3>2. \A i \in 1..n : El(i) \in Seq(Int)
      BY DEF Zero
    <3>3. n \in Nat
      BY <2>2
    <3> HIDE DEF Row, El, n
    <3>4. Row(size) \in Seq(Seq(Int)) /\ Len(Row(size)) = n
      BY <3>1, <3>2, <3>3
    <3>5. QED BY <3>4 DEF n
  <2>4. ASSUME p < IntHalf
        PROVE  Row(size) = Filled(p, <<1>>)
    <3>1. size = p /\ p < UintSize
      BY <1>2, <1>3, <2>4, Widths
    <3>2. Size(<<1, size>>) = p
      BY <1>2, <3>1, SizeOfRow
    <3>3. QED BY <1>2, <3>1, <3>2 DEF Filled
  <2> HIDE DEF Row, s
  <2>5. Sound(new)
    BY <2>3, <2>4, MnnSound DEF p, Whole
  <2>6. new.data = Row(size)
    OBVIOUS
  <2> HIDE DEF new
  <2>7. Renewed(t, s, new)
    BY <2>1, <2>2, <2>3, <2>5, <2>6 DEF Renewed, SetShape
  <2>8. QED BY <2>7, RenewalStep
<1>7. QED BY <1>5, <1>6

-----------------------------------------------------------------------------
(* Nothing changes when no operation is done.                              *)
LEMMA StutteringStep ==
    ASSUME IInv, UNCHANGED vars
    PROVE  IInv'
<1>1. ByStorage
  BY IInvByStorage
<1>2. UNCHANGED <<shape, ref, storage, fault>>
  BY DEF vars
<1>3. \A c \in Tensors : (Sound(storage[c])' <=> Sound(storage[c]))
        /\ (Used(c)' <=> Used(c))
  BY <1>2 DEF Sound, Used
<1>4. SizeIsStorage'
  BY <1>1, <1>2 DEF ByStorage, SizeIsStorage, Of
<1>5. Odd(fault.kind, fault.source)' <=> Odd(fault.kind, fault.source)
  BY <1>2 DEF Odd
<1>6. ByStorage'
  BY <1>1, <1>2, <1>3, <1>4, <1>5 DEF ByStorage
<1>7. QED BY <1>6, IInvByStorage, PTL

(* Every step preserves the invariant.                                     *)
LEMMA StepIInv == IInv /\ [Next]_vars => IInv'
<1> SUFFICES ASSUME IInv, [Next]_vars
             PROVE  IInv'
  OBVIOUS
<1>1. CASE UNCHANGED vars
  BY <1>1, StutteringStep
<1>2. ASSUME NEW t \in Tensors, Operation(t)
      PROVE  IInv'
  <2>1. CASE Construct(t)
    BY <2>1, BlankStep DEF Construct
  <2>2. CASE Reshape(t)
    <3>1. PICK s \in Shapes(Dims, MaxRank) :
            /\ SetShape(t, s)
            /\ IF Size(s) = Size(shape[t]) THEN UNCHANGED <<ref, storage>>
               ELSE Reset(t, Blank(Size(s)))
      BY <2>2 DEF Reshape
    <3>2. UNCHANGED fault
      BY <2>2 DEF Reshape
    <3>3. CASE Size(s) = Size(shape[t])
      BY <3>1, <3>2, <3>3, SameSizeStep
    <3>4. CASE Size(s) # Size(shape[t])
      BY <3>1, <3>2, <3>4, BlankStep
    <3>5. QED BY <3>3, <3>4
  <2>3. CASE FromVector(t)
    BY <2>3, VectorStep
  <2>4. CASE FromMat(t)
    BY <2>4, MatStep
  <2>5. CASE FromBatch(t)
    BY <2>5, BatchStep
  <2>6. CASE MxnetOutput(t)
    BY <2>6, MxnetStep
  <2>7. CASE MnnOutput(t)
    BY <2>7, MnnStep
  <2>8. CASE \E u \in Tensors : Copy(t, u)
    BY <2>8, CopyStep
  <2>9. QED
    BY <1>2, <2>1, <2>2, <2>3, <2>4, <2>5, <2>6, <2>7, <2>8 DEF Operation
<1>3. QED BY <1>1, <1>2 DEF Next

-----------------------------------------------------------------------------
(* Where the elements of images of one size are.                           *)

(* The images of a load that was not a fault are all like the first, with  *)
(* elements of type T.                                                     *)
Alike(src, m) ==
    /\ src \in Sources /\ OfImages(src) /\ Faults(src) = {}
    /\ \A k \in 1..Len(src.images) : src.images[k] = m
    /\ m.depth = TSize /\ Items(m) # 0 /\ Items(m) < UintSize

(* The sizes of such a load.                                               *)
LEMMA AlikeFacts ==
    ASSUME NEW src, NEW m, Alike(src, m)
    PROVE  /\ m \in Images /\ src.images[1] = m /\ src.swap \in BOOLEAN
           /\ Items(m) \in Nat \ {0} /\ src.batch \in Nat \ {0}
           /\ Len(src.images) \in 1..src.batch /\ Extent(src) \in Nat
           /\ Extent(src) = (src.batch * Items(m)) % UintSize
           /\ src.op = "mat" => src.batch = 1
           /\ \A k \in 1..Len(src.images) :
                LET off == Offset(src, k)
                    w == Written(src, k)
                IN w = 0 \/ (off >= 0 /\ w > 0 /\ off + w <= Extent(src))
<1>1. /\ src \in Sources /\ OfImages(src) /\ Faults(src) = {}
      /\ \A k \in 1..Len(src.images) : src.images[k] = m
      /\ Items(m) # 0
  BY DEF Alike
<1>2. Admitted(src) /\ src.images # <<>> /\ ~Overruns(src)
  BY <1>1 DEF Faults
<1>3. /\ src.batch \in Nat \ {0} /\ Len(src.images) \in 1..src.batch
      /\ src.images[1] \in Images /\ Items(src.images[1]) \in Nat
      /\ Extent(src) \in Nat
      /\ Items(src.images[1]) # 0 =>
           Extent(src) = (src.batch * Items(src.images[1])) % UintSize
  BY <1>1, <1>2, ExtentFacts
<1>4. src.images[1] = m
  BY <1>1, <1>3
<1>5. src.swap \in BOOLEAN /\ (src.op = "mat" => src.batch = 1)
  BY <1>1, LoadableFields
<1>6. \A k \in 1..Len(src.images) :
        LET off == Offset(src, k)
            w == Written(src, k)
        IN w = 0 \/ (off >= 0 /\ w > 0 /\ off + w <= Extent(src))
  BY <1>2 DEF Overruns
<1>7. QED BY <1>1, <1>3, <1>4, <1>5, <1>6

(* What wrapping around leaves of an int.                                  *)
LEMMA SignedOfInt ==
    ASSUME NEW x \in (-IntHalf)..(IntHalf - 1)
    PROVE  Signed(x) = x
<1> DEFINE H == IntHalf
           U == UintSize
<1>1. H \in Nat \ {0} /\ U \in Nat \ {0} /\ U = H + H
  BY Widths
<1>2. Signed(x) = ((x + H) % U) - H
  BY DEF Signed
<1> HIDE DEF H, U
<1>3. x \in Int /\ x + H \in 0..(U - 1)
  BY <1>1 DEF H
<1>4. (x + H) % U = x + H
  BY <1>1, <1>3
<1>5. QED BY <1>1, <1>2, <1>3, <1>4

(* An int that counts in steps of len from 0, and is never found negative, *)
(* has not wrapped around.                                                 *)
LEMMA CountingUp ==
    ASSUME NEW N \in Nat, NEW len \in Nat, len < IntHalf,
           \A k \in 1..N : Signed((k - 1) * len) >= 0
    PROVE  \A k \in 1..N : Signed((k - 1) * len) = (k - 1) * len
<1> DEFINE H == IntHalf
           U == UintSize
           Bad == {k \in 1..N : (k - 1) * len >= H}
<1>1. H \in Nat \ {0} /\ U \in Nat \ {0} /\ U = H + H
  BY Widths
<1>2. ASSUME NEW k \in Bad, \A j \in Bad : k <= j
      PROVE  FALSE
  <2> DEFINE x == (k - 1) * len
             y == (k - 2) * len
  <2>1. k \in 1..N /\ x >= H
    OBVIOUS
  <2>2. k # 1
    <3>1. k = 1 => x = 0
      BY <2>1
    <3> HIDE DEF x, H
    <3>2. QED BY <1>1, <2>1, <3>1
  <2>3. k - 1 \in 1..N /\ k - 1 \notin Bad
    <3>1. k - 1 \in 1..N
      BY <2>1, <2>2
    <3> HIDE DEF Bad
    <3>2. QED BY <1>2, <2>1, <3>1
  <2>4. y < H
    <3>1. (k - 1) - 1 = k - 2
      BY <2>1
    <3>2. ~(((k - 1) - 1) * len >= H)
      BY <2>3
    <3>3. y \in Int
      BY <2>1
    <3> HIDE DEF Bad, y
    <3>4. ~(y >= H)
      BY <3>1, <3>2 DEF y
    <3>5. QED BY <1>1, <3>3, <3>4
  <2>5. x = y + len /\ x \in Nat /\ y \in Int
    BY <2>1
  <2>6. Signed(x) >= 0
    BY <2>1
  <2> HIDE DEF x, y, Bad
  <2>7. x < U
    BY <1>1, <2>4, <2>5 DEF H
  <2>8. Signed(x) = x - U
    BY <2>1, <2>5, <2>7, SignedFacts
  <2>9. QED BY <1>1, <2>5, <2>6, <2>7, <2>8
<1>3. Bad = {}
  <2>1. Bad \in SUBSET Nat
    OBVIOUS
  <2> HIDE DEF Bad
  <2>2. QED BY <1>2, <2>1, LeastElement
<1>4. ASSUME NEW k \in 1..N
      PROVE  Signed((k - 1) * len) = (k - 1) * len
  <2> DEFINE x == (k - 1) * len
  <2>1. x \in Nat
    BY <1>1
  <2>2. ~(x >= H)
    <3>1. k \notin Bad
      BY <1>3
    <3> HIDE DEF x, H
    <3>2. QED BY <3>1 DEF x
  <2> HIDE DEF x, Bad
  <2>3. x < H
    BY <1>1, <2>1, <2>2
  <2>4. Signed(x) = x
    BY <2>1, <2>3, SignedFacts
  <2>5. QED BY <2>4 DEF x
<1>5. QED BY <1>4

(* Each image is written right behind the one before it, and inside the    *)
(* storage.                                                                *)
LEMMA OffsetsExact ==
    ASSUME NEW src, NEW m, Alike(src, m)
    PROVE  \A k \in 1..Len(src.images) :
              /\ Offset(src, k) = (k - 1) * Items(m)
              /\ Written(src, k) = Items(m)
              /\ (k - 1) * Items(m) + Items(m) <= Extent(src)
<1> DEFINE N == Len(src.images)
           len == Items(m)
           E == Extent(src)
           v == Signed(len)
           off(k) == Offset(src, k)
           w(k) == Written(src, k)
<1>1. /\ m \in Images /\ src.swap \in BOOLEAN
      /\ len \in Nat \ {0} /\ N \in Nat \ {0} /\ E \in Nat
      /\ E = (src.batch * len) % UintSize
      /\ src.op = "mat" => src.batch = 1 /\ N = 1
      /\ \A k \in 1..N :
           w(k) = 0 \/ (off(k) >= 0 /\ w(k) > 0 /\ off(k) + w(k) <= E)
  <2>1. /\ m \in Images /\ src.swap \in BOOLEAN
        /\ len \in Nat \ {0} /\ E \in Nat
        /\ E = (src.batch * len) % UintSize
        /\ src.op = "mat" => src.batch = 1
        /\ src.batch \in Nat \ {0} /\ N \in 1..src.batch
    BY AlikeFacts
  <2>2. \A k \in 1..N :
           w(k) = 0 \/ (off(k) >= 0 /\ w(k) > 0 /\ off(k) + w(k) <= E)
    BY AlikeFacts
  <2> HIDE DEF N, len, E, off, w
  <2>3. QED BY <2>1, <2>2
<1>2. len < UintSize /\ m.depth = TSize
        /\ \A k \in 1..N : src.images[k] = m
  BY DEF Alike
<1>3. /\ IntHalf \in Nat \ {0} /\ UintSize \in Nat \ {0}
      /\ UintSize = IntHalf + IntHalf
  BY Widths
<1>4. /\ v \in Int
      /\ len < IntHalf => v = len
      /\ len >= IntHalf => v = len - UintSize
  BY <1>1, <1>2, SignedFacts
<1>5. \A k \in 1..N : /\ off(k) = IF src.swap THEN Signed((k - 1) * v)
                                  ELSE (k - 1) * v
                      /\ w(k) = IF src.swap THEN len
                                ELSE IF src.op = "mat" THEN E ELSE v
  <2>1. src.images[1] = m
    BY <1>1, <1>2
  <2>2. Reach(m) = len
    BY <1>1, <1>2, ReachFacts
  <2>3. QED BY <1>2, <2>1, <2>2 DEF Offset, Written, Count, Nitems
<1>6. Signed(0) = 0
  BY SignedFacts, Widths
<1> HIDE DEF N, len, E, v, off, w
<1>7. CASE src.op = "mat"
  <2>1. E = len
    <3>1. src.batch * len = len
      BY <1>1, <1>7
    <3>2. len % UintSize = len
      BY <1>1, <1>2, <1>3
    <3>3. QED BY <1>1, <3>1, <3>2
  <2>2. ASSUME NEW k \in 1..N
        PROVE  off(k) = 0 /\ w(k) = len /\ (k - 1) * len = 0
    <3>1. k = 1
      BY <1>1, <1>7
    <3>2. (k - 1) * v = 0 /\ (k - 1) * len = 0
      BY <1>1, <1>4, <3>1
    <3>3. QED BY <1>5, <1>6, <1>7, <2>1, <3>2
  <2>3. 0 + len <= E
    BY <1>1, <2>1
  <2>4. QED BY <2>2, <2>3 DEF N, len, E, off, w
<1>8. ASSUME len < IntHalf,
             \A k \in 1..N : off(k) = (k - 1) * len /\ w(k) = len
      PROVE  \A k \in 1..N : /\ off(k) = (k - 1) * len /\ w(k) = len
                             /\ (k - 1) * len + len <= E
  BY <1>1, <1>8
<1>9. CASE src.op # "mat" /\ ~src.swap
  <2>1. 1 \in 1..N /\ w(1) = v
    BY <1>1, <1>5, <1>9
  <2>2. v = 0 \/ v > 0
    BY <1>1, <2>1
  <2>3. len < IntHalf
    BY <1>1, <1>2, <1>3, <1>4, <2>2
  <2>4. v = len
    BY <1>4, <2>3
  <2>5. \A k \in 1..N : off(k) = (k - 1) * len /\ w(k) = len
    BY <1>5, <1>9, <2>4
  <2>6. QED BY <1>8, <2>3, <2>5 DEF N, len, E, off, w
<1>10. CASE src.op # "mat" /\ src.swap
  <2>1. \A k \in 1..N : off(k) = Signed((k - 1) * v) /\ w(k) = len
    BY <1>5, <1>10
  <2>2. \A k \in 1..N : off(k) >= 0 /\ off(k) + len <= E
    BY <1>1, <2>1
  <2>3. CASE len < IntHalf
    <3>1. v = len
      BY <1>4, <2>3
    <3>2. \A k \in 1..N : Signed((k - 1) * len) >= 0
      BY <2>1, <2>2, <3>1
    <3>3. \A k \in 1..N : Signed((k - 1) * len) = (k - 1) * len
      BY <1>1, <2>3, <3>2, CountingUp
    <3>4. \A k \in 1..N : off(k) = (k - 1) * len /\ w(k) = len
      BY <2>1, <3>1, <3>3
    <3>5. QED BY <1>8, <2>3, <3>4 DEF N, len, E, off, w
  <2>4. CASE ~(len < IntHalf)
    <3>1. v = len - UintSize /\ v \in (-IntHalf)..(IntHalf - 1) /\ v < 0
      BY <1>1, <1>2, <1>3, <1>4, <2>4
    <3>2. N = 1
      <4>1. SUFFICES ASSUME 2 \in 1..N
                     PROVE  FALSE
        BY <1>1
      <4>2. off(2) = Signed(1 * v)
        BY <2>1, <4>1
      <4>3. 1 * v = v
        BY <1>4
      <4>4. off(2) = v
        BY <3>1, <4>2, <4>3, SignedOfInt
      <4>5. QED BY <2>2, <3>1, <4>1, <4>4
    <3>3. ASSUME NEW k \in 1..N
          PROVE  off(k) = 0 /\ w(k) = len /\ (k - 1) * len = 0
      <4>1. k = 1
        BY <3>2
      <4>2. (k - 1) * v = 0 /\ (k - 1) * len = 0
        BY <1>1, <1>4, <4>1
      <4>3. QED BY <1>6, <2>1, <4>2
    <3>4. 1 \in 1..N
      BY <1>1
    <3>5. 0 + len <= E
      BY <2>2, <3>3, <3>4
    <3>6. QED BY <3>3, <3>5 DEF N, len, E, off, w
  <2>5. QED BY <2>3, <2>4
<1>11. QED BY <1>7, <1>9, <1>10

(* In such a load an element comes from one image only.                    *)
LEMMA ElementAt ==
    ASSUME NEW src, NEW m, Alike(src, m), NEW k \in Nat \ {0},
           NEW j \in 0..(Items(m) - 1)
    PROVE  LoadedElement(src, (k - 1) * Items(m) + j + 1)
             = IF k > Len(src.images) THEN Zero
               ELSE IF src.swap THEN InPlanes(m, k, j) ELSE InMemory(m, k, j)
<1> DEFINE len == Items(m)
           i == (k - 1) * len + j + 1
           N == Len(src.images)
<1>1. len \in Nat /\ len > 0 /\ j \in Nat /\ j < len /\ N \in Nat \ {0}
  BY AlikeFacts
<1>2. m.depth = TSize /\ \A h \in 1..N : src.images[h] = m
  BY DEF Alike
<1>3. ASSUME NEW h \in 1..N
      PROVE  /\ Written(src, h) = len
             /\ At(src, i, h) = (k - h) * len + j
  <2>1. Offset(src, h) = (h - 1) * len /\ Written(src, h) = len
    BY OffsetsExact
  <2> DEFINE x == (k - 1) * len
             z == (h - 1) * len
             d == (k - h) * len
  <2>2. i = x + j + 1 /\ Offset(src, h) = z
    BY <2>1
  <2> HIDE DEF len, i, N
  <2>3. x - z = d
    BY <1>1
  <2>4. x \in Int /\ z \in Int /\ d \in Int
    BY <1>1
  <2> HIDE DEF x, z, d
  <2>5. At(src, i, h) = d + j
    BY <1>1, <2>2, <2>3, <2>4 DEF At
  <2>6. QED BY <2>1, <2>5 DEF d
<1> HIDE DEF len, i, N
<1>4. ASSUME NEW h \in 1..N
      PROVE  h \in From(src, i) <=> h = k
  <2>1. h \in From(src, i) <=> (k - h) * len + j \in 0..(len - 1)
    BY <1>3 DEF From, N
  <2>2. (k - h) * len \in Int
    BY <1>1
  <2>3. CASE h < k
    <3>1. (k - h) * len >= len
      BY <1>1, <2>3
    <3>2. QED BY <1>1, <2>1, <2>2, <2>3, <3>1
  <2>4. CASE h > k
    <3>1. (k - h) * len <= -len
      BY <1>1, <2>4
    <3>2. QED BY <1>1, <2>1, <2>2, <2>4, <3>1
  <2>5. CASE h = k
    <3>1. (k - h) * len = 0
      BY <1>1, <2>5
    <3>2. QED BY <1>1, <2>1, <2>5, <3>1
  <2>6. QED BY <2>3, <2>4, <2>5
<1>5. From(src, i) \subseteq 1..N
  BY DEF From, N
<1>6. CASE k > N
  <2>1. k \notin 1..N
    BY <1>1, <1>6
  <2>2. From(src, i) = {}
    BY <1>4, <1>5, <2>1
  <2>3. QED BY <1>6, <2>2 DEF LoadedElement, i, len, N
<1>7. CASE ~(k > N)
  <2>1. k \in 1..N
    BY <1>1, <1>7
  <2>2. From(src, i) = {k}
    BY <1>4, <1>5, <2>1
  <2>3. Max({k}) = k
    BY DEF Max
  <2>4. At(src, i, k) = j
    <3>1. (k - k) * len = 0
      BY <1>1
    <3>2. QED BY <1>1, <1>3, <2>1, <3>1
  <2>5. LoadedElement(src, i) = Element(m, k, j, src.swap)
    BY <1>2, <2>1, <2>2, <2>3, <2>4 DEF LoadedElement
  <2>6. LoadedElement(src, i)
          = IF src.swap THEN InPlanes(m, k, j) ELSE InMemory(m, k, j)
    BY <1>2, <2>5 DEF Element
  <2>7. QED BY <1>7, <2>6 DEF i, len, N
<1>8. QED BY <1>6, <1>7

(* A place of three digits, the last two to the bases B and C.             *)
Digits(A, B, C, p, q, r) ==
    /\ (p * B + q) * C + r \in 0..(A * (B * C) - 1)
    /\ ((p * B + q) * C + r) \div (B * C) = p
    /\ (((p * B + q) * C + r) % (B * C)) \div C = q
    /\ ((p * B + q) * C + r) % C = r

(* They can be told apart.                                                 *)
LEMMA ThreeDigits ==
    ASSUME NEW A \in Nat, NEW B \in Nat \ {0}, NEW C \in Nat \ {0},
           NEW p \in 0..(A - 1), NEW q \in 0..(B - 1), NEW r \in 0..(C - 1)
    PROVE  Digits(A, B, C, p, q, r)
<1> DEFINE j == (p * B + q) * C + r
           D == B * C
           low == q * C + r
<1>1. D \in Nat \ {0} /\ low \in 0..(D - 1)
  <2>1. (q + 1) * C <= B * C
    OBVIOUS
  <2>2. (q + 1) * C = q * C + C
    OBVIOUS
  <2>3. q * C \in Nat /\ B * C \in Nat
    OBVIOUS
  <2>4. QED BY <2>1, <2>2, <2>3
<1>2. j = p * D + low
  OBVIOUS
<1>3. (p * B + q) \in Nat
  OBVIOUS
<1>4. j % C = r
  BY <1>3, LastDigit
<1>5. low \div C = q
  BY LastDigit
<1> HIDE DEF j, D, low
<1>6. j \div D = p /\ j % D = low
  BY <1>1, <1>2, LastDigit
<1>7. j \in 0..(A * D - 1)
  <2>1. (p + 1) * D <= A * D
    BY <1>1
  <2>2. (p + 1) * D = p * D + D
    BY <1>1
  <2>3. p * D \in Nat /\ A * D \in Nat
    BY <1>1
  <2>4. QED BY <1>1, <1>2, <2>1, <2>2, <2>3
<1>8. QED BY <1>4, <1>5, <1>6, <1>7 DEF j, D, Digits

(* What the place of an element of a shape is, counted from the place      *)
(* where its image starts.                                                 *)
PlaceIsFrom(n, A, B, C, h, p, q, r) ==
    Place(<<n, A, B, C>>, h, p, q, r)
        = h * (A * (B * C)) + ((p * B + q) * C + r) + 1

(* It is so counted.                                                       *)
LEMMA PlaceOfElement ==
    ASSUME NEW n, NEW A \in Nat, NEW B \in Nat, NEW C \in Nat,
           NEW h \in Nat, NEW p \in Nat, NEW q \in Nat, NEW r \in Nat
    PROVE  PlaceIsFrom(n, A, B, C, h, p, q, r)
<1>1. Place(<<n, A, B, C>>, h, p, q, r)
        = ((h * A + p) * B + q) * C + r + 1
  BY DEF Place
<1>2. ((h * A + p) * B + q) * C = h * (A * (B * C)) + (p * B + q) * C
  OBVIOUS
<1>3. h * (A * (B * C)) \in Nat /\ (p * B + q) * C \in Nat
  OBVIOUS
<1>4. QED BY <1>1, <1>2, <1>3 DEF PlaceIsFrom

(* The pixels of a continuous image follow one another in its memory.      *)
LEMMA PixelInMemory ==
    ASSUME NEW m \in Images, Continuous(m), NEW k,
           NEW c \in 0..(m.channels - 1), NEW y \in 0..(m.rows - 1),
           NEW x \in 0..(m.cols - 1)
    PROVE  InMemory(m, k, (y * m.cols + x) * m.channels + c)
             = <<k, c, y, x>>
<1> DEFINE A == m.channels
           R == m.rows
           W == m.cols
           st == m.step
           pos == x * A + c
           row == W * A
           j == (y * W + x) * A + c
<1>1. /\ A \in Nat \ {0} /\ R \in Nat /\ W \in Nat
      /\ st \in Nat \ {0} /\ st >= row
      /\ R <= 1 \/ st = row
  BY ImageSizes DEF Continuous
<1>2. c \in 0..(A - 1) /\ y \in 0..(R - 1) /\ x \in 0..(W - 1)
  OBVIOUS
<1>3. InMemory(m, k, j)
        = IF j \div st < R /\ j % st < row
          THEN <<k, (j % st) % A, j \div st, (j % st) \div A>> ELSE Margin
  BY DEF InMemory
<1> HIDE DEF A, R, W, st
<1>4. c \in Nat /\ c < A /\ y \in Nat /\ y < R /\ x \in Nat /\ x < W
  BY <1>1, <1>2
<1>5. pos \in Nat /\ row \in Nat /\ pos < row
  <2>1. (x + 1) * A <= W * A
    BY <1>1, <1>4
  <2>2. (x + 1) * A = x * A + A
    BY <1>1, <1>4
  <2>3. x * A \in Nat /\ W * A \in Nat
    BY <1>1, <1>4
  <2>4. QED BY <1>1, <1>4, <2>1, <2>2, <2>3
<1>6. j = y * row + pos
  <2>1. (y * W + x) * A = y * (W * A) + x * A
    BY <1>1, <1>4
  <2>2. y * (W * A) \in Nat /\ x * A \in Nat
    BY <1>1, <1>4
  <2>3. QED BY <1>1, <1>4, <2>1, <2>2
<1>7. pos % A = c /\ pos \div A = x
  BY <1>1, <1>2, <1>4, LastDigit
<1> HIDE DEF row, pos, j
<1>8. j = y * st + pos
  <2>1. CASE R <= 1
    <3>1. y = 0
      BY <1>1, <1>4, <2>1
    <3>2. y * row = 0 /\ y * st = 0
      BY <1>1, <1>5, <3>1
    <3>3. QED BY <1>6, <3>2
  <2>2. CASE st = row
    BY <1>6, <2>2
  <2>3. QED BY <1>1, <2>1, <2>2
<1>9. j \div st = y /\ j % st = pos
  <2>1. pos \in 0..(st - 1)
    BY <1>1, <1>5
  <2>2. QED BY <1>1, <1>4, <1>8, <2>1, LastDigit
<1>10. InMemory(m, k, j) = <<k, c, y, x>>
  BY <1>3, <1>4, <1>5, <1>7, <1>9
<1>11. QED BY <1>10 DEF j, W, A

(* Every pixel is at its place.                                            *)
LEMMA PixelAtPlace ==
    ASSUME NEW src, NEW m, Alike(src, m), src.swap \/ Continuous(m),
           NEW k \in 1..src.batch, NEW c \in 0..(m.channels - 1),
           NEW y \in 0..(m.rows - 1), NEW x \in 0..(m.cols - 1),
           k <= Len(src.images) \/ src.batch * Items(m) < UintSize
    PROVE  LET s == LoadedShape(src)
           IN Loaded(src)[IF src.swap THEN Place(s, k - 1, c, y, x)
                                      ELSE Place(s, k - 1, y, x, c)]
                = IF k <= Len(src.images) THEN <<k, c, y, x>> ELSE Zero
<1> DEFINE A == m.channels
           R == m.rows
           W == m.cols
           n == src.batch
           N == Len(src.images)
           len == Items(m)
           s == LoadedShape(src)
           size == Extent(src)
           swap == src.swap
           j == IF swap THEN (c * R + y) * W + x ELSE (y * W + x) * A + c
           i == IF swap THEN Place(s, k - 1, c, y, x)
                        ELSE Place(s, k - 1, y, x, c)
<1>1. /\ m \in Images /\ src.images[1] = m /\ swap \in BOOLEAN
      /\ len \in Nat \ {0} /\ n \in Nat \ {0} /\ N \in 1..n
      /\ size \in Nat /\ size = (n * len) % UintSize
  BY AlikeFacts
<1>2. /\ A \in Nat \ {0} /\ R \in Nat \ {0} /\ W \in Nat \ {0}
      /\ len = A * (R * W)
  <2>1. /\ A \in Nat \ {0} /\ R \in Nat /\ W \in Nat
        /\ len = A * (R * W) /\ (len # 0 => R # 0 /\ W # 0)
    BY <1>1, ImageSizes
  <2> HIDE DEF A, R, W, len
  <2>2. QED BY <1>1, <2>1
<1>3. ASSUME m \in Images, Continuous(m)
      PROVE  InMemory(m, k, (y * m.cols + x) * m.channels + c)
              = <<k, c, y, x>>
  <2>1. /\ c \in 0..(m.channels - 1) /\ y \in 0..(m.rows - 1)
        /\ x \in 0..(m.cols - 1) /\ m \in Images /\ Continuous(m)
    BY <1>3
  <2>2. QED BY ONLY <2>1, PixelInMemory, Zenon
<1>4. k - 1 \in Nat /\ k \in Nat \ {0} /\ k <= n
  BY <1>1
<1>5. s = ShapeOf(m, n, swap)
  BY <1>1 DEF LoadedShape
<1>6. /\ j \in 0..(len - 1)
      /\ (IF swap THEN InPlanes(m, k, j) ELSE InMemory(m, k, j))
            = <<k, c, y, x>>
      /\ i = (k - 1) * len + j + 1
  <2> HIDE DEF A, R, W, len, n, s
  <2>1. CASE swap
    <3>1. j = (c * R + y) * W + x
      BY <2>1
    <3>2. /\ j \in 0..(A * (R * W) - 1) /\ j \div (R * W) = c
          /\ (j % (R * W)) \div W = y /\ j % W = x
      <4> HIDE DEF j
      <4>1. /\ c \in 0..(A - 1) /\ y \in 0..(R - 1) /\ x \in 0..(W - 1)
        BY DEF A, R, W
      <4>2. A \in Nat /\ R \in Nat \ {0} /\ W \in Nat \ {0}
        BY <1>2
      <4>3. Digits(A, R, W, c, y, x)
        BY <4>1, <4>2, ThreeDigits
      <4>4. QED BY <3>1, <4>3, Zenon DEF Digits
    <3>3. InPlanes(m, k, j) = <<k, c, y, x>>
      <4> HIDE DEF j
      <4>1. InPlanes(m, k, j)
              = <<k, j \div (R * W), (j % (R * W)) \div W, j % W>>
        BY DEF InPlanes, R, W
      <4>2. QED BY <3>2, <4>1
    <3>4. s = <<n, A, R, W>>
      BY <1>5, <2>1 DEF ShapeOf, A, R, W
    <3>5. Place(s, k - 1, c, y, x) = (k - 1) * (A * (R * W)) + j + 1
      <4>1. c \in Nat /\ y \in Nat /\ x \in Nat
        BY <1>2 DEF A, R, W
      <4>2. A \in Nat /\ R \in Nat /\ W \in Nat /\ k - 1 \in Nat
        BY <1>2, <1>4
      <4>3. PlaceIsFrom(n, A, R, W, k - 1, c, y, x)
        BY <4>1, <4>2, PlaceOfElement
      <4> HIDE DEF j, s
      <4>4. QED BY <3>1, <3>4, <4>3, Zenon DEF PlaceIsFrom
    <3>6. QED BY <1>2, <2>1, <3>2, <3>3, <3>5
  <2>2. CASE ~swap
    <3>1. j = (y * W + x) * A + c
      BY <2>2
    <3>2. j \in 0..(R * (W * A) - 1)
      <4> HIDE DEF j
      <4>1. /\ c \in 0..(A - 1) /\ y \in 0..(R - 1) /\ x \in 0..(W - 1)
        BY DEF A, R, W
      <4>2. A \in Nat \ {0} /\ R \in Nat /\ W \in Nat \ {0}
        BY <1>2
      <4>3. Digits(R, W, A, y, x, c)
        BY <4>1, <4>2, ThreeDigits
      <4>4. QED BY <3>1, <4>3, Zenon DEF Digits
    <3>3. R * (W * A) = A * (R * W)
      BY <1>2
    <3>4. InMemory(m, k, j) = <<k, c, y, x>>
      <4> HIDE DEF j
      <4>1. Continuous(m)
        BY <2>2
      <4>2. InMemory(m, k, (y * m.cols + x) * m.channels + c)
              = <<k, c, y, x>>
        BY <1>1, <1>3, <4>1
      <4>3. QED BY <3>1, <4>2 DEF W, A
    <3>5. s = <<n, R, W, A>>
      BY <1>5, <2>2 DEF ShapeOf, A, R, W
    <3>6. Place(s, k - 1, y, x, c) = (k - 1) * (R * (W * A)) + j + 1
      <4>1. c \in Nat /\ y \in Nat /\ x \in Nat
        BY <1>2 DEF A, R, W
      <4>2. A \in Nat /\ R \in Nat /\ W \in Nat /\ k - 1 \in Nat
        BY <1>2, <1>4
      <4>3. PlaceIsFrom(n, R, W, A, k - 1, y, x, c)
        BY <4>1, <4>2, PlaceOfElement
      <4> HIDE DEF j, s
      <4>4. QED BY <3>1, <3>5, <4>3, Zenon DEF PlaceIsFrom
    <3>7. QED BY <1>2, <2>2, <3>2, <3>3, <3>4, <3>6
  <2>3. QED BY <2>1, <2>2
<1> HIDE DEF A, R, W, j, i
<1>7. (k - 1) * len + len <= size
  <2>1. CASE k <= N
    <3>1. k \in 1..N
      <4> HIDE DEF N
      <4>1. QED BY <1>1, <1>4, <2>1
    <3>2. QED BY <3>1, OffsetsExact
  <2>2. CASE n * len < UintSize
    <3> HIDE DEF n, len, size
    <3>1. n * len \in Nat
      BY <1>1
    <3>2. size = n * len
      BY <1>1, <2>2, <3>1, Widths
    <3>3. (k - 1) * len + len = k * len
      BY <1>1, <1>4
    <3>4. k * len <= n * len
      BY <1>1, <1>4
    <3>5. QED BY <3>2, <3>3, <3>4
  <2>3. QED BY <2>1, <2>2
<1>8. i \in 1..size
  <2> HIDE DEF len, size, n
  <2> DEFINE p == (k - 1) * len
  <2>1. p \in Nat
    BY <1>1, <1>4
  <2>2. i = p + j + 1 /\ p + len <= size /\ j \in 0..(len - 1)
    BY <1>6, <1>7
  <2> HIDE DEF p
  <2>3. QED BY <1>1, <2>1, <2>2
<1>9. Loaded(src)[i] = LoadedElement(src, i)
  BY <1>8, LoadedElements
<1>10. LoadedElement(src, i) = IF k > N THEN Zero ELSE <<k, c, y, x>>
  <2>1. j \in 0..(Items(m) - 1) /\ i = (k - 1) * Items(m) + j + 1
    BY <1>6
  <2>2. LoadedElement(src, (k - 1) * Items(m) + j + 1)
          = IF k > N THEN Zero
            ELSE IF swap THEN InPlanes(m, k, j) ELSE InMemory(m, k, j)
    BY <1>4, <2>1, ElementAt
  <2> HIDE DEF len, N, swap
  <2>3. QED BY <1>6, <2>1, <2>2, Zenon
<1>11. k > N <=> ~(k <= N)
  <2> HIDE DEF N
  <2>1. QED BY <1>1, <1>4
<1>12. Loaded(src)[i] = IF k <= N THEN <<k, c, y, x>> ELSE Zero
  BY <1>9, <1>10, <1>11
<1>13. QED BY <1>12 DEF i

-----------------------------------------------------------------------------
(* The inductive invariant of the module.                                  *)
THEOREM InductiveInvariance == Spec => []IInv
BY InitIInv, StepIInv, PTL DEF Spec

(* TypeOK: a tensor has one to four dimensions and a storage, and a        *)
(* storage nobody has is gone.                                             *)
THEOREM TypeCorrectness == Spec => []TypeOK
<1>1. IInv => TypeOK
  BY DEF IInv
<1> QED BY <1>1, InductiveInvariance, PTL

(* SizeIsStorage: through any sequence of copies, reshapes and loads, the  *)
(* size() of a tensor is what its storage holds, from_vector() apart.      *)
THEOREM SizesAreKept == Spec => []SizeIsStorage
<1>1. IInv => SizeIsStorage
  BY DEF IInv
<1> QED BY <1>1, InductiveInvariance, PTL

(* FaultNeedsOddBatch: a load writes beyond its storage only if the batch  *)
(* is more than an int can count, or cv::split() is given an image larger  *)
(* than the first or with wider elements; it reads beyond an image only if *)
(* there is none or memcpy() is given a smaller one, or a single empty     *)
(* one; and its assertions fail only for a list that is too long, an empty *)
(* batch or an empty first image (tensor.h:147-235).                       *)
THEOREM EvenBatchesAreSafe == Spec => []FaultNeedsOddBatch
<1>1. IInv => FaultNeedsOddBatch
  BY DEF IInv
<1> QED BY <1>1, InductiveInvariance, PTL

(* OutputsArrive: an output of up to four dimensions arrives whole.        *)
THEOREM OutputsAreWhole == Spec => []OutputsArrive
<1>1. IInv => OutputsArrive
  BY DEF IInv
<1> QED BY <1>1, InductiveInvariance, PTL

(* The images and the pixels that ImagesInPlace speaks of.                 *)
Regular(src) ==
    /\ OfImages(src)
    /\ \A k \in 1..Len(src.images) : src.images[k] = src.images[1]
    /\ src.images[1].depth = TSize /\ Items(src.images[1]) < UintSize
    /\ src.swap \/ Continuous(src.images[1])

PixelThere(b, k, c, y, x) ==
    LET src == storage[b].source
        s == LoadedShape(src)
    IN \/ k > Len(src.images) /\ src.batch * Items(src.images[1]) >= UintSize
       \/ storage[b].data[IF src.swap THEN Place(s, k - 1, c, y, x)
                          ELSE Place(s, k - 1, y, x, c)]
            = IF k <= Len(src.images) THEN <<k, c, y, x>> ELSE Zero

(* ImagesInPlace: after a load of images of one size each element is where *)
(* the tensor's shape puts it: in planes for any images, pixel by pixel    *)
(* for continuous ones, although int offsets count to them                 *)
(* (tensor.h:147-235).                                                     *)
THEOREM ImagesAreInPlace == Spec => []ImagesInPlace
<1>1. IInv => ImagesInPlace
  <2> SUFFICES
        ASSUME IInv, NEW b \in Tensors, Regular(storage[b].source),
               NEW k \in 1..storage[b].source.batch,
               NEW c \in 0..(storage[b].source.images[1].channels - 1),
               NEW y \in 0..(storage[b].source.images[1].rows - 1),
               NEW x \in 0..(storage[b].source.images[1].cols - 1)
        PROVE  PixelThere(b, k, c, y, x)
    BY DEF ImagesInPlace, Regular, PixelThere
  <2> DEFINE src == storage[b].source
             m == src.images[1]
             n == src.batch
             N == Len(src.images)
             len == Items(m)
  <2>1. /\ src \in Sources /\ Faults(src) = {}
        /\ storage[b].data = Loaded(src)
    BY DEF IInv, TypeOK, AsLoaded, Regular
  <2>2. Admitted(src) /\ src.images # <<>>
    BY <2>1 DEF Faults
  <2>3. /\ n \in Nat \ {0} /\ N \in 1..n /\ m \in Images /\ len \in Nat
    BY <2>1, <2>2, ExtentFacts DEF Regular
  <2>4. len # 0
    <3>1. /\ m.rows \in Nat /\ m.cols \in Nat
          /\ len # 0 <=> m.rows # 0 /\ m.cols # 0
      BY <2>3, ImageSizes
    <3>2. m.rows # 0 /\ m.cols # 0
      BY <3>1
    <3>3. QED BY <3>1, <3>2
  <2>5. Alike(src, m)
    BY <2>1, <2>4 DEF Alike, Regular
  <2>6. k <= N \/ n * len < UintSize \/ (k > N /\ n * len >= UintSize)
    <3>1. n * len \in Nat /\ k \in Nat /\ N \in Nat /\ UintSize \in Nat
      BY <2>3, Widths
    <3> HIDE DEF n, N, len
    <3>2. QED BY <3>1
  <2>7. /\ src.swap \/ Continuous(m)
        /\ k \in 1..src.batch /\ c \in 0..(m.channels - 1)
        /\ y \in 0..(m.rows - 1) /\ x \in 0..(m.cols - 1)
    BY DEF Regular
  <2>8. \/ k <= Len(src.images) \/ src.batch * Items(m) < UintSize
        \/ k > Len(src.images) /\ src.batch * Items(m) >= UintSize
    BY <2>6
  <2> DEFINE s == LoadedShape(src)
             at == IF src.swap THEN Place(s, k - 1, c, y, x)
                               ELSE Place(s, k - 1, y, x, c)
  <2> HIDE DEF src, m
  <2>9. ASSUME k <= Len(src.images) \/ src.batch * Items(m) < UintSize
        PROVE  Loaded(src)[at]
                 = IF k <= Len(src.images) THEN <<k, c, y, x>> ELSE Zero
    BY <2>5, <2>7, <2>9, PixelAtPlace
  <2> HIDE DEF at, s
  <2>10. \/ k > Len(src.images) /\ src.batch * Items(m) >= UintSize
         \/ storage[b].data[at]
               = IF k <= Len(src.images) THEN <<k, c, y, x>> ELSE Zero
    BY <2>1, <2>8, <2>9, Zenon
  <2>11. QED BY <2>10 DEF src, m, at, s, PixelThere
<1> QED BY <1>1, InductiveInvariance, PTL
=============================================================================
