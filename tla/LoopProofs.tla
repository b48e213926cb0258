----------------------------- MODULE LoopProofs -----------------------------
(***************************************************************************)
(* Theorems about the loops: the arithmetic of Schedule for any width of   *)
(* int, team and loop, what it gives to StaticLoop, and LoopDispatch.  The *)
(* two loops share no variable: they meet here because both rest on the    *)
(* arithmetic.                                                             *)
(***************************************************************************)
EXTENDS StaticLoop, LoopDispatch, FiniteSetTheorems, TLAPS

-----------------------------------------------------------------------------
(* Integers.                                                               *)

\* Division and remainder by a positive number.
LEMMA DivMod ==
  ASSUME NEW a \in Int, NEW b \in Nat \ {0}
  PROVE  /\ a \div b \in Int /\ a % b \in Int
         /\ a = b * (a \div b) + (a % b)
         /\ 0 <= a % b /\ a % b < b
OBVIOUS

\* They are determined by that.
LEMMA DivUnique ==
  ASSUME NEW q \in Int, NEW r \in Int, NEW b \in Nat \ {0}, 0 <= r, r < b
  PROVE  (b * q + r) \div b = q /\ (b * q + r) % b = r
OBVIOUS

\* Multiplication by a number that is not negative is monotone.
LEMMA MulMono ==
  ASSUME NEW a \in Int, NEW b \in Int, NEW c \in Nat, a <= b
  PROVE  a * c <= b * c
OBVIOUS

\* A product is not less than a factor.
LEMMA MulGrows ==
  ASSUME NEW a \in Nat, NEW c \in Nat \ {0}
  PROVE  a <= a * c
OBVIOUS

\* What is less after multiplication was less before.
LEMMA MulLess ==
  ASSUME NEW a \in Int, NEW b \in Int, NEW c \in Nat, a * c < b * c
  PROVE  a < b
OBVIOUS

\* What fits an int is stored as it is.
LEMMA WrapId ==
  ASSUME NEW x \in CInt
  PROVE  Wrap(x) = x
<1>1. x + IntMax + 1 \in Nat /\ x + IntMax + 1 < 2 * (IntMax + 1)
      /\ 2 * (IntMax + 1) \in Nat \ {0}
  BY IntMaxAssumption DEF CInt
<1>2. (x + IntMax + 1) % (2 * (IntMax + 1)) = x + IntMax + 1
  BY <1>1
<1>3. QED
  BY <1>2, IntMaxAssumption DEF Wrap, CInt

-----------------------------------------------------------------------------
(* Which iterations a range of a loop that counts up has.                  *)

\* An iteration is a number of steps away from the lower bound.
LEMMA IterationsUp ==
  ASSUME NEW l \in Int, NEW u \in Int, NEW d \in Nat \ {0}, NEW x
  PROVE  x \in Iterations(l, u, d) <=> \E k \in Nat : x = l + k * d /\ x <= u
<1>1. Magnitude(d) = d
  BY DEF Magnitude
<1>2. ASSUME x \in Iterations(l, u, d)
      PROVE  \E k \in Nat : x = l + k * d /\ x <= u
  <2>1. x \in Int /\ l <= x /\ x <= u /\ (x - l) % d = 0
    BY <1>1, <1>2 DEF Iterations
  <2> DEFINE k == (x - l) \div d
  <2>2. x - l = d * k /\ k \in Int
    BY <2>1, DivMod
  <2> HIDE DEF k
  <2>3. k \in Nat
    BY <2>1, <2>2
  <2>4. x = l + k * d
    BY <2>1, <2>2
  <2>5. QED
    BY <2>1, <2>3, <2>4
<1>3. ASSUME NEW k \in Nat, x = l + k * d, x <= u
      PROVE  x \in Iterations(l, u, d)
  <2>1. k * d \in Nat
    OBVIOUS
  <2>2. x \in l..u
    BY <1>3, <2>1
  <2>3. x - l = d * k + 0
    BY <1>3, <2>1
  <2>4. (d * k + 0) % d = 0
    BY DivUnique
  <2>5. QED
    BY <1>1, <2>2, <2>3, <2>4 DEF Iterations
<1>4. QED
  BY <1>2, <1>3

\* The first iteration of a range, and the others.
LEMMA FirstIteration ==
  ASSUME NEW l \in Int, NEW u \in Int, NEW d \in Nat \ {0}, l <= u
  PROVE  /\ {l} \subseteq Iterations(l, u, d)
         /\ Iterations(l + d, u, d) = Iterations(l, u, d) \ {l}
<1>1. l + d \in Int
  OBVIOUS
<1>2. \A x : x \in Iterations(l, u, d) <=> \E k \in Nat : x = l + k * d /\ x <= u
  BY IterationsUp
<1>3. \A x : x \in Iterations(l + d, u, d) <=> \E k \in Nat : x = l + d + k * d /\ x <= u
  BY <1>1, IterationsUp
<1>4. l \in Iterations(l, u, d)
  <2>1. l = l + 0 * d /\ 0 \in Nat
    OBVIOUS
  <2>2. QED
    BY <1>2, <2>1
<1>5. ASSUME NEW x \in Iterations(l + d, u, d) PROVE x \in Iterations(l, u, d) \ {l}
  <2>1. PICK k \in Nat : x = l + d + k * d /\ x <= u
    BY <1>3
  <2>2. k * d \in Nat /\ (k + 1) * d = k * d + d /\ k + 1 \in Nat
    OBVIOUS
  <2>3. x = l + (k + 1) * d /\ x # l
    BY <2>1, <2>2
  <2>4. QED
    BY <1>2, <2>1, <2>2, <2>3
<1>6. ASSUME NEW x \in Iterations(l, u, d), x # l PROVE x \in Iterations(l + d, u, d)
  <2>1. PICK k \in Nat : x = l + k * d /\ x <= u
    BY <1>2
  <2>2. k # 0
    BY <1>6, <2>1
  <2>3. k - 1 \in Nat /\ k * d = (k - 1) * d + d /\ (k - 1) * d \in Int
    BY <2>2
  <2>4. x = l + d + (k - 1) * d
    BY <2>1, <2>3
  <2>5. QED
    BY <1>3, <2>1, <2>3, <2>4
<1>7. QED
  BY <1>4, <1>5, <1>6

-----------------------------------------------------------------------------
(* The blocks of omp_static_init.                                          *)

\* A loop that counts up from l to u in steps of d, on n threads, whose bounds
\* and blocks fit an int.
Fits(l, u, d, n) ==
  /\ l \in CInt /\ u \in CInt /\ d \in Nat \ {0} /\ n \in Nat \ {0}
  /\ l <= u
  /\ (u - l) + d <= IntMax
  /\ u + n * d <= IntMax

\* The number of iterations is computed right.
LEMMA TripUp ==
  ASSUME NEW l, NEW u, NEW d, NEW n, Fits(l, u, d, n)
  PROVE  LET trip == TripCount(l, u, d) IN
         /\ trip \in Nat \ {0}
         /\ (trip - 1) * d <= u - l /\ u - l < trip * d
<1>1. l \in Int /\ u \in Int /\ d \in Nat \ {0} /\ u - l \in Nat
  BY IntMaxAssumption DEF Fits, CInt
<1> DEFINE q == (u - l) \div d
<1>2. Quot(u - l, d) = q
  BY <1>1 DEF Quot, Magnitude
<1>3. q \in Int /\ u - l = d * q + ((u - l) % d) /\ 0 <= (u - l) % d /\ (u - l) % d < d
  BY <1>1, DivMod
<1> HIDE DEF q
<1>4. q * d <= u - l /\ u - l < (q + 1) * d
  BY <1>1, <1>3
<1>5. q \in Nat
  BY <1>1, <1>3, <1>4, MulLess
<1>6. q <= q * d
  BY <1>1, <1>5
<1>7. q + 1 <= IntMax
  BY <1>1, <1>4, <1>5, <1>6, IntMaxAssumption DEF Fits
<1>8. TripCount(l, u, d) = q + 1
  BY <1>2, <1>5, <1>7, WrapId, IntMaxAssumption DEF TripCount, CInt
<1>9. QED
  BY <1>4, <1>5, <1>8

\* One step less than the quotient rounded up.
LEMMA BlockLength ==
  ASSUME NEW trip \in Nat \ {0}, NEW n \in Nat \ {0}, NEW q \in Int, NEW r \in Int,
         trip = n * q + r, 0 <= r, r < n, NEW b, b = q + (IF r = 0 THEN -1 ELSE 0)
  PROVE  b \in Nat /\ b * n < trip /\ trip <= (b + 1) * n
<1>1. b \in Int
  OBVIOUS
<1>2. b * n \in Int /\ (b + 1) * n = b * n + n /\ (b + 1) * n \in Int
  BY <1>1
<1>3. CASE r = 0
  <2>1. q = b + 1
    BY <1>3
  <2>2. n * q = (b + 1) * n
    BY <1>1, <2>1
  <2>3. b * n < trip /\ trip <= (b + 1) * n
    BY <1>2, <1>3, <2>2
  <2>4. 0 * n < (b + 1) * n
    BY <1>2, <2>3
  <2>5. 0 < b + 1
    BY <1>1, <2>4, MulLess
  <2>6. QED
    BY <1>1, <2>3, <2>5
<1>4. CASE r # 0
  <2>1. q = b
    BY <1>4
  <2>2. n * q = b * n
    BY <1>1, <2>1
  <2>3. b * n < trip /\ trip <= (b + 1) * n
    BY <1>2, <1>4, <2>2
  <2>4. 0 * n < (b + 1) * n
    BY <1>2, <2>3
  <2>5. 0 < b + 1
    BY <1>1, <2>4, MulLess
  <2>6. QED
    BY <1>1, <2>3, <2>5
<1>5. QED
  BY <1>3, <1>4

\* The iterations of a block, but for the first.
BlockRest(l, u, d, n) ==
  TripCount(l, u, d) \div n + Adjustment(TripCount(l, u, d), n)

\* Every thread's block begins where the one before ends, and the blocks reach
\* the end of the loop.
LEMMA StaticBlocks ==
  ASSUME NEW l, NEW u, NEW d, NEW n, Fits(l, u, d, n),
         NEW b, b = BlockRest(l, u, d, n)
  PROVE  /\ b \in Nat
         /\ u - l < (b + 1) * n * d
         /\ \A i \in 0..(n - 1) :
              StaticInit(i, n, l, u, d) =
                [lower |-> l + i * ((b + 1) * d),
                 upper |-> Clipped(l + i * ((b + 1) * d) + b * d, u)]
<1> DEFINE trip == TripCount(l, u, d)
<1>1. /\ l \in Int /\ u \in Int /\ d \in Nat \ {0} /\ n \in Nat \ {0} /\ IntMax \in Nat
      /\ l >= -IntMax - 1 /\ (u - l) + d <= IntMax /\ u + n * d <= IntMax
  BY IntMaxAssumption DEF Fits, CInt
<1>2. trip \in Nat \ {0} /\ (trip - 1) * d <= u - l /\ u - l < trip * d
  BY TripUp
<1> HIDE DEF trip
<1>3. /\ trip \div n \in Int /\ trip = n * (trip \div n) + (trip % n)
      /\ 0 <= trip % n /\ trip % n < n
  BY <1>1, <1>2, DivMod
<1>4. b \in Nat /\ b * n < trip /\ trip <= (b + 1) * n
  <2> DEFINE q == trip \div n
             r == trip % n
  <2>1. b = q + (IF r = 0 THEN -1 ELSE 0)
    BY DEF Adjustment, BlockRest, trip
  <2>2. trip = n * q + r
    BY <1>3
  <2>3. q \in Int /\ r \in Int /\ 0 <= r /\ r < n
    BY <1>1, <1>2, DivMod
  <2> HIDE DEF q, r
  <2>4. QED
    BY <1>1, <1>2, <2>1, <2>2, <2>3, BlockLength
<1>5. b <= trip - 1
  <2>1. b <= b * n
    BY <1>1, <1>4
  <2>2. QED
    BY <1>1, <1>2, <1>4, <2>1
<1>6. Stride(trip, n, d) = (b + 1) * d /\ BlockSize(trip, n, d) = b * d
      /\ b * d \in Nat /\ (b + 1) * d \in Nat
  <2>1. (b + 1) * d <= trip * d
    BY <1>1, <1>2, <1>4, <1>5, MulMono
  <2>2. trip * d = (trip - 1) * d + d
    BY <1>1, <1>2
  <2>3. b * d \in Nat /\ (b + 1) * d \in Nat /\ b * d <= (b + 1) * d
    BY <1>1, <1>4
  <2>4. (b + 1) * d <= IntMax
    BY <1>1, <1>2, <2>1, <2>2, <2>3
  <2>5. (b + 1) * d \in CInt /\ b * d \in CInt
    BY <1>1, <2>3, <2>4 DEF CInt
  <2>6. trip \div n + Adjustment(trip, n) = b
    BY DEF trip, BlockRest
  <2>7. trip \div n + Adjustment(trip, n) + 1 = b + 1
    BY <1>3, <2>6 DEF Adjustment
  <2>8. QED
    BY <2>3, <2>5, <2>6, <2>7, WrapId DEF Stride, BlockSize
<1>7. ASSUME NEW i \in 0..(n - 1)
      PROVE  /\ i * ((b + 1) * d) \in Nat
             /\ l + i * ((b + 1) * d) \in CInt
             /\ l + i * ((b + 1) * d) + b * d \in CInt
  <2>1. i * ((b + 1) * d) \in Nat
    BY <1>1, <1>6
  <2>2. i * ((b + 1) * d) <= (n - 1) * ((b + 1) * d)
    BY <1>1, <1>6, MulMono
  <2>3. (n - 1) * ((b + 1) * d) + b * d = (b * n) * d + n * d - d
    BY <1>1, <1>4
  <2>4. (b * n) * d <= (trip - 1) * d
    <3>1. b * n \in Int /\ trip - 1 \in Int /\ b * n <= trip - 1
      BY <1>1, <1>2, <1>4
    <3>2. QED
      BY <1>1, <3>1, MulMono
  <2>5. (b * n) * d \in Int /\ (trip - 1) * d \in Int /\ n * d \in Int
        /\ (n - 1) * ((b + 1) * d) \in Int
    BY <1>1, <1>2, <1>4
  <2>6. l + i * ((b + 1) * d) + b * d <= u + n * d
    BY <1>1, <1>2, <1>6, <2>1, <2>2, <2>3, <2>4, <2>5
  <2>7. QED
    BY <1>1, <1>6, <2>1, <2>5, <2>6 DEF CInt
<1>8. ASSUME NEW i \in 0..(n - 1)
      PROVE  StaticInit(i, n, l, u, d) =
               [lower |-> l + i * ((b + 1) * d),
                upper |-> Clipped(l + i * ((b + 1) * d) + b * d, u)]
  BY <1>6, <1>7, WrapId DEF StaticInit, trip
<1>9. u - l < (b + 1) * n * d
  <2>1. trip * d <= ((b + 1) * n) * d
    BY <1>1, <1>2, <1>4, MulMono
  <2>2. ((b + 1) * n) * d \in Int /\ trip * d \in Int
    BY <1>1, <1>2, <1>4
  <2>3. QED
    BY <1>1, <1>2, <2>1, <2>2
<1>10. QED
  BY <1>4, <1>8, <1>9

-----------------------------------------------------------------------------
(* The pieces a loop is cut into: the blocks of the static schedule and    *)
(* the chunks of the others.                                               *)

\* Part number j, of c iterations.
PartLower(l, d, c, j) == l + j * (c * d)
Part(l, u, d, c, j) ==
  Iterations(PartLower(l, d, c, j), Clipped(PartLower(l, d, c, j) + (c - 1) * d, u), d)

\* The iterations of a piece, by their distance to the first one of the loop.
LEMMA InPiece ==
  ASSUME NEW l \in Int, NEW u \in Int, NEW d \in Nat \ {0}, NEW c \in Nat \ {0},
         NEW j \in Nat, NEW x
  PROVE  x \in Part(l, u, d, c, j) <=>
           \E k \in 0..(c - 1) : x = l + (j * c + k) * d /\ x <= u
<1> DEFINE p == PartLower(l, d, c, j)
           q == Clipped(p + (c - 1) * d, u)
<1>1. p \in Int /\ p = l + (j * c) * d /\ (c - 1) * d \in Int
  BY DEF PartLower
<1> HIDE DEF p
<1>2. q \in Int /\ \A y \in Int : y <= q <=> y <= u /\ y <= p + (c - 1) * d
  BY <1>1 DEF Clipped
<1> HIDE DEF q
<1>3. x \in Part(l, u, d, c, j) <=> \E k \in Nat : x = p + k * d /\ x <= q
  <2>1. Part(l, u, d, c, j) = Iterations(p, q, d)
    BY DEF Part, p, q
  <2>2. x \in Iterations(p, q, d) <=> \E k \in Nat : x = p + k * d /\ x <= q
    <3>1. p \in Int /\ q \in Int
      BY <1>1, <1>2
    <3>2. QED
      BY <3>1, IterationsUp
  <2>3. QED
    BY <2>1, <2>2
<1>4. ASSUME NEW k \in Nat, x = p + k * d, x <= q
      PROVE  k \in 0..(c - 1) /\ x = l + (j * c + k) * d /\ x <= u
  <2>1. k * d \in Int /\ (j * c) * d \in Int /\ (j * c + k) * d = (j * c) * d + k * d
    OBVIOUS
  <2>2. x \in Int /\ x <= u /\ x <= p + (c - 1) * d
    BY <1>1, <1>2, <1>4, <2>1
  <2>3. k * d <= (c - 1) * d
    BY <1>1, <1>4, <2>1, <2>2
  <2>4. k * d < c * d
    BY <2>1, <2>3
  <2>5. k < c
    BY <2>4, MulLess
  <2>6. QED
    BY <1>1, <1>4, <2>1, <2>2, <2>5
<1>5. ASSUME NEW k \in 0..(c - 1), x = l + (j * c + k) * d, x <= u
      PROVE  k \in Nat /\ x = p + k * d /\ x <= q
  <2>1. k * d \in Int /\ (j * c) * d \in Int /\ (j * c + k) * d = (j * c) * d + k * d
    OBVIOUS
  <2>2. x = p + k * d /\ x \in Int
    BY <1>1, <1>5, <2>1
  <2>3. k * d <= (c - 1) * d
    <3>1. k \in Int /\ c - 1 \in Int /\ k <= c - 1 /\ d \in Nat
      OBVIOUS
    <3>2. QED
      BY <3>1, MulMono
  <2>4. x <= p + (c - 1) * d
    BY <1>1, <2>1, <2>2, <2>3
  <2>5. QED
    BY <1>2, <1>5, <2>2, <2>4
<1>6. QED
  BY <1>3, <1>4, <1>5

\* A piece is part of the loop, and pieces do not overlap.
LEMMA PiecesApart ==
  ASSUME NEW l \in Int, NEW u \in Int, NEW d \in Nat \ {0}, NEW c \in Nat \ {0},
         NEW i \in Nat, NEW j \in Nat, NEW x \in Part(l, u, d, c, i)
  PROVE  /\ x \in Iterations(l, u, d)
         /\ x \in Part(l, u, d, c, j) => i = j
<1>1. PICK k \in 0..(c - 1) : x = l + (i * c + k) * d /\ x <= u
  <2>1. x \in Part(l, u, d, c, i) <=> \E k \in 0..(c - 1) : x = l + (i * c + k) * d /\ x <= u
    BY InPiece
  <2>2. QED
    BY <2>1
<1>2. i * c + k \in Nat
  OBVIOUS
<1>3. x \in Iterations(l, u, d)
  BY <1>1, <1>2, IterationsUp
<1>4. ASSUME x \in Part(l, u, d, c, j) PROVE i = j
  <2>1. PICK m \in 0..(c - 1) : x = l + (j * c + m) * d /\ x <= u
    <3>1. x \in Part(l, u, d, c, j) <=> \E m \in 0..(c - 1) : x = l + (j * c + m) * d /\ x <= u
      BY InPiece
    <3>2. QED
      BY <1>4, <3>1
  <2> DEFINE a == i * c + k
             b == j * c + m
  <2>2. a \in Int /\ b \in Int
    OBVIOUS
  <2>3. a * d = b * d
    BY <1>1, <2>1, <2>2
  <2> HIDE DEF a, b
  <2>4. a = b
    <3>1. ~(a * d < b * d) /\ ~(b * d < a * d)
      BY <2>2, <2>3
    <3>2. a < b => a * d < b * d
      BY <2>2
    <3>3. b < a => b * d < a * d
      BY <2>2
    <3>4. QED
      BY <2>2, <3>1, <3>2, <3>3
  <2>5. c * i + k = c * j + m
    BY <2>4 DEF a, b
  <2>6. (c * i + k) \div c = i /\ (c * j + m) \div c = j
    <3>1. k \in Int /\ 0 <= k /\ k < c /\ m \in Int /\ 0 <= m /\ m < c /\ i \in Int /\ j \in Int
      OBVIOUS
    <3>2. (c * i + k) \div c = i
      BY <3>1, DivUnique
    <3>3. (c * j + m) \div c = j
      BY <3>1, DivUnique
    <3>4. QED
      BY <3>2, <3>3
  <2>7. QED
    BY <2>5, <2>6
<1>5. QED
  BY <1>3, <1>4

\* Every iteration is in a piece that begins in the loop.
LEMMA PiecesCover ==
  ASSUME NEW l \in Int, NEW u \in Int, NEW d \in Nat \ {0}, NEW c \in Nat \ {0},
         NEW x \in Iterations(l, u, d)
  PROVE  \E j \in Nat : /\ x \in Part(l, u, d, c, j)
                        /\ PartLower(l, d, c, j) <= x
<1>1. PICK n \in Nat : x = l + n * d /\ x <= u
  BY IterationsUp
<1> DEFINE j == n \div c
           k == n % c
<1>2. n = c * j + k
  BY DivMod
<1>3. j \in Int /\ k \in Int /\ 0 <= k /\ k < c
  BY DivMod
<1> HIDE DEF j, k
<1>4. j \in Nat
  <2>1. (j + 1) * c = c * j + c /\ (j + 1) * c \in Int
    BY <1>3
  <2>2. 0 * c < (j + 1) * c
    BY <1>2, <1>3, <2>1
  <2>3. 0 < j + 1
    BY <1>3, <2>2, MulLess
  <2>4. QED
    BY <1>3, <2>3
<1>5. n = j * c + k /\ k \in 0..(c - 1)
  BY <1>2, <1>3, <1>4
<1>6. x \in Part(l, u, d, c, j)
  BY <1>1, <1>4, <1>5, InPiece
<1>7. PartLower(l, d, c, j) <= x
  <2>1. (j * c + k) * d = j * (c * d) + k * d /\ k * d \in Nat /\ j * (c * d) \in Int
    BY <1>3, <1>4
  <2>2. QED
    BY <1>1, <1>5, <2>1 DEF PartLower
<1>8. QED
  BY <1>4, <1>6, <1>7

-----------------------------------------------------------------------------
(* StaticLoop.                                                             *)

\* What the loops of StaticLoop are, when they count up.
LEMMA ForwardLoop ==
  ASSUME Forward, NEW q \in Loop
  PROVE  /\ q.team_size \in Nat \ {0} /\ q.incr \in Nat \ {0} /\ q.chunk \in Nat \ {0}
         /\ q.schedule \in {"static", "chunked"}
         /\ q.schedule = "static" => q.chunk = 1
         /\ q.schedule = "chunked" => q.incr = 1
         /\ q.lower \in CInt /\ q.upper \in CInt /\ q.lower <= q.upper
         /\ (q.upper - q.lower) + q.incr <= IntMax
         /\ q.upper + (q.team_size + 1) * q.incr * q.chunk <= IntMax
         /\ (q.team_size + 1) * q.incr * q.chunk <= IntMax
<1>1. /\ q.team_size \in 1..MaxThreads /\ q.schedule \in {"static", "chunked"}
      /\ q.lower \in Lowers /\ q.upper \in CInt /\ q.incr \in Increments
      /\ q.chunk \in 1..MaxChunk
      /\ \E n \in 1..MaxTrip : q.upper = q.lower + (n - 1) * q.incr
      /\ q.schedule = "static" => q.chunk = 1
      /\ q.schedule = "chunked" => q.incr = 1
      /\ SafeUpper(q)
  BY DEF Loop
<1>2. q.incr > 0 /\ q.upper - q.lower + q.incr <= IntMax
  BY DEF Forward
<1>3. /\ q.team_size \in Nat \ {0} /\ q.incr \in Nat \ {0} /\ q.chunk \in Nat \ {0}
      /\ q.lower \in CInt /\ q.upper \in CInt
  <2>1. /\ MaxThreads \in Nat \ {0} /\ MaxChunk \in Nat \ {0}
        /\ Lowers \subseteq CInt /\ Increments \subseteq Int \ {0}
    BY ParametersAssumption
  <2>2. q.team_size \in Nat \ {0} /\ q.chunk \in Nat \ {0}
    <3>1. q.team_size \in 1..MaxThreads /\ q.chunk \in 1..MaxChunk
      BY <1>1
    <3>2. MaxThreads \in Int /\ MaxChunk \in Int
      BY <2>1
    <3>3. QED
      BY <3>1, <3>2
  <2>3. q.incr \in Nat \ {0}
    <3>1. q.incr \in Increments
      BY <1>1
    <3>2. q.incr \in Int
      BY <2>1, <3>1
    <3>3. q.incr > 0
      BY <1>2
    <3>4. QED
      BY <3>2, <3>3
  <2>4. q.lower \in CInt /\ q.upper \in CInt
    BY <1>1, <2>1
  <2>5. QED
    BY <2>2, <2>3, <2>4
<1>4. q.lower <= q.upper
  <2>1. PICK n \in 1..MaxTrip : q.upper = q.lower + (n - 1) * q.incr
    BY <1>1
  <2>2. n - 1 \in Nat
    BY ParametersAssumption
  <2>3. (n - 1) * q.incr \in Nat
    BY <1>3, <2>2
  <2>4. QED
    BY <1>3, <2>1, <2>3, IntMaxAssumption DEF CInt
<1>5. Magnitude(q.incr) = q.incr /\ Magnitude(q.upper) \in Nat
      /\ q.upper <= Magnitude(q.upper)
  BY <1>3, IntMaxAssumption DEF Magnitude, CInt
<1>6. (q.team_size + 1) * q.incr * q.chunk \in Nat
  BY <1>3
<1>7. Magnitude(q.upper) + (q.team_size + 1) * q.incr * q.chunk <= IntMax
  BY <1>1, <1>5 DEF SafeUpper
<1>8. QED
  BY <1>1, <1>2, <1>3, <1>4, <1>5, <1>6, <1>7, IntMaxAssumption DEF CInt

\* The pieces of StaticLoop are those above, and omp_static_init gives thread
\* number i the piece of that number.
LEMMA StaticPieces ==
  ASSUME Forward, loop \in Loop
  PROVE  /\ PieceSize \in Nat \ {0}
         /\ \A j \in Nat :
              /\ PieceLower(j) = PartLower(loop.lower, loop.incr, PieceSize, j)
              /\ PieceLower(j) \in Int /\ PieceUpper(j) \in Int
              /\ Piece(j) =
                   Part(loop.lower, loop.upper, loop.incr, PieceSize, j)
         /\ loop.schedule = "chunked" => PieceSize = loop.chunk
         /\ loop.schedule = "static" =>
              /\ loop.upper - loop.lower < PieceSize * loop.team_size * loop.incr
              /\ \A i \in Team :
                   StaticInit(i, loop.team_size, loop.lower, loop.upper, loop.incr) =
                     [lower |-> PieceLower(i),
                      upper |-> Clipped(PieceUpper(i), loop.upper)]
<1> DEFINE l == loop.lower
           u == loop.upper
           d == loop.incr
           n == loop.team_size
           b == BlockRest(l, u, d, n)
<1>1. /\ n \in Nat \ {0} /\ d \in Nat \ {0} /\ loop.chunk \in Nat \ {0}
      /\ loop.schedule \in {"static", "chunked"}
      /\ loop.schedule = "static" => loop.chunk = 1
      /\ l \in CInt /\ u \in CInt /\ l <= u
      /\ (u - l) + d <= IntMax /\ u + (n + 1) * d * loop.chunk <= IntMax
  BY ForwardLoop
<1>2. l \in Int /\ u \in Int
  BY <1>1, IntMaxAssumption DEF CInt
<1>3. ASSUME loop.schedule = "static"
      PROVE  /\ PieceSize = b + 1 /\ b \in Nat
             /\ u - l < (b + 1) * n * d
             /\ \A i \in 0..(n - 1) :
                  StaticInit(i, n, l, u, d) =
                    [lower |-> l + i * ((b + 1) * d),
                     upper |-> Clipped(l + i * ((b + 1) * d) + b * d, u)]
  <2>1. Fits(l, u, d, n)
    <3>1. (n + 1) * d * loop.chunk = n * d + d /\ n * d \in Int
      BY <1>1, <1>3
    <3>2. u + n * d <= IntMax
      BY <1>1, <1>2, <3>1, IntMaxAssumption
    <3>3. QED
      BY <1>1, <3>2 DEF Fits
  <2>2. PieceSize = b + 1
    <3>1. Trip = TripCount(l, u, d)
      BY DEF Trip
    <3>2. Adjustment(Trip, n) = Adjustment(Trip, n)
      BY DEF Adjustment, Adjustment
    <3>3. QED
      BY <1>3, <3>1, <3>2 DEF PieceSize, BlockRest
  <2> HIDE DEF b
  <2>3. QED
    <3>1. b = BlockRest(l, u, d, n)
      BY DEF b
    <3>2. QED
      BY <2>1, <2>2, <3>1, StaticBlocks
<1> HIDE DEF b
<1>4. loop.schedule = "chunked" => PieceSize = loop.chunk
  BY DEF PieceSize
<1>5. PieceSize \in Nat \ {0}
  BY <1>1, <1>3, <1>4
<1>6. ASSUME NEW j \in Nat
      PROVE  /\ PieceLower(j) = PartLower(l, d, PieceSize, j)
             /\ PieceLower(j) \in Int /\ PieceUpper(j) \in Int
             /\ Piece(j) = Part(l, u, d, PieceSize, j)
  <2>1. PieceLower(j) = PartLower(l, d, PieceSize, j)
    BY DEF PieceLower, PartLower
  <2>2. PieceLower(j) \in Int /\ (PieceSize - 1) * d \in Int
    BY <1>1, <1>2, <1>5 DEF PieceLower
  <2>3. PieceUpper(j) = PieceLower(j) + (PieceSize - 1) * d
    BY DEF PieceUpper
  <2>4. Clipped(PieceUpper(j), u) =
          Clipped(PartLower(l, d, PieceSize, j) + (PieceSize - 1) * d, u)
    BY <2>1, <2>3
  <2>5. Piece(j) = Part(l, u, d, PieceSize, j)
    BY <2>1, <2>4 DEF Piece, Part
  <2>6. QED
    BY <2>1, <2>2, <2>3, <2>5
<1>7. ASSUME loop.schedule = "static", NEW i \in Team
      PROVE  StaticInit(i, n, l, u, d) =
               [lower |-> PieceLower(i),
                upper |-> Clipped(PieceUpper(i), u)]
  <2>1. i \in 0..(n - 1)
    BY <1>7 DEF Team
  <2>2. PieceSize = b + 1 /\ b \in Nat /\ PieceSize - 1 = b
    BY <1>3, <1>7
  <2>3. PieceLower(i) = l + i * ((b + 1) * d)
    BY <2>2 DEF PieceLower
  <2>4. PieceUpper(i) = l + i * ((b + 1) * d) + b * d
    BY <2>2, <2>3 DEF PieceUpper
  <2>5. StaticInit(i, n, l, u, d) =
          [lower |-> l + i * ((b + 1) * d),
           upper |-> Clipped(l + i * ((b + 1) * d) + b * d, u)]
    BY <1>3, <1>7, <2>1
  <2>6. QED
    BY <2>3, <2>4, <2>5
<1>8. QED
  BY <1>3, <1>4, <1>5, <1>6, <1>7

\* The chunk a thread goes on to is n further.
LEMMA NextOwnPiece ==
  ASSUME NEW n \in Nat \ {0}, NEW c \in Nat \ {0}, NEW k \in Nat, NEW i \in 0..(n - 1),
         NEW m \in Nat, m % n = i
  PROVE  m * c < (k * n + i) * c + c * n <=> m * c < (k * n + i) * c \/ m = k * n + i
<1> DEFINE q == m \div n
           j == k * n + i
<1>1. q \in Int /\ m = n * q + i
  BY DivMod
<1> HIDE DEF q
<1>2. j \in Nat /\ (k + 1) * n = k * n + n /\ k * n \in Nat
  OBVIOUS
<1>3. (j + n) * c = j * c + c * n /\ j * c \in Int /\ m * c \in Int /\ j + n \in Int
  BY <1>2
<1>4. m < j + n => m <= j
  <2>1. SUFFICES ASSUME m < j + n PROVE m <= j
    OBVIOUS
  <2>2. q * n < (k + 1) * n
    BY <1>1, <1>2, <2>1
  <2>3. q < k + 1
    BY <1>1, <2>2, MulLess
  <2>4. q <= k
    BY <1>1, <2>3
  <2>5. q * n <= k * n
    BY <1>1, <2>4, MulMono
  <2>6. QED
    BY <1>1, <1>2, <2>5
<1>5. m * c < (j + n) * c => m < j + n
  BY <1>2, <1>3, MulLess
<1>6. m < j => m * c < j * c
  BY <1>2
<1>7. m <= j => m * c <= j * c
  BY <1>2
<1>8. j * c < (j + n) * c
  BY <1>2
<1> HIDE DEF j
<1>9. m * c < (j + n) * c <=> m * c < j * c \/ m = j
  BY <1>2, <1>3, <1>4, <1>5, <1>6, <1>7, <1>8
<1>10. QED
  BY <1>3, <1>9 DEF j

LEMMA StaticInitial ==
  ASSUME Forward, StaticBegin
  PROVE  StaticInv
<1>1. /\ loop \in Loop
      /\ stage = [i \in Team |-> "init"]
      /\ p_lower = [i \in Team |-> loop.lower]
      /\ p_upper = [i \in Team |-> loop.upper]
      /\ p_stride = [i \in Team |-> loop.incr]
      /\ run_count = [x \in CInt |-> 0]
  BY DEF StaticBegin
<1>2. /\ loop.lower \in Int /\ loop.upper \in Int /\ loop.incr \in Int
      /\ loop.team_size \in Nat \ {0}
  BY <1>1, ForwardLoop, IntMaxAssumption DEF CInt
<1>3. StaticType
  BY <1>1, <1>2 DEF StaticType
<1>4. AtPiece
  BY <1>1 DEF AtPiece
<1>5. PiecesRun = {}
  <2>1. SUFFICES ASSUME NEW j \in PiecesRun PROVE FALSE
    OBVIOUS
  <2>2. j \in 0..IntMax
    BY <2>1 DEF PiecesRun
  <2>3. CASE loop.schedule = "static"
    BY <1>1, <2>1, <2>3 DEF PiecesRun
  <2>4. CASE loop.schedule # "static"
    <3>1. stage[j % loop.team_size] # "init"
      BY <2>1, <2>4 DEF PiecesRun
    <3>2. j % loop.team_size \in Team
      <4>1. j \in Int
        BY <2>2
      <4>2. QED
        BY <1>2, <4>1, DivMod DEF Team
    <3>3. QED
      BY <1>1, <3>1, <3>2
  <2>5. QED
    BY <2>3, <2>4
<1>6. PiecesExact
  BY <1>1, <1>5 DEF PiecesExact
<1>7. QED
  BY <1>3, <1>4, <1>6 DEF StaticInv

\* What running piece j does to PiecesExact.
LEMMA ExecutePiece ==
  ASSUME Forward, loop \in Loop, PiecesExact,
         loop' = loop, NEW j \in Nat, j \notin PiecesRun,
         run_count' = RunAll(Piece(j)),
         PiecesRun' = PiecesRun \cup {j}
  PROVE  PiecesExact'
<1> DEFINE P(k) == Part(loop.lower, loop.upper, loop.incr, PieceSize, k)
<1>1. /\ PieceSize \in Nat \ {0}
      /\ \A k \in Nat : Piece(k) = P(k)
  BY StaticPieces
<1>2. /\ loop.lower \in Int /\ loop.upper \in Int /\ loop.incr \in Nat \ {0}
  BY ForwardLoop, IntMaxAssumption DEF CInt
<1>3. PiecesRun \in SUBSET Nat
  BY IntMaxAssumption DEF PiecesRun
<1>4. \A k \in Nat : Piece(k)' = P(k)
  <2>1. \A k : Piece(k)' = Piece(k)
    BY DEF Piece, PieceLower, PieceUpper, PieceSize, Trip
  <2>2. QED
    BY <1>1, <2>1
<1>5. ASSUME NEW x \in CInt
      PROVE  run_count'[x] = IF \E k \in PiecesRun' : x \in Piece(k)' THEN 1 ELSE 0
  <2>1. run_count[x] = IF \E k \in PiecesRun : x \in P(k) THEN 1 ELSE 0
    <3>1. run_count[x] = IF \E k \in PiecesRun : x \in Piece(k) THEN 1 ELSE 0
      BY DEF PiecesExact
    <3>2. \A k \in PiecesRun : Piece(k) = P(k)
      BY <1>1, <1>3
    <3>3. QED
      BY <3>1, <3>2
  <2>2. run_count'[x] = run_count[x] + IF x \in P(j) THEN 1 ELSE 0
    <3>1. run_count'[x] = run_count[x] + IF x \in Piece(j) THEN 1 ELSE 0
      BY DEF RunAll
    <3>2. QED
      BY <1>1, <3>1
  <2>3. \A k \in PiecesRun : ~(x \in P(k) /\ x \in P(j))
    <3>1. SUFFICES ASSUME NEW k \in PiecesRun, x \in P(k) PROVE x \notin P(j)
      OBVIOUS
    <3>2. k \in Nat /\ k # j
      BY <1>3
    <3>3. x \in P(j) => k = j
      BY <1>1, <1>2, <3>1, <3>2, PiecesApart
    <3>4. QED
      BY <3>2, <3>3
  <2>4. \A k \in PiecesRun' : Piece(k)' = P(k)
    BY <1>3, <1>4
  <2> HIDE DEF P
  <2>5. CASE x \in P(j)
    <3>1. run_count[x] = 0
      BY <2>1, <2>3, <2>5
    <3>2. run_count'[x] = 1
      BY <2>2, <2>5, <3>1
    <3>3. \E k \in PiecesRun' : x \in Piece(k)'
      BY <2>4, <2>5
    <3>4. QED
      BY <3>2, <3>3
  <2>6. CASE x \notin P(j)
    <3>1. run_count'[x] = run_count[x]
      BY <2>1, <2>2, <2>6
    <3>2. (\E k \in PiecesRun' : x \in Piece(k)') <=> \E k \in PiecesRun : x \in P(k)
      BY <2>4, <2>6
    <3>3. QED
      BY <2>1, <3>1, <3>2
  <2>7. QED
    BY <2>5, <2>6
<1>6. QED
  BY <1>5 DEF PiecesExact, CInt

LEMMA StaticStep ==
  ASSUME Forward, StaticInv, [StaticNext]_static_vars
  PROVE  StaticInv'
<1> DEFINE l == loop.lower
           u == loop.upper
           d == loop.incr
           n == loop.team_size
           c == PieceSize
<1>1. StaticType /\ AtPiece /\ PiecesExact /\ loop \in Loop
  BY DEF StaticInv, StaticType
<1>2. /\ n \in Nat \ {0} /\ d \in Nat \ {0} /\ loop.chunk \in Nat \ {0}
      /\ loop.schedule \in {"static", "chunked"}
      /\ loop.schedule = "chunked" => d = 1
      /\ l \in Int /\ u \in Int /\ l <= u /\ u <= IntMax /\ -IntMax - 1 <= l
      /\ (u - l) + d <= IntMax
      /\ u + (n + 1) * d * loop.chunk <= IntMax /\ (n + 1) * d * loop.chunk <= IntMax
  BY <1>1, ForwardLoop, IntMaxAssumption DEF CInt
<1>3. /\ c \in Nat \ {0}
      /\ \A j \in Nat : PieceLower(j) \in Int /\ PieceUpper(j) \in Int
      /\ loop.schedule = "chunked" => c = loop.chunk
  BY <1>1, StaticPieces
<1>4. /\ n <= IntMax
      /\ \A i \in Team : i \in Nat /\ i < n /\ i <= IntMax
  <2>1. n <= (n + 1) * d * loop.chunk
    <3> DEFINE e == d * loop.chunk
    <3>1. e \in Nat \ {0} /\ (n + 1) * d * loop.chunk = (n + 1) * e
      BY <1>2
    <3> HIDE DEF e
    <3>2. n + 1 <= (n + 1) * e /\ (n + 1) * e \in Int
      BY <1>2, <3>1
    <3>3. QED
      BY <1>2, <3>1, <3>2
  <2>2. (n + 1) * d * loop.chunk \in Int
    BY <1>2
  <2>3. n <= IntMax
    BY <1>2, <2>1, <2>2, IntMaxAssumption
  <2>4. QED
    BY <1>2, <2>3, IntMaxAssumption DEF Team
<1>5. /\ stage \in [Team -> {"init", "block", "done"}]
      /\ p_lower \in [Team -> Int] /\ p_upper \in [Team -> Int]
      /\ p_stride \in [Team -> Int] /\ run_count \in [CInt -> Nat]
  BY <1>1 DEF StaticType
<1>6. ASSUME loop' = loop
      PROVE  /\ Team' = Team /\ PieceSize' = c
             /\ \A j : /\ PieceLower(j)' = PieceLower(j)
                       /\ PieceUpper(j)' = PieceUpper(j)
                       /\ Piece(j)' = Piece(j)
  BY <1>6 DEF Team, PieceSize, Trip, PieceLower,
              PieceUpper, Piece
\* The owner of a piece.
<1>7. ASSUME NEW j \in Nat PROVE j % n \in Team
  <2>1. n \in Nat \ {0} /\ j \in Int
    BY <1>2, <1>7
  <2>2. j % n \in Int /\ 0 <= j % n /\ j % n < n
    BY <2>1, DivMod
  <2>3. QED
    BY <2>1, <2>2 DEF Team
\* As long as no piece is run.
<1>8. ASSUME loop' = loop, run_count' = run_count, PiecesRun' = PiecesRun
      PROVE  PiecesExact'
  BY <1>1, <1>6, <1>8 DEF PiecesExact, CInt
<1>9. ASSUME UNCHANGED static_vars PROVE StaticInv'
  <2>1. /\ loop' = loop /\ stage' = stage /\ run_count' = run_count
        /\ p_lower' = p_lower /\ p_upper' = p_upper /\ p_stride' = p_stride
    BY <1>9 DEF static_vars
  <2>2. StaticType'
    BY <1>1, <1>6, <2>1 DEF StaticType, CInt, Loop, SafeUpper
  <2>3. AtPiece'
    BY <1>1, <1>6, <2>1 DEF AtPiece, Clipped
  <2>4. PiecesRun' = PiecesRun
    BY <1>6, <2>1 DEF PiecesRun
  <2>5. QED
    BY <1>8, <2>1, <2>2, <2>3, <2>4 DEF StaticInv
<1>10. ASSUME NEW i \in Team, InitStatic(i) PROVE StaticInv'
  <2>1. /\ stage[i] = "init" /\ loop.schedule = "static"
        /\ p_lower' = [p_lower EXCEPT ![i] = StaticInit(i, n, l, u, d).lower]
        /\ p_upper' = [p_upper EXCEPT ![i] = StaticInit(i, n, l, u, d).upper]
        /\ stage' = [stage EXCEPT ![i] = "block"]
        /\ loop' = loop /\ p_stride' = p_stride /\ run_count' = run_count
    BY <1>10 DEF InitStatic
  <2>2. StaticInit(i, n, l, u, d) =
          [lower |-> PieceLower(i), upper |-> Clipped(PieceUpper(i), u)]
    BY <1>1, <2>1, StaticPieces
  <2>3. /\ p_lower' = [p_lower EXCEPT ![i] = PieceLower(i)]
        /\ p_upper' = [p_upper EXCEPT ![i] = Clipped(PieceUpper(i), u)]
    BY <2>1, <2>2
  <2>4. PieceLower(i) \in Int /\ Clipped(PieceUpper(i), u) \in Int
    BY <1>2, <1>3, <1>4 DEF Clipped
  <2>5. StaticType'
    <3>1. stage' \in [Team -> {"init", "block", "done"}]
      BY <1>5, <2>1
    <3>2. p_lower' \in [Team -> Int] /\ p_upper' \in [Team -> Int]
      BY <1>5, <2>3, <2>4
    <3>3. loop' \in Loop /\ p_stride' \in [Team -> Int] /\ run_count' \in [CInt -> Nat]
      BY <1>1, <1>5, <2>1
    <3>4. QED
      BY <1>6, <2>1, <3>1, <3>2, <3>3 DEF StaticType, CInt, Loop, SafeUpper
  <2>6. AtPiece'
    <3>1. \A k \in Team :
            stage'[k] = "block" =>
              p_lower'[k] = PieceLower(k) /\ p_upper'[k] = Clipped(PieceUpper(k), u)
      BY <1>1, <1>5, <2>1, <2>3 DEF AtPiece
    <3>2. Clipped(0, 0)' = Clipped(0, 0)
      BY DEF Clipped
    <3>3. QED
      BY <1>6, <2>1, <3>1 DEF AtPiece, Clipped
  <2>7. PiecesRun' = PiecesRun
    <3>1. \A k \in Team : stage'[k] = "done" <=> stage[k] = "done"
      BY <1>5, <2>1
    <3>2. QED
      BY <1>6, <2>1, <3>1 DEF PiecesRun
  <2>8. QED
    BY <1>8, <2>1, <2>5, <2>6, <2>7 DEF StaticInv
<1>11. ASSUME NEW i \in Team, InitChunked(i) PROVE StaticInv'
  <2>1. /\ stage[i] = "init" /\ loop.schedule = "chunked"
        /\ p_lower' = [p_lower EXCEPT ![i] = StaticInitChunked(i, n, l, d, loop.chunk).lower]
        /\ p_upper' = [p_upper EXCEPT ![i] = StaticInitChunked(i, n, l, d, loop.chunk).upper]
        /\ p_stride' = [p_stride EXCEPT ![i] = StaticInitChunked(i, n, l, d, loop.chunk).stride]
        /\ stage' = [stage EXCEPT ![i] = "block"]
        /\ loop' = loop /\ run_count' = run_count
    BY <1>11 DEF InitChunked
  <2>2. d = 1 /\ c = loop.chunk
    BY <1>2, <1>3, <2>1
  <2>3. i * c \in Nat /\ i * c <= n * c - c /\ (n + 1) * d * loop.chunk = n * c + c /\ n * c \in Nat
    <3>1. i <= n - 1 /\ i \in Int /\ n - 1 \in Int
      BY <1>2, <1>4
    <3>2. i * c <= (n - 1) * c
      BY <1>3, <3>1, MulMono
    <3>3. (n - 1) * c = n * c - c /\ n * c \in Nat
      BY <1>2, <1>3
    <3>4. QED
      BY <1>2, <1>3, <1>4, <2>2, <3>2, <3>3
  <2>4. l + i * c \in CInt /\ l + i * c + c - 1 \in CInt /\ c * n \in CInt
    <3>1. c * n = n * c /\ n * c \in Int
      BY <1>2, <1>3
    <3>2. QED
      BY <1>2, <1>3, <2>3, <3>1, IntMaxAssumption DEF CInt
  <2>5. /\ p_lower' = [p_lower EXCEPT ![i] = l + i * c]
        /\ p_upper' = [p_upper EXCEPT ![i] = l + i * c + c - 1]
        /\ p_stride' = [p_stride EXCEPT ![i] = c * n]
    <3>1. i * d * loop.chunk = i * c /\ d * loop.chunk = c /\ d * loop.chunk * n = c * n
      BY <1>3, <1>4, <2>2
    <3>2. Wrap(l + i * c) = l + i * c
      BY <2>4, WrapId
    <3>3. Wrap(l + i * c + c - 1) = l + i * c + c - 1 /\ Wrap(c * n) = c * n
      BY <2>4, WrapId
    <3>4. StaticInitChunked(i, n, l, d, loop.chunk) =
            [lower |-> l + i * c, upper |-> l + i * c + c - 1, stride |-> c * n]
      BY <3>1, <3>2, <3>3 DEF StaticInitChunked
    <3>5. QED
      BY <2>1, <3>4
  <2>6. l + i * c = PieceLower(0 * n + i)
    <3>1. 0 * n + i = i /\ i * (c * d) = i * c
      BY <1>2, <1>3, <1>4, <2>2
    <3>2. QED
      BY <3>1 DEF PieceLower
  <2>7. StaticType'
    <3>1. stage' \in [Team -> {"init", "block", "done"}]
      BY <1>5, <2>1
    <3>2. /\ p_lower' \in [Team -> Int] /\ p_upper' \in [Team -> Int]
          /\ p_stride' \in [Team -> Int]
      <4>1. l + i * c \in Int /\ l + i * c + c - 1 \in Int /\ c * n \in Int
        BY <1>2, <1>3, <2>3
      <4>2. QED
        BY <1>5, <2>5, <4>1
    <3>3. loop' \in Loop /\ run_count' \in [CInt -> Nat]
      BY <1>1, <1>5, <2>1
    <3>4. QED
      BY <1>6, <2>1, <3>1, <3>2, <3>3 DEF StaticType, CInt, Loop, SafeUpper
  <2>8. AtPiece'
    <3>1. ASSUME NEW k \in Team, stage'[k] # "init"
          PROVE  /\ p_stride'[k] = c * n
                 /\ \E m \in 0..IntMax : p_lower'[k] = PieceLower(m * n + k)
                 /\ p_upper'[k] = p_lower'[k] + c - 1
      <4>1. CASE k = i
        <5>1. /\ p_stride'[i] = c * n /\ p_upper'[i] = p_lower'[i] + c - 1
              /\ p_lower'[i] = PieceLower(0 * n + i)
          BY <1>5, <2>5, <2>6
        <5>2. 0 \in 0..IntMax
          BY IntMaxAssumption
        <5>3. QED
          BY <4>1, <5>1, <5>2
      <4>2. CASE k # i
        BY <1>1, <1>5, <2>1, <2>5, <3>1, <4>2 DEF AtPiece
      <4>3. QED
        BY <4>1, <4>2
    <3>2. \A k \in Team : stage'[k] = "done" => p_lower'[k] > u
      BY <1>1, <1>5, <2>1, <2>5 DEF AtPiece
    <3>3. QED
      BY <1>6, <2>1, <3>1, <3>2 DEF AtPiece
  <2>9. PiecesRun' = PiecesRun
    <3>1. ASSUME NEW j \in 0..IntMax
          PROVE  stage'[j % n] # "init" /\ PieceLower(j) < p_lower'[j % n]
                   <=> stage[j % n] # "init" /\ PieceLower(j) < p_lower[j % n]
      <4>1. j \in Nat /\ j % n \in Team
        BY <1>7, IntMaxAssumption
      <4>2. CASE j % n # i
        BY <1>5, <2>1, <2>5, <4>1, <4>2
      <4>3. CASE j % n = i
        <5>1. i <= j
          <6>1. j = n * (j \div n) + i /\ j \div n \in Int
            <7>1. n \in Nat \ {0} /\ j \in Int
              BY <1>2, <4>1
            <7>2. j = n * (j \div n) + (j % n) /\ j \div n \in Int
              BY <7>1, DivMod
            <7>3. QED
              BY <4>3, <7>2
          <6>2. i \in Int /\ i < n
            BY <1>4
          <6> DEFINE q == j \div n
          <6> HIDE DEF q
          <6>3. j = q * n + i /\ q \in Int
            BY <1>2, <6>1, <6>2 DEF q
          <6>4. (q + 1) * n = q * n + n /\ q * n \in Int
            BY <1>2, <6>3
          <6>5. 0 * n < (q + 1) * n
            BY <1>2, <4>1, <6>2, <6>3, <6>4
          <6>6. 0 < q + 1
            BY <1>2, <6>3, <6>5, MulLess
          <6>7. 0 * n <= q * n
            BY <1>2, <6>3, <6>6, MulMono
          <6>8. QED
            BY <1>2, <4>1, <6>2, <6>3, <6>4, <6>7
        <5>2. i * c <= j * c
          BY <1>3, <1>4, <4>1, <5>1, MulMono
        <5>3. j * (c * d) = j * c /\ j * c \in Int
          BY <1>3, <2>2, <4>1
        <5>4. PieceLower(j) = l + j * c
          BY <5>3 DEF PieceLower
        <5>5. ~(PieceLower(j) < p_lower'[i])
          BY <1>2, <1>5, <2>3, <2>5, <5>2, <5>3, <5>4
        <5>6. QED
          BY <2>1, <4>3, <5>5
      <4>4. QED
        BY <4>2, <4>3
    <3>2. QED
      BY <1>6, <2>1, <3>1 DEF PiecesRun
  <2>10. QED
    BY <1>8, <2>1, <2>7, <2>8, <2>9 DEF StaticInv
<1>12. ASSUME NEW i \in Team, RunBlock(i) PROVE StaticInv'
  <2>1. stage[i] = "block" /\ loop' = loop /\ p_stride' = p_stride
    BY <1>12 DEF RunBlock
  <2>2. CASE /\ loop.schedule = "static"
             /\ run_count' = RunAll(Iterations(p_lower[i], p_upper[i], d))
             /\ stage' = [stage EXCEPT ![i] = "done"]
             /\ p_lower' = p_lower /\ p_upper' = p_upper
    <3>1. p_lower[i] = PieceLower(i) /\ p_upper[i] = Clipped(PieceUpper(i), u)
      BY <1>1, <2>1, <2>2 DEF AtPiece
    <3>2. run_count' = RunAll(Piece(i))
      BY <2>2, <3>1 DEF Piece
    <3>3. StaticType'
      <4>1. run_count' \in [CInt -> Nat]
        BY <1>5, <3>2 DEF RunAll
      <4>2. stage' \in [Team -> {"init", "block", "done"}]
        BY <1>5, <2>2
      <4>3. QED
        BY <1>1, <1>5, <1>6, <2>1, <2>2, <4>1, <4>2
           DEF StaticType, CInt, Loop, SafeUpper
    <3>4. AtPiece'
      <4>1. \A k \in Team : stage'[k] = "block" => stage[k] = "block"
        BY <1>5, <2>1, <2>2
      <4>2. QED
        BY <1>1, <1>6, <2>1, <2>2, <4>1 DEF AtPiece, Clipped
    <3>5. i \in Nat /\ i \notin PiecesRun
      <4>1. i \in PiecesRun => stage[i] = "done"
        BY <2>2 DEF PiecesRun
      <4>2. QED
        BY <1>4, <2>1, <4>1
    <3>6. PiecesRun' = PiecesRun \cup {i}
      <4>1. i \in 0..IntMax
        BY <1>4, IntMaxAssumption
      <4>2. \A k \in Team : stage'[k] = "done" <=> stage[k] = "done" \/ k = i
        BY <1>5, <2>2
      <4>3. PiecesRun = {j \in 0..IntMax : j \in Team /\ stage[j] = "done"}
        BY <2>2 DEF PiecesRun
      <4>4. PiecesRun' = {j \in 0..IntMax : j \in Team /\ stage'[j] = "done"}
        BY <1>6, <2>1, <2>2 DEF PiecesRun
      <4>5. QED
        BY <4>1, <4>2, <4>3, <4>4
    <3>7. PiecesExact'
      BY <1>1, <2>1, <3>2, <3>5, <3>6, ExecutePiece
    <3>8. QED
      BY <3>3, <3>4, <3>7 DEF StaticInv
  <2>3. CASE /\ loop.schedule = "chunked" /\ p_lower[i] <= u
             /\ run_count' = RunAll(p_lower[i]..Clipped(p_upper[i], u))
             /\ p_lower' = [p_lower EXCEPT ![i] = @ + p_stride[i]]
             /\ p_upper' = [p_upper EXCEPT ![i] = @ + p_stride[i]]
             /\ stage' = stage
    <3>1. /\ p_stride[i] = c * n /\ p_upper[i] = p_lower[i] + c - 1
          /\ \E m \in 0..IntMax : p_lower[i] = PieceLower(m * n + i)
      BY <1>1, <2>1, <2>3 DEF AtPiece
    <3>2. PICK m \in 0..IntMax : p_lower[i] = PieceLower(m * n + i)
      BY <3>1
    <3> DEFINE j == m * n + i
    <3>3. d = 1 /\ c * d = c /\ m \in Nat /\ j \in Nat /\ j * c \in Nat /\ m * n \in Nat
      <4>1. m \in Nat /\ i \in Nat
        BY <1>4, IntMaxAssumption
      <4>2. m * n \in Nat /\ j \in Nat
        BY <1>2, <4>1
      <4> HIDE DEF j
      <4>3. j * c \in Nat
        BY <1>3, <4>2
      <4>4. d = 1
        BY <1>2, <2>3
      <4>5. c * d = c
        BY <1>3, <4>4
      <4>6. QED
        BY <4>1, <4>2, <4>3, <4>4, <4>5
    <3>4. p_lower[i] = l + j * c /\ p_upper[i] = PieceUpper(j)
      <4>1. p_lower[i] = l + j * c
        BY <3>2, <3>3 DEF PieceLower
      <4>2. PieceUpper(j) = l + j * c + (c - 1)
        BY <1>3, <3>3, <3>2, <4>1 DEF PieceUpper
      <4>3. QED
        BY <1>2, <1>3, <3>1, <3>3, <4>1, <4>2
    <3>5. j <= u - l /\ j \in 0..IntMax /\ m + 1 \in 0..IntMax
      <4>1. j <= j * c
        BY <1>3, <3>3
      <4>2. m <= m * n
        BY <1>2, <3>3
      <4>3. m <= j
        BY <1>4, <3>3, <4>2
      <4>4. j <= u - l
        BY <1>2, <2>3, <3>3, <3>4, <4>1
      <4>5. QED
        BY <1>2, <3>3, <4>3, <4>4, IntMaxAssumption
    <3>6. j % n = i
      <4>1. j = n * m + i
        BY <1>2, <3>3
      <4>2. (n * m + i) % n = i
        <5>1. i \in Int /\ 0 <= i /\ i < n /\ m \in Int
          BY <1>4, <3>3
        <5>2. QED
          BY <1>2, <5>1, DivUnique
      <4>3. QED
        BY <4>1, <4>2
    <3>7. p_lower'[i] = PieceLower((m + 1) * n + i) /\ p_lower'[i] = l + j * c + c * n
      <4>1. p_lower'[i] = l + j * c + c * n
        BY <1>5, <2>3, <3>1, <3>4
      <4>2. ((m + 1) * n + i) * c = j * c + c * n
        BY <1>2, <1>3, <1>4, <3>3
      <4>3. PieceLower((m + 1) * n + i) = l + ((m + 1) * n + i) * c
        BY <3>3 DEF PieceLower
      <4>4. QED
        <5>1. j * c \in Int /\ c * n \in Int
          BY <1>2, <1>3, <3>3
        <5>2. QED
          BY <1>2, <4>1, <4>2, <4>3, <5>1
    <3>8. run_count' = RunAll(Piece(j))
      <4>1. Piece(j) = Iterations(p_lower[i], Clipped(p_upper[i], u), 1)
        BY <3>2, <3>3, <3>4 DEF Piece
      <4>2. p_lower[i] \in Int /\ Clipped(p_upper[i], u) \in Int
        BY <1>2, <1>5 DEF Clipped
      <4>3. ASSUME NEW a \in Int, NEW b \in Int PROVE Iterations(a, b, 1) = a..b
        <5>1. \A x \in a..b : (x - a) % 1 = 0
          OBVIOUS
        <5>2. QED
          BY <5>1 DEF Iterations, Magnitude
      <4>4. QED
        BY <2>3, <4>1, <4>2, <4>3
    <3>9. StaticType'
      <4>1. run_count' \in [CInt -> Nat]
        BY <1>5, <3>8 DEF RunAll
      <4>2. p_lower[i] + p_stride[i] \in Int /\ p_upper[i] + p_stride[i] \in Int
        BY <1>5
      <4>3. p_lower' \in [Team -> Int] /\ p_upper' \in [Team -> Int]
        BY <1>5, <2>3, <4>2
      <4>4. QED
        BY <1>1, <1>5, <1>6, <2>1, <2>3, <4>1, <4>3
           DEF StaticType, CInt, Loop, SafeUpper
    <3>10. AtPiece'
      <4>1. ASSUME NEW k \in Team, stage[k] # "init"
            PROVE  /\ p_stride[k] = c * n
                   /\ \E q \in 0..IntMax : p_lower'[k] = PieceLower(q * n + k)
                   /\ p_upper'[k] = p_lower'[k] + c - 1
        <5>1. CASE k = i
          <6>1. p_upper'[i] = p_upper[i] + p_stride[i] /\ p_lower'[i] = p_lower[i] + p_stride[i]
            BY <1>5, <2>3
          <6>2. p_upper'[i] = p_lower'[i] + c - 1
            BY <1>3, <1>5, <3>1, <6>1
          <6>3. QED
            BY <3>1, <3>5, <3>7, <5>1, <6>2
        <5>2. CASE k # i
          BY <1>1, <1>5, <2>3, <4>1, <5>2 DEF AtPiece
        <5>3. QED
          BY <5>1, <5>2
      <4>2. \A k \in Team : stage[k] = "done" => p_lower'[k] > u
        BY <1>1, <1>5, <2>1, <2>3 DEF AtPiece
      <4>3. QED
        BY <1>6, <2>1, <2>3, <4>1, <4>2 DEF AtPiece
    <3>11. \A k \in 0..IntMax : PieceLower(k) = l + k * c
      BY <3>3 DEF PieceLower
    <3>12. j \in Nat /\ j \notin PiecesRun
      <4>1. j \in PiecesRun => PieceLower(j) < p_lower[j % n]
        BY <2>3 DEF PiecesRun
      <4>2. ~(l + j * c < p_lower[i])
        BY <1>2, <3>3, <3>4
      <4>3. QED
        BY <3>3, <3>5, <3>6, <3>11, <4>1, <4>2
    <3>13. PiecesRun' = PiecesRun \cup {j}
      <4>1. ASSUME NEW k \in 0..IntMax
            PROVE  stage[k % n] # "init" /\ PieceLower(k) < p_lower'[k % n]
                     <=> (stage[k % n] # "init" /\ PieceLower(k) < p_lower[k % n]) \/ k = j
        <5>1. k \in Nat /\ k % n \in Team
          BY <1>7, IntMaxAssumption
        <5>2. CASE k % n # i
          BY <1>5, <2>3, <3>6, <5>1, <5>2
        <5>3. CASE k % n = i
          <6>1. i \in 0..(n - 1)
            BY DEF Team
          <6>2. k * c < (m * n + i) * c + c * n <=> k * c < (m * n + i) * c \/ k = m * n + i
            BY <1>2, <1>3, <3>3, <5>1, <5>3, <6>1, NextOwnPiece
          <6>3. k * c \in Int /\ j * c \in Int /\ c * n \in Int
            BY <1>2, <1>3, <3>3, <5>1
          <6>4. PieceLower(k) < p_lower'[i] <=> k * c < (m * n + i) * c + c * n
            BY <1>2, <3>7, <3>11, <6>3
          <6>5. PieceLower(k) < p_lower[i] <=> k * c < (m * n + i) * c
            BY <1>2, <3>4, <3>11, <6>3
          <6>6. QED
            BY <2>1, <5>3, <6>2, <6>4, <6>5
        <5>4. QED
          BY <5>2, <5>3
      <4>2. PiecesRun =
              {k \in 0..IntMax : stage[k % n] # "init" /\ PieceLower(k) < p_lower[k % n]}
        BY <2>3 DEF PiecesRun
      <4>3. PiecesRun' =
              {k \in 0..IntMax : stage[k % n] # "init" /\ PieceLower(k) < p_lower'[k % n]}
        BY <1>6, <2>1, <2>3 DEF PiecesRun
      <4>4. j \in 0..IntMax
        BY <3>5
      <4> HIDE DEF j
      <4>5. QED
        BY <4>1, <4>2, <4>3, <4>4
    <3>14. PiecesExact'
      <4> HIDE DEF j
      <4>1. QED
        BY <1>1, <2>1, <3>8, <3>12, <3>13, ExecutePiece
    <3>15. QED
      BY <3>9, <3>10, <3>14 DEF StaticInv
  <2>4. CASE /\ loop.schedule = "chunked" /\ p_lower[i] > u
             /\ stage' = [stage EXCEPT ![i] = "done"]
             /\ p_lower' = p_lower /\ p_upper' = p_upper /\ run_count' = run_count
    <3>1. StaticType'
      <4>1. stage' \in [Team -> {"init", "block", "done"}]
        BY <1>5, <2>4
      <4>2. QED
        BY <1>1, <1>5, <1>6, <2>1, <2>4, <4>1
           DEF StaticType, CInt, Loop, SafeUpper
    <3>2. \A k \in Team : stage'[k] # "init" <=> stage[k] # "init"
      BY <1>5, <2>1, <2>4
    <3>3. AtPiece'
      <4>1. \A k \in Team : stage'[k] = "done" => p_lower[k] > u
        BY <1>1, <1>5, <2>1, <2>4 DEF AtPiece
      <4>2. QED
        BY <1>1, <1>6, <2>1, <2>4, <3>2, <4>1 DEF AtPiece
    <3>4. PiecesRun' = PiecesRun
      <4>1. \A j \in 0..IntMax : j % n \in Team
        BY <1>7, IntMaxAssumption
      <4>2. QED
        BY <1>6, <2>1, <2>4, <3>2, <4>1 DEF PiecesRun
    <3>5. QED
      BY <1>8, <2>1, <2>4, <3>1, <3>3, <3>4 DEF StaticInv
  <2>5. QED
    BY <1>12, <2>2, <2>3, <2>4 DEF RunBlock
<1>13. QED
  BY <1>9, <1>10, <1>11, <1>12 DEF StaticNext

\* What has been run is exactly the pieces the threads are past.
THEOREM StaticInvariant ==
  ASSUME Forward
  PROVE  StaticSpec => []StaticInv
<1>1. StaticBegin => StaticInv
  BY StaticInitial
<1>2. StaticInv /\ [StaticNext]_static_vars => StaticInv'
  BY StaticStep
<1>3. QED
  BY <1>1, <1>2, PTL DEF StaticSpec

LEMMA StaticInvExact ==
  ASSUME Forward, StaticInv
  PROVE  IterationsExact
<1> DEFINE l == loop.lower
           u == loop.upper
           d == loop.incr
           n == loop.team_size
           c == PieceSize
<1>1. StaticType /\ AtPiece /\ PiecesExact /\ loop \in Loop
  BY DEF StaticInv, StaticType
<1>2. /\ n \in Nat \ {0} /\ d \in Nat \ {0}
      /\ loop.schedule \in {"static", "chunked"}
      /\ l \in Int /\ u \in Int /\ (u - l) + d <= IntMax
  BY <1>1, ForwardLoop, IntMaxAssumption DEF CInt
<1>3. /\ c \in Nat \ {0}
      /\ \A j \in Nat : /\ PieceLower(j) = PartLower(l, d, c, j)
                        /\ Piece(j) = Part(l, u, d, c, j)
      /\ loop.schedule = "static" => u - l < c * n * d
  BY <1>1, StaticPieces
<1>4. Whole = Iterations(l, u, d)
  BY DEF Whole
<1>5. ASSUME NEW x \in CInt
      PROVE  run_count[x] = IF \E j \in PiecesRun : x \in Piece(j) THEN 1 ELSE 0
  BY <1>1 DEF PiecesExact
<1>6. BlocksDisjoint
  <2>1. SUFFICES ASSUME NEW x \in CInt
                 PROVE  run_count[x] <= IF x \in Iterations(l, u, d) THEN 1 ELSE 0
    BY <1>4 DEF BlocksDisjoint
  <2>2. ASSUME NEW j \in PiecesRun, x \in Piece(j)
        PROVE  x \in Iterations(l, u, d)
    <3>1. j \in Nat
      BY IntMaxAssumption DEF PiecesRun
    <3>2. x \in Part(l, u, d, c, j)
      BY <1>3, <2>2, <3>1
    <3>3. c \in Nat \ {0}
      BY <1>3
    <3>4. QED
      BY <1>2, <3>1, <3>2, <3>3, PiecesApart
  <2>3. QED
    BY <1>5, <2>2
<1>7. BlocksCover
  <2>1. SUFFICES ASSUME \A i \in Team : stage[i] = "done", NEW x \in Iterations(l, u, d)
                 PROVE  run_count[x] >= 1
    BY <1>4 DEF BlocksCover
  <2>2. PICK k \in Nat : x = l + k * d /\ x <= u
    <3>1. x \in Iterations(l, u, d) <=> \E k \in Nat : x = l + k * d /\ x <= u
      BY <1>2, IterationsUp
    <3>2. QED
      BY <3>1
  <2>3. x \in Int /\ l <= x /\ x \in CInt
    <3>1. k * d \in Nat
      BY <1>2
    <3>2. l \in CInt /\ u \in CInt
      BY <1>1, ForwardLoop
    <3>3. QED
      BY <1>2, <2>2, <3>1, <3>2, IntMaxAssumption DEF CInt
  <2>4. PICK j \in Nat : x \in Part(l, u, d, c, j) /\ PartLower(l, d, c, j) <= x
    <3>1. c \in Nat \ {0}
      BY <1>3
    <3>2. QED
      BY <1>2, <3>1, PiecesCover
  <2>5. PieceLower(j) = l + j * (c * d) /\ PieceLower(j) <= u
    BY <1>2, <1>3, <2>2, <2>3, <2>4 DEF PartLower
  <2>6. j \in 0..IntMax
    <3>1. j * (c * d) \in Nat /\ j <= j * (c * d)
      <4>1. c * d \in Nat \ {0}
        BY <1>2, <1>3
      <4>2. QED
        BY <4>1
    <3>2. j <= u - l
      BY <1>2, <2>5, <3>1
    <3>3. QED
      BY <1>2, <3>2, IntMaxAssumption
  <2>7. j \in PiecesRun
    <3>1. CASE loop.schedule = "static"
      <4>1. j * (c * d) < n * (c * d)
        <5>1. j * (c * d) <= u - l
          <6>1. j * (c * d) \in Int
            BY <1>2, <1>3
          <6>2. QED
            BY <1>2, <2>5, <6>1
        <5>2. u - l < n * (c * d)
          <6>1. c * n * d = n * (c * d)
            BY <1>2, <1>3
          <6>2. QED
            BY <1>3, <3>1, <6>1
        <5>3. j * (c * d) \in Int /\ n * (c * d) \in Int
          BY <1>2, <1>3
        <5>4. QED
          BY <1>2, <5>1, <5>2, <5>3
      <4>2. j < n
        <5>1. c * d \in Nat
          BY <1>2, <1>3
        <5>2. QED
          BY <1>2, <4>1, <5>1, MulLess
      <4>3. j \in Team
        BY <1>2, <4>2 DEF Team
      <4>4. QED
        BY <2>1, <2>6, <3>1, <4>3 DEF PiecesRun
    <3>2. CASE loop.schedule = "chunked"
      <4>1. j % n \in Team
        BY <1>2, DivMod DEF Team
      <4>2. p_lower[j % n] > u /\ stage[j % n] = "done" /\ p_lower[j % n] \in Int
        BY <1>1, <2>1, <3>2, <4>1 DEF AtPiece, StaticType
      <4>3. PieceLower(j) \in Int
        BY <1>2, <1>3, <2>5
      <4>4. PieceLower(j) < p_lower[j % n]
        BY <1>2, <2>5, <4>2, <4>3
      <4>5. QED
        BY <2>6, <3>2, <4>2, <4>4 DEF PiecesRun
    <3>3. QED
      BY <1>2, <3>1, <3>2
  <2>8. QED
    <3>1. x \in Piece(j)
      BY <1>3, <2>4
    <3>2. run_count[x] = 1
      BY <1>5, <2>3, <2>7, <3>1
    <3>3. QED
      BY <3>2
<1>8. QED
  BY <1>6, <1>7 DEF IterationsExact

\* IterationsExact: the blocks and chunks that omp_static_init gives to the
\* threads have every iteration of the loop once and nothing else, whatever the
\* team size, the loop that counts up, the step and the chunk.
THEOREM StaticLoopExact ==
  ASSUME Forward
  PROVE  StaticSpec => []IterationsExact
<1>1. StaticInv => IterationsExact
  BY StaticInvExact
<1>2. QED
  BY <1>1, StaticInvariant, PTL

-----------------------------------------------------------------------------
(* LoopDispatch: the team is in one loop at a time.                        *)

LEMMA NewLoopType ==
  ASSUME NEW l \in LoopKind \cup LoopData
  PROVE  NewLoop(l) \in LoopData
<1>1. /\ l.lower \in CInt /\ l.upper \in CInt /\ l.stride \in CInt /\ l.chunk \in CInt
      /\ l.schedule \in {"static", "chunked", "dynamic", "other"}
  BY DEF LoopKind, LoopData
<1>2. 1 \in CInt \ {0}
  BY IntMaxAssumption DEF CInt
<1>3. [i \in Thread |-> 0] \in [Thread -> Int]
  OBVIOUS
<1>4. QED
  BY <1>1, <1>2, <1>3 DEF NewLoop, LoopData

\* A loop that is added is the last one.
LEMMA Emplaced ==
  ASSUME heap \in Seq(Seq(LoopData)), heap # <<>>, NEW d \in LoopData,
         heap' = EmplaceBack(d)
  PROVE  /\ heap' \in Seq(Seq(LoopData)) /\ heap' # <<>>
         /\ last' = last + 1 /\ Data' = d
<1>1. Len(heap) \in 1..Len(heap) /\ loop_list \in Seq(LoopData) /\ last \in Nat
  BY DEF loop_list, last
<1>2. CASE heap' = [heap EXCEPT ![Len(heap)] = Append(loop_list, d)]
  <2>1. Append(loop_list, d) \in Seq(LoopData)
    BY <1>1
  <2>2. heap' \in Seq(Seq(LoopData)) /\ Len(heap') = Len(heap) /\ heap' # <<>>
    BY <1>1, <1>2, <2>1
  <2>3. heap'[Len(heap')] = Append(loop_list, d)
    BY <1>1, <1>2, <2>2
  <2>4. QED
    BY <1>1, <2>2, <2>3 DEF loop_list, last, Data
<1>3. CASE heap' = Append(heap, Append([k \in DOMAIN loop_list |-> NewLoop(loop_list[k])], d))
  <2> DEFINE t == [k \in DOMAIN loop_list |-> NewLoop(loop_list[k])]
  <2>1. \A k \in DOMAIN loop_list : NewLoop(loop_list[k]) \in LoopData
    BY <1>1, NewLoopType
  <2>2. t \in Seq(LoopData) /\ Len(t) = Len(loop_list)
    <3> DEFINE n == Len(loop_list)
    <3>1. n \in Nat /\ DOMAIN loop_list = 1..n
      BY <1>1
    <3>2. t \in [1..n -> LoopData]
      BY <2>1, <3>1
    <3> HIDE DEF t, n
    <3>3. t \in Seq(LoopData) /\ Len(t) = n
      BY <3>1, <3>2
    <3>4. QED
      BY <3>3 DEF n
  <2> HIDE DEF t
  <2>3. Append(t, d) \in Seq(LoopData) /\ Len(Append(t, d)) = Len(loop_list) + 1
        /\ Append(t, d)[Len(loop_list) + 1] = d
    BY <1>1, <2>2
  <2>4. heap' = Append(heap, Append(t, d))
    BY <1>3 DEF t
  <2>5. heap' \in Seq(Seq(LoopData)) /\ Len(heap') = Len(heap) + 1
        /\ heap'[Len(heap) + 1] = Append(t, d)
    BY <1>1, <2>3, <2>4
  <2>6. heap' # <<>>
    BY <1>1, <2>5
  <2>7. QED
    BY <1>1, <2>3, <2>5, <2>6 DEF loop_list, last, Data
<1>4. QED
  BY <1>2, <1>3 DEF EmplaceBack, loop_list

LEMMA ReplaceLast ==
  ASSUME NEW S, NEW h \in Seq(S), h # <<>>, NEW t \in S,
         NEW g, g = [h EXCEPT ![Len(h)] = t]
  PROVE  g \in Seq(S) /\ Len(g) = Len(h) /\ g # <<>> /\ g[Len(h)] = t
<1>1. Len(h) \in 1..Len(h)
  OBVIOUS
<1>2. g \in Seq(S) /\ Len(g) = Len(h) /\ g[Len(h)] = t
  BY <1>1
<1>3. QED
  BY <1>1, <1>2

\* An assignment to the loop the team is in.
LEMMA DataSet ==
  ASSUME heap \in Seq(Seq(LoopData)), heap # <<>>, last > 0, NEW e \in LoopData,
         heap' = [heap EXCEPT ![Len(heap)][last] = e]
  PROVE  /\ heap' \in Seq(Seq(LoopData)) /\ heap' # <<>> /\ Len(heap') = Len(heap)
         /\ last' = last /\ Data' = e
<1>1. /\ Len(heap) \in 1..Len(heap) /\ loop_list \in Seq(LoopData)
      /\ last = Len(loop_list) /\ last \in 1..Len(loop_list)
  BY DEF loop_list, last
<1>2. heap' = [heap EXCEPT ![Len(heap)] = [loop_list EXCEPT ![last] = e]]
  BY DEF loop_list
<1>3. /\ [loop_list EXCEPT ![last] = e] \in Seq(LoopData)
      /\ Len([loop_list EXCEPT ![last] = e]) = Len(loop_list)
      /\ [loop_list EXCEPT ![last] = e][last] = e
  BY <1>1
<1>4. /\ heap' \in Seq(Seq(LoopData)) /\ Len(heap') = Len(heap) /\ heap' # <<>>
      /\ heap'[Len(heap)] = [loop_list EXCEPT ![last] = e]
  <2> DEFINE t == [loop_list EXCEPT ![last] = e]
  <2>1. t \in Seq(LoopData) /\ heap' = [heap EXCEPT ![Len(heap)] = t]
    BY <1>2, <1>3
  <2> HIDE DEF t
  <2>2. heap' \in Seq(Seq(LoopData)) /\ Len(heap') = Len(heap) /\ heap' # <<>> /\ heap'[Len(heap)] = t
    <3> DEFINE S == Seq(LoopData)
               g == [heap EXCEPT ![Len(heap)] = t]
    <3>1. heap \in Seq(S) /\ t \in S /\ heap # <<>> /\ g = [heap EXCEPT ![Len(heap)] = t]
      BY <2>1
    <3>2. heap' = g
      BY <2>1
    <3> HIDE DEF S, g
    <3>3. g \in Seq(S) /\ Len(g) = Len(heap) /\ g # <<>> /\ g[Len(heap)] = t
      BY <3>1, ReplaceLast
    <3>4. QED
      BY <3>2, <3>3 DEF S
  <2>3. QED
    BY <2>2 DEF t
<1>5. QED
  BY <1>1, <1>3, <1>4 DEF loop_list, last, Data

LEMMA DataType ==
  ASSUME heap \in Seq(Seq(LoopData)), heap # <<>>
  PROVE  last \in Nat /\ (last > 0 => Data \in LoopData)
<1>1. loop_list \in Seq(LoopData)
  BY DEF loop_list
<1>2. QED
  BY <1>1 DEF last, Data

\* A step of a thread within the loop leaves the others where they are.
LEMMA StepInLoop ==
  ASSUME Barriers, RoundInv, NEW i \in Thread, NEW to,
         pc[i] \in Inside \cup {"pointer"},
         to \in Inside \cup {"pointer"} \/ to = AfterLoop(i),
         pc' = [pc EXCEPT ![i] = to], program' = program, loop_num' = loop_num,
         Len(heap') = Len(heap), last' = last,
         \/ loop_sched' = loop_sched /\ pc[i] \in Inside
         \/ loop_sched' = [loop_sched EXCEPT ![i] = [storage |-> Len(heap), index |-> last]]
  PROVE  OneLoop' /\ pc' \in [Thread -> PC]
<1>1. /\ program \in Programs /\ pc \in [Thread -> PC] /\ OneLoop
      /\ loop_num \in [Thread -> 0..Len(program)]
      /\ loop_sched \in [Thread -> [storage : Nat, index : Nat]]
      /\ heap \in Seq(Seq(LoopData)) /\ heap # <<>>
  BY DEF RoundInv, DispatchType
<1>2. last \in Nat /\ Len(program) \in Nat /\ Len(heap) \in Nat
  BY <1>1, DataType, ProgramsAssumption
<1>3. loop_num[i] = last /\ last > 0 /\ last <= Len(program)
  BY <1>1 DEF OneLoop
<1>4. to = AfterLoop(i) => to = "barrier" \/ (to = "body" /\ last = Len(program))
  <2>1. SUFFICES ASSUME to = AfterLoop(i), to # "barrier"
                 PROVE  to = "body" /\ last = Len(program)
    OBVIOUS
  <2>2. to = "body" /\ program[last].nowait
    BY <1>3, <2>1 DEF AfterLoop, Current
  <2>3. last \notin 1..(Len(program) - 1)
    BY <1>1, <2>2 DEF Barriers
  <2>4. last = Len(program)
    <3> DEFINE n == Len(program)
    <3>1. last \in Nat /\ n \in Nat /\ last > 0 /\ last <= n /\ last \notin 1..(n - 1)
      BY <1>2, <1>3, <2>3
    <3> HIDE DEF n
    <3>2. last = n
      BY <3>1
    <3>3. QED
      BY <3>2 DEF n
  <2>5. QED
    BY <2>2, <2>4
<1>5. to \in PC
  BY <1>4 DEF PC, Inside
<1>6. /\ Thread' = Thread
      /\ pc'[i] = to /\ \A j \in Thread : j # i => pc'[j] = pc[j]
      /\ \A j \in Thread : j # i => loop_sched'[j] = loop_sched[j]
      /\ pc' \in [Thread -> PC]
  BY <1>1, <1>5
<1>7. to \in Inside => loop_sched'[i] = [storage |-> Len(heap), index |-> last]
  BY <1>1 DEF OneLoop
<1>8. last' <= Len(program')
  BY <1>3
<1>9. ASSUME NEW j \in Thread
      PROVE  /\ pc'[j] = "body" => loop_num'[j] = last' \/ loop_num'[j] + 1 = last'
             /\ pc'[j] = "slots" => loop_num'[j] + 1 = last'
             /\ pc'[j] \in {"pointer", "barrier"} \cup Inside => loop_num'[j] = last' /\ last' > 0
             /\ pc'[j] \in Inside => loop_sched'[j] = [storage |-> Len(heap'), index |-> last']
             /\ pc'[j] = "body" /\ loop_num'[j] = last' /\ last' < Len(program') =>
                  \A k \in Thread : pc'[k] = "body" /\ loop_num'[k] = last'
  <2>1. CASE j = i
    <3>1. pc'[j] # "slots"
      BY <1>4, <1>6, <2>1 DEF Inside
    <3>2. ~(pc'[j] = "body" /\ last' < Len(program'))
      BY <1>2, <1>4, <1>6, <2>1 DEF Inside
    <3>3. QED
      BY <1>3, <1>6, <1>7, <2>1, <3>1, <3>2
  <2>2. CASE j # i
    <3>1. pc'[j] = pc[j] /\ loop_num'[j] = loop_num[j] /\ loop_sched'[j] = loop_sched[j]
      BY <1>6, <2>2
    <3>2. ~(pc[j] = "body" /\ loop_num[j] = last /\ last < Len(program))
      <4>1. pc[i] # "body"
        BY DEF Inside
      <4>2. QED
        BY <1>1, <4>1 DEF OneLoop
    <3>3. QED
      BY <1>1, <3>1, <3>2 DEF OneLoop
  <2>3. QED
    BY <2>1, <2>2
<1>10. OneLoop'
  BY <1>6, <1>8, <1>9 DEF OneLoop, Inside
<1>11. QED
  BY <1>6, <1>10

LEMMA WrapType ==
  ASSUME NEW x \in Int
  PROVE  Wrap(x) \in CInt
<1>1. 2 * (IntMax + 1) \in Nat \ {0} /\ x + IntMax + 1 \in Int
  BY IntMaxAssumption
<1>2. LET r == (x + IntMax + 1) % (2 * (IntMax + 1))
      IN  r \in Int /\ 0 <= r /\ r < 2 * (IntMax + 1)
  BY <1>1, DivMod
<1>3. QED
  BY <1>2, IntMaxAssumption DEF Wrap, CInt

LEMMA QuotType ==
  ASSUME NEW a \in Int, NEW b \in Int \ {0}
  PROVE  Quot(a, b) \in Int
<1>1. Magnitude(a) \in Nat /\ Magnitude(b) \in Nat \ {0}
  BY DEF Magnitude
<1>2. Magnitude(a) \div Magnitude(b) \in Int
  BY <1>1, DivMod
<1>3. QED
  BY <1>2 DEF Quot

LEMMA StaticInitType ==
  ASSUME NEW i \in Int, NEW n \in Nat \ {0}, NEW l \in CInt, NEW u \in CInt,
         NEW d \in Int \ {0}
  PROVE  /\ StaticInit(i, n, l, u, d).lower \in CInt
         /\ StaticInit(i, n, l, u, d).upper \in CInt
<1> DEFINE trip == TripCount(l, u, d)
<1>1. l \in Int /\ u \in Int /\ \A x \in CInt : x \in Int
  BY IntMaxAssumption DEF CInt
<1>2. trip \in Int
  <2>1. Quot(u - l, d) \in Int
    BY <1>1, QuotType
  <2>2. Wrap(Quot(u - l, d) + 1) \in CInt
    BY <2>1, WrapType
  <2>3. QED
    BY <1>1, <2>2 DEF TripCount
<1> HIDE DEF trip
<1>3. trip \div n \in Int /\ Adjustment(trip, n) \in Int
  BY <1>2, DivMod DEF Adjustment
<1>4. Stride(trip, n, d) \in Int /\ BlockSize(trip, n, d) \in Int
  <2>1. /\ (trip \div n + Adjustment(trip, n) + 1) * d \in Int
        /\ (trip \div n + Adjustment(trip, n)) * d \in Int
    BY <1>3
  <2>2. QED
    BY <1>1, <2>1, WrapType DEF Stride, BlockSize
<1> DEFINE a == Wrap(l + i * Stride(trip, n, d))
           b == Wrap(a + BlockSize(trip, n, d))
<1>5. a \in CInt
  <2>1. l + i * Stride(trip, n, d) \in Int
    BY <1>1, <1>4
  <2>2. QED
    BY <2>1, WrapType
<1>6. b \in CInt
  <2> HIDE DEF a
  <2>1. a + BlockSize(trip, n, d) \in Int
    BY <1>1, <1>4, <1>5
  <2>2. QED
    BY <2>1, WrapType
<1>7. StaticInit(i, n, l, u, d) = [lower |-> a, upper |-> Clipped(b, u)]
  BY DEF StaticInit, trip
<1> HIDE DEF a, b
<1>8. QED
  BY <1>5, <1>6, <1>7 DEF Clipped

LEMMA ThreadType == Thread \subseteq Nat /\ NumThreads \in Nat \ {0}
BY NumThreadsAssumption DEF Thread

\* A thread in the loop has its pointer in the vector's own storage.
LEMMA SchedIsData ==
  ASSUME RoundInv, NEW i \in Thread, pc[i] \in Inside
  PROVE  /\ Sched(i) = Data
         /\ \A e : SetSched(i, e) <=> heap' = [heap EXCEPT ![Len(heap)][last] = e]
         /\ Dereference(i) => ~dangled'
<1>1. loop_sched[i] = [storage |-> Len(heap), index |-> last]
  BY DEF RoundInv, OneLoop
<1>2. ~dangled
  BY DEF RoundInv, NoDangling
<1>3. Sched(i) = Data
  BY <1>1 DEF Sched, Data, loop_list
<1>4. loop_sched[i].storage = Len(heap) /\ loop_sched[i].index = last
  BY <1>1
<1>5. \A e : SetSched(i, e) <=> heap' = [heap EXCEPT ![Len(heap)][last] = e]
  BY <1>4 DEF SetSched
<1>6. Dereference(i) => ~dangled'
  BY <1>2, <1>4, Zenon DEF Dereference
<1>7. QED
  BY <1>3, <1>5, <1>6

\* What the steps of a thread in the loop have in common.
Within(i) ==
  /\ last > 0 /\ last \in DOMAIN program /\ loop_num[i] = last /\ Data \in LoopData
  /\ Current(i) = program[last]
  /\ program' = program /\ loop_num' = loop_num /\ ~dangled'
  /\ heap' \in Seq(Seq(LoopData)) /\ heap' # <<>> /\ Len(heap') = Len(heap)
  /\ last' = last

LEMMA WithinLoop ==
  ASSUME RoundInv, NEW i \in Thread, pc[i] \in Inside \cup {"pointer"},
         program' = program, loop_num' = loop_num, ~dangled',
         heap' = heap \/ \E e \in LoopData : heap' = [heap EXCEPT ![Len(heap)][last] = e]
  PROVE  Within(i)
<1>1. /\ last > 0 /\ loop_num[i] = last /\ last <= Len(program)
      /\ program \in Seq(LoopKind) /\ heap \in Seq(Seq(LoopData)) /\ heap # <<>>
  BY ProgramsAssumption DEF RoundInv, OneLoop, DispatchType
<1>2. last \in Nat /\ Data \in LoopData
  BY <1>1, DataType
<1>3. last \in DOMAIN program
  BY <1>1, <1>2
<1>4. Current(i) = program[last]
  BY <1>1 DEF Current
<1>5. CASE heap' = heap
  BY <1>1, <1>2, <1>3, <1>4, <1>5 DEF Within, last, loop_list
<1>6. CASE \E e \in LoopData : heap' = [heap EXCEPT ![Len(heap)][last] = e]
  <2>1. heap' \in Seq(Seq(LoopData)) /\ heap' # <<>> /\ Len(heap') = Len(heap) /\ last' = last
    BY <1>1, <1>6, DataSet
  <2>2. QED
    BY <1>1, <1>2, <1>3, <1>4, <2>1 DEF Within
<1>7. QED
  BY <1>5, <1>6

\* What each step in the loop does to the loop the team is in.
LEMMA TakePointerEffect ==
  ASSUME RoundInv, NEW i \in Thread, TakePointer(i)
  PROVE  /\ Within(i) /\ pc[i] = "pointer" /\ pc' = [pc EXCEPT ![i] = "next"]
         /\ loop_sched' = [loop_sched EXCEPT ![i] = [storage |-> Len(heap), index |-> last]]
         /\ Data' = Data /\ loop_id' = loop_id /\ lb' = lb /\ ub' = ub
         /\ times' = times /\ sequence' = sequence
<1>1. /\ pc[i] = "pointer" /\ pc' = [pc EXCEPT ![i] = "next"]
      /\ loop_sched' = [loop_sched EXCEPT ![i] = [storage |-> Len(heap), index |-> loop_num[i]]]
      /\ program' = program /\ heap' = heap /\ loop_num' = loop_num /\ loop_id' = loop_id
      /\ lb' = lb /\ ub' = ub /\ times' = times /\ sequence' = sequence /\ dangled' = dangled
  BY DEF TakePointer, Goto
<1>2. ~dangled'
  BY <1>1 DEF RoundInv, NoDangling
<1>3. Within(i)
  BY <1>1, <1>2, WithinLoop
<1>4. Data' = Data
  BY <1>1 DEF Data, last, loop_list
<1>5. QED
  BY <1>1, <1>3, <1>4 DEF Within

LEMMA NextStaticEffect ==
  ASSUME RoundInv, NEW i \in Thread, NextStatic(i)
  PROVE  LET block == StaticInit(i, NumThreads, Data.lower, Data.upper, Data.stride) IN
         /\ Within(i) /\ pc[i] = "next" /\ Data.schedule = "static"
         /\ loop_sched' = loop_sched /\ loop_id' = loop_id
         /\ times' = times /\ sequence' = sequence
         /\ \/ /\ Data.iter_count[i] > 0
               /\ pc' = [pc EXCEPT ![i] = AfterLoop(i)]
               /\ Data' = Data /\ lb' = lb /\ ub' = ub
            \/ /\ ~(Data.iter_count[i] > 0)
               /\ pc' = [pc EXCEPT ![i] = "run"]
               /\ Data' = [Data EXCEPT
                    !.schedule_count = @ + 1, !.iter_count[i] = 1,
                    !.first_iter[i] = Quot(block.lower, Data.stride),
                    !.last_iter[i] = Quot(block.upper, Data.stride)]
               /\ lb' = [lb EXCEPT ![i] = block.lower] /\ ub' = [ub EXCEPT ![i] = block.upper]
               /\ block.lower \in Int /\ block.upper \in Int
<1> DEFINE block == StaticInit(i, NumThreads, Data.lower, Data.upper, Data.stride)
           e == [Data EXCEPT
                  !.schedule_count = @ + 1, !.iter_count[i] = 1,
                  !.first_iter[i] = Quot(block.lower, Data.stride),
                  !.last_iter[i] = Quot(block.upper, Data.stride)]
<1>1. pc[i] = "next" /\ Sched(i).schedule = "static"
  BY DEF NextStatic, Case
<1>2. /\ Sched(i) = Data
      /\ \A f : SetSched(i, f) <=> heap' = [heap EXCEPT ![Len(heap)][last] = f]
      /\ Dereference(i) => ~dangled'
  BY <1>1, SchedIsData DEF Inside
<1> HIDE DEF e, block
<1>3. /\ program' = program /\ loop_num' = loop_num /\ loop_sched' = loop_sched
      /\ loop_id' = loop_id /\ times' = times /\ sequence' = sequence /\ Dereference(i)
      /\ \/ /\ Data.iter_count[i] > 0
            /\ Goto(i, "next", AfterLoop(i))
            /\ heap' = heap /\ lb' = lb /\ ub' = ub
         \/ /\ ~(Data.iter_count[i] > 0)
            /\ Goto(i, "next", "run")
            /\ SetSched(i, e)
            /\ Give(i, block.lower, block.upper)
  BY <1>2 DEF NextStatic, e, block
<1>4. Data \in LoopData /\ last > 0
  BY <1>1, DataType DEF RoundInv, OneLoop, DispatchType, Inside
<1>5. block.lower \in CInt /\ block.upper \in CInt
  <2>1. /\ Data.lower \in CInt /\ Data.upper \in CInt /\ Data.stride \in Int \ {0}
        /\ i \in Int /\ NumThreads \in Nat \ {0}
    <3>1. Data.stride \in CInt \ {0} /\ Data.lower \in CInt /\ Data.upper \in CInt
      BY <1>4 DEF LoopData
    <3>2. QED
      BY <3>1, ThreadType, IntMaxAssumption DEF CInt
  <2>2. QED
    BY <2>1, StaticInitType DEF block
<1>6. e \in LoopData
  <2>1. Quot(block.lower, Data.stride) \in Int /\ Quot(block.upper, Data.stride) \in Int
    <3>1. /\ block.lower \in Int /\ block.upper \in Int /\ Data.stride \in Int \ {0}
      BY <1>4, <1>5, IntMaxAssumption DEF LoopData, CInt
    <3>2. QED
      BY <3>1, QuotType
  <2>2. /\ Data.schedule_count + 1 \in Int
        /\ [Data.first_iter EXCEPT ![i] = Quot(block.lower, Data.stride)] \in [Thread -> Int]
        /\ [Data.last_iter EXCEPT ![i] = Quot(block.upper, Data.stride)] \in [Thread -> Int]
        /\ [Data.iter_count EXCEPT ![i] = 1] \in [Thread -> Int]
    BY <1>4, <2>1 DEF LoopData
  <2>3. e = [Data EXCEPT !.schedule_count = Data.schedule_count + 1,
                         !.iter_count = [Data.iter_count EXCEPT ![i] = 1],
                         !.first_iter = [Data.first_iter EXCEPT ![i] = Quot(block.lower, Data.stride)],
                         !.last_iter = [Data.last_iter EXCEPT ![i] = Quot(block.upper, Data.stride)]]
    BY <1>4 DEF e, LoopData
  <2>4. QED
    BY <1>4, <2>2, <2>3 DEF LoopData
<1>7. CASE Data.iter_count[i] > 0
  <2>1. /\ pc' = [pc EXCEPT ![i] = AfterLoop(i)] /\ heap' = heap /\ lb' = lb /\ ub' = ub
    BY <1>3, <1>7 DEF Goto
  <2>2. Within(i)
    BY <1>1, <1>2, <1>3, <2>1, WithinLoop DEF Inside
  <2>3. Data' = Data
    BY <2>1 DEF Data, last, loop_list
  <2>4. QED
    BY <1>1, <1>2, <1>3, <1>7, <2>1, <2>2, <2>3
<1>8. CASE ~(Data.iter_count[i] > 0)
  <2>1. /\ pc' = [pc EXCEPT ![i] = "run"]
        /\ heap' = [heap EXCEPT ![Len(heap)][last] = e]
        /\ lb' = [lb EXCEPT ![i] = block.lower] /\ ub' = [ub EXCEPT ![i] = block.upper]
    BY <1>2, <1>3, <1>8 DEF Goto, Give
  <2>2. Within(i)
    BY <1>1, <1>2, <1>3, <1>6, <2>1, WithinLoop DEF Inside
  <2>3. Data' = e
    BY <1>4, <1>6, <2>1, DataSet DEF RoundInv, DispatchType
  <2>4. block.lower \in Int /\ block.upper \in Int
    BY <1>5, IntMaxAssumption DEF CInt
  <2>5. QED
    BY <1>1, <1>2, <1>3, <1>8, <2>1, <2>2, <2>3, <2>4 DEF e, block
<1>9. QED
  BY <1>7, <1>8

LEMMA NextChunkedEffect ==
  ASSUME RoundInv, NEW i \in Thread, NextChunked(i)
  PROVE  LET n == Data.iter_count[i]
             lower == Wrap(Data.lower + Data.chunk * (i + NumThreads * Data.stride * n))
             upper == Wrap(lower + Data.stride * (Data.chunk - 1))
             first == i + n * Data.stride * NumThreads
         IN  /\ Within(i) /\ pc[i] = "next" /\ Data.schedule = "chunked"
             /\ loop_sched' = loop_sched /\ loop_id' = loop_id
             /\ times' = times /\ sequence' = sequence
             /\ pc' = [pc EXCEPT ![i] = IF lower > Data.upper THEN AfterLoop(i) ELSE "run"]
             /\ Data' = [Data EXCEPT
                  !.schedule_count = @ + Data.chunk, !.iter_count[i] = n + 1,
                  !.first_iter[i] = first, !.last_iter[i] = first + Data.stride]
             /\ lb' = [lb EXCEPT ![i] = lower]
             /\ ub' = [ub EXCEPT ![i] = Clipped(upper, Data.upper)]
             /\ lower \in Int /\ Clipped(upper, Data.upper) \in Int
<1> DEFINE n == Data.iter_count[i]
           lower == Wrap(Data.lower + Data.chunk * (i + NumThreads * Data.stride * n))
           upper == Wrap(lower + Data.stride * (Data.chunk - 1))
           first == i + n * Data.stride * NumThreads
           e == [Data EXCEPT
                  !.schedule_count = @ + Data.chunk, !.iter_count[i] = n + 1,
                  !.first_iter[i] = first, !.last_iter[i] = first + Data.stride]
<1>1. pc[i] = "next" /\ Sched(i).schedule = "chunked"
  BY DEF NextChunked, Case
<1>2. /\ Sched(i) = Data
      /\ \A f : SetSched(i, f) <=> heap' = [heap EXCEPT ![Len(heap)][last] = f]
      /\ Dereference(i) => ~dangled'
  BY <1>1, SchedIsData DEF Inside
<1> HIDE DEF e, n, lower, upper, first
<1>3. /\ program' = program /\ loop_num' = loop_num /\ loop_sched' = loop_sched
      /\ loop_id' = loop_id /\ times' = times /\ sequence' = sequence /\ Dereference(i)
      /\ SetSched(i, e)
      /\ Give(i, lower, Clipped(upper, Data.upper))
      /\ Goto(i, "next", IF lower > Data.upper THEN AfterLoop(i) ELSE "run")
  BY <1>2 DEF NextChunked, e, n, lower, upper, first
<1>4. Data \in LoopData /\ last > 0 /\ i \in Int /\ NumThreads \in Int
  BY <1>1, DataType, ThreadType DEF RoundInv, OneLoop, DispatchType, Inside
<1>5. /\ Data.lower \in Int /\ Data.upper \in Int /\ Data.stride \in Int /\ Data.chunk \in Int
      /\ n \in Int
  BY <1>4, IntMaxAssumption DEF LoopData, CInt, n
<1>6. lower \in Int
  <2>1. Data.lower + Data.chunk * (i + NumThreads * Data.stride * n) \in Int
    BY <1>4, <1>5
  <2>2. QED
    BY <2>1, WrapType, IntMaxAssumption DEF lower, CInt
<1>7. upper \in Int
  <2>1. lower + Data.stride * (Data.chunk - 1) \in Int
    BY <1>5, <1>6
  <2>2. QED
    BY <2>1, WrapType, IntMaxAssumption DEF upper, CInt
<1>8. first \in Int
  BY <1>4, <1>5 DEF first
<1>9. e \in LoopData
  <2>1. /\ Data.schedule_count + Data.chunk \in Int
        /\ [Data.first_iter EXCEPT ![i] = first] \in [Thread -> Int]
        /\ [Data.last_iter EXCEPT ![i] = first + Data.stride] \in [Thread -> Int]
        /\ [Data.iter_count EXCEPT ![i] = n + 1] \in [Thread -> Int]
    BY <1>4, <1>5, <1>8 DEF LoopData
  <2>2. e = [Data EXCEPT !.schedule_count = Data.schedule_count + Data.chunk,
                         !.iter_count = [Data.iter_count EXCEPT ![i] = n + 1],
                         !.first_iter = [Data.first_iter EXCEPT ![i] = first],
                         !.last_iter = [Data.last_iter EXCEPT ![i] = first + Data.stride]]
    BY <1>4 DEF e, LoopData
  <2>3. QED
    BY <1>4, <2>1, <2>2 DEF LoopData
<1>10. /\ pc' = [pc EXCEPT ![i] = IF lower > Data.upper THEN AfterLoop(i) ELSE "run"]
       /\ heap' = [heap EXCEPT ![Len(heap)][last] = e]
       /\ lb' = [lb EXCEPT ![i] = lower]
       /\ ub' = [ub EXCEPT ![i] = Clipped(upper, Data.upper)]
  BY <1>2, <1>3 DEF Goto, Give
<1>11. Within(i)
  BY <1>1, <1>2, <1>3, <1>9, <1>10, WithinLoop DEF Inside
<1>12. Data' = e
  BY <1>4, <1>9, <1>10, DataSet DEF RoundInv, DispatchType
<1>13. Clipped(upper, Data.upper) \in Int
  BY <1>5, <1>7 DEF Clipped
<1>14. QED
  BY <1>1, <1>2, <1>3, <1>6, <1>10, <1>11, <1>12, <1>13 DEF e, n, lower, upper, first

LEMMA FetchEffect ==
  ASSUME RoundInv, NEW i \in Thread, Fetch(i)
  PROVE  /\ Within(i) /\ pc[i] = "next" /\ pc' = [pc EXCEPT ![i] = "bounds"]
         /\ Data.schedule = "dynamic"
         /\ loop_sched' = loop_sched /\ lb' = lb /\ ub' = ub
         /\ times' = times /\ sequence' = sequence
         /\ loop_id' = [loop_id EXCEPT ![i] = Data.schedule_count]
         /\ Data' = [Data EXCEPT !.schedule_count = Wrap(@ + 1)]
         /\ Data.schedule_count \in Int
<1> DEFINE e == [Data EXCEPT !.schedule_count = Wrap(@ + 1)]
<1>1. pc[i] = "next" /\ Sched(i).schedule = "dynamic"
  BY DEF Fetch, Case
<1>2. /\ Sched(i) = Data
      /\ \A f : SetSched(i, f) <=> heap' = [heap EXCEPT ![Len(heap)][last] = f]
      /\ Dereference(i) => ~dangled'
  BY <1>1, SchedIsData DEF Inside
<1> HIDE DEF e
<1>3. /\ program' = program /\ loop_num' = loop_num /\ loop_sched' = loop_sched
      /\ lb' = lb /\ ub' = ub /\ times' = times /\ sequence' = sequence /\ Dereference(i)
      /\ SetSched(i, e) /\ pc' = [pc EXCEPT ![i] = "bounds"]
      /\ loop_id' = [loop_id EXCEPT ![i] = Data.schedule_count]
  BY <1>2 DEF Fetch, Goto, e
<1>4. Data \in LoopData /\ last > 0
  BY <1>1, DataType DEF RoundInv, OneLoop, DispatchType, Inside
<1>5. e \in LoopData
  <2>1. Data.schedule_count + 1 \in Int
    BY <1>4 DEF LoopData
  <2>2. Wrap(Data.schedule_count + 1) \in Int
    BY <2>1, WrapType, IntMaxAssumption DEF CInt
  <2>3. QED
    BY <1>4, <2>2 DEF LoopData, e
<1>6. heap' = [heap EXCEPT ![Len(heap)][last] = e]
  BY <1>2, <1>3
<1>7. Within(i)
  BY <1>1, <1>2, <1>3, <1>5, <1>6, WithinLoop DEF Inside
<1>8. Data' = e
  BY <1>4, <1>5, <1>6, DataSet DEF RoundInv, DispatchType
<1>9. QED
  BY <1>1, <1>2, <1>3, <1>4, <1>7, <1>8 DEF e, LoopData

LEMMA BoundsEffect ==
  ASSUME RoundInv, NEW i \in Thread, Bounds(i)
  PROVE  LET lower == Wrap(Data.lower + loop_id[i] * Data.stride * Data.chunk)
             upper == Wrap(lower + (Data.chunk - 1) * Data.stride)
         IN  /\ Within(i) /\ pc[i] = "bounds"
             /\ loop_sched' = loop_sched /\ loop_id' = loop_id
             /\ times' = times /\ sequence' = sequence
             /\ pc' = [pc EXCEPT ![i] = IF lower > Data.upper THEN AfterLoop(i) ELSE "run"]
             /\ Data' = [Data EXCEPT
                  !.first_iter[i] = loop_id[i], !.last_iter[i] = loop_id[i] + Data.chunk]
             /\ lb' = [lb EXCEPT ![i] = lower]
             /\ ub' = [ub EXCEPT ![i] = Clipped(upper, Data.upper)]
             /\ lower \in Int /\ Clipped(upper, Data.upper) \in Int
<1> DEFINE lower == Wrap(Data.lower + loop_id[i] * Data.stride * Data.chunk)
           upper == Wrap(lower + (Data.chunk - 1) * Data.stride)
           e == [Data EXCEPT
                  !.first_iter[i] = loop_id[i], !.last_iter[i] = loop_id[i] + Data.chunk]
<1>1. pc[i] = "bounds"
  BY DEF Bounds
<1>2. /\ Sched(i) = Data
      /\ \A f : SetSched(i, f) <=> heap' = [heap EXCEPT ![Len(heap)][last] = f]
      /\ Dereference(i) => ~dangled'
  BY <1>1, SchedIsData DEF Inside
<1> HIDE DEF e, lower, upper
<1>3. /\ program' = program /\ loop_num' = loop_num /\ loop_sched' = loop_sched
      /\ loop_id' = loop_id /\ times' = times /\ sequence' = sequence /\ Dereference(i)
      /\ SetSched(i, e)
      /\ Give(i, lower, Clipped(upper, Data.upper))
      /\ Goto(i, "bounds", IF lower > Data.upper THEN AfterLoop(i) ELSE "run")
  BY <1>2 DEF Bounds, e, lower, upper
<1>4. Data \in LoopData /\ last > 0 /\ loop_id[i] \in Int
  BY <1>1, DataType DEF RoundInv, OneLoop, DispatchType, Inside
<1>5. Data.lower \in Int /\ Data.upper \in Int /\ Data.stride \in Int /\ Data.chunk \in Int
  BY <1>4, IntMaxAssumption DEF LoopData, CInt
<1>6. lower \in Int
  <2>1. Data.lower + loop_id[i] * Data.stride * Data.chunk \in Int
    BY <1>4, <1>5
  <2>2. QED
    BY <2>1, WrapType, IntMaxAssumption DEF lower, CInt
<1>7. upper \in Int
  <2>1. lower + (Data.chunk - 1) * Data.stride \in Int
    BY <1>5, <1>6
  <2>2. QED
    BY <2>1, WrapType, IntMaxAssumption DEF upper, CInt
<1>8. e \in LoopData
  <2>1. /\ [Data.first_iter EXCEPT ![i] = loop_id[i]] \in [Thread -> Int]
        /\ [Data.last_iter EXCEPT ![i] = loop_id[i] + Data.chunk] \in [Thread -> Int]
    BY <1>4, <1>5 DEF LoopData
  <2>2. e = [Data EXCEPT !.first_iter = [Data.first_iter EXCEPT ![i] = loop_id[i]],
                         !.last_iter = [Data.last_iter EXCEPT ![i] = loop_id[i] + Data.chunk]]
    BY <1>4 DEF e, LoopData
  <2>3. QED
    BY <1>4, <2>1, <2>2 DEF LoopData
<1>9. /\ pc' = [pc EXCEPT ![i] = IF lower > Data.upper THEN AfterLoop(i) ELSE "run"]
      /\ heap' = [heap EXCEPT ![Len(heap)][last] = e]
      /\ lb' = [lb EXCEPT ![i] = lower]
      /\ ub' = [ub EXCEPT ![i] = Clipped(upper, Data.upper)]
  BY <1>2, <1>3 DEF Goto, Give
<1>10. Within(i)
  BY <1>1, <1>2, <1>3, <1>8, <1>9, WithinLoop DEF Inside
<1>11. Data' = e
  BY <1>4, <1>8, <1>9, DataSet DEF RoundInv, DispatchType
<1>12. Clipped(upper, Data.upper) \in Int
  BY <1>5, <1>7 DEF Clipped
<1>13. QED
  BY <1>1, <1>3, <1>6, <1>9, <1>10, <1>11, <1>12 DEF e, lower, upper

LEMMA NextOtherEffect ==
  ASSUME RoundInv, NEW i \in Thread, NextOther(i)
  PROVE  /\ Within(i) /\ pc[i] = "next" /\ pc' = [pc EXCEPT ![i] = AfterLoop(i)]
         /\ Data.schedule = "other" /\ Data' = Data
         /\ loop_sched' = loop_sched /\ loop_id' = loop_id /\ lb' = lb /\ ub' = ub
         /\ times' = times /\ sequence' = sequence
<1>1. pc[i] = "next" /\ Sched(i).schedule = "other"
  BY DEF NextOther, Case
<1>2. Sched(i) = Data /\ (Dereference(i) => ~dangled')
  BY <1>1, SchedIsData DEF Inside
<1>3. /\ program' = program /\ loop_num' = loop_num /\ loop_sched' = loop_sched
      /\ loop_id' = loop_id /\ lb' = lb /\ ub' = ub /\ heap' = heap
      /\ times' = times /\ sequence' = sequence /\ Dereference(i)
      /\ pc' = [pc EXCEPT ![i] = AfterLoop(i)]
  BY DEF NextOther, Goto
<1>4. Within(i)
  BY <1>1, <1>2, <1>3, WithinLoop DEF Inside
<1>5. Data' = Data
  BY <1>3 DEF Data, last, loop_list
<1>6. QED
  BY <1>1, <1>2, <1>3, <1>4, <1>5

LEMMA RunChunkEffect ==
  ASSUME RoundInv, NEW i \in Thread, RunChunk(i)
  PROVE  /\ Within(i) /\ pc[i] = "run" /\ pc' = [pc EXCEPT ![i] = "pointer"]
         /\ ~program[last].ordered /\ Data' = Data
         /\ loop_sched' = loop_sched /\ loop_id' = loop_id /\ lb' = lb /\ ub' = ub
         /\ Execute(last, Iterations(lb[i], ub[i], program[last].stride))
         /\ sequence' = sequence
<1>1. /\ pc[i] = "run" /\ ~Current(i).ordered
      /\ program' = program /\ loop_num' = loop_num /\ loop_sched' = loop_sched
      /\ loop_id' = loop_id /\ lb' = lb /\ ub' = ub /\ heap' = heap
      /\ Execute(loop_num[i], Iterates(i)) /\ sequence' = sequence /\ dangled' = dangled
      /\ pc' = [pc EXCEPT ![i] = "pointer"]
  BY DEF RunChunk, Goto
<1>2. ~dangled'
  BY <1>1 DEF RoundInv, NoDangling
<1>3. Within(i)
  BY <1>1, <1>2, WithinLoop DEF Inside
<1>4. loop_num[i] = last /\ Current(i) = program[last]
  BY <1>3 DEF Within
<1>5. Data' = Data
  BY <1>1 DEF Data, last, loop_list
<1>6. QED
  BY <1>1, <1>3, <1>4, <1>5 DEF Iterates

LEMMA StartOrderedEffect ==
  ASSUME RoundInv, NEW i \in Thread, StartOrdered(i)
  PROVE  /\ Within(i) /\ pc[i] = "run" /\ program[last].ordered /\ Data' = Data
         /\ pc' = [pc EXCEPT ![i] = IF lb[i] > ub[i] THEN "pointer" ELSE "wait"]
         /\ loop_sched' = [loop_sched EXCEPT ![i] = [storage |-> Len(heap), index |-> last]]
         /\ loop_id' = loop_id /\ lb' = lb /\ ub' = ub /\ times' = times
         /\ sequence' = sequence
<1>1. /\ pc[i] = "run" /\ Current(i).ordered
      /\ loop_sched' = [loop_sched EXCEPT ![i] = [storage |-> Len(heap), index |-> loop_num[i]]]
      /\ program' = program /\ loop_num' = loop_num
      /\ loop_id' = loop_id /\ lb' = lb /\ ub' = ub /\ heap' = heap
      /\ times' = times /\ sequence' = sequence /\ dangled' = dangled
      /\ pc' = [pc EXCEPT ![i] = IF lb[i] > ub[i] THEN "pointer" ELSE "wait"]
  BY DEF StartOrdered, Goto
<1>2. ~dangled'
  BY <1>1 DEF RoundInv, NoDangling
<1>3. Within(i)
  BY <1>1, <1>2, WithinLoop DEF Inside
<1>4. loop_num[i] = last /\ Current(i) = program[last]
  BY <1>3 DEF Within
<1>5. Data' = Data
  BY <1>1 DEF Data, last, loop_list
<1>6. QED
  BY <1>1, <1>3, <1>4, <1>5

LEMMA OrderedEffect ==
  ASSUME RoundInv, NEW i \in Thread, Ordered(i)
  PROVE  /\ Within(i) /\ pc[i] = "wait" /\ pc' = [pc EXCEPT ![i] = "end_ordered"]
         /\ Data' = Data
         /\ ~(Data.ordered_count < Data.first_iter[i])
         /\ loop_sched' = loop_sched /\ loop_id' = loop_id /\ lb' = lb /\ ub' = ub
         /\ Execute(last, {lb[i]})
         /\ sequence' = [sequence EXCEPT ![last] = Append(@, lb[i])]
<1>1. /\ pc[i] = "wait" /\ ~(Sched(i).ordered_count < Sched(i).first_iter[i])
      /\ program' = program /\ loop_num' = loop_num /\ loop_sched' = loop_sched
      /\ loop_id' = loop_id /\ lb' = lb /\ ub' = ub /\ heap' = heap
      /\ Execute(loop_num[i], {lb[i]}) /\ Dereference(i)
      /\ sequence' = [sequence EXCEPT ![loop_num[i]] = Append(@, lb[i])]
      /\ pc' = [pc EXCEPT ![i] = "end_ordered"]
  BY DEF Ordered, Goto
<1>2. Sched(i) = Data /\ ~dangled'
  BY <1>1, SchedIsData DEF Inside
<1>3. Within(i)
  BY <1>1, <1>2, WithinLoop DEF Inside
<1>4. loop_num[i] = last
  BY <1>3 DEF Within
<1>5. Data' = Data
  BY <1>1 DEF Data, last, loop_list
<1>6. QED
  BY <1>1, <1>2, <1>3, <1>4, <1>5

LEMMA EndOrderedEffect ==
  ASSUME RoundInv, NEW i \in Thread, EndOrdered(i)
  PROVE  /\ Within(i) /\ pc[i] = "end_ordered" /\ pc' = [pc EXCEPT ![i] = "run"]
         /\ Data' = [Data EXCEPT !.ordered_count = @ + 1]
         /\ loop_sched' = loop_sched /\ loop_id' = loop_id /\ ub' = ub /\ times' = times
         /\ lb' = [lb EXCEPT ![i] = @ + program[last].stride]
         /\ sequence' = sequence
<1> DEFINE e == [Data EXCEPT !.ordered_count = @ + 1]
<1>1. /\ pc[i] = "end_ordered"
      /\ program' = program /\ loop_num' = loop_num /\ loop_sched' = loop_sched
      /\ loop_id' = loop_id /\ ub' = ub /\ times' = times /\ sequence' = sequence
      /\ dangled' = dangled
      /\ heap' = [heap EXCEPT ![Len(heap)][loop_num[i]].ordered_count = @ + 1]
      /\ lb' = [lb EXCEPT ![i] = @ + Current(i).stride]
      /\ pc' = [pc EXCEPT ![i] = "run"]
  BY DEF EndOrdered, Goto
<1>2. loop_num[i] = last /\ Current(i) = program[last] /\ last > 0
  BY <1>1 DEF RoundInv, OneLoop, Inside, Current
<1>3. heap' = [heap EXCEPT ![Len(heap)][last] = e]
  <2>1. heap' = [heap EXCEPT ![Len(heap)][last].ordered_count = @ + 1]
    BY <1>1, <1>2
  <2>2. e = [heap[Len(heap)][last] EXCEPT !.ordered_count = heap[Len(heap)][last].ordered_count + 1]
    BY DEF Data, loop_list
  <2> HIDE DEF e
  <2>3. QED
    BY <2>1, <2>2
<1>4. Data \in LoopData /\ heap \in Seq(Seq(LoopData)) /\ heap # <<>>
  BY <1>2, DataType DEF RoundInv, DispatchType
<1>5. e \in LoopData
  <2>1. Data.ordered_count + 1 \in Int
    BY <1>4 DEF LoopData
  <2>2. e = [Data EXCEPT !.ordered_count = Data.ordered_count + 1]
    OBVIOUS
  <2> HIDE DEF e
  <2>3. QED
    BY <1>4, <2>1, <2>2 DEF LoopData
<1> HIDE DEF e
<1>6. ~dangled'
  BY <1>1 DEF RoundInv, NoDangling
<1>7. Within(i)
  BY <1>1, <1>3, <1>5, <1>6, WithinLoop DEF Inside
<1>8. Data' = e
  BY <1>2, <1>3, <1>4, <1>5, DataSet
<1>9. QED
  BY <1>1, <1>2, <1>7, <1>8 DEF e

LEMMA AddLoopEffect ==
  ASSUME RoundInv, NEW i \in Thread, AddLoop(i)
  PROVE  /\ pc[i] = "body" /\ pc' = [pc EXCEPT ![i] = "slots"]
         /\ program' = program /\ loop_num' = loop_num /\ loop_sched' = loop_sched
         /\ loop_id' = loop_id /\ lb' = lb /\ ub' = ub
         /\ times' = times /\ sequence' = sequence /\ ~dangled'
         /\ heap' \in Seq(Seq(LoopData)) /\ heap' # <<>>
         /\ \/ /\ loop_num[i] = last /\ last < Len(program)
               /\ \A j \in Thread : pc[j] = "body" /\ loop_num[j] = last
               /\ last' = last + 1 /\ Data' = NewLoop(program[last + 1])
               /\ program[last + 1] \in LoopKind
            \/ /\ loop_num[i] + 1 = last /\ loop_num[i] < Len(program)
               /\ last' = last /\ Data' = Data /\ heap' = heap
<1>1. /\ pc[i] = "body" /\ loop_num[i] < Len(program)
      /\ pc' = [pc EXCEPT ![i] = "slots"]
      /\ program' = program /\ loop_num' = loop_num /\ loop_sched' = loop_sched
      /\ loop_id' = loop_id /\ lb' = lb /\ ub' = ub
      /\ times' = times /\ sequence' = sequence /\ dangled' = dangled
      /\ heap' = IF last = loop_num[i]
                 THEN EmplaceBack(NewLoop(program[loop_num[i] + 1])) ELSE heap
  BY DEF AddLoop, Goto, last
<1>2. ~dangled'
  BY <1>1 DEF RoundInv, NoDangling
<1>3. /\ heap \in Seq(Seq(LoopData)) /\ heap # <<>> /\ program \in Seq(LoopKind)
      /\ OneLoop
  BY ProgramsAssumption DEF RoundInv, DispatchType
<1>4. last \in Nat
  BY <1>3, DataType
<1>5. CASE last = loop_num[i]
  <2>1. last < Len(program) /\ \A j \in Thread : pc[j] = "body" /\ loop_num[j] = last
    BY <1>1, <1>3, <1>5 DEF OneLoop
  <2>2. program[last + 1] \in LoopKind
    <3>1. last + 1 \in 1..Len(program)
      BY <1>3, <1>4, <2>1
    <3>2. QED
      BY <1>3, <3>1
  <2>3. NewLoop(program[last + 1]) \in LoopData
    BY <2>2, NewLoopType
  <2>4. heap' = EmplaceBack(NewLoop(program[last + 1]))
    BY <1>1, <1>5
  <2>5. /\ heap' \in Seq(Seq(LoopData)) /\ heap' # <<>>
        /\ last' = last + 1 /\ Data' = NewLoop(program[last + 1])
    BY <1>3, <2>3, <2>4, Emplaced
  <2>6. QED
    BY <1>1, <1>2, <1>5, <2>1, <2>2, <2>5
<1>6. CASE last # loop_num[i]
  <2>1. loop_num[i] + 1 = last
    BY <1>1, <1>3, <1>6 DEF OneLoop
  <2>2. heap' = heap
    BY <1>1, <1>6
  <2>3. last' = last /\ Data' = Data
    BY <2>2 DEF last, Data, loop_list
  <2>4. QED
    BY <1>1, <1>2, <1>3, <2>1, <2>2, <2>3
<1>7. QED
  BY <1>5, <1>6

LEMMA InitSlotsEffect ==
  ASSUME RoundInv, NEW i \in Thread, InitSlots(i)
  PROVE  /\ pc[i] = "slots" /\ pc' = [pc EXCEPT ![i] = "pointer"]
         /\ last > 0 /\ last \in DOMAIN program /\ loop_num[i] + 1 = last /\ Data \in LoopData
         /\ loop_num' = [loop_num EXCEPT ![i] = last]
         /\ program' = program /\ loop_sched' = loop_sched
         /\ loop_id' = loop_id /\ lb' = lb /\ ub' = ub
         /\ times' = times /\ sequence' = sequence /\ ~dangled'
         /\ heap' \in Seq(Seq(LoopData)) /\ heap' # <<>> /\ Len(heap') = Len(heap)
         /\ last' = last
         /\ Data' = [Data EXCEPT !.first_iter[i] = 0, !.last_iter[i] = 0, !.iter_count[i] = 0]
<1> DEFINE e == [Data EXCEPT !.first_iter[i] = 0, !.last_iter[i] = 0, !.iter_count[i] = 0]
<1>1. /\ pc[i] = "slots" /\ pc' = [pc EXCEPT ![i] = "pointer"]
      /\ heap' = [heap EXCEPT ![Len(heap)][loop_num[i] + 1] =
                    [@ EXCEPT !.first_iter[i] = 0, !.last_iter[i] = 0, !.iter_count[i] = 0]]
      /\ loop_num' = [loop_num EXCEPT ![i] = @ + 1]
      /\ program' = program /\ loop_sched' = loop_sched
      /\ loop_id' = loop_id /\ lb' = lb /\ ub' = ub
      /\ times' = times /\ sequence' = sequence /\ dangled' = dangled
  BY DEF InitSlots, Goto
<1>2. ~dangled'
  BY <1>1 DEF RoundInv, NoDangling
<1>3. /\ heap \in Seq(Seq(LoopData)) /\ heap # <<>> /\ program \in Seq(LoopKind)
      /\ loop_num[i] + 1 = last /\ last <= Len(program) /\ loop_num[i] \in Nat
  BY <1>1, ProgramsAssumption DEF RoundInv, DispatchType, OneLoop
<1>4. last \in Nat /\ last > 0 /\ Data \in LoopData /\ last \in DOMAIN program
  BY <1>3, DataType
<1>5. heap' = [heap EXCEPT ![Len(heap)][last] = e]
  <2>1. heap' = [heap EXCEPT ![Len(heap)][last] =
                    [@ EXCEPT !.first_iter[i] = 0, !.last_iter[i] = 0, !.iter_count[i] = 0]]
    BY <1>1, <1>3
  <2>2. e = [heap[Len(heap)][last] EXCEPT !.first_iter[i] = 0, !.last_iter[i] = 0, !.iter_count[i] = 0]
    BY DEF Data, loop_list
  <2> HIDE DEF e
  <2>3. QED
    BY <2>1, <2>2
<1>6. e \in LoopData
  <2>1. /\ [Data.first_iter EXCEPT ![i] = 0] \in [Thread -> Int]
        /\ [Data.last_iter EXCEPT ![i] = 0] \in [Thread -> Int]
        /\ [Data.iter_count EXCEPT ![i] = 0] \in [Thread -> Int]
    BY <1>4 DEF LoopData
  <2>2. e = [Data EXCEPT !.first_iter = [Data.first_iter EXCEPT ![i] = 0],
                         !.last_iter = [Data.last_iter EXCEPT ![i] = 0],
                         !.iter_count = [Data.iter_count EXCEPT ![i] = 0]]
    BY <1>4 DEF LoopData
  <2> HIDE DEF e
  <2>3. QED
    BY <1>4, <2>1, <2>2 DEF LoopData
<1> HIDE DEF e
<1>7. /\ heap' \in Seq(Seq(LoopData)) /\ heap' # <<>> /\ Len(heap') = Len(heap)
      /\ last' = last /\ Data' = e
  BY <1>3, <1>4, <1>5, <1>6, DataSet
<1>8. QED
  BY <1>1, <1>2, <1>3, <1>4, <1>7 DEF e

\* RoundInv after a step in the loop, from its effect.
LEMMA RoundWithin ==
  ASSUME Barriers, RoundInv, NEW i \in Thread, Within(i), NEW to,
         pc[i] \in Inside \cup {"pointer"},
         to \in Inside \cup {"pointer"} \/ to = AfterLoop(i),
         pc' = [pc EXCEPT ![i] = to],
         \/ loop_sched' = loop_sched /\ pc[i] \in Inside
         \/ loop_sched' = [loop_sched EXCEPT ![i] = [storage |-> Len(heap), index |-> last]],
         loop_id' \in [Thread -> Int], lb' \in [Thread -> Int], ub' \in [Thread -> Int],
         times' = times \/ \E xs : Execute(last, xs),
         sequence' = sequence \/ sequence' = [sequence EXCEPT ![last] = Append(@, lb[i])]
  PROVE  RoundInv'
<1>1. /\ program' = program /\ loop_num' = loop_num /\ ~dangled'
      /\ heap' \in Seq(Seq(LoopData)) /\ heap' # <<>> /\ Len(heap') = Len(heap)
      /\ last' = last /\ last \in DOMAIN program
  BY DEF Within
<1>2. OneLoop' /\ pc' \in [Thread -> PC]
  BY <1>1, StepInLoop
<1>3. DispatchType
  BY DEF RoundInv
<1>4. loop_sched' \in [Thread -> [storage : Nat, index : Nat]]
  <2>1. Len(heap) \in Nat /\ last \in Nat
    BY <1>3, DataType DEF DispatchType
  <2> DEFINE S == [storage : Nat, index : Nat]
             p == [storage |-> Len(heap), index |-> last]
  <2>2. p \in S
    BY <2>1
  <2>3. loop_sched \in [Thread -> S]
    BY <1>3 DEF DispatchType
  <2>4. loop_sched' = loop_sched \/ loop_sched' = [loop_sched EXCEPT ![i] = p]
    OBVIOUS
  <2> HIDE DEF S, p
  <2>5. loop_sched' \in [Thread -> S]
    BY <2>2, <2>3, <2>4
  <2>6. QED
    BY <2>5 DEF S
<1>5. times' \in [DOMAIN program -> [CInt -> Nat]]
  <2>1. CASE times' = times
    BY <1>3, <2>1 DEF DispatchType
  <2>2. CASE \E xs : Execute(last, xs)
    <3>1. PICK xs : times' = [times EXCEPT ![last] = [x \in CInt |-> times[last][x] + IF x \in xs THEN 1 ELSE 0]]
      BY <2>2 DEF Execute
    <3>2. times[last] \in [CInt -> Nat]
      BY <1>1, <1>3 DEF DispatchType
    <3>3. [x \in CInt |-> times[last][x] + IF x \in xs THEN 1 ELSE 0] \in [CInt -> Nat]
      BY <3>2
    <3>4. QED
      BY <1>3, <3>1, <3>3 DEF DispatchType
  <2>3. QED
    BY <2>1, <2>2
<1>6. sequence' \in [DOMAIN program -> Seq(Int)]
  <2>1. lb[i] \in Int /\ sequence[last] \in Seq(Int)
    BY <1>1, <1>3 DEF DispatchType
  <2>2. Append(sequence[last], lb[i]) \in Seq(Int)
    BY <2>1
  <2>3. QED
    BY <1>3, <2>2 DEF DispatchType
<1>7. DispatchType'
  BY <1>1, <1>2, <1>3, <1>4, <1>5, <1>6 DEF DispatchType, Thread
<1>8. QED
  BY <1>1, <1>2, <1>7 DEF RoundInv, NoDangling

LEMMA RoundInitial ==
  ASSUME Init
  PROVE  RoundInv
<1>1. /\ program \in Programs /\ heap = << <<>> >>
      /\ loop_num = [i \in Thread |-> 0]
      /\ loop_sched = [i \in Thread |-> [storage |-> 1, index |-> 0]]
      /\ pc = [i \in Thread |-> "body"]
      /\ loop_id = [i \in Thread |-> 0] /\ lb = [i \in Thread |-> 0] /\ ub = [i \in Thread |-> 0]
      /\ times = [k \in DOMAIN program |-> [x \in CInt |-> 0]]
      /\ sequence = [k \in DOMAIN program |-> <<>>]
      /\ dangled = FALSE
  BY DEF Init
<1>2. program \in Seq(LoopKind) /\ Len(program) \in Nat
  BY <1>1, ProgramsAssumption
<1>3. heap \in Seq(Seq(LoopData)) /\ heap # <<>> /\ last = 0
  <2> DEFINE S == Seq(LoopData)
             s == <<>>
  <2>1. s \in S /\ Len(s) = 0
    OBVIOUS
  <2>2. heap = <<s>>
    BY <1>1
  <2> HIDE DEF S, s
  <2>3. heap \in Seq(S) /\ heap # <<>> /\ Len(heap) = 1 /\ heap[1] = s
    BY <2>1, <2>2
  <2>4. QED
    BY <2>1, <2>3 DEF S, last, loop_list
<1>4. DispatchType
  <2>1. loop_num \in [Thread -> 0..Len(program)]
    BY <1>1, <1>2
  <2>2. loop_sched \in [Thread -> [storage : Nat, index : Nat]]
    <3>1. [storage |-> 1, index |-> 0] \in [storage : Nat, index : Nat]
      OBVIOUS
    <3>2. QED
      BY <1>1, <3>1
  <2>3. pc \in [Thread -> PC]
    BY <1>1 DEF PC
  <2>4. loop_id \in [Thread -> Int] /\ lb \in [Thread -> Int] /\ ub \in [Thread -> Int]
    BY <1>1
  <2>5. times \in [DOMAIN program -> [CInt -> Nat]]
    <3>1. [x \in CInt |-> 0] \in [CInt -> Nat]
      OBVIOUS
    <3>2. QED
      BY <1>1, <3>1
  <2>6. sequence \in [DOMAIN program -> Seq(Int)]
    <3>1. <<>> \in Seq(Int)
      OBVIOUS
    <3>2. QED
      BY <1>1, <3>1
  <2>7. QED
    BY <1>1, <1>3, <2>1, <2>2, <2>3, <2>4, <2>5, <2>6 DEF DispatchType
<1>5. OneLoop
  BY <1>1, <1>2, <1>3 DEF OneLoop, Inside
<1>6. QED
  BY <1>1, <1>4, <1>5 DEF RoundInv, NoDangling

LEMMA RoundStep ==
  ASSUME Barriers, RoundInv, [Next]_vars
  PROVE  RoundInv'
<1>1. /\ DispatchType /\ OneLoop /\ NoDangling
      /\ program \in Programs /\ program \in Seq(LoopKind)
      /\ pc \in [Thread -> PC] /\ loop_num \in [Thread -> 0..Len(program)]
      /\ loop_id \in [Thread -> Int] /\ lb \in [Thread -> Int] /\ ub \in [Thread -> Int]
      /\ times \in [DOMAIN program -> [CInt -> Nat]] /\ sequence \in [DOMAIN program -> Seq(Int)]
      /\ heap \in Seq(Seq(LoopData)) /\ heap # <<>>
      /\ loop_sched \in [Thread -> [storage : Nat, index : Nat]]
  BY ProgramsAssumption DEF RoundInv, DispatchType
<1>2. last \in Nat /\ last <= Len(program) /\ Len(program) \in Nat
  BY <1>1, DataType DEF OneLoop
<1>3. CASE UNCHANGED vars
  BY <1>1, <1>3 DEF RoundInv, DispatchType, OneLoop, NoDangling, vars, last, loop_list
<1>4. CASE Barrier
  <2>1. /\ pc' = [i \in Thread |-> "body"]
        /\ \A i \in Thread : pc[i] = "barrier"
        /\ program' = program /\ heap' = heap /\ loop_num' = loop_num /\ loop_sched' = loop_sched
        /\ loop_id' = loop_id /\ lb' = lb /\ ub' = ub
        /\ times' = times /\ sequence' = sequence /\ dangled' = dangled
    BY <1>4 DEF Barrier
  <2>2. \A i \in Thread : loop_num[i] = last
    BY <1>1, <2>1 DEF OneLoop
  <2>3. last' = last
    BY <2>1 DEF last, loop_list
  <2>4. pc' \in [Thread -> PC]
    BY <2>1 DEF PC
  <2>5. DispatchType'
    BY <1>1, <2>1, <2>4 DEF DispatchType
  <2>6. OneLoop'
    BY <1>2, <2>1, <2>2, <2>3 DEF OneLoop, Inside
  <2>7. QED
    BY <1>1, <2>1, <2>5, <2>6 DEF RoundInv, NoDangling
<1>5. ASSUME NEW i \in Thread, AddLoop(i) PROVE RoundInv'
  <2>1. /\ pc[i] = "body" /\ pc' = [pc EXCEPT ![i] = "slots"]
        /\ program' = program /\ loop_num' = loop_num /\ loop_sched' = loop_sched
        /\ loop_id' = loop_id /\ lb' = lb /\ ub' = ub
        /\ times' = times /\ sequence' = sequence /\ ~dangled'
        /\ heap' \in Seq(Seq(LoopData)) /\ heap' # <<>>
    BY <1>5, AddLoopEffect
  <2>2. pc' \in [Thread -> PC]
    BY <1>1, <2>1 DEF PC
  <2>3. DispatchType'
    BY <1>1, <2>1, <2>2 DEF DispatchType
  <2>4. /\ pc'[i] = "slots" /\ \A j \in Thread : j # i => pc'[j] = pc[j]
    BY <1>1, <2>1
  <2>5. CASE /\ loop_num[i] = last /\ last < Len(program)
             /\ \A j \in Thread : pc[j] = "body" /\ loop_num[j] = last
             /\ last' = last + 1
    <3>1. \A j \in Thread : pc'[j] \in {"body", "slots"} /\ loop_num'[j] + 1 = last' /\ loop_num'[j] # last'
      BY <1>2, <2>1, <2>4, <2>5
    <3>2. last' <= Len(program')
      BY <1>2, <2>1, <2>5
    <3>3. OneLoop'
      BY <3>1, <3>2 DEF OneLoop, Inside
    <3>4. QED
      BY <2>1, <2>3, <3>3 DEF RoundInv, NoDangling
  <2>6. CASE /\ loop_num[i] + 1 = last /\ last' = last /\ heap' = heap
    <3>1. ~(\E j \in Thread : pc[j] = "body" /\ loop_num[j] = last /\ last < Len(program))
      <4>1. loop_num[i] # last
        BY <1>2, <2>6
      <4>2. QED
        BY <1>1, <4>1 DEF OneLoop
    <3>2. OneLoop'
      BY <1>1, <2>1, <2>4, <2>6, <3>1 DEF OneLoop, Inside
    <3>3. QED
      BY <2>1, <2>3, <3>2 DEF RoundInv, NoDangling
  <2>7. QED
    BY <1>5, <2>5, <2>6, AddLoopEffect
<1>6. ASSUME NEW i \in Thread, InitSlots(i) PROVE RoundInv'
  <2>1. /\ pc[i] = "slots" /\ pc' = [pc EXCEPT ![i] = "pointer"]
        /\ last > 0 /\ last \in DOMAIN program /\ loop_num[i] + 1 = last
        /\ loop_num' = [loop_num EXCEPT ![i] = last]
        /\ program' = program /\ loop_sched' = loop_sched
        /\ loop_id' = loop_id /\ lb' = lb /\ ub' = ub
        /\ times' = times /\ sequence' = sequence /\ ~dangled'
        /\ heap' \in Seq(Seq(LoopData)) /\ heap' # <<>> /\ Len(heap') = Len(heap)
        /\ last' = last
    BY <1>6, InitSlotsEffect
  <2>2. pc' \in [Thread -> PC] /\ loop_num' \in [Thread -> 0..Len(program)]
    BY <1>1, <1>2, <2>1 DEF PC
  <2>3. DispatchType'
    BY <1>1, <2>1, <2>2 DEF DispatchType
  <2>4. /\ pc'[i] = "pointer" /\ \A j \in Thread : j # i => pc'[j] = pc[j]
        /\ loop_num'[i] = last /\ \A j \in Thread : j # i => loop_num'[j] = loop_num[j]
    BY <1>1, <2>1
  <2>5. ~(\E j \in Thread : pc[j] = "body" /\ loop_num[j] = last /\ last < Len(program))
    BY <1>1, <2>1 DEF OneLoop
  <2>6. OneLoop'
    BY <1>1, <1>2, <2>1, <2>4, <2>5 DEF OneLoop, Inside
  <2>7. QED
    BY <2>1, <2>3, <2>6 DEF RoundInv, NoDangling
<1>7. ASSUME NEW i \in Thread, TakePointer(i) PROVE RoundInv'
  BY <1>1, <1>7, TakePointerEffect, RoundWithin DEF Inside
<1>8. ASSUME NEW i \in Thread, NextStatic(i) PROVE RoundInv'
  <2> DEFINE block == StaticInit(i, NumThreads, Data.lower, Data.upper, Data.stride)
  <2>1. /\ Within(i) /\ pc[i] = "next" /\ loop_sched' = loop_sched /\ loop_id' = loop_id
        /\ times' = times /\ sequence' = sequence
        /\ \/ /\ pc' = [pc EXCEPT ![i] = AfterLoop(i)]
              /\ lb' = lb /\ ub' = ub
           \/ /\ pc' = [pc EXCEPT ![i] = "run"]
              /\ lb' = [lb EXCEPT ![i] = block.lower] /\ ub' = [ub EXCEPT ![i] = block.upper]
              /\ block.lower \in Int /\ block.upper \in Int
    BY <1>8, NextStaticEffect
  <2> HIDE DEF block
  <2>2. lb' \in [Thread -> Int] /\ ub' \in [Thread -> Int]
    BY <1>1, <2>1
  <2>3. PICK to : pc' = [pc EXCEPT ![i] = to] /\ (to \in Inside \cup {"pointer"} \/ to = AfterLoop(i))
    BY <2>1 DEF Inside
  <2>4. QED
    BY <1>1, <2>1, <2>2, <2>3, RoundWithin DEF Inside
<1>9. ASSUME NEW i \in Thread, NextChunked(i) PROVE RoundInv'
  <2>1. PICK a, b : /\ Within(i) /\ pc[i] = "next" /\ loop_sched' = loop_sched /\ loop_id' = loop_id
        /\ times' = times /\ sequence' = sequence
        /\ pc' = [pc EXCEPT ![i] = IF a > Data.upper THEN AfterLoop(i) ELSE "run"]
        /\ lb' = [lb EXCEPT ![i] = a] /\ ub' = [ub EXCEPT ![i] = b] /\ a \in Int /\ b \in Int
    BY <1>9, NextChunkedEffect
  <2>2. lb' \in [Thread -> Int] /\ ub' \in [Thread -> Int]
    BY <1>1, <2>1
  <2>3. PICK to : pc' = [pc EXCEPT ![i] = to] /\ (to \in Inside \cup {"pointer"} \/ to = AfterLoop(i))
    BY <2>1 DEF Inside
  <2>4. QED
    BY <1>1, <2>1, <2>2, <2>3, RoundWithin DEF Inside
<1>10. ASSUME NEW i \in Thread, Fetch(i) PROVE RoundInv'
  <2>1. /\ Within(i) /\ pc[i] = "next" /\ pc' = [pc EXCEPT ![i] = "bounds"]
        /\ loop_sched' = loop_sched /\ lb' = lb /\ ub' = ub
        /\ times' = times /\ sequence' = sequence
        /\ loop_id' = [loop_id EXCEPT ![i] = Data.schedule_count] /\ Data.schedule_count \in Int
    BY <1>10, FetchEffect
  <2>2. loop_id' \in [Thread -> Int]
    BY <1>1, <2>1
  <2>3. QED
    BY <1>1, <2>1, <2>2, RoundWithin DEF Inside
<1>11. ASSUME NEW i \in Thread, Bounds(i) PROVE RoundInv'
  <2>1. PICK a, b : /\ Within(i) /\ pc[i] = "bounds" /\ loop_sched' = loop_sched /\ loop_id' = loop_id
        /\ times' = times /\ sequence' = sequence
        /\ pc' = [pc EXCEPT ![i] = IF a > Data.upper THEN AfterLoop(i) ELSE "run"]
        /\ lb' = [lb EXCEPT ![i] = a] /\ ub' = [ub EXCEPT ![i] = b] /\ a \in Int /\ b \in Int
    <3> DEFINE lower == Wrap(Data.lower + loop_id[i] * Data.stride * Data.chunk)
               upper == Wrap(lower + (Data.chunk - 1) * Data.stride)
               cut == Clipped(upper, Data.upper)
    <3>1. /\ Within(i) /\ pc[i] = "bounds" /\ loop_sched' = loop_sched /\ loop_id' = loop_id
          /\ times' = times /\ sequence' = sequence
          /\ pc' = [pc EXCEPT ![i] = IF lower > Data.upper THEN AfterLoop(i) ELSE "run"]
          /\ lb' = [lb EXCEPT ![i] = lower] /\ ub' = [ub EXCEPT ![i] = cut]
          /\ lower \in Int /\ cut \in Int
      BY <1>11, BoundsEffect
    <3> HIDE DEF lower, upper, cut
    <3>2. QED
      BY <3>1
  <2>2. lb' \in [Thread -> Int] /\ ub' \in [Thread -> Int]
    BY <1>1, <2>1
  <2>3. PICK to : pc' = [pc EXCEPT ![i] = to] /\ (to \in Inside \cup {"pointer"} \/ to = AfterLoop(i))
    BY <2>1 DEF Inside
  <2>4. QED
    BY <1>1, <2>1, <2>2, <2>3, RoundWithin DEF Inside
<1>12. ASSUME NEW i \in Thread, NextOther(i) PROVE RoundInv'
  BY <1>1, <1>12, NextOtherEffect, RoundWithin DEF Inside
<1>13. ASSUME NEW i \in Thread, RunChunk(i) PROVE RoundInv'
  BY <1>1, <1>13, RunChunkEffect, RoundWithin DEF Inside
<1>14. ASSUME NEW i \in Thread, StartOrdered(i) PROVE RoundInv'
  <2>1. PICK to : pc' = [pc EXCEPT ![i] = to] /\ to \in Inside \cup {"pointer"}
    BY <1>14, StartOrderedEffect DEF Inside
  <2>2. QED
    BY <1>1, <1>14, <2>1, StartOrderedEffect, RoundWithin DEF Inside
<1>15. ASSUME NEW i \in Thread, Ordered(i) PROVE RoundInv'
  BY <1>1, <1>15, OrderedEffect, RoundWithin DEF Inside
<1>16. ASSUME NEW i \in Thread, EndOrdered(i) PROVE RoundInv'
  <2>1. program[last].stride \in Int /\ Within(i) /\ lb' = [lb EXCEPT ![i] = @ + program[last].stride]
    <3>1. Within(i) /\ lb' = [lb EXCEPT ![i] = @ + program[last].stride]
      BY <1>16, EndOrderedEffect
    <3>2. program[last] \in LoopKind
      BY <1>1, <3>1 DEF Within
    <3>3. QED
      BY <3>1, <3>2, IntMaxAssumption DEF LoopKind, CInt
  <2>2. lb' \in [Thread -> Int]
    BY <1>1, <2>1
  <2>3. /\ pc[i] = "end_ordered" /\ pc' = [pc EXCEPT ![i] = "run"]
        /\ loop_sched' = loop_sched /\ loop_id' = loop_id /\ ub' = ub /\ times' = times
        /\ sequence' = sequence
    BY <1>16, EndOrderedEffect
  <2>4. QED
    BY <1>1, <2>1, <2>2, <2>3, RoundWithin DEF Inside
<1>17. QED
  BY <1>3, <1>4, <1>5, <1>6, <1>7, <1>8, <1>9, <1>10, <1>11, <1>12, <1>13, <1>14, <1>15, <1>16
     DEF Next, Step

\* As long as there are barriers, the team is in one loop at a time, and
\* loop_list grows only while no thread has a pointer into it.
THEOREM RoundInvariant ==
  ASSUME Barriers
  PROVE  Spec => []RoundInv
<1>1. Init => RoundInv
  BY RoundInitial
<1>2. RoundInv /\ [Next]_vars => RoundInv'
  BY RoundStep
<1>3. QED
  BY <1>1, <1>2, PTL DEF Spec

\* NoDangling: no thread uses a pointer into storage of loop_list that was
\* given back, if only the last loop of a program is without a barrier, for any
\* team, any loops and any number of them.
THEOREM PointersCorrect ==
  ASSUME Barriers
  PROVE  Spec => []NoDangling
<1>1. RoundInv => NoDangling
  BY DEF RoundInv
<1>2. QED
  BY <1>1, RoundInvariant, PTL

-----------------------------------------------------------------------------
(* LoopDispatch: what is handed out is run, or left to a thread.           *)

\* The loop the team is in, when it counts up.
LEMMA UpwardLoop ==
  ASSUME AllUpward, DispatchType, last \in DOMAIN program,
         NEW l, l = program[last].lower, NEW u, u = program[last].upper,
         NEW d, d = program[last].stride, NEW c, c = ChunkSize(program[last])
  PROVE  /\ l \in CInt /\ u \in CInt /\ l \in Int /\ u \in Int /\ l <= u
         /\ d \in Nat \ {0} /\ c \in Nat \ {0} /\ NumThreads <= IntMax
         /\ (u - l) + d <= IntMax
         /\ program[last].schedule \in {"static", "chunked", "dynamic", "other"}
         /\ program[last].schedule = "chunked" => d = 1
         /\ program[last].schedule # "static" =>
              /\ c = IF program[last].chunk = 0 THEN 1 ELSE program[last].chunk
              /\ (u - l) + (NumThreads + 1) * (c * d) <= IntMax
              /\ u + (NumThreads + 1) * (c * d) <= IntMax
         /\ program[last].schedule = "static" =>
              /\ u - l < NumThreads * (c * d)
              /\ \A i \in Thread :
                   StaticInit(i, NumThreads, l, u, d) =
                     [lower |-> l + i * (c * d),
                      upper |-> Clipped(l + i * (c * d) + (c - 1) * d, u)]
<1> DEFINE n == NumThreads
           q == program[last]
           e == IF q.schedule = "static" \/ q.chunk = 0 THEN 1 ELSE q.chunk
<1>1. program \in Programs /\ q \in LoopKind
  BY ProgramsAssumption DEF DispatchType
<1>2. Upward(q)
  BY <1>1 DEF AllUpward
<1>3. /\ l \in CInt /\ u \in CInt /\ d \in Int /\ q.chunk \in Int
      /\ q.schedule \in {"static", "chunked", "dynamic", "other"}
      /\ n \in Nat \ {0} /\ l \in Int /\ u \in Int
  BY <1>1, IntMaxAssumption, NumThreadsAssumption DEF LoopKind, CInt
<1>4. /\ d > 0 /\ q.chunk >= 0 /\ l <= u
      /\ q.schedule = "chunked" => d = 1
      /\ u - l + (n + 1) * d * e <= IntMax /\ u + (n + 1) * d * e <= IntMax
  BY <1>2 DEF Upward
<1>5. d \in Nat \ {0} /\ e \in Nat \ {0}
  BY <1>3, <1>4
<1>6. n <= IntMax /\ (u - l) + d <= IntMax
  <2> HIDE DEF e
  <2> DEFINE h == d * e
  <2>1. h \in Nat \ {0} /\ d <= h /\ (n + 1) * d * e = (n + 1) * h
    BY <1>3, <1>5
  <2> HIDE DEF h
  <2>2. n + 1 <= (n + 1) * h /\ h <= (n + 1) * h /\ (n + 1) * h \in Int
    BY <1>3, <2>1
  <2>3. QED
    BY <1>3, <1>4, <1>5, <2>1, <2>2, IntMaxAssumption
<1>7. ASSUME q.schedule # "static"
      PROVE  /\ c = e
             /\ (u - l) + (n + 1) * (c * d) <= IntMax /\ u + (n + 1) * (c * d) <= IntMax
  <2>1. c = e
    BY <1>7 DEF ChunkSize
  <2> HIDE DEF e
  <2>2. (n + 1) * d * e = (n + 1) * (c * d)
    BY <1>3, <1>5, <2>1
  <2>3. QED
    BY <1>4, <2>1, <2>2
<1>8. ASSUME q.schedule = "static"
      PROVE  /\ c \in Nat \ {0} /\ u - l < n * (c * d)
             /\ \A i \in Thread :
                   StaticInit(i, n, l, u, d) =
                     [lower |-> l + i * (c * d),
                      upper |-> Clipped(l + i * (c * d) + (c - 1) * d, u)]
  <2> DEFINE b == BlockRest(l, u, d, n)
  <2>1. Fits(l, u, d, n)
    <3>1. (n + 1) * d * e = n * d + d /\ n * d \in Int
      BY <1>3, <1>5, <1>8
    <3>2. u + n * d <= IntMax
      <4> HIDE DEF e
      <4>1. QED
        BY <1>3, <1>4, <1>5, <3>1, IntMaxAssumption
    <3>3. QED
      BY <1>3, <1>4, <1>5, <1>6, <3>2 DEF Fits
  <2>2. c = b + 1
    BY <1>8 DEF ChunkSize, BlockRest
  <2> HIDE DEF b
  <2>3. /\ b \in Nat /\ u - l < (b + 1) * n * d
        /\ \A i \in 0..(n - 1) :
              StaticInit(i, n, l, u, d) =
                [lower |-> l + i * ((b + 1) * d),
                 upper |-> Clipped(l + i * ((b + 1) * d) + b * d, u)]
    <3>1. b = BlockRest(l, u, d, n)
      BY DEF b
    <3>2. QED
      BY <2>1, <3>1, StaticBlocks
  <2>4. c - 1 = b /\ c * n * d = n * (c * d)
    BY <1>3, <1>5, <2>2, <2>3
  <2>5. QED
    BY <2>2, <2>3, <2>4 DEF Thread
<1>9. c \in Nat \ {0}
  BY <1>5, <1>7, <1>8
<1>10. QED
  BY <1>3, <1>4, <1>5, <1>6, <1>7, <1>8, <1>9

\* Its chunks are pieces of it.
LEMMA Chunks ==
  ASSUME AllUpward, DispatchType, last \in DOMAIN program,
         NEW l, l = program[last].lower, NEW u, u = program[last].upper,
         NEW d, d = program[last].stride, NEW c, c = ChunkSize(program[last]), NEW j \in Nat
  PROVE  /\ ChunkLower(j) = l + j * (c * d) /\ ChunkLower(j) \in Int
         /\ ChunkUpper(j) = Clipped(ChunkLower(j) + (c - 1) * d, u) /\ ChunkUpper(j) \in Int
         /\ Chunk(j) = Part(l, u, d, c, j)
         /\ Chunk(j) = Iterations(ChunkLower(j), ChunkUpper(j), d)
         /\ ChunkLower(j) > u => Chunk(j) = {}
<1>1. l \in Int /\ u \in Int /\ d \in Nat \ {0} /\ c \in Nat \ {0}
  BY UpwardLoop
<1>2. ChunkLower(j) = l + j * (c * d)
  BY DEF ChunkLower
<1>3. j * (c * d) \in Int /\ (c - 1) * d \in Int
  BY <1>1
<1>4. ChunkLower(j) \in Int
  BY <1>1, <1>2, <1>3
<1>5. ChunkUpper(j) = Clipped(ChunkLower(j) + (c - 1) * d, u)
  BY DEF ChunkUpper
<1>6. ChunkUpper(j) \in Int /\ ChunkUpper(j) <= u
  BY <1>1, <1>3, <1>4, <1>5 DEF Clipped
<1>7. Chunk(j) = Iterations(ChunkLower(j), ChunkUpper(j), d)
  BY DEF Chunk
<1>8. Chunk(j) = Part(l, u, d, c, j)
  BY <1>2, <1>5, <1>7 DEF Part, PartLower
<1>9. ASSUME ChunkLower(j) > u PROVE Chunk(j) = {}
  <2>1. SUFFICES ASSUME NEW x \in Chunk(j) PROVE FALSE
    OBVIOUS
  <2>2. x \in ChunkLower(j)..ChunkUpper(j)
    BY <1>1, <1>7, <2>1 DEF Iterations
  <2>3. QED
    BY <1>1, <1>4, <1>6, <1>9, <2>2
<1>10. QED
  BY <1>2, <1>4, <1>5, <1>6, <1>7, <1>8, <1>9

\* No iteration is in two of them, and all are in the loop.
LEMMA ChunksApart ==
  ASSUME AllUpward, DispatchType, last \in DOMAIN program,
         NEW j \in Nat, NEW x \in Chunk(j)
  PROVE  /\ x \in Asked(last)
         /\ \A k \in Nat : x \in Chunk(k) => k = j
<1> DEFINE l == program[last].lower
           u == program[last].upper
           d == program[last].stride
           c == ChunkSize(program[last])
<1>1. l \in Int /\ u \in Int /\ d \in Nat \ {0} /\ c \in Nat \ {0}
  BY UpwardLoop
<1>2. \A k \in Nat : Chunk(k) = Part(l, u, d, c, k)
  BY Chunks
<1>3. Asked(last) = Iterations(l, u, d)
  BY DEF Asked
<1> HIDE DEF l, u, d, c
<1>4. x \in Part(l, u, d, c, j)
  BY <1>2
<1>5. x \in Iterations(l, u, d)
  BY <1>1, <1>4, PiecesApart
<1>6. ASSUME NEW k \in Nat, x \in Chunk(k) PROVE k = j
  <2>1. x \in Part(l, u, d, c, k)
    BY <1>2, <1>6
  <2>2. QED
    BY <1>1, <1>4, <2>1, PiecesApart
<1>7. QED
  BY <1>3, <1>5, <1>6

\* Every iteration is in one of them that begins in the loop.
LEMMA ChunksCover ==
  ASSUME AllUpward, DispatchType, last \in DOMAIN program,
         NEW x \in Asked(last)
  PROVE  \E j \in 0..IntMax : x \in Chunk(j) /\ ChunkLower(j) <= program[last].upper
<1> DEFINE l == program[last].lower
           u == program[last].upper
           d == program[last].stride
           c == ChunkSize(program[last])
<1>1. l \in Int /\ u \in Int /\ d \in Nat \ {0} /\ c \in Nat \ {0} /\ (u - l) + d <= IntMax
  BY UpwardLoop
<1>2. \A k \in Nat : Chunk(k) = Part(l, u, d, c, k) /\ ChunkLower(k) = l + k * (c * d)
  BY Chunks
<1>3. x \in Iterations(l, u, d)
  BY DEF Asked
<1> HIDE DEF l, u, d, c
<1>4. PICK j \in Nat : x \in Part(l, u, d, c, j) /\ PartLower(l, d, c, j) <= x
  BY <1>1, <1>3, PiecesCover
<1>5. x \in Int /\ x <= u
  BY <1>1, <1>3 DEF Iterations
<1>6. c * d \in Nat \ {0} /\ j * (c * d) \in Int /\ j <= j * (c * d)
  <2>1. c * d \in Nat \ {0}
    BY <1>1
  <2>2. QED
    BY <2>1
<1>7. ChunkLower(j) = l + j * (c * d) /\ ChunkLower(j) <= u
  BY <1>1, <1>2, <1>4, <1>5, <1>6 DEF PartLower
<1>8. j \in 0..IntMax
  BY <1>1, <1>6, <1>7, IntMaxAssumption
<1>9. QED
  BY <1>2, <1>4, <1>7, <1>8 DEF u

\* The frame of a step of thread i in the loop: what another thread has.
Same(j) ==
  /\ pc'[j] = pc[j] /\ loop_num'[j] = loop_num[j] /\ loop_id'[j] = loop_id[j]
  /\ lb'[j] = lb[j] /\ ub'[j] = ub[j]
  /\ Data'.iter_count[j] = Data.iter_count[j]

LEMMA LoopFrame ==
  ASSUME program' = program, last' = last
  PROVE  /\ \A j : /\ ChunkLower(j)' = ChunkLower(j) /\ ChunkUpper(j)' = ChunkUpper(j)
                   /\ Chunk(j)' = Chunk(j)
         /\ \A k : Asked(k)' = Asked(k)
<1>1. \A j : ChunkLower(j)' = ChunkLower(j)
  BY DEF ChunkLower, ChunkSize
<1>2. \A j : ChunkUpper(j)' = ChunkUpper(j)
  BY <1>1 DEF ChunkUpper, ChunkSize
<1>3. \A j : Chunk(j)' = Chunk(j)
  BY <1>1, <1>2 DEF Chunk
<1>4. QED
  BY <1>1, <1>2, <1>3 DEF Asked

LEMMA ThreadFrame ==
  ASSUME program' = program, last' = last,
         Data'.schedule = Data.schedule, NEW j, Same(j)
  PROVE  /\ Own(j)' = Own(j) /\ Left(j)' = Left(j)
         /\ Holds(j)' = Holds(j) /\ Through(j)' = Through(j)
<1>1. Own(j)' = Own(j)
  BY DEF Own, Same
<1>2. Left(j)' = Left(j)
  BY LoopFrame DEF Left, Same
<1>3. QED
  BY <1>1, <1>2 DEF Holds, Through, Same

\* A thread has only got what is left of a chunk of its own.
LEMMA LeftInChunk ==
  ASSUME AllUpward, DispatchType, last \in DOMAIN program, DataKept, Shared,
         NEW i \in Thread, NEW x \in Left(i)
  PROVE  Holds(i) /\ Own(i) \in HandedOut /\ Own(i) \in Nat /\ x \in Chunk(Own(i))
<1> DEFINE d == program[last].stride
           u == program[last].upper
<1>1. Holds(i)
  BY DEF Left, Holds
<1>2. Own(i) \in HandedOut
  BY <1>1 DEF Shared, SharedBy
<1>3. Own(i) \in Nat
  BY <1>2, IntMaxAssumption DEF HandedOut
<1>4. /\ d \in Nat \ {0} /\ u \in Int
      /\ Chunk(Own(i)) = Iterations(ChunkLower(Own(i)), ChunkUpper(Own(i)), d)
      /\ ChunkLower(Own(i)) \in Int /\ ChunkUpper(Own(i)) \in Int
  BY <1>3, UpwardLoop, Chunks
<1>5. CASE pc[i] = "bounds"
  <2>1. Data.schedule = "dynamic"
    BY <1>5 DEF Shared, SharedBy
  <2>2. Own(i) = loop_id[i]
    BY <2>1 DEF Own
  <2>3. x \in Chunk(Own(i))
    BY <1>5, <2>2 DEF Left
  <2>4. QED
    BY <1>1, <1>2, <1>3, <2>3
<1>6. CASE pc[i] \in {"run", "wait", "end_ordered"}
  <2>1. PICK q \in 0..IntMax : lb[i] = ChunkLower(Own(i)) + q * d
    BY <1>6 DEF Shared, SharedBy
  <2>2. q \in Nat /\ ub[i] = ChunkUpper(Own(i))
    BY <1>6, IntMaxAssumption DEF Shared, SharedBy
  <2>3. lb[i] \in Int /\ lb[i] + d \in Int /\ q * d \in Nat
    BY <1>4, <2>1, <2>2
  <2>4. \E r \in Nat : x \in Iterations(ChunkLower(Own(i)) + r * d, ChunkUpper(Own(i)), d)
    <3>1. (q + 1) * d = q * d + d /\ q + 1 \in Nat
      <4>1. d \in Int /\ q \in Int
        BY <1>4, <2>2
      <4> HIDE DEF d
      <4>2. QED
        BY <2>2, <4>1
    <3>2. lb[i] + d = ChunkLower(Own(i)) + (q + 1) * d
      BY <1>4, <2>1, <2>3, <3>1
    <3>3. CASE pc[i] \in {"run", "wait"}
      BY <2>1, <2>2, <3>3 DEF Left
    <3>4. CASE pc[i] = "end_ordered"
      BY <2>2, <3>1, <3>2, <3>4 DEF Left
    <3>5. QED
      BY <1>6, <3>3, <3>4
  <2>5. PICK r \in Nat : x \in Iterations(ChunkLower(Own(i)) + r * d, ChunkUpper(Own(i)), d)
    BY <2>4
  <2>6. x \in Chunk(Own(i))
    <3> DEFINE a == ChunkLower(Own(i))
               b == ChunkUpper(Own(i))
    <3>1. a \in Int /\ b \in Int /\ d \in Nat \ {0} /\ r * d \in Nat
      BY <1>4
    <3> HIDE DEF a, b, d
    <3>2. x \in Iterations(a + r * d, b, d)
      BY <2>5 DEF a, b
    <3>3. a + r * d \in Int
      BY <3>1
    <3>4. x \in Iterations(a + r * d, b, d) <=> \E k \in Nat : x = a + r * d + k * d /\ x <= b
      BY <3>1, <3>3, IterationsUp
    <3>5. PICK k \in Nat : x = a + r * d + k * d /\ x <= b
      BY <3>2, <3>4
    <3>6. a + r * d + k * d = a + (r + k) * d /\ r + k \in Nat
      BY <3>1
    <3>7. x \in Iterations(a, b, d)
      BY <3>1, <3>5, <3>6, IterationsUp
    <3>8. QED
      BY <1>4, <3>7 DEF a, b, d
  <2>7. QED
    BY <1>1, <1>2, <1>3, <2>6
<1>7. QED
  BY <1>1, <1>5, <1>6 DEF Holds

\* When as many chunks are each some thread's, there are no more of them.
LEMMA FewOver ==
  ASSUME NEW T \in SUBSET Thread, NEW a \in Int, NEW b \in Int,
         \A j \in a..b : \E k \in T : loop_id[k] = j
  PROVE  Cardinality(T) \in Nat /\ b - a + 1 <= Cardinality(T)
<1> DEFINE f == [j \in a..b |-> CHOOSE k \in T : loop_id[k] = j]
<1>1. IsFiniteSet(T) /\ Cardinality(T) \in Nat
  <2>1. IsFiniteSet(Thread)
    BY NumThreadsAssumption, FS_Interval DEF Thread
  <2>2. QED
    BY <2>1, FS_Subset, FS_CardinalityType
<1>2. IsFiniteSet(a..b) /\ Cardinality(a..b) = IF a > b THEN 0 ELSE b - a + 1
  BY FS_Interval
<1>3. \A j \in a..b : f[j] \in T /\ loop_id[f[j]] = j
  OBVIOUS
<1>4. f \in [a..b -> T]
  BY <1>3
<1> HIDE DEF f
<1>5. ~(Cardinality(T) < Cardinality(a..b))
  <2>1. SUFFICES ASSUME Cardinality(T) < Cardinality(a..b) PROVE FALSE
    OBVIOUS
  <2>2. \E x, y \in a..b : x # y /\ f[x] = f[y]
    BY <1>1, <1>2, <1>4, <2>1, FS_PigeonHole
  <2>3. QED
    BY <1>3, <2>2
<1>6. QED
  BY <1>1, <1>2, <1>5

LEMMA ThreadCount ==
  /\ IsFiniteSet(Thread) /\ Cardinality(Thread) = NumThreads
  /\ \A i \in Thread : Cardinality(Thread \ {i}) = NumThreads - 1
<1>1. IsFiniteSet(Thread) /\ Cardinality(Thread) = NumThreads
  <2>1. 0 \in Int /\ NumThreads - 1 \in Int /\ ~(0 > NumThreads - 1)
    BY NumThreadsAssumption
  <2>2. QED
    BY <2>1, FS_Interval, NumThreadsAssumption DEF Thread
<1>2. \A i \in Thread : Cardinality(Thread \ {i}) = NumThreads - 1
  BY <1>1, FS_RemoveElement
<1>3. QED
  BY <1>1, <1>2

\* How far the numbers of a dynamic loop go beyond its end: T are the threads
\* that may have taken one that does.
LEMMA CountBound ==
  ASSUME AllUpward, DispatchType, last \in DOMAIN program, DataKept, OverOnce,
         Data.schedule = "dynamic", last > 0,
         NEW T \in SUBSET Thread,
         \A k \in Thread : pc[k] = "bounds" \/ Through(k) => k \in T,
         NEW s, s = Data.schedule_count,
         NEW cd, cd = ChunkSize(program[last]) * program[last].stride
  PROVE  /\ s \in 0..IntMax /\ Cardinality(T) \in Nat /\ cd \in Nat \ {0}
         /\ (s - 1) * cd <= (program[last].upper - program[last].lower) + Cardinality(T) * cd
<1> DEFINE l == program[last].lower
           u == program[last].upper
           f == (u - l) \div cd + 1
           t == Cardinality(T)
<1>1. l \in Int /\ u \in Int /\ u - l \in Nat /\ cd \in Nat \ {0}
  <2>1. /\ l \in Int /\ u \in Int /\ l <= u
        /\ program[last].stride \in Nat \ {0} /\ ChunkSize(program[last]) \in Nat \ {0}
    BY UpwardLoop
  <2>2. QED
    BY <2>1
<1>2. s \in 0..IntMax
  BY DEF OverOnce
<1>3. \A j \in Nat : ChunkLower(j) = l + j * cd
  BY DEF ChunkLower
<1>4. Data.upper = u
  BY DEF DataKept
<1>5. f \in Int /\ (f - 1) * cd <= u - l /\ u - l < f * cd /\ f \in Nat \ {0}
  <2> DEFINE g == (u - l) \div cd
             h == (u - l) % cd
  <2>1. g \in Int /\ h \in Int /\ u - l = cd * g + h /\ 0 <= h /\ h < cd
    <3>1. u - l \in Int
      BY <1>1
    <3>2. QED
      BY <1>1, <3>1, DivMod
  <2>2. f = g + 1
    OBVIOUS
  <2> HIDE DEF f, g, h
  <2>3. (f - 1) * cd = cd * g /\ f * cd = cd * g + cd /\ cd * g \in Int
    BY <1>1, <2>1, <2>2
  <2>4. (f - 1) * cd <= u - l /\ u - l < f * cd
    BY <1>1, <2>1, <2>3
  <2>5. 0 * cd < f * cd
    BY <1>1, <2>1, <2>3, <2>4
  <2>6. 0 < f
    BY <1>1, <2>1, <2>2, <2>5, MulLess
  <2>7. QED
    BY <2>1, <2>2, <2>4, <2>6
<1> HIDE DEF f, l, u
<1>6. \A j \in f..(s - 1) : \E k \in T : loop_id[k] = j
  <2>1. SUFFICES ASSUME NEW j \in f..(s - 1) PROVE \E k \in T : loop_id[k] = j
    OBVIOUS
  <2>2. j \in Nat /\ j \in 0..IntMax /\ j < s
    BY <1>2, <1>5, IntMaxAssumption
  <2>3. j \in HandedOut
    BY <2>2 DEF HandedOut
  <2>4. f * cd <= j * cd
    BY <1>1, <1>5, <2>2, MulMono
  <2>5. ChunkLower(j) > u
    <3>1. j * cd \in Int /\ f * cd \in Int
      BY <1>1, <1>5, <2>2
    <3>2. QED
      BY <1>1, <1>3, <1>5, <2>2, <2>4, <3>1
  <2>6. PICK k \in Thread : loop_id[k] = j /\ (pc[k] = "bounds" \/ Through(k))
    BY <1>4, <2>3, <2>5 DEF OverOnce
  <2>7. QED
    BY <2>6
<1>7. t \in Nat /\ s - 1 - f + 1 <= t
  <2>1. f \in Int /\ s - 1 \in Int
    BY <1>2, <1>5, IntMaxAssumption
  <2>2. Cardinality(T) \in Nat /\ (s - 1) - f + 1 <= Cardinality(T)
    BY <1>6, <2>1, FewOver
  <2>3. QED
    BY <2>2
<1> HIDE DEF t
<1>8. (s - 1) * cd <= (u - l) + t * cd
  <2>1. s - 1 \in Int /\ f - 1 + t \in Int /\ s - 1 <= f - 1 + t
    BY <1>2, <1>5, <1>7, IntMaxAssumption
  <2>2. (s - 1) * cd <= (f - 1 + t) * cd
    BY <1>1, <2>1, MulMono
  <2>3. (f - 1 + t) * cd = (f - 1) * cd + t * cd /\ (f - 1) * cd \in Int /\ t * cd \in Int
        /\ (s - 1) * cd \in Int
    BY <1>1, <1>5, <1>7, <2>1
  <2>4. QED
    BY <1>1, <1>5, <2>2, <2>3
<1>9. QED
  BY <1>1, <1>2, <1>7, <1>8 DEF l, u, t

\* A step of thread i that leaves what the others have, and what the loop is.
Moves(i) ==
  /\ program' = program /\ last' = last
  /\ \A j \in Thread \ {i} : Same(j)
  /\ Data'.lower = Data.lower /\ Data'.upper = Data.upper /\ Data'.stride = Data.stride
  /\ Data'.chunk = Data.chunk /\ Data'.schedule = Data.schedule
  /\ HandedOut \subseteq HandedOut'
  /\ \A k \in DOMAIN program : k # last => times'[k] = times[k]

\* What is to be shown of such a step.
LEMMA MoveInv ==
  ASSUME WorkInv, last > 0, NEW i \in Thread, Moves(i),
         SharedBy(i)', ExhaustedBy(i)', OverOnce', RunOrLeft',
         \A j \in Thread \ {i} : Holds(i)' /\ Holds(j) => Own(i)' # Own(j)
  PROVE  WorkInv'
<1>1. /\ DataKept /\ OtherLoops /\ Shared /\ Exhausted
      /\ program' = program /\ last' = last /\ Data'.schedule = Data.schedule
  BY DEF WorkInv, Moves
<1>2. DataKept'
  BY <1>1 DEF DataKept, Moves, ChunkSize
<1>3. OtherLoops'
  <2>1. \A k : Asked(k)' = Asked(k)
    BY <1>1, LoopFrame
  <2>2. SUFFICES ASSUME NEW k \in DOMAIN program, k # last, NEW x \in CInt
                 PROVE  times'[k][x] = IF k < last /\ program[k].schedule # "other" /\ x \in Asked(k)
                                       THEN 1 ELSE 0
    BY <1>1, <2>1 DEF OtherLoops
  <2>3. times'[k] = times[k]
    BY <2>2 DEF Moves
  <2>4. QED
    BY <1>1, <2>2, <2>3 DEF OtherLoops
<1>4. \A j \in Thread \ {i} :
        /\ Same(j) /\ Own(j)' = Own(j) /\ Left(j)' = Left(j)
        /\ Holds(j)' = Holds(j) /\ Through(j)' = Through(j)
  <2>1. SUFFICES ASSUME NEW j \in Thread \ {i}
                 PROVE  /\ Same(j) /\ Own(j)' = Own(j) /\ Left(j)' = Left(j)
                        /\ Holds(j)' = Holds(j) /\ Through(j)' = Through(j)
    OBVIOUS
  <2>2. Same(j)
    BY DEF Moves
  <2>3. QED
    BY <1>1, <2>2, ThreadFrame
<1>5. ASSUME NEW j \in Thread \ {i} PROVE SharedBy(j)' /\ ExhaustedBy(j)'
  <2>1. /\ Same(j) /\ Own(j)' = Own(j) /\ Holds(j)' = Holds(j) /\ Through(j)' = Through(j)
        /\ SharedBy(j) /\ ExhaustedBy(j) /\ HandedOut \subseteq HandedOut'
        /\ Data'.upper = Data.upper
    BY <1>1, <1>4 DEF Shared, Exhausted, Moves
  <2>2. ChunkLower(Own(j))' = ChunkLower(Own(j)) /\ ChunkUpper(Own(j))' = ChunkUpper(Own(j))
    <3>1. ChunkLower(Own(j))' = ChunkLower(Own(j))
      BY <1>1, <2>1 DEF ChunkLower, ChunkSize
    <3>2. QED
      BY <1>1, <3>1 DEF ChunkUpper, ChunkSize
  <2>3. SharedBy(j)'
    BY <1>1, <2>1, <2>2 DEF SharedBy, Same
  <2>4. ExhaustedBy(j)'
    BY <1>1, <2>1, <2>2 DEF ExhaustedBy, Same
  <2>5. QED
    BY <2>3, <2>4
<1>6. Shared'
  <2>1. \A j \in Thread : SharedBy(j)'
    BY <1>5
  <2>2. \A j, k \in Thread : j # k /\ Holds(j) /\ Holds(k) => Own(j) # Own(k)
    BY <1>1 DEF Shared
  <2>3. \A j, k \in Thread : j # k /\ Holds(j)' /\ Holds(k)' => Own(j)' # Own(k)'
    BY <1>4, <2>2
  <2>4. QED
    BY <2>1, <2>3 DEF Shared
<1>7. Exhausted'
  BY <1>5 DEF Exhausted
<1>8. QED
  BY <1>2, <1>3, <1>6, <1>7 DEF WorkInv

\* Nothing is handed out, and the iterations of xs are run.
LEMMA MoveRuns ==
  ASSUME AllUpward, DispatchType, last \in DOMAIN program, WorkInv, last > 0,
         NEW i \in Thread, Moves(i), HandedOut' = HandedOut,
         NEW xs, xs \subseteq Left(i), Left(i)' = Left(i) \ xs,
         \A x \in CInt : times'[last][x] = times[last][x] + IF x \in xs THEN 1 ELSE 0
  PROVE  RunOrLeft'
<1>1. /\ program' = program /\ last' = last /\ Data'.schedule = Data.schedule
      /\ DataKept /\ Shared /\ RunOrLeft
  BY DEF Moves, WorkInv
<1>2. \A j \in Thread \ {i} : Left(j)' = Left(j)
  BY <1>1, ThreadFrame DEF Moves
<1>3. \A j : Chunk(j)' = Chunk(j)
  BY <1>1, LoopFrame
<1>4. SUFFICES ASSUME NEW x \in CInt
               PROVE  times'[last][x] =
                        IF (\E j \in HandedOut : x \in Chunk(j)) /\ ~(\E k \in Thread : x \in Left(k)')
                        THEN 1 ELSE 0
  BY <1>1, <1>3 DEF RunOrLeft
<1>5. times[last][x] =
        IF (\E j \in HandedOut : x \in Chunk(j)) /\ ~(\E k \in Thread : x \in Left(k)) THEN 1 ELSE 0
  BY <1>1 DEF RunOrLeft
<1>6. CASE x \notin xs
  <2>1. \A k \in Thread : x \in Left(k)' <=> x \in Left(k)
    BY <1>2, <1>6
  <2>2. times'[last][x] = times[last][x] + 0
    BY <1>6
  <2>3. QED
    BY <1>5, <2>1, <2>2
<1>7. CASE x \in xs
  <2>1. x \in Left(i) /\ x \notin Left(i)'
    BY <1>7
  <2>2. times[last][x] = 0
    BY <1>5, <2>1
  <2>3. times'[last][x] = 1
    BY <1>7, <2>2
  <2>4. Holds(i) /\ Own(i) \in HandedOut /\ Own(i) \in Nat /\ x \in Chunk(Own(i))
    BY <1>1, <2>1, LeftInChunk
  <2>5. ASSUME NEW k \in Thread \ {i}, x \in Left(k) PROVE FALSE
    <3>1. Holds(k) /\ Own(k) \in Nat /\ x \in Chunk(Own(k))
      BY <1>1, <2>5, LeftInChunk
    <3>2. Own(k) = Own(i)
      BY <2>4, <3>1, ChunksApart
    <3>3. QED
      BY <1>1, <2>4, <3>1, <3>2 DEF Shared
  <2>6. ~(\E k \in Thread : x \in Left(k)')
    BY <1>2, <2>1, <2>5
  <2>7. QED
    BY <2>3, <2>4, <2>6
<1>8. QED
  BY <1>6, <1>7

\* Thread i is given chunk m, and nothing is run.
LEMMA MoveGives ==
  ASSUME AllUpward, DispatchType, last \in DOMAIN program, WorkInv, last > 0,
         NEW i \in Thread, Moves(i),
         NEW m \in Nat, m \notin HandedOut, HandedOut' = HandedOut \cup {m},
         Left(i) = {}, Left(i)' = Chunk(m), times' = times
  PROVE  RunOrLeft'
<1>1. /\ program' = program /\ last' = last /\ Data'.schedule = Data.schedule
      /\ DataKept /\ Shared /\ RunOrLeft
  BY DEF Moves, WorkInv
<1>2. \A j \in Thread \ {i} : Left(j)' = Left(j)
  BY <1>1, ThreadFrame DEF Moves
<1>3. \A j : Chunk(j)' = Chunk(j)
  BY <1>1, LoopFrame
<1>4. SUFFICES ASSUME NEW x \in CInt
               PROVE  times'[last][x] =
                        IF (\E j \in HandedOut' : x \in Chunk(j)) /\ ~(\E k \in Thread : x \in Left(k)')
                        THEN 1 ELSE 0
  BY <1>1, <1>3 DEF RunOrLeft
<1>5. times'[last][x] =
        IF (\E j \in HandedOut : x \in Chunk(j)) /\ ~(\E k \in Thread : x \in Left(k)) THEN 1 ELSE 0
  BY <1>1 DEF RunOrLeft
<1>6. HandedOut \subseteq Nat
  BY IntMaxAssumption DEF HandedOut
<1>7. CASE x \in Chunk(m)
  <2>1. \A j \in HandedOut : x \notin Chunk(j)
    <3>1. \A j \in Nat : x \in Chunk(j) => j = m
      BY <1>7, ChunksApart
    <3>2. QED
      BY <1>6, <3>1
  <2>2. x \in Left(i)'
    BY <1>7
  <2>3. QED
    BY <1>5, <2>1, <2>2
<1>8. CASE x \notin Chunk(m)
  <2>1. \A k \in Thread : x \in Left(k)' <=> x \in Left(k)
    BY <1>2, <1>8
  <2>2. (\E j \in HandedOut' : x \in Chunk(j)) <=> (\E j \in HandedOut : x \in Chunk(j))
    BY <1>8
  <2>3. QED
    BY <1>5, <2>1, <2>2
<1>9. QED
  BY <1>7, <1>8

\* A step of thread i that hands nothing out.
Quiet(i) ==
  /\ program' = program /\ last' = last /\ last > 0 /\ last \in DOMAIN program
  /\ \A j \in Thread \ {i} : Same(j)
  /\ Data'.lower = Data.lower /\ Data'.upper = Data.upper /\ Data'.stride = Data.stride
  /\ Data'.chunk = Data.chunk /\ Data'.schedule = Data.schedule
  /\ Data'.iter_count = Data.iter_count /\ Data'.schedule_count = Data.schedule_count
  /\ loop_id' = loop_id
  /\ loop_num'[i] = last \/ loop_num'[i] = loop_num[i]

LEMMA QuietKeeps ==
  ASSUME NEW i \in Thread, Quiet(i)
  PROVE  HandedOut' = HandedOut /\ \A j : Own(j)' = Own(j)
<1>1. HandedOut' = HandedOut
  BY DEF HandedOut, Quiet
<1>2. \A j : Own(j)' = Own(j)
  BY DEF Own, Quiet
<1>3. QED
  BY <1>1, <1>2

LEMMA QuietInv ==
  ASSUME AllUpward, DispatchType, WorkInv, NEW i \in Thread, Quiet(i),
         ~Through(i), Holds(i)' => Holds(i), pc'[i] # "bounds",
         pc'[i] \in {"run", "wait", "end_ordered"} =>
           /\ ub'[i] = ChunkUpper(Own(i))
           /\ \E q \in 0..IntMax : lb'[i] = ChunkLower(Own(i)) + q * program[last].stride,
         pc'[i] \in {"wait", "end_ordered"} => lb'[i] <= ub'[i],
         Through(i)' =>
           /\ Data.schedule \in {"static", "chunked"} => Data.iter_count[i] > 0
           /\ Data.schedule = "chunked" => ChunkLower(Own(i)) > Data.upper
           /\ Data.schedule = "dynamic" =>
                Own(i) \in HandedOut /\ ChunkLower(Own(i)) > Data.upper,
         pc[i] = "bounds" /\ ChunkLower(loop_id[i]) > Data.upper => Through(i)',
         NEW xs, xs \subseteq Left(i), Left(i)' = Left(i) \ xs,
         \A x \in CInt : times'[last][x] = times[last][x] + IF x \in xs THEN 1 ELSE 0,
         \A k \in DOMAIN program : k # last => times'[k] = times[k]
  PROVE  WorkInv'
<1>1. /\ DataKept /\ OtherLoops /\ Shared /\ Exhausted /\ OverOnce
      /\ program' = program /\ last' = last /\ last > 0 /\ last \in DOMAIN program
  BY DEF WorkInv, Quiet
<1>2. HandedOut' = HandedOut /\ Own(i)' = Own(i)
  BY QuietKeeps
<1>3. Moves(i)
  BY <1>2 DEF Moves, Quiet
<1>4. /\ \A j : ChunkLower(j)' = ChunkLower(j)
      /\ \A j : ChunkUpper(j)' = ChunkUpper(j)
  BY <1>1, LoopFrame
<1>5. ChunkLower(Own(i))' = ChunkLower(Own(i)) /\ ChunkUpper(Own(i))' = ChunkUpper(Own(i))
  <2>1. ChunkLower(Own(i))' = ChunkLower(Own(i))
    BY <1>1, <1>2 DEF ChunkLower, ChunkSize
  <2>2. QED
    BY <1>1, <2>1 DEF ChunkUpper, ChunkSize
<1>6. /\ Data'.iter_count = Data.iter_count /\ Data'.schedule = Data.schedule
      /\ Data'.upper = Data.upper
  BY DEF Quiet
<1>7. SharedBy(i)'
  <2>1. SharedBy(i)
    BY <1>1 DEF Shared
  <2>2. Data'.iter_count[i] >= 0 /\ (loop_num'[i] # last' => Data'.iter_count[i] = 0)
    BY <1>1, <1>6, <2>1 DEF SharedBy, Quiet
  <2>3. Holds(i)' => Data'.schedule # "other" /\ Own(i)' \in HandedOut'
    BY <1>2, <1>6, <2>1 DEF SharedBy
  <2>4. pc'[i] \in {"run", "wait", "end_ordered"} =>
           /\ ub'[i] = ChunkUpper(Own(i))'
           /\ \E q \in 0..IntMax : lb'[i] = ChunkLower(Own(i))' + q * program'[last'].stride
    BY <1>1, <1>5
  <2>5. QED
    BY <1>1, <2>2, <2>3, <2>4 DEF SharedBy
<1>8. ExhaustedBy(i)'
  <2>1. ExhaustedBy(i)
    BY <1>1 DEF Exhausted
  <2>2. QED
    BY <1>2, <1>5, <1>6, <2>1 DEF ExhaustedBy
<1>9. \A j \in Thread \ {i} : Holds(i)' /\ Holds(j) => Own(i)' # Own(j)
  BY <1>1, <1>2 DEF Shared
<1>10. OverOnce'
  <2>1. SUFFICES ASSUME Data.schedule = "dynamic"
                 PROVE  /\ Data.schedule_count \in 0..IntMax
                        /\ \A j \in HandedOut :
                             ChunkLower(j) > Data.upper =>
                               \E k \in Thread : loop_id[k] = j /\ (pc'[k] = "bounds" \/ Through(k)')
    BY <1>2, <1>4, <1>6 DEF OverOnce, Quiet
  <2>2. Data.schedule_count \in 0..IntMax
    BY <1>1, <2>1 DEF OverOnce
  <2>3. SUFFICES ASSUME NEW j \in HandedOut, ChunkLower(j) > Data.upper
                 PROVE  \E k \in Thread : loop_id[k] = j /\ (pc'[k] = "bounds" \/ Through(k)')
    BY <2>2
  <2>4. PICK k \in Thread : loop_id[k] = j /\ (pc[k] = "bounds" \/ Through(k))
    BY <1>1, <2>1, <2>3 DEF OverOnce
  <2>5. CASE k = i
    <3>1. pc[i] = "bounds" /\ loop_id[i] = j
      BY <2>4, <2>5
    <3>2. Through(i)'
      BY <2>3, <3>1
    <3>3. QED
      BY <3>1, <3>2
  <2>6. CASE k # i
    <3>1. Same(k)
      BY <2>6 DEF Quiet
    <3>2. pc'[k] = pc[k] /\ (Through(k)' <=> Through(k))
      BY <1>1, <3>1 DEF Same, Through
    <3>3. QED
      BY <2>4, <3>2
  <2>7. QED
    BY <2>5, <2>6
<1>11. RunOrLeft'
  BY <1>1, <1>2, <1>3, MoveRuns
<1>12. QED
  BY <1>1, <1>3, <1>7, <1>8, <1>9, <1>10, <1>11, MoveInv

LEMMA WithinQuiet ==
  ASSUME DispatchType, NEW i \in Thread, Within(i), NEW v, pc' = [pc EXCEPT ![i] = v],
         loop_id' = loop_id,
         \A j \in Thread \ {i} : lb'[j] = lb[j] /\ ub'[j] = ub[j],
         Data'.lower = Data.lower /\ Data'.upper = Data.upper /\ Data'.stride = Data.stride
         /\ Data'.chunk = Data.chunk /\ Data'.schedule = Data.schedule
         /\ Data'.iter_count = Data.iter_count /\ Data'.schedule_count = Data.schedule_count
  PROVE  Quiet(i) /\ pc'[i] = v /\ loop_num'[i] = last
<1>1. pc'[i] = v /\ \A j \in Thread \ {i} : pc'[j] = pc[j]
  BY DEF DispatchType
<1>2. \A j \in Thread \ {i} : Same(j)
  BY <1>1 DEF Same, Within
<1>3. QED
  BY <1>1, <1>2 DEF Quiet, Within

LEMMA TimesType ==
  ASSUME DispatchType, last \in DOMAIN program
  PROVE  times[last] \in [CInt -> Nat]
BY DEF DispatchType

LEMMA TimesStay ==
  ASSUME DispatchType, last \in DOMAIN program, times' = times
  PROVE  /\ \A x \in CInt : times'[last][x] = times[last][x] + IF x \in {} THEN 1 ELSE 0
         /\ \A k \in DOMAIN program : k # last => times'[k] = times[k]
<1>1. ASSUME NEW x \in CInt PROVE times'[last][x] = times[last][x] + IF x \in {} THEN 1 ELSE 0
  <2>1. times[last][x] \in Nat
    BY TimesType
  <2>2. QED
    BY <2>1
<1>2. QED
  BY <1>1

\* What a step runs is added.
LEMMA TimesRun ==
  ASSUME DispatchType, last \in DOMAIN program, NEW xs, Execute(last, xs)
  PROVE  /\ \A x \in CInt : times'[last][x] = times[last][x] + IF x \in xs THEN 1 ELSE 0
         /\ \A k \in DOMAIN program : k # last => times'[k] = times[k]
<1> DEFINE f == [x \in CInt |-> times[last][x] + IF x \in xs THEN 1 ELSE 0]
<1>1. times' = [times EXCEPT ![last] = f]
  BY DEF Execute
<1>2. \A x \in CInt : f[x] = times[last][x] + IF x \in xs THEN 1 ELSE 0
  OBVIOUS
<1>3. times \in [DOMAIN program -> [CInt -> Nat]]
  BY DEF DispatchType
<1> HIDE DEF f
<1>4. times'[last] = f /\ \A k \in DOMAIN program : k # last => times'[k] = times[k]
  BY <1>1, <1>3
<1>5. QED
  BY <1>2, <1>4

\* A step that neither hands out nor runs.
LEMMA QuietStays ==
  ASSUME AllUpward, DispatchType, WorkInv, NEW i \in Thread, Quiet(i),
         ~Through(i), Holds(i)' => Holds(i), pc'[i] # "bounds",
         pc'[i] \in {"run", "wait", "end_ordered"} =>
           /\ ub'[i] = ChunkUpper(Own(i))
           /\ \E q \in 0..IntMax : lb'[i] = ChunkLower(Own(i)) + q * program[last].stride,
         pc'[i] \in {"wait", "end_ordered"} => lb'[i] <= ub'[i],
         Through(i)' =>
           /\ Data.schedule \in {"static", "chunked"} => Data.iter_count[i] > 0
           /\ Data.schedule = "chunked" => ChunkLower(Own(i)) > Data.upper
           /\ Data.schedule = "dynamic" =>
                Own(i) \in HandedOut /\ ChunkLower(Own(i)) > Data.upper,
         pc[i] = "bounds" /\ ChunkLower(loop_id[i]) > Data.upper => Through(i)',
         Left(i)' = Left(i), times' = times
  PROVE  WorkInv'
<1> DEFINE xs == {}
<1>1. last \in DOMAIN program
  BY DEF Quiet
<1>2. /\ \A x \in CInt : times'[last][x] = times[last][x] + IF x \in xs THEN 1 ELSE 0
      /\ \A k \in DOMAIN program : k # last => times'[k] = times[k]
  BY <1>1, TimesStay
<1>3. xs \subseteq Left(i) /\ Left(i)' = Left(i) \ xs
  OBVIOUS
<1> HIDE DEF xs
<1>4. QED
  BY <1>2, <1>3, QuietInv

\* The step to kmp_next; what is left when it returns 0 to the thread at once.
LEMMA TakePointerWork ==
  ASSUME AllUpward, RoundInv, WorkInv, NEW i \in Thread, TakePointer(i)
  PROVE  WorkInv'
<1>1. /\ Within(i) /\ pc[i] = "pointer" /\ pc' = [pc EXCEPT ![i] = "next"] /\ Data' = Data
      /\ loop_id' = loop_id /\ lb' = lb /\ ub' = ub /\ times' = times
  BY TakePointerEffect
<1>2. DispatchType /\ last \in DOMAIN program
  BY <1>1 DEF RoundInv, Within
<1>3. Quiet(i) /\ pc'[i] = "next"
  BY <1>1, <1>2, WithinQuiet
<1>4. /\ ~Through(i) /\ ~Through(i)' /\ ~(Holds(i)')
  BY <1>1, <1>3 DEF Through, Holds
<1>5. Left(i) = {} /\ Left(i)' = {}
  BY <1>1, <1>3 DEF Left
<1>6. QED
  BY <1>1, <1>2, <1>3, <1>4, <1>5, QuietStays

LEMMA NextOtherWork ==
  ASSUME AllUpward, RoundInv, WorkInv, NEW i \in Thread, NextOther(i)
  PROVE  WorkInv'
<1>1. /\ Within(i) /\ pc[i] = "next" /\ pc' = [pc EXCEPT ![i] = AfterLoop(i)] /\ Data' = Data
      /\ Data.schedule = "other"
      /\ loop_id' = loop_id /\ lb' = lb /\ ub' = ub /\ times' = times
  BY NextOtherEffect
<1>2. DispatchType /\ last \in DOMAIN program
  BY <1>1 DEF RoundInv, Within
<1>3. Quiet(i) /\ pc'[i] = AfterLoop(i)
  BY <1>1, <1>2, WithinQuiet
<1>4. pc'[i] \in {"body", "barrier"}
  BY <1>3 DEF AfterLoop
<1>5. /\ ~Through(i) /\ ~(Holds(i)')
  BY <1>1, <1>4 DEF Through, Holds
<1>6. Left(i) = {} /\ Left(i)' = {}
  BY <1>1, <1>4 DEF Left
<1>7. QED
  BY <1>1, <1>2, <1>3, <1>4, <1>5, <1>6, QuietStays

LEMMA RunChunkWork ==
  ASSUME AllUpward, RoundInv, WorkInv, NEW i \in Thread, RunChunk(i)
  PROVE  WorkInv'
<1>1. /\ Within(i) /\ pc[i] = "run" /\ pc' = [pc EXCEPT ![i] = "pointer"] /\ Data' = Data
      /\ loop_id' = loop_id /\ lb' = lb /\ ub' = ub
      /\ Execute(last, Iterations(lb[i], ub[i], program[last].stride))
  BY RunChunkEffect
<1>2. DispatchType /\ last \in DOMAIN program
  BY <1>1 DEF RoundInv, Within
<1>3. Quiet(i) /\ pc'[i] = "pointer"
  BY <1>1, <1>2, WithinQuiet
<1>4. /\ ~Through(i) /\ ~Through(i)' /\ ~(Holds(i)')
  BY <1>1, <1>3 DEF Through, Holds
<1>5. Left(i) = Iterations(lb[i], ub[i], program[last].stride) /\ Left(i)' = {}
  BY <1>1, <1>3 DEF Left
<1>6. /\ \A x \in CInt : times'[last][x] = times[last][x] + IF x \in Left(i) THEN 1 ELSE 0
      /\ \A k \in DOMAIN program : k # last => times'[k] = times[k]
  <2>1. Execute(last, Left(i))
    BY <1>1, <1>5
  <2>2. QED
    BY <1>2, <2>1, TimesRun
<1>7. Left(i)' = Left(i) \ Left(i)
  BY <1>5
<1>8. QED
  BY <1>1, <1>2, <1>3, <1>4, <1>6, <1>7, QuietInv

\* The bounds of a thread in its chunk.
LEMMA OwnRange ==
  ASSUME AllUpward, DispatchType, last \in DOMAIN program, DataKept, Shared,
         NEW i \in Thread, pc[i] \in {"run", "wait", "end_ordered"},
         NEW d, d = program[last].stride
  PROVE  /\ Own(i) \in HandedOut /\ Own(i) \in Nat /\ d \in Nat \ {0}
         /\ ub[i] = ChunkUpper(Own(i)) /\ ub[i] \in Int /\ ub[i] <= program[last].upper
         /\ program[last].upper \in Int
         /\ ChunkLower(Own(i)) \in Int /\ lb[i] \in Int
         /\ \E q \in 0..IntMax :
              /\ lb[i] = ChunkLower(Own(i)) + q * d
              /\ lb[i] <= ub[i] => q + 1 \in 0..IntMax
                                   /\ lb[i] + d = ChunkLower(Own(i)) + (q + 1) * d
<1> DEFINE a == ChunkLower(Own(i))
           u == program[last].upper
           l == program[last].lower
<1>1. SharedBy(i) /\ Holds(i)
  BY DEF Shared, Holds
<1>2. Own(i) \in HandedOut /\ Own(i) \in Nat
  BY <1>1, IntMaxAssumption DEF SharedBy, HandedOut
<1>3. /\ l \in Int /\ u \in Int /\ d \in Nat \ {0} /\ (u - l) + d <= IntMax
      /\ ChunkSize(program[last]) \in Nat \ {0}
  BY UpwardLoop
<1>4. ub[i] = ChunkUpper(Own(i))
  BY <1>1 DEF SharedBy
<1>5. a \in Int /\ ChunkUpper(Own(i)) \in Int
  BY <1>2, Chunks
<1>6. l <= a
  <2>1. a = l + Own(i) * (ChunkSize(program[last]) * d)
    BY DEF ChunkLower
  <2> HIDE DEF a, l
  <2>2. Own(i) * (ChunkSize(program[last]) * d) \in Nat
    BY <1>2, <1>3
  <2>3. QED
    BY <1>3, <2>1, <2>2
<1>7. ub[i] <= u
  <2> DEFINE y == ChunkLower(Own(i)) + (ChunkSize(program[last]) - 1) * program[last].stride
  <2>1. y \in Int
    BY <1>3, <1>5
  <2>2. ub[i] = Clipped(y, u)
    BY <1>4 DEF ChunkUpper
  <2> HIDE DEF y, u
  <2>3. QED
    BY <1>3, <2>1, <2>2 DEF Clipped
<1>8. PICK q \in 0..IntMax : lb[i] = a + q * d
  BY <1>1 DEF SharedBy
<1> HIDE DEF a, u, l
<1>9. q \in Nat /\ q * d \in Nat /\ lb[i] \in Int /\ (q + 1) * d = q * d + d
  BY <1>3, <1>5, <1>8, IntMaxAssumption
<1>10. lb[i] + d = a + (q + 1) * d
  BY <1>3, <1>5, <1>8, <1>9
<1>11. ASSUME lb[i] <= ub[i] PROVE q + 1 \in 0..IntMax
  <2>1. (q + 1) * d <= IntMax
    BY <1>3, <1>4, <1>5, <1>6, <1>7, <1>8, <1>9, <1>11, IntMaxAssumption
  <2>2. q + 1 <= (q + 1) * d
    BY <1>3, <1>9
  <2>3. QED
    BY <1>3, <1>9, <2>1, <2>2, IntMaxAssumption
<1>12. QED
  BY <1>2, <1>3, <1>4, <1>5, <1>7, <1>8, <1>9, <1>10, <1>11 DEF a, u

LEMMA StartOrderedWork ==
  ASSUME AllUpward, RoundInv, WorkInv, NEW i \in Thread, StartOrdered(i)
  PROVE  WorkInv'
<1>1. /\ Within(i) /\ pc[i] = "run" /\ Data' = Data
      /\ pc' = [pc EXCEPT ![i] = IF lb[i] > ub[i] THEN "pointer" ELSE "wait"]
      /\ loop_id' = loop_id /\ lb' = lb /\ ub' = ub /\ times' = times
  BY StartOrderedEffect
<1>2. DispatchType /\ last \in DOMAIN program /\ DataKept /\ Shared /\ SharedBy(i)
  BY <1>1 DEF RoundInv, Within, WorkInv, Shared
<1>3. Quiet(i) /\ pc'[i] = IF lb[i] > ub[i] THEN "pointer" ELSE "wait"
  BY <1>1, <1>2, WithinQuiet
<1>4. /\ ~Through(i) /\ ~Through(i)' /\ Holds(i)
  BY <1>1, <1>3 DEF Through, Holds
<1>5. lb[i] \in Int /\ ub[i] \in Int /\ program[last].stride \in Nat \ {0}
  BY <1>1, <1>2, OwnRange
<1>6. Left(i)' = Left(i)
  <2>1. Left(i) = Iterations(lb[i], ub[i], program[last].stride)
    BY <1>1 DEF Left
  <2>2. CASE lb[i] > ub[i]
    <3>1. Left(i)' = {}
      BY <1>3, <2>2 DEF Left
    <3>2. lb[i]..ub[i] = {}
      BY <1>5, <2>2
    <3>3. Iterations(lb[i], ub[i], program[last].stride) = {}
      BY <1>5, <3>2 DEF Iterations
    <3>4. QED
      BY <2>1, <3>1, <3>3
  <2>3. CASE ~(lb[i] > ub[i])
    BY <1>1, <1>3, <2>1, <2>3 DEF Left, Within
  <2>4. QED
    BY <2>2, <2>3
<1>7. /\ pc'[i] \in {"wait", "end_ordered"} => lb'[i] <= ub'[i]
      /\ ub'[i] = ChunkUpper(Own(i))
      /\ \E q \in 0..IntMax : lb'[i] = ChunkLower(Own(i)) + q * program[last].stride
  <2>1. pc'[i] \in {"wait", "end_ordered"} => lb'[i] <= ub'[i]
    BY <1>1, <1>3, <1>5
  <2>2. QED
    BY <1>1, <1>2, <2>1 DEF SharedBy
<1>8. pc'[i] # "bounds" /\ pc[i] # "bounds"
  BY <1>1, <1>3
<1>9. QED
  BY <1>1, <1>2, <1>3, <1>4, <1>6, <1>7, <1>8, QuietStays

LEMMA OrderedWork ==
  ASSUME AllUpward, RoundInv, WorkInv, NEW i \in Thread, Ordered(i)
  PROVE  WorkInv'
<1>1. /\ Within(i) /\ pc[i] = "wait" /\ Data' = Data
      /\ pc' = [pc EXCEPT ![i] = "end_ordered"]
      /\ loop_id' = loop_id /\ lb' = lb /\ ub' = ub /\ Execute(last, {lb[i]})
  BY OrderedEffect
<1>2. DispatchType /\ last \in DOMAIN program /\ DataKept /\ Shared /\ SharedBy(i)
  BY <1>1 DEF RoundInv, Within, WorkInv, Shared
<1>3. Quiet(i) /\ pc'[i] = "end_ordered"
  BY <1>1, <1>2, WithinQuiet
<1>4. /\ ~Through(i) /\ ~Through(i)' /\ Holds(i)
  BY <1>1, <1>3 DEF Through, Holds
<1>5. lb[i] \in Int /\ ub[i] \in Int /\ program[last].stride \in Nat \ {0}
  BY <1>1, <1>2, OwnRange
<1>6. lb[i] <= ub[i]
  BY <1>1, <1>2 DEF SharedBy
<1>7. /\ {lb[i]} \subseteq Left(i) /\ Left(i)' = Left(i) \ {lb[i]}
  <2>1. /\ Left(i) = Iterations(lb[i], ub[i], program[last].stride)
        /\ Left(i)' = Iterations(lb[i] + program[last].stride, ub[i], program[last].stride)
    BY <1>1, <1>3 DEF Left, Within
  <2>2. QED
    BY <1>5, <1>6, <2>1, FirstIteration
<1>8. /\ \A x \in CInt : times'[last][x] = times[last][x] + IF x \in {lb[i]} THEN 1 ELSE 0
      /\ \A k \in DOMAIN program : k # last => times'[k] = times[k]
  BY <1>1, <1>2, TimesRun
<1>9. /\ pc'[i] \in {"wait", "end_ordered"} => lb'[i] <= ub'[i]
      /\ ub'[i] = ChunkUpper(Own(i))
      /\ \E q \in 0..IntMax : lb'[i] = ChunkLower(Own(i)) + q * program[last].stride
  BY <1>1, <1>2, <1>6 DEF SharedBy
<1>10. pc'[i] # "bounds" /\ pc[i] # "bounds"
  BY <1>1, <1>3
<1>11. QED
  BY <1>2, <1>3, <1>4, <1>7, <1>8, <1>9, <1>10, QuietInv

LEMMA EndOrderedWork ==
  ASSUME AllUpward, RoundInv, WorkInv, NEW i \in Thread, EndOrdered(i)
  PROVE  WorkInv'
<1>1. /\ Within(i) /\ pc[i] = "end_ordered" /\ Data' = [Data EXCEPT !.ordered_count = @ + 1]
      /\ pc' = [pc EXCEPT ![i] = "run"]
      /\ loop_id' = loop_id /\ ub' = ub /\ times' = times
      /\ lb' = [lb EXCEPT ![i] = @ + program[last].stride]
  BY EndOrderedEffect
<1>2. DispatchType /\ last \in DOMAIN program /\ DataKept /\ Shared /\ SharedBy(i)
  BY <1>1 DEF RoundInv, Within, WorkInv, Shared
<1>3. Quiet(i) /\ pc'[i] = "run"
  <2>1. Data'.lower = Data.lower /\ Data'.upper = Data.upper /\ Data'.stride = Data.stride
        /\ Data'.chunk = Data.chunk /\ Data'.schedule = Data.schedule
        /\ Data'.iter_count = Data.iter_count /\ Data'.schedule_count = Data.schedule_count
    <3>1. Data \in LoopData
      BY <1>1 DEF Within
    <3>2. QED
      BY <1>1, <3>1 DEF LoopData
  <2>2. \A j \in Thread \ {i} : lb'[j] = lb[j] /\ ub'[j] = ub[j]
    BY <1>1, <1>2 DEF DispatchType
  <2>3. QED
    BY <1>1, <1>2, <2>1, <2>2, WithinQuiet
<1>4. /\ ~Through(i) /\ ~Through(i)' /\ Holds(i)
  BY <1>1, <1>3 DEF Through, Holds
<1>5. lb'[i] = lb[i] + program[last].stride
  BY <1>1, <1>2 DEF DispatchType
<1>6. lb[i] <= ub[i]
  BY <1>1, <1>2 DEF SharedBy
<1>7. Left(i)' = Left(i)
  BY <1>1, <1>3, <1>5 DEF Left, Within
<1>8. /\ ub'[i] = ChunkUpper(Own(i))
      /\ \E q \in 0..IntMax : lb'[i] = ChunkLower(Own(i)) + q * program[last].stride
  <2> DEFINE d == program[last].stride
  <2>1. pc[i] \in {"run", "wait", "end_ordered"}
    BY <1>1
  <2>2. /\ ub[i] = ChunkUpper(Own(i))
        /\ \E q \in 0..IntMax :
             lb[i] <= ub[i] => q + 1 \in 0..IntMax
                               /\ lb[i] + d = ChunkLower(Own(i)) + (q + 1) * d
    BY <1>2, <2>1, OwnRange
  <2>3. QED
    BY <1>1, <1>5, <1>6, <2>2
<1>9. pc'[i] \notin {"bounds", "wait", "end_ordered"} /\ pc[i] # "bounds"
  BY <1>1, <1>3
<1>10. QED
  BY <1>1, <1>2, <1>3, <1>4, <1>7, <1>8, <1>9, QuietStays

\* A step that hands out chunk m, to be run or, when it is over the end, not.
LEMMA GivesInv ==
  ASSUME AllUpward, DispatchType, WorkInv, NEW i \in Thread, Within(i),
         NEW v, pc[i] = "next", pc' = [pc EXCEPT ![i] = v],
         Data'.lower = Data.lower /\ Data'.upper = Data.upper /\ Data'.stride = Data.stride
         /\ Data'.chunk = Data.chunk /\ Data'.schedule = Data.schedule,
         \A j \in Thread \ {i} :
           /\ lb'[j] = lb[j] /\ ub'[j] = ub[j] /\ loop_id'[j] = loop_id[j]
           /\ Data'.iter_count[j] = Data.iter_count[j],
         NEW m \in 0..IntMax, m \notin HandedOut, HandedOut' = HandedOut \cup {m}, Own(i)' = m,
         Data'.iter_count[i] >= 0, Data.schedule # "other",
         \/ v = "bounds" /\ Data.schedule = "dynamic" /\ loop_id'[i] = m
         \/ v = "run" /\ lb'[i] = ChunkLower(m) /\ ub'[i] = ChunkUpper(m)
         \/ v \in {"body", "barrier"} /\ ChunkLower(m) > program[last].upper,
         ExhaustedBy(i)', OverOnce', times' = times
  PROVE  WorkInv'
<1>1. /\ last > 0 /\ last \in DOMAIN program /\ program' = program /\ last' = last
      /\ loop_num' = loop_num /\ loop_num[i] = last /\ Shared /\ DataKept
  BY DEF Within, WorkInv
<1>2. pc'[i] = v /\ \A j \in Thread \ {i} : pc'[j] = pc[j]
  BY DEF DispatchType
<1>3. \A j \in Thread \ {i} : Same(j)
  BY <1>1, <1>2 DEF Same
<1>4. Moves(i)
  BY <1>1, <1>3 DEF Moves
<1>5. m \in Nat /\ m \in HandedOut'
  BY IntMaxAssumption
<1>6. /\ ChunkLower(m)' = ChunkLower(m) /\ ChunkUpper(m)' = ChunkUpper(m) /\ Chunk(m)' = Chunk(m)
  BY <1>1, LoopFrame
<1>7. /\ Chunk(m) = Iterations(ChunkLower(m), ChunkUpper(m), program[last].stride)
      /\ ChunkLower(m) > program[last].upper => Chunk(m) = {}
      /\ ChunkLower(m) \in Int /\ program[last].stride \in Nat \ {0}
  BY <1>1, <1>5, Chunks, UpwardLoop
<1>8. SharedBy(i)'
  <2>1. /\ ChunkUpper(Own(i))' = ChunkUpper(m) /\ ChunkLower(Own(i))' = ChunkLower(m)
    <3>1. ChunkLower(Own(i))' = ChunkLower(m)
      BY <1>1 DEF ChunkLower, ChunkSize
    <3>2. QED
      BY <1>1, <3>1 DEF ChunkUpper, ChunkSize
  <2>2. Data'.iter_count[i] >= 0 /\ loop_num'[i] = last'
    BY <1>1
  <2>3. Data'.schedule # "other" /\ Own(i)' \in HandedOut'
    BY <1>5
  <2>4. pc'[i] = "bounds" => Data'.schedule = "dynamic"
    BY <1>2
  <2>5. pc'[i] \notin {"wait", "end_ordered"}
    BY <1>2
  <2>6. ASSUME pc'[i] = "run"
        PROVE  /\ ub'[i] = ChunkUpper(Own(i))'
               /\ \E q \in 0..IntMax : lb'[i] = ChunkLower(Own(i))' + q * program'[last'].stride
    <3>1. lb'[i] = ChunkLower(m) /\ ub'[i] = ChunkUpper(m)
      BY <1>2, <2>6
    <3>2. 0 \in 0..IntMax /\ ChunkLower(m) = ChunkLower(m) + 0 * program[last].stride
      BY <1>7, IntMaxAssumption
    <3>3. QED
      BY <1>1, <2>1, <3>1, <3>2
  <2>7. QED
    BY <2>2, <2>3, <2>4, <2>5, <2>6 DEF SharedBy
<1>9. Left(i) = {} /\ ~Holds(i)
  BY DEF Left, Holds
<1>10. Left(i)' = Chunk(m)
  <2>1. CASE v = "bounds" /\ loop_id'[i] = m
    <3>1. Left(i)' = Chunk(loop_id[i])'
      BY <1>2, <2>1 DEF Left
    <3>2. Chunk(loop_id[i])' = Chunk(m)'
      BY <2>1 DEF Chunk, ChunkUpper, ChunkLower
    <3>3. QED
      BY <1>6, <3>1, <3>2
  <2>2. CASE v = "run" /\ lb'[i] = ChunkLower(m) /\ ub'[i] = ChunkUpper(m)
    BY <1>1, <1>2, <1>7, <2>2 DEF Left
  <2>3. CASE v \in {"body", "barrier"} /\ ChunkLower(m) > program[last].upper
    BY <1>2, <1>7, <2>3 DEF Left
  <2>4. QED
    BY <2>1, <2>2, <2>3
<1>11. RunOrLeft'
  BY <1>1, <1>4, <1>5, <1>9, <1>10, MoveGives
<1>12. \A j \in Thread \ {i} : Holds(i)' /\ Holds(j) => Own(i)' # Own(j)
  <2>1. \A j \in Thread \ {i} : Holds(j) => Own(j) \in HandedOut
    BY <1>1 DEF Shared, SharedBy
  <2>2. QED
    BY <2>1
<1>13. QED
  BY <1>1, <1>4, <1>8, <1>11, <1>12, MoveInv

LEMMA NextStaticWork ==
  ASSUME AllUpward, RoundInv, WorkInv, NEW i \in Thread, NextStatic(i)
  PROVE  WorkInv'
<1> DEFINE block == StaticInit(i, NumThreads, Data.lower, Data.upper, Data.stride)
           f == Quot(block.lower, Data.stride)
           t == Quot(block.upper, Data.stride)
           bl == block.lower
           bu == block.upper
<1>1. /\ Within(i) /\ pc[i] = "next" /\ Data.schedule = "static"
      /\ loop_id' = loop_id /\ times' = times
      /\ \/ /\ Data.iter_count[i] > 0
            /\ pc' = [pc EXCEPT ![i] = AfterLoop(i)]
            /\ Data' = Data /\ lb' = lb /\ ub' = ub
         \/ /\ ~(Data.iter_count[i] > 0)
            /\ pc' = [pc EXCEPT ![i] = "run"]
            /\ Data' = [Data EXCEPT
                 !.schedule_count = @ + 1, !.iter_count[i] = 1,
                 !.first_iter[i] = f, !.last_iter[i] = t]
            /\ lb' = [lb EXCEPT ![i] = bl] /\ ub' = [ub EXCEPT ![i] = bu]
  BY NextStaticEffect
<1>2. DispatchType /\ last \in DOMAIN program /\ DataKept /\ Shared /\ SharedBy(i) /\ last > 0
  BY <1>1 DEF RoundInv, Within, WorkInv, Shared
<1>3. i \in 0..IntMax /\ ChunkLower(i) = bl /\ ChunkUpper(i) = bu
  <2> DEFINE l == program[last].lower
             u == program[last].upper
             d == program[last].stride
             c == ChunkSize(program[last])
  <2>1. program[last].schedule = "static" /\ Data.lower = l /\ Data.upper = u /\ Data.stride = d
    BY <1>1, <1>2 DEF DataKept
  <2>2. /\ NumThreads <= IntMax /\ i \in Nat /\ i <= NumThreads - 1 /\ NumThreads \in Int
        /\ StaticInit(i, NumThreads, l, u, d) =
             [lower |-> l + i * (c * d), upper |-> Clipped(l + i * (c * d) + (c - 1) * d, u)]
    BY <1>2, <2>1, UpwardLoop, NumThreadsAssumption DEF Thread
  <2>3. block = [lower |-> ChunkLower(i), upper |-> ChunkUpper(i)]
    BY <2>1, <2>2 DEF ChunkLower, ChunkUpper
  <2>4. QED
    BY <2>2, <2>3, IntMaxAssumption
<1> HIDE DEF f, t, bl, bu
<1>4. CASE Data.iter_count[i] > 0
  <2>1. pc' = [pc EXCEPT ![i] = AfterLoop(i)] /\ Data' = Data /\ lb' = lb /\ ub' = ub
    BY <1>1, <1>4
  <2>2. Quiet(i) /\ pc'[i] = AfterLoop(i)
    BY <1>1, <1>2, <2>1, WithinQuiet
  <2>3. pc'[i] \in {"body", "barrier"}
    BY <2>2 DEF AfterLoop
  <2>4. ~Through(i) /\ ~(Holds(i)')
    BY <1>1, <2>3 DEF Through, Holds
  <2>5. Left(i)' = Left(i)
    BY <1>1, <2>3 DEF Left
  <2>6. QED
    BY <1>1, <1>2, <1>4, <2>2, <2>3, <2>4, <2>5, QuietStays
<1>5. CASE ~(Data.iter_count[i] > 0)
  <2>1. /\ pc' = [pc EXCEPT ![i] = "run"]
        /\ Data' = [Data EXCEPT
             !.schedule_count = @ + 1, !.iter_count[i] = 1,
             !.first_iter[i] = f, !.last_iter[i] = t]
        /\ lb' = [lb EXCEPT ![i] = bl] /\ ub' = [ub EXCEPT ![i] = bu]
    BY <1>1, <1>5
  <2>2. Data \in LoopData /\ Data.iter_count \in [Thread -> Int]
    BY <1>1 DEF Within, LoopData
  <2>3. /\ Data'.lower = Data.lower /\ Data'.upper = Data.upper /\ Data'.stride = Data.stride
        /\ Data'.chunk = Data.chunk /\ Data'.schedule = Data.schedule
        /\ Data'.iter_count = [Data.iter_count EXCEPT ![i] = 1]
    BY <2>1, <2>2 DEF LoopData
  <2>4. /\ lb'[i] = ChunkLower(i) /\ ub'[i] = ChunkUpper(i)
        /\ \A j \in Thread \ {i} : lb'[j] = lb[j] /\ ub'[j] = ub[j] /\ loop_id'[j] = loop_id[j]
    BY <1>1, <1>2, <1>3, <2>1 DEF DispatchType
  <2>5. /\ Data'.iter_count[i] = 1
        /\ \A j \in Thread \ {i} : Data'.iter_count[j] = Data.iter_count[j]
    BY <2>2, <2>3
  <2>6. HandedOut = {j \in 0..IntMax : j \in Thread /\ Data.iter_count[j] > 0}
    BY <1>1 DEF HandedOut
  <2>7. HandedOut' = {j \in 0..IntMax : j \in Thread /\ Data'.iter_count[j] > 0}
    BY <1>1, <2>3 DEF HandedOut
  <2>8. i \notin HandedOut /\ HandedOut' = HandedOut \cup {i}
    BY <1>3, <1>5, <2>5, <2>6, <2>7
  <2>9. Own(i)' = i
    BY <1>1, <2>3 DEF Own
  <2>10. pc'[i] = "run"
    BY <1>2, <2>1 DEF DispatchType
  <2>11. ExhaustedBy(i)' /\ OverOnce'
    BY <1>1, <2>3, <2>10 DEF ExhaustedBy, Through, OverOnce
  <2>12. Data'.iter_count[i] >= 0 /\ Data.schedule # "other"
    BY <1>1, <2>5
  <2>13. QED
    BY <1>1, <1>2, <1>3, <2>1, <2>3, <2>4, <2>5, <2>8, <2>9, <2>11, <2>12, GivesInv
<1>6. QED
  BY <1>4, <1>5

\* The number of a chunk, in a loop of chunks dealt in turn.
LEMMA TurnParts ==
  ASSUME NEW j \in Nat
  PROVE  /\ j \div NumThreads \in Nat /\ j % NumThreads \in Thread
         /\ j = (j % NumThreads) + NumThreads * (j \div NumThreads)
<1>1. NumThreads \in Nat \ {0}
  BY NumThreadsAssumption
<1>2. /\ j \div NumThreads \in Int /\ j % NumThreads \in Int
      /\ j = NumThreads * (j \div NumThreads) + (j % NumThreads)
      /\ 0 <= j % NumThreads /\ j % NumThreads < NumThreads
  BY <1>1, DivMod
<1>3. j \div NumThreads \in Nat
  BY <1>1
<1>4. j % NumThreads \in Thread
  BY <1>1, <1>2 DEF Thread
<1>5. NumThreads * (j \div NumThreads) \in Int
  BY <1>1, <1>2
<1>6. QED
  BY <1>2, <1>3, <1>4, <1>5

LEMMA TurnOf ==
  ASSUME NEW i \in Thread, NEW n \in Nat
  PROVE  /\ i + NumThreads * n \in Nat
         /\ (i + NumThreads * n) \div NumThreads = n /\ (i + NumThreads * n) % NumThreads = i
<1>1. i \in Nat /\ i < NumThreads /\ NumThreads \in Nat \ {0}
  BY NumThreadsAssumption DEF Thread
<1>2. i + NumThreads * n \in Nat /\ i + NumThreads * n = NumThreads * n + i
  BY <1>1
<1>3. (NumThreads * n + i) \div NumThreads = n /\ (NumThreads * n + i) % NumThreads = i
  BY <1>1, DivUnique
<1>4. QED
  BY <1>2, <1>3

\* The bounds of the next of them are computed right.
LEMMA ChunkedBounds ==
  ASSUME AllUpward, DispatchType, last \in DOMAIN program, DataKept, last > 0,
         NEW i \in Thread, ExhaustedBy(i), SharedBy(i), ~Through(i), Data.schedule = "chunked",
         NEW n, n = Data.iter_count[i], n \in Int, NEW m, m = i + NumThreads * n
  PROVE  /\ n \in Nat /\ m \in 0..IntMax
         /\ Wrap(Data.lower + Data.chunk * (i + NumThreads * Data.stride * n)) = ChunkLower(m)
         /\ Clipped(Wrap(ChunkLower(m) + Data.stride * (Data.chunk - 1)), Data.upper) = ChunkUpper(m)
<1> DEFINE l == program[last].lower
           u == program[last].upper
           d == program[last].stride
           c == ChunkSize(program[last])
<1>1. /\ l \in Int /\ u \in Int /\ d = 1 /\ c \in Nat \ {0} /\ l \in CInt /\ l <= u
      /\ (u - l) + (NumThreads + 1) * (c * d) <= IntMax
      /\ u + (NumThreads + 1) * (c * d) <= IntMax
      /\ Data.lower = l /\ Data.upper = u /\ Data.stride = d /\ Data.chunk = c
  <2>1. /\ Data.lower = l /\ Data.upper = u /\ Data.stride = d /\ Data.chunk = c
        /\ program[last].schedule = "chunked"
    BY DEF DataKept
  <2>2. QED
    BY <2>1, UpwardLoop
<1>2. n \in Nat
  BY DEF SharedBy
<1>3. m \in Nat /\ i \in Nat /\ i <= NumThreads - 1 /\ NumThreads \in Nat \ {0}
  <2>1. m \in Nat
    BY <1>2, TurnOf
  <2>2. QED
    BY <2>1, NumThreadsAssumption DEF Thread
<1>4. ChunkLower(m) = l + m * c
  BY <1>1, <1>3 DEF ChunkLower
<1>5. ChunkUpper(m) = Clipped(ChunkLower(m) + (c - 1) * d, u)
  BY DEF ChunkUpper
<1>6. n > 0 => l + (i + NumThreads * (n - 1)) * c <= u
  <2>1. Own(i) = i + NumThreads * (n - 1)
    BY DEF Own
  <2>2. n > 0 => ChunkLower(Own(i)) <= u
    BY <1>1 DEF ExhaustedBy
  <2>3. n > 0 => Own(i) \in Nat
    BY <1>2, <2>1, TurnOf
  <2>4. ChunkLower(Own(i)) = l + Own(i) * (c * d)
    BY DEF ChunkLower
  <2>5. n > 0 => ChunkLower(Own(i)) = l + Own(i) * c
    BY <1>1, <2>3, <2>4
  <2>6. QED
    BY <2>1, <2>2, <2>5
<1> HIDE DEF l, u, d, c
<1>7. m * c <= (u - l) + NumThreads * c
  <2>1. CASE n = 0
    <3>1. m = i
      BY <1>3, <2>1
    <3>2. m * c <= NumThreads * c /\ m * c \in Int /\ NumThreads * c \in Int
      BY <1>1, <1>3, <3>1, MulMono
    <3>3. QED
      BY <1>1, <3>2
  <2>2. CASE n # 0
    <3> DEFINE k == i + NumThreads * (n - 1)
    <3>1. n > 0 /\ n - 1 \in Nat
      BY <1>2, <2>2
    <3>2. k \in Nat
      BY <3>1, TurnOf
    <3>3. m = k + NumThreads
      BY <1>2, <1>3, <3>1
    <3>4. l + k * c <= u
      BY <1>6, <3>1
    <3> HIDE DEF k
    <3>5. m * c = k * c + NumThreads * c /\ k * c \in Int /\ NumThreads * c \in Int
      BY <1>1, <1>3, <3>2, <3>3
    <3>6. QED
      BY <1>1, <3>4, <3>5
  <2>3. QED
    BY <2>1, <2>2
<1>8. /\ m * c \in Nat /\ (NumThreads + 1) * (c * d) = NumThreads * c + c /\ NumThreads * c \in Int
      /\ (c - 1) * d = c - 1 /\ d * (c - 1) = c - 1
  BY <1>1, <1>3
<1>9. ChunkLower(m) \in CInt /\ ChunkLower(m) + (c - 1) \in CInt
  BY <1>1, <1>4, <1>7, <1>8, IntMaxAssumption DEF CInt
<1>10. m \in 0..IntMax
  <2>1. m <= m * c
    BY <1>1, <1>3, MulGrows
  <2>2. QED
    BY <1>1, <1>3, <1>7, <1>8, <2>1, IntMaxAssumption
<1>11. c * (i + NumThreads * d * n) = m * c
  <2>1. NumThreads * d * n = NumThreads * n
    BY <1>1, <1>2, <1>3
  <2>2. QED
    BY <1>1, <1>3, <2>1
<1>12. Wrap(Data.lower + Data.chunk * (i + NumThreads * Data.stride * n)) = ChunkLower(m)
  <2>1. Data.lower + Data.chunk * (i + NumThreads * Data.stride * n) = ChunkLower(m)
    BY <1>1, <1>4, <1>11
  <2>2. QED
    BY <1>9, <2>1, WrapId
<1>13. Clipped(Wrap(ChunkLower(m) + Data.stride * (Data.chunk - 1)), Data.upper) = ChunkUpper(m)
  <2>1. ChunkLower(m) + Data.stride * (Data.chunk - 1) = ChunkLower(m) + (c - 1) * d
    BY <1>1, <1>8
  <2>2. Wrap(ChunkLower(m) + Data.stride * (Data.chunk - 1)) = ChunkLower(m) + (c - 1) * d
    BY <1>8, <1>9, <2>1, WrapId
  <2>3. QED
    BY <1>1, <1>5, <2>2
<1>14. QED
  BY <1>2, <1>10, <1>12, <1>13

LEMMA NextChunkedWork ==
  ASSUME AllUpward, RoundInv, WorkInv, NEW i \in Thread, NextChunked(i)
  PROVE  WorkInv'
<1> DEFINE n == Data.iter_count[i]
           m == i + NumThreads * n
           lower == Wrap(Data.lower + Data.chunk * (i + NumThreads * Data.stride * n))
           upper == Clipped(Wrap(lower + Data.stride * (Data.chunk - 1)), Data.upper)
           f == i + n * Data.stride * NumThreads
           v == IF lower > Data.upper THEN AfterLoop(i) ELSE "run"
<1>1. /\ Within(i) /\ pc[i] = "next" /\ Data.schedule = "chunked"
      /\ loop_id' = loop_id /\ times' = times
      /\ pc' = [pc EXCEPT ![i] = v]
      /\ Data' = [Data EXCEPT
           !.schedule_count = @ + Data.chunk, !.iter_count[i] = n + 1,
           !.first_iter[i] = f, !.last_iter[i] = f + Data.stride]
      /\ lb' = [lb EXCEPT ![i] = lower] /\ ub' = [ub EXCEPT ![i] = upper]
  BY NextChunkedEffect
<1>2. /\ DispatchType /\ last \in DOMAIN program /\ DataKept /\ SharedBy(i) /\ ExhaustedBy(i)
      /\ last > 0 /\ program' = program /\ last' = last /\ loop_num' = loop_num
  BY <1>1 DEF RoundInv, Within, WorkInv, Shared, Exhausted
<1>3. Data \in LoopData /\ Data.iter_count \in [Thread -> Int] /\ n \in Int
  BY <1>1 DEF Within, LoopData
<1>4. n \in Nat /\ m \in 0..IntMax /\ lower = ChunkLower(m) /\ upper = ChunkUpper(m)
  <2>1. ~Through(i)
    BY <1>1 DEF Through
  <2>2. /\ n \in Nat /\ m \in 0..IntMax /\ lower = ChunkLower(m)
        /\ Clipped(Wrap(ChunkLower(m) + Data.stride * (Data.chunk - 1)), Data.upper) = ChunkUpper(m)
    BY <1>1, <1>2, <1>3, <2>1, ChunkedBounds
  <2>3. QED
    BY <2>2
<1>5. Data.upper = program[last].upper
  BY <1>2 DEF DataKept
<1>6. \/ v = "run" /\ ~(ChunkLower(m) > Data.upper)
      \/ v \in {"body", "barrier"} /\ ChunkLower(m) > Data.upper
  BY <1>4 DEF AfterLoop
<1>7. m \in Nat /\ ChunkLower(m) \in Int /\ Data.upper \in Int
  <2>1. m \in Nat
    BY <1>4, IntMaxAssumption
  <2>2. QED
    BY <1>2, <1>5, <2>1, Chunks, UpwardLoop
<1>8. m \div NumThreads = n /\ m % NumThreads = i /\ \A j \in Nat :
        j % NumThreads = i /\ j \div NumThreads = n => j = m
  <2>1. m \div NumThreads = n /\ m % NumThreads = i
    BY <1>4, TurnOf
  <2>2. \A j \in Nat : j = (j % NumThreads) + NumThreads * (j \div NumThreads)
    BY TurnParts
  <2>3. QED
    BY <2>1, <2>2
<1>9. \A j \in 0..IntMax : j \in Nat /\ j \div NumThreads \in Nat /\ j % NumThreads \in Thread
  BY TurnParts, IntMaxAssumption
<1> HIDE DEF lower, upper, f, v, n, m
<1>10. /\ Data'.lower = Data.lower /\ Data'.upper = Data.upper /\ Data'.stride = Data.stride
       /\ Data'.chunk = Data.chunk /\ Data'.schedule = Data.schedule
       /\ Data'.iter_count = [Data.iter_count EXCEPT ![i] = n + 1]
  BY <1>1, <1>3 DEF LoopData
<1>11. /\ lb'[i] = ChunkLower(m) /\ ub'[i] = ChunkUpper(m)
       /\ \A j \in Thread \ {i} : lb'[j] = lb[j] /\ ub'[j] = ub[j] /\ loop_id'[j] = loop_id[j]
  BY <1>1, <1>2, <1>4 DEF DispatchType
<1>12. /\ Data'.iter_count[i] = n + 1
       /\ \A j \in Thread \ {i} : Data'.iter_count[j] = Data.iter_count[j]
  BY <1>3, <1>10
<1>13. HandedOut = {j \in 0..IntMax : j \div NumThreads < Data.iter_count[j % NumThreads]}
  BY <1>1 DEF HandedOut
<1>14. HandedOut' = {j \in 0..IntMax : j \div NumThreads < Data'.iter_count[j % NumThreads]}
  BY <1>1, <1>10 DEF HandedOut
<1>15. Data.iter_count[i] = n
  BY DEF n
<1>16. m \notin HandedOut
  BY <1>4, <1>8, <1>13, <1>15
<1>17. HandedOut' = HandedOut \cup {m}
  <2>1. ASSUME NEW j \in 0..IntMax
        PROVE  j \div NumThreads < Data'.iter_count[j % NumThreads]
                 <=> (j \div NumThreads < Data.iter_count[j % NumThreads] \/ j = m)
    <3>1. j \in Nat /\ j \div NumThreads \in Nat /\ j % NumThreads \in Thread
      BY <1>9
    <3>2. CASE j % NumThreads = i
      <4>1. j = m <=> j \div NumThreads = n
        BY <1>8, <3>1, <3>2
      <4>2. j \div NumThreads < n + 1 <=> j \div NumThreads < n \/ j \div NumThreads = n
        BY <1>4, <3>1
      <4>3. QED
        BY <1>12, <1>15, <3>2, <4>1, <4>2
    <3>3. CASE j % NumThreads # i
      <4>1. j # m
        BY <1>8, <3>3
      <4>2. Data'.iter_count[j % NumThreads] = Data.iter_count[j % NumThreads]
        BY <1>12, <3>1, <3>3
      <4>3. QED
        BY <4>1, <4>2
    <3>4. QED
      BY <3>2, <3>3
  <2>2. QED
    BY <1>4, <1>13, <1>14, <2>1
<1>18. Own(i)' = m
  <2>1. Own(i)' = i + NumThreads * (Data'.iter_count[i] - 1)
    BY <1>1, <1>10 DEF Own
  <2>2. Data'.iter_count[i] - 1 = n
    BY <1>4, <1>12
  <2>3. QED
    BY <2>1, <2>2 DEF m
<1>19. pc'[i] = v
  BY <1>1, <1>2 DEF DispatchType
<1>20. ExhaustedBy(i)'
  <2>1. ChunkLower(Own(i))' = ChunkLower(m)
    BY <1>2, <1>18 DEF ChunkLower, ChunkSize
  <2>2. Data'.schedule = "chunked" /\ Data'.upper = Data.upper /\ Data'.iter_count[i] > 0
    BY <1>1, <1>4, <1>10, <1>12
  <2>3. Through(i)' <=> pc'[i] \in {"body", "barrier"}
    BY <1>1, <1>2 DEF Through, Within
  <2>4. CASE v = "run" /\ ~(ChunkLower(m) > Data.upper)
    <3>1. ~(Through(i)') /\ ChunkLower(m) <= Data.upper
      BY <1>7, <1>19, <2>3, <2>4
    <3>2. QED
      BY <2>1, <2>2, <3>1 DEF ExhaustedBy
  <2>5. CASE v \in {"body", "barrier"} /\ ChunkLower(m) > Data.upper
    <3>1. Through(i)'
      BY <1>19, <2>3, <2>5
    <3>2. QED
      BY <2>1, <2>2, <2>5, <3>1 DEF ExhaustedBy
  <2>6. QED
    BY <1>6, <2>4, <2>5
<1>21. OverOnce'
  BY <1>1, <1>10 DEF OverOnce
<1>22. Data'.iter_count[i] >= 0 /\ Data.schedule # "other"
  BY <1>1, <1>4, <1>12
<1>23. \/ v = "run" /\ lb'[i] = ChunkLower(m) /\ ub'[i] = ChunkUpper(m)
       \/ v \in {"body", "barrier"} /\ ChunkLower(m) > program[last].upper
  BY <1>5, <1>6, <1>11
<1>24. QED
  BY <1>1, <1>2, <1>4, <1>10, <1>11, <1>12, <1>16, <1>17, <1>18, <1>20, <1>21, <1>22, <1>23, GivesInv

\* What a dynamic loop has of its bounds.
LEMMA DynamicLoop ==
  ASSUME AllUpward, DispatchType, last \in DOMAIN program, DataKept, last > 0,
         Data.schedule = "dynamic",
         NEW l, l = program[last].lower, NEW u, u = program[last].upper,
         NEW cd, cd = ChunkSize(program[last]) * program[last].stride
  PROVE  /\ l \in CInt /\ l \in Int /\ u \in Int /\ l <= u /\ cd \in Nat \ {0}
         /\ (u - l) + (NumThreads + 1) * cd <= IntMax /\ u + (NumThreads + 1) * cd <= IntMax
         /\ Data.lower = l /\ Data.upper = u /\ Data.stride = program[last].stride
         /\ Data.chunk = ChunkSize(program[last])
<1>1. /\ Data.lower = l /\ Data.upper = u /\ Data.stride = program[last].stride
      /\ program[last].schedule = "dynamic" /\ Data.chunk = ChunkSize(program[last])
  BY DEF DataKept
<1>2. /\ l \in CInt /\ l \in Int /\ u \in Int /\ l <= u
      /\ program[last].stride \in Nat \ {0} /\ ChunkSize(program[last]) \in Nat \ {0}
      /\ (u - l) + (NumThreads + 1) * cd <= IntMax /\ u + (NumThreads + 1) * cd <= IntMax
  BY <1>1, UpwardLoop
<1>3. \A a, b \in Nat \ {0} : a * b \in Nat \ {0}
  OBVIOUS
<1>4. cd \in Nat \ {0}
  BY <1>2, <1>3
<1>5. QED
  BY <1>1, <1>2, <1>4

LEMMA FetchWork ==
  ASSUME AllUpward, RoundInv, WorkInv, NEW i \in Thread, Fetch(i)
  PROVE  WorkInv'
<1> DEFINE s == Data.schedule_count
           l == program[last].lower
           u == program[last].upper
           cd == ChunkSize(program[last]) * program[last].stride
           T == Thread \ {i}
<1>1. /\ Within(i) /\ pc[i] = "next" /\ pc' = [pc EXCEPT ![i] = "bounds"]
      /\ Data.schedule = "dynamic" /\ lb' = lb /\ ub' = ub /\ times' = times
      /\ loop_id' = [loop_id EXCEPT ![i] = s]
      /\ Data' = [Data EXCEPT !.schedule_count = Wrap(@ + 1)] /\ s \in Int
  BY FetchEffect
<1>2. /\ DispatchType /\ last \in DOMAIN program /\ DataKept /\ SharedBy(i) /\ ExhaustedBy(i)
      /\ last > 0 /\ program' = program /\ last' = last /\ loop_num' = loop_num /\ OverOnce
  BY <1>1 DEF RoundInv, Within, WorkInv, Shared, Exhausted
<1>3. /\ l \in Int /\ u \in Int /\ cd \in Nat \ {0} /\ (u - l) + (NumThreads + 1) * cd <= IntMax
      /\ l <= u
  BY <1>1, <1>2, DynamicLoop
<1>4. s \in 0..IntMax /\ (s - 1) * cd <= (u - l) + (NumThreads - 1) * cd
  <2>1. T \in SUBSET Thread
    OBVIOUS
  <2>2. Cardinality(T) = NumThreads - 1
    BY ThreadCount
  <2>3. \A k \in Thread : pc[k] = "bounds" \/ Through(k) => k \in T
    BY <1>1 DEF Through
  <2> HIDE DEF T, cd
  <2>4. /\ s \in 0..IntMax
        /\ (s - 1) * cd <= (program[last].upper - program[last].lower) + Cardinality(T) * cd
    BY <1>1, <1>2, <2>1, <2>3, CountBound DEF cd
  <2>5. QED
    BY <2>2, <2>4
<1> HIDE DEF l, u, cd, T
<1>5. s + 1 \in 0..IntMax /\ s \in Nat
  <2>1. s \in Nat /\ NumThreads \in Nat \ {0}
    BY <1>4, IntMaxAssumption, NumThreadsAssumption
  <2>2. /\ (s + 1) * cd = (s - 1) * cd + cd + cd /\ (s - 1) * cd \in Int /\ (s + 1) * cd \in Int
        /\ (NumThreads + 1) * cd = (NumThreads - 1) * cd + cd + cd
        /\ (NumThreads - 1) * cd \in Int
    BY <1>3, <2>1
  <2>3. (s + 1) * cd <= IntMax
    BY <1>3, <1>4, <2>2, IntMaxAssumption
  <2>4. s + 1 <= (s + 1) * cd
    BY <1>3, <2>1, MulGrows
  <2>5. QED
    BY <2>1, <2>2, <2>3, <2>4, IntMaxAssumption
<1>6. Wrap(s + 1) = s + 1
  <2>1. s + 1 \in CInt
    BY <1>5, IntMaxAssumption DEF CInt
  <2>2. QED
    BY <2>1, WrapId
<1>7. Data \in LoopData
  BY <1>1 DEF Within
<1>8. /\ Data'.lower = Data.lower /\ Data'.upper = Data.upper /\ Data'.stride = Data.stride
      /\ Data'.chunk = Data.chunk /\ Data'.schedule = Data.schedule
      /\ Data'.iter_count = Data.iter_count /\ Data'.schedule_count = s + 1
  BY <1>1, <1>6, <1>7 DEF LoopData
<1> HIDE DEF s
<1>9. /\ loop_id'[i] = s /\ \A j \in Thread \ {i} : loop_id'[j] = loop_id[j]
  BY <1>1, <1>2 DEF DispatchType
<1>10. /\ pc'[i] = "bounds" /\ \A j \in Thread \ {i} : pc'[j] = pc[j]
  BY <1>1, <1>2 DEF DispatchType
<1>11. HandedOut = {j \in 0..IntMax : j < s}
  BY <1>1 DEF HandedOut, s
<1>12. HandedOut' = {j \in 0..IntMax : j < s + 1}
  BY <1>1, <1>8 DEF HandedOut
<1>13. s \notin HandedOut /\ HandedOut' = HandedOut \cup {s}
  BY <1>4, <1>5, <1>11, <1>12, IntMaxAssumption
<1>14. Own(i)' = s
  BY <1>1, <1>8, <1>9 DEF Own
<1>15. ExhaustedBy(i)'
  BY <1>1, <1>8, <1>10 DEF ExhaustedBy, Through
<1>16. OverOnce'
  <2>1. Data'.schedule_count \in 0..IntMax
    BY <1>5, <1>8
  <2>2. \A j : ChunkLower(j)' = ChunkLower(j)
    BY <1>2, LoopFrame
  <2>3. ASSUME NEW j \in HandedOut', ChunkLower(j) > Data.upper
        PROVE  \E k \in Thread : loop_id'[k] = j /\ (pc'[k] = "bounds" \/ Through(k)')
    <3>1. CASE j = s
      BY <1>9, <1>10, <3>1
    <3>2. CASE j \in HandedOut
      <4>1. PICK k \in Thread : loop_id[k] = j /\ (pc[k] = "bounds" \/ Through(k))
        BY <1>1, <1>2, <2>3, <3>2 DEF OverOnce
      <4>2. k # i
        BY <1>1, <4>1 DEF Through
      <4>3. loop_id'[k] = j /\ pc'[k] = pc[k] /\ (Through(k)' <=> Through(k))
        BY <1>2, <1>9, <1>10, <4>1, <4>2 DEF Through
      <4>4. QED
        BY <4>1, <4>3
    <3>3. QED
      BY <1>13, <3>1, <3>2
  <2>4. QED
    BY <1>8, <2>1, <2>2, <2>3 DEF OverOnce
<1>17. Data'.iter_count[i] >= 0 /\ Data.schedule # "other"
  BY <1>1, <1>2, <1>8 DEF SharedBy
<1>18. \A j \in Thread \ {i} :
           /\ lb'[j] = lb[j] /\ ub'[j] = ub[j] /\ loop_id'[j] = loop_id[j]
           /\ Data'.iter_count[j] = Data.iter_count[j]
  BY <1>1, <1>8, <1>9
<1>19. Data'.lower = Data.lower /\ Data'.upper = Data.upper /\ Data'.stride = Data.stride
       /\ Data'.chunk = Data.chunk /\ Data'.schedule = Data.schedule
  BY <1>8
<1>20. QED
  BY <1>1, <1>2, <1>4, <1>9, <1>13, <1>14, <1>15, <1>16, <1>17, <1>18, <1>19, GivesInv

LEMMA BoundsWork ==
  ASSUME AllUpward, RoundInv, WorkInv, NEW i \in Thread, Bounds(i)
  PROVE  WorkInv'
<1> DEFINE j == loop_id[i]
           lower == Wrap(Data.lower + loop_id[i] * Data.stride * Data.chunk)
           y == Wrap(lower + (Data.chunk - 1) * Data.stride)
           upper == Clipped(y, Data.upper)
           v == IF lower > Data.upper THEN AfterLoop(i) ELSE "run"
           s == Data.schedule_count
           l == program[last].lower
           u == program[last].upper
           c == ChunkSize(program[last])
           d == program[last].stride
           cd == c * d
<1>1. /\ Within(i) /\ pc[i] = "bounds" /\ pc' = [pc EXCEPT ![i] = v]
      /\ loop_id' = loop_id /\ times' = times
      /\ Data' = [Data EXCEPT
           !.first_iter[i] = loop_id[i], !.last_iter[i] = loop_id[i] + Data.chunk]
      /\ lb' = [lb EXCEPT ![i] = lower] /\ ub' = [ub EXCEPT ![i] = upper]
  BY BoundsEffect
<1>2. /\ DispatchType /\ last \in DOMAIN program /\ DataKept /\ SharedBy(i) /\ Shared
      /\ last > 0 /\ program' = program /\ last' = last /\ loop_num' = loop_num /\ OverOnce
  BY <1>1 DEF RoundInv, Within, WorkInv, Shared
<1>3. Data.schedule = "dynamic" /\ Holds(i) /\ Own(i) = j /\ j \in HandedOut
  <2>1. Data.schedule = "dynamic" /\ Holds(i)
    BY <1>1, <1>2 DEF SharedBy, Holds
  <2>2. Own(i) = j
    BY <2>1 DEF Own
  <2>3. QED
    BY <1>2, <2>1, <2>2 DEF SharedBy
<1>4. /\ l \in Int /\ l \in CInt /\ u \in Int /\ cd \in Nat \ {0} /\ u + (NumThreads + 1) * cd <= IntMax
      /\ l <= u /\ Data.lower = l /\ Data.upper = u /\ Data.stride = d /\ Data.chunk = c
  BY <1>2, <1>3, DynamicLoop
<1>5. c \in Nat \ {0} /\ d \in Nat \ {0}
  BY <1>2, UpwardLoop
<1>6. j \in 0..IntMax /\ j \in Nat /\ j < s
  BY <1>3, IntMaxAssumption DEF HandedOut
<1>7. s \in 0..IntMax /\ (s - 1) * cd <= (u - l) + NumThreads * cd
  <2>1. Thread \in SUBSET Thread
    OBVIOUS
  <2>2. Cardinality(Thread) = NumThreads
    BY ThreadCount
  <2>3. \A k \in Thread : pc[k] = "bounds" \/ Through(k) => k \in Thread
    OBVIOUS
  <2> HIDE DEF cd
  <2>4. /\ s \in 0..IntMax
        /\ (s - 1) * cd <= (program[last].upper - program[last].lower) + Cardinality(Thread) * cd
    BY <1>2, <1>3, <2>1, <2>3, CountBound DEF cd
  <2>5. QED
    BY <2>2, <2>4
<1>8. ChunkLower(j) = l + j * cd /\ ChunkUpper(j) = Clipped(ChunkLower(j) + (c - 1) * d, u)
  BY DEF ChunkLower, ChunkUpper
<1>9. ChunkLower(j) \in CInt /\ ChunkLower(j) + (c - 1) * d \in CInt /\ ChunkLower(j) \in Int
  <2>1. (c - 1) * d \in Nat /\ (c - 1) * d <= cd
    <3>1. (c - 1) * d = cd - d /\ c - 1 \in Nat
      BY <1>5
    <3>2. (c - 1) * d \in Nat
      BY <1>5, <3>1
    <3>3. QED
      BY <1>4, <1>5, <3>1, <3>2
  <2> HIDE DEF l, u, cd, s, j, c, d
  <2>2. s \in Int /\ NumThreads \in Nat \ {0} /\ j <= s - 1
    BY <1>6, <1>7, IntMaxAssumption, NumThreadsAssumption
  <2>3. j * cd <= (s - 1) * cd
    BY <1>4, <1>6, <2>2, MulMono
  <2>4. (NumThreads + 1) * cd = NumThreads * cd + cd /\ NumThreads * cd \in Int
        /\ j * cd \in Nat /\ (s - 1) * cd \in Int
    BY <1>4, <1>6, <2>2
  <2>5. ChunkLower(j) \in Int /\ l <= ChunkLower(j) /\ ChunkLower(j) <= u + NumThreads * cd
    BY <1>4, <1>7, <1>8, <2>3, <2>4
  <2>6. QED
    BY <1>4, <2>1, <2>4, <2>5, IntMaxAssumption DEF CInt
<1>10. lower = ChunkLower(j)
  <2>1. j * d * c = j * cd
    BY <1>5, <1>6
  <2>2. Data.lower + loop_id[i] * Data.stride * Data.chunk = ChunkLower(j)
    BY <1>4, <1>8, <2>1
  <2>3. QED
    BY <1>9, <2>2, WrapId
<1>11. upper = ChunkUpper(j)
  <2>1. lower + (Data.chunk - 1) * Data.stride = ChunkLower(j) + (c - 1) * d
    BY <1>4, <1>10
  <2>2. y = ChunkLower(j) + (c - 1) * d
    BY <1>9, <2>1, WrapId
  <2>3. QED
    BY <1>4, <1>8, <2>2
<1>12. \/ v = "run" /\ ~(ChunkLower(j) > Data.upper)
       \/ v \in {"body", "barrier"} /\ ChunkLower(j) > Data.upper
  BY <1>10 DEF AfterLoop
<1> HIDE DEF lower, upper, y, v, s, l, u, c, d, cd, j
<1>13. Quiet(i) /\ pc'[i] = v
  <2>1. Data \in LoopData
    BY <1>1 DEF Within
  <2>2. Data'.lower = Data.lower /\ Data'.upper = Data.upper /\ Data'.stride = Data.stride
        /\ Data'.chunk = Data.chunk /\ Data'.schedule = Data.schedule
        /\ Data'.iter_count = Data.iter_count /\ Data'.schedule_count = Data.schedule_count
    BY <1>1, <2>1 DEF LoopData
  <2>3. \A k \in Thread \ {i} : lb'[k] = lb[k] /\ ub'[k] = ub[k]
    BY <1>1, <1>2 DEF DispatchType
  <2>4. QED
    BY <1>1, <1>2, <2>2, <2>3, WithinQuiet
<1>14. lb'[i] = ChunkLower(j) /\ ub'[i] = ChunkUpper(j)
  BY <1>1, <1>2, <1>10, <1>11 DEF DispatchType
<1>15. ~Through(i) /\ pc'[i] \notin {"bounds", "wait", "end_ordered"}
  BY <1>1, <1>12, <1>13 DEF Through
<1>16. /\ ub'[i] = ChunkUpper(Own(i))
       /\ \E q \in 0..IntMax : lb'[i] = ChunkLower(Own(i)) + q * program[last].stride
  <2>1. 0 \in 0..IntMax /\ ChunkLower(j) = ChunkLower(j) + 0 * program[last].stride
    BY <1>5, <1>9, IntMaxAssumption DEF d
  <2>2. QED
    BY <1>3, <1>14, <2>1
<1>17. Through(i)' => ChunkLower(Own(i)) > Data.upper
  BY <1>3, <1>12, <1>13 DEF Through
<1>18. ChunkLower(loop_id[i]) > Data.upper => Through(i)'
  <2>1. loop_num'[i] = last'
    BY <1>1, <1>2 DEF Within
  <2>2. QED
    BY <1>12, <1>13, <2>1 DEF Through, j
<1>19. Left(i)' = Left(i)
  <2>1. Left(i) = Chunk(j)
    BY <1>1 DEF Left, j
  <2>2. /\ Chunk(j) = Iterations(ChunkLower(j), ChunkUpper(j), program[last].stride)
        /\ ChunkLower(j) > program[last].upper => Chunk(j) = {}
    BY <1>2, <1>6, Chunks
  <2>3. CASE v = "run"
    BY <1>2, <1>13, <1>14, <2>1, <2>2, <2>3 DEF Left
  <2>4. CASE v \in {"body", "barrier"} /\ ChunkLower(j) > Data.upper
    BY <1>4, <1>13, <2>1, <2>2, <2>4 DEF Left, u
  <2>5. QED
    BY <1>12, <2>3, <2>4
<1>20. QED
  BY <1>1, <1>2, <1>3, <1>13, <1>15, <1>16, <1>17, <1>18, <1>19, QuietStays

LEMMA InitSlotsWork ==
  ASSUME AllUpward, RoundInv, WorkInv, NEW i \in Thread, InitSlots(i)
  PROVE  WorkInv'
<1>1. /\ pc[i] = "slots" /\ pc' = [pc EXCEPT ![i] = "pointer"]
      /\ last > 0 /\ last \in DOMAIN program /\ loop_num[i] + 1 = last /\ Data \in LoopData
      /\ loop_num' = [loop_num EXCEPT ![i] = last]
      /\ program' = program /\ loop_id' = loop_id /\ lb' = lb /\ ub' = ub
      /\ times' = times /\ last' = last
      /\ Data' = [Data EXCEPT !.first_iter[i] = 0, !.last_iter[i] = 0, !.iter_count[i] = 0]
  BY InitSlotsEffect
<1>2. /\ DispatchType /\ SharedBy(i) /\ ExhaustedBy(i)
  BY <1>1 DEF RoundInv, WorkInv, Shared, Exhausted
<1>3. Data.iter_count[i] = 0
  <2>1. loop_num[i] # last
    BY <1>1, <1>2 DEF DispatchType
  <2>2. QED
    BY <1>2, <2>1 DEF SharedBy
<1>4. /\ Data'.lower = Data.lower /\ Data'.upper = Data.upper /\ Data'.stride = Data.stride
      /\ Data'.chunk = Data.chunk /\ Data'.schedule = Data.schedule
      /\ Data'.iter_count = Data.iter_count /\ Data'.schedule_count = Data.schedule_count
  <2>1. Data.iter_count \in [Thread -> Int]
    BY <1>1 DEF LoopData
  <2>2. [Data.iter_count EXCEPT ![i] = 0] = Data.iter_count
    BY <1>3, <2>1
  <2>3. /\ Data'.lower = Data.lower /\ Data'.upper = Data.upper /\ Data'.stride = Data.stride
        /\ Data'.chunk = Data.chunk /\ Data'.schedule = Data.schedule
        /\ Data'.iter_count = [Data.iter_count EXCEPT ![i] = 0]
        /\ Data'.schedule_count = Data.schedule_count
    BY <1>1 DEF LoopData
  <2>4. QED
    BY <2>2, <2>3
<1>5. /\ pc'[i] = "pointer" /\ \A j \in Thread \ {i} : pc'[j] = pc[j]
      /\ loop_num'[i] = last /\ \A j \in Thread \ {i} : loop_num'[j] = loop_num[j]
  BY <1>1, <1>2 DEF DispatchType
<1>6. Quiet(i)
  <2>1. \A j \in Thread \ {i} : Same(j)
    BY <1>1, <1>4, <1>5 DEF Same
  <2>2. QED
    BY <1>1, <1>4, <1>5, <2>1 DEF Quiet
<1>7. /\ ~Through(i) /\ ~Through(i)' /\ ~(Holds(i)')
  BY <1>1, <1>5 DEF Through, Holds
<1>8. Left(i)' = Left(i)
  BY <1>1, <1>5 DEF Left
<1>9. QED
  BY <1>1, <1>2, <1>5, <1>6, <1>7, <1>8, QuietStays

\* When all are through with a loop, all of it has been run.
LEMMA AllRun ==
  ASSUME AllUpward, DispatchType, last \in DOMAIN program, WorkInv, last > 0,
         \A i \in Thread : Through(i)
  PROVE  \A x \in CInt :
           times[last][x] = IF program[last].schedule # "other" /\ x \in Asked(last) THEN 1 ELSE 0
<1>1. /\ DataKept /\ Shared /\ Exhausted /\ OverOnce /\ RunOrLeft
  BY DEF WorkInv
<1>2. /\ Data.schedule = program[last].schedule /\ Data.upper = program[last].upper
      /\ Data.schedule \in {"static", "chunked", "dynamic", "other"}
      /\ program[last].upper \in Int
  BY <1>1, UpwardLoop DEF DataKept
<1>3. \A i \in Thread : Left(i) = {}
  BY DEF Through, Left
<1>4. ASSUME NEW x \in CInt
      PROVE  times[last][x] = IF \E j \in HandedOut : x \in Chunk(j) THEN 1 ELSE 0
  <2>1. ~ \E i \in Thread : x \in Left(i)
    BY <1>3
  <2>2. QED
    BY <1>1, <2>1 DEF RunOrLeft
<1>5. HandedOut \subseteq Nat
  BY IntMaxAssumption DEF HandedOut
<1>6. Data.schedule = "other" => HandedOut = {}
  BY DEF HandedOut
<1>7. ASSUME NEW j \in 0..IntMax, ChunkLower(j) <= program[last].upper, Data.schedule # "other"
      PROVE  j \in HandedOut
  <2> DEFINE l == program[last].lower
             u == program[last].upper
             cd == ChunkSize(program[last]) * program[last].stride
  <2>1. /\ l \in Int /\ u \in Int /\ program[last].stride \in Nat \ {0}
        /\ ChunkSize(program[last]) \in Nat \ {0}
        /\ program[last].schedule = "static" => u - l < NumThreads * cd
    BY UpwardLoop
  <2>2. cd \in Nat \ {0}
    BY <2>1
  <2>3. j \in Nat
    BY IntMaxAssumption
  <2>4. \A k \in Nat : ChunkLower(k) = l + k * cd
    BY DEF ChunkLower
  <2>5. ASSUME NEW k \in Int, ~(l + k * cd <= u) PROVE j < k
    <3>1. l + j * cd <= u
      BY <1>7, <2>3, <2>4
    <3> HIDE DEF l, u, cd
    <3>2. j * cd \in Int /\ k * cd \in Int /\ j * cd < k * cd
      BY <2>1, <2>2, <2>3, <2>5, <3>1
    <3>3. QED
      BY <2>2, <2>3, <3>2, MulLess
  <2>6. CASE Data.schedule = "static"
    <3>1. NumThreads \in Int /\ NumThreads \in Nat
      BY NumThreadsAssumption
    <3>2. ~(l + NumThreads * cd <= u)
      <4>1. u - l < NumThreads * cd
        BY <1>2, <2>1, <2>6
      <4> HIDE DEF l, u, cd
      <4>2. NumThreads * cd \in Int
        BY <2>2, <3>1
      <4>3. QED
        BY <2>1, <4>1, <4>2
    <3>3. j < NumThreads
      BY <2>5, <3>1, <3>2
    <3>4. j \in Thread
      BY <2>3, <3>1, <3>3 DEF Thread
    <3>5. Data.iter_count[j] > 0
      BY <1>1, <2>6, <3>4 DEF Exhausted, ExhaustedBy
    <3>6. QED
      BY <2>6, <3>4, <3>5 DEF HandedOut
  <2>7. CASE Data.schedule = "chunked"
    <3> DEFINE i == j % NumThreads
               q == j \div NumThreads
               n == Data.iter_count[i]
    <3>1. q \in Nat /\ i \in Thread /\ j = i + NumThreads * q
      BY <2>3, TurnParts
    <3>2. ExhaustedBy(i) /\ Through(i) /\ SharedBy(i)
      BY <1>1, <3>1 DEF Exhausted, Shared
    <3>3. n > 0 /\ ChunkLower(Own(i)) > u /\ Own(i) = i + NumThreads * (n - 1)
      BY <1>2, <2>7, <3>2 DEF ExhaustedBy, Own
    <3>4. n \in Int
      <4>1. Data \in LoopData
        BY DataType DEF DispatchType
      <4>2. QED
        BY <3>1, <4>1 DEF LoopData
    <3> HIDE DEF q, n, i
    <3>5. i \in Int /\ NumThreads \in Nat \ {0} /\ n - 1 \in Nat
      BY <3>1, <3>3, <3>4, ThreadType
    <3>6. Own(i) \in Nat
      BY <3>1, <3>3, <3>5, TurnOf
    <3>7. j < Own(i)
      <4>1. ~(l + Own(i) * cd <= u)
        <5>1. l + Own(i) * cd > u
          BY <2>4, <3>3, <3>6
        <5> HIDE DEF l, u, cd
        <5>2. Own(i) * cd \in Int
          BY <2>2, <3>6
        <5>3. QED
          BY <2>1, <5>1, <5>2
      <4>2. QED
        BY <2>5, <3>6, <4>1
    <3>8. q < n
      <4>1. q * NumThreads < (n - 1) * NumThreads
        BY <3>1, <3>3, <3>5, <3>7
      <4>2. q < n - 1
        BY <3>1, <3>5, <4>1, MulLess
      <4>3. QED
        BY <3>1, <3>4, <4>2
    <3>9. QED
      BY <2>7, <3>8 DEF HandedOut, q, n, i
  <2>8. CASE Data.schedule = "dynamic"
    <3>1. 0 \in Thread
      BY NumThreadsAssumption DEF Thread
    <3>2. Own(0) \in HandedOut /\ ChunkLower(Own(0)) > u
      BY <1>1, <1>2, <2>8, <3>1 DEF Exhausted, ExhaustedBy
    <3>3. Own(0) \in Nat /\ Own(0) < Data.schedule_count
      BY <1>5, <2>8, <3>2 DEF HandedOut
    <3>4. j < Own(0)
      <4>1. ~(l + Own(0) * cd <= u)
        <5>1. l + Own(0) * cd > u /\ Own(0) * cd \in Int
          BY <2>2, <2>4, <3>2, <3>3
        <5> HIDE DEF l, u, cd
        <5>2. QED
          BY <2>1, <5>1
      <4>2. QED
        BY <2>5, <3>3, <4>1
    <3>5. Data.schedule_count \in Int
      BY <1>1, <2>8 DEF OverOnce
    <3>6. j < Data.schedule_count
      BY <2>3, <3>3, <3>4, <3>5
    <3>7. QED
      BY <2>8, <3>6 DEF HandedOut
  <2>9. QED
    BY <1>2, <1>7, <2>6, <2>7, <2>8
<1>8. ASSUME NEW x \in CInt, Data.schedule # "other"
      PROVE  (\E j \in HandedOut : x \in Chunk(j)) <=> x \in Asked(last)
  <2>1. ASSUME NEW j \in HandedOut, x \in Chunk(j) PROVE x \in Asked(last)
    BY <1>5, <2>1, ChunksApart
  <2>2. ASSUME x \in Asked(last) PROVE \E j \in HandedOut : x \in Chunk(j)
    <3>1. PICK j \in 0..IntMax : x \in Chunk(j) /\ ChunkLower(j) <= program[last].upper
      BY <2>2, ChunksCover
    <3>2. QED
      BY <1>7, <1>8, <3>1
  <2>3. QED
    BY <2>1, <2>2
<1>9. QED
  BY <1>2, <1>4, <1>6, <1>8

\* A loop is added when the whole team is through with the one before.
LEMMA AddLoopWork ==
  ASSUME AllUpward, RoundInv, WorkInv, NEW i \in Thread, AddLoop(i)
  PROVE  WorkInv'
<1>1. /\ pc[i] = "body" /\ pc' = [pc EXCEPT ![i] = "slots"]
      /\ program' = program /\ loop_num' = loop_num
      /\ loop_id' = loop_id /\ lb' = lb /\ ub' = ub /\ times' = times
      /\ \/ /\ loop_num[i] = last /\ last < Len(program)
            /\ \A j \in Thread : pc[j] = "body" /\ loop_num[j] = last
            /\ last' = last + 1 /\ Data' = NewLoop(program[last + 1])
            /\ program[last + 1] \in LoopKind
         \/ /\ loop_num[i] + 1 = last /\ loop_num[i] < Len(program)
            /\ last' = last /\ Data' = Data
  BY AddLoopEffect
<1>2. /\ DispatchType /\ last \in Nat /\ DOMAIN program = 1..Len(program) /\ Len(program) \in Nat
      /\ loop_num \in [Thread -> Nat] /\ last <= Len(program)
  BY DataType, ProgramsAssumption DEF RoundInv, OneLoop, DispatchType
<1>3. DataKept /\ OtherLoops
  BY DEF WorkInv
<1>4. pc'[i] = "slots" /\ \A j \in Thread \ {i} : pc'[j] = pc[j]
  BY <1>1, <1>2 DEF DispatchType
<1>5. CASE /\ loop_num[i] + 1 = last /\ loop_num[i] < Len(program)
           /\ last' = last /\ Data' = Data
  <2>1. last > 0 /\ last \in DOMAIN program
    BY <1>2, <1>5
  <2>2. \A j \in Thread \ {i} : Same(j)
    BY <1>1, <1>4, <1>5 DEF Same
  <2>3. Quiet(i)
    BY <1>1, <1>5, <2>1, <2>2 DEF Quiet
  <2>4. ~Through(i) /\ ~Through(i)' /\ ~(Holds(i)')
    <3>1. loop_num[i] # last
      BY <1>2, <1>5
    <3>2. QED
      BY <1>1, <1>4, <3>1 DEF Through, Holds
  <2>5. Left(i)' = Left(i)
    BY <1>1, <1>4 DEF Left
  <2>6. QED
    BY <1>1, <1>2, <1>4, <2>3, <2>4, <2>5, QuietStays
<1>6. CASE /\ loop_num[i] = last /\ last < Len(program)
           /\ \A j \in Thread : pc[j] = "body" /\ loop_num[j] = last
           /\ last' = last + 1 /\ Data' = NewLoop(program[last + 1])
           /\ program[last + 1] \in LoopKind
  <2> DEFINE l == program[last + 1]
  <2>1. last + 1 \in DOMAIN program /\ last # last + 1 /\ last + 1 > 0
    BY <1>2, <1>6
  <2>2. l.stride > 0 /\ l.stride # 0
    <3>1. Upward(l) /\ l.stride \in Int
      BY <1>2, <1>6, <2>1 DEF AllUpward, DispatchType, LoopKind, CInt
    <3>2. QED
      BY <3>1 DEF Upward
  <2>3. /\ Data'.lower = l.lower /\ Data'.upper = l.upper /\ Data'.stride = l.stride
        /\ Data'.chunk = (IF l.chunk = 0 THEN 1 ELSE l.chunk) /\ Data'.schedule = l.schedule
        /\ Data'.schedule_count = 0 /\ Data'.iter_count = [j \in Thread |-> 0]
    BY <1>6, <2>2 DEF NewLoop
  <2>4. program'[last'] = l
    BY <1>1, <1>6
  <2>5. DataKept'
    BY <2>3, <2>4 DEF DataKept, ChunkSize
  <2>6. \A k : Asked(k)' = Asked(k)
    BY <1>1 DEF Asked
  <2>7. OtherLoops'
    <3>1. SUFFICES ASSUME NEW k \in DOMAIN program, k # last + 1, NEW x \in CInt
                   PROVE  times[k][x] = IF k < last + 1 /\ program[k].schedule # "other" /\ x \in Asked(k)
                                        THEN 1 ELSE 0
      BY <1>1, <1>6, <2>6 DEF OtherLoops
    <3>2. CASE k # last
      <4>1. k < last + 1 <=> k < last
        BY <1>2, <3>2
      <4>2. QED
        BY <1>3, <3>2, <4>1 DEF OtherLoops
    <3>3. CASE k = last
      <4>1. last > 0 /\ last \in DOMAIN program
        BY <1>2, <3>3
      <4>2. \A j \in Thread : Through(j)
        BY <1>6 DEF Through
      <4>3. times[last][x] = IF program[last].schedule # "other" /\ x \in Asked(last) THEN 1 ELSE 0
        BY <1>2, <4>1, <4>2, AllRun
      <4>4. last < last + 1
        BY <1>2
      <4>5. QED
        BY <3>3, <4>3, <4>4
    <3>4. QED
      BY <3>2, <3>3
  <2>8. \A j \in Thread : /\ pc'[j] \in {"body", "slots"} /\ loop_num'[j] # last'
                          /\ Data'.iter_count[j] = 0
    BY <1>1, <1>2, <1>4, <1>6, <2>1, <2>3
  <2>9. \A j \in Thread : ~(Holds(j)') /\ ~(Through(j)') /\ Left(j)' = {}
    BY <2>8 DEF Holds, Through, Left
  <2>10. HandedOut' = {}
    <3>1. SUFFICES ASSUME NEW j \in HandedOut' PROVE FALSE
      OBVIOUS
    <3>2. j \in Nat /\ \/ j \in Thread /\ Data'.iter_count[j] > 0
                       \/ j \div NumThreads < Data'.iter_count[j % NumThreads]
                       \/ j < Data'.schedule_count
      BY <3>1, IntMaxAssumption DEF HandedOut
    <3>3. j \div NumThreads \in Nat /\ j % NumThreads \in Thread
      BY <3>2, TurnParts
    <3>4. QED
      BY <2>3, <2>8, <3>2, <3>3
  <2>11. Shared'
    <3>1. \A j \in Thread : SharedBy(j)'
      BY <2>8, <2>9 DEF SharedBy
    <3>2. QED
      BY <2>9, <3>1 DEF Shared
  <2>12. Exhausted'
    BY <2>8, <2>9 DEF Exhausted, ExhaustedBy
  <2>13. OverOnce'
    BY <2>3, <2>10, IntMaxAssumption DEF OverOnce
  <2>14. RunOrLeft'
    <3>1. \A x \in CInt : times[last + 1][x] = 0
      <4>1. ~(last + 1 < last)
        BY <1>2
      <4>2. QED
        BY <1>3, <2>1, <4>1 DEF OtherLoops
    <3>2. QED
      BY <1>1, <1>6, <2>10, <3>1 DEF RunOrLeft
  <2>15. QED
    BY <2>5, <2>7, <2>11, <2>12, <2>13, <2>14 DEF WorkInv
<1>7. QED
  BY <1>1, <1>5, <1>6

LEMMA BarrierWork ==
  ASSUME RoundInv, WorkInv, Barrier
  PROVE  WorkInv'
<1>1. /\ \A i \in Thread : pc[i] = "barrier"
      /\ pc' = [i \in Thread |-> "body"]
      /\ program' = program /\ heap' = heap /\ loop_num' = loop_num /\ loop_id' = loop_id
      /\ lb' = lb /\ ub' = ub /\ times' = times
  BY DEF Barrier
<1>2. last' = last /\ Data' = Data
  BY <1>1 DEF last, Data, loop_list
<1>3. \A i \in Thread : loop_num[i] = last
  BY <1>1 DEF RoundInv, OneLoop
<1>4. \A i \in Thread : pc'[i] = "body"
  BY <1>1
<1>5. \A i \in Thread : /\ Through(i) /\ Through(i)' /\ ~Holds(i) /\ ~(Holds(i)')
                        /\ Left(i) = {} /\ Left(i)' = {}
  BY <1>1, <1>2, <1>3, <1>4 DEF Through, Holds, Left
<1>6. /\ HandedOut' = HandedOut /\ \A i : Own(i)' = Own(i)
  BY <1>1, <1>2 DEF HandedOut, Own
<1>7. /\ \A j : ChunkLower(j)' = ChunkLower(j) /\ Chunk(j)' = Chunk(j)
      /\ \A k : Asked(k)' = Asked(k)
  BY <1>1, <1>2, LoopFrame
<1>8. DataKept' /\ OtherLoops'
  BY <1>1, <1>2, <1>7 DEF WorkInv, DataKept, OtherLoops, ChunkSize
<1>9. ASSUME last > 0 PROVE Shared' /\ Exhausted' /\ OverOnce' /\ RunOrLeft'
  <2>1. Shared /\ Exhausted /\ OverOnce /\ RunOrLeft
    BY <1>9 DEF WorkInv
  <2>2. Shared'
    <3>1. \A i \in Thread : SharedBy(i)'
      BY <1>1, <1>2, <1>4, <1>5, <2>1 DEF Shared, SharedBy
    <3>2. QED
      BY <1>5, <3>1 DEF Shared
  <2>3. Exhausted'
    <3>1. ASSUME NEW i \in Thread PROVE ExhaustedBy(i)'
      <4>1. ChunkLower(Own(i))' = ChunkLower(Own(i))
        BY <1>1, <1>2, <1>6 DEF ChunkLower, ChunkSize
      <4>2. ExhaustedBy(i)
        BY <2>1 DEF Exhausted
      <4>3. QED
        BY <1>2, <1>5, <1>6, <4>1, <4>2 DEF ExhaustedBy
    <3>2. QED
      BY <3>1 DEF Exhausted
  <2>4. OverOnce'
    <3>1. SUFFICES ASSUME Data.schedule = "dynamic"
                   PROVE  /\ Data.schedule_count \in 0..IntMax
                          /\ \A j \in HandedOut :
                               ChunkLower(j) > Data.upper => \E i \in Thread : loop_id[i] = j
      BY <1>1, <1>2, <1>5, <1>6, <1>7 DEF OverOnce
    <3>2. QED
      BY <2>1, <3>1 DEF OverOnce
  <2>5. RunOrLeft'
    BY <1>1, <1>2, <1>5, <1>6, <1>7, <2>1 DEF RunOrLeft
  <2>6. QED
    BY <2>2, <2>3, <2>4, <2>5
<1>10. QED
  BY <1>2, <1>8, <1>9 DEF WorkInv

LEMMA WorkInitial == Init => WorkInv
<1>1. SUFFICES ASSUME Init PROVE WorkInv
  OBVIOUS
<1>2. last = 0
  <2>1. heap = << <<>> >>
    BY <1>1 DEF Init
  <2>2. QED
    BY <2>1 DEF last, loop_list
<1>3. \A k \in DOMAIN program : k > 0
  <2>1. program \in Seq(LoopKind)
    BY <1>1, ProgramsAssumption DEF Init
  <2>2. QED
    BY <2>1
<1>4. \A k \in DOMAIN program : \A x \in CInt : times[k][x] = 0
  <2>1. times = [k \in DOMAIN program |-> [x \in CInt |-> 0]]
    BY <1>1 DEF Init
  <2>2. QED
    BY <2>1
<1>5. OtherLoops
  <2>1. \A k \in DOMAIN program : ~(k < last)
    <3>1. \A k \in DOMAIN program : k \in Int
      BY <1>1, ProgramsAssumption DEF Init
    <3>2. QED
      BY <1>2, <1>3, <3>1
  <2>2. QED
    BY <1>4, <2>1 DEF OtherLoops
<1>6. QED
  BY <1>2, <1>5 DEF WorkInv, DataKept

LEMMA WorkStep ==
  ASSUME AllUpward, RoundInv, WorkInv, [Next]_vars
  PROVE  WorkInv'
<1>1. CASE UNCHANGED vars
  <2>1. /\ program' = program /\ heap' = heap /\ loop_num' = loop_num /\ pc' = pc
        /\ loop_id' = loop_id /\ lb' = lb /\ ub' = ub /\ times' = times
    BY <1>1 DEF vars
  <2>2. last' = last /\ Data' = Data
    BY <2>1 DEF last, Data, loop_list
  <2>3. /\ \A j : ChunkLower(j)' = ChunkLower(j) /\ ChunkUpper(j)' = ChunkUpper(j)
                  /\ Chunk(j)' = Chunk(j)
        /\ \A k : Asked(k)' = Asked(k)
    BY <2>1, <2>2, LoopFrame
  <2>4. /\ HandedOut' = HandedOut
        /\ \A i : Own(i)' = Own(i) /\ (Holds(i)' <=> Holds(i)) /\ (Through(i)' <=> Through(i))
    BY <2>1, <2>2 DEF HandedOut, Own, Holds, Through
  <2>5. \A i : Left(i)' = Left(i)
    BY <2>1, <2>2, <2>3 DEF Left
  <2>6. DataKept' /\ OtherLoops'
    BY <2>1, <2>2, <2>3 DEF WorkInv, DataKept, OtherLoops, ChunkSize
  <2>7. ASSUME last > 0 PROVE Shared' /\ Exhausted' /\ OverOnce' /\ RunOrLeft'
    <3>1. Shared /\ Exhausted /\ OverOnce /\ RunOrLeft
      BY <2>7 DEF WorkInv
    <3>2. \A i : /\ ChunkLower(Own(i))' = ChunkLower(Own(i))
                 /\ ChunkUpper(Own(i))' = ChunkUpper(Own(i))
      <4>1. \A i : ChunkLower(Own(i))' = ChunkLower(Own(i))
        BY <2>1, <2>2, <2>4 DEF ChunkLower, ChunkSize
      <4>2. QED
        BY <2>1, <2>2, <4>1 DEF ChunkUpper, ChunkSize
    <3>3. Shared'
      BY <2>1, <2>2, <2>4, <3>1, <3>2 DEF Shared, SharedBy
    <3>4. Exhausted'
      BY <2>1, <2>2, <2>4, <3>1, <3>2 DEF Exhausted, ExhaustedBy
    <3>5. OverOnce'
      BY <2>1, <2>2, <2>3, <2>4, <3>1 DEF OverOnce
    <3>6. RunOrLeft'
      BY <2>1, <2>2, <2>3, <2>4, <2>5, <3>1 DEF RunOrLeft
    <3>7. QED
      BY <3>3, <3>4, <3>5, <3>6
  <2>8. QED
    BY <2>2, <2>6, <2>7 DEF WorkInv
<1>2. CASE Barrier
  BY <1>2, BarrierWork
<1>3. ASSUME NEW i \in Thread, Step(i) PROVE WorkInv'
  <2>1. CASE AddLoop(i)
    BY <2>1, AddLoopWork
  <2>2. CASE InitSlots(i)
    BY <2>2, InitSlotsWork
  <2>3. CASE TakePointer(i)
    BY <2>3, TakePointerWork
  <2>4. CASE NextStatic(i)
    BY <2>4, NextStaticWork
  <2>5. CASE NextChunked(i)
    BY <2>5, NextChunkedWork
  <2>6. CASE Fetch(i)
    BY <2>6, FetchWork
  <2>7. CASE Bounds(i)
    BY <2>7, BoundsWork
  <2>8. CASE NextOther(i)
    BY <2>8, NextOtherWork
  <2>9. CASE RunChunk(i)
    BY <2>9, RunChunkWork
  <2>10. CASE StartOrdered(i)
    BY <2>10, StartOrderedWork
  <2>11. CASE Ordered(i)
    BY <2>11, OrderedWork
  <2>12. CASE EndOrdered(i)
    BY <2>12, EndOrderedWork
  <2>13. QED
    BY <1>3, <2>1, <2>2, <2>3, <2>4, <2>5, <2>6, <2>7, <2>8, <2>9, <2>10, <2>11, <2>12 DEF Step
<1>4. QED
  BY <1>1, <1>2, <1>3 DEF Next

\* In every reachable state of a team whose loops count up, with a barrier
\* after each: what kmp_next handed out of a loop was in it, in pieces of their
\* own, and has been run or is with the thread it was given to.
THEOREM WorkInvariant ==
  ASSUME Barriers, AllUpward
  PROVE  Spec => []WorkInv
<1>1. Init => WorkInv
  BY WorkInitial
<1>2. RoundInv /\ WorkInv /\ [Next]_vars => WorkInv'
  BY WorkStep
<1>3. Spec => []RoundInv
  BY RoundInvariant
<1>4. QED
  BY <1>1, <1>2, <1>3, PTL DEF Spec

\* What has been run of each loop.
LEMMA WorkTimes ==
  ASSUME AllUpward, RoundInv, WorkInv, NEW k \in DOMAIN program
  PROVE  /\ \A x \in CInt : times[k][x] <= IF x \in Asked(k) THEN 1 ELSE 0
         /\ program[k].schedule # "other" /\ (\A i \in Thread : Past(i, k)) =>
              \A x \in Asked(k) : x \in CInt /\ times[k][x] >= 1
<1>1. /\ DispatchType /\ last \in Nat /\ DOMAIN program = 1..Len(program) /\ Len(program) \in Nat
      /\ loop_num \in [Thread -> Nat] /\ OneLoop
  BY DataType, ProgramsAssumption DEF RoundInv, DispatchType
<1>2. OtherLoops
  BY DEF WorkInv
<1>3. \A x \in Asked(k) : x \in CInt
  <2>1. program[k] \in LoopKind /\ Upward(program[k])
    BY <1>1, ProgramsAssumption DEF DispatchType, AllUpward
  <2>2. /\ program[k].lower \in CInt /\ program[k].upper \in CInt /\ program[k].stride \in Int
        /\ program[k].stride > 0
    BY <2>1, IntMaxAssumption DEF LoopKind, Upward, CInt
  <2>3. Asked(k) \subseteq program[k].lower..program[k].upper
    BY <2>2 DEF Asked, Iterations
  <2>4. program[k].lower..program[k].upper \subseteq CInt
    BY <2>2, IntMaxAssumption DEF CInt
  <2>5. QED
    BY <2>3, <2>4
<1>4. CASE k # last
  <2>1. \A x \in CInt :
          times[k][x] = IF k < last /\ program[k].schedule # "other" /\ x \in Asked(k) THEN 1 ELSE 0
    BY <1>2, <1>4 DEF OtherLoops
  <2>2. (\A i \in Thread : Past(i, k)) => k < last
    <3>1. 0 \in Thread
      BY NumThreadsAssumption DEF Thread
    <3>2. Past(0, k) => k <= loop_num[0]
      BY <1>1, <3>1 DEF Past
    <3>3. loop_num[0] <= last
      <4>1. pc[0] \in PC
        BY <1>1, <3>1 DEF DispatchType
      <4>2. loop_num[0] = last \/ loop_num[0] + 1 = last
        BY <1>1, <3>1, <4>1 DEF PC, OneLoop, Inside
      <4>3. loop_num[0] \in Nat
        BY <1>1, <3>1
      <4>4. QED
        BY <1>1, <4>2, <4>3
    <3>4. QED
      BY <1>1, <1>4, <3>1, <3>2, <3>3
  <2>3. QED
    BY <1>3, <2>1, <2>2
<1>5. CASE k = last
  <2>1. last > 0 /\ last \in DOMAIN program /\ RunOrLeft
    BY <1>1, <1>5 DEF WorkInv
  <2>2. ASSUME NEW x \in CInt
        PROVE  times[k][x] <= IF x \in Asked(k) THEN 1 ELSE 0
    <3>1. times[last][x] =
            IF (\E j \in HandedOut : x \in Chunk(j)) /\ ~(\E i \in Thread : x \in Left(i)) THEN 1 ELSE 0
      BY <2>1 DEF RunOrLeft
    <3>2. \A j \in HandedOut : x \in Chunk(j) => x \in Asked(last)
      <4>1. HandedOut \subseteq Nat
        BY IntMaxAssumption DEF HandedOut
      <4>2. QED
        BY <1>1, <2>1, <4>1, ChunksApart
    <3>3. QED
      BY <1>5, <3>1, <3>2
  <2>3. ASSUME program[k].schedule # "other", \A i \in Thread : Past(i, k)
        PROVE  \A x \in Asked(k) : times[k][x] >= 1
    <3>1. ASSUME NEW i \in Thread PROVE Through(i)
      <4>1. pc[i] \in PC /\ Past(i, last)
        <5>1. pc[i] \in PC
          BY <1>1 DEF DispatchType
        <5>2. Past(i, k)
          BY <2>3
        <5>3. QED
          BY <1>5, <5>1, <5>2
      <4>2. loop_num[i] = last \/ loop_num[i] + 1 = last
        BY <1>1, <4>1 DEF PC, OneLoop, Inside
      <4>3. loop_num[i] = last /\ pc[i] \in {"body", "slots", "barrier"}
        <5>1. loop_num[i] \in Nat /\ ~(loop_num[i] > last)
          BY <1>1, <4>2
        <5>2. QED
          BY <1>1, <4>1, <5>1 DEF Past
      <4>4. pc[i] # "slots"
        BY <1>1, <4>3 DEF OneLoop
      <4>5. QED
        BY <4>3, <4>4 DEF Through
    <3>2. \A x \in CInt :
            times[last][x] = IF program[last].schedule # "other" /\ x \in Asked(last) THEN 1 ELSE 0
      BY <1>1, <2>1, <3>1, AllRun
    <3>3. QED
      BY <1>3, <1>5, <2>3, <3>2
  <2>4. QED
    BY <1>3, <2>2, <2>3
<1>6. QED
  BY <1>4, <1>5

\* kmp_next hands no iteration out twice, and none that is not in the loop: for
\* any team, any width of int, and any program of loops that count up and end
\* in a barrier.
THEOREM WorkOnce ==
  ASSUME Barriers, AllUpward
  PROVE  Spec => []NoIterationTwice
<1>1. RoundInv /\ WorkInv => NoIterationTwice
  BY WorkTimes DEF NoIterationTwice
<1>2. QED
  BY <1>1, RoundInvariant, WorkInvariant, PTL

\* ... and when it has returned 0 to every thread, the whole loop has been run.
THEOREM WorkComplete ==
  ASSUME Barriers, AllUpward
  PROVE  Spec => []AllIterationsRun
<1>1. RoundInv /\ WorkInv => AllIterationsRun
  BY WorkTimes DEF AllIterationsRun
<1>2. QED
  BY <1>1, RoundInvariant, WorkInvariant, PTL

-----------------------------------------------------------------------------
(* LoopDispatch: the ordered parts come in the order of the iterations.    *)

\* A step that lets no ordered part begin or end.
LEMMA OrderKept ==
  ASSUME OrderInv, program' = program, last' = last, sequence' = sequence,
         last > 0 /\ program[last].ordered =>
           /\ times' = times /\ Data'.ordered_count = Data.ordered_count
           /\ \A j \in Thread : /\ pc'[j] = "end_ordered" <=> pc[j] = "end_ordered"
                                /\ pc[j] = "end_ordered" => lb'[j] = lb[j]
                                /\ Numbered(j)',
         last > 0 /\ ~program[last].ordered =>
           \A j \in Thread : pc'[j] \notin {"wait", "end_ordered"}
  PROVE  OrderInv'
<1>1. OrderedInSequence'
  BY DEF OrderInv, OrderedInSequence
<1>2. Ran' = Ran
  BY DEF Ran
<1>3. ASSUME last > 0, program[last].ordered
      PROVE  RanInOrder' /\ Counted' /\ \A j \in Thread : Numbered(j)'
  <2>1. RanInOrder /\ Counted
    BY <1>3 DEF OrderInv
  <2>2. RanInOrder'
    BY <1>2, <1>3, <2>1 DEF RanInOrder
  <2>3. Counted'
    BY <1>2, <1>3, <2>1 DEF Counted
  <2>4. QED
    BY <1>3, <2>2, <2>3
<1>4. \A k \in DOMAIN program' : k > last' => sequence'[k] = <<>>
  BY DEF OrderInv
<1>5. QED
  BY <1>1, <1>3, <1>4 DEF OrderInv

\* Another thread's chunk has the number it had.
LEMMA NumberedFrame ==
  ASSUME program' = program, last' = last, Data'.schedule = Data.schedule,
         NEW j, Same(j), Data'.first_iter[j] = Data.first_iter[j], Numbered(j)
  PROVE  Numbered(j)'
<1>1. Own(j)' = Own(j)
  BY ThreadFrame
<1>2. QED
  BY <1>1 DEF Numbered, Same, ChunkSize

\* Such a step of one thread.
LEMMA OrderStays ==
  ASSUME OrderInv, NEW i \in Thread, last > 0,
         program' = program, last' = last, sequence' = sequence,
         Data'.schedule = Data.schedule, Data'.ordered_count = Data.ordered_count,
         \A j \in Thread \ {i} : Same(j) /\ Data'.first_iter[j] = Data.first_iter[j],
         program[last].ordered => times' = times,
         pc[i] # "end_ordered", pc'[i] # "end_ordered",
         program[last].ordered => Numbered(i)', pc'[i] = "wait" => program[last].ordered
  PROVE  OrderInv'
<1>1. ASSUME program[last].ordered
      PROVE  \A j \in Thread : /\ pc'[j] = "end_ordered" <=> pc[j] = "end_ordered"
                               /\ pc[j] = "end_ordered" => lb'[j] = lb[j]
                               /\ Numbered(j)'
  <2>1. ASSUME NEW j \in Thread \ {i}
        PROVE  /\ pc'[j] = pc[j] /\ lb'[j] = lb[j] /\ Numbered(j)'
    <3>1. Numbered(j)
      BY <1>1 DEF OrderInv
    <3>2. Same(j) /\ Data'.first_iter[j] = Data.first_iter[j]
      OBVIOUS
    <3>3. Numbered(j)'
      BY <3>1, <3>2, NumberedFrame
    <3>4. QED
      BY <3>2, <3>3 DEF Same
  <2>2. QED
    BY <1>1, <2>1
<1>2. ASSUME ~program[last].ordered
      PROVE  \A j \in Thread : pc'[j] \notin {"wait", "end_ordered"}
  <2>1. \A j \in Thread \ {i} : pc'[j] = pc[j]
    BY DEF Same
  <2>2. \A j \in Thread : pc[j] \notin {"wait", "end_ordered"}
    BY <1>2 DEF OrderInv
  <2>3. QED
    BY <1>2, <2>1, <2>2
<1>3. QED
  BY <1>1, <1>2, OrderKept

LEMMA OrderWithin ==
  ASSUME OrderInv, DispatchType, NEW i \in Thread, Within(i), NEW v, pc' = [pc EXCEPT ![i] = v],
         sequence' = sequence, pc[i] # "end_ordered", v # "end_ordered",
         Data'.schedule = Data.schedule, Data'.ordered_count = Data.ordered_count,
         \A j \in Thread \ {i} : /\ loop_id'[j] = loop_id[j] /\ lb'[j] = lb[j] /\ ub'[j] = ub[j]
                                 /\ Data'.iter_count[j] = Data.iter_count[j]
                                 /\ Data'.first_iter[j] = Data.first_iter[j],
         program[last].ordered => times' = times,
         v \in {"run", "wait"} /\ program[last].ordered => Numbered(i)',
         v = "wait" => program[last].ordered
  PROVE  OrderInv'
<1>1. pc'[i] = v /\ \A j \in Thread \ {i} : pc'[j] = pc[j]
  BY DEF DispatchType
<1>2. /\ program' = program /\ loop_num' = loop_num /\ last' = last /\ last > 0
  BY DEF Within
<1>3. \A j \in Thread \ {i} : Same(j) /\ Data'.first_iter[j] = Data.first_iter[j]
  BY <1>1, <1>2 DEF Same
<1>4. program[last].ordered => Numbered(i)'
  <2>1. CASE v \in {"run", "wait"}
    BY <2>1
  <2>2. CASE v \notin {"run", "wait"}
    BY <1>1, <2>2 DEF Numbered
  <2>3. QED
    BY <2>1, <2>2
<1>5. QED
  BY <1>1, <1>2, <1>3, <1>4, OrderStays

LEMMA TakePointerOrder ==
  ASSUME RoundInv, OrderInv, NEW i \in Thread, TakePointer(i)
  PROVE  OrderInv'
<1>1. /\ Within(i) /\ pc[i] = "pointer" /\ pc' = [pc EXCEPT ![i] = "next"] /\ Data' = Data
      /\ loop_id' = loop_id /\ lb' = lb /\ ub' = ub /\ times' = times /\ sequence' = sequence
  BY TakePointerEffect
<1>2. DispatchType
  BY DEF RoundInv
<1>3. QED
  BY <1>1, <1>2, OrderWithin

LEMMA NextOtherOrder ==
  ASSUME RoundInv, OrderInv, NEW i \in Thread, NextOther(i)
  PROVE  OrderInv'
<1>1. /\ Within(i) /\ pc[i] = "next" /\ pc' = [pc EXCEPT ![i] = AfterLoop(i)] /\ Data' = Data
      /\ loop_id' = loop_id /\ lb' = lb /\ ub' = ub /\ times' = times /\ sequence' = sequence
  BY NextOtherEffect
<1>2. DispatchType
  BY DEF RoundInv
<1>3. AfterLoop(i) \in {"body", "barrier"}
  BY DEF AfterLoop
<1>4. QED
  BY <1>1, <1>2, <1>3, OrderWithin

LEMMA FetchOrder ==
  ASSUME RoundInv, OrderInv, NEW i \in Thread, Fetch(i)
  PROVE  OrderInv'
<1>1. /\ Within(i) /\ pc[i] = "next" /\ pc' = [pc EXCEPT ![i] = "bounds"]
      /\ Data' = [Data EXCEPT !.schedule_count = Wrap(@ + 1)]
      /\ loop_id' = [loop_id EXCEPT ![i] = Data.schedule_count]
      /\ lb' = lb /\ ub' = ub /\ times' = times /\ sequence' = sequence
  BY FetchEffect
<1>2. DispatchType /\ Data \in LoopData
  BY <1>1 DEF RoundInv, Within
<1>3. /\ Data'.schedule = Data.schedule /\ Data'.ordered_count = Data.ordered_count
      /\ Data'.iter_count = Data.iter_count /\ Data'.first_iter = Data.first_iter
  BY <1>1, <1>2 DEF LoopData
<1>4. \A j \in Thread \ {i} : loop_id'[j] = loop_id[j]
  BY <1>1, <1>2 DEF DispatchType
<1>5. QED
  BY <1>1, <1>2, <1>3, <1>4, OrderWithin

LEMMA RunChunkOrder ==
  ASSUME RoundInv, OrderInv, NEW i \in Thread, RunChunk(i)
  PROVE  OrderInv'
<1>1. /\ Within(i) /\ pc[i] = "run" /\ pc' = [pc EXCEPT ![i] = "pointer"] /\ Data' = Data
      /\ ~program[last].ordered
      /\ loop_id' = loop_id /\ lb' = lb /\ ub' = ub /\ sequence' = sequence
  BY RunChunkEffect
<1>2. DispatchType
  BY DEF RoundInv
<1>3. QED
  BY <1>1, <1>2, OrderWithin

LEMMA StartOrderedOrder ==
  ASSUME RoundInv, OrderInv, NEW i \in Thread, StartOrdered(i)
  PROVE  OrderInv'
<1> DEFINE v == IF lb[i] > ub[i] THEN "pointer" ELSE "wait"
<1>1. /\ Within(i) /\ pc[i] = "run" /\ program[last].ordered /\ Data' = Data
      /\ pc' = [pc EXCEPT ![i] = v]
      /\ loop_id' = loop_id /\ lb' = lb /\ ub' = ub /\ times' = times /\ sequence' = sequence
  BY StartOrderedEffect
<1>2. DispatchType /\ last > 0 /\ program' = program /\ last' = last
  BY <1>1 DEF RoundInv, Within
<1>3. Numbered(i)'
  <2>1. Numbered(i)
    BY <1>1, <1>2 DEF OrderInv
  <2>2. Own(i)' = Own(i)
    BY <1>1 DEF Own
  <2>3. QED
    BY <1>1, <1>2, <2>1, <2>2 DEF Numbered, ChunkSize
<1>4. v # "end_ordered"
  OBVIOUS
<1> HIDE DEF v
<1>5. QED
  BY <1>1, <1>2, <1>3, <1>4, OrderWithin

\* What kmp_next sets in first_iter, in the loops whose ranges count iterations.
LEMMA RangeOf ==
  ASSUME AllInRange, DispatchType, last \in DOMAIN program, program[last].ordered
  PROVE  IF program[last].schedule = "static"
         THEN 0 <= program[last].lower /\ program[last].lower < program[last].stride
         ELSE program[last].chunk <= 1
<1>1. program \in Programs
  BY DEF DispatchType
<1>2. InRange(program[last])
  BY <1>1 DEF AllInRange
<1>3. QED
  BY <1>2 DEF InRange

LEMMA NumberGiven ==
  ASSUME program' = program, last' = last, NEW i,
         Data'.first_iter[i] = Own(i)' * ChunkSize(program[last])
  PROVE  Numbered(i)'
BY DEF Numbered, ChunkSize

LEMMA NextStaticOrder ==
  ASSUME AllUpward, AllInRange, RoundInv, WorkInv, OrderInv, NEW i \in Thread, NextStatic(i)
  PROVE  OrderInv'
<1> DEFINE block == StaticInit(i, NumThreads, Data.lower, Data.upper, Data.stride)
           f == Quot(block.lower, Data.stride)
           t == Quot(block.upper, Data.stride)
           bl == block.lower
           bu == block.upper
           l == program[last].lower
           u == program[last].upper
           d == program[last].stride
           c == ChunkSize(program[last])
<1>1. /\ Within(i) /\ pc[i] = "next" /\ Data.schedule = "static"
      /\ loop_id' = loop_id /\ times' = times /\ sequence' = sequence
      /\ \/ /\ Data.iter_count[i] > 0
            /\ pc' = [pc EXCEPT ![i] = AfterLoop(i)]
            /\ Data' = Data /\ lb' = lb /\ ub' = ub
         \/ /\ ~(Data.iter_count[i] > 0)
            /\ pc' = [pc EXCEPT ![i] = "run"]
            /\ Data' = [Data EXCEPT
                 !.schedule_count = @ + 1, !.iter_count[i] = 1,
                 !.first_iter[i] = f, !.last_iter[i] = t]
            /\ lb' = [lb EXCEPT ![i] = bl] /\ ub' = [ub EXCEPT ![i] = bu]
  BY NextStaticEffect
<1>2. /\ DispatchType /\ last \in DOMAIN program /\ DataKept /\ last > 0
      /\ program' = program /\ last' = last /\ Data \in LoopData
  BY <1>1 DEF RoundInv, Within, WorkInv
<1>3. /\ program[last].schedule = "static" /\ Data.lower = l /\ Data.upper = u /\ Data.stride = d
  BY <1>1, <1>2 DEF DataKept
<1>4. program[last].ordered => f = i * c
  <2>1. SUFFICES ASSUME program[last].ordered PROVE f = i * c
    OBVIOUS
  <2>2. 0 <= l /\ l < d
    BY <1>2, <1>3, <2>1, RangeOf
  <2>3. /\ l \in Int /\ d \in Nat \ {0} /\ c \in Nat \ {0} /\ i \in Nat
        /\ bl = l + i * (c * d)
    BY <1>2, <1>3, UpwardLoop, ThreadType
  <2>4. f = Quot(bl, d)
    BY <1>3
  <2> HIDE DEF l, u, d, c, f, bl
  <2>5. i * c \in Nat /\ i * (c * d) = d * (i * c) /\ d * (i * c) \in Nat
    BY <2>3
  <2>6. bl = d * (i * c) + l /\ bl \in Nat
    BY <2>2, <2>3, <2>5
  <2>7. Quot(bl, d) = bl \div d
    <3>1. Magnitude(bl) = bl /\ Magnitude(d) = d
      BY <2>3, <2>6 DEF Magnitude
    <3>2. QED
      BY <2>3, <2>6, <3>1 DEF Quot
  <2>8. (d * (i * c) + l) \div d = i * c
    BY <2>2, <2>3, <2>5, DivUnique
  <2>9. QED
    BY <2>4, <2>6, <2>7, <2>8
<1> HIDE DEF f, t, bl, bu, l, u, d
<1>5. CASE Data.iter_count[i] > 0
  <2>1. pc' = [pc EXCEPT ![i] = AfterLoop(i)] /\ Data' = Data /\ lb' = lb /\ ub' = ub
    BY <1>1, <1>5
  <2>2. AfterLoop(i) \in {"body", "barrier"}
    BY DEF AfterLoop
  <2>3. QED
    BY <1>1, <1>2, <2>1, <2>2, OrderWithin
<1>6. CASE ~(Data.iter_count[i] > 0)
  <2>1. /\ pc' = [pc EXCEPT ![i] = "run"]
        /\ Data' = [Data EXCEPT
             !.schedule_count = @ + 1, !.iter_count[i] = 1,
             !.first_iter[i] = f, !.last_iter[i] = t]
        /\ lb' = [lb EXCEPT ![i] = bl] /\ ub' = [ub EXCEPT ![i] = bu]
    BY <1>1, <1>6
  <2>2. /\ Data'.schedule = Data.schedule /\ Data'.ordered_count = Data.ordered_count
        /\ Data'.iter_count = [Data.iter_count EXCEPT ![i] = 1]
        /\ Data'.first_iter = [Data.first_iter EXCEPT ![i] = f]
    BY <1>2, <2>1 DEF LoopData
  <2>3. Data.iter_count \in [Thread -> Int] /\ Data.first_iter \in [Thread -> Int]
    BY <1>2 DEF LoopData
  <2>4. \A j \in Thread \ {i} : /\ loop_id'[j] = loop_id[j] /\ lb'[j] = lb[j] /\ ub'[j] = ub[j]
                                /\ Data'.iter_count[j] = Data.iter_count[j]
                                /\ Data'.first_iter[j] = Data.first_iter[j]
    <3>1. \A j \in Thread \ {i} : loop_id'[j] = loop_id[j] /\ lb'[j] = lb[j] /\ ub'[j] = ub[j]
      BY <1>1, <1>2, <2>1 DEF DispatchType
    <3>2. \A j \in Thread \ {i} : /\ Data'.iter_count[j] = Data.iter_count[j]
                                  /\ Data'.first_iter[j] = Data.first_iter[j]
      BY <2>2, <2>3
    <3>3. QED
      BY <3>1, <3>2
  <2>5. program[last].ordered => Numbered(i)'
    <3>1. Data'.first_iter[i] = f
      BY <2>2, <2>3
    <3>2. Own(i)' = i
      BY <1>1, <2>2 DEF Own
    <3>3. QED
      BY <1>2, <1>4, <3>1, <3>2, NumberGiven
  <2>6. QED
    BY <1>1, <1>2, <2>1, <2>2, <2>4, <2>5, OrderWithin
<1>7. QED
  BY <1>5, <1>6

LEMMA NextChunkedOrder ==
  ASSUME AllUpward, AllInRange, RoundInv, WorkInv, OrderInv, NEW i \in Thread, NextChunked(i)
  PROVE  OrderInv'
<1> DEFINE n == Data.iter_count[i]
           lower == Wrap(Data.lower + Data.chunk * (i + NumThreads * Data.stride * n))
           upper == Clipped(Wrap(lower + Data.stride * (Data.chunk - 1)), Data.upper)
           f == i + n * Data.stride * NumThreads
           v == IF lower > Data.upper THEN AfterLoop(i) ELSE "run"
<1>1. /\ Within(i) /\ pc[i] = "next" /\ Data.schedule = "chunked"
      /\ loop_id' = loop_id /\ times' = times /\ sequence' = sequence
      /\ pc' = [pc EXCEPT ![i] = v]
      /\ Data' = [Data EXCEPT
           !.schedule_count = @ + Data.chunk, !.iter_count[i] = n + 1,
           !.first_iter[i] = f, !.last_iter[i] = f + Data.stride]
      /\ lb' = [lb EXCEPT ![i] = lower] /\ ub' = [ub EXCEPT ![i] = upper]
  BY NextChunkedEffect
<1>2. v \in {"run", "body", "barrier"}
  BY DEF AfterLoop
<1> HIDE DEF lower, upper, v
<1>3. /\ DispatchType /\ last \in DOMAIN program /\ DataKept /\ last > 0
      /\ program' = program /\ last' = last /\ Data \in LoopData
  BY <1>1 DEF RoundInv, Within, WorkInv
<1>4. Data.iter_count \in [Thread -> Int] /\ Data.first_iter \in [Thread -> Int] /\ n \in Int
  BY <1>3 DEF LoopData
<1>5. program[last].ordered => ChunkSize(program[last]) = 1 /\ f = i + NumThreads * n /\ f \in Int
  <2>1. SUFFICES ASSUME program[last].ordered
                 PROVE  ChunkSize(program[last]) = 1 /\ f = i + NumThreads * n /\ f \in Int
    OBVIOUS
  <2>2. program[last].schedule = "chunked" /\ Data.stride = program[last].stride
    BY <1>1, <1>3 DEF DataKept
  <2>3. program[last].chunk <= 1
    BY <1>3, <2>1, <2>2, RangeOf
  <2>4. /\ program[last].stride = 1 /\ ChunkSize(program[last]) \in Nat \ {0}
        /\ ChunkSize(program[last]) =
             IF program[last].chunk = 0 THEN 1 ELSE program[last].chunk
    BY <1>3, <2>2, UpwardLoop
  <2>5. ChunkSize(program[last]) = 1
    BY <2>3, <2>4
  <2>6. f = i + NumThreads * n /\ f \in Int
    BY <1>4, <2>2, <2>4, ThreadType
  <2>7. QED
    BY <2>5, <2>6
<1> HIDE DEF f, n
<1>6. /\ Data'.schedule = Data.schedule /\ Data'.ordered_count = Data.ordered_count
      /\ Data'.iter_count = [Data.iter_count EXCEPT ![i] = n + 1]
      /\ Data'.first_iter = [Data.first_iter EXCEPT ![i] = f]
  BY <1>1, <1>3 DEF LoopData
<1>7. \A j \in Thread \ {i} : /\ loop_id'[j] = loop_id[j] /\ lb'[j] = lb[j] /\ ub'[j] = ub[j]
                              /\ Data'.iter_count[j] = Data.iter_count[j]
                              /\ Data'.first_iter[j] = Data.first_iter[j]
  <2>1. \A j \in Thread \ {i} : loop_id'[j] = loop_id[j] /\ lb'[j] = lb[j] /\ ub'[j] = ub[j]
    BY <1>1, <1>3 DEF DispatchType
  <2>2. \A j \in Thread \ {i} : /\ Data'.iter_count[j] = Data.iter_count[j]
                                /\ Data'.first_iter[j] = Data.first_iter[j]
    BY <1>4, <1>6
  <2>3. QED
    BY <2>1, <2>2
<1>8. program[last].ordered => Numbered(i)'
  <2>1. Data'.first_iter[i] = f /\ Data'.iter_count[i] = n + 1
    BY <1>4, <1>6
  <2>2. Own(i)' = i + NumThreads * n
    <3>1. Own(i)' = i + NumThreads * (Data'.iter_count[i] - 1)
      BY <1>1, <1>6 DEF Own
    <3>2. (n + 1) - 1 = n
      BY <1>4
    <3>3. QED
      BY <2>1, <3>1, <3>2
  <2>3. program[last].ordered => f = f * 1
    BY <1>5
  <2>4. QED
    BY <1>3, <1>5, <2>1, <2>2, <2>3, NumberGiven
<1>9. QED
  BY <1>1, <1>2, <1>3, <1>6, <1>7, <1>8, OrderWithin

LEMMA BoundsOrder ==
  ASSUME AllUpward, AllInRange, RoundInv, WorkInv, OrderInv, NEW i \in Thread, Bounds(i)
  PROVE  OrderInv'
<1> DEFINE lower == Wrap(Data.lower + loop_id[i] * Data.stride * Data.chunk)
           upper == Clipped(Wrap(lower + (Data.chunk - 1) * Data.stride), Data.upper)
           v == IF lower > Data.upper THEN AfterLoop(i) ELSE "run"
<1>1. /\ Within(i) /\ pc[i] = "bounds" /\ pc' = [pc EXCEPT ![i] = v]
      /\ loop_id' = loop_id /\ times' = times /\ sequence' = sequence
      /\ Data' = [Data EXCEPT
           !.first_iter[i] = loop_id[i], !.last_iter[i] = loop_id[i] + Data.chunk]
      /\ lb' = [lb EXCEPT ![i] = lower] /\ ub' = [ub EXCEPT ![i] = upper]
  BY BoundsEffect
<1>2. v \in {"run", "body", "barrier"}
  BY DEF AfterLoop
<1> HIDE DEF lower, upper, v
<1>3. /\ DispatchType /\ last \in DOMAIN program /\ DataKept /\ last > 0 /\ SharedBy(i)
      /\ program' = program /\ last' = last /\ Data \in LoopData
  BY <1>1 DEF RoundInv, Within, WorkInv, Shared
<1>4. Data.schedule = "dynamic" /\ loop_id[i] \in Int
  BY <1>1, <1>3 DEF SharedBy, DispatchType
<1>5. program[last].ordered => ChunkSize(program[last]) = 1
  <2>1. SUFFICES ASSUME program[last].ordered PROVE ChunkSize(program[last]) = 1
    OBVIOUS
  <2>2. program[last].schedule = "dynamic"
    BY <1>3, <1>4 DEF DataKept
  <2>3. program[last].chunk <= 1
    BY <1>3, <2>1, <2>2, RangeOf
  <2>4. /\ ChunkSize(program[last]) \in Nat \ {0}
        /\ ChunkSize(program[last]) =
             IF program[last].chunk = 0 THEN 1 ELSE program[last].chunk
    BY <1>3, <2>2, UpwardLoop
  <2>5. QED
    BY <2>3, <2>4
<1>6. /\ Data'.schedule = Data.schedule /\ Data'.ordered_count = Data.ordered_count
      /\ Data'.iter_count = Data.iter_count
      /\ Data'.first_iter = [Data.first_iter EXCEPT ![i] = loop_id[i]]
  BY <1>1, <1>3 DEF LoopData
<1>7. Data.first_iter \in [Thread -> Int]
  BY <1>3 DEF LoopData
<1>8. \A j \in Thread \ {i} : /\ loop_id'[j] = loop_id[j] /\ lb'[j] = lb[j] /\ ub'[j] = ub[j]
                              /\ Data'.iter_count[j] = Data.iter_count[j]
                              /\ Data'.first_iter[j] = Data.first_iter[j]
  <2>1. \A j \in Thread \ {i} : loop_id'[j] = loop_id[j] /\ lb'[j] = lb[j] /\ ub'[j] = ub[j]
    BY <1>1, <1>3 DEF DispatchType
  <2>2. \A j \in Thread \ {i} : Data'.first_iter[j] = Data.first_iter[j]
    BY <1>6, <1>7
  <2>3. QED
    BY <1>6, <2>1, <2>2
<1>9. program[last].ordered => Numbered(i)'
  <2>1. Data'.first_iter[i] = loop_id[i]
    BY <1>6, <1>7
  <2>2. Own(i)' = loop_id[i]
    BY <1>1, <1>4, <1>6 DEF Own
  <2>3. loop_id[i] = loop_id[i] * 1
    BY <1>4
  <2>4. QED
    BY <1>3, <1>5, <2>1, <2>2, <2>3, NumberGiven
<1>10. QED
  BY <1>1, <1>2, <1>3, <1>6, <1>8, <1>9, OrderWithin

LEMMA InitSlotsOrder ==
  ASSUME RoundInv, OrderInv, NEW i \in Thread, InitSlots(i)
  PROVE  OrderInv'
<1>1. /\ pc[i] = "slots" /\ pc' = [pc EXCEPT ![i] = "pointer"]
      /\ last > 0 /\ Data \in LoopData
      /\ loop_num' = [loop_num EXCEPT ![i] = last]
      /\ program' = program /\ loop_id' = loop_id /\ lb' = lb /\ ub' = ub
      /\ times' = times /\ sequence' = sequence /\ last' = last
      /\ Data' = [Data EXCEPT !.first_iter[i] = 0, !.last_iter[i] = 0, !.iter_count[i] = 0]
  BY InitSlotsEffect
<1>2. DispatchType
  BY DEF RoundInv
<1>3. /\ Data'.schedule = Data.schedule /\ Data'.ordered_count = Data.ordered_count
      /\ Data'.iter_count = [Data.iter_count EXCEPT ![i] = 0]
      /\ Data'.first_iter = [Data.first_iter EXCEPT ![i] = 0]
  BY <1>1 DEF LoopData
<1>4. Data.iter_count \in [Thread -> Int] /\ Data.first_iter \in [Thread -> Int]
  BY <1>1 DEF LoopData
<1>5. /\ pc'[i] = "pointer" /\ \A j \in Thread \ {i} : pc'[j] = pc[j]
      /\ \A j \in Thread \ {i} : loop_num'[j] = loop_num[j]
  BY <1>1, <1>2 DEF DispatchType
<1>6. \A j \in Thread \ {i} : Same(j) /\ Data'.first_iter[j] = Data.first_iter[j]
  <2>1. \A j \in Thread \ {i} : /\ Data'.iter_count[j] = Data.iter_count[j]
                                /\ Data'.first_iter[j] = Data.first_iter[j]
    BY <1>3, <1>4
  <2>2. QED
    BY <1>1, <1>5, <2>1 DEF Same
<1>7. Numbered(i)'
  BY <1>5 DEF Numbered
<1>8. QED
  BY <1>1, <1>3, <1>5, <1>6, <1>7, OrderStays

LEMMA AddLoopOrder ==
  ASSUME RoundInv, WorkInv, OrderInv, NEW i \in Thread, AddLoop(i)
  PROVE  OrderInv'
<1>1. /\ pc[i] = "body" /\ pc' = [pc EXCEPT ![i] = "slots"]
      /\ program' = program /\ loop_num' = loop_num
      /\ loop_id' = loop_id /\ lb' = lb /\ ub' = ub /\ times' = times /\ sequence' = sequence
  BY AddLoopEffect
<1>2. \/ /\ last < Len(program) /\ \A j \in Thread : pc[j] = "body"
         /\ last' = last + 1 /\ Data' = NewLoop(program[last + 1])
      \/ /\ loop_num[i] + 1 = last /\ last' = last /\ Data' = Data
  BY AddLoopEffect
<1>3. DispatchType /\ pc'[i] = "slots" /\ \A j \in Thread \ {i} : pc'[j] = pc[j]
  BY <1>1 DEF RoundInv, DispatchType
<1>4. CASE loop_num[i] + 1 = last /\ last' = last /\ Data' = Data
  <2>1. last > 0
    BY <1>3, <1>4 DEF DispatchType
  <2>2. \A j \in Thread \ {i} : Same(j)
    BY <1>1, <1>3, <1>4 DEF Same
  <2>3. Numbered(i)'
    BY <1>3 DEF Numbered
  <2>4. QED
    BY <1>1, <1>3, <1>4, <2>1, <2>2, <2>3, OrderStays
<1>5. CASE /\ last < Len(program) /\ \A j \in Thread : pc[j] = "body"
           /\ last' = last + 1 /\ Data' = NewLoop(program[last + 1])
  <2>1. last \in Nat /\ last + 1 \in DOMAIN program /\ \A k \in DOMAIN program : k \in Int
    <3>1. program \in Seq(LoopKind) /\ heap \in Seq(Seq(LoopData)) /\ heap # <<>>
      BY <1>3, ProgramsAssumption DEF DispatchType
    <3>2. last \in Nat
      BY <3>1, DataType
    <3>3. last + 1 \in DOMAIN program
      BY <1>5, <3>1, <3>2
    <3>4. \A k \in DOMAIN program : k \in Int
      BY <3>1
    <3>5. QED
      BY <3>2, <3>3, <3>4
  <2>2. \A j \in Thread : pc'[j] \notin {"run", "wait", "end_ordered"}
    BY <1>3, <1>5
  <2>3. OrderedInSequence'
    BY <1>1 DEF OrderInv, OrderedInSequence
  <2>4. \A k \in DOMAIN program' : k > last' => sequence'[k] = <<>>
    <3>1. last' = last + 1
      BY <1>5
    <3>2. QED
      BY <1>1, <2>1, <3>1 DEF OrderInv
  <2>5. sequence'[last'] = <<>>
    <3>1. last' = last + 1
      BY <1>5
    <3>2. QED
      BY <1>1, <2>1, <3>1 DEF OrderInv
  <2>6. Ran' = 0
    BY <2>5 DEF Ran
  <2>7. \A x \in CInt : times'[last'][x] = 0
    <3>1. last' = last + 1
      BY <1>5
    <3>2. QED
      BY <1>1, <2>1, <3>1 DEF WorkInv, OtherLoops
  <2>8. RanInOrder'
    BY <2>6, <2>7 DEF RanInOrder
  <2>9. Data'.ordered_count = 0
    BY <1>5 DEF NewLoop
  <2>10. Counted'
    BY <2>2, <2>6, <2>9 DEF Counted
  <2>11. \A j \in Thread : Numbered(j)'
    BY <2>2 DEF Numbered
  <2>12. QED
    BY <2>2, <2>3, <2>4, <2>8, <2>10, <2>11 DEF OrderInv
<1>6. QED
  BY <1>2, <1>4, <1>5

LEMMA BarrierOrder ==
  ASSUME RoundInv, OrderInv, Barrier
  PROVE  OrderInv'
<1>1. /\ pc' = [i \in Thread |-> "body"] /\ \A i \in Thread : pc[i] = "barrier"
      /\ program' = program /\ heap' = heap /\ lb' = lb /\ times' = times /\ sequence' = sequence
  BY DEF Barrier
<1>2. last' = last /\ Data' = Data
  BY <1>1 DEF last, Data, loop_list
<1>3. \A i \in Thread : pc'[i] = "body"
  BY <1>1
<1>4. \A i \in Thread : Numbered(i)'
  BY <1>3 DEF Numbered
<1>5. QED
  BY <1>1, <1>2, <1>3, <1>4, OrderKept

LEMMA OrderInitial ==
  ASSUME Init
  PROVE  OrderInv
<1>1. /\ program \in Programs /\ heap = << <<>> >> /\ sequence = [k \in DOMAIN program |-> <<>>]
  BY DEF Init
<1>2. \A k \in DOMAIN program : sequence[k] = <<>>
  BY <1>1
<1>3. last = 0
  BY <1>1 DEF last, loop_list
<1>4. OrderedInSequence
  BY <1>2 DEF OrderedInSequence
<1>5. QED
  BY <1>2, <1>3, <1>4 DEF OrderInv

\* Where in the loop a thread is that has something left.
LEMMA InLoop ==
  ASSUME AllUpward, DispatchType, last \in DOMAIN program, NEW j \in Nat, NEW x \in Chunk(j)
  PROVE  x \in CInt /\ x \in Int
<1> DEFINE l == program[last].lower
           u == program[last].upper
           d == program[last].stride
<1>1. l \in CInt /\ u \in CInt /\ d \in Nat \ {0}
  BY UpwardLoop
<1>2. x \in Iterations(l, u, d)
  BY ChunksApart DEF Asked
<1> HIDE DEF l, u, d
<1>3. x \in l..u
  BY <1>1, <1>2 DEF Iterations
<1>4. QED
  BY <1>1, <1>3, IntMaxAssumption DEF CInt

LEMMA Position ==
  ASSUME AllUpward, DispatchType, last \in DOMAIN program, DataKept, Shared,
         NEW i \in Thread, pc[i] \in {"run", "wait", "end_ordered"}, lb[i] <= ub[i],
         NEW l, l = program[last].lower, NEW d, d = program[last].stride,
         NEW c, c = ChunkSize(program[last])
  PROVE  /\ Own(i) \in Nat /\ lb[i] \in Chunk(Own(i)) /\ lb[i] \in CInt
         /\ \E q \in Nat :
              /\ lb[i] = l + (Own(i) * c + q) * d
              /\ q > 0 => lb[i] - d \in Chunk(Own(i))
<1> DEFINE a == ChunkLower(Own(i))
           b == ChunkUpper(Own(i))
<1>1. l \in Int /\ d \in Nat \ {0} /\ c \in Nat \ {0}
  BY UpwardLoop
<1>2. /\ Own(i) \in Nat /\ lb[i] \in Int
      /\ \E q \in 0..IntMax : lb[i] = ChunkLower(Own(i)) + q * d
  BY OwnRange
<1>3. ub[i] = ChunkUpper(Own(i)) /\ ub[i] \in Int
  BY OwnRange
<1>4. PICK q \in 0..IntMax : lb[i] = a + q * d
  BY <1>2
<1>5. a = l + Own(i) * (c * d) /\ a \in Int /\ b \in Int
  BY <1>2, Chunks
<1>6. Chunk(Own(i)) = Iterations(a, b, d)
  BY <1>2, Chunks
<1>7. q \in Nat /\ b = ub[i]
  BY <1>3, IntMaxAssumption
<1> HIDE DEF a, b
<1>8. lb[i] \in Iterations(a, b, d)
  BY <1>1, <1>4, <1>5, <1>7, IterationsUp
<1>9. lb[i] = l + (Own(i) * c + q) * d
  <2>1. (Own(i) * c + q) * d = Own(i) * (c * d) + q * d
    BY <1>1, <1>2, <1>7
  <2>2. Own(i) * (c * d) \in Int /\ q * d \in Int
    BY <1>1, <1>2, <1>7
  <2>3. QED
    BY <1>1, <1>4, <1>5, <2>1, <2>2
<1>10. ASSUME q > 0 PROVE lb[i] - d \in Iterations(a, b, d)
  <2>1. q - 1 \in Nat /\ (q - 1) * d = q * d - d /\ q * d \in Int
    BY <1>1, <1>7, <1>10
  <2>2. lb[i] - d = a + (q - 1) * d
    BY <1>1, <1>4, <1>5, <2>1
  <2>3. lb[i] - d <= b
    BY <1>1, <1>2, <1>3, <1>7
  <2>4. QED
    BY <1>1, <1>5, <2>1, <2>2, <2>3, IterationsUp
<1>11. lb[i] \in CInt
  BY <1>2, <1>6, <1>8, InLoop
<1>12. QED
  BY <1>2, <1>6, <1>7, <1>8, <1>9, <1>10, <1>11

\* Two threads are not at the same iteration.
LEMMA NotBoth ==
  ASSUME AllUpward, DispatchType, last \in DOMAIN program, DataKept, Shared,
         NEW i \in Thread, NEW j \in Thread, i # j, Holds(i), Holds(j),
         Own(i) \in Nat, Own(j) \in Nat, NEW x, x \in Chunk(Own(i)), x \in Chunk(Own(j))
  PROVE  FALSE
<1>1. Own(i) = Own(j)
  BY ChunksApart
<1>2. QED
  BY <1>1 DEF Shared

\* The one that is let in has the iteration whose turn it is.
LEMMA InTurn ==
  ASSUME AllUpward, DispatchType, last \in DOMAIN program, last > 0, WorkInv, OrderInv,
         NEW i \in Thread, pc[i] = "wait", Data.first_iter[i] <= Data.ordered_count,
         Data \in LoopData, NEW n, n = Ran, n \in Nat
  PROVE  /\ program[last].ordered
         /\ lb[i] = program[last].lower + n * program[last].stride
         /\ Data.ordered_count = n
         /\ \A j \in Thread : pc[j] # "end_ordered"
<1> DEFINE l == program[last].lower
           d == program[last].stride
           c == ChunkSize(program[last])
<1>1. /\ l \in Int /\ d \in Nat \ {0} /\ c \in Nat \ {0}
  BY UpwardLoop
<1>2. program[last].ordered
  BY DEF OrderInv
<1>3. /\ RanInOrder /\ Counted /\ Numbered(i) /\ DataKept /\ Shared /\ RunOrLeft /\ SharedBy(i)
      /\ Holds(i) /\ lb[i] <= ub[i]
  BY <1>2 DEF OrderInv, WorkInv, Shared, SharedBy, Holds
<1>4. /\ Own(i) \in Nat /\ lb[i] \in Chunk(Own(i)) /\ lb[i] \in CInt
      /\ \E q \in Nat :
           /\ lb[i] = l + (Own(i) * c + q) * d
           /\ q > 0 => lb[i] - d \in Chunk(Own(i))
  BY <1>3, Position
<1>5. PICK q \in Nat : /\ lb[i] = l + (Own(i) * c + q) * d
                       /\ q > 0 => lb[i] - d \in Chunk(Own(i))
  BY <1>4
<1>6. Data.first_iter[i] = Own(i) * c
  BY <1>3 DEF Numbered
<1>7. \A x \in CInt : times[last][x] > 0 <=> \E m \in 0..(n - 1) : x = l + m * d
  BY <1>3 DEF RanInOrder
<1>8. /\ \A j \in Thread : pc[j] = "end_ordered" =>
           Data.ordered_count = n - 1 /\ lb[j] = l + (n - 1) * d
      /\ (\A j \in Thread : pc[j] # "end_ordered") => Data.ordered_count = n
  BY <1>3 DEF Counted
<1>9. Left(i) = Iterations(lb[i], ub[i], d)
  BY DEF Left
<1>10. lb[i] \in Int /\ ub[i] \in Int
  BY <1>3, OwnRange
<1> HIDE DEF l, d, c
<1> DEFINE p == Own(i) * c + q
<1>11. p \in Nat /\ Own(i) * c \in Nat
  BY <1>1, <1>4, <1>5
\* It has not run yet, so those that have are before it.
<1>12. n <= p
  <2>1. lb[i] \in Left(i)
    BY <1>1, <1>3, <1>9, <1>10, FirstIteration
  <2>2. times[last][lb[i]] = 0
    BY <1>3, <1>4, <2>1 DEF RunOrLeft
  <2>3. ~(\E m \in 0..(n - 1) : lb[i] = l + m * d)
    BY <1>4, <1>7, <2>2
  <2> HIDE DEF p
  <2>4. lb[i] = l + p * d
    BY <1>5 DEF p
  <2>5. QED
    BY <1>11, <2>3, <2>4
\* The iteration before it in its chunk has run.
<1>13. ASSUME q > 0
       PROVE  lb[i] - d \in Chunk(Own(i)) /\ \E m \in 0..(n - 1) : lb[i] - d = l + m * d
  <2>1. lb[i] - d \in Chunk(Own(i))
    BY <1>5, <1>13
  <2>2. lb[i] - d \in CInt /\ lb[i] - d \in Int
    BY <1>4, <2>1, InLoop
  <2>3. \A k \in Thread : lb[i] - d \notin Left(k)
    <3>1. SUFFICES ASSUME NEW k \in Thread, lb[i] - d \in Left(k) PROVE FALSE
      OBVIOUS
    <3>2. Holds(k) /\ Own(k) \in Nat /\ lb[i] - d \in Chunk(Own(k))
      BY <1>3, <3>1, LeftInChunk
    <3>3. k = i
      <4> DEFINE x == lb[i] - d
      <4>1. x \in Chunk(Own(i)) /\ x \in Chunk(Own(k))
        BY <2>1, <3>2
      <4> HIDE DEF x
      <4>2. QED
        BY <1>3, <1>4, <3>2, <4>1, NotBoth
    <3>4. lb[i] - d \in lb[i]..ub[i]
      BY <1>1, <1>9, <3>1, <3>3 DEF Iterations
    <3>5. QED
      BY <1>1, <1>10, <3>4
  <2>4. Own(i) \in HandedOut
    BY <1>3 DEF SharedBy
  <2>5. times[last][lb[i] - d] = 1
    BY <1>3, <2>1, <2>2, <2>3, <2>4 DEF RunOrLeft
  <2>6. QED
    BY <1>7, <2>1, <2>2, <2>5
<1>14. p <= n
  <2>1. CASE q = 0
    <3>1. p = Data.first_iter[i]
      BY <1>4, <1>1, <1>6, <2>1
    <3>2. Data.ordered_count <= n
      BY <1>8
    <3>3. Data.ordered_count \in Int /\ Data.first_iter[i] \in Int
      BY DEF LoopData
    <3> HIDE DEF p
    <3>4. QED
      BY <3>1, <3>2, <3>3
  <2>2. CASE q > 0
    <3>1. PICK m \in 0..(n - 1) : lb[i] - d = l + m * d
      BY <1>13, <2>2
    <3> HIDE DEF p
    <3>2. lb[i] = l + p * d
      BY <1>5 DEF p
    <3>3. p * d = (m + 1) * d
      BY <1>1, <1>11, <3>1, <3>2
    <3>4. p <= m + 1
      <4>1. SUFFICES ASSUME m + 1 < p PROVE FALSE
        BY <1>11
      <4>2. (m + 1) + 1 <= p
        BY <1>11, <4>1
      <4>3. ((m + 1) + 1) * d <= p * d
        BY <1>1, <1>11, <4>2, MulMono
      <4>4. ((m + 1) + 1) * d = (m + 1) * d + d /\ (m + 1) * d \in Int
        BY <1>1
      <4>5. QED
        BY <1>1, <3>3, <4>3, <4>4
    <3>5. QED
      BY <1>11, <3>4
  <2>3. QED
    BY <2>1, <2>2
<1>15. p = n
  BY <1>11, <1>12, <1>14
<1>16. lb[i] = l + n * d
  BY <1>5, <1>15
<1>17. ASSUME NEW j \in Thread, pc[j] = "end_ordered" PROVE FALSE
  <2>1. Data.ordered_count = n - 1 /\ lb[j] = l + (n - 1) * d
    BY <1>8, <1>17
  <2>2. CASE q = 0
    <3>1. p = Data.first_iter[i]
      BY <1>4, <1>1, <1>6, <2>2
    <3>2. n <= n - 1
      BY <1>15, <2>1, <3>1
    <3>3. QED
      BY <3>2
  <2>3. CASE q > 0
    <3>1. lb[j] = lb[i] - d
      <4>1. (n - 1) * d = n * d - d /\ n * d \in Int
        BY <1>1
      <4>2. QED
        BY <1>1, <1>16, <2>1, <4>1
    <3>2. lb[j] \in Chunk(Own(i))
      BY <1>13, <2>3, <3>1
    <3>3. SharedBy(j) /\ Holds(j)
      BY <1>3, <1>17 DEF Shared, Holds
    <3>4. lb[j] <= ub[j]
      BY <1>17, <3>3 DEF SharedBy
    <3>5. Own(j) \in Nat /\ lb[j] \in Chunk(Own(j))
      BY <1>3, <1>17, <3>4, Position
    <3>6. i # j
      BY <1>17
    <3>7. QED
      BY <1>3, <1>4, <3>2, <3>3, <3>5, <3>6, NotBoth
  <2>4. QED
    BY <2>2, <2>3
<1>18. Data.ordered_count = n
  BY <1>8, <1>17
<1>19. QED
  BY <1>2, <1>16, <1>17, <1>18 DEF l, d

\* What the sequence of a loop is after one more.
LEMMA Appended ==
  ASSUME NEW s \in Seq(Int), NEW y \in Int
  PROVE  /\ Len(s) \in Nat /\ DOMAIN s = 1..Len(s)
         /\ Len(Append(s, y)) = Len(s) + 1
         /\ DOMAIN Append(s, y) = 1..(Len(s) + 1)
         /\ \A n \in 1..Len(s) : Append(s, y)[n] = s[n]
         /\ Append(s, y)[Len(s) + 1] = y
OBVIOUS

LEMMA RanNext ==
  ASSUME NEW t, sequence'[last'] = t
  PROVE  Ran' = Len(t)
BY DEF Ran

LEMMA SequenceGrows ==
  ASSUME DispatchType, last \in DOMAIN program, program' = program, last' = last,
         NEW y \in Int, sequence' = [sequence EXCEPT ![last] = Append(@, y)],
         OrderedInSequence, y = program[last].lower + Ran * program[last].stride
  PROVE  /\ OrderedInSequence' /\ Ran \in Nat /\ Ran' = Ran + 1
         /\ \A k \in DOMAIN program : k # last => sequence'[k] = sequence[k]
<1> DEFINE s == sequence[last]
           t == Append(s, y)
           n == Len(s)
           m == Len(t)
<1>1. sequence \in [DOMAIN program -> Seq(Int)]
  BY DEF DispatchType
<1>2. s \in Seq(Int)
  BY <1>1
<1> HIDE DEF s
<1>3. /\ n \in Nat /\ DOMAIN s = 1..n /\ m = n + 1 /\ DOMAIN t = 1..(n + 1)
      /\ \A k \in 1..n : t[k] = s[k]
      /\ t[n + 1] = y
  BY <1>2, Appended
<1>4. sequence' = [sequence EXCEPT ![last] = t]
  BY DEF s
<1>5. Ran = n
  BY DEF Ran, s
<1> HIDE DEF t
<1>6. sequence'[last] = t /\ \A k \in DOMAIN program : k # last => sequence'[k] = sequence[k]
  BY <1>1, <1>4
<1>7. Ran' = m
  BY <1>6, RanNext
<1> HIDE DEF n, m
<1>8. ASSUME NEW k \in DOMAIN program, NEW q \in DOMAIN sequence'[k]
      PROVE  sequence'[k][q] = program[k].lower + (q - 1) * program[k].stride
  <2>1. CASE k # last
    BY <1>6, <2>1 DEF OrderedInSequence
  <2>2. CASE k = last
    <3>1. q \in 1..(n + 1)
      BY <1>3, <1>6, <2>2
    <3>2. CASE q \in 1..n
      BY <1>3, <1>6, <2>2, <3>2 DEF OrderedInSequence, s
    <3>3. CASE q = n + 1
      <4>1. q - 1 = n
        BY <1>3, <3>3
      <4>2. sequence'[k][q] = y
        BY <1>3, <1>6, <2>2, <3>3
      <4>3. QED
        BY <1>5, <2>2, <4>1, <4>2
    <3>4. QED
      BY <1>3, <3>1, <3>2, <3>3
  <2>3. QED
    BY <2>1, <2>2
<1>9. OrderedInSequence'
  BY <1>8 DEF OrderedInSequence
<1>10. QED
  BY <1>3, <1>5, <1>6, <1>7, <1>9

LEMMA RanType ==
  ASSUME DispatchType, last \in DOMAIN program
  PROVE  Ran \in Nat
<1>1. sequence[last] \in Seq(Int)
  BY DEF DispatchType
<1>2. QED
  BY <1>1 DEF Ran

\* A thread's chunk keeps its number when the thread only moves on in it.
LEMMA NumberedStays ==
  ASSUME program' = program, last' = last, loop_id' = loop_id,
         Data'.schedule = Data.schedule, Data'.iter_count = Data.iter_count,
         Data'.first_iter = Data.first_iter,
         NEW j, pc'[j] \in {"run", "wait", "end_ordered"} =>
                  pc[j] \in {"run", "wait", "end_ordered"},
         Numbered(j)
  PROVE  Numbered(j)'
<1>1. Own(j)' = Own(j)
  BY DEF Own
<1>2. QED
  BY <1>1 DEF Numbered, ChunkSize

LEMMA OrderedOrder ==
  ASSUME AllUpward, RoundInv, WorkInv, OrderInv, NEW i \in Thread, Ordered(i)
  PROVE  OrderInv'
<1> DEFINE n == Ran
           l == program[last].lower
           d == program[last].stride
           y == lb[i]
<1>1. /\ Within(i) /\ pc[i] = "wait" /\ pc' = [pc EXCEPT ![i] = "end_ordered"]
      /\ Data' = Data /\ ~(Data.ordered_count < Data.first_iter[i])
      /\ loop_id' = loop_id /\ lb' = lb
      /\ Execute(last, {y}) /\ sequence' = [sequence EXCEPT ![last] = Append(@, y)]
  BY OrderedEffect
<1>2. /\ DispatchType /\ last \in DOMAIN program /\ last > 0 /\ Data \in LoopData
      /\ program' = program /\ last' = last
  BY <1>1 DEF RoundInv, Within
<1>3. n \in Nat
  BY <1>2, RanType
<1>4. Data.first_iter[i] <= Data.ordered_count
  <2>1. Data.first_iter[i] \in Int /\ Data.ordered_count \in Int
    BY <1>2 DEF LoopData
  <2>2. QED
    BY <1>1, <2>1
<1>5. /\ program[last].ordered /\ y = l + n * d /\ Data.ordered_count = n
      /\ \A j \in Thread : pc[j] # "end_ordered"
  BY <1>1, <1>2, <1>3, <1>4, InTurn
<1>6. y \in Int
  BY <1>2 DEF DispatchType
<1>7. /\ OrderedInSequence' /\ Ran' = n + 1
      /\ \A k \in DOMAIN program : k # last => sequence'[k] = sequence[k]
  <2>1. OrderedInSequence
    BY DEF OrderInv
  <2> HIDE DEF y
  <2>2. QED
    BY <1>1, <1>2, <1>5, <1>6, <2>1, SequenceGrows
<1>8. \A k \in DOMAIN program' : k > last' => sequence'[k] = <<>>
  <2>1. SUFFICES ASSUME NEW k \in DOMAIN program, k > last PROVE sequence'[k] = <<>>
    BY <1>2
  <2>2. k # last
    <3>1. last \in Int
      BY <1>2, ProgramsAssumption DEF DispatchType
    <3>2. QED
      BY <2>1, <3>1
  <2>3. QED
    BY <1>7, <2>1, <2>2 DEF OrderInv
<1>9. /\ RanInOrder /\ \A j \in Thread : Numbered(j)
  BY <1>2, <1>5 DEF OrderInv
<1>10. RanInOrder'
  <2>1. \A x \in CInt : times'[last][x] = times[last][x] + IF x \in {y} THEN 1 ELSE 0
    BY <1>1, <1>2, TimesRun
  <2>2. \A x \in CInt : times[last][x] > 0 <=> \E m \in 0..(n - 1) : x = l + m * d
    BY <1>9 DEF RanInOrder
  <2>3. times[last] \in [CInt -> Nat]
    BY <1>2, TimesType
  <2> HIDE DEF n, l, d, y
  <2>4. ASSUME NEW x \in CInt
        PROVE  times'[last][x] > 0 <=> \E m \in 0..n : x = l + m * d
    <3>1. 0..n = (0..(n - 1)) \cup {n}
      BY <1>3
    <3>2. CASE x = y
      <4>1. times'[last][x] > 0
        BY <2>1, <2>3, <3>2
      <4>2. QED
        BY <1>5, <3>1, <3>2, <4>1
    <3>3. CASE x # y
      <4>1. times'[last][x] = times[last][x]
        BY <2>1, <2>3, <3>3
      <4>2. QED
        BY <1>5, <2>2, <3>1, <3>3, <4>1
    <3>4. QED
      BY <3>2, <3>3
  <2>5. Ran' - 1 = n
    BY <1>3, <1>7
  <2>6. QED
    BY <1>2, <2>4, <2>5 DEF RanInOrder, l, d
<1>11. pc'[i] = "end_ordered" /\ \A j \in Thread \ {i} : pc'[j] = pc[j]
  BY <1>1, <1>2 DEF DispatchType
<1>12. Counted'
  <2>1. Data'.ordered_count = Ran' - 1 /\ Ran' - 1 = n
    BY <1>1, <1>3, <1>5, <1>7
  <2>2. lb'[i] = program'[last'].lower + (Ran' - 1) * program'[last'].stride
    BY <1>1, <1>2, <1>5, <2>1
  <2>3. \A j \in Thread : pc'[j] = "end_ordered" => j = i
    BY <1>5, <1>11
  <2> HIDE DEF n
  <2>4. QED
    BY <1>11, <2>1, <2>2, <2>3 DEF Counted
<1>13. \A j \in Thread : Numbered(j)'
  BY <1>1, <1>2, <1>9, <1>11, NumberedStays
<1>14. QED
  BY <1>2, <1>5, <1>7, <1>8, <1>10, <1>12, <1>13 DEF OrderInv

LEMMA EndOrderedOrder ==
  ASSUME AllUpward, RoundInv, WorkInv, OrderInv, NEW i \in Thread, EndOrdered(i)
  PROVE  OrderInv'
<1> DEFINE n == Ran
<1>1. /\ Within(i) /\ pc[i] = "end_ordered" /\ pc' = [pc EXCEPT ![i] = "run"]
      /\ Data' = [Data EXCEPT !.ordered_count = @ + 1]
      /\ loop_id' = loop_id /\ times' = times /\ sequence' = sequence
      /\ lb' = [lb EXCEPT ![i] = @ + program[last].stride]
  BY EndOrderedEffect
<1>2. /\ DispatchType /\ last \in DOMAIN program /\ last > 0 /\ Data \in LoopData
      /\ program' = program /\ last' = last /\ DataKept /\ Shared
  BY <1>1 DEF RoundInv, Within, WorkInv
<1>3. program[last].ordered /\ n \in Nat
  BY <1>1, <1>2, RanType DEF OrderInv
<1>4. RanInOrder /\ Counted /\ \A j \in Thread : Numbered(j)
  BY <1>2, <1>3 DEF OrderInv
<1>5. Data.ordered_count = n - 1 /\ lb[i] = program[last].lower + (n - 1) * program[last].stride
  BY <1>1, <1>4 DEF Counted
<1>6. pc'[i] = "run" /\ \A j \in Thread \ {i} : pc'[j] = pc[j]
  BY <1>1, <1>2 DEF DispatchType
<1>7. /\ Data'.schedule = Data.schedule /\ Data'.iter_count = Data.iter_count
      /\ Data'.first_iter = Data.first_iter /\ Data'.ordered_count = Data.ordered_count + 1
  BY <1>1, <1>2 DEF LoopData
<1>8. Data'.ordered_count = n
  BY <1>3, <1>5, <1>7
\* Another one in its ordered part would be at the same iteration.
<1>9. ASSUME NEW j \in Thread \ {i}, pc[j] = "end_ordered" PROVE FALSE
  <2>1. lb[j] = program[last].lower + (n - 1) * program[last].stride
    BY <1>4, <1>9 DEF Counted
  <2>2. lb[j] = lb[i]
    BY <1>5, <2>1
  <2>3. SharedBy(i) /\ SharedBy(j) /\ Holds(i) /\ Holds(j)
    BY <1>1, <1>2, <1>9 DEF Shared, Holds
  <2>4. lb[i] <= ub[i] /\ lb[j] <= ub[j]
    BY <1>1, <1>9, <2>3 DEF SharedBy
  <2>5. Own(i) \in Nat /\ lb[i] \in Chunk(Own(i)) /\ Own(j) \in Nat /\ lb[j] \in Chunk(Own(j))
    BY <1>1, <1>2, <1>9, <2>4, Position
  <2>6. lb[i] \in Chunk(Own(j)) /\ i # j
    BY <2>2, <2>5
  <2>7. QED
    BY <1>2, <2>3, <2>5, <2>6, NotBoth
<1>10. Ran' = Ran
  BY <1>1, <1>2 DEF Ran
<1>11. OrderedInSequence'
  BY <1>1, <1>2 DEF OrderInv, OrderedInSequence
<1>12. \A k \in DOMAIN program' : k > last' => sequence'[k] = <<>>
  BY <1>1, <1>2 DEF OrderInv
<1>13. RanInOrder'
  BY <1>1, <1>2, <1>4, <1>10 DEF RanInOrder
<1>14. Counted'
  <2>1. \A j \in Thread : pc'[j] # "end_ordered"
    BY <1>6, <1>9
  <2>2. Data'.ordered_count = Ran'
    BY <1>8, <1>10
  <2>3. QED
    BY <2>1, <2>2 DEF Counted
<1>15. \A j \in Thread : Numbered(j)'
  BY <1>1, <1>2, <1>4, <1>6, <1>7, NumberedStays
<1>16. QED
  BY <1>2, <1>3, <1>11, <1>12, <1>13, <1>14, <1>15 DEF OrderInv

LEMMA OrderStep ==
  ASSUME AllUpward, AllInRange, RoundInv, WorkInv, OrderInv, [Next]_vars
  PROVE  OrderInv'
<1>1. CASE UNCHANGED vars
  <2>1. /\ program' = program /\ heap' = heap /\ pc' = pc /\ loop_id' = loop_id /\ lb' = lb
        /\ times' = times /\ sequence' = sequence
    BY <1>1 DEF vars
  <2>2. last' = last /\ Data' = Data
    BY <2>1 DEF last, Data, loop_list
  <2>3. last > 0 /\ program[last].ordered => \A j \in Thread : Numbered(j)'
    BY <2>1, <2>2, NumberedStays DEF OrderInv
  <2>4. last > 0 /\ ~program[last].ordered => \A j \in Thread : pc'[j] \notin {"wait", "end_ordered"}
    BY <2>1 DEF OrderInv
  <2>5. QED
    BY <2>1, <2>2, <2>3, <2>4, OrderKept
<1>2. CASE Barrier
  BY <1>2, BarrierOrder
<1>3. ASSUME NEW i \in Thread, Step(i) PROVE OrderInv'
  <2>1. CASE AddLoop(i)
    BY <2>1, AddLoopOrder
  <2>2. CASE InitSlots(i)
    BY <2>2, InitSlotsOrder
  <2>3. CASE TakePointer(i)
    BY <2>3, TakePointerOrder
  <2>4. CASE NextStatic(i)
    BY <2>4, NextStaticOrder
  <2>5. CASE NextChunked(i)
    BY <2>5, NextChunkedOrder
  <2>6. CASE Fetch(i)
    BY <2>6, FetchOrder
  <2>7. CASE Bounds(i)
    BY <2>7, BoundsOrder
  <2>8. CASE NextOther(i)
    BY <2>8, NextOtherOrder
  <2>9. CASE RunChunk(i)
    BY <2>9, RunChunkOrder
  <2>10. CASE StartOrdered(i)
    BY <2>10, StartOrderedOrder
  <2>11. CASE Ordered(i)
    BY <2>11, OrderedOrder
  <2>12. CASE EndOrdered(i)
    BY <2>12, EndOrderedOrder
  <2>13. QED
    BY <1>3, <2>1, <2>2, <2>3, <2>4, <2>5, <2>6, <2>7, <2>8, <2>9, <2>10, <2>11, <2>12 DEF Step
<1>4. QED
  BY <1>1, <1>2, <1>3 DEF Next

\* In every reachable state of such a team, if kmp_next also gives the ranges of
\* ordered loops in iterations: ordered_count is the number of the iterations
\* that have run, and each thread's first_iter is the number of its own.
THEOREM OrderInvariant ==
  ASSUME Barriers, AllUpward, AllInRange
  PROVE  Spec => []OrderInv
<1>1. Init => OrderInv
  BY OrderInitial
<1>2. RoundInv /\ WorkInv /\ OrderInv /\ [Next]_vars => OrderInv'
  BY OrderStep
<1>3. QED
  BY <1>1, <1>2, RoundInvariant, WorkInvariant, PTL DEF Spec

\* OrderedInSequence: __kmpc_ordered lets the iterations of a loop in by their
\* number, whichever threads kmp_next gave them to.
THEOREM OrderCorrect ==
  ASSUME Barriers, AllUpward, AllInRange
  PROVE  Spec => []OrderedInSequence
<1>1. OrderInv => OrderedInSequence
  BY DEF OrderInv
<1>2. QED
  BY <1>1, OrderInvariant, PTL
=============================================================================
