----------------------------- MODULE Remainders -----------------------------
(***************************************************************************)
(* Facts about x % n and x \div n for any modulus n, which the prover's    *)
(* arithmetic does not find where n is no number: every register and every *)
(* address of this code is kept modulo the size of a byte or of memory.    *)
(***************************************************************************)
EXTENDS Integers, TLAPS

LEMMA ModRange ==
  ASSUME NEW n \in Nat \ {0}, NEW x \in Int
  PROVE  x % n \in 0 .. n - 1
OBVIOUS

LEMMA DivMod ==
  ASSUME NEW n \in Nat \ {0}, NEW x \in Int
  PROVE  x \div n \in Int /\ x = n * (x \div n) + (x % n)
OBVIOUS

LEMMA SmallMod ==
  ASSUME NEW n \in Nat \ {0}, NEW x \in 0 .. n - 1
  PROVE  x % n = x /\ x \div n = 0
OBVIOUS

LEMMA MultipleOutOfReach ==
  ASSUME NEW n \in Nat \ {0}, NEW q \in Int, n * q < n, n * q > -n
  PROVE  q = 0
<1>1. q >= 1 => n * q >= n
  OBVIOUS
<1>2. q <= -1 => n * q <= -n
  OBVIOUS
<1> QED
  BY <1>1, <1>2

(* A number has one remainder *)
LEMMA UniqueRemainder ==
  ASSUME NEW n \in Nat \ {0}, NEW a1 \in Int, NEW a2 \in Int,
         NEW r \in 0 .. n - 1, NEW s \in 0 .. n - 1,
         n * a1 + r = n * a2 + s
  PROVE  r = s /\ a1 = a2
<1>1. n * (a1 - a2) = n * a1 - n * a2
  OBVIOUS
<1>2. n * a1 \in Int /\ n * a2 \in Int /\ a1 - a2 \in Int
  OBVIOUS
<1>3. n * (a1 - a2) < n /\ n * (a1 - a2) > -n
  BY <1>1, <1>2
<1>4. a1 - a2 = 0
  BY <1>2, <1>3, MultipleOutOfReach
<1> QED
  BY <1>4

(* Numbers a multiple of n apart have the same remainder *)
LEMMA SameRemainder ==
  ASSUME NEW n \in Nat \ {0}, NEW x \in Int, NEW y \in Int, NEW q \in Int,
         x = y + n * q
  PROVE  x % n = y % n
<1> DEFINE dx == x \div n
           dy == y \div n
           rx == x % n
           ry == y % n
<1>1. rx \in 0 .. n - 1 /\ ry \in 0 .. n - 1
  BY ModRange
<1>2. dx \in Int /\ dy \in Int /\ x = n * dx + rx /\ y = n * dy + ry
  BY DivMod
<1> HIDE DEF dx, dy, rx, ry
<1>4. n * dx \in Int /\ n * dy \in Int /\ n * q \in Int
  BY <1>2
<1> DEFINE dz == (dx - dy) - q
<1>5. dz \in Int /\ n * dz = (n * dx - n * dy) - n * q
  BY <1>2
<1>6. n * dz = ry - rx
  BY <1>1, <1>2, <1>4, <1>5
<1> HIDE DEF dz
<1>7. dz = 0
  BY <1>1, <1>5, <1>6, MultipleOutOfReach
<1>8. rx = ry
  BY <1>1, <1>6, <1>7
<1> QED
  BY <1>8 DEF rx, ry

(* Numbers with the same remainder are a multiple of n apart *)
LEMMA MultipleApart ==
  ASSUME NEW n \in Nat \ {0}, NEW x \in Int, NEW y \in Int, x % n = y % n
  PROVE  \E q \in Int : x = y + n * q
<1> DEFINE dx == x \div n
           dy == y \div n
<1>1. dx \in Int /\ dy \in Int /\ x = n * dx + (x % n) /\ y = n * dy + (y % n)
  BY DivMod
<1>2. x % n \in Int /\ y % n \in Int
  BY ModRange
<1>3. n * (dx - dy) = n * dx - n * dy
  BY <1>1
<1>4. n * dx \in Int /\ n * dy \in Int
  BY <1>1
<1> HIDE DEF dx, dy
<1>5. x = y + n * (dx - dy)
  BY <1>1, <1>2, <1>3, <1>4
<1> QED
  BY <1>1, <1>5, dx - dy \in Int

LEMMA CloseAndSameRemainder ==
  ASSUME NEW n \in Nat \ {0}, NEW x \in Int, NEW y \in Int, x % n = y % n,
         x - y < n, y - x < n
  PROVE  x = y
<1>1. PICK q \in Int : x = y + n * q
  BY MultipleApart
<1>2. n * q \in Int
  OBVIOUS
<1>3. n * q < n /\ n * q > -n
  BY <1>1, <1>2
<1>4. q = 0
  BY <1>3, MultipleOutOfReach
<1> QED
  BY <1>1, <1>4

(* What is added to a remainder may as well be added to the number *)
LEMMA AddToRemainder ==
  ASSUME NEW n \in Nat \ {0}, NEW x \in Int, NEW y \in Int
  PROVE  ((x % n) + y) % n = (x + y) % n
<1> DEFINE dx == x \div n
           r == x % n
<1>1. dx \in Int /\ x = n * dx + r /\ r \in Int
  BY DivMod, ModRange
<1>2. n * dx \in Int
  BY <1>1
<1> HIDE DEF dx, r
<1>3. x + y = (r + y) + n * dx
  BY <1>1, <1>2
<1>4. r + y \in Int /\ x + y \in Int
  BY <1>1
<1>5. (x + y) % n = (r + y) % n
  BY <1>1, <1>3, <1>4, SameRemainder
<1> QED
  BY <1>5 DEF r

-----------------------------------------------------------------------------
(* Counts kept as remainders                                               *)

LEMMA OnceRound ==
  ASSUME NEW n \in Nat \ {0}, NEW x \in Int
  PROVE  (x + n) % n = x % n
<1> DEFINE one == 1
           y == x + n
<1>1. one \in Int /\ y \in Int /\ y = x + n * one
  OBVIOUS
<1> HIDE DEF one, y
<1>2. y % n = x % n
  BY <1>1, SameRemainder
<1> QED
  BY <1>2 DEF y

(* A count that has been lowered d times reaches 0 with d = what it counts *)
LEMMA CountEnds ==
  ASSUME NEW n \in Nat \ {0}, NEW x \in 0 .. n - 1, NEW d \in Nat,
         d >= 1, d <= IF x = 0 THEN n ELSE x
  PROVE  (x - d) % n = 0 <=> d = IF x = 0 THEN n ELSE x
<1>1. CASE x = 0
  <2>1. x - d \in Int /\ (x - d) + n = n - d
    BY <1>1
  <2>2. (n - d) % n = (x - d) % n
    <3> DEFINE y == x - d
    <3>1. y \in Int /\ y + n = n - d
      BY <2>1
    <3> HIDE DEF y
    <3>2. (y + n) % n = y % n
      BY <3>1, OnceRound
    <3> QED
      BY <3>1, <3>2 DEF y
  <2>3. CASE d = n
    BY <2>2, <2>3, <1>1, SmallMod
  <2>4. CASE d # n
    <3>1. n - d \in 0 .. n - 1 /\ n - d # 0
      BY <1>1, <2>4
    <3> QED
      BY <2>2, <2>4, <3>1, <1>1, SmallMod
  <2> QED
    BY <2>3, <2>4
<1>2. CASE x # 0
  <2>1. x - d \in 0 .. n - 1
    BY <1>2
  <2>2. (x - d) % n = x - d
    BY <2>1, SmallMod
  <2> QED
    BY <1>2, <2>2
<1> QED
  BY <1>1, <1>2

(* Lowering a count that is kept as a remainder *)
LEMMA CountDown ==
  ASSUME NEW n \in Nat \ {0}, NEW x \in 0 .. n - 1, NEW d \in Nat
  PROVE  /\ (((x - d) % n) - 1) % n = (x - (d + 1)) % n
         /\ (x - d) % n \in 0 .. n - 1 /\ (x - (d + 1)) % n \in 0 .. n - 1
         /\ d < (IF x = 0 THEN n ELSE x) =>
              ((x - (d + 1)) % n # 0 <=> d + 1 # IF x = 0 THEN n ELSE x)
<1> DEFINE e == d + 1
           y == x - d
           minus == -1
<1>1. y \in Int /\ minus \in Int /\ y + minus = x - (d + 1) /\ e \in Nat /\ e >= 1
  OBVIOUS
<1>2. x - e = x - (d + 1)
  OBVIOUS
<1>3. (y % n) + minus = (y % n) - 1
  BY ModRange
<1>4. (x - e) % n \in 0 .. n - 1
  <2> DEFINE u == x - e
  <2>1. u \in Int
    BY <1>1
  <2> HIDE DEF u
  <2>2. u % n \in 0 .. n - 1
    BY <2>1, ModRange
  <2> QED
    BY <2>2 DEF u
<1>5. d < (IF x = 0 THEN n ELSE x) => e <= IF x = 0 THEN n ELSE x
  OBVIOUS
<1> HIDE DEF e, y, minus
<1>6. y % n \in 0 .. n - 1
  BY <1>1, ModRange
<1>7. ((y % n) + minus) % n = (y + minus) % n
  BY <1>1, AddToRemainder
<1>8. (((x - d) % n) - 1) % n = (x - (d + 1)) % n
  BY <1>1, <1>3, <1>7, Zenon DEF y
<1>9. d < (IF x = 0 THEN n ELSE x) =>
        ((x - e) % n = 0 <=> e = IF x = 0 THEN n ELSE x)
  BY <1>1, <1>5, CountEnds
<1>10. (x - d) % n \in 0 .. n - 1
  BY <1>6 DEF y
<1>11. (x - (d + 1)) % n \in 0 .. n - 1
  BY <1>2, <1>4, Zenon
<1>12. d < (IF x = 0 THEN n ELSE x) =>
        ((x - (d + 1)) % n = 0 <=> d + 1 = IF x = 0 THEN n ELSE x)
  BY <1>2, <1>9, Zenon DEF e
<1> QED
  BY <1>8, <1>10, <1>11, <1>12, Zenon

=============================================================================
