-------------------------- MODULE ArithmeticProofs --------------------------
(***************************************************************************)
(* The flags of the 8-bit and 16-bit operations, DAA, the rotates and the  *)
(* Q latch, for every value of the registers, every operand and programs   *)
(* of any length.                                                          *)
(***************************************************************************)
EXTENDS Arithmetic, Remainders, TLAPS

-----------------------------------------------------------------------------
(* Bits of bytes and words *)

LEMMA BitIsBit ==
  ASSUME NEW x \in Nat, NEW w \in Nat \ {0}
  PROVE  Bit(x, w) \in {0, 1}
BY DEF Bit

LEMMA TopBit ==
  ASSUME NEW x \in Bytes
  PROVE  Bit(x, 128) = IF x >= 128 THEN 1 ELSE 0
BY DEF Bit, Bytes

LEMMA UpTo ==
  ASSUME NEW n \in Int, NEW x
  PROVE  x \in 0 .. n <=> x \in Int /\ x >= 0 /\ x <= n
OBVIOUS

(* The provers are slow with a range of this length as a goal *)
LEMMA WordsAre == \A w : w \in Words <=> w \in Int /\ w >= 0 /\ w <= 65535
<1> DEFINE last == 65535
<1>1. last \in Int
  OBVIOUS
<1>2. Words = 0 .. last
  BY DEF Words
<1> HIDE DEF last
<1>3. \A w : w \in Words <=> w \in Int /\ w >= 0 /\ w <= last
  BY <1>1, <1>2, UpTo
<1> QED
  BY <1>3 DEF last

LEMMA WrapInWords ==
  ASSUME NEW x \in Int
  PROVE  Wrap16(x) \in Words
<1>1. x % 65536 \in Int /\ x % 65536 >= 0 /\ x % 65536 <= 65535
  OBVIOUS
<1> QED
  BY <1>1, WordsAre DEF Wrap16

LEMMA TopBitOfWord ==
  ASSUME NEW w \in Words
  PROVE  /\ Hi(w) \in Bytes /\ Lo(w) \in Bytes /\ w = (256 * Hi(w)) + Lo(w)
         /\ Bit(w, 32768) = Bit(Hi(w), 128)
<1>1. w \in Int /\ w >= 0 /\ w <= 65535
  BY WordsAre
<1>2. (w \div 256) \div 128 = w \div 32768
  BY <1>1
<1>3. /\ w \div 256 \in 0 .. 255 /\ w % 256 \in 0 .. 255
      /\ w = (256 * (w \div 256)) + (w % 256)
  BY <1>1
<1> QED
  BY <1>2, <1>3 DEF Bit, Hi, Lo, Bytes

LEMMA HalfBitOfWord ==
  ASSUME NEW w \in Words
  PROVE  Bit(w, 4096) = Bit(Hi(w), 16)
<1>1. w \in Int
  BY WordsAre
<1>2. (w \div 256) \div 16 = w \div 4096
  BY <1>1
<1> QED
  BY <1>2 DEF Bit, Hi

LEMMA CarryIsBit == \A fl : Carry(fl) \in {0, 1}
BY DEF Carry

(* A byte by its upper three bits, bit 4 and its low digit *)
LEMMA Places ==
  ASSUME NEW x \in Bytes
  PROVE  \E h \in 0 .. 7 : x = (32 * h) + (16 * Bit(x, 16)) + (x % 16)
<1>1. (x \div 16) \div 2 \in 0 .. 7
  BY DEF Bytes
<1>2. x = (32 * ((x \div 16) \div 2)) + (16 * Bit(x, 16)) + (x % 16)
  BY DEF Bytes, Bit
<1> QED
  BY <1>1, <1>2

(* Bit 4 of the exclusive or of two bytes and their sum is the carry out   *)
(* of the low digit                                                        *)
LEMMA HalfCarry ==
  ASSUME NEW x \in Bytes, NEW y \in Bytes, NEW c \in {0, 1}, NEW r \in Bytes,
         NEW k \in Int, r = (x + y + c) + (256 * k)
  PROVE  \E j \in {0, 1} : /\ j = 1 <=> Odd3(x, y, r, 16)
                           /\ r % 16 = ((x % 16) + (y % 16) + c) - (16 * j)
<1> DEFINE xb == Bit(x, 16)
           yb == Bit(y, 16)
           rb == Bit(r, 16)
           xl == x % 16
           yl == y % 16
           rl == r % 16
<1>0. /\ xb \in {0, 1} /\ yb \in {0, 1} /\ rb \in {0, 1}
      /\ xl \in 0 .. 15 /\ yl \in 0 .. 15 /\ rl \in 0 .. 15
  BY DEF Bytes, Bit
<1>1. PICK xh \in 0 .. 7 : x = (32 * xh) + (16 * xb) + xl
  BY Places
<1>2. PICK yh \in 0 .. 7 : y = (32 * yh) + (16 * yb) + yl
  BY Places
<1>3. PICK rh \in 0 .. 7 : r = (32 * rh) + (16 * rb) + rl
  BY Places
<1> HIDE DEF xb, yb, rb, xl, yl, rl
<1>4. PICK j \in {0, 1} : j = 1 <=> xl + yl + c > 15
  <2>1. CASE xl + yl + c > 15
    BY <2>1
  <2>2. CASE ~(xl + yl + c > 15)
    BY <2>2
  <2> QED
    BY <2>1, <2>2
<1> DEFINE d == (xl + yl + c) - (16 * j)
           e == ((2 * xh) + xb + (2 * yh) + yb + j + (16 * k)) - ((2 * rh) + rb)
<1>5. d \in 0 .. 15 /\ e \in Int
  BY <1>0, <1>4
<1>6. rl - d = 16 * e
  BY <1>0, <1>1, <1>2, <1>3
<1>7. rl = d
  <2> HIDE DEF d, e
  <2>1. 16 * e < 16 /\ 16 * e > -16
    BY <1>0, <1>5, <1>6
  <2>2. e = 0
    BY <1>5, <2>1, MultipleOutOfReach
  <2> QED
    BY <1>0, <1>5, <1>6, <2>2
<1>8. xb + yb + j - rb = 2 * ((rh - (8 * k)) - xh - yh)
  BY <1>0, <1>6, <1>7
<1>9. (rh - (8 * k)) - xh - yh \in {-1, 0, 1}
  BY <1>0, <1>8
<1>10. (xb + yb + rb) % 2 = 1 <=> j = 1
  BY <1>0, <1>8, <1>9
<1> QED
  BY <1>7, <1>10 DEF Odd3, xb, yb, rb, xl, yl, rl

-----------------------------------------------------------------------------
(* Sets of flags *)

Flags == DOMAIN FlagNames

LEMMA FlagsAre == Flags = {"S", "Z", "Y", "H", "X", "PV", "N", "C"}
BY DEF Flags, FlagNames

LEMMA XyOnly == \A x : XY(x) \subseteq {"X", "Y"}
BY DEF XY, On

LEMMA SzxyTells ==
  \A x : /\ SZXY(x) \subseteq {"S", "Z", "X", "Y"}
         /\ "S" \in SZXY(x) <=> x >= 128
         /\ "Z" \in SZXY(x) <=> x = 0
         /\ SZXY(x) \cap {"X", "Y"} = XY(x)
BY XyOnly DEF SZXY, On

LEMMA ParityOnly == \A x : Parity(x) \subseteq {"PV"}
BY DEF Parity, On

LEMMA SzxypTells ==
  \A x : /\ SZXYP(x) \subseteq {"S", "Z", "X", "Y", "PV"}
         /\ SZXYP(x) \cap {"X", "Y"} = XY(x)
BY SzxyTells, ParityOnly DEF SZXYP

(* What the flags fl say of an exact result, its digits and its signed value *)
Tells(fl, exact, digit, range, adds, xy) ==
  /\ "Z" \in fl <=> exact % 256 = 0
  /\ "S" \in fl <=> exact % 256 >= 128
  /\ "N" \in fl <=> ~adds
  /\ "H" \in fl <=> digit \notin 0 .. 15
  /\ "PV" \in fl <=> range \notin -128 .. 127
  /\ fl \cap {"X", "Y"} = XY(xy)

LEMMA SumInBytes ==
  ASSUME NEW e \in Int
  PROVE  e % 256 \in Bytes /\ (e \div 256) \in Int /\ e % 256 = e + (256 * (-(e \div 256)))
BY DivMod, ModRange DEF Bytes

AddSays(x, y, c) ==
  LET result == Add(x, y, c)  exact == x + y + c
  IN /\ result.r = exact % 256 /\ result.r \in Bytes /\ result.f \subseteq Flags
     /\ Tells(result.f, exact, (x % 16) + (y % 16) + c, Signed(x) + Signed(y) + c, TRUE,
              exact % 256)
     /\ "C" \in result.f <=> exact > 255

LEMMA AddTells ==
  ASSUME NEW x \in Bytes, NEW y \in Bytes, NEW c \in {0, 1}
  PROVE  AddSays(x, y, c)
<1> DEFINE e == x + y + c
           r == e % 256
           fl == Add(x, y, c).f
           half == Odd3(x, y, r, 16)
           carry == e > 255
           over == Bit(x, 128) = Bit(y, 128) /\ Bit(x, 128) # Bit(r, 128)
<1>0. e \in Int /\ x \in 0 .. 255 /\ y \in 0 .. 255
  BY DEF Bytes
<1>1. r \in Bytes /\ e \div 256 \in Int /\ r = e + (256 * (-(e \div 256)))
  <2> HIDE DEF e
  <2> QED
    BY <1>0, SumInBytes
<1>2. Add(x, y, c).r = r /\ fl = SZXY(r) \cup On(half, "H") \cup On(carry, "C") \cup On(over, "PV")
  BY DEF Add
<1>3. half <=> (x % 16) + (y % 16) + c \notin 0 .. 15
  <2> DEFINE k == -(e \div 256)
  <2>1. k \in Int /\ r = (x + y + c) + (256 * k)
    BY <1>1
  <2> HIDE DEF k, e
  <2>2. PICK j \in {0, 1} : /\ j = 1 <=> Odd3(x, y, r, 16)
                            /\ r % 16 = ((x % 16) + (y % 16) + c) - (16 * j)
    BY <1>1, <2>1, HalfCarry
  <2>3. r % 16 \in 0 .. 15 /\ x % 16 \in 0 .. 15 /\ y % 16 \in 0 .. 15
    BY <1>0, <1>1 DEF Bytes
  <2> QED
    BY <2>2, <2>3
<1>4. over <=> Signed(x) + Signed(y) + c \notin -128 .. 127
  BY <1>0, <1>1, TopBit DEF Signed
<1> HIDE DEF half, carry, over
<1>5. /\ "H" \in fl <=> half
      /\ "C" \in fl <=> carry
      /\ "PV" \in fl <=> over
      /\ "Z" \in fl <=> r = 0
      /\ "S" \in fl <=> r >= 128
      /\ "N" \notin fl
      /\ fl \cap {"X", "Y"} = XY(r)
      /\ fl \subseteq Flags
  BY <1>2, SzxyTells, FlagsAre DEF On
<1> HIDE DEF r, fl
<1>6. r = (x + y + c) % 256 /\ fl = Add(x, y, c).f /\ (carry <=> x + y + c > 255)
  BY DEF r, fl, carry
<1> QED
  BY <1>1, <1>2, <1>3, <1>4, <1>5, <1>6 DEF Tells, AddSays

(* A difference of two bytes and a borrow, and the byte it leaves *)
LEMMA DifferenceOfBytes ==
  ASSUME NEW x \in 0 .. 255, NEW y \in 0 .. 255, NEW c \in {0, 1}
  PROVE  x - y - c \in Int /\ x - y - c >= -256 /\ x - y - c <= 255
OBVIOUS

LEMMA BorrowedByte ==
  ASSUME NEW e \in Int, e >= -256, e <= 255
  PROVE  /\ e % 256 = IF e < 0 THEN e + 256 ELSE e
         /\ e < 0 <=> e \notin 0 .. 255
OBVIOUS

(* What _sub and _cp have in common *)
BorrowSays(x, y, c, e, r) ==
  LET fl == BorrowFlags(x, y, e, r)
  IN /\ r \in Bytes /\ fl \subseteq {"N", "H", "C", "PV"}
     /\ "N" \in fl
     /\ "H" \in fl <=> (x % 16) - (y % 16) - c \notin 0 .. 15
     /\ "C" \in fl <=> e < 0
     /\ "PV" \in fl <=> Signed(x) - Signed(y) - c \notin -128 .. 127

LEMMA BorrowTells ==
  ASSUME NEW x \in Bytes, NEW y \in Bytes, NEW c \in {0, 1},
         NEW e, e = x - y - c, NEW r, r = e % 256
  PROVE  BorrowSays(x, y, c, e, r)
<1> DEFINE fl == BorrowFlags(x, y, e, r)
           half == Odd3(x, y, r, 16)
           borrow == e < 0
           over == Bit(x, 128) # Bit(y, 128) /\ Bit(x, 128) # Bit(r, 128)
<1>0. e \in Int /\ x \in 0 .. 255 /\ y \in 0 .. 255
  BY DEF Bytes
<1>1. r \in Bytes /\ e \div 256 \in Int /\ r = e + (256 * (-(e \div 256)))
  BY <1>0, SumInBytes
<1>3. half <=> (x % 16) - (y % 16) - c \notin 0 .. 15
  <2> DEFINE k == e \div 256
  <2>1. k \in Int /\ x = (y + r + c) + (256 * k)
    BY <1>0, <1>1 DEF Bytes
  <2>2. r \in Bytes
    BY <1>1
  <2> HIDE DEF k
  <2>3. PICK j \in {0, 1} : /\ j = 1 <=> Odd3(y, r, x, 16)
                            /\ x % 16 = ((y % 16) + (r % 16) + c) - (16 * j)
    BY <2>1, <2>2, HalfCarry
  <2>4. r % 16 \in 0 .. 15 /\ x % 16 \in 0 .. 15 /\ y % 16 \in 0 .. 15
    BY <1>0, <2>2 DEF Bytes
  <2>5. Odd3(y, r, x, 16) <=> half
    <3>1. Bit(x, 16) \in Int /\ Bit(y, 16) \in Int /\ Bit(r, 16) \in Int
      BY <1>0, <2>2 DEF Bit, Bytes
    <3>2. Bit(y, 16) + Bit(r, 16) + Bit(x, 16) = Bit(x, 16) + Bit(y, 16) + Bit(r, 16)
      BY <3>1
    <3> QED
      BY <3>2 DEF Odd3
  <2> QED
    BY <2>3, <2>4, <2>5
<1>4. over <=> Signed(x) - Signed(y) - c \notin -128 .. 127
  <2>0. /\ Bit(x, 128) = IF x >= 128 THEN 1 ELSE 0
        /\ Bit(y, 128) = IF y >= 128 THEN 1 ELSE 0
        /\ Bit(r, 128) = IF r >= 128 THEN 1 ELSE 0
    BY <1>1, TopBit
  <2>1. over <=> /\ ~(x >= 128 <=> y >= 128)
                 /\ ~(x >= 128 <=> r >= 128)
    BY <2>0
  <2>2. r = IF e < 0 THEN e + 256 ELSE e
    BY <1>0, DifferenceOfBytes, BorrowedByte
  <2> QED
    BY <1>0, <2>1, <2>2 DEF Signed
<1>5. fl = {"N"} \cup On(half, "H") \cup On(borrow, "C") \cup On(over, "PV")
  BY DEF BorrowFlags
<1> HIDE DEF half, borrow, over
<1>6. /\ "H" \in fl <=> half
      /\ "C" \in fl <=> borrow
      /\ "PV" \in fl <=> over
      /\ "N" \in fl
      /\ fl \subseteq {"N", "H", "C", "PV"}
  BY <1>5 DEF On
<1>7. borrow <=> e < 0
  BY DEF borrow
<1> QED
  BY <1>1, <1>3, <1>4, <1>6, <1>7 DEF BorrowSays

SubSays(x, y, c) ==
  LET result == Sub(x, y, c)  exact == x - y - c
  IN /\ result.r = exact % 256 /\ result.r \in Bytes /\ result.f \subseteq Flags
     /\ Tells(result.f, exact, (x % 16) - (y % 16) - c, Signed(x) - Signed(y) - c, FALSE,
              exact % 256)
     /\ "C" \in result.f <=> exact < 0

LEMMA SubTells ==
  ASSUME NEW x \in Bytes, NEW y \in Bytes, NEW c \in {0, 1}
  PROVE  SubSays(x, y, c)
<1> DEFINE e == x - y - c
           r == e % 256
           bf == BorrowFlags(x, y, e, r)
           fl == Sub(x, y, c).f
<1>1. /\ r \in Bytes /\ bf \subseteq {"N", "H", "C", "PV"}
      /\ "N" \in bf
      /\ "H" \in bf <=> (x % 16) - (y % 16) - c \notin 0 .. 15
      /\ "C" \in bf <=> e < 0
      /\ "PV" \in bf <=> Signed(x) - Signed(y) - c \notin -128 .. 127
  <2>1. e = x - y - c /\ r = e % 256
    OBVIOUS
  <2> HIDE DEF e, r
  <2>2. BorrowSays(x, y, c, e, r)
    BY <2>1, BorrowTells
  <2> QED
    BY <2>2 DEF BorrowSays
<1>2. Sub(x, y, c).r = r /\ fl = SZXY(r) \cup bf
  BY DEF Sub
<1> HIDE DEF bf, fl, r
<1>3. /\ \A flag \in {"N", "H", "C", "PV"} : flag \in fl <=> flag \in bf
      /\ "Z" \in fl <=> r = 0
      /\ "S" \in fl <=> r >= 128
      /\ fl \cap {"X", "Y"} = XY(r)
      /\ fl \subseteq Flags
  BY <1>1, <1>2, SzxyTells, FlagsAre
<1>4. r = (x - y - c) % 256 /\ fl = Sub(x, y, c).f
  BY DEF r, fl
<1> QED
  BY <1>1, <1>2, <1>3, <1>4 DEF Tells, SubSays

CompareSays(x, y) ==
  LET result == Compare(x, y)  exact == x - y
  IN /\ result.r = x /\ result.f \subseteq Flags
     /\ Tells(result.f, exact, (x % 16) - (y % 16), Signed(x) - Signed(y), FALSE, y)
     /\ "C" \in result.f <=> exact < 0

LEMMA CompareTells ==
  ASSUME NEW x \in Bytes, NEW y \in Bytes
  PROVE  CompareSays(x, y)
<1> DEFINE e == x - y
           r == e % 256
           bf == BorrowFlags(x, y, e, r)
           fl == Compare(x, y).f
<1>0. /\ x - y - 0 = e /\ (x % 16) - (y % 16) - 0 = (x % 16) - (y % 16)
      /\ Signed(x) - Signed(y) - 0 = Signed(x) - Signed(y)
  BY DEF Bytes, Signed
<1>1. /\ r \in Bytes /\ bf \subseteq {"N", "H", "C", "PV"}
      /\ "N" \in bf
      /\ "H" \in bf <=> (x % 16) - (y % 16) \notin 0 .. 15
      /\ "C" \in bf <=> e < 0
      /\ "PV" \in bf <=> Signed(x) - Signed(y) \notin -128 .. 127
  <2> DEFINE zero == 0
  <2>1. zero \in {0, 1} /\ e = x - y - zero /\ r = e % 256
    BY <1>0
  <2>2. /\ (x % 16) - (y % 16) - zero = (x % 16) - (y % 16)
        /\ Signed(x) - Signed(y) - zero = Signed(x) - Signed(y)
    BY <1>0
  <2> HIDE DEF zero, e, r
  <2>3. BorrowSays(x, y, zero, e, r)
    BY <2>1, BorrowTells
  <2> QED
    BY <2>2, <2>3 DEF BorrowSays
<1>2. Compare(x, y).r = x /\ fl = (SZXY(r) \cap {"S", "Z"}) \cup XY(y) \cup bf
  BY DEF Compare
<1> HIDE DEF bf, fl, r
<1>3. /\ \A flag \in {"N", "H", "C", "PV"} : flag \in fl <=> flag \in bf
      /\ "Z" \in fl <=> r = 0
      /\ "S" \in fl <=> r >= 128
      /\ fl \cap {"X", "Y"} = XY(y)
      /\ fl \subseteq Flags
  BY <1>1, <1>2, SzxyTells, XyOnly, FlagsAre
<1>4. r = (x - y) % 256 /\ fl = Compare(x, y).f
  BY DEF r, fl
<1> QED
  BY <1>1, <1>2, <1>3, <1>4 DEF Tells, CompareSays

(* INC and DEC, which keep C *)
IncrementSays(x, old) ==
  LET result == Increment(x, old)  exact == x + 1
  IN /\ result.r = exact % 256 /\ result.r \in Bytes /\ result.f \subseteq Flags
     /\ Tells(result.f, exact, (x % 16) + 1, Signed(x) + 1, TRUE, exact % 256)
     /\ "C" \in result.f <=> "C" \in old

LEMMA IncrementTells ==
  ASSUME NEW x \in Bytes, NEW old
  PROVE  IncrementSays(x, old)
<1> DEFINE r == (x + 1) % 256
           fl == Increment(x, old).f
<1>1. /\ r \in Bytes
      /\ r % 16 = 0 <=> (x % 16) + 1 \notin 0 .. 15
      /\ r = 128 <=> Signed(x) + 1 \notin -128 .. 127
  BY DEF Bytes, Signed
<1>2. Increment(x, old).r = r
      /\ fl = (old \cap {"C"}) \cup SZXY(r) \cup On(r % 16 = 0, "H") \cup On(r = 128, "PV")
  BY DEF Increment
<1> HIDE DEF r
<1>3. /\ "H" \in fl <=> r % 16 = 0
      /\ "PV" \in fl <=> r = 128
      /\ "N" \notin fl
      /\ "C" \in fl <=> "C" \in old
      /\ "Z" \in fl <=> r = 0
      /\ "S" \in fl <=> r >= 128
      /\ fl \cap {"X", "Y"} = XY(r)
      /\ fl \subseteq Flags
  BY <1>2, SzxyTells, FlagsAre DEF On
<1> HIDE DEF fl
<1>4. r = (x + 1) % 256 /\ fl = Increment(x, old).f
  BY DEF r, fl
<1> QED
  BY <1>1, <1>2, <1>3, <1>4 DEF Tells, IncrementSays

DecrementSays(x, old) ==
  LET result == Decrement(x, old)  exact == x - 1
  IN /\ result.r = exact % 256 /\ result.r \in Bytes /\ result.f \subseteq Flags
     /\ Tells(result.f, exact, (x % 16) - 1, Signed(x) - 1, FALSE, exact % 256)
     /\ "C" \in result.f <=> "C" \in old

LEMMA DecrementTells ==
  ASSUME NEW x \in Bytes, NEW old
  PROVE  DecrementSays(x, old)
<1> DEFINE r == (x - 1) % 256
           fl == Decrement(x, old).f
<1>1. /\ r \in Bytes
      /\ r % 16 = 15 <=> (x % 16) - 1 \notin 0 .. 15
      /\ r = 127 <=> Signed(x) - 1 \notin -128 .. 127
  BY DEF Bytes, Signed
<1>2. Decrement(x, old).r = r
      /\ fl = (old \cap {"C"}) \cup SZXY(r) \cup {"N"} \cup On(r % 16 = 15, "H")
                \cup On(r = 127, "PV")
  BY DEF Decrement
<1> HIDE DEF r
<1>3. /\ "H" \in fl <=> r % 16 = 15
      /\ "PV" \in fl <=> r = 127
      /\ "N" \in fl
      /\ "C" \in fl <=> "C" \in old
      /\ "Z" \in fl <=> r = 0
      /\ "S" \in fl <=> r >= 128
      /\ fl \cap {"X", "Y"} = XY(r)
      /\ fl \subseteq Flags
  BY <1>2, SzxyTells, FlagsAre DEF On
<1> HIDE DEF fl
<1>4. r = (x - 1) % 256 /\ fl = Decrement(x, old).f
  BY DEF r, fl
<1> QED
  BY <1>1, <1>2, <1>3, <1>4 DEF Tells, DecrementSays

-----------------------------------------------------------------------------
(* Every operation gives a byte and a set of flags *)

ByteResult(result) == result.r \in Bytes /\ result.f \subseteq Flags

LEMMA FromBitsInBytes == \A ws : FromBits(ws) \in Bytes
BY DEF FromBits, Bytes

LEMMA AluInBytes ==
  ASSUME NEW op \in AluOps, NEW x \in Bytes, NEW y \in Bytes, NEW fl
  PROVE  ByteResult(AluA(op, x, y, fl))
<1> DEFINE zero == 0
           c == Carry(fl)
<1>0. zero \in {0, 1} /\ c \in {0, 1}
  BY CarryIsBit
<1>1. ASSUME NEW by \in {0, 1}
      PROVE  ByteResult(Add(x, y, by)) /\ ByteResult(Sub(x, y, by))
  <2>1. AddSays(x, y, by) /\ SubSays(x, y, by)
    BY AddTells, SubTells
  <2> QED
    BY <2>1 DEF ByteResult, AddSays, SubSays
<1>2. ByteResult(And(x, y)) /\ ByteResult(Or(x, y)) /\ ByteResult(Xor(x, y))
  BY FromBitsInBytes, SzxypTells, FlagsAre DEF And, Or, Xor, ByteResult
<1>3. ByteResult(Compare(x, y))
  <2>1. CompareSays(x, y)
    BY CompareTells
  <2> QED
    BY <2>1 DEF ByteResult, CompareSays
<1>4. AluA(op, x, y, fl) \in {Add(x, y, zero), Add(x, y, c), Sub(x, y, zero), Sub(x, y, c),
                              And(x, y), Xor(x, y), Or(x, y), Compare(x, y)}
  BY DEF AluA, AluOps
<1> HIDE DEF zero, c
<1> QED
  BY <1>0, <1>1, <1>2, <1>3, <1>4

LEMMA DecimalAdjustInBytes ==
  ASSUME NEW x \in Bytes, NEW fl \in SUBSET Flags
  PROVE  ByteResult(DecimalAdjust(x, fl))
<1> DEFINE sign == IF "N" \in fl THEN -1 ELSE 1
           over == "C" \in fl \/ x > 153
           tens == IF over THEN (x + (96 * sign)) % 256 ELSE x
           r    == IF "H" \in fl \/ tens % 16 > 9 THEN (tens + (6 * sign)) % 256 ELSE tens
           half == Bit(r, 16) # Bit(x, 16)
<1>1. DecimalAdjust(x, fl)
        = [r |-> r, f |-> SZXYP(r) \cup On(half, "H") \cup (fl \cap {"N"}) \cup On(over, "C")]
  BY DEF DecimalAdjust
<1>2. sign \in Int /\ tens \in Bytes
  BY DEF Bytes
<1> HIDE DEF tens, sign
<1>3. r \in Bytes
  BY <1>2 DEF Bytes
<1> HIDE DEF r, over, half
<1> QED
  BY <1>1, <1>3, SzxypTells, FlagsAre DEF ByteResult, On

LEMMA ComplementInBytes ==
  ASSUME NEW x \in Bytes, NEW fl
  PROVE  ByteResult(Complement(x, fl))
<1>1. 255 - x \in Bytes
  BY DEF Bytes
<1> QED
  BY <1>1, XyOnly, FlagsAre DEF ByteResult, Complement

LEMMA ScfCcfInFlags ==
  ASSUME NEW op, NEW x, NEW fl, NEW latch
  PROVE  ScfCcfFlags(op, x, fl, latch) \subseteq Flags
BY XyOnly, FlagsAre DEF ScfCcfFlags

(* The bit that goes in at one end and the one that comes out at the other *)
Left(x, in)  == ((2 * x) + in) % 256
Right(x, in) == (x \div 2) + (128 * in)

LEMMA LeftRight ==
  ASSUME NEW x \in Bytes, NEW in \in {0, 1}
  PROVE  /\ Bit(x, 128) \in {0, 1} /\ Bit(x, 1) \in {0, 1}
         /\ Left(x, in) \in Bytes /\ Bit(Left(x, in), 1) = in
         /\ Right(Left(x, in), Bit(x, 128)) = x
         /\ Right(x, in) \in Bytes /\ Bit(Right(x, in), 128) = in
         /\ Left(Right(x, in), Bit(x, 1)) = x
<1>1. Bit(x, 128) \in {0, 1} /\ Bit(x, 1) \in {0, 1}
  BY DEF Bit, Bytes
<1>2. Left(x, in) \in Bytes /\ Bit(Left(x, in), 1) = in
  BY DEF Bit, Bytes, Left
<1>3. Right(Left(x, in), Bit(x, 128)) = x
  BY DEF Bit, Bytes, Left, Right
<1>4. Right(x, in) \in Bytes /\ Bit(Right(x, in), 128) = in
  BY DEF Bit, Bytes, Right
<1>5. Left(Right(x, in), Bit(x, 1)) = x
  BY DEF Bit, Bytes, Left, Right
<1> QED
  BY <1>1, <1>2, <1>3, <1>4, <1>5

(* A rotate by the bit that goes in *)
GoesIn(op, x, fl) ==
  CASE op \in {"RLC", "RLCA", "SRA"} -> Bit(x, 128)
    [] op \in {"RRC", "RRCA"} -> Bit(x, 1)
    [] op \in {"RL", "RR", "RLA", "RRA"} -> Carry(fl)
    [] op \in {"SLA", "SRL"} -> 0
    [] op = "SLL" -> 1

GoesLeft == {"RLC", "RL", "SLA", "SLL", "RLCA", "RLA"}

LEMMA RotatesAre ==
  ASSUME NEW op \in RotOps \cup AccumulatorOps, NEW x \in Bytes, NEW fl
  PROVE  LET result == IF op \in RotOps THEN RotApply(op, x, fl) ELSE RotAccumulator(op, x, fl)
             in     == GoesIn(op, x, fl)
         IN /\ in \in {0, 1}
            /\ ByteResult(result)
            /\ result.r = IF op \in GoesLeft THEN Left(x, in) ELSE Right(x, in)
            /\ "C" \in result.f <=> Bit(x, IF op \in GoesLeft THEN 128 ELSE 1) = 1
<1> DEFINE result == IF op \in RotOps THEN RotApply(op, x, fl) ELSE RotAccumulator(op, x, fl)
           in == GoesIn(op, x, fl)
           out == Bit(x, IF op \in GoesLeft THEN 128 ELSE 1)
           r == IF op \in GoesLeft THEN Left(x, in) ELSE Right(x, in)
<1>1. in \in {0, 1}
  <2>1. Bit(x, 128) \in {0, 1} /\ Bit(x, 1) \in {0, 1} /\ Carry(fl) \in {0, 1}
    BY CarryIsBit DEF Bit, Bytes
  <2> QED
    BY <2>1 DEF GoesIn, RotOps, AccumulatorOps
<1>2. CASE op \in RotOps
  <2>1. result = Rotated(r, out)
    BY <1>2 DEF RotApply, RotOps, GoesLeft, GoesIn, Left, Right
  <2> HIDE DEF in, out
  <2>2. r \in Bytes
    BY <1>1, LeftRight
  <2> HIDE DEF r
  <2>3. /\ result.r = r /\ result.f = SZXYP(r) \cup On(out = 1, "C")
    BY <2>1 DEF Rotated
  <2>4. ByteResult(result) /\ ("C" \in result.f <=> out = 1)
    BY <2>2, <2>3, SzxypTells, FlagsAre DEF On, ByteResult
  <2> QED
    BY <1>1, <2>3, <2>4 DEF in, out, r
<1>3. CASE op \notin RotOps
  <2>0. op \in AccumulatorOps
    BY <1>3
  <2>1. result = [r |-> r, f |-> AccumulatorFlags(r, out, fl)]
    BY <1>3, <2>0 DEF RotAccumulator, AccumulatorOps, GoesLeft, GoesIn, Left, Right
  <2> HIDE DEF in, out
  <2>2. r \in Bytes
    BY <1>1, LeftRight
  <2> HIDE DEF r
  <2>3. /\ result.r = r /\ result.f = (fl \cap {"S", "Z", "PV"}) \cup XY(r) \cup On(out = 1, "C")
    BY <2>1 DEF AccumulatorFlags
  <2>4. ByteResult(result) /\ ("C" \in result.f <=> out = 1)
    BY <2>2, <2>3, XyOnly, FlagsAre DEF On, ByteResult
  <2> QED
    BY <1>1, <2>3, <2>4 DEF in, out, r
<1> QED
  BY <1>2, <1>3

-----------------------------------------------------------------------------
(* A 16-bit operation and the two 8-bit ones that do the same *)

LEMMA WordOfBytes ==
  ASSUME NEW h \in Bytes, NEW l \in Bytes, NEW w, w = (256 * h) + l
  PROVE  w \in Words /\ Hi(w) = h /\ Lo(w) = l
<1>1. h \in 0 .. 255 /\ l \in 0 .. 255
  BY DEF Bytes
<1>2. w \in Int /\ w >= 0 /\ w <= 65535
  BY <1>1
<1>3. w \div 256 = h /\ w % 256 = l
  BY <1>1
<1>4. w \in Words
  BY <1>2, WordsAre
<1>5. Hi(w) = h /\ Lo(w) = l
  BY <1>3 DEF Hi, Lo
<1> QED
  BY <1>4, <1>5

(* The sums, without their flags *)
HalvesAdd(x, y, c, k) ==
  /\ (x + y + c) % 65536
       = (256 * ((Hi(x) + Hi(y) + k) % 256)) + ((Lo(x) + Lo(y) + c) % 256)
  /\ x + y + c > 65535 <=> Hi(x) + Hi(y) + k > 255

LEMMA SumByHalves ==
  ASSUME NEW x \in Words, NEW y \in Words, NEW c \in {0, 1}, NEW k \in {0, 1},
         k = 1 <=> Lo(x) + Lo(y) + c > 255
  PROVE  HalvesAdd(x, y, c, k)
<1> DEFINE xh == Hi(x)
           xl == Lo(x)
           yh == Hi(y)
           yl == Lo(y)
<1>1. /\ xh \in 0 .. 255 /\ xl \in 0 .. 255 /\ yh \in 0 .. 255 /\ yl \in 0 .. 255
      /\ x = (256 * xh) + xl /\ y = (256 * yh) + yl
      /\ k = 1 <=> xl + yl + c > 255
  BY TopBitOfWord DEF Bytes
<1> HIDE DEF xh, xl, yh, yl
<1> DEFINE l == IF xl + yl + c > 255 THEN (xl + yl + c) - 256 ELSE xl + yl + c
           h == IF xh + yh + k > 255 THEN (xh + yh + k) - 256 ELSE xh + yh + k
<1>2. l \in 0 .. 255 /\ (xl + yl + c) % 256 = l /\ (xl + yl + c) = l + (256 * k)
  BY <1>1
<1>3. h \in 0 .. 255 /\ (xh + yh + k) % 256 = h
  BY <1>1
<1>4. x + y + c > 65535 <=> xh + yh + k > 255
  BY <1>1, <1>2
<1>5. (x + y + c) % 65536 = (256 * h) + l
  BY <1>1, <1>2, <1>3
<1> QED
  BY <1>2, <1>3, <1>4, <1>5 DEF xh, xl, yh, yl, HalvesAdd

HalvesSubtract(x, y, c, k) ==
  /\ (x - y - c) % 65536
       = (256 * ((Hi(x) - Hi(y) - k) % 256)) + ((Lo(x) - Lo(y) - c) % 256)
  /\ x - y - c < 0 <=> Hi(x) - Hi(y) - k < 0

LEMMA DifferenceByHalves ==
  ASSUME NEW x \in Words, NEW y \in Words, NEW c \in {0, 1}, NEW k \in {0, 1},
         k = 1 <=> Lo(x) - Lo(y) - c < 0
  PROVE  HalvesSubtract(x, y, c, k)
<1> DEFINE xh == Hi(x)
           xl == Lo(x)
           yh == Hi(y)
           yl == Lo(y)
<1>1. /\ xh \in 0 .. 255 /\ xl \in 0 .. 255 /\ yh \in 0 .. 255 /\ yl \in 0 .. 255
      /\ x = (256 * xh) + xl /\ y = (256 * yh) + yl
      /\ k = 1 <=> xl - yl - c < 0
  BY TopBitOfWord DEF Bytes
<1> HIDE DEF xh, xl, yh, yl
<1> DEFINE l == IF xl - yl - c < 0 THEN (xl - yl - c) + 256 ELSE xl - yl - c
           h == IF xh - yh - k < 0 THEN (xh - yh - k) + 256 ELSE xh - yh - k
<1>2. l \in 0 .. 255 /\ (xl - yl - c) % 256 = l /\ (xl - yl - c) = l - (256 * k)
  BY <1>1
<1>3. h \in 0 .. 255 /\ (xh - yh - k) % 256 = h
  BY <1>1
<1>4. x - y - c < 0 <=> xh - yh - k < 0
  BY <1>1, <1>2
<1>5. (x - y - c) % 65536 = (256 * h) + l
  BY <1>1, <1>2, <1>3
<1> QED
  BY <1>2, <1>3, <1>4, <1>5 DEF xh, xl, yh, yl, HalvesSubtract

(* The flags of both come from the high bytes *)
LEMMA HighBits ==
  ASSUME NEW x \in Words, NEW y \in Words, NEW r \in Words
  PROVE  /\ Odd3(x, y, r, 4096) <=> Odd3(Hi(x), Hi(y), Hi(r), 16)
         /\ Bit(x, 32768) = Bit(Hi(x), 128)
         /\ Bit(y, 32768) = Bit(Hi(y), 128)
         /\ Bit(r, 32768) = Bit(Hi(r), 128)
BY HalfBitOfWord, TopBitOfWord DEF Odd3

WideAddSays(x, y, c) ==
  LET low  == Add(Lo(x), Lo(y), c)
      high == Add(Hi(x), Hi(y), Carry(low.f))
      wide == Add16(x, y, c)
  IN /\ wide.r = (256 * high.r) + low.r
     /\ wide.r \in Words /\ wide.f \subseteq Flags
     /\ wide.f \ {"Z"} = high.f \ {"Z"}
     /\ "Z" \in wide.f <=> wide.r = 0
     /\ c = 0 => \A fl : LET kept == Add16KeepSzpv(x, y, fl)
                             szpv == {"S", "Z", "PV"}
                         IN /\ kept.r = wide.r /\ kept.f \subseteq Flags
                            /\ kept.f \ szpv = high.f \ szpv
                            /\ kept.f \cap szpv = fl \cap szpv

LEMMA WideAdd ==
  ASSUME NEW x \in Words, NEW y \in Words, NEW c \in {0, 1}
  PROVE  WideAddSays(x, y, c)
<1> DEFINE low  == Add(Lo(x), Lo(y), c)
           k    == Carry(low.f)
           high == Add(Hi(x), Hi(y), k)
           wide == Add16(x, y, c)
           r    == (x + y + c) % 65536
           hr   == (Hi(x) + Hi(y) + k) % 256
           half == Odd3(x, y, r, 4096)
           over == Bit(x, 32768) = Bit(y, 32768) /\ Bit(x, 32768) # Bit(r, 32768)
           carry == x + y + c > 65535
<1>1. Hi(x) \in Bytes /\ Lo(x) \in Bytes /\ Hi(y) \in Bytes /\ Lo(y) \in Bytes
  BY TopBitOfWord
<1>2. low.r = (Lo(x) + Lo(y) + c) % 256 /\ ("C" \in low.f <=> Lo(x) + Lo(y) + c > 255)
      /\ low.r \in Bytes
  <2>1. AddSays(Lo(x), Lo(y), c)
    BY <1>1, AddTells
  <2> QED
    BY <2>1 DEF AddSays
<1>3. k \in {0, 1} /\ (k = 1 <=> Lo(x) + Lo(y) + c > 255)
  BY <1>2 DEF Carry
<1>4. high.r = hr /\ hr \in Bytes
  <2> HIDE DEF k
  <2>1. AddSays(Hi(x), Hi(y), k)
    BY <1>1, <1>3, AddTells
  <2> QED
    BY <2>1 DEF AddSays
<1>5. r = (256 * high.r) + low.r /\ (carry <=> Hi(x) + Hi(y) + k > 255)
  <2> HIDE DEF k
  <2>1. HalvesAdd(x, y, c, k)
    BY <1>3, SumByHalves
  <2> QED
    BY <1>2, <1>4, <2>1 DEF HalvesAdd
<1>6. r \in Words /\ Hi(r) = hr
  <2> HIDE DEF r, high, low, hr
  <2>1. high.r \in Bytes
    BY <1>4
  <2> QED
    BY <1>2, <1>4, <1>5, <2>1, WordOfBytes
<1>7. /\ half <=> Odd3(Hi(x), Hi(y), hr, 16)
      /\ over <=> /\ Bit(Hi(x), 128) = Bit(Hi(y), 128)
                  /\ Bit(Hi(x), 128) # Bit(hr, 128)
  <2> HIDE DEF r, hr
  <2> QED
    BY <1>6, HighBits
<1>8. high.f = SZXY(hr) \cup On(half, "H") \cup On(carry, "C") \cup On(over, "PV")
  <2>1. high.f = SZXY(hr) \cup On(Odd3(Hi(x), Hi(y), hr, 16), "H")
                   \cup On(Hi(x) + Hi(y) + k > 255, "C")
                   \cup On(Bit(Hi(x), 128) = Bit(Hi(y), 128) /\ Bit(Hi(x), 128) # Bit(hr, 128), "PV")
    BY DEF Add
  <2> HIDE DEF half, over, carry, hr, high, k
  <2> QED
    BY <1>5, <1>7, <2>1 DEF On
<1>9. wide.r = r
      /\ wide.f = (SZXY(Hi(r)) \ {"Z"}) \cup On(r = 0, "Z") \cup On(half, "H")
                    \cup On(carry, "C") \cup On(over, "PV")
  BY DEF Add16
<1>10. ASSUME c = 0, NEW fl
       PROVE  LET kept == Add16KeepSzpv(x, y, fl)
              IN kept.r = r /\ kept.f = (fl \cap {"S", "Z", "PV"}) \cup XY(Hi(r))
                                          \cup On(half, "H") \cup On(carry, "C")
  <2>1. x + y + c = x + y
    BY <1>10, WordsAre
  <2> QED
    BY <2>1 DEF Add16KeepSzpv
<1> HIDE DEF half, over, carry, r, hr, high, low, wide
<1>11. /\ wide.f \ {"Z"} = high.f \ {"Z"} /\ wide.f \subseteq Flags
       /\ "Z" \in wide.f <=> r = 0
  BY <1>6, <1>8, <1>9, SzxyTells, FlagsAre DEF On
<1>12. ASSUME c = 0, NEW fl
       PROVE  LET kept == Add16KeepSzpv(x, y, fl)
                  szpv == {"S", "Z", "PV"}
              IN /\ kept.r = r /\ kept.f \subseteq Flags
                 /\ kept.f \ szpv = high.f \ szpv
                 /\ kept.f \cap szpv = fl \cap szpv
  <2> DEFINE kept == Add16KeepSzpv(x, y, fl)
  <2>1. kept.r = r /\ kept.f = (fl \cap {"S", "Z", "PV"}) \cup XY(Hi(r))
                                 \cup On(half, "H") \cup On(carry, "C")
    BY <1>10, <1>12
  <2> HIDE DEF kept
  <2>2. SZXY(hr) \ {"S", "Z", "PV"} = XY(hr)
    BY XyOnly DEF SZXY, On
  <2>3. /\ kept.f \subseteq Flags
        /\ kept.f \ {"S", "Z", "PV"} = high.f \ {"S", "Z", "PV"}
        /\ kept.f \cap {"S", "Z", "PV"} = fl \cap {"S", "Z", "PV"}
    BY <1>6, <1>8, <2>1, <2>2, XyOnly, FlagsAre DEF On
  <2> QED
    BY <2>1, <2>3 DEF kept
<1> QED
  BY <1>5, <1>6, <1>9, <1>11, <1>12 DEF wide, high, low, WideAddSays

WideSubtractSays(x, y, c) ==
  LET low  == Sub(Lo(x), Lo(y), c)
      high == Sub(Hi(x), Hi(y), Carry(low.f))
      wide == Sub16(x, y, c)
  IN /\ wide.r = (256 * high.r) + low.r
     /\ wide.r \in Words /\ wide.f \subseteq Flags
     /\ wide.f \ {"Z"} = high.f \ {"Z"}
     /\ "Z" \in wide.f <=> wide.r = 0

LEMMA WideSubtract ==
  ASSUME NEW x \in Words, NEW y \in Words, NEW c \in {0, 1}
  PROVE  WideSubtractSays(x, y, c)
<1> DEFINE low  == Sub(Lo(x), Lo(y), c)
           k    == Carry(low.f)
           high == Sub(Hi(x), Hi(y), k)
           wide == Sub16(x, y, c)
           r    == (x - y - c) % 65536
           hr   == (Hi(x) - Hi(y) - k) % 256
           half == Odd3(x, y, r, 4096)
           over == Bit(x, 32768) # Bit(y, 32768) /\ Bit(x, 32768) # Bit(r, 32768)
           borrow == x - y - c < 0
<1>1. Hi(x) \in Bytes /\ Lo(x) \in Bytes /\ Hi(y) \in Bytes /\ Lo(y) \in Bytes
  BY TopBitOfWord
<1>2. low.r = (Lo(x) - Lo(y) - c) % 256 /\ ("C" \in low.f <=> Lo(x) - Lo(y) - c < 0)
      /\ low.r \in Bytes
  <2>1. SubSays(Lo(x), Lo(y), c)
    BY <1>1, SubTells
  <2> QED
    BY <2>1 DEF SubSays
<1>3. k \in {0, 1} /\ (k = 1 <=> Lo(x) - Lo(y) - c < 0)
  BY <1>2 DEF Carry
<1>4. high.r = hr /\ hr \in Bytes
  <2> HIDE DEF k
  <2>1. SubSays(Hi(x), Hi(y), k)
    BY <1>1, <1>3, SubTells
  <2> QED
    BY <2>1 DEF SubSays
<1>5. r = (256 * high.r) + low.r /\ (borrow <=> Hi(x) - Hi(y) - k < 0)
  <2> HIDE DEF k
  <2>1. HalvesSubtract(x, y, c, k)
    BY <1>3, DifferenceByHalves
  <2> QED
    BY <1>2, <1>4, <2>1 DEF HalvesSubtract
<1>6. r \in Words /\ Hi(r) = hr
  <2> HIDE DEF r, high, low, hr
  <2>1. high.r \in Bytes
    BY <1>4
  <2> QED
    BY <1>2, <1>4, <1>5, <2>1, WordOfBytes
<1>7. /\ half <=> Odd3(Hi(x), Hi(y), hr, 16)
      /\ over <=> /\ Bit(Hi(x), 128) # Bit(Hi(y), 128)
                  /\ Bit(Hi(x), 128) # Bit(hr, 128)
  <2> HIDE DEF r, hr
  <2> QED
    BY <1>6, HighBits
<1>8. high.f = SZXY(hr) \cup {"N"} \cup On(half, "H") \cup On(borrow, "C") \cup On(over, "PV")
  <2>1. high.f = SZXY(hr) \cup ({"N"} \cup On(Odd3(Hi(x), Hi(y), hr, 16), "H")
                   \cup On(Hi(x) - Hi(y) - k < 0, "C")
                   \cup On(Bit(Hi(x), 128) # Bit(Hi(y), 128) /\ Bit(Hi(x), 128) # Bit(hr, 128), "PV"))
    BY DEF Sub, BorrowFlags
  <2> HIDE DEF half, over, borrow, hr, high, k
  <2> QED
    BY <1>5, <1>7, <2>1 DEF On
<1>9. wide.r = r
      /\ wide.f = (SZXY(Hi(r)) \ {"Z"}) \cup On(r = 0, "Z") \cup {"N"} \cup On(half, "H")
                    \cup On(borrow, "C") \cup On(over, "PV")
  BY DEF Sub16
<1> HIDE DEF half, over, borrow, r, hr, high, low, wide
<1>10. /\ wide.f \ {"Z"} = high.f \ {"Z"} /\ wide.f \subseteq Flags
       /\ "Z" \in wide.f <=> r = 0
  BY <1>6, <1>8, <1>9, SzxyTells, FlagsAre DEF On
<1> QED
  BY <1>5, <1>6, <1>9, <1>10 DEF wide, high, low, WideSubtractSays

-----------------------------------------------------------------------------
(* The experiment's state *)

ByteWhere(ins) == ins[1] \in ByteOperations => ins[2] \in Bytes

Records == [op : STRING, y : Words, a : Bytes, m : Bytes, hl : Words, f : SUBSET Flags]

TypesInv ==
  /\ a \in Bytes /\ m \in Bytes /\ hl \in Words /\ f \in SUBSET Flags
  /\ todo \in Seq(SUBSET (STRING \X Words))
  /\ \A k \in DOMAIN todo : \A ins \in todo[k] : ByteWhere(ins)
  /\ trail \in Seq(Records)

(* What the operation op with the operand y makes of the registers *)
OntoA(result) == a' = result.r /\ f' = result.f /\ m' = m

Did(op, y) ==
  /\ op \in AluOps => OntoA(AluA(op, a, y, f))
  /\ op = "NEG" => OntoA(Sub(0, a, 0))
  /\ op = "INC" => OntoA(Increment(a, f))
  /\ op = "DEC" => OntoA(Decrement(a, f))
  /\ op = "DAA" => OntoA(DecimalAdjust(a, f))
  /\ op \in RotOps => OntoA(RotApply(op, a, f))
  /\ op \in AccumulatorOps => OntoA(RotAccumulator(op, a, f))
  /\ op \in {"ADD HL", "ADC HL", "SBC HL"} => hl' = HlResult(op, y).r /\ f' = HlResult(op, y).f
  /\ op = "RRD" => m' = (m \div 16) + (16 * (a % 16)) /\ a' = ((a \div 16) * 16) + (m % 16)
  /\ op = "RLD" => m' = (16 * (m % 16)) + (a % 16) /\ a' = ((a \div 16) * 16) + (m \div 16)
  /\ op \in {"SCF", "CCF"} => f' = ScfCcfFlags(op, a, f, q) /\ a' = a
  /\ op = "DD SCF" => f' = ScfCcfFlags("SCF", a, f, {}) /\ a' = a
  /\ op = "DD CCF" => f' = ScfCcfFlags("CCF", a, f, {}) /\ a' = a
  /\ q' = IF op \in FlagWriters THEN f' ELSE {}

(* The record a step leaves *)
Found(ins) == [op |-> ins[1], y |-> ins[2], a |-> a, m |-> m, hl |-> hl, f |-> f]

LEMMA TakingOne ==
  ASSUME TypesInv, NEW ins \in NextPlace, Take(ins)
  PROVE  /\ ins \in STRING \X Words /\ ByteWhere(ins)
         /\ todo' \in Seq(SUBSET (STRING \X Words))
         /\ \A k \in DOMAIN todo' : \A next \in todo'[k] : ByteWhere(next)
         /\ trail' \in Seq(Records) /\ trail' = Append(trail, Found(ins))
<1>1. todo # <<>> /\ ins \in Head(todo)
  BY DEF NextPlace
<1>2. Head(todo) = todo[1] /\ 1 \in DOMAIN todo /\ todo[1] \in SUBSET (STRING \X Words)
  BY <1>1 DEF TypesInv
<1>3. ins \in STRING \X Words /\ ByteWhere(ins)
  BY <1>1, <1>2 DEF TypesInv
<1>4. todo' = Tail(todo) /\ Tail(todo) \in Seq(SUBSET (STRING \X Words))
  BY <1>1 DEF TypesInv, Take
<1>5. ASSUME NEW k \in DOMAIN todo', NEW next \in todo'[k]
      PROVE  ByteWhere(next)
  <2>1. k \in 1 .. Len(todo) - 1 /\ todo'[k] = todo[k + 1]
    BY <1>1, <1>4, <1>5 DEF TypesInv
  <2>2. k + 1 \in DOMAIN todo
    BY <2>1 DEF TypesInv
  <2> QED
    BY <1>5, <2>1, <2>2 DEF TypesInv
<1>6. Found(ins) \in Records
  BY <1>3 DEF Found, Records, TypesInv
<1>7. trail' = Append(trail, Found(ins))
  BY DEF Take, Found
<1> QED
  BY <1>3, <1>4, <1>5, <1>6, <1>7 DEF TypesInv

(* The operations write what the registers hold *)
LEMMA HlResultInWords ==
  ASSUME NEW op \in {"ADD HL", "ADC HL", "SBC HL"}, NEW y \in Words, hl \in Words, f \in SUBSET Flags
  PROVE  HlResult(op, y).r \in Words /\ HlResult(op, y).f \in SUBSET Flags
<1> DEFINE c == Carry(f)
           zero == 0
<1>1. c \in {0, 1} /\ zero \in {0, 1}
  BY CarryIsBit
<1>2. CASE op = "ADD HL"
  <2>1. HlResult(op, y) = Add16KeepSzpv(hl, y, f)
    BY <1>2 DEF HlResult
  <2>2. /\ Add16(hl, y, zero).r \in Words
        /\ zero = 0 => LET kept == Add16KeepSzpv(hl, y, f)
                       IN kept.r = Add16(hl, y, zero).r /\ kept.f \subseteq Flags
    <3> HIDE DEF zero
    <3>1. WideAddSays(hl, y, zero)
      BY <1>1, WideAdd
    <3> QED
      BY <3>1 DEF WideAddSays
  <2> QED
    BY <2>1, <2>2
<1>3. CASE op = "ADC HL"
  <2>1. HlResult(op, y) = Add16(hl, y, c)
    BY <1>3 DEF HlResult
  <2> HIDE DEF c
  <2>2. WideAddSays(hl, y, c)
    BY <1>1, WideAdd
  <2> QED
    BY <2>1, <2>2 DEF WideAddSays
<1>4. CASE op = "SBC HL"
  <2>1. HlResult(op, y) = Sub16(hl, y, c)
    BY <1>4 DEF HlResult
  <2> HIDE DEF c
  <2>2. WideSubtractSays(hl, y, c)
    BY <1>1, WideSubtract
  <2> QED
    BY <2>1, <2>2 DEF WideSubtractSays
<1> QED
  BY <1>2, <1>3, <1>4

LEMMA DigitsInBytes ==
  ASSUME NEW x \in Bytes, NEW y \in Bytes
  PROVE  /\ (x \div 16) + (16 * (y % 16)) \in Bytes
         /\ (16 * (x % 16)) + (y % 16) \in Bytes
         /\ ((y \div 16) * 16) + (x % 16) \in Bytes
         /\ ((y \div 16) * 16) + (x \div 16) \in Bytes
<1>1. \A high, low \in 0 .. 15 :
        high + (16 * low) \in Bytes /\ (16 * high) + low \in Bytes /\ (high * 16) + low \in Bytes
  BY DEF Bytes
<1>2. x \div 16 \in 0 .. 15 /\ x % 16 \in 0 .. 15 /\ y \div 16 \in 0 .. 15 /\ y % 16 \in 0 .. 15
  BY DEF Bytes
<1> QED
  BY <1>1, <1>2

LEMMA FlagsOfInFlags == \A x : FlagsOf(x) \subseteq Flags
BY DEF FlagsOf, Flags

Typed == a \in Bytes /\ m \in Bytes /\ hl \in Words /\ f \in SUBSET Flags

LEMMA TypedWith ==
  ASSUME TypesInv, NEW result, ByteResult(result), OnA(result), UNCHANGED <<m, hl>>
  PROVE  Typed' /\ OntoA(result) /\ q' = f'
BY DEF TypesInv, ByteResult, OnA, WritesFlags, Typed, OntoA

(* Each operation does what Did says, and no more *)
LEMMA StepDoes ==
  ASSUME TypesInv, ArithmeticNext
  PROVE  \E ins \in NextPlace : Take(ins) /\ Did(ins[1], ins[2]) /\ Typed'
<1> USE DEF AluOps, RotOps, AccumulatorOps, FlagWriters
<1>1. CASE OpAlu
  <2>1. PICK ins \in NextPlace : ins[1] \in AluOps /\ Take(ins) /\ OnA(AluA(ins[1], a, ins[2], f))
    BY <1>1 DEF OpAlu
  <2>2. ins[2] \in Bytes /\ a \in Bytes
    BY <2>1, TakingOne DEF ByteWhere, ByteOperations, TypesInv
  <2>3. ByteResult(AluA(ins[1], a, ins[2], f))
    BY <2>1, <2>2, AluInBytes
  <2>4. Typed' /\ OntoA(AluA(ins[1], a, ins[2], f)) /\ q' = f'
    BY <1>1, <2>1, <2>3, TypedWith DEF OpAlu
  <2> QED
    BY <2>1, <2>4 DEF Did
<1>2. CASE OpNeg
  <2>1. PICK ins \in NextPlace : ins[1] = "NEG" /\ Take(ins) /\ OnA(Sub(0, a, 0))
    BY <1>2 DEF OpNeg
  <2>2. ByteResult(Sub(0, a, 0))
    <3> DEFINE zero == 0
    <3>1. zero \in Bytes /\ zero \in {0, 1} /\ a \in Bytes
      BY DEF Bytes, TypesInv
    <3> HIDE DEF zero
    <3>2. SubSays(zero, a, zero)
      BY <3>1, SubTells
    <3>3. ByteResult(Sub(zero, a, zero))
      BY <3>2 DEF SubSays, ByteResult
    <3> QED
      BY <3>3 DEF zero
  <2>3. Typed' /\ OntoA(Sub(0, a, 0)) /\ q' = f'
    BY <1>2, <2>1, <2>2, TypedWith DEF OpNeg
  <2> QED
    BY <2>1, <2>3 DEF Did
<1>3. CASE OpIncDec
  <2>0. a \in Bytes
    BY DEF TypesInv
  <2>1. CASE \E ins \in NextPlace : ins[1] = "INC" /\ Take(ins) /\ OnA(Increment(a, f))
    <3>1. PICK ins \in NextPlace : ins[1] = "INC" /\ Take(ins) /\ OnA(Increment(a, f))
      BY <2>1
    <3>2. ByteResult(Increment(a, f))
      <4>1. IncrementSays(a, f)
        BY <2>0, IncrementTells
      <4> QED
        BY <4>1 DEF ByteResult, IncrementSays
    <3>3. Typed' /\ OntoA(Increment(a, f)) /\ q' = f'
      BY <1>3, <3>1, <3>2, TypedWith DEF OpIncDec
    <3> QED
      BY <3>1, <3>3 DEF Did
  <2>2. CASE \E ins \in NextPlace : ins[1] = "DEC" /\ Take(ins) /\ OnA(Decrement(a, f))
    <3>1. PICK ins \in NextPlace : ins[1] = "DEC" /\ Take(ins) /\ OnA(Decrement(a, f))
      BY <2>2
    <3>2. ByteResult(Decrement(a, f))
      <4>1. DecrementSays(a, f)
        BY <2>0, DecrementTells
      <4> QED
        BY <4>1 DEF ByteResult, DecrementSays
    <3>3. Typed' /\ OntoA(Decrement(a, f)) /\ q' = f'
      BY <1>3, <3>1, <3>2, TypedWith DEF OpIncDec
    <3> QED
      BY <3>1, <3>3 DEF Did
  <2> QED
    BY <1>3, <2>1, <2>2 DEF OpIncDec
<1>4. CASE OpDaa
  <2>1. PICK ins \in NextPlace : ins[1] = "DAA" /\ Take(ins) /\ OnA(DecimalAdjust(a, f))
    BY <1>4 DEF OpDaa
  <2>2. ByteResult(DecimalAdjust(a, f))
    BY DecimalAdjustInBytes DEF TypesInv
  <2>3. Typed' /\ OntoA(DecimalAdjust(a, f)) /\ q' = f'
    BY <1>4, <2>1, <2>2, TypedWith DEF OpDaa
  <2> QED
    BY <2>1, <2>3 DEF Did
<1>5. CASE OpCpl
  <2>1. PICK ins \in NextPlace : ins[1] = "CPL" /\ Take(ins) /\ OnA(Complement(a, f))
    BY <1>5 DEF OpCpl
  <2>2. ByteResult(Complement(a, f))
    BY ComplementInBytes DEF TypesInv
  <2>3. Typed' /\ q' = f'
    BY <1>5, <2>1, <2>2, TypedWith DEF OpCpl
  <2> QED
    BY <2>1, <2>3 DEF Did
<1>6. CASE OpScfCcf
  <2>1. ASSUME NEW ins \in NextPlace, Take(ins), NEW op \in {"SCF", "CCF"}, NEW latch,
               WritesFlags(ScfCcfFlags(op, a, f, latch)),
               \/ ins[1] = op /\ latch = q
               \/ ins[1] = Prefixed[op] /\ latch = {}
        PROVE  Did(ins[1], ins[2]) /\ Typed'
    <3>1. a' = a /\ m' = m /\ hl' = hl /\ f' = ScfCcfFlags(op, a, f, latch) /\ q' = f'
      BY <1>6, <2>1 DEF OpScfCcf, WritesFlags
    <3>2. Typed'
      BY <3>1, ScfCcfInFlags DEF Typed, TypesInv
    <3>3. CASE op = "SCF" /\ ins[1] = op /\ latch = q
      <4>1. ins[1] = "SCF"
        BY <3>3 DEF Prefixed
      <4>2. f' = ScfCcfFlags("SCF", a, f, q) /\ a' = a /\ q' = f'
        BY <3>1, <3>3
      <4>3. Did("SCF", ins[2])
        BY <4>2 DEF Did
      <4> QED
        BY <3>2, <4>1, <4>3
    <3>4. CASE op = "CCF" /\ ins[1] = op /\ latch = q
      <4>1. ins[1] = "CCF"
        BY <3>4 DEF Prefixed
      <4>2. f' = ScfCcfFlags("CCF", a, f, q) /\ a' = a /\ q' = f'
        BY <3>1, <3>4
      <4>3. Did("CCF", ins[2])
        BY <4>2 DEF Did
      <4> QED
        BY <3>2, <4>1, <4>3
    <3>5. CASE op = "SCF" /\ ins[1] = Prefixed[op] /\ latch = {}
      <4>1. ins[1] = "DD SCF"
        BY <3>5 DEF Prefixed
      <4>2. f' = ScfCcfFlags("SCF", a, f, {}) /\ a' = a /\ q' = f'
        BY <3>1, <3>5
      <4>3. Did("DD SCF", ins[2])
        BY <4>2 DEF Did
      <4> QED
        BY <3>2, <4>1, <4>3
    <3>6. CASE op = "CCF" /\ ins[1] = Prefixed[op] /\ latch = {}
      <4>1. ins[1] = "DD CCF"
        BY <3>6 DEF Prefixed
      <4>2. f' = ScfCcfFlags("CCF", a, f, {}) /\ a' = a /\ q' = f'
        BY <3>1, <3>6
      <4>3. Did("DD CCF", ins[2])
        BY <4>2 DEF Did
      <4> QED
        BY <3>2, <4>1, <4>3
    <3> QED
      BY <2>1, <3>3, <3>4, <3>5, <3>6
  <2>2. DOMAIN Prefixed = {"SCF", "CCF"}
    BY DEF Prefixed
  <2>3. PICK ins \in NextPlace :
          /\ Take(ins)
          /\ \E op \in {"SCF", "CCF"} :
               \/ ins[1] = op /\ WritesFlags(ScfCcfFlags(op, a, f, q))
               \/ ins[1] = Prefixed[op] /\ WritesFlags(ScfCcfFlags(op, a, f, {}))
    BY <1>6, <2>2 DEF OpScfCcf
  <2> QED
    BY <2>1, <2>3
<1>7. CASE OpHl
  <2>1. PICK ins \in NextPlace :
          /\ ins[1] \in {"ADD HL", "ADC HL", "SBC HL"} /\ Take(ins)
          /\ hl' = HlResult(ins[1], ins[2]).r /\ WritesFlags(HlResult(ins[1], ins[2]).f)
    BY <1>7 DEF OpHl
  <2>2. HlResult(ins[1], ins[2]).r \in Words /\ HlResult(ins[1], ins[2]).f \in SUBSET Flags
    BY <2>1, TakingOne, HlResultInWords DEF TypesInv
  <2>3. Typed' /\ q' = f' /\ f' = HlResult(ins[1], ins[2]).f
    BY <1>7, <2>1, <2>2 DEF OpHl, WritesFlags, Typed, TypesInv
  <2> QED
    BY <2>1, <2>3 DEF Did
<1>8. CASE OpRot
  <2>1. PICK ins \in NextPlace :
          /\ Take(ins) /\ ins[1] \in RotOps \cup AccumulatorOps
          /\ OnA(IF ins[1] \in RotOps THEN RotApply(ins[1], a, f) ELSE RotAccumulator(ins[1], a, f))
    BY <1>8 DEF OpRot
  <2> DEFINE result == IF ins[1] \in RotOps THEN RotApply(ins[1], a, f)
                                            ELSE RotAccumulator(ins[1], a, f)
  <2>2. ByteResult(result)
    BY <2>1, RotatesAre DEF TypesInv
  <2>3. Typed' /\ OntoA(result) /\ q' = f'
    BY <1>8, <2>1, <2>2, TypedWith DEF OpRot
  <2> QED
    BY <2>1, <2>3 DEF Did
<1>9. CASE OpRrd \/ OpRld
  <2> DEFINE with(digit) == [r |-> ((a \div 16) * 16) + digit,
                             f |-> (f \cap {"C"}) \cup SZXYP(((a \div 16) * 16) + digit)]
  <2>0. a \in Bytes /\ m \in Bytes
    BY DEF TypesInv
  <2>1. CASE OpRrd
    <3>1. PICK ins \in NextPlace : ins[1] = "RRD" /\ Take(ins)
      BY <2>1 DEF OpRrd
    <3>2. /\ m' = (m \div 16) + (16 * (a % 16)) /\ a' = ((a \div 16) * 16) + (m % 16)
          /\ f' = (f \cap {"C"}) \cup SZXYP(a') /\ q' = f' /\ hl' = hl
      BY <2>1 DEF OpRrd, DigitInA, OnA, WritesFlags
    <3>3. m' \in Bytes /\ a' \in Bytes
      BY <2>0, <3>2, DigitsInBytes
    <3>4. f' \subseteq Flags
      BY <3>2, SzxypTells, FlagsAre
    <3>5. Typed'
      BY <3>2, <3>3, <3>4 DEF Typed, TypesInv
    <3>6. Did(ins[1], ins[2])
      BY <3>1, <3>2 DEF Did
    <3> QED
      BY <3>1, <3>5, <3>6
  <2>2. CASE OpRld
    <3>1. PICK ins \in NextPlace : ins[1] = "RLD" /\ Take(ins)
      BY <2>2 DEF OpRld
    <3>2. /\ m' = (16 * (m % 16)) + (a % 16) /\ a' = ((a \div 16) * 16) + (m \div 16)
          /\ f' = (f \cap {"C"}) \cup SZXYP(a') /\ q' = f' /\ hl' = hl
      BY <2>2 DEF OpRld, DigitInA, OnA, WritesFlags
    <3>3. m' \in Bytes /\ a' \in Bytes
      BY <2>0, <3>2, DigitsInBytes
    <3>4. f' \subseteq Flags
      BY <3>2, SzxypTells, FlagsAre
    <3>5. Typed'
      BY <3>2, <3>3, <3>4 DEF Typed, TypesInv
    <3>6. Did(ins[1], ins[2])
      BY <3>1, <3>2 DEF Did
    <3> QED
      BY <3>1, <3>5, <3>6
  <2> QED
    BY <1>9, <2>1, <2>2
<1>10. CASE OpLdAN
  <2>1. PICK ins \in NextPlace : ins[1] = "LD A,n" /\ Take(ins) /\ a' = ins[2]
    BY <1>10 DEF OpLdAN
  <2>2. m' = m /\ hl' = hl /\ f' = f /\ q' = {}
    BY <1>10 DEF OpLdAN, KeepsFlags
  <2>3. ins[2] \in Bytes
    BY <2>1, TakingOne DEF ByteWhere, ByteOperations
  <2>4. Typed'
    BY <2>1, <2>2, <2>3 DEF Typed, TypesInv
  <2>5. Did(ins[1], ins[2])
    BY <2>1, <2>2 DEF Did
  <2> QED
    BY <2>1, <2>4, <2>5
<1>11. CASE OpIncRr
  <2>1. PICK ins \in NextPlace : ins[1] = "INC HL" /\ Take(ins)
    BY <1>11 DEF OpIncRr
  <2>2. a' = a /\ m' = m /\ f' = f /\ q' = {}
    BY <1>11 DEF OpIncRr, KeepsFlags
  <2>3. Wrap16(hl + 1) \in Words
    <3>1. hl \in Int
      BY WordsAre DEF TypesInv
    <3> QED
      BY <3>1, WrapInWords
  <2>4. hl' \in Words
    BY <1>11, <2>3 DEF OpIncRr
  <2>5. Typed'
    BY <2>2, <2>4 DEF Typed, TypesInv
  <2>6. Did(ins[1], ins[2])
    BY <2>1, <2>2 DEF Did
  <2> QED
    BY <2>1, <2>5, <2>6
<1>12. CASE OpPopAf
  <2>1. PICK ins \in NextPlace :
          ins[1] = "POP AF" /\ Take(ins) /\ a' = Hi(ins[2]) /\ f' = FlagsOf(Lo(ins[2]))
    BY <1>12 DEF OpPopAf
  <2>2. m' = m /\ hl' = hl /\ q' = {}
    BY <1>12 DEF OpPopAf
  <2>3. Hi(ins[2]) \in Bytes
    <3>1. ins[2] \in Words
      BY <2>1, TakingOne
    <3> QED
      BY <3>1, TopBitOfWord
  <2>4. Typed'
    BY <2>1, <2>2, <2>3, FlagsOfInFlags DEF Typed, TypesInv
  <2>5. Did(ins[1], ins[2])
    BY <2>1, <2>2 DEF Did
  <2> QED
    BY <2>1, <2>4, <2>5
<1>13. CASE NoInstruction
  <2>1. PICK ins \in NextPlace : ins[1] = "no instruction" /\ Take(ins)
    BY <1>13 DEF NoInstruction
  <2>2. a' = a /\ m' = m /\ hl' = hl /\ f' = f /\ q' = {}
    BY <1>13 DEF NoInstruction, KeepsFlags
  <2>4. Typed'
    BY <2>2 DEF Typed, TypesInv
  <2>5. Did(ins[1], ins[2])
    BY <2>1, <2>2 DEF Did
  <2> QED
    BY <2>1, <2>4, <2>5
<1> QED
  BY <1>1, <1>2, <1>3, <1>4, <1>5, <1>6, <1>7, <1>8, <1>9, <1>10, <1>11, <1>12, <1>13
     DEF ArithmeticNext

LEMMA NoneTaken == ArithmeticInit => Taken = 0 /\ ~(Taken > 0) /\ ~(Taken >= 2)
BY DEF ArithmeticInit, Taken

LEMMA TypesAtFirst == ArithmeticInit => TypesInv
<1> SUFFICES ASSUME ArithmeticInit
             PROVE  TypesInv
  OBVIOUS
<1>1. PICK e \in Experiments : /\ todo = e.program
                               /\ a \in e.a /\ m \in e.m /\ hl \in e.hl /\ f \in e.f
  BY DEF ArithmeticInit
<1>2. trail = <<>> /\ trail \in Seq(Records)
  BY DEF ArithmeticInit
<1> QED
  BY <1>1, <1>2, ExperimentsAssumption DEF TypesInv, ByteWhere, Flags

(* A step, with what it appended to the trail *)
LEMMA StepFound ==
  ASSUME TypesInv, ArithmeticNext
  PROVE  \E ins \in STRING \X Words :
           /\ Did(ins[1], ins[2]) /\ ByteWhere(ins)
           /\ TypesInv' /\ Taken \in Nat
           /\ Taken' = Taken + 1 /\ Last' = Found(ins)
           /\ Taken > 0 => Before' = Last
           /\ \A k \in 1 .. Taken : trail'[k] = trail[k]
<1>1. PICK ins \in NextPlace : Take(ins) /\ Did(ins[1], ins[2]) /\ Typed'
  BY StepDoes
<1>2. /\ ins \in STRING \X Words /\ ByteWhere(ins)
      /\ todo' \in Seq(SUBSET (STRING \X Words))
      /\ \A k \in DOMAIN todo' : \A next \in todo'[k] : ByteWhere(next)
      /\ trail' \in Seq(Records) /\ trail' = Append(trail, Found(ins))
  BY <1>1, TakingOne
<1>3. TypesInv'
  BY <1>1, <1>2 DEF TypesInv, Typed
<1>4. /\ Taken \in Nat /\ Taken' = Taken + 1 /\ trail'[Taken + 1] = Found(ins)
      /\ \A k \in 1 .. Taken : trail'[k] = trail[k]
  BY <1>2 DEF TypesInv, Taken
<1>5. Last' = Found(ins) /\ (Taken > 0 => Before' = Last)
  BY <1>4 DEF Last, Before
<1> QED
  BY <1>1, <1>2, <1>3, <1>4, <1>5

LEMMA TypesKept ==
  ASSUME TypesInv, [ArithmeticNext]_avars
  PROVE  TypesInv'
<1>1. CASE UNCHANGED avars
  BY <1>1 DEF avars, TypesInv
<1> QED
  BY <1>1, StepFound

LEMMA TypesHold == ArithmeticSpec => []TypesInv
BY TypesAtFirst, TypesKept, PTL DEF ArithmeticSpec

-----------------------------------------------------------------------------
(* The flags of the 8-bit operations *)

(* FlagsTellRanges of one step *)
RangesTold(op, x0, y0, f0, r, fl) ==
  LET x  == IF op = "NEG" THEN 0 ELSE x0
      y  == CASE op = "NEG" -> x0 [] op \in {"INC", "DEC"} -> 1 [] OTHER -> y0
      c  == IF op \in {"ADC", "SBC"} THEN Carry(f0) ELSE 0
      adds == op \in {"ADD", "ADC", "INC"}
      s  == IF adds THEN 1 ELSE -1
      exact == x + s * (y + c)
      range == Signed(x) + s * (Signed(y) + c)
      digit == (x % 16) + s * ((y % 16) + c)
  IN /\ r = IF op = "CP" THEN x ELSE exact % 256
     /\ Tells(fl, exact, digit, range, adds, IF op = "CP" THEN y ELSE r)
     /\ "C" \in fl <=> IF op \in {"INC", "DEC"} THEN "C" \in f0 ELSE exact \notin 0 .. 255

RangeOps == {"ADD", "ADC", "INC", "SUB", "SBC", "CP", "DEC", "NEG"}

LEMMA RangesProperty ==
  FlagsTellRanges <=>
    (Taken > 0 /\ Last.op \in RangeOps => RangesTold(Last.op, Last.a, Last.y, Last.f, a, f))
BY DEF FlagsTellRanges, RangesTold, RangeOps, Tells

LEMMA RangesOfStep ==
  ASSUME NEW op \in RangeOps, NEW y \in Words, a \in Bytes, op \in AluOps => y \in Bytes,
         Did(op, y)
  PROVE  RangesTold(op, a, y, f, a', f')
<1> USE DEF RangeOps, AluOps
<1> DEFINE c == Carry(f)
           zero == 0
<1>0. c \in {0, 1} /\ zero \in {0, 1} /\ zero \in Bytes /\ a \in 0 .. 255
  BY CarryIsBit DEF Bytes
<1>1. CASE op = "ADD"
  <2>1. y \in Bytes /\ OntoA(Add(a, y, 0))
    BY <1>1 DEF Did, AluA
  <2>2. AddSays(a, y, 0)
    <3> HIDE DEF zero
    <3>1. AddSays(a, y, zero)
      BY <1>0, <2>1, AddTells
    <3> QED
      BY <3>1 DEF zero
  <2>3. y \in 0 .. 255 /\ Signed(a) \in Int /\ Signed(y) \in Int
    BY <1>0, <2>1 DEF Bytes, Signed
  <2> DEFINE exact == a + y + 0  digit == (a % 16) + (y % 16) + 0
             range == Signed(a) + Signed(y) + 0
  <2>4. /\ a' = exact % 256 /\ Tells(f', exact, digit, range, TRUE, a')
        /\ "C" \in f' <=> exact > 255
    BY <2>1, <2>2 DEF AddSays, OntoA
  <2>5. /\ exact = a + 1 * (y + 0) /\ digit = (a % 16) + 1 * ((y % 16) + 0)
        /\ range = Signed(a) + 1 * (Signed(y) + 0)
        /\ exact > 255 <=> exact \notin 0 .. 255
    BY <1>0, <2>3
  <2> HIDE DEF exact, digit, range
  <2>6. RangesTold("ADD", a, y, f, a', f')
    BY <2>4, <2>5, Zenon DEF RangesTold
  <2> QED
    BY <1>1, <2>6
<1>2. CASE op = "ADC"
  <2>1. y \in Bytes /\ OntoA(Add(a, y, c))
    BY <1>2 DEF Did, AluA
  <2>2. AddSays(a, y, c)
    BY <1>0, <2>1, AddTells
  <2>3. y \in 0 .. 255 /\ Signed(y) \in Int /\ Signed(a) \in Int /\ Signed(0) = 0 /\ Signed(1) = 1
    BY <1>0, <2>1 DEF Bytes, Signed
  <2> DEFINE exact == a + y + c  digit == (a % 16) + (y % 16) + c
             range == Signed(a) + Signed(y) + c
  <2>4. /\ a' = exact % 256 /\ Tells(f', exact, digit, range, TRUE, a')
        /\ "C" \in f' <=> exact > 255
    BY <2>1, <2>2 DEF AddSays, OntoA
  <2>5. /\ exact = a + 1 * (y + c) /\ digit = (a % 16) + 1 * ((y % 16) + c)
        /\ range = Signed(a) + 1 * (Signed(y) + c)
        /\ exact > 255 <=> exact \notin 0 .. 255
    BY <1>0, <2>3
  <2> HIDE DEF exact, digit, range
  <2>6. RangesTold("ADC", a, y, f, a', f')
    BY <2>4, <2>5, Zenon DEF RangesTold
  <2> QED
    BY <1>2, <2>6
<1>3. CASE op = "SUB"
  <2>1. y \in Bytes /\ OntoA(Sub(a, y, 0))
    BY <1>3 DEF Did, AluA
  <2>2. SubSays(a, y, 0)
    <3> HIDE DEF zero
    <3>1. SubSays(a, y, zero)
      BY <1>0, <2>1, SubTells
    <3> QED
      BY <3>1 DEF zero
  <2>3. y \in 0 .. 255 /\ Signed(y) \in Int /\ Signed(a) \in Int /\ Signed(0) = 0 /\ Signed(1) = 1
    BY <1>0, <2>1 DEF Bytes, Signed
  <2> DEFINE exact == a - y - 0  digit == (a % 16) - (y % 16) - 0
             range == Signed(a) - Signed(y) - 0
  <2>4. /\ a' = exact % 256 /\ Tells(f', exact, digit, range, FALSE, a')
        /\ "C" \in f' <=> exact < 0
    BY <2>1, <2>2 DEF SubSays, OntoA
  <2>5. /\ exact = a + (-1) * (y + 0) /\ digit = (a % 16) + (-1) * ((y % 16) + 0)
        /\ range = Signed(a) + (-1) * (Signed(y) + 0)
        /\ exact \in Int /\ exact >= -256 /\ exact <= 255
    BY <1>0, <2>3
  <2> HIDE DEF exact, digit, range
  <2>8. exact < 0 <=> exact \notin 0 .. 255
    BY <2>5, BorrowedByte
  <2>6. Tells(f', exact, digit, range, "SUB" \in {"ADD", "ADC", "INC"}, a')
    BY <2>4 DEF Tells
  <2>7. RangesTold("SUB", a, y, f, a', f')
    BY <2>4, <2>5, <2>6, <2>8, Zenon DEF RangesTold
  <2> QED
    BY <1>3, <2>7
<1>4. CASE op = "SBC"
  <2>1. y \in Bytes /\ OntoA(Sub(a, y, c))
    BY <1>4 DEF Did, AluA
  <2>2. SubSays(a, y, c)
    BY <1>0, <2>1, SubTells
  <2>3. y \in 0 .. 255 /\ Signed(y) \in Int /\ Signed(a) \in Int /\ Signed(0) = 0 /\ Signed(1) = 1
    BY <1>0, <2>1 DEF Bytes, Signed
  <2> DEFINE exact == a - y - c  digit == (a % 16) - (y % 16) - c
             range == Signed(a) - Signed(y) - c
  <2>4. /\ a' = exact % 256 /\ Tells(f', exact, digit, range, FALSE, a')
        /\ "C" \in f' <=> exact < 0
    BY <2>1, <2>2 DEF SubSays, OntoA
  <2>5. /\ exact = a + (-1) * (y + c) /\ digit = (a % 16) + (-1) * ((y % 16) + c)
        /\ range = Signed(a) + (-1) * (Signed(y) + c)
        /\ exact \in Int /\ exact >= -256 /\ exact <= 255
    BY <1>0, <2>3
  <2> HIDE DEF exact, digit, range
  <2>8. exact < 0 <=> exact \notin 0 .. 255
    BY <2>5, BorrowedByte
  <2>6. Tells(f', exact, digit, range, "SBC" \in {"ADD", "ADC", "INC"}, a')
    BY <2>4 DEF Tells
  <2>7. RangesTold("SBC", a, y, f, a', f')
    BY <2>4, <2>5, <2>6, <2>8, Zenon DEF RangesTold
  <2> QED
    BY <1>4, <2>7
<1>5. CASE op = "CP"
  <2>1. y \in Bytes /\ OntoA(Compare(a, y))
    BY <1>5 DEF Did, AluA
  <2>2. CompareSays(a, y)
    BY <1>0, <2>1, CompareTells
  <2>3. y \in 0 .. 255 /\ Signed(y) \in Int /\ Signed(a) \in Int /\ Signed(0) = 0 /\ Signed(1) = 1
    BY <1>0, <2>1 DEF Bytes, Signed
  <2> DEFINE exact == a - y  digit == (a % 16) - (y % 16)
             range == Signed(a) - Signed(y)
  <2>4. /\ a' = a /\ Tells(f', exact, digit, range, FALSE, y)
        /\ "C" \in f' <=> exact < 0
    BY <2>1, <2>2 DEF CompareSays, OntoA
  <2>5. /\ exact = a + (-1) * (y + 0) /\ digit = (a % 16) + (-1) * ((y % 16) + 0)
        /\ range = Signed(a) + (-1) * (Signed(y) + 0)
        /\ exact \in Int /\ exact >= -256 /\ exact <= 255
    BY <1>0, <2>3
  <2> HIDE DEF exact, digit, range
  <2>8. exact < 0 <=> exact \notin 0 .. 255
    BY <2>5, BorrowedByte
  <2>6. Tells(f', exact, digit, range, "CP" \in {"ADD", "ADC", "INC"}, y)
    BY <2>4 DEF Tells
  <2>7. RangesTold("CP", a, y, f, a', f')
    BY <2>4, <2>5, <2>6, <2>8, Zenon DEF RangesTold
  <2> QED
    BY <1>5, <2>7
<1>6. CASE op = "NEG"
  <2>1. OntoA(Sub(0, a, 0))
    BY <1>6 DEF Did
  <2>2. SubSays(0, a, 0)
    <3> HIDE DEF zero
    <3>1. SubSays(zero, a, zero)
      BY <1>0, <2>1, SubTells
    <3> QED
      BY <3>1 DEF zero
  <2>3. Signed(a) \in Int /\ Signed(0) = 0 /\ Signed(1) = 1
    BY <1>0, <2>1 DEF Bytes, Signed
  <2> DEFINE exact == 0 - a - 0  digit == (0 % 16) - (a % 16) - 0
             range == Signed(0) - Signed(a) - 0
  <2>4. /\ a' = exact % 256 /\ Tells(f', exact, digit, range, FALSE, a')
        /\ "C" \in f' <=> exact < 0
    BY <2>1, <2>2 DEF SubSays, OntoA
  <2>5. /\ exact = 0 + (-1) * (a + 0) /\ digit = (0 % 16) + (-1) * ((a % 16) + 0)
        /\ range = Signed(0) + (-1) * (Signed(a) + 0)
        /\ exact \in Int /\ exact >= -256 /\ exact <= 255
    BY <1>0, <2>3
  <2> HIDE DEF exact, digit, range
  <2>8. exact < 0 <=> exact \notin 0 .. 255
    BY <2>5, BorrowedByte
  <2>6. Tells(f', exact, digit, range, "NEG" \in {"ADD", "ADC", "INC"}, a')
    BY <2>4 DEF Tells
  <2>7. RangesTold("NEG", a, y, f, a', f')
    BY <2>4, <2>5, <2>6, <2>8, Zenon DEF RangesTold
  <2> QED
    BY <1>6, <2>7
<1>7. CASE op = "INC"
  <2>1. OntoA(Increment(a, f))
    BY <1>7 DEF Did
  <2>2. IncrementSays(a, f)
    BY <1>0, IncrementTells
  <2>3. Signed(a) \in Int /\ Signed(0) = 0 /\ Signed(1) = 1
    BY <1>0, <2>1 DEF Bytes, Signed
  <2> DEFINE exact == a + 1  digit == (a % 16) + 1
             range == Signed(a) + 1
  <2>4. /\ a' = exact % 256 /\ Tells(f', exact, digit, range, TRUE, a')
        /\ "C" \in f' <=> "C" \in f
    BY <2>1, <2>2 DEF IncrementSays, OntoA
  <2>5. /\ exact = a + 1 * (1 + 0) /\ digit = (a % 16) + 1 * ((1 % 16) + 0)
        /\ range = Signed(a) + 1 * (Signed(1) + 0)
    BY <1>0, <2>3
  <2> HIDE DEF exact, digit, range
  <2>6. RangesTold("INC", a, y, f, a', f')
    BY <2>4, <2>5, Zenon DEF RangesTold
  <2> QED
    BY <1>7, <2>6
<1>8. CASE op = "DEC"
  <2>1. OntoA(Decrement(a, f))
    BY <1>8 DEF Did
  <2>2. DecrementSays(a, f)
    BY <1>0, DecrementTells
  <2>3. Signed(a) \in Int /\ Signed(0) = 0 /\ Signed(1) = 1
    BY <1>0, <2>1 DEF Bytes, Signed
  <2> DEFINE exact == a - 1  digit == (a % 16) - 1
             range == Signed(a) - 1
  <2>4. /\ a' = exact % 256 /\ Tells(f', exact, digit, range, FALSE, a')
        /\ "C" \in f' <=> "C" \in f
    BY <2>1, <2>2 DEF DecrementSays, OntoA
  <2>5. /\ exact = a + (-1) * (1 + 0) /\ digit = (a % 16) + (-1) * ((1 % 16) + 0)
        /\ range = Signed(a) + (-1) * (Signed(1) + 0)
    BY <1>0, <2>3
  <2> HIDE DEF exact, digit, range
  <2>6. Tells(f', exact, digit, range, "DEC" \in {"ADD", "ADC", "INC"}, a')
    BY <2>4 DEF Tells
  <2>7. RangesTold("DEC", a, y, f, a', f')
    BY <2>4, <2>5, <2>6, Zenon DEF RangesTold
  <2> QED
    BY <1>8, <2>7
<1> QED
  BY <1>1, <1>2, <1>3, <1>4, <1>5, <1>6, <1>7, <1>8

(* The flags of an 8-bit operation say what happened to the numbers: _add, *)
(* _sub, _cp, INC and DEC, on every operand and every incoming F           *)
THEOREM FlagsTellTheRanges == ArithmeticSpec => []FlagsTellRanges
<1>1. ArithmeticInit => FlagsTellRanges
  BY NoneTaken, Zenon DEF FlagsTellRanges
<1>2. TypesInv /\ FlagsTellRanges /\ [ArithmeticNext]_avars => FlagsTellRanges'
  <2> SUFFICES ASSUME TypesInv, FlagsTellRanges, [ArithmeticNext]_avars
               PROVE  FlagsTellRanges'
    OBVIOUS
  <2>0. FlagsTellRanges' <=>
          (Taken' > 0 /\ Last'.op \in RangeOps
             => RangesTold(Last'.op, Last'.a, Last'.y, Last'.f, a', f'))
    BY Zenon DEF FlagsTellRanges, RangesTold, RangeOps, Tells
  <2>1. CASE ArithmeticNext
    <3>1. PICK ins \in STRING \X Words :
            /\ Did(ins[1], ins[2]) /\ ByteWhere(ins) /\ Taken' = Taken + 1 /\ Last' = Found(ins)
      BY <2>1, StepFound
    <3>2. /\ Last'.op = ins[1] /\ Last'.y = ins[2] /\ Last'.a = a /\ Last'.f = f
          /\ ins[2] \in Words /\ a \in Bytes
      BY <3>1 DEF Found, TypesInv
    <3>3. ins[1] \in AluOps => ins[2] \in Bytes
      BY <3>1 DEF ByteWhere, ByteOperations
    <3>4. ins[1] \in RangeOps => RangesTold(ins[1], a, ins[2], f, a', f')
      BY <3>1, <3>2, <3>3, RangesOfStep
    <3> QED
      BY <2>0, <3>2, <3>4
  <2>2. CASE UNCHANGED avars
    <3>1. Taken' = Taken /\ Last' = Last /\ a' = a /\ f' = f
      BY <2>2 DEF avars, Taken, Last
    <3> QED
      BY <2>0, <3>1, RangesProperty
  <2> QED
    BY <2>1, <2>2
<1> QED
  BY <1>1, <1>2, TypesHold, PTL DEF ArithmeticSpec

-----------------------------------------------------------------------------
(* Sixteen bits *)

Joined(high, low) == 256 * high + low

WideOps == {"ADD HL", "ADC HL", "SBC HL"}

(* WideIsTwoNarrow of one step *)
WideTold(op, x, y, f0, r, fl) ==
  LET c    == IF op = "ADD HL" THEN 0 ELSE Carry(f0)
      low  == IF op = "SBC HL" THEN Sub(Lo(x), Lo(y), c) ELSE Add(Lo(x), Lo(y), c)
      high == IF op = "SBC HL" THEN Sub(Hi(x), Hi(y), Carry(low.f))
                               ELSE Add(Hi(x), Hi(y), Carry(low.f))
      kept == IF op = "ADD HL" THEN {"S", "Z", "PV"} ELSE {}
  IN /\ r = Joined(high.r, low.r)
     /\ fl \ (kept \cup {"Z"}) = high.f \ (kept \cup {"Z"})
     /\ fl \cap kept = f0 \cap kept
     /\ kept = {} => ("Z" \in fl <=> r = 0)

LEMMA WideProperty ==
  WideIsTwoNarrow <=>
    (Taken > 0 /\ Last.op \in WideOps => WideTold(Last.op, Last.hl, Last.y, Last.f, hl, f))
BY Zenon DEF WideIsTwoNarrow, WideTold, WideOps, Joined

LEMMA WideOfStep ==
  ASSUME TypesInv, ArithmeticNext
  PROVE  Last'.op \in WideOps => WideTold(Last'.op, Last'.hl, Last'.y, Last'.f, hl', f')
<1>1. PICK ins \in STRING \X Words :
        /\ Did(ins[1], ins[2]) /\ Last' = Found(ins)
  BY StepFound
<1> DEFINE op == ins[1]  y == ins[2]  c == Carry(f)  zero == 0
<1>2. /\ Last'.op = op /\ Last'.y = y /\ Last'.hl = hl /\ Last'.f = f
      /\ y \in Words /\ hl \in Words /\ c \in {0, 1} /\ zero \in {0, 1}
  BY <1>1, CarryIsBit DEF Found, TypesInv
<1>3. op \in {"ADD HL", "ADC HL", "SBC HL"} => hl' = HlResult(op, y).r /\ f' = HlResult(op, y).f
  BY <1>1 DEF Did
<1> HIDE DEF op, y, c, zero
<1>4. CASE op = "ADD HL"
  <2>1. WideAddSays(hl, y, zero)
    BY <1>2, WideAdd
  <2>2. WideAddSays(hl, y, 0)
    BY <2>1 DEF zero
  <2>3. hl' = Add16KeepSzpv(hl, y, f).r /\ f' = Add16KeepSzpv(hl, y, f).f
    BY <1>3, <1>4 DEF HlResult
  <2> DEFINE low == Add(Lo(hl), Lo(y), 0)  high == Add(Hi(hl), Hi(y), Carry(low.f))
  <2>4. /\ hl' = Joined(high.r, low.r)
        /\ f' \ {"S", "Z", "PV"} = high.f \ {"S", "Z", "PV"}
        /\ f' \cap {"S", "Z", "PV"} = f \cap {"S", "Z", "PV"}
    BY <2>2, <2>3 DEF WideAddSays, Joined
  <2> HIDE DEF low, high
  <2>5. {"S", "Z", "PV"} \cup {"Z"} = {"S", "Z", "PV"} /\ {"S", "Z", "PV"} # {}
    OBVIOUS
  <2>6. WideTold("ADD HL", hl, y, f, hl', f')
    BY <2>4, <2>5, Zenon DEF WideTold, low, high
  <2> QED
    BY <1>2, <1>4, <2>6, Zenon
<1>5. CASE op = "ADC HL"
  <2>1. WideAddSays(hl, y, c)
    BY <1>2, WideAdd
  <2>2. hl' = Add16(hl, y, c).r /\ f' = Add16(hl, y, c).f
    BY <1>3, <1>5 DEF HlResult, c
  <2> DEFINE low == Add(Lo(hl), Lo(y), c)  high == Add(Hi(hl), Hi(y), Carry(low.f))
  <2>3. /\ hl' = Joined(high.r, low.r)
        /\ f' \ {"Z"} = high.f \ {"Z"}
        /\ "Z" \in f' <=> hl' = 0
    BY <2>1, <2>2 DEF WideAddSays, Joined
  <2> HIDE DEF low, high
  <2>4. {} \cup {"Z"} = {"Z"} /\ f' \cap {} = f \cap {}
    OBVIOUS
  <2>5. WideTold("ADC HL", hl, y, f, hl', f')
    BY <2>3, <2>4, Zenon DEF WideTold, low, high, c
  <2> QED
    BY <1>2, <1>5, <2>5, Zenon
<1>6. CASE op = "SBC HL"
  <2>1. WideSubtractSays(hl, y, c)
    BY <1>2, WideSubtract
  <2>2. hl' = Sub16(hl, y, c).r /\ f' = Sub16(hl, y, c).f
    BY <1>3, <1>6 DEF HlResult, c
  <2> DEFINE low == Sub(Lo(hl), Lo(y), c)  high == Sub(Hi(hl), Hi(y), Carry(low.f))
  <2>3. /\ hl' = Joined(high.r, low.r)
        /\ f' \ {"Z"} = high.f \ {"Z"}
        /\ "Z" \in f' <=> hl' = 0
    BY <2>1, <2>2 DEF WideSubtractSays, Joined
  <2> HIDE DEF low, high
  <2>4. {} \cup {"Z"} = {"Z"} /\ f' \cap {} = f \cap {}
    OBVIOUS
  <2>5. WideTold("SBC HL", hl, y, f, hl', f')
    BY <2>3, <2>4, Zenon DEF WideTold, low, high, c
  <2> QED
    BY <1>2, <1>6, <2>5, Zenon
<1> QED
  BY <1>2, <1>4, <1>5, <1>6 DEF WideOps

(* ADC HL and SBC HL are ADC and SBC on the low and then the high bytes,   *)
(* and ADD HL is that but for S, Z and PV: _add16, _sub16 and              *)
(* _add16_keep_szpv, on every pair of words                                *)
THEOREM WordsAreTwoBytes == ArithmeticSpec => []WideIsTwoNarrow
<1>1. ArithmeticInit => WideIsTwoNarrow
  BY NoneTaken, Zenon DEF WideIsTwoNarrow
<1>2. TypesInv /\ WideIsTwoNarrow /\ [ArithmeticNext]_avars => WideIsTwoNarrow'
  <2> SUFFICES ASSUME TypesInv, WideIsTwoNarrow, [ArithmeticNext]_avars
               PROVE  WideIsTwoNarrow'
    OBVIOUS
  <2>0. WideIsTwoNarrow' <=>
          (Taken' > 0 /\ Last'.op \in WideOps
             => WideTold(Last'.op, Last'.hl, Last'.y, Last'.f, hl', f'))
    BY Zenon DEF WideIsTwoNarrow, WideTold, WideOps, Joined
  <2>1. CASE ArithmeticNext
    BY <2>0, <2>1, WideOfStep, Zenon
  <2>2. CASE UNCHANGED avars
    <3>1. Taken' = Taken /\ Last' = Last /\ hl' = hl /\ f' = f
      BY <2>2 DEF avars, Taken, Last
    <3> QED
      BY <2>0, <3>1, WideProperty
  <2> QED
    BY <2>1, <2>2
<1> QED
  BY <1>1, <1>2, TypesHold, PTL DEF ArithmeticSpec

-----------------------------------------------------------------------------
(* The Q latch *)

(* Q is the F that the last instruction wrote, or 0 *)
LatchInv ==
  /\ TypesInv
  /\ q = IF Taken > 0 /\ Last.op \in FlagWriters THEN f ELSE {}

LEMMA LatchKept ==
  ASSUME LatchInv, [ArithmeticNext]_avars
  PROVE  LatchInv'
<1>1. CASE ArithmeticNext
  <2>1. PICK ins \in STRING \X Words :
          /\ Did(ins[1], ins[2]) /\ TypesInv' /\ Taken \in Nat
          /\ Taken' = Taken + 1 /\ Last' = Found(ins)
    BY <1>1, StepFound DEF LatchInv
  <2>2. Last'.op = ins[1] /\ Taken' > 0
    BY <2>1 DEF Found
  <2>3. q' = IF ins[1] \in FlagWriters THEN f' ELSE {}
    BY <2>1, Zenon DEF Did
  <2> QED
    BY <2>1, <2>2, <2>3 DEF LatchInv
<1>2. CASE UNCHANGED avars
  <2>1. Taken' = Taken /\ Last' = Last /\ q' = q /\ f' = f
    BY <1>2 DEF avars, Taken, Last
  <2> QED
    BY <1>2, <2>1, TypesKept DEF LatchInv
<1> QED
  BY <1>1, <1>2

LEMMA LatchHolds == ArithmeticSpec => []LatchInv
<1>1. ArithmeticInit => LatchInv
  BY TypesAtFirst, NoneTaken DEF ArithmeticInit, LatchInv
<1> QED
  BY <1>1, LatchKept, PTL DEF ArithmeticSpec

(* The SMT backend takes no string with a space in it *)
Behind == {"DD SCF", "DD CCF"}

LEMMA LatchOfStep ==
  ASSUME LatchInv, ArithmeticNext
  PROVE  ScfCcfSeeLastWriter'
<1>1. PICK ins \in STRING \X Words :
        /\ Did(ins[1], ins[2]) /\ Taken \in Nat
        /\ Taken' = Taken + 1 /\ Last' = Found(ins) /\ (Taken > 0 => Before' = Last)
  BY StepFound DEF LatchInv
<1>2. Last'.op = ins[1] /\ Last'.f = f
  BY <1>1 DEF Found
<1> SUFFICES ASSUME Taken' >= 2, ins[1] \in {"SCF", "CCF"} \cup Behind
             PROVE  f' \cap {"X", "Y"} =
                      XY(a') \cup (IF Before'.op \in FlagWriters /\ ins[1] \in {"SCF", "CCF"}
                                     THEN {} ELSE f \cap {"X", "Y"})
  BY <1>2, Zenon DEF ScfCcfSeeLastWriter, Behind
<1>3. Taken > 0
  <2>1. Taken \in Nat /\ Taken' = Taken + 1
    BY <1>1
  <2> QED
    BY <2>1
<1>4. Before' = Last /\ q = IF Last.op \in FlagWriters THEN f ELSE {}
  BY <1>1, <1>3, Zenon DEF LatchInv
<1>5. CASE ins[1] \in {"SCF", "CCF"}
  <2>1. f' = ScfCcfFlags(ins[1], a, f, q) /\ a' = a
    BY <1>1, <1>5, Zenon DEF Did
  <2>2. f' \cap {"X", "Y"} = XY(a) \cup (IF q # {} THEN {} ELSE f \cap {"X", "Y"})
    BY <2>1, XyOnly, SMT DEF ScfCcfFlags
  <2> QED
    BY <1>4, <1>5, <2>1, <2>2
<1>6. CASE ins[1] \in Behind
  <2>1. PICK op \in {"SCF", "CCF"} : f' = ScfCcfFlags(op, a, f, {}) /\ a' = a
    BY <1>1, <1>6, Zenon DEF Did, Behind
  <2>2. f' \cap {"X", "Y"} = XY(a) \cup (f \cap {"X", "Y"})
    BY <2>1, XyOnly, SMT DEF ScfCcfFlags
  <2>3. ~(ins[1] \in {"SCF", "CCF"})
    BY <1>6, Zenon DEF Behind
  <2> QED
    BY <2>1, <2>2, <2>3
<1> QED
  BY <1>5, <1>6

(* After SCF or CCF, X and Y are A's alone or A's and the old F's, by what *)
(* the instruction before did to F: the q that each handler leaves behind, *)
(* through programs of any length                                          *)
THEOREM LatchTellsLastWriter == ArithmeticSpec => []ScfCcfSeeLastWriter
<1>1. ArithmeticInit => ScfCcfSeeLastWriter
  BY NoneTaken, Zenon DEF ScfCcfSeeLastWriter
<1>2. LatchInv /\ ScfCcfSeeLastWriter /\ [ArithmeticNext]_avars => ScfCcfSeeLastWriter'
  <2> SUFFICES ASSUME LatchInv, ScfCcfSeeLastWriter, UNCHANGED avars
               PROVE  ScfCcfSeeLastWriter'
    BY LatchOfStep
  <2>1. Taken' = Taken /\ Last' = Last /\ Before' = Before /\ a' = a /\ f' = f
    BY DEF avars, Taken, Last, Before
  <2> QED
    BY <2>1 DEF ScfCcfSeeLastWriter
<1> QED
  BY <1>1, <1>2, LatchHolds, PTL DEF ArithmeticSpec

-----------------------------------------------------------------------------
(* The rotates *)

Turns == {"RLC", "RRC", "RL", "RR", "RLCA", "RRCA", "RLA", "RRA"}

(* What a rotate made of A, (HL) and F: x, y and fl before it, r, z and g after *)
Turned(op, x, y, fl, r, z, g) ==
  /\ op \in Turns =>
       LET in == GoesIn(op, x, fl)
       IN /\ z = y
          /\ r = IF op \in GoesLeft THEN Left(x, in) ELSE Right(x, in)
          /\ "C" \in g <=> Bit(x, IF op \in GoesLeft THEN 128 ELSE 1) = 1
  /\ op = "RRD" => z = (y \div 16) + (16 * (x % 16)) /\ r = ((x \div 16) * 16) + (y % 16)
  /\ op = "RLD" => z = (16 * (y % 16)) + (x % 16) /\ r = ((x \div 16) * 16) + (y \div 16)

LEMMA TurnedByStep ==
  ASSUME NEW op, NEW y, a \in Bytes, Did(op, y)
  PROVE  Turned(op, a, m, f, a', m', f')
<1>1. ASSUME op \in Turns
      PROVE  LET in == GoesIn(op, a, f)
             IN /\ m' = m
                /\ a' = IF op \in GoesLeft THEN Left(a, in) ELSE Right(a, in)
                /\ "C" \in f' <=> Bit(a, IF op \in GoesLeft THEN 128 ELSE 1) = 1
  <2> DEFINE result == IF op \in RotOps THEN RotApply(op, a, f) ELSE RotAccumulator(op, a, f)
  <2>1. op \in RotOps \cup AccumulatorOps
    BY <1>1 DEF Turns, RotOps, AccumulatorOps
  <2>2. OntoA(result)
    BY <2>1, Zenon DEF Did
  <2>3. /\ result.r = IF op \in GoesLeft THEN Left(a, GoesIn(op, a, f)) ELSE Right(a, GoesIn(op, a, f))
        /\ "C" \in result.f <=> Bit(a, IF op \in GoesLeft THEN 128 ELSE 1) = 1
    BY <2>1, RotatesAre
  <2> HIDE DEF result
  <2> QED
    BY <2>2, <2>3 DEF OntoA
<1>2. op = "RRD" => m' = (m \div 16) + (16 * (a % 16)) /\ a' = ((a \div 16) * 16) + (m % 16)
  BY Zenon DEF Did
<1>3. op = "RLD" => m' = (16 * (m % 16)) + (a % 16) /\ a' = ((a \div 16) * 16) + (m \div 16)
  BY Zenon DEF Did
<1> QED
  BY <1>1, <1>2, <1>3, Zenon DEF Turned

Through  == {"RL", "RR", "RLA", "RRA"}

CameBack(op, x, y, fl, r2, z2, g2) ==
  /\ r2 = x /\ z2 = y
  /\ op \in Through => ("C" \in g2 <=> "C" \in fl)

LEMMA TurnedBack ==
  ASSUME NEW op, NEW undo,
         op \in DOMAIN Undoes, undo = Undoes[op],
         NEW x \in Bytes, NEW y \in Bytes, NEW fl,
         NEW r \in Bytes, NEW z, NEW g, NEW r2, NEW z2, NEW g2,
         Turned(op, x, y, fl, r, z, g), Turned(undo, r, z, g, r2, z2, g2)
  PROVE  CameBack(op, x, y, fl, r2, z2, g2)
<1> USE DEF CameBack
<1>0. \/ op \in {"RLC", "RLCA"} /\ undo \in {"RRC", "RRCA"}
      \/ op \in {"RRC", "RRCA"} /\ undo \in {"RLC", "RLCA"}
      \/ op \in {"RL", "RLA"} /\ undo \in {"RR", "RRA"}
      \/ op \in {"RR", "RRA"} /\ undo \in {"RL", "RLA"}
      \/ op = "RRD" /\ undo = "RLD"
      \/ op = "RLD" /\ undo = "RRD"
  BY DEF Undoes
<1>1. CASE op \in {"RLC", "RLCA"} /\ undo \in {"RRC", "RRCA"}
  <2>1. r = Left(x, Bit(x, 128)) /\ z = y
    BY <1>1 DEF Turned, GoesIn, GoesLeft, Turns
  <2>2. r2 = Right(r, Bit(r, 1)) /\ z2 = z
    BY <1>1 DEF Turned, GoesIn, GoesLeft, Turns
  <2>3. Bit(x, 128) \in {0, 1}
    BY BitIsBit DEF Bytes
  <2> QED
    BY <1>1, <2>1, <2>2, <2>3, LeftRight DEF Through
<1>2. CASE op \in {"RRC", "RRCA"} /\ undo \in {"RLC", "RLCA"}
  <2>1. r = Right(x, Bit(x, 1)) /\ z = y
    BY <1>2 DEF Turned, GoesIn, GoesLeft, Turns
  <2>2. r2 = Left(r, Bit(r, 128)) /\ z2 = z
    BY <1>2 DEF Turned, GoesIn, GoesLeft, Turns
  <2>3. Bit(x, 1) \in {0, 1}
    BY BitIsBit DEF Bytes
  <2> QED
    BY <1>2, <2>1, <2>2, <2>3, LeftRight DEF Through
<1>3. CASE op \in {"RL", "RLA"} /\ undo \in {"RR", "RRA"}
  <2>1. r = Left(x, Carry(fl)) /\ z = y /\ ("C" \in g <=> Bit(x, 128) = 1)
    BY <1>3 DEF Turned, GoesIn, GoesLeft, Turns
  <2>2. r2 = Right(r, Carry(g)) /\ z2 = z /\ ("C" \in g2 <=> Bit(r, 1) = 1)
    BY <1>3 DEF Turned, GoesIn, GoesLeft, Turns
  <2>3. Carry(fl) \in {0, 1} /\ Bit(x, 128) \in {0, 1}
    BY CarryIsBit, BitIsBit DEF Bytes
  <2>4. Carry(g) = Bit(x, 128) /\ Bit(r, 1) = Carry(fl)
    BY <2>1, <2>3, LeftRight DEF Carry
  <2> QED
    BY <2>1, <2>2, <2>3, <2>4, LeftRight DEF Carry
<1>4. CASE op \in {"RR", "RRA"} /\ undo \in {"RL", "RLA"}
  <2>1. r = Right(x, Carry(fl)) /\ z = y /\ ("C" \in g <=> Bit(x, 1) = 1)
    BY <1>4 DEF Turned, GoesIn, GoesLeft, Turns
  <2>2. r2 = Left(r, Carry(g)) /\ z2 = z /\ ("C" \in g2 <=> Bit(r, 128) = 1)
    BY <1>4 DEF Turned, GoesIn, GoesLeft, Turns
  <2>3. Carry(fl) \in {0, 1} /\ Bit(x, 1) \in {0, 1}
    BY CarryIsBit, BitIsBit DEF Bytes
  <2>4. Carry(g) = Bit(x, 1) /\ Bit(r, 128) = Carry(fl)
    BY <2>1, <2>3, LeftRight DEF Carry
  <2> QED
    BY <2>1, <2>2, <2>3, <2>4, LeftRight DEF Carry
<1>5. CASE op = "RRD" /\ undo = "RLD"
  <2>1. /\ z = (y \div 16) + (16 * (x % 16)) /\ r = ((x \div 16) * 16) + (y % 16)
        /\ z2 = (16 * (z % 16)) + (r % 16) /\ r2 = ((r \div 16) * 16) + (z \div 16)
    BY <1>5, Zenon DEF Turned
  <2>2. z2 = y /\ r2 = x
    BY <2>1, SMT DEF Bytes
  <2> QED
    BY <1>5, <2>2 DEF Through
<1>6. CASE op = "RLD" /\ undo = "RRD"
  <2>1. /\ z = (16 * (y % 16)) + (x % 16) /\ r = ((x \div 16) * 16) + (y \div 16)
        /\ z2 = (z \div 16) + (16 * (r % 16)) /\ r2 = ((r \div 16) * 16) + (z % 16)
    BY <1>6, Zenon DEF Turned
  <2>2. z2 = y /\ r2 = x
    BY <2>1, SMT DEF Bytes
  <2> QED
    BY <1>6, <2>2 DEF Through
<1> QED
  BY <1>0, <1>1, <1>2, <1>3, <1>4, <1>5, <1>6

(* A and C as nine bits: RL doubles them, and what leaves at the top comes *)
(* in at the bottom                                                        *)
Nine(x, fl) == (256 * Carry(fl)) + x
NineBits == 0 .. 511
Doubled(v, w) == w = (2 * v) - (511 * (IF v >= 256 THEN 1 ELSE 0))

LEMMA NineAsOne ==
  ASSUME NEW x \in Bytes, NEW fl, NEW r \in Bytes, NEW g, NEW y, NEW z, NEW op \in {"RL", "RR"},
         Turned(op, x, y, fl, r, z, g)
  PROVE  /\ Nine(x, fl) \in NineBits
         /\ op = "RL" => Doubled(Nine(x, fl), Nine(r, g))
         /\ op = "RR" => Doubled(Nine(r, g), Nine(x, fl))
<1>0. x \in 0 .. 255 /\ r \in 0 .. 255
  BY DEF Bytes
<1>1. Carry(fl) \in {0, 1} /\ Carry(g) \in {0, 1}
  BY CarryIsBit
<1>2. Nine(x, fl) \in NineBits
  BY <1>0, <1>1 DEF Nine, NineBits
<1>3. CASE op = "RL"
  <2>1. r = Left(x, Carry(fl)) /\ ("C" \in g <=> Bit(x, 128) = 1)
    BY <1>3 DEF Turned, GoesIn, GoesLeft, Turns
  <2>2. Carry(g) = IF x >= 128 THEN 1 ELSE 0
    BY <2>1, TopBit DEF Carry
  <2> DEFINE c == Carry(fl)  d == Carry(g)
  <2>3. /\ c \in {0, 1} /\ d = (IF x >= 128 THEN 1 ELSE 0) /\ r = ((2 * x) + c) % 256
    BY <1>1, <2>1, <2>2 DEF Left
  <2> HIDE DEF c, d
  <2>5. r = ((2 * x) + c) - (256 * d)
    <3> DEFINE s == (2 * x) + c
    <3>1. s \in 0 .. 511 /\ (s >= 256 <=> x >= 128) /\ r = s % 256
      BY <1>0, <2>3
    <3> HIDE DEF s
    <3>2. r = s - (256 * d)
      BY <2>3, <3>1
    <3> QED
      BY <3>2 DEF s
  <2>4. Doubled((256 * c) + x, (256 * d) + r)
    BY <1>0, <2>3, <2>5 DEF Doubled
  <2> QED
    BY <1>2, <1>3, <2>4 DEF Nine, c, d
<1>4. CASE op = "RR"
  <2>1. r = Right(x, Carry(fl)) /\ ("C" \in g <=> Bit(x, 1) = 1)
    BY <1>4 DEF Turned, GoesIn, GoesLeft, Turns
  <2>2. Carry(g) = x % 2
    BY <1>0, <2>1 DEF Carry, Bit
  <2> DEFINE c == Carry(fl)  d == Carry(g)
  <2>3. /\ c \in {0, 1} /\ d = x % 2 /\ r = (x \div 2) + (128 * c)
    BY <1>1, <2>1, <2>2 DEF Right
  <2> HIDE DEF c, d
  <2>4. Doubled((256 * d) + r, (256 * c) + x)
    BY <1>0, <2>3 DEF Doubled
  <2> QED
    BY <1>2, <1>4, <2>4 DEF Nine, c, d
<1> QED
  BY <1>2, <1>3, <1>4

(* Up to multiples of 511, w is twice v, and three doublings make it eight  *)
(* times                                                                    *)
TwiceModulo(v, w) == \E n \in Int : w = (2 * v) - (511 * n)
EightModulo(v, w) == \E n \in Int : w = (8 * v) - (511 * n)
SameModulo(v, w)  == \E n \in Int : w - v = 511 * n

LEMMA DoubledModulo ==
  ASSUME NEW v \in NineBits, NEW w \in NineBits, Doubled(v, w)
  PROVE  TwiceModulo(v, w)
<1>1. CASE v >= 256
  <2>1. w = (2 * v) - (511 * 1)
    BY <1>1 DEF Doubled
  <2> QED
    BY <2>1 DEF TwiceModulo
<1>2. CASE ~(v >= 256)
  <2>1. w = (2 * v) - (511 * 0)
    BY <1>2 DEF Doubled
  <2> QED
    BY <2>1 DEF TwiceModulo
<1> QED
  BY <1>1, <1>2

LEMMA ThreeModulo ==
  ASSUME NEW v0 \in NineBits, NEW v1 \in NineBits, NEW v2 \in NineBits, NEW v3 \in NineBits,
         TwiceModulo(v0, v1), TwiceModulo(v1, v2), TwiceModulo(v2, v3)
  PROVE  EightModulo(v0, v3)
<1>1. PICK i \in Int : v1 = (2 * v0) - (511 * i)
  BY DEF TwiceModulo
<1>2. PICK j \in Int : v2 = (2 * v1) - (511 * j)
  BY DEF TwiceModulo
<1>3. PICK k \in Int : v3 = (2 * v2) - (511 * k)
  BY DEF TwiceModulo
<1>4. v3 = (8 * v0) - (511 * ((4 * i) + (2 * j) + k)) /\ (4 * i) + (2 * j) + k \in Int
  BY <1>1, <1>2, <1>3 DEF NineBits
<1> QED
  BY <1>4 DEF EightModulo

(* Nine doublings multiply by 512, which is 1 modulo 511 *)
LEMMA NineModulo ==
  ASSUME NEW v0 \in NineBits, NEW v3 \in NineBits, NEW v6 \in NineBits, NEW v9 \in NineBits,
         EightModulo(v0, v3), EightModulo(v3, v6), EightModulo(v6, v9)
  PROVE  SameModulo(v0, v9)
<1>1. PICK i \in Int : v3 = (8 * v0) - (511 * i)
  BY DEF EightModulo
<1>2. PICK j \in Int : v6 = (8 * v3) - (511 * j)
  BY DEF EightModulo
<1>3. PICK k \in Int : v9 = (8 * v6) - (511 * k)
  BY DEF EightModulo
<1> DEFINE n == v0 - ((64 * i) + (8 * j) + k)
<1>4. v9 - v0 = 511 * n /\ n \in Int
  BY <1>1, <1>2, <1>3 DEF NineBits
<1> QED
  BY <1>4 DEF SameModulo

LEMMA ThreeDoublings ==
  ASSUME NEW v0 \in NineBits, NEW v1 \in NineBits, NEW v2 \in NineBits, NEW v3 \in NineBits,
         Doubled(v0, v1), Doubled(v1, v2), Doubled(v2, v3)
  PROVE  EightModulo(v0, v3)
<1>1. TwiceModulo(v0, v1) /\ TwiceModulo(v1, v2) /\ TwiceModulo(v2, v3)
  BY DoubledModulo
<1> QED
  BY <1>1, ThreeModulo

LEMMA MultipleOf511 ==
  ASSUME NEW v \in Int, v > 0, v < 511, NEW w \in Int, w >= 0, w <= 511,
         NEW n \in Int, w - v = 511 * n
  PROVE  w = v
OBVIOUS

LEMMA SameNineBits ==
  ASSUME NEW v \in NineBits, NEW w \in NineBits, SameModulo(v, w), v # 0, v # 511
  PROVE  w = v
<1>1. PICK n \in Int : w - v = 511 * n
  BY DEF SameModulo
<1>2. /\ v \in Int /\ v > 0 /\ v < 511
      /\ w \in Int /\ w >= 0 /\ w <= 511
  BY DEF NineBits
<1> QED
  BY <1>1, <1>2, MultipleOf511

(* The two that are equal modulo 511, all bits off and all on, stay put *)
Alike == {0, 511}

LEMMA AlikeStays ==
  ASSUME NEW u \in Alike, NEW w, Doubled(u, w)
  PROVE  w = u
BY DEF Alike, Doubled

LEMMA ThreeStay ==
  ASSUME NEW v0 \in Alike, NEW v1, NEW v2, NEW v3,
         Doubled(v0, v1), Doubled(v1, v2), Doubled(v2, v3)
  PROVE  v3 = v0
<1>1. v1 = v0
  BY AlikeStays
<1>2. v2 = v0
  BY <1>1, AlikeStays
<1> QED
  BY <1>2, AlikeStays

(* ... and so nine doublings bring nine bits back *)
LEMMA NineDoublings ==
  ASSUME NEW v, \A k \in 0 .. 9 : v[k] \in NineBits, \A k \in 0 .. 8 : Doubled(v[k], v[k + 1])
  PROVE  v[9] = v[0]
<1>0. /\ v[0] \in NineBits /\ v[1] \in NineBits /\ v[2] \in NineBits /\ v[3] \in NineBits
      /\ v[4] \in NineBits /\ v[5] \in NineBits /\ v[6] \in NineBits /\ v[7] \in NineBits
      /\ v[8] \in NineBits /\ v[9] \in NineBits
  OBVIOUS
<1>1. /\ Doubled(v[0], v[1]) /\ Doubled(v[1], v[2]) /\ Doubled(v[2], v[3])
      /\ Doubled(v[3], v[4]) /\ Doubled(v[4], v[5]) /\ Doubled(v[5], v[6])
      /\ Doubled(v[6], v[7]) /\ Doubled(v[7], v[8]) /\ Doubled(v[8], v[9])
  OBVIOUS
<1>2. ASSUME v[0] \in Alike
      PROVE  v[9] = v[0]
  <2>1. v[3] = v[0]
    BY <1>1, <1>2, ThreeStay
  <2>2. v[6] = v[0]
    BY <1>1, <1>2, <2>1, ThreeStay
  <2> QED
    BY <1>1, <1>2, <2>2, ThreeStay
<1>3. ASSUME v[0] \notin Alike
      PROVE  v[9] = v[0]
  <2>1. EightModulo(v[0], v[3])
    BY <1>0, <1>1, ThreeDoublings
  <2>2. EightModulo(v[3], v[6])
    BY <1>0, <1>1, ThreeDoublings
  <2>3. EightModulo(v[6], v[9])
    BY <1>0, <1>1, ThreeDoublings
  <2>4. SameModulo(v[0], v[9])
    BY <1>0, <2>1, <2>2, <2>3, NineModulo
  <2> QED
    BY <1>0, <1>3, <2>4, SameNineBits DEF Alike
<1> QED
  BY <1>2, <1>3

(* The registers the k-th step left: what the next one found, or the       *)
(* current ones                                                            *)
Leaves(k) == IF k < Taken THEN trail[k + 1] ELSE [a |-> a, m |-> m, f |-> f]

TurnedAt(k) ==
  Turned(trail[k].op, trail[k].a, trail[k].m, trail[k].f, Leaves(k).a, Leaves(k).m, Leaves(k).f)

TurnsInv ==
  /\ TypesInv
  /\ \A k \in 1 .. Taken : TurnedAt(k)

LEMMA TurnsKept ==
  ASSUME TurnsInv, [ArithmeticNext]_avars
  PROVE  TurnsInv'
<1>1. CASE ArithmeticNext
  <2>1. PICK ins \in STRING \X Words :
          /\ Did(ins[1], ins[2]) /\ TypesInv' /\ Taken \in Nat
          /\ Taken' = Taken + 1 /\ Last' = Found(ins)
          /\ \A k \in 1 .. Taken : trail'[k] = trail[k]
    BY <1>1, StepFound DEF TurnsInv
  <2>2. /\ TypesInv' /\ Taken \in Nat /\ Taken' = Taken + 1
        /\ trail'[Taken + 1] = Found(ins)
    BY <2>1 DEF Last
  <2>3. ASSUME NEW k \in 1 .. Taken
        PROVE  TurnedAt(k)'
    <3>1. trail'[k] = trail[k] /\ TurnedAt(k) /\ k < Taken'
      BY <2>1, <2>2 DEF TurnsInv
    <3>2. Leaves(k)' = trail'[k + 1]
      BY <3>1 DEF Leaves
    <3>3. CASE k < Taken
      <4>1. Leaves(k)' = Leaves(k)
        BY <2>1, <2>2, <3>2, <3>3 DEF Leaves
      <4> QED
        BY <3>1, <4>1, Zenon DEF TurnedAt
    <3>4. CASE k = Taken
      <4>1. /\ Leaves(k)'.a = Leaves(k).a /\ Leaves(k)'.m = Leaves(k).m /\ Leaves(k)'.f = Leaves(k).f
        BY <2>2, <3>2, <3>4 DEF Leaves, Found
      <4> QED
        BY <3>1, <4>1, Zenon DEF TurnedAt
    <3> QED
      BY <2>2, <3>3, <3>4
  <2>4. ASSUME NEW k, k = Taken + 1
        PROVE  TurnedAt(k)'
    <3>1. a \in Bytes
      BY DEF TurnsInv, TypesInv
    <3>2. Turned(ins[1], a, m, f, a', m', f')
      BY <2>1, <3>1, TurnedByStep
    <3>3. /\ trail'[k].op = ins[1] /\ trail'[k].a = a /\ trail'[k].m = m /\ trail'[k].f = f
      BY <2>2, <2>4 DEF Found
    <3>4. Leaves(k)'.a = a' /\ Leaves(k)'.m = m' /\ Leaves(k)'.f = f'
      BY <2>2, <2>4 DEF Leaves
    <3> QED
      BY <3>2, <3>3, <3>4, Zenon DEF TurnedAt
  <2>5. ASSUME NEW k \in 1 .. Taken'
        PROVE  k \in 1 .. Taken \/ k = Taken + 1
    BY <2>2
  <2> QED
    BY <2>2, <2>3, <2>4, <2>5 DEF TurnsInv
<1>2. CASE UNCHANGED avars
  <2>1. trail' = trail /\ Taken' = Taken /\ a' = a /\ m' = m /\ f' = f
    BY <1>2 DEF avars, Taken
  <2>2. \A k : TurnedAt(k)' <=> TurnedAt(k)
    BY <2>1 DEF TurnedAt, Leaves
  <2> QED
    BY <1>2, <2>1, <2>2, TypesKept DEF TurnsInv
<1> QED
  BY <1>1, <1>2

LEMMA TurnsHold == ArithmeticSpec => []TurnsInv
<1>1. ArithmeticInit => TurnsInv
  BY TypesAtFirst, NoneTaken DEF TurnsInv
<1> QED
  BY <1>1, TurnsKept, PTL DEF ArithmeticSpec

LEMMA PairsUndone ==
  ASSUME TurnsInv, Taken >= 2, Before.op \in DOMAIN Undoes, Last.op = Undoes[Before.op]
  PROVE  /\ a = Before.a /\ m = Before.m
         /\ Before.op \in {"RL", "RR", "RLA", "RRA"} => ("C" \in f <=> "C" \in Before.f)
<1>1. Taken \in Nat /\ Before \in Records /\ Last \in Records
  BY DEF TurnsInv, TypesInv, Taken, Before, Last
<1>2. TurnedAt(Taken - 1) /\ TurnedAt(Taken)
  BY <1>1 DEF TurnsInv
<1>3. Leaves(Taken - 1) = Last /\ Leaves(Taken) = [a |-> a, m |-> m, f |-> f]
  BY <1>1 DEF Leaves, Last
<1>4. /\ Turned(Before.op, Before.a, Before.m, Before.f, Last.a, Last.m, Last.f)
      /\ Turned(Last.op, Last.a, Last.m, Last.f, a, m, f)
  BY <1>2, <1>3 DEF TurnedAt, Before, Last
<1>5. Before.a \in Bytes /\ Before.m \in Bytes /\ Last.a \in Bytes
  BY <1>1 DEF Records
<1>6. CameBack(Before.op, Before.a, Before.m, Before.f, a, m, f)
  BY <1>4, <1>5, TurnedBack
<1> QED
  BY <1>6 DEF CameBack, Through

LEMMA TrailOfBytes ==
  ASSUME TypesInv
  PROVE  \A k \in 1 .. Taken : trail[k].a \in Bytes
<1>1. trail \in Seq(Records)
  BY DEF TypesInv
<1>2. ASSUME NEW k \in 1 .. Taken
      PROVE  trail[k].a \in Bytes
  <2>1. trail[k] \in Records
    BY <1>1, <1>2 DEF Taken
  <2> QED
    BY <2>1 DEF Records
<1> QED
  BY <1>2

(* Nine bits are C and a byte in one way only *)
LEMMA CarryAndByte ==
  ASSUME NEW c \in 0 .. 1, NEW d \in 0 .. 1, NEW x \in 0 .. 255, NEW y \in 0 .. 255,
         (256 * c) + x = (256 * d) + y
  PROVE  x = y /\ c = d
OBVIOUS

LEMMA NineUndone ==
  ASSUME TurnsInv, Taken = 9, NEW op \in {"RL", "RR"}, \A k \in 1 .. 9 : trail[k].op = op
  PROVE  a = trail[1].a /\ ("C" \in f <=> "C" \in trail[1].f)
<1> DEFINE now == [a |-> a, m |-> m, f |-> f]
           at(k) == IF k < 9 THEN trail[k + 1] ELSE now
           v == [k \in 0 .. 9 |-> Nine(at(k).a, at(k).f)]
           w == [k \in 0 .. 9 |-> v[9 - k]]
<1>1. ASSUME NEW k \in 0 .. 9
      PROVE  at(k).a \in Bytes
  <2>1. trail \in Seq(Records) /\ Len(trail) = 9 /\ a \in Bytes
    BY DEF TurnsInv, TypesInv, Taken
  <2>2. CASE k < 9
    <3>1. k + 1 \in 1 .. Len(trail)
      BY <1>1, <2>1, <2>2
    <3>2. k + 1 \in 1 .. Taken
      BY <3>1 DEF Taken
    <3>3. trail[k + 1].a \in Bytes
      BY <3>2, TrailOfBytes DEF TurnsInv
    <3> QED
      BY <2>2, <3>3
  <2>3. CASE ~(k < 9)
    BY <2>1, <2>3
  <2> QED
    BY <2>2, <2>3
<1>2. ASSUME NEW k \in 0 .. 8
      PROVE  /\ v[k] \in NineBits
             /\ op = "RL" => Doubled(v[k], v[k + 1])
             /\ op = "RR" => Doubled(v[k + 1], v[k])
  <2>1. k + 1 \in 1 .. Taken /\ k + 1 \in 0 .. 9 /\ k \in 0 .. 9 /\ at(k) = trail[k + 1]
    BY <1>2
  <2>2. TurnedAt(k + 1) /\ Leaves(k + 1) = at(k + 1) /\ trail[k + 1].op = op
    BY <1>2, <2>1 DEF TurnsInv, Leaves
  <2> DEFINE x == at(k)  z == at(k + 1)
  <2>3. Turned(op, x.a, x.m, x.f, z.a, z.m, z.f) /\ x.a \in Bytes /\ z.a \in Bytes
    BY <1>1, <2>1, <2>2 DEF TurnedAt
  <2>4. v[k] = Nine(x.a, x.f) /\ v[k + 1] = Nine(z.a, z.f)
    BY <2>1
  <2> HIDE DEF x, z, v
  <2> QED
    BY <2>3, <2>4, NineAsOne
<1>3. v[9] \in NineBits
  <2>1. v[9] = Nine(a, f) /\ a \in 0 .. 255 /\ Carry(f) \in {0, 1}
    BY CarryIsBit DEF TurnsInv, TypesInv, Bytes
  <2> QED
    BY <2>1 DEF Nine, NineBits
<1>4. v[9] = v[0]
  <2>1. CASE op = "RL"
    <3> HIDE DEF v
    <3> QED
      BY <1>2, <1>3, <2>1, NineDoublings
  <2>2. CASE op = "RR"
    <3>1. \A k \in 0 .. 9 : w[k] = v[9 - k]
      OBVIOUS
    <3> HIDE DEF v, w
    <3>2. \A k \in 0 .. 9 : w[k] \in NineBits
      BY <1>2, <1>3, <3>1
    <3>3. ASSUME NEW k \in 0 .. 8
          PROVE  Doubled(w[k], w[k + 1])
      <4> DEFINE j == 8 - k
      <4>1. j \in 0 .. 8 /\ w[k + 1] = v[j] /\ w[k] = v[j + 1]
        BY <3>1, <3>3
      <4> HIDE DEF j
      <4> QED
        BY <1>2, <2>2, <4>1
    <3>4. w[9] = w[0]
      BY <3>2, <3>3, NineDoublings
    <3> QED
      BY <3>1, <3>4
  <2> QED
    BY <2>1, <2>2
<1>5. v[0] = Nine(trail[1].a, trail[1].f) /\ v[9] = Nine(a, f)
  OBVIOUS
<1> DEFINE x == trail[1].a  fl == trail[1].f
<1>6. x \in 0 .. 255 /\ a \in 0 .. 255
  <2>1. 0 \in 0 .. 9 /\ at(0) = trail[1]
    OBVIOUS
  <2> QED
    BY <1>1, <2>1 DEF Bytes, TurnsInv, TypesInv
<1> HIDE DEF v, x, fl
<1>7. (256 * Carry(fl)) + x = (256 * Carry(f)) + a
  BY <1>4, <1>5 DEF Nine, x, fl
<1> DEFINE c == Carry(fl)  d == Carry(f)
<1>8. c \in 0 .. 1 /\ d \in 0 .. 1
  <2>1. c \in {0, 1} /\ d \in {0, 1}
    BY CarryIsBit
  <2> QED
    BY <2>1
<1> HIDE DEF c, d
<1>9. x = a /\ c = d
  <2>1. (256 * c) + x = (256 * d) + a
    BY <1>7 DEF c, d
  <2> QED
    BY <1>6, <1>8, <2>1, CarryAndByte
<1> QED
  BY <1>9 DEF Carry, x, fl, c, d

(* A rotate and its opposite give A and (HL) back, and C too when it goes  *)
(* round with them; nine through C in one direction do as well: RotApply,  *)
(* RotAccumulator, RRD and RLD, on every byte and every F                  *)
THEOREM RotatesComeRound == ArithmeticSpec => []RotationsUndone
<1>1. TurnsInv => RotationsUndone
  BY PairsUndone, NineUndone, Zenon DEF RotationsUndone
<1> QED
  BY <1>1, TurnsHold, PTL

-----------------------------------------------------------------------------
(* Decimal arithmetic, digit by digit *)

(* u are the digits of n modulo 100 *)
DigitsOf(u, n) ==
  /\ u \in 0 .. 255 /\ u % 16 <= 9 /\ u \div 16 <= 9
  /\ (10 * (u \div 16)) + (u % 16) = n % 100

LEMMA DigitsMake ==
  ASSUME NEW dh \in 0 .. 9, NEW dl \in 0 .. 9, NEW n \in Int, n % 100 = (10 * dh) + dl,
         NEW u, u = (16 * dh) + dl
  PROVE  DigitsOf(u, n)
<1>1. u \in 0 .. 255 /\ u % 16 = dl /\ u \div 16 = dh
  OBVIOUS
<1> QED
  BY <1>1 DEF DigitsOf

(* Whether there was a carry or a borrow, and what is left *)
AddsTo(u, n, w, z)    == DigitsOf(u, n) /\ (w > 255 \/ z > 153 <=> n > 99)
ComesDown(u, n, w, z) == DigitsOf(u, n) /\ (w < 0 \/ z > 153 <=> n < 0)

(* The sum w of two decimal bytes, z what is left of it in a byte, and     *)
(* DAA's two corrections, t and then u                                     *)
SumOfDigits(xh, xl, yh, yl, c, w, z, t, u, n) ==
  /\ xh \in 0 .. 9 /\ xl \in 0 .. 9 /\ yh \in 0 .. 9 /\ yl \in 0 .. 9 /\ c \in {0, 1}
  /\ w = (16 * xh) + xl + (16 * yh) + yl + c
  /\ z = w % 256
  /\ n = (10 * xh) + xl + (10 * yh) + yl + c
  /\ t = IF w > 255 \/ z > 153 THEN (z + 96) % 256 ELSE z
  /\ u = IF xl + yl + c > 15 \/ t % 16 > 9 THEN (t + 6) % 256 ELSE t

LEMMA SumAdjusted ==
  ASSUME NEW xh, NEW xl, NEW yh, NEW yl, NEW c, NEW w, NEW z, NEW t, NEW u, NEW n,
         SumOfDigits(xh, xl, yh, yl, c, w, z, t, u, n)
  PROVE  AddsTo(u, n, w, z)
<1> DEFINE lo == xl + yl + c
           k == IF lo > 9 THEN 1 ELSE 0
           hi == xh + yh + k
           o == IF hi > 9 THEN 1 ELSE 0
           dl == lo - (10 * k)
           dh == hi - (10 * o)
<1>1. dl \in 0 .. 9 /\ dh \in 0 .. 9 /\ n % 100 = (10 * dh) + dl /\ n \in Int
  BY SMTT(60) DEF SumOfDigits
<1>2. w \in Int /\ (w > 255 \/ z > 153 <=> hi > 9)
  BY SMTT(60) DEF SumOfDigits
<1>3. t % 16 = lo % 16
  BY SMTT(60) DEF SumOfDigits
<1>4. u = (16 * dh) + dl
  BY SMTT(100) DEF SumOfDigits
<1>5. n > 99 <=> hi > 9
  BY SMTT(60) DEF SumOfDigits
<1> HIDE DEF dl, dh
<1>6. DigitsOf(u, n)
  BY <1>1, <1>4, DigitsMake
<1> QED
  BY <1>2, <1>5, <1>6 DEF AddsTo

DifferenceOfDigits(xh, xl, yh, yl, c, w, z, t, u, n) ==
  /\ xh \in 0 .. 9 /\ xl \in 0 .. 9 /\ yh \in 0 .. 9 /\ yl \in 0 .. 9 /\ c \in {0, 1}
  /\ w = ((16 * xh) + xl) - ((16 * yh) + yl + c)
  /\ z = w % 256
  /\ n = ((10 * xh) + xl) - ((10 * yh) + yl + c)
  /\ t = IF w < 0 \/ z > 153 THEN (z - 96) % 256 ELSE z
  /\ u = IF xl - (yl + c) < 0 \/ t % 16 > 9 THEN (t - 6) % 256 ELSE t

LEMMA DifferenceAdjusted ==
  ASSUME NEW xh, NEW xl, NEW yh, NEW yl, NEW c, NEW w, NEW z, NEW t, NEW u, NEW n,
         DifferenceOfDigits(xh, xl, yh, yl, c, w, z, t, u, n)
  PROVE  ComesDown(u, n, w, z)
<1> DEFINE lo == xl - (yl + c)
           k == IF lo < 0 THEN 1 ELSE 0
           hi == xh - (yh + k)
           o == IF hi < 0 THEN 1 ELSE 0
           dl == lo + (10 * k)
           dh == hi + (10 * o)
<1>1. dl \in 0 .. 9 /\ dh \in 0 .. 9 /\ n % 100 = (10 * dh) + dl /\ n \in Int
  BY SMTT(60) DEF DifferenceOfDigits
<1>2. w \in Int /\ (w < 0 \/ z > 153 <=> hi < 0)
  BY SMTT(60) DEF DifferenceOfDigits
<1>3. t % 16 = lo % 16
  BY SMTT(60) DEF DifferenceOfDigits
<1>4. u = (16 * dh) + dl
  BY SMTT(100) DEF DifferenceOfDigits
<1>5. n < 0 <=> hi < 0
  BY SMTT(60) DEF DifferenceOfDigits
<1> HIDE DEF dl, dh
<1>6. DigitsOf(u, n)
  BY <1>1, <1>4, DigitsMake
<1> QED
  BY <1>2, <1>5, <1>6 DEF ComesDown

(* DecimalChains of one operation and the DAA after it *)
DecimalTold(op, x, y, fl, r, g) ==
  LET c     == IF op \in {"ADC", "SBC"} THEN Carry(fl) ELSE 0
      exact == IF op \in {"ADD", "ADC"} THEN Decimal(x) + Decimal(y) + c
                                        ELSE Decimal(x) - Decimal(y) - c
  IN /\ IsDecimal(r) /\ Decimal(r) = exact % 100
     /\ "C" \in g <=> exact \notin 0 .. 99

(* DAA by what the flags say: borrows as in Sub, over and half a carry or  *)
(* borrow out of the byte and of the low digit                             *)
AdjustedBy(x, borrows, over, half) ==
  LET sign == IF borrows THEN -1 ELSE 1
      tens == IF over THEN (x + 96 * sign) % 256 ELSE x
  IN IF half \/ tens % 16 > 9 THEN (tens + 6 * sign) % 256 ELSE tens

DaaSays(x, fl, result) ==
  LET over == "C" \in fl \/ x > 153
  IN /\ result.r = AdjustedBy(x, "N" \in fl, over, "H" \in fl)
     /\ "C" \in result.f <=> over

LEMMA DaaAdjusts == \A x, fl : DaaSays(x, fl, DecimalAdjust(x, fl))
<1> SUFFICES ASSUME NEW x, NEW fl
             PROVE  DaaSays(x, fl, DecimalAdjust(x, fl))
  OBVIOUS
<1> DEFINE over == "C" \in fl \/ x > 153
           r    == AdjustedBy(x, "N" \in fl, over, "H" \in fl)
           half == Bit(r, 16) # Bit(x, 16)
           g    == SZXYP(r) \cup On(half, "H") \cup (fl \cap {"N"}) \cup On(over, "C")
<1>1. DecimalAdjust(x, fl) = [r |-> r, f |-> g]
  BY DEF DecimalAdjust, AdjustedBy
<1>2. "C" \notin SZXYP(r)
  BY SzxypTells
<1> HIDE DEF over, r, half
<1>3. "C" \in g <=> over
  BY <1>2 DEF On
<1> HIDE DEF g
<1>4. DecimalAdjust(x, fl).r = r /\ ("C" \in DecimalAdjust(x, fl).f <=> over)
  BY <1>1, <1>3
<1> QED
  BY <1>4, Zenon DEF DaaSays, r, over

LEMMA DecimalPlaces ==
  ASSUME NEW x \in Words, IsDecimal(x)
  PROVE  /\ x \div 16 \in 0 .. 9 /\ x % 16 \in 0 .. 9
         /\ x = (16 * (x \div 16)) + (x % 16) /\ x \in Bytes
<1>1. x \in Int /\ x >= 0
  BY WordsAre
<1> QED
  BY <1>1 DEF IsDecimal, Bytes

(* DAA leaves n modulo 100, and whether it was in range *)
DaaMakes(r, g, n) ==
  /\ DigitsOf(DecimalAdjust(r, g).r, n)
  /\ "C" \in DecimalAdjust(r, g).f <=> n \notin 0 .. 99

(* A byte and its flags after an addition, and after a subtraction *)
Summed(x, y, c, r, g) ==
  /\ r = (x + y + c) % 256 /\ "N" \notin g
  /\ "H" \in g <=> (x % 16) + (y % 16) + c > 15
  /\ "C" \in g <=> x + y + c > 255

TakenFrom(x, y, c, r, g) ==
  /\ r = (x - (y + c)) % 256 /\ "N" \in g
  /\ "H" \in g <=> (x % 16) - ((y % 16) + c) < 0
  /\ "C" \in g <=> x - (y + c) < 0

LEMMA DecimalOfSum ==
  ASSUME NEW x \in Words, NEW y \in Words, IsDecimal(x), IsDecimal(y), NEW c \in {0, 1},
         NEW r, NEW g, Summed(x, y, c, r, g)
  PROVE  DaaMakes(r, g, Decimal(x) + Decimal(y) + c)
<1> DEFINE xh == x \div 16  xl == x % 16  yh == y \div 16  yl == y % 16
           w == x + y + c
           n == Decimal(x) + Decimal(y) + c
           over == "C" \in g \/ r > 153
           tens == IF over THEN (r + 96) % 256 ELSE r
           u == IF "H" \in g \/ tens % 16 > 9 THEN (tens + 6) % 256 ELSE tens
<1>1. /\ xh \in 0 .. 9 /\ xl \in 0 .. 9 /\ yh \in 0 .. 9 /\ yl \in 0 .. 9
      /\ x = (16 * xh) + xl /\ y = (16 * yh) + yl
  BY DecimalPlaces
<1>2. n = (10 * xh) + xl + ((10 * yh) + yl) + c
  BY DEF Decimal
<1>3. DecimalAdjust(r, g).r = u /\ ("C" \in DecimalAdjust(r, g).f <=> over)
  <2>0. r + (96 * 1) = r + 96 /\ tens + (6 * 1) = tens + 6
    <3>1. x \in Int /\ y \in Int
      BY WordsAre
    <3>2. r \in Int
      BY <3>1 DEF Summed
    <3>3. tens \in Int
      BY <3>2
    <3> QED
      BY <3>2, <3>3
  <2>1. DaaSays(r, g, DecimalAdjust(r, g))
    BY DaaAdjusts
  <2> QED
    BY <2>0, <2>1 DEF DaaSays, AdjustedBy, Summed
<1>4. /\ over <=> w > 255 \/ r > 153
      /\ "H" \in g <=> xl + yl + c > 15
  BY DEF Summed
<1>5. /\ w = (16 * xh) + xl + (16 * yh) + yl + c
      /\ n = (10 * xh) + xl + (10 * yh) + yl + c
      /\ r = w % 256
      /\ tens = IF w > 255 \/ r > 153 THEN (r + 96) % 256 ELSE r
      /\ u = IF xl + yl + c > 15 \/ tens % 16 > 9 THEN (tens + 6) % 256 ELSE tens
  <2>1. w = (16 * xh) + xl + (16 * yh) + yl + c
    <3> HIDE DEF xh, xl, yh, yl
    <3> QED
      BY <1>1
  <2>2. n = (10 * xh) + xl + (10 * yh) + yl + c
    <3> HIDE DEF xh, xl, yh, yl, n
    <3> QED
      BY <1>1, <1>2
  <2> QED
    BY <1>4, <2>1, <2>2 DEF Summed
<1> HIDE DEF xh, xl, yh, yl, w, n, over, tens, u
<1>6. AddsTo(u, n, w, r)
  <2>1. SumOfDigits(xh, xl, yh, yl, c, w, r, tens, u, n)
    BY <1>1, <1>5, Zenon DEF SumOfDigits
  <2> QED
    BY <2>1, SumAdjusted
<1>7. n > 99 <=> n \notin 0 .. 99
  BY <1>1, <1>2
<1>8. DaaMakes(r, g, n)
  BY <1>3, <1>4, <1>6, <1>7 DEF AddsTo, DaaMakes
<1> QED
  BY <1>8 DEF n

LEMMA DecimalOfDifference ==
  ASSUME NEW x \in Words, NEW y \in Words, IsDecimal(x), IsDecimal(y), NEW c \in {0, 1},
         NEW r, NEW g, TakenFrom(x, y, c, r, g)
  PROVE  DaaMakes(r, g, Decimal(x) - (Decimal(y) + c))
<1> DEFINE xh == x \div 16  xl == x % 16  yh == y \div 16  yl == y % 16
           w == x - (y + c)
           n == Decimal(x) - (Decimal(y) + c)
           over == "C" \in g \/ r > 153
           tens == IF over THEN (r - 96) % 256 ELSE r
           u == IF "H" \in g \/ tens % 16 > 9 THEN (tens - 6) % 256 ELSE tens
<1>1. /\ xh \in 0 .. 9 /\ xl \in 0 .. 9 /\ yh \in 0 .. 9 /\ yl \in 0 .. 9
      /\ x = (16 * xh) + xl /\ y = (16 * yh) + yl
  BY DecimalPlaces
<1>2. n = ((10 * xh) + xl) - (((10 * yh) + yl) + c)
  BY DEF Decimal
<1>3. DecimalAdjust(r, g).r = u /\ ("C" \in DecimalAdjust(r, g).f <=> over)
  <2>0. r + (96 * (-1)) = r - 96 /\ tens + (6 * (-1)) = tens - 6
    <3>1. x \in Int /\ y \in Int
      BY WordsAre
    <3>2. r \in Int
      BY <3>1 DEF TakenFrom
    <3>3. tens \in Int
      BY <3>2
    <3> QED
      BY <3>2, <3>3
  <2>1. DaaSays(r, g, DecimalAdjust(r, g))
    BY DaaAdjusts
  <2> QED
    BY <2>0, <2>1 DEF DaaSays, AdjustedBy, TakenFrom
<1>4. /\ over <=> w < 0 \/ r > 153
      /\ "H" \in g <=> xl - (yl + c) < 0
  BY DEF TakenFrom
<1>5. /\ w = ((16 * xh) + xl) - ((16 * yh) + yl + c)
      /\ n = ((10 * xh) + xl) - ((10 * yh) + yl + c)
      /\ r = w % 256
      /\ tens = IF w < 0 \/ r > 153 THEN (r - 96) % 256 ELSE r
      /\ u = IF xl - (yl + c) < 0 \/ tens % 16 > 9 THEN (tens - 6) % 256 ELSE tens
  <2>1. w = ((16 * xh) + xl) - ((16 * yh) + yl + c)
    <3> HIDE DEF xh, xl, yh, yl
    <3> QED
      BY <1>1
  <2>2. n = ((10 * xh) + xl) - ((10 * yh) + yl + c)
    <3> HIDE DEF xh, xl, yh, yl, n
    <3> QED
      BY <1>1, <1>2
  <2> QED
    BY <1>4, <2>1, <2>2 DEF TakenFrom
<1> HIDE DEF xh, xl, yh, yl, w, n, over, tens, u
<1>6. ComesDown(u, n, w, r)
  <2>1. DifferenceOfDigits(xh, xl, yh, yl, c, w, r, tens, u, n)
    BY <1>1, <1>5, Zenon DEF DifferenceOfDigits
  <2> QED
    BY <2>1, DifferenceAdjusted
<1>7. n < 0 <=> n \notin 0 .. 99
  BY <1>1, <1>2
<1>8. DaaMakes(r, g, n)
  BY <1>3, <1>4, <1>6, <1>7 DEF ComesDown, DaaMakes
<1> QED
  BY <1>8 DEF n

LEMMA DecimalOfStep ==
  ASSUME NEW op \in {"ADD", "ADC", "SUB", "SBC"}, NEW x \in Words, NEW y \in Words,
         IsDecimal(x), IsDecimal(y), NEW fl, NEW r, NEW g, RangesTold(op, x, y, fl, r, g)
  PROVE  DecimalTold(op, x, y, fl, DecimalAdjust(r, g).r, DecimalAdjust(r, g).f)
<1> DEFINE c == IF op \in {"ADC", "SBC"} THEN Carry(fl) ELSE 0
           n == IF op \in {"ADD", "ADC"} THEN Decimal(x) + Decimal(y) + c
                                         ELSE Decimal(x) - (Decimal(y) + c)
<1>0. /\ c \in {0, 1} /\ x \in 0 .. 255 /\ y \in 0 .. 255
      /\ Decimal(x) \in 0 .. 99 /\ Decimal(y) \in 0 .. 99
  <2>1. c \in {0, 1}
    BY CarryIsBit
  <2>2. /\ x \div 16 \in 0 .. 9 /\ x % 16 \in 0 .. 9 /\ y \div 16 \in 0 .. 9 /\ y % 16 \in 0 .. 9
        /\ x \in Bytes /\ y \in Bytes
    BY DecimalPlaces
  <2> QED
    BY <2>1, <2>2 DEF Bytes, Decimal
<1>1. ASSUME op \in {"ADD", "ADC"}
      PROVE  DaaMakes(r, g, n)
  <2>1. /\ r = (x + (1 * (y + c))) % 256
        /\ Tells(g, x + (1 * (y + c)), (x % 16) + (1 * ((y % 16) + c)),
                 Signed(x) + (1 * (Signed(y) + c)), TRUE, r)
        /\ "C" \in g <=> x + (1 * (y + c)) \notin 0 .. 255
    BY <1>1 DEF RangesTold, Tells
  <2> HIDE DEF c
  <2>2. Summed(x, y, c, r, g)
    BY <1>0, <2>1 DEF Tells, Summed
  <2>3. DaaMakes(r, g, Decimal(x) + Decimal(y) + c)
    BY <1>0, <2>2, DecimalOfSum
  <2> HIDE DEF n
  <2>4. n = Decimal(x) + Decimal(y) + c
    BY <1>1 DEF n
  <2> QED
    BY <2>3, <2>4
<1>2. ASSUME op \in {"SUB", "SBC"}
      PROVE  DaaMakes(r, g, n)
  <2>1. /\ r = (x + (-1) * (y + c)) % 256
        /\ Tells(g, x + (-1) * (y + c), (x % 16) + (-1) * ((y % 16) + c),
                 Signed(x) + (-1) * (Signed(y) + c), FALSE, r)
        /\ "C" \in g <=> x + (-1) * (y + c) \notin 0 .. 255
    BY <1>2 DEF RangesTold, Tells
  <2> HIDE DEF c
  <2>2. TakenFrom(x, y, c, r, g)
    BY <1>0, <2>1 DEF Tells, TakenFrom
  <2>3. DaaMakes(r, g, Decimal(x) - (Decimal(y) + c))
    BY <1>0, <2>2, DecimalOfDifference
  <2> HIDE DEF n
  <2>4. n = Decimal(x) - (Decimal(y) + c)
    BY <1>2 DEF n
  <2> QED
    BY <2>3, <2>4
<1>3. DaaMakes(r, g, n)
  BY <1>1, <1>2
<1> DEFINE r2 == DecimalAdjust(r, g).r  g2 == DecimalAdjust(r, g).f
           exact == IF op \in {"ADD", "ADC"} THEN Decimal(x) + Decimal(y) + c
                                             ELSE Decimal(x) - Decimal(y) - c
<1>4. exact = n
  <2> DEFINE p == Decimal(x)  s == Decimal(y)
  <2>1. p \in Int /\ s \in Int
    BY <1>0
  <2> HIDE DEF p, s, c
  <2>2. exact = n
    BY <1>0, <2>1
  <2> QED
    BY <2>2
<1> HIDE DEF n, r2, g2
<1>5. IsDecimal(r2) /\ Decimal(r2) = n % 100 /\ ("C" \in g2 <=> n \notin 0 .. 99)
  BY <1>3 DEF DaaMakes, DigitsOf, IsDecimal, Decimal, r2, g2
<1>6. IsDecimal(r2) /\ Decimal(r2) = exact % 100 /\ ("C" \in g2 <=> exact \notin 0 .. 99)
  <2> HIDE DEF exact
  <2> QED
    BY <1>4, <1>5
<1> QED
  BY <1>6, Zenon DEF DecimalTold, r2, g2

LEMMA DecimalProperty ==
  DecimalChains <=>
    ((/\ Taken >= 2 /\ Last.op = "DAA" /\ Before.op \in {"ADD", "ADC", "SUB", "SBC"}
      /\ IsDecimal(Before.a) /\ IsDecimal(Before.y))
     => DecimalTold(Before.op, Before.a, Before.y, Before.f, a, f))
BY DEF DecimalChains, DecimalTold

LEMMA DecimalKept ==
  ASSUME TypesInv, FlagsTellRanges, DecimalChains, [ArithmeticNext]_avars
  PROVE  DecimalChains'
<1>0. DecimalChains' <=>
        ((/\ Taken' >= 2 /\ Last'.op = "DAA" /\ Before'.op \in {"ADD", "ADC", "SUB", "SBC"}
          /\ IsDecimal(Before'.a) /\ IsDecimal(Before'.y))
         => DecimalTold(Before'.op, Before'.a, Before'.y, Before'.f, a', f'))
  BY DEF DecimalChains, DecimalTold
<1>1. CASE ArithmeticNext
  <2>1. PICK ins \in STRING \X Words :
          /\ Did(ins[1], ins[2]) /\ Taken \in Nat /\ Taken' = Taken + 1 /\ Last' = Found(ins)
          /\ Taken > 0 => Before' = Last
    BY <1>1, StepFound
  <2> SUFFICES ASSUME Taken' >= 2, Last'.op = "DAA", Before'.op \in {"ADD", "ADC", "SUB", "SBC"},
                      IsDecimal(Before'.a), IsDecimal(Before'.y)
               PROVE  DecimalTold(Before'.op, Before'.a, Before'.y, Before'.f, a', f')
    BY <1>0
  <2>2. Taken > 0 /\ Taken \in Nat
    <3>1. Taken \in Nat /\ Taken' = Taken + 1
      BY <2>1
    <3> QED
      BY <3>1
  <2>3. Before' = Last
    BY <2>1, <2>2
  <2>4. ins[1] = "DAA"
    BY <2>1 DEF Found
  <2>5. a' = DecimalAdjust(a, f).r /\ f' = DecimalAdjust(a, f).f
    BY <2>1, <2>4, Zenon DEF Did, OntoA
  <2>6. Last \in Records
    BY <2>2 DEF TypesInv, Last, Taken
  <2>7. Last.a \in Words /\ Last.y \in Words
    <3>1. Last.a \in Bytes /\ Last.y \in Words
      BY <2>6 DEF Records
    <3> QED
      BY <3>1, WordsAre DEF Bytes
  <2>8. RangesTold(Last.op, Last.a, Last.y, Last.f, a, f)
    BY <2>2, <2>3, RangesProperty DEF RangeOps
  <2> QED
    BY <2>3, <2>5, <2>7, <2>8, DecimalOfStep
<1>2. CASE UNCHANGED avars
  <2>1. Taken' = Taken /\ Last' = Last /\ Before' = Before /\ a' = a /\ f' = f
    BY <1>2 DEF avars, Taken, Last, Before
  <2> QED
    BY <1>0, <2>1, DecimalProperty
<1> QED
  BY <1>1, <1>2

(* An addition or subtraction of decimal bytes and the DAA after it leave  *)
(* the decimal result in A and the decimal carry or borrow in C: _add,     *)
(* _sub and DAA together, for every pair of decimal bytes and either carry *)
THEOREM DecimalsChain == ArithmeticSpec => []DecimalChains
<1>1. ArithmeticInit => DecimalChains
  BY NoneTaken, Zenon DEF DecimalChains
<1> QED
  BY <1>1, DecimalKept, TypesHold, FlagsTellTheRanges, PTL DEF ArithmeticSpec

=============================================================================
