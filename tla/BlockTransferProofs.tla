------------------------ MODULE BlockTransferProofs ------------------------
(***************************************************************************)
(* The block instructions do what they are asked for: theorems for every   *)
(* radix, memory, accumulator, device and number of interrupts, at every   *)
(* site.  Registers are followed through their arithmetic modulo Size: a   *)
(* register after `done` bytes is Place(its start, done), and two places   *)
(* of one walk are different as long as the walk is shorter than memory.   *)
(***************************************************************************)
EXTENDS BlockTransfer, Remainders, TLAPS

-----------------------------------------------------------------------------
(* Addresses, their bytes, and places of a walk                            *)

LEMMA SizeFacts ==
  /\ ByteRadix \in Nat \ {0} /\ Size \in Nat \ {0}
  /\ Size >= 4 /\ Size >= ByteRadix /\ Addr = 0 .. Size - 1
<1>1. ByteRadix \in Nat /\ ByteRadix >= 2
  BY BlockAssumption
<1>2. ByteRadix * ByteRadix >= 2 * ByteRadix
  BY <1>1
<1> QED
  BY <1>1, <1>2 DEF Size, Addr

LEMMA PairOfBytes ==
  ASSUME NEW hi \in 0 .. ByteRadix - 1, NEW lo \in 0 .. ByteRadix - 1
  PROVE  /\ hi * ByteRadix + lo \in Addr
         /\ B(hi * ByteRadix + lo) = hi
         /\ C(hi * ByteRadix + lo) = lo
<1> DEFINE n == ByteRadix
           pair == hi * n + lo
<1>1. n \in Nat \ {0}
  BY SizeFacts
<1>2. hi * n \in Nat /\ hi * n = n * hi
  BY <1>1
<1>3. hi * n <= (n - 1) * n
  BY <1>1
<1>4. (n - 1) * n = n * n - n
  BY <1>1
<1>5. pair \in 0 .. n * n - 1
  BY <1>1, <1>2, <1>3, <1>4
<1>6. pair \div n \in Int /\ pair = n * (pair \div n) + (pair % n)
  BY <1>1, <1>5, DivMod
<1>7. pair % n \in 0 .. n - 1
  BY <1>1, <1>5, ModRange
<1>8. n * hi + lo = n * (pair \div n) + (pair % n)
  BY <1>2, <1>6
<1> HIDE DEF n, pair
<1>9. pair \div n = hi /\ pair % n = lo
  <2> DEFINE q == pair \div n
             r == pair % n
  <2>1. q \in Int /\ r \in 0 .. n - 1 /\ n * hi + lo = n * q + r
    BY <1>6, <1>7, <1>8
  <2>2. hi \in Int /\ hi \in 0 .. n - 1 /\ lo \in 0 .. n - 1
    BY <1>1 DEF n
  <2> HIDE DEF q, r
  <2>3. hi = q /\ lo = r
    BY <1>1, <2>1, <2>2, UniqueRemainder
  <2> QED
    BY <2>3 DEF q, r
<1> QED
  BY <1>5, <1>9 DEF n, pair, B, C, Addr, Size

LEMMA BytesOfPair ==
  ASSUME NEW pair \in Addr
  PROVE  B(pair) \in 0 .. ByteRadix - 1 /\ C(pair) \in 0 .. ByteRadix - 1
<1> DEFINE n == ByteRadix
           q == pair \div n
           r == pair % n
<1>1. n \in Nat \ {0} /\ pair \in Int /\ pair >= 0 /\ pair < n * n
  BY SizeFacts DEF Size, Addr
<1>2. q \in Int /\ pair = n * q + r /\ r \in 0 .. n - 1
  BY <1>1, DivMod, ModRange
<1> HIDE DEF n, q, r
<1>3. q >= n => n * q >= n * n
  BY <1>1, <1>2
<1>4. q <= -1 => n * q <= -n
  BY <1>1, <1>2
<1>5. n * q \in Int /\ n * n \in Int
  BY <1>1, <1>2
<1>6. q \in 0 .. n - 1
  BY <1>1, <1>2, <1>3, <1>4, <1>5
<1> QED
  BY <1>2, <1>6 DEF n, q, r, B, C

LEMMA SignIsOne == Sign \in {-1, 1}
BY DEF Sign

LEMMA PlaceInAddr ==
  ASSUME NEW from \in Int, NEW k \in Int
  PROVE  Place(from, k) \in Addr
<1>1. from + Sign * k \in Int
  BY SignIsOne
<1> QED
  BY <1>1, SizeFacts, ModRange DEF Place

LEMMA PlaceZero ==
  ASSUME NEW from \in Addr
  PROVE  Place(from, 0) = from
<1>1. from + Sign * 0 = from
  BY SignIsOne, SizeFacts
<1> QED
  BY <1>1, SizeFacts, SmallMod DEF Place

(* Counting a register once more is going one place further *)
LEMMA MoveIsNextPlace ==
  ASSUME NEW from \in Int, NEW k \in Int
  PROVE  Move(Place(from, k), start.op) = Place(from, k + 1)
<1> DEFINE x == from + Sign * k
<1>1. x \in Int /\ Sign \in Int /\ x + Sign = from + Sign * (k + 1)
  BY SignIsOne
<1>2. ((x % Size) + Sign) % Size = (x + Sign) % Size
  BY <1>1, SizeFacts, AddToRemainder
<1> QED
  BY <1>1, <1>2 DEF Move, Place, Sign

(* A walk shorter than memory meets no cell twice *)
LEMMA PlacesDiffer ==
  ASSUME NEW from \in Int, NEW j \in Int, NEW k \in Int,
         j < k, k - j < Size
  PROVE  Place(from, j) # Place(from, k)
<1>1. from + Sign * j \in Int /\ from + Sign * k \in Int
  BY SignIsOne
<1>2. /\ (from + Sign * j) - (from + Sign * k) < Size
      /\ (from + Sign * k) - (from + Sign * j) < Size
      /\ from + Sign * j # from + Sign * k
  BY SignIsOne, SizeFacts
<1> QED
  BY <1>1, <1>2, SizeFacts, CloseAndSameRemainder DEF Place

-----------------------------------------------------------------------------
(* The inductive invariant                                                 *)

BlockTypeOK ==
  /\ mem \in [Addr -> Byte]
  /\ bc \in Addr /\ hl \in Addr /\ de \in Addr /\ pc \in Addr
  /\ z \in BOOLEAN /\ pv \in BOOLEAN
  /\ stack = <<>> \/ \E x \in Addr : stack = <<x>>
  /\ ports \in Seq(Addr \X Byte)
  /\ done \in Nat /\ interrupts \in Nat
  /\ start \in [op : BlockOps, mem : [Addr -> Byte], bc : Addr, hl : Addr, de : Addr]

Searches == start.op \in SearchOps
Ins      == start.op \in InOps
Outs     == start.op \in OutOps

(* Where the interrupted program goes on *)
Resume == IF stack = <<>> THEN pc ELSE Head(stack)

(* The instruction is at itself as long as there is something left to do,  *)
(* behind itself when there is not: also while a handler runs.             *)
Progress ==
  /\ Resume \in {Site, (Site + 2) % Size}
  /\ Resume = Site => done < Asked /\ (Searches /\ done > 0 => ~z)
  /\ Resume # Site => done = Asked \/ (Searches /\ z /\ done <= Asked)

(* The registers are a function of the bytes done *)
Counters ==
  /\ hl = Place(start.hl, done)
  /\ start.op \in LoadOps => de = Place(start.de, done)
  /\ start.op \in LoadOps \cup SearchOps => bc = (start.bc - done) % Size
  /\ start.op \in InOps \cup OutOps =>
       bc = ((B(start.bc) - done) % ByteRadix) * ByteRadix + C(start.bc)
  /\ Searches \/ Outs => mem = start.mem
  /\ start.op \in LoadOps \cup SearchOps /\ done > 0 => (pv <=> bc # 0)
  /\ start.op \in InOps \cup OutOps /\ done > 0 => (z <=> B(bc) = 0)

(* What a search has seen *)
Seen ==
  Searches /\ done > 0 =>
    /\ \A k \in 0 .. done - 2 : mem[Place(start.hl, k)] # a
    /\ z <=> mem[Place(start.hl, done - 1)] = a

(* What a copy has written, and what it has not *)
Copied(k) ==
  LET gap == (Sign * (start.de - start.hl)) % Size
  IN IF gap = 0 THEN start.mem[Place(start.hl, k)]
                ELSE start.mem[Place(start.hl, k % gap)]

Written ==
  start.op \in LoadOps =>
    /\ \A k \in 0 .. done - 1 : mem[Place(start.de, k)] = Copied(k)
    /\ \A x \in Addr : (\A k \in 0 .. done - 1 : x # Place(start.de, k))
                         => mem[x] = start.mem[x]

(* What the device has seen *)
Transferred ==
  Ins \/ Outs =>
    /\ Len(ports) = done
    /\ \A k \in 0 .. done - 1 :
         /\ ports[k + 1][1] =
              ((B(start.bc) - (IF Ins THEN 0 ELSE 1) - k) % ByteRadix) * ByteRadix
                + C(start.bc)
         /\ ports[k + 1][2] = IF Ins THEN mem[Place(start.hl, k)]
                                     ELSE start.mem[Place(start.hl, k)]
         /\ Ins => ports[k + 1][2] = Stream[k + 1]

BlockInv ==
  BlockTypeOK /\ Progress /\ Counters /\ Seen /\ Written /\ Transferred

-----------------------------------------------------------------------------
(* What does not change with a byte                                        *)

LEMMA StartStays ==
  ASSUME start' = start
  PROVE  /\ \A from, k : Place(from, k)' = Place(from, k)
         /\ Asked' = Asked
<1>1. \A from, k : Place(from, k)' = Place(from, k)
  BY DEF Place, Sign
<1> QED
  BY <1>1 DEF Asked

LEMMA AskedRange ==
  ASSUME BlockTypeOK
  PROVE  /\ Asked \in 1 .. Size
         /\ Ins \/ Outs => Asked <= ByteRadix
<1>1. start.bc \in Addr /\ start.op \in BlockOps
  BY DEF BlockTypeOK
<1>2. B(start.bc) \in 0 .. ByteRadix - 1
  BY <1>1, BytesOfPair
<1> QED
  BY <1>1, <1>2, SizeFacts DEF Asked, Ins, Outs, InOps, OutOps, LoadOps, SearchOps

LEMMA BehindSite == (Site + 2) % Size \in Addr /\ (Site + 2) % Size # Site
<1>1. Site \in 0 .. Size - 1 /\ Site + 2 \in Int
  BY BlockAssumption, SizeFacts
<1>2. Site % Size = Site
  BY <1>1, SizeFacts, SmallMod
<1>3. (Site + 2) % Size # Site % Size
  <2> SUFFICES ASSUME (Site + 2) % Size = Site % Size
               PROVE  FALSE
    OBVIOUS
  <2>1. (Site + 2) - Site < Size /\ Site - (Site + 2) < Size /\ Site \in Int
    BY <1>1, SizeFacts
  <2>2. Site + 2 = Site
    BY <1>1, <2>1, SizeFacts, CloseAndSameRemainder
  <2> QED
    BY <1>1, <2>2
<1> QED
  BY <1>1, <1>2, <1>3, SizeFacts, ModRange

(* One byte of the instruction: it rewinds exactly if something is left    *)
LEMMA AdvanceProgresses ==
  ASSUME BlockTypeOK, Progress, stack = <<>>, pc = Site,
         NEW repeat \in BOOLEAN, Advance(start.op, repeat),
         start.op \in Repeating =>
           (repeat <=> done + 1 # Asked /\ ~(Searches /\ z'))
  PROVE  /\ Progress'
         /\ done < Asked /\ done \in Nat /\ done' = done + 1 /\ start' = start /\ a' = a
         /\ Searches /\ done > 0 => ~z
         /\ pc' \in Addr /\ stack' = <<>> /\ interrupts' = interrupts
<1>1. Resume = Site /\ done < Asked /\ done \in Nat /\ (Searches /\ done > 0 => ~z)
  BY DEF Progress, Resume, BlockTypeOK
<1>2. /\ done' = done + 1 /\ start' = start /\ a' = a /\ stack' = <<>>
      /\ interrupts' = interrupts
  BY DEF Advance
<1>3. Asked' = Asked /\ Searches' = Searches
  BY <1>2, StartStays DEF Searches
<1>4. Resume' = pc'
  BY <1>2 DEF Resume
<1>5. ((Site + 2) - 2) % Size = Site
  <2>1. Site \in 0 .. Size - 1 /\ (Site + 2) - 2 = Site
    BY SizeFacts, BlockAssumption
  <2> QED
    BY <2>1, SizeFacts, SmallMod
<1>6. pc' = IF repeat /\ start.op \in Repeating THEN Site ELSE (Site + 2) % Size
  <2>1. pc' = IF repeat /\ start.op \in Repeating THEN ((pc + 2) - 2) % Size
                                                  ELSE (pc + 2) % Size
    BY Zenon DEF Advance
  <2>2. pc' = IF repeat /\ start.op \in Repeating THEN ((Site + 2) - 2) % Size
                                                  ELSE (Site + 2) % Size
    BY <2>1, Zenon
  <2> QED
    BY <1>5, <2>2, Zenon
<1>7. start.op \notin Repeating => Asked = 1
  BY DEF Asked
<1>8. Asked \in Nat
  BY AskedRange, SizeFacts
<1>9. Progress'
  <2>1. CASE repeat /\ start.op \in Repeating
    <3>1. pc' = Site /\ done' < Asked /\ (Searches => ~z')
      BY <1>1, <1>2, <1>6, <1>8, <2>1
    <3> QED
      BY <1>3, <1>4, <3>1, BehindSite DEF Progress
  <2>2. CASE ~(repeat /\ start.op \in Repeating)
    <3>1. pc' = (Site + 2) % Size
      BY <1>6, <2>2
    <3>2. done' = Asked \/ (Searches /\ z' /\ done' <= Asked)
      BY <1>1, <1>2, <1>7, <1>8, <2>2
    <3> QED
      BY <1>3, <1>4, <3>1, <3>2, BehindSite DEF Progress
  <2> QED
    BY <2>1, <2>2
<1>10. pc' \in Addr
  BY <1>6, BehindSite, BlockAssumption
<1> QED
  BY <1>1, <1>2, <1>9, <1>10

(* BC counts down, and is 0 when all that was asked for is done            *)
LEMMA BcCounts ==
  ASSUME BlockTypeOK, start.op \in LoadOps \cup SearchOps,
         bc = (start.bc - done) % Size
  PROVE  /\ BcLess = (start.bc - (done + 1)) % Size
         /\ BcLess \in Addr
         /\ done < Asked /\ start.op \in Repeating => (BcLess # 0 <=> done + 1 # Asked)
<1>1. start.bc \in 0 .. Size - 1 /\ done \in Nat
  BY SizeFacts DEF BlockTypeOK
<1>2. /\ (((start.bc - done) % Size) - 1) % Size = (start.bc - (done + 1)) % Size
      /\ (start.bc - (done + 1)) % Size \in 0 .. Size - 1
      /\ done < (IF start.bc = 0 THEN Size ELSE start.bc) =>
           ((start.bc - (done + 1)) % Size # 0
              <=> done + 1 # IF start.bc = 0 THEN Size ELSE start.bc)
  BY <1>1, SizeFacts, CountDown, Zenon
<1>3. BcLess = (start.bc - (done + 1)) % Size
  BY <1>2, Zenon DEF BcLess
<1>4. start.op \in Repeating => Asked = IF start.bc = 0 THEN Size ELSE start.bc
  BY DEF Asked
<1>5. BcLess \in Addr
  BY <1>2, <1>3, SizeFacts, Zenon
<1> QED
  BY <1>2, <1>3, <1>4, <1>5, Zenon

(* B counts down over a constant C                                         *)
LEMMA BCounts ==
  ASSUME BlockTypeOK, start.op \in InOps \cup OutOps,
         bc = ((B(start.bc) - done) % ByteRadix) * ByteRadix + C(start.bc)
  PROVE  /\ B(bc) = (B(start.bc) - done) % ByteRadix /\ C(bc) = C(start.bc)
         /\ BLess = ((B(start.bc) - (done + 1)) % ByteRadix) * ByteRadix + C(start.bc)
         /\ BLess \in Addr
         /\ B(BLess) = (B(start.bc) - (done + 1)) % ByteRadix
         /\ done < Asked /\ start.op \in Repeating => (B(BLess) # 0 <=> done + 1 # Asked)
<1> DEFINE b0 == B(start.bc)
           c0 == C(start.bc)
           now == (b0 - done) % ByteRadix
           next == (b0 - (done + 1)) % ByteRadix
<1>1. b0 \in 0 .. ByteRadix - 1 /\ c0 \in 0 .. ByteRadix - 1 /\ done \in Nat
  BY BytesOfPair DEF BlockTypeOK
<1>2. Asked = IF start.op \notin Repeating THEN 1 ELSE IF b0 = 0 THEN ByteRadix ELSE b0
  BY DEF Asked, LoadOps, SearchOps, InOps, OutOps
<1>3. bc = now * ByteRadix + c0
  OBVIOUS
<1> HIDE DEF b0, c0
<1>4. /\ (now - 1) % ByteRadix = next
      /\ now \in 0 .. ByteRadix - 1 /\ next \in 0 .. ByteRadix - 1
      /\ done < (IF b0 = 0 THEN ByteRadix ELSE b0) =>
           (next # 0 <=> done + 1 # IF b0 = 0 THEN ByteRadix ELSE b0)
  BY <1>1, SizeFacts, CountDown, Zenon
<1> HIDE DEF now, next
<1>5. B(bc) = now /\ C(bc) = c0
  BY <1>1, <1>3, <1>4, PairOfBytes
<1>6. BLess = next * ByteRadix + c0
  BY <1>4, <1>5 DEF BLess
<1>7. BLess \in Addr /\ B(BLess) = next
  BY <1>1, <1>4, <1>6, PairOfBytes
<1>8. done < Asked /\ start.op \in Repeating => (B(BLess) # 0 <=> done + 1 # Asked)
  BY <1>2, <1>4, <1>7
<1> QED
  BY <1>5, <1>6, <1>7, <1>8, Zenon DEF b0, c0, now, next

-----------------------------------------------------------------------------
(* LDI, LDD, LDIR, LDDR                                                    *)

Gap == (Sign * (start.de - start.hl)) % Size

(* Where the source walk is at k, the destination walk is Gap steps back *)
LEMMA SourceTrailsDestination ==
  ASSUME BlockTypeOK, NEW k \in Int
  PROVE  Gap \in 0 .. Size - 1 /\ Place(start.hl, k) = Place(start.de, k - Gap)
<1> DEFINE x == start.hl
           y == start.de
           s == Sign
           ahead == s * (y - x)
           n == Size
           q == ahead \div n
           p == -(s * q)
           g == Gap
<1>1. x \in Int /\ y \in Int /\ s \in {-1, 1} /\ n \in Nat \ {0}
  BY SizeFacts, SignIsOne DEF BlockTypeOK
<1>2. ahead \in Int
  BY <1>1
<1> HIDE DEF x, y, s, n
<1>3. g = ahead % n
  BY DEF Gap, x, y, s, n
<1> HIDE DEF ahead, g
<1>4. q \in Int /\ ahead = n * q + g /\ g \in 0 .. n - 1
  BY <1>1, <1>2, <1>3, DivMod, ModRange
<1> HIDE DEF q
<1>5. p \in Int /\ n * p = -(s * (n * q))
  BY <1>1, <1>4
<1>6. n * q = s * (y - x) - g
  BY <1>1, <1>2, <1>4 DEF ahead
<1>7. -(s * (n * q)) = -(y - x) + s * g
  BY <1>1, <1>4, <1>6
<1> HIDE DEF p
<1>8. x + s * k = (y + s * (k - g)) + n * p
  BY <1>1, <1>4, <1>5, <1>7
<1>9. (x + s * k) % n = (y + s * (k - g)) % n
  <2> DEFINE u == x + s * k
             v == y + s * (k - g)
  <2>1. u \in Int /\ v \in Int /\ u = v + n * p
    BY <1>1, <1>4, <1>8
  <2> HIDE DEF u, v
  <2>2. u % n = v % n
    BY <1>1, <1>5, <2>1, SameRemainder
  <2> QED
    BY <2>2 DEF u, v
<1> QED
  BY <1>4, <1>9, Zenon DEF Place, x, y, s, n, g

(* The byte about to be moved is the one the copy is to put there: it has  *)
(* not been written over, or it has been with the right one.  No cell is   *)
(* written twice.                                                          *)
LEMMA NextByteRight ==
  ASSUME BlockTypeOK, Counters, Written, start.op \in LoadOps, done < Asked
  PROVE  /\ mem[hl] = Copied(done)
         /\ \A k \in 0 .. done - 1 : Place(start.de, k) # de
<1>1. done \in Nat /\ done < Size /\ start.hl \in Addr /\ start.de \in Addr
  BY AskedRange, SizeFacts DEF BlockTypeOK
<1>2. start.hl \in Int /\ start.de \in Int
  BY <1>1, SizeFacts
<1>3. hl = Place(start.hl, done) /\ de = Place(start.de, done)
  BY DEF Counters
<1>4. Gap \in 0 .. Size - 1 /\ Place(start.hl, done) = Place(start.de, done - Gap)
  BY <1>1, SourceTrailsDestination
<1>5. Copied(done) = IF Gap = 0 THEN start.mem[Place(start.hl, done)]
                                ELSE start.mem[Place(start.hl, done % Gap)]
  BY DEF Copied, Gap
<1>6. \A k \in 0 .. done - 1 : Place(start.de, k) # de
  <2> SUFFICES ASSUME NEW k \in 0 .. done - 1
               PROVE  Place(start.de, k) # Place(start.de, done)
    BY <1>3
  <2>1. k \in Int /\ done \in Int /\ k < done /\ done - k < Size
    BY <1>1, SizeFacts
  <2> QED
    BY <1>2, <2>1, PlacesDiffer
<1>7. CASE Gap = 0 \/ done < Gap
  <2>1. Gap # 0 => done % Gap = done
    BY <1>1, <1>4, <1>7, SmallMod
  <2>2. \A k \in 0 .. done - 1 : hl # Place(start.de, k)
    <3> SUFFICES ASSUME NEW k \in 0 .. done - 1
                 PROVE  hl # Place(start.de, k)
      OBVIOUS
    <3> DEFINE j == done - Gap
    <3>1. j \in Int /\ k \in Int
      BY <1>1, <1>4
    <3>2. CASE Gap = 0
      <4>1. done - Gap = done
        BY <1>1, <3>2
      <4>2. hl = de
        BY <1>3, <1>4, <4>1, Zenon
      <4> QED
        BY <1>6, <4>2
    <3>3. CASE done < Gap
      <4>1. j < k /\ k - j < Size
        BY <1>1, <1>4, <3>3, SizeFacts
      <4> HIDE DEF j
      <4>2. Place(start.de, j) # Place(start.de, k)
        BY <1>2, <3>1, <4>1, PlacesDiffer
      <4> QED
        BY <1>3, <1>4, <4>2 DEF j
    <3> QED
      BY <1>7, <3>2, <3>3
  <2>3. hl \in Addr
    BY DEF BlockTypeOK
  <2>4. mem[hl] = start.mem[hl]
    BY <2>2, <2>3 DEF Written
  <2> QED
    BY <1>3, <1>5, <1>6, <2>1, <2>4
<1>8. CASE ~(Gap = 0 \/ done < Gap)
  <2> DEFINE j == done - Gap
             g == Gap
  <2>1. j \in 0 .. done - 1 /\ g \in Nat \ {0} /\ j + g = done
    BY <1>1, <1>4, <1>8, SizeFacts
  <2>2. hl = Place(start.de, j)
    BY <1>3, <1>4
  <2> HIDE DEF j
  <2>3. mem[hl] = Copied(j)
    BY <2>1, <2>2 DEF Written
  <2>4. Copied(j) = start.mem[Place(start.hl, j % g)]
    BY <1>8 DEF Copied, Gap
  <2> HIDE DEF g
  <2>5. (j + g) % g = j % g
    BY <2>1, j \in Int, OnceRound
  <2>6. Copied(done) = start.mem[Place(start.hl, done % g)]
    BY <1>5, <1>8 DEF g
  <2> QED
    BY <1>6, <2>1, <2>3, <2>4, <2>5, <2>6
<1> QED
  BY <1>7, <1>8

(* A register counted once more is at the next place *)
LEMMA NextPlace ==
  ASSUME BlockTypeOK, NEW from \in Addr, NEW x, x = Place(from, done)
  PROVE  Move(x, start.op) = Place(from, done + 1) /\ Move(x, start.op) \in Addr
<1>1. from \in Int /\ done \in Int /\ done + 1 \in Int
  BY SizeFacts DEF BlockTypeOK
<1>2. Move(Place(from, done), start.op) = Place(from, done + 1)
  BY <1>1, MoveIsNextPlace
<1> QED
  BY <1>1, <1>2, PlaceInAddr

LEMMA OpKinds ==
  /\ start.op \in LoadOps => ~Searches /\ ~Ins /\ ~Outs
  /\ Searches => start.op \notin LoadOps /\ ~Ins /\ ~Outs
  /\ Ins => start.op \notin LoadOps /\ ~Searches /\ ~Outs
  /\ Outs => start.op \notin LoadOps /\ ~Searches /\ ~Ins
BY DEF Searches, Ins, Outs, LoadOps, SearchOps, InOps, OutOps

LEMMA TransferKeeps ==
  ASSUME BlockInv, stack = <<>>, pc = Site, start.op \in LoadOps, BlockLd(start.op)
  PROVE  BlockInv'
<1> DEFINE more == bc' # 0
<1>0. BlockTypeOK /\ Progress /\ Counters /\ Seen /\ Written /\ Transferred
  BY DEF BlockInv
<1>1. /\ mem' = [mem EXCEPT ![de] = mem[hl]]
      /\ hl' = Move(hl, start.op) /\ de' = Move(de, start.op) /\ bc' = BcLess
      /\ (pv' <=> bc' # 0) /\ pv' \in BOOLEAN
      /\ Advance(start.op, more)
      /\ z' = z /\ ports' = ports
  BY DEF BlockLd
<1>2. more \in BOOLEAN
  OBVIOUS
<1>3. ~Searches /\ ~Ins /\ ~Outs
  BY OpKinds
<1>4. hl = Place(start.hl, done) /\ de = Place(start.de, done) /\ bc = (start.bc - done) % Size
  BY <1>0 DEF Counters
<1>5. done < Asked
  BY <1>0 DEF Progress, Resume
<1>6. /\ bc' = (start.bc - (done + 1)) % Size /\ bc' \in Addr
      /\ start.op \in Repeating => (more <=> done + 1 # Asked)
  BY <1>0, <1>1, <1>4, <1>5, BcCounts
<1> HIDE DEF more
<1>7. /\ Progress'
      /\ done \in Nat /\ done' = done + 1 /\ start' = start /\ a' = a
      /\ pc' \in Addr /\ stack' = <<>> /\ interrupts' = interrupts
  BY <1>0, <1>1, <1>2, <1>3, <1>6, AdvanceProgresses
<1>8. start.hl \in Addr /\ start.de \in Addr /\ hl \in Addr /\ de \in Addr
  BY <1>0 DEF BlockTypeOK
<1>9. /\ hl' = Place(start.hl, done + 1) /\ hl' \in Addr
      /\ de' = Place(start.de, done + 1) /\ de' \in Addr
  BY <1>0, <1>1, <1>4, <1>8, NextPlace
<1>10. mem' \in [Addr -> Byte]
  BY <1>0, <1>1, <1>8 DEF BlockTypeOK
<1>11. BlockTypeOK'
  BY <1>0, <1>1, <1>6, <1>7, <1>9, <1>10 DEF BlockTypeOK
<1>12. Counters'
  BY <1>1, <1>3, <1>6, <1>7, <1>9, StartStays, OpKinds
     DEF Counters, Searches, Ins, Outs, LoadOps, InOps, OutOps
<1>13. Seen' /\ Transferred'
  BY <1>3, <1>7 DEF Seen, Transferred, Searches, Ins, Outs
<1>14. Written'
  <2>1. mem[hl] = Copied(done) /\ \A k \in 0 .. done - 1 : Place(start.de, k) # de
    BY <1>0, <1>5, NextByteRight
  <2>2. \A k : Copied(k)' = IF Gap = 0 THEN start.mem[Place(start.hl, k)]
                                       ELSE start.mem[Place(start.hl, k % Gap)]
    BY <1>7, StartStays DEF Copied, Gap, Sign
  <2>3. \A k : Copied(k)' = Copied(k)
    BY <2>2 DEF Copied, Gap
  <2>4. ASSUME NEW k \in 0 .. done
        PROVE  mem'[Place(start.de, k)] = Copied(k)
    <3>0. start.de \in Int /\ k \in Int
      BY <1>8, SizeFacts
    <3>1. Place(start.de, k) \in Addr
      BY <3>0, PlaceInAddr
    <3>2. CASE k = done
      BY <1>0, <1>1, <1>4, <1>8, <2>1, <3>1, <3>2 DEF BlockTypeOK
    <3>3. CASE k # done
      <4>1. k \in 0 .. done - 1
        BY <1>7, <3>3
      <4>2. mem'[Place(start.de, k)] = mem[Place(start.de, k)]
        BY <1>0, <1>1, <1>8, <2>1, <3>1, <4>1 DEF BlockTypeOK
      <4> QED
        BY <1>0, <4>1, <4>2 DEF Written
    <3> QED
      BY <3>2, <3>3
  <2>5. ASSUME NEW x \in Addr, \A k \in 0 .. done : x # Place(start.de, k)
        PROVE  mem'[x] = start.mem[x]
    <3>1. x # de /\ \A k \in 0 .. done - 1 : x # Place(start.de, k)
      BY <1>4, <1>7, <2>5
    <3>2. mem'[x] = mem[x]
      BY <1>0, <1>1, <1>8, <3>1 DEF BlockTypeOK
    <3> QED
      BY <1>0, <3>1, <3>2 DEF Written
  <2>6. done' - 1 = done
    BY <1>7
  <2> QED
    BY <1>7, <2>3, <2>4, <2>5, <2>6, StartStays DEF Written
<1> QED
  BY <1>7, <1>11, <1>12, <1>13, <1>14 DEF BlockInv

-----------------------------------------------------------------------------
(* CPI, CPD, CPIR, CPDR                                                    *)

LEMMA SearchKeeps ==
  ASSUME BlockInv, stack = <<>>, pc = Site, Searches, BlockCp(start.op)
  PROVE  BlockInv'
<1> DEFINE more == bc' # 0 /\ ~z'
<1>0. BlockTypeOK /\ Progress /\ Counters /\ Seen /\ Written /\ Transferred
  BY DEF BlockInv
<1>1. /\ z' = (a = mem[hl])
      /\ hl' = Move(hl, start.op) /\ bc' = BcLess
      /\ (pv' <=> bc' # 0) /\ pv' \in BOOLEAN
      /\ Advance(start.op, more)
      /\ mem' = mem /\ de' = de /\ ports' = ports
  BY DEF BlockCp
<1>2. more \in BOOLEAN /\ (more <=> bc' # 0 /\ ~z')
  OBVIOUS
<1>3. start.op \notin LoadOps /\ ~Ins /\ ~Outs
  BY OpKinds
<1>4. hl = Place(start.hl, done) /\ bc = (start.bc - done) % Size /\ mem = start.mem
  BY <1>0 DEF Counters, Searches
<1>5. done < Asked /\ (done > 0 => ~z)
  BY <1>0 DEF Progress, Resume
<1>6. /\ bc' = (start.bc - (done + 1)) % Size /\ bc' \in Addr
      /\ start.op \in Repeating => (bc' # 0 <=> done + 1 # Asked)
  BY <1>0, <1>1, <1>4, <1>5, BcCounts DEF Searches
<1> HIDE DEF more
<1>7. start.op \in Repeating => (more <=> done + 1 # Asked /\ ~(Searches /\ z'))
  BY <1>2, <1>6
<1>8. /\ Progress'
      /\ done \in Nat /\ done' = done + 1 /\ start' = start /\ a' = a
      /\ pc' \in Addr /\ stack' = <<>> /\ interrupts' = interrupts
  BY <1>0, <1>1, <1>2, <1>7, AdvanceProgresses
<1>9. start.hl \in Addr /\ hl \in Addr /\ z' \in BOOLEAN
  BY <1>0, <1>1 DEF BlockTypeOK
<1>10. hl' = Place(start.hl, done + 1) /\ hl' \in Addr
  BY <1>0, <1>1, <1>4, <1>9, NextPlace
<1>11. BlockTypeOK'
  BY <1>0, <1>1, <1>6, <1>8, <1>9, <1>10 DEF BlockTypeOK
<1>12. Counters'
  BY <1>1, <1>3, <1>4, <1>6, <1>8, <1>10, StartStays
     DEF Counters, Searches, Ins, Outs, InOps, OutOps
<1>13. Written' /\ Transferred'
  BY <1>3, <1>8 DEF Written, Transferred, Ins, Outs
<1>14. Seen'
  <2>1. z' <=> mem[Place(start.hl, done)] = a
    BY <1>1, <1>4
  <2>2. ASSUME NEW k \in 0 .. done - 1
        PROVE  mem[Place(start.hl, k)] # a
    <3>1. done > 0 /\ ~z
      BY <1>5, <1>8, <2>2
    <3>2. /\ \A i \in 0 .. done - 2 : mem[Place(start.hl, i)] # a
          /\ mem[Place(start.hl, done - 1)] # a
      BY <1>0, <3>1 DEF Seen
    <3>3. k \in 0 .. done - 2 \/ k = done - 1
      BY <1>8
    <3> QED
      BY <3>2, <3>3
  <2>3. done' - 2 = done - 1 /\ done' - 1 = done
    BY <1>8
  <2> QED
    BY <1>1, <1>8, <2>1, <2>2, <2>3, StartStays DEF Seen
<1> QED
  BY <1>8, <1>11, <1>12, <1>13, <1>14 DEF BlockInv

-----------------------------------------------------------------------------
(* INI, IND, INIR, INDR and OUTI, OUTD, OTIR, OTDR                         *)

LEMMA InputKeeps ==
  ASSUME BlockInv, stack = <<>>, pc = Site, Ins, BlockIni(start.op)
  PROVE  BlockInv'
<1> DEFINE data == Stream[Len(ports) + 1]
           access == <<bc, data>>
           more == B(bc') # 0
<1>0. BlockTypeOK /\ Progress /\ Counters /\ Seen /\ Written /\ Transferred
  BY DEF BlockInv
<1>1. /\ ports' = Append(ports, access) /\ bc' = BLess
      /\ mem' = [mem EXCEPT ![hl] = data] /\ hl' = Move(hl, start.op)
      /\ (z' <=> B(bc') = 0) /\ z' \in BOOLEAN /\ pv' \in BOOLEAN
      /\ Advance(start.op, more) /\ de' = de
  BY DEF BlockIni
<1>2. more \in BOOLEAN /\ (more <=> B(bc') # 0)
  OBVIOUS
<1>3. start.op \notin LoadOps /\ ~Searches /\ ~Outs /\ start.op \in InOps
  BY OpKinds DEF Ins
<1>4. /\ hl = Place(start.hl, done)
      /\ bc = ((B(start.bc) - done) % ByteRadix) * ByteRadix + C(start.bc)
  BY <1>0, <1>3 DEF Counters
<1>5. done < Asked
  BY <1>0 DEF Progress, Resume
<1>6. /\ bc' = ((B(start.bc) - (done + 1)) % ByteRadix) * ByteRadix + C(start.bc)
      /\ bc' \in Addr
      /\ start.op \in Repeating => (B(bc') # 0 <=> done + 1 # Asked)
  BY <1>0, <1>1, <1>3, <1>4, <1>5, BCounts
<1>7. start.op \in Repeating => (more <=> done + 1 # Asked /\ ~(Searches /\ z'))
  BY <1>2, <1>3, <1>6
<1> HIDE DEF more
<1>8. /\ Progress'
      /\ done \in Nat /\ done' = done + 1 /\ start' = start /\ a' = a
      /\ pc' \in Addr /\ stack' = <<>> /\ interrupts' = interrupts
  BY <1>0, <1>1, <1>2, <1>7, AdvanceProgresses
<1>9. Len(ports) = done
  BY <1>0 DEF Transferred
<1>10. data = Stream[done + 1] /\ data \in Byte
  <2>1. done + 1 \in 1 .. Len(Stream)
    BY <1>0, <1>5, <1>8, AskedRange, SizeFacts, BlockAssumption
  <2> QED
    BY <1>9, <2>1, BlockAssumption
<1>11. start.hl \in Addr /\ hl \in Addr /\ bc \in Addr
  BY <1>0 DEF BlockTypeOK
<1>12. hl' = Place(start.hl, done + 1) /\ hl' \in Addr
  BY <1>0, <1>1, <1>4, <1>11, NextPlace
<1> HIDE DEF data
<1>13. access \in Addr \X Byte /\ access[1] = bc /\ access[2] = data
  BY <1>10, <1>11
<1> HIDE DEF access
<1>14. ports \in Seq(Addr \X Byte) /\ mem \in [Addr -> Byte]
  BY <1>0 DEF BlockTypeOK
<1>15. /\ ports' \in Seq(Addr \X Byte) /\ Len(ports') = done + 1
       /\ \A i \in 1 .. done : ports'[i] = ports[i]
       /\ ports'[done + 1] = access
  BY <1>1, <1>9, <1>13, <1>14
<1>16. mem' \in [Addr -> Byte]
  BY <1>1, <1>10, <1>14
<1>17. BlockTypeOK'
  BY <1>0, <1>1, <1>6, <1>8, <1>12, <1>15, <1>16 DEF BlockTypeOK
<1>18. Counters'
  BY <1>1, <1>3, <1>6, <1>8, <1>12, StartStays
     DEF Counters, Searches, Outs, LoadOps, SearchOps, InOps
<1>19. Seen' /\ Written'
  BY <1>3, <1>8 DEF Seen, Written, Searches
<1>20. Transferred'
  <2>1. ASSUME NEW k \in 0 .. done
        PROVE  /\ ports'[k + 1][1] =
                    ((B(start.bc) - 0 - k) % ByteRadix) * ByteRadix + C(start.bc)
               /\ ports'[k + 1][2] = mem'[Place(start.hl, k)]
               /\ ports'[k + 1][2] = Stream[k + 1]
    <3>0. start.hl \in Int /\ k \in Int
      BY <1>11, SizeFacts
    <3>1. Place(start.hl, k) \in Addr
      BY <3>0, PlaceInAddr
    <3>2. CASE k = done
      <4>1. ports'[k + 1] = access /\ mem'[Place(start.hl, k)] = data
        BY <1>1, <1>4, <1>11, <1>14, <1>15, <3>2
      <4>2. B(start.bc) \in Int
        BY <1>0, BytesOfPair DEF BlockTypeOK
      <4>3. B(start.bc) - 0 - k = B(start.bc) - done
        BY <3>2, <4>2
      <4>4. bc = ((B(start.bc) - 0 - k) % ByteRadix) * ByteRadix + C(start.bc)
        BY <1>4, <4>3, Zenon
      <4> QED
        BY <1>10, <1>13, <3>2, <4>1, <4>4
    <3>3. CASE k # done
      <4>1. k \in 0 .. done - 1 /\ k + 1 \in 1 .. done
        BY <1>8, <3>3
      <4>2. Place(start.hl, k) # hl
        <5>1. k \in Int /\ done \in Int /\ k < done /\ done - k < Size /\ start.hl \in Int
          BY <1>0, <1>5, <1>8, <1>11, <4>1, AskedRange, SizeFacts
        <5> QED
          BY <1>4, <5>1, PlacesDiffer
      <4>3. mem'[Place(start.hl, k)] = mem[Place(start.hl, k)]
        BY <1>1, <1>11, <1>14, <3>1, <4>2
      <4>4. ports'[k + 1] = ports[k + 1]
        BY <1>15, <4>1
      <4>5. /\ ports[k + 1][1] =
                 ((B(start.bc) - 0 - k) % ByteRadix) * ByteRadix + C(start.bc)
            /\ ports[k + 1][2] = mem[Place(start.hl, k)]
            /\ ports[k + 1][2] = Stream[k + 1]
        BY <1>0, <4>1, Zenon DEF Transferred
      <4> QED
        BY <4>3, <4>4, <4>5, Zenon
    <3> QED
      BY <3>2, <3>3
  <2>2. done' - 1 = done
    BY <1>8
  <2> QED
    BY <1>3, <1>8, <1>15, <2>1, <2>2, StartStays DEF Transferred, Ins, Outs
<1> QED
  BY <1>8, <1>17, <1>18, <1>19, <1>20 DEF BlockInv

LEMMA OutputKeeps ==
  ASSUME BlockInv, stack = <<>>, pc = Site, Outs, BlockOuti(start.op)
  PROVE  BlockInv'
<1> DEFINE access == <<BLess, mem[hl]>>
           more == B(bc') # 0
<1>0. BlockTypeOK /\ Progress /\ Counters /\ Seen /\ Written /\ Transferred
  BY DEF BlockInv
<1>1. /\ ports' = Append(ports, access) /\ bc' = BLess /\ hl' = Move(hl, start.op)
      /\ (z' <=> B(bc') = 0) /\ z' \in BOOLEAN /\ pv' \in BOOLEAN
      /\ Advance(start.op, more) /\ mem' = mem /\ de' = de
  BY DEF BlockOuti
<1>2. more \in BOOLEAN /\ (more <=> B(bc') # 0)
  OBVIOUS
<1>3. start.op \notin LoadOps /\ ~Searches /\ ~Ins /\ start.op \in OutOps
  BY OpKinds DEF Outs
<1>4. /\ hl = Place(start.hl, done) /\ mem = start.mem
      /\ bc = ((B(start.bc) - done) % ByteRadix) * ByteRadix + C(start.bc)
  BY <1>0, <1>3 DEF Counters
<1>5. done < Asked
  BY <1>0 DEF Progress, Resume
<1>6. /\ BLess = ((B(start.bc) - (done + 1)) % ByteRadix) * ByteRadix + C(start.bc)
      /\ BLess \in Addr
      /\ start.op \in Repeating => (B(bc') # 0 <=> done + 1 # Asked)
  BY <1>0, <1>1, <1>3, <1>4, <1>5, BCounts
<1>7. start.op \in Repeating => (more <=> done + 1 # Asked /\ ~(Searches /\ z'))
  BY <1>2, <1>3, <1>6
<1> HIDE DEF more
<1>8. /\ Progress'
      /\ done \in Nat /\ done' = done + 1 /\ start' = start /\ a' = a
      /\ pc' \in Addr /\ stack' = <<>> /\ interrupts' = interrupts
  BY <1>0, <1>1, <1>2, <1>7, AdvanceProgresses
<1>9. Len(ports) = done
  BY <1>0 DEF Transferred
<1>10. start.hl \in Addr /\ hl \in Addr /\ mem[hl] \in Byte
  BY <1>0 DEF BlockTypeOK
<1>11. hl' = Place(start.hl, done + 1) /\ hl' \in Addr
  BY <1>0, <1>1, <1>4, <1>10, NextPlace
<1>12. access \in Addr \X Byte /\ access[1] = BLess /\ access[2] = mem[hl]
  BY <1>6, <1>10
<1> HIDE DEF access
<1>13. ports \in Seq(Addr \X Byte)
  BY <1>0 DEF BlockTypeOK
<1>14. /\ ports' \in Seq(Addr \X Byte) /\ Len(ports') = done + 1
       /\ \A i \in 1 .. done : ports'[i] = ports[i]
       /\ ports'[done + 1] = access
  BY <1>1, <1>9, <1>12, <1>13
<1>15. BlockTypeOK'
  BY <1>0, <1>1, <1>6, <1>8, <1>11, <1>14 DEF BlockTypeOK
<1>16. Counters'
  BY <1>1, <1>3, <1>4, <1>6, <1>8, <1>11, StartStays
     DEF Counters, Searches, Outs, LoadOps, SearchOps, OutOps
<1>17. Seen' /\ Written'
  BY <1>3, <1>8 DEF Seen, Written, Searches
<1>18. Transferred'
  <2>1. ASSUME NEW k \in 0 .. done
        PROVE  /\ ports'[k + 1][1] =
                    ((B(start.bc) - 1 - k) % ByteRadix) * ByteRadix + C(start.bc)
               /\ ports'[k + 1][2] = start.mem[Place(start.hl, k)]
    <3>1. CASE k = done
      <4>1. B(start.bc) \in Int
        BY <1>0, BytesOfPair DEF BlockTypeOK
      <4>2. B(start.bc) - 1 - k = B(start.bc) - (done + 1)
        BY <1>8, <3>1, <4>1
      <4>3. BLess = ((B(start.bc) - 1 - k) % ByteRadix) * ByteRadix + C(start.bc)
        BY <1>6, <4>2, Zenon
      <4> QED
        BY <1>4, <1>12, <1>14, <3>1, <4>3
    <3>2. CASE k # done
      <4>1. k \in 0 .. done - 1 /\ k + 1 \in 1 .. done
        BY <1>8, <3>2
      <4>2. ports'[k + 1] = ports[k + 1]
        BY <1>14, <4>1
      <4>3. /\ ports[k + 1][1] =
                 ((B(start.bc) - (IF Ins THEN 0 ELSE 1) - k) % ByteRadix) * ByteRadix
                   + C(start.bc)
            /\ ports[k + 1][2] = IF Ins THEN mem[Place(start.hl, k)]
                                        ELSE start.mem[Place(start.hl, k)]
        BY <1>0, <4>1, Zenon DEF Transferred
      <4> QED
        BY <1>3, <4>2, <4>3, Zenon
    <3> QED
      BY <3>1, <3>2
  <2>2. done' - 1 = done
    BY <1>8
  <2> QED
    BY <1>3, <1>8, <1>14, <2>1, <2>2, StartStays DEF Transferred, Ins, Outs
<1> QED
  BY <1>8, <1>15, <1>16, <1>17, <1>18 DEF BlockInv

-----------------------------------------------------------------------------
(* Interrupts, and the whole                                               *)

LEMMA InterruptKeeps ==
  ASSUME BlockInv, AcceptInterrupt \/ HandlerReturns
  PROVE  BlockInv'
<1>0. BlockTypeOK /\ Progress /\ Counters /\ Seen /\ Written /\ Transferred
  BY DEF BlockInv
<1>1. /\ mem' = mem /\ bc' = bc /\ hl' = hl /\ de' = de /\ a' = a /\ z' = z /\ pv' = pv
      /\ ports' = ports /\ done' = done /\ start' = start
  BY DEF AcceptInterrupt, HandlerReturns
<1>2. Asked' = Asked /\ (\A from, k : Place(from, k)' = Place(from, k))
  BY <1>1, StartStays
<1>3. /\ Resume' = Resume /\ pc' \in Addr /\ interrupts' \in Nat
      /\ (stack' = <<>> \/ \E x \in Addr : stack' = <<x>>)
  <2>1. CASE AcceptInterrupt
    BY <1>0, <2>1, BlockAssumption DEF AcceptInterrupt, Resume, BlockTypeOK
  <2>2. CASE HandlerReturns
    <3>1. PICK x \in Addr : stack = <<x>>
      BY <1>0, <2>2 DEF HandlerReturns, BlockTypeOK
    <3>2. pc' = x /\ stack' = <<>> /\ interrupts' = interrupts
      BY <2>2, <3>1 DEF HandlerReturns
    <3> QED
      BY <1>0, <3>1, <3>2 DEF Resume, BlockTypeOK
  <2> QED
    BY <2>1, <2>2
<1>4. BlockTypeOK'
  BY <1>0, <1>1, <1>3 DEF BlockTypeOK
<1>5. Progress'
  BY <1>0, <1>1, <1>2, <1>3 DEF Progress, Searches
<1>6. Counters'
  BY <1>0, <1>1, <1>2 DEF Counters, Searches, Outs
<1>7. Seen'
  BY <1>0, <1>1, <1>2 DEF Seen, Searches
<1>8. Written'
  <2>1. \A k : Copied(k)' = Copied(k)
    BY <1>1, <1>2 DEF Copied, Sign
  <2> QED
    BY <1>0, <1>1, <1>2, <2>1 DEF Written
<1>9. Transferred'
  BY <1>0, <1>1, <1>2 DEF Transferred, Ins, Outs
<1> QED
  BY <1>4, <1>5, <1>6, <1>7, <1>8, <1>9 DEF BlockInv

LEMMA StepKeeps ==
  ASSUME BlockInv, [BlockNext]_bvars
  PROVE  BlockInv'
<1>1. CASE BlockStep
  <2>1. stack = <<>> /\ pc = Site /\ Fetched(start.op)
    BY <1>1 DEF BlockStep
  <2>2. \A op : Fetched(op) => op = start.op
    BY <2>1 DEF Fetched
  <2>3. CASE Transfer
    BY <2>1, <2>2, <2>3, TransferKeeps DEF Transfer
  <2>4. CASE Search
    BY <2>1, <2>2, <2>4, SearchKeeps DEF Search, Searches
  <2>5. CASE Input
    BY <2>1, <2>2, <2>5, InputKeeps DEF Input, Ins
  <2>6. CASE Output
    BY <2>1, <2>2, <2>6, OutputKeeps DEF Output, Outs
  <2> QED
    BY <1>1, <2>3, <2>4, <2>5, <2>6 DEF BlockStep
<1>2. CASE AcceptInterrupt \/ HandlerReturns
  BY <1>2, InterruptKeeps
<1>3. CASE UNCHANGED bvars
  <2>1. /\ mem' = mem /\ bc' = bc /\ hl' = hl /\ de' = de /\ a' = a /\ z' = z /\ pv' = pv
        /\ ports' = ports /\ done' = done /\ start' = start
        /\ pc' = pc /\ stack' = stack /\ interrupts' = interrupts
    BY <1>3 DEF bvars
  <2> QED
    BY <2>1 DEF BlockInv, BlockTypeOK, Progress, Counters, Seen, Written, Transferred,
                Resume, Searches, Ins, Outs, Copied, Place, Sign, Asked
<1> QED
  BY <1>1, <1>2, <1>3 DEF BlockNext

LEMMA StartsRight == BlockInit => BlockInv
<1> SUFFICES ASSUME BlockInit
             PROVE  BlockInv
  OBVIOUS
<1> DEFINE next == (Site + 1) % Size
<1>1. next \in Addr /\ Site \in Addr /\ 0 \in Addr
  <2> DEFINE x == Site + 1
  <2>1. x \in Int /\ Site \in Addr /\ 0 \in Addr
    BY SizeFacts, BlockAssumption
  <2> HIDE DEF x
  <2>2. x % Size \in Addr
    BY <2>1, SizeFacts, ModRange
  <2> QED
    BY <2>1, <2>2 DEF x
<1>2. PICK op \in Operations, m \in Memories :
        mem = [m EXCEPT ![Site] = "ED", ![next] = op]
  BY DEF BlockInit
<1>3. m \in [Addr -> Byte] /\ op \in Byte /\ "ED" \in Byte /\ op \in BlockOps
  BY BlockAssumption
<1>4. mem \in [Addr -> Byte] /\ mem[next] = op
  BY <1>1, <1>2, <1>3
<1>5. /\ bc \in Addr /\ hl \in Addr /\ de \in Addr /\ pc = Site
      /\ z = FALSE /\ pv = FALSE /\ stack = <<>> /\ ports = <<>>
      /\ done = 0 /\ interrupts = 0
  BY <1>1 DEF BlockInit
<1>6. start = [op |-> mem[next], mem |-> mem, bc |-> bc, hl |-> hl, de |-> de]
  BY DEF BlockInit
<1> HIDE DEF next
<1>7. /\ start.op = op /\ start.mem = mem /\ start.bc = bc /\ start.hl = hl /\ start.de = de
      /\ start \in [op : BlockOps, mem : [Addr -> Byte], bc : Addr, hl : Addr, de : Addr]
  BY <1>3, <1>4, <1>5, <1>6
<1>8. BlockTypeOK
  BY <1>1, <1>4, <1>5, <1>7 DEF BlockTypeOK
<1>9. Progress
  BY <1>5, <1>8, AskedRange, SizeFacts DEF Progress, Resume
<1>10. Counters
  <2>1. hl = Place(start.hl, 0) /\ de = Place(start.de, 0)
    BY <1>5, <1>7, PlaceZero, Zenon
  <2>2. bc = (start.bc - 0) % Size
    <3>1. start.bc \in 0 .. Size - 1 /\ start.bc - 0 = start.bc
      BY <1>5, <1>7, SizeFacts
    <3>2. start.bc % Size = start.bc
      BY <3>1, SizeFacts, SmallMod
    <3> QED
      BY <1>7, <3>1, <3>2
  <2>3. bc = ((B(start.bc) - 0) % ByteRadix) * ByteRadix + C(start.bc)
    <3> DEFINE n == ByteRadix
               hi == B(start.bc)
               lo == C(start.bc)
    <3>1. hi \in 0 .. n - 1 /\ lo \in 0 .. n - 1 /\ n \in Nat \ {0} /\ hi - 0 = hi
      BY <1>5, <1>7, BytesOfPair, SizeFacts
    <3>2. bc \in Int
      BY <1>5, SizeFacts
    <3>3. bc = n * hi + lo
      BY <1>7, <3>1, <3>2, DivMod DEF B, C
    <3> HIDE DEF n, hi, lo
    <3>4. hi % n = hi
      BY <3>1, SmallMod
    <3>5. n * hi = hi * n
      BY <3>1
    <3>6. bc = ((hi - 0) % n) * n + lo
      BY <3>1, <3>3, <3>4, <3>5
    <3> QED
      BY <3>6 DEF n, hi, lo
  <2> QED
    BY <1>5, <1>7, <2>1, <2>2, <2>3 DEF Counters
<1>11. Seen /\ Written /\ Transferred
  BY <1>5, <1>7 DEF Seen, Written, Transferred
<1> QED
  BY <1>8, <1>9, <1>10, <1>11 DEF BlockInv

LEMMA BlockInvHolds == BlockSpec => []BlockInv
BY StartsRight, StepKeeps, PTL DEF BlockSpec

-----------------------------------------------------------------------------
(* The properties that run `blocks` checks, for every instance             *)

(* Between any two bytes of a copy, interrupted or not and overlapping or  *)
(* not, memory and the registers are those of a byte-by-byte copy          *)
(* (_block_ld).                                                            *)
THEOREM CopiesAreExact == BlockSpec => []CopiedExactly
<1>1. BlockInv => CopiedExactly
  <2> SUFFICES ASSUME BlockInv, start.op \in LoadOps
               PROVE  CopiedExactly
    BY DEF CopiedExactly
  <2> DEFINE reached == {Place(start.de, k) : k \in 0 .. done - 1}
  <2>1. BlockTypeOK /\ Counters /\ Written
    BY DEF BlockInv
  <2>2. /\ hl = Place(start.hl, done) /\ de = Place(start.de, done)
        /\ bc = (start.bc - done) % Size
        /\ done > 0 => (pv <=> bc # 0)
    BY <2>1 DEF Counters
  <2>3. \A x \in Addr \ reached : mem[x] = start.mem[x]
    BY <2>1 DEF Written
  <2>4. \A k \in 0 .. done - 1 : mem[Place(start.de, k)] = Copied(k)
    BY <2>1 DEF Written
  <2> QED
    BY <2>2, <2>3, <2>4, Zenon DEF CopiedExactly, Copied
<1> QED
  BY <1>1, BlockInvHolds, PTL

(* No interrupt between two bytes makes a block instruction lose or repeat *)
(* one: it is left when all it was asked for is done, or with the byte a   *)
(* search was for (_block_repeat, step).                                   *)
THEOREM BlocksAreFinished == BlockSpec => []LeftOnlyWhenDone
<1>1. BlockInv => LeftOnlyWhenDone
  <2> SUFFICES ASSUME BlockInv
               PROVE  LeftOnlyWhenDone
    OBVIOUS
  <2>1. BlockTypeOK /\ Progress
    BY DEF BlockInv
  <2>2. done \in Nat /\ Asked \in Nat
    BY <2>1, AskedRange, SizeFacts DEF BlockTypeOK
  <2> QED
    BY <2>1, <2>2, BehindSite DEF LeftOnlyWhenDone, Left, Progress, Resume, Searches
<1> QED
  BY <1>1, BlockInvHolds, PTL

(* A search passes no byte that equals A, and ends with Z, PV and HL       *)
(* telling where and why it stopped (_block_cp).                           *)
THEOREM SearchesStopAtMatch == BlockSpec => []StopsAtFirstMatch
<1>1. BlockInv => StopsAtFirstMatch
  <2> SUFFICES ASSUME BlockInv, start.op \in SearchOps, done > 0
               PROVE  StopsAtFirstMatch
    BY DEF StopsAtFirstMatch
  <2>1. BlockTypeOK /\ Progress /\ Counters /\ Seen
    BY DEF BlockInv
  <2>2. /\ \A k \in 0 .. done - 2 : mem[Place(start.hl, k)] # a
        /\ z <=> mem[Place(start.hl, done - 1)] = a
    BY <2>1 DEF Seen, Searches
  <2>3. hl = Place(start.hl, done) /\ (pv <=> (start.bc - done) % Size # 0)
    BY <2>1 DEF Counters
  <2>4. Left => z \/ done = Asked
    BY <2>1, BehindSite DEF Left, Progress, Resume
  <2> QED
    BY <2>2, <2>3, <2>4, Zenon DEF StopsAtFirstMatch
<1> QED
  BY <1>1, BlockInvHolds, PTL

(* Block I/O moves each byte once, in order, with the count on the address *)
(* bus, and Z tells the end (_block_ini, _block_outi).                     *)
THEOREM PortsSeeBytesOnce == BlockSpec => []PortsSeeEachByteOnce
<1>1. BlockInv => PortsSeeEachByteOnce
  <2> SUFFICES ASSUME BlockInv, start.op \in InOps \cup OutOps
               PROVE  PortsSeeEachByteOnce
    BY DEF PortsSeeEachByteOnce
  <2>1. BlockTypeOK /\ Progress /\ Counters /\ Transferred
    BY DEF BlockInv
  <2>2. (Ins \/ Outs) /\ (Outs <=> ~Ins) /\ (Ins <=> start.op \in InOps)
    BY OpKinds DEF Ins, Outs
  <2>3. Len(ports) = done
    BY <2>1, <2>2 DEF Transferred
  <2>4. \A k \in 0 .. done - 1 :
          /\ ports[k + 1][1] =
               ((B(start.bc) - (IF Ins THEN 0 ELSE 1) - k) % ByteRadix) * ByteRadix
                 + C(start.bc)
          /\ ports[k + 1][2] = IF Ins THEN mem[Place(start.hl, k)]
                                      ELSE start.mem[Place(start.hl, k)]
          /\ Ins => ports[k + 1][2] = Stream[k + 1]
    BY <2>1, <2>2, Zenon DEF Transferred
  <2>5. start.op \in Repeating /\ done > 0 => (z <=> done = Asked)
    <3> SUFFICES ASSUME start.op \in Repeating, done > 0
                 PROVE  z <=> done = Asked
      OBVIOUS
    <3> DEFINE b0 == B(start.bc)
    <3>1. /\ b0 \in 0 .. ByteRadix - 1 /\ ByteRadix \in Nat \ {0} /\ done \in Nat
          /\ b0 \in Int /\ done \in Int
      BY <2>1, BytesOfPair, SizeFacts DEF BlockTypeOK
    <3>2. Asked = IF b0 = 0 THEN ByteRadix ELSE b0
      BY <2>2, OpKinds DEF Asked, Ins, Outs, Searches
    <3>3. done <= Asked /\ done >= 1
      BY <2>1, <2>2, <3>1, OpKinds, AskedRange, SizeFacts DEF Progress
    <3>4. z <=> B(bc) = 0
      BY <2>1 DEF Counters
    <3>5. B(bc) = (b0 - done) % ByteRadix
      BY <2>1, BCounts DEF Counters
    <3> HIDE DEF b0
    <3>6. (b0 - done) % ByteRadix = 0 <=> done = IF b0 = 0 THEN ByteRadix ELSE b0
      BY <3>1, <3>2, <3>3, CountEnds
    <3> QED
      BY <3>2, <3>4, <3>5, <3>6, Zenon
  <2> QED
    BY <2>2, <2>3, <2>4, <2>5, Zenon DEF PortsSeeEachByteOnce
<1> QED
  BY <1>1, BlockInvHolds, PTL

=============================================================================
