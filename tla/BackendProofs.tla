---------------------------- MODULE BackendProofs ----------------------------
(***************************************************************************)
(* What the flash API takes for granted of the backends below it, for      *)
(* every address, length, part, page size and number of calls: a read      *)
(* delivers exactly its range by allowed accesses (FlashRead), every       *)
(* lookup of an erase block is a partition of the flash (SectorMaps), and  *)
(* the mock stores what it is given and erases whole blocks (MockBackend). *)
(***************************************************************************)
EXTENDS FlashRead, SectorMaps, MockBackend, TLAPS, WellFoundedInduction

-----------------------------------------------------------------------------
(* Arithmetic.                                                             *)

(* Division with remainder.                                                *)
LEMMA Division ==
    ASSUME NEW x \in Int, NEW n \in Nat \ {0}
    PROVE  /\ x \div n \in Int /\ x % n \in 0 .. (n - 1)
           /\ x = n * (x \div n) + (x % n)
<1>1. x \div n \in Int
  OBVIOUS
<1>2. x % n \in Int
  OBVIOUS
<1>3. x % n >= 0 /\ x % n < n
  OBVIOUS
<1>4. x = n * (x \div n) + (x % n)
  OBVIOUS
<1> QED
  BY <1>1, <1>2, <1>3, <1>4

(* Quotient and remainder are the only ones.                               *)
LEMMA DivisionUnique ==
    ASSUME NEW n \in Nat \ {0}, NEW p \in Int, NEW q \in Int,
           NEW r \in 0 .. (n - 1), NEW s \in 0 .. (n - 1), n * p + r = n * q + s
    PROVE  p = q /\ r = s
<1>1. CASE p > q
  <2>1. n * p >= n * q + n
    BY <1>1
  <2> QED
    BY <2>1
<1>2. CASE p < q
  <2>1. n * q >= n * p + n
    BY <1>2
  <2> QED
    BY <2>1
<1>3. CASE p = q
  BY <1>3
<1> QED
  BY <1>1, <1>2, <1>3

(* An address may be reduced before or after an offset is added.           *)
LEMMA ModuloShift ==
    ASSUME NEW x \in Int, NEW y \in Int, NEW n \in Nat \ {0}
    PROVE  ((x % n) + y) % n = (x + y) % n
<1> DEFINE q == x \div n
           r == x % n
           p == (r + y) \div n
           s == (r + y) % n
           u == (x + y) \div n
           v == (x + y) % n
<1>1. q \in Int /\ r \in 0 .. (n - 1) /\ x = n * q + r
  BY Division
<1>2. p \in Int /\ s \in 0 .. (n - 1) /\ r + y = n * p + s
  BY <1>1, Division
<1>3. u \in Int /\ v \in 0 .. (n - 1) /\ x + y = n * u + v
  BY Division
<1> HIDE DEF q, r, p, s, u, v
<1>4. PICK w \in Int : w = q + p
  BY <1>1, <1>2
<1>5. n * u + v = n * w + s
  BY <1>1, <1>2, <1>3, <1>4
<1>6. u \in Int /\ v \in 0 .. (n - 1) /\ s \in 0 .. (n - 1)
  BY <1>2, <1>3
<1>7. u = w /\ v = s
  BY <1>5, <1>6, DivisionUnique
<1> QED
  BY <1>7 DEF r, s, v

(* A remainder is not larger than the number.                              *)
LEMMA ModuloAtMost ==
    ASSUME NEW x \in Nat, NEW n \in Nat \ {0}
    PROVE  x % n <= x
<1>1. x \div n \in Nat
  OBVIOUS
<1>2. n * (x \div n) >= 0
  BY <1>1
<1> QED
  BY <1>2, Division

(* Reducing by a multiple of 4 keeps the alignment.                        *)
LEMMA ModuloFour ==
    ASSUME NEW x \in Int, NEW n \in Nat \ {0}, n % 4 = 0
    PROVE  (x % n) % 4 = x % 4
<1>1. x \div n \in Int /\ x % n \in Int /\ x = n * (x \div n) + (x % n)
  BY Division
<1>2. n \div 4 \in Int /\ n = 4 * (n \div 4)
  OBVIOUS
<1>3. n * (x \div n) = 4 * ((n \div 4) * (x \div n))
  BY <1>1, <1>2
<1>4. ASSUME NEW k \in Int, NEW r \in Int PROVE (4 * k + r) % 4 = r % 4
  OBVIOUS
<1>5. (n \div 4) * (x \div n) \in Int
  BY <1>1, <1>2
<1> QED
  BY <1>1, <1>3, <1>4, <1>5

(* A set of naturals has a least one.                                      *)
LEMMA LeastOf ==
    ASSUME NEW S, S \subseteq Nat, S # {}
    PROVE  \E i \in S : \A j \in S : i <= j
<1> DEFINE R == {ss \in Nat \X Nat : ss[1] < ss[2]}
<1>1. IsWellFoundedOn(R, Nat)
  BY NatLessThanWellFounded DEF OpToRel
<1>2. PICK x \in S : \A y \in S : <<y, x>> \notin R
  <2> HIDE DEF R
  <2> QED
    BY <1>1, WFMin
<1>3. \A y \in S : ~(y < x)
  BY <1>2
<1> QED
  BY <1>3

-----------------------------------------------------------------------------
(* Reading (FlashRead).                                                    *)

(* What AccessesAllowed says of one access.                                *)
Allowed(a, n) ==
    /\ n = 1 \/ (a % 4 = 0 /\ n % 4 = 0)
    /\ n \in 1 .. (IF "window" \in ops THEN Chunk ELSE 4)
    /\ ((a - (addr - (addr % 4))) % Space) + n <= (((len + (addr % 4)) + 3) \div 4) * 4

(* The inductive invariant of a read: types, and that it returns 0 only    *)
(* when everything was delivered; ...                                      *)
ReadTypes ==
    /\ ops \in {{"window"}, {"read32", "read8"}, {"read8"}, {"read32"}}
    /\ addr \in 0 .. (Space - 1) /\ len \in Nat \ {0} /\ done \in 0 .. len
    /\ rc \in {-1, 0} /\ (rc = 0 => done = len)

(* ... the buffer holds the bytes of the range so far; ...                 *)
Delivered ==
    /\ out \in Seq(Int) /\ Len(out) = done
    /\ \A i \in 1 .. done : out[i] = At(i - 1)

(* ... and every access made was allowed.                                  *)
Trips ==
    /\ trips \in Seq(Int \X Int)
    /\ \A i \in 1 .. Len(trips) : Allowed(trips[i][1], trips[i][2])

ReadInv == ReadTypes /\ Delivered /\ Trips

(* The constants of FlashRead.                                             *)
LEMMA Sizes4 ==
    /\ Space \in Nat \ {0} /\ Space % 4 = 0
    /\ Chunk \in Nat /\ Chunk >= 4 /\ Chunk % 4 = 0
  BY ReadAssumption

(* What a concatenation contains.                                          *)
LEMMA Joined ==
    ASSUME NEW S, NEW s \in Seq(S), NEW t \in Seq(S)
    PROVE  /\ s \o t \in Seq(S) /\ Len(s \o t) = Len(s) + Len(t)
           /\ \A i \in 1 .. Len(s) : (s \o t)[i] = s[i]
           /\ \A i \in 1 .. (Len(s) + Len(t)) : i > Len(s) => (s \o t)[i] = t[i - Len(s)]
  OBVIOUS

(* The bytes of one access that are delivered.                             *)
LEMMA PartOfAccess ==
    ASSUME NEW a \in Int, NEW n \in Nat, NEW skip \in Nat, NEW copy \in Nat,
           skip + copy <= n
    PROVE  /\ SubSeq(Bytes(a, n), skip + 1, skip + copy) \in Seq(Int)
           /\ Len(SubSeq(Bytes(a, n), skip + 1, skip + copy)) = copy
           /\ \A i \in 1 .. copy :
                 SubSeq(Bytes(a, n), skip + 1, skip + copy)[i] = (a + skip + i - 1) % Space
<1> DEFINE b == Bytes(a, n)
<1>1. Space \in Nat \ {0}
  BY Sizes4
<1>2. b \in Seq(Int) /\ Len(b) = n /\ \A i \in 1 .. n : b[i] = (a + i - 1) % Space
  <2>1. \A i \in 1 .. n : (a + i - 1) % Space \in Int
    BY <1>1, Division
  <2> QED
    BY <2>1 DEF Bytes
<1> HIDE DEF b
<1>3. /\ SubSeq(b, skip + 1, skip + copy) \in Seq(Int)
      /\ Len(SubSeq(b, skip + 1, skip + copy)) = copy
      /\ \A i \in 1 .. copy : SubSeq(b, skip + 1, skip + copy)[i] = b[skip + i]
  BY <1>2
<1>4. \A i \in 1 .. copy : b[skip + i] = (a + (skip + i) - 1) % Space
  BY <1>2
<1>5. \A i \in 1 .. copy : a + (skip + i) - 1 = a + skip + i - 1
  OBVIOUS
<1> QED
  BY <1>3, <1>4, <1>5 DEF b

(* One more access keeps what the invariant says, if it delivers the bytes *)
(* that come next and is one that the target allows.                       *)
LEMMA AccessStep ==
    ASSUME ReadInv, done < len,
           NEW a \in Int, NEW n \in Nat, NEW skip \in Nat, NEW copy \in Nat,
           skip + copy <= n, done + copy <= len,
           \A i \in 1 .. copy : (a + skip + i - 1) % Space = At(done + i - 1),
           Allowed(a, n), Access(a, n, skip, copy)
    PROVE  ReadInv'
<1>1. UNCHANGED <<ops, addr, len, rc>>
  BY DEF Access
<1>2. ReadTypes'
  BY <1>1 DEF Access, ReadInv, ReadTypes
<1>3. Delivered'
  <2> DEFINE b == SubSeq(Bytes(a, n), skip + 1, skip + copy)
  <2>1. /\ b \in Seq(Int) /\ Len(b) = copy
        /\ \A i \in 1 .. copy : b[i] = At(done + i - 1)
    BY PartOfAccess
  <2>2. out' = out \o b /\ done' = done + copy
    BY DEF Access
  <2> HIDE DEF b
  <2>3. done \in Nat /\ out \in Seq(Int) /\ Len(out) = done
    BY DEF ReadInv, ReadTypes, Delivered
  <2>4. /\ out' \in Seq(Int) /\ Len(out') = done'
        /\ \A i \in 1 .. done : out'[i] = out[i]
        /\ \A i \in 1 .. (done + copy) : i > done => out'[i] = b[i - done]
    BY <2>1, <2>2, <2>3, Joined
  <2>5. ASSUME NEW i \in 1 .. done' PROVE out'[i] = At(i - 1)
    <3>1. CASE i <= done
      <4>1. out'[i] = out[i]
        BY <2>2, <2>3, <2>4, <2>5, <3>1
      <4> QED
        BY <2>3, <2>5, <3>1, <4>1 DEF ReadInv, Delivered
    <3>2. CASE i > done
      <4>1. i - done \in 1 .. copy /\ done + (i - done) - 1 = i - 1
        BY <2>2, <2>3, <2>5, <3>2
      <4>2. out'[i] = b[i - done]
        BY <2>2, <2>4, <2>5, <3>2
      <4>3. b[i - done] = At(done + (i - done) - 1)
        BY <2>1, <4>1
      <4> QED
        BY <4>1, <4>2, <4>3
    <3> QED
      BY <2>3, <2>5, <3>1, <3>2
  <2> QED
    BY <1>1, <2>4, <2>5 DEF Delivered, At
<1>4. Trips'
  <2>1. trips \in Seq(Int \X Int) /\ trips' = Append(trips, <<a, n>>) /\ <<a, n>> \in Int \X Int
    BY DEF ReadInv, Trips, Access
  <2>2. /\ trips' \in Seq(Int \X Int)
        /\ \A i \in 1 .. Len(trips') :
              trips'[i] = <<a, n>> \/ (i \in 1 .. Len(trips) /\ trips'[i] = trips[i])
    BY <2>1
  <2>3. \A i \in 1 .. Len(trips') : Allowed(trips'[i][1], trips'[i][2])
    <3>1. <<a, n>>[1] = a /\ <<a, n>>[2] = n
      OBVIOUS
    <3>2. \A i \in 1 .. Len(trips) : Allowed(trips[i][1], trips[i][2])
      BY DEF ReadInv, Trips
    <3> QED
      BY <2>2, <3>1, <3>2
  <2> QED
    BY <1>1, <2>2, <2>3 DEF Trips, Allowed
<1> QED
  BY <1>2, <1>3, <1>4 DEF ReadInv

(* Where the next byte is: the address wraps, its alignment does not.      *)
LEMMA NextByte ==
    ASSUME ReadTypes
    PROVE  /\ At(done) \in Nat /\ addr \in Nat /\ done \in Nat /\ len \in Nat
           /\ At(done) % 4 = (addr + done) % 4
           /\ \A i \in Nat : (At(done) + i) % Space = At(done + i)
<1>1. Space \in Nat \ {0} /\ Space % 4 = 0
  BY Sizes4
<1>2. addr \in Nat /\ done \in Nat /\ len \in Nat /\ addr + done \in Int
  BY <1>1 DEF ReadTypes
<1>3. At(done) \in Nat
  BY <1>1, <1>2, Division DEF At
<1>4. At(done) % 4 = (addr + done) % 4
  BY <1>1, <1>2, ModuloFour DEF At
<1>5. ASSUME NEW i \in Nat PROVE (At(done) + i) % Space = At(done + i)
  <2>1. (((addr + done) % Space) + i) % Space = ((addr + done) + i) % Space
    <3>1. i \in Int
      BY <1>5
    <3> QED
      BY <1>1, <1>2, <3>1, ModuloShift, Zenon
  <2>2. (addr + done) + i = addr + (done + i)
    BY <1>2
  <2> QED
    BY <2>1, <2>2 DEF At
<1> QED
  BY <1>2, <1>3, <1>4, <1>5

(* How far the access that holds it is from the first word of the range.   *)
LEMMA Distance ==
    ASSUME ReadTypes, NEW skip \in Nat, skip <= done + (addr % 4)
    PROVE  ((At(done) - skip) - (addr - (addr % 4))) % Space <= (done + (addr % 4)) - skip
<1> DEFINE f == addr - (addr % 4)
<1>1. Space \in Nat \ {0}
  BY Sizes4
<1>2. addr \in Nat /\ done \in Nat /\ addr + done \in Int
  BY <1>1 DEF ReadTypes
<1>3. addr % 4 \in Int /\ f \in Int
  BY <1>2
<1>4. PICK y \in Int : y = 0 - (skip + f)
  BY <1>3
<1>5. PICK d \in Nat : d = (done + (addr % 4)) - skip
  BY <1>2, <1>3
<1>6. (addr + done) + y = d
  BY <1>2, <1>3, <1>4, <1>5
<1>7. (((addr + done) % Space) + y) % Space = ((addr + done) + y) % Space
  BY <1>1, <1>2, ModuloShift
<1>8. ((addr + done) % Space) \in Int
  BY <1>1, <1>2, Division
<1>9. (((addr + done) % Space) - skip) - f = ((addr + done) % Space) + y
  BY <1>3, <1>4, <1>8
<1>10. d % Space <= d
  BY <1>1, ModuloAtMost
<1> QED
  BY <1>5, <1>6, <1>7, <1>9, <1>10 DEF At

(* A word of the fallback.                                                 *)
LEMMA read32Step ==
    ASSUME ReadInv, done < len, "window" \notin ops, read32
    PROVE  ReadInv'
<1>1. ReadTypes
  BY DEF ReadInv
<1>2. /\ At(done) \in Nat /\ addr \in Nat /\ done \in Nat /\ len \in Nat
      /\ At(done) % 4 = 0 /\ len - done >= 4
  BY <1>1, NextByte DEF read32, WordFits
<1>3. \A i \in 1 .. 4 : (At(done) + 0 + i - 1) % Space = At(done + i - 1)
  <2> SUFFICES ASSUME NEW i \in 1 .. 4
               PROVE  (At(done) + 0 + i - 1) % Space = At(done + i - 1)
    OBVIOUS
  <2>1. i - 1 \in Nat /\ At(done) + 0 + i - 1 = At(done) + (i - 1)
        /\ done + i - 1 = done + (i - 1)
    BY <1>2
  <2> QED
    BY <1>1, <2>1, NextByte
<1>4. Allowed(At(done), 4)
  <2>1. ((At(done) - 0) - (addr - (addr % 4))) % Space <= (done + (addr % 4)) - 0
    BY <1>1, <1>2, Distance
  <2>2. At(done) - 0 = At(done) /\ (done + (addr % 4)) - 0 = done + (addr % 4)
    BY <1>2
  <2>3. ((At(done) - (addr - (addr % 4))) % Space) \in Int
    <3>1. At(done) - (addr - (addr % 4)) \in Int
      BY <1>2
    <3> QED
      BY <3>1, Sizes4, Division
  <2>4. done + (addr % 4) + 4 <= (((len + (addr % 4)) + 3) \div 4) * 4
    BY <1>2
  <2> QED
    BY <1>2, <2>1, <2>2, <2>3, <2>4 DEF Allowed
<1>5. Access(At(done), 4, 0, 4)
  BY DEF read32
<1>6. At(done) \in Int /\ 0 \in Nat /\ 4 \in Nat /\ 0 + 4 <= 4 /\ done + 4 <= len
  BY <1>2
<1> QED
  BY <1>3, <1>4, <1>5, <1>6, AccessStep, Zenon

(* A byte of the fallback.                                                 *)
LEMMA read8Step ==
    ASSUME ReadInv, done < len, "window" \notin ops, read8
    PROVE  ReadInv'
<1>1. ReadTypes
  BY DEF ReadInv
<1>2. At(done) \in Nat /\ addr \in Nat /\ done \in Nat /\ len \in Nat
  BY <1>1, NextByte
<1>3. \A i \in 1 .. 1 : (At(done) + 0 + i - 1) % Space = At(done + i - 1)
  <2>1. At(done) + 0 + 1 - 1 = At(done) + 0 /\ done + 1 - 1 = done + 0
    BY <1>2
  <2>2. (At(done) + 0) % Space = At(done + 0)
    BY <1>1, NextByte
  <2>3. \A i \in 1 .. 1 : i = 1
    OBVIOUS
  <2> QED
    BY <2>1, <2>2, <2>3
<1>4. Allowed(At(done), 1)
  <2>1. ((At(done) - 0) - (addr - (addr % 4))) % Space <= (done + (addr % 4)) - 0
    BY <1>1, <1>2, Distance
  <2>2. At(done) - 0 = At(done) /\ (done + (addr % 4)) - 0 = done + (addr % 4)
    BY <1>2
  <2>3. ((At(done) - (addr - (addr % 4))) % Space) \in Int
    <3>1. At(done) - (addr - (addr % 4)) \in Int
      BY <1>2
    <3> QED
      BY <3>1, Sizes4, Division
  <2>4. done + (addr % 4) + 1 <= (((len + (addr % 4)) + 3) \div 4) * 4
    BY <1>2
  <2> QED
    BY <1>2, <2>1, <2>2, <2>3, <2>4 DEF Allowed
<1>5. Access(At(done), 1, 0, 1)
  BY DEF read8
<1>6. At(done) \in Int /\ 0 \in Nat /\ 1 \in Nat /\ 0 + 1 <= 1 /\ done + 1 <= len
  BY <1>2
<1> QED
  BY <1>3, <1>4, <1>5, <1>6, AccessStep, Zenon

(* The arithmetic of a window of size bytes that delivers copy of them     *)
(* from skip on: d of l bytes are done, in a range m bytes into a word.    *)
IsWindow(l, d, m, skip, size, copy) ==
    /\ l \in Nat /\ d \in Nat /\ d < l /\ m \in Nat /\ m < 4
    /\ skip \in Nat /\ skip = (d + m) % 4
    /\ size \in Int /\ size = ((Min2((l - d) + skip, Chunk) + 3) \div 4) * 4
    /\ copy \in Int /\ copy = Min2(size - skip, l - d)

(* It is aligned, not larger than a chunk, covers what is copied out of    *)
(* it, and ends within the word that holds the last byte of the range.     *)
Fits(l, d, m, skip, size, copy) ==
    /\ skip <= d + m /\ size \in Nat /\ copy \in Nat
    /\ skip + copy <= size /\ d + copy <= l
    /\ size % 4 = 0 /\ size \in 1 .. Chunk
    /\ ((d + m) - skip) + size <= (((l + m) + 3) \div 4) * 4

(* The arithmetic of the window loops.                                     *)
LEMMA WindowFits ==
    ASSUME NEW l, NEW d, NEW m, NEW skip, NEW size, NEW copy,
           IsWindow(l, d, m, skip, size, copy)
    PROVE  Fits(l, d, m, skip, size, copy)
<1> USE DEF IsWindow
<1>1. Chunk \in Nat /\ Chunk >= 4 /\ Chunk % 4 = 0
  BY Sizes4
<1>2. skip <= d + m /\ skip < 4
  OBVIOUS
<1>3. CASE (l - d) + skip < Chunk
  <2>1. size = ((((l - d) + skip) + 3) \div 4) * 4
    BY <1>1, <1>3 DEF Min2
  <2>2. size > skip /\ size % 4 = 0 /\ size <= Chunk
    BY <1>1, <1>2, <1>3, <2>1
  <2>3. ((d + m) - skip) + size <= (((l + m) + 3) \div 4) * 4
    BY <1>2, <2>1
  <2> QED
    BY <1>1, <1>2, <2>2, <2>3 DEF Min2, Fits
<1>4. CASE (l - d) + skip >= Chunk
  <2>1. size = Chunk
    BY <1>1, <1>4 DEF Min2
  <2>2. ((d + m) - skip) + size <= l + m
    BY <1>1, <1>2, <1>4, <2>1
  <2> QED
    BY <1>1, <1>2, <2>1, <2>2 DEF Min2, Fits
<1> QED
  BY <1>1, <1>3, <1>4

(* A window of the OpenOCD and ST-Link loops.                              *)
LEMMA ReadWindowStep ==
    ASSUME ReadInv, done < len, ReadWindow
    PROVE  ReadInv'
<1> DEFINE skip == At(done) % 4
           size == WindowSize(skip)
           copy == CopySize(size, skip)
           a == At(done) - skip
<1>1. ReadTypes
  BY DEF ReadInv
<1>2. /\ At(done) \in Nat /\ addr \in Nat /\ done \in Nat /\ len \in Nat
      /\ At(done) % 4 = (addr + done) % 4
  BY <1>1, NextByte
<1>3. skip \in Nat /\ skip = (done + (addr % 4)) % 4 /\ addr % 4 \in Nat /\ addr % 4 < 4
  BY <1>2
<1>4. size = ((Min2((len - done) + skip, Chunk) + 3) \div 4) * 4 /\ size \in Int
  BY <1>2, <1>3, Sizes4 DEF WindowSize, Min2
<1>5. copy = Min2(size - skip, len - done) /\ copy \in Int
  BY <1>2, <1>3, <1>4 DEF CopySize, Min2
<1>6. "window" \in ops /\ Access(a, size, skip, copy)
  BY DEF ReadWindow
<1> HIDE DEF skip, size, copy
<1>7. /\ skip <= done + (addr % 4) /\ size \in Nat /\ copy \in Nat
      /\ skip + copy <= size /\ done + copy <= len
      /\ size % 4 = 0 /\ size \in 1 .. Chunk
      /\ ((done + (addr % 4)) - skip) + size <= (((len + (addr % 4)) + 3) \div 4) * 4
  <2>1. IsWindow(len, done, addr % 4, skip, size, copy)
    BY <1>2, <1>3, <1>4, <1>5 DEF IsWindow
  <2> QED
    BY <2>1, WindowFits DEF Fits
<1>8. a \in Int /\ a % 4 = 0
  BY <1>2 DEF skip
<1>9. \A i \in 1 .. copy : (a + skip + i - 1) % Space = At(done + i - 1)
  <2> SUFFICES ASSUME NEW i \in 1 .. copy
               PROVE  (a + skip + i - 1) % Space = At(done + i - 1)
    OBVIOUS
  <2>1. i - 1 \in Nat /\ a + skip + i - 1 = At(done) + (i - 1)
        /\ done + i - 1 = done + (i - 1)
    BY <1>2, <1>3, <1>7
  <2> QED
    BY <1>1, <2>1, NextByte
<1>10. Allowed(a, size)
  <2>1. (a - (addr - (addr % 4))) % Space <= (done + (addr % 4)) - skip
    BY <1>1, <1>3, <1>7, Distance
  <2>2. ((a - (addr - (addr % 4))) % Space) \in Int
    <3>1. a - (addr - (addr % 4)) \in Int
      BY <1>2, <1>8
    <3> QED
      BY <3>1, Sizes4, Division
  <2>3. ((a - (addr - (addr % 4))) % Space) + size <= (((len + (addr % 4)) + 3) \div 4) * 4
    BY <1>2, <1>3, <1>7, <2>1, <2>2
  <2> QED
    BY <1>6, <1>7, <1>8, <2>3 DEF Allowed
<1> HIDE DEF a
<1> QED
  BY <1>3, <1>6, <1>7, <1>8, <1>9, <1>10, AccessStep

(* The invariant holds throughout a read.                                  *)
LEMMA ReadInvAlways == ReadSpec => []ReadInv
<1>1. Init => ReadInv
  <2> SUFFICES ASSUME Init PROVE ReadInv
    OBVIOUS
  <2>1. ReadTypes
    BY ReadAssumption DEF Init, ReadTypes
  <2>2. Delivered /\ Trips
    BY DEF Init, Delivered, Trips
  <2> QED
    BY <2>1, <2>2 DEF ReadInv
<1>2. ReadInv /\ [Next]_vars => ReadInv'
  <2> SUFFICES ASSUME ReadInv, [Next]_vars PROVE ReadInv'
    OBVIOUS
  <2>1. ASSUME UNCHANGED <<ops, addr, len, done, out, trips>>,
               UNCHANGED rc \/ (done >= len /\ rc' = 0)
        PROVE  ReadInv'
    <3>1. ReadTypes'
      BY <2>1 DEF ReadInv, ReadTypes
    <3>2. Delivered' /\ Trips'
      BY <2>1 DEF ReadInv, Delivered, Trips, At, Allowed
    <3> QED
      BY <3>1, <3>2 DEF ReadInv
  <2>2. CASE Loop
    <3>1. CASE "window" \notin ops /\ NoOp
      BY <2>1, <3>1 DEF NoOp
    <3> QED
      BY <2>2, <3>1, read32Step, read8Step, ReadWindowStep DEF Loop
  <2>3. CASE Fails \/ Finish
    BY <2>1, <2>3 DEF Fails, Finish
  <2>4. CASE UNCHANGED vars
    BY <2>1, <2>4 DEF vars
  <2> QED
    BY <2>2, <2>3, <2>4 DEF Next
<1> QED
  BY <1>1, <1>2, PTL DEF ReadSpec

(* For every address space and window of whole words, every address and    *)
(* every length: a read delivers exactly the bytes asked for, in order,    *)
(* also around the end of the address space, never past the buffer, by     *)
(* accesses that the target allows and that stay within the words that     *)
(* enclose the range.                                                      *)
THEOREM ReadsAreExact == ReadSpec => []ReadIsExact
<1>1. ReadInv => ReadIsExact
  <2> SUFFICES ASSUME ReadInv PROVE ReadIsExact
    OBVIOUS
  <2>1. RightBytes
    BY DEF ReadInv, ReadTypes, Delivered, RightBytes
  <2>2. AccessesAllowed
    BY DEF ReadInv, Trips, Allowed, AccessesAllowed
  <2> QED
    BY <2>1, <2>2 DEF ReadIsExact
<1> QED
  BY <1>1, ReadInvAlways, PTL

-----------------------------------------------------------------------------
(* Erase blocks (SectorMaps).                                              *)

(* The recursive function of Cursor is what its definition says, since     *)
(* there is such a function.                                               *)
LEMMA CursorIs ==
    ASSUME NEW m, NEW f,
           f = [i \in 1 .. (Len(m) + 1) |-> IF i = 1 THEN 0 ELSE f[i - 1] + m[i - 1]]
    PROVE  Cursor(m) =
              [i \in 1 .. (Len(m) + 1) |-> IF i = 1 THEN 0 ELSE Cursor(m)[i - 1] + m[i - 1]]
<1> DEFINE P(g) ==
        g = [i \in 1 .. (Len(m) + 1) |-> IF i = 1 THEN 0 ELSE g[i - 1] + m[i - 1]]
<1>1. Cursor(m) = CHOOSE g : P(g)
  BY DEF Cursor
<1>2. P(f)
  OBVIOUS
<1> HIDE DEF P
<1>3. P(Cursor(m))
  BY <1>1, <1>2
<1> QED
  BY <1>3 DEF P

(* What the lookups need of a bank's table m of n blocks that begin at c:  *)
(* they follow one another and fill the bank, and none crosses a multiple  *)
(* of g, of which the flash has a whole number.                            *)
IsTable(m, c, n, g) ==
    /\ n \in Nat \ {0} /\ g \in Nat \ {0}
    /\ \A i \in 1 .. n : m[i] \in Nat \ {0} /\ c[i] \in Nat /\ c[i] + m[i] <= bank_size
    /\ c[1] = 0 /\ c[n] + m[n] = bank_size
    /\ \A i \in 1 .. (n - 1) : c[i + 1] = c[i] + m[i]
    /\ \A i, j \in 1 .. n : i < j => c[i] + m[i] <= c[j]
    /\ \A i \in 1 .. n : c[i] + m[i] <= ((c[i] \div g) * g) + g

(* The table of the F2 and F4 parts is one, ...                            *)
LEMMA F2_F4Table == IsTable(f2_f4_map, Cursor(f2_f4_map), 12, 128) /\ Len(f2_f4_map) = 12
<1> DEFINE m == f2_f4_map
           c == Cursor(m)
           f == <<0, 16, 32, 48, 64, 128, 256, 384, 512, 640, 768, 896, 1024>>
<1>1. /\ m[1] = 16 /\ m[2] = 16 /\ m[3] = 16 /\ m[4] = 16 /\ m[5] = 64 /\ m[6] = 128
      /\ m[7] = 128 /\ m[8] = 128 /\ m[9] = 128 /\ m[10] = 128 /\ m[11] = 128
      /\ m[12] = 128
  BY DEF f2_f4_map
<1>2. Len(m) = 12
  BY DEF f2_f4_map
<1>3. f = [i \in 1 .. (Len(m) + 1) |-> IF i = 1 THEN 0 ELSE f[i - 1] + m[i - 1]]
  <2>1. f = [i \in 1 .. 13 |-> f[i]]
    OBVIOUS
  <2>2. \A i \in 1 .. 13 : f[i] = IF i = 1 THEN 0 ELSE f[i - 1] + m[i - 1]
    BY DEF f2_f4_map
  <2> QED
    BY <1>2, <2>1, <2>2
<1> HIDE DEF m, f
<1>4. c[1] = 0 /\ \A i \in 1 .. 12 : c[i + 1] = c[i] + m[i]
  <2>1. c = [i \in 1 .. (Len(m) + 1) |-> IF i = 1 THEN 0 ELSE c[i - 1] + m[i - 1]]
    BY <1>3, CursorIs
  <2> QED
    BY <1>2, <2>1
<1> HIDE DEF c
<1>5. /\ c[1] = 0 /\ c[2] = 16 /\ c[3] = 32 /\ c[4] = 48 /\ c[5] = 64 /\ c[6] = 128
      /\ c[7] = 256 /\ c[8] = 384 /\ c[9] = 512 /\ c[10] = 640 /\ c[11] = 768
      /\ c[12] = 896
  BY <1>1, <1>4
<1>6. \A i \in 1 .. 12 : \/ i = 1 \/ i = 2 \/ i = 3 \/ i = 4 \/ i = 5 \/ i = 6 \/ i = 7
                        \/ i = 8 \/ i = 9 \/ i = 10 \/ i = 11 \/ i = 12
  OBVIOUS
<1>7. \A i \in 1 .. 12 : m[i] \in Nat \ {0} /\ c[i] \in Nat /\ c[i] + m[i] <= 1024
  BY <1>1, <1>5, <1>6
<1>8. \A i \in 1 .. 12 : c[i] + m[i] <= ((c[i] \div 128) * 128) + 128
  <2>1. /\ 0 \div 128 = 0 /\ 16 \div 128 = 0 /\ 32 \div 128 = 0 /\ 48 \div 128 = 0
        /\ 64 \div 128 = 0 /\ 128 \div 128 = 1 /\ 256 \div 128 = 2 /\ 384 \div 128 = 3
        /\ 512 \div 128 = 4 /\ 640 \div 128 = 5 /\ 768 \div 128 = 6 /\ 896 \div 128 = 7
    OBVIOUS
  <2> QED
    BY <1>1, <1>5, <1>6, <2>1
<1>9. \A i, j \in 1 .. 12 : i < j => c[i] + m[i] <= c[j]
  BY <1>1, <1>5, <1>6
<1> QED
  BY <1>1, <1>2, <1>4, <1>5, <1>7, <1>8, <1>9 DEF IsTable, bank_size, c, m

(* ... and so is that of the F7 parts.                                     *)
LEMMA F7Table == IsTable(f7_map, Cursor(f7_map), 8, 256) /\ Len(f7_map) = 8
<1> DEFINE m == f7_map
           c == Cursor(m)
           f == <<0, 32, 64, 96, 128, 256, 512, 768, 1024>>
<1>1. /\ m[1] = 32 /\ m[2] = 32 /\ m[3] = 32 /\ m[4] = 32 /\ m[5] = 128 /\ m[6] = 256
      /\ m[7] = 256 /\ m[8] = 256
  BY DEF f7_map
<1>2. Len(m) = 8
  BY DEF f7_map
<1>3. f = [i \in 1 .. (Len(m) + 1) |-> IF i = 1 THEN 0 ELSE f[i - 1] + m[i - 1]]
  <2>1. f = [i \in 1 .. 9 |-> f[i]]
    OBVIOUS
  <2>2. \A i \in 1 .. 9 : f[i] = IF i = 1 THEN 0 ELSE f[i - 1] + m[i - 1]
    BY DEF f7_map
  <2> QED
    BY <1>2, <2>1, <2>2
<1> HIDE DEF m, f
<1>4. c[1] = 0 /\ \A i \in 1 .. 8 : c[i + 1] = c[i] + m[i]
  <2>1. c = [i \in 1 .. (Len(m) + 1) |-> IF i = 1 THEN 0 ELSE c[i - 1] + m[i - 1]]
    BY <1>3, CursorIs
  <2> QED
    BY <1>2, <2>1
<1> HIDE DEF c
<1>5. /\ c[1] = 0 /\ c[2] = 32 /\ c[3] = 64 /\ c[4] = 96 /\ c[5] = 128 /\ c[6] = 256
      /\ c[7] = 512 /\ c[8] = 768
  BY <1>1, <1>4
<1>6. \A i \in 1 .. 8 : \/ i = 1 \/ i = 2 \/ i = 3 \/ i = 4 \/ i = 5 \/ i = 6 \/ i = 7
                        \/ i = 8
  OBVIOUS
<1>7. \A i \in 1 .. 8 : m[i] \in Nat \ {0} /\ c[i] \in Nat /\ c[i] + m[i] <= 1024
  BY <1>1, <1>5, <1>6
<1>8. \A i \in 1 .. 8 : c[i] + m[i] <= ((c[i] \div 256) * 256) + 256
  <2>1. /\ 0 \div 256 = 0 /\ 32 \div 256 = 0 /\ 64 \div 256 = 0 /\ 96 \div 256 = 0
        /\ 128 \div 256 = 0 /\ 256 \div 256 = 1 /\ 512 \div 256 = 2 /\ 768 \div 256 = 3
    OBVIOUS
  <2> QED
    BY <1>1, <1>5, <1>6, <2>1
<1>9. \A i, j \in 1 .. 8 : i < j => c[i] + m[i] <= c[j]
  BY <1>1, <1>5, <1>6
<1> QED
  BY <1>1, <1>2, <1>4, <1>5, <1>7, <1>8, <1>9 DEF IsTable, bank_size, c, m
-----------------------------------------------------------------------------
(* A part, and the whole blocks that it has.                               *)
LEMMA PartFacts ==
    ASSUME NEW p \in Parts
    PROVE  /\ p.family \in {"F2_F4", "F7", "uniform"}
           /\ p.base \in Nat /\ p.size \in Nat /\ p.pgsz \in Nat
           /\ p.family = "uniform" => p.pgsz > 0 /\ p.size % p.pgsz = 0
           /\ p.family = "F7" => p.size <= 2048 /\ p.size % 256 = 0
           /\ p.family = "F2_F4" => p.size <= 2048 /\ p.size % 128 = 0
<1>1. p \in [family : {"F2_F4", "F7", "uniform"}, base : Nat, size : Nat, pgsz : Nat]
  BY PartAssumption
<1>2. IF p.family = "uniform" THEN p.pgsz > 0 /\ p.size % p.pgsz = 0
      ELSE p.size <= 2048 /\ p.size % (IF p.family = "F7" THEN 256 ELSE 128) = 0
  BY PartAssumption
<1>3. "F7" # "uniform" /\ "F2_F4" # "uniform" /\ "F7" # "F2_F4"
  OBVIOUS
<1>4. /\ p.family \in {"F2_F4", "F7", "uniform"}
      /\ p.base \in Nat /\ p.size \in Nat /\ p.pgsz \in Nat
  BY <1>1
<1> QED
  BY <1>2, <1>3, <1>4

(* [s, s + z) holds a and lies in the flash of p.                          *)
Holds(p, a, s, z) ==
    /\ s \in Int /\ z \in Nat \ {0}
    /\ s <= a /\ a < s + z
    /\ p.base <= s /\ s + z <= p.base + p.size

(* Equal pages: the quotient is the same over a page, and a flash of whole *)
(* pages holds all of it.                                                  *)
LEMMA Page ==
    ASSUME NEW g \in Nat \ {0}, NEW o \in Nat
    PROVE  /\ (o \div g) \in Nat /\ (o \div g) * g <= o /\ o < (o \div g) * g + g
           /\ \A y \in Nat : (o \div g) * g <= y /\ y < (o \div g) * g + g =>
                 y \div g = o \div g
           /\ \A t \in Nat : t % g = 0 /\ o < t => (o \div g) * g + g <= t
<1> DEFINE q == o \div g
<1>1. q \in Nat /\ o = g * q + (o % g) /\ o % g \in 0 .. (g - 1)
  <2>1. q \in Nat /\ o \in Int
    OBVIOUS
  <2> QED
    BY <2>1, Division
<1>2. g * q = q * g
  BY <1>1
<1>3. ASSUME NEW y \in Nat, q * g <= y, y < q * g + g PROVE y \div g = q
  <2> DEFINE u == y \div g
             v == y % g
  <2>1. u \in Int /\ v \in 0 .. (g - 1) /\ y = g * u + v
    BY <1>3, Division
  <2>2. PICK r \in 0 .. (g - 1) : y = g * q + r
    <3>1. y - g * q \in 0 .. (g - 1) /\ y = g * q + (y - g * q)
      BY <1>1, <1>2, <1>3
    <3> QED
      BY <3>1
  <2> HIDE DEF u, v, q
  <2>3. g * u + v = g * q + r /\ q \in Int
    BY <1>1, <2>1, <2>2
  <2>4. u = q
    BY <2>1, <2>3, DivisionUnique
  <2> QED
    BY <2>4 DEF u
<1>4. ASSUME NEW t \in Nat, t % g = 0, o < t PROVE q * g + g <= t
  <2> DEFINE k == t \div g
  <2>1. k \in Int /\ t = g * k
    BY <1>4, Division
  <2> HIDE DEF k, q
  <2>2. g * q < g * k
    BY <1>1, <1>4, <2>1
  <2>3. q < k
    BY <1>1, <2>1, <2>2
  <2>4. g * q + g <= g * k
    BY <1>1, <2>1, <2>3
  <2> QED
    BY <1>1, <1>2, <2>1, <2>4
<1> QED
  BY <1>1, <1>2, <1>3, <1>4

(* A uniform part: the page of an address, and who else is in it.          *)
LEMMA UniformHolds ==
    ASSUME NEW p \in Parts, p.family = "uniform", NEW a \in Int, Inside(p, a)
    PROVE  \E q \in Nat :
              /\ Holds(p, a, p.base + q * p.pgsz, p.pgsz)
              /\ (q + 1) * p.pgsz <= p.size
              /\ \A x \in Int : p.base + q * p.pgsz <= x /\ x < p.base + q * p.pgsz + p.pgsz =>
                    Inside(p, x) /\ (x - p.base) \div p.pgsz = q
<1> DEFINE g == p.pgsz
           o == a - p.base
           q == o \div g
<1>1. p.base \in Nat /\ p.size \in Nat /\ g \in Nat \ {0} /\ p.size % g = 0
  BY PartFacts
<1>2. o \in Nat /\ o < p.size
  BY <1>1 DEF Inside
<1>3. /\ q \in Nat /\ q * g <= o /\ o < q * g + g /\ q * g + g <= p.size
      /\ \A y \in Nat : q * g <= y /\ y < q * g + g => y \div g = q
  BY <1>1, <1>2, Page
<1> HIDE DEF q
<1>4. q * g \in Nat /\ (q + 1) * g = q * g + g
  BY <1>1, <1>3
<1>5. Holds(p, a, p.base + q * g, g)
  BY <1>1, <1>2, <1>3, <1>4 DEF Holds
<1>6. ASSUME NEW x \in Int, p.base + q * g <= x, x < p.base + q * g + g
      PROVE  Inside(p, x) /\ (x - p.base) \div g = q
  <2>1. x - p.base \in Nat /\ q * g <= x - p.base /\ x - p.base < q * g + g
    BY <1>1, <1>3, <1>4, <1>6
  <2> QED
    BY <1>1, <1>3, <1>4, <1>6, <2>1 DEF Inside
<1> QED
  BY <1>3, <1>4, <1>5, <1>6

(* A bank's table: the block of an address is the first that ends after    *)
(* it, and the only one that holds it.                                     *)
LEMMA BlockOfBank ==
    ASSUME NEW m, NEW c, NEW n, NEW g, IsTable(m, c, n, g), NEW b \in 0 .. (bank_size - 1)
    PROVE  \E i \in 1 .. n : c[i] <= b /\ b < c[i] + m[i]
<1>1. n \in Nat /\ n >= 1 /\ b \in Nat
  BY DEF IsTable, bank_size
<1> DEFINE H == {i \in 1 .. n : b < c[i] + m[i]}
<1>2. n \in H
  <2>1. n \in 1 .. n /\ c[n] + m[n] = 1024 /\ b < 1024
    BY <1>1 DEF IsTable, bank_size
  <2> QED
    BY <2>1
<1>3. PICK i \in H : \A j \in H : i <= j
  <2>1. H # {} /\ H \subseteq Nat
    BY <1>1, <1>2
  <2> HIDE DEF H
  <2> QED
    BY <2>1, LeastOf
<1>4. i \in 1 .. n /\ b < c[i] + m[i]
  BY <1>3
<1>5. c[i] <= b
  <2>1. CASE i = 1
    BY <1>1, <2>1 DEF IsTable
  <2>2. CASE i > 1
    <3>1. i - 1 \in 1 .. (n - 1) /\ i - 1 \in 1 .. n /\ (i - 1) + 1 = i
      BY <1>1, <1>4, <2>2
    <3>2. i - 1 \notin H
      BY <1>1, <1>3, <1>4, <3>1
    <3>3. c[i - 1] + m[i - 1] <= b
      BY <1>1, <3>1, <3>2 DEF IsTable
    <3> QED
      BY <3>1, <3>3 DEF IsTable
  <2> QED
    BY <1>1, <1>4, <2>1, <2>2
<1> QED
  BY <1>4, <1>5

(* The block that holds an offset is the first that ends after it, and no  *)
(* other holds it.                                                         *)
LEMMA OnlyBlock ==
    ASSUME NEW m, NEW c, NEW n, NEW g, IsTable(m, c, n, g), NEW b \in Nat,
           NEW i \in 1 .. n, c[i] <= b, b < c[i] + m[i]
    PROVE  /\ \A j \in 1 .. n : b < c[j] + m[j] => i <= j
           /\ \A j \in 1 .. n : c[j] <= b /\ b < c[j] + m[j] => j = i
<1>1. n \in Nat
  BY DEF IsTable
<1>2. \A j \in 1 .. n : c[j] \in Nat /\ m[j] \in Nat
  BY DEF IsTable
<1>3. \A j \in 1 .. n : j < i => c[j] + m[j] <= c[i]
  BY DEF IsTable
<1>4. \A j \in 1 .. n : i < j => c[i] + m[i] <= c[j]
  BY DEF IsTable
<1> QED
  BY <1>1, <1>2, <1>3, <1>4

(* The granule of a part with a table.                                     *)
Granule(p) == IF p.family = "F7" THEN 256 ELSE 128

(* The table of a part, and that its banks are whole granules.             *)
LEMMA TableOf ==
    ASSUME NEW p \in Parts, p.family # "uniform"
    PROVE  /\ IsTable(MapOf(p), Cursor(MapOf(p)), Len(MapOf(p)), Granule(p))
           /\ Granule(p) \in {128, 256} /\ p.size <= 2048 /\ p.size % Granule(p) = 0
<1>1. CASE p.family = "F7"
  <2>1. MapOf(p) = f7_map /\ Granule(p) = 256
    BY <1>1 DEF MapOf, Granule
  <2>2. p.size <= 2048 /\ p.size % 256 = 0
    BY <1>1, PartFacts
  <2> QED
    BY <2>1, <2>2, F7Table
<1>2. CASE p.family = "F2_F4"
  <2>1. MapOf(p) = f2_f4_map /\ Granule(p) = 128
    BY <1>2 DEF MapOf, Granule
  <2>2. p.size <= 2048 /\ p.size % 128 = 0
    BY <1>2, PartFacts
  <2> QED
    BY <2>1, <2>2, F2_F4Table
<1> QED
  BY <1>1, <1>2, PartFacts

(* Block i of bank k.                                                      *)
InBlock(p, x, k, i) ==
    LET s == p.base + k * bank_size + Cursor(MapOf(p))[i]
    IN  s <= x /\ x < s + MapOf(p)[i]

(* A part with a table: some block of some bank holds the address, and     *)
(* lies in the flash even if the bank is cut short by the size of the      *)
(* part.                                                                   *)
LEMMA MapHolds ==
    ASSUME NEW p \in Parts, p.family # "uniform", NEW a \in Int, Inside(p, a)
    PROVE  \E k \in {0, 1}, i \in 1 .. Len(MapOf(p)) :
              /\ Holds(p, a, p.base + k * bank_size + Cursor(MapOf(p))[i], MapOf(p)[i])
              /\ \A x \in Int : InBlock(p, x, k, i) => Inside(p, x)
<1> DEFINE m == MapOf(p)
           c == Cursor(MapOf(p))
           n == Len(MapOf(p))
           g == Granule(p)
           o == a - p.base
<1>1. p.base \in Nat /\ p.size \in Nat /\ p.size <= 2048
  BY PartFacts, TableOf
<1>2. IsTable(m, c, n, g) /\ g \in {128, 256} /\ p.size % g = 0
  BY TableOf
<1>3. o \in Nat /\ o < p.size
  BY <1>1 DEF Inside
<1> HIDE DEF m, c, n, g, o
<1>4. PICK k \in {0, 1} : o - k * 1024 \in 0 .. 1023
  <2>1. CASE o < 1024
    <3>1. o - 0 * 1024 \in 0 .. 1023
      BY <1>3, <2>1
    <3> QED
      BY <3>1
  <2>2. CASE o >= 1024
    <3>1. o - 1 * 1024 \in 0 .. 1023
      <4>1. o < 2048
        BY <1>1, <1>3
      <4> QED
        BY <1>3, <2>2, <4>1
    <3> QED
      BY <3>1
  <2> QED
    BY <1>3, <2>1, <2>2
<1>5. PICK i \in 1 .. n : c[i] <= o - k * 1024 /\ o - k * 1024 < c[i] + m[i]
  <2>1. PICK b \in 0 .. (bank_size - 1) : b = o - k * 1024
    BY <1>4 DEF bank_size
  <2>2. \E i \in 1 .. n : c[i] <= b /\ b < c[i] + m[i]
    BY <1>2, BlockOfBank
  <2> QED
    BY <2>1, <2>2
<1>6. c[i] \in Nat /\ m[i] \in Nat \ {0} /\ c[i] + m[i] <= ((c[i] \div g) * g) + g
  BY <1>2 DEF IsTable
<1>7. k * 1024 + c[i] + m[i] <= p.size
  <2>1. ASSUME NEW ci \in Nat, NEW e \in Nat, NEW d \in Nat, NEW z \in Nat, d < z,
               ci <= d - k * 1024,
               \/ z % 128 = 0 /\ e <= ((ci \div 128) * 128) + 128
               \/ z % 256 = 0 /\ e <= ((ci \div 256) * 256) + 256
        PROVE  k * 1024 + e <= z
    <3>1. CASE k = 0
      BY <2>1, <3>1
    <3>2. CASE k = 1
      BY <2>1, <3>2
    <3> QED
      BY <3>1, <3>2
  <2>2. c[i] + m[i] \in Nat /\ k * 1024 \in Nat
    BY <1>6
  <2>3. k * 1024 + (c[i] + m[i]) <= p.size
    BY <1>1, <1>2, <1>3, <1>5, <1>6, <2>1, <2>2
  <2> QED
    BY <1>6, <2>2, <2>3
<1>8. Holds(p, a, p.base + k * 1024 + c[i], m[i])
  BY <1>1, <1>3, <1>5, <1>6, <1>7 DEF Holds, o
<1>9. \A x \in Int :
        p.base + k * 1024 + c[i] <= x /\ x < p.base + k * 1024 + c[i] + m[i] => Inside(p, x)
  BY <1>1, <1>6, <1>7 DEF Inside
<1> QED
  BY <1>8, <1>9 DEF InBlock, bank_size, m, c, n

(* An address x in the block at u, of v, of bank k, in a flash at s.       *)
IsInBank(s, x, k, u, v) ==
    /\ s \in Nat /\ x \in Int /\ k \in {0, 1} /\ u \in Nat /\ v \in Nat
    /\ u + v <= 1024 /\ s + k * 1024 + u <= x /\ x < s + k * 1024 + u + v

(* Such an address is in bank k, at an offset inside that block.           *)
LEMMA BankOffset ==
    ASSUME NEW s, NEW x, NEW k, NEW u, NEW v, IsInBank(s, x, k, u, v)
    PROVE  /\ (x - s) - k * 1024 \in Nat
           /\ u <= (x - s) - k * 1024 /\ (x - s) - k * 1024 < u + v
           /\ (x - s) \div 1024 = k
<1>1. CASE k = 0
  BY <1>1 DEF IsInBank
<1>2. CASE k = 1
  BY <1>2 DEF IsInBank
<1> QED
  BY <1>1, <1>2 DEF IsInBank

(* The ST-Link backend's search of the table.                              *)
LEMMA StlinkFinds ==
    ASSUME NEW p \in Parts, p.family # "uniform", NEW k \in {0, 1},
           NEW i \in 1 .. Len(MapOf(p)), NEW x \in Int, InBlock(p, x, k, i)
    PROVE  stlink_flash_sector_map(p, x) =
              [base |-> p.base + k * bank_size + Cursor(MapOf(p))[i], size |-> MapOf(p)[i]]
<1> DEFINE m == MapOf(p)
           c == Cursor(MapOf(p))
           n == Len(MapOf(p))
           o == x - p.base
           b == o - k * 1024
           hits == {j \in 1 .. n : b < c[j] + m[j]}
<1>1. IsTable(m, c, n, Granule(p)) /\ p.base \in Nat
  BY TableOf, PartFacts
<1>2. c[i] \in Nat /\ m[i] \in Nat /\ c[i] + m[i] <= 1024
  BY <1>1 DEF IsTable, bank_size
<1>3. p.base + k * 1024 + c[i] <= x /\ x < p.base + k * 1024 + c[i] + m[i]
  BY DEF InBlock, bank_size
<1>4. b \in Nat /\ c[i] <= b /\ b < c[i] + m[i] /\ o \div 1024 = k
  <2>1. IsInBank(p.base, x, k, c[i], m[i])
    BY <1>1, <1>2, <1>3 DEF IsInBank
  <2> QED
    BY <2>1, BankOffset
<1>5. i \in hits /\ \A j \in hits : i <= j
  <2>1. \A j \in 1 .. n : b < c[j] + m[j] => i <= j
    <3>1. i \in 1 .. n
      OBVIOUS
    <3> HIDE DEF b, m, c, n
    <3> QED
      BY <1>1, <1>4, <3>1, OnlyBlock
  <2> QED
    BY <1>4, <2>1
<1>6. (CHOOSE j \in hits : \A l \in hits : j <= l) = i
  <2>1. hits \subseteq Int
    BY <1>1 DEF IsTable
  <2> HIDE DEF hits
  <2> DEFINE f == CHOOSE j \in hits : \A l \in hits : j <= l
  <2>2. f \in hits /\ f <= i
    BY <1>5
  <2> HIDE DEF f
  <2>3. f = i
    BY <1>5, <2>1, <2>2
  <2> QED
    BY <2>3 DEF f
<1>7. hits # {}
  BY <1>5
<1>8. /\ (o \div bank_size) * bank_size = k * bank_size
      /\ o - (o \div bank_size) * bank_size = b
  BY <1>4 DEF bank_size
<1> DEFINE found == {j \in 1 .. n : o - (o \div bank_size) * bank_size < c[j] + m[j]}
           first == CHOOSE j \in found : \A l \in found : j <= l
<1>9. stlink_flash_sector_map(p, x) =
        IF found = {} THEN NoBlock
        ELSE [base |-> p.base + (o \div bank_size) * bank_size + c[first], size |-> m[first]]
  BY DEF stlink_flash_sector_map
<1>10. found # {} /\ first = i
  <2>1. found = hits
    BY <1>8
  <2> HIDE DEF found, hits
  <2> QED
    BY <1>6, <1>7, <2>1
<1> HIDE DEF m, c, found, first, o
<1>11. stlink_flash_sector_map(p, x) = [base |-> p.base + k * bank_size + c[i], size |-> m[i]]
  BY <1>8, <1>9, <1>10
<1> QED
  BY <1>11 DEF m, c

(* The OpenOCD listing: a line that alone matches is the one found.        *)
LEMMA OpenocdFinds ==
    ASSUME NEW p, NEW x, Inside(p, x), NEW K \in Lines(p), NEW s, NEW z,
           Line(p, K) = <<s, z>>,
           Lines(p) \subseteq Int,
           \A j \in Lines(p) : Matches(Line(p, j), x - p.base) <=> j = K
    PROVE  openocd_impl_flash_sector(p, x) = [base |-> p.base + s, size |-> z]
<1> DEFINE hits == {j \in Lines(p) : Matches(Line(p, j), x - p.base)}
           first == CHOOSE j \in hits : \A l \in hits : j <= l
<1>1. hits = {K}
  OBVIOUS
<1>2. openocd_impl_flash_sector(p, x) =
        IF ~Inside(p, x) \/ hits = {} THEN NoBlock
        ELSE [base |-> p.base + Line(p, first)[1], size |-> Line(p, first)[2]]
  BY DEF openocd_impl_flash_sector
<1>3. first = K
  <2>1. K <= K
    OBVIOUS
  <2> HIDE DEF hits
  <2>2. first \in hits
    BY <1>1, <2>1
  <2> QED
    BY <1>1, <2>2
<1> HIDE DEF hits, first
<1>4. <<s, z>>[1] = s /\ <<s, z>>[2] = z
  OBVIOUS
<1>5. hits # {}
  BY <1>1
<1> QED
  BY <1>2, <1>3, <1>4, <1>5

(* The lines of a part with a table: those of one bank, then the other's.  *)
LEMMA TableLines ==
    ASSUME NEW p \in Parts, p.family # "uniform"
    PROVE  /\ Lines(p) \subseteq Int
           /\ \A k \in {0, 1}, i \in 1 .. Len(MapOf(p)) :
                 /\ k * Len(MapOf(p)) + i \in Lines(p)
                 /\ Line(p, k * Len(MapOf(p)) + i) =
                       <<k * bank_size + Cursor(MapOf(p))[i], MapOf(p)[i]>>
           /\ \A j \in Lines(p) : \E k \in {0, 1}, i \in 1 .. Len(MapOf(p)) :
                 j = k * Len(MapOf(p)) + i
<1> DEFINE n == Len(MapOf(p))
<1>1. n \in Nat \ {0}
  BY TableOf DEF IsTable
<1>2. Lines(p) = 1 .. (2 * n)
  BY DEF Lines
<1>3. ASSUME NEW k \in {0, 1}, NEW i \in 1 .. n
      PROVE  /\ k * n + i \in 1 .. (2 * n)
             /\ ((k * n + i) - 1) \div n = k
             /\ (((k * n + i) - 1) % n) + 1 = i
  <2> HIDE DEF n
  <2>1. k * n + i \in 1 .. (2 * n)
    <3>1. k * n = 0 \/ k * n = n
      BY <1>1, <1>3
    <3> QED
      BY <1>1, <1>3, <3>1
  <2> DEFINE y == (k * n + i) - 1
             u == y \div n
             v == y % n
  <2>2. u \in Int /\ v \in 0 .. (n - 1) /\ y = n * u + v
    BY <1>1, <2>1, Division
  <2>3. k \in Int /\ i - 1 \in 0 .. (n - 1) /\ y = n * k + (i - 1)
    BY <1>1, <1>3
  <2>4. PICK w \in 0 .. (n - 1) : w = i - 1
    BY <2>3
  <2> HIDE DEF y, u, v
  <2>5. n * u + v = n * k + w
    BY <2>2, <2>3, <2>4
  <2>6. u = k /\ v = w
    BY <1>1, <2>2, <2>3, <2>5, DivisionUnique
  <2>7. v + 1 = i
    BY <1>1, <1>3, <2>4, <2>6
  <2> QED
    BY <2>1, <2>6, <2>7 DEF u, v, y
<1>4. ASSUME NEW k \in {0, 1}, NEW i \in 1 .. n
      PROVE  Line(p, k * n + i) = <<k * bank_size + Cursor(MapOf(p))[i], MapOf(p)[i]>>
  <2>1. Line(p, k * n + i) =
          <<(((k * n + i) - 1) \div n) * bank_size
               + Cursor(MapOf(p))[(((k * n + i) - 1) % n) + 1],
            MapOf(p)[(((k * n + i) - 1) % n) + 1]>>
    BY DEF Line
  <2> QED
    BY <1>3, <1>4, <2>1
<1>5. ASSUME NEW j \in 1 .. (2 * n)
      PROVE  \E k \in {0, 1}, i \in 1 .. n : j = k * n + i
  <2> HIDE DEF n
  <2>1. CASE j <= n
    <3>1. j \in 1 .. n /\ j = 0 * n + j
      BY <1>1, <1>5, <2>1
    <3> QED
      BY <3>1
  <2>2. CASE j > n
    <3>1. PICK i \in 1 .. n : j = n + i
      <4>1. j - n \in 1 .. n /\ j = n + (j - n)
        BY <1>1, <1>5, <2>2
      <4> QED
        BY <4>1
    <3>2. j = 1 * n + i
      BY <1>1, <3>1
    <3> QED
      BY <3>2
  <2> QED
    BY <1>1, <1>5, <2>1, <2>2
<1>6. 1 .. (2 * n) \subseteq Int
  BY <1>1
<1> QED
  BY <1>2, <1>3, <1>4, <1>5, <1>6

(* The OpenOCD backend finds the same block in the list its server prints, *)
(* one line for every block of the flash.                                  *)
LEMMA OpenocdFindsInTable ==
    ASSUME NEW p \in Parts, p.family # "uniform", NEW k \in {0, 1},
           NEW i \in 1 .. Len(MapOf(p)), NEW x \in Int, InBlock(p, x, k, i), Inside(p, x)
    PROVE  openocd_impl_flash_sector(p, x) =
              [base |-> p.base + (k * bank_size + Cursor(MapOf(p))[i]), size |-> MapOf(p)[i]]
<1> DEFINE m == MapOf(p)
           c == Cursor(MapOf(p))
           n == Len(MapOf(p))
           K == k * n + i
           w == x - p.base
<1>1. IsTable(m, c, n, Granule(p)) /\ p.base \in Nat
  BY TableOf, PartFacts
<1>2. \A j \in 1 .. n : c[j] \in Nat /\ m[j] \in Nat \ {0} /\ c[j] + m[j] <= 1024
  BY <1>1 DEF IsTable, bank_size
<1>3. w - k * 1024 \in Nat /\ c[i] <= w - k * 1024 /\ w - k * 1024 < c[i] + m[i] /\ w \in Int
  <2>1. c[i] \in Nat /\ m[i] \in Nat /\ w \in Int
    BY <1>1, <1>2
  <2>2. p.base + k * 1024 + c[i] <= x /\ x < p.base + k * 1024 + c[i] + m[i]
    BY DEF InBlock, bank_size
  <2>3. c[i] + m[i] <= 1024
    BY <1>2
  <2>4. IsInBank(p.base, x, k, c[i], m[i])
    BY <1>1, <2>1, <2>2, <2>3 DEF IsInBank
  <2>5. w - k * 1024 \in Nat /\ c[i] <= w - k * 1024 /\ w - k * 1024 < c[i] + m[i]
    BY <2>4, BankOffset
  <2> QED
    BY <2>1, <2>5
<1>4. /\ Lines(p) \subseteq Int
      /\ \A l \in {0, 1}, j \in 1 .. n :
            l * n + j \in Lines(p) /\ Line(p, l * n + j) = <<l * 1024 + c[j], m[j]>>
      /\ \A j \in Lines(p) : \E l \in {0, 1}, q \in 1 .. n : j = l * n + q
  BY TableLines DEF bank_size
<1>5. i \in 1 .. n
  OBVIOUS
<1> HIDE DEF w, m, c, n
<1>6. ASSUME NEW l \in {0, 1}, NEW j \in 1 .. n
      PROVE  Matches(<<l * 1024 + c[j], m[j]>>, w) <=> l = k /\ j = i
  <2>1. Matches(<<l * 1024 + c[j], m[j]>>, w) <=> l * 1024 + c[j] <= w /\ w < l * 1024 + c[j] + m[j]
    BY <1>2, <1>3, <1>6 DEF Matches
  <2>2. CASE l = k
    <3>1. l * 1024 + c[j] <= w /\ w < l * 1024 + c[j] + m[j] <=>
            c[j] <= w - k * 1024 /\ w - k * 1024 < c[j] + m[j]
      BY <1>2, <1>3, <1>6, <2>2
    <3>2. PICK b \in Nat : b = w - k * 1024
      BY <1>3
    <3>3. c[j] <= b /\ b < c[j] + m[j] => j = i
      BY <1>1, <1>3, <1>5, <1>6, <3>2, OnlyBlock
    <3> QED
      BY <1>3, <2>1, <2>2, <3>1, <3>2, <3>3
  <2>3. CASE l # k
    <3>1. c[i] + m[i] <= 1024 /\ c[j] + m[j] <= 1024
      BY <1>2, <1>5, <1>6
    <3>2. c[i] \in Nat /\ m[i] \in Nat /\ c[j] \in Nat /\ m[j] \in Nat
      BY <1>2, <1>5, <1>6
    <3>3. ~(l * 1024 + c[j] <= w /\ w < l * 1024 + c[j] + m[j])
      <4>1. CASE l = 0 /\ k = 1
        BY <1>3, <3>1, <3>2, <4>1
      <4>2. CASE l = 1 /\ k = 0
        BY <1>3, <3>1, <3>2, <4>2
      <4> QED
        BY <2>3, <4>1, <4>2
    <3> QED
      BY <2>1, <2>3, <3>3
  <2> QED
    BY <2>2, <2>3
<1>7. \A j \in Lines(p) : Matches(Line(p, j), w) <=> j = K
  <2> SUFFICES ASSUME NEW j \in Lines(p) PROVE Matches(Line(p, j), w) <=> j = K
    OBVIOUS
  <2>1. PICK l \in {0, 1}, q \in 1 .. n : j = l * n + q
    BY <1>4
  <2>2. Line(p, j) = <<l * 1024 + c[q], m[q]>>
    BY <1>4, <2>1
  <2>3. l = k /\ q = i => j = K
    BY <2>1
  <2>4. j = K => l = k /\ q = i
    <3>1. n \in Nat \ {0}
      BY <1>1 DEF IsTable
    <3>2. CASE l = k
      BY <1>5, <2>1, <3>1, <3>2
    <3>3. CASE l = 0 /\ k = 1
      BY <1>5, <2>1, <3>1, <3>3
    <3>4. CASE l = 1 /\ k = 0
      BY <1>5, <2>1, <3>1, <3>4
    <3> QED
      BY <3>2, <3>3, <3>4
  <2> QED
    BY <1>6, <2>2, <2>3, <2>4
<1>8. K \in Lines(p) /\ Line(p, K) = <<k * 1024 + c[i], m[i]>>
  BY <1>4, <1>5
<1> HIDE DEF K
<1>9. openocd_impl_flash_sector(p, x) = [base |-> p.base + (k * 1024 + c[i]), size |-> m[i]]
  BY <1>4, <1>7, <1>8, OpenocdFinds DEF w
<1> QED
  BY <1>9 DEF m, c, bank_size

(* And the page of a uniform part in a list of equal lines.                *)
LEMMA OpenocdFindsPage ==
    ASSUME NEW p \in Parts, p.family = "uniform", NEW q \in Nat,
           (q + 1) * p.pgsz <= p.size,
           NEW x \in Int, p.base + q * p.pgsz <= x, x < p.base + q * p.pgsz + p.pgsz,
           Inside(p, x)
    PROVE  openocd_impl_flash_sector(p, x) = [base |-> p.base + q * p.pgsz, size |-> p.pgsz]
<1> DEFINE g == p.pgsz
           w == x - p.base
           K == q + 1
<1>1. p.base \in Nat /\ p.size \in Nat /\ g \in Nat \ {0}
  BY PartFacts
<1>2. q * g \in Nat /\ w \in Nat /\ q * g <= w /\ w < q * g + g
  BY <1>1
<1>3. PICK k \in Nat : k = p.size \div g
  BY <1>1
<1>4. Lines(p) = 1 .. k
  BY <1>3 DEF Lines
<1>5. K \in 1 .. k
  <2>1. p.size = g * k + (p.size % g) /\ p.size % g \in 0 .. (g - 1)
    <3>1. p.size \in Int
      BY <1>1
    <3> HIDE DEF g
    <3> QED
      BY <1>1, <1>3, <3>1, Division
  <2>2. (q + 1) * g <= p.size
    OBVIOUS
  <2> HIDE DEF g
  <2>5. (q + 1) * g = q * g + g /\ g * q = q * g /\ g * k \in Nat
    BY <1>1, <1>3
  <2>3. g * q < g * k
    BY <1>1, <1>2, <2>1, <2>2, <2>5
  <2>4. q < k
    BY <1>1, <1>3, <2>3
  <2> QED
    BY <1>3, <2>4
<1>6. \A j \in 1 .. k : Line(p, j) = <<(j - 1) * g, g>>
  BY DEF Line
<1>7. ASSUME NEW j \in 1 .. k PROVE Matches(<<(j - 1) * g, g>>, w) <=> j = K
  <2> HIDE DEF w, g
  <2>1. PICK r \in Nat : r = j - 1
    BY <1>3, <1>7
  <2>2. r * g \in Nat
    BY <1>1, <2>1
  <2>3. Matches(<<(j - 1) * g, g>>, w) <=> r * g <= w /\ w < r * g + g
    <3>1. Matches(<<r * g, g>>, w) <=> r * g <= w /\ w < r * g + g
      BY <1>1, <1>2, <2>2 DEF Matches
    <3> QED
      BY <2>1, <3>1
  <2>4. CASE r < q
    <3>1. r * g + g <= q * g
      BY <1>1, <2>1, <2>4
    <3>2. w >= r * g + g
      BY <1>1, <1>2, <2>2, <3>1
    <3>3. ~Matches(<<(j - 1) * g, g>>, w)
      BY <1>1, <1>2, <2>2, <2>3, <3>2
    <3>4. j # K
      BY <1>3, <1>7, <2>1, <2>4
    <3> QED
      BY <3>3, <3>4
  <2>5. CASE q < r
    <3>1. q * g + g <= r * g
      BY <1>1, <2>1, <2>5
    <3>2. w < r * g
      BY <1>1, <1>2, <2>2, <3>1
    <3>3. ~Matches(<<(j - 1) * g, g>>, w)
      BY <1>1, <1>2, <2>2, <2>3, <3>2
    <3>4. j # K
      BY <1>3, <1>7, <2>1, <2>5
    <3> QED
      BY <3>3, <3>4
  <2>6. CASE q = r
    BY <1>2, <1>3, <1>7, <2>1, <2>3, <2>6
  <2> QED
    BY <2>1, <2>4, <2>5, <2>6
<1>8. Line(p, K) = <<q * g, g>>
  BY <1>5, <1>6
<1> HIDE DEF K, w
<1>9. 1 .. k \subseteq Int
  BY <1>3
<1> QED
  BY <1>4, <1>5, <1>6, <1>7, <1>8, <1>9, OpenocdFinds DEF w

-----------------------------------------------------------------------------
(* The lookups that are asked about a part.                                *)
Asked(p) == {"stlink", "openocd"} \cup (IF p.family = "uniform" THEN {"mock"} ELSE {})

(* Some block holds the address, lies in the flash, and is the answer for  *)
(* each of its addresses.                                                  *)
LEMMA LookupFinds ==
    ASSUME NEW p \in Parts, NEW who \in Asked(p), NEW a \in Int, Inside(p, a)
    PROVE  \E s \in Int, z \in Nat \ {0} :
              /\ Holds(p, a, s, z)
              /\ \A x \in Int : s <= x /\ x < s + z =>
                    Lookup(who, p, x) = [base |-> s, size |-> z]
<1>1. p.base \in Nat /\ p.size \in Nat /\ p.pgsz \in Nat
  BY PartFacts
<1>2. CASE p.family = "uniform"
  <2>1. PICK q \in Nat :
          /\ Holds(p, a, p.base + q * p.pgsz, p.pgsz)
          /\ (q + 1) * p.pgsz <= p.size
          /\ \A x \in Int : p.base + q * p.pgsz <= x /\ x < p.base + q * p.pgsz + p.pgsz =>
                Inside(p, x) /\ (x - p.base) \div p.pgsz = q
    BY <1>2, UniformHolds
  <2> DEFINE s == p.base + q * p.pgsz
             z == p.pgsz
  <2>2. s \in Int /\ z \in Nat \ {0}
    BY <2>1 DEF Holds
  <2>3. ASSUME NEW x \in Int, s <= x, x < s + z
        PROVE  Lookup(who, p, x) = [base |-> s, size |-> z]
    <3>1. Inside(p, x) /\ UniformBlock(p, x) = [base |-> s, size |-> z]
      BY <2>1, <2>3 DEF UniformBlock
    <3>2. openocd_impl_flash_sector(p, x) = [base |-> s, size |-> z]
      BY <1>2, <2>1, <2>3, <3>1, OpenocdFindsPage
    <3>3. who \in {"stlink", "openocd", "mock"}
      BY DEF Asked
    <3>4. CASE who = "stlink"
      BY <1>2, <3>1, <3>4 DEF Lookup, stlink_impl_flash_sector
    <3>5. CASE who = "openocd"
      BY <3>2, <3>5 DEF Lookup
    <3>6. CASE who = "mock"
      BY <3>1, <3>6 DEF Lookup, hw_flash_sector
    <3> QED
      BY <3>3, <3>4, <3>5, <3>6
  <2> HIDE DEF s, z
  <2>4. Holds(p, a, s, z)
    BY <2>1 DEF s, z
  <2> QED
    BY <2>2, <2>3, <2>4
<1>3. CASE p.family # "uniform"
  <2>1. PICK k \in {0, 1}, i \in 1 .. Len(MapOf(p)) :
          /\ Holds(p, a, p.base + k * bank_size + Cursor(MapOf(p))[i], MapOf(p)[i])
          /\ \A x \in Int : InBlock(p, x, k, i) => Inside(p, x)
    BY <1>3, MapHolds
  <2> DEFINE s == p.base + k * bank_size + Cursor(MapOf(p))[i]
             z == MapOf(p)[i]
  <2>2. s \in Int /\ z \in Nat \ {0}
    BY <2>1 DEF Holds
  <2>3. ASSUME NEW x \in Int, s <= x, x < s + z
        PROVE  Lookup(who, p, x) = [base |-> s, size |-> z]
    <3>1. InBlock(p, x, k, i) /\ Inside(p, x)
      BY <2>1, <2>3 DEF InBlock
    <3>2. stlink_flash_sector_map(p, x) = [base |-> s, size |-> z]
      BY <1>3, <2>3, <3>1, StlinkFinds
    <3>3. openocd_impl_flash_sector(p, x) = [base |-> s, size |-> z]
      <4>1. openocd_impl_flash_sector(p, x) =
              [base |-> p.base + (k * bank_size + Cursor(MapOf(p))[i]), size |-> MapOf(p)[i]]
        BY <1>3, <2>3, <3>1, OpenocdFindsInTable
      <4>2. Cursor(MapOf(p))[i] \in Nat
        BY <1>3, TableOf DEF IsTable
      <4>3. p.base + (k * bank_size + Cursor(MapOf(p))[i]) = s
        BY <1>1, <4>2 DEF bank_size
      <4> QED
        BY <4>1, <4>3
    <3>4. who \in {"stlink", "openocd"}
      BY <1>3 DEF Asked
    <3>5. CASE who = "stlink"
      <4>1. p.family \in {"F2_F4", "F7"}
        BY <1>3, PartFacts
      <4> QED
        BY <3>1, <3>2, <3>5, <4>1 DEF Lookup, stlink_impl_flash_sector
    <3>6. CASE who = "openocd"
      BY <3>3, <3>6 DEF Lookup
    <3> QED
      BY <3>4, <3>5, <3>6
  <2> HIDE DEF s, z
  <2>4. Holds(p, a, s, z)
    BY <2>1 DEF s, z
  <2> QED
    BY <2>2, <2>3, <2>4
<1> QED
  BY <1>2, <1>3

(* Outside the flash there is nothing to find.                             *)
LEMMA LookupOutside ==
    ASSUME NEW p, NEW who, NEW a, ~Inside(p, a)
    PROVE  Lookup(who, p, a) = NoBlock
  BY DEF Lookup, stlink_impl_flash_sector, openocd_impl_flash_sector, hw_flash_sector

(* Types of the walk over the blocks.                                      *)
WalkInv == part \in Parts /\ backend \in Asked(part) /\ pos \in Int

(* The walk keeps its types.                                               *)
LEMMA WalkInvAlways == WalkSpec => []WalkInv
<1>1. InitWalk => WalkInv
  <2> SUFFICES ASSUME InitWalk PROVE WalkInv
    OBVIOUS
  <2>1. part \in Parts /\ backend \in Asked(part)
    BY DEF InitWalk, Asked
  <2>2. \E o \in Nat : pos = part.base + o
    BY PartAssumption DEF InitWalk
  <2> QED
    BY <2>1, <2>2, PartFacts DEF WalkInv
<1>2. WalkInv /\ [NextBlock]_walk => WalkInv'
  <2> SUFFICES ASSUME WalkInv, [NextBlock]_walk PROVE WalkInv'
    OBVIOUS
  <2>1. CASE UNCHANGED walk
    BY <2>1 DEF walk, WalkInv
  <2>2. CASE NextBlock
    <3>1. Block # NoBlock /\ pos' = Block.base + Block.size /\ UNCHANGED <<part, backend>>
      BY <2>2 DEF NextBlock
    <3>2. Inside(part, pos)
      BY <3>1, LookupOutside DEF Block
    <3>3. PICK s \in Int, z \in Nat \ {0} :
            /\ Holds(part, pos, s, z)
            /\ \A x \in Int : s <= x /\ x < s + z =>
                  Lookup(backend, part, x) = [base |-> s, size |-> z]
      BY <3>2, LookupFinds DEF WalkInv
    <3>4. Block = [base |-> s, size |-> z]
      BY <3>3 DEF Block, Holds, WalkInv
    <3>5. pos' \in Int
      BY <3>1, <3>4
    <3> QED
      BY <3>1, <3>5 DEF WalkInv
  <2> QED
    BY <2>1, <2>2
<1> QED
  BY <1>1, <1>2, PTL DEF WalkSpec

(* For every part of whole blocks, of equal pages of any size or with the  *)
(* F2/F4 or F7 table and up to two banks, and for every address: the three *)
(* lookups find one block for all of its addresses, it lies in the flash,  *)
(* and outside the flash they find none.  This is what the flash           *)
(* operations assume of their geometry.                                    *)
THEOREM BlocksPartition == WalkSpec => []LookupIsAPartition
<1>1. WalkInv => LookupIsAPartition
  <2> SUFFICES ASSUME WalkInv PROVE LookupIsAPartition
    OBVIOUS
  <2>1. CASE ~Inside(part, pos)
    BY <2>1, LookupOutside DEF LookupIsAPartition, Block
  <2>2. CASE Inside(part, pos)
    <3>1. PICK s \in Int, z \in Nat \ {0} :
            /\ Holds(part, pos, s, z)
            /\ \A x \in Int : s <= x /\ x < s + z =>
                  Lookup(backend, part, x) = [base |-> s, size |-> z]
      BY <2>2, LookupFinds DEF WalkInv
    <3> DEFINE b == [base |-> s, size |-> z]
    <3>2. Block = b /\ b.base = s /\ b.size = z
      BY <3>1 DEF Block, Holds, WalkInv
    <3>3. Lookup(backend, part, s) = b /\ Lookup(backend, part, s + z - 1) = b
      <4>1. s <= s /\ s < s + z /\ s + z - 1 \in Int /\ s <= s + z - 1 /\ s + z - 1 < s + z
        OBVIOUS
      <4> QED
        BY <3>1, <4>1
    <3>4. b # NoBlock
      BY DEF NoBlock
    <3> HIDE DEF b
    <3> QED
      BY <2>2, <3>1, <3>2, <3>3, <3>4 DEF LookupIsAPartition, Holds
  <2> QED
    BY <2>1, <2>2
<1> QED
  BY <1>1, WalkInvAlways, PTL

-----------------------------------------------------------------------------
(* The mock (MockBackend).                                                 *)

(* A page table.                                                           *)
IsTableOfPages(pg) ==
    /\ pg = [p \in DOMAIN pg |-> pg[p]]
    /\ \A p \in DOMAIN pg : pg[p] \in [0 .. (PageSize - 1) -> Byte]

(* The state [pages, flash, status] that a memory write works on.          *)
IsMemory(s) ==
    /\ s = [pages |-> s.pages, flash |-> s.flash, status |-> s.status]
    /\ IsTableOfPages(s.pages) /\ s.flash \in [Addr -> Byte] /\ s.status \in {0, -1}

(* The byte a write of v leaves where u was.                               *)
Stored(x, u, v) == IF mock_in_flash(x) THEN u \cap v ELSE v

(* The constants of the mock.                                              *)
LEMMA MockFacts ==
    /\ Base \in Nat /\ Size \in Nat \ {0}
    /\ MemEnd \in Nat \ {0} /\ PageSize \in Nat \ {0}
    /\ FlashPage \in Nat \ {0} /\ Size % FlashPage = 0
    /\ Width \in Nat \ {0} /\ Width <= MemEnd
  BY MockAssumption, FlashAssumption

(* The place of a byte in its page.                                        *)
LEMMA InPage ==
    ASSUME NEW x \in Places
    PROVE  /\ x \in Int /\ x % PageSize \in 0 .. (PageSize - 1)
           /\ \A y \in Places : PageAddr(y) = PageAddr(x) /\ y % PageSize = x % PageSize => y = x
<1>1. ASSUME NEW y \in Places
      PROVE  y \in Int /\ y % PageSize \in 0 .. (PageSize - 1)
  <2>1. y \in Int
    BY MockFacts DEF Places
  <2> QED
    BY <2>1, MockFacts, Division
<1>2. ASSUME NEW y \in Places, PageAddr(y) = PageAddr(x), y % PageSize = x % PageSize
      PROVE  y = x
  <2>1. PICK u \in Int : u = x % PageSize
    BY <1>1
  <2>2. y - u = x - u /\ y \in Int /\ x \in Int
    BY <1>1, <1>2, <2>1 DEF PageAddr
  <2> QED
    BY <2>2
<1> QED
  BY <1>1, <1>2

(* A page is found, made, or the table is full; nothing else changes.      *)
LEMMA PageIsThere ==
    ASSUME NEW pg, IsTableOfPages(pg), NEW x \in Places, NEW g, g = PageFor(pg, x)
    PROVE  /\ IsTableOfPages(g)
           /\ \A p \in DOMAIN pg : p \in DOMAIN g /\ g[p] = pg[p]
           /\ \A p \in DOMAIN g : p \notin DOMAIN pg => g[p] = BlankPage
           /\ PageAddr(x) \notin DOMAIN g => g = pg /\ Full(pg)
<1>1. BlankPage \in [0 .. (PageSize - 1) -> Byte]
  BY DEF BlankPage, Zero, Byte
<1>2. CASE PageAddr(x) \in DOMAIN pg \/ Full(pg)
  BY <1>2 DEF PageFor
<1>3. CASE ~(PageAddr(x) \in DOMAIN pg \/ Full(pg))
  <2>1. PICK a : a = PageAddr(x)
    OBVIOUS
  <2>2. g = [p \in DOMAIN pg \cup {a} |-> IF p \in DOMAIN pg THEN pg[p] ELSE BlankPage]
    BY <1>3, <2>1 DEF PageFor
  <2>3. /\ DOMAIN g = DOMAIN pg \cup {a}
        /\ \A p \in DOMAIN g : g[p] = IF p \in DOMAIN pg THEN pg[p] ELSE BlankPage
        /\ g = [p \in DOMAIN g |-> g[p]]
    BY <2>2
  <2> QED
    BY <1>1, <2>1, <2>3 DEF IsTableOfPages
<1> QED
  BY <1>2, <1>3

(* What one byte's write does: it stores the byte and changes no other, or *)
(* fails on a full table and changes nothing.                              *)
LEMMA Write8Effect ==
    ASSUME NEW s, IsMemory(s), s.status = 0, NEW x \in Places, NEW v \in Byte,
           NEW t, t = Write8(s, x, v)
    PROVE  /\ IsMemory(t)
           /\ \/ /\ t.status = 0
                 /\ Byte8(t.pages, t.flash, x) = Stored(x, Byte8(s.pages, s.flash, x), v)
                 /\ \A y \in Places \ {x} :
                       Byte8(t.pages, t.flash, y) = Byte8(s.pages, s.flash, y)
              \/ /\ t.status = -1
                 /\ t.pages = s.pages /\ t.flash = s.flash
                 /\ Full(s.pages) /\ PageAddr(x) \notin DOMAIN s.pages /\ ~mock_in_flash(x)
<1>1. CASE mock_in_flash(x)
  <2>1. x \in Addr
    BY <1>1, InPage, FlashAssumption DEF mock_in_flash, Addr
  <2>2. PICK f : f = [s.flash EXCEPT ![x] = @ \cap v]
    OBVIOUS
  <2>3. f \in [Addr -> Byte] /\ f[x] = s.flash[x] \cap v /\ \A y \in Addr \ {x} : f[y] = s.flash[y]
    BY <2>1, <2>2 DEF IsMemory, Byte
  <2>4. t = [s EXCEPT !.flash = f]
    BY <1>1, <2>2 DEF Write8
  <2>5. t = [pages |-> s.pages, flash |-> f, status |-> s.status]
    BY <2>4 DEF IsMemory
  <2>6. t.pages = s.pages /\ t.flash = f /\ t.status = s.status
    BY <2>5
  <2>7. IsMemory(t)
    BY <2>3, <2>5, <2>6 DEF IsMemory
  <2>8. \A y \in Places : mock_in_flash(y) => y \in Addr
    BY InPage, FlashAssumption DEF mock_in_flash, Addr
  <2> QED
    BY <1>1, <2>1, <2>3, <2>6, <2>7, <2>8 DEF Byte8, Stored
<1>2. CASE ~mock_in_flash(x)
  <2>1. PICK g : g = PageFor(s.pages, x)
    OBVIOUS
  <2>2. PICK a : a = PageAddr(x)
    OBVIOUS
  <2>3. PICK o : o = x % PageSize
    OBVIOUS
  <2>4. /\ IsTableOfPages(g)
        /\ \A p \in DOMAIN s.pages : p \in DOMAIN g /\ g[p] = s.pages[p]
        /\ \A p \in DOMAIN g : p \notin DOMAIN s.pages => g[p] = BlankPage
        /\ a \notin DOMAIN g => g = s.pages /\ Full(s.pages)
    BY <2>1, <2>2, PageIsThere DEF IsMemory
  <2>5. o \in 0 .. (PageSize - 1)
    BY <2>3, InPage
  <2>6. CASE a \in DOMAIN g
    <3>1. PICK h : h = [g EXCEPT ![a][o] = v]
      OBVIOUS
    <3>2. /\ DOMAIN h = DOMAIN g /\ IsTableOfPages(h) /\ h[a][o] = v
          /\ \A p \in DOMAIN g \ {a} : h[p] = g[p]
          /\ \A i \in 0 .. (PageSize - 1) : i # o => h[a][i] = g[a][i]
      <4>1. g[a] \in [0 .. (PageSize - 1) -> Byte]
        BY <2>4, <2>6 DEF IsTableOfPages
      <4>2. PICK q : q = [g[a] EXCEPT ![o] = v]
        OBVIOUS
      <4>3. /\ q \in [0 .. (PageSize - 1) -> Byte] /\ q[o] = v
            /\ \A i \in 0 .. (PageSize - 1) : i # o => q[i] = g[a][i]
        BY <2>5, <4>1, <4>2
      <4>4. h = [g EXCEPT ![a] = q]
        BY <3>1, <4>2
      <4> QED
        BY <2>4, <2>6, <4>3, <4>4 DEF IsTableOfPages
    <3>3. t = [s EXCEPT !.pages = h]
      BY <1>2, <2>1, <2>2, <2>3, <2>6, <3>1 DEF Write8
    <3>4. t = [pages |-> h, flash |-> s.flash, status |-> s.status]
      BY <3>3 DEF IsMemory
    <3>5. t.pages = h /\ t.flash = s.flash /\ t.status = s.status
      BY <3>4
    <3>6. IsMemory(t)
      BY <3>2, <3>4, <3>5 DEF IsMemory
    <3>7. Byte8(t.pages, t.flash, x) = v
      BY <1>2, <2>2, <2>3, <2>6, <3>2, <3>5 DEF Byte8
    <3>8. ASSUME NEW y \in Places, y # x, ~mock_in_flash(y)
          PROVE  Byte8(t.pages, t.flash, y) = Byte8(s.pages, s.flash, y)
      <4>1. PICK b : b = PageAddr(y)
        OBVIOUS
      <4>2. PICK i : i = y % PageSize
        OBVIOUS
      <4>3. i \in 0 .. (PageSize - 1) /\ (b = a => i # o)
        BY <2>2, <2>3, <3>8, <4>1, <4>2, InPage
      <4>4. /\ Byte8(t.pages, t.flash, y) = IF b \in DOMAIN h THEN h[b][i] ELSE {}
            /\ Byte8(s.pages, s.flash, y) = IF b \in DOMAIN s.pages THEN s.pages[b][i] ELSE {}
        BY <3>5, <3>8, <4>1, <4>2 DEF Byte8, Zero
      <4>5. b \in DOMAIN g => h[b][i] = g[b][i]
        BY <3>2, <4>3
      <4>6. b \in DOMAIN g /\ b \notin DOMAIN s.pages => g[b][i] = {}
        BY <2>4, <4>3 DEF BlankPage, Zero
      <4> QED
        BY <2>4, <3>2, <4>4, <4>5, <4>6
    <3>9. ASSUME NEW y \in Places, mock_in_flash(y)
          PROVE  Byte8(t.pages, t.flash, y) = Byte8(s.pages, s.flash, y)
      BY <3>5, <3>9 DEF Byte8
    <3> QED
      BY <1>2, <3>5, <3>6, <3>7, <3>8, <3>9 DEF Stored
  <2>7. CASE a \notin DOMAIN g
    <3>1. t = [s EXCEPT !.status = -1]
      BY <1>2, <2>1, <2>2, <2>7 DEF Write8
    <3>2. t = [pages |-> s.pages, flash |-> s.flash, status |-> -1]
      BY <3>1 DEF IsMemory
    <3>3. t.pages = s.pages /\ t.flash = s.flash /\ t.status = -1
      BY <3>2
    <3>4. IsMemory(t)
      BY <3>2, <3>3 DEF IsMemory
    <3> QED
      BY <1>2, <2>2, <2>4, <2>7, <3>3, <3>4
  <2> QED
    BY <2>6, <2>7
<1> QED
  BY <1>1, <1>2

(* g is the memory before and after each of the first n bytes.             *)
IsRun(m, a, b, n, g) ==
    g = [i \in 0 .. n |-> IF i = 0 THEN m ELSE Write8(g[i - 1], (a + i - 1) % MemEnd, b[i])]

(* There is such a function for every n.                                   *)
LEMMA RunsExist ==
    ASSUME NEW m, NEW a, NEW b, NEW n \in Nat
    PROVE  \E g : IsRun(m, a, b, n, g)
<1> DEFINE Bad == {k \in Nat : ~ \E g : IsRun(m, a, b, k, g)}
<1> SUFFICES ASSUME Bad # {} PROVE FALSE
  OBVIOUS
<1>1. PICK k \in Bad : \A j \in Bad : k <= j
  <2>1. Bad \subseteq Nat
    OBVIOUS
  <2> HIDE DEF Bad
  <2> QED
    BY <2>1, LeastOf
<1>2. k \in Nat /\ ~ \E g : IsRun(m, a, b, k, g)
  BY <1>1
<1>3. CASE k = 0
  <2>1. PICK g : g = [i \in 0 .. 0 |-> m]
    OBVIOUS
  <2>2. \A i \in 0 .. 0 : i = 0 /\ g[i] = m
    BY <2>1
  <2>3. g = [i \in 0 .. 0 |-> IF i = 0 THEN m ELSE Write8(g[i - 1], (a + i - 1) % MemEnd, b[i])]
    BY <2>1, <2>2
  <2> QED
    BY <1>2, <1>3, <2>3 DEF IsRun
<1>4. CASE k # 0
  <2>1. k - 1 \in Nat /\ k - 1 \notin Bad
    BY <1>1, <1>2, <1>4
  <2>2. PICK g : IsRun(m, a, b, k - 1, g)
    BY <2>1
  <2> DEFINE More(i) == Write8(g[i - 1], (a + i - 1) % MemEnd, b[i])
             h == [i \in 0 .. k |-> IF i = k THEN More(k) ELSE g[i]]
  <2>3. \A i \in 0 .. (k - 1) : g[i] = IF i = 0 THEN m ELSE More(i)
    BY <2>2 DEF IsRun
  <2> HIDE DEF More
  <2>4. \A i \in 0 .. k : i # 0 => h[i - 1] = g[i - 1]
    BY <2>1
  <2>5. \A i \in 0 .. k : h[i] = IF i = 0 THEN m ELSE More(i)
    BY <1>4, <2>1, <2>3
  <2>6. \A i \in 0 .. k :
           h[i] = IF i = 0 THEN m ELSE Write8(h[i - 1], (a + i - 1) % MemEnd, b[i])
    <3> HIDE DEF h
    <3> QED
      BY <2>4, <2>5 DEF More
  <2>7. h = [i \in 0 .. k |-> h[i]]
    OBVIOUS
  <2> HIDE DEF h
  <2>8. h = [i \in 0 .. k |->
                IF i = 0 THEN m ELSE Write8(h[i - 1], (a + i - 1) % MemEnd, b[i])]
    BY <2>6, <2>7
  <2> QED
    BY <1>2, <2>8 DEF IsRun
<1> QED
  BY <1>3, <1>4

(* So WriteBytes is the last of them.                                      *)
LEMMA WriteBytesIs ==
    ASSUME NEW a, NEW b, NEW m, m = [pages |-> pages, flash |-> flash, status |-> 0],
           Len(b) \in Nat
    PROVE  \E g : /\ g[0] = m /\ WriteBytes(a, b) = g[Len(b)]
                  /\ \A i \in 1 .. Len(b) : g[i] = Write8(g[i - 1], (a + i - 1) % MemEnd, b[i])
<1> DEFINE P(g) == g = [i \in 0 .. Len(b) |->
                           IF i = 0 THEN [pages |-> pages, flash |-> flash, status |-> 0]
                           ELSE Write8(g[i - 1], (a + i - 1) % MemEnd, b[i])]
<1>1. WriteBytes(a, b) = (CHOOSE g : P(g))[Len(b)]
  BY DEF WriteBytes
<1>2. \E g : P(g)
  <2>1. PICK g : IsRun(m, a, b, Len(b), g)
    BY RunsExist
  <2> QED
    BY <2>1 DEF IsRun
<1>3. PICK u : u = CHOOSE g : P(g)
  OBVIOUS
<1>4. P(u)
  <2> HIDE DEF P
  <2> QED
    BY <1>2, <1>3
<1>5. u = [i \in 0 .. Len(b) |-> IF i = 0 THEN m
                                 ELSE Write8(u[i - 1], (a + i - 1) % MemEnd, b[i])]
  BY <1>4
<1>6. WriteBytes(a, b) = u[Len(b)]
  BY <1>1, <1>3
<1> HIDE DEF P
<1>7. \A i \in 0 .. Len(b) : u[i] = IF i = 0 THEN m
                                 ELSE Write8(u[i - 1], (a + i - 1) % MemEnd, b[i])
  BY <1>5
<1>8. u[0] = m
  BY <1>7
<1>9. \A i \in 1 .. Len(b) : u[i] = Write8(u[i - 1], (a + i - 1) % MemEnd, b[i])
  BY <1>7
<1> QED
  BY <1>6, <1>8, <1>9

(* The addresses of at most MemEnd bytes are distinct, around the end of   *)
(* the address space too, and each tells which of the bytes is its own.    *)
LEMMA OwnByte ==
    ASSUME NEW a \in Places, NEW i \in Nat \ {0}, i <= MemEnd
    PROVE  /\ (a + i - 1) % MemEnd \in Places
           /\ ((((a + i - 1) % MemEnd) - a) % MemEnd) + 1 = i
<1>1. a \in Int /\ MemEnd \in Nat \ {0} /\ a + i - 1 \in Int
  BY MockFacts DEF Places
<1>2. (a + i - 1) % MemEnd \in 0 .. (MemEnd - 1)
  BY <1>1, Division
<1>3. (((a + i - 1) % MemEnd) + (0 - a)) % MemEnd = ((a + i - 1) + (0 - a)) % MemEnd
  <2>1. PICK x \in Int : x = a + i - 1
    BY <1>1
  <2>2. PICK y \in Int : y = 0 - a
    BY <1>1
  <2>3. ((x % MemEnd) + y) % MemEnd = (x + y) % MemEnd
    BY <1>1, ModuloShift
  <2> QED
    BY <2>1, <2>2, <2>3
<1>4. (a + i - 1) + (0 - a) = i - 1
  BY <1>1
<1>5. i - 1 \in 0 .. (MemEnd - 1)
  BY <1>1
<1>6. (i - 1) % MemEnd = i - 1
  <2>1. (i - 1) \div MemEnd \in Int /\ (i - 1) % MemEnd \in 0 .. (MemEnd - 1)
        /\ i - 1 = MemEnd * ((i - 1) \div MemEnd) + ((i - 1) % MemEnd)
    BY <1>1, <1>5, Division
  <2>2. i - 1 = MemEnd * 0 + (i - 1)
    BY <1>1
  <2> QED
    BY <1>1, <1>5, <2>1, <2>2, DivisionUnique
<1>7. ((a + i - 1) % MemEnd) + (0 - a) = ((a + i - 1) % MemEnd) - a
  BY <1>1, <1>2
<1>8. (((a + i - 1) % MemEnd) - a) % MemEnd = i - 1
  BY <1>3, <1>4, <1>6, <1>7
<1> QED
  BY <1>2, <1>8 DEF Places

(* What the memory s is after i bytes of a write of b at a to m.           *)
Written(m, a, b, i, s) ==
    /\ IsMemory(s)
    /\ \A y \in Places : (\A j \in 1 .. i : y # (a + j - 1) % MemEnd) =>
          Byte8(s.pages, s.flash, y) = Byte8(m.pages, m.flash, y)
    /\ \A j \in 1 .. i : LET y == (a + j - 1) % MemEnd
                             old == Byte8(m.pages, m.flash, y)
                             new == Byte8(s.pages, s.flash, y)
                         IN  /\ new \in {old, Stored(y, old, b[j])}
                             /\ s.status = 0 => new = Stored(y, old, b[j])
    /\ s.status = -1 => Full(s.pages) /\ \E j \in 1 .. i :
                            PageAddr((a + j - 1) % MemEnd) \notin DOMAIN s.pages

(* One byte more.                                                          *)
LEMMA WrittenStep ==
    ASSUME NEW m, NEW a \in Places, NEW b, NEW i \in Nat \ {0}, i <= MemEnd, b[i] \in Byte,
           NEW s, Written(m, a, b, i - 1, s),
           NEW t, t = Write8(s, (a + i - 1) % MemEnd, b[i])
    PROVE  Written(m, a, b, i, t)
<1> DEFINE At1(j) == (a + j - 1) % MemEnd
<1>1. \A j \in 1 .. i : At1(j) \in Places /\ ((At1(j) - a) % MemEnd) + 1 = j
  <2>1. ASSUME NEW j \in 1 .. i PROVE j \in Nat \ {0} /\ j <= MemEnd
    BY MockFacts
  <2> QED
    BY <2>1, OwnByte
<1> HIDE DEF At1
<1>2. \A j \in 1 .. i : j # i => At1(j) # At1(i)
  BY <1>1
<1>3. t = Write8(s, At1(i), b[i])
  BY DEF At1
<1>4. /\ IsMemory(s)
      /\ \A y \in Places : (\A j \in 1 .. (i - 1) : y # At1(j)) =>
            Byte8(s.pages, s.flash, y) = Byte8(m.pages, m.flash, y)
      /\ \A j \in 1 .. (i - 1) :
            /\ Byte8(s.pages, s.flash, At1(j)) \in
                  {Byte8(m.pages, m.flash, At1(j)), Stored(At1(j), Byte8(m.pages, m.flash, At1(j)), b[j])}
            /\ s.status = 0 => Byte8(s.pages, s.flash, At1(j)) =
                                  Stored(At1(j), Byte8(m.pages, m.flash, At1(j)), b[j])
      /\ s.status = -1 => Full(s.pages) /\ \E j \in 1 .. (i - 1) : PageAddr(At1(j)) \notin DOMAIN s.pages
  BY DEF Written, At1
<1>5. (1 .. i) = (1 .. (i - 1)) \cup {i}
  OBVIOUS
<1> SUFFICES
      /\ IsMemory(t)
      /\ \A y \in Places : (\A j \in 1 .. i : y # At1(j)) =>
            Byte8(t.pages, t.flash, y) = Byte8(m.pages, m.flash, y)
      /\ \A j \in 1 .. i :
            /\ Byte8(t.pages, t.flash, At1(j)) \in
                  {Byte8(m.pages, m.flash, At1(j)), Stored(At1(j), Byte8(m.pages, m.flash, At1(j)), b[j])}
            /\ t.status = 0 => Byte8(t.pages, t.flash, At1(j)) =
                                  Stored(At1(j), Byte8(m.pages, m.flash, At1(j)), b[j])
      /\ t.status = -1 => Full(t.pages) /\ \E j \in 1 .. i : PageAddr(At1(j)) \notin DOMAIN t.pages
  BY DEF Written, At1
<1>6. Byte8(s.pages, s.flash, At1(i)) = Byte8(m.pages, m.flash, At1(i))
  BY <1>1, <1>2, <1>4, <1>5
<1>7. CASE s.status # 0
  <2>1. t = s
    BY <1>3, <1>7 DEF Write8
  <2>2. s.status = -1
    BY <1>4, <1>7 DEF IsMemory
  <2> QED
    BY <1>4, <1>5, <1>6, <2>1, <2>2
<1>8. CASE s.status = 0
  <2>1. At1(i) \in Places
    BY <1>1, <1>5
  <2>2. PICK x \in Places : x = At1(i)
    BY <2>1
  <2>3. /\ IsMemory(t)
        /\ \/ /\ t.status = 0
              /\ Byte8(t.pages, t.flash, x) = Stored(x, Byte8(s.pages, s.flash, x), b[i])
              /\ \A y \in Places \ {x} : Byte8(t.pages, t.flash, y) = Byte8(s.pages, s.flash, y)
           \/ /\ t.status = -1
              /\ t.pages = s.pages /\ t.flash = s.flash
              /\ Full(s.pages) /\ PageAddr(x) \notin DOMAIN s.pages /\ ~mock_in_flash(x)
    <3>1. PICK v \in Byte : v = b[i]
      OBVIOUS
    <3>2. t = Write8(s, x, v)
      BY <1>3, <2>2, <3>1
    <3> QED
      BY <1>4, <1>8, <3>1, <3>2, Write8Effect
  <2>4. CASE t.status = 0
    <3>1. \A j \in 1 .. (i - 1) : Byte8(t.pages, t.flash, At1(j)) = Byte8(s.pages, s.flash, At1(j))
      BY <1>1, <1>2, <1>5, <2>2, <2>3, <2>4
    <3>2. \A y \in Places : (\A j \in 1 .. i : y # At1(j)) =>
            Byte8(t.pages, t.flash, y) = Byte8(s.pages, s.flash, y)
      BY <1>5, <2>2, <2>3, <2>4
    <3> QED
      BY <1>4, <1>5, <1>6, <1>8, <2>2, <2>3, <2>4, <3>1, <3>2
  <2>5. CASE t.status = -1
    BY <1>4, <1>5, <1>6, <1>8, <2>2, <2>3, <2>5
  <2> QED
    BY <2>3, <2>4, <2>5
<1> QED
  BY <1>4, <1>7, <1>8

(* A write of at most MemEnd bytes, by induction over them.                *)
LEMMA WriteBytesEffect ==
    ASSUME NEW a \in Places, NEW b, Len(b) \in Nat, Len(b) <= MemEnd,
           \A i \in 1 .. Len(b) : b[i] \in Byte,
           NEW m, m = [pages |-> pages, flash |-> flash, status |-> 0], IsMemory(m)
    PROVE  Written(m, a, b, Len(b), WriteBytes(a, b))
<1>1. PICK g : /\ g[0] = m /\ WriteBytes(a, b) = g[Len(b)]
               /\ \A i \in 1 .. Len(b) : g[i] = Write8(g[i - 1], (a + i - 1) % MemEnd, b[i])
  BY WriteBytesIs
<1> DEFINE Bad == {i \in 0 .. Len(b) : ~Written(m, a, b, i, g[i])}
<1>2. ASSUME Bad # {} PROVE FALSE
  <2>1. Bad \subseteq Nat
    OBVIOUS
  <2>2. PICK k \in Bad : \A j \in Bad : k <= j
    <3> HIDE DEF Bad
    <3> QED
      BY <1>2, <2>1, LeastOf
  <2>3. Written(m, a, b, 0, g[0])
    <3>1. m.status = 0
      OBVIOUS
    <3> QED
      BY <1>1, <3>1 DEF Written
  <2>4. k # 0 /\ k \in 1 .. Len(b) /\ k \in Nat \ {0} /\ k <= MemEnd
    <3>1. k # 0
      BY <2>2, <2>3
    <3> QED
      BY <2>2, <3>1, MockFacts
  <2>5. k - 1 \in 0 .. Len(b) /\ k - 1 \notin Bad
    BY <2>2, <2>4
  <2>6. PICK s : s = g[k - 1]
    OBVIOUS
  <2>7. PICK t : t = g[k]
    OBVIOUS
  <2>8. Written(m, a, b, k - 1, s)
    BY <2>5, <2>6
  <2>9. t = Write8(s, (a + k - 1) % MemEnd, b[k]) /\ b[k] \in Byte
    BY <1>1, <2>4, <2>6, <2>7
  <2>10. Written(m, a, b, k, t)
    BY <2>4, <2>8, <2>9, WrittenStep
  <2> QED
    BY <2>2, <2>7, <2>10
<1> QED
  BY <1>1, <1>2

-----------------------------------------------------------------------------
(* The types of the mock's memory, which every call keeps.                 *)
MockTypes == IsTableOfPages(pages) /\ flash \in [Addr -> Byte]

(* A write in terms of the bytes it names.                                 *)
LEMMA WriteStep ==
    ASSUME MockTypes, NEW a \in Places, NEW b, Len(b) \in Nat, Len(b) <= MemEnd,
           \A i \in 1 .. Len(b) : b[i] \in Byte, mock_impl_write(a, b)
    PROVE  MockTypes' /\ WriteIsExact /\ EraseIsExact
<1>1. PICK m : m = [pages |-> pages, flash |-> flash, status |-> 0]
  OBVIOUS
<1>2. m.pages = pages /\ m.flash = flash /\ m.status = 0
  BY <1>1
<1>3. IsMemory(m)
  BY <1>1, <1>2 DEF IsMemory, MockTypes
<1>4. PICK s : s = WriteBytes(a, b)
  OBVIOUS
<1>5. pages' = s.pages /\ flash' = s.flash /\ status' = s.status
  BY <1>4 DEF mock_impl_write
<1>6. op' = "write" /\ arg' = [at |-> a, bytes |-> b]
  BY DEF mock_impl_write, Call
<1>7. arg'.at = a /\ arg'.bytes = b
  BY <1>6
<1>8. Written(m, a, b, Len(b), s)
  BY <1>1, <1>3, <1>4, WriteBytesEffect
<1> DEFINE At1(j) == (a + j - 1) % MemEnd
           N == 1 .. Len(b)
<1>9. \A j \in N : At1(j) \in Places /\ ((At1(j) - a) % MemEnd) + 1 = j
  <2>1. ASSUME NEW j \in N PROVE j \in Nat \ {0} /\ j <= MemEnd
    BY MockFacts
  <2> QED
    BY <2>1, OwnByte
<1>10. /\ IsMemory(s)
       /\ \A y \in Places : (\A j \in N : y # At1(j)) =>
             Byte8(s.pages, s.flash, y) = Byte8(m.pages, m.flash, y)
       /\ \A j \in N :
             /\ Byte8(s.pages, s.flash, At1(j)) \in
                   {Byte8(m.pages, m.flash, At1(j)), Stored(At1(j), Byte8(m.pages, m.flash, At1(j)), b[j])}
             /\ s.status = 0 => Byte8(s.pages, s.flash, At1(j)) =
                                   Stored(At1(j), Byte8(m.pages, m.flash, At1(j)), b[j])
       /\ s.status = -1 => Full(s.pages) /\ \E j \in N : PageAddr(At1(j)) \notin DOMAIN s.pages
  BY <1>8 DEF Written
<1>11. Touched' = {At1(j) : j \in N}
  BY <1>7 DEF Touched
<1>12. \A j \in N : ByteFor(At1(j))' = b[j]
  <2>1. \A x : ByteFor(x)' = b[((x - a) % MemEnd) + 1]
    BY <1>7 DEF ByteFor
  <2> HIDE DEF At1
  <2> QED
    BY <1>9, <2>1
<1>13. MockTypes'
  BY <1>5, <1>10 DEF MockTypes, IsMemory
<1>14. EraseIsExact
  BY <1>6 DEF EraseIsExact
<1> HIDE DEF At1, N
<1>15. ASSUME NEW y \in Places, Byte8(pages', flash', y) # Read(y)
       PROVE  /\ y \in Touched'
              /\ Byte8(pages', flash', y) =
                    IF mock_in_flash(y) THEN Read(y) \cap ByteFor(y)' ELSE ByteFor(y)'
  <2>1. Byte8(s.pages, s.flash, y) # Byte8(m.pages, m.flash, y) /\ Read(y) = Byte8(m.pages, m.flash, y)
    BY <1>2, <1>5, <1>15 DEF Read
  <2>2. PICK j \in N : y = At1(j)
    BY <1>10, <2>1
  <2>3. Byte8(s.pages, s.flash, y) = Stored(y, Byte8(m.pages, m.flash, y), b[j])
    BY <1>10, <2>1, <2>2
  <2>4. ByteFor(y)' = b[j]
    BY <1>12, <2>2
  <2> QED
    BY <1>5, <1>11, <2>1, <2>2, <2>3, <2>4 DEF Stored
<1>16. ASSUME status' = 0, NEW y \in Touched', ~mock_in_flash(y)
       PROVE  Read(y)' = ByteFor(y)'
  <2>1. PICK j \in N : y = At1(j)
    BY <1>11, <1>16
  <2>2. Read(y)' = Byte8(s.pages, s.flash, y)
    BY <1>5 DEF Read, Byte8, mock_in_flash
  <2>3. Byte8(s.pages, s.flash, y) = b[j]
    BY <1>5, <1>10, <1>16, <2>1 DEF Stored
  <2> QED
    BY <1>12, <2>1, <2>2, <2>3
<1>17. ASSUME status' = -1
       PROVE  Full(pages') /\ \E y \in Touched' : PageAddr(y) \notin DOMAIN pages'
  BY <1>5, <1>10, <1>11, <1>17
<1>18. WriteIsExact
  BY <1>15, <1>16, <1>17 DEF WriteIsExact
<1> QED
  BY <1>13, <1>14, <1>18

(* The start of the page of an offset.                                     *)
LEMMA PageStart ==
    ASSUME NEW g \in Nat \ {0}, NEW o \in Nat
    PROVE  \E p \in Nat : p = (o \div g) * g /\ p <= o /\ o < p + g
<1>1. o \div g \in Nat /\ (o \div g) * g <= o /\ o < (o \div g) * g + g
  BY Page
<1>2. (o \div g) * g \in Nat
  BY <1>1
<1> QED
  BY <1>1, <1>2

(* Page starts are in the order of the addresses.                          *)
LEMMA PagesInOrder ==
    ASSUME NEW g \in Nat \ {0}, NEW c \in Nat, NEW e \in Nat, c <= e
    PROVE  (c \div g) * g <= (e \div g) * g
<1>1. PICK u \in Nat : u = c \div g /\ u * g <= c /\ c < u * g + g
  BY Page
<1>2. PICK v \in Nat : v = e \div g /\ v * g <= e /\ e < v * g + g
  BY Page
<1>3. u * g \in Nat /\ v * g \in Nat
  BY <1>1, <1>2
<1>4. u * g < v * g + g
  BY <1>1, <1>2, <1>3
<1>5. v * g + g = (v + 1) * g
  BY <1>2
<1>6. u < v + 1
  BY <1>4, <1>5
<1>7. u <= v
  BY <1>6
<1>8. u * g <= v * g
  BY <1>7
<1> QED
  BY <1>1, <1>2, <1>8

(* The interval an erase computes is that of the blocks its range touches. *)
LEMMA ErasedBlocks ==
    ASSUME NEW a \in Nat, NEW n \in Nat \ {0}, RangeOk(a, n), NEW x \in Addr
    PROVE  x - Base >= EraseFirst(a, n) /\ x - Base < EraseLast(a, n) <=>
              x \in WidenToSectors(Span(a, n))
<1>a. PICK F \in Nat \ {0} : F = FlashPage
  BY MockFacts
<1>b. PICK B \in Nat : B = Base
  BY MockFacts
<1>1. /\ B \in Nat /\ Size \in Nat \ {0} /\ F \in Nat \ {0}
      /\ a >= B /\ (a - B) + n <= Size
      /\ x \in Nat /\ x >= B /\ x - B < Size
  BY <1>b, MockFacts DEF RangeOk, Addr
<1>2. PICK c \in Nat : c = a - B
  BY <1>1
<1>3. PICK d \in Nat : d = c + n - 1
  BY <1>1, <1>2
<1>4. PICK z \in Nat : z = x - B
  BY <1>1
<1>5. PICK p \in Nat : p = (c \div F) * F /\ p <= c /\ c < p + F
  BY PageStart
<1>6. PICK q \in Nat : q = (d \div F) * F /\ q <= d /\ d < q + F
  BY PageStart
<1>7. EraseFirst(a, n) = p
  BY <1>a, <1>b, <1>2, <1>5 DEF EraseFirst
<1>8. ((d \div F) + 1) * F = q + F
  <2>1. d \div F \in Nat
    BY <1>1
  <2> QED
    BY <1>1, <1>6, <2>1
<1>9. (a - B) + n - 1 = d
  BY <1>1, <1>2, <1>3
<1>10. EraseLast(a, n) = Lower(q + F, Size)
  BY <1>a, <1>b, <1>8, <1>9 DEF EraseLast
<1>11. x - B >= EraseFirst(a, n) /\ x - B < EraseLast(a, n) <=> p <= z /\ z < q + F
  BY <1>b, <1>1, <1>4, <1>7, <1>10 DEF Lower
<1>12. ASSUME NEW y \in Addr
       PROVE  \E k \in Nat : /\ k = ((y - B) \div F) * F /\ k <= y - B /\ y - B < k + F
                             /\ Sector(y) = (B + k) .. (B + k + F - 1)
  <2>1. y - B \in Nat
    BY <1>b, <1>1 DEF Addr
  <2>2. PICK k \in Nat : k = ((y - B) \div F) * F /\ k <= y - B /\ y - B < k + F
    <3>1. PICK o \in Nat : o = y - B
      BY <2>1
    <3> QED
      BY <3>1, PageStart
  <2>3. SectorStart[y] = B + k /\ SectorEnd[y] = B + k + F
    BY <1>a, <1>b, <2>2, MockAssumption
  <2> QED
    BY <2>2, <2>3 DEF Sector
<1>13. ASSUME p <= z, z < q + F PROVE x \in WidenToSectors(Span(a, n))
  <2>1. PICK k \in Nat : /\ k = ((x - B) \div F) * F /\ k <= x - B /\ x - B < k + F
                         /\ Sector(x) = (B + k) .. (B + k + F - 1)
    BY <1>12
  <2>2. CASE x \in Span(a, n)
    BY <1>1, <1>13, <2>1, <2>2 DEF WidenToSectors
  <2>3. CASE x < a
    <3>1. a \in Addr /\ a \in Span(a, n)
      BY <1>b, <1>1 DEF Addr, Span
    <3>2. Sector(a) = (B + p) .. (B + p + F - 1)
      BY <1>2, <1>5, <1>12, <3>1
    <3>3. x \in Sector(a)
      BY <1>1, <1>2, <1>4, <1>5, <1>13, <2>3, <3>2
    <3> QED
      BY <3>1, <3>3 DEF WidenToSectors
  <2>4. CASE x > a + n - 1
    <3>1. PICK y \in Nat : y = a + n - 1
      BY <1>1
    <3>2. y \in Addr /\ y \in Span(a, n) /\ y - B = d
      BY <1>1, <1>2, <1>3, <1>b, <3>1 DEF Addr, Span
    <3>3. Sector(y) = (B + q) .. (B + q + F - 1)
      BY <1>6, <1>12, <3>2
    <3>4. x \in Sector(y)
      BY <1>1, <1>2, <1>3, <1>4, <1>6, <1>13, <2>4, <3>1, <3>3
    <3> QED
      BY <3>2, <3>4 DEF WidenToSectors
  <2> QED
    BY <1>1, <2>2, <2>3, <2>4 DEF Span
<1>14. ASSUME x \in WidenToSectors(Span(a, n)) PROVE p <= z /\ z < q + F
  <2>1. PICK y \in Span(a, n) : x \in Sector(y)
    BY <1>14 DEF WidenToSectors
  <2>2. y \in Addr /\ y \in Nat /\ a <= y /\ y <= a + n - 1
    BY <1>b, <1>1, <2>1 DEF Span, Addr
  <2>3. PICK k \in Nat : /\ k = ((y - B) \div F) * F /\ k <= y - B /\ y - B < k + F
                         /\ Sector(y) = (B + k) .. (B + k + F - 1)
    BY <1>12, <2>2
  <2>4. PICK e \in Nat : e = y - B
    BY <1>1, <2>2
  <2>5. c <= e /\ e <= d
    BY <1>1, <1>2, <1>3, <2>2, <2>4
  <2>6. p <= k
    BY <1>5, <2>3, <2>4, <2>5, PagesInOrder
  <2>7. k <= q
    BY <1>6, <2>3, <2>4, <2>5, PagesInOrder
  <2> QED
    BY <1>1, <1>4, <2>1, <2>3, <2>6, <2>7
<1> QED
  BY <1>b, <1>11, <1>13, <1>14

(* An erase of the mock.                                                   *)
LEMMA EraseStep ==
    ASSUME MockTypes, NEW a \in Places, NEW n \in Nat \ {0}, mock_impl_flash_erase(a, n)
    PROVE  MockTypes' /\ WriteIsExact /\ EraseIsExact
<1> DEFINE S == {x \in Addr : x - Base >= EraseFirst(a, n) /\ x - Base < EraseLast(a, n)}
<1>1. /\ op' = "erase" /\ arg' = [at |-> a, bytes |-> [i \in 1 .. n |-> Bits]]
      /\ status' = IF RangeOk(a, n) THEN 0 ELSE -1
      /\ flash' = IF RangeOk(a, n) THEN EraseBytes(flash, S) ELSE flash
      /\ pages' = pages
  BY DEF mock_impl_flash_erase, Call
<1>2. arg'.at = a /\ Len(arg'.bytes) = n
  BY <1>1
<1>3. a \in Nat
  BY MockFacts DEF Places
<1>4. ASSUME RangeOk(a, n)
      PROVE  EraseBytes(flash, S) = EraseBytes(flash, WidenToSectors(Span(a, n)))
  <2>1. \A x \in Addr : x \in S <=> x \in WidenToSectors(Span(a, n))
    BY <1>3, <1>4, ErasedBlocks
  <2> HIDE DEF S
  <2> QED
    BY <2>1 DEF EraseBytes
<1> HIDE DEF S
<1>5. EraseIsExact
  BY <1>1, <1>2, <1>4 DEF EraseIsExact
<1>6. WriteIsExact
  BY <1>1 DEF WriteIsExact
<1>7. MockTypes'
  BY <1>1 DEF MockTypes, EraseBytes, Byte
<1> QED
  BY <1>5, <1>6, <1>7

(* Every call of the mock.                                                 *)
LEMMA MockStep ==
    ASSUME MockTypes, [NextMock]_mock
    PROVE  MockTypes' /\ [WriteIsExact /\ EraseIsExact]_mock
<1>1. ASSUME NEW a \in Places, NEW v \in Byte, mock_impl_write(a, <<v>>)
      PROVE  MockTypes' /\ WriteIsExact /\ EraseIsExact
  <2>1. PICK b : b = <<v>>
    OBVIOUS
  <2>2. Len(b) \in Nat /\ Len(b) <= MemEnd /\ \A i \in 1 .. Len(b) : b[i] \in Byte
    <3>1. Len(b) = 1 /\ b[1] = v
      BY <2>1
    <3> QED
      BY <3>1, MockFacts
  <2>3. mock_impl_write(a, b)
    BY <1>1, <2>1
  <2> QED
    BY <2>2, <2>3, WriteStep
<1>2. ASSUME NEW a \in Places, NEW b \in [1 .. Width -> Byte], mock_impl_write(a, b)
      PROVE  MockTypes' /\ WriteIsExact /\ EraseIsExact
  <2>1. Len(b) = Width
    BY MockFacts
  <2> QED
    BY <1>2, <2>1, MockFacts, WriteStep
<1>3. ASSUME NEW a \in Places, NEW n \in 1 .. (2 * Align), NEW b \in [1 .. n -> Byte],
             mock_impl_flash_write(a, b)
      PROVE  MockTypes' /\ WriteIsExact /\ EraseIsExact
  <2>1. op' = "flash_write" /\ pages' = pages
    BY <1>3 DEF mock_impl_flash_write, Call
  <2>2. PICK S, d : flash' \in {flash, ProgramBytes(flash, S, d)}
    BY <1>3 DEF mock_impl_flash_write
  <2>3. flash' \in [Addr -> Byte]
    BY <2>2 DEF MockTypes, ProgramBytes, Byte
  <2> QED
    BY <2>1, <2>3 DEF MockTypes, WriteIsExact, EraseIsExact
<1>4. ASSUME NEW a \in Places, NEW n \in 1 .. (2 * Align), mock_impl_flash_erase(a, n)
      PROVE  MockTypes' /\ WriteIsExact /\ EraseIsExact
  <2>1. n \in Nat \ {0}
    BY MockAssumption
  <2> QED
    BY <1>4, <2>1, EraseStep
<1>5. ASSUME NEW v \in Byte, mock_impl_write_reg(v)
      PROVE  MockTypes' /\ WriteIsExact /\ EraseIsExact
  BY <1>5 DEF mock_impl_write_reg, Call, MockTypes, WriteIsExact, EraseIsExact
<1>6. ASSUME mock_impl_board_run \/ mock_impl_board_halt \/ mock_impl_board_reset
      PROVE  MockTypes' /\ WriteIsExact /\ EraseIsExact
  BY <1>6 DEF mock_impl_board_run, mock_impl_board_halt, mock_impl_board_reset, Call,
              MockTypes, WriteIsExact, EraseIsExact
<1>7. ASSUME mock_impl_flash_mass_erase
      PROVE  MockTypes' /\ WriteIsExact /\ EraseIsExact
  <2>1. op' = "mass_erase" /\ pages' = pages /\ flash' = EraseBytes(flash, Addr)
    BY <1>7 DEF mock_impl_flash_mass_erase, Call
  <2>2. flash' \in [Addr -> Byte]
    BY <2>1 DEF MockTypes, EraseBytes, Byte
  <2> QED
    BY <2>1, <2>2 DEF MockTypes, WriteIsExact, EraseIsExact
<1>8. CASE UNCHANGED mock
  BY <1>8 DEF mock, MockTypes
<1>9. CASE NextMock
  BY <1>1, <1>2, <1>3, <1>4, <1>5, <1>6, <1>7, <1>9 DEF NextMock
<1> QED
  BY <1>8, <1>9

(* WritesAreExact: whatever has been written before, a memory write of the *)
(* mock stores its bytes and touches no other, also across pages, into     *)
(* flash and around the end of the address space, or fails because the     *)
(* page table is full; and an erase blanks the blocks its range touches    *)
(* and nothing else.  For every geometry, page size and table size.        *)
THEOREM MockIsExact == MockSpec => WritesAreExact
<1>1. InitMock => MockTypes
  <2> SUFFICES ASSUME InitMock PROVE MockTypes
    OBVIOUS
  <2>1. pages = << >> /\ DOMAIN pages = {} /\ pages = [p \in DOMAIN pages |-> pages[p]]
    BY DEF InitMock
  <2> QED
    BY <2>1 DEF InitMock, MockTypes, IsTableOfPages, Byte
<1>2. MockTypes /\ [NextMock]_mock => MockTypes' /\ [WriteIsExact /\ EraseIsExact]_mock
  BY MockStep
<1> QED
  BY <1>1, <1>2, PTL DEF MockSpec, WritesAreExact
==============================================================================
