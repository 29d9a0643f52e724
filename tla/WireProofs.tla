----------------------------- MODULE WireProofs -----------------------------
(***************************************************************************)
(* The parsers of Wire, for every payload and every base.                  *)
(*                                                                         *)
(* The argument goes up in layers.  A number that is read is the one whose *)
(* digits are there (U16Exact to U64Exact), so is a CompactSize            *)
(* (CompactExact), so is an entry (EntryExact).  The concatenation of a    *)
(* vector's entries is taken apart entry by entry (FlattenAppend to        *)
(* ConcatSplit), so the entries consumed are always the front of the only  *)
(* vector the payload can be the encoding of: IInv.  A version message has *)
(* fixed places up to the user agent and is taken apart field by field.    *)
(***************************************************************************)
EXTENDS Wire, SequenceTheorems, WellFoundedInduction, TLAPS

(* A number below a * c splits into a remainder below a and a quotient below c. *)
LEMMA DivMod ==
    ASSUME NEW a \in Nat, a > 0, NEW c \in Nat, NEW v \in 0 .. a * c - 1
    PROVE  /\ v % a \in 0 .. a - 1
           /\ v \div a \in 0 .. c - 1
           /\ v = (v % a) + a * (v \div a)
<1>1. /\ v \in Nat /\ v % a \in 0 .. a - 1 /\ v \div a \in Int
      /\ v = (v % a) + a * (v \div a)
  OBVIOUS
<1>2. v \div a < c
  <2>1. SUFFICES ASSUME v \div a >= c PROVE FALSE
    BY <1>1
  <2>2. a * (v \div a) >= a * c
    BY <2>1, <1>1
  <2> QED
    BY <2>2, <1>1
<1>3. v \div a >= 0
  BY <1>1
<1> QED
  BY <1>1, <1>2, <1>3

(* ... and is put together from them. *)
LEMMA DivModOf ==
    ASSUME NEW a \in Nat, a > 0, NEW c \in Nat, NEW x \in 0 .. a - 1, NEW y \in 0 .. c - 1
    PROVE  /\ x + a * y \in 0 .. a * c - 1
           /\ (x + a * y) % a = x
           /\ (x + a * y) \div a = y
<1>1. a * y \in Nat /\ a * y <= a * (c - 1) /\ a * (c - 1) = a * c - a
  OBVIOUS
<1>2. x + a * y \in 0 .. a * c - 1
  BY <1>1
<1>3. (x + a * y) % a = x
  OBVIOUS
<1>4. (x + a * y) \div a = y
  OBVIOUS
<1> QED
  BY <1>2, <1>3, <1>4

(* The four bounds on unsigned numbers are natural and grow. *)
LEMMA Bases ==
    /\ Base \in Nat /\ Base > 10 /\ B2 \in Nat /\ B4 \in Nat /\ B8 \in Nat
    /\ B2 = Base * Base /\ B4 = B2 * B2 /\ B8 = B4 * B4
    /\ Base < B2 /\ B2 < B4 /\ B4 < B8
<1>1. Base \in Nat /\ Base > 10 /\ B2 = Base * Base /\ B4 = B2 * B2 /\ B8 = B4 * B4
  BY BaseAssumption DEF B2, B4, B8
<1>2. \A b \in Nat : b > 10 => b * b \in Nat /\ b < b * b
  OBVIOUS
<1>3. B2 \in Nat /\ Base < B2
  BY <1>1, <1>2
<1>4. B4 \in Nat /\ B2 < B4
  BY <1>1, <1>2, <1>3
<1>5. B8 \in Nat /\ B4 < B8
  BY <1>1, <1>2, <1>3, <1>4
<1> QED
  BY <1>1, <1>3, <1>4, <1>5

-----------------------------------------------------------------------------
(* Where the payload agrees with a sequence of digits. *)

(* The payload agrees with b from p on, as far as it goes.                 *)
At(p, b) == \A i \in 1 .. Len(b) : p + i <= Len(payload) => payload[p + i] = b[i]

(* Concatenation keeps digits and adds lengths. *)
LEMMA Joined ==
    \A s, t \in Seq(Bytes) : s \o t \in Seq(Bytes) /\ Len(s \o t) = Len(s) + Len(t)
  BY ConcatProperties

(* The payload agrees with s \o t where it agrees with s and, after it, with t. *)
LEMMA SplitAt ==
    ASSUME payload \in Seq(Bytes), NEW p \in Nat, NEW s \in Seq(Bytes), NEW t \in Seq(Bytes)
    PROVE  /\ s \o t \in Seq(Bytes) /\ Len(s \o t) = Len(s) + Len(t)
           /\ At(p, s \o t) <=> At(p, s) /\ At(p + Len(s), t)
<1>1. /\ s \o t \in Seq(Bytes) /\ Len(s \o t) = Len(s) + Len(t)
      /\ \A i \in 1 .. Len(s) + Len(t) : (s \o t)[i] = IF i <= Len(s) THEN s[i] ELSE t[i - Len(s)]
  BY ConcatProperties
<1>2. Len(s) \in Nat /\ Len(t) \in Nat /\ Len(payload) \in Nat
  BY LenProperties
<1>3. ASSUME At(p, s \o t) PROVE At(p, s) /\ At(p + Len(s), t)
  <2>1. ASSUME NEW i \in 1 .. Len(s), p + i <= Len(payload) PROVE payload[p + i] = s[i]
    BY <1>1, <1>2, <1>3, <2>1, SMTT(60) DEF At
  <2>2. ASSUME NEW i \in 1 .. Len(t), (p + Len(s)) + i <= Len(payload)
        PROVE  payload[(p + Len(s)) + i] = t[i]
    <3>1. Len(s) + i \in 1 .. Len(s) + Len(t) /\ ~(Len(s) + i <= Len(s))
          /\ p + (Len(s) + i) = (p + Len(s)) + i /\ (Len(s) + i) - Len(s) = i
      BY <1>2
    <3>2. payload[p + (Len(s) + i)] = (s \o t)[Len(s) + i]
      BY <1>1, <1>3, <2>2, <3>1 DEF At
    <3> QED
      BY <1>1, <3>1, <3>2
  <2> QED
    BY <2>1, <2>2 DEF At
<1>4. ASSUME At(p, s), At(p + Len(s), t) PROVE At(p, s \o t)
  <2>1. SUFFICES ASSUME NEW i \in 1 .. Len(s) + Len(t), p + i <= Len(payload)
                 PROVE  payload[p + i] = (s \o t)[i]
    BY <1>1 DEF At
  <2>2. CASE i <= Len(s)
    BY <1>1, <1>2, <1>4, <2>1, <2>2 DEF At
  <2>3. CASE i > Len(s)
    <3>1. i - Len(s) \in 1 .. Len(t) /\ (p + Len(s)) + (i - Len(s)) = p + i /\ ~(i <= Len(s))
      BY <1>2, <2>3
    <3> QED
      BY <1>1, <1>4, <2>1, <3>1 DEF At
  <2> QED
    BY <1>2, <2>2, <2>3
<1> QED
  BY <1>1, <1>3, <1>4

(* One digit. *)
LEMMA SingleAt ==
    ASSUME NEW d \in Bytes, NEW p \in Nat
    PROVE  /\ <<d>> \in Seq(Bytes) /\ Len(<<d>>) = 1
           /\ At(p, <<d>>) <=> (Has(p, 1) => payload[p + 1] = d)
  BY DEF At, Has

(* A digit within the payload. *)
LEMMA DigitAt ==
    ASSUME payload \in Seq(Bytes), NEW p \in Nat, Has(p, 1)
    PROVE  payload[p + 1] \in Bytes
  BY ElementOfSeq, LenProperties DEF Has

(* Two digits. *)
LEMMA PairAt ==
    ASSUME NEW c \in Bytes, NEW d \in Bytes, NEW p \in Nat, payload \in Seq(Bytes)
    PROVE  /\ <<c, d>> \in Seq(Bytes) /\ Len(<<c, d>>) = 2
           /\ Has(p, 2) => (At(p, <<c, d>>) <=> payload[p + 1] = c /\ payload[p + 2] = d)
<1>1. <<c, d>> \in Seq(Bytes) /\ Len(<<c, d>>) = 2
  OBVIOUS
<1>2. Len(payload) \in Nat
  BY LenProperties
<1>3. <<c, d>>[1] = c /\ <<c, d>>[2] = d
  OBVIOUS
<1>4. ASSUME Has(p, 2)
      PROVE At(p, <<c, d>>) <=> payload[p + 1] = c /\ payload[p + 2] = d
  <2>1. p + 1 <= Len(payload) /\ p + 2 <= Len(payload) /\ 1 .. 2 = {1, 2}
    BY <1>2, <1>4 DEF Has
  <2> QED
    BY <1>1, <1>3, <2>1 DEF At
<1> QED
  BY <1>1, <1>4

(* What SubSeq returns. *)
LEMMA Slice ==
    ASSUME NEW S, NEW s \in Seq(S), NEW p \in Nat, NEW n \in Nat, p + n <= Len(s)
    PROVE  /\ SubSeq(s, p + 1, p + n) \in Seq(S) /\ Len(SubSeq(s, p + 1, p + n)) = n
           /\ \A i \in 1 .. n : SubSeq(s, p + 1, p + n)[i] = s[p + i]
<1>1. PICK a \in Nat, b \in Nat : a = p + 1 /\ b = p + n
  OBVIOUS
<1>2. \A i \in a .. b : s[i] \in S
  BY <1>1, ElementOfSeq, LenProperties
<1>3. a \in Int /\ b \in Int /\ b - a + 1 = n
  BY <1>1
<1>4. /\ SubSeq(s, a, b) \in Seq(S)
      /\ Len(SubSeq(s, a, b)) = IF a <= b THEN b - a + 1 ELSE 0
      /\ \A i \in 1 .. b - a + 1 : SubSeq(s, a, b)[i] = s[a + i - 1]
  BY <1>2, <1>3, SubSeqProperties
<1>5. \A i \in 1 .. n : a + i - 1 = p + i
  BY <1>1
<1>6. (IF a <= b THEN b - a + 1 ELSE 0) = n
  BY <1>1
<1> QED
  BY <1>1, <1>3, <1>4, <1>5, <1>6

(* Cursor::take: the n digits at p, the only n digits the payload agrees with. *)
LEMMA TakeAt ==
    ASSUME payload \in Seq(Bytes), NEW p \in Nat, NEW n \in Nat, Has(p, n)
    PROVE  /\ Take(p, n) \in Seq(Bytes) /\ Len(Take(p, n)) = n
           /\ At(p, Take(p, n))
           /\ \A b \in Seq(Bytes) : Len(b) = n /\ At(p, b) => b = Take(p, n)
<1>1. Len(payload) \in Nat /\ p + n <= Len(payload)
  BY LenProperties DEF Has
<1>2. /\ Take(p, n) \in Seq(Bytes) /\ Len(Take(p, n)) = n
      /\ \A i \in 1 .. n : Take(p, n)[i] = payload[p + i]
  BY <1>1, Slice DEF Take
<1>3. At(p, Take(p, n))
  BY <1>2 DEF At
<1>4. ASSUME NEW b \in Seq(Bytes), Len(b) = n, At(p, b) PROVE b = Take(p, n)
  <2>1. \A i \in 1 .. Len(b) : b[i] = Take(p, n)[i]
    BY <1>1, <1>2, <1>4 DEF At
  <2> QED
    BY <1>2, <1>4, <2>1, SeqEqual
<1> QED
  BY <1>2, <1>3, <1>4

-----------------------------------------------------------------------------
(* Numbers: what is read is the one number whose encoding is there. *)

(* to_le_bytes and to_be_bytes of a u16: two digits that make the number up. *)
LEMMA WriteU16 ==
    ASSUME NEW v \in 0 .. B2 - 1
    PROVE  /\ v % Base \in Bytes /\ v \div Base \in Bytes
           /\ v = (v % Base) + Base * (v \div Base)
           /\ LE2Bytes(v) \in Seq(Bytes) /\ Len(LE2Bytes(v)) = 2
           /\ PortBytes(v) \in Seq(Bytes) /\ Len(PortBytes(v)) = 2
<1>1. Base \in Nat /\ Base > 0 /\ v \in 0 .. Base * Base - 1
  BY Bases
<1>2. v % Base \in Bytes /\ v \div Base \in Bytes /\ v = (v % Base) + Base * (v \div Base)
  BY <1>1, DivMod DEF Bytes
<1> QED
  BY <1>2 DEF LE2Bytes, PortBytes

(* The number read is the one number written there: u16 and port. *)
LEMMA U16Exact ==
    ASSUME payload \in Seq(Bytes), NEW p \in Nat, Has(p, 2)
    PROVE  /\ U16(p) \in 0 .. B2 - 1
           /\ \A v \in 0 .. B2 - 1 : At(p, LE2Bytes(v)) <=> v = U16(p)
           /\ PortAt(p) \in 0 .. B2 - 1
           /\ \A v \in 0 .. B2 - 1 : At(p, PortBytes(v)) <=> v = PortAt(p)
<1>1. PICK c \in Bytes, d \in Bytes : c = payload[p + 1] /\ d = payload[p + 2]
  BY ElementOfSeq, LenProperties DEF Has
<1>2. c \in 0 .. Base - 1 /\ d \in 0 .. Base - 1 /\ Base \in Nat /\ Base > 0 /\ B2 = Base * Base
  BY Bases DEF Bytes
<1>3. /\ c + Base * d \in 0 .. B2 - 1 /\ (c + Base * d) % Base = c /\ (c + Base * d) \div Base = d
      /\ d + Base * c \in 0 .. B2 - 1 /\ (d + Base * c) % Base = d /\ (d + Base * c) \div Base = c
  BY <1>2, DivModOf
<1>4. U16(p) = c + Base * d /\ PortAt(p) = d + Base * c
  BY <1>1, <1>2 DEF U16, PortAt
<1>5. ASSUME NEW v \in 0 .. B2 - 1
      PROVE  /\ At(p, LE2Bytes(v)) <=> v = U16(p)
             /\ At(p, PortBytes(v)) <=> v = PortAt(p)
  <2>1. PICK x \in Bytes, y \in Bytes : x = v % Base /\ y = v \div Base /\ v = x + Base * y
    BY WriteU16
  <2>2. LE2Bytes(v) = <<x, y>> /\ PortBytes(v) = <<y, x>>
    BY <2>1 DEF LE2Bytes, PortBytes
  <2>3. /\ At(p, <<x, y>>) <=> c = x /\ d = y
        /\ At(p, <<y, x>>) <=> c = y /\ d = x
    BY <1>1, PairAt
  <2> QED
    BY <1>3, <1>4, <2>1, <2>2, <2>3
<1> QED
  BY <1>3, <1>4, <1>5

(* to_le_bytes of a u32: four digits, two u16. *)
LEMMA WriteU32 ==
    ASSUME NEW v \in 0 .. B4 - 1
    PROVE  /\ v % B2 \in 0 .. B2 - 1 /\ v \div B2 \in 0 .. B2 - 1
           /\ v = (v % B2) + B2 * (v \div B2)
           /\ LE4Bytes(v) \in Seq(Bytes) /\ Len(LE4Bytes(v)) = 4
<1>1. B2 \in Nat /\ B2 > 0 /\ v \in 0 .. B2 * B2 - 1
  BY Bases
<1>2. v % B2 \in 0 .. B2 - 1 /\ v \div B2 \in 0 .. B2 - 1 /\ v = (v % B2) + B2 * (v \div B2)
  BY <1>1, DivMod
<1> QED
  <2>1. PICK s \in Seq(Bytes), t \in Seq(Bytes) :
               /\ s = LE2Bytes(v % B2) /\ t = LE2Bytes(v \div B2)
               /\ Len(s) = 2 /\ Len(t) = 2
    BY <1>2, WriteU16
  <2>2. s \o t \in Seq(Bytes) /\ Len(s \o t) = Len(s) + Len(t)
    BY Joined
  <2>3. LE4Bytes(v) = s \o t
    BY <2>1 DEF LE4Bytes
  <2>4. Len(LE4Bytes(v)) = 4
    <3>1. Len(s) = 2 /\ Len(t) = 2
      BY <2>1
    <3>2. Len(s) + Len(t) = 4
      BY <3>1
    <3> QED
      BY <2>2, <2>3, <3>2
  <2> QED
    BY <1>2, <2>2, <2>3, <2>4

(* u32_le reads the one number written there. *)
LEMMA U32Exact ==
    ASSUME payload \in Seq(Bytes), NEW p \in Nat, Has(p, 4)
    PROVE  /\ U32(p) \in 0 .. B4 - 1
           /\ \A v \in 0 .. B4 - 1 : At(p, LE4Bytes(v)) <=> v = U32(p)
<1>1. Has(p, 2) /\ Has(p + 2, 2) /\ p + 2 \in Nat
  BY LenProperties DEF Has
<1>2. PICK c \in 0 .. B2 - 1, d \in 0 .. B2 - 1 : c = U16(p) /\ d = U16(p + 2)
  BY <1>1, U16Exact
<1>3. B2 \in Nat /\ B2 > 0 /\ B4 = B2 * B2
  BY Bases
<1>4. c + B2 * d \in 0 .. B4 - 1 /\ (c + B2 * d) % B2 = c /\ (c + B2 * d) \div B2 = d
  BY <1>3, DivModOf
<1>5. U32(p) = c + B2 * d
  BY <1>2 DEF U32
<1>6. ASSUME NEW v \in 0 .. B4 - 1 PROVE At(p, LE4Bytes(v)) <=> v = U32(p)
  <2>1. PICK x \in 0 .. B2 - 1, y \in 0 .. B2 - 1 :
               x = v % B2 /\ y = v \div B2 /\ v = x + B2 * y
    BY WriteU32
  <2>2. LE4Bytes(v) = LE2Bytes(x) \o LE2Bytes(y)
    BY <2>1 DEF LE4Bytes
  <2>3. /\ LE2Bytes(x) \in Seq(Bytes) /\ Len(LE2Bytes(x)) = 2 /\ LE2Bytes(y) \in Seq(Bytes)
        /\ At(p, LE2Bytes(x)) <=> x = c
        /\ At(p + 2, LE2Bytes(y)) <=> y = d
    BY <1>1, <1>2, WriteU16, U16Exact
  <2>4. /\ At(p, LE2Bytes(x) \o LE2Bytes(y))
             <=> At(p, LE2Bytes(x)) /\ At(p + Len(LE2Bytes(x)), LE2Bytes(y))
    BY <2>3, SplitAt
  <2>5. At(p, LE4Bytes(v)) <=> x = c /\ y = d
    BY <2>2, <2>3, <2>4
  <2> QED
    BY <1>4, <1>5, <2>1, <2>5
<1> QED
  BY <1>4, <1>5, <1>6

(* to_le_bytes of a u64: eight digits, two u32. *)
LEMMA WriteU64 ==
    ASSUME NEW v \in 0 .. B8 - 1
    PROVE  /\ v % B4 \in 0 .. B4 - 1 /\ v \div B4 \in 0 .. B4 - 1
           /\ v = (v % B4) + B4 * (v \div B4)
           /\ LE8Bytes(v) \in Seq(Bytes) /\ Len(LE8Bytes(v)) = 8
<1>1. B4 \in Nat /\ B4 > 0 /\ v \in 0 .. B4 * B4 - 1
  BY Bases
<1>2. v % B4 \in 0 .. B4 - 1 /\ v \div B4 \in 0 .. B4 - 1 /\ v = (v % B4) + B4 * (v \div B4)
  BY <1>1, DivMod
<1> QED
  <2>1. PICK s \in Seq(Bytes), t \in Seq(Bytes) :
               /\ s = LE4Bytes(v % B4) /\ t = LE4Bytes(v \div B4)
               /\ Len(s) = 4 /\ Len(t) = 4
    BY <1>2, WriteU32
  <2>2. s \o t \in Seq(Bytes) /\ Len(s \o t) = Len(s) + Len(t)
    BY Joined
  <2>3. LE8Bytes(v) = s \o t
    BY <2>1 DEF LE8Bytes
  <2>4. Len(LE8Bytes(v)) = 8
    <3>1. Len(s) = 4 /\ Len(t) = 4
      BY <2>1
    <3>2. Len(s) + Len(t) = 8
      BY <3>1
    <3> QED
      BY <2>2, <2>3, <3>2
  <2> QED
    BY <1>2, <2>2, <2>3, <2>4

(* u64_le reads the one number written there. *)
LEMMA U64Exact ==
    ASSUME payload \in Seq(Bytes), NEW p \in Nat, Has(p, 8)
    PROVE  /\ U64(p) \in 0 .. B8 - 1
           /\ \A v \in 0 .. B8 - 1 : At(p, LE8Bytes(v)) <=> v = U64(p)
<1>1. Has(p, 4) /\ Has(p + 4, 4) /\ p + 4 \in Nat
  BY LenProperties DEF Has
<1>2. PICK c \in 0 .. B4 - 1, d \in 0 .. B4 - 1 : c = U32(p) /\ d = U32(p + 4)
  BY <1>1, U32Exact
<1>3. B4 \in Nat /\ B4 > 0 /\ B8 = B4 * B4
  BY Bases
<1>4. c + B4 * d \in 0 .. B8 - 1 /\ (c + B4 * d) % B4 = c /\ (c + B4 * d) \div B4 = d
  BY <1>3, DivModOf
<1>5. U64(p) = c + B4 * d
  BY <1>2 DEF U64
<1>6. ASSUME NEW v \in 0 .. B8 - 1 PROVE At(p, LE8Bytes(v)) <=> v = U64(p)
  <2>1. PICK x \in 0 .. B4 - 1, y \in 0 .. B4 - 1 :
               x = v % B4 /\ y = v \div B4 /\ v = x + B4 * y
    BY WriteU64
  <2>2. LE8Bytes(v) = LE4Bytes(x) \o LE4Bytes(y)
    BY <2>1 DEF LE8Bytes
  <2>3. /\ LE4Bytes(x) \in Seq(Bytes) /\ Len(LE4Bytes(x)) = 4 /\ LE4Bytes(y) \in Seq(Bytes)
        /\ At(p, LE4Bytes(x)) <=> x = c
        /\ At(p + 4, LE4Bytes(y)) <=> y = d
    BY <1>1, <1>2, WriteU32, U32Exact
  <2>4. /\ At(p, LE4Bytes(x) \o LE4Bytes(y))
             <=> At(p, LE4Bytes(x)) /\ At(p + Len(LE4Bytes(x)), LE4Bytes(y))
    BY <2>3, SplitAt
  <2>5. At(p, LE8Bytes(v)) <=> x = c /\ y = d
    BY <2>2, <2>3, <2>4
  <2> QED
    BY <1>4, <1>5, <2>1, <2>5
<1> QED
  BY <1>4, <1>5, <1>6

(* Two's complement. *)
LEMMA SignedExact ==
    ASSUME NEW b \in Nat
    PROVE  /\ \A v \in 0 .. b - 1 : IsSigned(b, Signed(b, v)) /\ Unsigned(b, Signed(b, v)) = v
           /\ \A v : IsSigned(b, v) => Unsigned(b, v) \in 0 .. b - 1 /\ Signed(b, Unsigned(b, v)) = v
  BY DEF IsSigned, Signed, Unsigned

-----------------------------------------------------------------------------
(* CompactSize. *)

(* Digits after the prefix in the shortest form of v. *)
CompactWidth(v) == IF v <= Base - 4 THEN 0 ELSE IF v < B2 THEN 2 ELSE IF v < B4 THEN 4 ELSE 8

(* A CompactSize prefix and the number behind it. *)
LEMMA PrefixFollowed ==
    ASSUME payload \in Seq(Bytes), NEW p \in Nat, Has(p, 1), NEW d \in Bytes, NEW s \in Seq(Bytes)
    PROVE  /\ <<d>> \o s \in Seq(Bytes) /\ Len(<<d>> \o s) = 1 + Len(s)
           /\ At(p, <<d>> \o s) <=> payload[p + 1] = d /\ At(p + 1, s)
<1>1. PICK t \in Seq(Bytes) : t = <<d>> /\ Len(t) = 1
  BY SingleAt
<1>2. t \o s \in Seq(Bytes) /\ Len(t \o s) = Len(t) + Len(s)
  BY Joined
<1>3. At(p, t \o s) <=> At(p, t) /\ At(p + Len(t), s)
  BY SplitAt
<1>4. At(p, <<d>>) <=> payload[p + 1] = d
  BY SingleAt
<1> QED
  BY <1>1, <1>2, <1>3, <1>4

(* write_compact_size: one digit and the width of the shortest form. *)
LEMMA CompactWrite ==
    ASSUME NEW v \in 0 .. B8 - 1
    PROVE  /\ CompactBytes(v) \in Seq(Bytes)
           /\ Len(CompactBytes(v)) = 1 + CompactWidth(v)
           /\ CompactWidth(v) \in {0, 2, 4, 8}
<1>1. Base - 1 \in Bytes /\ Base - 2 \in Bytes /\ Base - 3 \in Bytes
  BY Bases DEF Bytes
<1>2. \A d \in Bytes, s \in Seq(Bytes) :
         <<d>> \o s \in Seq(Bytes) /\ Len(<<d>> \o s) = 1 + Len(s)
  <2> TAKE d \in Bytes, s \in Seq(Bytes)
  <2>1. PICK t \in Seq(Bytes) : t = <<d>> /\ Len(t) = 1
    <3>1. <<d>> \in Seq(Bytes) /\ Len(<<d>>) = 1
      OBVIOUS
    <3> QED
      BY <3>1
  <2>2. t \o s \in Seq(Bytes) /\ Len(t \o s) = Len(t) + Len(s)
    BY Joined
  <2> QED
    BY <2>1, <2>2
<1>3. CASE v <= Base - 4
  <2>1. v \in Bytes
    BY <1>3, Bases DEF Bytes
  <2>2. CompactBytes(v) = <<v>> /\ CompactWidth(v) = 0
    BY <1>3 DEF CompactBytes, CompactWidth
  <2> QED
    BY <2>1, <2>2
<1>4. CASE ~(v <= Base - 4) /\ v < B2
  <2>1. CompactBytes(v) = <<Base - 3>> \o LE2Bytes(v) /\ CompactWidth(v) = 2
    BY <1>4 DEF CompactBytes, CompactWidth
  <2>2. LE2Bytes(v) \in Seq(Bytes) /\ Len(LE2Bytes(v)) = 2
    BY <1>4, Bases, WriteU16
  <2> QED
    BY <1>1, <1>2, <2>1, <2>2
<1>5. CASE ~(v <= Base - 4) /\ ~(v < B2) /\ v < B4
  <2>1. CompactBytes(v) = <<Base - 2>> \o LE4Bytes(v) /\ CompactWidth(v) = 4
    BY <1>5 DEF CompactBytes, CompactWidth
  <2>2. LE4Bytes(v) \in Seq(Bytes) /\ Len(LE4Bytes(v)) = 4
    BY <1>5, Bases, WriteU32
  <2> QED
    BY <1>1, <1>2, <2>1, <2>2
<1>6. CASE ~(v <= Base - 4) /\ ~(v < B2) /\ ~(v < B4)
  <2>1. CompactBytes(v) = <<Base - 1>> \o LE8Bytes(v) /\ CompactWidth(v) = 8
    BY <1>6 DEF CompactBytes, CompactWidth
  <2>2. LE8Bytes(v) \in Seq(Bytes) /\ Len(LE8Bytes(v)) = 8
    BY WriteU64
  <2> QED
    BY <1>1, <1>2, <2>1, <2>2
<1> QED
  BY <1>3, <1>4, <1>5, <1>6

(* A prefix fixes the width, and the value is what the digits after it say. *)
LEMMA CompactAgrees ==
    ASSUME payload \in Seq(Bytes), NEW p \in Nat, Has(p, 1), NEW v \in 0 .. B8 - 1
    PROVE  /\ At(p, CompactBytes(v)) => Width(payload[p + 1]) = CompactWidth(v)
           /\ Has(p + 1, CompactWidth(v)) =>
                 (At(p, CompactBytes(v)) <=>
                     Width(payload[p + 1]) = CompactWidth(v) /\ ValueAt(p) = v)
           /\ v >= Least(CompactWidth(v))
<1>1. /\ Base - 1 \in Bytes /\ Base - 2 \in Bytes /\ Base - 3 \in Bytes /\ p + 1 \in Nat
      /\ payload[p + 1] \in Bytes
  BY Bases, ElementOfSeq, LenProperties DEF Bytes, Has
<1>2. CASE v <= Base - 4
  <2>1. CompactBytes(v) = <<v>> /\ CompactWidth(v) = 0 /\ v \in Bytes /\ v >= Least(0)
    BY <1>2, Bases DEF CompactBytes, CompactWidth, Bytes, Least
  <2>2. At(p, <<v>>) <=> payload[p + 1] = v
    BY <2>1, SingleAt
  <2>3. Width(v) = 0
    BY <1>2, <2>1, Bases DEF Width
  <2>4. payload[p + 1] = v => ValueAt(p) = v
    BY <1>2, <2>1, Bases DEF ValueAt
  <2>5. Width(payload[p + 1]) = 0 => ValueAt(p) = payload[p + 1]
    BY <1>1, Bases DEF Width, ValueAt
  <2> QED
    BY <2>1, <2>2, <2>3, <2>4, <2>5
<1>3. CASE ~(v <= Base - 4) /\ v < B2
  <2>1. CompactBytes(v) = <<Base - 3>> \o LE2Bytes(v) /\ CompactWidth(v) = 2
    BY <1>3 DEF CompactBytes, CompactWidth
  <2>2. v \in 0 .. B2 - 1 /\ v >= Least(2)
    BY <1>3, Bases DEF Least
  <2>3. LE2Bytes(v) \in Seq(Bytes)
    BY <2>2, WriteU16
  <2>4. At(p, CompactBytes(v)) <=> payload[p + 1] = Base - 3 /\ At(p + 1, LE2Bytes(v))
    BY <1>1, <2>1, <2>3, PrefixFollowed
  <2>5. Has(p + 1, 2) => (At(p + 1, LE2Bytes(v)) <=> v = U16(p + 1))
    BY <1>1, <2>2, U16Exact
  <2>6. /\ Width(payload[p + 1]) = 2 <=> payload[p + 1] = Base - 3
        /\ payload[p + 1] = Base - 3 => ValueAt(p) = U16(p + 1)
    BY <1>1, Bases DEF Width, ValueAt
  <2> QED
    BY <2>1, <2>2, <2>4, <2>5, <2>6
<1>4. CASE ~(v <= Base - 4) /\ ~(v < B2) /\ v < B4
  <2>1. CompactBytes(v) = <<Base - 2>> \o LE4Bytes(v) /\ CompactWidth(v) = 4
    BY <1>4 DEF CompactBytes, CompactWidth
  <2>2. v \in 0 .. B4 - 1 /\ v >= Least(4)
    BY <1>4, Bases DEF Least
  <2>3. LE4Bytes(v) \in Seq(Bytes)
    BY <2>2, WriteU32
  <2>4. At(p, CompactBytes(v)) <=> payload[p + 1] = Base - 2 /\ At(p + 1, LE4Bytes(v))
    BY <1>1, <2>1, <2>3, PrefixFollowed
  <2>5. Has(p + 1, 4) => (At(p + 1, LE4Bytes(v)) <=> v = U32(p + 1))
    BY <1>1, <2>2, U32Exact
  <2>6. /\ Width(payload[p + 1]) = 4 <=> payload[p + 1] = Base - 2
        /\ payload[p + 1] = Base - 2 => ValueAt(p) = U32(p + 1)
    BY <1>1, Bases DEF Width, ValueAt
  <2> QED
    BY <2>1, <2>2, <2>4, <2>5, <2>6
<1>5. CASE ~(v <= Base - 4) /\ ~(v < B2) /\ ~(v < B4)
  <2>1. CompactBytes(v) = <<Base - 1>> \o LE8Bytes(v) /\ CompactWidth(v) = 8
    BY <1>5 DEF CompactBytes, CompactWidth
  <2>2. v >= Least(8)
    BY <1>5, Bases DEF Least
  <2>3. LE8Bytes(v) \in Seq(Bytes)
    BY WriteU64
  <2>4. At(p, CompactBytes(v)) <=> payload[p + 1] = Base - 1 /\ At(p + 1, LE8Bytes(v))
    BY <1>1, <2>1, <2>3, PrefixFollowed
  <2>5. Has(p + 1, 8) => (At(p + 1, LE8Bytes(v)) <=> v = U64(p + 1))
    BY <1>1, U64Exact
  <2>6. /\ Width(payload[p + 1]) = 8 <=> payload[p + 1] = Base - 1
        /\ payload[p + 1] = Base - 1 => ValueAt(p) = U64(p + 1)
    BY <1>1, Bases DEF Width, ValueAt
  <2> QED
    BY <2>1, <2>2, <2>4, <2>5, <2>6
<1> QED
  BY <1>2, <1>3, <1>4, <1>5

(* What is read has the shortest form, of the width that was read. *)
LEMMA CompactValue ==
    ASSUME payload \in Seq(Bytes), NEW p \in Nat, Has(p, 1),
           Has(p + 1, Width(payload[p + 1])), ValueAt(p) >= Least(Width(payload[p + 1]))
    PROVE  ValueAt(p) \in 0 .. B8 - 1 /\ CompactWidth(ValueAt(p)) = Width(payload[p + 1])
<1>1. p + 1 \in Nat /\ payload[p + 1] \in 0 .. Base - 1
  BY DigitAt DEF Bytes
<1>2. CASE payload[p + 1] = Base - 1
  <2>1. Width(payload[p + 1]) = 8 /\ ValueAt(p) = U64(p + 1) /\ Least(8) = B4
    BY <1>2 DEF Width, ValueAt, Least
  <2>2. U64(p + 1) \in 0 .. B8 - 1
    BY <1>1, <2>1, U64Exact
  <2> QED
    BY <2>1, <2>2, Bases DEF CompactWidth
<1>3. CASE payload[p + 1] = Base - 2
  <2>1. Width(payload[p + 1]) = 4 /\ ValueAt(p) = U32(p + 1) /\ Least(4) = B2
    BY <1>3, Bases DEF Width, ValueAt, Least
  <2>2. U32(p + 1) \in 0 .. B4 - 1
    BY <1>1, <2>1, U32Exact
  <2> QED
    BY <2>1, <2>2, Bases DEF CompactWidth
<1>4. CASE payload[p + 1] = Base - 3
  <2>1. Width(payload[p + 1]) = 2 /\ ValueAt(p) = U16(p + 1) /\ Least(2) = Base - 3
    BY <1>4, Bases DEF Width, ValueAt, Least
  <2>2. U16(p + 1) \in 0 .. B2 - 1
    BY <1>1, <2>1, U16Exact
  <2> QED
    BY <2>1, <2>2, Bases DEF CompactWidth
<1>5. CASE payload[p + 1] <= Base - 4
  <2>1. Width(payload[p + 1]) = 0 /\ ValueAt(p) = payload[p + 1]
    BY <1>1, <1>5, Bases DEF Width, ValueAt
  <2> QED
    BY <1>1, <1>5, <2>1, Bases DEF CompactWidth
<1>6. payload[p + 1] <= Base - 4 \/ payload[p + 1] = Base - 3
      \/ payload[p + 1] = Base - 2 \/ payload[p + 1] = Base - 1
  BY <1>1, Bases
<1> QED
  BY <1>2, <1>3, <1>4, <1>5, <1>6

(* compact_size_canonical reads a number exactly where its shortest form   *)
(* is, and nothing where that form is cut.                                 *)
LEMMA CompactExact ==
    ASSUME payload \in Seq(Bytes), NEW p \in Nat
    PROVE  /\ CompactAt(p) # NoValue =>
                 /\ CompactAt(p).val \in 0 .. B8 - 1
                 /\ CompactAt(p).end = p + Len(CompactBytes(CompactAt(p).val))
                 /\ CompactAt(p).end \in Nat /\ CompactAt(p).end > p
                 /\ CompactAt(p).end <= Len(payload)
                 /\ At(p, CompactBytes(CompactAt(p).val))
           /\ \A v \in 0 .. B8 - 1 : At(p, CompactBytes(v)) =>
                 CompactAt(p) = IF Has(p, Len(CompactBytes(v)))
                                THEN [val |-> v, end |-> p + Len(CompactBytes(v))]
                                ELSE NoValue
<1>1. Len(payload) \in Nat
  BY LenProperties
<1>2. ASSUME CompactAt(p) # NoValue
      PROVE  /\ CompactAt(p).val \in 0 .. B8 - 1
             /\ CompactAt(p).end = p + Len(CompactBytes(CompactAt(p).val))
             /\ CompactAt(p).end \in Nat /\ CompactAt(p).end > p
             /\ CompactAt(p).end <= Len(payload)
             /\ At(p, CompactBytes(CompactAt(p).val))
  <2>1. /\ Has(p, 1) /\ Has(p + 1, Width(payload[p + 1]))
        /\ ValueAt(p) >= Least(Width(payload[p + 1]))
        /\ CompactAt(p) = [val |-> ValueAt(p), end |-> p + 1 + Width(payload[p + 1])]
    BY <1>2 DEF CompactAt
  <2>2. PICK v \in 0 .. B8 - 1 : v = ValueAt(p) /\ CompactWidth(v) = Width(payload[p + 1])
    BY <2>1, CompactValue
  <2>3. /\ Len(CompactBytes(v)) = 1 + CompactWidth(v) /\ CompactWidth(v) \in {0, 2, 4, 8}
        /\ At(p, CompactBytes(v))
    BY <2>1, <2>2, CompactWrite, CompactAgrees
  <2>4. CompactAt(p).val = v /\ CompactAt(p).end = p + 1 + CompactWidth(v)
    BY <2>1, <2>2
  <2>5. p + 1 + CompactWidth(v) <= Len(payload)
    BY <2>1, <2>2 DEF Has
  <2> QED
    BY <2>3, <2>4, <2>5
<1>3. ASSUME NEW v \in 0 .. B8 - 1, At(p, CompactBytes(v))
      PROVE  CompactAt(p) = IF Has(p, Len(CompactBytes(v)))
                            THEN [val |-> v, end |-> p + Len(CompactBytes(v))]
                            ELSE NoValue
  <2>1. Len(CompactBytes(v)) = 1 + CompactWidth(v) /\ CompactWidth(v) \in {0, 2, 4, 8}
    BY CompactWrite
  <2>2. CASE ~Has(p, 1)
    <3>1. ~Has(p, Len(CompactBytes(v)))
      BY <1>1, <2>1, <2>2 DEF Has
    <3> QED
      BY <2>2, <3>1 DEF CompactAt
  <2>3. CASE Has(p, 1)
    <3>1. Width(payload[p + 1]) = CompactWidth(v) /\ v >= Least(CompactWidth(v))
      BY <1>3, <2>3, CompactAgrees
    <3>2. Has(p, Len(CompactBytes(v))) <=> Has(p + 1, CompactWidth(v))
      BY <1>1, <2>1 DEF Has
    <3>3. CASE ~Has(p + 1, CompactWidth(v))
      BY <2>3, <3>1, <3>2, <3>3 DEF CompactAt
    <3>4. CASE Has(p + 1, CompactWidth(v))
      <4>1. ValueAt(p) = v
        BY <1>3, <2>3, <3>4, CompactAgrees
      <4>2. CompactAt(p) = [val |-> v, end |-> p + 1 + CompactWidth(v)]
        BY <2>3, <3>1, <3>4, <4>1 DEF CompactAt
      <4>3. p + 1 + CompactWidth(v) = p + Len(CompactBytes(v))
        BY <2>1
      <4> QED
        BY <3>2, <3>4, <4>2, <4>3
    <3> QED
      BY <3>3, <3>4
  <2> QED
    BY <2>2, <2>3
<1> QED
  BY <1>2, <1>3

-----------------------------------------------------------------------------
(* Entries. *)

(* Three parts of a message. *)
LEMMA SplitThree ==
    ASSUME payload \in Seq(Bytes), NEW p \in Nat,
           NEW a \in Seq(Bytes), NEW b \in Seq(Bytes), NEW c \in Seq(Bytes)
    PROVE  /\ a \o b \o c \in Seq(Bytes)
           /\ Len(a \o b \o c) = Len(a) + Len(b) + Len(c)
           /\ At(p, a \o b \o c) <=>
                 At(p, a) /\ At(p + Len(a), b) /\ At(p + Len(a) + Len(b), c)
<1>1. PICK ab \in Seq(Bytes) : ab = a \o b /\ Len(ab) = Len(a) + Len(b)
  BY Joined
<1>2. ab \o c \in Seq(Bytes) /\ Len(ab \o c) = Len(ab) + Len(c)
  BY Joined
<1>3. At(p, ab \o c) <=> At(p, ab) /\ At(p + Len(ab), c)
  BY SplitAt
<1>4. At(p, a \o b) <=> At(p, a) /\ At(p + Len(a), b)
  BY SplitAt
<1>5. p + Len(ab) = p + Len(a) + Len(b)
  BY <1>1, LenProperties
<1> QED
  BY <1>1, <1>2, <1>3, <1>4, <1>5

(* Four parts. *)
LEMMA SplitFour ==
    ASSUME payload \in Seq(Bytes), NEW p \in Nat,
           NEW a \in Seq(Bytes), NEW b \in Seq(Bytes), NEW c \in Seq(Bytes), NEW d \in Seq(Bytes)
    PROVE  /\ a \o b \o c \o d \in Seq(Bytes)
           /\ Len(a \o b \o c \o d) = Len(a) + Len(b) + Len(c) + Len(d)
           /\ At(p, a \o b \o c \o d) <=>
                 /\ At(p, a) /\ At(p + Len(a), b) /\ At(p + Len(a) + Len(b), c)
                 /\ At(p + Len(a) + Len(b) + Len(c), d)
<1>1. PICK abc \in Seq(Bytes) : abc = a \o b \o c /\ Len(abc) = Len(a) + Len(b) + Len(c)
  <2>1. a \o b \o c \in Seq(Bytes) /\ Len(a \o b \o c) = Len(a) + Len(b) + Len(c)
    BY SplitThree
  <2> QED
    BY <2>1
<1>2. abc \o d \in Seq(Bytes) /\ Len(abc \o d) = Len(abc) + Len(d)
  BY Joined
<1>3. At(p, abc \o d) <=> At(p, abc) /\ At(p + Len(abc), d)
  BY SplitAt
<1>4. At(p, a \o b \o c) <=> At(p, a) /\ At(p + Len(a), b) /\ At(p + Len(a) + Len(b), c)
  BY SplitThree
<1>5. p + Len(abc) = p + Len(a) + Len(b) + Len(c)
  BY <1>1, LenProperties
<1> QED
  BY <1>1, <1>2, <1>3, <1>4, <1>5

(* An entry as EntryAt found it: whole, within the payload, and encoded    *)
(* there.                                                                  *)
Found(k, p, r) ==
    /\ r.entry \in Entry /\ LegalEntry(k, r.entry)
    /\ At(p, EntryBytes(k, r.entry))
    /\ r.end = p + Len(EntryBytes(k, r.entry))
    /\ r.end <= Len(payload)

(* What EntryAt must give where e is encoded, whole or cut. *)
Expected(k, p, e) ==
    IF Has(p, Len(EntryBytes(k, e)))
    THEN [error |-> Nil, entry |-> e, end |-> p + Len(EntryBytes(k, e))]
    ELSE Failed("NonCanonicalOrTruncated")

(* The encoding of an entry of addr: 30 digits, its fields at fixed places. *)
LEMMA LegacyLayout ==
    ASSUME payload \in Seq(Bytes), NEW p \in Nat, NEW e \in Entry, Len(e.addr) = 16
    PROVE  /\ EntryBytes("addr", e) \in Seq(Bytes) /\ Len(EntryBytes("addr", e)) = 30
           /\ At(p, EntryBytes("addr", e)) <=>
                 /\ At(p, LE4Bytes(e.timestamp)) /\ At(p + 4, LE8Bytes(e.services))
                 /\ At(p + 12, e.addr) /\ At(p + 28, PortBytes(e.port))
<1>1. PICK a \in Seq(Bytes), b \in Seq(Bytes), c \in Seq(Bytes), d \in Seq(Bytes) :
             /\ a = LE4Bytes(e.timestamp) /\ b = LE8Bytes(e.services)
             /\ c = e.addr /\ d = PortBytes(e.port)
             /\ Len(a) = 4 /\ Len(b) = 8 /\ Len(c) = 16 /\ Len(d) = 2
  BY WriteU16, WriteU32, WriteU64 DEF Entry
<1>2. EntryBytes("addr", e) = a \o b \o c \o d
  BY <1>1 DEF EntryBytes
<1>3. /\ a \o b \o c \o d \in Seq(Bytes)
      /\ Len(a \o b \o c \o d) = Len(a) + Len(b) + Len(c) + Len(d)
      /\ At(p, a \o b \o c \o d) <=>
            /\ At(p, a) /\ At(p + Len(a), b) /\ At(p + Len(a) + Len(b), c)
            /\ At(p + Len(a) + Len(b) + Len(c), d)
  BY SplitFour
<1>4. Len(a) = 4 /\ Len(b) = 8 /\ Len(c) = 16 /\ Len(d) = 2
  BY <1>1
<1>5. /\ Len(a) + Len(b) + Len(c) + Len(d) = 30 /\ p + Len(a) = p + 4
      /\ p + Len(a) + Len(b) = p + 12 /\ p + Len(a) + Len(b) + Len(c) = p + 28
  BY <1>4
<1> QED
  BY <1>1, <1>2, <1>3, <1>5

(* An entry of addr is read exactly where one is encoded. *)
LEMMA LegacyExact ==
    ASSUME payload \in Seq(Bytes), NEW p \in Nat
    PROVE  /\ LegacyEntryAt(p).error = Nil => Found("addr", p, LegacyEntryAt(p))
           /\ LegacyEntryAt(p).error \in {Nil, "NonCanonicalOrTruncated"}
           /\ \A e \in Entry : LegalEntry("addr", e) /\ At(p, EntryBytes("addr", e)) =>
                 LegacyEntryAt(p) = Expected("addr", p, e)
<1>1. Len(payload) \in Nat /\ Nil # "NonCanonicalOrTruncated"
  BY LenProperties, NilAssumption DEF AddrParseError
<1>2. CASE ~Has(p, 30)
  <2>1. LegacyEntryAt(p) = Failed("NonCanonicalOrTruncated")
    BY <1>2 DEF LegacyEntryAt
  <2>2. \A e \in Entry : LegalEntry("addr", e) => Expected("addr", p, e) = LegacyEntryAt(p)
    BY <1>2, <2>1, LegacyLayout DEF LegalEntry, Expected
  <2> QED
    BY <1>1, <2>1, <2>2 DEF Failed
<1>3. CASE Has(p, 30)
  <2>1. PICK r : r = [timestamp |-> U32(p), services |-> U64(p + 4), id |-> 2,
                      addr |-> Take(p + 12, 16), port |-> PortAt(p + 28)]
    OBVIOUS
  <2>2. LegacyEntryAt(p) = [error |-> Nil, end |-> p + 30, entry |-> r]
    BY <1>3, <2>1 DEF LegacyEntryAt
  <2>3. /\ Has(p, 4) /\ Has(p + 4, 8) /\ Has(p + 12, 16) /\ Has(p + 28, 2)
        /\ p + 4 \in Nat /\ p + 12 \in Nat /\ p + 28 \in Nat
    BY <1>1, <1>3 DEF Has
  <2>4. /\ U32(p) \in 0 .. B4 - 1 /\ U64(p + 4) \in 0 .. B8 - 1 /\ PortAt(p + 28) \in 0 .. B2 - 1
        /\ Take(p + 12, 16) \in Seq(Bytes) /\ Len(Take(p + 12, 16)) = 16
    <3>1. U32(p) \in 0 .. B4 - 1
      BY <2>3, U32Exact
    <3>2. U64(p + 4) \in 0 .. B8 - 1
      BY <2>3, U64Exact
    <3>3. PortAt(p + 28) \in 0 .. B2 - 1
      BY <2>3, U16Exact
    <3>4. Take(p + 12, 16) \in Seq(Bytes) /\ Len(Take(p + 12, 16)) = 16
      BY <2>3, TakeAt, ZenonT(120)
    <3> QED
      BY <3>1, <3>2, <3>3, <3>4
  <2>5. r \in Entry /\ r.id = 2 /\ Len(r.addr) = 16
    BY <2>1, <2>4, Bases, SMTT(60) DEF Entry, Bytes
  <2>6. /\ At(p, LE4Bytes(U32(p))) /\ At(p + 4, LE8Bytes(U64(p + 4)))
        /\ At(p + 12, Take(p + 12, 16)) /\ At(p + 28, PortBytes(PortAt(p + 28)))
    <3>1. At(p, LE4Bytes(U32(p)))
      BY <2>3, U32Exact
    <3>2. At(p + 4, LE8Bytes(U64(p + 4)))
      BY <2>3, U64Exact
    <3>3. At(p + 12, Take(p + 12, 16))
      BY <2>3, TakeAt
    <3>4. At(p + 28, PortBytes(PortAt(p + 28)))
      BY <2>3, U16Exact
    <3> QED
      BY <3>1, <3>2, <3>3, <3>4
  <2>7. At(p, EntryBytes("addr", r)) /\ Len(EntryBytes("addr", r)) = 30
    <3>1. /\ r.timestamp = U32(p) /\ r.services = U64(p + 4) /\ r.addr = Take(p + 12, 16)
          /\ r.port = PortAt(p + 28)
      BY <2>1
    <3>2. /\ Len(EntryBytes("addr", r)) = 30
          /\ At(p, EntryBytes("addr", r)) <=>
                /\ At(p, LE4Bytes(r.timestamp)) /\ At(p + 4, LE8Bytes(r.services))
                /\ At(p + 12, r.addr) /\ At(p + 28, PortBytes(r.port))
      BY <2>5, LegacyLayout
    <3> QED
      BY <2>6, <3>1, <3>2
  <2>8. Found("addr", p, LegacyEntryAt(p))
    <3>1. LegacyEntryAt(p).entry = r /\ LegacyEntryAt(p).end = p + 30
      BY <2>2
    <3>2. LegalEntry("addr", r)
      BY <2>5 DEF LegalEntry
    <3>3. p + 30 = p + Len(EntryBytes("addr", r)) /\ p + 30 <= Len(payload)
      BY <1>3, <2>7 DEF Has
    <3> QED
      BY <2>5, <2>7, <3>1, <3>2, <3>3 DEF Found
  <2>9. ASSUME NEW e \in Entry, LegalEntry("addr", e), At(p, EntryBytes("addr", e))
        PROVE  LegacyEntryAt(p) = Expected("addr", p, e)
    <3>1. e.id = 2 /\ Len(e.addr) = 16
      BY <2>9 DEF LegalEntry
    <3>2. /\ At(p, LE4Bytes(e.timestamp)) /\ At(p + 4, LE8Bytes(e.services))
          /\ At(p + 12, e.addr) /\ At(p + 28, PortBytes(e.port))
          /\ Len(EntryBytes("addr", e)) = 30
      BY <2>9, <3>1, LegacyLayout
    <3>3. /\ e.timestamp \in 0 .. B4 - 1 /\ e.services \in 0 .. B8 - 1 /\ e.port \in 0 .. B2 - 1
          /\ e.addr \in Seq(Bytes)
      BY DEF Entry
    <3>4. /\ e.timestamp = U32(p) /\ e.services = U64(p + 4) /\ e.port = PortAt(p + 28)
          /\ e.addr = Take(p + 12, 16)
      <4>1. e.timestamp = U32(p)
        BY <2>3, <3>2, <3>3, U32Exact
      <4>2. e.services = U64(p + 4)
        BY <2>3, <3>2, <3>3, U64Exact
      <4>3. e.port = PortAt(p + 28)
        BY <2>3, <3>2, <3>3, U16Exact
      <4>4. e.addr = Take(p + 12, 16)
        BY <2>3, <3>1, <3>2, <3>3, TakeAt
      <4> QED
        BY <4>1, <4>2, <4>3, <4>4
    <3>5. e = [timestamp |-> e.timestamp, services |-> e.services, id |-> e.id,
               addr |-> e.addr, port |-> e.port]
      BY DEF Entry
    <3>6. e = r
      BY <2>1, <3>1, <3>4, <3>5
    <3> QED
      BY <1>3, <2>2, <3>2, <3>6 DEF Expected
  <2> QED
    BY <1>1, <2>2, <2>8, <2>9
<1> QED
  BY <1>2, <1>3

(* The address of a legal entry of addrv2 fits its length field. *)
LEMMA LegalLength ==
    ASSUME NEW k \in Kind, NEW e \in Entry, LegalEntry(k, e)
    PROVE  Len(e.addr) \in 0 .. B8 - 1
<1>1. Len(e.addr) \in Nat
  BY LenProperties DEF Entry
<1>2. CASE k = "addr"
  <2>1. Len(e.addr) = 16
    BY <1>2 DEF LegalEntry
  <2>2. B2 > 16
    <3>1. Base * Base >= 11 * Base
      BY Bases
    <3> QED
      BY <3>1, Bases
  <2> QED
    BY <2>1, <2>2, Bases
<1>3. CASE k # "addr"
  <2>1. Len(e.addr) <= MaxLength
    BY <1>3 DEF LegalEntry
  <2> QED
    BY <1>1, <2>1, BaseAssumption, Bases
<1> QED
  BY <1>2, <1>3


Six(a, x, y, z, c, d) == a \o (x \o y \o z) \o c \o d
SixLen(a, x, y, z, c, d) == Len(a) + Len(x) + Len(y) + Len(z) + Len(c) + Len(d)
SixAt(p, a, x, y, z, c, d) ==
    /\ At(p, a) /\ At(p + Len(a), x) /\ At(p + Len(a) + Len(x), y)
    /\ At(p + Len(a) + Len(x) + Len(y), z)
    /\ At(p + Len(a) + Len(x) + Len(y) + Len(z), c)
    /\ At(p + Len(a) + Len(x) + Len(y) + Len(z) + Len(c), d)

(* Six parts, as an entry of addrv2 is written. *)
LEMMA SplitSix ==
    ASSUME payload \in Seq(Bytes), NEW p \in Nat,
           NEW a \in Seq(Bytes), NEW x \in Seq(Bytes), NEW y \in Seq(Bytes),
           NEW z \in Seq(Bytes), NEW c \in Seq(Bytes), NEW d \in Seq(Bytes)
    PROVE  /\ Six(a, x, y, z, c, d) \in Seq(Bytes)
           /\ Len(Six(a, x, y, z, c, d)) = SixLen(a, x, y, z, c, d)
           /\ At(p, Six(a, x, y, z, c, d)) <=> SixAt(p, a, x, y, z, c, d)
<1>1. /\ Len(a) \in Nat /\ Len(x) \in Nat /\ Len(y) \in Nat /\ Len(z) \in Nat
      /\ Len(c) \in Nat /\ Len(d) \in Nat /\ p + Len(a) \in Nat
  BY LenProperties
<1>2. PICK b \in Seq(Bytes) : b = x \o y \o z /\ Len(b) = Len(x) + Len(y) + Len(z)
  <2>1. x \o y \o z \in Seq(Bytes) /\ Len(x \o y \o z) = Len(x) + Len(y) + Len(z)
    BY SplitThree
  <2> QED
    BY <2>1
<1>3. /\ a \o b \o c \o d \in Seq(Bytes)
      /\ Len(a \o b \o c \o d) = Len(a) + Len(b) + Len(c) + Len(d)
      /\ At(p, a \o b \o c \o d) <=>
            /\ At(p, a) /\ At(p + Len(a), b) /\ At(p + Len(a) + Len(b), c)
            /\ At(p + Len(a) + Len(b) + Len(c), d)
  BY SplitFour, SMTT(60)
<1>4. At(p + Len(a), x \o y \o z) <=>
         /\ At(p + Len(a), x) /\ At(p + Len(a) + Len(x), y)
         /\ At(p + Len(a) + Len(x) + Len(y), z)
  BY <1>1, SplitThree
<1>5. /\ p + Len(a) + Len(b) = p + Len(a) + Len(x) + Len(y) + Len(z)
      /\ p + Len(a) + Len(b) + Len(c) = p + Len(a) + Len(x) + Len(y) + Len(z) + Len(c)
      /\ Len(a) + Len(b) + Len(c) + Len(d)
            = Len(a) + Len(x) + Len(y) + Len(z) + Len(c) + Len(d)
  BY <1>1, <1>2
<1> QED
  BY <1>2, <1>3, <1>4, <1>5 DEF Six, SixLen, SixAt

(* The digits that precede the address of an entry, and its whole length. *)
ServicesLength(e) == Len(CompactBytes(e.services))
LengthLength(e) == Len(CompactBytes(Len(e.addr)))
Addrv2Length(e) == 4 + ServicesLength(e) + 1 + LengthLength(e) + Len(e.addr) + 2

Addrv2At(p, e) ==
    /\ At(p, LE4Bytes(e.timestamp)) /\ At(p + 4, CompactBytes(e.services))
    /\ At(p + 4 + ServicesLength(e), <<e.id>>)
    /\ At(p + 4 + ServicesLength(e) + 1, CompactBytes(Len(e.addr)))
    /\ At(p + 4 + ServicesLength(e) + 1 + LengthLength(e), e.addr)
    /\ At(p + 4 + ServicesLength(e) + 1 + LengthLength(e) + Len(e.addr), PortBytes(e.port))

(* The encoding of an entry of addrv2: its length, and what stands where. *)
LEMMA Addrv2Layout ==
    ASSUME payload \in Seq(Bytes), NEW p \in Nat, NEW e \in Entry, LegalEntry("addrv2", e)
    PROVE  /\ EntryBytes("addrv2", e) \in Seq(Bytes)
           /\ Len(EntryBytes("addrv2", e)) = Addrv2Length(e)
           /\ At(p, EntryBytes("addrv2", e)) <=> Addrv2At(p, e)
<1>1. /\ e.timestamp \in 0 .. B4 - 1 /\ e.services \in 0 .. B8 - 1 /\ e.port \in 0 .. B2 - 1
      /\ e.addr \in Seq(Bytes) /\ e.id \in Bytes /\ Len(e.addr) \in 0 .. B8 - 1
  <2>1. Len(e.addr) \in 0 .. B8 - 1
    BY LegalLength DEF Kind
  <2> QED
    BY <2>1 DEF Entry
<1>2. PICK a \in Seq(Bytes) : a = LE4Bytes(e.timestamp) /\ Len(a) = 4
  BY <1>1, WriteU32
<1>3. PICK x \in Seq(Bytes) : x = CompactBytes(e.services)
  BY <1>1, CompactWrite
<1>4. PICK y \in Seq(Bytes) : y = <<e.id>> /\ Len(y) = 1
  BY <1>1, SingleAt
<1>5. PICK z \in Seq(Bytes) : z = CompactBytes(Len(e.addr))
  BY <1>1, CompactWrite
<1>6. PICK c \in Seq(Bytes) : c = e.addr
  BY <1>1
<1>7. PICK d \in Seq(Bytes) : d = PortBytes(e.port) /\ Len(d) = 2
  BY <1>1, WriteU16
<1>8. EntryBytes("addrv2", e) = Six(a, x, y, z, c, d)
  BY <1>2, <1>3, <1>4, <1>5, <1>6, <1>7 DEF EntryBytes, Six
<1>9. /\ Six(a, x, y, z, c, d) \in Seq(Bytes)
      /\ Len(Six(a, x, y, z, c, d)) = SixLen(a, x, y, z, c, d)
      /\ At(p, Six(a, x, y, z, c, d)) <=> SixAt(p, a, x, y, z, c, d)
  BY SplitSix
<1>10. Addrv2Length(e) = SixLen(a, x, y, z, c, d)
  BY <1>2, <1>3, <1>4, <1>5, <1>6, <1>7 DEF Addrv2Length, ServicesLength, LengthLength, SixLen
<1>11. Addrv2At(p, e) <=> SixAt(p, a, x, y, z, c, d)
  BY <1>2, <1>3, <1>4, <1>5, <1>6, <1>7 DEF Addrv2At, ServicesLength, LengthLength, SixAt
<1> QED
  BY <1>8, <1>9, <1>10, <1>11

(* What Addrv2EntryAt reads on the way. *)
ServicesAt(p) == CompactAt(p + 4)
LengthAt(p) == CompactAt(ServicesAt(p).end + 1)
IdAt(p) == payload[ServicesAt(p).end + 1]
AddrAt(p) == Take(LengthAt(p).end, LengthAt(p).val)
EndAt(p) == LengthAt(p).end + LengthAt(p).val + 2
WrongLength(id, n) == n > MaxLength \/ (id \in KnownIds /\ n # ExpectedLength[id])
Read(p) == [timestamp |-> U32(p), services |-> ServicesAt(p).val, id |-> IdAt(p),
            addr |-> AddrAt(p), port |-> PortAt(EndAt(p) - 2)]

(* Addrv2EntryAt by the names above. *)
LEMMA Addrv2Reads ==
    ASSUME NEW p \in Nat
    PROVE  Addrv2EntryAt(p) =
              IF LengthAt(p) = NoValue THEN Failed("NonCanonicalOrTruncated")
              ELSE IF WrongLength(IdAt(p), LengthAt(p).val) THEN Failed("WrongLength")
              ELSE IF EndAt(p) > Len(payload) THEN Failed("NonCanonicalOrTruncated")
              ELSE IF InvalidEncoding(IdAt(p), AddrAt(p)) THEN Failed("InvalidNetworkEncoding")
              ELSE [error |-> Nil, end |-> EndAt(p), entry |-> Read(p)]
BY DEF Addrv2EntryAt, ServicesAt, LengthAt, IdAt, AddrAt, EndAt, WrongLength, Read

(* What was read before the address, once the length was. *)
LEMMA Addrv2Numbers ==
    ASSUME payload \in Seq(Bytes), NEW p \in Nat, LengthAt(p) # NoValue
    PROVE  /\ ServicesAt(p).val \in 0 .. B8 - 1 /\ LengthAt(p).val \in 0 .. B8 - 1
           /\ ServicesAt(p).end = p + 4 + Len(CompactBytes(ServicesAt(p).val))
           /\ ServicesAt(p).end \in Nat
           /\ LengthAt(p).end = ServicesAt(p).end + 1 + Len(CompactBytes(LengthAt(p).val))
           /\ LengthAt(p).end \in Nat /\ LengthAt(p).end <= Len(payload)
           /\ Has(p, 4) /\ Has(ServicesAt(p).end, 1) /\ IdAt(p) \in Bytes
           /\ At(p + 4, CompactBytes(ServicesAt(p).val))
           /\ At(ServicesAt(p).end + 1, CompactBytes(LengthAt(p).val))
<1>1. Len(payload) \in Nat /\ p + 4 \in Nat
  BY LenProperties
<1>2. ServicesAt(p) # NoValue
  <2>1. SUFFICES ASSUME ServicesAt(p) = NoValue PROVE LengthAt(p) = NoValue
    OBVIOUS
  <2>2. ServicesAt(p).end = Len(payload) + 1
    BY <2>1 DEF NoValue
  <2>3. ~Has(ServicesAt(p).end + 1, 1)
    BY <1>1, <2>2 DEF Has
  <2> QED
    BY <2>3 DEF LengthAt, CompactAt
<1>3. PICK q \in Nat : q = p + 4
  BY <1>1
<1>4. /\ CompactAt(q).val \in 0 .. B8 - 1
      /\ CompactAt(q).end = q + Len(CompactBytes(CompactAt(q).val))
      /\ CompactAt(q).end \in Nat /\ CompactAt(q).end > q
      /\ CompactAt(q).end <= Len(payload)
      /\ At(q, CompactBytes(CompactAt(q).val))
  BY <1>2, <1>3, CompactExact DEF ServicesAt
<1>5. ServicesAt(p) = CompactAt(q)
  BY <1>3 DEF ServicesAt
<1>6. PICK m \in Nat : m = ServicesAt(p).end + 1
  BY <1>4, <1>5
<1>7. LengthAt(p) = CompactAt(m)
  BY <1>6 DEF LengthAt
<1>8. /\ CompactAt(m).val \in 0 .. B8 - 1
      /\ CompactAt(m).end = m + Len(CompactBytes(CompactAt(m).val))
      /\ CompactAt(m).end \in Nat /\ CompactAt(m).end > m
      /\ CompactAt(m).end <= Len(payload)
      /\ At(m, CompactBytes(CompactAt(m).val))
  BY <1>7, CompactExact
<1>9. Has(p, 4) /\ Has(ServicesAt(p).end, 1)
  BY <1>1, <1>3, <1>4, <1>5, <1>6, <1>8 DEF Has
<1>10. IdAt(p) \in Bytes
  <2>1. ServicesAt(p).end \in Nat
    BY <1>4, <1>5
  <2> QED
    BY <1>9, <2>1, DigitAt DEF IdAt
<1> QED
  BY <1>3, <1>4, <1>5, <1>6, <1>7, <1>8, <1>9, <1>10

(* A sound entry is encoded where parse_addrv2 read it. *)
LEMMA Addrv2Found ==
    ASSUME payload \in Seq(Bytes), NEW p \in Nat, Addrv2EntryAt(p).error = Nil
    PROVE  Found("addrv2", p, Addrv2EntryAt(p))
<1>1. Len(payload) \in Nat
  BY LenProperties
<1>2. /\ LengthAt(p) # NoValue /\ ~WrongLength(IdAt(p), LengthAt(p).val)
      /\ EndAt(p) <= Len(payload) /\ ~InvalidEncoding(IdAt(p), AddrAt(p))
      /\ Addrv2EntryAt(p) = [error |-> Nil, end |-> EndAt(p), entry |-> Read(p)]
  <2>1. Nil \notin {"NonCanonicalOrTruncated", "WrongLength", "InvalidNetworkEncoding"}
    BY NilAssumption DEF AddrParseError
  <2>2. LengthAt(p) # NoValue
    BY <2>1, Addrv2Reads DEF Failed
  <2>3. ~WrongLength(IdAt(p), LengthAt(p).val)
    BY <2>1, <2>2, Addrv2Reads DEF Failed
  <2>4. ~(EndAt(p) > Len(payload))
    BY <2>1, <2>2, <2>3, Addrv2Reads DEF Failed
  <2>5. ~InvalidEncoding(IdAt(p), AddrAt(p))
    BY <2>1, <2>2, <2>3, <2>4, Addrv2Reads DEF Failed
  <2>6. Addrv2EntryAt(p) = [error |-> Nil, end |-> EndAt(p), entry |-> Read(p)]
    BY <2>2, <2>3, <2>4, <2>5, Addrv2Reads
  <2>7. EndAt(p) \in Nat
    BY <2>2, Addrv2Numbers DEF EndAt
  <2>8. EndAt(p) <= Len(payload)
    BY <1>1, <2>4, <2>7
  <2> QED
    BY <2>2, <2>3, <2>5, <2>6, <2>8
<1>3. PICK sv \in 0 .. B8 - 1, n \in 0 .. B8 - 1, q \in Nat, m \in Nat, id \in Bytes :
        /\ sv = ServicesAt(p).val /\ n = LengthAt(p).val /\ q = ServicesAt(p).end
        /\ m = LengthAt(p).end /\ id = IdAt(p)
  BY <1>2, Addrv2Numbers
<1>4. /\ q = p + 4 + Len(CompactBytes(sv)) /\ m = q + 1 + Len(CompactBytes(n))
      /\ Has(p, 4) /\ Has(q, 1)
      /\ At(p + 4, CompactBytes(sv)) /\ At(q + 1, CompactBytes(n))
  BY <1>2, <1>3, Addrv2Numbers
<1>5. n \in Nat /\ EndAt(p) = m + n + 2 /\ EndAt(p) - 2 = m + n /\ m + n \in Nat
  BY <1>3 DEF EndAt
<1>6. Has(m, n) /\ Has(m + n, 2)
  BY <1>1, <1>2, <1>5 DEF Has
<1>7. /\ AddrAt(p) \in Seq(Bytes) /\ Len(AddrAt(p)) = n /\ At(m, AddrAt(p))
  BY <1>3, <1>5, <1>6, TakeAt DEF AddrAt
<1>8. U32(p) \in 0 .. B4 - 1 /\ At(p, LE4Bytes(U32(p)))
  BY <1>4, U32Exact
<1>9. PortAt(m + n) \in 0 .. B2 - 1 /\ At(m + n, PortBytes(PortAt(m + n)))
  BY <1>5, <1>6, U16Exact
<1>10. At(q, <<id>>)
  BY <1>3, SingleAt DEF IdAt
<1>11. PICK e : /\ e = Read(p) /\ e.timestamp = U32(p) /\ e.services = sv /\ e.id = id
                /\ e.addr = AddrAt(p) /\ e.port = PortAt(m + n) /\ e \in Entry
  <2>1. Read(p) = [timestamp |-> U32(p), services |-> sv, id |-> id,
                   addr |-> AddrAt(p), port |-> PortAt(m + n)]
    BY <1>3, <1>5 DEF Read
  <2> QED
    BY <1>7, <1>8, <1>9, <2>1 DEF Entry
<1>12. Len(e.addr) = n
  BY <1>7, <1>11
<1>13. LegalEntry("addrv2", e)
  <2>1. ~WrongLength(e.id, Len(e.addr)) /\ ~InvalidEncoding(e.id, e.addr)
    BY <1>2, <1>3, <1>11, <1>12
  <2>2. Len(e.addr) <= MaxLength /\ (e.id \in KnownIds => Len(e.addr) = ExpectedLength[e.id])
    <3>1. ~(n > MaxLength) /\ (e.id \in KnownIds => n = ExpectedLength[e.id])
      BY <1>12, <2>1 DEF WrongLength
    <3>2. n <= MaxLength
      BY <1>5, <3>1, BaseAssumption
    <3> QED
      BY <1>12, <3>1, <3>2
  <2>3. /\ e.id = 2 => e.addr[1] # FC /\ SubSeq(e.addr, 1, 12) # MappedPrefix
        /\ e.id = 6 => e.addr[1] = FC
    BY <2>1 DEF InvalidEncoding, Ipv4Mapped
  <2> QED
    BY <2>2, <2>3 DEF LegalEntry
<1>14. Addrv2At(p, e) /\ Addrv2Length(e) = EndAt(p) - p
  <2>1. ServicesLength(e) = Len(CompactBytes(sv)) /\ LengthLength(e) = Len(CompactBytes(n))
    BY <1>11, <1>12 DEF ServicesLength, LengthLength
  <2>2. ServicesLength(e) \in Nat /\ LengthLength(e) \in Nat
    <3>1. CompactBytes(sv) \in Seq(Bytes) /\ CompactBytes(n) \in Seq(Bytes)
      BY CompactWrite
    <3> QED
      BY <2>1, <3>1, LenProperties
  <2>3. p + 4 + ServicesLength(e) = q /\ p + 4 + ServicesLength(e) + 1 = q + 1
    BY <1>4, <2>1
  <2>4. p + 4 + ServicesLength(e) + 1 + LengthLength(e) = m
    BY <1>4, <2>1
  <2>5. p + 4 + ServicesLength(e) + 1 + LengthLength(e) + Len(e.addr) = m + n
    BY <1>12, <2>4
  <2>6. Addrv2Length(e) = EndAt(p) - p
    <3>1. PICK sl \in Nat, ll \in Nat : sl = ServicesLength(e) /\ ll = LengthLength(e)
      BY <2>2
    <3>2. m = p + 4 + sl + 1 + ll /\ Addrv2Length(e) = 4 + sl + 1 + ll + n + 2
      BY <1>12, <2>4, <3>1 DEF Addrv2Length
    <3> QED
      BY <1>5, <3>2
  <2>7. Addrv2At(p, e)
    BY <1>4, <1>7, <1>8, <1>9, <1>10, <1>11, <1>12, <2>3, <2>4, <2>5 DEF Addrv2At
  <2> QED
    BY <2>6, <2>7
<1>15. At(p, EntryBytes("addrv2", e)) /\ Len(EntryBytes("addrv2", e)) = EndAt(p) - p
  BY <1>11, <1>13, <1>14, Addrv2Layout
<1>16. EndAt(p) = p + Len(EntryBytes("addrv2", e))
  BY <1>5, <1>15
<1> QED
  BY <1>2, <1>11, <1>13, <1>15, <1>16 DEF Found

(* An encoded legal entry is read back, or is cut by the end of the payload. *)
LEMMA Addrv2Expected ==
    ASSUME payload \in Seq(Bytes), NEW p \in Nat, NEW e \in Entry, LegalEntry("addrv2", e),
           At(p, EntryBytes("addrv2", e))
    PROVE  Addrv2EntryAt(p) = Expected("addrv2", p, e)
<1>1. Len(payload) \in Nat
  BY LenProperties
<1>2. /\ e.timestamp \in 0 .. B4 - 1 /\ e.services \in 0 .. B8 - 1 /\ e.port \in 0 .. B2 - 1
      /\ e.addr \in Seq(Bytes) /\ e.id \in Bytes /\ Len(e.addr) \in 0 .. B8 - 1
  <2>1. Len(e.addr) \in 0 .. B8 - 1
    BY LegalLength DEF Kind
  <2> QED
    BY <2>1 DEF Entry
<1>3. PICK sv \in 0 .. B8 - 1, n \in 0 .. B8 - 1, sl \in Nat, ll \in Nat :
        /\ sv = e.services /\ n = Len(e.addr) /\ sl = ServicesLength(e) /\ ll = LengthLength(e)
        /\ sl = Len(CompactBytes(sv)) /\ ll = Len(CompactBytes(n))
  <2>1. CompactBytes(e.services) \in Seq(Bytes) /\ CompactBytes(Len(e.addr)) \in Seq(Bytes)
    BY <1>2, CompactWrite
  <2> QED
    BY <1>2, <2>1, LenProperties DEF ServicesLength, LengthLength
<1>4. PICK q \in Nat, m \in Nat, a \in Nat : q = p + 4 + sl /\ m = q + 1 + ll /\ a = m + n
  OBVIOUS
<1>5. n \in Nat
  OBVIOUS
<1>6. /\ At(p, LE4Bytes(e.timestamp)) /\ At(p + 4, CompactBytes(sv)) /\ At(q, <<e.id>>)
      /\ At(q + 1, CompactBytes(n)) /\ At(m, e.addr) /\ At(a, PortBytes(e.port))
  <2>1. Addrv2At(p, e)
    BY Addrv2Layout
  <2>2. /\ p + 4 + ServicesLength(e) = q /\ p + 4 + ServicesLength(e) + 1 = q + 1
        /\ p + 4 + ServicesLength(e) + 1 + LengthLength(e) = m
        /\ p + 4 + ServicesLength(e) + 1 + LengthLength(e) + Len(e.addr) = a
    BY <1>3, <1>4
  <2> QED
    BY <1>3, <2>1, <2>2 DEF Addrv2At
<1>7. PICK t \in Nat : t = Len(EntryBytes("addrv2", e)) /\ p + t = a + 2
  <2>1. Len(EntryBytes("addrv2", e)) = 4 + sl + 1 + ll + n + 2
    BY <1>3, Addrv2Layout DEF Addrv2Length
  <2> QED
    BY <1>4, <1>5, <2>1
<1>8. Has(p, t) <=> a + 2 <= Len(payload)
  BY <1>7 DEF Has
<1>9. ServicesAt(p) = IF Has(p + 4, sl) THEN [val |-> sv, end |-> p + 4 + sl] ELSE NoValue
  <2>1. PICK b \in Nat : b = p + 4
    OBVIOUS
  <2>2. CompactAt(b) = IF Has(b, Len(CompactBytes(sv)))
                       THEN [val |-> sv, end |-> b + Len(CompactBytes(sv))] ELSE NoValue
    BY <1>6, <2>1, CompactExact
  <2> QED
    BY <1>3, <2>1, <2>2 DEF ServicesAt
<1>10. CASE ~Has(p + 4, sl)
  <2>1. ServicesAt(p).end = Len(payload) + 1
    BY <1>9, <1>10 DEF NoValue
  <2>2. ~Has(ServicesAt(p).end + 1, 1)
    BY <1>1, <2>1 DEF Has
  <2>3. LengthAt(p) = NoValue
    BY <2>2 DEF LengthAt, CompactAt
  <2>4. ~Has(p, t)
    BY <1>1, <1>4, <1>5, <1>8, <1>10 DEF Has
  <2> QED
    BY <1>7, <2>3, <2>4, Addrv2Reads DEF Expected
<1>11. CASE Has(p + 4, sl)
  <2>1. ServicesAt(p).val = sv /\ ServicesAt(p).end = q
    BY <1>4, <1>9, <1>11
  <2>2. LengthAt(p) = IF Has(q + 1, ll) THEN [val |-> n, end |-> q + 1 + ll] ELSE NoValue
    <3>1. PICK b \in Nat : b = q + 1
      OBVIOUS
    <3>2. CompactAt(b) = IF Has(b, Len(CompactBytes(n)))
                         THEN [val |-> n, end |-> b + Len(CompactBytes(n))] ELSE NoValue
      BY <1>6, <3>1, CompactExact
    <3> QED
      BY <1>3, <2>1, <3>1, <3>2 DEF LengthAt
  <2>3. CASE ~Has(q + 1, ll)
    <3>1. ~Has(p, t)
      BY <1>1, <1>4, <1>5, <1>8, <2>3 DEF Has
    <3> QED
      BY <1>7, <2>2, <2>3, <3>1, Addrv2Reads DEF Expected
  <2>4. CASE Has(q + 1, ll)
    <3>1. LengthAt(p).val = n /\ LengthAt(p).end = m /\ LengthAt(p).end # Len(payload) + 1
      BY <1>1, <1>4, <2>2, <2>4 DEF Has
    <3>2. LengthAt(p) # NoValue
      BY <3>1 DEF NoValue
    <3>3. Has(q, 1)
      BY <1>1, <2>4 DEF Has
    <3>4. IdAt(p) = e.id
      BY <1>2, <1>6, <2>1, <3>3, SingleAt DEF IdAt
    <3>5. ~WrongLength(IdAt(p), LengthAt(p).val)
      <4>1. n <= MaxLength /\ (e.id \in KnownIds => n = ExpectedLength[e.id])
        BY <1>3 DEF LegalEntry
      <4>2. ~(n > MaxLength)
        BY <1>5, <4>1, BaseAssumption
      <4> QED
        BY <3>1, <3>4, <4>1, <4>2 DEF WrongLength
    <3>6. EndAt(p) = a + 2 /\ EndAt(p) - 2 = a
      BY <1>4, <1>5, <3>1 DEF EndAt
    <3>7. CASE ~(a + 2 <= Len(payload))
      <4>1. EndAt(p) > Len(payload)
        BY <1>1, <3>6, <3>7
      <4> QED
        BY <1>7, <1>8, <3>2, <3>5, <3>7, <4>1, Addrv2Reads DEF Expected
    <3>8. CASE a + 2 <= Len(payload)
      <4>1. ~(EndAt(p) > Len(payload))
        BY <1>1, <3>6, <3>8
      <4>2. Has(p, 4) /\ Has(m, n) /\ Has(a, 2)
        BY <1>1, <1>4, <1>5, <3>8 DEF Has
      <4>3. AddrAt(p) = e.addr
        BY <1>2, <1>3, <1>5, <1>6, <3>1, <4>2, TakeAt DEF AddrAt
      <4>4. U32(p) = e.timestamp
        BY <1>2, <1>6, <4>2, U32Exact
      <4>5. PortAt(EndAt(p) - 2) = e.port
        BY <1>2, <1>6, <3>6, <4>2, U16Exact
      <4>6. ~InvalidEncoding(IdAt(p), AddrAt(p))
        BY <3>4, <4>3 DEF LegalEntry, InvalidEncoding, Ipv4Mapped
      <4>7. Read(p) = e
        <5>1. e = [timestamp |-> e.timestamp, services |-> e.services, id |-> e.id,
                   addr |-> e.addr, port |-> e.port]
          BY DEF Entry
        <5> QED
          BY <1>3, <2>1, <3>4, <4>3, <4>4, <4>5, <5>1 DEF Read
      <4>8. Addrv2EntryAt(p) = [error |-> Nil, end |-> EndAt(p), entry |-> Read(p)]
        BY <3>2, <3>5, <4>1, <4>6, Addrv2Reads
      <4> QED
        BY <1>7, <1>8, <3>6, <3>8, <4>7, <4>8 DEF Expected
    <3> QED
      BY <3>7, <3>8
  <2> QED
    BY <2>3, <2>4
<1> QED
  BY <1>10, <1>11

(* Both formats: an entry is read exactly where a legal one is encoded. *)
LEMMA EntryExact ==
    ASSUME payload \in Seq(Bytes), NEW p \in Nat, kind \in {"addr", "addrv2"}
    PROVE  /\ EntryAt(p).error = Nil => Found(kind, p, EntryAt(p))
           /\ EntryAt(p).error \in {Nil} \cup AddrParseError
           /\ \A e \in Entry : LegalEntry(kind, e) /\ At(p, EntryBytes(kind, e)) =>
                 EntryAt(p) = Expected(kind, p, e)
<1>1. CASE kind = "addr"
  BY <1>1, LegacyExact DEF EntryAt, AddrParseError
<1>2. CASE kind = "addrv2"
  <2>1. EntryAt(p) = Addrv2EntryAt(p)
    BY <1>2 DEF EntryAt
  <2>2. Addrv2EntryAt(p).error \in {Nil} \cup AddrParseError
    BY Addrv2Reads DEF Failed, AddrParseError
  <2> QED
    BY <1>2, <2>1, <2>2, Addrv2Found, Addrv2Expected
<1> QED
  BY <1>1, <1>2

-----------------------------------------------------------------------------
(* FlattenSeq, unrolled at its last element.  Its recursion is over the    *)
(* positions of one sequence, so that its defining function exists, and    *)
(* what it holds below a position, follow by a least counterexample.       *)

(* Every nonempty set of naturals has a least element. *)
LEMMA LeastNumber ==
    ASSUME NEW T \in SUBSET Nat, T # {}
    PROVE  \E n \in T : \A m \in T : n <= m
<1>1. PICK n \in T : \A m \in T : ~(<<m, n>> \in OpToRel(<, Nat))
  BY WFMin, NatLessThanWellFounded
<1>2. \A m \in T : ~(m < n)
  BY <1>1 DEF OpToRel
<1> QED
  BY <1>2

Flattens(f, n, ss) == f = [i \in 1 .. n |-> IF i = 1 THEN ss[i] ELSE f[i - 1] \o ss[i]]

(* There is a function of the shape FlattenSeq builds, for every length. *)
LEMMA FlattensExists ==
    ASSUME NEW ss, NEW n \in Nat
    PROVE  \E f : Flattens(f, n, ss)
<1> DEFINE T == {m \in Nat : ~(\E f : Flattens(f, m, ss))}
<1>1. SUFFICES T = {}
  OBVIOUS
<1>2. SUFFICES ASSUME T # {} PROVE FALSE
  OBVIOUS
<1>3. PICK m \in T : \A l \in T : m <= l
  BY <1>2, LeastNumber
<1>4. m \in Nat /\ ~(\E f : Flattens(f, m, ss))
  OBVIOUS
<1>5. CASE m = 0
  <2>1. 1 .. 0 = {}
    OBVIOUS
  <2>2. [i \in {} |-> i] = [i \in {} |-> IF i = 1 THEN ss[i] ELSE [j \in {} |-> j][i - 1] \o ss[i]]
    OBVIOUS
  <2>3. Flattens([i \in {} |-> i], 0, ss)
    BY <2>1, <2>2 DEF Flattens
  <2> QED
    BY <1>4, <1>5, <2>3
<1>6. CASE m # 0
  <2>1. m - 1 \in Nat /\ m - 1 \notin T
    BY <1>3, <1>4, <1>6
  <2>2. PICK f : Flattens(f, m - 1, ss)
    BY <2>1
  <2>3. PICK g : g = [i \in 1 .. m |-> IF i = 1 THEN ss[i] ELSE f[i - 1] \o ss[i]]
    OBVIOUS
  <2>4. \A i \in 1 .. m : i # 1 => i - 1 \in 1 .. m - 1 /\ i - 1 \in 1 .. m
    BY <1>4
  <2>5. ASSUME NEW i \in 1 .. m - 1 PROVE g[i] = f[i]
    <3>1. i \in 1 .. m
      BY <1>4
    <3>2. g[i] = IF i = 1 THEN ss[i] ELSE f[i - 1] \o ss[i]
      BY <2>3, <3>1, Zenon
    <3>3. f[i] = IF i = 1 THEN ss[i] ELSE f[i - 1] \o ss[i]
      BY <2>2, Zenon DEF Flattens
    <3> QED
      BY <3>2, <3>3, Zenon
  <2>6. \A i \in 1 .. m : i # 1 => g[i - 1] = f[i - 1]
    BY <2>4, <2>5
  <2>7. Flattens(g, m, ss)
    BY <2>3, <2>6 DEF Flattens
  <2> QED
    BY <1>4, <2>7
<1> QED
  BY <1>5, <1>6

(* FlattenSeq is the last value of that function. *)
LEMMA FlattenUnfold ==
    ASSUME NEW S, NEW ss \in Seq(S), ss # <<>>
    PROVE  \E f : Flattens(f, Len(ss), ss) /\ FlattenSeq(ss) = f[Len(ss)]
<1>1. Len(ss) \in Nat /\ Len(ss) # 0
  BY EmptySeq, LenProperties
<1> DEFINE F == CHOOSE f : f = [i \in 1 .. Len(ss) |-> IF i = 1 THEN ss[i] ELSE f[i - 1] \o ss[i]]
<1>2. \E f : f = [i \in 1 .. Len(ss) |-> IF i = 1 THEN ss[i] ELSE f[i - 1] \o ss[i]]
  BY <1>1, FlattensExists DEF Flattens
<1>3. F = [i \in 1 .. Len(ss) |-> IF i = 1 THEN ss[i] ELSE F[i - 1] \o ss[i]]
  BY <1>2
<1>4. FlattenSeq(ss) = F[Len(ss)]
  BY <1>1 DEF FlattenSeq
<1> QED
  BY <1>3, <1>4 DEF Flattens

(* No sequences to flatten. *)
LEMMA FlattenEmpty == FlattenSeq(<<>>) = <<>>
BY DEF FlattenSeq

(* The function, place by place. *)
LEMMA FlattensAt ==
    ASSUME NEW f, NEW n, NEW ss, Flattens(f, n, ss), NEW i \in 1 .. n
    PROVE  f[i] = IF i = 1 THEN ss[i] ELSE f[i - 1] \o ss[i]
BY Zenon DEF Flattens

(* Two such functions agree where both have the same sequences. *)
LEMMA FlattensAgree ==
    ASSUME NEW S, NEW ss \in Seq(S), NEW s \in S, NEW f, NEW g,
           Flattens(f, Len(ss), ss), Flattens(g, Len(ss) + 1, Append(ss, s))
    PROVE  \A i \in 1 .. Len(ss) : f[i] = g[i]
<1> DEFINE T == {i \in 1 .. Len(ss) : f[i] # g[i]}
<1>1. Len(ss) \in Nat
  BY LenProperties
<1>2. T \in SUBSET Nat
  BY <1>1
<1>3. SUFFICES ASSUME T # {} PROVE FALSE
  OBVIOUS
<1>4. PICK i \in T : \A j \in T : i <= j
  BY <1>2, <1>3, LeastNumber
<1>5. i \in 1 .. Len(ss) /\ f[i] # g[i] /\ i \in 1 .. Len(ss) + 1
  BY <1>1
<1>6. f[i] = IF i = 1 THEN ss[i] ELSE f[i - 1] \o ss[i]
  BY <1>5, Zenon DEF Flattens
<1>7. g[i] = IF i = 1 THEN Append(ss, s)[i] ELSE g[i - 1] \o Append(ss, s)[i]
  BY <1>5, Zenon DEF Flattens
<1>8. Append(ss, s)[i] = ss[i]
  BY <1>1, <1>5
<1>9. CASE i = 1
  BY <1>5, <1>6, <1>7, <1>8, <1>9, Zenon
<1>10. CASE i # 1
  <2>1. i - 1 \in 1 .. Len(ss) /\ i - 1 \in Nat /\ ~(i <= i - 1)
    BY <1>1, <1>5, <1>10
  <2>2. f[i - 1] = g[i - 1]
    BY <1>4, <2>1
  <2> QED
    BY <1>5, <1>6, <1>7, <1>8, <1>10, <2>2, Zenon
<1> QED
  BY <1>9, <1>10

(* Flattening one sequence more appends it. *)
LEMMA FlattenAppend ==
    ASSUME NEW T, NEW ss \in Seq(Seq(T)), NEW s \in Seq(T)
    PROVE  FlattenSeq(Append(ss, s)) = FlattenSeq(ss) \o s
<1>1. Len(ss) \in Nat
  BY LenProperties
<1>2. /\ Append(ss, s) \in Seq(Seq(T)) /\ Len(Append(ss, s)) = Len(ss) + 1
      /\ Append(ss, s)[Len(ss) + 1] = s
  OBVIOUS
<1>3. Append(ss, s) # <<>>
  <2>1. Len(Append(ss, s)) # 0
    BY <1>1, <1>2
  <2>2. Len(<<>>) = 0
    OBVIOUS
  <2> QED
    BY <2>1, <2>2, Zenon
<1>4. PICK g : /\ Flattens(g, Len(ss) + 1, Append(ss, s))
               /\ FlattenSeq(Append(ss, s)) = g[Len(ss) + 1]
  <2>1. PICK g : /\ Flattens(g, Len(Append(ss, s)), Append(ss, s))
                 /\ FlattenSeq(Append(ss, s)) = g[Len(Append(ss, s))]
    BY <1>2, <1>3, FlattenUnfold
  <2> QED
    BY <1>2, <2>1, Zenon
<1>5. Len(ss) + 1 \in 1 .. Len(ss) + 1
  BY <1>1
<1>6. g[Len(ss) + 1] = IF Len(ss) + 1 = 1 THEN Append(ss, s)[Len(ss) + 1]
                       ELSE g[Len(ss) + 1 - 1] \o Append(ss, s)[Len(ss) + 1]
  <2>1. Flattens(g, Len(ss) + 1, Append(ss, s))
    BY <1>4
  <2> QED
    <3>1. PICK n, i, w : n = Len(ss) + 1 /\ i = n /\ w = Append(ss, s)
      OBVIOUS
    <3>2. Flattens(g, n, w) /\ i \in 1 .. n
      BY <1>5, <2>1, <3>1
    <3>3. g[i] = IF i = 1 THEN w[i] ELSE g[i - 1] \o w[i]
      BY <3>2, FlattensAt
    <3> QED
      BY <3>1, <3>3
<1>7. CASE ss = <<>>
  <2>1. Len(ss) + 1 = 1
    BY <1>7
  <2>2. g[Len(ss) + 1] = s
    BY <1>2, <1>6, <2>1, Zenon
  <2>3. FlattenSeq(ss) = <<>>
    BY <1>7, FlattenEmpty
  <2>4. <<>> \o s = s
    BY ConcatEmptySeq
  <2> QED
    BY <1>4, <2>2, <2>3, <2>4
<1>8. CASE ss # <<>>
  <2>1. Len(ss) + 1 # 1 /\ Len(ss) + 1 - 1 = Len(ss) /\ Len(ss) \in 1 .. Len(ss)
    <3>1. Len(ss) # 0
      BY <1>8, EmptySeq
    <3> QED
      BY <1>1, <3>1
  <2>2. PICK f : Flattens(f, Len(ss), ss) /\ FlattenSeq(ss) = f[Len(ss)]
    BY <1>8, FlattenUnfold
  <2>3. f[Len(ss)] = g[Len(ss)]
    BY <1>4, <2>1, <2>2, FlattensAgree
  <2>4. g[Len(ss) + 1] = g[Len(ss)] \o s
    BY <1>2, <1>6, <2>1, Zenon
  <2> QED
    BY <1>4, <2>2, <2>3, <2>4, Zenon
<1> QED
  BY <1>7, <1>8

(* A nonempty sequence is its front with its last element. *)
LEMMA FrontAndLast ==
    ASSUME NEW S, NEW ss \in Seq(S), NEW n \in 1 .. Len(ss)
    PROVE  /\ SubSeq(ss, 1, n - 1) \in Seq(S) /\ SubSeq(ss, 1, n) \in Seq(S) /\ ss[n] \in S
           /\ Len(SubSeq(ss, 1, n - 1)) = n - 1
           /\ SubSeq(ss, 1, n) = Append(SubSeq(ss, 1, n - 1), ss[n])
<1>1. Len(ss) \in Nat /\ ss[n] \in S
  BY ElementOfSeq, LenProperties
<1>2. \A i \in 1 .. n : ss[i] \in S
  BY <1>1, ElementOfSeq
<1>3. SubSeq(ss, 1, n) \in Seq(S)
  BY <1>2, SubSeqProperties
<1>4. SubSeq(ss, 1, n - 1) \in Seq(S) /\ Len(SubSeq(ss, 1, n - 1)) = n - 1
  BY <1>1, <1>2, SubSeqProperties
<1>5. SubSeq(ss, 1, n) = SubSeq(ss, 1, n - 1) \o <<ss[n]>>
  BY <1>1, SubSeqRecursiveSecond
<1> QED
  BY <1>1, <1>3, <1>4, <1>5

Upto(ss, n) == FlattenSeq(SubSeq(ss, 1, n))

(* One more of the sequences. *)
LEMMA UptoNext ==
    ASSUME NEW T, NEW ss \in Seq(Seq(T)), NEW n \in 1 .. Len(ss)
    PROVE  Upto(ss, n) = Upto(ss, n - 1) \o ss[n] /\ ss[n] \in Seq(T)
<1>1. /\ SubSeq(ss, 1, n - 1) \in Seq(Seq(T)) /\ ss[n] \in Seq(T)
      /\ SubSeq(ss, 1, n) = Append(SubSeq(ss, 1, n - 1), ss[n])
  BY FrontAndLast
<1> QED
  BY <1>1, FlattenAppend DEF Upto

(* None of the sequences. *)
LEMMA UptoZero == \A ss : Upto(ss, 0) = <<>>
<1>1. \A ss : SubSeq(ss, 1, 0) = <<>>
  BY SubSeqEmpty
<1> QED
  BY <1>1, FlattenEmpty DEF Upto

(* The flattened front is a sequence of the same elements. *)
LEMMA UptoTyped ==
    ASSUME NEW T, NEW ss \in Seq(Seq(T))
    PROVE  \A n \in 0 .. Len(ss) : Upto(ss, n) \in Seq(T)
<1> DEFINE Bad == {n \in 0 .. Len(ss) : Upto(ss, n) \notin Seq(T)}
<1>1. Len(ss) \in Nat
  BY LenProperties
<1>2. Bad \in SUBSET Nat
  BY <1>1
<1>3. SUFFICES ASSUME Bad # {} PROVE FALSE
  OBVIOUS
<1>4. PICK n \in Bad : \A m \in Bad : n <= m
  BY <1>2, <1>3, LeastNumber
<1>5. n \in 0 .. Len(ss) /\ Upto(ss, n) \notin Seq(T)
  OBVIOUS
<1>6. CASE n = 0
  <2>1. Upto(ss, n) = <<>>
    BY <1>6, UptoZero
  <2> QED
    BY <1>5, <2>1, EmptySeq
<1>7. CASE n # 0
  <2>1. n \in 1 .. Len(ss) /\ n - 1 \in 0 .. Len(ss) /\ ~(n <= n - 1)
    BY <1>1, <1>5, <1>7
  <2>2. Upto(ss, n - 1) \in Seq(T)
    BY <1>4, <2>1
  <2>3. Upto(ss, n) = Upto(ss, n - 1) \o ss[n] /\ ss[n] \in Seq(T)
    BY <2>1, UptoNext
  <2> QED
    BY <1>5, <2>2, <2>3, ConcatProperties
<1> QED
  BY <1>6, <1>7

(* What is flattened splits at every place. *)
LEMMA UptoSplit ==
    ASSUME NEW T, NEW ss \in Seq(Seq(T)), NEW k \in 0 .. Len(ss)
    PROVE  \A n \in k .. Len(ss) : \E r \in Seq(T) : Upto(ss, n) = Upto(ss, k) \o r
<1> DEFINE Bad == {n \in k .. Len(ss) : ~(\E r \in Seq(T) : Upto(ss, n) = Upto(ss, k) \o r)}
<1>1. Len(ss) \in Nat /\ Upto(ss, k) \in Seq(T)
  BY LenProperties, UptoTyped
<1>2. Bad \in SUBSET Nat
  BY <1>1
<1>3. SUFFICES ASSUME Bad # {} PROVE FALSE
  OBVIOUS
<1>4. PICK n \in Bad : \A m \in Bad : n <= m
  BY <1>2, <1>3, LeastNumber
<1>5. n \in k .. Len(ss) /\ ~(\E r \in Seq(T) : Upto(ss, n) = Upto(ss, k) \o r)
  OBVIOUS
<1>6. CASE n = k
  <2>1. Upto(ss, n) = Upto(ss, k) \o <<>> /\ <<>> \in Seq(T)
    BY <1>1, <1>6, ConcatEmptySeq, EmptySeq
  <2> QED
    BY <1>5, <2>1
<1>7. CASE n # k
  <2>1. n \in 1 .. Len(ss) /\ n - 1 \in k .. Len(ss) /\ ~(n <= n - 1)
    BY <1>1, <1>5, <1>7
  <2>2. PICK r \in Seq(T) : Upto(ss, n - 1) = Upto(ss, k) \o r
    BY <1>4, <2>1
  <2>3. Upto(ss, n) = Upto(ss, n - 1) \o ss[n] /\ ss[n] \in Seq(T)
    BY <2>1, UptoNext
  <2>4. Upto(ss, n) = Upto(ss, k) \o (r \o ss[n])
    <3>1. PICK u \in Seq(T), w \in Seq(T) : u = Upto(ss, k) /\ w = ss[n]
      BY <1>1, <2>3
    <3>2. (u \o r) \o w = u \o (r \o w)
      BY ConcatAssociative, SMTT(60)
    <3> QED
      BY <2>2, <2>3, <3>1, <3>2
  <2>5. r \o ss[n] \in Seq(T)
    BY <2>3, ConcatProperties
  <2> QED
    BY <1>5, <2>4, <2>5
<1> QED
  BY <1>6, <1>7

(* All of the sequences. *)
LEMMA UptoAll ==
    ASSUME NEW T, NEW ss \in Seq(Seq(T))
    PROVE  Upto(ss, Len(ss)) = FlattenSeq(ss) /\ FlattenSeq(ss) \in Seq(T)
<1>1. SubSeq(ss, 1, Len(ss)) = ss
  BY SubSeqFull
<1>2. Len(ss) \in 0 .. Len(ss)
  BY LenProperties
<1> QED
  BY <1>1, <1>2, UptoTyped DEF Upto

(* What a function adds for each element of a sequence, joined. *)
Through(F, es) == [i \in DOMAIN es |-> F[es[i]]]
Concat(F, es) == FlattenSeq(Through(F, es))

IsThrough(S, F, es, t) ==
    t \in Seq(S) /\ Len(t) = Len(es) /\ \A i \in 1 .. Len(es) : t[i] = F[es[i]]

(* Applying F element by element. *)
LEMMA ThroughTyped ==
    ASSUME NEW E, NEW S, NEW F \in [E -> S], NEW es \in Seq(E)
    PROVE  IsThrough(S, F, es, Through(F, es)) /\ Through(F, es) \in Seq(S)
<1>1. Len(es) \in Nat /\ DOMAIN es = 1 .. Len(es) /\ \A i \in 1 .. Len(es) : es[i] \in E
  BY LenProperties, ElementOfSeq
<1>2. Through(F, es) = [i \in 1 .. Len(es) |-> F[es[i]]]
  BY <1>1 DEF Through
<1>3. \A i \in 1 .. Len(es) : F[es[i]] \in S
  BY <1>1
<1>4. PICK n \in Nat : n = Len(es)
  BY <1>1
<1>5. PICK t : t = Through(F, es)
  OBVIOUS
<1>6. t \in [1 .. n -> S] /\ DOMAIN t = 1 .. n
  BY <1>2, <1>3, <1>4, <1>5
<1>7. t \in Seq(S)
  BY <1>6, SeqDef
<1>8. Len(t) = n
  <2>1. Len(t) \in Nat /\ DOMAIN t = 1 .. Len(t)
    BY <1>7, LenProperties
  <2>2. \A a, b \in Nat : 1 .. a = 1 .. b => a = b
    <3>1. ASSUME NEW a \in Nat, NEW b \in Nat, 1 .. a = 1 .. b PROVE ~(a < b)
      <4>1. a < b => b \in 1 .. b /\ b \notin 1 .. a
        OBVIOUS
      <4> QED
        BY <3>1, <4>1
    <3>2. \A a, b \in Nat : ~(a < b) /\ ~(b < a) => a = b
      OBVIOUS
    <3> QED
      BY <3>1, <3>2
  <2> QED
    BY <1>6, <2>1, <2>2
<1>9. \A i \in 1 .. Len(es) : t[i] = F[es[i]]
  BY <1>2, <1>5
<1> QED
  BY <1>4, <1>5, <1>7, <1>8, <1>9 DEF IsThrough

(* The first n elements of a sequence. *)
LEMMA PrefixOf ==
    ASSUME NEW S, NEW s \in Seq(S), NEW n \in 0 .. Len(s)
    PROVE  /\ SubSeq(s, 1, n) \in Seq(S) /\ Len(SubSeq(s, 1, n)) = n
           /\ \A i \in 1 .. n : SubSeq(s, 1, n)[i] = s[i]
<1>1. Len(s) \in Nat
  BY LenProperties
<1>2. n \in Nat /\ 0 + n <= Len(s) /\ 0 + 1 = 1 /\ 0 + n = n /\ \A i \in 1 .. n : 0 + i = i
  BY <1>1
<1>3. /\ SubSeq(s, 0 + 1, 0 + n) \in Seq(S) /\ Len(SubSeq(s, 0 + 1, 0 + n)) = n
      /\ \A i \in 1 .. n : SubSeq(s, 0 + 1, 0 + n)[i] = s[0 + i]
  BY <1>2, Slice
<1> QED
  BY <1>2, <1>3

(* ... to one element more. *)
LEMMA ThroughAppend ==
    ASSUME NEW E, NEW S, NEW F \in [E -> S], NEW es \in Seq(E), NEW e \in E
    PROVE  Through(F, Append(es, e)) = Append(Through(F, es), F[e])
<1>1. Append(es, e) \in Seq(E) /\ Len(Append(es, e)) = Len(es) + 1 /\ Len(es) \in Nat
  BY LenProperties
<1>2. PICK t \in Seq(S) : t = Through(F, es) /\ Len(t) = Len(es)
                          /\ \A i \in 1 .. Len(es) : t[i] = F[es[i]]
  BY ThroughTyped DEF IsThrough
<1>3. PICK u \in Seq(S) : /\ u = Through(F, Append(es, e)) /\ Len(u) = Len(Append(es, e))
                          /\ \A i \in 1 .. Len(Append(es, e)) : u[i] = F[Append(es, e)[i]]
  <2>1. IsThrough(S, F, Append(es, e), Through(F, Append(es, e)))
    BY <1>1, ThroughTyped
  <2> QED
    BY <2>1 DEF IsThrough
<1>4. F[e] \in S /\ Append(t, F[e]) \in Seq(S) /\ Len(Append(t, F[e])) = Len(es) + 1
  BY <1>2
<1>5. ASSUME NEW i \in 1 .. Len(es) + 1 PROVE u[i] = Append(t, F[e])[i]
  <2>1. u[i] = F[Append(es, e)[i]]
    BY <1>1, <1>3
  <2>2. CASE i = Len(es) + 1
    <3>1. Append(es, e)[i] = e /\ Append(t, F[e])[i] = F[e]
      BY <1>1, <1>2, <1>4, <2>2
    <3> QED
      BY <2>1, <3>1
  <2>3. CASE i # Len(es) + 1
    <3>1. i \in 1 .. Len(es)
      BY <1>1, <2>3
    <3>2. Append(es, e)[i] = es[i] /\ Append(t, F[e])[i] = t[i]
      BY <1>1, <1>2, <1>4, <3>1
    <3> QED
      BY <1>2, <2>1, <3>1, <3>2
  <2> QED
    BY <2>2, <2>3
<1>6. u = Append(t, F[e])
  <2>1. Len(u) = Len(Append(t, F[e])) /\ 1 .. Len(u) = 1 .. Len(es) + 1
    BY <1>1, <1>3, <1>4
  <2>2. \A i \in 1 .. Len(u) : u[i] = Append(t, F[e])[i]
    BY <1>5, <2>1
  <2> QED
    BY <1>4, <2>1, <2>2, SeqEqual
<1> QED
  BY <1>2, <1>3, <1>6

ThroughFront(F, es, n) == Through(F, SubSeq(es, 1, n)) = SubSeq(Through(F, es), 1, n)

(* ... to the first n elements. *)
LEMMA ThroughSubSeq ==
    ASSUME NEW E, NEW S, NEW F \in [E -> S], NEW es \in Seq(E), NEW n \in 0 .. Len(es)
    PROVE  ThroughFront(F, es, n)
<1>1. Len(es) \in Nat /\ \A i \in 1 .. n : es[i] \in E
  BY LenProperties, ElementOfSeq
<1>2. PICK f \in Seq(E) : /\ f = SubSeq(es, 1, n) /\ Len(f) = n
                          /\ \A i \in 1 .. n : f[i] = es[i]
  <2>1. /\ SubSeq(es, 1, n) \in Seq(E) /\ Len(SubSeq(es, 1, n)) = n
        /\ \A i \in 1 .. n : SubSeq(es, 1, n)[i] = es[i]
    BY PrefixOf
  <2> QED
    BY <2>1
<1>3. PICK t \in Seq(S) : t = Through(F, es) /\ Len(t) = Len(es)
                          /\ \A i \in 1 .. Len(es) : t[i] = F[es[i]]
  <2>1. IsThrough(S, F, es, Through(F, es))
    BY ThroughTyped
  <2> QED
    BY <2>1 DEF IsThrough
<1>4. PICK u \in Seq(S) : u = Through(F, f) /\ Len(u) = n /\ \A i \in 1 .. n : u[i] = F[f[i]]
  <2>1. IsThrough(S, F, f, Through(F, f))
    BY ThroughTyped
  <2> QED
    BY <1>2, <2>1 DEF IsThrough
<1>5. PICK w \in Seq(S) : w = SubSeq(t, 1, n) /\ Len(w) = n /\ \A i \in 1 .. n : w[i] = t[i]
  <2>1. /\ SubSeq(t, 1, n) \in Seq(S) /\ Len(SubSeq(t, 1, n)) = n
        /\ \A i \in 1 .. n : SubSeq(t, 1, n)[i] = t[i]
    BY <1>3, PrefixOf
  <2> QED
    BY <2>1
<1>6. \A i \in 1 .. n : u[i] = w[i]
  BY <1>1, <1>2, <1>3, <1>4, <1>5
<1>7. u = w
  BY <1>4, <1>5, <1>6, SeqEqual
<1> QED
  BY <1>2, <1>3, <1>4, <1>5, <1>7 DEF ThroughFront

(* Nothing to encode. *)
LEMMA ConcatEmpty == \A F : Concat(F, <<>>) = <<>>
<1>1. ASSUME NEW F PROVE Through(F, <<>>) = <<>>
  BY DEF Through
<1> QED
  BY <1>1, FlattenEmpty DEF Concat

(* The encodings of all elements, one after the other. *)
LEMMA ConcatTyped ==
    ASSUME NEW E, NEW T, NEW F \in [E -> Seq(T)], NEW es \in Seq(E)
    PROVE  Concat(F, es) \in Seq(T)
<1>1. Through(F, es) \in Seq(Seq(T))
  BY ThroughTyped
<1> QED
  BY <1>1, UptoAll DEF Concat

(* ... of one element more. *)
LEMMA ConcatAppend ==
    ASSUME NEW E, NEW T, NEW F \in [E -> Seq(T)], NEW es \in Seq(E), NEW e \in E
    PROVE  Concat(F, Append(es, e)) = Concat(F, es) \o F[e]
<1>1. Through(F, es) \in Seq(Seq(T)) /\ F[e] \in Seq(T)
  BY ThroughTyped
<1>2. Through(F, Append(es, e)) = Append(Through(F, es), F[e])
  BY ThroughAppend
<1> QED
  BY <1>1, <1>2, FlattenAppend DEF Concat

(* ... of one element more among those of es. *)
LEMMA ConcatFront ==
    ASSUME NEW E, NEW S, NEW F \in [E -> S], NEW es \in Seq(E)
    PROVE  \A m \in 0 .. Len(es) : Concat(F, SubSeq(es, 1, m)) = Upto(Through(F, es), m)
<1>1. \A m \in 0 .. Len(es) : ThroughFront(F, es, m)
  BY ThroughSubSeq
<1> QED
  BY <1>1 DEF Concat, Upto, ThroughFront

SplitAround(E, T, F, es, n) ==
    /\ Concat(F, SubSeq(es, 1, n - 1)) \in Seq(T) /\ es[n] \in E /\ F[es[n]] \in Seq(T)
    /\ \E r \in Seq(T) : Concat(F, es) = (Concat(F, SubSeq(es, 1, n - 1)) \o F[es[n]]) \o r

(* The encoding of es is that of the first n - 1, of the n-th, and the rest. *)
LEMMA ConcatSplit ==
    ASSUME NEW E, NEW T, NEW F \in [E -> Seq(T)], NEW es \in Seq(E), NEW n \in 1 .. Len(es)
    PROVE  SplitAround(E, T, F, es, n)
<1>1. Len(es) \in Nat /\ n \in 0 .. Len(es) /\ n - 1 \in 0 .. Len(es) /\ es[n] \in E
  BY LenProperties, ElementOfSeq
<1>2. PICK t \in Seq(Seq(T)) : /\ t = Through(F, es) /\ Len(t) = Len(es)
                               /\ \A i \in 1 .. Len(es) : t[i] = F[es[i]]
  <2>1. IsThrough(Seq(T), F, es, Through(F, es))
    BY ThroughTyped
  <2> QED
    BY <2>1 DEF IsThrough
<1>3. Concat(F, SubSeq(es, 1, n - 1)) = Upto(t, n - 1)
  BY <1>1, <1>2, ConcatFront
<1>4. Upto(t, n - 1) \in Seq(T)
  BY <1>1, <1>2, UptoTyped
<1>5. Upto(t, n) = Upto(t, n - 1) \o t[n]
  BY <1>2, UptoNext
<1>6. Upto(t, Len(es)) = Concat(F, es)
  BY <1>2, UptoAll DEF Concat
<1>7. PICK r \in Seq(T) : Upto(t, Len(es)) = Upto(t, n) \o r
  <2>1. n \in 0 .. Len(t) /\ Len(es) \in n .. Len(t)
    BY <1>1, <1>2
  <2> QED
    BY <2>1, UptoSplit
<1>8. F[es[n]] \in Seq(T)
  BY <1>1
<1> QED
  BY <1>1, <1>2, <1>3, <1>4, <1>5, <1>6, <1>7, <1>8 DEF SplitAround

-----------------------------------------------------------------------------
(* Vectors of legal entries: what they are encoded as and what they add to *)
(* the result.                                                             *)
Vectors == {"addr", "addrv2"}
LegalEntries(k) == {e \in Entry : LegalEntry(k, e)}
Encode(k) == [e \in LegalEntries(k) |-> EntryBytes(k, e)]
Advert(k) == [e \in LegalEntries(k) |-> Advertised(k, e)]

(* The addresses that can be in a result. *)
Misfiled(k, a) ==
    a.network # Classify(a.host) =>
        k = "addr" /\ a.host.form = "colons" /\ a.host.bytes[1] = FC
Filed(k) == {a \in UNION {{Advertised(k, e)[i] : i \in DOMAIN Advertised(k, e)} :
                             e \in LegalEntries(k)} :
                a.network \in Network /\ Misfiled(k, a)}

(* EntryBytes yields digits. *)
LEMMA EncodeTyped ==
    ASSUME payload \in Seq(Bytes), NEW k \in Vectors
    PROVE  /\ Encode(k) \in [LegalEntries(k) -> Seq(Bytes)]
           /\ \A e \in LegalEntries(k) : Encode(k)[e] = EntryBytes(k, e)
                                         /\ EntryBytes(k, e) \in Seq(Bytes)
<1>1. ASSUME NEW e \in LegalEntries(k) PROVE EntryBytes(k, e) \in Seq(Bytes)
  <2>1. e \in Entry /\ LegalEntry(k, e)
    BY DEF LegalEntries
  <2>2. CASE k = "addr"
    <3>1. Len(e.addr) = 16
      BY <2>1, <2>2 DEF LegalEntry
    <3> QED
      BY <2>1, <2>2, <3>1, LegacyLayout
  <2>3. CASE k = "addrv2"
    BY <2>1, <2>3, Addrv2Layout
  <2> QED
    BY <2>2, <2>3 DEF Vectors
<1> QED
  BY <1>1 DEF Encode

(* decode_legacy_ip files what classify would, but for fc00::/8. *)
LEMMA LegacyFiled ==
    ASSUME NEW e \in LegalEntries("addr")
    PROVE  /\ Advertised("addr", e) \in Seq(Filed("addr"))
           /\ Len(Advertised("addr", e)) = 1
<1>1. PICK h, w : h = LegacyHost(e.addr) /\ w = LegacyNetwork(e.addr)
  OBVIOUS
<1>2. PICK a : a = AdvertisedAddr(h, w, e)
  OBVIOUS
<1>3. Advertised("addr", e) = <<a>>
  BY <1>1, <1>2 DEF Advertised
<1>4. a.host = h /\ a.network = w
  BY <1>2 DEF AdvertisedAddr
<1>5. w \in Network /\ Misfiled("addr", a)
  <2>1. CASE Ipv4Mapped(e.addr)
    <3>1. h.form = "dotted" /\ w = "ipv4"
      BY <1>1, <2>1 DEF LegacyHost, LegacyNetwork, Host
    <3>2. Classify(h) = "ipv4"
      BY <3>1 DEF Classify
    <3> QED
      BY <1>4, <3>1, <3>2 DEF Network, Misfiled
  <2>2. CASE ~Ipv4Mapped(e.addr)
    <3>1. h.form = "colons" /\ w = "ipv6"
      BY <1>1, <2>2 DEF LegacyHost, LegacyNetwork, Host
    <3>2. h.bytes[1] # FC => Classify(h) = "ipv6"
      BY <3>1 DEF Classify
    <3> QED
      BY <1>4, <3>1, <3>2 DEF Network, Misfiled
  <2> QED
    BY <2>1, <2>2
<1>6. a \in Filed("addr")
  <2>1. a = Advertised("addr", e)[1] /\ 1 \in DOMAIN Advertised("addr", e)
    BY <1>3
  <2> QED
    BY <1>4, <1>5, <2>1 DEF Filed
<1> QED
  <2>1. <<a>> \in Seq(Filed("addr")) /\ Len(<<a>>) = 1
    BY <1>6
  <2> QED
    BY <1>3, <2>1, Zenon

(* decode_addrv2 files the known networks as classify would. *)
LEMMA Addrv2Classified ==
    ASSUME NEW e \in LegalEntries("addrv2"), e.id \in KnownIds
    PROVE  /\ NetworkOf[e.id] \in Network
           /\ Classify(HostOf(e.id, e.addr)) = NetworkOf[e.id]
<1>1. /\ LegalEntry("addrv2", e)
      /\ e.id = 1 \/ e.id = 2 \/ e.id = 3 \/ e.id = 4 \/ e.id = 5 \/ e.id = 6
  BY DEF LegalEntries, KnownIds
<1>2. PICK h : h = HostOf(e.id, e.addr)
  OBVIOUS
<1>3. CASE e.id = 1
  <2>1. h.form = "dotted" /\ NetworkOf[1] = "ipv4"
    BY <1>2, <1>3 DEF HostOf, Host, NetworkOf
  <2> QED
    BY <1>2, <1>3, <2>1 DEF Classify, Network
<1>4. CASE e.id = 2
  <2>1. h.form = "colons" /\ h.bytes = e.addr /\ NetworkOf[2] = "ipv6"
    BY <1>2, <1>4 DEF HostOf, Host, NetworkOf
  <2>2. e.addr[1] # FC
    BY <1>1, <1>4 DEF LegalEntry
  <2> QED
    BY <1>2, <1>4, <2>1, <2>2 DEF Classify, Network
<1>5. CASE e.id = 3
  <2>1. h.form = "onion" /\ h.bytes = e.addr /\ NetworkOf[3] = "onion_v2"
    BY <1>2, <1>5 DEF HostOf, Host, NetworkOf
  <2>2. Len(e.addr) = 10
    BY <1>1, <1>5 DEF LegalEntry, KnownIds, ExpectedLength
  <2> QED
    BY <1>2, <1>5, <2>1, <2>2 DEF Classify, Network
<1>6. CASE e.id = 4
  <2>1. h.form = "onion" /\ h.bytes = e.addr /\ NetworkOf[4] = "onion_v3"
    BY <1>2, <1>6 DEF HostOf, Host, NetworkOf
  <2>2. Len(e.addr) = 32
    BY <1>1, <1>6 DEF LegalEntry, KnownIds, ExpectedLength
  <2>3. Len(h.bytes) # 10
    BY <2>1, <2>2
  <2> QED
    BY <1>2, <1>6, <2>1, <2>3 DEF Classify, Network
<1>7. CASE e.id = 5
  <2>1. h.form = "b32.i2p" /\ NetworkOf[5] = "i2p"
    BY <1>2, <1>7 DEF HostOf, Host, NetworkOf
  <2> QED
    BY <1>2, <1>7, <2>1 DEF Classify, Network
<1>8. CASE e.id = 6
  <2>1. h.form = "colons" /\ h.bytes = e.addr /\ NetworkOf[6] = "cjdns"
    BY <1>2, <1>8 DEF HostOf, Host, NetworkOf
  <2>2. e.addr[1] = FC
    BY <1>1, <1>8 DEF LegalEntry
  <2> QED
    BY <1>2, <1>8, <2>1, <2>2 DEF Classify, Network
<1> QED
  BY <1>1, <1>3, <1>4, <1>5, <1>6, <1>7, <1>8

(* ... so no entry of addrv2 is misfiled, and an unknown one is not collected. *)
LEMMA Addrv2Filed ==
    ASSUME NEW e \in LegalEntries("addrv2")
    PROVE  /\ Advertised("addrv2", e) \in Seq(Filed("addrv2"))
           /\ Len(Advertised("addrv2", e)) \in {0, 1}
<1>1. CASE e.id \in KnownIds
  <2>1. PICK a : a = AdvertisedAddr(HostOf(e.id, e.addr), NetworkOf[e.id], e)
    OBVIOUS
  <2>2. Advertised("addrv2", e) = <<a>>
    BY <1>1, <2>1 DEF Advertised
  <2>3. a.host = HostOf(e.id, e.addr) /\ a.network = NetworkOf[e.id]
    BY <2>1 DEF AdvertisedAddr
  <2>4. a.network \in Network /\ Misfiled("addrv2", a)
    BY <1>1, <2>3, Addrv2Classified DEF Misfiled
  <2>5. a \in Filed("addrv2")
    <3>1. a = Advertised("addrv2", e)[1] /\ 1 \in DOMAIN Advertised("addrv2", e)
      BY <2>2
    <3> QED
      BY <2>4, <3>1 DEF Filed
  <2>6. <<a>> \in Seq(Filed("addrv2")) /\ Len(<<a>>) \in {0, 1}
    BY <2>5
  <2> QED
    BY <2>2, <2>6, Zenon
<1>2. CASE e.id \notin KnownIds
  <2>1. Advertised("addrv2", e) = <<>>
    BY <1>2 DEF Advertised
  <2>2. <<>> \in Seq(Filed("addrv2")) /\ Len(<<>>) \in {0, 1}
    BY EmptySeq
  <2> QED
    BY <2>1, <2>2, Zenon
<1> QED
  BY <1>1, <1>2

(* What an entry advertises, as a function of the entry. *)
LEMMA AdvertTyped ==
    ASSUME NEW k \in Vectors
    PROVE  /\ Advert(k) \in [LegalEntries(k) -> Seq(Filed(k))]
           /\ \A e \in LegalEntries(k) : /\ Advert(k)[e] = Advertised(k, e)
                                         /\ Advertised(k, e) \in Seq(Filed(k))
                                         /\ Len(Advertised(k, e)) \in {0, 1}
<1>1. \A e \in LegalEntries(k) : /\ Advertised(k, e) \in Seq(Filed(k))
                                 /\ Len(Advertised(k, e)) \in {0, 1}
  BY LegacyFiled, Addrv2Filed DEF Vectors
<1> QED
  BY <1>1 DEF Advert

(* A collected address is in the right network, with the one exception. *)
LEMMA FiledRight ==
    ASSUME NEW k, NEW o \in Seq(Filed(k)), NEW i \in DOMAIN o
    PROVE  o[i].network \in Network /\ Misfiled(k, o[i])
<1>1. o[i] \in Filed(k)
  BY LenProperties, ElementOfSeq
<1> QED
  BY <1>1 DEF Filed

(* VectorBytes by the names above. *)
LEMMA ThroughEncode ==
    ASSUME payload \in Seq(Bytes), NEW k \in Vectors, NEW es \in Seq(LegalEntries(k))
    PROVE  /\ VectorBytes(k, es) = CompactBytes(Len(es)) \o Concat(Encode(k), es)
           /\ FlattenSeq([i \in DOMAIN es |-> Advertised(k, es[i])]) = Concat(Advert(k), es)
<1>1. \A i \in DOMAIN es : es[i] \in LegalEntries(k)
  BY LenProperties, ElementOfSeq
<1>2. [i \in DOMAIN es |-> EntryBytes(k, es[i])] = [i \in DOMAIN es |-> Encode(k)[es[i]]]
  BY <1>1 DEF Encode
<1>3. [i \in DOMAIN es |-> Advertised(k, es[i])] = [i \in DOMAIN es |-> Advert(k)[es[i]]]
  BY <1>1 DEF Advert
<1> QED
  BY <1>2, <1>3 DEF VectorBytes, Concat, Through

(* The declared count is a CompactSize. *)
LEMMA CountBytes ==
    ASSUME NEW n \in Nat, n <= MAX_ADDR_TO_SEND
    PROVE  n \in 0 .. B8 - 1 /\ CompactBytes(n) \in Seq(Bytes)
<1>1. n \in 0 .. B8 - 1
  BY BaseAssumption, Bases
<1> QED
  BY <1>1, CompactWrite

Regroups(c, f, b, r) == c \o ((f \o b) \o r) = ((c \o f) \o b) \o r

(* Concatenation associates. *)
LEMMA Regrouped ==
    ASSUME NEW T, NEW c \in Seq(T), NEW f \in Seq(T), NEW b \in Seq(T), NEW r \in Seq(T)
    PROVE  Regroups(c, f, b, r)
<1>1. PICK fb \in Seq(T) : fb = f \o b
  BY ConcatProperties
<1>2. c \o (fb \o r) = (c \o fb) \o r
  BY ConcatAssociative, SMTT(60)
<1>3. c \o (f \o b) = (c \o f) \o b
  BY ConcatAssociative, SMTT(60)
<1> QED
  BY <1>1, <1>2, <1>3, Zenon DEF Regroups

(* The digits of a vector before its entry n. *)
Before(k, es, n) == CompactBytes(Len(es)) \o Concat(Encode(k), SubSeq(es, 1, n - 1))

(* The bytes before an entry, and the entry, within the encoding of its vector. *)
LEMMA EntryWithin ==
    ASSUME payload \in Seq(Bytes), NEW k \in Vectors, NEW es \in Seq(LegalEntries(k)),
           Len(es) <= MAX_ADDR_TO_SEND, NEW n \in 1 .. Len(es)
    PROVE  /\ es[n] \in LegalEntries(k) /\ EntryBytes(k, es[n]) \in Seq(Bytes)
           /\ Before(k, es, n) \in Seq(Bytes)
           /\ \E r \in Seq(Bytes) :
                 VectorBytes(k, es) = (Before(k, es, n) \o EntryBytes(k, es[n])) \o r
<1>1. CompactBytes(Len(es)) \in Seq(Bytes)
  <2>1. Len(es) \in Nat
    BY LenProperties
  <2> QED
    BY <2>1, CountBytes
<1>2. Encode(k) \in [LegalEntries(k) -> Seq(Bytes)]
  BY EncodeTyped
<1>3. /\ Concat(Encode(k), SubSeq(es, 1, n - 1)) \in Seq(Bytes) /\ es[n] \in LegalEntries(k)
      /\ \E r \in Seq(Bytes) :
            Concat(Encode(k), es)
              = (Concat(Encode(k), SubSeq(es, 1, n - 1)) \o Encode(k)[es[n]]) \o r
  <2>1. SplitAround(LegalEntries(k), Bytes, Encode(k), es, n)
    BY <1>2, ConcatSplit
  <2> QED
    BY <2>1 DEF SplitAround
<1>4. Encode(k)[es[n]] = EntryBytes(k, es[n]) /\ EntryBytes(k, es[n]) \in Seq(Bytes)
  BY <1>3, EncodeTyped
<1>5. PICK c \in Seq(Bytes), f \in Seq(Bytes), b \in Seq(Bytes), r \in Seq(Bytes) :
        /\ c = CompactBytes(Len(es)) /\ f = Concat(Encode(k), SubSeq(es, 1, n - 1))
        /\ b = EntryBytes(k, es[n]) /\ Concat(Encode(k), es) = (f \o b) \o r
  BY <1>1, <1>3, <1>4
<1>6. VectorBytes(k, es) = c \o ((f \o b) \o r) /\ Before(k, es, n) = c \o f
  BY <1>5, ThroughEncode DEF Before
<1>7. c \o f \in Seq(Bytes) /\ f \o b \in Seq(Bytes)
  BY ConcatProperties
<1>8. c \o ((f \o b) \o r) = ((c \o f) \o b) \o r
  <2>1. Regroups(c, f, b, r)
    BY Regrouped
  <2> QED
    BY <2>1, Zenon DEF Regroups
<1> QED
  BY <1>3, <1>4, <1>5, <1>6, <1>7, <1>8

AddsUp(s, t) == s \o t \in Seq(Bytes) /\ Len(s \o t) = Len(s) + Len(t)

(* Concatenation, again. *)
LEMMA JoinedAddsUp ==
    ASSUME NEW s \in Seq(Bytes), NEW t \in Seq(Bytes) PROVE AddsUp(s, t)
<1>1. s \o t \in Seq(Bytes) /\ Len(s \o t) = Len(s) + Len(t)
  BY Joined
<1> QED
  BY <1>1 DEF AddsUp

EntryFollows(k, es, n) ==
    /\ At(Len(Before(k, es, n)), EntryBytes(k, es[n]))
    /\ Len(Before(k, es, n)) + Len(EntryBytes(k, es[n])) <= Len(VectorBytes(k, es))

(* Where the payload follows es, the next entry is where the first n - 1 end. *)
LEMMA EntryAfter ==
    ASSUME payload \in Seq(Bytes), NEW k \in Vectors, NEW es \in Seq(LegalEntries(k)),
           Len(es) <= MAX_ADDR_TO_SEND, NEW n \in 1 .. Len(es),
           At(0, VectorBytes(k, es))
    PROVE  EntryFollows(k, es, n)
<1>1. PICK f \in Seq(Bytes), b \in Seq(Bytes), r \in Seq(Bytes) :
        f = Before(k, es, n) /\ b = EntryBytes(k, es[n]) /\ VectorBytes(k, es) = (f \o b) \o r
  BY EntryWithin
<1>2. PICK fb \in Seq(Bytes) : fb = f \o b /\ Len(fb) = Len(f) + Len(b)
  <2>1. AddsUp(f, b)
    BY JoinedAddsUp
  <2> QED
    BY <2>1 DEF AddsUp
<1>3. VectorBytes(k, es) = fb \o r
  BY <1>1, <1>2, Zenon
<1>4. Len(f) \in Nat /\ 0 + Len(f) = Len(f)
  BY LenProperties
<1>5. At(0, fb \o r)
  BY <1>3
<1>6. At(0, f \o b)
  BY <1>2, <1>5, SplitAt
<1>7. At(0 + Len(f), b)
  BY <1>6, SplitAt
<1>8. At(Len(f), b)
  BY <1>4, <1>7
<1>9. Len(fb \o r) = Len(fb) + Len(r)
  BY JoinedAddsUp DEF AddsUp
<1>10. Len(r) \in Nat /\ Len(fb) \in Nat /\ Len(f) \in Nat /\ Len(b) \in Nat
  BY LenProperties
<1>11. Len(f) + Len(b) <= Len(VectorBytes(k, es))
  <2>1. Len(VectorBytes(k, es)) = Len(fb) + Len(r)
    BY <1>3, <1>9, Zenon
  <2>2. Len(fb) <= Len(fb) + Len(r)
    BY <1>10
  <2>3. Len(fb) = Len(f) + Len(b)
    BY <1>2
  <2> QED
    BY <2>1, <2>2, <2>3, Zenon
<1> QED
  BY <1>1, <1>8, <1>11 DEF EntryFollows

CountFirst(k, es) ==
    /\ VectorBytes(k, es) \in Seq(Bytes)
    /\ Len(CompactBytes(Len(es))) <= Len(VectorBytes(k, es))
    /\ At(0, VectorBytes(k, es)) =>
          CompactAt(0) = IF Has(0, Len(CompactBytes(Len(es))))
                         THEN [val |-> Len(es), end |-> Len(CompactBytes(Len(es)))]
                         ELSE NoValue

(* Where the payload follows es, the count is at the start. *)
LEMMA CountAtStart ==
    ASSUME payload \in Seq(Bytes), NEW k \in Vectors, NEW es \in Seq(LegalEntries(k)),
           Len(es) <= MAX_ADDR_TO_SEND
    PROVE  CountFirst(k, es)
<1>1. PICK n \in Nat : n = Len(es)
  BY LenProperties
<1>2. n \in 0 .. B8 - 1 /\ CompactBytes(n) \in Seq(Bytes)
  BY <1>1, CountBytes
<1>3. PICK c \in Seq(Bytes) : c = CompactBytes(n)
  BY <1>2
<1>4. PICK d \in Seq(Bytes) : d = Concat(Encode(k), es)
  <2>1. Encode(k) \in [LegalEntries(k) -> Seq(Bytes)]
    BY EncodeTyped
  <2>2. Concat(Encode(k), es) \in Seq(Bytes)
    BY <2>1, ConcatTyped
  <2> QED
    BY <2>2
<1>5. VectorBytes(k, es) = c \o d
  BY <1>1, <1>3, <1>4, ThroughEncode
<1>6. AddsUp(c, d) /\ Len(c) \in Nat /\ Len(d) \in Nat
  BY JoinedAddsUp, LenProperties
<1>7. Len(c) <= Len(VectorBytes(k, es))
  <2>1. Len(VectorBytes(k, es)) = Len(c) + Len(d)
    BY <1>5, <1>6 DEF AddsUp
  <2>2. Len(c) <= Len(c) + Len(d)
    BY <1>6
  <2> QED
    BY <2>1, <2>2, Zenon
<1>8. ASSUME At(0, c \o d)
      PROVE  CompactAt(0) = IF Has(0, Len(c)) THEN [val |-> n, end |-> Len(c)] ELSE NoValue
  <2>1. At(0, c)
    BY <1>8, SplitAt
  <2>2. At(0, CompactBytes(n))
    BY <1>3, <2>1
  <2>3. CompactAt(0) = IF Has(0, Len(CompactBytes(n)))
                       THEN [val |-> n, end |-> 0 + Len(CompactBytes(n))] ELSE NoValue
    BY <1>2, <2>2, CompactExact
  <2>4. 0 + Len(c) = Len(c)
    BY <1>6
  <2> QED
    BY <1>3, <2>3, <2>4
<1> QED
  BY <1>1, <1>3, <1>5, <1>6, <1>7, <1>8 DEF CountFirst, AddsUp

-----------------------------------------------------------------------------
(* The inductive invariant. *)

(* The payload pl agrees with b from p on, as far as it goes. *)
Agrees(pl, p, b) == \A i \in 1 .. Len(b) : p + i <= Len(pl) => pl[p + i] = b[i]

Typed(k, pl, cap, u, r) ==
    /\ k \in Kind /\ pl \in Seq(Bytes) /\ cap \in 0 .. MAX_ADDR_TO_SEND /\ u \in Nat
    /\ r \in {"reading", "ok", "None"} \cup AddrParseError

(* What was consumed is the encoding of the declared count and of the     *)
(* entries seen, and what was collected is what they advertise.            *)
Prefix(k, c, s) == CompactBytes(c) \o Concat(Encode(k), s)

Consumed(k, pl, p, c, s, o, u) ==
    /\ s \in Seq(LegalEntries(k))
    /\ c = Nil => p = 0 /\ s = <<>> /\ o = <<>> /\ u = 0
    /\ c # Nil => /\ k \in Vectors /\ c \in Nat /\ Len(s) <= c /\ c <= MAX_ADDR_TO_SEND
                  /\ Agrees(pl, 0, Prefix(k, c, s))
                  /\ p = Len(Prefix(k, c, s)) /\ p <= Len(pl)
                  /\ o = Concat(Advert(k), s) /\ Len(o) + u = Len(s)

Settled(k, pl, p, c, s, r) ==
    k \in Vectors /\ r = "ok" => c # Nil /\ Len(s) = c /\ p = Len(pl)

(* On a payload that agrees with a legal vector, whole or cut or followed  *)
(* by more, the parser follows the vector and its verdict is decided by    *)
(* the two lengths.                                                        *)
Verdict(n, m) == IF n < m THEN "NonCanonicalOrTruncated"
                 ELSE IF n = m THEN "ok" ELSE "TrailingBytes"

Follows(k, pl, c, s, r, es) ==
    /\ c # Nil => c = Len(es) /\ s = SubSeq(es, 1, Len(s))
    /\ r # "reading" => r = Verdict(Len(pl), Len(VectorBytes(k, es)))

FollowsAll(k, pl, c, s, r) ==
    k \in Vectors =>
        \A es \in Seq(LegalEntries(k)) :
            Len(es) <= MAX_ADDR_TO_SEND /\ Agrees(pl, 0, VectorBytes(k, es)) =>
                Follows(k, pl, c, s, r, es)

IInv ==
    /\ Typed(kind, payload, capacity, unknown, result)
    /\ Consumed(kind, payload, pos, count, seen, out, unknown)
    /\ Settled(kind, payload, pos, count, seen, result)
    /\ FollowsAll(kind, payload, count, seen, result)

(* At, of the payload of this state. *)
LEMMA AtAgrees == \A p, b : At(p, b) <=> Agrees(payload, p, b)
BY DEF At, Agrees

(* The invariant holds at first: nothing is read. *)
LEMMA Initially == Init => IInv
<1> SUFFICES ASSUME Init PROVE IInv
  OBVIOUS
<1>1. kind \in Kind /\ payload \in Seq(Bytes)
  BY MessageAssumption DEF Init
<1>2. Typed(kind, payload, capacity, unknown, result)
  BY <1>1, BaseAssumption DEF Init, Typed
<1>3. Consumed(kind, payload, pos, count, seen, out, unknown)
  <2>1. <<>> \in Seq(LegalEntries(kind))
    BY EmptySeq
  <2> QED
    BY <2>1 DEF Init, Consumed
<1>4. Settled(kind, payload, pos, count, seen, result)
  BY DEF Init, Settled
<1>5. FollowsAll(kind, payload, count, seen, result)
  BY DEF Init, FollowsAll, Follows
<1> QED
  BY <1>2, <1>3, <1>4, <1>5 DEF IInv

(* parse_addr and parse_addrv2 up to the loop preserve the invariant. *)
LEMMA ReadCountStep == IInv /\ ReadCount => IInv'
<1> SUFFICES ASSUME IInv, ReadCount PROVE IInv'
  OBVIOUS
<1>1. /\ payload \in Seq(Bytes) /\ kind \in Vectors /\ count = Nil /\ result = "reading"
      /\ pos = 0 /\ seen = <<>> /\ out = <<>> /\ unknown = 0
      /\ kind' = kind /\ payload' = payload /\ out' = out /\ unknown' = unknown /\ seen' = seen
  BY DEF IInv, Typed, Consumed, ReadCount, Reject, Kind, Vectors
<1>2. \A es \in Seq(LegalEntries(kind)) :
         Len(es) <= MAX_ADDR_TO_SEND /\ Agrees(payload, 0, VectorBytes(kind, es)) =>
            /\ CountFirst(kind, es) /\ At(0, VectorBytes(kind, es))
            /\ Follows(kind, payload, count, seen, result, es)
  BY <1>1, CountAtStart, AtAgrees DEF IInv, FollowsAll
<1>3. CASE CompactAt(0) = NoValue
  <2>1. /\ result' = "NonCanonicalOrTruncated" /\ pos' = pos /\ count' = count
        /\ capacity' = capacity
    BY <1>3 DEF ReadCount, Reject
  <2>2. Typed(kind', payload', capacity', unknown', result')
    BY <1>1, <2>1 DEF IInv, Typed, AddrParseError
  <2>3. Consumed(kind', payload', pos', count', seen', out', unknown')
    BY <1>1, <2>1 DEF IInv
  <2>4. Settled(kind', payload', pos', count', seen', result')
    BY <2>1 DEF Settled
  <2>5. ASSUME NEW es \in Seq(LegalEntries(kind)), Len(es) <= MAX_ADDR_TO_SEND,
               Agrees(payload, 0, VectorBytes(kind, es))
        PROVE  Follows(kind', payload', count', seen', result', es)
    <3>1. ~Has(0, Len(CompactBytes(Len(es))))
      <4>1. SUFFICES ASSUME Has(0, Len(CompactBytes(Len(es)))) PROVE FALSE
        OBVIOUS
      <4>2. CompactAt(0) = [val |-> Len(es), end |-> Len(CompactBytes(Len(es)))]
        BY <1>2, <2>5, <4>1 DEF CountFirst
      <4>3. NoValue.end = Len(CompactBytes(Len(es))) /\ NoValue.end = Len(payload) + 1
        BY <1>3, <4>2 DEF NoValue
      <4>4. Len(payload) \in Nat
        BY <1>1, LenProperties
      <4> QED
        BY <4>1, <4>3, <4>4 DEF Has
    <3>2. Len(payload) < Len(VectorBytes(kind, es))
      <4>1. PICK c, n : c = Len(CompactBytes(Len(es))) /\ n = Len(VectorBytes(kind, es))
        OBVIOUS
      <4>2. c <= n /\ n \in Nat /\ Len(payload) \in Nat /\ c \in Nat
        BY <1>1, <1>2, <2>5, <4>1, LenProperties, CountBytes DEF CountFirst
      <4>3. ~(0 + c <= Len(payload))
        BY <3>1, <4>1 DEF Has
      <4> QED
        BY <4>1, <4>2, <4>3
    <3>3. Verdict(Len(payload), Len(VectorBytes(kind, es))) = "NonCanonicalOrTruncated"
      BY <3>2 DEF Verdict
    <3> QED
      BY <1>1, <2>1, <3>3 DEF Follows
  <2>6. FollowsAll(kind', payload', count', seen', result')
    BY <1>1, <2>5 DEF FollowsAll
  <2> QED
    BY <2>2, <2>3, <2>4, <2>6 DEF IInv
<1>4. CASE CompactAt(0) # NoValue /\ CompactAt(0).val > MAX_ADDR_TO_SEND
  <2>1. /\ result' = "TooMany" /\ pos' = pos /\ count' = count /\ capacity' = capacity
    BY <1>4 DEF ReadCount, Reject
  <2>2. Typed(kind', payload', capacity', unknown', result')
    BY <1>1, <2>1 DEF IInv, Typed, AddrParseError
  <2>3. Consumed(kind', payload', pos', count', seen', out', unknown')
    BY <1>1, <2>1 DEF IInv
  <2>4. Settled(kind', payload', pos', count', seen', result')
    BY <2>1 DEF Settled
  <2>5. ASSUME NEW es \in Seq(LegalEntries(kind)), Len(es) <= MAX_ADDR_TO_SEND,
               Agrees(payload, 0, VectorBytes(kind, es))
        PROVE  FALSE
    <3>1. CompactAt(0).val = Len(es)
      BY <1>2, <1>4, <2>5 DEF CountFirst
    <3>2. Len(es) \in Nat /\ MAX_ADDR_TO_SEND \in Nat
      BY LenProperties, BaseAssumption
    <3> QED
      BY <1>4, <2>5, <3>1, <3>2
  <2>6. FollowsAll(kind', payload', count', seen', result')
    BY <1>1, <2>5 DEF FollowsAll
  <2> QED
    BY <2>2, <2>3, <2>4, <2>6 DEF IInv
<1>5. CASE CompactAt(0) # NoValue /\ ~(CompactAt(0).val > MAX_ADDR_TO_SEND)
  <2>1. /\ result' = result /\ pos' = CompactAt(0).end /\ count' = CompactAt(0).val
        /\ capacity' = CompactAt(0).val
    BY <1>5 DEF ReadCount
  <2>2. PICK n \in 0 .. B8 - 1, q \in Nat :
           /\ n = CompactAt(0).val /\ q = CompactAt(0).end /\ q = 0 + Len(CompactBytes(n))
           /\ q <= Len(payload) /\ At(0, CompactBytes(n))
    BY <1>1, <1>5, CompactExact
  <2>3. n \in Nat /\ n <= MAX_ADDR_TO_SEND /\ n # Nil
    <3>1. n \in Nat /\ ~(n > MAX_ADDR_TO_SEND) /\ MAX_ADDR_TO_SEND \in Nat
      BY <1>5, <2>2, BaseAssumption, Bases
    <3>2. n <= MAX_ADDR_TO_SEND
      BY <3>1
    <3> QED
      BY <3>1, <3>2, NilAssumption
  <2>4. Typed(kind', payload', capacity', unknown', result')
    <3>1. n \in 0 .. MAX_ADDR_TO_SEND
      BY <2>3, BaseAssumption
    <3> QED
      BY <1>1, <2>1, <2>2, <3>1 DEF IInv, Typed
  <2>5. Consumed(kind', payload', pos', count', seen', out', unknown')
    <3>1. CompactBytes(n) \in Seq(Bytes)
      BY <2>3, CountBytes
    <3>2. Prefix(kind, n, <<>>) = CompactBytes(n)
      <4>1. CompactBytes(n) \o <<>> = CompactBytes(n)
        BY <3>1, ConcatEmptySeq
      <4> QED
        BY <4>1, ConcatEmpty DEF Prefix
    <3>3. Agrees(payload, 0, Prefix(kind, n, <<>>)) /\ q = Len(Prefix(kind, n, <<>>))
      <4>1. Agrees(payload, 0, CompactBytes(n))
        BY <2>2, AtAgrees
      <4>2. q = Len(CompactBytes(n))
        <5>1. Len(CompactBytes(n)) \in Nat
          BY <3>1, LenProperties
        <5> QED
          BY <2>2, <5>1
      <4> QED
        BY <3>2, <4>1, <4>2
    <3>4. <<>> = Concat(Advert(kind), <<>>)
      BY ConcatEmpty
    <3>5. Len(<<>>) <= n /\ Len(<<>>) + 0 = Len(<<>>) /\ <<>> \in Seq(LegalEntries(kind))
      BY <2>3, EmptySeq
    <3>6. Consumed(kind, payload, q, n, <<>>, <<>>, 0)
      BY <1>1, <2>2, <2>3, <3>3, <3>4, <3>5 DEF Consumed
    <3> QED
      BY <1>1, <2>1, <2>2, <3>6
  <2>6. Settled(kind', payload', pos', count', seen', result')
    BY <1>1, <2>1 DEF Settled
  <2>7. ASSUME NEW es \in Seq(LegalEntries(kind)), Len(es) <= MAX_ADDR_TO_SEND,
               Agrees(payload, 0, VectorBytes(kind, es))
        PROVE  Follows(kind', payload', count', seen', result', es)
    <3>1. CompactAt(0).val = Len(es)
      BY <1>2, <1>5, <2>7 DEF CountFirst
    <3>2. SubSeq(es, 1, Len(<<>>)) = <<>>
      BY SubSeqEmpty
    <3> QED
      BY <1>1, <2>1, <3>1, <3>2 DEF Follows
  <2>8. FollowsAll(kind', payload', count', seen', result')
    BY <1>1, <2>7 DEF FollowsAll
  <2> QED
    BY <2>4, <2>5, <2>6, <2>8 DEF IInv
<1> QED
  BY <1>3, <1>4, <1>5

(* Where the parser stands between two entries. *)
LEMMA Reading ==
    ASSUME IInv, count # Nil, Len(seen) < count
    PROVE  /\ payload \in Seq(Bytes) /\ kind \in Vectors /\ pos \in Nat /\ count \in Nat
           /\ seen \in Seq(LegalEntries(kind)) /\ pos <= Len(payload)
           /\ Prefix(kind, count, seen) \in Seq(Bytes) /\ CompactBytes(count) \in Seq(Bytes)
           /\ Concat(Encode(kind), seen) \in Seq(Bytes)
           /\ pos = Len(Prefix(kind, count, seen)) /\ At(0, Prefix(kind, count, seen))
<1>1. /\ payload \in Seq(Bytes) /\ kind \in Vectors /\ count \in Nat
      /\ seen \in Seq(LegalEntries(kind)) /\ pos <= Len(payload)
      /\ count <= MAX_ADDR_TO_SEND
      /\ pos = Len(Prefix(kind, count, seen)) /\ Agrees(payload, 0, Prefix(kind, count, seen))
  BY DEF IInv, Typed, Consumed
<1>2. CompactBytes(count) \in Seq(Bytes)
  BY <1>1, CountBytes
<1>3. Encode(kind) \in [LegalEntries(kind) -> Seq(Bytes)]
  BY <1>1, EncodeTyped
<1>4. Concat(Encode(kind), seen) \in Seq(Bytes)
  BY <1>1, <1>3, ConcatTyped
<1>5. Prefix(kind, count, seen) \in Seq(Bytes)
  BY <1>2, <1>4, ConcatProperties DEF Prefix
<1>6. pos \in Nat
  BY <1>1, <1>5, LenProperties
<1>7. At(0, Prefix(kind, count, seen))
  BY <1>1, AtAgrees
<1> QED
  BY <1>1, <1>2, <1>4, <1>5, <1>6, <1>7

(* The entry a legal vector has where the parser stands is the one read. *)
NextIs(es, n) ==
    /\ n \in 1 .. Len(es) /\ es[n] \in LegalEntries(kind)
    /\ seen = SubSeq(es, 1, n - 1)
    /\ EntryAt(pos) = Expected(kind, pos, es[n])
    /\ pos + Len(EntryBytes(kind, es[n])) <= Len(VectorBytes(kind, es))
    /\ Len(EntryBytes(kind, es[n])) \in Nat /\ Len(VectorBytes(kind, es)) \in Nat

(* The entry that follows those seen, in a vector the payload agrees with. *)
LEMMA NextEntry ==
    ASSUME IInv, count # Nil, Len(seen) < count,
           NEW es \in Seq(LegalEntries(kind)), Len(es) <= MAX_ADDR_TO_SEND,
           Agrees(payload, 0, VectorBytes(kind, es))
    PROVE  NextIs(es, Len(seen) + 1)
<1>1. /\ payload \in Seq(Bytes) /\ kind \in Vectors /\ pos \in Nat /\ count \in Nat
      /\ seen \in Seq(LegalEntries(kind)) /\ pos = Len(Prefix(kind, count, seen))
  BY Reading
<1>2. count = Len(es) /\ seen = SubSeq(es, 1, Len(seen))
  BY <1>1 DEF IInv, FollowsAll, Follows
<1>3. Len(seen) \in Nat
  BY <1>1, LenProperties
<1>4. PICK n \in 1 .. Len(es) : n = Len(seen) + 1 /\ n - 1 = Len(seen)
  BY <1>1, <1>2, <1>3
<1>5. seen = SubSeq(es, 1, n - 1)
  BY <1>2, <1>4
<1>6. Before(kind, es, n) = Prefix(kind, count, seen)
  BY <1>2, <1>5 DEF Before, Prefix
<1>7. At(0, VectorBytes(kind, es))
  BY AtAgrees
<1>8. EntryFollows(kind, es, n)
  BY <1>1, <1>7, EntryAfter
<1>9. /\ At(pos, EntryBytes(kind, es[n]))
      /\ pos + Len(EntryBytes(kind, es[n])) <= Len(VectorBytes(kind, es))
  <2>1. Len(Before(kind, es, n)) = pos
    BY <1>1, <1>6
  <2> QED
    BY <1>8, <2>1 DEF EntryFollows
<1>10. es[n] \in LegalEntries(kind) /\ EntryBytes(kind, es[n]) \in Seq(Bytes)
  BY <1>1, EntryWithin
<1>11. EntryAt(pos) = Expected(kind, pos, es[n])
  BY <1>1, <1>9, <1>10, EntryExact DEF LegalEntries, Vectors
<1>12. Len(EntryBytes(kind, es[n])) \in Nat /\ Len(VectorBytes(kind, es)) \in Nat
  <2>1. VectorBytes(kind, es) \in Seq(Bytes)
    BY <1>1, CountAtStart DEF CountFirst
  <2> QED
    BY <1>10, <2>1, LenProperties
<1> QED
  BY <1>4, <1>5, <1>9, <1>10, <1>11, <1>12 DEF NextIs

(* A turn of the loop preserves the invariant. *)
LEMMA ReadEntryStep == IInv /\ ReadEntry => IInv'
<1> SUFFICES ASSUME IInv, ReadEntry PROVE IInv'
  OBVIOUS
<1>1. /\ result = "reading" /\ count # Nil /\ Len(seen) < count
      /\ kind' = kind /\ payload' = payload /\ count' = count /\ capacity' = capacity
  BY DEF ReadEntry
<1>2. /\ payload \in Seq(Bytes) /\ kind \in Vectors /\ pos \in Nat /\ count \in Nat
      /\ seen \in Seq(LegalEntries(kind)) /\ Len(payload) \in Nat /\ Len(seen) \in Nat
  BY <1>1, Reading, LenProperties
<1>3. PICK r : r = EntryAt(pos)
  OBVIOUS
<1>4. \A es \in Seq(LegalEntries(kind)) :
         Len(es) <= MAX_ADDR_TO_SEND /\ Agrees(payload, 0, VectorBytes(kind, es)) =>
            NextIs(es, Len(seen) + 1) /\ count = Len(es)
  BY <1>1, <1>2, NextEntry DEF IInv, FollowsAll, Follows
<1>5. CASE r.error # Nil
  <2>1. /\ result' = r.error /\ pos' = pos /\ out' = out /\ unknown' = unknown /\ seen' = seen
    BY <1>3, <1>5 DEF ReadEntry, Reject
  <2>2. r.error \in AddrParseError
    BY <1>2, <1>3, <1>5, EntryExact DEF Vectors
  <2>3. Typed(kind', payload', capacity', unknown', result')
    BY <1>1, <2>1, <2>2 DEF IInv, Typed
  <2>4. Consumed(kind', payload', pos', count', seen', out', unknown')
    BY <1>1, <2>1 DEF IInv
  <2>5. Settled(kind', payload', pos', count', seen', result')
    BY <2>1, <2>2 DEF Settled, AddrParseError
  <2>6. ASSUME NEW es \in Seq(LegalEntries(kind)), Len(es) <= MAX_ADDR_TO_SEND,
               Agrees(payload, 0, VectorBytes(kind, es))
        PROVE  Follows(kind', payload', count', seen', result', es)
    <3>1. PICK n : n = Len(seen) + 1 /\ NextIs(es, n)
      BY <1>4, <2>6
    <3>2. PICK b \in Nat, m \in Nat :
             /\ b = Len(EntryBytes(kind, es[n])) /\ m = Len(VectorBytes(kind, es))
             /\ pos + b <= m /\ r = Expected(kind, pos, es[n])
      BY <1>3, <3>1 DEF NextIs
    <3>3. ~Has(pos, b) /\ r.error = "NonCanonicalOrTruncated"
      <4>1. Has(pos, b) => r.error = Nil
        BY <3>2 DEF Expected
      <4>2. ~Has(pos, b)
        BY <1>5, <4>1
      <4> QED
        BY <3>2, <4>2 DEF Expected, Failed
    <3>4. Len(payload) < m
      BY <1>2, <3>2, <3>3 DEF Has
    <3>5. Verdict(Len(payload), Len(VectorBytes(kind, es))) = "NonCanonicalOrTruncated"
      BY <3>2, <3>4 DEF Verdict
    <3>6. count' = Len(es) /\ seen' = SubSeq(es, 1, Len(seen'))
      BY <1>1, <1>2, <2>1, <2>6 DEF IInv, FollowsAll, Follows
    <3> QED
      BY <1>1, <2>1, <3>3, <3>5, <3>6 DEF Follows
  <2>7. FollowsAll(kind', payload', count', seen', result')
    BY <1>1, <2>6 DEF FollowsAll
  <2> QED
    BY <2>3, <2>4, <2>5, <2>7 DEF IInv
<1>6. CASE r.error = Nil
  <2>1. PICK e \in LegalEntries(kind), q \in {r.end} :
           /\ e = r.entry /\ q = r.end
           /\ At(pos, EntryBytes(kind, e)) /\ q = pos + Len(EntryBytes(kind, e))
           /\ q <= Len(payload)
    BY <1>2, <1>3, <1>6, EntryExact DEF Found, LegalEntries, Vectors
  <2>2. /\ result' = result /\ pos' = q /\ seen' = Append(seen, e)
        /\ out' = out \o Advertised(kind, e)
        /\ unknown' = unknown + (1 - Len(Advertised(kind, e)))
    BY <1>3, <1>6, <2>1 DEF ReadEntry
  <2>3. /\ Advert(kind) \in [LegalEntries(kind) -> Seq(Filed(kind))]
        /\ Advert(kind)[e] = Advertised(kind, e) /\ Advertised(kind, e) \in Seq(Filed(kind))
        /\ Len(Advertised(kind, e)) \in {0, 1}
    BY <1>2, AdvertTyped
  <2>4. /\ Encode(kind) \in [LegalEntries(kind) -> Seq(Bytes)]
        /\ Encode(kind)[e] = EntryBytes(kind, e) /\ EntryBytes(kind, e) \in Seq(Bytes)
    BY <1>2, EncodeTyped
  <2>5. Typed(kind', payload', capacity', unknown', result')
    <3>1. unknown \in Nat
      BY DEF IInv, Typed
    <3>2. PICK w \in {0, 1} : w = Len(Advertised(kind, e))
      BY <2>3
    <3>3. unknown + (1 - w) \in Nat
      BY <3>1
    <3> QED
      BY <1>1, <2>2, <3>2, <3>3 DEF IInv, Typed
  <2>6. /\ Append(seen, e) \in Seq(LegalEntries(kind))
        /\ Len(Append(seen, e)) = Len(seen) + 1 /\ Len(seen) + 1 <= count
    BY <1>1, <1>2
  <2>7. PICK f \in Seq(Bytes), b \in Seq(Bytes) :
           /\ f = Prefix(kind, count, seen) /\ b = EntryBytes(kind, e)
           /\ Prefix(kind, count, Append(seen, e)) = f \o b
    <3>1. Concat(Encode(kind), Append(seen, e)) = Concat(Encode(kind), seen) \o Encode(kind)[e]
      BY <1>2, <2>4, ConcatAppend
    <3>2. /\ CompactBytes(count) \in Seq(Bytes) /\ Concat(Encode(kind), seen) \in Seq(Bytes)
          /\ Prefix(kind, count, seen) \in Seq(Bytes)
      BY <1>1, Reading
    <3>3. CompactBytes(count) \o (Concat(Encode(kind), seen) \o EntryBytes(kind, e))
            = (CompactBytes(count) \o Concat(Encode(kind), seen)) \o EntryBytes(kind, e)
      BY <2>4, <3>2, ConcatAssociative, SMTT(60)
    <3> QED
      BY <2>4, <3>1, <3>2, <3>3 DEF Prefix
  <2>8. At(0, f \o b) /\ q = Len(f \o b)
    <3>1. At(0, f) /\ pos = Len(f) /\ Len(f) \in Nat /\ Len(b) \in Nat
      BY <1>1, <2>7, Reading, LenProperties
    <3>2. 0 + Len(f) = pos
      BY <3>1
    <3>3. At(0 + Len(f), b)
      BY <2>1, <2>7, <3>2
    <3>4. At(0, f \o b)
      BY <1>2, <3>1, <3>3, SplitAt
    <3>5. AddsUp(f, b)
      BY JoinedAddsUp
    <3>6. q = Len(f) + Len(b)
      BY <2>1, <2>7, <3>1
    <3> QED
      BY <3>4, <3>5, <3>6 DEF AddsUp
  <2>9. /\ out' = Concat(Advert(kind), Append(seen, e))
        /\ Len(out') + unknown' = Len(Append(seen, e))
    <3>1. /\ out = Concat(Advert(kind), seen) /\ Len(out) + unknown = Len(seen)
          /\ unknown \in Nat
      BY <1>1 DEF IInv, Consumed, Typed
    <3>2. Concat(Advert(kind), Append(seen, e)) = Concat(Advert(kind), seen) \o Advert(kind)[e]
      BY <1>2, <2>3, ConcatAppend
    <3>3. out' = Concat(Advert(kind), Append(seen, e))
      BY <2>2, <2>3, <3>1, <3>2, Zenon
    <3>4. out \in Seq(Filed(kind))
      BY <1>2, <2>3, <3>1, ConcatTyped
    <3>5. Len(out \o Advertised(kind, e)) = Len(out) + Len(Advertised(kind, e))
      BY <2>3, <3>4, ConcatProperties
    <3>6. Len(out) \in Nat /\ Len(Advertised(kind, e)) \in Nat
      BY <2>3, <3>4, LenProperties
    <3>7. Len(out) + Len(Advertised(kind, e)) + (unknown + (1 - Len(Advertised(kind, e))))
            = Len(seen) + 1
      BY <1>2, <3>1, <3>6
    <3>8. Len(out') + unknown' = Len(seen) + 1
      BY <2>2, <3>5, <3>7
    <3> QED
      BY <2>6, <3>3, <3>8
  <2>10. Consumed(kind', payload', pos', count', seen', out', unknown')
    <3>1. Agrees(payload, 0, f \o b)
      BY <2>8, AtAgrees
    <3>2. Consumed(kind, payload, q, count, Append(seen, e), out', unknown')
      BY <1>1, <1>2, <2>1, <2>6, <2>7, <2>8, <2>9, <3>1 DEF Consumed, IInv
    <3> QED
      BY <1>1, <2>2, <3>2
  <2>11. Settled(kind', payload', pos', count', seen', result')
    BY <1>1, <2>2 DEF Settled
  <2>12. ASSUME NEW es \in Seq(LegalEntries(kind)), Len(es) <= MAX_ADDR_TO_SEND,
                Agrees(payload, 0, VectorBytes(kind, es))
         PROVE  Follows(kind', payload', count', seen', result', es)
    <3>1. PICK n : n = Len(seen) + 1 /\ NextIs(es, n)
      BY <1>4, <2>12
    <3>2. n \in 1 .. Len(es) /\ seen = SubSeq(es, 1, n - 1) /\ r = Expected(kind, pos, es[n])
      BY <1>3, <3>1 DEF NextIs
    <3>3. e = es[n]
      <4>1. Nil # "NonCanonicalOrTruncated"
        BY NilAssumption DEF AddrParseError
      <4>2. Has(pos, Len(EntryBytes(kind, es[n])))
        BY <1>6, <3>2, <4>1 DEF Expected, Failed
      <4> QED
        BY <2>1, <3>2, <4>2 DEF Expected
    <3>4. SubSeq(es, 1, n) = Append(SubSeq(es, 1, n - 1), es[n])
      BY <3>2, FrontAndLast
    <3>5. seen' = SubSeq(es, 1, Len(seen'))
      <4>1. Len(seen') = n
        BY <2>2, <2>6, <3>1
      <4>2. seen' = Append(seen, e)
        BY <2>2
      <4> QED
        BY <3>2, <3>3, <3>4, <4>1, <4>2
    <3>6. count' = Len(es)
      BY <1>1, <1>4, <2>12
    <3> QED
      BY <1>1, <2>2, <3>5, <3>6 DEF Follows
  <2>13. FollowsAll(kind', payload', count', seen', result')
    BY <1>1, <2>12 DEF FollowsAll
  <2> QED
    BY <2>5, <2>10, <2>11, <2>13 DEF IInv
<1> QED
  BY <1>5, <1>6

(* finish_addr_parse preserves the invariant. *)
LEMMA FinishStep == IInv /\ Finish => IInv'
<1> SUFFICES ASSUME IInv, Finish PROVE IInv'
  OBVIOUS
<1>1. /\ result = "reading" /\ count # Nil /\ Len(seen) = count
      /\ result' = IF Has(pos, 1) THEN "TrailingBytes" ELSE "ok"
      /\ kind' = kind /\ payload' = payload /\ count' = count /\ capacity' = capacity
      /\ pos' = pos /\ out' = out /\ unknown' = unknown /\ seen' = seen
  BY DEF Finish
<1>2. /\ payload \in Seq(Bytes) /\ kind \in Vectors /\ count \in Nat
      /\ seen \in Seq(LegalEntries(kind)) /\ count <= MAX_ADDR_TO_SEND
      /\ pos = Len(Prefix(kind, count, seen)) /\ pos <= Len(payload)
  BY <1>1 DEF IInv, Typed, Consumed
<1>3. Prefix(kind, count, seen) = VectorBytes(kind, seen)
  BY <1>1, <1>2, ThroughEncode DEF Prefix
<1>4. pos \in Nat /\ Len(payload) \in Nat
  <2>1. VectorBytes(kind, seen) \in Seq(Bytes)
    BY <1>1, <1>2, CountAtStart DEF CountFirst
  <2> QED
    BY <1>2, <1>3, <2>1, LenProperties
<1>5. ~Has(pos, 1) => pos = Len(payload)
  BY <1>2, <1>4 DEF Has
<1>6. Typed(kind', payload', capacity', unknown', result')
  BY <1>1 DEF IInv, Typed, AddrParseError
<1>7. Consumed(kind', payload', pos', count', seen', out', unknown')
  BY <1>1 DEF IInv
<1>8. Settled(kind', payload', pos', count', seen', result')
  BY <1>1, <1>5 DEF Settled
<1>9. ASSUME NEW es \in Seq(LegalEntries(kind)), Len(es) <= MAX_ADDR_TO_SEND,
             Agrees(payload, 0, VectorBytes(kind, es))
      PROVE  Follows(kind', payload', count', seen', result', es)
  <2>1. count = Len(es) /\ seen = SubSeq(es, 1, Len(seen))
    BY <1>1, <1>2, <1>9 DEF IInv, FollowsAll, Follows
  <2>2. SubSeq(es, 1, Len(es)) = es
    BY SubSeqFull
  <2>3. seen = es
    BY <1>1, <2>1, <2>2
  <2>4. Len(VectorBytes(kind, es)) = pos
    BY <1>2, <1>3, <2>3
  <2>5. Verdict(Len(payload), pos) = IF Has(pos, 1) THEN "TrailingBytes" ELSE "ok"
    <3>1. ~(Len(payload) < pos) /\ (Len(payload) = pos <=> ~Has(pos, 1))
      BY <1>2, <1>4 DEF Has
    <3> QED
      BY <3>1 DEF Verdict
  <2> QED
    BY <1>1, <2>1, <2>4, <2>5 DEF Follows
<1>10. FollowsAll(kind', payload', count', seen', result')
  BY <1>1, <1>9 DEF FollowsAll
<1> QED
  BY <1>6, <1>7, <1>8, <1>10 DEF IInv

(* The steps that read no vector. *)
LEMMA OtherSteps == IInv /\ (ReadVersion \/ Done \/ UNCHANGED vars) => IInv'
<1>1. ASSUME IInv, ReadVersion PROVE IInv'
  <2>1. /\ kind = "version" /\ result' \in {"None", "ok"}
        /\ kind' = kind /\ payload' = payload /\ count' = count /\ capacity' = capacity
        /\ pos' = pos /\ out' = out /\ unknown' = unknown /\ seen' = seen
    BY <1>1 DEF ReadVersion
  <2>2. Typed(kind', payload', capacity', unknown', result')
    BY <1>1, <2>1 DEF IInv, Typed
  <2>3. Consumed(kind', payload', pos', count', seen', out', unknown')
    BY <1>1, <2>1 DEF IInv
  <2>4. kind' \notin Vectors
    BY <2>1 DEF Vectors
  <2> QED
    BY <2>2, <2>3, <2>4 DEF IInv, Settled, FollowsAll
<1>2. ASSUME IInv, UNCHANGED vars PROVE IInv'
  BY <1>2 DEF IInv, vars
<1> QED
  BY <1>1, <1>2 DEF Done

(* The inductive invariant. *)
LEMMA Invariant == Spec => []IInv
<1>1. IInv /\ [Next]_vars => IInv'
  BY ReadCountStep, ReadEntryStep, FinishStep, OtherSteps DEF Next
<1> QED
  BY <1>1, Initially, PTL DEF Spec

(***************************************************************************)
(* The parsers stay within the types of the code: the cursor within the    *)
(* payload, the result a known error, never more entries than the declared *)
(* count, and each of them either collected or counted as unknown          *)
(* (parse_addr, parse_addrv2, parse_version).                              *)
(***************************************************************************)
THEOREM TypeCorrect == Spec => []TypeOK
<1>1. IInv => TypeOK
  <2> SUFFICES ASSUME IInv PROVE TypeOK
    OBVIOUS
  <2>1. kind \in Kind /\ payload \in Seq(Bytes) /\ capacity \in 0 .. MAX_ADDR_TO_SEND
        /\ unknown \in Nat /\ result \in {"reading", "ok", "None"} \cup AddrParseError
    BY DEF IInv, Typed
  <2>2. CASE count = Nil
    <3>1. pos = 0 /\ out = <<>>
      BY <2>2 DEF IInv, Consumed
    <3>2. Len(payload) \in Nat
      BY <2>1, LenProperties
    <3>3. pos \in 0 .. Len(payload) /\ DOMAIN out = {}
      BY <3>1, <3>2
    <3> QED
      BY <2>1, <2>2, <3>3 DEF TypeOK
  <2>3. CASE count # Nil
    <3>1. /\ count \in Nat /\ pos <= Len(payload) /\ Len(seen) <= count
          /\ Len(out) + unknown = Len(seen) /\ kind \in Vectors
          /\ out = Concat(Advert(kind), seen) /\ seen \in Seq(LegalEntries(kind))
          /\ count <= MAX_ADDR_TO_SEND /\ pos = Len(Prefix(kind, count, seen))
      BY <2>3 DEF IInv, Consumed
    <3>2. out \in Seq(Filed(kind))
      BY <3>1, AdvertTyped, ConcatTyped
    <3>3. \A i \in DOMAIN out : out[i].network \in Network
      BY <3>2, FiledRight
    <3>4. pos \in 0 .. Len(payload)
      <4>1. CompactBytes(count) \in Seq(Bytes) /\ Concat(Encode(kind), seen) \in Seq(Bytes)
        BY <2>1, <3>1, CountBytes, EncodeTyped, ConcatTyped
      <4>2. Prefix(kind, count, seen) \in Seq(Bytes)
        BY <4>1, ConcatProperties DEF Prefix
      <4>3. pos \in Nat /\ Len(payload) \in Nat
        BY <2>1, <3>1, <4>2, LenProperties
      <4> QED
        BY <3>1, <4>3
    <3> QED
      BY <2>1, <3>1, <3>3, <3>4 DEF TypeOK
  <2> QED
    BY <2>2, <2>3
<1> QED
  BY <1>1, Invariant, PTL

(***************************************************************************)
(* Every address collected is filed under the network classify gives its   *)
(* host, but for an fc00::/8 host of a legacy addr message: for every      *)
(* payload, not only for those of a run (decode_legacy_ip, decode_addrv2). *)
(***************************************************************************)
THEOREM NetworkAgreement == Spec => []NetworkAgrees
<1>1. IInv => NetworkAgrees
  <2> SUFFICES ASSUME IInv, NEW i \in DOMAIN out PROVE Misfiled(kind, out[i])
    BY DEF NetworkAgrees, Misfiled
  <2>1. CASE count = Nil
    <3>1. out = <<>>
      BY <2>1 DEF IInv, Consumed
    <3> QED
      BY <3>1
  <2>2. CASE count # Nil
    <3>1. /\ kind \in Vectors /\ out = Concat(Advert(kind), seen)
          /\ seen \in Seq(LegalEntries(kind))
      BY <2>2 DEF IInv, Consumed
    <3>2. out \in Seq(Filed(kind))
      BY <3>1, AdvertTyped, ConcatTyped
    <3> QED
      BY <3>2, FiledRight
  <2> QED
    BY <2>1, <2>2
<1> QED
  BY <1>1, Invariant, PTL

-----------------------------------------------------------------------------
(* What the verdicts mean. *)

(* A legal vector is a short sequence of legal entries. *)
LEMMA LegalSequence ==
    ASSUME NEW k, NEW es \in Seq(Entry), LegalVector(k, es)
    PROVE  es \in Seq(LegalEntries(k)) /\ Len(es) <= MAX_ADDR_TO_SEND
<1>1. /\ Len(es) \in Nat /\ DOMAIN es = 1 .. Len(es)
      /\ \A i \in 1 .. Len(es) : es[i] \in Entry
  BY LenProperties, ElementOfSeq
<1>2. \A i \in 1 .. Len(es) : es[i] \in LegalEntries(k)
  BY <1>1 DEF LegalVector, LegalEntries
<1>3. es \in Seq(LegalEntries(k))
  <2>1. PICK n \in Nat : n = Len(es)
    BY <1>1
  <2>2. es \in [1 .. n -> LegalEntries(k)]
    <3>1. es \in [1 .. Len(es) -> Entry]
      BY LenProperties
    <3> QED
      BY <1>2, <2>1, <3>1
  <2> QED
    BY <2>2, SeqDef
<1> QED
  BY <1>3 DEF LegalVector

(* Sequences of one length that agree are equal. *)
LEMMA AgreesWhole ==
    ASSUME NEW pl \in Seq(Bytes), NEW b \in Seq(Bytes)
    PROVE  /\ Agrees(pl, 0, b) /\ Len(pl) = Len(b) => pl = b
           /\ Agrees(pl, 0, pl)
<1>1. Len(pl) \in Nat /\ Len(b) \in Nat /\ \A i \in 1 .. Len(b) : 0 + i = i
  BY LenProperties
<1>2. ASSUME Agrees(pl, 0, b), Len(pl) = Len(b) PROVE pl = b
  <2>1. \A i \in 1 .. Len(pl) : pl[i] = b[i]
    BY <1>1, <1>2 DEF Agrees
  <2> QED
    BY <1>2, <2>1, SeqEqual
<1>3. Agrees(pl, 0, pl)
  <2>1. \A i \in 1 .. Len(pl) : 0 + i = i
    BY <1>1
  <2> QED
    BY <2>1 DEF Agrees
<1> QED
  BY <1>2, <1>3

(* A prefix agrees, in both directions. *)
LEMMA PrefixAgrees ==
    ASSUME NEW s \in Seq(Bytes), NEW t \in Seq(Bytes), IsPrefix(s, t)
    PROVE  Len(s) <= Len(t) /\ Agrees(s, 0, t) /\ Agrees(t, 0, s)
<1>1. Len(s) \in Nat /\ Len(t) \in Nat /\ Len(s) <= Len(t)
  BY LenProperties DEF IsPrefix
<1>2. PICK n \in Nat : n = Len(s) /\ n <= Len(t)
  BY <1>1
<1>3. SubSeq(s, 1, n) = SubSeq(t, 1, n)
  BY <1>2 DEF IsPrefix
<1>4. \A i \in 1 .. n : SubSeq(s, 1, n)[i] = s[i]
  BY <1>1, <1>2, PrefixOf
<1>5. \A i \in 1 .. n : SubSeq(t, 1, n)[i] = t[i]
  BY <1>1, <1>2, PrefixOf
<1>6. \A i \in 1 .. n : s[i] = t[i]
  BY <1>3, <1>4, <1>5
<1>7. Agrees(s, 0, t)
  <2>1. ASSUME NEW i \in 1 .. Len(t), 0 + i <= Len(s) PROVE s[0 + i] = t[i]
    <3>1. 0 + i = i /\ i \in 1 .. n
      BY <1>1, <1>2, <2>1
    <3> QED
      BY <1>6, <3>1
  <2> QED
    BY <2>1 DEF Agrees
<1>8. Agrees(t, 0, s)
  <2>1. ASSUME NEW i \in 1 .. Len(s) PROVE t[0 + i] = s[i]
    <3>1. 0 + i = i /\ i \in 1 .. n
      BY <1>1, <1>2, <2>1
    <3> QED
      BY <1>6, <3>1
  <2> QED
    BY <2>1 DEF Agrees
<1> QED
  BY <1>1, <1>7, <1>8

(* The reference encodings are those of legal vectors. *)
LEMMA EncodingIs ==
    ASSUME payload \in Seq(Bytes), kind \in Vectors, NEW b \in Encodings
    PROVE  \E es \in Seq(LegalEntries(kind)) :
              /\ Len(es) <= MAX_ADDR_TO_SEND /\ b = VectorBytes(kind, es)
              /\ VectorBytes(kind, es) \in Seq(Bytes)
<1>1. PICK es \in Seq(Entry) : LegalVector(kind, es) /\ b = VectorBytes(kind, es)
  <2>1. CASE kind = "addr"
    BY <2>1, MessageAssumption DEF Encodings, AddrEncodings
  <2>2. CASE kind = "addrv2"
    BY <2>2, MessageAssumption DEF Encodings, Addrv2Encodings
  <2> QED
    BY <2>1, <2>2 DEF Vectors
<1>2. es \in Seq(LegalEntries(kind)) /\ Len(es) <= MAX_ADDR_TO_SEND
  BY <1>1, LegalSequence
<1>3. VectorBytes(kind, es) \in Seq(Bytes)
  BY <1>2, CountAtStart DEF CountFirst
<1> QED
  BY <1>1, <1>2, <1>3

(***************************************************************************)
(* parse_addr and parse_addrv2 accept a payload exactly when it is the     *)
(* canonical encoding of a legal vector, and yield its known entries in    *)
(* order (those of Tor v2 left open): for every payload of any length,     *)
(* every base (256 among them) and every limit on counts and lengths.      *)
(***************************************************************************)
THEOREM AcceptanceExact == Spec => []AcceptsExactly
<1>1. IInv => AcceptsExactly
  <2> SUFFICES ASSUME IInv, IsVector
               PROVE  IF result = "ok"
                      THEN /\ LegalVector(kind, seen)
                           /\ payload = VectorBytes(kind, seen)
                           /\ Len(seen) = count
                           /\ (\A i \in DOMAIN seen : seen[i].id # TorV2) =>
                                 out = FlattenSeq([i \in DOMAIN seen |-> Advertised(kind, seen[i])])
                      ELSE payload \notin Encodings
    BY DEF AcceptsExactly
  <2>1. kind \in Vectors /\ payload \in Seq(Bytes) /\ result # "reading"
    BY DEF IInv, Typed, IsVector, Kind, Vectors
  <2>2. CASE result = "ok"
    <3>1. count # Nil /\ Len(seen) = count /\ pos = Len(payload)
      BY <2>1, <2>2 DEF IInv, Settled
    <3>2. /\ seen \in Seq(LegalEntries(kind)) /\ count <= MAX_ADDR_TO_SEND
          /\ Agrees(payload, 0, Prefix(kind, count, seen))
          /\ pos = Len(Prefix(kind, count, seen)) /\ out = Concat(Advert(kind), seen)
      BY <3>1 DEF IInv, Consumed
    <3>3. Prefix(kind, count, seen) = VectorBytes(kind, seen)
      BY <2>1, <3>1, <3>2, ThroughEncode DEF Prefix
    <3>4. VectorBytes(kind, seen) \in Seq(Bytes)
      BY <2>1, <3>1, <3>2, CountAtStart DEF CountFirst
    <3>5. payload = VectorBytes(kind, seen)
      BY <2>1, <3>1, <3>2, <3>3, <3>4, AgreesWhole
    <3>6. out = FlattenSeq([i \in DOMAIN seen |-> Advertised(kind, seen[i])])
      BY <2>1, <3>2, ThroughEncode
    <3>7. LegalVector(kind, seen)
      <4>1. \A i \in DOMAIN seen : seen[i] \in LegalEntries(kind)
        BY <3>2, LenProperties, ElementOfSeq
      <4> QED
        BY <3>1, <3>2, <4>1 DEF LegalVector, LegalEntries
    <3> QED
      BY <2>2, <3>1, <3>5, <3>6, <3>7
  <2>3. CASE result # "ok"
    <3>1. SUFFICES ASSUME payload \in Encodings PROVE FALSE
      BY <2>3
    <3>2. PICK es \in Seq(LegalEntries(kind)) :
             Len(es) <= MAX_ADDR_TO_SEND /\ payload = VectorBytes(kind, es)
      BY <2>1, <3>1, EncodingIs
    <3>3. Agrees(payload, 0, VectorBytes(kind, es))
      BY <2>1, <3>2, AgreesWhole
    <3>4. result = Verdict(Len(payload), Len(VectorBytes(kind, es)))
      BY <2>1, <3>2, <3>3 DEF IInv, FollowsAll, Follows
    <3>5. Verdict(Len(payload), Len(payload)) = "ok"
      <4>1. Len(payload) \in Nat
        BY <2>1, LenProperties
      <4>2. ~(Len(payload) < Len(payload))
        BY <4>1
      <4> QED
        BY <4>2 DEF Verdict
    <3> QED
      BY <2>3, <3>2, <3>4, <3>5
  <2> QED
    BY <2>2, <2>3
<1> QED
  BY <1>1, Invariant, PTL

(***************************************************************************)
(* A proper prefix of the encoding of a legal vector is refused as         *)
(* truncated, a proper extension for its trailing bytes, and no vector is  *)
(* allocated for more than MAX_ADDR_TO_SEND entries (check_addr_count,     *)
(* finish_addr_parse, the errors of the loop).                             *)
(***************************************************************************)
THEOREM RefusalRight == Spec => []RefusalExplained
<1>1. IInv => RefusalExplained
  <2> SUFFICES ASSUME IInv PROVE RefusalExplained
    OBVIOUS
  <2>1. capacity <= MAX_ADDR_TO_SEND
    BY BaseAssumption DEF IInv, Typed
  <2>2. ASSUME IsVector, NEW e \in Encodings
        PROVE  /\ IsStrictPrefix(payload, e) => result = "NonCanonicalOrTruncated"
               /\ IsStrictPrefix(e, payload) => result = "TrailingBytes"
    <3>1. kind \in Vectors /\ payload \in Seq(Bytes) /\ result # "reading"
      BY <2>2 DEF IInv, Typed, IsVector, Kind, Vectors
    <3>2. PICK es \in Seq(LegalEntries(kind)) :
             /\ Len(es) <= MAX_ADDR_TO_SEND /\ e = VectorBytes(kind, es)
             /\ VectorBytes(kind, es) \in Seq(Bytes)
      BY <3>1, EncodingIs
    <3>3. Len(payload) \in Nat /\ Len(e) \in Nat /\ e \in Seq(Bytes)
      BY <3>1, <3>2, LenProperties
    <3>4. Agrees(payload, 0, e) => result = Verdict(Len(payload), Len(e))
      BY <3>1, <3>2 DEF IInv, FollowsAll, Follows
    <3>5. ASSUME IsStrictPrefix(payload, e) PROVE result = "NonCanonicalOrTruncated"
      <4>1. Len(payload) <= Len(e) /\ Agrees(payload, 0, e) /\ payload # e
        BY <3>1, <3>3, <3>5, PrefixAgrees DEF IsStrictPrefix
      <4>2. Len(payload) # Len(e)
        BY <3>1, <3>3, <4>1, AgreesWhole
      <4>3. Len(payload) < Len(e)
        BY <3>3, <4>1, <4>2
      <4> QED
        BY <3>4, <4>1, <4>3 DEF Verdict
    <3>6. ASSUME IsStrictPrefix(e, payload) PROVE result = "TrailingBytes"
      <4>1. Len(e) <= Len(payload) /\ Agrees(payload, 0, e) /\ payload # e
        BY <3>1, <3>3, <3>6, PrefixAgrees DEF IsStrictPrefix
      <4>2. Len(payload) # Len(e)
        BY <3>1, <3>3, <4>1, AgreesWhole
      <4>3. ~(Len(payload) < Len(e)) /\ Len(payload) # Len(e)
        BY <3>3, <4>1, <4>2
      <4> QED
        BY <3>4, <4>1, <4>3 DEF Verdict
    <3> QED
      BY <3>5, <3>6
  <2> QED
    BY <2>1, <2>2 DEF RefusalExplained
<1> QED
  BY <1>1, Invariant, PTL

-----------------------------------------------------------------------------
(* The version message: hosts and net addresses. *)

(* The twelve digits before an IPv4 address. *)
LEMMA MappedPrefixBytes == MappedPrefix \in Seq(Bytes) /\ Len(MappedPrefix) = 12
<1>1. 0 \in Bytes /\ FF \in Bytes
  BY Bases DEF Bytes, FF
<1>2. MappedPrefix \in [1 .. 12 -> Bytes]
  BY <1>1 DEF MappedPrefix
<1>3. MappedPrefix \in Seq(Bytes)
  BY <1>2, SeqDef
<1>4. Len(MappedPrefix) = 12
  <2>1. DOMAIN MappedPrefix = 1 .. 12 /\ DOMAIN MappedPrefix = 1 .. Len(MappedPrefix)
    BY <1>2, <1>3, LenProperties
  <2>2. Len(MappedPrefix) \in Nat
    BY <1>3, LenProperties
  <2>3. \A n \in Nat : 1 .. n = 1 .. 12 => n = 12
    <3>1. ASSUME NEW n \in Nat, 1 .. n = 1 .. 12 PROVE n = 12
      <4>1. n < 12 => 12 \in 1 .. 12 /\ 12 \notin 1 .. n
        OBVIOUS
      <4>2. n > 12 => n \in 1 .. n /\ n \notin 1 .. 12
        OBVIOUS
      <4>3. ~(n < 12) /\ ~(n > 12)
        BY <3>1, <4>1, <4>2
      <4> QED
        BY <4>3
    <3> QED
      BY <3>1
  <2> QED
    BY <2>1, <2>2, <2>3
<1> QED
  BY <1>3, <1>4

IsSlice(S, s, p, n, t) == t \in Seq(S) /\ Len(t) = n /\ \A i \in 1 .. n : t[i] = s[p + i]

(* Slice, as one formula. *)
LEMMA SliceIs ==
    ASSUME NEW S, NEW s \in Seq(S), NEW p \in Nat, NEW n \in Nat, p + n <= Len(s),
           NEW a, a = p + 1, NEW b, b = p + n
    PROVE  IsSlice(S, s, p, n, SubSeq(s, a, b))
<1>1. /\ SubSeq(s, p + 1, p + n) \in Seq(S) /\ Len(SubSeq(s, p + 1, p + n)) = n
      /\ \A i \in 1 .. n : SubSeq(s, p + 1, p + n)[i] = s[p + i]
  BY Slice
<1> QED
  BY <1>1 DEF IsSlice

(* The first twelve of sixteen digits, and the last four. *)
LEMMA HalvesAre ==
    ASSUME NEW s \in Seq(Bytes)
    PROVE  Len(s) = 16 => /\ IsSlice(Bytes, s, 0, 12, SubSeq(s, 1, 12))
                         /\ IsSlice(Bytes, s, 12, 4, SubSeq(s, 13, 16))
<1>1. ASSUME Len(s) = 16 PROVE 0 + 12 <= Len(s) /\ 12 + 4 <= Len(s)
  BY <1>1
<1>2. 0 \in Nat /\ 12 \in Nat /\ 4 \in Nat /\ 1 = 0 + 1 /\ 12 = 0 + 12 /\ 13 = 12 + 1 /\ 16 = 12 + 4
  OBVIOUS
<1>3. 0 + 12 <= Len(s) => IsSlice(Bytes, s, 0, 12, SubSeq(s, 1, 12))
  BY <1>2, SliceIs
<1>4. 12 + 4 <= Len(s) => IsSlice(Bytes, s, 12, 4, SubSeq(s, 13, 16))
  BY <1>2, SliceIs
<1> QED
  BY <1>1, <1>3, <1>4

(* Sixteen digits are the first twelve and the last four. *)
LEMMA Halves ==
    ASSUME NEW s \in Seq(Bytes), Len(s) = 16
    PROVE  /\ SubSeq(s, 1, 12) \in Seq(Bytes) /\ Len(SubSeq(s, 1, 12)) = 12
           /\ SubSeq(s, 13, 16) \in Seq(Bytes) /\ Len(SubSeq(s, 13, 16)) = 4
           /\ SubSeq(s, 1, 12) \o SubSeq(s, 13, 16) = s
<1>1. IsSlice(Bytes, s, 0, 12, SubSeq(s, 1, 12))
  BY HalvesAre
<1>2. IsSlice(Bytes, s, 12, 4, SubSeq(s, 13, 16))
  BY HalvesAre
<1>3. PICK a \in Seq(Bytes), b \in Seq(Bytes) :
        /\ a = SubSeq(s, 1, 12) /\ b = SubSeq(s, 13, 16)
        /\ Len(a) = 12 /\ Len(b) = 4
        /\ \A i \in 1 .. 12 : a[i] = s[i]
        /\ \A i \in 1 .. 4 : b[i] = s[12 + i]
  <2>1. \A i \in 1 .. 12 : 0 + i = i
    OBVIOUS
  <2> QED
    BY <1>1, <1>2, <2>1 DEF IsSlice
<1>4. /\ a \o b \in Seq(Bytes) /\ Len(a \o b) = Len(a) + Len(b)
      /\ \A i \in 1 .. Len(a) + Len(b) : (a \o b)[i] = IF i <= Len(a) THEN a[i] ELSE b[i - Len(a)]
  BY ConcatProperties
<1>5. Len(a) = 12 /\ Len(a) + Len(b) = 16
  BY <1>3
<1>6. \A i \in 1 .. 16 : (a \o b)[i] = IF i <= 12 THEN a[i] ELSE b[i - 12]
  BY <1>4, <1>5
<1>7. ASSUME NEW i \in 1 .. 16 PROVE (a \o b)[i] = s[i]
  <2>1. CASE i <= 12
    BY <1>3, <1>6, <2>1
  <2>2. CASE ~(i <= 12)
    <3>1. i - 12 \in 1 .. 4 /\ 12 + (i - 12) = i
      BY <2>2
    <3>2. b[i - 12] = s[i]
      BY <1>3, <3>1
    <3> QED
      BY <1>6, <2>2, <3>2
  <2> QED
    BY <2>1, <2>2
<1>8. a \o b = s
  BY <1>4, <1>5, <1>7, SeqEqual, ZenonT(60)
<1> QED
  BY <1>3, <1>8

(* Twelve digits and four are told apart again. *)
LEMMA JoinedHalves ==
    ASSUME NEW a \in Seq(Bytes), NEW b \in Seq(Bytes), Len(a) = 12, Len(b) = 4
    PROVE  /\ a \o b \in Seq(Bytes) /\ Len(a \o b) = 16
           /\ SubSeq(a \o b, 1, 12) = a /\ SubSeq(a \o b, 13, 16) = b
<1>1. PICK s : s = a \o b
  OBVIOUS
<1>2. /\ s \in Seq(Bytes) /\ Len(s) = Len(a) + Len(b)
      /\ \A i \in 1 .. Len(a) + Len(b) : s[i] = IF i <= Len(a) THEN a[i] ELSE b[i - Len(a)]
  BY <1>1, ConcatProperties
<1>3. Len(s) = 16
  BY <1>2
<1>4. \A i \in 1 .. 16 : s[i] = IF i <= 12 THEN a[i] ELSE b[i - 12]
  BY <1>2
<1>5. /\ SubSeq(s, 1, 12) \in Seq(Bytes) /\ Len(SubSeq(s, 1, 12)) = 12
      /\ \A i \in 1 .. 12 : SubSeq(s, 1, 12)[i] = s[i]
  <2>1. IsSlice(Bytes, s, 0, 12, SubSeq(s, 1, 12))
    BY <1>2, <1>3, HalvesAre
  <2>2. \A i \in 1 .. 12 : 0 + i = i
    OBVIOUS
  <2> QED
    BY <2>1, <2>2 DEF IsSlice
<1>6. /\ SubSeq(s, 13, 16) \in Seq(Bytes) /\ Len(SubSeq(s, 13, 16)) = 4
      /\ \A i \in 1 .. 4 : SubSeq(s, 13, 16)[i] = s[12 + i]
  <2>1. IsSlice(Bytes, s, 12, 4, SubSeq(s, 13, 16))
    BY <1>2, <1>3, HalvesAre
  <2> QED
    BY <2>1 DEF IsSlice
<1>7. SubSeq(s, 1, 12) = a
  <2>1. \A i \in 1 .. 12 : SubSeq(s, 1, 12)[i] = a[i]
    BY <1>4, <1>5, SMTT(60)
  <2> QED
    BY <1>5, <2>1, SeqEqual
<1>8. SubSeq(s, 13, 16) = b
  <2>1. \A i \in 1 .. 4 : 12 + i \in 1 .. 16 /\ ~(12 + i <= 12) /\ 12 + i - 12 = i
    OBVIOUS
  <2>2. \A i \in 1 .. 4 : SubSeq(s, 13, 16)[i] = b[i]
    BY <1>4, <1>6, <2>1
  <2> QED
    BY <1>6, <2>2, SeqEqual
<1> QED
  BY <1>1, <1>2, <1>3, <1>7, <1>8

(* decode_legacy_ip is one to one between sixteen digits and hosts. *)
LEMMA HostExact ==
    /\ \A ip \in Seq(Bytes) : Len(ip) = 16 =>
          LegacyHost(ip) \in LegacyHosts /\ HostBytes(LegacyHost(ip)) = ip
    /\ \A h \in LegacyHosts :
          /\ HostBytes(h) \in Seq(Bytes) /\ Len(HostBytes(h)) = 16
          /\ LegacyHost(HostBytes(h)) = h
<1>1. ASSUME NEW ip \in Seq(Bytes), Len(ip) = 16
      PROVE  LegacyHost(ip) \in LegacyHosts /\ HostBytes(LegacyHost(ip)) = ip
  <2>1. CASE Ipv4Mapped(ip)
    <3>1. LegacyHost(ip) = [form |-> "dotted", bytes |-> SubSeq(ip, 13, 16)]
      BY <2>1 DEF LegacyHost, Host
    <3>2. SubSeq(ip, 13, 16) \in Seq(Bytes) /\ Len(SubSeq(ip, 13, 16)) = 4
      BY <1>1, Halves
    <3>3. SubSeq(ip, 1, 12) \o SubSeq(ip, 13, 16) = ip
      BY <1>1, Halves
    <3>4. HostBytes(LegacyHost(ip)) = ip
      <4>1. PICK h : h = LegacyHost(ip) /\ h.form = "dotted" /\ h.bytes = SubSeq(ip, 13, 16)
        BY <3>1
      <4>2. HostBytes(h) = MappedPrefix \o SubSeq(ip, 13, 16)
        BY <4>1 DEF HostBytes
      <4>3. MappedPrefix = SubSeq(ip, 1, 12)
        BY <2>1 DEF Ipv4Mapped
      <4> QED
        BY <3>3, <4>1, <4>2, <4>3, Zenon
    <3> QED
      BY <3>1, <3>2, <3>4 DEF LegacyHosts
  <2>2. CASE ~Ipv4Mapped(ip)
    <3>1. LegacyHost(ip) = [form |-> "colons", bytes |-> ip]
      BY <2>2 DEF LegacyHost, Host
    <3> QED
      BY <1>1, <2>2, <3>1 DEF LegacyHosts, HostBytes
  <2> QED
    BY <2>1, <2>2
<1>2. ASSUME NEW h \in LegacyHosts
      PROVE  /\ HostBytes(h) \in Seq(Bytes) /\ Len(HostBytes(h)) = 16
             /\ LegacyHost(HostBytes(h)) = h
  <2>1. /\ h = [form |-> h.form, bytes |-> h.bytes] /\ h.bytes \in Seq(Bytes)
        /\ h.form \in {"dotted", "colons"}
    BY DEF LegacyHosts
  <2>2. CASE h.form = "dotted"
    <3>1. Len(h.bytes) = 4
      BY <2>2 DEF LegacyHosts
    <3>2. PICK b \in Seq(Bytes), m \in Seq(Bytes) :
             b = h.bytes /\ m = MappedPrefix /\ Len(b) = 4 /\ Len(m) = 12
      BY <2>1, <3>1, MappedPrefixBytes
    <3>3. HostBytes(h) = m \o b
      BY <2>2, <3>2 DEF HostBytes
    <3>4. /\ m \o b \in Seq(Bytes) /\ Len(m \o b) = 16
          /\ SubSeq(m \o b, 1, 12) = m /\ SubSeq(m \o b, 13, 16) = b
      BY <3>2, JoinedHalves
    <3>5. LegacyHost(m \o b) = [form |-> "dotted", bytes |-> b]
      BY <3>2, <3>4 DEF LegacyHost, Ipv4Mapped, Host
    <3> QED
      BY <2>1, <2>2, <3>2, <3>3, <3>4, <3>5
  <2>3. CASE h.form = "colons"
    <3>1. Len(h.bytes) = 16 /\ ~Ipv4Mapped(h.bytes)
      BY <2>3 DEF LegacyHosts
    <3>2. HostBytes(h) = h.bytes
      BY <2>3 DEF HostBytes
    <3> QED
      BY <2>1, <2>3, <3>1, <3>2 DEF LegacyHost, Host
  <2> QED
    BY <2>1, <2>2, <2>3
<1> QED
  BY <1>1, <1>2

NetaddrParts(p, a) ==
    /\ At(p, LE8Bytes(a.services)) /\ At(p + 8, HostBytes(a.host))
    /\ At(p + 24, PortBytes(a.port))

(* A net address is 26 digits. *)
LEMMA WriteNetaddr ==
    ASSUME payload \in Seq(Bytes), NEW p \in Nat, NEW a \in Netaddr
    PROVE  /\ NetaddrBytes(a) \in Seq(Bytes) /\ Len(NetaddrBytes(a)) = 26
           /\ At(p, NetaddrBytes(a)) <=> NetaddrParts(p, a)
<1>1. a.services \in 0 .. B8 - 1 /\ a.host \in LegacyHosts /\ a.port \in 0 .. B2 - 1
  BY DEF Netaddr
<1>2. PICK b \in Seq(Bytes), c \in Seq(Bytes), d \in Seq(Bytes) :
        /\ b = LE8Bytes(a.services) /\ c = HostBytes(a.host) /\ d = PortBytes(a.port)
        /\ Len(b) = 8 /\ Len(c) = 16 /\ Len(d) = 2
  BY <1>1, WriteU64, HostExact, WriteU16
<1>3. NetaddrBytes(a) = b \o c \o d
  BY <1>2 DEF NetaddrBytes
<1>4. /\ b \o c \o d \in Seq(Bytes)
      /\ Len(b \o c \o d) = Len(b) + Len(c) + Len(d)
      /\ At(p, b \o c \o d) <=> At(p, b) /\ At(p + Len(b), c) /\ At(p + Len(b) + Len(c), d)
  BY SplitThree
<1>5. Len(b) = 8 /\ Len(c) = 16 /\ Len(d) = 2
  BY <1>2
<1>6. Len(b) + Len(c) + Len(d) = 26 /\ p + Len(b) = p + 8 /\ p + Len(b) + Len(c) = p + 24
  BY <1>5
<1> QED
  BY <1>2, <1>3, <1>4, <1>6 DEF NetaddrParts

(* parse_version_netaddr reads the one net address written there. *)
LEMMA NetaddrExact ==
    ASSUME payload \in Seq(Bytes), NEW p \in Nat, Has(p, 26)
    PROVE  /\ NetaddrAt(p) \in Netaddr
           /\ \A a \in Netaddr : At(p, NetaddrBytes(a)) <=> a = NetaddrAt(p)
<1>1. Len(payload) \in Nat
  BY LenProperties
<1>2. PICK q \in Nat, s \in Nat : q = p + 8 /\ s = p + 24
  OBVIOUS
<1>3. Has(p, 8) /\ Has(q, 16) /\ Has(s, 2)
  BY <1>1, <1>2 DEF Has
<1>4. PICK n : n = NetaddrAt(p) /\ n.services = U64(p) /\ n.host = LegacyHost(Take(q, 16))
               /\ n.port = PortAt(s)
               /\ n = [services |-> U64(p), host |-> LegacyHost(Take(q, 16)), port |-> PortAt(s)]
  BY <1>2 DEF NetaddrAt
<1>5. /\ U64(p) \in 0 .. B8 - 1 /\ \A v \in 0 .. B8 - 1 : At(p, LE8Bytes(v)) <=> v = U64(p)
  BY <1>3, U64Exact
<1>6. /\ PortAt(s) \in 0 .. B2 - 1
      /\ \A v \in 0 .. B2 - 1 : At(s, PortBytes(v)) <=> v = PortAt(s)
  BY <1>3, U16Exact
<1>7. /\ Take(q, 16) \in Seq(Bytes) /\ Len(Take(q, 16)) = 16 /\ At(q, Take(q, 16))
      /\ \A b \in Seq(Bytes) : Len(b) = 16 /\ At(q, b) => b = Take(q, 16)
  BY <1>3, TakeAt, ZenonT(120)
<1>8. LegacyHost(Take(q, 16)) \in LegacyHosts /\ HostBytes(LegacyHost(Take(q, 16))) = Take(q, 16)
  BY <1>7, HostExact
<1>9. n \in Netaddr
  BY <1>4, <1>5, <1>6, <1>8 DEF Netaddr
<1>10. ASSUME NEW a \in Netaddr PROVE At(p, NetaddrBytes(a)) <=> a = NetaddrAt(p)
  <2>1. /\ a.services \in 0 .. B8 - 1 /\ a.host \in LegacyHosts /\ a.port \in 0 .. B2 - 1
        /\ a = [services |-> a.services, host |-> a.host, port |-> a.port]
    BY DEF Netaddr
  <2>2. At(p, LE8Bytes(a.services)) <=> a.services = U64(p)
    BY <1>5, <2>1
  <2>3. At(s, PortBytes(a.port)) <=> a.port = PortAt(s)
    BY <1>6, <2>1
  <2>4. At(q, HostBytes(a.host)) <=> a.host = LegacyHost(Take(q, 16))
    <3>1. /\ HostBytes(a.host) \in Seq(Bytes) /\ Len(HostBytes(a.host)) = 16
          /\ LegacyHost(HostBytes(a.host)) = a.host
      BY <2>1, HostExact
    <3>2. At(q, HostBytes(a.host)) => HostBytes(a.host) = Take(q, 16)
      BY <1>7, <3>1
    <3> QED
      BY <1>7, <1>8, <3>1, <3>2
  <2>5. At(p, NetaddrBytes(a)) <=>
           /\ At(p, LE8Bytes(a.services)) /\ At(q, HostBytes(a.host))
           /\ At(s, PortBytes(a.port))
    BY <1>2, WriteNetaddr DEF NetaddrParts
  <2>6. a = n <=> /\ a.services = U64(p) /\ a.host = LegacyHost(Take(q, 16))
                  /\ a.port = PortAt(s)
    BY <1>4, <2>1
  <2> QED
    BY <1>4, <2>2, <2>3, <2>4, <2>5, <2>6
<1> QED
  BY <1>4, <1>9, <1>10

(* The part of a version message that every version has. *)
ShortBytes(ver, sv, ts, a) ==
    LE4Bytes(Unsigned(B4, ver)) \o LE8Bytes(sv) \o LE8Bytes(Unsigned(B8, ts)) \o NetaddrBytes(a)

ShortIs(ver, sv, ts, a) ==
    /\ ver = ShortVersion.version /\ sv = ShortVersion.services
    /\ ts = ShortVersion.timestamp /\ a = ShortVersion.addr_recv

(* The fields of ShortVersion. *)
LEMMA ShortFields ==
    /\ ShortVersion.version = Signed(B4, U32(0)) /\ ShortVersion.services = U64(4)
    /\ ShortVersion.timestamp = Signed(B8, U64(12)) /\ ShortVersion.addr_recv = NetaddrAt(20)
BY DEF ShortVersion

(* The first 46 digits are the fields every version has, and no others. *)
LEMMA ShortExact ==
    ASSUME payload \in Seq(Bytes), NEW ver, IsSigned(B4, ver), NEW sv \in 0 .. B8 - 1,
           NEW ts, IsSigned(B8, ts), NEW a \in Netaddr
    PROVE  /\ ShortBytes(ver, sv, ts, a) \in Seq(Bytes) /\ Len(ShortBytes(ver, sv, ts, a)) = 46
           /\ Has(0, 46) =>
                 (At(0, ShortBytes(ver, sv, ts, a)) <=> ShortIs(ver, sv, ts, a))
<1>1. /\ Unsigned(B4, ver) \in 0 .. B4 - 1 /\ Signed(B4, Unsigned(B4, ver)) = ver
      /\ Unsigned(B8, ts) \in 0 .. B8 - 1 /\ Signed(B8, Unsigned(B8, ts)) = ts
  BY Bases, SignedExact
<1>2. PICK w \in Seq(Bytes), x \in Seq(Bytes), y \in Seq(Bytes), z \in Seq(Bytes) :
        /\ w = LE4Bytes(Unsigned(B4, ver)) /\ x = LE8Bytes(sv)
        /\ y = LE8Bytes(Unsigned(B8, ts)) /\ z = NetaddrBytes(a)
        /\ Len(w) = 4 /\ Len(x) = 8 /\ Len(y) = 8 /\ Len(z) = 26
  BY <1>1, WriteU32, WriteU64, WriteNetaddr
<1>3. ShortBytes(ver, sv, ts, a) = w \o x \o y \o z
  BY <1>2 DEF ShortBytes
<1>4. /\ w \o x \o y \o z \in Seq(Bytes)
      /\ Len(w \o x \o y \o z) = Len(w) + Len(x) + Len(y) + Len(z)
      /\ At(0, w \o x \o y \o z) <=>
            /\ At(0, w) /\ At(0 + Len(w), x) /\ At(0 + Len(w) + Len(x), y)
            /\ At(0 + Len(w) + Len(x) + Len(y), z)
  BY SplitFour
<1>5. Len(w) = 4 /\ Len(x) = 8 /\ Len(y) = 8 /\ Len(z) = 26
  BY <1>2
<1>6. /\ Len(w) + Len(x) + Len(y) + Len(z) = 46 /\ 0 + Len(w) = 4
      /\ 0 + Len(w) + Len(x) = 12 /\ 0 + Len(w) + Len(x) + Len(y) = 20
  BY <1>5
<1>7. ASSUME Has(0, 46)
      PROVE  At(0, ShortBytes(ver, sv, ts, a)) <=> ShortIs(ver, sv, ts, a)
  <2>1. Has(0, 4) /\ Has(4, 8) /\ Has(12, 8) /\ Has(20, 26)
    BY <1>7, LenProperties DEF Has
  <2>2. At(0, w) <=> ver = ShortVersion.version
    <3>1. U32(0) \in 0 .. B4 - 1 /\ (At(0, w) <=> Unsigned(B4, ver) = U32(0))
      BY <1>1, <1>2, <2>1, U32Exact
    <3>2. Unsigned(B4, Signed(B4, U32(0))) = U32(0)
      BY <3>1, Bases, SignedExact
    <3> QED
      BY <1>1, <3>1, <3>2, ShortFields, Zenon
  <2>3. At(4, x) <=> sv = ShortVersion.services
    BY <1>2, <2>1, U64Exact, ShortFields
  <2>4. At(12, y) <=> ts = ShortVersion.timestamp
    <3>1. U64(12) \in 0 .. B8 - 1 /\ (At(12, y) <=> Unsigned(B8, ts) = U64(12))
      BY <1>1, <1>2, <2>1, U64Exact
    <3>2. Unsigned(B8, Signed(B8, U64(12))) = U64(12)
      BY <3>1, Bases, SignedExact
    <3> QED
      BY <1>1, <3>1, <3>2, ShortFields, Zenon
  <2>5. At(20, z) <=> a = ShortVersion.addr_recv
    BY <1>2, <2>1, NetaddrExact, ShortFields
  <2> QED
    BY <1>3, <1>4, <1>6, <2>2, <2>3, <2>4, <2>5 DEF ShortIs
<1> QED
  BY <1>3, <1>4, <1>6, <1>7

(* ... each within its width. *)
LEMMA ShortTyped ==
    ASSUME payload \in Seq(Bytes), Has(0, 46)
    PROVE  /\ IsSigned(B4, ShortVersion.version) /\ ShortVersion.services \in 0 .. B8 - 1
           /\ IsSigned(B8, ShortVersion.timestamp) /\ ShortVersion.addr_recv \in Netaddr
<1>1. Has(0, 4) /\ Has(4, 8) /\ Has(12, 8) /\ Has(20, 26)
  BY LenProperties DEF Has
<1>2. /\ U32(0) \in 0 .. B4 - 1 /\ U64(4) \in 0 .. B8 - 1 /\ U64(12) \in 0 .. B8 - 1
      /\ NetaddrAt(20) \in Netaddr
  BY <1>1, U32Exact, U64Exact, NetaddrExact
<1> QED
  BY <1>2, Bases, SignedExact, ShortFields

(* The part that follows from version 106 on; n is the length of the user  *)
(* agent, which starts at q.                                               *)
LongBytes(af, nonce, ua, lb) ==
    NetaddrBytes(af) \o LE8Bytes(nonce) \o CompactBytes(Len(ua)) \o ua
    \o LE4Bytes(Unsigned(B4, lb))

LongAt(af, nonce, ua, lb, q, e) ==
    /\ At(46, NetaddrBytes(af)) /\ At(72, LE8Bytes(nonce)) /\ At(80, CompactBytes(Len(ua)))
    /\ At(q, ua) /\ At(e, LE4Bytes(Unsigned(B4, lb)))

FiveAt(p, a, b, c, d, e) ==
    /\ At(p, a) /\ At(p + Len(a), b) /\ At(p + Len(a) + Len(b), c)
    /\ At(p + Len(a) + Len(b) + Len(c), d) /\ At(p + Len(a) + Len(b) + Len(c) + Len(d), e)
Five(a, b, c, d, e) == a \o b \o c \o d \o e
FiveLen(a, b, c, d, e) == Len(a) + Len(b) + Len(c) + Len(d) + Len(e)

(* Five parts, as the tail of a version message is written. *)
LEMMA SplitFive ==
    ASSUME payload \in Seq(Bytes), NEW p \in Nat, NEW a \in Seq(Bytes), NEW b \in Seq(Bytes),
           NEW c \in Seq(Bytes), NEW d \in Seq(Bytes), NEW e \in Seq(Bytes)
    PROVE  /\ Five(a, b, c, d, e) \in Seq(Bytes)
           /\ Len(Five(a, b, c, d, e)) = FiveLen(a, b, c, d, e)
           /\ At(p, Five(a, b, c, d, e)) <=> FiveAt(p, a, b, c, d, e)
<1>1. PICK f \in Seq(Bytes) : f = a \o b \o c \o d /\ Len(f) = Len(a) + Len(b) + Len(c) + Len(d)
  <2>1. /\ a \o b \o c \o d \in Seq(Bytes)
        /\ Len(a \o b \o c \o d) = Len(a) + Len(b) + Len(c) + Len(d)
    BY SplitFour
  <2> QED
    BY <2>1
<1>2. f \o e \in Seq(Bytes) /\ Len(f \o e) = Len(f) + Len(e)
  BY Joined
<1>3. At(p, f \o e) <=> At(p, f) /\ At(p + Len(f), e)
  BY SplitAt
<1>4. At(p, a \o b \o c \o d) <=>
         /\ At(p, a) /\ At(p + Len(a), b) /\ At(p + Len(a) + Len(b), c)
         /\ At(p + Len(a) + Len(b) + Len(c), d)
  BY SplitFour, SMTT(60)
<1>5. p + Len(f) = p + Len(a) + Len(b) + Len(c) + Len(d)
  BY <1>1, LenProperties
<1> QED
  BY <1>1, <1>2, <1>3, <1>4, <1>5 DEF Five, FiveLen, FiveAt

(* The tail: its length, and what stands where. *)
LEMMA LongLayout ==
    ASSUME payload \in Seq(Bytes), NEW af \in Netaddr, NEW nonce \in 0 .. B8 - 1,
           NEW ua \in Seq(Bytes), Len(ua) <= MAX_SUBVERSION_LENGTH, NEW lb, IsSigned(B4, lb)
    PROVE  \E m \in Nat, n \in Nat :
              /\ m = Len(CompactBytes(Len(ua))) /\ n = Len(ua) /\ n \in 0 .. B8 - 1
              /\ LongBytes(af, nonce, ua, lb) \in Seq(Bytes)
              /\ Len(LongBytes(af, nonce, ua, lb)) = 26 + 8 + m + n + 4
              /\ At(46, LongBytes(af, nonce, ua, lb)) <=>
                    LongAt(af, nonce, ua, lb, 80 + m, 80 + m + n)
<1>1. Unsigned(B4, lb) \in 0 .. B4 - 1
  BY Bases, SignedExact
<1>2. PICK n \in 0 .. B8 - 1 : n = Len(ua) /\ n \in Nat
  <2>1. Len(ua) \in Nat
    BY LenProperties
  <2> QED
    BY <2>1, BaseAssumption, Bases
<1>3. PICK a \in Seq(Bytes) : a = NetaddrBytes(af) /\ Len(a) = 26
  BY WriteNetaddr
<1>4. PICK b \in Seq(Bytes) : b = LE8Bytes(nonce) /\ Len(b) = 8
  BY WriteU64
<1>5. PICK c \in Seq(Bytes) : c = CompactBytes(n)
  BY CompactWrite
<1>6. PICK e \in Seq(Bytes) : e = LE4Bytes(Unsigned(B4, lb)) /\ Len(e) = 4
  BY <1>1, WriteU32
<1>7. PICK m \in Nat : m = Len(c)
  BY LenProperties
<1>8. LongBytes(af, nonce, ua, lb) = Five(a, b, c, ua, e)
  BY <1>2, <1>3, <1>4, <1>5, <1>6 DEF LongBytes, Five
<1>9. /\ Five(a, b, c, ua, e) \in Seq(Bytes)
      /\ Len(Five(a, b, c, ua, e)) = FiveLen(a, b, c, ua, e)
      /\ At(46, Five(a, b, c, ua, e)) <=> FiveAt(46, a, b, c, ua, e)
  BY SplitFive
<1>10. FiveLen(a, b, c, ua, e) = 26 + 8 + m + n + 4
  BY <1>2, <1>3, <1>4, <1>6, <1>7 DEF FiveLen
<1>11. /\ 46 + Len(a) = 72 /\ 46 + Len(a) + Len(b) = 80
       /\ 46 + Len(a) + Len(b) + Len(c) = 80 + m
       /\ 46 + Len(a) + Len(b) + Len(c) + Len(ua) = 80 + m + n
  BY <1>2, <1>3, <1>4, <1>7
<1>12. FiveAt(46, a, b, c, ua, e) <=> LongAt(af, nonce, ua, lb, 80 + m, 80 + m + n)
  BY <1>2, <1>3, <1>4, <1>5, <1>6, <1>11 DEF FiveAt, LongAt
<1> QED
  BY <1>2, <1>5, <1>7, <1>8, <1>9, <1>10, <1>12, ZenonT(60)

(* The numbers of the tail, at the places the code reads them. *)
TailIs(af, nonce, ua, lb, q, e) ==
    /\ af = NetaddrAt(46) /\ nonce = U64(72) /\ ua = Take(q, Len(ua))
    /\ lb = Signed(B4, U32(e))

(* The payload agrees with the tail exactly when its fields are those read. *)
LEMMA TailExact ==
    ASSUME payload \in Seq(Bytes), NEW af \in Netaddr, NEW nonce \in 0 .. B8 - 1,
           NEW ua \in Seq(Bytes), NEW lb, IsSigned(B4, lb), NEW q \in Nat, q >= 80,
           NEW e \in Nat, e = q + Len(ua), e + 4 <= Len(payload)
    PROVE  LongAt(af, nonce, ua, lb, q, e) <=>
              At(80, CompactBytes(Len(ua))) /\ TailIs(af, nonce, ua, lb, q, e)
<1>1. PICK n \in Nat : n = Len(ua)
  BY LenProperties
<1>2. Has(46, 26) /\ Has(72, 8) /\ Has(q, n) /\ Has(e, 4)
  BY <1>1, LenProperties DEF Has
<1>3. At(46, NetaddrBytes(af)) <=> af = NetaddrAt(46)
  BY <1>2, NetaddrExact
<1>4. At(72, LE8Bytes(nonce)) <=> nonce = U64(72)
  BY <1>2, U64Exact
<1>5. At(q, ua) <=> ua = Take(q, n)
  BY <1>1, <1>2, TakeAt
<1>6. At(e, LE4Bytes(Unsigned(B4, lb))) <=> lb = Signed(B4, U32(e))
  <2>1. U32(e) \in 0 .. B4 - 1 /\ \A v \in 0 .. B4 - 1 : At(e, LE4Bytes(v)) <=> v = U32(e)
    BY <1>2, U32Exact
  <2>2. /\ Unsigned(B4, lb) \in 0 .. B4 - 1 /\ Signed(B4, Unsigned(B4, lb)) = lb
        /\ Unsigned(B4, Signed(B4, U32(e))) = U32(e)
    BY <2>1, Bases, SignedExact
  <2> QED
    BY <2>1, <2>2
<1> QED
  BY <1>1, <1>3, <1>4, <1>5, <1>6 DEF LongAt, TailIs

(* A version message as it is written: its length, and what it takes for  *)
(* the payload to agree with it.                                           *)
ShortOf(v) == ShortBytes(v.version, v.services, v.timestamp, v.addr_recv)
LongOf(v) == LongBytes(v.addr_from, v.nonce, v.user_agent, v.latest_block)

Written(v, b, n) == b = VersionBytes(v) /\ b \in Seq(Bytes) /\ Len(b) = n

(* A version below 106 is written as 46 digits. *)
LEMMA WriteShort ==
    ASSUME payload \in Seq(Bytes), NEW v \in VersionData, v.version < AddrFromVersion
    PROVE  /\ Written(v, ShortOf(v), 46)
           /\ v = [version |-> v.version, services |-> v.services, timestamp |-> v.timestamp,
                   addr_recv |-> v.addr_recv, addr_from |-> Nil, nonce |-> Nil,
                   user_agent |-> <<>>, latest_block |-> 0, relay |-> TRUE]
<1>1. /\ IsSigned(B4, v.version) /\ v.services \in 0 .. B8 - 1
      /\ IsSigned(B8, v.timestamp) /\ v.addr_recv \in Netaddr
  BY DEF VersionData
<1>2. PICK s \in Seq(Bytes) : s = ShortOf(v) /\ Len(s) = 46
  BY <1>1, ShortExact DEF ShortOf
<1>3. VersionBytes(v) = s \o <<>>
  BY <1>2 DEF VersionBytes, ShortOf, ShortBytes
<1>4. s \o <<>> = s
  BY ConcatEmptySeq
<1>5. v = [version |-> v.version, services |-> v.services, timestamp |-> v.timestamp,
           addr_recv |-> v.addr_recv, addr_from |-> Nil, nonce |-> Nil,
           user_agent |-> <<>>, latest_block |-> 0, relay |-> TRUE]
  BY DEF VersionData
<1> QED
  BY <1>2, <1>3, <1>4, <1>5 DEF Written

(* A later one has the tail behind them. *)
LEMMA WriteLong ==
    ASSUME payload \in Seq(Bytes), NEW v \in VersionData, ~(v.version < AddrFromVersion)
    PROVE  \E m \in Nat, n \in Nat :
              /\ m = Len(CompactBytes(n)) /\ n = Len(v.user_agent) /\ n \in 0 .. B8 - 1
              /\ n <= MAX_SUBVERSION_LENGTH
              /\ Written(v, VersionBytes(v), 84 + m + n)
              /\ At(0, VersionBytes(v)) <=>
                    /\ At(0, ShortOf(v))
                    /\ LongAt(v.addr_from, v.nonce, v.user_agent, v.latest_block,
                              80 + m, 80 + m + n)
<1>1. /\ IsSigned(B4, v.version) /\ v.services \in 0 .. B8 - 1
      /\ IsSigned(B8, v.timestamp) /\ v.addr_recv \in Netaddr
  BY DEF VersionData
<1>2. /\ v.addr_from \in Netaddr /\ v.nonce \in 0 .. B8 - 1 /\ v.user_agent \in Seq(Bytes)
      /\ Len(v.user_agent) <= MAX_SUBVERSION_LENGTH /\ IsSigned(B4, v.latest_block)
  BY DEF VersionData
<1>3. PICK s \in Seq(Bytes) : s = ShortOf(v) /\ Len(s) = 46
  BY <1>1, ShortExact DEF ShortOf
<1>4. PICK m \in Nat, n \in Nat :
        /\ m = Len(CompactBytes(Len(v.user_agent))) /\ n = Len(v.user_agent) /\ n \in 0 .. B8 - 1
        /\ LongOf(v) \in Seq(Bytes) /\ Len(LongOf(v)) = 26 + 8 + m + n + 4
        /\ At(46, LongOf(v)) <=> LongAt(v.addr_from, v.nonce, v.user_agent, v.latest_block,
                                        80 + m, 80 + m + n)
  BY <1>2, LongLayout, ZenonT(60) DEF LongOf
<1>5. PICK t \in Seq(Bytes) : t = LongOf(v) /\ Len(t) = 38 + m + n
  <2>1. 26 + 8 + m + n + 4 = 38 + m + n
    OBVIOUS
  <2>2. LongOf(v) \in Seq(Bytes) /\ Len(LongOf(v)) = 38 + m + n
    BY <1>4, <2>1, Zenon
  <2> QED
    BY <2>2, Zenon
<1>6. VersionBytes(v) = s \o t
  BY <1>3, <1>5 DEF VersionBytes, ShortOf, ShortBytes, LongOf, LongBytes
<1>7. /\ s \o t \in Seq(Bytes) /\ Len(s \o t) = Len(s) + Len(t)
      /\ At(0, s \o t) <=> At(0, s) /\ At(0 + Len(s), t)
  BY SplitAt
<1>8. Len(s) + Len(t) = 84 + m + n /\ 0 + Len(s) = 46
  BY <1>3, <1>5
<1>9. Written(v, VersionBytes(v), 84 + m + n)
  BY <1>6, <1>7, <1>8 DEF Written
<1>10. At(0, VersionBytes(v)) <=>
          /\ At(0, ShortOf(v))
          /\ LongAt(v.addr_from, v.nonce, v.user_agent, v.latest_block, 80 + m, 80 + m + n)
  BY <1>3, <1>4, <1>5, <1>6, <1>7, <1>8
<1>11. m = Len(CompactBytes(n)) /\ n <= MAX_SUBVERSION_LENGTH
  BY <1>2, <1>4
<1> QED
  BY <1>4, <1>9, <1>10, <1>11

(* A version message by its fields. *)
Message(ver, sv, ts, ar, af, no, ua, lb, re) ==
    [version |-> ver, services |-> sv, timestamp |-> ts, addr_recv |-> ar, addr_from |-> af,
     nonce |-> no, user_agent |-> ua, latest_block |-> lb, relay |-> re]

(* v with another relay field. *)
Relayed(v, re) == Message(v.version, v.services, v.timestamp, v.addr_recv, v.addr_from,
                          v.nonce, v.user_agent, v.latest_block, re)

(* Only the relay field changes. *)
LEMMA RelayField ==
    ASSUME NEW v \in VersionData, NEW re
    PROVE  [v EXCEPT !.relay = re] = Relayed(v, re) /\ v = Relayed(v, v.relay)
<1>1. PICK ver, sv, ts, ar, af, no, ua, lb, ry :
         v = [version |-> ver, services |-> sv, timestamp |-> ts, addr_recv |-> ar,
              addr_from |-> af, nonce |-> no, user_agent |-> ua, latest_block |-> lb,
              relay |-> ry]
  <2>1. v = [version |-> v.version, services |-> v.services, timestamp |-> v.timestamp,
             addr_recv |-> v.addr_recv, addr_from |-> v.addr_from, nonce |-> v.nonce,
             user_agent |-> v.user_agent, latest_block |-> v.latest_block, relay |-> v.relay]
    BY DEF VersionData
  <2> QED
    BY <2>1, Zenon
<1>2. [v EXCEPT !.relay = re] =
         [version |-> ver, services |-> sv, timestamp |-> ts, addr_recv |-> ar,
          addr_from |-> af, nonce |-> no, user_agent |-> ua, latest_block |-> lb,
          relay |-> re]
  BY <1>1
<1> QED
  BY <1>1, <1>2 DEF Relayed, Message

ShortMessage == Message(ShortVersion.version, ShortVersion.services, ShortVersion.timestamp,
                        ShortVersion.addr_recv, Nil, Nil, <<>>, 0, TRUE)

(* ShortVersion by its fields. *)
LEMMA ShortVersionIs == ShortVersion = ShortMessage
BY ShortFields DEF ShortMessage, Message, ShortVersion

(* The message of an old version is a VersionData. *)
LEMMA ShortMessageTyped ==
    ASSUME payload \in Seq(Bytes), Has(0, 46), ShortVersion.version < AddrFromVersion
    PROVE  ShortVersion \in VersionData
<1>1. PICK ver, sv, ts, ar :
        /\ ver = ShortVersion.version /\ sv = ShortVersion.services
        /\ ts = ShortVersion.timestamp /\ ar = ShortVersion.addr_recv
        /\ IsSigned(B4, ver) /\ sv \in 0 .. B8 - 1 /\ IsSigned(B8, ts) /\ ar \in Netaddr
        /\ ver < AddrFromVersion
  BY ShortTyped, Zenon
<1>2. IsSigned(B4, 0) /\ 0 \in Int /\ ver \in Int /\ ts \in Int /\ <<>> \in Seq(Bytes)
  BY <1>1, Bases DEF IsSigned
<1>3. Message(ver, sv, ts, ar, Nil, Nil, <<>>, 0, TRUE) \in VersionData
  BY <1>1, <1>2 DEF Message, VersionData
<1> QED
  BY <1>1, <1>3, ShortVersionIs, Zenon DEF ShortMessage

(* A message whose version ends it after addr_recv. *)
LEMMA ParseShort ==
    ASSUME payload \in Seq(Bytes), Has(0, 46), ShortVersion.version < AddrFromVersion
    PROVE  /\ ParsedVersion = ShortVersion /\ ParsedVersion \in VersionData
           /\ VersionBytes(ParsedVersion) \in Seq(Bytes)
           /\ Len(VersionBytes(ParsedVersion)) <= Len(payload)
           /\ At(0, VersionBytes(ParsedVersion))
           /\ ParsedVersion.user_agent = <<>>
<1>1. ParsedVersion = ShortVersion
  BY DEF ParsedVersion
<1>2. PICK v \in VersionData : v = ShortVersion
  BY ShortMessageTyped
<1>3. Written(v, ShortOf(v), 46)
  BY <1>2, WriteShort
<1>4. ShortOf(v) = ShortBytes(ShortVersion.version, ShortVersion.services,
                              ShortVersion.timestamp, ShortVersion.addr_recv)
  BY <1>2 DEF ShortOf
<1>5. ShortIs(ShortVersion.version, ShortVersion.services,
              ShortVersion.timestamp, ShortVersion.addr_recv)
  BY DEF ShortIs
<1>6. At(0, ShortOf(v))
  BY <1>4, <1>5, ShortTyped, ShortExact
<1>7. 46 <= Len(payload)
  BY LenProperties DEF Has
<1>8. ShortVersion.user_agent = <<>>
  BY DEF ShortVersion
<1> QED
  BY <1>1, <1>2, <1>3, <1>6, <1>7, <1>8 DEF Written

LongMessage(q, n, e) ==
    Message(ShortVersion.version, ShortVersion.services, ShortVersion.timestamp,
            ShortVersion.addr_recv, NetaddrAt(46), U64(72), Take(q, n),
            Signed(B4, U32(e)), RelayAt(ShortVersion.version, e + 4))

(* The fields parse_version fills in last, one after the other. *)
Filled(m, af, no, ua, lb, re) ==
    [m EXCEPT !.addr_from = af, !.nonce = no, !.user_agent = ua, !.latest_block = lb,
              !.relay = re]

(* A message with those fields filled in. *)
LEMMA Updates ==
    ASSUME NEW ver, NEW sv, NEW ts, NEW ar, NEW af, NEW no, NEW ua, NEW lb, NEW re,
           NEW af0, NEW no0, NEW ua0, NEW lb0, NEW re0, NEW m
    PROVE  m = Message(ver, sv, ts, ar, af0, no0, ua0, lb0, re0) =>
              Filled(m, af, no, ua, lb, re) = Message(ver, sv, ts, ar, af, no, ua, lb, re)
<1>1. ASSUME NEW r
      PROVE  r = Message(ver, sv, ts, ar, af0, no0, ua0, lb0, re0) =>
                [r EXCEPT !.addr_from = af] = Message(ver, sv, ts, ar, af, no0, ua0, lb0, re0)
  BY DEF Message
<1>2. ASSUME NEW r
      PROVE  r = Message(ver, sv, ts, ar, af, no0, ua0, lb0, re0) =>
                [r EXCEPT !.nonce = no] = Message(ver, sv, ts, ar, af, no, ua0, lb0, re0)
  BY DEF Message
<1>3. ASSUME NEW r
      PROVE  r = Message(ver, sv, ts, ar, af, no, ua0, lb0, re0) =>
                [r EXCEPT !.user_agent = ua] = Message(ver, sv, ts, ar, af, no, ua, lb0, re0)
  BY DEF Message
<1>4. ASSUME NEW r
      PROVE  r = Message(ver, sv, ts, ar, af, no, ua, lb0, re0) =>
                [r EXCEPT !.latest_block = lb] = Message(ver, sv, ts, ar, af, no, ua, lb, re0)
  BY DEF Message
<1>5. ASSUME NEW r
      PROVE  r = Message(ver, sv, ts, ar, af, no, ua, lb, re0) =>
                [r EXCEPT !.relay = re] = Message(ver, sv, ts, ar, af, no, ua, lb, re)
  BY DEF Message
<1>6. Filled(m, af, no, ua, lb, re)
      = [[[[[m EXCEPT !.addr_from = af] EXCEPT !.nonce = no] EXCEPT !.user_agent = ua]
            EXCEPT !.latest_block = lb] EXCEPT !.relay = re]
  BY DEF Filled
<1> QED
  BY <1>1, <1>2, <1>3, <1>4, <1>5, <1>6, Zenon

(* What parse_version returns once the length of the user agent was read. *)
LEMMA ParseLong ==
    ASSUME payload \in Seq(Bytes), Has(0, 46), ~(ShortVersion.version < AddrFromVersion),
           NEW n \in Nat, NEW q \in Nat, NEW e \in Nat, CompactAt(80) = [val |-> n, end |-> q],
           e = q + n
    PROVE  ParsedVersion = IF n > MAX_SUBVERSION_LENGTH \/ e + 4 > Len(payload) THEN Nil
                           ELSE LongMessage(q, n, e)
<1>1. /\ CompactAt(80).val = n /\ CompactAt(80).end = q
      /\ q + n + 4 = e + 4 /\ (q + n + 4) - 4 = e
  <2>1. q + n + 4 = e + 4 /\ (q + n + 4) - 4 = e
    OBVIOUS
  <2>2. CompactAt(80).val = n /\ CompactAt(80).end = q
    OBVIOUS
  <2> QED
    BY <2>1, <2>2
<1>2. ParsedVersion =
         IF n > MAX_SUBVERSION_LENGTH \/ e + 4 > Len(payload) THEN Nil
         ELSE [ShortVersion EXCEPT !.addr_from = NetaddrAt(46), !.nonce = U64(72),
                 !.user_agent = Take(q, n), !.latest_block = Signed(B4, U32(e)),
                 !.relay = RelayAt(ShortVersion.version, e + 4)]
  BY <1>1 DEF ParsedVersion
<1>3. ShortVersion = Message(ShortVersion.version, ShortVersion.services, ShortVersion.timestamp,
                            ShortVersion.addr_recv, Nil, Nil, <<>>, 0, TRUE)
  BY ShortVersionIs DEF ShortMessage
<1>4. [ShortVersion EXCEPT !.addr_from = NetaddrAt(46), !.nonce = U64(72),
         !.user_agent = Take(q, n), !.latest_block = Signed(B4, U32(e)),
         !.relay = RelayAt(ShortVersion.version, e + 4)] = LongMessage(q, n, e)
  <2>1. PICK af, no, ua, lb, re :
          /\ af = NetaddrAt(46) /\ no = U64(72) /\ ua = Take(q, n) /\ lb = Signed(B4, U32(e))
          /\ re = RelayAt(ShortVersion.version, e + 4)
    OBVIOUS
  <2>2. PICK m, ver, sv, ts, ar :
          /\ m = ShortVersion /\ ver = ShortVersion.version /\ sv = ShortVersion.services
          /\ ts = ShortVersion.timestamp /\ ar = ShortVersion.addr_recv
    OBVIOUS
  <2>3. PICK x, ua0, lb0, re0 : m = Message(ver, sv, ts, ar, x, x, ua0, lb0, re0)
    BY <1>3, <2>2, Zenon
  <2>4. Filled(m, af, no, ua, lb, re) = Message(ver, sv, ts, ar, af, no, ua, lb, re)
    BY <2>3, Updates
  <2> QED
    BY <2>1, <2>2, <2>4, Zenon DEF LongMessage, Filled
<1> QED
  BY <1>2, <1>4, Zenon

(* A length that cannot be read puts the end beyond the payload.           *)
LEMMA LengthRead ==
    ASSUME payload \in Seq(Bytes), Has(0, 46), ~(ShortVersion.version < AddrFromVersion),
           ParsedVersion # Nil
    PROVE  \E n \in 0 .. B8 - 1, q \in Nat, e \in Nat :
              /\ CompactAt(80) = [val |-> n, end |-> q] /\ n \in Nat
              /\ q = 80 + Len(CompactBytes(n)) /\ q >= 80 /\ e = q + n /\ e + 4 <= Len(payload)
              /\ n <= MAX_SUBVERSION_LENGTH
              /\ At(80, CompactBytes(n))
              /\ ParsedVersion = LongMessage(q, n, e)
<1>1. Len(payload) \in Nat
  BY LenProperties
<1>2. CompactAt(80) # NoValue
  <2>1. ASSUME CompactAt(80) = NoValue PROVE FALSE
    <3>1. CompactAt(80).val = 0 /\ CompactAt(80).end = Len(payload) + 1
      BY <2>1 DEF NoValue
    <3>2. CompactAt(80).end + CompactAt(80).val + 4 > Len(payload)
      BY <1>1, <3>1
    <3>3. ParsedVersion = Nil
      BY <3>2 DEF ParsedVersion
    <3> QED
      BY <3>3
  <2> QED
    BY <2>1
<1>3. PICK n \in 0 .. B8 - 1, q \in Nat :
        /\ n = CompactAt(80).val /\ q = CompactAt(80).end
        /\ q = 80 + Len(CompactBytes(n)) /\ q > 80 /\ At(80, CompactBytes(n))
  BY <1>2, CompactExact
<1>4. CompactAt(80) = [val |-> n, end |-> q]
  BY <1>2, <1>3 DEF CompactAt
<1>5. PICK e \in Nat : e = q + n
  OBVIOUS
<1>6. n \in Nat /\ q >= 80
  BY <1>3
<1>7. ParsedVersion = IF n > MAX_SUBVERSION_LENGTH \/ e + 4 > Len(payload) THEN Nil
                      ELSE LongMessage(q, n, e)
  BY <1>4, <1>5, <1>6, ParseLong
<1>8. /\ n <= MAX_SUBVERSION_LENGTH /\ e + 4 <= Len(payload)
      /\ ParsedVersion = LongMessage(q, n, e)
  BY <1>1, <1>6, <1>7, BaseAssumption
<1> QED
  BY <1>3, <1>4, <1>5, <1>6, <1>8

(* A message has its fields. *)
LEMMA MessageFields ==
    ASSUME NEW ver, NEW sv, NEW ts, NEW ar, NEW af, NEW no, NEW ua, NEW lb, NEW re
    PROVE  \E m : /\ m = Message(ver, sv, ts, ar, af, no, ua, lb, re)
                  /\ m.version = ver /\ m.services = sv /\ m.timestamp = ts /\ m.addr_recv = ar
                  /\ m.addr_from = af /\ m.nonce = no /\ m.user_agent = ua
                  /\ m.latest_block = lb /\ m.relay = re
<1>1. PICK m : m = Message(ver, sv, ts, ar, af, no, ua, lb, re)
  OBVIOUS
<1>2. /\ m.version = ver /\ m.services = sv /\ m.timestamp = ts /\ m.addr_recv = ar
      /\ m.addr_from = af /\ m.nonce = no /\ m.user_agent = ua
      /\ m.latest_block = lb /\ m.relay = re
  BY <1>1 DEF Message
<1> QED
  BY <1>1, <1>2

(* The message of a later version is a VersionData. *)
LEMMA LongMessageTyped ==
    ASSUME payload \in Seq(Bytes), Has(0, 46), ~(ShortVersion.version < AddrFromVersion),
           NEW n \in Nat, n <= MAX_SUBVERSION_LENGTH, NEW q \in Nat, q >= 80,
           NEW e \in Nat, e = q + n, e + 4 <= Len(payload)
    PROVE  LongMessage(q, n, e) \in VersionData
<1>1. Has(46, 26) /\ Has(72, 8) /\ Has(q, n) /\ Has(e, 4)
  BY LenProperties DEF Has
<1>2. PICK ver, sv, ts, ar :
        /\ ver = ShortVersion.version /\ sv = ShortVersion.services
        /\ ts = ShortVersion.timestamp /\ ar = ShortVersion.addr_recv
        /\ IsSigned(B4, ver) /\ sv \in 0 .. B8 - 1 /\ IsSigned(B8, ts) /\ ar \in Netaddr
        /\ ~(ver < AddrFromVersion)
  BY ShortTyped, Zenon
<1>3. PICK af \in Netaddr : af = NetaddrAt(46)
  BY <1>1, NetaddrExact
<1>4. PICK no \in 0 .. B8 - 1 : no = U64(72)
  BY <1>1, U64Exact
<1>5. PICK ua \in Seq(Bytes) : ua = Take(q, n) /\ Len(ua) = n
  BY <1>1, TakeAt
<1>6. PICK lb : lb = Signed(B4, U32(e)) /\ IsSigned(B4, lb)
  <2>1. U32(e) \in 0 .. B4 - 1
    BY <1>1, U32Exact
  <2> QED
    BY <2>1, Bases, SignedExact
<1>7. PICK re \in BOOLEAN : re = RelayAt(ver, e + 4)
  BY DEF RelayAt
<1>8. Nil \notin Netaddr
  BY NilAssumption
<1>9. ver \in Int /\ ts \in Int /\ lb \in Int /\ no \in Nat
  BY <1>2, <1>4, <1>6 DEF IsSigned
<1>10. PICK m : /\ m = Message(ver, sv, ts, ar, af, no, ua, lb, re)
                /\ m.version = ver /\ m.services = sv /\ m.timestamp = ts /\ m.addr_recv = ar
                /\ m.addr_from = af /\ m.nonce = no /\ m.user_agent = ua
                /\ m.latest_block = lb /\ m.relay = re
  BY MessageFields
<1>11. m \in [version : Int, services : 0 .. B8 - 1, timestamp : Int, addr_recv : Netaddr,
              addr_from : Netaddr \cup {Nil}, nonce : Nat \cup {Nil},
              user_agent : Seq(Bytes), latest_block : Int, relay : BOOLEAN]
  BY <1>2, <1>9, <1>10 DEF Message
<1>12. m \in VersionData
  BY <1>2, <1>5, <1>6, <1>8, <1>10, <1>11 DEF VersionData
<1> QED
  BY <1>2, <1>3, <1>4, <1>5, <1>6, <1>7, <1>10, <1>12, Zenon DEF LongMessage

(* A longer message that is accepted. *)
LEMMA AcceptLong ==
    ASSUME payload \in Seq(Bytes), Has(0, 46), ~(ShortVersion.version < AddrFromVersion),
           ParsedVersion # Nil
    PROVE  /\ ParsedVersion \in VersionData
           /\ VersionBytes(ParsedVersion) \in Seq(Bytes)
           /\ Len(VersionBytes(ParsedVersion)) <= Len(payload)
           /\ At(0, VersionBytes(ParsedVersion))
           /\ Len(ParsedVersion.user_agent) <= MAX_SUBVERSION_LENGTH
<1>1. PICK n \in 0 .. B8 - 1, q \in Nat, e \in Nat :
        /\ CompactAt(80) = [val |-> n, end |-> q] /\ n \in Nat
        /\ q = 80 + Len(CompactBytes(n)) /\ q >= 80 /\ e = q + n /\ e + 4 <= Len(payload)
        /\ n <= MAX_SUBVERSION_LENGTH
        /\ At(80, CompactBytes(n))
        /\ ParsedVersion = LongMessage(q, n, e)
  BY LengthRead
<1>2. LongMessage(q, n, e) \in VersionData
  BY <1>1, LongMessageTyped
<1>3. PICK v \in VersionData : v = LongMessage(q, n, e)
  BY <1>2
<1>4. /\ v.version = ShortVersion.version /\ v.services = ShortVersion.services
      /\ v.timestamp = ShortVersion.timestamp /\ v.addr_recv = ShortVersion.addr_recv
      /\ v.addr_from = NetaddrAt(46) /\ v.nonce = U64(72) /\ v.user_agent = Take(q, n)
      /\ v.latest_block = Signed(B4, U32(e))
  BY <1>3 DEF LongMessage, Message
<1>5. ~(v.version < AddrFromVersion)
  BY <1>4, Zenon
<1>6. Len(v.user_agent) = n
  <2>1. Has(q, n)
    BY <1>1, LenProperties DEF Has
  <2> QED
    BY <1>1, <1>4, <2>1, TakeAt
<1>7. PICK m \in Nat, l \in Nat :
        /\ m = Len(CompactBytes(l)) /\ l = Len(v.user_agent) /\ l \in 0 .. B8 - 1
        /\ l <= MAX_SUBVERSION_LENGTH
        /\ Written(v, VersionBytes(v), 84 + m + l)
        /\ At(0, VersionBytes(v)) <=>
              /\ At(0, ShortOf(v))
              /\ LongAt(v.addr_from, v.nonce, v.user_agent, v.latest_block,
                        80 + m, 80 + m + l)
  BY <1>5, WriteLong
<1>8. l = n /\ 80 + m = q /\ 80 + m + l = e /\ 84 + m + l <= Len(payload)
  BY <1>1, <1>6, <1>7, LenProperties
<1>9. At(0, ShortOf(v))
  <2>1. ShortOf(v) = ShortBytes(ShortVersion.version, ShortVersion.services,
                                ShortVersion.timestamp, ShortVersion.addr_recv)
    BY <1>4, Zenon DEF ShortOf
  <2>2. ShortIs(ShortVersion.version, ShortVersion.services,
                ShortVersion.timestamp, ShortVersion.addr_recv)
    BY DEF ShortIs
  <2> QED
    BY <2>1, <2>2, ShortTyped, ShortExact
<1>10. LongAt(v.addr_from, v.nonce, v.user_agent, v.latest_block, q, e)
  <2>1. /\ v.addr_from \in Netaddr /\ v.nonce \in 0 .. B8 - 1 /\ v.user_agent \in Seq(Bytes)
        /\ IsSigned(B4, v.latest_block)
    BY <1>5 DEF VersionData
  <2>2. TailIs(v.addr_from, v.nonce, v.user_agent, v.latest_block, q, e)
    BY <1>4, <1>6, Zenon DEF TailIs
  <2>3. At(80, CompactBytes(Len(v.user_agent)))
    BY <1>1, <1>6, Zenon
  <2>4. e = q + Len(v.user_agent) /\ q >= 80 /\ e + 4 <= Len(payload)
    BY <1>1, <1>6, Zenon
  <2> QED
    BY <2>1, <2>2, <2>3, <2>4, TailExact
<1>11. At(0, VersionBytes(v))
  BY <1>7, <1>8, <1>9, <1>10, Zenon
<1>12. VersionBytes(v) \in Seq(Bytes) /\ Len(VersionBytes(v)) <= Len(payload)
  BY <1>7, <1>8, Zenon DEF Written
<1> QED
  BY <1>1, <1>3, <1>6, <1>11, <1>12, Zenon

(* The other direction: what was written is read back. *)
Says(v) == Relayed(v, ~SaysNoRelay(<<v, VersionBytes(v)>>))

(* The message of an old version is read back. *)
LEMMA ReadBackShort ==
    ASSUME payload \in Seq(Bytes), NEW v \in VersionData, v.version < AddrFromVersion,
           At(0, VersionBytes(v)), Len(VersionBytes(v)) <= Len(payload)
    PROVE  ParsedVersion = Says(v) /\ ParsedVersion \in VersionData
<1>1. Written(v, ShortOf(v), 46)
  BY WriteShort
<1>2. Has(0, 46) /\ At(0, ShortOf(v))
  BY <1>1, LenProperties DEF Written, Has
<1>3. /\ IsSigned(B4, v.version) /\ v.services \in 0 .. B8 - 1
      /\ IsSigned(B8, v.timestamp) /\ v.addr_recv \in Netaddr
  BY DEF VersionData
<1>4. ShortIs(v.version, v.services, v.timestamp, v.addr_recv)
  BY <1>2, <1>3, ShortExact DEF ShortOf
<1>5. ShortVersion.version < AddrFromVersion
  BY <1>4, Zenon DEF ShortIs
<1>6. ParsedVersion = ShortMessage
  BY <1>5, <1>2, ParseShort, ShortVersionIs, Zenon
<1>7. ParsedVersion \in VersionData
  BY <1>2, <1>5, ParseShort
<1>8. ~SaysNoRelay(<<v, VersionBytes(v)>>)
  <2>1. v.version \in Int /\ ~(v.version >= RelayVersion)
    BY <1>3, BaseAssumption DEF IsSigned
  <2> QED
    BY <2>1 DEF SaysNoRelay
<1>9. /\ v.addr_from = Nil /\ v.nonce = Nil
      /\ v.user_agent = <<>> /\ v.latest_block = 0
  BY DEF VersionData
<1>10. Says(v) = ShortMessage
  BY <1>4, <1>8, <1>9 DEF Says, Relayed, ShortMessage, ShortIs
<1> QED
  BY <1>6, <1>7, <1>10

(* The message of a later version is read back, but for the relay flag. *)
LEMMA ReadBackLong ==
    ASSUME payload \in Seq(Bytes), NEW v \in VersionData, ~(v.version < AddrFromVersion),
           At(0, VersionBytes(v)), Len(VersionBytes(v)) <= Len(payload)
    PROVE  ParsedVersion = Says(v) /\ ParsedVersion \in VersionData
<1>1. PICK m \in Nat, n \in Nat :
        /\ m = Len(CompactBytes(n)) /\ n = Len(v.user_agent) /\ n \in 0 .. B8 - 1
        /\ n <= MAX_SUBVERSION_LENGTH
        /\ Written(v, VersionBytes(v), 84 + m + n)
        /\ At(0, VersionBytes(v)) <=>
              /\ At(0, ShortOf(v))
              /\ LongAt(v.addr_from, v.nonce, v.user_agent, v.latest_block,
                        80 + m, 80 + m + n)
  BY WriteLong
<1>2. PICK q \in Nat, e \in Nat : q = 80 + m /\ e = 80 + m + n /\ e = q + n /\ q >= 80
  OBVIOUS
<1>3. Len(payload) \in Nat /\ Len(VersionBytes(v)) = e + 4 /\ e + 4 <= Len(payload)
  <2>1. Len(payload) \in Nat
    BY LenProperties
  <2>2. Len(VersionBytes(v)) = 84 + m + n
    BY <1>1, Zenon DEF Written
  <2>3. 84 + m + n = e + 4
    BY <1>2
  <2> QED
    BY <2>1, <2>2, <2>3, Zenon
<1>4. Has(0, 46) /\ Has(80, m)
  BY <1>2, <1>3 DEF Has
<1>5. /\ At(0, ShortOf(v))
      /\ LongAt(v.addr_from, v.nonce, v.user_agent, v.latest_block, q, e)
  BY <1>1, <1>2, Zenon
<1>6. ShortIs(v.version, v.services, v.timestamp, v.addr_recv)
  <2>1. /\ IsSigned(B4, v.version) /\ v.services \in 0 .. B8 - 1
        /\ IsSigned(B8, v.timestamp) /\ v.addr_recv \in Netaddr
    BY DEF VersionData
  <2> QED
    BY <1>4, <1>5, <2>1, ShortExact DEF ShortOf
<1>7. ~(ShortVersion.version < AddrFromVersion)
  BY <1>6, Zenon DEF ShortIs
<1>8. At(80, CompactBytes(n)) /\ TailIs(v.addr_from, v.nonce, v.user_agent, v.latest_block, q, e)
  <2>1. /\ v.addr_from \in Netaddr /\ v.nonce \in 0 .. B8 - 1 /\ v.user_agent \in Seq(Bytes)
        /\ IsSigned(B4, v.latest_block)
    BY DEF VersionData
  <2>2. e = q + Len(v.user_agent)
    BY <1>1, <1>2, Zenon
  <2>3. /\ At(80, CompactBytes(Len(v.user_agent)))
        /\ TailIs(v.addr_from, v.nonce, v.user_agent, v.latest_block, q, e)
    BY <1>2, <1>3, <1>5, <2>1, <2>2, TailExact
  <2> QED
    BY <1>1, <2>3, Zenon
<1>9. CompactAt(80) = [val |-> n, end |-> q]
  <2>1. CompactAt(80) = IF Has(80, Len(CompactBytes(n)))
                        THEN [val |-> n, end |-> 80 + Len(CompactBytes(n))]
                        ELSE NoValue
    BY <1>1, <1>8, CompactExact
  <2> QED
    BY <1>1, <1>2, <1>4, <2>1, Zenon
<1>10. ParsedVersion = LongMessage(q, n, e)
  <2>1. ParsedVersion = IF n > MAX_SUBVERSION_LENGTH \/ e + 4 > Len(payload) THEN Nil
                        ELSE LongMessage(q, n, e)
    BY <1>2, <1>4, <1>7, <1>9, ParseLong
  <2>2. ~(n > MAX_SUBVERSION_LENGTH) /\ ~(e + 4 > Len(payload))
    BY <1>1, <1>3, BaseAssumption
  <2> QED
    BY <2>1, <2>2, Zenon
<1>11. LongMessage(q, n, e) \in VersionData
  BY <1>1, <1>2, <1>3, <1>4, <1>7, LongMessageTyped, ZenonT(60)
<1>12. RelayAt(v.version, e + 4) = ~SaysNoRelay(<<v, VersionBytes(v)>>)
  <2>1. Has(e + 4, 1) <=> Len(payload) > Len(VersionBytes(v))
    BY <1>3 DEF Has
  <2>2. SaysNoRelay(<<v, VersionBytes(v)>>) <=>
           /\ v.version >= RelayVersion /\ Len(payload) > Len(VersionBytes(v))
           /\ payload[Len(VersionBytes(v)) + 1] = 0
    BY DEF SaysNoRelay
  <2>3. RelayAt(v.version, e + 4) <=>
           (v.version >= RelayVersion /\ Has(e + 4, 1) => payload[e + 4 + 1] # 0)
    BY DEF RelayAt
  <2>4. RelayAt(v.version, e + 4) <=> ~SaysNoRelay(<<v, VersionBytes(v)>>)
    BY <1>3, <2>1, <2>2, <2>3, Zenon
  <2>5. RelayAt(v.version, e + 4) \in BOOLEAN
    BY DEF RelayAt
  <2> QED
    BY <2>4, <2>5
<1>13. LongMessage(q, n, e) = Says(v)
  <2>1. LongMessage(q, n, e) =
           Message(v.version, v.services, v.timestamp, v.addr_recv, v.addr_from, v.nonce,
                   v.user_agent, v.latest_block, RelayAt(v.version, e + 4))
    BY <1>1, <1>6, <1>8, Zenon DEF LongMessage, ShortIs, TailIs
  <2> QED
    BY <1>12, <2>1, Zenon DEF Says, Relayed
<1> QED
  BY <1>10, <1>11, <1>13, Zenon

(* What the payload agrees with to its end is a prefix of it. *)
LEMMA AgreesPrefix ==
    ASSUME NEW s \in Seq(Bytes), NEW t \in Seq(Bytes), Len(s) <= Len(t), Agrees(t, 0, s)
    PROVE  IsPrefix(s, t)
<1>1. PICK n \in Nat : n = Len(s) /\ n <= Len(t) /\ n <= Len(s)
  BY LenProperties
<1>2. Len(s) \in Nat /\ Len(t) \in Nat
  BY LenProperties
<1>3. \A i \in 1 .. n : 0 + i = i /\ 0 + i <= Len(t)
  BY <1>1, <1>2
<1>4. \A i \in 1 .. n : t[i] = s[i]
  BY <1>1, <1>3 DEF Agrees
<1>5. IsSlice(Bytes, s, 0, n, SubSeq(s, 1, n))
  <2>1. 0 + n <= Len(s) /\ 0 \in Nat /\ 1 = 0 + 1 /\ n = 0 + n
    BY <1>1
  <2> QED
    BY <2>1, SliceIs
<1>6. IsSlice(Bytes, t, 0, n, SubSeq(t, 1, n))
  <2>1. 0 + n <= Len(t) /\ 0 \in Nat /\ 1 = 0 + 1 /\ n = 0 + n
    BY <1>1
  <2> QED
    BY <2>1, SliceIs
<1>7. PICK a \in Seq(Bytes), b \in Seq(Bytes) :
        /\ a = SubSeq(s, 1, n) /\ b = SubSeq(t, 1, n) /\ Len(a) = n /\ Len(b) = n
        /\ \A i \in 1 .. n : a[i] = s[i] /\ b[i] = t[i]
  <2>1. \A i \in 1 .. n : SubSeq(s, 1, n)[i] = s[i] /\ SubSeq(t, 1, n)[i] = t[i]
    BY <1>3, <1>5, <1>6 DEF IsSlice
  <2>2. /\ SubSeq(s, 1, n) \in Seq(Bytes) /\ SubSeq(t, 1, n) \in Seq(Bytes)
        /\ Len(SubSeq(s, 1, n)) = n /\ Len(SubSeq(t, 1, n)) = n
    BY <1>5, <1>6, Zenon DEF IsSlice
  <2> QED
    BY <2>1, <2>2
<1>8. a = b
  BY <1>4, <1>7, SeqEqual
<1>9. SubSeq(s, 1, Len(s)) = SubSeq(t, 1, Len(s))
  BY <1>1, <1>7, <1>8, Zenon
<1> QED
  BY <1>1, <1>9 DEF IsPrefix

(* What parse_version returns on the payload. *)
Reads(p) ==
    /\ p # Nil => IsPrefix(VersionBytes(p), payload) /\ Len(p.user_agent) <= MAX_SUBVERSION_LENGTH
    /\ \A v \in VersionEncodings :
          IsPrefix(v[2], payload) =>
              p # Nil /\ p = [v[1] EXCEPT !.relay = ~SaysNoRelay(v)]

(* parse_version accepts what a version message says and nothing else. *)
LEMMA ParsedReads == ASSUME payload \in Seq(Bytes) PROVE Reads(ParsedVersion)
<1>1. ASSUME ParsedVersion # Nil
      PROVE  /\ IsPrefix(VersionBytes(ParsedVersion), payload)
             /\ Len(ParsedVersion.user_agent) <= MAX_SUBVERSION_LENGTH
  <2>1. Has(0, 46)
    BY <1>1 DEF ParsedVersion
  <2>2. /\ VersionBytes(ParsedVersion) \in Seq(Bytes)
        /\ Len(VersionBytes(ParsedVersion)) <= Len(payload)
        /\ At(0, VersionBytes(ParsedVersion))
        /\ Len(ParsedVersion.user_agent) <= MAX_SUBVERSION_LENGTH
    <3>1. CASE ShortVersion.version < AddrFromVersion
      <4>1. Len(<<>>) <= MAX_SUBVERSION_LENGTH
        BY BaseAssumption
      <4>2. /\ VersionBytes(ParsedVersion) \in Seq(Bytes)
            /\ Len(VersionBytes(ParsedVersion)) <= Len(payload)
            /\ At(0, VersionBytes(ParsedVersion))
            /\ ParsedVersion.user_agent = <<>>
        BY <2>1, <3>1, ParseShort
      <4> QED
        BY <4>1, <4>2, Zenon
    <3>2. CASE ~(ShortVersion.version < AddrFromVersion)
      BY <1>1, <2>1, <3>2, AcceptLong
    <3> QED
      BY <3>1, <3>2
  <2>3. Agrees(payload, 0, VersionBytes(ParsedVersion))
    BY <2>2, AtAgrees
  <2>4. IsPrefix(VersionBytes(ParsedVersion), payload)
    BY <2>2, <2>3, AgreesPrefix
  <2> QED
    BY <2>2, <2>4
<1>2. ASSUME NEW w \in VersionEncodings, IsPrefix(w[2], payload)
      PROVE  /\ ParsedVersion # Nil
             /\ ParsedVersion = [w[1] EXCEPT !.relay = ~SaysNoRelay(w)]
  <2>1. PICK v \in Versions : w = <<v, VersionBytes(v)>>
    BY DEF VersionEncodings
  <2>2. v \in VersionData /\ w[1] = v /\ w[2] = VersionBytes(v)
    BY <2>1, MessageAssumption
  <2>3. VersionBytes(v) \in Seq(Bytes)
    <3>1. CASE v.version < AddrFromVersion
      BY <2>2, <3>1, WriteShort DEF Written
    <3>2. CASE ~(v.version < AddrFromVersion)
      BY <2>2, <3>2, WriteLong DEF Written
    <3> QED
      BY <3>1, <3>2
  <2>4. Len(VersionBytes(v)) <= Len(payload) /\ Agrees(payload, 0, VersionBytes(v))
    BY <1>2, <2>2, <2>3, PrefixAgrees
  <2>5. At(0, VersionBytes(v))
    BY <2>4, AtAgrees
  <2>6. ParsedVersion = Says(v) /\ ParsedVersion \in VersionData
    <3>1. CASE v.version < AddrFromVersion
      BY <2>2, <2>4, <2>5, <3>1, ReadBackShort
    <3>2. CASE ~(v.version < AddrFromVersion)
      BY <2>2, <2>4, <2>5, <3>2, ReadBackLong
    <3> QED
      BY <3>1, <3>2
  <2>7. ParsedVersion # Nil
    BY <2>6, NilAssumption
  <2>8. Says(v) = [v EXCEPT !.relay = ~SaysNoRelay(w)]
    <3>1. PICK re : re = ~SaysNoRelay(w)
      OBVIOUS
    <3>2. [v EXCEPT !.relay = re] = Relayed(v, re)
      BY <2>2, RelayField
    <3> QED
      BY <2>1, <3>1, <3>2, Zenon DEF Says
  <2> QED
    BY <2>2, <2>6, <2>7, <2>8, Zenon
<1> QED
  BY <1>1, <1>2 DEF Reads

(* parse_version establishes VersionExact and no other step touches it. *)
LEMMA VersionStep == IInv /\ VersionExact /\ [Next]_vars => VersionExact'
<1>1. ASSUME IInv, ReadVersion PROVE VersionExact'
  <2>1. payload \in Seq(Bytes)
    BY <1>1 DEF IInv, Typed
  <2>2. Reads(ParsedVersion)
    BY <2>1, ParsedReads
  <2>3. PICK p : p = ParsedVersion
    OBVIOUS
  <2>4. Reads(p)
    BY <2>2, <2>3
  <2>5. /\ payload' = payload /\ version' = p
        /\ result' = IF p = Nil THEN "None" ELSE "ok"
    BY <1>1, <2>3 DEF ReadVersion
  <2>6. result' = "ok" => IsPrefix(VersionBytes(version'), payload')
                          /\ Len(version'.user_agent) <= MAX_SUBVERSION_LENGTH
    BY <2>4, <2>5 DEF Reads
  <2>7. ASSUME NEW v \in VersionEncodings, IsPrefix(v[2], payload')
        PROVE  result' = "ok" /\ version' = [v[1] EXCEPT !.relay = ~(SaysNoRelay(v)')]
    <3>1. SaysNoRelay(v)' = SaysNoRelay(v)
      BY <2>5 DEF SaysNoRelay
    <3>2. p # Nil /\ p = [v[1] EXCEPT !.relay = ~SaysNoRelay(v)]
      BY <2>4, <2>5, <2>7 DEF Reads
    <3> QED
      BY <2>5, <3>1, <3>2
  <2> QED
    BY <2>6, <2>7 DEF VersionExact
<1>2. ASSUME IInv, VersionExact, UNCHANGED <<kind, payload, version, result>>
      PROVE  VersionExact'
  <2>1. ASSUME NEW v PROVE SaysNoRelay(v)' = SaysNoRelay(v)
    BY <1>2 DEF SaysNoRelay
  <2> QED
    BY <1>2, <2>1 DEF VersionExact
<1>3. ASSUME kind' # "version" PROVE VersionExact'
  BY <1>3 DEF VersionExact
<1>4. ASSUME IInv, ReadCount PROVE kind' # "version"
  BY <1>4 DEF ReadCount
<1>5. ASSUME IInv, ReadEntry \/ Finish PROVE kind' # "version"
  BY <1>5 DEF IInv, Consumed, Vectors, ReadEntry, Finish
<1> QED
  BY <1>1, <1>2, <1>3, <1>4, <1>5 DEF Next, Done, vars

(***************************************************************************)
(* parse_version accepts a payload exactly when it starts with what a      *)
(* version message says, in whatever combination of the fields that depend *)
(* on its version, and returns that message with the relay flag the next   *)
(* byte sets: for every payload and every base (256 among them).           *)
(***************************************************************************)
THEOREM VersionReadBack == Spec => []VersionExact
<1>1. Init => VersionExact
  BY DEF Init, VersionExact
<1> QED
  BY <1>1, VersionStep, Invariant, PTL DEF Spec
=============================================================================
