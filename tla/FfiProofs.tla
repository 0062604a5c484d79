------------------------------ MODULE FfiProofs ------------------------------
(***************************************************************************)
(* Proofs about Ffi and the values it passes on, for every instance: all   *)
(* setters and getters together or any of them, every argument list their  *)
(* C types allow, both routes, every grain of an f32, and whatever others  *)
(* write to the camera.                                                    *)
(***************************************************************************)
EXTENDS Ffi, TLAPS

FitsI32(n) == -2147483648 <= n /\ n <= 2147483647

-----------------------------------------------------------------------------
(* Bytes.                                                                   *)

\* A number is its last byte and the number before it.
LEMMA LastByte == \A v \in Int : (v % 256) + 256 * (v \div 256) = v
BY SMTT(30)

\* Two bytes give back every u16.
LEMMA U16OfBytes == \A v \in Int : FitsU16(v) => U16(Le2(v)) = v
BY SMTT(30) DEF FitsU16, U16, Le2

\* Two bytes give back every i16, the sign included.
LEMMA I16OfBytes == \A v \in Int : FitsI16(v) => I16(Le2(v)) = v
BY SMTT(30) DEF FitsI16, I16, Le2, SignedByte

\* The divisors of Le4 drop one byte after the other.
LEMMA ByteByByte ==
  \A v \in Int : /\ v \div 65536 = (v \div 256) \div 256
                 /\ v \div 16777216 = (v \div 65536) \div 256
BY SMTT(30)

\* Four bytes give back every i32.
LEMMA I32OfBytes == \A v \in Int : FitsI32(v) => I32(Le4(v)) = v
<1> SUFFICES ASSUME NEW v \in Int, FitsI32(v) PROVE I32(Le4(v)) = v
  OBVIOUS
<1> DEFINE w == v \div 256
           x == v \div 65536
           y == v \div 16777216
<1>1. w \in Int /\ x \in Int /\ y \in Int
  BY SMTT(30)
<1>2. /\ (v % 256) + 256 * w = v
      /\ (w % 256) + 256 * x = w
      /\ (x % 256) + 256 * y = x
  BY <1>1, SMTT(30)
<1>3. -128 <= y /\ y < 128
  BY SMTT(30) DEF FitsI32
<1>4. SignedByte(y % 256) = y
  <2> HIDE DEF y
  <2> QED BY <1>1, <1>3, SMTT(30) DEF SignedByte
<1>5. I32(Le4(v)) = (v % 256) + 256 * (w % 256) + 65536 * (x % 256) + 16777216 * SignedByte(y % 256)
  BY SMTT(30) DEF I32, Le4
<1> HIDE DEF w, x, y
<1> QED BY <1>1, <1>2, <1>4, <1>5, SMTT(30)

-----------------------------------------------------------------------------
(* The two routes.                                                          *)

\* What a GET of n bytes returns once bytes b have been SET at an address.
Carried(v4l2, at, b, n) == Fetched(v4l2, at, Held(v4l2, at, b), n)

\* The first bytes of a string of bytes.
LEMMA FirstTwo ==
  ASSUME NEW s \in Seq(Int), Len(s) >= 2
  PROVE  SubSeq(s, 1, 2)[1] = s[1] /\ SubSeq(s, 1, 2)[2] = s[2]
BY SMTT(30)

\* Two strings of bytes, one behind the other.
LEMMA Joined ==
  ASSUME NEW s \in Seq(Int), NEW t \in Seq(Int)
  PROVE  /\ s \o t \in Seq(Int) /\ Len(s \o t) = Len(s) + Len(t)
         /\ \A i \in 1..Len(s) : (s \o t)[i] = s[i]
         /\ \A i \in 1..Len(t) : (s \o t)[Len(s) + i] = t[i]
BY SMTT(30)

\* Two bytes come back as they went, if the kernel, where it is asked for the
\* control, reads out of them the number they were made of.
LEMMA TwoBytesCarried ==
  ASSUME NEW v4l2 \in BOOLEAN, NEW at, NEW v \in Int,
         ~is_pantilt(at),
         v4l2 /\ at \in cid_for => payload_to_i32(at, Le2(v)) = v
  PROVE  /\ Carried(v4l2, at, Le2(v), 2)[1] = Le2(v)[1]
         /\ Carried(v4l2, at, Le2(v), 2)[2] = Le2(v)[2]
<1>1. Le2(v) \in Seq(Int) /\ Len(Le2(v)) = 2
  BY DEF Le2
<1>2. Le4(v) \in Seq(Int) /\ Len(Le4(v)) = 4 /\ Le4(v)[1] = Le2(v)[1] /\ Le4(v)[2] = Le2(v)[2]
  BY SMTT(30) DEF Le2, Le4
<1>3. CASE v4l2 /\ at \in cid_for
  <2>1. Carried(v4l2, at, Le2(v), 2) = SubSeq(Le4(v), 1, 2)
    BY <1>3 DEF Carried, Fetched, Held
  <2> QED BY <2>1, <1>2, FirstTwo
<1>4. CASE ~(v4l2 /\ at \in cid_for)
  <2>1. Carried(v4l2, at, Le2(v), 2) = SubSeq(Le2(v), 1, 2)
    BY <1>4 DEF Carried, Fetched, Held
  <2> QED BY <2>1, <1>1, FirstTwo
<1> QED BY <1>3, <1>4

\* The number that goes by V4L2 is the signed one for the brightness, and
\* otherwise the unsigned one.
LEMMA KernelsNumber ==
  \A at : \A v \in Int : payload_to_i32(at, Le2(v)) =
                         IF is_signed_2byte(at) THEN I16(Le2(v)) ELSE U16(Le2(v))
<1> SUFFICES ASSUME NEW at, NEW v \in Int
             PROVE  payload_to_i32(at, Le2(v)) = IF is_signed_2byte(at) THEN I16(Le2(v)) ELSE U16(Le2(v))
  OBVIOUS
<1>1. Len(Le2(v)) = 2
  BY DEF Le2
<1> QED BY <1>1 DEF payload_to_i32

\* What a getter returns after a setter has succeeded.
HeardBack(v4l2, c, a) == Decode(c, Carried(v4l2, Address[c], Bytes(c, a), Width(c)))

\* The addresses of the numbers of two bytes, and how they go on Linux.
LEMMA TwoByteAddresses ==
  \A c \in Signed16 \cup Unsigned16 \cup Focals :
    /\ ~is_pantilt(Address[c])
    /\ Address[c] \in cid_for => (is_signed_2byte(Address[c]) <=> c \in Signed16)
    /\ Width(c) = 2
BY DEF Signed16, Unsigned16, Focals, Address, CtAddress, PuAddress, is_pantilt, cid_for,
       is_signed_2byte, PROCESSING_UNIT, CAMERA_TERMINAL, WHITE_BALANCE_TEMPERATURE,
       WHITE_BALANCE_TEMPERATURE_AUTO, Width

\* Brightness and hue: every i16 a setter accepts is what the getter returns,
\* on either route, the sign included.
THEOREM SignedReadBack ==
  \A v4l2 \in BOOLEAN, c \in Signed16 : \A v \in Int :
    Accepts(c, <<v>>) => HeardBack(v4l2, c, <<v>>) = <<v>>
<1> SUFFICES ASSUME NEW v4l2 \in BOOLEAN, NEW c \in Signed16, NEW v \in Int, Accepts(c, <<v>>)
             PROVE  HeardBack(v4l2, c, <<v>>) = <<v>>
  OBVIOUS
<1> DEFINE at == Address[c]
<1>1. FitsI16(v)
  BY DEF Accepts, Signed16, Unsigned16, Focals, from_int
<1>2. Bytes(c, <<v>>) = Le2(v)
  BY DEF Bytes, Signed16, Unsigned16, Flags, Focals, from_int
<1>3. ~is_pantilt(at) /\ Width(c) = 2 /\ (at \in cid_for => is_signed_2byte(at))
  BY TwoByteAddresses
<1> HIDE DEF at
<1>4. I16(Le2(v)) = v
  BY <1>1, I16OfBytes
<1>5. v4l2 /\ at \in cid_for => payload_to_i32(at, Le2(v)) = v
  BY <1>3, <1>4, KernelsNumber
<1>6. I16(Carried(v4l2, at, Le2(v), 2)) = I16(Le2(v))
  BY <1>3, <1>5, TwoBytesCarried DEF I16
<1>7. \A b : Decode(c, b) = <<I16(b)>>
  BY DEF Decode, Signed16, Unsigned16, Flags, Focals, decode
<1> QED BY <1>2, <1>3, <1>4, <1>6, <1>7 DEF HeardBack, at

\* Contrast, saturation, sharpness, gain and backlight: every u16 likewise.
THEOREM UnsignedReadBack ==
  \A v4l2 \in BOOLEAN, c \in Unsigned16 : \A v \in Int :
    Accepts(c, <<v>>) => HeardBack(v4l2, c, <<v>>) = <<v>>
<1> SUFFICES ASSUME NEW v4l2 \in BOOLEAN, NEW c \in Unsigned16, NEW v \in Int, Accepts(c, <<v>>)
             PROVE  HeardBack(v4l2, c, <<v>>) = <<v>>
  OBVIOUS
<1> DEFINE at == Address[c]
<1>1. FitsU16(v)
  BY DEF Accepts, Signed16, Unsigned16, Focals, from_int
<1>2. Bytes(c, <<v>>) = Le2(v)
  BY DEF Bytes, Signed16, Unsigned16, Flags, Focals, from_int
<1>3. ~is_pantilt(at) /\ Width(c) = 2 /\ (at \in cid_for => ~is_signed_2byte(at))
  BY TwoByteAddresses DEF Signed16, Unsigned16
<1> HIDE DEF at
<1>4. U16(Le2(v)) = v
  BY <1>1, U16OfBytes
<1>5. v4l2 /\ at \in cid_for => payload_to_i32(at, Le2(v)) = v
  BY <1>3, <1>4, KernelsNumber
<1>6. U16(Carried(v4l2, at, Le2(v), 2)) = U16(Le2(v))
  BY <1>3, <1>5, TwoBytesCarried DEF U16
<1>7. \A b : Decode(c, b) = <<U16(b)>>
  BY DEF Decode, Signed16, Unsigned16, Flags, Focals, decode
<1> QED BY <1>2, <1>3, <1>4, <1>6, <1>7 DEF HeardBack, at

-----------------------------------------------------------------------------
(* Fractions.                                                               *)

\* What an f32 in steps of 1/Den becomes: the whole number next to it on the
\* side of zero, so that no more than a fraction is lost and never a sign.
LEMMA TruncatedWithin ==
  \A n \in Int :
    /\ Truncated(n) \in Int
    /\ n >= 0 => /\ Truncated(n) * Den <= n
                /\ n < Truncated(n) * Den + Den
    /\ n < 0 => /\ n <= Truncated(n) * Den
               /\ Truncated(n) * Den - Den < n
BY DenAssumption, SMTT(30) DEF Truncated

\* A product that is not above another by the same factor has no larger other factor.
LEMMA Cancelled == \A t, k \in Int : t * Den < k * Den + Den => t <= k
<1> SUFFICES ASSUME NEW t \in Int, NEW k \in Int, t * Den < k * Den + Den PROVE t <= k
  OBVIOUS
<1>1. CASE t > k
  <2>1. PICK d \in Nat : t = k + 1 + d
    <3>1. t - k - 1 \in Nat /\ t = k + 1 + (t - k - 1)
      BY <1>1
    <3> QED BY <3>1
  <2>2. t * Den = k * Den + Den + d * Den
    BY <2>1, DenAssumption, SMTT(30)
  <2>3. d * Den >= 0 /\ k * Den \in Int /\ d * Den \in Int /\ Den \in Int
    BY DenAssumption, SMTT(30)
  <2> QED BY <2>2, <2>3
<1> QED BY <1>1

\* A fraction within whole bounds is truncated within them.
LEMMA TruncatedInRange ==
  \A n, k \in Int : k >= 0 /\ -(k * Den) <= n /\ n <= k * Den =>
    /\ -k <= Truncated(n) /\ Truncated(n) <= k
    /\ n >= 0 => 0 <= Truncated(n)
<1> SUFFICES ASSUME NEW n \in Int, NEW k \in Int, k >= 0, -(k * Den) <= n, n <= k * Den
             PROVE  /\ -k <= Truncated(n) /\ Truncated(n) <= k
                    /\ n >= 0 => 0 <= Truncated(n)
  OBVIOUS
<1> DEFINE t == Truncated(n)
<1>1. /\ t \in Int /\ Den \in Int /\ Den > 0
      /\ n >= 0 => t * Den <= n /\ n < t * Den + Den
      /\ n < 0 => n <= t * Den /\ t * Den - Den < n
  BY TruncatedWithin, DenAssumption
<1>2. t * Den \in Int /\ k * Den \in Int /\ (-k) * Den = -(k * Den) /\ (-t) * Den = -(t * Den) /\ 0 * Den = 0
  BY <1>1, SMTT(30)
<1> HIDE DEF t
<1>3. CASE n >= 0
  <2>1. t <= k
    BY <1>1, <1>2, <1>3, Cancelled
  <2>2. 0 * Den < t * Den + Den
    BY <1>1, <1>2, <1>3
  <2>3. 0 <= t
    BY <1>1, <2>2, Cancelled
  <2> QED BY <1>1, <2>1, <2>3 DEF t
<1>4. CASE n < 0
  <2>1. (-t) * Den < k * Den + Den
    BY <1>1, <1>2, <1>4
  <2>2. -t <= k
    BY <1>1, <2>1, Cancelled
  <2>3. t * Den < 0 * Den + Den
    BY <1>1, <1>2, <1>4
  <2>4. t <= 0
    BY <1>1, <2>3, Cancelled
  <2> QED BY <1>1, <1>4, <2>2, <2>4 DEF t
<1> QED BY <1>3, <1>4

\* Zoom and focus: what the getter returns of any value a setter accepts is
\* the whole number below it, on either route.
THEOREM FocalsReadBack ==
  \A v4l2 \in BOOLEAN, c \in Focals : \A n \in Int :
    Accepts(c, <<n>>) => HeardBack(v4l2, c, <<n>>) = <<Truncated(n) * Den>>
<1> SUFFICES ASSUME NEW v4l2 \in BOOLEAN, NEW c \in Focals, NEW n \in Int, Accepts(c, <<n>>)
             PROVE  HeardBack(v4l2, c, <<n>>) = <<Truncated(n) * Den>>
  OBVIOUS
<1> DEFINE at == Address[c]
           v  == Truncated(n)
<1>1. n \in 0..(65535 * Den)
  BY DEF Accepts, Signed16, Unsigned16, Focals, from_int
<1>2. 0 <= n /\ -(65535 * Den) <= n /\ n <= 65535 * Den
  BY <1>1, DenAssumption
<1>3. v \in Int /\ FitsU16(v)
  BY <1>2, TruncatedWithin, TruncatedInRange DEF FitsU16
<1>4. Bytes(c, <<n>>) = Le2(v)
  BY DEF Bytes, Signed16, Unsigned16, Flags, Focals, from_int
<1>5. ~is_pantilt(at) /\ Width(c) = 2 /\ (at \in cid_for => ~is_signed_2byte(at))
  BY TwoByteAddresses DEF Signed16, Focals
<1> HIDE DEF at, v
<1>6. U16(Le2(v)) = v
  BY <1>3, U16OfBytes
<1>7. v4l2 /\ at \in cid_for => payload_to_i32(at, Le2(v)) = v
  BY <1>3, <1>5, <1>6, KernelsNumber
<1>8. U16(Carried(v4l2, at, Le2(v), 2)) = U16(Le2(v))
  BY <1>3, <1>5, <1>7, TwoBytesCarried DEF U16
<1>9. \A b : Decode(c, b) = <<U16(b) * Den>>
  BY DEF Decode, Signed16, Unsigned16, Flags, Focals, decode
<1> QED BY <1>4, <1>5, <1>6, <1>8, <1>9 DEF HeardBack, at, v

-----------------------------------------------------------------------------
(* Pan and tilt.                                                            *)

\* Of two times four bytes either four are the number they were made of.
LEMMA FourAndFour ==
  \A x, y \in Int : FitsI32(x) /\ FitsI32(y) =>
    /\ I32(Le4(x) \o Le4(y)) = x
    /\ I32(SubSeq(Le4(x) \o Le4(y), 5, 8)) = y
    /\ SubSeq(Le4(x) \o Le4(y), 1, 8) = Le4(x) \o Le4(y)
<1> SUFFICES ASSUME NEW x \in Int, NEW y \in Int, FitsI32(x), FitsI32(y)
             PROVE  /\ I32(Le4(x) \o Le4(y)) = x
                    /\ I32(SubSeq(Le4(x) \o Le4(y), 5, 8)) = y
                    /\ SubSeq(Le4(x) \o Le4(y), 1, 8) = Le4(x) \o Le4(y)
  OBVIOUS
<1> DEFINE p == Le4(x)
           q == Le4(y)
           r == p \o q
           s == SubSeq(r, 5, 8)
<1>1. p \in Seq(Int) /\ Len(p) = 4 /\ q \in Seq(Int) /\ Len(q) = 4
  BY SMTT(30) DEF Le4
<1>2. I32(p) = x /\ I32(q) = y
  BY I32OfBytes
<1> HIDE DEF p, q
<1>3. /\ r \in Seq(Int) /\ Len(r) = 8
      /\ r[1] = p[1] /\ r[2] = p[2] /\ r[3] = p[3] /\ r[4] = p[4]
      /\ r[5] = q[1] /\ r[6] = q[2] /\ r[7] = q[3] /\ r[8] = q[4]
  <2>1. /\ r \in Seq(Int) /\ Len(r) = Len(p) + Len(q)
        /\ \A i \in 1..Len(p) : r[i] = p[i]
        /\ \A i \in 1..Len(q) : r[Len(p) + i] = q[i]
    BY <1>1, Joined
  <2> HIDE DEF r
  <2> QED BY <1>1, <2>1
<1> HIDE DEF r
<1>4. s[1] = r[5] /\ s[2] = r[6] /\ s[3] = r[7] /\ s[4] = r[8]
  BY <1>3, SMTT(30)
<1> HIDE DEF s
<1>5. I32(r) = I32(p) /\ I32(s) = I32(q)
  BY <1>3, <1>4, SMTT(30) DEF I32
<1>6. SubSeq(r, 1, 8) = r
  BY <1>3, SMTT(30)
<1> QED BY <1>2, <1>5, <1>6 DEF r, s, p, q

\* Pan and tilt go as one value of eight bytes or as two numbers of the kernel:
\* what is read of any position a setter accepts is the pan and the tilt in
\* whole seconds of arc, each with its sign and neither for the other.
THEOREM PanTiltReadBack ==
  \A v4l2 \in BOOLEAN : \A a, b \in Int :
    Accepts("pan_tilt", <<a, b>>) =>
      HeardBack(v4l2, "pan_tilt", <<a, b>>) = <<Truncated(a) * Den, Truncated(b) * Den>>
<1> SUFFICES ASSUME NEW v4l2 \in BOOLEAN, NEW a \in Int, NEW b \in Int,
                    Accepts("pan_tilt", <<a, b>>)
             PROVE  HeardBack(v4l2, "pan_tilt", <<a, b>>) = <<Truncated(a) * Den, Truncated(b) * Den>>
  OBVIOUS
<1> DEFINE at == Address["pan_tilt"]
           x  == Truncated(a)
           y  == Truncated(b)
           r  == Le4(x) \o Le4(y)
<1>1. a \in PanTiltRange /\ b \in PanTiltRange
  BY DEF Accepts, Signed16, Unsigned16, Focals, from_int
<1>2. /\ -(540000 * Den) <= a /\ a <= 540000 * Den
      /\ -(540000 * Den) <= b /\ b <= 540000 * Den
  BY <1>1, DenAssumption, SMT DEF PanTiltRange, PAN_TILT_PROVISIONAL_SCALE
<1>3. /\ x \in Int /\ -540000 <= x /\ x <= 540000
      /\ y \in Int /\ -540000 <= y /\ y <= 540000
  BY <1>2, TruncatedWithin, TruncatedInRange, SMT
<1>4. FitsI32(x) /\ FitsI32(y)
  BY <1>3, SMT DEF FitsI32
<1>5. Bytes("pan_tilt", <<a, b>>) = r
  BY DEF Bytes, Signed16, Unsigned16, Flags, Focals, from_int
<1>6. is_pantilt(at) /\ at \notin cid_for /\ Width("pan_tilt") = 8
  BY DEF Address, CtAddress, is_pantilt, cid_for, PROCESSING_UNIT, CAMERA_TERMINAL,
         WHITE_BALANCE_TEMPERATURE, WHITE_BALANCE_TEMPERATURE_AUTO, Width
<1> HIDE DEF at, x, y
<1>7. I32(r) = x /\ I32(SubSeq(r, 5, 8)) = y /\ SubSeq(r, 1, 8) = r
  <2>1. x \in Int /\ y \in Int
    BY <1>3, SMT
  <2> QED BY <2>1, <1>4, FourAndFour
<1>8. Carried(v4l2, at, r, 8) = r
  <2> HIDE DEF r
  <2>1. CASE v4l2
    <3>1. Held(v4l2, at, r)[1] = x /\ Held(v4l2, at, r)[2] = y
      BY <1>6, <1>7, <2>1 DEF Held
    <3> QED BY <1>6, <2>1, <3>1 DEF Carried, Fetched, r
  <2>2. CASE ~v4l2
    BY <1>6, <1>7, <2>2 DEF Carried, Fetched, Held
  <2> QED BY <2>1, <2>2
<1>9. \A s : Decode("pan_tilt", s) =
              <<normalised_pantilt(I32(s)), normalised_pantilt(I32(SubSeq(s, 5, 8)))>>
  BY DEF Decode, Signed16, Unsigned16, Flags, Focals, decode
<1> HIDE DEF r
<1> QED BY <1>5, <1>6, <1>7, <1>8, <1>9 DEF HeardBack, normalised_pantilt, at, x, y

-----------------------------------------------------------------------------
(* The mode register.                                                       *)

\* Three strings of bytes, one behind the other.
LEMMA Joined3 ==
  ASSUME NEW h \in Seq(Int), NEW v \in Seq(Int), NEW z \in Seq(Int)
  PROVE  /\ \A i \in 1..Len(h) : (h \o v \o z)[i] = h[i]
         /\ \A i \in 1..Len(v) : (h \o v \o z)[Len(h) + i] = v[i]
         /\ \A i \in 1..Len(z) : (h \o v \o z)[Len(h) + Len(v) + i] = z[i]
<1> DEFINE front == h \o v
           whole == front \o z
<1>1. /\ front \in Seq(Int) /\ Len(front) = Len(h) + Len(v)
      /\ \A i \in 1..Len(h) : front[i] = h[i]
      /\ \A i \in 1..Len(v) : front[Len(h) + i] = v[i]
  BY Joined
<1>2. /\ \A i \in 1..Len(front) : whole[i] = front[i]
      /\ \A i \in 1..Len(z) : whole[Len(front) + i] = z[i]
  BY <1>1, Joined
<1>3. whole = h \o v \o z
  OBVIOUS
<1> HIDE DEF front, whole
<1>4. Len(h) \in Nat /\ Len(v) \in Nat
  OBVIOUS
<1>5. \A i \in 1..Len(h) : whole[i] = h[i]
  BY <1>1, <1>2, <1>4
<1>6. ASSUME NEW i \in 1..Len(v) PROVE whole[Len(h) + i] = v[i]
  <2> DEFINE j == Len(h) + i
  <2>0. front[j] = v[i]
    BY <1>1
  <2>1. j \in 1..Len(front) /\ front[j] = v[i]
    <3> DEFINE m == Len(h)
               n == Len(v)
    <3>1. Len(front) = m + n /\ m \in Nat /\ n \in Nat /\ i \in 1..n /\ j = m + i
      BY <1>1, <1>4
    <3> HIDE DEF m, n, j
    <3>2. j \in 1..Len(front)
      BY <3>1
    <3> QED BY <2>0, <3>2
  <2> HIDE DEF j
  <2>2. whole[j] = v[i]
    BY <1>2, <2>1
  <2> QED BY <2>2 DEF j
<1>7. \A i \in 1..Len(z) : whole[Len(h) + Len(v) + i] = z[i]
  BY <1>1, <1>2
<1> QED BY <1>3, <1>5, <1>6, <1>7

\* Whatever register and value a setter writes, the payload has its full length,
\* names the register and holds the value whole, and zeros behind it.
THEOREM PayloadHoldsTheValue ==
  \A id \in Int : \A value \in Seq(Int) : Len(value) <= MODE_REGISTER_PAYLOAD_LEN - 2 =>
    LET payload == mode_register_payload(id, value)
    IN /\ DOMAIN payload = 1..MODE_REGISTER_PAYLOAD_LEN
       /\ payload[1] = id /\ payload[2] = Len(value)
       /\ \A i \in 1..Len(value) : payload[2 + i] = value[i]
       /\ \A i \in (3 + Len(value))..MODE_REGISTER_PAYLOAD_LEN : payload[i] = 0
<1> DEFINE max == MODE_REGISTER_PAYLOAD_LEN
<1>1. max \in Int /\ max >= 2 /\ max - 2 = 58
  BY DEF MODE_REGISTER_PAYLOAD_LEN
<1> SUFFICES ASSUME NEW id \in Int, NEW value \in Seq(Int), Len(value) <= max - 2
             PROVE  LET payload == mode_register_payload(id, value)
                    IN /\ DOMAIN payload = 1..max
                       /\ payload[1] = id /\ payload[2] = Len(value)
                       /\ \A i \in 1..Len(value) : payload[2 + i] = value[i]
                       /\ \A i \in (3 + Len(value))..max : payload[i] = 0
  OBVIOUS
<1> DEFINE head  == <<id, Len(value)>>
           zeros == [j \in 1..58 |-> 0]
           whole == head \o value \o zeros
           payload == mode_register_payload(id, value)
<1>2. head \in Seq(Int) /\ Len(head) = 2 /\ head[1] = id /\ head[2] = Len(value)
  OBVIOUS
<1>3. zeros \in Seq(Int) /\ Len(zeros) = max - 2
  BY <1>1, SMTT(30)
<1>4. \A j \in 1..Len(zeros) : zeros[j] = 0
  BY <1>1, <1>3
<1>5. /\ DOMAIN payload = 1..max
      /\ \A i \in 1..max : payload[i] = whole[i]
  BY DEF mode_register_payload
<1> HIDE DEF head, zeros, payload
<1>6. /\ \A i \in 1..Len(head) : whole[i] = head[i]
      /\ \A i \in 1..Len(value) : whole[Len(head) + i] = value[i]
      /\ \A i \in 1..Len(zeros) : whole[Len(head) + Len(value) + i] = zeros[i]
  BY <1>2, <1>3, Joined3
<1> DEFINE n == Len(value)
           h == Len(head)
           z == Len(zeros)
<1>7. n \in Nat /\ n <= max - 2 /\ h = 2 /\ z = max - 2
  BY <1>2, <1>3
<1> HIDE DEF whole, max, n, h, z
<1>8. payload[1] = id /\ payload[2] = Len(value)
  <2>1. 1 \in 1..max /\ 2 \in 1..max /\ 1 \in 1..h /\ 2 \in 1..h
    BY <1>1, <1>7
  <2>2. /\ payload[1] = whole[1] /\ whole[1] = head[1]
        /\ payload[2] = whole[2] /\ whole[2] = head[2]
    BY <1>5, <1>6, <2>1, Zenon DEF h
  <2> QED BY <1>2, <2>2, Zenon
<1>9. ASSUME NEW i \in 1..Len(value) PROVE payload[2 + i] = value[i]
  <2>1. i \in 1..n
    BY DEF n
  <2>2. 2 + i \in 1..max
    BY <1>1, <1>7, <2>1
  <2>3. payload[2 + i] = whole[2 + i]
    BY <1>5, <2>2, Zenon
  <2>4. whole[h + i] = value[i]
    BY <1>6, Zenon DEF h
  <2> QED BY <1>7, <2>3, <2>4, Zenon
<1>10. ASSUME NEW i \in (3 + Len(value))..max PROVE payload[i] = 0
  <2> DEFINE j == i - (2 + n)
  <2>1. i \in (3 + n)..max
    BY DEF n
  <2>2. i \in 1..max /\ j \in 1..z /\ i = h + n + j
    BY <1>1, <1>7, <2>1
  <2> HIDE DEF j
  <2>3. payload[i] = whole[i]
    BY <1>5, <2>2, Zenon
  <2>4. whole[h + n + j] = zeros[j] /\ zeros[j] = 0
    BY <1>4, <1>6, <2>2, Zenon DEF h, n, z
  <2> QED BY <2>2, <2>3, <2>4, Zenon
<1> QED BY <1>5, <1>8, <1>9, <1>10 DEF payload, max

-----------------------------------------------------------------------------
(* The controls, by what is proved of them together.                       *)

Single == {"ae_lock", "exposure_time", "suspend_time", "mask_level", "button_mode"}

\* Every control is in one of the families.
LEMMA ControlsAre ==
  /\ Controls = Signed16 \cup Unsigned16 \cup Focals \cup Flags \cup DOMAIN from_int
                  \cup Single \cup {"pan_tilt", "white_balance"}
  /\ DOMAIN Address = Controls \ {"white_balance"}
BY DEF Controls, Address, CtAddress, PuAddress, Modes, ModeAddress, Signed16, Unsigned16, Focals,
       Flags, from_int, Single

\* Numbers and their bytes.
LEMMA BytesAre ==
  \A n \in Int : /\ Le1(n) = TwosComplement(n, 1)
                 /\ Le2(n) = TwosComplement(n, 2)
                 /\ Le4(n) = TwosComplement(n, 4)
<1> SUFFICES ASSUME NEW n \in Int
             PROVE  /\ Le1(n) = TwosComplement(n, 1)
                    /\ Le2(n) = TwosComplement(n, 2)
                    /\ Le4(n) = TwosComplement(n, 4)
  OBVIOUS
<1>1. Le1(n) = TwosComplement(n, 1)
  BY SMTT(30) DEF Le1, TwosComplement
<1>2. Le2(n) = TwosComplement(n, 2)
  BY SMTT(30) DEF Le2, TwosComplement
<1>3. Le4(n) = TwosComplement(n, 4)
  BY SMTT(30) DEF Le4, TwosComplement
<1> QED BY <1>1, <1>2, <1>3

\* Which of the addresses the kernel has a number for.
LEMMA AddressesAre ==
  \A c \in DOMAIN Address :
    /\ is_pantilt(Address[c]) <=> c = "pan_tilt"
    /\ Address[c] \in cid_for <=> c \in {"brightness", "contrast", "saturation", "zoom", "focus"}
    /\ is_signed_2byte(Address[c]) <=> c = "brightness"
    /\ c \in Modes <=> Len(Address[c]) = 3
    /\ c \in Modes => Address[c] = MODE(Address[c][3])
<1> USE DEF Address, is_pantilt, cid_for, is_signed_2byte, WHITE_BALANCE_TEMPERATURE,
            WHITE_BALANCE_TEMPERATURE_AUTO
<1>1. ASSUME NEW c \in DOMAIN CtAddress
      PROVE  /\ is_pantilt(Address[c]) <=> c = "pan_tilt"
             /\ Address[c] \in cid_for <=> c \in {"zoom", "focus"}
             /\ ~is_signed_2byte(Address[c]) /\ Len(Address[c]) = 2
  BY DEF CtAddress, CAMERA_TERMINAL, PROCESSING_UNIT
<1>2. ASSUME NEW c \in DOMAIN PuAddress
      PROVE  /\ ~is_pantilt(Address[c])
             /\ Address[c] \in cid_for <=> c \in {"brightness", "contrast", "saturation"}
             /\ is_signed_2byte(Address[c]) <=> c = "brightness"
             /\ Len(Address[c]) = 2
  BY DEF CtAddress, PuAddress, CAMERA_TERMINAL, PROCESSING_UNIT
<1>3. ASSUME NEW c \in Modes
      PROVE  Len(Address[c]) = 3 /\ Address[c] = MODE(Address[c][3])
  BY DEF CtAddress, PuAddress, Modes, ModeAddress, MODE
<1>4. \A c \in Modes : ~is_pantilt(Address[c]) /\ Address[c] \notin cid_for /\ ~is_signed_2byte(Address[c])
  BY <1>3 DEF CAMERA_TERMINAL, PROCESSING_UNIT
<1>5. /\ "pan_tilt" \in DOMAIN CtAddress /\ {"zoom", "focus"} \subseteq DOMAIN CtAddress
      /\ {"brightness", "contrast", "saturation"} \subseteq DOMAIN PuAddress
      /\ DOMAIN CtAddress \cap DOMAIN PuAddress = {} /\ Modes \cap (DOMAIN CtAddress \cup DOMAIN PuAddress) = {}
  BY DEF CtAddress, PuAddress, Modes, ModeAddress
<1>6. DOMAIN Address = DOMAIN CtAddress \cup DOMAIN PuAddress \cup Modes
  OBVIOUS
<1> HIDE DEF Address, is_pantilt, cid_for, is_signed_2byte
<1> QED BY <1>1, <1>2, <1>3, <1>4, <1>5, <1>6

\* What an accepted argument list of a control of one number is to leave at its
\* address, and what it does leave there.
Wanted(v4l2, c, a) ==
  IF v4l2 /\ Address[c] \in cid_for THEN <<Number(c, a)>> ELSE TwosComplement(Number(c, a), BytesOf(c))
Left(v4l2, c, a) == Held(v4l2, Address[c], Bytes(c, a))

\* An address the kernel has no number for keeps the bytes.
LEMMA BytesKept ==
  \A v4l2 \in BOOLEAN : \A at, b : ~is_pantilt(at) /\ at \notin cid_for => Held(v4l2, at, b) = b
BY DEF Held

\* Controls whose number fits into two bytes.
LEMMA TwoBytesLeft ==
  ASSUME NEW v4l2 \in BOOLEAN, NEW c \in Signed16 \cup Unsigned16 \cup Focals, NEW a, NEW n \in Int,
         Number(c, a) = n, Bytes(c, a) = Le2(n),
         IF c \in Signed16 THEN FitsI16(n) ELSE FitsU16(n)
  PROVE  Left(v4l2, c, a) = Wanted(v4l2, c, a)
<1> DEFINE at == Address[c]
<1>1. ~is_pantilt(at) /\ (at \in cid_for => (is_signed_2byte(at) <=> c \in Signed16))
  BY TwoByteAddresses
<1>2. BytesOf(c) = 2 /\ Le2(n) = TwosComplement(n, 2)
  BY BytesAre DEF BytesOf, Signed16, Unsigned16, Focals
<1> HIDE DEF at
<1>3. at \in cid_for => payload_to_i32(at, Le2(n)) = n
  BY <1>1, I16OfBytes, U16OfBytes, KernelsNumber
<1>4. CASE v4l2 /\ at \in cid_for
  BY <1>1, <1>3, <1>4 DEF Left, Wanted, Held, at
<1>5. CASE ~(v4l2 /\ at \in cid_for)
  BY <1>1, <1>2, <1>5 DEF Left, Wanted, Held, at
<1> QED BY <1>4, <1>5

\* Controls of the camera's own, and those whose bytes go as they are.
LEMMA BytesLeft ==
  ASSUME NEW v4l2 \in BOOLEAN, NEW c \in DOMAIN Address, NEW a, NEW n \in Int,
         c \notin {"pan_tilt", "brightness", "contrast", "saturation", "zoom", "focus"},
         Number(c, a) = n, Bytes(c, a) = TwosComplement(n, BytesOf(c))
  PROVE  Left(v4l2, c, a) = Wanted(v4l2, c, a)
BY AddressesAre, BytesKept DEF Left, Wanted

\* The argument of a control that has one.
LEMMA OneArgument ==
  \A c, a : Argument(c, a) /\ c \notin {"pan_tilt", "white_balance"} => a = <<a[1]>> /\ a[1] \in Int
BY DEF Argument

\* The arguments of one that has two.
LEMMA TwoArguments ==
  \A c, a : Argument(c, a) /\ c \in {"pan_tilt", "white_balance"} => a[1] \in Int /\ a[2] \in Int
<1>1. \A s \in Seq(Int) : Len(s) = 2 => s[1] \in Int /\ s[2] \in Int
  OBVIOUS
<1>2. \A c, a : Argument(c, a) /\ c \in {"pan_tilt", "white_balance"} => a \in Seq(Int) /\ Len(a) = 2
  BY SMT DEF Argument
<1> QED BY <1>1, <1>2, Zenon

\* Numbers of two bytes.
LEMMA NumbersLeft ==
  ASSUME NEW v4l2 \in BOOLEAN, NEW c \in Signed16 \cup Unsigned16 \cup Focals, NEW a,
         Argument(c, a), Accepts(c, a)
  PROVE  Left(v4l2, c, a) = Wanted(v4l2, c, a)
<1>1. a[1] \in Int
  BY OneArgument DEF Signed16, Unsigned16, Focals
<1>2. CASE c \in Signed16
  <2>1. FitsI16(a[1])
    BY <1>2 DEF Accepts, Signed16, Unsigned16, Focals, from_int
  <2>2. Bytes(c, a) = Le2(a[1]) /\ Number(c, a) = a[1]
    BY <1>2 DEF Bytes, Number, Signed16, Unsigned16, Flags, Focals, from_int
  <2> QED BY <1>1, <1>2, <2>1, <2>2, TwoBytesLeft
<1>3. CASE c \in Unsigned16
  <2>1. FitsU16(a[1]) /\ c \notin Signed16
    BY <1>3 DEF Accepts, Signed16, Unsigned16, Focals, from_int
  <2>2. Bytes(c, a) = Le2(a[1]) /\ Number(c, a) = a[1]
    BY <1>3 DEF Bytes, Number, Signed16, Unsigned16, Flags, Focals, from_int
  <2> QED BY <1>1, <1>3, <2>1, <2>2, TwoBytesLeft
<1>4. CASE c \in Focals
  <2> DEFINE n == a[1]
             v == Truncated(n)
  <2>1. n \in 0..(65535 * Den) /\ c \notin Signed16
    BY <1>4 DEF Accepts, Signed16, Unsigned16, Focals, from_int
  <2>2. 0 <= n /\ -(65535 * Den) <= n /\ n <= 65535 * Den
    BY <2>1, DenAssumption, SMT
  <2>3. v \in Int /\ FitsU16(v)
    BY <1>1, <2>2, TruncatedWithin, TruncatedInRange, SMT DEF FitsU16
  <2>4. v = n \div Den
    BY <2>2, SMT DEF Truncated
  <2>5. Bytes(c, a) = Le2(v) /\ Number(c, a) = n \div Den
    BY <1>4 DEF Bytes, Number, Signed16, Unsigned16, Flags, Focals, from_int
  <2> HIDE DEF v, n
  <2>6. Number(c, a) = v
    BY <2>4, <2>5
  <2>7. c \notin Signed16
    BY <1>4 DEF Signed16, Focals
  <2> QED BY <1>4, <2>3, <2>5, <2>6, <2>7, TwoBytesLeft
<1> QED BY <1>2, <1>3, <1>4

\* Switches: any integer but zero is one.
LEMMA FlagsLeft ==
  ASSUME NEW v4l2 \in BOOLEAN, NEW c \in Flags, NEW a, Argument(c, a)
  PROVE  Left(v4l2, c, a) = Wanted(v4l2, c, a)
<1> DEFINE n == IF a[1] = 0 THEN 0 ELSE 1
<1>1. Number(c, a) = n /\ Bytes(c, a) = Le1(n) /\ BytesOf(c) = 1
  BY DEF Number, Bytes, BytesOf, Flag, Flags, Signed16, Unsigned16, Focals, from_int
<1>2. n \in Int /\ Le1(n) = TwosComplement(n, 1)
  BY BytesAre
<1>3. c \in DOMAIN Address /\ c \notin {"pan_tilt", "brightness", "contrast", "saturation", "zoom", "focus"}
  BY ControlsAre DEF Flags
<1> HIDE DEF n
<1> QED BY <1>1, <1>2, <1>3, BytesLeft

\* The controls that are alone.
LEMMA SinglesLeft ==
  ASSUME NEW v4l2 \in BOOLEAN, NEW c \in Single, NEW a, Argument(c, a)
  PROVE  Left(v4l2, c, a) = Wanted(v4l2, c, a)
<1> DEFINE n == Number(c, a)
<1>1. a[1] \in Int
  BY OneArgument DEF Single
<1>2. n \in Int /\ Bytes(c, a) = TwosComplement(n, BytesOf(c))
  <2> USE DEF Bytes, Number, BytesOf, Single, Flags, Signed16, Unsigned16, Focals
  <2>1. CASE c = "ae_lock"
    <3>1. Bytes(c, a) = Le1(n) /\ BytesOf(c) = 1 /\ n \in Int
      BY <2>1 DEF encode_ae_mode, from_int
    <3> QED BY <3>1, BytesAre
  <2>2. CASE c = "exposure_time"
    <3>1. Bytes(c, a) = Le4(n) /\ BytesOf(c) = 4 /\ n \in Int
      BY <2>2, <1>1 DEF from_int
    <3> QED BY <3>1, BytesAre
  <2>3. CASE c = "suspend_time"
    <3>1. Bytes(c, a) = Le2(n) /\ BytesOf(c) = 2 /\ n \in Int
      BY <2>3, <1>1 DEF from_int
    <3> QED BY <3>1, BytesAre
  <2>4. CASE c \in {"mask_level", "button_mode"}
    <3>1. Bytes(c, a) = Le1(n) /\ BytesOf(c) = 1 /\ n \in Int
      BY <2>4, <1>1 DEF from_int
    <3> QED BY <3>1, BytesAre
  <2> QED BY <2>1, <2>2, <2>3, <2>4
<1>3. c \in DOMAIN Address /\ c \notin {"pan_tilt", "brightness", "contrast", "saturation", "zoom", "focus"}
  BY ControlsAre DEF Single
<1> HIDE DEF n
<1>4. n = Number(c, a)
  BY DEF n
<1> QED BY <1>2, <1>3, <1>4, BytesLeft

\* Enumerations: the C integer, the member it names and the member's byte fit.
LEMMA EnumerationBytes ==
  \A c \in DOMAIN from_int : \A n \in DOMAIN from_int[c] :
    /\ n \in Int
    /\ encode[c][from_int[c][n]] =
         CASE c = "auto_framing" -> Le2(IF n = 2 THEN 257 ELSE n)
           [] c = "ai_mode" -> Le2(n)
           [] c = "ae_mode" -> Le1(<<1, 2, 4, 8>>[n + 1])
           [] OTHER -> Le1(n)
<1> SUFFICES ASSUME NEW c \in DOMAIN from_int, NEW n \in DOMAIN from_int[c]
             PROVE  /\ n \in Int
                    /\ encode[c][from_int[c][n]] =
                         CASE c = "auto_framing" -> Le2(IF n = 2 THEN 257 ELSE n)
                           [] c = "ai_mode" -> Le2(n)
                           [] c = "ae_mode" -> Le1(<<1, 2, 4, 8>>[n + 1])
                           [] OTHER -> Le1(n)
  OBVIOUS
<1>1. CASE c = "wdr"
  <2>1. n \in {0, 1} /\ encode[c][from_int[c][n]] = Le1(n)
    BY <1>1 DEF from_int, encode, wdr_from_int, encode_wdr, Numbered
  <2> QED BY <1>1, <2>1
<1>2. CASE c = "fov"
  <2>1. n \in {0, 1, 2} /\ encode[c][from_int[c][n]] = Le1(n)
    BY <1>2 DEF from_int, encode, fov_from_int, encode_fov, Numbered
  <2> QED BY <1>2, <2>1
<1>3. CASE c = "media_mode"
  <2>1. n \in {0, 1, 2} /\ encode[c][from_int[c][n]] = Le1(n)
    BY <1>3 DEF from_int, encode, media_from_int, encode_media_mode, Numbered
  <2> QED BY <1>3, <2>1
<1>4. CASE c = "auto_framing"
  <2>1. n \in {0, 1, 2} /\ encode[c][from_int[c][n]] = Le2(IF n = 2 THEN 257 ELSE n)
    BY <1>4 DEF from_int, encode, framing_from_int, encode_auto_framing, Numbered, Le2
  <2> QED BY <1>4, <2>1
<1>5. CASE c = "ai_mode"
  <2>1. n \in 0..5 /\ encode[c][from_int[c][n]] = Le2(n)
    BY <1>5 DEF from_int, encode, ai_from_int, encode_ai_mode, Numbered
  <2> QED BY <1>5, <2>1
<1>6. CASE c = "anti_flicker"
  <2>1. n \in 0..3 /\ encode[c][from_int[c][n]] = Le1(n)
    BY <1>6 DEF from_int, encode, anti_flicker_from_int, encode_anti_flicker, Numbered
  <2> QED BY <1>6, <2>1
<1>7. CASE c = "ae_mode"
  <2>1. n \in 0..3 /\ encode[c][from_int[c][n]] = Le1(<<1, 2, 4, 8>>[n + 1])
    BY <1>7 DEF from_int, encode, ae_mode_from_int, encode_ae_mode, Numbered
  <2> QED BY <1>7, <2>1
<1>8. CASE c = "bg_mode"
  <2>1. n \in {0, 1, 17, 18} /\ encode[c][from_int[c][n]] = Le1(n)
    BY <1>8 DEF from_int, encode, bg_mode_from_int, encode_bg_mode
  <2> QED BY <1>8, <2>1
<1>9. CASE c = "bg_color"
  <2>1. n \in -2..4 /\ encode[c][from_int[c][n]] = Le1(n)
    BY <1>9 DEF from_int, encode, bg_color_from_int, encode_bg_color
  <2> QED BY <1>9, <2>1
<1> QED BY <1>1, <1>2, <1>3, <1>4, <1>5, <1>6, <1>7, <1>8, <1>9 DEF from_int

\* The enumerations leave their bytes.
LEMMA EnumerationsLeft ==
  ASSUME NEW v4l2 \in BOOLEAN, NEW c \in DOMAIN from_int, NEW a, Argument(c, a), Accepts(c, a)
  PROVE  Left(v4l2, c, a) = Wanted(v4l2, c, a)
<1> DEFINE n == Number(c, a)
<1>1. a[1] \in DOMAIN from_int[c]
  BY DEF Accepts, Signed16, Unsigned16, Focals, from_int
<1>2. Bytes(c, a) = encode[c][from_int[c][a[1]]]
  BY DEF Bytes, Signed16, Unsigned16, Flags, Focals, from_int
<1>3. a[1] \in Int /\ a[1] \in 0..3 \cup Int
  BY <1>1, EnumerationBytes
<1>4. c = "ae_mode" => a[1] \in 0..3
  BY <1>1 DEF from_int, ae_mode_from_int, Numbered
<1>5. n \in Int /\ Bytes(c, a) = TwosComplement(n, BytesOf(c))
  <2>1. CASE c = "auto_framing"
    <3>1. n = (IF a[1] = 2 THEN 257 ELSE a[1])
      BY <2>1 DEF Number, Flags, Focals
    <3>2. BytesOf(c) = 2
      BY <2>1 DEF BytesOf
    <3>3. Bytes(c, a) = Le2(n) /\ n \in Int
      BY <1>1, <1>2, <1>3, <2>1, <3>1, EnumerationBytes
    <3> QED BY <3>2, <3>3, BytesAre
  <2>2. CASE c = "ai_mode"
    <3>1. n = a[1] /\ BytesOf(c) = 2
      BY <2>2 DEF Number, BytesOf, Flags, Focals
    <3>2. Bytes(c, a) = Le2(n) /\ n \in Int
      BY <1>1, <1>2, <1>3, <2>2, <3>1, EnumerationBytes
    <3> QED BY <3>1, <3>2, BytesAre
  <2>3. CASE c = "ae_mode"
    <3>1. n = <<1, 2, 4, 8>>[a[1] + 1] /\ BytesOf(c) = 1
      BY <2>3 DEF Number, BytesOf, Flags, Signed16, Unsigned16, Focals
    <3>2. n \in Int
      BY <1>4, <2>3, <3>1
    <3>3. Bytes(c, a) = Le1(n)
      BY <1>1, <1>2, <2>3, <3>1, EnumerationBytes
    <3> QED BY <3>1, <3>2, <3>3, BytesAre
  <2>4. CASE c \notin {"auto_framing", "ai_mode", "ae_mode"}
    <3>1. n = a[1] /\ BytesOf(c) = 1
      BY <2>4 DEF Number, BytesOf, Flags, Signed16, Unsigned16, Focals, from_int
    <3>2. Bytes(c, a) = Le1(n) /\ n \in Int
      BY <1>1, <1>2, <1>3, <2>4, <3>1, EnumerationBytes
    <3> QED BY <3>1, <3>2, BytesAre
  <2> QED BY <2>1, <2>2, <2>3, <2>4
<1>6. c \in DOMAIN Address /\ c \notin {"pan_tilt", "brightness", "contrast", "saturation", "zoom", "focus"}
  BY ControlsAre DEF from_int
<1> HIDE DEF n
<1>7. n = Number(c, a)
  BY DEF n
<1> QED BY <1>5, <1>6, <1>7, BytesLeft

\* Pan and tilt: the two whole numbers, or the four bytes of each.
Axes(a) == <<TowardZero(a[1]), TowardZero(a[2])>>

LEMMA PanTiltLeft ==
  ASSUME NEW v4l2 \in BOOLEAN, NEW a, Argument("pan_tilt", a), Accepts("pan_tilt", a)
  PROVE  Left(v4l2, "pan_tilt", a) =
           IF v4l2 THEN Axes(a) ELSE TwosComplement(Axes(a)[1], 4) \o TwosComplement(Axes(a)[2], 4)
<1> DEFINE at == Address["pan_tilt"]
           x  == Truncated(a[1])
           y  == Truncated(a[2])
<1>1. a[1] \in Int /\ a[2] \in Int
  BY TwoArguments
<1>2. a[1] \in PanTiltRange /\ a[2] \in PanTiltRange
  BY DEF Accepts, Signed16, Unsigned16, Focals, from_int
<1>3. /\ -(540000 * Den) <= a[1] /\ a[1] <= 540000 * Den
      /\ -(540000 * Den) <= a[2] /\ a[2] <= 540000 * Den
  BY <1>2, DenAssumption, SMT DEF PanTiltRange, PAN_TILT_PROVISIONAL_SCALE
<1>4. /\ x \in Int /\ -540000 <= x /\ x <= 540000
      /\ y \in Int /\ -540000 <= y /\ y <= 540000
  BY <1>1, <1>3, TruncatedWithin, TruncatedInRange, SMT
<1>5. FitsI32(x) /\ FitsI32(y)
  BY <1>4, SMT DEF FitsI32
<1>6. Bytes("pan_tilt", a) = Le4(x) \o Le4(y)
  BY DEF Bytes, Signed16, Unsigned16, Flags, Focals, from_int
<1>7. is_pantilt(at) /\ at \notin cid_for
  BY AddressesAre, ControlsAre
<1>8. x \in Int /\ y \in Int
  BY <1>4, SMT
<1>9. Axes(a) = <<x, y>>
  BY <1>1 DEF Axes, TowardZero, Truncated
<1> HIDE DEF x, y, at
<1>10. CASE v4l2
  <2>1. I32(Le4(x) \o Le4(y)) = x /\ I32(SubSeq(Le4(x) \o Le4(y), 5, 8)) = y
    BY <1>5, <1>8, FourAndFour
  <2> QED BY <2>1, <1>6, <1>7, <1>9, <1>10 DEF Left, Held, at
<1>11. CASE ~v4l2
  <2>1. Le4(x) = TwosComplement(Axes(a)[1], 4) /\ Le4(y) = TwosComplement(Axes(a)[2], 4)
    BY <1>8, <1>9, BytesAre
  <2> QED BY <2>1, <1>6, <1>11 DEF Left, Held, at
<1> QED BY <1>10, <1>11

Plain == Controls \ {"pan_tilt", "white_balance"}

\* The number meant is one.
LEMMA NumberType ==
  ASSUME NEW c \in Plain, NEW a, Argument(c, a), Accepts(c, a)
  PROVE  Number(c, a) \in Int
<1>1. a[1] \in Int
  BY OneArgument DEF Plain
<1>2. CASE c \in Flags
  <2>1. Number(c, a) = IF a[1] = 0 THEN 0 ELSE 1
    BY <1>2 DEF Number, Flags, Focals
  <2> QED BY <2>1
<1>3. CASE c \in Focals
  BY <1>1, <1>3, DenAssumption DEF Number, Focals, Flags
<1>4. CASE c = "ae_mode"
  <2>1. a[1] \in 0..3
    BY <1>4 DEF Accepts, Signed16, Unsigned16, Focals, from_int, ae_mode_from_int, Numbered
  <2>2. Number(c, a) = <<1, 2, 4, 8>>[a[1] + 1]
    BY <1>4 DEF Number, Flags, Focals
  <2> QED BY <2>1, <2>2
<1>5. CASE c \notin Flags \cup Focals /\ c # "ae_mode"
  BY <1>1, <1>5 DEF Number
<1> QED BY <1>2, <1>3, <1>4, <1>5

\* Whatever control of one number is set, on either route: what its transfer leaves
\* at its address is the number its document means.
THEOREM SettersReachTheirAddress ==
  \A v4l2 \in BOOLEAN, c \in Plain : \A a :
    Argument(c, a) /\ Accepts(c, a) => Left(v4l2, c, a) = Wanted(v4l2, c, a)
BY NumbersLeft, FlagsLeft, SinglesLeft, EnumerationsLeft, ControlsAre DEF Plain

\* On the wire it is the bytes of that number.
LEMMA BytesOfNumber ==
  ASSUME NEW c \in Plain, NEW a, Argument(c, a), Accepts(c, a)
  PROVE  Bytes(c, a) = TwosComplement(Number(c, a), BytesOf(c)) /\ BytesOf(c) \in {1, 2, 4}
<1>1. Left(FALSE, c, a) = Wanted(FALSE, c, a)
  BY SettersReachTheirAddress
<1>2. BytesOf(c) \in {1, 2, 4}
  BY DEF BytesOf
<1> QED BY <1>1, <1>2 DEF Left, Wanted, Held

\* Bytes are bytes.
LEMMA TwosComplementType ==
  ASSUME NEW n \in Int, NEW w \in {1, 2, 4}
  PROVE  TwosComplement(n, w) \in Seq(u8) /\ Len(TwosComplement(n, w)) = w
<1> DEFINE part(i) == n \div <<1, 256, 65536, 16777216>>[i]
<1>1. \A i \in 1..w : part(i) \in Int
  BY SMT
<1> HIDE DEF part
<1>2. \A i \in 1..w : part(i) % 256 \in u8
  BY <1>1, SMT DEF u8
<1>3. TwosComplement(n, w) = [i \in 1..w |-> part(i) % 256]
  BY SMT DEF TwosComplement, part
<1>4. TwosComplement(n, w) \in [1..w -> u8]
  BY <1>2, <1>3
<1> QED BY <1>4

\* The bit of the white balance and its temperature, as the kernel has them or as
\* they come.
LEMMA WhiteBalanceLeft ==
  \A v4l2 \in BOOLEAN :
    /\ \A b \in {0, 1} : Held(v4l2, WHITE_BALANCE_TEMPERATURE_AUTO, Le1(b)) =
                           IF v4l2 THEN <<b>> ELSE TwosComplement(b, 1)
    /\ \A k \in Int : FitsU16(k) =>
         Held(v4l2, WHITE_BALANCE_TEMPERATURE, Le2(k)) = IF v4l2 THEN <<k>> ELSE TwosComplement(k, 2)
<1> SUFFICES ASSUME NEW v4l2 \in BOOLEAN
             PROVE  /\ \A b \in {0, 1} : Held(v4l2, WHITE_BALANCE_TEMPERATURE_AUTO, Le1(b)) =
                           IF v4l2 THEN <<b>> ELSE TwosComplement(b, 1)
                    /\ \A k \in Int : FitsU16(k) =>
                         Held(v4l2, WHITE_BALANCE_TEMPERATURE, Le2(k)) =
                           IF v4l2 THEN <<k>> ELSE TwosComplement(k, 2)
  OBVIOUS
<1>1. \A at \in {WHITE_BALANCE_TEMPERATURE, WHITE_BALANCE_TEMPERATURE_AUTO} :
        ~is_pantilt(at) /\ at \in cid_for /\ ~is_signed_2byte(at)
  BY DEF WHITE_BALANCE_TEMPERATURE, WHITE_BALANCE_TEMPERATURE_AUTO, is_pantilt, cid_for,
         is_signed_2byte, CAMERA_TERMINAL, PROCESSING_UNIT
<1>2. ASSUME NEW b \in {0, 1}
      PROVE  Held(v4l2, WHITE_BALANCE_TEMPERATURE_AUTO, Le1(b)) = IF v4l2 THEN <<b>> ELSE TwosComplement(b, 1)
  <2>1. payload_to_i32(WHITE_BALANCE_TEMPERATURE_AUTO, Le1(b)) = b
    BY DEF payload_to_i32, Le1
  <2> QED BY <1>1, <2>1, BytesAre DEF Held
<1>3. ASSUME NEW k \in Int, FitsU16(k)
      PROVE  Held(v4l2, WHITE_BALANCE_TEMPERATURE, Le2(k)) = IF v4l2 THEN <<k>> ELSE TwosComplement(k, 2)
  <2>1. payload_to_i32(WHITE_BALANCE_TEMPERATURE, Le2(k)) = k
    BY <1>1, <1>3, KernelsNumber, U16OfBytes
  <2> QED BY <1>1, <2>1, BytesAre DEF Held
<1> QED BY <1>2, <1>3

-----------------------------------------------------------------------------
(* The transfers of a call and the camera.                                 *)

WhiteBalance == {WHITE_BALANCE_TEMPERATURE, WHITE_BALANCE_TEMPERATURE_AUTO}

\* No two controls are at one address, but for the exposure mode and its lock; none
\* is at that of the white balance, or at one the calls of the Extension Unit use.
LEMMA AddressesDiffer ==
  /\ \A c, d \in DOMAIN Address : Address[c] = Address[d] => c = d \/ {c, d} = {"ae_mode", "ae_lock"}
  /\ \A c \in DOMAIN Address : Address[c] \notin WhiteBalance \cup {XU_SEL_RPC, XU_SEL_MODE_REGISTER}
  /\ XU_SEL_RPC # XU_SEL_MODE_REGISTER /\ {XU_SEL_RPC, XU_SEL_MODE_REGISTER} \cap WhiteBalance = {}
  /\ WHITE_BALANCE_TEMPERATURE # WHITE_BALANCE_TEMPERATURE_AUTO
<1> DEFINE unit(at) == at[1]
           selector(at) == at[2]
<1> USE DEF CAMERA_TERMINAL, PROCESSING_UNIT, MODE
<1>1. \A c, d \in DOMAIN CtAddress : CtAddress[c] = CtAddress[d] => c = d \/ {c, d} = {"ae_mode", "ae_lock"}
  <2>1. \A c, d \in DOMAIN CtAddress :
           selector(CtAddress[c]) = selector(CtAddress[d]) => c = d \/ {c, d} = {"ae_mode", "ae_lock"}
    BY DEF CtAddress
  <2> QED BY <2>1
<1>2. \A c, d \in DOMAIN PuAddress : PuAddress[c] = PuAddress[d] => c = d
  <2>1. \A c, d \in DOMAIN PuAddress : selector(PuAddress[c]) = selector(PuAddress[d]) => c = d
    BY DEF PuAddress
  <2> QED BY <2>1
<1>3. \A c, d \in Modes : ModeAddress[c] = ModeAddress[d] => c = d
  <2>1. \A c, d \in Modes : ModeAddress[c][3] = ModeAddress[d][3] => c = d
    BY DEF ModeAddress, Modes
  <2> QED BY <2>1
<1>4. /\ \A c \in DOMAIN CtAddress : unit(CtAddress[c]) = 1 /\ Len(CtAddress[c]) = 2
      /\ \A c \in DOMAIN PuAddress : unit(PuAddress[c]) = 3 /\ Len(PuAddress[c]) = 2 /\ selector(PuAddress[c]) \in 2..9
      /\ \A c \in Modes : unit(ModeAddress[c]) = 2 /\ Len(ModeAddress[c]) = 3
  BY DEF CtAddress, PuAddress, ModeAddress, Modes
<1>5. /\ unit(XU_SEL_RPC) = 2 /\ Len(XU_SEL_RPC) = 2 /\ selector(XU_SEL_RPC) = 2
      /\ unit(XU_SEL_MODE_REGISTER) = 2 /\ Len(XU_SEL_MODE_REGISTER) = 2 /\ selector(XU_SEL_MODE_REGISTER) = 6
      /\ \A at \in WhiteBalance : unit(at) = 3 /\ selector(at) \in 10..11
      /\ WHITE_BALANCE_TEMPERATURE # WHITE_BALANCE_TEMPERATURE_AUTO
  BY DEF XU_SEL_RPC, XU_SEL_MODE_REGISTER, WhiteBalance, WHITE_BALANCE_TEMPERATURE,
         WHITE_BALANCE_TEMPERATURE_AUTO
<1>6. /\ DOMAIN Address = DOMAIN CtAddress \cup DOMAIN PuAddress \cup Modes
      /\ \A c \in DOMAIN CtAddress : Address[c] = CtAddress[c]
      /\ \A c \in DOMAIN PuAddress : Address[c] = PuAddress[c]
      /\ \A c \in Modes : Address[c] = ModeAddress[c]
  BY DEF Address, CtAddress, PuAddress, ModeAddress, Modes
<1> HIDE DEF CAMERA_TERMINAL, PROCESSING_UNIT, MODE
<1>7. \A c \in DOMAIN Address :
        /\ c \in DOMAIN CtAddress => unit(Address[c]) = 1 /\ Len(Address[c]) = 2
        /\ c \in DOMAIN PuAddress => unit(Address[c]) = 3 /\ Len(Address[c]) = 2 /\ selector(Address[c]) \in 2..9
        /\ c \in Modes => unit(Address[c]) = 2 /\ Len(Address[c]) = 3
  BY <1>4, <1>6
<1>8. ASSUME NEW c \in DOMAIN Address, NEW d \in DOMAIN Address, Address[c] = Address[d]
      PROVE  c = d \/ {c, d} = {"ae_mode", "ae_lock"}
  <2>1. unit(Address[c]) = unit(Address[d])
    BY <1>8
  <2> HIDE DEF unit, selector
  <2>2. CASE c \in DOMAIN CtAddress
    <3>1. d \in DOMAIN CtAddress
      BY <1>6, <1>7, <2>1, <2>2
    <3> QED BY <1>1, <1>6, <1>8, <2>2, <3>1
  <2>3. CASE c \in DOMAIN PuAddress
    <3>1. d \in DOMAIN PuAddress
      BY <1>6, <1>7, <2>1, <2>3
    <3> QED BY <1>2, <1>6, <1>8, <2>3, <3>1
  <2>4. CASE c \in Modes
    <3>1. d \in Modes
      BY <1>6, <1>7, <2>1, <2>4
    <3> QED BY <1>3, <1>6, <1>8, <2>4, <3>1
  <2> QED BY <1>6, <2>2, <2>3, <2>4
<1>9. ASSUME NEW c \in DOMAIN Address, NEW at \in WhiteBalance \cup {XU_SEL_RPC, XU_SEL_MODE_REGISTER}
      PROVE  Address[c] # at
  <2>1. \/ unit(at) = 2 /\ Len(at) = 2
        \/ unit(at) = 3 /\ selector(at) \in 10..11
    BY <1>5
  <2>2. \/ unit(Address[c]) = 1
        \/ unit(Address[c]) = 3 /\ selector(Address[c]) \in 2..9
        \/ unit(Address[c]) = 2 /\ Len(Address[c]) = 3
    BY <1>6, <1>7
  <2>3. ASSUME Address[c] = at PROVE FALSE
    <3>1. /\ unit(Address[c]) = unit(at) /\ Len(Address[c]) = Len(at)
          /\ selector(Address[c]) = selector(at)
      BY <2>3
    <3>2. \A n : ~(n \in 2..9 /\ n \in 10..11)
      OBVIOUS
    <3> HIDE DEF unit, selector
    <3>3. unit(at) = 2 => unit(Address[c]) = 2 /\ Len(Address[c]) = 2
      BY <2>1, <3>1
    <3>4. unit(at) = 3 => unit(Address[c]) = 3 /\ selector(Address[c]) \in 10..11
      BY <2>1, <3>1
    <3>5. unit(at) = 2 \/ unit(at) = 3
      BY <2>1
    <3> QED BY <2>2, <3>2, <3>3, <3>4, <3>5
  <2> QED BY <2>3
<1>10. /\ XU_SEL_RPC # XU_SEL_MODE_REGISTER
       /\ {XU_SEL_RPC, XU_SEL_MODE_REGISTER} \cap WhiteBalance = {}
  <2>1. selector(XU_SEL_RPC) # selector(XU_SEL_MODE_REGISTER)
    BY <1>5
  <2>2. \A at \in WhiteBalance : unit(at) # unit(XU_SEL_RPC) /\ unit(at) # unit(XU_SEL_MODE_REGISTER)
    BY <1>5
  <2> QED BY <2>1, <2>2
<1> QED BY <1>5, <1>8, <1>9, <1>10

\* The transfers, by the kind of control.
LEMMA SetsAre ==
  ASSUME NEW c \in Setters, NEW a
  PROVE  /\ c = "face_focus" => Sets(c, a) = <<SetOf(XU_SEL_RPC, FaceFocusRequest[Flag(a[1])])>>
         /\ c = "white_balance" =>
              Sets(c, a) = IF wb_from_int[a[1]] = "Auto"
                           THEN <<SetOf(WHITE_BALANCE_TEMPERATURE_AUTO, Le1(1))>>
                           ELSE <<SetOf(WHITE_BALANCE_TEMPERATURE_AUTO, Le1(0)),
                                  SetOf(WHITE_BALANCE_TEMPERATURE, Le2(a[2]))>>
         /\ c \in Modes =>
              Sets(c, a) = <<SetOf(XU_SEL_MODE_REGISTER,
                                   mode_register_payload(Address[c][3], Bytes(c, a)))>>
         /\ c \in DOMAIN Address \ Modes => Sets(c, a) = <<SetOf(Address[c], Bytes(c, a))>>
<1>1. "face_focus" \notin DOMAIN Address /\ "white_balance" \notin DOMAIN Address /\ Modes \subseteq DOMAIN Address
  BY DEF Address, CtAddress, PuAddress, Modes, ModeAddress
<1>2. c \in Setters => c \in DOMAIN Address \/ c = "white_balance" \/ c = "face_focus"
  BY DEF Setters, Controls
<1> QED BY <1>1, <1>2 DEF Sets

\* Where they go, and what is looked at to read the control.
LEMMA PlacesAre ==
  /\ Places("white_balance") = WhiteBalance
  /\ Places("face_focus") = {XU_SEL_RPC} /\ Places("status") = {XU_SEL_RPC}
  /\ \A t \in Texts : Places(t) = {XU_SEL_RPC}
  /\ \A c \in DOMAIN Address : Places(c) = IF c \in DOMAIN STATUS_OFFSET
                                           THEN {Address[c], XU_SEL_MODE_REGISTER}
                                           ELSE {Address[c]}
  /\ \A c : c \notin Setters \cup Texts \cup {"status"} => Places(c) = {}
<1> USE DEF Places, Controls, Setters, STATUS_OFFSET, Texts
<1>1. {"white_balance", "face_focus", "status", "firmware", "serial"} \cap DOMAIN Address = {}
  BY DEF Address, CtAddress, PuAddress, Modes, ModeAddress
<1>2. DOMAIN STATUS_OFFSET \subseteq DOMAIN Address
  BY DEF Address, CtAddress, PuAddress, Modes, ModeAddress
<1>3. Places("white_balance") = WhiteBalance
  BY DEF WhiteBalance
<1>4. \A c \in {"face_focus", "status", "firmware", "serial"} : Places(c) = {XU_SEL_RPC}
  BY <1>1
<1>5. \A c \in DOMAIN Address : Places(c) = IF c \in DOMAIN STATUS_OFFSET
                                           THEN {Address[c], XU_SEL_MODE_REGISTER}
                                           ELSE {Address[c]}
  BY <1>1
<1>6. \A c : c \notin Setters \cup Texts \cup {"status"} => Places(c) = {}
  BY <1>1, <1>2
<1> QED BY <1>3, <1>4, <1>5, <1>6

\* What the instance is, by its assumption.
LEMMA InstanceIs ==
  ASSUME instance \in Instances
  PROVE  /\ linux \in BOOLEAN /\ setters \subseteq Setters
         /\ \A c \in setters : \A a \in instance.args[c] : Argument(c, a)
         /\ instance.gets \subseteq Readable \cup Texts /\ instance.calls \subseteq Others
         /\ \A at \in instance.others : <<linux, at>> \in DOMAIN Contents
<1>1. Instance(instance)
  BY FfiAssumption
<1> QED BY <1>1 DEF Instance, linux, setters

-----------------------------------------------------------------------------
(* Calls that fail.                                                        *)

\* The members of a call's record.
LEMMA ReturnedIs ==
  \A fn, c, rc, out : /\ Returned(fn, c, rc, out).fn = fn /\ Returned(fn, c, rc, out).of = c
                      /\ Returned(fn, c, rc, out).rc = rc /\ Returned(fn, c, rc, out).out = out
                      /\ Returned(fn, c, rc, out).sent = <<>>
BY DEF Returned, NoCall

\* A set that fails has written to no other place than the control's own.
LEMMA PartOfASet ==
  ASSUME NEW c \in Setters, NEW a, NEW done \in 0..(Len(Sets(c, a)) - 1),
         NEW new \in AfterSets(SubSeq(Sets(c, a), 1, done))
  PROVE  \/ new = camera
         \/ /\ c = "white_balance"
            /\ new = [camera EXCEPT ![WHITE_BALANCE_TEMPERATURE_AUTO] =
                                       Held(linux, WHITE_BALANCE_TEMPERATURE_AUTO, Le1(0))]
<1> DEFINE sets == Sets(c, a)
<1>1. \/ Len(sets) = 1
      \/ /\ c = "white_balance"
         /\ sets = <<SetOf(WHITE_BALANCE_TEMPERATURE_AUTO, Le1(0)),
                     SetOf(WHITE_BALANCE_TEMPERATURE, Le2(a[2]))>>
  <2>1. c \in {"face_focus", "white_balance"} \cup DOMAIN Address
    BY DEF Setters, Controls
  <2>2. CASE c = "white_balance"
    BY <2>2, SetsAre
  <2>3. CASE c # "white_balance"
    <3>1. \E x : sets = <<x>>
      BY <2>1, <2>3, SetsAre
    <3> QED BY <3>1
  <2> QED BY <2>2, <2>3
<1>2. done = 0 \/ done = 1
  <2>1. Len(sets) = 1 \/ Len(sets) = 2
    BY <1>1
  <2> DEFINE n == Len(sets)
  <2>2. done \in 0..(n - 1)
    OBVIOUS
  <2> HIDE DEF sets, n
  <2>3. n \in {1, 2}
    BY <2>1 DEF n
  <2> QED BY <2>2, <2>3
<1>3. CASE done = 0
  <2>1. SubSeq(sets, 1, done) = <<>>
    BY <1>3
  <2> QED BY <2>1 DEF AfterSets
<1>4. CASE done = 1
  <2>1. /\ c = "white_balance"
        /\ sets = <<SetOf(WHITE_BALANCE_TEMPERATURE_AUTO, Le1(0)),
                    SetOf(WHITE_BALANCE_TEMPERATURE, Le2(a[2]))>>
    <3>1. Len(sets) # 1
      <4> DEFINE n == Len(sets)
      <4>1. 1 \in 0..(n - 1)
        BY <1>4
      <4> HIDE DEF n
      <4>2. n # 1
        BY <4>1
      <4> QED BY <4>2 DEF n
    <3> QED BY <1>1, <3>1
  <2>2. SubSeq(sets, 1, done) = <<SetOf(WHITE_BALANCE_TEMPERATURE_AUTO, Le1(0))>>
    <3> DEFINE x == SetOf(WHITE_BALANCE_TEMPERATURE_AUTO, Le1(0))
               y == SetOf(WHITE_BALANCE_TEMPERATURE, Le2(a[2]))
    <3> HIDE DEF x, y
    <3>1. SubSeq(<<x, y>>, 1, 1) = <<x>>
      <4> DEFINE s == <<x, y>>
                 t == SubSeq(s, 1, 1)
      <4>1. s \in Seq({x, y}) /\ Len(s) = 2 /\ s[1] = x
        OBVIOUS
      <4> HIDE DEF s
      <4>2. t \in Seq({x, y}) /\ Len(t) = 1 /\ t[1] = s[1]
        BY <4>1
      <4> HIDE DEF t
      <4>3. t = <<x>>
        BY <4>1, <4>2
      <4> QED BY <4>3 DEF t, s
    <3> QED BY <1>4, <2>1, <3>1 DEF x, y
  <2>3. new \in AfterSet(camera, WHITE_BALANCE_TEMPERATURE_AUTO, Le1(0))
    <3> DEFINE x == SetOf(WHITE_BALANCE_TEMPERATURE_AUTO, Le1(0))
    <3>1. x.at = WHITE_BALANCE_TEMPERATURE_AUTO /\ x.bytes = Le1(0)
      BY DEF SetOf
    <3> HIDE DEF x
    <3>2. \A s : s = <<x>> => AfterSets(s) = AfterSet(camera, x.at, x.bytes)
      BY DEF AfterSets
    <3>3. SubSeq(sets, 1, done) = <<x>>
      BY <2>2 DEF x
    <3> QED BY <3>1, <3>2, <3>3
  <2>4. WHITE_BALANCE_TEMPERATURE_AUTO \notin {XU_SEL_RPC, XU_SEL_MODE_REGISTER}
    BY AddressesDiffer DEF WhiteBalance
  <2> QED BY <2>1, <2>3, <2>4 DEF AfterSet
<1> QED BY <1>2, <1>3, <1>4

\* A call that has failed, last, has written nothing to the caller.
Quiet == call.rc # "OK" => call.out = <<>>

\* Of every call.
Careful ==
  /\ call'.rc # "OK" => call'.out = <<>>
  /\ call'.rc # "OK" /\ call' # call /\ call'.fn = "set" =>
       /\ call'.rc \in {"OUT_OF_RANGE", "NOT_FOUND"} => camera' = camera
       /\ \A at \in DOMAIN camera \ Places(call'.of) : camera'[at] = camera[at]

LEMMA SetIsCareful ==
  ASSUME NEW c \in Setters, NEW a, set(c, a)
  PROVE  Careful
<1>1. CASE UNCHANGED camera /\ \E rc : call' = Returned("set", c, rc, <<>>)
  BY <1>1, ReturnedIs DEF Careful
<1>2. CASE call'.rc = "OK"
  BY <1>2 DEF Careful
<1>3. CASE /\ call' = Returned("set", c, "USB", <<>>)
           /\ \E done \in 0..(Len(Sets(c, a)) - 1) : camera' \in AfterSets(SubSeq(Sets(c, a), 1, done))
  <2>1. \A at \in DOMAIN camera \ Places(c) : camera'[at] = camera[at]
    BY <1>3, PartOfASet, PlacesAre DEF WhiteBalance
  <2> QED BY <1>3, <2>1, ReturnedIs DEF Careful
<1>4. /\ [Returned("set", c, "OK", <<>>) EXCEPT
            !.sent = IF c = "face_focus" THEN Sets(c, a)[1].bytes ELSE <<>>].rc = "OK"
  BY DEF Returned, NoCall
<1> QED BY <1>1, <1>2, <1>3, <1>4 DEF set

LEMMA NextIsCareful ==
  ASSUME instance \in Instances, Quiet, [Next]_vars
  PROVE  Careful
<1>1. CASE UNCHANGED call
  BY <1>1 DEF Quiet, Careful
<1>2. CASE obsbot_devices_new \/ obsbot_devices_free \/ obsbot_device_close
  BY <1>2, ReturnedIs DEF obsbot_devices_new, obsbot_devices_free, obsbot_device_close, Careful
<1>3. CASE obsbot_devices_open_first
  BY <1>3, ReturnedIs DEF obsbot_devices_open_first, Careful
<1>4. ASSUME NEW n \in -1..2, obsbot_device_set_status_cadence(n)
      PROVE  Careful
  BY <1>4, ReturnedIs DEF obsbot_device_set_status_cadence, Careful
<1>5. ASSUME NEW c \in setters, NEW a \in instance.args[c], set(c, a)
      PROVE  Careful
  BY <1>5, SetIsCareful, InstanceIs
<1>6. ASSUME NEW c, NEW outNull \in BOOLEAN, get(c, outNull)
      PROVE  Careful
  BY <1>6, ReturnedIs DEF get, Careful
<1>7. ASSUME NEW t, NEW outNull \in BOOLEAN, NEW room, copy_string_out(t, outNull, room)
      PROVE  Careful
  <2>1. CASE \E rc : call' = Returned("text", t, rc, <<>>)
    BY <2>1, ReturnedIs DEF Careful
  <2>2. ASSUME NEW done \in {[rc |-> "BAD_RESPONSE", out |-> <<>>, written |-> 0]} \cup
                            {Copy(t, text, room) : text \in {Decoded(t, camera'[XU_SEL_RPC])[1]}},
               call' = [NoCall EXCEPT !.fn = "text", !.of = t, !.rc = done.rc, !.out = done.out,
                                      !.room = room, !.written = done.written, !.sent = Request(t)]
        PROVE  Careful
    <3>1. done.rc # "OK" => done.out = <<>>
      BY <2>2 DEF Copy
    <3>2. call'.rc = done.rc /\ call'.out = done.out /\ call'.fn = "text"
      BY <2>2 DEF NoCall
    <3> QED BY <3>1, <3>2 DEF Careful
  <2>3. CASE ~(\E rc : call' = Returned("text", t, rc, <<>>))
    <3> DEFINE text == Decoded(t, camera'[XU_SEL_RPC])
               done == IF text = <<>>
                       THEN [rc |-> "BAD_RESPONSE", out |-> <<>>, written |-> 0]
                       ELSE Copy(t, text[1], room)
    <3>1. call' = [NoCall EXCEPT !.fn = "text", !.of = t, !.rc = done.rc, !.out = done.out,
                                 !.room = room, !.written = done.written, !.sent = Request(t)]
      BY <1>7, <2>3 DEF copy_string_out
    <3>2. done \in {[rc |-> "BAD_RESPONSE", out |-> <<>>, written |-> 0]} \cup
                   {Copy(t, x, room) : x \in {text[1]}}
      OBVIOUS
    <3> HIDE DEF done
    <3> QED BY <2>2, <3>1, <3>2
  <2> QED BY <2>1, <2>3
<1>8. ASSUME NEW outNull \in BOOLEAN, obsbot_device_status(outNull)
      PROVE  Careful
  <2>1. \E out : call' = Returned("status", "none", "NOT_FOUND", <<>>)
                 \/ call' = Returned("status", "none", "OK", out)
    BY <1>8 DEF obsbot_device_status
  <2> QED BY <2>1, ReturnedIs DEF Careful
<1>9. ASSUME NEW outNull \in BOOLEAN, obsbot_devices_poll_event(outNull)
      PROVE  Careful
  <2>1. \A out, n : [Returned("poll_event", "none", "OK", out) EXCEPT
                       !.room = OBSBOT_STR_MAX, !.written = n].rc = "OK"
    BY DEF Returned, NoCall
  <2>2. \/ \E rc : call' = Returned("poll_event", "none", rc, <<>>)
        \/ \E out, n : call' = [Returned("poll_event", "none", "OK", out) EXCEPT
                                  !.room = OBSBOT_STR_MAX, !.written = n]
    BY <1>9 DEF obsbot_devices_poll_event
  <2>3. CASE \E rc : call' = Returned("poll_event", "none", rc, <<>>)
    BY <2>3, ReturnedIs DEF Careful
  <2> QED BY <2>1, <2>2, <2>3 DEF Careful
<1>10. Sent \/ (\E at \in instance.others : Changed(at)) \/ UNCHANGED vars => UNCHANGED call
  BY DEF Sent, Changed, vars
<1> QED BY <1>1, <1>2, <1>3, <1>4, <1>5, <1>6, <1>7, <1>8, <1>9, <1>10 DEF Next

\* The instance is the caller's and stays.
LEMMA InstanceStays == [Next]_vars => UNCHANGED instance
BY DEF Next, vars, obsbot_devices_new, obsbot_devices_free, obsbot_devices_open_first,
       obsbot_device_close, obsbot_device_set_status_cadence, set, get, copy_string_out,
       obsbot_device_status, obsbot_devices_poll_event, Sent, Changed

\* Of every instance and every behaviour: a call that fails writes nothing to the
\* caller's memory, a setter that fails before its transfers nothing to the
\* camera, and one that fails in them to no other control's address.
THEOREM FailuresLeaveAlone == Spec => FailureLeavesAlone
<1> DEFINE I == instance \in Instances /\ Quiet
<1>1. Init => I
  BY DEF Init, Quiet, NoCall
<1>2. I /\ [Next]_vars => I' /\ Careful
  <2>1. SUFFICES ASSUME I, [Next]_vars PROVE I' /\ Careful
    OBVIOUS
  <2>2. Careful
    BY <2>1, NextIsCareful
  <2>3. instance' \in Instances
    BY <2>1, InstanceStays
  <2> QED BY <2>2, <2>3 DEF Careful, Quiet
<1>3. Careful => (call'.rc # "OK" =>
       /\ call'.out = <<>>
       /\ call' # call /\ call'.fn = "set" =>
            /\ call'.rc \in {"OUT_OF_RANGE", "NOT_FOUND"} => camera' = camera
            /\ \A at \in DOMAIN camera \ Places(call'.of) : camera'[at] = camera[at])
  BY DEF Careful
<1> QED BY <1>1, <1>2, <1>3, PTL DEF Spec, FailureLeavesAlone

-----------------------------------------------------------------------------
(* What a call leaves in the camera.                                       *)

\* A call of one transfer, and of two.
LEMMA OneTransfer ==
  \A at, b : AfterSets(<<SetOf(at, b)>>) = AfterSet(camera, at, b)
<1> SUFFICES ASSUME NEW at, NEW b PROVE AfterSets(<<SetOf(at, b)>>) = AfterSet(camera, at, b)
  OBVIOUS
<1> DEFINE x == SetOf(at, b)
<1>1. x.at = at /\ x.bytes = b
  BY DEF SetOf
<1> HIDE DEF x
<1>2. AfterSets(<<x>>) = AfterSet(camera, x.at, x.bytes)
  BY DEF AfterSets
<1> QED BY <1>1, <1>2 DEF x

LEMMA TwoTransfers ==
  \A at, b, at2, b2 : AfterSets(<<SetOf(at, b), SetOf(at2, b2)>>) =
                      UNION {AfterSet(cam, at2, b2) : cam \in AfterSet(camera, at, b)}
<1> SUFFICES ASSUME NEW at, NEW b, NEW at2, NEW b2
             PROVE  AfterSets(<<SetOf(at, b), SetOf(at2, b2)>>) =
                      UNION {AfterSet(cam, at2, b2) : cam \in AfterSet(camera, at, b)}
  OBVIOUS
<1> DEFINE x == SetOf(at, b)
           y == SetOf(at2, b2)
<1>1. x.at = at /\ x.bytes = b /\ y.at = at2 /\ y.bytes = b2
  BY DEF SetOf
<1> HIDE DEF x, y
<1>2. AfterSets(<<x, y>>) =
        UNION {AfterSet(cam, y.at, y.bytes) : cam \in AfterSet(camera, x.at, x.bytes)}
  BY DEF AfterSets
<1> QED BY <1>1, <1>2 DEF x, y

\* The bytes of a value are few, and bytes.
LEMMA ValueBytes ==
  ASSUME NEW c \in Plain, NEW a, Argument(c, a), Accepts(c, a)
  PROVE  Bytes(c, a) \in Seq(u8) /\ Len(Bytes(c, a)) \in 1..4
BY BytesOfNumber, NumberType, TwosComplementType

\* A string of bytes is one of numbers; a part of one.
LEMMA BytesAreNumbers == \A s \in Seq(u8) : s \in Seq(Int)
<1>1. u8 \subseteq Int
  BY DEF u8
<1> HIDE DEF u8
<1> SUFFICES ASSUME NEW s \in Seq(u8) PROVE s \in Seq(Int)
  OBVIOUS
<1>2. s \in [1..Len(s) -> u8] /\ Len(s) \in Nat
  OBVIOUS
<1>3. s \in [1..Len(s) -> Int]
  BY <1>1, <1>2
<1> QED BY <1>2, <1>3

LEMMA BytesFrom1 ==
  ASSUME NEW n \in Nat, NEW s \in [1..n -> u8]
  PROVE  s \in Seq(u8) /\ Len(s) = n
OBVIOUS

LEMMA NumbersFrom1 ==
  ASSUME NEW n \in Nat, NEW s \in Seq(Int), Len(s) = n
  PROVE  s \in [1..n -> Int]
OBVIOUS

LEMMA PartOf ==
  ASSUME NEW s \in Seq(Int), NEW m \in Nat, NEW n \in Nat, m + n <= Len(s)
  PROVE  /\ SubSeq(s, m + 1, m + n) \in Seq(Int) /\ Len(SubSeq(s, m + 1, m + n)) = n
         /\ \A i \in 1..n : SubSeq(s, m + 1, m + n)[i] = s[m + i]
OBVIOUS

\* The camera reads from a payload the value that was put into it.
LEMMA ValueOfPayload ==
  ASSUME NEW id \in Int, NEW value \in Seq(Int), Len(value) \in 1..4
  PROVE  LET payload == mode_register_payload(id, value)
         IN payload[1] = id /\ SubSeq(payload, 3, 2 + payload[2]) = value /\ payload[3] = value[1]
<1> DEFINE payload == mode_register_payload(id, value)
           max == MODE_REGISTER_PAYLOAD_LEN
           n == Len(value)
           sub == SubSeq(payload, 3, 2 + n)
<1>1. max = 60
  BY DEF MODE_REGISTER_PAYLOAD_LEN
<1>2. Len(value) <= MODE_REGISTER_PAYLOAD_LEN - 2
  <2>1. n \in 1..4
    OBVIOUS
  <2> HIDE DEF n
  <2>2. n <= max - 2
    BY <1>1, <2>1
  <2> QED BY <2>2 DEF n
<1>3. /\ DOMAIN payload = 1..max
      /\ payload[1] = id /\ payload[2] = n
      /\ \A i \in 1..n : payload[2 + i] = value[i]
      /\ \A i \in (3 + n)..max : payload[i] = 0
  BY <1>2, PayloadHoldsTheValue
<1>4. payload = [i \in 1..max |-> payload[i]]
  BY DEF mode_register_payload
<1>5. n \in 1..4
  OBVIOUS
<1> HIDE DEF payload, max, n
<1>6. \A i \in 1..n : value[i] \in Int
  BY DEF n
<1>7. \A i \in 1..max : payload[i] \in Int
  <2> SUFFICES ASSUME NEW i \in 1..max PROVE payload[i] \in Int
    OBVIOUS
  <2>1. i = 1 \/ i = 2 \/ i - 2 \in 1..n \/ i \in (3 + n)..max
    BY <1>1, <1>5
  <2>2. CASE i - 2 \in 1..n
    <3> DEFINE j == i - 2
    <3>1. j \in 1..n /\ i = 2 + j
      BY <2>2
    <3> HIDE DEF j
    <3> QED BY <1>3, <1>6, <3>1
  <2> QED BY <1>3, <1>5, <2>1, <2>2
<1>8. payload \in Seq(Int) /\ Len(payload) = max
  BY <1>1, <1>4, <1>7
<1>9. sub \in Seq(Int) /\ Len(sub) = n /\ \A i \in 1..n : sub[i] = payload[2 + i]
  <2>1. n \in Nat /\ 2 + n <= max
    BY <1>1, <1>5
  <2>2. sub = SubSeq(payload, 2 + 1, 2 + n)
    OBVIOUS
  <2> HIDE DEF sub
  <2> QED BY <1>8, <2>1, <2>2, PartOf
<1> HIDE DEF sub
<1>10. sub = value
  <2>1. value \in Seq(Int) /\ Len(value) = n
    BY DEF n
  <2>2. \A i \in 1..n : sub[i] = value[i]
    BY <1>3, <1>9
  <2> QED BY <1>9, <2>1, <2>2
<1>11. payload[3] = value[1]
  <2>1. 1 \in 1..n /\ 2 + 1 = 3
    BY <1>5
  <2> QED BY <1>3, <2>1
<1> QED BY <1>3, <1>10, <1>11 DEF payload, sub

\* What has been set; one that frames or chooses the media mode may choose an AI mode too.
AsSet(c, a) == [camera EXCEPT ![Address[c]] = Left(linux, c, a)]

LEMMA SetDoes ==
  ASSUME instance \in Instances, NEW c \in DOMAIN Address, NEW a, Argument(c, a), Accepts(c, a),
         NEW new \in AfterSets(Sets(c, a))
  PROVE  \/ new = AsSet(c, a)
         \/ /\ c \in {"media_mode", "auto_framing"}
            /\ Address["ai_mode"] \in DOMAIN camera
            /\ \E n \in 0..5 : new = [AsSet(c, a) EXCEPT ![Address["ai_mode"]] = Le2(n)]
<1>1. c \in Setters
  BY DEF Setters, Controls
<1>2. CASE c \notin Modes
  <2>1. AfterSets(Sets(c, a)) = AfterSet(camera, Address[c], Bytes(c, a))
    BY <1>1, <1>2, SetsAre, OneTransfer
  <2>2. Address[c] \notin {XU_SEL_RPC, XU_SEL_MODE_REGISTER}
    BY AddressesDiffer
  <2> QED BY <2>1, <2>2 DEF AfterSet, AsSet, Left
<1>3. CASE c \in Modes
  <2> DEFINE id == Address[c][3]
             value == Bytes(c, a)
             payload == mode_register_payload(id, value)
             register == MODE(payload[1])
             written == [camera EXCEPT ![register] = SubSeq(payload, 3, 2 + payload[2])]
             ai == Address["ai_mode"]
  <2>1. id \in Int /\ Address[c] = MODE(id)
    <3>1. id \in Int
      BY <1>3 DEF Address, CtAddress, PuAddress, Modes, ModeAddress, MODE
    <3> QED BY <1>3, <3>1, AddressesAre
  <2>2. c \in Plain
    <3>1. "pan_tilt" \notin Modes /\ "white_balance" \notin Modes
      BY DEF Modes, ModeAddress
    <3> QED BY <1>1, <1>3, <3>1 DEF Plain, Controls
  <2>3. value \in Seq(Int) /\ Len(value) \in 1..4
    BY <2>2, ValueBytes, BytesAreNumbers
  <2>4. payload[1] = id /\ SubSeq(payload, 3, 2 + payload[2]) = value
    <3> HIDE DEF id, value
    <3> QED BY <2>1, <2>3, ValueOfPayload
  <2>5. value = Left(linux, c, a)
    <3>1. "pan_tilt" \notin Modes /\ Modes \cap {"brightness", "contrast", "saturation", "zoom", "focus"} = {}
      BY DEF Modes, ModeAddress
    <3>2. ~is_pantilt(Address[c]) /\ Address[c] \notin cid_for
      BY <1>3, <3>1, AddressesAre
    <3> QED BY <3>2, InstanceIs, BytesKept DEF Left
  <2>6. AfterSets(Sets(c, a)) = AfterSet(camera, XU_SEL_MODE_REGISTER, payload)
    BY <1>1, <1>3, SetsAre, OneTransfer
  <2>7. written = AsSet(c, a) /\ register = Address[c]
    <3> HIDE DEF id, value, payload
    <3> QED BY <2>1, <2>4, <2>5 DEF AsSet
  <2>8. XU_SEL_MODE_REGISTER # XU_SEL_RPC
    BY AddressesDiffer
  <2>9. AfterSet(camera, XU_SEL_MODE_REGISTER, payload) =
          IF ai \in DOMAIN camera /\ (register = MODE(13) \/ (register = MODE(0) /\ payload[3] = 2))
          THEN {[written EXCEPT ![ai] = Le2(n)] : n \in 0..5}
          ELSE {written}
    <3> HIDE DEF payload
    <3> QED BY <2>8 DEF AfterSet
  <2>10. register \in {MODE(13), MODE(0)} => c \in {"media_mode", "auto_framing"}
    <3>1. Address["media_mode"] = MODE(0) /\ Address["auto_framing"] = MODE(13)
          /\ {"media_mode", "auto_framing"} \subseteq DOMAIN Address
      BY DEF Address, CtAddress, PuAddress, Modes, ModeAddress
    <3> HIDE DEF register
    <3>2. \A d \in {"media_mode", "auto_framing"} : {c, d} # {"ae_mode", "ae_lock"}
      OBVIOUS
    <3> QED BY <2>7, <3>1, <3>2, AddressesDiffer
  <2> HIDE DEF register, written, payload
  <2> QED BY <2>6, <2>7, <2>9, <2>10
<1> QED BY <1>2, <1>3

\* The white balance is one of two, and the temperature goes only with the manual one.
LEMMA BalanceArguments ==
  \A a : Argument("white_balance", a) /\ Accepts("white_balance", a) =>
    /\ a[1] \in {0, 1} /\ 1 - a[1] \in {0, 1}
    /\ a[2] \in Int /\ FitsU16(a[2])
    /\ wb_from_int[a[1]] = "Auto" <=> a[1] = 0
<1> SUFFICES ASSUME NEW a, Argument("white_balance", a), Accepts("white_balance", a)
             PROVE  /\ a[1] \in {0, 1} /\ 1 - a[1] \in {0, 1}
                    /\ a[2] \in Int /\ FitsU16(a[2])
                    /\ wb_from_int[a[1]] = "Auto" <=> a[1] = 0
  OBVIOUS
<1>1. a[1] \in DOMAIN wb_from_int
  BY DEF Accepts, Signed16, Unsigned16, Focals, from_int
<1>2. DOMAIN wb_from_int = {0, 1} /\ wb_from_int[0] = "Auto" /\ wb_from_int[1] = "Manual"
  BY DEF wb_from_int, Numbered
<1>3. FitsU16(a[2])
  BY SMT DEF Argument
<1> QED BY <1>1, <1>2, <1>3, TwoArguments

Balance(v4l2, bit) == Held(v4l2, WHITE_BALANCE_TEMPERATURE_AUTO, Le1(bit))
Temperature(v4l2, kelvin) == Held(v4l2, WHITE_BALANCE_TEMPERATURE, Le2(kelvin))

BalanceSet(a) == [camera EXCEPT ![WHITE_BALANCE_TEMPERATURE_AUTO] = Balance(linux, 1 - a[1])]

LEMMA WhiteBalanceDoes ==
  ASSUME NEW a, Argument("white_balance", a), Accepts("white_balance", a),
         NEW new \in AfterSets(Sets("white_balance", a))
  PROVE  new = IF a[1] = 1
               THEN [BalanceSet(a) EXCEPT ![WHITE_BALANCE_TEMPERATURE] = Temperature(linux, a[2])]
               ELSE BalanceSet(a)
<1>1. \A at \in WhiteBalance : at \notin {XU_SEL_RPC, XU_SEL_MODE_REGISTER}
  BY AddressesDiffer
<1>2. \A cam, b : \A at \in WhiteBalance : AfterSet(cam, at, b) = {[cam EXCEPT ![at] = Held(linux, at, b)]}
  BY <1>1 DEF AfterSet
<1>3. "white_balance" \in Setters
  BY DEF Setters, Controls
<1>4. a[1] \in {0, 1} /\ (wb_from_int[a[1]] = "Auto" <=> a[1] = 0)
  BY BalanceArguments
<1>5. CASE a[1] = 0
  <2>1. Sets("white_balance", a) = <<SetOf(WHITE_BALANCE_TEMPERATURE_AUTO, Le1(1))>>
    BY <1>3, <1>4, <1>5, SetsAre
  <2>2. new = [camera EXCEPT ![WHITE_BALANCE_TEMPERATURE_AUTO] = Balance(linux, 1)]
    BY <1>2, <2>1, OneTransfer DEF WhiteBalance, Balance
  <2>3. 1 - a[1] = 1
    BY <1>5
  <2> QED BY <1>5, <2>2, <2>3 DEF BalanceSet
<1>6. CASE a[1] = 1
  <2>1. Sets("white_balance", a) = <<SetOf(WHITE_BALANCE_TEMPERATURE_AUTO, Le1(0)),
                                     SetOf(WHITE_BALANCE_TEMPERATURE, Le2(a[2]))>>
    BY <1>3, <1>4, <1>6, SetsAre
  <2>2. AfterSet(camera, WHITE_BALANCE_TEMPERATURE_AUTO, Le1(0)) =
          {[camera EXCEPT ![WHITE_BALANCE_TEMPERATURE_AUTO] = Balance(linux, 0)]}
    BY <1>2 DEF WhiteBalance, Balance
  <2>3. 1 - a[1] = 0
    BY <1>6
  <2>4. AfterSet(camera, WHITE_BALANCE_TEMPERATURE_AUTO, Le1(0)) = {BalanceSet(a)}
    BY <2>2, <2>3 DEF BalanceSet
  <2>5. new \in AfterSet(BalanceSet(a), WHITE_BALANCE_TEMPERATURE, Le2(a[2]))
    BY <2>1, <2>4, TwoTransfers
  <2> QED BY <1>2, <1>6, <2>5 DEF WhiteBalance, Temperature
<1> QED BY <1>4, <1>5, <1>6

\* A frame leaves what was there, or one of the two replies.
LEMMA FrameDoes ==
  ASSUME NEW cam, NEW frame, NEW new \in AfterSet(cam, XU_SEL_RPC, frame)
  PROVE  \/ new = cam
         \/ \E v \in {cam[XU_SEL_RPC], FirmwareReply, SerialReply} : new = [cam EXCEPT ![XU_SEL_RPC] = v]
BY DEF AfterSet, Answered

LEMMA FaceFocusDoes ==
  ASSUME NEW a, NEW new \in AfterSets(Sets("face_focus", a))
  PROVE  \/ new = camera
         \/ \E v \in {camera[XU_SEL_RPC], FirmwareReply, SerialReply} :
              new = [camera EXCEPT ![XU_SEL_RPC] = v]
<1>1. "face_focus" \in Setters
  BY DEF Setters
<1>2. new \in AfterSet(camera, XU_SEL_RPC, FaceFocusRequest[Flag(a[1])])
  BY <1>1, SetsAre, OneTransfer
<1> QED BY <1>2, FrameDoes

\* What is held is what the transfers left.
AsAsked(v4l2, cam, c, a) ==
  IF c = "face_focus" THEN TRUE
  ELSE IF c = "white_balance"
  THEN /\ cam[WHITE_BALANCE_TEMPERATURE_AUTO] = Balance(v4l2, 1 - a[1])
       /\ a[1] = 1 => cam[WHITE_BALANCE_TEMPERATURE] = Temperature(v4l2, a[2])
  ELSE cam[Address[c]] = Left(v4l2, c, a)

LEMMA HoldsIs ==
  ASSUME NEW v4l2 \in BOOLEAN, NEW cam, NEW c \in Setters, NEW a, Argument(c, a), Accepts(c, a)
  PROVE  Holds(v4l2, cam, c, a) <=> AsAsked(v4l2, cam, c, a)
<1>1. c = "face_focus" \/ c = "white_balance" \/ c = "pan_tilt" \/ c \in Plain
  BY DEF Setters, Plain
<1>2. CASE c = "face_focus"
  BY <1>2 DEF Holds, AsAsked
<1>3. CASE c = "white_balance"
  <2>1. /\ a[1] \in {0, 1} /\ 1 - a[1] \in {0, 1}
        /\ a[2] \in Int /\ FitsU16(a[2])
    BY <1>3, BalanceArguments
  <2>2. WHITE_BALANCE_TEMPERATURE \in cid_for /\ WHITE_BALANCE_TEMPERATURE_AUTO \in cid_for
    BY DEF cid_for
  <2>3. HoldsNumber(v4l2, cam, WHITE_BALANCE_TEMPERATURE_AUTO, 1 - a[1], 1) <=>
          cam[WHITE_BALANCE_TEMPERATURE_AUTO] = Balance(v4l2, 1 - a[1])
    BY <2>1, <2>2, WhiteBalanceLeft DEF HoldsNumber, Balance
  <2>4. HoldsNumber(v4l2, cam, WHITE_BALANCE_TEMPERATURE, a[2], 2) <=>
          cam[WHITE_BALANCE_TEMPERATURE] = Temperature(v4l2, a[2])
    BY <2>1, <2>2, WhiteBalanceLeft DEF HoldsNumber, Temperature
  <2>5. Holds(v4l2, cam, c, a) <=>
          /\ HoldsNumber(v4l2, cam, WHITE_BALANCE_TEMPERATURE_AUTO, 1 - a[1], 1)
          /\ a[1] = 1 => HoldsNumber(v4l2, cam, WHITE_BALANCE_TEMPERATURE, a[2], 2)
    BY <1>3 DEF Holds
  <2> QED BY <1>3, <2>3, <2>4, <2>5 DEF AsAsked
<1>4. CASE c = "pan_tilt"
  <2>1. Left(v4l2, c, a) =
           IF v4l2 THEN Axes(a) ELSE TwosComplement(Axes(a)[1], 4) \o TwosComplement(Axes(a)[2], 4)
    BY <1>4, PanTiltLeft
  <2>2. Holds(v4l2, cam, c, a) <=>
          cam[Address[c]] = IF v4l2 THEN Axes(a)
                            ELSE TwosComplement(Axes(a)[1], 4) \o TwosComplement(Axes(a)[2], 4)
    BY <1>4 DEF Holds, Axes
  <2> QED BY <1>4, <2>1, <2>2 DEF AsAsked
<1>5. CASE c \in Plain
  <2>1. c # "face_focus" /\ c # "white_balance" /\ c # "pan_tilt"
    BY <1>5 DEF Plain, Controls, Address, CtAddress, PuAddress, Modes, ModeAddress
  <2>2. Holds(v4l2, cam, c, a) <=> cam[Address[c]] = Wanted(v4l2, c, a)
    BY <2>1 DEF Holds, HoldsNumber, Wanted
  <2> QED BY <1>5, <2>1, <2>2, SettersReachTheirAddress DEF AsAsked
<1> QED BY <1>1, <1>2, <1>3, <1>4, <1>5

-----------------------------------------------------------------------------
(* What an address can hold.                                               *)

LEMMA LeftType ==
  ASSUME NEW v4l2 \in BOOLEAN, NEW c \in DOMAIN Address, NEW a, Argument(c, a), Accepts(c, a)
  PROVE  Left(v4l2, c, a) \in Values(v4l2, Address[c])
<1>1. Address[c] # XU_SEL_RPC
  BY AddressesDiffer
<1>2. CASE c = "pan_tilt"
  <2>1. is_pantilt(Address[c]) /\ Address[c] \notin cid_for
    BY <1>2, AddressesAre
  <2>2. Axes(a)[1] \in Int /\ Axes(a)[2] \in Int /\ Axes(a) \in Seq(Int)
    <3>1. \A n \in Int : TowardZero(n) \in Int
      BY DenAssumption DEF TowardZero
    <3> QED BY <1>2, <3>1, TwoArguments DEF Axes
  <2>3. CASE v4l2
    BY <1>1, <1>2, <2>1, <2>2, <2>3, PanTiltLeft DEF Values
  <2>4. CASE ~v4l2
    <3> DEFINE x == TwosComplement(Axes(a)[1], 4)
               y == TwosComplement(Axes(a)[2], 4)
    <3>1. x \in Seq(u8) /\ y \in Seq(u8)
      BY <2>2, TwosComplementType
    <3>2. Left(v4l2, c, a) = x \o y
      BY <1>2, <2>4, PanTiltLeft
    <3> HIDE DEF x, y
    <3>3. x \o y \in Seq(u8)
      BY <3>1
    <3> QED BY <1>1, <2>4, <3>2, <3>3 DEF Values
  <2> QED BY <2>3, <2>4
<1>3. CASE c # "pan_tilt"
  <2>1. c \in Plain
    BY <1>3 DEF Plain, Controls, Address, CtAddress, PuAddress, Modes, ModeAddress
  <2>2. Left(v4l2, c, a) = Wanted(v4l2, c, a)
    BY <2>1, SettersReachTheirAddress
  <2>3. Number(c, a) \in Int /\ BytesOf(c) \in {1, 2, 4}
    BY <2>1, NumberType, BytesOfNumber
  <2>4. ~is_pantilt(Address[c])
    BY <1>3, AddressesAre
  <2>5. TwosComplement(Number(c, a), BytesOf(c)) \in Seq(u8) /\ <<Number(c, a)>> \in Seq(Int)
    BY <2>3, TwosComplementType
  <2> QED BY <1>1, <2>2, <2>4, <2>5 DEF Wanted, Values
<1> QED BY <1>2, <1>3

LEMMA BalanceType ==
  ASSUME NEW v4l2 \in BOOLEAN
  PROVE  /\ \A bit \in {0, 1} : Balance(v4l2, bit) \in Values(v4l2, WHITE_BALANCE_TEMPERATURE_AUTO)
         /\ \A k \in Int : FitsU16(k) =>
              Temperature(v4l2, k) \in Values(v4l2, WHITE_BALANCE_TEMPERATURE)
<1>1. /\ WHITE_BALANCE_TEMPERATURE \in cid_for /\ WHITE_BALANCE_TEMPERATURE_AUTO \in cid_for
      /\ WHITE_BALANCE_TEMPERATURE # XU_SEL_RPC /\ WHITE_BALANCE_TEMPERATURE_AUTO # XU_SEL_RPC
  BY AddressesDiffer DEF WhiteBalance, cid_for
<1>2. \A n \in Int : TwosComplement(n, 1) \in Seq(u8) /\ TwosComplement(n, 2) \in Seq(u8) /\ <<n>> \in Seq(Int)
  BY TwosComplementType
<1>3. /\ Values(v4l2, WHITE_BALANCE_TEMPERATURE_AUTO) = IF v4l2 THEN Seq(Int) ELSE Seq(u8)
      /\ Values(v4l2, WHITE_BALANCE_TEMPERATURE) = IF v4l2 THEN Seq(Int) ELSE Seq(u8)
  BY <1>1 DEF Values
<1>4. ASSUME NEW bit \in {0, 1}
      PROVE  Balance(v4l2, bit) \in Values(v4l2, WHITE_BALANCE_TEMPERATURE_AUTO)
  <2>1. Balance(v4l2, bit) = IF v4l2 THEN <<bit>> ELSE TwosComplement(bit, 1)
    BY WhiteBalanceLeft DEF Balance
  <2>2. bit \in Int
    OBVIOUS
  <2> QED BY <1>2, <1>3, <2>1, <2>2
<1>5. ASSUME NEW k \in Int, FitsU16(k)
      PROVE  Temperature(v4l2, k) \in Values(v4l2, WHITE_BALANCE_TEMPERATURE)
  <2>1. Temperature(v4l2, k) = IF v4l2 THEN <<k>> ELSE TwosComplement(k, 2)
    BY <1>5, WhiteBalanceLeft DEF Temperature
  <2> QED BY <1>2, <1>3, <2>1
<1> QED BY <1>4, <1>5

\* A mode-register value and the marker of the blob are bytes.
LEMMA ModesHoldBytes ==
  \A v4l2 \in BOOLEAN :
    /\ \A c \in Modes : Values(v4l2, Address[c]) = Seq(u8)
    /\ Values(v4l2, XU_SEL_MODE_REGISTER) = Seq(u8)
<1>1. ASSUME NEW c \in Modes
      PROVE  /\ Address[c] \notin cid_for /\ ~is_pantilt(Address[c]) /\ Address[c] # XU_SEL_RPC
  <2>1. c \in DOMAIN Address /\ c \notin {"pan_tilt", "brightness", "contrast", "saturation", "zoom", "focus"}
    BY DEF Address, CtAddress, PuAddress, Modes, ModeAddress
  <2> QED BY <2>1, AddressesAre, AddressesDiffer
<1>2. /\ XU_SEL_MODE_REGISTER \notin cid_for /\ ~is_pantilt(XU_SEL_MODE_REGISTER)
      /\ XU_SEL_MODE_REGISTER # XU_SEL_RPC
  BY DEF cid_for, is_pantilt, XU_SEL_MODE_REGISTER, XU_SEL_RPC, WHITE_BALANCE_TEMPERATURE,
     WHITE_BALANCE_TEMPERATURE_AUTO, CAMERA_TERMINAL, PROCESSING_UNIT
<1> QED BY <1>1, <1>2 DEF Values

Frames == [0..(RPC_FRAME_LEN - 1) -> u8]

LEMMA CopiedType ==
  ASSUME NEW buf \in Frames, NEW at \in Nat, NEW s \in Seq(u8)
  PROVE  Copied(buf, at, s) \in Frames
<1> DEFINE new(i) == IF i \in at..(at + Len(s) - 1) THEN s[i - at + 1] ELSE buf[i]
<1>1. ASSUME NEW i \in 0..(RPC_FRAME_LEN - 1) PROVE new(i) \in u8
  <2>1. CASE i \in at..(at + Len(s) - 1)
    <3>1. i - at + 1 \in 1..Len(s)
      BY <2>1
    <3>2. s[i - at + 1] \in u8
      BY <3>1
    <3> QED BY <2>1, <3>2
  <2>2. CASE i \notin at..(at + Len(s) - 1)
    BY <2>2 DEF Frames
  <2> QED BY <2>1, <2>2
<1>2. DOMAIN buf = 0..(RPC_FRAME_LEN - 1)
  BY DEF Frames
<1>3. Copied(buf, at, s) = [i \in 0..(RPC_FRAME_LEN - 1) |-> new(i)]
  BY <1>2 DEF Copied
<1> HIDE DEF new
<1> QED BY <1>1, <1>3 DEF Frames

LEMMA ReplyType ==
  ASSUME NEW x \in u8, NEW y \in u8, NEW payload \in Seq(u8), Len(payload) < 256
  PROVE  Reply(<<x, y>>, payload) \in Frames
<1> DEFINE head == <<13, 10>> \o <<x, y>> \o u16_le(Len(payload))
           one  == Copied(Zeros, 0, <<170>>)
           two  == Copied(one, 8, head)
<1>1. Zeros \in Frames
  BY DEF Zeros, Frames, u8
<1>2. <<170>> \in Seq(u8) /\ <<13, 10>> \in Seq(u8) /\ <<x, y>> \in Seq(u8)
  BY DEF u8
<1>3. u16_le(Len(payload)) \in Seq(u8)
  <2> DEFINE n == Len(payload)
  <2>1. n \in Nat
    OBVIOUS
  <2> HIDE DEF n
  <2>2. n % 256 \in u8 /\ (n < 256 => n \div 256 \in u8)
    BY <2>1, SMT DEF u8
  <2> QED BY <2>2 DEF u16_le, n
<1>4. head \in Seq(u8)
  BY <1>2, <1>3
<1> HIDE DEF head
<1>5. one \in Frames
  BY <1>1, <1>2, CopiedType
<1> HIDE DEF one
<1>6. two \in Frames
  BY <1>4, <1>5, CopiedType
<1> HIDE DEF two
<1>7. Copied(two, 16, payload) \in Frames
  BY <1>6, CopiedType
<1> QED BY <1>7 DEF Reply, two, one, head

LEMMA RepliesType == FirmwareReply \in Frames /\ SerialReply \in Frames
<1>1. Reverse(Firmware) \in Seq(u8) /\ Len(Reverse(Firmware)) = 4
  <2>1. Firmware \in Seq(u8) /\ Len(Firmware) = 4
    BY FfiAssumption
  <2>2. Reverse(Firmware) = [i \in 1..4 |-> Firmware[(4 - i) + 1]]
    BY <2>1 DEF Reverse
  <2>3. \A i \in 1..4 : (4 - i) + 1 \in 1..4
    OBVIOUS
  <2>4. \A i \in 1..4 : Firmware[(4 - i) + 1] \in u8
    BY <2>1, <2>3
  <2>5. Reverse(Firmware) \in [1..4 -> u8]
    BY <2>2, <2>4
  <2> QED BY <2>5, BytesFrom1
<1>2. FirmwareReply \in Frames
  <2>1. RPC_GET_FIRMWARE = <<8, 4>> /\ 8 \in u8 /\ 4 \in u8
    BY DEF RPC_GET_FIRMWARE, u8
  <2> DEFINE payload == Reverse(Firmware)
  <2>2. payload \in Seq(u8) /\ Len(payload) < 256
    BY <1>1
  <2> HIDE DEF payload
  <2>3. Reply(<<8, 4>>, payload) \in Frames
    BY <2>1, <2>2, ReplyType
  <2> QED BY <2>1, <2>3 DEF FirmwareReply, payload
<1>3. SerialReply \in Frames
  <2> DEFINE n == Len(Serial)
             zeros == [i \in 1..(44 - n) |-> 0]
  <2>1. Serial \in Seq(u8) /\ n \in 1..44
    <3>1. Graphic \subseteq u8
      BY DEF Graphic, u8
    <3>2. Serial \in Seq(Graphic) /\ n \in 1..44
      BY FfiAssumption
    <3> HIDE DEF n
    <3>3. Serial \in [1..Len(Serial) -> Graphic] /\ Len(Serial) \in Nat
      BY <3>2
    <3>4. Serial \in [1..Len(Serial) -> u8]
      BY <3>1, <3>3
    <3> QED BY <3>2, <3>3, <3>4
  <2> HIDE DEF n
  <2>2. 44 - n \in Nat
    BY <2>1
  <2>3. zeros \in Seq(u8) /\ Len(zeros) = 44 - n
    BY <2>2 DEF u8
  <2> HIDE DEF zeros
  <2>4. Serial \o zeros \in Seq(u8) /\ Len(Serial \o zeros) = 44
    BY <2>1, <2>3 DEF n
  <2>5. RPC_GET_SERIAL = <<200, 24>> /\ 200 \in u8 /\ 24 \in u8
    BY DEF RPC_GET_SERIAL, u8
  <2>6. SerialReply = Reply(RPC_GET_SERIAL, Serial \o zeros)
    BY DEF SerialReply, zeros, n
  <2> DEFINE payload == Serial \o zeros
  <2>7. payload \in Seq(u8) /\ Len(payload) < 256
    BY <2>4
  <2> HIDE DEF payload
  <2>8. Reply(<<200, 24>>, payload) \in Frames
    BY <2>5, <2>7, ReplyType
  <2> QED BY <2>5, <2>6, <2>8 DEF payload
<1> QED BY <1>2, <1>3

-----------------------------------------------------------------------------
(* What a setter changes, and what the others see of it.                   *)

\* Where a control is held, and where a setter writes.
Home(c) ==
  IF c = "white_balance" THEN WhiteBalance ELSE IF c = "face_focus" THEN {} ELSE {Address[c]}
Changes(c) ==
  IF c = "white_balance" THEN WhiteBalance
  ELSE IF c = "face_focus" THEN {XU_SEL_RPC}
  ELSE {Address[c]} \cup (IF c \in {"media_mode", "auto_framing"} THEN {Address["ai_mode"]} ELSE {})

LEMMA HomesInPlaces == \A c \in Setters : Home(c) \subseteq Places(c)
BY PlacesAre DEF Home, Setters, Controls

\* A setter writes to the home of no control outside its group.
LEMMA HomesApart ==
  ASSUME NEW c \in Setters, NEW d \in Setters, d \notin Group(c)
  PROVE  Home(d) \cap Changes(c) = {}
<1>1. c # d
  BY DEF Group
<1>2. {c, d} # {"ae_mode", "ae_lock"}
  <2>1. c \in {"ae_mode", "ae_lock"} => {"ae_mode", "ae_lock"} \subseteq Group(c)
    BY DEF Group, Groups
  <2>2. ASSUME {c, d} = {"ae_mode", "ae_lock"} PROVE FALSE
    <3>1. c \in {"ae_mode", "ae_lock"} /\ d \in {"ae_mode", "ae_lock"}
      BY <2>2
    <3> QED BY <2>1, <3>1
  <2> QED BY <2>2
<1>3. c \in {"media_mode", "auto_framing"} => d # "ai_mode"
  BY DEF Group, Groups
<1>4. "ai_mode" \in DOMAIN Address /\ {"white_balance", "face_focus"} \cap DOMAIN Address = {}
  BY DEF Address, CtAddress, PuAddress, Modes, ModeAddress
<1>5. \A e \in Setters : e \in DOMAIN Address \/ e = "white_balance" \/ e = "face_focus"
  BY DEF Setters, Controls
<1>6. XU_SEL_RPC \notin WhiteBalance
  BY AddressesDiffer
<1>7. CASE d \in DOMAIN Address
  <2>1. Home(d) = {Address[d]}
    BY <1>4, <1>7 DEF Home
  <2>2. CASE c \in DOMAIN Address
    <3>1. Address[d] # Address[c]
      BY <1>1, <1>2, <1>7, <2>2, AddressesDiffer
    <3>2. c \in {"media_mode", "auto_framing"} => Address[d] # Address["ai_mode"]
      <4>1. {d, "ai_mode"} # {"ae_mode", "ae_lock"}
        OBVIOUS
      <4> QED BY <1>3, <1>4, <1>7, <4>1, AddressesDiffer
    <3> QED BY <1>4, <2>1, <2>2, <3>1, <3>2 DEF Changes
  <2>3. CASE c = "white_balance" \/ c = "face_focus"
    BY <1>7, <2>1, <2>3, AddressesDiffer DEF Changes
  <2> QED BY <1>5, <2>2, <2>3
<1>8. CASE d = "white_balance"
  <2>1. CASE c \in DOMAIN Address
    BY <1>4, <1>8, <2>1, AddressesDiffer DEF Home, Changes
  <2>2. CASE c = "face_focus"
    BY <1>6, <1>8, <2>2 DEF Home, Changes
  <2> QED BY <1>1, <1>5, <1>8, <2>1, <2>2
<1>9. CASE d = "face_focus"
  BY <1>9 DEF Home
<1> QED BY <1>5, <1>7, <1>8, <1>9

\* Whether a control is as asked is to be seen at its home.
LEMMA SeenAtHome ==
  ASSUME NEW v4l2, NEW c \in Setters, NEW a, NEW cam, NEW new,
         \A at \in Home(c) : new[at] = cam[at], AsAsked(v4l2, cam, c, a)
  PROVE  AsAsked(v4l2, new, c, a)
BY DEF AsAsked, Home, WhiteBalance

\* What there is of the camera, and of what kind.
CameraOK ==
  /\ DOMAIN camera = UNION {Places(c) : c \in inUse}
  /\ \A at \in DOMAIN camera : camera[at] \in Values(linux, at)

\* A setter's transfers, all of them.
LEMMA SetChanges ==
  ASSUME instance \in Instances, CameraOK, NEW c \in setters, NEW a \in instance.args[c], Accepts(c, a),
         NEW new \in AfterSets(Sets(c, a))
  PROVE  /\ DOMAIN new = DOMAIN camera
         /\ \A at \in DOMAIN camera : new[at] \in Values(linux, at)
         /\ \A at \in DOMAIN camera \ Changes(c) : new[at] = camera[at]
         /\ AsAsked(linux, new, c, a)
<1>1. linux \in BOOLEAN /\ c \in Setters /\ Argument(c, a)
  BY InstanceIs
<1>2. Home(c) \subseteq DOMAIN camera
  <2>1. Places(c) \subseteq DOMAIN camera
    BY DEF CameraOK, inUse
  <2> QED BY <1>1, <2>1, HomesInPlaces
<1>3. CASE c \in DOMAIN Address
  <2> DEFINE at == Address[c]
             ai == Address["ai_mode"]
             v == Left(linux, c, a)
  <2>1. v \in Values(linux, at)
    BY <1>1, <1>3, LeftType
  <2>2. c # "white_balance" /\ c # "face_focus"
    BY <1>3 DEF Address, CtAddress, PuAddress, Modes, ModeAddress
  <2>3. at \in DOMAIN camera /\ at \in Changes(c)
    BY <1>2, <2>2 DEF Home, Changes
  <2>4. AsSet(c, a) = [camera EXCEPT ![at] = v]
    BY DEF AsSet
  <2>5. AsAsked(linux, new, c, a) <=> new[at] = v
    BY <2>2 DEF AsAsked
  <2> HIDE DEF at, v
  <2>6. CASE new = AsSet(c, a)
    BY <2>1, <2>3, <2>4, <2>5, <2>6 DEF CameraOK
  <2>7. ASSUME c \in {"media_mode", "auto_framing"}, NEW n \in 0..5,
               new = [AsSet(c, a) EXCEPT ![ai] = Le2(n)]
        PROVE  /\ DOMAIN new = DOMAIN camera
               /\ \A x \in DOMAIN camera : new[x] \in Values(linux, x)
               /\ \A x \in DOMAIN camera \ Changes(c) : new[x] = camera[x]
               /\ AsAsked(linux, new, c, a)
    <3>1. ai \in Changes(c)
      BY <2>2, <2>7 DEF Changes
    <3>2. ai # at
      <4>1. {c, "ai_mode"} # {"ae_mode", "ae_lock"} /\ "ai_mode" \in DOMAIN Address
        BY DEF Address, CtAddress, PuAddress, Modes, ModeAddress
      <4> QED BY <1>3, <2>7, <4>1, AddressesDiffer DEF at
    <3>3. Le2(n) \in Values(linux, ai)
      <4>1. "ai_mode" \in Modes
        BY DEF Modes, ModeAddress
      <4>2. Le2(n) \in Seq(u8)
        BY BytesAre, TwosComplementType
      <4> QED BY <1>1, <4>1, <4>2, ModesHoldBytes
    <3> HIDE DEF ai
    <3> QED BY <2>1, <2>3, <2>4, <2>5, <2>7, <3>1, <3>2, <3>3 DEF CameraOK
  <2> QED BY <1>1, <1>3, <2>6, <2>7, SetDoes
<1>4. CASE c = "white_balance"
  <2> DEFINE auto == WHITE_BALANCE_TEMPERATURE_AUTO
             temp == WHITE_BALANCE_TEMPERATURE
  <2>1. auto # temp /\ Changes(c) = {temp, auto} /\ auto \in DOMAIN camera /\ temp \in DOMAIN camera
    BY <1>2, <1>4, AddressesDiffer DEF Home, Changes, WhiteBalance
  <2>2. /\ a[1] \in {0, 1} /\ Balance(linux, 1 - a[1]) \in Values(linux, auto)
        /\ Temperature(linux, a[2]) \in Values(linux, temp)
    BY <1>1, <1>4, BalanceArguments, BalanceType
  <2>3. new = IF a[1] = 1
              THEN [[camera EXCEPT ![auto] = Balance(linux, 1 - a[1])] EXCEPT ![temp] = Temperature(linux, a[2])]
              ELSE [camera EXCEPT ![auto] = Balance(linux, 1 - a[1])]
    BY <1>1, <1>4, WhiteBalanceDoes DEF BalanceSet
  <2>4. AsAsked(linux, new, c, a) <=> /\ new[auto] = Balance(linux, 1 - a[1])
                                      /\ a[1] = 1 => new[temp] = Temperature(linux, a[2])
    BY <1>4 DEF AsAsked
  <2> HIDE DEF auto, temp
  <2>5. CASE a[1] = 1
    BY <2>1, <2>2, <2>3, <2>4, <2>5 DEF CameraOK
  <2>6. CASE a[1] # 1
    BY <2>1, <2>2, <2>3, <2>4, <2>6 DEF CameraOK
  <2> QED BY <2>5, <2>6
<1>5. CASE c = "face_focus"
  <2>1. Values(linux, XU_SEL_RPC) = Frames
    BY DEF Values, Frames
  <2>2. AsAsked(linux, new, c, a) /\ Changes(c) = {XU_SEL_RPC}
    BY <1>5 DEF AsAsked, Changes
  <2>3. CASE new = camera
    BY <2>2, <2>3 DEF CameraOK
  <2>4. ASSUME NEW v \in {camera[XU_SEL_RPC], FirmwareReply, SerialReply},
               new = [camera EXCEPT ![XU_SEL_RPC] = v]
        PROVE  /\ DOMAIN new = DOMAIN camera
               /\ \A x \in DOMAIN camera : new[x] \in Values(linux, x)
               /\ \A x \in DOMAIN camera \ Changes(c) : new[x] = camera[x]
    <3>1. XU_SEL_RPC \in DOMAIN camera => v \in Values(linux, XU_SEL_RPC)
      BY <2>1, RepliesType DEF CameraOK
    <3> QED BY <2>2, <2>4, <3>1 DEF CameraOK
  <2> QED BY <1>5, <2>2, <2>3, <2>4, FaceFocusDoes
<1> QED BY <1>1, <1>3, <1>4, <1>5 DEF Setters, Controls

-----------------------------------------------------------------------------
(* What is read of what was asked.                                         *)

LEMMA U32OfBytes == \A v \in Int : 0 <= v /\ v \div 65536 <= 65535 => U32(Le4(v)) = v
<1> SUFFICES ASSUME NEW v \in Int, 0 <= v, v \div 65536 <= 65535 PROVE U32(Le4(v)) = v
  OBVIOUS
<1> DEFINE w == v \div 256
           x == v \div 65536
           y == v \div 16777216
<1>1. w \in Int /\ x \in Int /\ y \in Int
  BY SMTT(30)
<1>2. /\ (v % 256) + 256 * w = v
      /\ (w % 256) + 256 * x = w
      /\ (x % 256) + 256 * y = x
  BY <1>1, SMTT(30)
<1>3. 0 <= x /\ x <= 65535
  BY SMTT(30)
<1>4. y = x \div 256
  BY ByteByByte, SMTT(30)
<1>5. U32(Le4(v)) = (v % 256) + 256 * (w % 256) + 65536 * (x % 256) + 16777216 * (y % 256)
  BY SMTT(30) DEF U32, Le4
<1> HIDE DEF w, x, y
<1>6. y % 256 = y
  BY <1>1, <1>3, <1>4, SMTT(30)
<1> QED BY <1>1, <1>2, <1>5, <1>6, SMTT(30)

\* The first byte of what goes as it is.
LEMMA OneByteCarried ==
  ASSUME NEW v4l2 \in BOOLEAN, NEW at, ~is_pantilt(at), at \notin cid_for, NEW b \in Seq(Int), Len(b) >= 1
  PROVE  Carried(v4l2, at, b, 1)[1] = b[1]
<1>1. Carried(v4l2, at, b, 1) = SubSeq(b, 1, 1)
  BY DEF Carried, Fetched, Held
<1>2. SubSeq(b, 0 + 1, 0 + 1)[1] = b[0 + 1]
  BY PartOf
<1> QED BY <1>1, <1>2

\* Both tables of an enumeration, and both of its bytes.
LEMMA EnumerationsDecode ==
  \A c \in DOMAIN decode : \A n \in DOMAIN from_int[c] : \A b :
    b[1] = encode[c][from_int[c][n]][1] => Decode(c, b) = <<n>>
<1> SUFFICES ASSUME NEW c \in DOMAIN decode, NEW n \in DOMAIN from_int[c], NEW b,
                    b[1] = encode[c][from_int[c][n]][1]
             PROVE  Decode(c, b) = <<n>>
  OBVIOUS
<1>1. Decode(c, b) = IF b[1] \in DOMAIN decode[c] THEN <<to_int[c][decode[c][b[1]]]>> ELSE <<>>
  BY DEF Decode, decode, Signed16, Unsigned16, Flags, Focals
<1>2. CASE c = "wdr"
  <2>1. n \in {0, 1} /\ b[1] = n
    BY <1>2 DEF from_int, encode, wdr_from_int, encode_wdr, Numbered, Le1
  <2>2. decode[c] = decode_wdr /\ to_int[c] = wdr_to_int
    BY <1>2 DEF decode, to_int
  <2>3. \A m \in {0, 1} : m \in DOMAIN decode_wdr /\ wdr_to_int[decode_wdr[m]] = m
    BY DEF decode_wdr, wdr_to_int, Numbered
  <2> QED BY <1>1, <2>1, <2>2, <2>3
<1>3. CASE c = "ai_mode"
  <2>1. n \in 0..5 /\ b[1] = n
    BY <1>3 DEF from_int, encode, ai_from_int, encode_ai_mode, Numbered, Le2
  <2>2. decode[c] = decode_ai_mode /\ to_int[c] = ai_mode_to_int
    BY <1>3 DEF decode, to_int
  <2>3. \A m \in 0..5 : m \in DOMAIN decode_ai_mode /\ ai_mode_to_int[decode_ai_mode[m]] = m
    BY DEF decode_ai_mode, ai_mode_to_int, Numbered
  <2> QED BY <1>1, <2>1, <2>2, <2>3
<1>4. CASE c = "anti_flicker"
  <2>1. n \in 0..3 /\ b[1] = n
    BY <1>4 DEF from_int, encode, anti_flicker_from_int, encode_anti_flicker, Numbered, Le1
  <2>2. decode[c] = decode_anti_flicker /\ to_int[c] = anti_flicker_to_int
    BY <1>4 DEF decode, to_int
  <2>3. \A m \in 0..3 : m \in DOMAIN decode_anti_flicker /\ anti_flicker_to_int[decode_anti_flicker[m]] = m
    BY DEF decode_anti_flicker, anti_flicker_to_int, Numbered
  <2> QED BY <1>1, <2>1, <2>2, <2>3
<1>5. CASE c = "ae_mode"
  <2>1. n \in 0..3 /\ b[1] = <<1, 2, 4, 8>>[n + 1]
    BY <1>5 DEF from_int, encode, ae_mode_from_int, encode_ae_mode, Numbered, Le1
  <2>2. decode[c] = decode_ae_mode /\ to_int[c] = ae_mode_to_int
    BY <1>5 DEF decode, to_int
  <2>3. \A m \in 0..3 : <<1, 2, 4, 8>>[m + 1] \in DOMAIN decode_ae_mode /\ ae_mode_to_int[decode_ae_mode[<<1, 2, 4, 8>>[m + 1]]] = m
    BY DEF decode_ae_mode, ae_mode_to_int
  <2> QED BY <1>1, <2>1, <2>2, <2>3
<1> QED BY <1>2, <1>3, <1>4, <1>5 DEF decode

Readings(c, a, out) == out # <<>> /\ Heard(c, a, out)

\* Numbers of two and four bytes, fractions and positions.
LEMMA NumbersHeard ==
  ASSUME NEW v4l2 \in BOOLEAN, NEW c \in Signed16 \cup Unsigned16 \cup Focals \cup {"pan_tilt", "exposure_time"},
         NEW a, Argument(c, a), Accepts(c, a)
  PROVE  Readings(c, a, HeardBack(v4l2, c, a))
<1> USE DEF Heard, Readings, Signed16, Unsigned16, Focals, Flags
<1>0. \A n \in Int : Truncated(n) = TowardZero(n)
  BY DEF Truncated, TowardZero
<1>1. CASE c \in Signed16 \cup Unsigned16
  <2>1. a = <<a[1]>> /\ a[1] \in Int
    BY <1>1, OneArgument
  <2>2. HeardBack(v4l2, c, a) = a
    BY <1>1, <2>1, SignedReadBack, UnsignedReadBack
  <2>3. c \notin Flags /\ c \notin Focals /\ c # "pan_tilt" /\ c # "white_balance"
    BY <1>1
  <2>4. Heard(c, a, a)
    <3> HIDE DEF Flags, Focals
    <3> QED BY <2>3
  <2>5. a # <<>>
    BY <2>1
  <2> HIDE DEF Heard
  <2> QED BY <2>2, <2>4, <2>5
<1>2. CASE c \in Focals
  <2>1. a = <<a[1]>> /\ a[1] \in Int
    BY <1>2, OneArgument
  <2>2. HeardBack(v4l2, c, a) = <<Truncated(a[1]) * Den>>
    BY <1>2, <2>1, FocalsReadBack
  <2>3. Truncated(a[1]) = TowardZero(a[1]) /\ Len(a) = 1
    BY <1>0, <2>1
  <2> QED BY <1>2, <2>2, <2>3
<1>3. CASE c = "pan_tilt"
  <2>1. a[1] \in Int /\ a[2] \in Int
    BY <1>3, TwoArguments
  <2>2. a = <<a[1], a[2]>> /\ Len(a) = 2
    BY <1>3, SMT DEF Argument
  <2>3. HeardBack(v4l2, c, a) = <<Truncated(a[1]) * Den, Truncated(a[2]) * Den>>
    BY <1>3, <2>1, <2>2, PanTiltReadBack
  <2>4. Truncated(a[1]) = TowardZero(a[1]) /\ Truncated(a[2]) = TowardZero(a[2])
    BY <1>0, <2>1
  <2> QED BY <1>3, <2>2, <2>3, <2>4
<1>4. CASE c = "exposure_time"
  <2> DEFINE v == a[1]
             b == Le4(v)
  <2>1. a = <<v>> /\ v \in Int
    BY <1>4, OneArgument
  <2>2. 0 <= v /\ v \div 65536 <= 65535
    BY <1>4, SMT DEF Argument
  <2>3. U32(b) = v
    BY <2>1, <2>2, U32OfBytes, SMT
  <2>4. b \in Seq(Int) /\ Len(b) = 4 /\ SubSeq(b, 1, 4) = b
    <3>1. b = TwosComplement(v, 4)
      BY <2>1, BytesAre
    <3>2. b \in Seq(Int) /\ Len(b) = 4
      BY <2>1, <3>1, TwosComplementType, BytesAreNumbers
    <3> HIDE DEF b
    <3>3. SubSeq(b, 1, 4) = b
      BY <3>2
    <3> QED BY <3>2, <3>3
  <2>5. Address[c] \notin cid_for /\ ~is_pantilt(Address[c]) /\ Width(c) = 4
    <3>1. c \in DOMAIN Address
      BY <1>4 DEF Address, CtAddress, PuAddress, Modes, ModeAddress
    <3> QED BY <1>4, <3>1, AddressesAre DEF Width
  <2>6. Bytes(c, a) = b
    BY <1>4 DEF Bytes, from_int
  <2>7. \A s : Decode(c, s) = <<U32(s)>>
    BY <1>4 DEF Decode, decode
  <2> HIDE DEF b, v
  <2>8. HeardBack(v4l2, c, a) = <<v>>
    BY <2>3, <2>4, <2>5, <2>6, <2>7 DEF HeardBack, Carried, Fetched, Held
  <2> QED BY <1>4, <2>1, <2>8
<1> QED BY <1>1, <1>2, <1>3, <1>4

LEMMA SomeBytes ==
  ASSUME NEW c \in Plain, NEW a, Argument(c, a), Accepts(c, a)
  PROVE  Bytes(c, a) \in Seq(Int) /\ Len(Bytes(c, a)) >= 1
<1> DEFINE b == Bytes(c, a)
<1>1. b \in Seq(u8) /\ Len(b) \in 1..4
  BY ValueBytes
<1> HIDE DEF b
<1>2. b \in Seq(Int) /\ Len(b) >= 1
  BY <1>1, BytesAreNumbers
<1> QED BY <1>2 DEF b

\* Enumerations and switches, from their first byte.
LEMMA FirstByteHeard ==
  ASSUME NEW c \in DOMAIN decode \cup {"auto_focus", "face_ae"}, NEW a, Argument(c, a), Accepts(c, a), NEW b,
         b[1] = Bytes(c, a)[1]
  PROVE  Readings(c, a, Decode(c, b))
<1>1. a = <<a[1]>> /\ a[1] \in Int
  BY OneArgument DEF decode
<1>2. CASE c \in DOMAIN decode
  <2>1. c \in DOMAIN from_int
    BY <1>2 DEF decode, from_int
  <2>2. a[1] \in DOMAIN from_int[c] /\ Bytes(c, a) = encode[c][from_int[c][a[1]]]
    BY <2>1 DEF Accepts, Bytes, Signed16, Unsigned16, Flags, Focals, from_int
  <2>3. Decode(c, b) = a
    BY <1>1, <1>2, <2>2, EnumerationsDecode
  <2>4. c \notin Flags \cup Focals \cup {"pan_tilt", "white_balance"} /\ a # <<>>
    BY <1>1, <1>2 DEF decode, Flags, Focals
  <2> QED BY <2>3, <2>4 DEF Readings, Heard
<1>3. CASE c \in {"auto_focus", "face_ae"}
  <2>1. Bytes(c, a) = Le1(Flag(a[1])) /\ Decode(c, b) = <<Flag(b[1])>>
    BY <1>3 DEF Bytes, Decode, Flags, Signed16, Unsigned16, Focals, from_int, decode
  <2>2. Le1(Flag(a[1]))[1] = IF a[1] = 0 THEN 0 ELSE 1
    BY <1>1 DEF Le1, Flag
  <2>3. Decode(c, b) = <<IF a[1] = 0 THEN 0 ELSE 1>>
    BY <2>1, <2>2 DEF Flag
  <2>4. Heard(c, a, <<IF a[1] = 0 THEN 0 ELSE 1>>)
    BY <1>3 DEF Heard, Flags, Focals
  <2>5. \A x : <<x>> # <<>>
    OBVIOUS
  <2> QED BY <2>3, <2>4, <2>5 DEF Readings
<1> QED BY <1>2, <1>3

\* A getter, when the camera holds what was asked.
LEMMA GetReads ==
  ASSUME instance \in Instances, CameraOK, NEW c \in setters \cap Readable, NEW a, Argument(c, a), Accepts(c, a),
         AsAsked(linux, camera, c, a)
  PROVE  \/ Readings(c, a, Got(c))
         \/ /\ Got(c) = <<>> /\ c \in DOMAIN STATUS_OFFSET
            /\ camera[XU_SEL_MODE_REGISTER] # <<STATUS_BLOB_MARKER>>
<1> DEFINE at == Address[c]
<1>1. linux \in BOOLEAN /\ c \in Setters /\ c # "face_focus"
  BY InstanceIs DEF Readable, Signed16, Unsigned16, Focals, decode
<1>2. \A n : c # "white_balance" => Fetch(at, n) = Carried(linux, at, Bytes(c, a), n)
  BY <1>1 DEF AsAsked, Fetch, Carried, Left
<1>3. CASE c = "white_balance"
  <2> DEFINE bit == 1 - a[1]
             auto == WHITE_BALANCE_TEMPERATURE_AUTO
             temp == WHITE_BALANCE_TEMPERATURE
  <2>1. a[1] \in {0, 1} /\ bit \in {0, 1} /\ a[2] \in Int /\ FitsU16(a[2]) /\ a[1] = IF bit = 0 THEN 1 ELSE 0
    BY <1>3, BalanceArguments
  <2>2. auto \in cid_for /\ temp \in cid_for /\ ~is_pantilt(auto) /\ ~is_pantilt(temp) /\ ~is_signed_2byte(temp)
    BY DEF WHITE_BALANCE_TEMPERATURE, WHITE_BALANCE_TEMPERATURE_AUTO, is_pantilt, cid_for,
           is_signed_2byte, CAMERA_TERMINAL, PROCESSING_UNIT
  <2>3. Fetch(auto, 1) = Carried(linux, auto, Le1(bit), 1)
    BY <1>3 DEF AsAsked, Balance, Fetch, Carried
  <2>4. a[1] = 1 => Fetch(temp, 2) = Carried(linux, temp, Le2(a[2]), 2)
    BY <1>3 DEF AsAsked, Temperature, Fetch, Carried
  <2>5. Carried(linux, auto, Le1(bit), 1)[1] = bit
    <3>1. Held(linux, auto, Le1(bit)) = IF linux THEN <<bit>> ELSE TwosComplement(bit, 1)
      BY <1>1, <2>1, WhiteBalanceLeft
    <3>2. /\ Le4(bit) \in Seq(Int) /\ Len(Le4(bit)) = 4 /\ Le4(bit)[1] = bit
          /\ Le1(bit) \in Seq(Int) /\ Len(Le1(bit)) = 1 /\ Le1(bit)[1] = bit
          /\ TwosComplement(bit, 1) = Le1(bit)
      <4>1. bit \in Int
        BY <2>1
      <4>2. TwosComplement(bit, 4) = Le4(bit) /\ TwosComplement(bit, 1) = Le1(bit)
        BY <4>1, BytesAre
      <4>3. Le4(bit) \in Seq(Int) /\ Len(Le4(bit)) = 4 /\ Le1(bit) \in Seq(Int) /\ Len(Le1(bit)) = 1
        BY <4>1, <4>2, TwosComplementType, BytesAreNumbers
      <4>4. bit % 256 = bit
        BY <2>1
      <4> HIDE DEF bit
      <4> QED BY <4>2, <4>3, <4>4 DEF Le4, Le1
    <3>3. Carried(linux, auto, Le1(bit), 1) = IF linux THEN SubSeq(Le4(bit), 1, 1) ELSE SubSeq(Le1(bit), 1, 1)
      BY <1>1, <2>2, <3>1, <3>2 DEF Carried, Fetched
    <3> HIDE DEF bit, auto
    <3>4. \A s \in Seq(Int) : Len(s) >= 1 => SubSeq(s, 0 + 1, 0 + 1)[1] = s[0 + 1]
      BY PartOf
    <3> QED BY <1>1, <3>2, <3>3, <3>4
  <2>6. a[1] = 1 => U16(Fetch(temp, 2)) = a[2]
    <3>1. U16(Le2(a[2])) = a[2] /\ payload_to_i32(temp, Le2(a[2])) = a[2]
      BY <2>1, <2>2, U16OfBytes, KernelsNumber
    <3> HIDE DEF temp
    <3>2. U16(Carried(linux, temp, Le2(a[2]), 2)) = U16(Le2(a[2]))
      BY <1>1, <2>1, <2>2, <3>1, TwoBytesCarried DEF U16
    <3> QED BY <2>4, <3>1, <3>2
  <2>7. Got(c) = <<IF Fetch(auto, 1)[1] = 0 THEN 1 ELSE 0, U16(Fetch(temp, 2))>>
    BY <1>3 DEF Got, white_balance, STATUS_OFFSET
  <2>8. Fetch(auto, 1)[1] = bit
    BY <2>3, <2>5
  <2> HIDE DEF auto, temp
  <2>9. Heard(c, a, Got(c)) <=> Got(c)[1] = a[1] /\ (a[1] = 1 => Got(c)[2] = a[2])
    BY <1>3 DEF Heard, Flags, Focals
  <2> QED BY <2>1, <2>6, <2>7, <2>8, <2>9 DEF Readings
<1>4. CASE c \in DOMAIN STATUS_OFFSET
  <2>1. c # "white_balance" /\ c \in DOMAIN Address /\ c \in DOMAIN decode \cup {"auto_focus", "face_ae"}
    BY <1>4 DEF STATUS_OFFSET, decode, Address, CtAddress, PuAddress, Modes, ModeAddress
  <2>2. at \in DOMAIN camera
    <3>1. at \in Places(c)
      BY <2>1, PlacesAre
    <3> QED BY <3>1 DEF CameraOK, inUse
  <2>3. Published[STATUS_OFFSET[c]] = at /\ STATUS_OFFSET[c] \in DOMAIN Published /\ STATUS_OFFSET[c] # 0
    BY <1>4 DEF STATUS_OFFSET, Published, Address, CtAddress, PuAddress, Modes, ModeAddress
  <2>4. read_status_blob[STATUS_OFFSET[c]] = Fetch(at, 1)[1]
    <3> HIDE DEF at
    <3> QED BY <2>2, <2>3 DEF read_status_blob
  <2>5. Fetch(at, 1)[1] = Bytes(c, a)[1]
    <3>1. c \in Plain
      BY <1>4, <2>1 DEF Plain, STATUS_OFFSET, Controls
    <3>2. Bytes(c, a) \in Seq(Int) /\ Len(Bytes(c, a)) >= 1
      BY <3>1, SomeBytes
    <3>3. ~is_pantilt(at) /\ at \notin cid_for
      BY <1>4, <2>1, AddressesAre DEF STATUS_OFFSET
    <3> HIDE DEF at
    <3> QED BY <1>1, <1>2, <2>1, <3>2, <3>3, OneByteCarried
  <2>6. Readings(c, a, Decode(c, <<read_status_blob[STATUS_OFFSET[c]]>>))
    BY <2>1, <2>4, <2>5, FirstByteHeard
  <2>7. Got(c) = IF read_status_blob[0] # STATUS_BLOB_MARKER
                 THEN <<>>
                 ELSE Decode(c, <<read_status_blob[STATUS_OFFSET[c]]>>)
    BY <1>4, <2>1 DEF Got
  <2>8. camera[XU_SEL_MODE_REGISTER] = <<STATUS_BLOB_MARKER>> => read_status_blob[0] = STATUS_BLOB_MARKER
    <3>1. XU_SEL_MODE_REGISTER \notin cid_for /\ ~is_pantilt(XU_SEL_MODE_REGISTER)
      BY DEF cid_for, is_pantilt, XU_SEL_MODE_REGISTER, XU_SEL_RPC, WHITE_BALANCE_TEMPERATURE,
         WHITE_BALANCE_TEMPERATURE_AUTO, CAMERA_TERMINAL, PROCESSING_UNIT
    <3>2. read_status_blob[0] = Fetch(XU_SEL_MODE_REGISTER, 1)[1]
      BY DEF read_status_blob
    <3>3. Fetch(XU_SEL_MODE_REGISTER, 1) = SubSeq(camera[XU_SEL_MODE_REGISTER], 1, 1)
      BY <3>1 DEF Fetch, Fetched
    <3>4. <<STATUS_BLOB_MARKER>> \in Seq(Int) /\ Len(<<STATUS_BLOB_MARKER>>) = 1
      BY DEF STATUS_BLOB_MARKER
    <3>5. SubSeq(<<STATUS_BLOB_MARKER>>, 0 + 1, 0 + 1)[1] = <<STATUS_BLOB_MARKER>>[0 + 1]
      BY <3>4, PartOf
    <3> QED BY <3>2, <3>3, <3>5
  <2> QED BY <1>4, <2>6, <2>7, <2>8
<1>5. CASE c # "white_balance" /\ c \notin DOMAIN STATUS_OFFSET
  <2>1. Got(c) = HeardBack(linux, c, a)
    BY <1>2, <1>5 DEF Got, HeardBack
  <2>2. CASE c \in Signed16 \cup Unsigned16 \cup Focals \cup {"pan_tilt", "exposure_time"}
    BY <1>1, <2>1, <2>2, NumbersHeard
  <2>3. CASE c \in {"auto_focus", "anti_flicker", "ae_mode"}
    <3>1. c \in DOMAIN Address /\ c \in DOMAIN decode \cup {"auto_focus", "face_ae"} /\ Width(c) = 1
      BY <2>3 DEF decode, Address, CtAddress, PuAddress, Modes, ModeAddress, Width
    <3>2. c \in Plain
      BY <2>3, <3>1 DEF Plain, Controls
    <3>3. Bytes(c, a) \in Seq(Int) /\ Len(Bytes(c, a)) >= 1
      BY <3>2, SomeBytes
    <3>4. ~is_pantilt(at) /\ at \notin cid_for
      BY <2>3, <3>1, AddressesAre
    <3> HIDE DEF at
    <3>5. Carried(linux, at, Bytes(c, a), 1)[1] = Bytes(c, a)[1]
      BY <1>1, <3>3, <3>4, OneByteCarried
    <3> QED BY <2>1, <3>1, <3>5, FirstByteHeard DEF HeardBack, at
  <2> QED BY <1>5, <2>2, <2>3 DEF Readable, decode, STATUS_OFFSET
<1> QED BY <1>3, <1>4, <1>5

-----------------------------------------------------------------------------
(* The camera and what was asked of it, in every state.                    *)

AskedOK ==
  \A c \in setters : asked[c] # <<>> => asked[c] \in instance.args[c] /\ Accepts(c, asked[c])
KeptOK == \A c \in setters : asked[c] # <<>> => AsAsked(linux, camera, c, asked[c])
Core == instance \in Instances /\ CameraOK /\ AskedOK /\ KeptOK

LEMMA InitiallyType ==
  ASSUME NEW at, linux \in BOOLEAN
  PROVE  Initially(at) \in Values(linux, at)
<1> DEFINE zeros == [i \in 1..8 |-> 0]
<1>1. CASE at = XU_SEL_RPC
  <2>1. Zeros \in [0..(RPC_FRAME_LEN - 1) -> u8]
    BY DEF Zeros, u8
  <2>2. Initially(at) = Zeros
    BY <1>1, AddressesDiffer DEF Initially
  <2> QED BY <1>1, <2>1, <2>2 DEF Values
<1>2. CASE at = XU_SEL_MODE_REGISTER
  <2>1. <<STATUS_BLOB_MARKER>> \in Seq(u8)
    BY DEF STATUS_BLOB_MARKER, u8
  <2> QED BY <1>2, <2>1, AddressesDiffer, ModesHoldBytes DEF Initially
<1>3. CASE at \notin {XU_SEL_RPC, XU_SEL_MODE_REGISTER}
  <2>1. Initially(at) = Held(linux, at, zeros)
    BY <1>3 DEF Initially
  <2>2. zeros \in Seq(u8) /\ Len(zeros) = 8
    BY DEF u8
  <2>3. \A i \in 1..8 : zeros[i] = 0
    OBVIOUS
  <2> HIDE DEF zeros
  <2>4. payload_to_i32(at, zeros) = 0
    BY <2>2 DEF payload_to_i32
  <2>5. I32(zeros) \in Int
    BY <2>3, SMT DEF I32, SignedByte
  <2>6. I32(SubSeq(zeros, 5, 8)) \in Int
    <3> DEFINE s == SubSeq(zeros, 5, 8)
    <3>1. s[1] = 0 /\ s[2] = 0 /\ s[3] = 0 /\ s[4] = 0
      BY <2>2, <2>3
    <3> HIDE DEF s
    <3>2. I32(s) \in Int
      BY <3>1, SMT DEF I32, SignedByte
    <3> QED BY <3>2 DEF s
  <2>7. /\ <<I32(zeros), I32(SubSeq(zeros, 5, 8))>> \in Seq(Int)
        /\ <<payload_to_i32(at, zeros)>> \in Seq(Int)
    BY <2>4, <2>5, <2>6
  <2>8. Values(linux, at) = IF linux /\ (is_pantilt(at) \/ at \in cid_for) THEN Seq(Int) ELSE Seq(u8)
    BY <1>3 DEF Values
  <2> QED BY <2>1, <2>2, <2>7, <2>8 DEF Held
<1> QED BY <1>1, <1>2, <1>3

LEMMA CoreInit == Init => Core
<1> SUFFICES ASSUME Init PROVE Core
  OBVIOUS
<1>1. instance \in Instances
  BY DEF Init
<1>2. linux \in BOOLEAN
  BY <1>1, InstanceIs
<1>3. CameraOK
  BY <1>2, InitiallyType DEF Init, CameraOK
<1>4. AskedOK /\ KeptOK
  BY DEF Init, AskedOK, KeptOK
<1> QED BY <1>1, <1>3, <1>4 DEF Core

\* What is forgotten, and what is not.
LEMMA Forgotten ==
  \A cs : \A d \in setters : Forget(cs)[d] = IF d \in cs THEN <<>> ELSE asked[d]
BY DEF Forget

\* A setter that answers OBSBOT_OK.
LEMMA CoreAsked ==
  ASSUME Core, NEW c \in setters, NEW a \in instance.args[c], Accepts(c, a), UNCHANGED instance,
         camera' \in AfterSets(Sets(c, a)), asked' = [Forget(Group(c)) EXCEPT ![c] = a]
  PROVE  Core'
<1>1. /\ DOMAIN camera' = DOMAIN camera
      /\ \A at \in DOMAIN camera : camera'[at] \in Values(linux, at)
      /\ \A at \in DOMAIN camera \ Changes(c) : camera'[at] = camera[at]
      /\ AsAsked(linux, camera', c, a)
  BY SetChanges DEF Core
<1>2. instance' \in Instances /\ linux' = linux /\ setters' = setters /\ inUse' = inUse
  BY DEF Core, linux, setters, inUse
<1>3. CameraOK'
  BY <1>1, <1>2 DEF CameraOK, Core
<1>4. \A d \in setters : asked'[d] = IF d = c THEN a ELSE IF d \in Group(c) THEN <<>> ELSE asked[d]
  <2>1. DOMAIN Forget(Group(c)) = setters
    BY DEF Forget
  <2> QED BY <2>1, Forgotten
<1>5. AskedOK'
  BY <1>2, <1>4 DEF AskedOK, Core
<1>6. ASSUME NEW d \in setters, asked'[d] # <<>>
      PROVE  AsAsked(linux, camera', d, asked'[d])
  <2>1. CASE d = c
    BY <1>1, <1>4, <2>1
  <2>2. CASE d # c
    <3>1. d \notin Group(c) /\ asked'[d] = asked[d]
      BY <1>4, <1>6, <2>2
    <3>2. c \in Setters /\ d \in Setters
      BY InstanceIs DEF Core
    <3>3. \A at \in Home(d) : camera'[at] = camera[at]
      <4>1. Home(d) \subseteq DOMAIN camera
        BY <3>2, HomesInPlaces DEF Core, CameraOK, inUse
      <4> QED BY <1>1, <3>1, <3>2, <4>1, HomesApart
    <3>4. AsAsked(linux, camera, d, asked[d])
      BY <1>6, <3>1 DEF Core, KeptOK
    <3> QED BY <3>1, <3>2, <3>3, <3>4, SeenAtHome
  <2> QED BY <2>1, <2>2
<1>7. KeptOK'
  BY <1>2, <1>6 DEF KeptOK
<1> QED BY <1>2, <1>3, <1>5, <1>7 DEF Core

\* Any other step: what is not forgotten is not touched.
LEMMA CoreForgets ==
  ASSUME Core, UNCHANGED instance,
         DOMAIN camera' = DOMAIN camera,
         \A at \in DOMAIN camera : camera'[at] \in Values(linux, at),
         \A d \in setters : asked'[d] # <<>> =>
           asked'[d] = asked[d] /\ \A at \in Home(d) \cap DOMAIN camera : camera'[at] = camera[at]
  PROVE  Core'
<1>1. instance' \in Instances /\ linux' = linux /\ setters' = setters /\ inUse' = inUse
  BY DEF Core, linux, setters, inUse
<1>2. CameraOK'
  BY <1>1 DEF CameraOK, Core
<1>3. AskedOK'
  BY <1>1 DEF AskedOK, Core
<1>4. ASSUME NEW d \in setters, asked'[d] # <<>>
      PROVE  AsAsked(linux, camera', d, asked'[d])
  <2>1. d \in Setters
    BY InstanceIs DEF Core
  <2>2. Home(d) \subseteq DOMAIN camera
    BY <2>1, HomesInPlaces DEF Core, CameraOK, inUse
  <2>3. \A at \in Home(d) : camera'[at] = camera[at]
    BY <1>4, <2>2
  <2>4. asked'[d] = asked[d] /\ AsAsked(linux, camera, d, asked[d])
    BY <1>4 DEF Core, KeptOK
  <2> QED BY <2>1, <2>3, <2>4, SeenAtHome
<1>5. KeptOK'
  BY <1>1, <1>4 DEF KeptOK
<1> QED BY <1>1, <1>2, <1>3, <1>5 DEF Core

LEMMA CoreSame == Core /\ UNCHANGED <<instance, camera, asked>> => Core'
<1> SUFFICES ASSUME Core, UNCHANGED <<instance, camera, asked>> PROVE Core'
  OBVIOUS
<1>1. \A at \in DOMAIN camera : camera[at] \in Values(linux, at)
  BY DEF Core, CameraOK
<1> QED BY <1>1, CoreForgets

\* The RPC buffer is no control's.
SaveForFrames(cam) ==
  /\ DOMAIN cam = DOMAIN camera
  /\ \A at \in DOMAIN camera : cam[at] \in Values(linux, at)
  /\ \A at \in DOMAIN camera \ {XU_SEL_RPC} : cam[at] = camera[at]

LEMMA FrameKeeps ==
  ASSUME NEW cam, SaveForFrames(cam), NEW frame, NEW new \in AfterSet(cam, XU_SEL_RPC, frame)
  PROVE  SaveForFrames(new)
<1>1. Values(linux, XU_SEL_RPC) = Frames
  BY DEF Values, Frames
<1>2. CASE new = cam
  BY <1>2
<1>3. ASSUME NEW v \in {cam[XU_SEL_RPC], FirmwareReply, SerialReply}, new = [cam EXCEPT ![XU_SEL_RPC] = v]
      PROVE  SaveForFrames(new)
  <2>1. XU_SEL_RPC \in DOMAIN camera => v \in Values(linux, XU_SEL_RPC)
    BY <1>1, RepliesType DEF SaveForFrames
  <2> QED BY <1>3, <2>1 DEF SaveForFrames
<1> QED BY <1>2, <1>3, FrameDoes

LEMMA CoreFrames ==
  ASSUME Core, UNCHANGED <<instance, asked>>, SaveForFrames(camera')
  PROVE  Core'
<1>2. /\ DOMAIN camera' = DOMAIN camera
      /\ \A at \in DOMAIN camera : camera'[at] \in Values(linux, at)
      /\ \A at \in DOMAIN camera \ {XU_SEL_RPC} : camera'[at] = camera[at]
  BY DEF SaveForFrames
<1>3. \A d \in setters : XU_SEL_RPC \notin Home(d)
  <2>1. setters \subseteq Setters
    BY InstanceIs DEF Core
  <2>2. \A d \in Setters : XU_SEL_RPC \notin Home(d)
    <3>1. \A d \in DOMAIN Address : Address[d] # XU_SEL_RPC
      BY AddressesDiffer
    <3>2. XU_SEL_RPC \notin WhiteBalance
      BY AddressesDiffer
    <3> QED BY <3>1, <3>2 DEF Home, Setters, Controls
  <2> QED BY <2>1, <2>2
<1>4. \A d \in setters : asked'[d] # <<>> =>
        asked'[d] = asked[d] /\ \A at \in Home(d) \cap DOMAIN camera : camera'[at] = camera[at]
  BY <1>2, <1>3
<1> QED BY <1>2, <1>4, CoreForgets

LEMMA CoreSet ==
  ASSUME Core, NEW c \in setters, NEW a \in instance.args[c], set(c, a)
  PROVE  Core'
<1>1. UNCHANGED instance
  BY DEF set
<1>2. CASE UNCHANGED <<camera, asked>>
  BY <1>1, <1>2, CoreSame
<1>3. CASE /\ Accepts(c, a) /\ camera' \in AfterSets(Sets(c, a))
           /\ asked' = [Forget(Group(c)) EXCEPT ![c] = a]
  BY <1>1, <1>3, CoreAsked
<1>4. CASE /\ \E done \in 0..(Len(Sets(c, a)) - 1) : camera' \in AfterSets(SubSeq(Sets(c, a), 1, done))
           /\ asked' = Forget(Group(c))
  <2> DEFINE auto == WHITE_BALANCE_TEMPERATURE_AUTO
             v == Held(linux, auto, Le1(0))
  <2>1. c \in Setters /\ linux \in BOOLEAN
    BY InstanceIs DEF Core
  <2>2. \/ camera' = camera
        \/ c = "white_balance" /\ camera' = [camera EXCEPT ![auto] = v]
    BY <1>4, <2>1, PartOfASet
  <2>3. CASE camera' = camera
    <3>1. \A at \in DOMAIN camera : camera'[at] \in Values(linux, at)
      BY <2>3 DEF Core, CameraOK
    <3>2. \A d \in setters : asked'[d] # <<>> => asked'[d] = asked[d]
      BY <1>4, Forgotten
    <3> QED BY <1>1, <2>3, <3>1, <3>2, CoreForgets
  <2>4. CASE c = "white_balance" /\ camera' = [camera EXCEPT ![auto] = v]
    <3>1. v \in Values(linux, auto)
      BY <2>1, BalanceType DEF Balance
    <3> HIDE DEF v
    <3>2. /\ DOMAIN camera' = DOMAIN camera
          /\ \A at \in DOMAIN camera : camera'[at] \in Values(linux, at)
          /\ \A at \in DOMAIN camera \ {auto} : camera'[at] = camera[at]
      BY <2>4, <3>1 DEF Core, CameraOK
    <3>3. \A d \in setters : d \notin Group(c) => Home(d) \cap {auto} = {}
      <4>1. \A d \in setters : d \notin Group(c) => Home(d) \cap Changes(c) = {}
        BY <2>1, InstanceIs, HomesApart DEF Core
      <4>2. auto \in Changes(c)
        BY <2>4 DEF Changes, WhiteBalance
      <4> QED BY <4>1, <4>2
    <3>4. \A d \in setters : asked'[d] # <<>> => d \notin Group(c) /\ asked'[d] = asked[d]
      BY <1>4, Forgotten
    <3>5. \A d \in setters : asked'[d] # <<>> =>
            asked'[d] = asked[d] /\ \A at \in Home(d) \cap DOMAIN camera : camera'[at] = camera[at]
      BY <3>2, <3>3, <3>4
    <3> QED BY <1>1, <3>2, <3>5, CoreForgets
  <2> QED BY <2>2, <2>3, <2>4
<1> QED BY <1>2, <1>3, <1>4 DEF set, TurnedDown

LEMMA CoreChanged ==
  ASSUME Core, NEW at \in instance.others, Changed(at)
  PROVE  Core'
<1> DEFINE cs == UNION {Group(c) : c \in {d \in setters \ {"face_focus"} : at \in Places(d)}}
<1>1. PICK v \in Contents[<<linux, at>>] : camera' = [camera EXCEPT ![at] = v]
  BY DEF Changed
<1>2. v \in Values(linux, at)
  <2>1. <<linux, at>> \in DOMAIN Contents
    BY InstanceIs DEF Core
  <2>2. Contents[<<linux, at>>] \subseteq Values(<<linux, at>>[1], <<linux, at>>[2])
    BY <2>1, FfiAssumption
  <2> QED BY <1>1, <2>2
<1>3. /\ DOMAIN camera' = DOMAIN camera
      /\ \A x \in DOMAIN camera : camera'[x] \in Values(linux, x)
      /\ \A x \in DOMAIN camera \ {at} : camera'[x] = camera[x]
  BY <1>1, <1>2 DEF Core, CameraOK
<1>4. \A d \in setters : Home(d) \cap {at} # {} => d \in cs
  <2> SUFFICES ASSUME NEW d \in setters, at \in Home(d) PROVE d \in cs
    OBVIOUS
  <2>1. d \in Setters /\ d # "face_focus"
    BY InstanceIs DEF Core, Home
  <2>2. at \in Places(d)
    BY <2>1, HomesInPlaces
  <2>3. d \in Group(d)
    BY DEF Group
  <2> QED BY <2>1, <2>2, <2>3
<1>5. UNCHANGED instance /\ asked' = Forget(cs)
  BY DEF Changed
<1> HIDE DEF cs
<1>6. \A d \in setters : asked'[d] # <<>> =>
        asked'[d] = asked[d] /\ \A x \in Home(d) \cap DOMAIN camera : camera'[x] = camera[x]
  <2>1. \A d \in setters : asked'[d] # <<>> => d \notin cs /\ asked'[d] = asked[d]
    BY <1>5, Forgotten
  <2> QED BY <1>3, <1>4, <2>1
<1> QED BY <1>3, <1>5, <1>6, CoreForgets

LEMMA CoreNext == Core /\ [Next]_vars => Core'
<1> SUFFICES ASSUME Core, [Next]_vars PROVE Core'
  OBVIOUS
<1>1. CASE UNCHANGED <<instance, camera, asked>>
  BY <1>1, CoreSame
<1>2. ASSUME NEW c \in setters, NEW a \in instance.args[c], set(c, a) PROVE Core'
  BY <1>2, CoreSet
<1>3. ASSUME NEW at \in instance.others, Changed(at) PROVE Core'
  BY <1>3, CoreChanged
<1>4. SaveForFrames(camera)
  BY DEF SaveForFrames, Core, CameraOK
<1>5. ASSUME NEW t, NEW outNull \in BOOLEAN, NEW room, copy_string_out(t, outNull, room)
      PROVE  Core'
  <2>1. UNCHANGED <<instance, asked>>
    BY <1>5 DEF copy_string_out
  <2>2. UNCHANGED camera \/ camera' \in AfterSet(camera, XU_SEL_RPC, Request(t))
    BY <1>5 DEF copy_string_out
  <2> QED BY <1>1, <1>4, <2>1, <2>2, FrameKeeps, CoreFrames
<1>6. ASSUME NEW outNull \in BOOLEAN, obsbot_device_status(outNull)
      PROVE  Core'
  <2>1. UNCHANGED <<instance, asked>>
    BY <1>6 DEF obsbot_device_status
  <2>2. \/ UNCHANGED camera
        \/ \E after \in AfterSet(camera, XU_SEL_RPC, Request("firmware")) :
             camera' \in AfterSet(after, XU_SEL_RPC, Request("serial"))
    BY <1>6 DEF obsbot_device_status
  <2>3. CASE UNCHANGED camera
    BY <1>1, <2>1, <2>3
  <2>4. ASSUME NEW after \in AfterSet(camera, XU_SEL_RPC, Request("firmware")),
               camera' \in AfterSet(after, XU_SEL_RPC, Request("serial"))
        PROVE  Core'
    <3>1. SaveForFrames(after)
      BY <1>4, FrameKeeps
    <3>2. SaveForFrames(camera')
      BY <2>4, <3>1, FrameKeeps
    <3> QED BY <2>1, <3>2, CoreFrames
  <2> QED BY <2>2, <2>3, <2>4
<1>7. obsbot_devices_new \/ obsbot_devices_free \/ obsbot_devices_open_first \/ obsbot_device_close \/ Sent => Core'
  BY <1>1 DEF obsbot_devices_new, obsbot_devices_free, obsbot_devices_open_first, obsbot_device_close, Sent
<1>8. \A n : obsbot_device_set_status_cadence(n) => Core'
  BY <1>1 DEF obsbot_device_set_status_cadence
<1>9. \A c, outNull : get(c, outNull) => Core'
  BY <1>1 DEF get
<1>10. \A outNull : obsbot_devices_poll_event(outNull) => Core'
  BY <1>1 DEF obsbot_devices_poll_event
<1>11. CASE UNCHANGED vars
  BY <1>1, <1>11 DEF vars
<1> QED BY <1>2, <1>3, <1>5, <1>6, <1>7, <1>8, <1>9, <1>10, <1>11 DEF Next

LEMMA CoreHolds == Core => CameraHoldsWhatWasAsked
<1> SUFFICES ASSUME Core, NEW c \in setters, asked[c] # <<>>
             PROVE  Holds(linux, camera, c, asked[c])
  BY DEF CameraHoldsWhatWasAsked
<1>1. linux \in BOOLEAN /\ c \in Setters /\ Argument(c, asked[c]) /\ Accepts(c, asked[c])
  BY InstanceIs DEF Core, AskedOK
<1>2. AsAsked(linux, camera, c, asked[c])
  BY DEF Core, KeptOK
<1> QED BY <1>1, <1>2, HoldsIs

\* For every instance: as long as nobody else touches the camera, it holds at each
\* control's own address what its setter last answered OBSBOT_OK for, in the number
\* or the bytes that are its, whatever other setters, getters and texts are called,
\* whatever of them fails and on which route.
THEOREM CameraIsAsAsked == Spec => []CameraHoldsWhatWasAsked
<1>1. Init => Core
  BY CoreInit
<1>2. Core /\ [Next]_vars => Core'
  BY CoreNext
<1>3. Core => CameraHoldsWhatWasAsked
  BY CoreHolds
<1> QED BY <1>1, <1>2, <1>3, PTL DEF Spec

-----------------------------------------------------------------------------
(* What a getter answers, while that is so.                                *)

\* ReadsBack of a call.
Truthful(last, setting, cam) ==
  /\ last.rc = "OK" => Heard(last.of, setting, last.out)
  /\ last.rc = "BAD_RESPONSE" => /\ last.of \in DOMAIN STATUS_OFFSET
                                 /\ cam[XU_SEL_MODE_REGISTER] # <<STATUS_BLOB_MARKER>>

LEMMA ReadsBackIs ==
  ReadsBack <=> (call.fn = "get" /\ call.of \in setters /\ asked[call.of] # <<>> =>
                   Truthful(call, asked[call.of], camera))
BY DEF ReadsBack, Truthful

LEMMA GetIsTruthful ==
  ASSUME Core, NEW c \in setters \cap Readable, NEW outNull \in BOOLEAN, get(c, outNull), asked[c] # <<>>
  PROVE  Truthful(call', asked[c], camera) /\ call'.of = c
<1>1. Argument(c, asked[c]) /\ Accepts(c, asked[c]) /\ AsAsked(linux, camera, c, asked[c])
  BY InstanceIs DEF Core, AskedOK, KeptOK
<1>2. \/ Readings(c, asked[c], Got(c))
      \/ /\ Got(c) = <<>> /\ c \in DOMAIN STATUS_OFFSET
         /\ camera[XU_SEL_MODE_REGISTER] # <<STATUS_BLOB_MARKER>>
  BY <1>1, GetReads DEF Core
<1>3. CASE \E rc \in {"NOT_FOUND", "USB"} : call' = Returned("get", c, rc, <<>>)
  BY <1>3, ReturnedIs DEF Truthful
<1>4. CASE call' = IF Got(c) = <<>> THEN Returned("get", c, "BAD_RESPONSE", <<>>)
                                    ELSE Returned("get", c, "OK", Got(c))
  BY <1>2, <1>4, ReturnedIs DEF Truthful, Readings
<1> QED BY <1>3, <1>4 DEF get

LEMMA ChangedIsTruthful ==
  ASSUME Core, ReadsBack, NEW at \in instance.others, Changed(at)
  PROVE  ReadsBack'
<1> DEFINE c == call.of
<1>1. UNCHANGED <<instance, call>>
  BY DEF Changed
<1> SUFFICES ASSUME call.fn = "get", c \in setters, asked'[c] # <<>>
             PROVE  Truthful(call, asked'[c], camera')
  BY <1>1 DEF ReadsBack, Truthful, setters
<1>2. c \in Setters /\ c \notin UNION {Group(d) : d \in {e \in setters \ {"face_focus"} : at \in Places(e)}}
  BY Forgotten, InstanceIs DEF Changed, Core
<1>3. asked'[c] = asked[c]
  BY <1>2, Forgotten DEF Changed
<1>4. Truthful(call, asked[c], camera)
  BY <1>3, ReadsBackIs
<1>5. c \in DOMAIN STATUS_OFFSET => camera'[XU_SEL_MODE_REGISTER] = camera[XU_SEL_MODE_REGISTER]
  <2> SUFFICES ASSUME c \in DOMAIN STATUS_OFFSET
               PROVE  camera'[XU_SEL_MODE_REGISTER] = camera[XU_SEL_MODE_REGISTER]
    OBVIOUS
  <2>1. c \in DOMAIN Address /\ c # "face_focus"
    BY DEF STATUS_OFFSET, Address, CtAddress, PuAddress, Modes, ModeAddress
  <2>2. XU_SEL_MODE_REGISTER \in Places(c) /\ c \in Group(c)
    BY <2>1, PlacesAre DEF Group
  <2>3. XU_SEL_MODE_REGISTER \in DOMAIN camera
    BY <2>2 DEF Core, CameraOK, inUse
  <2>4. at # XU_SEL_MODE_REGISTER
    BY <1>2, <2>1, <2>2
  <2> QED BY <2>3, <2>4 DEF Changed
<1> QED BY <1>3, <1>4, <1>5 DEF Truthful

\* The function and the result of every call.
Results == {"OK", "USB", "NOT_FOUND", "TIMEOUT", "OUT_OF_RANGE", "FIRMWARE", "BAD_RESPONSE"}
Call(fns) == call'.fn \in fns /\ call'.rc \in Results

LEMMA CallsAre ==
  /\ obsbot_devices_new \/ obsbot_devices_free \/ obsbot_devices_open_first \/ obsbot_device_close =>
       Call({"new", "free", "open", "close"})
  /\ \A n : obsbot_device_set_status_cadence(n) => Call({"cadence"})
  /\ \A c, a : set(c, a) => Call({"set"})
  /\ \A c, outNull : get(c, outNull) => Call({"get"})
  /\ \A t, outNull, room : copy_string_out(t, outNull, room) => Call({"text"})
  /\ \A outNull : obsbot_device_status(outNull) => Call({"status"})
  /\ \A outNull : obsbot_devices_poll_event(outNull) => Call({"poll_event"})
<1> USE DEF Call, Results
<1>1. obsbot_devices_new \/ obsbot_devices_free \/ obsbot_devices_open_first \/ obsbot_device_close =>
        Call({"new", "free", "open", "close"})
  BY ReturnedIs DEF obsbot_devices_new, obsbot_devices_free, obsbot_devices_open_first, obsbot_device_close
<1>2. ASSUME NEW n, obsbot_device_set_status_cadence(n) PROVE Call({"cadence"})
  BY <1>2, ReturnedIs DEF obsbot_device_set_status_cadence
<1>3. ASSUME NEW c, NEW a, set(c, a) PROVE Call({"set"})
  <2>1. \/ \E rc \in Results : call' = Returned("set", c, rc, <<>>)
        \/ \E s : call' = [Returned("set", c, "OK", <<>>) EXCEPT !.sent = s]
    BY <1>3 DEF set
  <2>2. ASSUME NEW s, call' = [Returned("set", c, "OK", <<>>) EXCEPT !.sent = s]
        PROVE  call'.fn = "set" /\ call'.rc = "OK"
    BY <2>2 DEF Returned, NoCall
  <2> QED BY <2>1, <2>2, ReturnedIs
<1>4. ASSUME NEW c, NEW outNull, get(c, outNull) PROVE Call({"get"})
  BY <1>4, ReturnedIs DEF get
<1>5. ASSUME NEW t, NEW outNull, NEW room, copy_string_out(t, outNull, room) PROVE Call({"text"})
  <2>1. CASE \E rc \in Results : call' = Returned("text", t, rc, <<>>)
    BY <2>1, ReturnedIs
  <2>2. CASE ~(\E rc \in Results : call' = Returned("text", t, rc, <<>>))
    <3> DEFINE text == Decoded(t, camera'[XU_SEL_RPC])
               done == IF text = <<>>
                       THEN [rc |-> "BAD_RESPONSE", out |-> <<>>, written |-> 0]
                       ELSE Copy(t, text[1], room)
    <3>1. call' = [NoCall EXCEPT !.fn = "text", !.of = t, !.rc = done.rc, !.out = done.out,
                                 !.room = room, !.written = done.written, !.sent = Request(t)]
      BY <1>5, <2>2 DEF copy_string_out
    <3>2. done.rc \in Results
      BY DEF Copy
    <3> HIDE DEF done
    <3>3. call'.fn = "text" /\ call'.rc = done.rc
      BY <3>1 DEF NoCall
    <3> QED BY <3>2, <3>3
  <2> QED BY <2>1, <2>2
<1>6. ASSUME NEW outNull, obsbot_device_status(outNull) PROVE Call({"status"})
  <2>1. \E rc \in Results : \E out : call' = Returned("status", "none", rc, out)
    BY <1>6 DEF obsbot_device_status
  <2> QED BY <2>1, ReturnedIs
<1>7. ASSUME NEW outNull, obsbot_devices_poll_event(outNull) PROVE Call({"poll_event"})
  <2>1. \/ \E rc \in Results : call' = Returned("poll_event", "none", rc, <<>>)
        \/ \E out, n : call' = [Returned("poll_event", "none", "OK", out) EXCEPT
                                  !.room = OBSBOT_STR_MAX, !.written = n]
    BY <1>7 DEF obsbot_devices_poll_event
  <2>2. ASSUME NEW out, NEW n, call' = [Returned("poll_event", "none", "OK", out) EXCEPT
                                          !.room = OBSBOT_STR_MAX, !.written = n]
        PROVE  call'.fn = "poll_event" /\ call'.rc = "OK"
    BY <2>2 DEF Returned, NoCall
  <2>3. CASE \E rc \in Results : call' = Returned("poll_event", "none", rc, <<>>)
    BY <2>3, ReturnedIs
  <2>4. CASE \E out, n : call' = [Returned("poll_event", "none", "OK", out) EXCEPT
                                    !.room = OBSBOT_STR_MAX, !.written = n]
    BY <2>2, <2>4
  <2> QED BY <2>1, <2>3, <2>4
<1> HIDE DEF Call, Results
<1> QED BY <1>1, <1>2, <1>3, <1>4, <1>5, <1>6, <1>7

LEMMA NextIsTruthful == Core /\ ReadsBack /\ [Next]_vars => ReadsBack'
<1> SUFFICES ASSUME Core, ReadsBack, [Next]_vars PROVE ReadsBack'
  OBVIOUS
<1>1. CASE UNCHANGED <<instance, camera, asked, call>>
  BY <1>1 DEF ReadsBack, setters
<1>2. CASE call'.fn # "get"
  BY <1>2 DEF ReadsBack
<1>3. ASSUME NEW at \in instance.others, Changed(at) PROVE ReadsBack'
  BY <1>3, ChangedIsTruthful
<1>4. ASSUME NEW c \in instance.gets \ Texts, NEW outNull \in BOOLEAN, get(c, outNull)
      PROVE  ReadsBack'
  <2>1. UNCHANGED <<instance, camera, asked>> /\ call'.of = c
    BY <1>4, ReturnedIs DEF get
  <2>2. c \in Readable
    BY InstanceIs DEF Core
  <2>3. c \in setters /\ asked[c] # <<>> => Truthful(call', asked[c], camera)
    BY <1>4, <2>2, GetIsTruthful
  <2> QED BY <2>1, <2>3 DEF ReadsBack, Truthful, setters
<1>5. CASE \/ obsbot_devices_new \/ obsbot_devices_free
           \/ obsbot_devices_open_first \/ obsbot_device_close
           \/ (\E n \in -1..2 : obsbot_device_set_status_cadence(n))
           \/ (\E c \in setters : \E a \in instance.args[c] : set(c, a))
           \/ (\E t \in instance.gets \cap Texts, outNull \in BOOLEAN, room \in Rooms :
                 copy_string_out(t, outNull, room))
           \/ (\E outNull \in BOOLEAN : obsbot_device_status(outNull) \/ obsbot_devices_poll_event(outNull))
  BY <1>2, <1>5, CallsAre DEF Call
<1>6. Sent => UNCHANGED <<instance, camera, asked, call>>
  BY DEF Sent
<1>7. CASE UNCHANGED vars
  BY <1>1, <1>7 DEF vars
<1> QED BY <1>1, <1>3, <1>4, <1>5, <1>6, <1>7 DEF Next

\* For every instance: a getter that answers OBSBOT_OK gives back, in its setter's
\* own encoding, what the setter was last called with, unless others changed it; and
\* it says OBSBOT_ERR_BAD_RESPONSE then only of a status blob without its marker.
THEOREM GettersReadBack == Spec => []ReadsBack
<1>1. Init => Core /\ ReadsBack
  <2>1. Init => ReadsBack
    BY DEF Init, ReadsBack, NoCall
  <2> QED BY <2>1, CoreInit
<1>2. Core /\ ReadsBack /\ [Next]_vars => Core' /\ ReadsBack'
  BY CoreNext, NextIsTruthful
<1> QED BY <1>1, <1>2, PTL DEF Spec

-----------------------------------------------------------------------------
(* The type invariant.  What is queued goes with the registry, and one     *)
(* thing is queued at a time.                                              *)

HandlesOK ==
  /\ registry \in {"null", "live"}
  /\ device \in {"null", "live"}
  /\ queue = <<>> \/ (registry = "live" /\ \E event : queue = <<event>>)
  /\ call.rc \in Results

LEMMA HandlesStay == HandlesOK /\ [Next]_vars => HandlesOK'
<1> SUFFICES ASSUME HandlesOK, [Next]_vars PROVE HandlesOK'
  OBVIOUS
<1>1. CASE \/ obsbot_devices_new \/ obsbot_devices_free
           \/ obsbot_devices_open_first \/ obsbot_device_close
  <2>1. call'.rc \in Results
    BY <1>1, CallsAre DEF Call
  <2> QED BY <1>1, <2>1 DEF HandlesOK, obsbot_devices_new, obsbot_devices_free,
                           obsbot_devices_open_first, obsbot_device_close
<1>2. CASE (\E n \in -1..2 : obsbot_device_set_status_cadence(n))
  BY <1>2, CallsAre DEF HandlesOK, Call, obsbot_device_set_status_cadence
<1>3. CASE (\E c \in setters : \E a \in instance.args[c] : set(c, a))
  BY <1>3, CallsAre DEF HandlesOK, Call, set
<1>4. CASE (\E c \in instance.gets \ Texts, outNull \in BOOLEAN : get(c, outNull))
  BY <1>4, CallsAre DEF HandlesOK, Call, get
<1>5. CASE (\E t \in instance.gets \cap Texts, outNull \in BOOLEAN, room \in Rooms :
              copy_string_out(t, outNull, room))
  <2>1. call'.rc \in Results
    BY <1>5, CallsAre DEF Call
  <2> QED BY <1>5, <2>1 DEF HandlesOK, copy_string_out
<1>6. CASE (\E outNull \in BOOLEAN : obsbot_device_status(outNull))
  <2>1. call'.rc \in Results
    BY <1>6, CallsAre DEF Call
  <2> QED BY <1>6, <2>1 DEF HandlesOK, obsbot_device_status
<1>7. CASE (\E outNull \in BOOLEAN : obsbot_devices_poll_event(outNull))
  <2>1. call'.rc \in Results
    BY <1>7, CallsAre DEF Call
  <2>2. UNCHANGED <<registry, device>> /\ (queue' = queue \/ queue' = <<>>)
    BY <1>7 DEF obsbot_devices_poll_event
  <2> QED BY <2>1, <2>2 DEF HandlesOK
<1>8. CASE Sent
  BY <1>8 DEF HandlesOK, Sent
<1>9. CASE (\E at \in instance.others : Changed(at))
  BY <1>9 DEF HandlesOK, Changed
<1>10. CASE UNCHANGED vars
  BY <1>10 DEF HandlesOK, vars
<1> QED BY <1>1, <1>2, <1>3, <1>4, <1>5, <1>6, <1>7, <1>8, <1>9, <1>10 DEF Next

\* For every instance: the type invariant.
THEOREM TypeCorrect == Spec => []TypeOK
<1>1. Init => Core /\ HandlesOK
  <2>1. Init => HandlesOK
    BY DEF Init, HandlesOK, NoCall, Results
  <2> QED BY <2>1, CoreInit
<1>2. Core /\ HandlesOK /\ [Next]_vars => Core' /\ HandlesOK'
  BY CoreNext, HandlesStay
<1>3. Core /\ HandlesOK => TypeOK
  <2> SUFFICES ASSUME Core, HandlesOK PROVE TypeOK
    OBVIOUS
  <2>1. Len(queue) <= 1
    <3>1. \A event : Len(<<event>>) = 1
      OBVIOUS
    <3>2. Len(<<>>) = 0
      OBVIOUS
    <3>3. CASE queue = <<>>
      BY <3>2, <3>3
    <3>4. ASSUME NEW event, queue = <<event>> PROVE Len(queue) <= 1
      BY <3>1, <3>4
    <3> QED BY <3>3, <3>4 DEF HandlesOK
  <2>2. queue # <<>> => registry = "live"
    BY DEF HandlesOK
  <2> QED BY <2>1, <2>2 DEF Core, HandlesOK, CameraOK, AskedOK, TypeOK, Results
<1> QED BY <1>1, <1>2, <1>3, PTL DEF Spec

-----------------------------------------------------------------------------
(* Texts.  A reply is read as what it was made of.                         *)

LEMMA CopiedIs ==
  ASSUME NEW buf \in Frames, NEW at \in Nat, NEW s \in Seq(u8), NEW i \in 0..59
  PROVE  /\ at <= i /\ i < at + Len(s) => Copied(buf, at, s)[i] = s[i - at + 1]
         /\ i < at \/ at + Len(s) <= i => Copied(buf, at, s)[i] = buf[i]
<1>1. DOMAIN buf = 0..59
  BY DEF Frames, RPC_FRAME_LEN
<1>2. Copied(buf, at, s)[i] = IF i \in at..(at + Len(s) - 1) THEN s[i - at + 1] ELSE buf[i]
  BY <1>1 DEF Copied
<1> DEFINE n == Len(s)
<1>3. n \in Nat
  OBVIOUS
<1>4. Copied(buf, at, s)[i] = IF i \in at..(at + n - 1) THEN s[i - at + 1] ELSE buf[i]
  BY <1>2
<1> HIDE DEF n
<1>5. /\ at <= i /\ i < at + n => i \in at..(at + n - 1)
      /\ i < at \/ at + n <= i => i \notin at..(at + n - 1)
  BY <1>3
<1>6. /\ at <= i /\ i < at + n => Copied(buf, at, s)[i] = s[i - at + 1]
      /\ i < at \/ at + n <= i => Copied(buf, at, s)[i] = buf[i]
  BY <1>4, <1>5
<1> QED BY <1>6 DEF n

LEMMA BytesJoined ==
  ASSUME NEW s \in Seq(u8), NEW t \in Seq(u8)
  PROVE  /\ s \o t \in Seq(u8) /\ Len(s \o t) = Len(s) + Len(t)
         /\ \A i \in 1..Len(s) : (s \o t)[i] = s[i]
         /\ \A i \in 1..Len(t) : (s \o t)[Len(s) + i] = t[i]
BY SMTT(30)

\* The direction, the command and the length.
ReplyHead(x, y, n) == <<13, 10>> \o <<x, y>> \o u16_le(n)

HeadHas(head, x, y, n) ==
  /\ head \in Seq(u8) /\ Len(head) = 6
  /\ head[1] = 13 /\ head[2] = 10 /\ head[3] = x /\ head[4] = y /\ head[5] = n /\ head[6] = 0

LEMMA HeadIs == \A x, y \in u8, n \in 0..44 : HeadHas(ReplyHead(x, y, n), x, y, n)
<1> SUFFICES ASSUME NEW x \in u8, NEW y \in u8, NEW n \in 0..44
             PROVE  HeadHas(ReplyHead(x, y, n), x, y, n)
  OBVIOUS
<1>1. u16_le(n) = <<n, 0>>
  <2>1. n % 256 = n /\ n \div 256 = 0
    BY SMT
  <2> QED BY <2>1 DEF u16_le
<1> DEFINE a == <<13, 10>> b == <<x, y>> c == <<n, 0>> ab == a \o b abc == ab \o c
<1>2. a \in Seq(u8) /\ Len(a) = 2 /\ a[1] = 13 /\ a[2] = 10
  BY DEF u8
<1>3. b \in Seq(u8) /\ Len(b) = 2 /\ b[1] = x /\ b[2] = y
  OBVIOUS
<1>4. c \in Seq(u8) /\ Len(c) = 2 /\ c[1] = n /\ c[2] = 0
  BY DEF u8
<1>5. ReplyHead(x, y, n) = abc
  BY <1>1 DEF ReplyHead
<1> HIDE DEF a, b, c
<1>6. /\ ab \in Seq(u8) /\ Len(ab) = 2 + 2
      /\ \A i \in 1..2 : ab[i] = a[i]
      /\ \A i \in 1..2 : ab[2 + i] = b[i]
  <2>1. /\ ab \in Seq(u8) /\ Len(ab) = Len(a) + Len(b)
        /\ \A i \in 1..Len(a) : ab[i] = a[i]
        /\ \A i \in 1..Len(b) : ab[Len(a) + i] = b[i]
    BY <1>2, <1>3, BytesJoined
  <2> HIDE DEF ab
  <2> QED BY <1>2, <1>3, <2>1
<1> HIDE DEF ab
<1>7. Len(ab) = 4 /\ ab[1] = 13 /\ ab[2] = 10 /\ ab[3] = x /\ ab[4] = y
  <2>1. 1 \in 1..2 /\ 2 \in 1..2 /\ 2 + 1 = 3 /\ 2 + 2 = 4
    OBVIOUS
  <2> QED BY <1>2, <1>3, <1>6, <2>1
<1>8. /\ abc \in Seq(u8) /\ Len(abc) = 4 + 2
      /\ \A i \in 1..4 : abc[i] = ab[i]
      /\ \A i \in 1..2 : abc[4 + i] = c[i]
  <2>1. /\ abc \in Seq(u8) /\ Len(abc) = Len(ab) + Len(c)
        /\ \A i \in 1..Len(ab) : abc[i] = ab[i]
        /\ \A i \in 1..Len(c) : abc[Len(ab) + i] = c[i]
    BY <1>4, <1>6, BytesJoined
  <2> HIDE DEF abc
  <2> QED BY <1>4, <1>7, <2>1
<1> HIDE DEF abc
<1>9. 4 + 1 = 5 /\ 4 + 2 = 6 /\ 1 \in 1..2 /\ 2 \in 1..2 /\ {1, 2, 3, 4} \subseteq 1..4
  OBVIOUS
<1>10. abc[5] = n /\ abc[6] = 0
  BY <1>4, <1>8, <1>9
<1>11. abc[1] = 13 /\ abc[2] = 10 /\ abc[3] = x /\ abc[4] = y
  BY <1>7, <1>8, <1>9
<1> QED BY <1>5, <1>8, <1>9, <1>10, <1>11 DEF HeadHas

LEMMA ReplyIs ==
  ASSUME NEW x \in u8, NEW y \in u8, NEW payload \in Seq(u8), Len(payload) \in 0..44,
         NEW buf, buf = Reply(<<x, y>>, payload)
  PROVE  /\ buf[0] = 170 /\ buf[8] = 13 /\ buf[9] = 10 /\ buf[10] = x /\ buf[11] = y
         /\ buf[12] = Len(payload) /\ buf[13] = 0
         /\ \A i \in 1..Len(payload) : buf[15 + i] = payload[i]
<1> DEFINE n == Len(payload)
           magic == <<170>>
           head == ReplyHead(x, y, n)
           one  == Copied(Zeros, 0, magic)
           two  == Copied(one, 8, head)
<1>1. buf = Copied(two, 16, payload)
  BY DEF Reply, ReplyHead
<1>2. Zeros \in Frames
  BY DEF Zeros, Frames, u8
<1>3. magic \in Seq(u8) /\ Len(magic) = 1 /\ magic[1] = 170
  BY DEF u8
<1>4. n \in 0..44
  OBVIOUS
<1> HIDE DEF n, magic
<1>5. /\ head \in Seq(u8) /\ Len(head) = 6
      /\ head[1] = 13 /\ head[2] = 10 /\ head[3] = x /\ head[4] = y /\ head[5] = n /\ head[6] = 0
  <2>1. HeadHas(head, x, y, n)
    BY <1>4, HeadIs
  <2> HIDE DEF head
  <2> QED BY <2>1 DEF HeadHas
<1> HIDE DEF head
<1>6. one \in Frames
  BY <1>2, <1>3, CopiedType
<1>7. one[0] = 170
  <2>1. DOMAIN Zeros = 0..59
    BY DEF Zeros, RPC_FRAME_LEN
  <2>2. 0 \in 0..(0 + 1 - 1) /\ 0 - 0 + 1 = 1 /\ 0 \in 0..59
    OBVIOUS
  <2>3. one[0] = IF 0 \in 0..(0 + Len(magic) - 1) THEN magic[0 - 0 + 1] ELSE Zeros[0]
    BY <2>1, <2>2 DEF Copied
  <2> HIDE DEF one
  <2> QED BY <1>3, <2>2, <2>3
<1> HIDE DEF one
<1>8. two \in Frames
  BY <1>5, <1>6, CopiedType
<1>9. ASSUME NEW i \in 0..59
      PROVE  /\ 8 <= i /\ i < 14 => two[i] = head[i - 7]
             /\ i < 8 => two[i] = one[i]
  <2>1. 8 \in Nat /\ 8 + 6 = 14 /\ i - 8 + 1 = i - 7
    OBVIOUS
  <2>2. /\ 8 <= i /\ i < 8 + Len(head) => two[i] = head[i - 8 + 1]
        /\ i < 8 \/ 8 + Len(head) <= i => two[i] = one[i]
    BY <1>5, <1>6, <2>1, CopiedIs
  <2> HIDE DEF two
  <2> QED BY <1>5, <2>1, <2>2
<1> HIDE DEF two
<1>10. ASSUME NEW i \in 0..59
       PROVE  /\ 16 <= i /\ i < 16 + n => buf[i] = payload[i - 16 + 1]
              /\ i < 16 => buf[i] = two[i]
  <2>1. 16 \in Nat
    OBVIOUS
  <2>2. /\ 16 <= i /\ i < 16 + Len(payload) => buf[i] = payload[i - 16 + 1]
        /\ i < 16 \/ 16 + Len(payload) <= i => buf[i] = two[i]
    <3> DEFINE new == Copied(two, 16, payload)
    <3>1. /\ 16 <= i /\ i < 16 + Len(payload) => new[i] = payload[i - 16 + 1]
          /\ i < 16 \/ 16 + Len(payload) <= i => new[i] = two[i]
      BY <1>8, <2>1, CopiedIs
    <3> HIDE DEF new
    <3>2. buf = new
      BY <1>1 DEF new
    <3> QED BY <3>1, <3>2
  <2> QED BY <2>2 DEF n
<1>11. buf[0] = 170
  <2>1. 0 \in 0..59 /\ 0 < 8 /\ 0 < 16
    OBVIOUS
  <2>2. buf[0] = two[0]
    BY <1>10, <2>1
  <2>3. two[0] = one[0]
    BY <1>9, <2>1
  <2> QED BY <1>7, <2>2, <2>3
<1>12. ASSUME NEW i \in 8..13 PROVE buf[i] = head[i - 7]
  <2>1. i \in 0..59 /\ 8 <= i /\ i < 14 /\ i < 16
    OBVIOUS
  <2>2. buf[i] = two[i]
    BY <1>10, <2>1
  <2>3. two[i] = head[i - 7]
    BY <1>9, <2>1
  <2> QED BY <2>2, <2>3
<1>13. /\ buf[8] = 13 /\ buf[9] = 10 /\ buf[10] = x /\ buf[11] = y /\ buf[12] = n /\ buf[13] = 0
  <2>1. /\ {8, 9, 10, 11, 12, 13} \subseteq 8..13
        /\ 8 - 7 = 1 /\ 9 - 7 = 2 /\ 10 - 7 = 3 /\ 11 - 7 = 4 /\ 12 - 7 = 5 /\ 13 - 7 = 6
    OBVIOUS
  <2> QED BY <1>5, <1>12, <2>1
<1>14. ASSUME NEW i \in 1..n PROVE buf[15 + i] = payload[i]
  <2> DEFINE j == 15 + i
  <2>1. j \in 0..59 /\ 16 <= j /\ j < 16 + n /\ j - 16 + 1 = i
    BY <1>4
  <2> HIDE DEF j
  <2>2. buf[j] = payload[j - 16 + 1]
    BY <1>10, <2>1
  <2> QED BY <2>1, <2>2 DEF j
<1> QED BY <1>11, <1>13, <1>14 DEF n

\* A reply whose payload fits is read as its command and its payload.
LEMMA ReplyIsRead ==
  ASSUME NEW x \in u8, NEW y \in u8, NEW payload \in Seq(u8), Len(payload) \in 0..44
  PROVE  parse_rpc_reply(Reply(<<x, y>>, payload)) = <<[cmd |-> <<x, y>>, payload |-> payload]>>
<1> DEFINE buf == Reply(<<x, y>>, payload)
           n == Len(payload)
<1>1. /\ buf[0] = 170 /\ buf[8] = 13 /\ buf[9] = 10 /\ buf[10] = x /\ buf[11] = y
      /\ buf[12] = n /\ buf[13] = 0
      /\ \A i \in 1..n : buf[15 + i] = payload[i]
  BY ReplyIs
<1> HIDE DEF buf
<1>0. n \in 0..44
  OBVIOUS
<1> HIDE DEF n
<1> DEFINE end == 16 + buf[12] + 256 * buf[13]
<1>2. end = 16 + n /\ end <= RPC_FRAME_LEN
  BY <1>0, <1>1, SMT DEF RPC_FRAME_LEN
<1>3. Slice(buf, 16, 16 + n) = payload
  <2> DEFINE to == 16 + n
  <2>1. to - 16 = n /\ \A i \in 1..n : 16 + i - 1 = 15 + i
    BY <1>0
  <2> HIDE DEF to
  <2>2. Slice(buf, 16, to) = [i \in 1..(to - 16) |-> buf[16 + i - 1]]
    BY DEF Slice
  <2>3. \A i \in 1..n : buf[16 + i - 1] = payload[i]
    BY <1>1, <2>1
  <2>4. Slice(buf, 16, to) = [i \in 1..n |-> payload[i]]
    BY <2>1, <2>2, <2>3
  <2> QED BY <2>4 DEF n, to
<1>4. parse_rpc_reply(buf) =
        IF buf[0] # 170 \/ buf[8] # 13 \/ buf[9] # 10 \/ end > RPC_FRAME_LEN
        THEN <<>>
        ELSE <<[cmd |-> <<buf[10], buf[11]>>, payload |-> Slice(buf, 16, end)]>>
  BY DEF parse_rpc_reply
<1>5. ~(end > RPC_FRAME_LEN)
  BY <1>0, <1>2 DEF RPC_FRAME_LEN
<1> HIDE DEF end
<1>6. parse_rpc_reply(buf) = <<[cmd |-> <<x, y>>, payload |-> payload]>>
  BY <1>1, <1>2, <1>3, <1>4, <1>5
<1> QED BY <1>6 DEF buf

Answers(buf, answered, payload) ==
  \A cmd, least : Answer(buf, cmd, least) =
                    IF answered # cmd \/ Len(payload) < least THEN <<>> ELSE <<payload>>

LEMMA AnswerIs ==
  ASSUME NEW x \in u8, NEW y \in u8, NEW payload \in Seq(u8), Len(payload) \in 0..44
  PROVE  Answers(Reply(<<x, y>>, payload), <<x, y>>, payload)
<1> SUFFICES ASSUME NEW cmd, NEW least
             PROVE  Answer(Reply(<<x, y>>, payload), cmd, least) =
                      IF <<x, y>> # cmd \/ Len(payload) < least THEN <<>> ELSE <<payload>>
  BY DEF Answers
<1> DEFINE buf == Reply(<<x, y>>, payload)
           parsed == <<[cmd |-> <<x, y>>, payload |-> payload]>>
<1>1. parse_rpc_reply(buf) = parsed
  BY ReplyIsRead
<1>2. parsed # <<>> /\ parsed[1].cmd = <<x, y>> /\ parsed[1].payload = payload
  OBVIOUS
<1> HIDE DEF parsed, buf
<1>3. Answer(buf, cmd, least) = IF parsed = <<>> \/ parsed[1].cmd # cmd \/ Len(parsed[1].payload) < least
                                THEN <<>> ELSE <<parsed[1].payload>>
  BY <1>1 DEF Answer
<1>4. Answer(buf, cmd, least) = IF <<x, y>> # cmd \/ Len(payload) < least THEN <<>> ELSE <<payload>>
  BY <1>2, <1>3
<1> QED BY <1>4 DEF buf

\* What a call takes from the buffer, firmware and serial.
Reads(buf, firmware, serial) ==
  decode_firmware_reply(buf) = firmware /\ decode_serial_reply(buf) = serial

LEMMA SerialGraphic == \A i \in 1..Len(Serial) : Serial[i] \in Graphic /\ Serial[i] # 0
<1>1. Serial \in Seq(Graphic)
  BY FfiAssumption
<1>2. \A i \in 1..Len(Serial) : Serial[i] \in Graphic
  BY <1>1
<1>3. 0 \notin Graphic
  BY DEF Graphic
<1> QED BY <1>2, <1>3

LEMMA FirmwareRead == Reads(FirmwareReply, <<Firmware>>, <<>>)
<1> DEFINE p == Reverse(Firmware)
<1>1. Firmware \in Seq(u8) /\ Len(Firmware) = 4
  BY FfiAssumption
<1>2. p \in Seq(u8) /\ Len(p) = 4 /\ \A i \in 1..4 : p[i] = Firmware[5 - i] /\ p[i] \in u8
  <2>1. p = [i \in 1..4 |-> Firmware[(4 - i) + 1]]
    BY <1>1 DEF Reverse
  <2>2. \A i \in 1..4 : (4 - i) + 1 = 5 - i /\ 5 - i \in 1..4
    OBVIOUS
  <2> HIDE DEF p
  <2>3. ASSUME NEW i \in 1..4 PROVE p[i] = Firmware[5 - i] /\ p[i] \in u8
    <3>1. p[i] = Firmware[(4 - i) + 1]
      BY <2>1
    <3>2. p[i] = Firmware[5 - i]
      BY <2>2, <3>1
    <3>3. \A j \in 1..4 : Firmware[j] \in u8
      BY <1>1
    <3> QED BY <2>2, <3>2, <3>3
  <2>4. p \in [1..4 -> u8]
    BY <2>1, <2>3
  <2> QED BY <2>3, <2>4, BytesFrom1
<1> HIDE DEF p
<1>3. FirmwareReply = Reply(<<8, 4>>, p) /\ 8 \in u8 /\ 4 \in u8 /\ Len(p) \in 0..44
  BY <1>2 DEF FirmwareReply, RPC_GET_FIRMWARE, p, u8
<1>4. \A cmd, least : Answer(FirmwareReply, cmd, least) =
                        IF <<8, 4>> # cmd \/ Len(p) < least THEN <<>> ELSE <<p>>
  <2>1. Answers(Reply(<<8, 4>>, p), <<8, 4>>, p)
    BY <1>2, <1>3, AnswerIs
  <2> QED BY <1>3, <2>1 DEF Answers
<1>5. Answer(FirmwareReply, RPC_GET_FIRMWARE, 4) = <<p>>
  <2>1. ~(Len(p) < 4)
    BY <1>2
  <2> QED BY <1>4, <2>1 DEF RPC_GET_FIRMWARE
<1>6. Answer(FirmwareReply, RPC_GET_SERIAL, 0) = <<>>
  <2>1. <<8, 4>> # RPC_GET_SERIAL
    BY DEF RPC_GET_SERIAL
  <2> QED BY <1>4, <2>1
<1>7. Reverse(SubSeq(p, 1, 4)) = Firmware
  <2> DEFINE q == SubSeq(p, 1, 4)
  <2>1. q \in Seq(u8) /\ Len(q) = 4 /\ \A i \in 1..4 : q[i] = p[i]
    <3>1. p \in Seq(Int) /\ 0 \in Nat /\ 4 \in Nat /\ 0 + 4 <= Len(p) /\ 0 + 1 = 1 /\ 0 + 4 = 4
      BY <1>2, BytesAreNumbers
    <3>2. /\ Len(SubSeq(p, 0 + 1, 0 + 4)) = 4 /\ SubSeq(p, 0 + 1, 0 + 4) \in Seq(Int)
          /\ \A i \in 1..4 : SubSeq(p, 0 + 1, 0 + 4)[i] = p[0 + i]
      BY <3>1, PartOf
    <3>3. Len(q) = 4 /\ q \in Seq(Int) /\ \A i \in 1..4 : q[i] = p[0 + i] /\ 0 + i = i
      BY <3>1, <3>2
    <3> HIDE DEF q
    <3>4. \A i \in 1..4 : q[i] = p[i]
      BY <3>3
    <3>5. q \in [1..4 -> u8]
      <4>1. \A i \in 1..4 : q[i] \in u8
        BY <1>2, <3>4
      <4>2. q \in [1..4 -> Int]
        BY <3>3, NumbersFrom1
      <4> QED BY <4>1, <4>2
    <3> QED BY <3>3, <3>4, <3>5, BytesFrom1
  <2> HIDE DEF q
  <2>2. Reverse(q) = [i \in 1..4 |-> q[(4 - i) + 1]]
    BY <2>1 DEF Reverse
  <2>3. \A i \in 1..4 : (4 - i) + 1 = 5 - i /\ 5 - i \in 1..4 /\ 5 - (5 - i) = i
    OBVIOUS
  <2>4. \A i \in 1..4 : q[(4 - i) + 1] = Firmware[i]
    BY <1>2, <2>1, <2>3
  <2>5. Reverse(q) = [i \in 1..4 |-> Firmware[i]]
    BY <2>2, <2>4
  <2>6. Firmware = [i \in 1..4 |-> Firmware[i]]
    BY <1>1
  <2> QED BY <2>5, <2>6 DEF q
<1>8. decode_firmware_reply(FirmwareReply) = <<Firmware>>
  <2>1. <<p>> # <<>> /\ <<p>>[1] = p
    OBVIOUS
  <2> QED BY <1>5, <1>7, <2>1 DEF decode_firmware_reply
<1>9. decode_serial_reply(FirmwareReply) = <<>>
  BY <1>6 DEF decode_serial_reply
<1> QED BY <1>8, <1>9 DEF Reads

LEMMA ZerosRead == Reads(Zeros, <<>>, <<>>)
<1>1. Zeros[0] # 170
  BY DEF Zeros, RPC_FRAME_LEN
<1>2. parse_rpc_reply(Zeros) = <<>>
  BY <1>1 DEF parse_rpc_reply
<1>3. \A cmd, least : Answer(Zeros, cmd, least) = <<>>
  BY <1>2 DEF Answer
<1> QED BY <1>3 DEF Reads, decode_firmware_reply, decode_serial_reply

\* The places of a zero, and the text before the first.
Nuls(p) == {i \in 1..Len(p) : p[i] = 0}
Before(p, end) == IF end = 0 THEN p ELSE SubSeq(p, 1, end - 1)
Accepted(text) == IF \E i \in 1..Len(text) : text[i] \notin Graphic THEN <<>> ELSE <<text>>

FirstNul(p) == IF Nuls(p) # {} THEN Min(Nuls(p)) ELSE 0

LEMMA SerialIs ==
  ASSUME NEW buf, NEW p, Answer(buf, RPC_GET_SERIAL, 0) = <<p>>
  PROVE  decode_serial_reply(buf) = Accepted(Before(p, FirstNul(p)))
<1> DEFINE answer == Answer(buf, RPC_GET_SERIAL, 0)
           text == Before(answer[1], FirstNul(answer[1]))
<1>1. decode_serial_reply(buf) =
        IF answer = <<>> \/ \E i \in 1..Len(text) : text[i] \notin Graphic THEN <<>> ELSE <<text>>
  BY DEF decode_serial_reply, SelectInSeq, FirstNul, Nuls, Before
<1>2. <<p>> # <<>> /\ <<p>>[1] = p
  OBVIOUS
<1>3. answer # <<>> /\ answer[1] = p
  BY <1>2
<1> HIDE DEF answer
<1>4. text = Before(p, FirstNul(p))
  BY <1>3
<1> HIDE DEF text
<1> QED BY <1>1, <1>3, <1>4 DEF Accepted

LEMMA SerialRead == Reads(SerialReply, <<>>, <<Serial>>)
<1> DEFINE n == Len(Serial)
           zeros == [i \in 1..(44 - n) |-> 0]
           p == Serial \o zeros
<1>1. n \in 1..44 /\ Serial \in Seq(Int) /\ Serial \in [1..n -> u8] /\ Serial \in Seq(u8)
  <2>1. Graphic \subseteq u8 /\ Graphic \subseteq Int
    BY DEF Graphic, u8
  <2>2. Serial \in Seq(Graphic) /\ n \in 1..44
    BY FfiAssumption
  <2>3. n \in Nat /\ Serial \in [1..n -> Graphic]
    BY <2>2
  <2> HIDE DEF n
  <2>4. Serial \in [1..n -> u8]
    BY <2>1, <2>3
  <2>5. Serial \in Seq(u8)
    BY <2>3, <2>4, BytesFrom1
  <2> QED BY <2>2, <2>4, <2>5, BytesAreNumbers
<1> HIDE DEF n
<1>2. zeros \in Seq(u8) /\ Len(zeros) = 44 - n /\ \A i \in 1..(44 - n) : zeros[i] = 0
  <2>1. 44 - n \in Nat
    BY <1>1
  <2>2. zeros \in [1..(44 - n) -> u8]
    BY DEF u8
  <2>3. \A i \in 1..(44 - n) : zeros[i] = 0
    OBVIOUS
  <2> HIDE DEF zeros
  <2> QED BY <2>1, <2>2, <2>3, BytesFrom1
<1> HIDE DEF zeros
<1>3. /\ p \in Seq(u8) /\ Len(p) = 44
      /\ \A i \in 1..n : p[i] = Serial[i]
      /\ \A i \in 1..(44 - n) : p[n + i] = 0
  <2>1. /\ p \in Seq(u8) /\ Len(p) = Len(Serial) + Len(zeros)
        /\ \A i \in 1..Len(Serial) : p[i] = Serial[i]
        /\ \A i \in 1..Len(zeros) : p[Len(Serial) + i] = zeros[i]
    BY <1>1, <1>2, BytesJoined
  <2> HIDE DEF p
  <2>2. n + (44 - n) = 44
    BY <1>1
  <2>3. n = Len(Serial)
    BY DEF n
  <2>4. \A i \in 1..(44 - n) : p[n + i] = zeros[i]
    BY <1>2, <2>1, <2>3
  <2>5. \A i \in 1..(44 - n) : p[n + i] = 0
    BY <1>2, <2>4
  <2>6. Len(p) = 44
    BY <1>2, <2>1, <2>2, <2>3
  <2>7. \A i \in 1..n : p[i] = Serial[i]
    BY <2>1, <2>3
  <2> QED BY <2>1, <2>5, <2>6, <2>7
<1>4. SerialReply = Reply(<<200, 24>>, p)
  BY DEF SerialReply, RPC_GET_SERIAL, n, zeros
<1> HIDE DEF p
<1>5. Answers(SerialReply, <<200, 24>>, p)
  <2>1. 200 \in u8 /\ 24 \in u8 /\ Len(p) \in 0..44
    BY <1>3 DEF u8
  <2> QED BY <1>3, <1>4, <2>1, AnswerIs
<1>6. Answer(SerialReply, RPC_GET_FIRMWARE, 4) = <<>>
  <2>1. <<200, 24>> # RPC_GET_FIRMWARE
    BY DEF RPC_GET_FIRMWARE
  <2> QED BY <1>5, <2>1 DEF Answers
<1>7. Answer(SerialReply, RPC_GET_SERIAL, 0) = <<p>>
  <2>1. <<200, 24>> = RPC_GET_SERIAL
    BY DEF RPC_GET_SERIAL
  <2>2. ~(Len(p) < 0)
    BY <1>3
  <2> QED BY <1>5, <2>1, <2>2 DEF Answers
<1> DEFINE I == Nuls(p)
           end == FirstNul(p)
           text == Before(p, end)
<1>8. I = {i \in 1..44 : p[i] = 0}
  BY <1>3 DEF Nuls
<1> HIDE DEF I
<1>9. \A i \in I : i >= n + 1
  <2> SUFFICES ASSUME NEW i \in 1..n PROVE p[i] # 0
    BY <1>1, <1>8
  <2> QED BY <1>3, SerialGraphic DEF n
<1>10. end = IF n = 44 THEN 0 ELSE n + 1
  <2>1. CASE n = 44
    <3>1. I = {}
      BY <1>8, <1>9, <2>1
    <3> QED BY <2>1, <3>1 DEF FirstNul, I
  <2>2. CASE n # 44
    <3>1. n + 1 \in I
      <4>1. 1 \in 1..(44 - n) /\ n + 1 \in 1..44
        BY <1>1, <2>2
      <4> QED BY <1>3, <1>8, <4>1
    <3>2. I # {} /\ Min(I) = CHOOSE x \in I : \A y \in I : x <= y
      BY <3>1 DEF Min
    <3>3. \A x \in I : (\A y \in I : x <= y) => x = n + 1
      <4>1. I \subseteq 1..44
        BY <1>8
      <4> QED BY <1>1, <1>9, <3>1, <4>1
    <3>4. \A y \in I : n + 1 <= y
      BY <1>1, <1>8, <1>9
    <3>5. Min(I) = n + 1
      BY <3>1, <3>2, <3>3, <3>4
    <3> QED BY <2>2, <3>2, <3>5 DEF FirstNul, I
  <2> QED BY <2>1, <2>2
<1> HIDE DEF end
<1>11. text = Serial
  <2>1. CASE n = 44
    <3>1. text = p
      BY <1>10, <2>1 DEF Before
    <3>2. p \in Seq(Int) /\ Len(p) = 44 /\ Serial \in Seq(Int) /\ Len(Serial) = 44
      BY <1>1, <1>3, <2>1, BytesAreNumbers DEF n
    <3>3. p = [i \in 1..44 |-> p[i]] /\ Serial = [i \in 1..44 |-> Serial[i]]
      BY <3>2
    <3>4. \A i \in 1..44 : p[i] = Serial[i]
      BY <1>3, <2>1
    <3>5. p = Serial
      BY <3>3, <3>4
    <3> QED BY <3>1, <3>5
  <2>2. CASE n # 44
    <3>1. text = SubSeq(p, 1, n)
      <4>1. end # 0 /\ end - 1 = n
        BY <1>1, <1>10, <2>2
      <4> QED BY <4>1 DEF Before
    <3> DEFINE q == SubSeq(p, 1, n)
    <3>2. q \in [1..n -> Int] /\ \A i \in 1..n : q[i] = p[i]
      <4>1. p \in Seq(Int) /\ 0 \in Nat /\ n \in Nat /\ 0 + n <= Len(p) /\ 0 + 1 = 1 /\ 0 + n = n
        BY <1>1, <1>3, BytesAreNumbers
      <4>2. /\ Len(SubSeq(p, 0 + 1, 0 + n)) = n /\ SubSeq(p, 0 + 1, 0 + n) \in Seq(Int)
            /\ \A i \in 1..n : SubSeq(p, 0 + 1, 0 + n)[i] = p[0 + i]
        BY <4>1, PartOf
      <4>3. Len(q) = n /\ q \in Seq(Int) /\ \A i \in 1..n : q[i] = p[0 + i] /\ 0 + i = i
        BY <4>1, <4>2
      <4> HIDE DEF q
      <4> QED BY <4>3
    <3> HIDE DEF q
    <3>3. \A i \in 1..n : q[i] = Serial[i]
      BY <1>3, <3>2
    <3>4. Serial \in [1..n -> Int]
      BY <1>1 DEF n
    <3>5. q = [i \in 1..n |-> q[i]] /\ Serial = [i \in 1..n |-> Serial[i]]
      BY <3>2, <3>4
    <3>6. q = Serial
      BY <3>3, <3>5
    <3> QED BY <3>1, <3>6 DEF q
  <2> QED BY <2>1, <2>2
<1> HIDE DEF text
<1>12. decode_serial_reply(SerialReply) = <<Serial>>
  <2>1. decode_serial_reply(SerialReply) = Accepted(Serial)
    BY <1>7, <1>11, SerialIs DEF text, end
  <2> QED BY <2>1, SerialGraphic DEF Accepted
<1>13. decode_firmware_reply(SerialReply) = <<>>
  BY <1>6 DEF decode_firmware_reply
<1> QED BY <1>12, <1>13 DEF Reads

-----------------------------------------------------------------------------
(* What is left in the RPC buffer, and what the caller is told from it.    *)

\* No text, or the camera's own.
OwnText(buf) ==
  /\ decode_firmware_reply(buf) \in {<<>>, <<Firmware>>}
  /\ decode_serial_reply(buf) \in {<<>>, <<Serial>>}

\* Whatever others have asked the camera, its answer is about this camera.
OthersAskIt ==
  \A route \in DOMAIN Contents : route[2] = XU_SEL_RPC => \A buf \in Contents[route] : OwnText(buf)

BufferOK(cam) == XU_SEL_RPC \in DOMAIN cam => OwnText(cam[XU_SEL_RPC])

\* TextsAreWhole of a call, but for what it takes from the queue.
Told(last) ==
  last.rc = "OK" =>
    /\ last.fn = "text" => /\ last.out = <<IF last.of = "firmware" THEN Firmware ELSE Serial>>
                           /\ last.written <= last.room
    /\ last.fn = "status" => /\ last.out[1].firmware \in {<<>>, <<Firmware>>}
                             /\ last.out[1].serial \in {<<>>, <<Serial>>}
    /\ last.fn = "poll_event" => last.written <= OBSBOT_STR_MAX

EventQueued(serial) == \E kind, status : queue = <<[kind |-> kind, serial |-> serial, status |-> status]>>
QueueOK == queue = <<>> \/ \E serial \in UsbSerials : EventQueued(serial)

LEMMA RepliesOwn == OwnText(Zeros) /\ OwnText(FirmwareReply) /\ OwnText(SerialReply)
BY ZerosRead, FirmwareRead, SerialRead DEF Reads, OwnText

LEMMA BufferKept ==
  ASSUME NEW cam, BufferOK(cam), NEW frame, NEW new \in AfterSet(cam, XU_SEL_RPC, frame)
  PROVE  BufferOK(new)
<1>1. ASSUME NEW v \in {cam[XU_SEL_RPC], FirmwareReply, SerialReply}, new = [cam EXCEPT ![XU_SEL_RPC] = v]
      PROVE  BufferOK(new)
  <2>1. XU_SEL_RPC \in DOMAIN cam => OwnText(v)
    BY <1>1, RepliesOwn DEF BufferOK
  <2> QED BY <1>1, <2>1 DEF BufferOK
<1> QED BY <1>1, FrameDoes

\* A part of the serial and the rest of it.
LEMMA TwoParts ==
  ASSUME NEW s \in Seq(u8), NEW m \in 0..Len(s)
  PROVE  /\ SubSeq(s, 1, m) \in Seq(u8) /\ Len(SubSeq(s, 1, m)) = m
         /\ s = SubSeq(s, 1, m) \o SubSeq(s, m + 1, Len(s))
         /\ SubSeq(s, m + 1, Len(s)) # <<>> => m < Len(s)
<1> DEFINE n == Len(s)
           a == SubSeq(s, 1, m)
           b == SubSeq(s, m + 1, n)
<1>1. n \in Nat /\ m \in Nat /\ m <= n
  OBVIOUS
<1>2. a \in Seq(u8) /\ Len(a) = m /\ \A i \in 1..m : a[i] = s[i]
  OBVIOUS
<1>3. b \in Seq(u8) /\ Len(b) = n - m /\ \A i \in 1..(n - m) : b[i] = s[m + i]
  OBVIOUS
<1>4. s = [i \in 1..n |-> s[i]]
  OBVIOUS
<1> HIDE DEF n, a, b
<1>5. /\ a \o b \in Seq(u8) /\ Len(a \o b) = Len(a) + Len(b)
      /\ \A i \in 1..Len(a) : (a \o b)[i] = a[i]
      /\ \A i \in 1..Len(b) : (a \o b)[Len(a) + i] = b[i]
  BY <1>2, <1>3, BytesJoined
<1> DEFINE ab == a \o b
<1> HIDE DEF ab
<1>6. ab \in Seq(u8) /\ Len(ab) = n
  BY <1>1, <1>2, <1>3, <1>5 DEF ab
<1>7. ASSUME NEW i \in 1..n PROVE ab[i] = s[i]
  <2>1. CASE i \in 1..m
    BY <1>2, <1>5, <2>1 DEF ab
  <2>2. CASE i \notin 1..m
    <3> DEFINE k == i - m
    <3>1. k \in 1..(n - m) /\ m + k = i
      BY <1>1, <2>2
    <3> HIDE DEF k
    <3>2. ab[m + k] = b[k] /\ b[k] = s[m + k]
      BY <1>2, <1>3, <1>5, <3>1 DEF ab
    <3> QED BY <3>1, <3>2
  <2> QED BY <2>1, <2>2
<1>8. ab = [i \in 1..n |-> ab[i]]
  BY <1>6
<1>9. ab = s
  BY <1>4, <1>7, <1>8
<1>10. b # <<>> => m < n
  <2>1. SUFFICES ASSUME m = n PROVE b = <<>>
    BY <1>1
  <2>2. Len(b) = 0
    BY <1>1, <1>3, <2>1
  <2> QED BY <1>3, <2>2
<1> QED BY <1>2, <1>9, <1>10 DEF ab, a, b, n

\* What a call takes from the queue is the serial, as much of it as fits.
Taken ==
  call'.rc = "OK" /\ call'.fn = "poll_event" /\ queue # <<>> /\ queue' = <<>> =>
    \E rest \in {SubSeq(queue[1].serial, n, Len(queue[1].serial)) :
                   n \in 1..(Len(queue[1].serial) + 1)} :
      /\ queue[1].serial = call'.out[1].serial \o rest
      /\ rest # <<>> => call'.written = OBSBOT_STR_MAX

LEMMA LengthIs ==
  /\ Length("firmware", Firmware) \in Int
  /\ Length("serial", Serial) \in Int
<1>1. \A n : Digits(n) \in Int
  BY DEF Digits
<1>2. Len(Serial) \in Int
  BY FfiAssumption
<1> QED BY <1>1, <1>2 DEF Length

LEMMA TextTold ==
  ASSUME Core, BufferOK(camera), NEW t \in instance.gets \cap Texts, NEW outNull \in BOOLEAN, NEW room \in Rooms,
         copy_string_out(t, outNull, room)
  PROVE  BufferOK(camera') /\ Told(call')
<1>1. XU_SEL_RPC \in DOMAIN camera
  <2>1. t \in inUse /\ Places(t) = {XU_SEL_RPC}
    BY PlacesAre DEF inUse
  <2> QED BY <2>1 DEF Core, CameraOK
<1>2. CASE (\E rc : rc # "OK" /\ call' = Returned("text", t, rc, <<>>)) /\ UNCHANGED camera
  BY <1>2, ReturnedIs DEF Told
<1>3. CASE ~((\E rc : rc # "OK" /\ call' = Returned("text", t, rc, <<>>)) /\ UNCHANGED camera)
  <2> DEFINE text == Decoded(t, camera'[XU_SEL_RPC])
             done == IF text = <<>>
                     THEN [rc |-> "BAD_RESPONSE", out |-> <<>>, written |-> 0]
                     ELSE Copy(t, text[1], room)
             own == IF t = "firmware" THEN Firmware ELSE Serial
  <2>1. /\ camera' \in AfterSet(camera, XU_SEL_RPC, Request(t))
        /\ call' = [NoCall EXCEPT !.fn = "text", !.of = t, !.rc = done.rc, !.out = done.out,
                                  !.room = room, !.written = done.written, !.sent = Request(t)]
    BY <1>3 DEF copy_string_out
  <2>2. BufferOK(camera') /\ XU_SEL_RPC \in DOMAIN camera'
    <3>1. XU_SEL_RPC \in DOMAIN camera'
      BY <1>1, <2>1, FrameDoes
    <3> QED BY <2>1, <3>1, BufferKept
  <2>3. text \in {<<>>, <<own>>}
    BY <2>2 DEF BufferOK, OwnText, Decoded, Texts
  <2> HIDE DEF text
  <2>4. Length(t, own) \in Int /\ room \in Int
    BY LengthIs, FfiAssumption DEF Texts
  <2>5. done.rc = "OK" => done.out = <<own>> /\ done.written <= room
    <3>1. CASE text = <<>>
      BY <3>1
    <3>2. CASE text = <<own>>
      <4>1. text # <<>> /\ text[1] = own
        BY <3>2
      <4>2. done = Copy(t, own, room)
        BY <4>1
      <4> HIDE DEF done, own
      <4>3. done.rc = "OK" => done.out = <<own>> /\ done.written = Length(t, own) + 1
                               /\ ~(Length(t, own) + 1 > room)
        BY <4>2 DEF Copy, TooLong
      <4> QED BY <2>4, <4>3
    <3> QED BY <2>3, <3>1, <3>2
  <2> HIDE DEF done, own
  <2>6. call'.fn = "text" /\ call'.of = t /\ call'.rc = done.rc /\ call'.out = done.out
        /\ call'.room = room /\ call'.written = done.written
    BY <2>1 DEF NoCall
  <2>7. Told(call')
    BY <2>5, <2>6 DEF Told, own
  <2> QED BY <2>2, <2>7
<1> QED BY <1>2, <1>3

LEMMA StatusTold ==
  ASSUME Core, BufferOK(camera), NEW outNull \in BOOLEAN, obsbot_device_status(outNull)
  PROVE  BufferOK(camera') /\ Told(call')
<1>1. XU_SEL_RPC \in DOMAIN camera
  <2>1. "status" \in inUse /\ Places("status") = {XU_SEL_RPC}
    BY PlacesAre DEF obsbot_device_status
  <2> QED BY <2>1 DEF Core, CameraOK
<1>2. CASE call' = Returned("status", "none", "NOT_FOUND", <<>>) /\ UNCHANGED camera
  BY <1>2, ReturnedIs DEF Told
<1>3. CASE \E after \in AfterSet(camera, XU_SEL_RPC, Request("firmware")) :
           \E read \in SUBSET Texts, failed \in Failures :
             /\ camera' \in AfterSet(after, XU_SEL_RPC, Request("serial"))
             /\ LET Text(t, cam) == IF t \in read THEN Decoded(t, cam[XU_SEL_RPC]) ELSE <<>>
                IN call' = Returned("status", "none", "OK",
                                    <<Snapshot(Measured \ UNION failed, Text("firmware", after),
                                               Text("serial", camera'))>>)
  <2>1. PICK after \in AfterSet(camera, XU_SEL_RPC, Request("firmware")), read \in SUBSET Texts,
             failed \in Failures :
             /\ camera' \in AfterSet(after, XU_SEL_RPC, Request("serial"))
             /\ call' = Returned("status", "none", "OK",
                  <<Snapshot(Measured \ UNION failed,
                             IF "firmware" \in read THEN Decoded("firmware", after[XU_SEL_RPC]) ELSE <<>>,
                             IF "serial" \in read THEN Decoded("serial", camera'[XU_SEL_RPC]) ELSE <<>>)>>)
    BY <1>3
  <2>2. BufferOK(after) /\ BufferOK(camera')
    BY <2>1, BufferKept
  <2>3. XU_SEL_RPC \in DOMAIN after /\ XU_SEL_RPC \in DOMAIN camera'
    BY <1>1, <2>1, FrameDoes
  <2> DEFINE firmware == IF "firmware" \in read THEN Decoded("firmware", after[XU_SEL_RPC]) ELSE <<>>
             serial == IF "serial" \in read THEN Decoded("serial", camera'[XU_SEL_RPC]) ELSE <<>>
             told == Snapshot(Measured \ UNION failed, firmware, serial)
  <2>4. firmware \in {<<>>, <<Firmware>>} /\ serial \in {<<>>, <<Serial>>}
    BY <2>2, <2>3 DEF BufferOK, OwnText, Decoded
  <2>5. call' = Returned("status", "none", "OK", <<told>>)
    BY <2>1
  <2> HIDE DEF firmware, serial
  <2>6. told.firmware = firmware /\ told.serial = serial /\ <<told>>[1] = told
    BY DEF Snapshot
  <2> HIDE DEF told
  <2>7. call'.fn = "status" /\ call'.out[1] = told
    BY <2>5, <2>6, ReturnedIs
  <2> QED BY <2>2, <2>4, <2>6, <2>7 DEF Told
<1> QED BY <1>2, <1>3 DEF obsbot_device_status

LEMMA EventTold ==
  ASSUME QueueOK, NEW outNull \in BOOLEAN, obsbot_devices_poll_event(outNull)
  PROVE  QueueOK' /\ Told(call') /\ Taken
<1>1. CASE \E rc : rc # "OK" /\ call' = Returned("poll_event", "none", rc, <<>>) /\ UNCHANGED queue
  <2>1. call'.rc # "OK" /\ QueueOK'
    BY <1>1, ReturnedIs DEF QueueOK, EventQueued
  <2> QED BY <2>1 DEF Told, Taken
<1>2. CASE /\ queue # <<>>
           /\ LET copied == copy_into_buf(OBSBOT_STR_MAX, queue[1].serial)
              IN call' = [Returned("poll_event", "none", "OK", <<[queue[1] EXCEPT !.serial = copied]>>)
                            EXCEPT !.room = OBSBOT_STR_MAX, !.written = Len(copied) + 1]
           /\ queue' = <<>>
  <2>1. PICK s \in UsbSerials : EventQueued(s)
    BY <1>2 DEF QueueOK
  <2>2. PICK kind, status : queue = <<[kind |-> kind, serial |-> s, status |-> status]>>
    BY <2>1 DEF EventQueued
  <2> DEFINE event == [kind |-> kind, serial |-> s, status |-> status]
             n == Len(s)
             m == IF n < OBSBOT_STR_MAX - 1 THEN n ELSE OBSBOT_STR_MAX - 1
             copied == SubSeq(s, 1, m)
             rest == SubSeq(s, m + 1, n)
             out == [event EXCEPT !.serial = copied]
  <2>3. queue[1] = event /\ event.serial = s /\ out.serial = copied /\ <<out>>[1] = out
    BY <2>2
  <2>4. s \in Seq(u8) /\ n \in Nat
    BY FfiAssumption
  <2>5. m \in 0..n /\ m <= 63 /\ (m < n => m = 63) /\ OBSBOT_STR_MAX = 64 /\ m + 1 \in 1..(n + 1)
    BY <2>4 DEF OBSBOT_STR_MAX
  <2>6. Len(copied) = m /\ s = copied \o rest /\ (rest # <<>> => m < n)
    BY <2>4, <2>5, TwoParts DEF n
  <2>7. copy_into_buf(OBSBOT_STR_MAX, s) = copied
    BY DEF copy_into_buf
  <2> HIDE DEF event
  <2>8. call' = [Returned("poll_event", "none", "OK", <<out>>)
                   EXCEPT !.room = OBSBOT_STR_MAX, !.written = m + 1]
    BY <1>2, <2>3, <2>6, <2>7
  <2> HIDE DEF out
  <2>9. call'.rc = "OK" /\ call'.fn = "poll_event" /\ call'.out = <<out>> /\ call'.written = m + 1
    BY <2>8 DEF Returned, NoCall
  <2> HIDE DEF copied, m, n
  <2>10. Told(call')
    BY <2>5, <2>9 DEF Told
  <2>11. rest \in {SubSeq(s, i, Len(s)) : i \in 1..(Len(s) + 1)}
    BY <2>5 DEF n
  <2> HIDE DEF rest
  <2>12. s = call'.out[1].serial \o rest
    BY <2>3, <2>6, <2>9
  <2>13. rest # <<>> => call'.written = OBSBOT_STR_MAX
    BY <2>5, <2>6, <2>9
  <2>14. Taken
    BY <2>3, <2>11, <2>12, <2>13 DEF Taken
  <2>15. QueueOK'
    BY <1>2 DEF QueueOK
  <2> QED BY <2>10, <2>14, <2>15
<1>3. \A rc \in {"NOT_FOUND", "TIMEOUT"} : rc # "OK"
  OBVIOUS
<1> QED BY <1>1, <1>2, <1>3 DEF obsbot_devices_poll_event

LEMMA SetKeepsBuffer ==
  ASSUME Core, BufferOK(camera), NEW c \in setters, NEW a \in instance.args[c], set(c, a)
  PROVE  BufferOK(camera')
<1>1. c \in Setters
  BY InstanceIs DEF Core
<1>2. ASSUME DOMAIN camera' = DOMAIN camera, XU_SEL_RPC \in DOMAIN camera => camera'[XU_SEL_RPC] = camera[XU_SEL_RPC]
      PROVE  BufferOK(camera')
  BY <1>2 DEF BufferOK
<1>3. CASE UNCHANGED camera
  BY <1>2, <1>3
<1>4. CASE Accepts(c, a) /\ camera' \in AfterSets(Sets(c, a))
  <2>1. CASE c = "face_focus"
    <3>1. camera' \in AfterSet(camera, XU_SEL_RPC, FaceFocusRequest[Flag(a[1])])
      BY <1>1, <1>4, <2>1, SetsAre, OneTransfer
    <3> QED BY <3>1, BufferKept
  <2>2. CASE c # "face_focus"
    <3>1. /\ DOMAIN camera' = DOMAIN camera
          /\ \A at \in DOMAIN camera \ Changes(c) : camera'[at] = camera[at]
      BY <1>4, SetChanges DEF Core
    <3>2. XU_SEL_RPC \notin Changes(c)
      <4>1. XU_SEL_RPC \notin WhiteBalance /\ \A d \in DOMAIN Address : Address[d] # XU_SEL_RPC
        BY AddressesDiffer
      <4>2. c = "white_balance" \/ c \in DOMAIN Address
        BY <1>1, <2>2 DEF Setters, Controls
      <4>3. "ai_mode" \in DOMAIN Address
        BY DEF Address, Modes, ModeAddress
      <4> QED BY <2>2, <4>1, <4>2, <4>3 DEF Changes
    <3> QED BY <1>2, <3>1, <3>2
  <2> QED BY <2>1, <2>2
<1>5. CASE \E done \in 0..(Len(Sets(c, a)) - 1) : camera' \in AfterSets(SubSeq(Sets(c, a), 1, done))
  <2> DEFINE auto == WHITE_BALANCE_TEMPERATURE_AUTO
             v == Held(linux, auto, Le1(0))
  <2>1. camera' = camera \/ camera' = [camera EXCEPT ![auto] = v]
    BY <1>1, <1>5, PartOfASet
  <2>2. auto # XU_SEL_RPC
    BY AddressesDiffer DEF WhiteBalance
  <2> HIDE DEF auto, v
  <2> QED BY <1>2, <2>1, <2>2
<1> QED BY <1>3, <1>4, <1>5 DEF set, TurnedDown

TextInv == BufferOK(camera) /\ QueueOK /\ Told(call)

LEMMA NextIsTold ==
  ASSUME OthersAskIt, Core, TextInv, [Next]_vars
  PROVE  TextInv' /\ Told(call') /\ Taken
<1>1. CASE UNCHANGED <<camera, queue, call>>
  BY <1>1 DEF TextInv, QueueOK, EventQueued, Taken
<1>2. CASE obsbot_devices_new \/ obsbot_devices_open_first \/ obsbot_device_close
  <2>1. call'.fn \in {"new", "free", "open", "close"}
    BY <1>2, CallsAre DEF Call
  <2>2. UNCHANGED <<camera, queue>>
    BY <1>2 DEF obsbot_devices_new, obsbot_devices_open_first, obsbot_device_close
  <2> QED BY <2>1, <2>2 DEF TextInv, Told, Taken, QueueOK, EventQueued
<1>3. CASE obsbot_devices_free
  <2>1. call'.fn \in {"new", "free", "open", "close"}
    BY <1>3, CallsAre DEF Call
  <2>2. UNCHANGED camera /\ queue' = <<>>
    BY <1>3 DEF obsbot_devices_free
  <2> QED BY <2>1, <2>2 DEF TextInv, Told, Taken, QueueOK
<1>4. ASSUME NEW n, obsbot_device_set_status_cadence(n) PROVE TextInv' /\ Told(call') /\ Taken
  <2>1. call'.fn = "cadence"
    BY <1>4, CallsAre DEF Call
  <2>2. UNCHANGED <<camera, queue>>
    BY <1>4 DEF obsbot_device_set_status_cadence
  <2> QED BY <2>1, <2>2 DEF TextInv, Told, Taken, QueueOK, EventQueued
<1>5. ASSUME NEW c \in setters, NEW a \in instance.args[c], set(c, a)
      PROVE  TextInv' /\ Told(call') /\ Taken
  <2>1. call'.fn = "set"
    BY <1>5, CallsAre DEF Call
  <2>2. UNCHANGED queue /\ BufferOK(camera')
    BY <1>5, SetKeepsBuffer DEF set, TextInv
  <2> QED BY <2>1, <2>2 DEF TextInv, Told, Taken, QueueOK, EventQueued
<1>6. ASSUME NEW c, NEW outNull \in BOOLEAN, get(c, outNull) PROVE TextInv' /\ Told(call') /\ Taken
  <2>1. call'.fn = "get"
    BY <1>6, CallsAre DEF Call
  <2>2. UNCHANGED <<camera, queue>>
    BY <1>6 DEF get
  <2> QED BY <2>1, <2>2 DEF TextInv, Told, Taken, QueueOK, EventQueued
<1>7. ASSUME NEW t \in instance.gets \cap Texts, NEW outNull \in BOOLEAN, NEW room \in Rooms,
             copy_string_out(t, outNull, room)
      PROVE  TextInv' /\ Told(call') /\ Taken
  <2>1. UNCHANGED queue /\ call'.fn = "text"
    BY <1>7, CallsAre DEF copy_string_out, Call
  <2>2. BufferOK(camera') /\ Told(call')
    BY <1>7, TextTold DEF TextInv
  <2> QED BY <2>1, <2>2 DEF TextInv, Taken, QueueOK, EventQueued
<1>8. ASSUME NEW outNull \in BOOLEAN, obsbot_device_status(outNull)
      PROVE  TextInv' /\ Told(call') /\ Taken
  <2>1. UNCHANGED queue /\ call'.fn = "status"
    BY <1>8, CallsAre DEF obsbot_device_status, Call
  <2>2. BufferOK(camera') /\ Told(call')
    BY <1>8, StatusTold DEF TextInv
  <2> QED BY <2>1, <2>2 DEF TextInv, Taken, QueueOK, EventQueued
<1>9. ASSUME NEW outNull \in BOOLEAN, obsbot_devices_poll_event(outNull)
      PROVE  TextInv' /\ Told(call') /\ Taken
  <2>1. UNCHANGED camera
    BY <1>9 DEF obsbot_devices_poll_event
  <2>2. QueueOK' /\ Told(call') /\ Taken
    BY <1>9, EventTold DEF TextInv
  <2> QED BY <2>1, <2>2 DEF TextInv
<1>10. CASE Sent
  <2>1. UNCHANGED <<camera, call>> /\ queue = <<>> /\ QueueOK'
    BY <1>10 DEF Sent, QueueOK, EventQueued
  <2> QED BY <2>1 DEF TextInv, Taken
<1>11. ASSUME NEW at \in instance.others, Changed(at) PROVE TextInv' /\ Told(call') /\ Taken
  <2>1. PICK v \in Contents[<<linux, at>>] : camera' = [camera EXCEPT ![at] = v]
    BY <1>11 DEF Changed
  <2>2. at = XU_SEL_RPC => OwnText(v)
    <3>1. <<linux, at>> \in DOMAIN Contents /\ <<linux, at>>[2] = at
      BY InstanceIs DEF Core
    <3> QED BY <2>1, <3>1 DEF OthersAskIt
  <2>3. BufferOK(camera')
    BY <2>1, <2>2 DEF BufferOK, TextInv
  <2>4. UNCHANGED <<queue, call>>
    BY <1>11 DEF Changed
  <2> QED BY <2>3, <2>4 DEF TextInv, Taken, QueueOK, EventQueued
<1>12. CASE UNCHANGED vars
  BY <1>1, <1>12 DEF vars
<1> QED BY <1>2, <1>3, <1>4, <1>5, <1>6, <1>7, <1>8, <1>9, <1>10, <1>11, <1>12 DEF Next

\* For every instance: if whatever other programs left in the RPC buffer reads as no
\* other camera's text, a text answered OBSBOT_OK is the camera's own, whole and
\* within the caller's buffer, and that of an event as much of it as fits.
THEOREM TextsStayWhole == ASSUME OthersAskIt PROVE Spec => TextsAreWhole
<1>1. Init => Core /\ TextInv
  <2>1. ASSUME Init PROVE BufferOK(camera)
    <3>1. XU_SEL_RPC \in DOMAIN camera => camera[XU_SEL_RPC] = Zeros
      <4>1. Initially(XU_SEL_RPC) = Zeros
        BY AddressesDiffer DEF Initially
      <4> QED BY <2>1, <4>1 DEF Init
    <3> QED BY <3>1, RepliesOwn DEF BufferOK
  <2>2. ASSUME Init PROVE QueueOK /\ Told(call)
    BY <2>2 DEF Init, QueueOK, Told, NoCall
  <2> QED BY <2>1, <2>2, CoreInit DEF TextInv
<1>2. Core /\ TextInv /\ [Next]_vars => Core' /\ TextInv'
  BY CoreNext, NextIsTold
<1>3. Core /\ TextInv /\ [Next]_vars => Told(call') /\ Taken
  BY NextIsTold
<1>4. Told(call') /\ Taken =>
        (call'.rc = "OK" =>
           /\ call'.fn = "text" => /\ call'.out = <<IF call'.of = "firmware" THEN Firmware ELSE Serial>>
                                   /\ call'.written <= call'.room
           /\ call'.fn = "status" => /\ call'.out[1].firmware \in {<<>>, <<Firmware>>}
                                     /\ call'.out[1].serial \in {<<>>, <<Serial>>}
           /\ call'.fn = "poll_event" => call'.written <= OBSBOT_STR_MAX
           /\ call'.fn = "poll_event" /\ queue # <<>> /\ queue' = <<>> =>
                \E rest \in {SubSeq(queue[1].serial, n, Len(queue[1].serial)) :
                              n \in 1..(Len(queue[1].serial) + 1)} :
                  /\ queue[1].serial = call'.out[1].serial \o rest
                  /\ rest # <<>> => call'.written = OBSBOT_STR_MAX)
  BY DEF Told, Taken
<1> QED BY <1>1, <1>2, <1>3, <1>4, PTL DEF Spec, TextsAreWhole

-----------------------------------------------------------------------------
(* What is sent.  A checksum is a fold over the bytes, and its value stays  *)
(* TLC's to compute; all else of a frame, and which one is sent, is here.  *)

\* Bytes that are followed by zeros, and the bytes s laid over them at an offset.
Place(t, i) == IF i < Len(t) THEN t[i + 1] ELSE 0
Overlaid(t, at, s, n, r) ==
  \A i \in 0..59 : (IF at <= i /\ i < at + n THEN s[i - at + 1] ELSE Place(t, i)) = Place(r, i)

LEMMA CopiedTo ==
  ASSUME NEW t, NEW at \in Nat, NEW s, NEW n \in Nat, Len(s) = n, NEW r, Overlaid(t, at, s, n, r)
  PROVE  Copied(Padded(t), at, s) = Padded(r)
<1> DEFINE new == Copied(Padded(t), at, s)
<1>1. ASSUME NEW i \in 0..59 PROVE new[i] = Place(r, i)
  <2>1. new[i] = IF i \in at..(at + n - 1) THEN s[i - at + 1] ELSE Place(t, i)
    BY SMT DEF Copied, Padded, RPC_FRAME_LEN, Place
  <2>2. at <= i /\ i < at + n <=> i \in at..(at + n - 1)
    OBVIOUS
  <2> HIDE DEF new
  <2> QED BY <2>1, <2>2 DEF Overlaid
<1>2. new = [i \in 0..59 |-> new[i]]
  BY DEF Copied, Padded, RPC_FRAME_LEN
<1> HIDE DEF new
<1>3. new = [i \in 0..59 |-> Place(r, i)]
  BY <1>1, <1>2
<1> QED BY <1>3 DEF new, Padded, RPC_FRAME_LEN, Place

\* r is s and then t.
Starts(r, s, n) == \A i \in 1..n : r[i] = s[i]
Ends(r, t, n, m) == \A i \in 1..m : r[n + i] = t[i]

LEMMA SameBytes ==
  ASSUME NEW s \in Seq(u8), NEW t \in Seq(u8), NEW n \in Nat, Len(s) = n, Len(t) = n,
         \A i \in 1..n : s[i] = t[i]
  PROVE  s = t
BY SMTT(30)

LEMMA JoinedIs ==
  ASSUME NEW s \in Seq(u8), NEW t \in Seq(u8), NEW r \in Seq(u8), NEW n \in Nat, NEW m \in Nat, NEW k,
         Len(s) = n, Len(t) = m, Len(r) = k, k = n + m, Starts(r, s, n), Ends(r, t, n, m)
  PROVE  s \o t = r
<1> USE DEF Starts, Ends
<1> DEFINE st == s \o t
<1>1. st \in Seq(u8) /\ Len(st) = n + m /\ \A i \in 1..n : st[i] = s[i]
  BY BytesJoined
<1>2. \A i \in 1..m : st[n + i] = t[i]
  BY BytesJoined
<1> HIDE DEF st
<1>3. ASSUME NEW i \in 1..(n + m) PROVE st[i] = r[i]
  <2>1. CASE i <= n
    BY <1>1, <2>1
  <2>2. CASE i > n
    <3>1. i - n \in 1..m /\ n + (i - n) = i
      BY <2>2
    <3>2. st[n + (i - n)] = t[i - n] /\ r[n + (i - n)] = t[i - n]
      BY <3>1, <1>2
    <3> QED BY <3>1, <3>2
  <2> QED BY <2>1, <2>2
<1>4. st = r
  BY <1>1, <1>3, SameBytes
<1> QED BY <1>4 DEF st

\* A frame before its payload, its tail and its checksums.
HeadBytes(q, p, x, y, z, n) == <<170, q, p, 0, 12, 0, 0, 0, 10, x, y, z, n, 0>>
Header(q, p, x, y, z, n) ==
  Copied(Copied(Zeros, 0, <<170, q, p, 0, 12, 0>>), 8, <<10, x, y, z>> \o u16_le(n))

LEMMA HeaderIs ==
  ASSUME NEW q \in u8, NEW p \in u8, NEW x \in u8, NEW y \in u8, NEW z \in u8, NEW n \in {0, 4}
  PROVE  Header(q, p, x, y, z, n) = Padded(HeadBytes(q, p, x, y, z, n))
<1> DEFINE t1 == <<170, q, p, 0, 12, 0>>
           s  == <<10, x, y, z>>
           l  == <<n, 0>>
           s2 == <<10, x, y, z, n, 0>>
           t2 == HeadBytes(q, p, x, y, z, n)
<1>1. Copied(Zeros, 0, t1) = Padded(t1)
  <2>1. Zeros = Padded(<<>>)
    BY DEF Zeros, Padded
  <2>2. Overlaid(<<>>, 0, t1, 6, t1)
    BY SMTT(30) DEF Overlaid, Place
  <2>3. Len(t1) = 6
    OBVIOUS
  <2> HIDE DEF t1
  <2> QED BY <2>1, <2>2, <2>3, CopiedTo
<1>2. s \o u16_le(n) = s2
  <2>1. u16_le(n) = l
    BY DEF u16_le
  <2>2. s \in Seq(u8) /\ l \in Seq(u8) /\ s2 \in Seq(u8) /\ Len(s) = 4 /\ Len(l) = 2 /\ Len(s2) = 6
    BY DEF u8
  <2>3. Starts(s2, s, 4) /\ Ends(s2, l, 4, 2)
    BY DEF Starts, Ends
  <2> HIDE DEF s, l, s2
  <2>4. s \o l = s2
    BY <2>2, <2>3, 4 + 2 = 6, JoinedIs
  <2> QED BY <2>1, <2>4
<1>3. Copied(Padded(t1), 8, s2) = Padded(t2)
  <2>1. Overlaid(t1, 8, s2, 6, t2)
    BY SMTT(30) DEF Overlaid, Place, HeadBytes
  <2>2. Len(s2) = 6
    OBVIOUS
  <2> HIDE DEF t1, s2, t2
  <2> QED BY <2>1, <2>2, CopiedTo
<1>4. Header(q, p, x, y, z, n) = Copied(Copied(Zeros, 0, t1), 8, s \o u16_le(n))
  BY DEF Header
<1> HIDE DEF t1, s, s2, t2
<1>5. Header(q, p, x, y, z, n) = Padded(t2)
  BY <1>1, <1>2, <1>3, <1>4
<1> QED BY <1>5 DEF t2

\* The MAC of the camera that was listened to, and as two of the requests have it.
RecordedMac  == <<173, 182, 27, 152, 220, 141>>
RecordedTail == <<173, 182, 27, 152, 220, 141, 1, 1>>

LEMMA TailIs == RecordedMac \o <<1, 1>> = RecordedTail
<1> DEFINE s == RecordedMac t == <<1, 1>> r == RecordedTail
<1>1. s \in Seq(u8) /\ t \in Seq(u8) /\ r \in Seq(u8) /\ Len(s) = 6 /\ Len(t) = 2 /\ Len(r) = 8
  BY DEF RecordedMac, RecordedTail, u8
<1>2. Starts(r, s, 6) /\ Ends(r, t, 6, 2)
  BY DEF Starts, Ends, RecordedMac, RecordedTail
<1> HIDE DEF s, t, r
<1>3. s \o t = r
  BY <1>1, <1>2, 6 + 2 = 8, JoinedIs
<1> QED BY <1>3 DEF s, t, r

\* What the two checksums are taken of, and what the camera was seen to take for them.
Summed(q, p, x, y, z) == <<170, q, p, 0, 12, 0, 0, 0, 10, x, y, z>>
SummedInner(on) == <<4, 0, 0, 0, on, 0, 0, 0>>

ChecksumsKnown ==
  /\ u16_le(crc16_usb(Summed(1, 1, 13, 8, 4))) = <<193, 80>>
  /\ u16_le(crc16_usb(Summed(1, 3, 13, 200, 24))) = <<49, 83>>
  /\ u16_le(crc16_usb(Summed(37, 4, 2, 2, 54))) = <<216, 198>>
  /\ u16_le(crc16_usb(SummedInner(0))) = <<190, 7>>
  /\ u16_le(crc16_usb(SummedInner(1))) = <<191, 251>>

\* A frame without a payload, by the steps of build_rpc_frame.
Steps(q, p, x, y, z, at, tail, full, sum, frame) ==
  /\ {q, p, x, y, z} \subseteq u8 /\ (q \div 32) % 4 = 0 /\ at \in Nat
  /\ \E n \in Nat : Len(tail) = n /\ Overlaid(HeadBytes(q, p, x, y, z, 0), at, tail, n, full)
  /\ Slice(Padded(full), 0, 12) = Summed(q, p, x, y, z)
  /\ u16_le(crc16_usb(Summed(q, p, x, y, z))) = sum
  /\ Len(sum) = 2 /\ Overlaid(full, 6, sum, 2, frame)

LEMMA FrameWithoutPayload ==
  ASSUME NEW q, NEW p, NEW x, NEW y, NEW z, NEW at, NEW tail, NEW full, NEW sum, NEW frame,
         Steps(q, p, x, y, z, at, tail, full, sum, frame)
  PROVE  build_rpc_frame(q, p, x, y, z, <<>>, at, tail) = Padded(frame)
<1> USE DEF Steps
<1> DEFINE t == HeadBytes(q, p, x, y, z, 0)
           logical == Copied(Copied(Header(q, p, x, y, z, 0), 16, <<>>), at, tail)
<1>1. Copied(Padded(t), 16, <<>>) = Padded(t)
  <2>1. Overlaid(t, 16, <<>>, 0, t)
    BY SMTT(30) DEF Overlaid
  <2> HIDE DEF t
  <2> QED BY <2>1, Len(<<>>) = 0, CopiedTo
<1>2. Header(q, p, x, y, z, 0) = Padded(t)
  BY HeaderIs
<1>3. Copied(Padded(t), at, tail) = Padded(full)
  BY CopiedTo
<1> HIDE DEF t
<1>4. logical = Padded(full)
  BY <1>1, <1>2, <1>3
<1>5. build_rpc_frame(q, p, x, y, z, <<>>, at, tail)
        = Copied(logical, 6, u16_le(crc16_usb(Slice(logical, 0, 12))))
  BY Len(<<>>) = 0 DEF build_rpc_frame, Header
<1> HIDE DEF logical
<1>6. Copied(Padded(full), 6, sum) = Padded(frame)
  <2>1. Overlaid(full, 6, sum, 2, frame) /\ Len(sum) = 2 /\ 6 \in Nat /\ 2 \in Nat
    OBVIOUS
  <2> QED BY ONLY <2>1, CopiedTo
<1> QED BY <1>4, <1>5, <1>6

LEMMA FirmwareFrame ==
  ASSUME Mac = RecordedMac, ChecksumsKnown
  PROVE  FirmwareRequest = RPC_REQUEST_FIRMWARE
<1> DEFINE full  == <<170, 1, 1, 0, 12, 0, 0, 0, 10, 13, 8, 4, 0, 0, 0, 0, 0, 0, 173, 182, 27, 152, 220, 141>>
           sum   == <<193, 80>>
           frame == <<170, 1, 1, 0, 12, 0, 193, 80, 10, 13, 8, 4, 0, 0, 0, 0, 0, 0, 173, 182, 27, 152, 220, 141>>
<1>1. Overlaid(HeadBytes(1, 1, 13, 8, 4, 0), 18, RecordedMac, 6, full)
  BY SMTT(30) DEF Overlaid, Place, RecordedMac, HeadBytes
<1>2. Slice(Padded(full), 0, 12) = Summed(1, 1, 13, 8, 4)
  BY SMTT(30) DEF Slice, Padded, Summed, RPC_FRAME_LEN
<1>3. Overlaid(full, 6, sum, 2, frame)
  BY SMTT(30) DEF Overlaid, Place
<1>4. Len(RecordedMac) = 6 /\ Len(sum) = 2
  BY DEF RecordedMac
<1>5. 1 \in u8 /\ 13 \in u8 /\ 8 \in u8 /\ 4 \in u8 /\ (1 \div 32) % 4 = 0
  BY DEF u8
<1>6. u16_le(crc16_usb(Summed(1, 1, 13, 8, 4))) = sum
  BY DEF ChecksumsKnown
<1>7. RPC_REQUEST_FIRMWARE = Padded(frame)
  BY DEF RPC_REQUEST_FIRMWARE
<1> HIDE DEF full, sum, frame
<1>8. Steps(1, 1, 13, 8, 4, 18, RecordedMac, full, sum, frame)
  BY <1>1, <1>2, <1>3, <1>4, <1>5, <1>6 DEF Steps
<1>9. build_rpc_frame(1, 1, 13, 8, 4, <<>>, 18, RecordedMac) = Padded(frame)
  BY <1>8, FrameWithoutPayload
<1> QED BY <1>7, <1>9 DEF FirmwareRequest, firmware_request

LEMMA SerialFrame ==
  ASSUME Mac = RecordedMac, ChecksumsKnown
  PROVE  SerialRequest = RPC_REQUEST_SERIAL
<1> DEFINE full  == <<170, 1, 3, 0, 12, 0, 0, 0, 10, 13, 200, 24, 0, 0, 0, 0, 0, 0, 0, 0, 0, 0, 0, 0,
                      173, 182, 27, 152, 220, 141, 1, 1>>
           sum   == <<49, 83>>
           frame == <<170, 1, 3, 0, 12, 0, 49, 83, 10, 13, 200, 24, 0, 0, 0, 0, 0, 0, 0, 0, 0, 0, 0, 0,
                      173, 182, 27, 152, 220, 141, 1, 1>>
<1>1. Overlaid(HeadBytes(1, 3, 13, 200, 24, 0), 24, RecordedTail, 8, full)
  BY SMTT(30) DEF Overlaid, Place, RecordedTail, HeadBytes
<1>2. Slice(Padded(full), 0, 12) = Summed(1, 3, 13, 200, 24)
  BY SMTT(30) DEF Slice, Padded, Summed, RPC_FRAME_LEN
<1>3. Overlaid(full, 6, sum, 2, frame)
  BY SMTT(30) DEF Overlaid, Place
<1>4. Len(RecordedTail) = 8 /\ Len(sum) = 2
  BY DEF RecordedTail
<1>5. 1 \in u8 /\ 3 \in u8 /\ 13 \in u8 /\ 200 \in u8 /\ 24 \in u8 /\ (1 \div 32) % 4 = 0
  BY DEF u8
<1>6. u16_le(crc16_usb(Summed(1, 3, 13, 200, 24))) = sum
  BY DEF ChecksumsKnown
<1>7. RPC_REQUEST_SERIAL = Padded(frame)
  BY DEF RPC_REQUEST_SERIAL
<1> HIDE DEF full, sum, frame
<1>8. Steps(1, 3, 13, 200, 24, 24, RecordedTail, full, sum, frame)
  BY <1>1, <1>2, <1>3, <1>4, <1>5, <1>6 DEF Steps
<1>9. build_rpc_frame(1, 3, 13, 200, 24, <<>>, 24, RecordedTail) = Padded(frame)
  BY <1>8, FrameWithoutPayload
<1> QED BY <1>7, <1>9, TailIs DEF SerialRequest, serial_request

\* The one request with a payload and the second checksum.
LEMMA FaceFocusFrameIs ==
  ASSUME Mac = RecordedMac, ChecksumsKnown, NEW on \in {0, 1},
         NEW lo, NEW hi, u16_le(crc16_usb(SummedInner(on))) = <<lo, hi>>
  PROVE  FaceFocusRequest[on]
           = Padded(<<170, 37, 4, 0, 12, 0, 216, 198, 10, 2, 2, 54, 4, 0, lo, hi, on, 0, 0, 0, 0, 0, 0, 0, 0, 0,
                      173, 182, 27, 152, 220, 141, 1, 1>>)
<1> DEFINE t       == HeadBytes(37, 4, 2, 2, 54, 4)
           payload == <<on, 0, 0, 0>>
           t2      == <<170, 37, 4, 0, 12, 0, 0, 0, 10, 2, 2, 54, 4, 0, 0, 0, on>>
           full    == <<170, 37, 4, 0, 12, 0, 0, 0, 10, 2, 2, 54, 4, 0, 0, 0, on, 0, 0, 0, 0, 0, 0, 0, 0, 0,
                        173, 182, 27, 152, 220, 141, 1, 1>>
           sum     == <<216, 198>>
           summed  == <<170, 37, 4, 0, 12, 0, 216, 198, 10, 2, 2, 54, 4, 0, 0, 0, on, 0, 0, 0, 0, 0, 0, 0, 0, 0,
                        173, 182, 27, 152, 220, 141, 1, 1>>
           inner   == <<lo, hi>>
           frame   == <<170, 37, 4, 0, 12, 0, 216, 198, 10, 2, 2, 54, 4, 0, lo, hi, on, 0, 0, 0, 0, 0, 0, 0, 0, 0,
                        173, 182, 27, 152, 220, 141, 1, 1>>
           logical == Copied(Copied(Header(37, 4, 2, 2, 54, 4), 16, payload), 26, RecordedTail)
           outer   == Copied(logical, 6, u16_le(crc16_usb(Slice(logical, 0, 12))))
<1>1. Overlaid(t, 16, payload, 4, t2)
  BY SMTT(30) DEF Overlaid, Place, HeadBytes
<1>2. Overlaid(t2, 26, RecordedTail, 8, full)
  BY SMTT(30) DEF Overlaid, Place, RecordedTail
<1>3. Slice(Padded(full), 0, 12) = Summed(37, 4, 2, 2, 54)
  BY SMTT(30) DEF Slice, Padded, Summed, RPC_FRAME_LEN
<1>4. Overlaid(full, 6, sum, 2, summed)
  BY SMTT(30) DEF Overlaid, Place
<1>5. Slice(Padded(summed), 12, 20) = SummedInner(on)
  BY SMTT(30) DEF Slice, Padded, SummedInner, RPC_FRAME_LEN
<1>6. Overlaid(summed, 14, inner, 2, frame)
  BY SMTT(30) DEF Overlaid, Place
<1>7. Len(payload) = 4 /\ Len(RecordedTail) = 8 /\ Len(sum) = 2 /\ Len(inner) = 2
  BY DEF RecordedTail
<1>8. 37 \in u8 /\ 4 \in u8 /\ 2 \in u8 /\ 54 \in u8 /\ (37 \div 32) % 4 # 0 /\ 16 + 4 = 20
  BY DEF u8
<1>9. u16_le(crc16_usb(Summed(37, 4, 2, 2, 54))) = sum
  BY DEF ChecksumsKnown
<1>10. Header(37, 4, 2, 2, 54, 4) = Padded(t)
  BY <1>8, HeaderIs
<1>11. build_rpc_frame(37, 4, 2, 2, 54, payload, 26, RecordedTail)
         = Copied(outer, 14, u16_le(crc16_usb(Slice(outer, 12, 16 + 4))))
  <2> HIDE DEF payload
  <2>1. Header(37, 4, 2, 2, 54, 4)
          = Copied(Copied(Zeros, 0, <<170, 37, 4, 0, 12, 0>>), 8, <<10, 2, 2, 54>> \o u16_le(Len(payload)))
    BY <1>7 DEF Header
  <2> QED BY <1>7, <1>8, <2>1 DEF build_rpc_frame
<1>12. FaceFocusRequest[on] = build_rpc_frame(37, 4, 2, 2, 54, payload, 26, RecordedTail)
  BY TailIs DEF FaceFocusRequest, face_focus_request
<1> HIDE DEF t, payload, t2, full, sum, summed, inner
<1>13. logical = Padded(full)
  <2>1. Copied(Padded(t), 16, payload) = Padded(t2)
    BY <1>1, <1>7, CopiedTo
  <2>2. Copied(Padded(t2), 26, RecordedTail) = Padded(full)
    BY <1>2, <1>7, CopiedTo
  <2> QED BY <1>10, <2>1, <2>2
<1> HIDE DEF logical
<1>14. outer = Padded(summed)
  <2>1. Copied(Padded(full), 6, sum) = Padded(summed)
    BY <1>4, <1>7, CopiedTo
  <2> QED BY <1>3, <1>9, <1>13, <2>1
<1> HIDE DEF outer
<1>15. u16_le(crc16_usb(Slice(outer, 12, 16 + 4))) = inner
  BY <1>5, <1>8, <1>14 DEF inner
<1>16. Copied(Padded(summed), 14, inner) = Padded(frame)
  <2> HIDE DEF frame
  <2> QED BY <1>6, <1>7, CopiedTo
<1> HIDE DEF frame
<1>17. FaceFocusRequest[on] = Padded(frame)
  BY <1>11, <1>12, <1>14, <1>15, <1>16
<1> QED BY <1>17 DEF frame

\* The four frames, byte for byte.
FramesKnown ==
  /\ FirmwareRequest = RPC_REQUEST_FIRMWARE /\ SerialRequest = RPC_REQUEST_SERIAL
  /\ FaceFocusRequest[0] = RPC_REQUEST_FACE_FOCUS_OFF /\ FaceFocusRequest[1] = RPC_REQUEST_FACE_FOCUS_ON

LEMMA FramesBuilt == ASSUME Mac = RecordedMac, ChecksumsKnown PROVE FramesKnown
<1>1. FaceFocusRequest[0] = RPC_REQUEST_FACE_FOCUS_OFF
  BY FaceFocusFrameIs DEF ChecksumsKnown, RPC_REQUEST_FACE_FOCUS_OFF
<1>2. FaceFocusRequest[1] = RPC_REQUEST_FACE_FOCUS_ON
  BY FaceFocusFrameIs DEF ChecksumsKnown, RPC_REQUEST_FACE_FOCUS_ON
<1> QED BY <1>1, <1>2, FirmwareFrame, SerialFrame DEF FramesKnown

FaceFocusFrame(a) == IF a = <<0>> THEN RPC_REQUEST_FACE_FOCUS_OFF ELSE RPC_REQUEST_FACE_FOCUS_ON

SentOK ==
  call.sent # <<>> =>
    \/ call.of \in Texts /\ call.sent = Request(call.of)
    \/ /\ call.of = "face_focus" /\ "face_focus" \in setters
       /\ call.sent = FaceFocusFrame(asked["face_focus"])

LEMMA SentByASet ==
  ASSUME FramesKnown, Core, NEW c \in setters, NEW a \in instance.args[c], set(c, a)
  PROVE  SentOK'
<1>1. CASE \E rc : call' = Returned("set", c, rc, <<>>)
  BY <1>1, ReturnedIs DEF SentOK
<1>2. CASE /\ call' = [Returned("set", c, "OK", <<>>) EXCEPT
                         !.sent = IF c = "face_focus" THEN Sets(c, a)[1].bytes ELSE <<>>]
           /\ asked' = [Forget(Group(c)) EXCEPT ![c] = a]
  <2>1. /\ call'.of = c
        /\ call'.sent = IF c = "face_focus" THEN Sets(c, a)[1].bytes ELSE <<>>
    BY <1>2 DEF Returned, NoCall
  <2>2. CASE c = "face_focus"
    <3>1. Argument(c, a)
      BY InstanceIs DEF Core
    <3>2. Len(a) = 1 /\ a \in Seq(Int)
      BY <2>2, <3>1 DEF Argument
    <3>3. a = <<0>> <=> a[1] = 0
      BY <3>2
    <3>4. Sets(c, a) = <<SetOf(XU_SEL_RPC, FaceFocusRequest[Flag(a[1])])>>
      BY <2>2, SetsAre DEF Setters
    <3>5. Sets(c, a)[1].bytes = FaceFocusRequest[Flag(a[1])]
      BY <3>4 DEF SetOf
    <3>6. FaceFocusRequest[Flag(a[1])] = FaceFocusFrame(a)
      BY <3>3 DEF Flag, FaceFocusFrame, FramesKnown
    <3>7. asked'["face_focus"] = a
      BY <1>2, <2>2 DEF Forget
    <3>8. UNCHANGED instance
      BY DEF set
    <3> QED BY <2>1, <2>2, <3>5, <3>6, <3>7, <3>8 DEF SentOK, setters
  <2> QED BY <2>1, <2>2 DEF SentOK
<1> QED BY <1>1, <1>2 DEF set

LEMMA SentStays ==
  ASSUME SentOK, UNCHANGED <<instance, call>>,
         "face_focus" \in setters => asked'["face_focus"] = asked["face_focus"]
  PROVE  SentOK'
BY DEF SentOK, setters

LEMMA NothingSent == ASSUME NEW fn, NEW c, NEW rc, NEW out, call' = Returned(fn, c, rc, out) PROVE SentOK'
BY ReturnedIs DEF SentOK

LEMMA SentNext == ASSUME FramesKnown, Core, SentOK, [Next]_vars PROVE SentOK'
<1>1. CASE UNCHANGED <<instance, asked, call>>
  BY <1>1, SentStays
<1>2. CASE obsbot_devices_new \/ obsbot_devices_free \/ obsbot_devices_open_first \/ obsbot_device_close
  BY <1>2, NothingSent DEF obsbot_devices_new, obsbot_devices_free, obsbot_devices_open_first, obsbot_device_close
<1>3. ASSUME NEW n, obsbot_device_set_status_cadence(n) PROVE SentOK'
  BY <1>3, NothingSent DEF obsbot_device_set_status_cadence
<1>4. ASSUME NEW c \in setters, NEW a \in instance.args[c], set(c, a) PROVE SentOK'
  BY <1>4, SentByASet
<1>5. ASSUME NEW c, NEW outNull \in BOOLEAN, get(c, outNull) PROVE SentOK'
  BY <1>5, NothingSent DEF get
<1>6. ASSUME NEW t \in instance.gets \cap Texts, NEW outNull \in BOOLEAN, NEW room \in Rooms,
             copy_string_out(t, outNull, room)
      PROVE  SentOK'
  <2>1. CASE \E rc : call' = Returned("text", t, rc, <<>>)
    BY <2>1, NothingSent
  <2>2. CASE ~(\E rc : call' = Returned("text", t, rc, <<>>))
    <3> DEFINE text == Decoded(t, camera'[XU_SEL_RPC])
               done == IF text = <<>>
                       THEN [rc |-> "BAD_RESPONSE", out |-> <<>>, written |-> 0]
                       ELSE Copy(t, text[1], room)
    <3>1. call' = [NoCall EXCEPT !.fn = "text", !.of = t, !.rc = done.rc, !.out = done.out,
                                 !.room = room, !.written = done.written, !.sent = Request(t)]
      BY <1>6, <2>2 DEF copy_string_out
    <3> HIDE DEF done
    <3>2. call'.of = t /\ call'.sent = Request(t)
      BY <3>1 DEF NoCall
    <3> QED BY <3>2 DEF SentOK
  <2> QED BY <2>1, <2>2
<1>7. ASSUME NEW outNull \in BOOLEAN, obsbot_device_status(outNull) PROVE SentOK'
  <2>1. \E rc, out : call' = Returned("status", "none", rc, out)
    BY <1>7 DEF obsbot_device_status
  <2> QED BY <2>1, NothingSent
<1>8. ASSUME NEW outNull \in BOOLEAN, obsbot_devices_poll_event(outNull) PROVE SentOK'
  <2>1. CASE \E rc : call' = Returned("poll_event", "none", rc, <<>>)
    BY <2>1, NothingSent
  <2>2. CASE \E out, n : call' = [Returned("poll_event", "none", "OK", out) EXCEPT
                                    !.room = OBSBOT_STR_MAX, !.written = n]
    <3>1. PICK out, n : call' = [Returned("poll_event", "none", "OK", out) EXCEPT
                                   !.room = OBSBOT_STR_MAX, !.written = n]
      BY <2>2
    <3>2. call'.sent = <<>>
      BY <3>1 DEF Returned, NoCall
    <3> QED BY <3>2 DEF SentOK
  <2> QED BY <1>8, <2>1, <2>2 DEF obsbot_devices_poll_event
<1>9. CASE Sent
  BY <1>1, <1>9 DEF Sent
<1>10. ASSUME NEW at \in instance.others, Changed(at) PROVE SentOK'
  <2> DEFINE cs == UNION {Group(c) : c \in {d \in setters \ {"face_focus"} : at \in Places(d)}}
  <2>1. asked' = Forget(cs) /\ UNCHANGED <<instance, call>>
    BY <1>10 DEF Changed
  <2>2. "face_focus" \notin cs
    BY DEF Group, Groups
  <2> HIDE DEF cs
  <2>3. "face_focus" \in setters => asked'["face_focus"] = asked["face_focus"]
    BY <2>1, <2>2 DEF Forget
  <2> QED BY <2>1, <2>3, SentStays
<1>11. CASE UNCHANGED vars
  BY <1>1, <1>11 DEF vars
<1> QED BY <1>2, <1>3, <1>4, <1>5, <1>6, <1>7, <1>8, <1>9, <1>10, <1>11 DEF Next

\* For every instance: if the camera's MAC is the recorded one, and the five checksums
\* are those that were recorded with it, every frame sent is byte for byte one the camera
\* was seen to understand, that of the function called and of the value it was called with.
THEOREM FramesAreUnderstood ==
  ASSUME Mac = RecordedMac, ChecksumsKnown
  PROVE  Spec => []RequestsUnderstood
<1>1. FramesKnown
  BY FramesBuilt
<1>2. Init => Core /\ SentOK
  BY CoreInit DEF Init, SentOK, NoCall
<1>3. Core /\ SentOK /\ [Next]_vars => Core' /\ SentOK'
  BY <1>1, CoreNext, SentNext
<1>4. SentOK => RequestsUnderstood
  BY <1>1 DEF SentOK, RequestsUnderstood, FaceFocusFrame, FramesKnown, Request, Texts
<1> QED BY <1>2, <1>3, <1>4, PTL DEF Spec
=============================================================================
