--------------------------- MODULE ResponseCodecProofs --------------------------
(****************************************************************************)
(* What ResponseCodec guarantees for responses of any length, any alphabet, *)
(* any window and any hash.                                                 *)
(*                                                                          *)
(* The format has no grammar in the code: what compress_response wrote is   *)
(* known only by what its readers make of it.  Sequence is that grammar, as *)
(* a relation between two points, each an offset in the response and a      *)
(* place in its bytes, and LeadsTo and Ends say that a chain of sequences   *)
(* joins two points.  The chain is a set of points and not a path counted   *)
(* by recursion, so that a sequence is put before or behind it by adding    *)
(* one point.                                                               *)
(*                                                                          *)
(* CodecInv follows such a chain through the three functions: while         *)
(* compressing, the chain leads from the start to the anchor; a response    *)
(* that is kept has a chain to its end; a reader stands on that chain, and  *)
(* what it has put out is the response up to the offset it stands at.       *)
(****************************************************************************)
EXTENDS ResponseCodec, Recursion, SequenceTheorems

--------------------------------------------------------------------------------
(* Numbers. *)

LEMMA Division ==
  ASSUME NEW a \in Nat, NEW b \in Nat, b > 0
  PROVE  /\ a \div b \in Nat /\ a % b \in 0..(b - 1)
         /\ a = b * (a \div b) + (a % b)
OBVIOUS

\* Quotient and rest are unique.
LEMMA DivisionUnique ==
  ASSUME NEW b \in Nat, b > 0, NEW q \in Int, NEW x \in Int,
         NEW r \in 0..(b - 1), NEW y \in 0..(b - 1), b * q + r = b * x + y
  PROVE  q = x /\ r = y
<1>1. b * (q - x) = y - r /\ b * (x - q) = r - y
  OBVIOUS
<1>2. ASSUME NEW d \in Int, d >= 1 PROVE b * d >= b
  BY <1>2
<1>3. ~(q - x >= 1)
  BY <1>1, <1>2
<1>4. ~(x - q >= 1)
  BY <1>1, <1>2
<1> QED
  BY <1>1, <1>3, <1>4

LEMMA DivisionOf ==
  ASSUME NEW b \in Nat, b > 0, NEW x \in Nat, NEW y \in 0..(b - 1)
  PROVE  (b * x + y) \div b = x /\ (b * x + y) % b = y
<1> DEFINE a == b * x + y
<1>1. a \in Nat
  OBVIOUS
<1> HIDE DEF a
<1>2. /\ a \div b \in Nat /\ a % b \in 0..(b - 1)
      /\ a = b * (a \div b) + (a % b)
  BY <1>1, Division
<1> DEFINE q == a \div b
           r == a % b
<1>3. b * q + r = b * x + y
  BY <1>2 DEF a
<1>4. q \in Int /\ r \in 0..(b - 1) /\ x \in Int
  BY <1>2
<1> HIDE DEF q, r
<1>5. q = x /\ r = y
  BY <1>3, <1>4, DivisionUnique
<1> QED
  BY <1>5 DEF a, q, r

\* Rounding down twice is not more than rounding down once.
LEMMA QuotientsAdd ==
  ASSUME NEW b \in Nat, b > 0, NEW x \in Nat, NEW y \in Nat
  PROVE  (x \div b) + (y \div b) <= (x + y) \div b
<1> DEFINE p == x \div b
           q == y \div b
           s == (x + y) \div b
<1>1. p \in Nat /\ b * p <= x
  BY Division
<1>2. q \in Nat /\ b * q <= y
  BY Division
<1>3. s \in Nat /\ x + y < b * s + b
  <2>1. x + y \in Nat
    OBVIOUS
  <2> QED
    BY <2>1, Division
<1> HIDE DEF p, q, s
<1>4. ASSUME s + 1 <= p + q PROVE FALSE
  <2>1. b * (s + 1) <= b * (p + q)
    BY <1>1, <1>2, <1>3, <1>4
  <2> QED
    BY <1>1, <1>2, <1>3, <2>1
<1>5. p + q <= s
  BY <1>1, <1>2, <1>3, <1>4
<1> QED
  BY <1>5 DEF p, q, s

LEMMA QuotientIsSmaller ==
  ASSUME NEW b \in Nat, b > 0, NEW x \in Nat
  PROVE  x \div b <= x
<1> DEFINE p == x \div b
<1>1. p \in Nat /\ b * p <= x
  BY Division
<1> HIDE DEF p
<1>2. p <= b * p
  BY <1>1
<1>3. p <= x
  BY <1>1, <1>2
<1> QED
  BY <1>3 DEF p

\* Places less than the size of the ring apart are different places.
LEMMA RestsDiffer ==
  ASSUME NEW b \in Nat, b > 0, NEW x \in Nat, NEW y \in Nat, x < y, y - x < b
  PROVE  x % b # y % b
<1> SUFFICES ASSUME x % b = y % b PROVE FALSE
  OBVIOUS
<1> DEFINE p == x \div b
           q == y \div b
           r == x % b
<1>1. p \in Nat /\ x = b * p + r /\ r \in Nat
  BY Division
<1>2. q \in Nat /\ y = b * q + r
  BY Division
<1> HIDE DEF p, q, r
<1>3. b * (q - p) = y - x
  BY <1>1, <1>2
<1>4. q - p >= 1
  <2> SUFFICES ASSUME p - q >= 0 PROVE FALSE
    BY <1>1, <1>2
  <2>1. b * (p - q) >= 0
    BY <1>1, <1>2
  <2>2. b * (p - q) = x - y
    BY <1>1, <1>2
  <2> QED
    BY <2>1, <2>2
<1>5. b * (q - p) >= b
  BY <1>1, <1>2, <1>4
<1> QED
  BY <1>3, <1>5

--------------------------------------------------------------------------------
(* Bytes. *)

Bytes == 0..LengthStep

\* The constants, as the lemmas use them.
LEMMA Constants ==
  /\ Nibble \in Nat /\ Nibble >= 1 /\ MinMatch \in Nat /\ MinMatch >= 1
  /\ Window \in Nat /\ Window >= 1 /\ Window < Byte * Byte
  /\ Byte \in Nat /\ Byte = (Nibble + 1) * Nibble + (Nibble + 1)
  /\ Byte >= Nibble + 2 /\ Byte >= 2 /\ LengthStep \in Nat /\ LengthStep = Byte - 1
  /\ LengthStep > Nibble /\ LengthStep > 0
  /\ Letters \subseteq Bytes /\ Slack \in Nat /\ Limits \subseteq Nat
  /\ SendBuffer \in Nat /\ SendBuffer >= 1 /\ MaxLength \in Nat
<1>1. Nibble \in Nat /\ Nibble >= 1
  BY CodecAssumption DEF CodecAssumption
<1>2. Byte = (Nibble + 1) * Nibble + (Nibble + 1) /\ Byte \in Nat
  BY <1>1 DEF Byte
<1>3. (Nibble + 1) * Nibble >= 1
  BY <1>1
<1>4. /\ Byte >= Nibble + 2 /\ Byte >= 2 /\ LengthStep \in Nat
      /\ LengthStep = Byte - 1 /\ LengthStep > Nibble /\ LengthStep > 0
  BY <1>1, <1>2, <1>3 DEF LengthStep
<1> QED
  BY <1>1, <1>2, <1>4, CodecAssumption DEF CodecAssumption, Bytes

\* length elements of s from place from.
LEMMA PartIs ==
  ASSUME NEW S, NEW s \in Seq(S), NEW from \in Nat, NEW length \in Nat,
         from + length <= Len(s)
  PROVE  /\ Part(s, from, length) \in Seq(S) /\ Len(Part(s, from, length)) = length
         /\ \A k \in 1..length : Part(s, from, length)[k] = s[from + k]
<1>1. from + 1 \in 1..Len(s) + 1 /\ from + length \in from + 1 - 1..Len(s)
  BY LenProperties
<1>2. /\ SubSeq(s, from + 1, from + length) \in Seq(S)
      /\ Len(SubSeq(s, from + 1, from + length)) = length
      /\ \A k \in 1..length : SubSeq(s, from + 1, from + length)[k] = s[from + k]
  BY <1>1
<1> QED
  BY <1>2 DEF Part

\* The first n letters of the response.
Prefix(n) == Part(source, 0, n)

LEMMA PrefixIs ==
  ASSUME source \in Seq(Letters), NEW n \in Nat, n <= Len(source)
  PROVE  /\ Prefix(n) \in Seq(Letters) /\ Len(Prefix(n)) = n
         /\ \A k \in 1..n : Prefix(n)[k] = source[k]
<1>1. 0 + n <= Len(source)
  OBVIOUS
<1>2. /\ Part(source, 0, n) \in Seq(Letters) /\ Len(Part(source, 0, n)) = n
      /\ \A k \in 1..n : Part(source, 0, n)[k] = source[0 + k]
  BY <1>1, PartIs
<1>3. \A k \in 1..n : 0 + k = k
  OBVIOUS
<1> QED
  BY <1>2, <1>3 DEF Prefix

LEMMA PrefixEnds ==
  ASSUME source \in Seq(Letters)
  PROVE  Prefix(0) = <<>> /\ Prefix(Len(source)) = source /\ Len(source) \in Nat
<1>1. Len(source) \in Nat
  BY LenProperties
<1>2. Prefix(0) \in Seq(Letters) /\ Len(Prefix(0)) = 0
  BY <1>1, PrefixIs
<1>3. Prefix(0) = <<>>
  BY <1>2, EmptySeq
<1>4. /\ Prefix(Len(source)) \in Seq(Letters)
      /\ Len(Prefix(Len(source))) = Len(source)
      /\ \A k \in 1..Len(source) : Prefix(Len(source))[k] = source[k]
  BY <1>1, PrefixIs
<1>5. Prefix(Len(source)) = source
  BY <1>4, SeqEqual
<1> QED
  BY <1>1, <1>3, <1>5

LEMMA PrefixGrows ==
  ASSUME source \in Seq(Letters), NEW n \in Nat, n < Len(source)
  PROVE  source[n + 1] \in Letters /\ Append(Prefix(n), source[n + 1]) = Prefix(n + 1)
<1>1. Len(source) \in Nat /\ n <= Len(source) /\ n + 1 <= Len(source) /\ n + 1 \in Nat
  BY LenProperties
<1> DEFINE t == Prefix(n)
           u == Prefix(n + 1)
           x == source[n + 1]
<1>2. t \in Seq(Letters) /\ Len(t) = n /\ \A k \in 1..n : t[k] = source[k]
  BY <1>1, PrefixIs
<1>3. u \in Seq(Letters) /\ Len(u) = n + 1 /\ \A k \in 1..(n + 1) : u[k] = source[k]
  BY <1>1, PrefixIs
<1>4. x \in Letters
  BY <1>1, ElementOfSeq
<1> HIDE DEF t, u
<1>5. Append(t, x) \in Seq(Letters) /\ Len(Append(t, x)) = n + 1
      /\ \A k \in 1..(n + 1) : Append(t, x)[k] = IF k <= n THEN t[k] ELSE x
  <2> HIDE DEF x
  <2> QED
    BY <1>2, <1>4, AppendProperties
<1>6. ASSUME NEW k \in 1..(n + 1) PROVE Append(t, x)[k] = u[k]
  <2>1. CASE k <= n
    <3>1. k \in 1..n
      BY <1>6, <2>1
    <3> QED
      BY <1>2, <1>3, <1>5, <1>6, <2>1, <3>1
  <2>2. CASE ~(k <= n)
    <3>1. k = n + 1
      BY <1>6, <2>2
    <3> QED
      BY <1>3, <1>5, <1>6, <2>2, <3>1
  <2> QED
    BY <2>1, <2>2
<1>7. Append(t, x) = u
  BY <1>3, <1>5, <1>6, SeqEqual
<1> QED
  BY <1>4, <1>7 DEF t, u

\* What follows the first o letters makes a longer prefix.
LEMMA PrefixConcat ==
  ASSUME source \in Seq(Letters), NEW o \in Nat, NEW l \in Nat, o + l <= Len(source)
  PROVE  Prefix(o) \o Part(source, o, l) = Prefix(o + l)
<1>1. Len(source) \in Nat /\ o <= Len(source) /\ o + l \in Nat
  BY LenProperties
<1> DEFINE t == Prefix(o)
           p == Part(source, o, l)
           u == Prefix(o + l)
<1>2. t \in Seq(Letters) /\ Len(t) = o /\ \A k \in 1..o : t[k] = source[k]
  BY <1>1, PrefixIs
<1>3. u \in Seq(Letters) /\ Len(u) = o + l /\ \A k \in 1..(o + l) : u[k] = source[k]
  BY <1>1, PrefixIs
<1>4. p \in Seq(Letters) /\ Len(p) = l /\ \A k \in 1..l : p[k] = source[o + k]
  BY PartIs
<1> HIDE DEF t, p, u
<1>5. /\ t \o p \in Seq(Letters) /\ Len(t \o p) = o + l
      /\ \A k \in 1..(o + l) : (t \o p)[k] = IF k <= o THEN t[k] ELSE p[k - o]
  BY <1>2, <1>4, ConcatProperties
<1>6. ASSUME NEW k \in 1..(o + l) PROVE (t \o p)[k] = u[k]
  <2>1. CASE k <= o
    <3>1. k \in 1..o
      BY <1>6, <2>1
    <3> QED
      BY <1>2, <1>3, <1>5, <1>6, <2>1, <3>1
  <2>2. CASE ~(k <= o)
    <3>1. k - o \in 1..l /\ o + (k - o) = k
      BY <1>6, <2>2
    <3>2. p[k - o] = source[k]
      BY <1>4, <3>1
    <3> QED
      BY <1>3, <1>5, <1>6, <2>2, <3>2
  <2> QED
    BY <2>1, <2>2
<1>7. t \o p = u
  BY <1>3, <1>5, <1>6, SeqEqual
<1> QED
  BY <1>7 DEF t, p, u

\* A compressed response w has these bytes from place i on.
At(w, bytes, i) ==
  /\ i + Len(bytes) <= Len(w)
  /\ \A k \in 1..Len(bytes) : w[i + k] = bytes[k]

LEMMA AtConcat ==
  ASSUME NEW w \in Seq(Bytes), NEW a \in Seq(Bytes), NEW b \in Seq(Bytes),
         NEW i \in Nat, At(w, a \o b, i)
  PROVE  At(w, a, i) /\ At(w, b, i + Len(a))
<1> DEFINE m == Len(a)
           n == Len(b)
           c == a \o b
<1>1. /\ Len(c) = m + n /\ m \in Nat /\ n \in Nat
      /\ \A k \in 1..m + n : c[k] = IF k <= m THEN a[k] ELSE b[k - m]
  BY ConcatProperties, LenProperties
<1>2. Len(w) \in Nat
  BY LenProperties
<1>3. i + (m + n) <= Len(w) /\ \A k \in 1..m + n : w[i + k] = c[k]
  BY <1>1 DEF At
<1> HIDE DEF m, n, c
<1>4. ASSUME NEW k \in 1..m PROVE w[i + k] = a[k]
  BY <1>1, <1>3, <1>4
<1>5. ASSUME NEW k \in 1..n PROVE w[(i + m) + k] = b[k]
  <2>1. m + k \in 1..m + n /\ ~(m + k <= m) /\ m + k - m = k
    BY <1>1, <1>5
  <2>2. c[m + k] = b[k]
    BY <1>1, <2>1
  <2>3. w[i + (m + k)] = c[m + k]
    BY <1>3, <2>1
  <2>4. i + (m + k) = (i + m) + k
    BY <1>1, <1>5
  <2> QED
    BY <2>2, <2>3, <2>4
<1>6. i + m <= Len(w) /\ (i + m) + n <= Len(w)
  BY <1>1, <1>2, <1>3
<1> QED
  BY <1>4, <1>5, <1>6 DEF At, m, n

\* What is appended comes after what there was, which stays where it was.
LEMMA AtEnd ==
  ASSUME NEW w \in Seq(Bytes), NEW bytes \in Seq(Bytes)
  PROVE  /\ At(w \o bytes, bytes, Len(w))
         /\ \A k \in 1..Len(w) : (w \o bytes)[k] = w[k]
<1> DEFINE m == Len(w)
           n == Len(bytes)
           c == w \o bytes
<1>1. /\ Len(c) = m + n /\ m \in Nat /\ n \in Nat
      /\ \A k \in 1..m + n : c[k] = IF k <= m THEN w[k] ELSE bytes[k - m]
  BY ConcatProperties, LenProperties
<1> HIDE DEF m, n, c
<1>2. ASSUME NEW k \in 1..n PROVE c[m + k] = bytes[k]
  <2>1. m + k \in 1..m + n /\ ~(m + k <= m) /\ m + k - m = k
    BY <1>1, <1>2
  <2> QED
    BY <1>1, <2>1
<1>3. ASSUME NEW k \in 1..m PROVE c[k] = w[k]
  BY <1>1, <1>3
<1>4. m + n <= Len(c)
  BY <1>1
<1> QED
  BY <1>2, <1>3, <1>4 DEF At, m, n, c

LEMMA AtStays ==
  ASSUME NEW w \in Seq(Bytes), NEW v \in Seq(Bytes), NEW bytes \in Seq(Bytes),
         NEW i \in Nat, Len(w) <= Len(v), \A k \in 1..Len(w) : v[k] = w[k],
         At(w, bytes, i)
  PROVE  At(v, bytes, i)
<1>1. Len(w) \in Nat /\ Len(v) \in Nat /\ Len(bytes) \in Nat
  BY LenProperties
<1>2. i + Len(bytes) <= Len(w)
  BY DEF At
<1>3. i + Len(bytes) <= Len(v)
  BY <1>1, <1>2
<1>4. ASSUME NEW k \in 1..Len(bytes) PROVE v[i + k] = bytes[k]
  <2>1. i + k \in 1..Len(w)
    BY <1>1, <1>2, <1>4
  <2>2. w[i + k] = bytes[k]
    BY <1>4 DEF At
  <2> QED
    BY <2>1, <2>2
<1> QED
  BY <1>3, <1>4 DEF At

\* emit_length: bytes of LengthStep, then one that is smaller.
LEMMA ExtensionIs ==
  ASSUME NEW n \in Nat
  PROVE  /\ Extension(n) \in Seq(Bytes) /\ Len(Extension(n)) \in Nat
         /\ n < Nibble => Len(Extension(n)) = 0
         /\ n >= Nibble =>
              LET q == (n - Nibble) \div LengthStep
                  r == (n - Nibble) % LengthStep
              IN /\ q \in Nat /\ r \in 0..(LengthStep - 1)
                 /\ n = Nibble + q * LengthStep + r
                 /\ Len(Extension(n)) = q + 1
                 /\ \A k \in 1..q : Extension(n)[k] = LengthStep
                 /\ Extension(n)[q + 1] = r
<1>1. CASE n < Nibble
  <2>1. Extension(n) = <<>>
    BY <1>1 DEF Extension
  <2> QED
    BY <1>1, <2>1, Constants
<1>2. CASE ~(n < Nibble)
  <2> DEFINE q == (n - Nibble) \div LengthStep
             r == (n - Nibble) % LengthStep
             long == [i \in 1..q |-> LengthStep]
  <2>1. n - Nibble \in Nat /\ LengthStep \in Nat /\ LengthStep > 0
    BY <1>2, Constants
  <2>2. /\ q \in Nat /\ r \in 0..(LengthStep - 1)
        /\ n - Nibble = LengthStep * q + r
    BY <2>1, Division
  <2>3. Extension(n) = long \o <<r>>
    BY <1>2 DEF Extension
  <2> HIDE DEF q, r
  <2>4. n = Nibble + q * LengthStep + r
    BY <2>1, <2>2, Constants
  <2>5. long \in Seq(Bytes) /\ Len(long) = q /\ \A k \in 1..q : long[k] = LengthStep
    BY <2>1, <2>2 DEF Bytes
  <2>6. <<r>> \in Seq(Bytes) /\ Len(<<r>>) = 1 /\ <<r>>[1] = r
    BY <2>1, <2>2 DEF Bytes
  <2> DEFINE last == <<r>>
  <2> HIDE DEF long, last
  <2>7. /\ long \o last \in Seq(Bytes) /\ Len(long \o last) = q + 1
        /\ \A k \in 1..q + 1 : (long \o last)[k] = IF k <= q THEN long[k] ELSE last[k - q]
    BY <2>5, <2>6, ConcatProperties DEF last
  <2>8. (long \o last)[q + 1] = r
    BY <2>2, <2>6, <2>7 DEF last
  <2>9. /\ Extension(n) \in Seq(Bytes) /\ Len(Extension(n)) = q + 1
        /\ \A k \in 1..q : Extension(n)[k] = LengthStep
        /\ Extension(n)[q + 1] = r
    BY <2>2, <2>3, <2>5, <2>7, <2>8 DEF last
  <2> QED
    BY <1>2, <2>2, <2>4, <2>9 DEF q, r
<1> QED
  BY <1>1, <1>2

\* read_length ends where emit_length ended, with the length that was emitted.
LEMMA ReadLengthIs ==
  ASSUME NEW n \in Nat, NEW i \in Nat, output \in Seq(Bytes),
         At(output, Extension(n), i),
         NEW initial, initial = Smaller(n, Nibble)
  PROVE  ReadLength(initial, i) = [length |-> n, next |-> i + Len(Extension(n))]
<1>1. CASE n < Nibble
  <2>1. initial = n /\ initial # Nibble /\ Len(Extension(n)) = 0
    BY <1>1, Constants, ExtensionIs DEF Smaller
  <2>2. ReadLength(initial, i) = [length |-> n, next |-> i]
    BY <2>1 DEF ReadLength
  <2> QED
    BY <2>1, <2>2
<1>2. CASE ~(n < Nibble)
  <2> DEFINE q == (n - Nibble) \div LengthStep
             r == (n - Nibble) % LengthStep
             ends == {k \in i..(Len(output) - 1) :
                        /\ output[k + 1] # LengthStep
                        /\ \A j \in i..(k - 1) : output[j + 1] = LengthStep}
             end == CHOOSE k \in ends : TRUE
  <2>1. initial = Nibble
    BY <1>2, Constants DEF Smaller
  <2>2. ReadLength(initial, i) =
          IF ends = {} THEN [length |-> 0, next |-> -1]
          ELSE [length |-> initial + (end - i) * LengthStep + output[end + 1],
                next   |-> end + 1]
    BY <2>1 DEF ReadLength
  <2>3. /\ q \in Nat /\ r \in 0..(LengthStep - 1)
        /\ n = Nibble + q * LengthStep + r
        /\ Len(Extension(n)) = q + 1
        /\ \A k \in 1..q : Extension(n)[k] = LengthStep
        /\ Extension(n)[q + 1] = r
    BY <1>2, Constants, ExtensionIs
  <2> HIDE DEF q, r
  <2>4. i + q + 1 <= Len(output) /\ Len(output) \in Nat
    BY <2>3, LenProperties DEF At
  <2>5. ASSUME NEW j \in i..(i + q - 1) PROVE output[j + 1] = LengthStep
    <3>1. j + 1 - i \in 1..q /\ i + (j + 1 - i) = j + 1
      BY <2>3, <2>5
    <3>2. output[i + (j + 1 - i)] = Extension(n)[j + 1 - i]
      BY <2>3, <3>1 DEF At
    <3> QED
      BY <2>3, <3>1, <3>2
  <2>6. output[i + q + 1] = r /\ r # LengthStep
    <3>1. q + 1 \in 1..Len(Extension(n))
      BY <2>3
    <3>2. output[i + (q + 1)] = r
      BY <2>3, <3>1 DEF At
    <3> QED
      BY <2>3, <3>2, Constants
  <2>7. i + q \in ends
    BY <2>3, <2>4, <2>5, <2>6
  <2>8. ASSUME NEW k \in ends PROVE k = i + q
    <3>1. k \in i..(Len(output) - 1) /\ output[k + 1] # LengthStep
          /\ \A j \in i..(k - 1) : output[j + 1] = LengthStep
      BY <2>8
    <3>2. ~(k < i + q)
      BY <2>3, <2>5, <3>1
    <3>3. ~(i + q < k)
      BY <2>3, <2>6, <3>1, SMTT(30)
    <3> QED
      BY <2>3, <2>4, <3>1, <3>2, <3>3
  <2>9. end = i + q /\ ends # {}
    BY <2>7, <2>8
  <2> HIDE DEF end, ends
  <2>10. end - i = q /\ end + 1 = i + q + 1 /\ output[end + 1] = r
    BY <2>3, <2>6, <2>9
  <2>11. ReadLength(initial, i) = [length |-> Nibble + q * LengthStep + r,
                                   next |-> i + q + 1]
    BY <2>1, <2>2, <2>9, <2>10, Zenon
  <2>12. i + q + 1 = i + (q + 1)
    BY <2>3
  <2> QED
    BY <2>3, <2>11, <2>12, Zenon
<1> QED
  BY <1>1, <1>2

\* The two halves of a token.
LEMMA TokenIs ==
  ASSUME NEW length \in Nat, NEW match \in Nat
  PROVE  /\ Token(length, match) \in Bytes
         /\ LiteralNibble(Token(length, match)) = Smaller(length, Nibble)
         /\ MatchNibble(Token(length, match)) = Smaller(match, Nibble)
<1> DEFINE x == Smaller(length, Nibble)
           y == Smaller(match, Nibble)
           b == Nibble + 1
<1>1. /\ x \in 0..Nibble /\ y \in 0..Nibble /\ b \in Nat /\ b > 0
      /\ y \in 0..(b - 1) /\ x \in Nat
  BY Constants DEF Smaller
<1>2. Token(length, match) = b * x + y
  BY DEF Token
<1> HIDE DEF x, y
<1>3. (b * x + y) \div b = x /\ (b * x + y) % b = y
  <2> HIDE DEF b
  <2> QED
    BY <1>1, DivisionOf
<1>4. b * x + y \in Bytes
  <2>1. b * x <= b * Nibble
    BY <1>1, Constants
  <2>2. b * x + y \in Nat /\ b * x + y <= b * Nibble + Nibble
    BY <1>1, <2>1, Constants
  <2>3. b * Nibble + Nibble = LengthStep
    BY Constants
  <2> QED
    BY <2>2, <2>3, Constants DEF Bytes
<1> QED
  BY <1>2, <1>3, <1>4 DEF x, y, LiteralNibble, MatchNibble

\* The two bytes of a distance.
LEMMA DistanceBytes ==
  ASSUME NEW d \in 1..Window
  PROVE  /\ d % Byte \in Bytes /\ d \div Byte \in Bytes
         /\ (d % Byte) + Byte * (d \div Byte) = d
<1> DEFINE q == d \div Byte
           r == d % Byte
<1>1. q \in Nat /\ r \in 0..(Byte - 1) /\ d = Byte * q + r
  BY Constants, Division
<1> HIDE DEF q, r
<1>2. ~(q >= Byte)
  <2> SUFFICES ASSUME q >= Byte PROVE FALSE
    OBVIOUS
  <2>1. Byte * q >= Byte * Byte
    BY <1>1, Constants
  <2> QED
    BY <1>1, <2>1, Constants
<1>3. q \in Bytes /\ r \in Bytes /\ r + Byte * q = d
  BY <1>1, <1>2, Constants DEF Bytes
<1> QED
  BY <1>3 DEF q, r

\* Byte by byte, from distance back: a match that overlaps itself included.
LEMMA CopyIs ==
  ASSUME source \in Seq(Letters), NEW j \in Nat, NEW d \in 1..j, NEW m \in Nat,
         j + m <= Len(source),
         \A k \in 0..(m - 1) : source[j - d + k + 1] = source[j + k + 1]
  PROVE  Copy(Prefix(j), d, m) = Prefix(j + m)
<1> DEFINE text == Prefix(j)
           Step(t) == Append(t, t[Len(t) + 1 - d])
           Is(f) == f = [n \in 0..m |-> IF n = 0 THEN text ELSE Step(f[n - 1])]
           g == [n \in 0..m |-> Prefix(j + n)]
<1>1. ASSUME NEW n \in 1..m PROVE Step(Prefix(j + (n - 1))) = Prefix(j + n)
  <2> DEFINE l == j + (n - 1)
             t == Prefix(l)
  <2>1. /\ l \in Nat /\ l < Len(source) /\ l <= Len(source) /\ Len(source) \in Nat
        /\ l + 1 = j + n /\ l + 1 - d \in 1..l /\ n - 1 \in 0..(m - 1)
        /\ j - d + (n - 1) + 1 = l + 1 - d /\ j + (n - 1) + 1 = l + 1
    BY <1>1, LenProperties
  <2>2. source[l + 1 - d] = source[l + 1]
    BY <2>1
  <2> HIDE DEF l
  <2>3. Len(t) = l /\ \A k \in 1..l : t[k] = source[k]
    BY <2>1, PrefixIs
  <2>4. Append(t, source[l + 1]) = Prefix(l + 1)
    BY <2>1, PrefixGrows
  <2> HIDE DEF t
  <2>5. t[Len(t) + 1 - d] = source[l + 1]
    BY <2>1, <2>2, <2>3
  <2>6. Step(t) = Prefix(j + n)
    BY <2>1, <2>4, <2>5
  <2> QED
    BY <2>6 DEF t, l
<1>2. Is(g)
  <2>1. ASSUME NEW n \in 0..m PROVE g[n] = IF n = 0 THEN text ELSE Step(g[n - 1])
    <3> HIDE DEF Step
    <3>1. CASE n = 0
      BY <3>1
    <3>2. CASE n # 0
      <4>1. n - 1 \in 0..m /\ n \in 1..m
        BY <2>1, <3>2
      <4> QED
        BY <1>1, <3>2, <4>1
    <3> QED
      BY <3>1, <3>2
  <2> QED
    BY <2>1
<1>3. ASSUME NEW f, Is(f) PROVE f = g
  <2> DEFINE Bad == {n \in 0..m : f[n] # g[n]}
  <2>1. Bad = {}
    <3> SUFFICES ASSUME Bad # {} PROVE FALSE
      OBVIOUS
    <3>1. Bad \subseteq Nat
      OBVIOUS
    <3>2. PICK n \in Bad : \A k \in Bad : n <= k
      BY <3>1, LeastMember
    <3>3. f[n] = IF n = 0 THEN text ELSE Step(f[n - 1])
      BY <1>3, <3>2
    <3>4. g[n] = IF n = 0 THEN text ELSE Step(g[n - 1])
      BY <1>2, <3>2
    <3>5. n # 0 => n - 1 \in 0..m /\ n - 1 \notin Bad
      BY <3>2
    <3> QED
      BY <3>2, <3>3, <3>4, <3>5
  <2> QED
    BY <1>3, <2>1
<1>4. Copy(text, d, m) = (CHOOSE f : Is(f))[m]
  BY DEF Copy
<1>5. (CHOOSE f : Is(f)) = g
  BY <1>2, <1>3
<1>6. g[m] = Prefix(j + m)
  OBVIOUS
<1> HIDE DEF g
<1> QED
  BY <1>4, <1>5, <1>6

--------------------------------------------------------------------------------
(* Sequences. *)

\* The places of a sequence that begins at i.
LiteralsAt(i, l) == i + 1 + Len(Extension(l))
DistanceAt(i, l) == LiteralsAt(i, l) + l
NextAt(i, l, m)  == DistanceAt(i, l) + 2 + Len(Extension(m))

\* A token and l literals at i: the letters from offset o on.
LiteralsIn(s, w, o, i, l, m) ==
  /\ o + l <= Len(s) /\ DistanceAt(i, l) <= Len(w)
  /\ w[i + 1] = Token(l, m)
  /\ At(w, Extension(l), i + 1)
  /\ \A k \in 1..l : w[LiteralsAt(i, l) + k] = s[o + k]

\* A match of m + MinMatch letters, d back, at j: the letters from offset o on.
MatchIn(s, w, o, j, d, m) ==
  /\ d \in 1..Window /\ d <= o /\ o + m + MinMatch <= Len(s)
  /\ j + 2 + Len(Extension(m)) <= Len(w)
  /\ w[j + 1] = d % Byte /\ w[j + 2] = d \div Byte
  /\ At(w, Extension(m), j + 2)
  /\ \A k \in 0..(m + MinMatch - 1) : s[o - d + k + 1] = s[o + k + 1]

\* From x to y, each an offset in the response and a place in its bytes.
Sequence(s, w, x, y) ==
  \E l \in Nat, m \in Nat, d \in 1..Window :
    /\ LiteralsIn(s, w, x[1], x[2], l, m)
    /\ MatchIn(s, w, x[1] + l, DistanceAt(x[2], l), d, m)
    /\ y = <<x[1] + l + m + MinMatch, NextAt(x[2], l, m)>>

LastSequence(s, w, x) ==
  \E l \in Nat :
    /\ LiteralsIn(s, w, x[1], x[2], l, 0)
    /\ x[1] + l = Len(s) /\ DistanceAt(x[2], l) = Len(w)

Pairs == Nat \X Nat
\* The sequences so far lead to y; from x they lead to the end.
LeadsTo(s, w, y) ==
  \E M \in SUBSET Pairs :
    /\ <<0, 0>> \in M
    /\ \A x \in M : x = y \/ \E z \in M : Sequence(s, w, x, z)
Ends(s, w, x) ==
  \E M \in SUBSET Pairs :
    /\ x \in M
    /\ \A y \in M : LastSequence(s, w, y) \/ \E z \in M : Sequence(s, w, y, z)

LEMMA Places ==
  ASSUME NEW i \in Nat, NEW l \in Nat, NEW m \in Nat
  PROVE  /\ LiteralsAt(i, l) \in Nat /\ DistanceAt(i, l) \in Nat /\ NextAt(i, l, m) \in Nat
         /\ LiteralsAt(i, l) = (i + 1) + Len(Extension(l))
         /\ LiteralsAt(i, l) + l = DistanceAt(i, l)
         /\ (DistanceAt(i, l) + 2) + Len(Extension(m)) = NextAt(i, l, m)
         /\ i + 1 <= LiteralsAt(i, l)
         /\ DistanceAt(i, l) + 2 <= NextAt(i, l, m)
<1> DEFINE p == Len(Extension(l))
           q == Len(Extension(m))
<1>1. p \in Nat /\ q \in Nat
  BY ExtensionIs
<1>2. /\ LiteralsAt(i, l) = i + 1 + p /\ DistanceAt(i, l) = i + 1 + p + l
      /\ NextAt(i, l, m) = i + 1 + p + l + 2 + q
  BY DEF LiteralsAt, DistanceAt, NextAt
<1> HIDE DEF p, q
<1>3. /\ LiteralsAt(i, l) = (i + 1) + p
      /\ LiteralsAt(i, l) \in Nat /\ DistanceAt(i, l) \in Nat /\ NextAt(i, l, m) \in Nat
      /\ LiteralsAt(i, l) + l = DistanceAt(i, l)
      /\ (DistanceAt(i, l) + 2) + q = NextAt(i, l, m)
      /\ i + 1 <= LiteralsAt(i, l)
      /\ DistanceAt(i, l) + 2 <= NextAt(i, l, m)
  BY <1>1, <1>2
<1> QED
  BY <1>3 DEF p, q

LEMMA EndsStep ==
  ASSUME NEW s, NEW w, NEW x, Ends(s, w, x)
  PROVE  LastSequence(s, w, x) \/ \E z \in Pairs : Sequence(s, w, x, z) /\ Ends(s, w, z)
<1>1. PICK M \in SUBSET Pairs :
        /\ x \in M
        /\ \A y \in M : LastSequence(s, w, y) \/ \E z \in M : Sequence(s, w, y, z)
  BY DEF Ends
<1>2. ASSUME NEW z \in M PROVE Ends(s, w, z) /\ z \in Pairs
  BY <1>1, <1>2 DEF Ends
<1> QED
  BY <1>1, <1>2


\* What emit_byte, emit_length and emit_bytes put out for the literals.
LEMMA LiteralsEmitted ==
  ASSUME source \in Seq(Letters), NEW o \in Nat, NEW l \in Nat, NEW m \in Nat,
         o + l <= Len(source)
  PROVE  /\ WithLiterals(o, l, m) \in Seq(Bytes)
         /\ \A i \in Nat : i + Len(WithLiterals(o, l, m)) = DistanceAt(i, l)
         /\ \A w \in Seq(Bytes), i \in Nat :
              At(w, WithLiterals(o, l, m), i) => LiteralsIn(source, w, o, i, l, m)
<1> DEFINE a == <<Token(l, m)>>
           b == Extension(l)
           c == Part(source, o, l)
<1>1. a \in Seq(Bytes) /\ Len(a) = 1 /\ a[1] = Token(l, m)
  BY TokenIs
<1>2. b \in Seq(Bytes) /\ Len(b) \in Nat
  BY ExtensionIs
<1>3. c \in Seq(Letters) /\ Len(c) = l /\ \A k \in 1..l : c[k] = source[o + k]
  BY PartIs
<1>4. c \in Seq(Bytes)
  BY <1>3, Constants
<1>5. WithLiterals(o, l, m) = (a \o b) \o c
  BY DEF WithLiterals
<1>6. \A i \in Nat : /\ LiteralsAt(i, l) = (i + 1) + Len(b)
                     /\ DistanceAt(i, l) = LiteralsAt(i, l) + l
                     /\ LiteralsAt(i, l) \in Nat
  BY Places
<1> HIDE DEF a, b, c
<1>7. a \o b \in Seq(Bytes) /\ Len(a \o b) = 1 + Len(b)
  BY <1>1, <1>2, ConcatProperties
<1>8. (a \o b) \o c \in Seq(Bytes) /\ Len((a \o b) \o c) = 1 + Len(b) + l
  BY <1>3, <1>4, <1>7, ConcatProperties, ZenonT(60)
<1>9. \A i \in Nat : i + Len((a \o b) \o c) = DistanceAt(i, l)
  BY <1>2, <1>6, <1>8
<1>10. ASSUME NEW w \in Seq(Bytes), NEW i \in Nat, At(w, (a \o b) \o c, i)
       PROVE  LiteralsIn(source, w, o, i, l, m)
  <2>1. At(w, a \o b, i) /\ At(w, c, i + Len(a \o b))
    BY <1>4, <1>7, <1>10, AtConcat
  <2>2. At(w, a, i) /\ At(w, b, i + Len(a))
    BY <1>1, <1>2, <1>10, <2>1, AtConcat
  <2>3. w[i + 1] = Token(l, m)
    BY <1>1, <2>2 DEF At
  <2>4. At(w, b, i + 1)
    BY <1>1, <2>2
  <2>5. i + Len(a \o b) = LiteralsAt(i, l)
    BY <1>2, <1>6, <1>7
  <2>6. ASSUME NEW k \in 1..l PROVE w[LiteralsAt(i, l) + k] = source[o + k]
    BY <1>3, <2>1, <2>5, <2>6 DEF At
  <2>7. DistanceAt(i, l) <= Len(w)
    BY <1>3, <1>6, <2>1, <2>5 DEF At
  <2> QED
    BY <2>3, <2>4, <2>6, <2>7 DEF LiteralsIn, b
<1> QED
  BY <1>5, <1>8, <1>9, <1>10

\* ... and for the match.
LEMMA MatchEmitted ==
  ASSUME NEW o \in Nat, NEW m \in Nat, NEW d \in 1..Window, d <= o,
         o + m + MinMatch <= Len(source),
         \A k \in 0..(m + MinMatch - 1) : source[o - d + k + 1] = source[o + k + 1]
  PROVE  /\ MatchAt(d, m) \in Seq(Bytes)
         /\ Len(MatchAt(d, m)) = 2 + Len(Extension(m))
         /\ \A w \in Seq(Bytes), j \in Nat :
              At(w, MatchAt(d, m), j) => MatchIn(source, w, o, j, d, m)
<1> DEFINE a == <<d % Byte, d \div Byte>>
           b == Extension(m)
<1>1. a \in Seq(Bytes) /\ Len(a) = 2
  BY DistanceBytes
<1>0. a[1] = d % Byte /\ a[2] = d \div Byte
  OBVIOUS
<1>2. b \in Seq(Bytes) /\ Len(b) \in Nat
  BY ExtensionIs
<1>3. MatchAt(d, m) = a \o b
  BY DEF MatchAt
<1> HIDE DEF a, b
<1>4. a \o b \in Seq(Bytes) /\ Len(a \o b) = 2 + Len(b)
  BY <1>1, <1>2, ConcatProperties, ZenonT(60)
<1>5. ASSUME NEW w \in Seq(Bytes), NEW j \in Nat, At(w, a \o b, j)
      PROVE  MatchIn(source, w, o, j, d, m)
  <2>1. At(w, a, j) /\ At(w, b, j + 2)
    BY <1>1, <1>2, <1>5, AtConcat
  <2>2. w[j + 1] = d % Byte /\ w[j + 2] = d \div Byte
    BY <1>0, <1>1, <2>1 DEF At
  <2>3. j + 2 + Len(b) <= Len(w)
    BY <1>2, <2>1 DEF At
  <2> QED
    BY <2>1, <2>2, <2>3 DEF MatchIn, b
<1> QED
  BY <1>3, <1>4, <1>5 DEF b

\* Bytes that are appended leave the sequences as they are.
LEMMA SequenceStays ==
  ASSUME NEW s, NEW w \in Seq(Bytes), NEW v \in Seq(Bytes), NEW x \in Pairs, NEW y,
         Len(w) <= Len(v), \A k \in 1..Len(w) : v[k] = w[k], Sequence(s, w, x, y)
  PROVE  Sequence(s, v, x, y)
<1> DEFINE o == x[1]
           i == x[2]
<1>1. o \in Nat /\ i \in Nat /\ Len(w) \in Nat /\ Len(v) \in Nat
  BY LenProperties DEF Pairs
<1>2. PICK l \in Nat, m \in Nat, d \in 1..Window :
        /\ LiteralsIn(s, w, o, i, l, m)
        /\ MatchIn(s, w, o + l, DistanceAt(i, l), d, m)
        /\ y = <<o + l + m + MinMatch, NextAt(i, l, m)>>
  BY DEF Sequence
<1> HIDE DEF o, i
<1> DEFINE p == LiteralsAt(i, l)
           j == DistanceAt(i, l)
           e == Len(Extension(m))
<1>3. p \in Nat /\ j \in Nat /\ j = p + l /\ i + 1 <= p /\ e \in Nat
  BY <1>1, Places, ExtensionIs, ZenonT(60)
<1>4. Extension(l) \in Seq(Bytes) /\ Extension(m) \in Seq(Bytes)
  BY ExtensionIs
<1>5. /\ o + l <= Len(s) /\ j <= Len(w) /\ w[i + 1] = Token(l, m)
      /\ At(w, Extension(l), i + 1)
      /\ \A k \in 1..l : w[p + k] = s[o + k]
  BY <1>2 DEF LiteralsIn
<1>6. /\ d \in 1..Window /\ d <= o + l /\ o + l + m + MinMatch <= Len(s)
      /\ j + 2 + e <= Len(w)
      /\ w[j + 1] = d % Byte /\ w[j + 2] = d \div Byte
      /\ At(w, Extension(m), j + 2)
      /\ \A k \in 0..(m + MinMatch - 1) : s[(o + l) - d + k + 1] = s[o + l + k + 1]
  BY <1>2 DEF MatchIn
<1> HIDE DEF p, j, e
<1>7. At(v, Extension(l), i + 1) /\ At(v, Extension(m), j + 2)
  <2>1. i + 1 \in Nat /\ j + 2 \in Nat
    BY <1>1, <1>3
  <2> QED
    BY <1>4, <1>5, <1>6, <2>1, AtStays
<1>8. v[i + 1] = Token(l, m) /\ \A k \in 1..l : v[p + k] = s[o + k]
  <2>1. i + 1 \in 1..Len(w)
    BY <1>1, <1>3, <1>5
  <2>2. \A k \in 1..l : p + k \in 1..Len(w)
    BY <1>1, <1>3, <1>5
  <2> QED
    BY <1>5, <2>1, <2>2
<1>9. v[j + 1] = d % Byte /\ v[j + 2] = d \div Byte
  <2>1. j + 1 \in 1..Len(w) /\ j + 2 \in 1..Len(w)
    BY <1>1, <1>3, <1>6
  <2> QED
    BY <1>6, <2>1
<1>10. j <= Len(v) /\ j + 2 + e <= Len(v)
  BY <1>1, <1>3, <1>5, <1>6, SMTT(30)
<1>11. LiteralsIn(s, v, o, i, l, m)
  BY <1>5, <1>7, <1>8, <1>10 DEF LiteralsIn, p, j
<1>12. MatchIn(s, v, o + l, j, d, m)
  BY <1>6, <1>7, <1>9, <1>10 DEF MatchIn, e
<1> QED
  BY <1>2, <1>11, <1>12 DEF Sequence, j, o, i

LEMMA LeadsOn ==
  ASSUME NEW s, NEW w \in Seq(Bytes), NEW v \in Seq(Bytes),
         NEW y \in Pairs, NEW z \in Pairs,
         Len(w) <= Len(v), \A k \in 1..Len(w) : v[k] = w[k],
         LeadsTo(s, w, y), Sequence(s, v, y, z)
  PROVE  LeadsTo(s, v, z)
<1>1. PICK M \in SUBSET Pairs :
        /\ <<0, 0>> \in M
        /\ \A x \in M : x = y \/ \E u \in M : Sequence(s, w, x, u)
  BY DEF LeadsTo
<1> DEFINE N == M \cup {z}
<1>2. ASSUME NEW x \in N PROVE x = z \/ \E u \in N : Sequence(s, v, x, u)
  <2>1. CASE x = z
    BY <2>1
  <2>2. CASE x \in M /\ x = y
    BY <2>2
  <2>3. CASE x \in M /\ x # y
    <3>1. PICK u \in M : Sequence(s, w, x, u)
      BY <1>1, <2>3
    <3>2. x \in Pairs
      BY <2>3
    <3>3. Sequence(s, v, x, u)
      BY <3>1, <3>2, SequenceStays
    <3> QED
      BY <3>3
  <2> QED
    BY <2>1, <2>2, <2>3
<1>3. N \in SUBSET Pairs /\ <<0, 0>> \in N
  BY <1>1
<1> QED
  BY <1>2, <1>3 DEF LeadsTo

\* The last sequence ends what led to it.
LEMMA EndsBegins ==
  ASSUME NEW s, NEW w \in Seq(Bytes), NEW v \in Seq(Bytes), NEW x \in Pairs,
         Len(w) <= Len(v), \A k \in 1..Len(w) : v[k] = w[k],
         LeadsTo(s, w, x), LastSequence(s, v, x)
  PROVE  Ends(s, v, <<0, 0>>)
<1>1. PICK M \in SUBSET Pairs :
        /\ <<0, 0>> \in M
        /\ \A y \in M : y = x \/ \E u \in M : Sequence(s, w, y, u)
  BY DEF LeadsTo
<1>2. ASSUME NEW y \in M PROVE LastSequence(s, v, y) \/ \E u \in M : Sequence(s, v, y, u)
  <2>1. CASE y = x
    BY <2>1
  <2>2. CASE y # x
    <3>1. PICK u \in M : Sequence(s, w, y, u)
      BY <1>1, <1>2, <2>2
    <3>2. Sequence(s, v, y, u)
      BY <1>2, <3>1, SequenceStays
    <3> QED
      BY <3>2
  <2> QED
    BY <2>1, <2>2
<1> QED
  BY <1>1, <1>2 DEF Ends

LEMMA LeadsToNow ==
  ASSUME NEW s, NEW w
  PROVE  LeadsTo(s, w, <<0, 0>>)
<1>1. {<<0, 0>>} \in SUBSET Pairs
  BY DEF Pairs
<1> QED
  BY <1>1 DEF LeadsTo

--------------------------------------------------------------------------------
(* Reading a sequence. *)

LEMMA LiteralsRead ==
  ASSUME output \in Seq(Bytes), NEW s, NEW o, NEW i \in Nat, NEW l \in Nat,
         NEW m \in Nat, LiteralsIn(s, output, o, i, l, m)
  PROVE  /\ i < Len(output) /\ MatchNibble(output[i + 1]) = Smaller(m, Nibble)
         /\ ReadLength(LiteralNibble(output[i + 1]), i + 1)
              = [length |-> l, next |-> LiteralsAt(i, l)]
<1>1. /\ output[i + 1] = Token(l, m) /\ At(output, Extension(l), i + 1)
      /\ DistanceAt(i, l) <= Len(output) /\ Len(output) \in Nat
  BY LenProperties DEF LiteralsIn
<1>2. /\ i + 1 \in Nat /\ LiteralsAt(i, l) = (i + 1) + Len(Extension(l))
      /\ DistanceAt(i, l) \in Nat /\ i + 1 <= DistanceAt(i, l)
  <2>1. /\ LiteralsAt(i, l) = (i + 1) + Len(Extension(l)) /\ LiteralsAt(i, l) \in Nat
        /\ LiteralsAt(i, l) + l = DistanceAt(i, l) /\ DistanceAt(i, l) \in Nat
        /\ i + 1 <= LiteralsAt(i, l)
    BY Places
  <2> QED
    BY <2>1
<1>3. ReadLength(Smaller(l, Nibble), i + 1)
        = [length |-> l, next |-> (i + 1) + Len(Extension(l))]
  BY <1>1, <1>2, ReadLengthIs
<1>4. i < Len(output)
  BY <1>1, <1>2
<1> QED
  BY <1>1, <1>2, <1>3, <1>4, TokenIs

LEMMA MatchRead ==
  ASSUME output \in Seq(Bytes), NEW s, NEW o, NEW j \in Nat, NEW d, NEW m \in Nat,
         MatchIn(s, output, o, j, d, m)
  PROVE  /\ Distance(j) = d /\ j + 2 <= Len(output)
         /\ ReadLength(Smaller(m, Nibble), j + 2)
              = [length |-> m, next |-> (j + 2) + Len(Extension(m))]
<1>1. /\ output[j + 1] = d % Byte /\ output[j + 2] = d \div Byte /\ d \in 1..Window
      /\ At(output, Extension(m), j + 2)
      /\ j + 2 + Len(Extension(m)) <= Len(output)
  BY DEF MatchIn
<1>2. Distance(j) = d
  BY <1>1, DistanceBytes DEF Distance
<1>3. j + 2 \in Nat /\ Len(Extension(m)) \in Nat /\ Len(output) \in Nat
  BY ExtensionIs, LenProperties
<1>4. ReadLength(Smaller(m, Nibble), j + 2)
        = [length |-> m, next |-> (j + 2) + Len(Extension(m))]
  BY <1>1, <1>3, ReadLengthIs
<1> QED
  BY <1>1, <1>2, <1>3, <1>4

--------------------------------------------------------------------------------
(* The invariant. *)

\* The type of the streamer's place in a sequence.
RunOK == run \in [kind : {"token", "literals", "match"}, left : Nat,
                  token : Bytes, distance : Nat]

\* Before a reader begins.
Begun == {"decode", "decoded", "undecodable", "stream", "streamed", "stopped"}
FreshOK ==
  phase \notin Begun =>
    input = 0 /\ decoded = <<>> /\ run = Idle /\ chunk = <<>> /\ sent = <<>>

\* The hash holds earlier offsets only; what is written stands for the letters
\* before the anchor.
CompressOK ==
  phase = "compress" =>
    /\ \A x \in Slots : hash[x] < offset
    /\ LeadsTo(source, output, <<anchor, Len(output)>>)

\* A chain of sequences joins the start and the end of what is kept.
CachedOK ==
  /\ phase = "cached" => Ends(source, output, <<0, 0>>)
  /\ phase = "handed-over" => output = <<>>

\* decompress_response stands where a sequence begins, or at the end.
DecodeOK ==
  phase = "decode" =>
    /\ Len(decoded) <= Len(source) /\ decoded = Prefix(Len(decoded))
    /\ \/ output = <<>> \/ Ends(source, output, <<Len(decoded), input>>)
       \/ Len(decoded) = Len(source) /\ input = Len(output)

\* The streamer's place: before a sequence, in its literals, or in its match.
InToken ==
  run.kind = "token" /\ run.left = 0 /\ Ends(source, output, <<output_size, input>>)
AmidLiterals(s, w, n, at, r) ==
  /\ r.kind = "literals"
  /\ \E o \in Nat, i \in Nat, l \in Nat, m \in Nat :
       /\ LiteralsIn(s, w, o, i, l, m) /\ r.left <= l
       /\ n + r.left = o + l
       /\ at + r.left = DistanceAt(i, l) /\ r.token = w[i + 1]
       /\ \/ o + l = Len(s) /\ DistanceAt(i, l) = Len(w)
          \/ \E d \in 1..Window :
               /\ MatchIn(s, w, o + l, DistanceAt(i, l), d, m)
               /\ Ends(s, w, <<o + l + m + MinMatch, NextAt(i, l, m)>>)
AmidMatch(s, w, n, at, r) ==
  /\ r.kind = "match" /\ r.left >= 1
  /\ r.distance \in 1..Window /\ r.distance <= n
  /\ n + r.left <= Len(s)
  /\ Ends(s, w, <<n + r.left, at>>)
  /\ \A k \in n..((n + r.left) - 1) : s[k - r.distance + 1] = s[k + 1]
InLiterals == AmidLiterals(source, output, output_size, input, run)
InMatch    == AmidMatch(source, output, output_size, input, run)

\* The last Window bytes, each at its offset modulo Window.
RingOK ==
  \A i \in 0..(output_size - 1) :
    i + Window >= output_size => history[i % Window] = source[i + 1]

StreamOK ==
  phase = "stream" =>
    /\ output_size <= Len(source) /\ sent \o chunk = Prefix(output_size) /\ RingOK
    /\ \/ output = <<>> /\ run = Idle
       \/ InToken \/ InLiterals \/ InMatch

\* What remains true when a reader is done.
EndOK ==
  /\ Len(sent) <= Len(source) /\ sent = Prefix(Len(sent))
  /\ phase = "decoded" => decoded = source
  /\ phase = "undecodable" => output = <<>>
  /\ phase = "streamed" => sent = source
  /\ phase = "stopped" => output = <<>> \/ Gone

CodecInv ==
  /\ TypeOK /\ RunOK /\ FreshOK /\ CompressOK /\ CachedOK
  /\ DecodeOK /\ StreamOK /\ EndOK

LEMMA RoomOK ==
  ASSUME source \in Seq(Letters), limit \in Limits
  PROVE  Capacity \in Nat /\ Maximum \in Nat /\ Capacity <= limit /\ Capacity <= Maximum
         /\ (Capacity = limit \/ Capacity = Maximum)
<1>1. Len(source) \in Nat /\ limit \in Nat
  BY LenProperties, Constants
<1>2. Len(source) \div LengthStep \in Nat
  BY <1>1, Constants, Division
<1>3. Maximum \in Nat
  BY <1>1, <1>2, Constants DEF Maximum
<1> QED
  BY <1>1, <1>3 DEF Capacity, Smaller

LEMMA IdleOK ==
  Idle \in [kind : {"token", "literals", "match"}, left : Nat, token : Bytes, distance : Nat]
  /\ Idle.kind = "token" /\ Idle.left = 0
<1>1. 0 \in Bytes
  BY Constants DEF Bytes
<1> QED
  BY <1>1 DEF Idle

LEMMA InitCodec == Init => CodecInv
<1> SUFFICES ASSUME Init PROVE CodecInv
  OBVIOUS
<1>1. PICK n \in 0..MaxLength : source \in [1..n -> Letters]
  BY DEF Init, Sources
<1>2. source \in Seq(Letters) /\ n \in Nat
  BY <1>1, Constants
<1>3. Len(source) \in Nat
  BY <1>2, LenProperties
<1>4. /\ <<>> \in Seq(Bytes) /\ Len(<<>>) = 0 /\ 0 \in Bytes
  BY Constants DEF Bytes
<1>5. Capacity \in Nat
  BY <1>2, RoomOK DEF Init
<1>6. TypeOK
  <2>1. hash \in [Slots -> -1..offset]
    BY DEF Init
  <2>2. history \in [0..(Window - 1) -> 0..LengthStep]
    BY <1>4 DEF Init, Bytes
  <2>3. run.kind \in {"token", "literals", "match"} /\ run.left \in 0..Len(source)
    BY <1>3, IdleOK DEF Init
  <2>4. output \in Seq(0..LengthStep) /\ Len(output) <= Capacity /\ input \in 0..Len(output)
        /\ decoded \in Seq(0..LengthStep) /\ chunk \in Seq(0..LengthStep)
        /\ sent \in Seq(0..LengthStep) /\ Len(chunk) < SendBuffer
    BY <1>4, <1>5, Constants DEF Init, Bytes
  <2>5. anchor \in 0..offset /\ offset \in 0..Len(source)
    BY <1>3 DEF Init
  <2>6. phase = "compress" /\ limit \in Limits /\ patience \in Patience
    BY DEF Init
  <2> QED
    BY <1>2, <2>1, <2>2, <2>3, <2>4, <2>5, <2>6 DEF TypeOK
<1>7. RunOK /\ FreshOK
  BY IdleOK DEF Init, RunOK, FreshOK
<1>8. CompressOK
  <2>1. \A x \in Slots : hash[x] < offset
    BY DEF Init
  <2>2. <<anchor, Len(output)>> = <<0, 0>>
    BY <1>4 DEF Init
  <2> QED
    BY <2>1, <2>2, LeadsToNow DEF CompressOK
<1>9. CachedOK /\ DecodeOK /\ StreamOK
  BY DEF Init, CachedOK, DecodeOK, StreamOK
<1>10. EndOK
  <2>1. Prefix(0) = <<>>
    BY <1>2, PrefixEnds
  <2> QED
    BY <1>3, <1>4, <2>1 DEF Init, EndOK
<1> QED
  BY <1>6, <1>7, <1>8, <1>9, <1>10 DEF CodecInv

--------------------------------------------------------------------------------
(* compress_response. *)

LEMMA GramIs ==
  ASSUME source \in Seq(Letters), NEW at \in Nat, at + MinMatch <= Len(source)
  PROVE  /\ Gram(at) \in Grams /\ Slot[Gram(at)] \in Slots
         /\ \A k \in 1..MinMatch : Gram(at)[k] = source[at + k]
<1>1. /\ Gram(at) \in Seq(Letters) /\ Len(Gram(at)) = MinMatch
      /\ \A k \in 1..MinMatch : Gram(at)[k] = source[at + k]
  BY Constants, PartIs DEF Gram
<1>2. Gram(at) \in [1..MinMatch -> Letters]
  BY <1>1, LenProperties
<1> QED
  BY <1>1, <1>2 DEF Grams, Slots

\* The letters agree, MinMatch of them or more, and not beyond the response.
LEMMA MatchLengthIs ==
  ASSUME source \in Seq(Letters), offset \in Nat, offset + MinMatch <= Len(source),
         NEW from \in Nat, from < offset, Gram(from) = Gram(offset)
  PROVE  /\ MatchLength(from) \in MinMatch..(Len(source) - offset)
         /\ \A k \in 0..(MatchLength(from) - 1) :
              source[from + k + 1] = source[offset + k + 1]
<1> DEFINE n == Len(source) - offset
           Agree(m) == \A k \in 0..(m - 1) : source[from + k + 1] = source[offset + k + 1]
           Over(m) == \/ offset + m = Len(source)
                      \/ source[from + m + 1] # source[offset + m + 1]
           T == {m \in MinMatch..n : Over(m)}
<1>1. /\ Len(source) \in Nat /\ n \in Nat /\ n >= MinMatch /\ offset + n = Len(source)
      /\ MinMatch \in Nat
  BY LenProperties, Constants
<1>2. from + MinMatch <= Len(source)
  BY <1>1
<1>3. ASSUME NEW k \in 0..(MinMatch - 1)
      PROVE  source[from + k + 1] = source[offset + k + 1]
  <2>1. k + 1 \in 1..MinMatch /\ from + (k + 1) = from + k + 1
        /\ offset + (k + 1) = offset + k + 1
    BY <1>1, <1>3
  <2>2. Gram(from)[k + 1] = source[from + (k + 1)]
    BY <1>2, <2>1, GramIs
  <2>3. Gram(offset)[k + 1] = source[offset + (k + 1)]
    BY <2>1, GramIs
  <2> QED
    BY <2>1, <2>2, <2>3
<1>4. n \in T /\ T \subseteq Nat
  BY <1>1
<1>5. PICK m \in T : \A j \in T : m <= j
  BY <1>4, LeastMember
<1>6. Agree(m)
  <2> SUFFICES ASSUME NEW k \in 0..(m - 1)
               PROVE  source[from + k + 1] = source[offset + k + 1]
    OBVIOUS
  <2>0. m \in MinMatch..n
    BY <1>5
  <2> HIDE DEF n
  <2>1. CASE k < MinMatch
    <3>1. k \in 0..(MinMatch - 1)
      BY <1>1, <2>0, <2>1
    <3> QED
      BY <1>3, <3>1
  <2>2. CASE ~(k < MinMatch)
    <3>1. k \in MinMatch..n /\ k < m
      BY <1>1, <2>0, <2>2
    <3>2. k \notin T
      BY <1>5, <2>0, <3>1
    <3>3. ~Over(k)
      BY <3>1, <3>2
    <3> QED
      BY <3>3
  <2> QED
    BY <2>1, <2>2
<1>7. m \in MinMatch..n /\ Over(m)
  BY <1>5
<1>8. \E x \in MinMatch..n : Agree(x) /\ Over(x)
  BY <1>6, <1>7
<1>9. MatchLength(from) = CHOOSE x \in MinMatch..n : Agree(x) /\ Over(x)
  BY DEF MatchLength
<1> HIDE DEF n, Agree, Over, T
<1>10. MatchLength(from) \in MinMatch..n /\ Agree(MatchLength(from))
  BY <1>8, <1>9
<1> QED
  BY <1>10 DEF n, Agree

\* bytes are what compress_response emits for l literals from offset o on and a
\* match of m + MinMatch letters, d back, that the response justifies ...
IsSequence(o, l, m, d, bytes) ==
  /\ source \in Seq(Letters) /\ output \in Seq(Bytes)
  /\ o \in Nat /\ l \in Nat /\ m \in Nat /\ d \in 1..Window /\ d <= o + l
  /\ (o + l) + m + MinMatch <= Len(source)
  /\ \A k \in 0..(m + MinMatch - 1) :
       source[(o + l) - d + k + 1] = source[(o + l) + k + 1]
  /\ bytes = WithLiterals(o, l, m) \o MatchAt(d, m)

\* ... so that appending them makes a sequence.
LeadsOnBy(o, l, m, bytes) ==
  /\ bytes \in Seq(Bytes) /\ output \o bytes \in Seq(Bytes)
  /\ Len(output \o bytes) = NextAt(Len(output), l, m)
  /\ Sequence(source, output \o bytes, <<o, Len(output)>>,
              <<(o + l) + m + MinMatch, Len(output \o bytes)>>)

LEMMA Emitted ==
  ASSUME NEW o, NEW l, NEW m, NEW d, NEW bytes, IsSequence(o, l, m, d, bytes)
  PROVE  LeadsOnBy(o, l, m, bytes)
<1> SUFFICES ASSUME /\ source \in Seq(Letters) /\ output \in Seq(Bytes)
                    /\ o \in Nat /\ l \in Nat /\ m \in Nat
                    /\ d \in 1..Window /\ d <= o + l
                    /\ (o + l) + m + MinMatch <= Len(source)
                    /\ \A k \in 0..(m + MinMatch - 1) :
                         source[(o + l) - d + k + 1] = source[(o + l) + k + 1]
                    /\ bytes = WithLiterals(o, l, m) \o MatchAt(d, m)
             PROVE  /\ bytes \in Seq(Bytes) /\ output \o bytes \in Seq(Bytes)
                    /\ Len(output \o bytes) = NextAt(Len(output), l, m)
                    /\ Sequence(source, output \o bytes, <<o, Len(output)>>,
                                <<(o + l) + m + MinMatch, Len(output \o bytes)>>)
  BY DEF IsSequence, LeadsOnBy
<1> DEFINE a == WithLiterals(o, l, m)
           b == MatchAt(d, m)
           i == Len(output)
           j == DistanceAt(i, l)
           e == Len(Extension(m))
           v == output \o bytes
<1>1. /\ Len(source) \in Nat /\ i \in Nat /\ o + l \in Nat /\ o + l <= Len(source)
      /\ j \in Nat /\ e \in Nat /\ (j + 2) + e = NextAt(i, l, m)
  <2>1. Len(source) \in Nat /\ i \in Nat
    BY LenProperties
  <2>2. j \in Nat /\ (j + 2) + e = NextAt(i, l, m)
    BY <2>1, Places
  <2>3. e \in Nat
    BY ExtensionIs
  <2> HIDE DEF i, j, e
  <2> QED
    BY <2>1, <2>2, <2>3, Constants
<1>2. /\ a \in Seq(Bytes) /\ i + Len(a) = j
      /\ \A w \in Seq(Bytes) : At(w, a, i) => LiteralsIn(source, w, o, i, l, m)
  <2>1. /\ WithLiterals(o, l, m) \in Seq(Bytes)
        /\ \A x \in Nat : x + Len(WithLiterals(o, l, m)) = DistanceAt(x, l)
        /\ \A w \in Seq(Bytes), x \in Nat :
             At(w, WithLiterals(o, l, m), x) => LiteralsIn(source, w, o, x, l, m)
    BY <1>1, LiteralsEmitted
  <2> QED
    BY <1>1, <2>1
<1>3. /\ b \in Seq(Bytes) /\ Len(b) = 2 + e
      /\ \A w \in Seq(Bytes) : At(w, b, j) => MatchIn(source, w, o + l, j, d, m)
  BY <1>1, MatchEmitted
<1> HIDE DEF a, b, i, j, e, v
<1>4. bytes = a \o b
  BY DEF a, b
<1>5. bytes \in Seq(Bytes) /\ Len(bytes) = Len(a) + Len(b) /\ Len(a) \in Nat
  BY <1>2, <1>3, <1>4, ConcatProperties, LenProperties, ZenonT(60)
<1>6. v \in Seq(Bytes) /\ Len(v) = i + Len(bytes)
  BY <1>5, ConcatProperties DEF v, i
<1>7. At(v, bytes, i)
  BY <1>5, AtEnd DEF v, i
<1>8. At(v, a, i) /\ At(v, b, j)
  BY <1>1, <1>2, <1>3, <1>4, <1>6, <1>7, AtConcat, SMTT(30)
<1>9. LiteralsIn(source, v, o, i, l, m) /\ MatchIn(source, v, o + l, j, d, m)
  BY <1>2, <1>3, <1>6, <1>8
<1>10. Len(v) = NextAt(i, l, m)
  <2>1. Len(v) = i + (Len(a) + (2 + e))
    BY <1>3, <1>5, <1>6
  <2>2. i + Len(a) = j /\ i \in Nat /\ e \in Nat /\ Len(a) \in Nat
    BY <1>1, <1>2, <1>5
  <2>3. Len(v) = (j + 2) + e
    BY <2>1, <2>2
  <2> QED
    BY <1>1, <2>3
<1>11. Sequence(source, v, <<o, i>>, <<(o + l) + m + MinMatch, Len(v)>>)
  BY <1>9, <1>10 DEF Sequence, j
<1> QED
  BY <1>5, <1>6, <1>10, <1>11 DEF v, i

LEMMA EmittedLast ==
  ASSUME source \in Seq(Letters), output \in Seq(Bytes), NEW o \in Nat,
         o <= Len(source), NEW bytes, bytes = WithLiterals(o, Len(source) - o, 0)
  PROVE  /\ bytes \in Seq(Bytes) /\ output \o bytes \in Seq(Bytes)
         /\ LastSequence(source, output \o bytes, <<o, Len(output)>>)
<1> DEFINE l == Len(source) - o
           i == Len(output)
           v == output \o bytes
<1>1. Len(source) \in Nat /\ i \in Nat /\ l \in Nat /\ o + l = Len(source)
  BY LenProperties
<1>0. bytes = WithLiterals(o, l, 0)
  OBVIOUS
<1> HIDE DEF l
<1>2. /\ bytes \in Seq(Bytes) /\ i + Len(bytes) = DistanceAt(i, l)
      /\ \A w \in Seq(Bytes) : At(w, bytes, i) => LiteralsIn(source, w, o, i, l, 0)
  <2>1. /\ WithLiterals(o, l, 0) \in Seq(Bytes)
        /\ \A x \in Nat : x + Len(WithLiterals(o, l, 0)) = DistanceAt(x, l)
        /\ \A w \in Seq(Bytes), x \in Nat :
             At(w, WithLiterals(o, l, 0), x) => LiteralsIn(source, w, o, x, l, 0)
    <3>1. 0 \in Nat /\ o + l <= Len(source)
      BY <1>1
    <3> QED
      BY <1>1, <3>1, LiteralsEmitted
  <2> QED
    BY <1>0, <1>1, <2>1
<1> HIDE DEF i, v
<1>3. v \in Seq(Bytes) /\ Len(v) = i + Len(bytes)
  BY <1>2, ConcatProperties DEF v, i
<1>4. At(v, bytes, i)
  BY <1>2, AtEnd DEF v, i
<1>5. LiteralsIn(source, v, o, i, l, 0) /\ DistanceAt(i, l) = Len(v)
  BY <1>2, <1>3, <1>4
<1>6. LastSequence(source, v, <<o, i>>)
  BY <1>1, <1>5 DEF LastSequence
<1> QED
  BY <1>2, <1>3, <1>6 DEF v, i

LEMMA NoMemoryCodec == CodecInv /\ NoMemory => CodecInv'
<1> SUFFICES ASSUME CodecInv, NoMemory PROVE CodecInv'
  OBVIOUS
<1> USE DEF CodecInv, NoMemory, chosen, search, stream
<1>1. TypeOK'
  BY DEF TypeOK, Capacity, Maximum
<1>2. RunOK' /\ FreshOK'
  BY DEF RunOK, FreshOK, Begun
<1>3. CompressOK' /\ CachedOK' /\ DecodeOK' /\ StreamOK'
  BY DEF CompressOK, CachedOK, DecodeOK, StreamOK
<1>4. EndOK'
  BY DEF EndOK, Prefix, Part
<1> QED
  BY <1>1, <1>2, <1>3, <1>4

LEMMA HandOverCodec == CodecInv /\ HandOver => CodecInv'
<1> SUFFICES ASSUME CodecInv, HandOver PROVE CodecInv'
  OBVIOUS
<1> USE DEF CodecInv, HandOver, chosen, search, stream
<1>0. Capacity \in Nat /\ <<>> \in Seq(0..LengthStep) /\ Len(<<>>) = 0
  BY RoomOK DEF TypeOK
<1>1. TypeOK'
  <2>1. input = 0
    BY DEF FreshOK, Begun
  <2> QED
    BY <1>0, <2>1 DEF TypeOK, Capacity, Maximum
<1>2. RunOK' /\ FreshOK'
  BY DEF RunOK, FreshOK, Begun
<1>3. CompressOK' /\ CachedOK' /\ DecodeOK' /\ StreamOK'
  BY DEF CompressOK, CachedOK, DecodeOK, StreamOK
<1>4. EndOK'
  BY DEF EndOK, Prefix, Part
<1> QED
  BY <1>1, <1>2, <1>3, <1>4

LEMMA BeginDecodeCodec == CodecInv /\ BeginDecode => CodecInv'
<1> SUFFICES ASSUME CodecInv, BeginDecode PROVE CodecInv'
  OBVIOUS
<1> USE DEF CodecInv, BeginDecode, chosen, search, stream
<1>1. TypeOK'
  BY DEF TypeOK, Capacity, Maximum
<1>2. RunOK' /\ FreshOK'
  BY DEF RunOK, FreshOK, Begun
<1>3. CompressOK' /\ CachedOK' /\ StreamOK'
  BY DEF CompressOK, CachedOK, StreamOK
<1>4. DecodeOK'
  <2>1. Prefix(0) = <<>> /\ Len(source) \in Nat /\ Len(<<>>) = 0
    BY PrefixEnds DEF TypeOK
  <2>2. decoded = <<>> /\ input = 0
    BY DEF FreshOK, Begun
  <2>3. output = <<>> \/ Ends(source, output, <<0, 0>>)
    BY DEF CachedOK
  <2>4. /\ Len(decoded) <= Len(source) /\ decoded = Prefix(Len(decoded))
        /\ output = <<>> \/ Ends(source, output, <<Len(decoded), input>>)
    BY <2>1, <2>2, <2>3
  <2> QED
    BY <2>4 DEF DecodeOK, Prefix, Part
<1>5. EndOK'
  BY DEF EndOK, Prefix, Part
<1> QED
  BY <1>1, <1>2, <1>3, <1>4, <1>5

LEMMA BeginStreamCodec == CodecInv /\ BeginStream => CodecInv'
<1> SUFFICES ASSUME CodecInv, BeginStream PROVE CodecInv'
  OBVIOUS
<1> USE DEF CodecInv, BeginStream, chosen, search, stream
<1>1. TypeOK'
  BY DEF TypeOK, Capacity, Maximum
<1>2. RunOK' /\ FreshOK'
  BY DEF RunOK, FreshOK, Begun
<1>3. CompressOK' /\ CachedOK' /\ DecodeOK'
  BY DEF CompressOK, CachedOK, DecodeOK
<1>4. StreamOK'
  <2>1. Prefix(0) = <<>> /\ Len(source) \in Nat /\ Len(<<>>) = 0
    BY PrefixEnds DEF TypeOK
  <2>2. sent = <<>> /\ chunk = <<>> /\ input = 0 /\ run = Idle
    BY DEF FreshOK, Begun
  <2>3. output = <<>> \/ Ends(source, output, <<0, 0>>)
    BY DEF CachedOK
  <2>4. output_size = 0 /\ <<>> \o <<>> = <<>>
    BY <2>1, <2>2 DEF output_size
  <2>5. RingOK
    BY <2>4 DEF RingOK
  <2>6. output_size <= Len(source) /\ sent \o chunk = Prefix(output_size)
    BY <2>1, <2>2, <2>4
  <2>7. output = <<>> \/ InToken
    BY <2>2, <2>3, <2>4, IdleOK DEF InToken
  <2>8. RingOK' /\ (output_size <= Len(source))' /\ (sent \o chunk = Prefix(output_size))'
    BY <2>5, <2>6 DEF RingOK, output_size, Prefix, Part
  <2>9. (output = <<>> /\ run = Idle)' \/ InToken'
    BY <2>2, <2>7 DEF InToken, output_size, Idle
  <2> QED
    BY <2>8, <2>9 DEF StreamOK
<1>5. EndOK'
  BY DEF EndOK, Prefix, Part
<1> QED
  BY <1>1, <1>2, <1>3, <1>4, <1>5

\* What Search finds: a place before offset, and the letters it repeats.
LEMMA Found ==
  ASSUME CodecInv, phase = "compress", offset + MinMatch <= Len(source)
  PROVE  /\ Slot[Gram(offset)] \in Slots /\ hash[Slot[Gram(offset)]] \in Int
         /\ hash[Slot[Gram(offset)]] < offset
         /\ Repeats(hash[Slot[Gram(offset)]]) =>
              LET from == hash[Slot[Gram(offset)]]
                  m    == MatchLength(from)
                  n    == m - MinMatch
                  d    == offset - from
              IN /\ m \in Nat /\ m >= MinMatch /\ offset + m <= Len(source)
                 /\ n \in Nat /\ n + MinMatch = m
                 /\ d \in 1..Window /\ d <= offset
                 /\ \A k \in 0..(m - 1) : source[offset - d + k + 1] = source[offset + k + 1]
<1> DEFINE slot == Slot[Gram(offset)]
           from == hash[slot]
           m == MatchLength(from)
           d == offset - from
<1>1. /\ source \in Seq(Letters) /\ offset \in Nat /\ Len(source) \in Nat
      /\ MinMatch \in Nat /\ hash \in [Slots -> -1..offset]
      /\ \A x \in Slots : hash[x] < offset
  BY Constants, LenProperties DEF CodecInv, TypeOK, CompressOK
<1>2. slot \in Slots
  BY <1>1, GramIs
<1> HIDE DEF slot
<1>3. from \in -1..offset /\ from < offset
  BY <1>1, <1>2
<1> HIDE DEF from
<1>4. ASSUME Repeats(from)
      PROVE  /\ m \in Nat /\ m >= MinMatch /\ offset + m <= Len(source)
             /\ m - MinMatch \in Nat /\ (m - MinMatch) + MinMatch = m
             /\ d \in 1..Window /\ d <= offset
             /\ \A k \in 0..(m - 1) : source[offset - d + k + 1] = source[offset + k + 1]
  <2>1. from \in Nat /\ offset - from <= Window /\ Gram(from) = Gram(offset)
    BY <1>1, <1>3, <1>4 DEF Repeats, Reachable
  <2>2. /\ m \in MinMatch..(Len(source) - offset)
        /\ \A k \in 0..(m - 1) : source[from + k + 1] = source[offset + k + 1]
    BY <1>1, <1>3, <2>1, MatchLengthIs
  <2> HIDE DEF m
  <2>3. d \in 1..Window /\ d <= offset /\ offset - d = from
    BY <1>1, <1>3, <2>1, Constants
  <2> HIDE DEF d
  <2>4. \A k \in 0..(m - 1) : source[offset - d + k + 1] = source[offset + k + 1]
    BY <2>2, <2>3
  <2>5. /\ m \in Nat /\ m >= MinMatch /\ offset + m <= Len(source)
        /\ m - MinMatch \in Nat /\ (m - MinMatch) + MinMatch = m
    BY <1>1, <2>2
  <2> QED
    BY <2>3, <2>4, <2>5
<1>5. from \in Int /\ from < offset
  BY <1>1, <1>3
<1> QED
  BY <1>2, <1>4, <1>5 DEF from, slot

\* ... and what it puts out then.
Finds(from, n, bytes) ==
  /\ phase = "compress" /\ offset + MinMatch <= Len(source)
  /\ from = hash[Slot[Gram(offset)]] /\ Repeats(from)
  /\ n = MatchLength(from) - MinMatch
  /\ bytes = WithLiterals(anchor, offset - anchor, n) \o MatchAt(offset - from, n)

LEMMA SearchEmits ==
  ASSUME CodecInv, NEW from, NEW n, NEW bytes, Finds(from, n, bytes)
  PROVE  /\ bytes \in Seq(Bytes) /\ output \o bytes \in Seq(Bytes)
         /\ Len(output \o bytes) = NextAt(Len(output), offset - anchor, n)
         /\ Sequence(source, output \o bytes, <<anchor, Len(output)>>,
                     <<offset + MatchLength(from), Len(output \o bytes)>>)
<1> DEFINE m == MatchLength(from)
           d == offset - from
           l == offset - anchor
<1>1. /\ source \in Seq(Letters) /\ output \in Seq(Bytes) /\ anchor \in Nat
      /\ offset \in Nat /\ MinMatch \in Nat /\ Len(source) \in Nat /\ anchor <= offset
  BY Constants, LenProperties DEF CodecInv, TypeOK, Bytes
<1>2. /\ m \in Nat /\ m >= MinMatch /\ offset + m <= Len(source)
      /\ n \in Nat /\ n + MinMatch = m /\ d \in 1..Window /\ d <= offset
      /\ \A k \in 0..(m - 1) : source[offset - d + k + 1] = source[offset + k + 1]
  BY Found DEF Finds
<1>3. bytes = WithLiterals(anchor, l, n) \o MatchAt(d, n)
  BY DEF Finds
<1>4. l \in Nat /\ anchor + l = offset
  BY <1>1
<1> HIDE DEF m, d, l
<1>5. offset + n + MinMatch = offset + m /\ n + MinMatch - 1 = m - 1
  <2>1. /\ offset \in Nat /\ MinMatch \in Nat /\ n \in Nat /\ m \in Nat
        /\ n + MinMatch = m
    BY <1>1, <1>2
  <2> QED
    BY <2>1
<1>6. /\ n \in Nat /\ d \in 1..Window /\ d <= anchor + l
      /\ (anchor + l) + n + MinMatch <= Len(source)
      /\ \A k \in 0..(n + MinMatch - 1) :
           source[(anchor + l) - d + k + 1] = source[(anchor + l) + k + 1]
  BY <1>2, <1>4, <1>5
<1>7. /\ bytes \in Seq(Bytes) /\ output \o bytes \in Seq(Bytes)
      /\ Len(output \o bytes) = NextAt(Len(output), l, n)
      /\ Sequence(source, output \o bytes, <<anchor, Len(output)>>,
                  <<(anchor + l) + n + MinMatch, Len(output \o bytes)>>)
  <2>1. /\ source \in Seq(Letters) /\ output \in Seq(Bytes) /\ anchor \in Nat
        /\ l \in Nat /\ n \in Nat /\ d \in 1..Window /\ d <= anchor + l
        /\ (anchor + l) + n + MinMatch <= Len(source)
        /\ \A k \in 0..(n + MinMatch - 1) :
             source[(anchor + l) - d + k + 1] = source[(anchor + l) + k + 1]
        /\ bytes = WithLiterals(anchor, l, n) \o MatchAt(d, n)
    BY <1>1, <1>3, <1>4, <1>6
  <2>2. IsSequence(anchor, l, n, d, bytes)
    BY <2>1, Zenon DEF IsSequence
  <2> QED
    BY <2>2, Emitted, Zenon DEF LeadsOnBy
<1> QED
  BY <1>4, <1>5, <1>7 DEF m, l

LEMMA SearchCodec == CodecInv /\ Search => CodecInv'
<1> SUFFICES ASSUME CodecInv, Search PROVE CodecInv'
  OBVIOUS
<1> DEFINE slot == Slot[Gram(offset)]
           from == hash[slot]
           m == MatchLength(from)
           n == m - MinMatch
           d == offset - from
           l == offset - anchor
           bytes == WithLiterals(anchor, l, n) \o MatchAt(d, n)
<1>1. /\ phase = "compress" /\ offset + MinMatch <= Len(source)
      /\ hash' = [hash EXCEPT ![slot] = offset]
      /\ UNCHANGED <<source, limit, patience, input, decoded, run, history, chunk, sent>>
  BY DEF Search, chosen, stream
<1>2. \/ /\ ~Repeats(from) /\ offset' = offset + 1
         /\ UNCHANGED <<phase, output, anchor>>
      \/ /\ Repeats(from) /\ Put(bytes, "compress")
         /\ offset' = offset + m /\ anchor' = offset + m
  BY DEF Search
<1>3. /\ source \in Seq(Letters) /\ offset \in Nat /\ Len(source) \in Nat
      /\ output \in Seq(Bytes) /\ Len(output) \in Nat /\ offset <= Len(source)
      /\ MinMatch \in Nat /\ MinMatch >= 1 /\ hash \in [Slots -> -1..offset]
      /\ anchor \in Nat /\ anchor <= offset
      /\ Len(output) <= Capacity /\ Capacity \in Nat
      /\ LeadsTo(source, output, <<anchor, Len(output)>>)
      /\ input = 0 /\ decoded = <<>> /\ run = Idle /\ chunk = <<>> /\ sent = <<>>
  BY <1>1, Constants, LenProperties, RoomOK
     DEF CodecInv, TypeOK, CompressOK, FreshOK, Begun, Bytes
<1>4. slot \in Slots /\ from \in Int /\ from < offset
  BY <1>1, Found
<1>5. Repeats(from) =>
        /\ m \in Nat /\ m >= MinMatch /\ offset + m <= Len(source)
        /\ n \in Nat /\ n + MinMatch = m /\ d \in 1..Window /\ d <= offset
        /\ \A k \in 0..(m - 1) : source[offset - d + k + 1] = source[offset + k + 1]
  BY <1>1, Found
<1> HIDE DEF slot, from, m, n, d, bytes
<1>6. ASSUME NEW q \in Nat, q > offset, q <= Len(source), offset' = q
      PROVE  /\ hash' \in [Slots -> -1..offset'] /\ \A x \in Slots : hash'[x] < offset'
             /\ offset' \in 0..Len(source)
  BY <1>1, <1>3, <1>4, <1>6
<1>7. UNCHANGED <<Capacity, Maximum>>
  BY <1>1 DEF Capacity, Maximum
<1>8. CASE ~Repeats(from)
  <2>1. offset' = offset + 1 /\ UNCHANGED <<phase, output, anchor>>
    BY <1>2, <1>8
  <2>2. /\ hash' \in [Slots -> -1..offset'] /\ \A x \in Slots : hash'[x] < offset'
        /\ offset' \in 0..Len(source) /\ anchor \in 0..offset'
    BY <1>1, <1>3, <1>6, <2>1
  <2>3. TypeOK'
    BY <1>1, <1>7, <2>1, <2>2 DEF CodecInv, TypeOK
  <2>4. CompressOK'
    BY <1>1, <1>3, <2>1, <2>2 DEF CompressOK
  <2>5. RunOK' /\ FreshOK' /\ CachedOK' /\ DecodeOK' /\ StreamOK'
    BY <1>1, <2>1
       DEF CodecInv, RunOK, FreshOK, Begun, CachedOK, DecodeOK, StreamOK
  <2>6. EndOK'
    BY <1>1, <2>1 DEF CodecInv, EndOK, Prefix, Part
  <2> QED
    BY <2>3, <2>4, <2>5, <2>6 DEF CodecInv
<1>9. CASE Repeats(from)
  <2>1. Put(bytes, "compress") /\ offset' = offset + m /\ anchor' = offset + m
    BY <1>2, <1>9
  <2>2. /\ m \in Nat /\ m >= 1 /\ offset + m \in Nat /\ offset + m > offset
        /\ offset + m <= Len(source)
    BY <1>3, <1>5, <1>9
  <2>3. /\ hash' \in [Slots -> -1..offset'] /\ \A x \in Slots : hash'[x] < offset'
        /\ offset' \in 0..Len(source) /\ anchor' \in 0..offset'
    BY <1>3, <1>6, <2>1, <2>2
  <2>4. /\ bytes \in Seq(Bytes) /\ output \o bytes \in Seq(Bytes)
        /\ Sequence(source, output \o bytes, <<anchor, Len(output)>>,
                    <<offset + m, Len(output \o bytes)>>)
    <3>1. /\ from = hash[Slot[Gram(offset)]] /\ n = MatchLength(from) - MinMatch
          /\ bytes = WithLiterals(anchor, offset - anchor, n) \o MatchAt(offset - from, n)
          /\ m = MatchLength(from)
      BY DEF from, slot, n, m, d, bytes
    <3>2. Finds(from, n, bytes)
      BY <1>1, <1>9, <3>1 DEF Finds
    <3> QED
      BY <3>1, <3>2, SearchEmits
  <2>5. /\ Len(output \o bytes) = Len(output) + Len(bytes) /\ Len(bytes) \in Nat
        /\ Len(output \o bytes) \in Nat
    BY <1>3, <2>4, ConcatProperties, LenProperties
  <2>6. \/ output' = output \o bytes /\ phase' = "compress" /\ Len(output') <= Capacity
        \/ output' = <<>> /\ phase' = "refused"
    BY <2>1, <2>5 DEF Put
  <2>7. output' \in Seq(Bytes) /\ Len(output') <= Capacity /\ Len(output') \in Nat
    <3>1. <<>> \in Seq(Bytes) /\ Len(<<>>) = 0
      BY EmptySeq
    <3>2. CASE output' = output \o bytes /\ phase' = "compress" /\ Len(output') <= Capacity
      BY <2>4, <2>5, <3>2
    <3>3. CASE output' = <<>>
      BY <1>3, <3>1, <3>3
    <3> QED
      BY <2>6, <3>2, <3>3
  <2>8. TypeOK'
    BY <1>1, <1>3, <1>7, <2>3, <2>6, <2>7, SMTT(30) DEF CodecInv, TypeOK, Bytes
  <2>9. CompressOK'
    <3> SUFFICES ASSUME phase' = "compress" PROVE CompressOK'
      BY DEF CompressOK
    <3>1. output' = output \o bytes
      BY <2>6
    <3>2. /\ Len(output) <= Len(output \o bytes)
          /\ \A k \in 1..Len(output) : (output \o bytes)[k] = output[k]
      BY <1>3, <2>4, <2>5, AtEnd
    <3>3. /\ <<anchor, Len(output)>> \in Pairs
          /\ <<offset + m, Len(output \o bytes)>> \in Pairs
      BY <1>3, <2>2, <2>5 DEF Pairs
    <3>4. LeadsTo(source, output \o bytes, <<offset + m, Len(output \o bytes)>>)
      <4> DEFINE v == output \o bytes
                 y == <<anchor, Len(output)>>
                 z == <<offset + m, Len(v)>>
      <4>1. /\ v \in Seq(Bytes) /\ y \in Pairs /\ z \in Pairs
            /\ Len(output) <= Len(v) /\ \A k \in 1..Len(output) : v[k] = output[k]
            /\ LeadsTo(source, output, y) /\ Sequence(source, v, y, z)
        BY <1>3, <2>4, <3>2, <3>3
      <4> HIDE DEF v, y, z
      <4>2. LeadsTo(source, v, z)
        BY <1>3, <4>1, LeadsOn
      <4> QED
        BY <4>2 DEF v, z
    <3> QED
      BY <1>1, <2>1, <2>3, <3>1, <3>4 DEF CompressOK
  <2>10. RunOK' /\ FreshOK' /\ CachedOK' /\ DecodeOK' /\ StreamOK'
    BY <1>1, <1>3, <2>6
       DEF CodecInv, RunOK, FreshOK, Begun, CachedOK, DecodeOK, StreamOK
  <2>11. EndOK'
    BY <1>1, <2>6 DEF CodecInv, EndOK, Prefix, Part
  <2> QED
    BY <2>8, <2>9, <2>10, <2>11 DEF CodecInv
<1> QED
  BY <1>8, <1>9

LEMMA EndSearchCodec == CodecInv /\ EndSearch => CodecInv'
<1> SUFFICES ASSUME CodecInv, EndSearch PROVE CodecInv'
  OBVIOUS
<1> DEFINE bytes == WithLiterals(anchor, Len(source) - anchor, 0)
<1>1. /\ phase = "compress" /\ Put(bytes, "cached")
      /\ UNCHANGED <<source, limit, patience, hash, anchor, offset,
                     input, decoded, run, history, chunk, sent>>
  BY DEF EndSearch, chosen, search, stream
<1>2. /\ source \in Seq(Letters) /\ output \in Seq(Bytes) /\ Len(output) \in Nat
      /\ anchor \in Nat /\ anchor <= Len(source) /\ Len(source) \in Nat
      /\ Len(output) <= Capacity /\ Capacity \in Nat
      /\ LeadsTo(source, output, <<anchor, Len(output)>>)
      /\ input = 0 /\ decoded = <<>> /\ run = Idle /\ chunk = <<>> /\ sent = <<>>
  BY <1>1, Constants, LenProperties, RoomOK
     DEF CodecInv, TypeOK, CompressOK, FreshOK, Begun, Bytes
<1>3. /\ bytes \in Seq(Bytes) /\ output \o bytes \in Seq(Bytes)
      /\ LastSequence(source, output \o bytes, <<anchor, Len(output)>>)
  BY <1>2, EmittedLast
<1> HIDE DEF bytes
<1>4. UNCHANGED <<Capacity, Maximum>>
  BY <1>1 DEF Capacity, Maximum
<1>5. /\ Len(output \o bytes) = Len(output) + Len(bytes) /\ Len(bytes) \in Nat
      /\ Len(output \o bytes) \in Nat
  BY <1>2, <1>3, ConcatProperties, LenProperties
<1>6. \/ output' = output \o bytes /\ phase' = "cached" /\ Len(output') <= Capacity
      \/ output' = <<>> /\ phase' = "refused"
  BY <1>1, <1>5 DEF Put
<1>7. output' \in Seq(Bytes) /\ Len(output') <= Capacity /\ Len(output') \in Nat
  <2>1. <<>> \in Seq(Bytes) /\ Len(<<>>) = 0
    BY EmptySeq
  <2>2. CASE output' = output \o bytes /\ phase' = "cached" /\ Len(output') <= Capacity
    BY <1>3, <1>5, <2>2
  <2>3. CASE output' = <<>>
    BY <1>2, <2>1, <2>3
  <2> QED
    BY <1>6, <2>2, <2>3
<1>8. TypeOK'
  BY <1>1, <1>2, <1>4, <1>6, <1>7 DEF CodecInv, TypeOK, Bytes
<1>9. CachedOK'
  <2> SUFFICES ASSUME phase' = "cached" PROVE CachedOK'
    BY <1>6 DEF CachedOK
  <2> DEFINE v == output \o bytes
             x == <<anchor, Len(output)>>
  <2>1. output' = v
    BY <1>6
  <2>2. Len(output) <= Len(v) /\ \A k \in 1..Len(output) : v[k] = output[k]
    BY <1>2, <1>3, <1>5, AtEnd
  <2>3. x \in Pairs
    BY <1>2 DEF Pairs
  <2>4. LastSequence(source, v, x) /\ v \in Seq(Bytes) /\ LeadsTo(source, output, x)
    BY <1>2, <1>3
  <2> HIDE DEF v, x
  <2>5. Ends(source, v, <<0, 0>>)
    BY <1>2, <2>2, <2>3, <2>4, EndsBegins
  <2> QED
    BY <1>1, <2>1, <2>5 DEF CachedOK
<1>10. RunOK' /\ FreshOK' /\ CompressOK' /\ DecodeOK' /\ StreamOK'
  BY <1>1, <1>2, <1>6
     DEF CodecInv, RunOK, FreshOK, Begun, CompressOK, DecodeOK, StreamOK
<1>11. EndOK'
  BY <1>1, <1>6 DEF CodecInv, EndOK, Prefix, Part
<1> QED
  BY <1>8, <1>9, <1>10, <1>11 DEF CodecInv

--------------------------------------------------------------------------------
(* decompress_response. *)

LEMMA LiteralsCopied ==
  ASSUME source \in Seq(Letters), output \in Seq(Bytes), NEW o \in Nat, NEW i \in Nat,
         NEW l \in Nat, NEW m, LiteralsIn(source, output, o, i, l, m)
  PROVE  Part(output, LiteralsAt(i, l), l) = Part(source, o, l)
<1> DEFINE p == LiteralsAt(i, l)
<1>1. /\ p \in Nat /\ p + l <= Len(output) /\ o + l <= Len(source)
      /\ \A k \in 1..l : output[p + k] = source[o + k]
  <2>1. p \in Nat /\ p + l = DistanceAt(i, l)
    BY 0 \in Nat, Places
  <2> QED
    BY <2>1 DEF LiteralsIn
<1> HIDE DEF p
<1> DEFINE a == Part(output, p, l)
           b == Part(source, o, l)
<1>2. a \in Seq(Bytes) /\ Len(a) = l /\ \A k \in 1..l : a[k] = output[p + k]
  <2>1. p \in Nat /\ p + l <= Len(output)
    BY <1>1
  <2> QED
    BY <2>1, PartIs, ZenonT(60)
<1>3. b \in Seq(Letters) /\ Len(b) = l /\ \A k \in 1..l : b[k] = source[o + k]
  <2>1. o + l <= Len(source)
    BY <1>1
  <2> QED
    BY <2>1, PartIs
<1>4. b \in Seq(Bytes)
  BY <1>3, Constants
<1> HIDE DEF a, b
<1>5. a = b
  BY <1>1, <1>2, <1>3, <1>4, SeqEqual
<1> QED
  BY <1>5 DEF a, b, p

LEMMA DecodeSequenceCodec == CodecInv /\ DecodeSequence => CodecInv'
<1> SUFFICES ASSUME CodecInv, DecodeSequence PROVE CodecInv'
  OBVIOUS
<1> DEFINE literals == ReadLength(LiteralNibble(output[input + 1]), input + 1)
           at == literals.next + literals.length
           text == decoded \o Part(output, literals.next, literals.length)
           match == ReadLength(MatchNibble(output[input + 1]), at + 2)
           o == Len(decoded)
           x == <<o, input>>
<1>1. /\ phase = "decode" /\ input < Len(output)
      /\ UNCHANGED <<source, limit, patience, output, hash, anchor, offset,
                     run, history, chunk, sent>>
  BY DEF DecodeSequence, chosen, search, stream
<1>2. /\ source \in Seq(Letters) /\ Len(source) \in Nat /\ output \in Seq(Bytes)
      /\ Len(output) \in Nat /\ input \in Nat /\ decoded \in Seq(Bytes) /\ o \in Nat
      /\ o <= Len(source) /\ decoded = Prefix(o)
      /\ MinMatch \in Nat /\ MinMatch >= 1
  BY <1>1, Constants, LenProperties DEF CodecInv, TypeOK, DecodeOK, Bytes
<1>3. Ends(source, output, x)
  <2>1. output # <<>>
    BY <1>1, <1>2, EmptySeq
  <2> QED
    BY <1>1, <1>2, <2>1 DEF CodecInv, DecodeOK
<1>4. IF \/ literals.next < 0 \/ at > Len(output)
         \/ Len(text) > Len(source) \/ at + 1 = Len(output)
      THEN phase' = "undecodable" /\ UNCHANGED <<input, decoded>>
      ELSE IF at = Len(output)
      THEN input' = at /\ decoded' = text /\ UNCHANGED phase
      ELSE IF \/ Distance(at) \notin 1..Len(text) \/ match.next < 0
              \/ Len(text) + match.length + MinMatch > Len(source)
      THEN phase' = "undecodable" /\ UNCHANGED <<input, decoded>>
      ELSE /\ decoded' = Copy(text, Distance(at), match.length + MinMatch)
           /\ input' = match.next /\ UNCHANGED phase
  BY DEF DecodeSequence
<1>5. ASSUME NEW l \in Nat, NEW m \in Nat, LiteralsIn(source, output, o, input, l, m)
      PROVE  /\ literals = [length |-> l, next |-> LiteralsAt(input, l)]
             /\ at = DistanceAt(input, l) /\ at \in Nat /\ at <= Len(output)
             /\ text = Prefix(o + l) /\ Len(text) = o + l /\ o + l <= Len(source)
             /\ literals.next \in Nat
             /\ MatchNibble(output[input + 1]) = Smaller(m, Nibble)
  <2> DEFINE p == LiteralsAt(input, l)
  <2>1. literals = [length |-> l, next |-> p]
        /\ MatchNibble(output[input + 1]) = Smaller(m, Nibble)
    BY <1>2, <1>5, LiteralsRead
  <2>2. p \in Nat /\ p + l = DistanceAt(input, l) /\ DistanceAt(input, l) \in Nat
    BY <1>2, <1>5, Places
  <2>3. DistanceAt(input, l) <= Len(output) /\ o + l <= Len(source)
    BY <1>5 DEF LiteralsIn
  <2>4. text = decoded \o Part(output, p, l)
    BY <2>1
  <2>5. Part(output, p, l) = Part(source, o, l)
    BY <1>2, <1>5, LiteralsCopied
  <2>6. text = Prefix(o + l)
    <3> HIDE DEF o
    <3> QED
      BY <1>2, <2>3, <2>4, <2>5, PrefixConcat
  <2>7. Len(Prefix(o + l)) = o + l
    <3>1. o + l \in Nat
      BY <1>2
    <3> QED
      BY <1>2, <2>3, <3>1, PrefixIs
  <2>8. at = p + l
    BY <2>1
  <2> HIDE DEF p, at, text, literals, o
  <2>9. literals.next \in Nat
    BY <2>1, <2>2
  <2> QED
    BY <2>1, <2>2, <2>3, <2>6, <2>7, <2>8, <2>9 DEF p
<1> HIDE DEF literals, at, text
<1>6. /\ UNCHANGED phase /\ input' \in 0..Len(output)
      /\ \E q \in 0..Len(source) :
           /\ decoded' = Prefix(q)
           /\ \/ Ends(source, output, <<q, input'>>)
              \/ q = Len(source) /\ input' = Len(output)
  <2>1. CASE LastSequence(source, output, x)
    <3>1. PICK l \in Nat : /\ LiteralsIn(source, output, o, input, l, 0)
                           /\ o + l = Len(source) /\ DistanceAt(input, l) = Len(output)
      BY <2>1 DEF LastSequence
    <3>2. /\ at = Len(output) /\ Len(text) = Len(source) /\ text = Prefix(Len(source))
          /\ literals.next \in Nat
      <4>1. 0 \in Nat
        OBVIOUS
      <4> QED
        BY <1>5, <3>1, <4>1
    <3>3. ~(\/ literals.next < 0 \/ at > Len(output)
            \/ Len(text) > Len(source) \/ at + 1 = Len(output))
      BY <1>2, <3>2
    <3>4. input' = at /\ decoded' = text /\ UNCHANGED phase
      BY <1>4, <3>2, <3>3
    <3> QED
      BY <1>2, <3>2, <3>4
  <2>2. CASE \E z \in Pairs : Sequence(source, output, x, z) /\ Ends(source, output, z)
    <3>1. PICK z \in Pairs : Sequence(source, output, x, z) /\ Ends(source, output, z)
      BY <2>2
    <3>2. PICK l \in Nat, m \in Nat, d \in 1..Window :
            /\ LiteralsIn(source, output, o, input, l, m)
            /\ MatchIn(source, output, o + l, DistanceAt(input, l), d, m)
            /\ z = <<o + l + m + MinMatch, NextAt(input, l, m)>>
      BY <3>1 DEF Sequence
    <3> HIDE DEF o
    <3>3. /\ at = DistanceAt(input, l) /\ at \in Nat /\ at <= Len(output)
          /\ text = Prefix(o + l) /\ Len(text) = o + l /\ o + l <= Len(source)
          /\ literals.next \in Nat
          /\ MatchNibble(output[input + 1]) = Smaller(m, Nibble)
      BY <1>5, <3>2 DEF o
    <3>4. MatchIn(source, output, o + l, at, d, m)
      BY <3>2, <3>3
    <3>5. /\ d \in 1..Window /\ d <= o + l /\ (o + l) + m + MinMatch <= Len(source)
          /\ at + 2 + Len(Extension(m)) <= Len(output)
          /\ \A k \in 0..(m + MinMatch - 1) :
               source[(o + l) - d + k + 1] = source[(o + l) + k + 1]
      BY <3>4 DEF MatchIn
    <3>6. /\ Distance(at) = d
          /\ ReadLength(Smaller(m, Nibble), at + 2)
               = [length |-> m, next |-> (at + 2) + Len(Extension(m))]
      BY <1>2, <3>3, <3>4, MatchRead, SMTT(30)
    <3>7. (at + 2) + Len(Extension(m)) = NextAt(input, l, m) /\ NextAt(input, l, m) \in Nat
      BY <1>2, <3>3, Places
    <3>8. match = [length |-> m, next |-> NextAt(input, l, m)]
      BY <3>3, <3>6, <3>7
    <3> HIDE DEF match
    <3>9. match.length = m /\ match.next = NextAt(input, l, m)
      BY <3>8
    <3>10. Len(Extension(m)) \in Nat /\ NextAt(input, l, m) <= Len(output)
      BY <3>3, <3>5, <3>7, ExtensionIs
    <3>11. ~(\/ literals.next < 0 \/ at > Len(output)
             \/ Len(text) > Len(source) \/ at + 1 = Len(output))
           /\ at # Len(output)
      <4>1. at + 2 <= Len(output) /\ at + 1 # Len(output)
        <5>1. /\ at \in Nat /\ Len(output) \in Nat /\ Len(Extension(m)) \in Nat
              /\ at + 2 + Len(Extension(m)) <= Len(output)
          BY <1>2, <3>3, <3>5, <3>10
        <5> QED
          BY <5>1
      <4>2. ~(literals.next < 0) /\ ~(at > Len(output)) /\ at # Len(output)
        BY <1>2, <3>3, <4>1, SMTT(30)
      <4>3. ~(Len(text) > Len(source))
        BY <1>2, <3>3
      <4> QED
        BY <4>1, <4>2, <4>3
    <3>12. Distance(at) \in 1..Len(text) /\ ~(match.next < 0)
           /\ ~(Len(text) + match.length + MinMatch > Len(source))
      <4>1. Distance(at) \in 1..Len(text)
        BY <1>2, <3>3, <3>5, <3>6, SMTT(30)
      <4>2. ~(match.next < 0)
        BY <3>7, <3>9
      <4>3. ~((o + l) + m + MinMatch > Len(source))
        BY <1>2, <3>5
      <4> QED
        BY <3>3, <3>9, <4>1, <4>2, <4>3
    <3>13. /\ decoded' = Copy(text, Distance(at), match.length + MinMatch)
           /\ input' = match.next /\ UNCHANGED phase
      BY <1>4, <3>11, <3>12
    <3>14. decoded' = Copy(Prefix(o + l), d, m + MinMatch)
      BY <3>3, <3>6, <3>9, <3>13
    <3> DEFINE n == m + MinMatch
    <3>15. /\ o + l \in Nat /\ d \in 1..(o + l) /\ m + MinMatch \in Nat
           /\ (o + l) + (m + MinMatch) <= Len(source)
           /\ (o + l) + (m + MinMatch) = o + l + m + MinMatch
           /\ o + l + m + MinMatch \in Nat
      BY <1>2, <3>5
    <3>16. Copy(Prefix(o + l), d, n) = Prefix((o + l) + n)
      <4>1. n - 1 = m + MinMatch - 1
        BY <1>2
      <4> DEFINE j == o + l
      <4>2. \A k \in 0..(n - 1) : source[j - d + k + 1] = source[j + k + 1]
        BY <3>5, <4>1
      <4>3. j \in Nat /\ d \in 1..j /\ n \in Nat /\ j + n <= Len(source)
        BY <3>15
      <4> HIDE DEF j, n
      <4>4. Copy(Prefix(j), d, n) = Prefix(j + n)
        BY <1>2, <4>2, <4>3, CopyIs
      <4> QED
        BY <4>4 DEF j
    <3>17. decoded' = Prefix(o + l + m + MinMatch)
      BY <3>14, <3>15, <3>16
    <3>19. Ends(source, output, <<o + l + m + MinMatch, NextAt(input, l, m)>>)
      BY <3>1, <3>2
    <3> DEFINE q == o + l + m + MinMatch
               r == NextAt(input, l, m)
    <3>20. /\ decoded' = Prefix(q) /\ q <= Len(source)
           /\ input' = r /\ r \in 0..Len(output) /\ Ends(source, output, <<q, r>>)
           /\ q \in Nat
      BY <3>7, <3>9, <3>10, <3>13, <3>15, <3>17, <3>19
    <3> HIDE DEF q, r
    <3> QED
      BY <3>13, <3>20
  <2> QED
    BY <1>3, <2>1, <2>2, EndsStep
<1>7. PICK q \in 0..Len(source) :
        /\ decoded' = Prefix(q)
        /\ \/ Ends(source, output, <<q, input'>>)
           \/ q = Len(source) /\ input' = Len(output)
  BY <1>6
<1>8. /\ decoded' \in Seq(Bytes) /\ Len(decoded') = q
      /\ decoded' = Prefix(Len(decoded')) /\ Len(decoded') <= Len(source)
  <2>1. Prefix(q) \in Seq(Letters) /\ Len(Prefix(q)) = q
    BY <1>2, PrefixIs
  <2> QED
    BY <1>2, <1>7, <2>1, Constants
<1>9. TypeOK'
  <2>1. UNCHANGED <<Capacity, Maximum>>
    BY <1>1 DEF Capacity, Maximum
  <2> QED
    BY <1>1, <1>6, <1>8, <2>1 DEF CodecInv, TypeOK, Bytes
<1>10. DecodeOK'
  BY <1>1, <1>7, <1>8 DEF DecodeOK, Prefix, Part
<1>11. RunOK' /\ FreshOK' /\ CompressOK' /\ CachedOK' /\ StreamOK'
  BY <1>1, <1>6
     DEF CodecInv, RunOK, FreshOK, Begun, CompressOK, CachedOK, StreamOK
<1>12. EndOK'
  BY <1>1, <1>6 DEF CodecInv, EndOK, Prefix, Part
<1> QED
  BY <1>9, <1>10, <1>11, <1>12 DEF CodecInv

\* Nothing is left to read at the end of the bytes.
LEMMA NothingEnds ==
  ASSUME NEW s, NEW o, NEW i \in Nat, Ends(s, output, <<o, i>>), output \in Seq(Bytes)
  PROVE  i < Len(output)
<1>1. PICK l \in Nat, m \in Nat : LiteralsIn(s, output, o, i, l, m)
  <2>1. LastSequence(s, output, <<o, i>>)
          \/ \E z \in Pairs : Sequence(s, output, <<o, i>>, z)
    BY EndsStep
  <2>2. 0 \in Nat
    OBVIOUS
  <2> QED
    BY <2>1, <2>2 DEF LastSequence, Sequence
<1> QED
  BY <1>1, LiteralsRead

LEMMA EndDecodeCodec == CodecInv /\ EndDecode => CodecInv'
<1> SUFFICES ASSUME CodecInv, EndDecode PROVE CodecInv'
  OBVIOUS
<1>1. /\ phase = "decode" /\ input = Len(output)
      /\ phase' = IF Len(decoded) = Len(source) THEN "decoded" ELSE "undecodable"
      /\ UNCHANGED <<source, limit, patience, output, hash, anchor, offset, input,
                     decoded, run, history, chunk, sent>>
  BY DEF EndDecode, chosen, search, stream
<1>2. /\ source \in Seq(Letters) /\ output \in Seq(Bytes) /\ Len(output) \in Nat
      /\ decoded = Prefix(Len(decoded))
      /\ \/ output = <<>> \/ Ends(source, output, <<Len(decoded), input>>)
         \/ Len(decoded) = Len(source)
  BY <1>1, LenProperties DEF CodecInv, TypeOK, DecodeOK, Bytes
<1>3. Prefix(Len(source)) = source
  BY <1>2, PrefixEnds
<1>4. ~Ends(source, output, <<Len(decoded), input>>)
  <2> SUFFICES ASSUME Ends(source, output, <<Len(decoded), input>>) PROVE FALSE
    OBVIOUS
  <2>1. input < Len(output)
    BY <1>1, <1>2, NothingEnds
  <2> QED
    BY <1>1, <1>2, <2>1
<1>5. EndOK'
  <2>1. phase' = "decoded" => decoded = source
    BY <1>1, <1>2, <1>3
  <2>2. phase' = "undecodable" => output = <<>>
    BY <1>1, <1>2, <1>4
  <2>3. phase' \in {"decoded", "undecodable"}
    BY <1>1
  <2> QED
    BY <1>1, <2>1, <2>2, <2>3 DEF CodecInv, EndOK, Prefix, Part
<1>6. TypeOK'
  BY <1>1 DEF CodecInv, TypeOK, Capacity, Maximum
<1>7. RunOK' /\ FreshOK' /\ CompressOK' /\ CachedOK' /\ DecodeOK' /\ StreamOK'
  BY <1>1
     DEF CodecInv, RunOK, FreshOK, Begun, CompressOK, CachedOK, DecodeOK, StreamOK
<1> QED
  BY <1>5, <1>6, <1>7 DEF CodecInv

--------------------------------------------------------------------------------
(* stream_decompressed_response. *)

\* What the streamer may rely on.
LEMMA Streaming ==
  ASSUME CodecInv, phase = "stream"
  PROVE  /\ source \in Seq(Letters) /\ Len(source) \in Nat /\ output \in Seq(Bytes)
         /\ Len(output) \in Nat /\ input \in 0..Len(output)
         /\ Len(sent) \in Nat /\ Len(chunk) \in Nat /\ output_size \in Nat
         /\ output_size = Len(sent) + Len(chunk)
         /\ sent \in Seq(Bytes) /\ chunk \in Seq(Bytes) /\ Len(chunk) < SendBuffer
         /\ history \in [0..(Window - 1) -> Bytes]
         /\ run \in [kind : {"token", "literals", "match"}, left : Nat,
                     token : Bytes, distance : Nat]
         /\ output_size <= Len(source) /\ sent \o chunk = Prefix(output_size) /\ RingOK
         /\ \/ output = <<>> /\ run = Idle
            \/ InToken \/ InLiterals \/ InMatch
<1>1. /\ source \in Seq(Letters) /\ output \in Seq(Bytes) /\ input \in 0..Len(output)
      /\ sent \in Seq(Bytes) /\ chunk \in Seq(Bytes) /\ Len(chunk) < SendBuffer
      /\ history \in [0..(Window - 1) -> Bytes]
  BY DEF CodecInv, TypeOK, Bytes
<1>2. /\ Len(source) \in Nat /\ Len(output) \in Nat /\ Len(sent) \in Nat
      /\ Len(chunk) \in Nat
  BY <1>1, LenProperties
<1>3. output_size = Len(sent) + Len(chunk) /\ output_size \in Nat
  BY <1>2 DEF output_size
<1> QED
  BY <1>1, <1>2, <1>3 DEF CodecInv, RunOK, StreamOK

\* A step that writes nothing and goes on.
LEMMA Onward ==
  ASSUME CodecInv, phase = "stream",
         UNCHANGED <<chosen, phase, output, search, decoded, history, chunk, sent>>,
         RunOK', run'.left <= Len(source), input' \in 0..Len(output),
         InToken' \/ InLiterals' \/ InMatch'
  PROVE  CodecInv'
<1> USE DEF chosen, search
<1>1. TypeOK'
  <2>1. run'.kind \in {"token", "literals", "match"} /\ run'.left \in 0..Len(source)
    BY Streaming DEF RunOK
  <2> QED
    BY <2>1 DEF CodecInv, TypeOK, Capacity, Maximum
<1>2. StreamOK'
  <2>1. /\ output_size <= Len(source) /\ sent \o chunk = Prefix(output_size) /\ RingOK
    BY Streaming
  <2>2. /\ (output_size <= Len(source))' /\ (sent \o chunk = Prefix(output_size))'
        /\ RingOK'
    BY <2>1 DEF RingOK, output_size, Prefix, Part
  <2> QED
    BY <2>2 DEF StreamOK
<1>3. FreshOK' /\ CompressOK' /\ CachedOK' /\ DecodeOK'
  BY DEF FreshOK, Begun, CompressOK, CachedOK, DecodeOK
<1>4. EndOK'
  BY DEF CodecInv, EndOK, Prefix, Part
<1> QED
  BY <1>1, <1>2, <1>3, <1>4 DEF CodecInv

LEMMA StreamTokenCodec == CodecInv /\ StreamToken => CodecInv'
<1> SUFFICES ASSUME CodecInv, StreamToken PROVE CodecInv'
  OBVIOUS
<1> DEFINE token == output[input + 1]
           literals == ReadLength(LiteralNibble(token), input + 1)
           o == output_size
           x == <<o, input>>
<1>1. /\ phase = "stream" /\ run.kind = "token" /\ input < Len(output)
      /\ UNCHANGED <<chosen, output, search, decoded, history, chunk, sent>>
      /\ IF literals.next < 0 \/ literals.next + literals.length > Len(output)
         THEN phase' = "stopped" /\ UNCHANGED <<input, run>>
         ELSE /\ run' = [run EXCEPT !.kind = "literals", !.left = literals.length,
                                    !.token = token]
              /\ input' = literals.next /\ UNCHANGED phase
  BY DEF StreamToken
<1>2. /\ source \in Seq(Letters) /\ Len(source) \in Nat /\ output \in Seq(Bytes)
      /\ Len(output) \in Nat /\ input \in Nat /\ o \in Nat
      /\ run \in [kind : {"token", "literals", "match"}, left : Nat,
                  token : Bytes, distance : Nat]
  BY <1>1, Streaming
<1>3. Ends(source, output, x)
  <2>1. output # <<>>
    BY <1>1, <1>2, EmptySeq
  <2> QED
    BY <1>1, <2>1, Streaming DEF InToken, InLiterals, InMatch, AmidLiterals, AmidMatch
<1>4. token \in Bytes
  BY <1>1, <1>2, ElementOfSeq
<1> HIDE DEF o
<1>5. PICK l \in Nat, m \in Nat :
        /\ LiteralsIn(source, output, o, input, l, m)
        /\ \/ o + l = Len(source) /\ DistanceAt(input, l) = Len(output)
           \/ \E d \in 1..Window :
                /\ MatchIn(source, output, o + l, DistanceAt(input, l), d, m)
                /\ Ends(source, output, <<o + l + m + MinMatch, NextAt(input, l, m)>>)
  <2>1. CASE LastSequence(source, output, x)
    <3>1. 0 \in Nat
      OBVIOUS
    <3> QED
      BY <2>1, <3>1 DEF LastSequence
  <2>2. CASE \E z \in Pairs : Sequence(source, output, x, z) /\ Ends(source, output, z)
    BY <2>2 DEF Sequence
  <2> QED
    BY <1>3, <2>1, <2>2, EndsStep
<1> DEFINE p == LiteralsAt(input, l)
<1>6. literals = [length |-> l, next |-> p]
  BY <1>2, <1>5, LiteralsRead
<1>7. /\ p \in Nat /\ p + l = DistanceAt(input, l) /\ DistanceAt(input, l) <= Len(output)
      /\ o + l <= Len(source)
  <2>1. p \in Nat /\ p + l = DistanceAt(input, l)
    BY <1>2, Places
  <2> QED
    BY <1>5, <2>1 DEF LiteralsIn
<1> HIDE DEF token, literals, p
<1>8. literals.length = l /\ literals.next = p
  BY <1>6
<1>9. ~(literals.next < 0 \/ literals.next + literals.length > Len(output))
  BY <1>2, <1>7, <1>8
<1>10. /\ run' = [run EXCEPT !.kind = "literals", !.left = l, !.token = token]
       /\ input' = p /\ UNCHANGED phase
  BY <1>1, <1>8, <1>9
<1>11. /\ run' \in [kind : {"token", "literals", "match"}, left : Nat,
                    token : Bytes, distance : Nat]
       /\ run'.kind = "literals" /\ run'.left = l /\ run'.token = token
  BY <1>2, <1>4, <1>10
<1>12. RunOK' /\ run'.left <= Len(source) /\ input' \in 0..Len(output)
  BY <1>2, <1>7, <1>10, <1>11 DEF RunOK
<1>13. InLiterals'
  <2>1. UNCHANGED <<source, output, output_size>>
    BY <1>1 DEF output_size, chosen
  <2>2. o + run'.left = o + l /\ input' + run'.left = DistanceAt(input, l)
        /\ run'.left <= l
    BY <1>2, <1>7, <1>10, <1>11
  <2>3. /\ LiteralsIn(source, output, o, input, l, m) /\ run'.left <= l
        /\ o + run'.left = o + l
        /\ input' + run'.left = DistanceAt(input, l) /\ run'.token = output[input + 1]
        /\ \/ o + l = Len(source) /\ DistanceAt(input, l) = Len(output)
           \/ \E d \in 1..Window :
                /\ MatchIn(source, output, o + l, DistanceAt(input, l), d, m)
                /\ Ends(source, output, <<o + l + m + MinMatch, NextAt(input, l, m)>>)
    BY <1>5, <1>11, <2>2 DEF token
  <2>4. AmidLiterals(source, output, o, input', run')
    BY <1>2, <1>11, <2>3 DEF AmidLiterals
  <2> QED
    BY <2>1, <2>4 DEF InLiterals, o
<1> QED
  BY <1>1, <1>10, <1>12, <1>13, Onward

\* The ring after one more byte: the place that is overwritten is out of reach.
LEMMA RingTurns ==
  ASSUME NEW h \in [0..(Window - 1) -> Bytes], NEW g, NEW n \in Nat, NEW value \in Bytes,
         source[n + 1] = value, g \in [0..(Window - 1) -> Bytes],
         g[n % Window] = value,
         \A j \in 0..(Window - 1) : j # n % Window => g[j] = h[j],
         \A i \in 0..(n - 1) : i + Window >= n => h[i % Window] = source[i + 1]
  PROVE  \A i \in 0..n : i + Window >= n + 1 => g[i % Window] = source[i + 1]
<1>1. Window \in Nat /\ Window > 0
  BY Constants
<1>2. \A i \in Nat : i % Window \in 0..(Window - 1)
  BY <1>1, Division
<1> DEFINE r == n % Window
<1>3. r \in 0..(Window - 1)
  BY <1>2
<1> HIDE DEF r
<1>4. /\ g[r] = value
      /\ \A j \in 0..(Window - 1) : j # r => g[j] = h[j]
  BY DEF r
<1>5. ASSUME NEW i \in 0..n, i + Window >= n + 1 PROVE g[i % Window] = source[i + 1]
  <2> DEFINE j == i % Window
  <2>1. j \in 0..(Window - 1)
    BY <1>2
  <2>2. CASE i = n
    BY <1>4, <2>2 DEF r
  <2>3. CASE i # n
    <3>1. i \in Nat /\ i < n /\ n - i < Window /\ i \in 0..(n - 1) /\ i + Window >= n
      BY <1>1, <1>5, <2>3
    <3>2. j # r
      BY <1>1, <3>1, RestsDiffer DEF r
    <3>3. h[j] = source[i + 1]
      BY <3>1
    <3> HIDE DEF j
    <3>4. g[j] = source[i + 1]
      BY <1>4, <2>1, <3>2, <3>3
    <3> QED
      BY <3>4 DEF j
  <2> QED
    BY <2>2, <2>3
<1> QED
  BY <1>4, <1>5

LEMMA ConcatTwice ==
  ASSUME NEW a \in Seq(Bytes), NEW b \in Seq(Bytes), NEW c \in Seq(Bytes)
  PROVE  (a \o b) \o c = a \o (b \o c)
BY ConcatAssociative

\* The stream after one more byte.
LEMMA StreamGrows ==
  ASSUME source \in Seq(Letters), NEW a \in Seq(Bytes), NEW b \in Seq(Bytes),
         Len(a) + Len(b) < Len(source), a \o b = Prefix(Len(a) + Len(b)),
         NEW c, c = Append(b, source[(Len(a) + Len(b)) + 1])
  PROVE  /\ c \in Seq(Bytes) /\ Len(c) = Len(b) + 1
         /\ a \o c \in Seq(Bytes) /\ Len(a \o c) = (Len(a) + Len(b)) + 1
         /\ a \o c = Prefix((Len(a) + Len(b)) + 1)
<1> DEFINE n == Len(a) + Len(b)
           value == source[n + 1]
<1>1. /\ Len(source) \in Nat /\ Len(a) \in Nat /\ Len(b) \in Nat /\ n <= Len(source)
      /\ n \in Nat /\ n < Len(source) /\ a \o b = Prefix(n) /\ n = Len(a) + Len(b)
  BY LenProperties
<1>6. c = Append(b, value)
  OBVIOUS
<1> HIDE DEF n
<1>2. value \in Letters /\ Append(Prefix(n), value) = Prefix(n + 1)
  BY <1>1, PrefixGrows
<1>3. value \in Bytes
  BY <1>2, Constants
<1>4. Prefix(n) \in Seq(Letters)
  BY <1>1, PrefixIs
<1> DEFINE one == <<value>>
<1>5. one \in Seq(Bytes)
  BY <1>3
<1> HIDE DEF value
<1>7. c \in Seq(Bytes) /\ Len(c) = Len(b) + 1
  BY <1>3, <1>6, AppendProperties
<1>8. c = b \o one
  BY <1>3, <1>6, AppendIsConcat
<1>9. Append(Prefix(n), value) = Prefix(n) \o one
  BY <1>2, <1>4, AppendIsConcat
<1> HIDE DEF one
<1>10. (a \o b) \o one = a \o (b \o one)
  BY <1>5, ConcatTwice
<1>11. a \o c = Prefix(n + 1)
  BY <1>1, <1>2, <1>8, <1>9, <1>10
<1>12. a \o c \in Seq(Bytes) /\ Len(a \o c) = Len(a) + Len(c)
  BY <1>7, ConcatProperties
<1>13. Len(a \o c) = n + 1
  BY <1>1, <1>7, <1>12
<1> QED
  BY <1>7, <1>11, <1>12, <1>13 DEF n

\* A step that writes the next letter of the response.
OneMore ==
  /\ phase = "stream" /\ output_size < Len(source) /\ Emit(source[output_size + 1])
  /\ UNCHANGED <<source, limit, patience, output, hash, anchor, offset, decoded>>
  /\ RunOK' /\ run'.left <= Len(source) /\ input' \in 0..Len(output)
  /\ (output_size' = output_size + 1 => InToken' \/ InLiterals' \/ InMatch')

LEMMA Writes == CodecInv /\ OneMore => CodecInv'
<1> SUFFICES ASSUME CodecInv, OneMore PROVE CodecInv'
  OBVIOUS
<1> DEFINE n == output_size
           value == source[n + 1]
           next == Append(chunk, value)
           whole == sent \o next
<1>1. /\ source \in Seq(Letters) /\ Len(source) \in Nat /\ n \in Nat /\ n < Len(source)
      /\ n = Len(sent) + Len(chunk) /\ Len(sent) \in Nat /\ Len(chunk) \in Nat
      /\ sent \in Seq(Bytes) /\ chunk \in Seq(Bytes) /\ Len(chunk) < SendBuffer
      /\ history \in [0..(Window - 1) -> Bytes]
      /\ sent \o chunk = Prefix(n) /\ RingOK
  BY Streaming DEF OneMore
<1>2. /\ history' = [history EXCEPT ![n % Window] = value]
      /\ \/ /\ Len(chunk) + 1 < SendBuffer
            /\ chunk' = next /\ UNCHANGED <<sent, phase>>
         \/ /\ sent' = whole /\ chunk' = <<>> /\ UNCHANGED phase
         \/ /\ Gone /\ phase' = "stopped" /\ chunk' = <<>> /\ UNCHANGED sent
  BY DEF OneMore, Emit, RingPlace
<1>3. RunOK' /\ run'.left <= Len(source) /\ input' \in 0..Len(output)
      /\ (output_size' = n + 1 => InToken' \/ InLiterals' \/ InMatch')
  BY DEF OneMore
<1>0. /\ phase = "stream"
      /\ UNCHANGED <<source, limit, patience, output, hash, anchor, offset, decoded>>
  BY DEF OneMore
<1> HIDE DEF n
<1>4. value \in Letters /\ value \in Bytes /\ Append(Prefix(n), value) = Prefix(n + 1)
  BY <1>1, PrefixGrows, Constants
<1>5. \A i \in 0..(n - 1) : i + Window >= n => history[i % Window] = source[i + 1]
  BY <1>1 DEF RingOK, n
<1>6. /\ history' \in [0..(Window - 1) -> Bytes]
      /\ \A i \in 0..n : i + Window >= n + 1 => history'[i % Window] = source[i + 1]
  <2> DEFINE h == history
             g == history'
             r == n % Window
  <2>0. r \in 0..(Window - 1)
    BY <1>1, Constants, Division
  <2>1. /\ h \in [0..(Window - 1) -> Bytes] /\ g = [h EXCEPT ![r] = value]
        /\ \A i \in 0..(n - 1) : i + Window >= n => h[i % Window] = source[i + 1]
        /\ n \in Nat /\ value \in Bytes /\ source[n + 1] = value
    BY <1>1, <1>2, <1>4, <1>5
  <2> HIDE DEF h, g, value, r
  <2>2. /\ g \in [0..(Window - 1) -> Bytes] /\ g[r] = value
        /\ \A j \in 0..(Window - 1) : j # r => g[j] = h[j]
    BY <2>0, <2>1
  <2>3. \A i \in 0..n : i + Window >= n + 1 => g[i % Window] = source[i + 1]
    BY <2>1, <2>2, RingTurns, ZenonT(60) DEF r
  <2> QED
    BY <2>2, <2>3 DEF g
<1> HIDE DEF value, next, whole
<1>7. /\ next \in Seq(Bytes) /\ Len(next) = Len(chunk) + 1
      /\ whole \in Seq(Bytes) /\ Len(whole) = n + 1 /\ whole = Prefix(n + 1)
  <2>1. next = Append(chunk, source[(Len(sent) + Len(chunk)) + 1])
    BY <1>1 DEF next, value
  <2>2. /\ sent \o chunk = Prefix(Len(sent) + Len(chunk))
        /\ Len(sent) + Len(chunk) < Len(source)
    BY <1>1
  <2>3. /\ next \in Seq(Bytes) /\ Len(next) = Len(chunk) + 1
        /\ sent \o next \in Seq(Bytes)
        /\ Len(sent \o next) = (Len(sent) + Len(chunk)) + 1
        /\ sent \o next = Prefix((Len(sent) + Len(chunk)) + 1)
    BY <1>1, <2>1, <2>2, StreamGrows
  <2> QED
    BY <1>1, <2>3 DEF whole
<1>8. <<>> \in Seq(Bytes) /\ Len(<<>>) = 0 /\ whole \o <<>> = whole
  BY <1>7, EmptySeq, ConcatEmptySeq
<1>9. chunk' \in Seq(Bytes) /\ Len(chunk') < SendBuffer /\ sent' \in Seq(Bytes)
  <2>1. SendBuffer \in Nat /\ SendBuffer >= 1
    BY Constants
  <2>2. CASE Len(chunk) + 1 < SendBuffer /\ chunk' = next /\ UNCHANGED <<sent, phase>>
    BY <1>1, <1>7, <2>2
  <2>3. CASE sent' = whole /\ chunk' = <<>>
    BY <1>7, <1>8, <2>1, <2>3
  <2>4. CASE chunk' = <<>> /\ UNCHANGED sent
    BY <1>1, <1>8, <2>1, <2>4
  <2> QED
    BY <1>2, <2>2, <2>3, <2>4
<1>10. phase' \in {"stream", "stopped"}
  BY <1>0, <1>2
<1>11. TypeOK'
  <2>1. run'.kind \in {"token", "literals", "match"} /\ run'.left \in 0..Len(source)
    BY <1>1, <1>3 DEF RunOK
  <2>2. history' \in [0..(Window - 1) -> 0..LengthStep]
        /\ chunk' \in Seq(0..LengthStep) /\ sent' \in Seq(0..LengthStep)
    BY <1>6, <1>9 DEF Bytes
  <2>3. UNCHANGED <<Capacity, Maximum>>
    BY <1>0 DEF Capacity, Maximum
  <2> QED
    BY <1>0, <1>3, <1>9, <1>10, <2>1, <2>2, <2>3 DEF CodecInv, TypeOK
<1>12. StreamOK' /\ EndOK'
  <2>0. Len(sent) <= Len(source) /\ sent = Prefix(Len(sent))
    BY DEF CodecInv, EndOK
  <2>1. ASSUME phase' = "stream", sent' \o chunk' = Prefix(n + 1),
               Len(sent') + Len(chunk') = n + 1
        PROVE  StreamOK'
    <3>1. output_size' = n + 1
      BY <2>1 DEF output_size
    <3>2. InToken' \/ InLiterals' \/ InMatch'
      BY <1>3, <3>1
    <3>3. RingOK'
      <4>1. (n + 1) - 1 = n
        BY <1>1
      <4>2. \A i \in 0..((n + 1) - 1) :
               i + Window >= n + 1 => history'[i % Window] = source'[i + 1]
        BY <1>0, <1>6, <4>1
      <4> QED
        BY <3>1, <4>2 DEF RingOK
    <3>4. (output_size <= Len(source))' /\ (sent \o chunk = Prefix(output_size))'
      BY <1>0, <1>1, <2>1, <3>1 DEF Prefix, Part
    <3> QED
      BY <2>1, <3>2, <3>3, <3>4 DEF StreamOK
  <2>2. ASSUME phase' = "stopped" PROVE StreamOK'
    BY <2>2 DEF StreamOK
  <2>3. CASE chunk' = next /\ UNCHANGED <<sent, phase>>
    <3>1. sent' \o chunk' = Prefix(n + 1) /\ Len(sent') + Len(chunk') = n + 1
      <4>1. sent' \o chunk' = whole /\ Len(sent') = Len(sent) /\ Len(chunk') = Len(next)
        BY <2>3, Zenon DEF whole
      <4>2. sent' \o chunk' = Prefix(n + 1)
        BY <1>7, <4>1, Zenon
      <4> QED
        BY <1>1, <1>7, <4>1, <4>2
    <3>2. EndOK'
      BY <1>0, <2>0, <2>3 DEF EndOK, Prefix, Part
    <3> QED
      BY <1>0, <2>1, <2>3, <3>1, <3>2
  <2>4. CASE sent' = whole /\ chunk' = <<>> /\ UNCHANGED phase
    <3>0. sent' \o chunk' = whole
      BY <1>8, <2>4, Zenon
    <3>1. sent' \o chunk' = Prefix(n + 1) /\ Len(sent') + Len(chunk') = n + 1
      <4>1. Len(sent') = n + 1 /\ Len(chunk') = 0
        BY <1>7, <1>8, <2>4, Zenon
      <4>2. sent' \o chunk' = Prefix(n + 1)
        BY <1>7, <3>0, Zenon
      <4> QED
        BY <1>1, <4>1, <4>2
    <3>2. Len(sent') = n + 1 /\ sent' = Prefix(Len(sent')) /\ Len(sent') <= Len(source)
      BY <1>1, <1>7, <2>4
    <3>3. EndOK'
      BY <1>0, <2>4, <3>2 DEF EndOK, Prefix, Part
    <3> QED
      BY <1>0, <2>1, <2>4, <3>1, <3>3
  <2>5. CASE Gone /\ phase' = "stopped" /\ chunk' = <<>> /\ UNCHANGED sent
    <3>1. EndOK'
      BY <1>0, <2>0, <2>5 DEF EndOK, Prefix, Part, Gone
    <3> QED
      BY <2>2, <2>5, <3>1
  <2> QED
    BY <1>2, <2>3, <2>4, <2>5
<1>13. FreshOK' /\ CompressOK' /\ CachedOK' /\ DecodeOK'
  BY <1>0, <1>10 DEF FreshOK, Begun, CompressOK, CachedOK, DecodeOK
<1> QED
  BY <1>3, <1>11, <1>12, <1>13 DEF CodecInv

LEMMA StreamLiteralCodec == CodecInv /\ StreamLiteral => CodecInv'
<1> SUFFICES ASSUME CodecInv, StreamLiteral PROVE CodecInv'
  OBVIOUS
<1> DEFINE n == output_size
<1>1. /\ phase = "stream" /\ run.kind = "literals" /\ run.left > 0
      /\ IF Overflows THEN Stop ELSE Emit(output[input + 1])
      /\ input' = input + 1 /\ run' = [run EXCEPT !.left = run.left - 1]
      /\ UNCHANGED <<source, limit, patience, output, hash, anchor, offset, decoded>>
  BY DEF StreamLiteral, chosen, search
<1>2. /\ source \in Seq(Letters) /\ Len(source) \in Nat /\ output \in Seq(Bytes)
      /\ Len(output) \in Nat /\ input \in Nat /\ n \in Nat
      /\ run \in [kind : {"token", "literals", "match"}, left : Nat,
                  token : Bytes, distance : Nat]
  BY <1>1, Streaming
<1>3. AmidLiterals(source, output, n, input, run)
  BY <1>1, IdleOK, Streaming DEF InToken, InLiterals, InMatch, AmidMatch
<1> HIDE DEF n
<1>4. PICK o \in Nat, i \in Nat, l \in Nat, m \in Nat :
        /\ LiteralsIn(source, output, o, i, l, m) /\ run.left <= l
        /\ n + run.left = o + l
        /\ input + run.left = DistanceAt(i, l) /\ run.token = output[i + 1]
        /\ \/ o + l = Len(source) /\ DistanceAt(i, l) = Len(output)
           \/ \E d \in 1..Window :
                /\ MatchIn(source, output, o + l, DistanceAt(i, l), d, m)
                /\ Ends(source, output, <<o + l + m + MinMatch, NextAt(i, l, m)>>)
  BY <1>3 DEF AmidLiterals
<1> DEFINE p == LiteralsAt(i, l)
           left == run.left
           k == l - left + 1
<1>5. /\ p \in Nat /\ p + l = DistanceAt(i, l) /\ DistanceAt(i, l) <= Len(output)
      /\ o + l <= Len(source) /\ \A j \in 1..l : output[p + j] = source[o + j]
      /\ DistanceAt(i, l) \in Nat
  <2>1. p \in Nat /\ p + l = DistanceAt(i, l) /\ DistanceAt(i, l) \in Nat
    BY Places
  <2> QED
    BY <1>4, <2>1 DEF LiteralsIn
<1>6. left \in Nat /\ left >= 1 /\ left <= l /\ n + left = o + l /\ input + left = p + l
  BY <1>1, <1>2, <1>4, <1>5, SMTT(30)
<1> HIDE DEF left, p
<1>7. k \in 1..l /\ p + k = input + 1 /\ o + k = n + 1 /\ n < Len(source)
      /\ input + 1 <= Len(output)
  BY <1>2, <1>5, <1>6
<1> HIDE DEF k
<1>8. output[input + 1] = source[n + 1]
  <2>1. output[p + k] = source[o + k]
    BY <1>5, <1>7
  <2> QED
    BY <1>7, <2>1
<1>9. Emit(source[n + 1])
  BY <1>1, <1>2, <1>7, <1>8 DEF Overflows, n
<1>10. /\ run' \in [kind : {"token", "literals", "match"}, left : Nat,
                    token : Bytes, distance : Nat]
       /\ run'.kind = "literals" /\ run'.left = left - 1 /\ run'.token = run.token
  <2>1. run' = [run EXCEPT !.left = left - 1] /\ left - 1 \in Nat
    BY <1>1, <1>6 DEF left
  <2> QED
    BY <1>1, <1>2, <2>1
<1>11. RunOK' /\ run'.left <= Len(source) /\ input' \in 0..Len(output)
  <2>1. left - 1 <= Len(source)
    BY <1>2, <1>5, <1>6
  <2>2. input + 1 \in 0..Len(output)
    BY <1>2, <1>7
  <2> QED
    BY <1>1, <1>10, <2>1, <2>2 DEF RunOK
<1>12. ASSUME output_size' = n + 1 PROVE InLiterals'
  <2>1. /\ run'.left <= l /\ (n + 1) + run'.left = o + l
        /\ input' + run'.left = DistanceAt(i, l)
    <3>1. left - 1 <= l /\ (n + 1) + (left - 1) = o + l
          /\ (input + 1) + (left - 1) = DistanceAt(i, l)
      BY <1>2, <1>5, <1>6
    <3> QED
      BY <1>1, <1>10, <3>1
  <2>2. /\ LiteralsIn(source, output, o, i, l, m) /\ run'.token = output[i + 1]
        /\ \/ o + l = Len(source) /\ DistanceAt(i, l) = Len(output)
           \/ \E d \in 1..Window :
                /\ MatchIn(source, output, o + l, DistanceAt(i, l), d, m)
                /\ Ends(source, output, <<o + l + m + MinMatch, NextAt(i, l, m)>>)
    BY <1>4, <1>10
  <2>3. AmidLiterals(source, output, n + 1, input', run')
    BY <1>10, <2>1, <2>2 DEF AmidLiterals
  <2> QED
    BY <1>1, <1>12, <2>3 DEF InLiterals
<1>13. OneMore
  BY <1>1, <1>7, <1>9, <1>11, <1>12 DEF OneMore, n
<1> QED
  BY <1>13, Writes

LEMMA StreamDistanceCodec == CodecInv /\ StreamDistance => CodecInv'
<1> SUFFICES ASSUME CodecInv, StreamDistance PROVE CodecInv'
  OBVIOUS
<1> DEFINE match == ReadLength(MatchNibble(run.token), input + 2)
           n == output_size
<1>1. /\ phase = "stream" /\ run.kind = "literals" /\ run.left = 0
      /\ input < Len(output)
      /\ IF input + 1 = Len(output) THEN phase' = "stopped" /\ UNCHANGED <<input, run>>
         ELSE IF ~InRing(Distance(input)) \/ match.next < 0
              THEN phase' = "stopped" /\ UNCHANGED <<input, run>>
              ELSE /\ run' = [run EXCEPT !.kind = "match",
                                         !.left = match.length + MinMatch,
                                         !.distance = Distance(input)]
                   /\ input' = match.next /\ UNCHANGED phase
      /\ UNCHANGED <<chosen, output, search, decoded, history, chunk, sent>>
  BY DEF StreamDistance
<1>2. /\ source \in Seq(Letters) /\ Len(source) \in Nat /\ output \in Seq(Bytes)
      /\ Len(output) \in Nat /\ input \in Nat /\ n \in Nat
      /\ run \in [kind : {"token", "literals", "match"}, left : Nat,
                  token : Bytes, distance : Nat]
      /\ MinMatch \in Nat /\ MinMatch >= 1
  BY <1>1, Streaming, Constants
<1>3. AmidLiterals(source, output, n, input, run)
  BY <1>1, IdleOK, Streaming DEF InToken, InLiterals, InMatch, AmidMatch
<1> HIDE DEF n
<1>4. PICK o \in Nat, i \in Nat, l \in Nat, m \in Nat :
        /\ LiteralsIn(source, output, o, i, l, m) /\ run.left <= l
        /\ n + run.left = o + l
        /\ input + run.left = DistanceAt(i, l) /\ run.token = output[i + 1]
        /\ \/ o + l = Len(source) /\ DistanceAt(i, l) = Len(output)
           \/ \E d \in 1..Window :
                /\ MatchIn(source, output, o + l, DistanceAt(i, l), d, m)
                /\ Ends(source, output, <<o + l + m + MinMatch, NextAt(i, l, m)>>)
  BY <1>3 DEF AmidLiterals
<1>5. n = o + l /\ input = DistanceAt(i, l) /\ NextAt(i, l, m) \in Nat
      /\ (input + 2) + Len(Extension(m)) = NextAt(i, l, m)
  <2>1. /\ DistanceAt(i, l) \in Nat /\ NextAt(i, l, m) \in Nat
        /\ (DistanceAt(i, l) + 2) + Len(Extension(m)) = NextAt(i, l, m)
    BY Places
  <2>2. n + 0 = o + l /\ input + 0 = DistanceAt(i, l)
    BY <1>1, <1>4
  <2>3. n = o + l /\ input = DistanceAt(i, l)
    BY <1>2, <2>2
  <2> QED
    BY <2>1, <2>3
<1> DEFINE q == NextAt(i, l, m)
<1>6. PICK d \in 1..Window :
        /\ MatchIn(source, output, n, input, d, m)
        /\ Ends(source, output, <<n + m + MinMatch, q>>)
  <2>1. ~(DistanceAt(i, l) = Len(output))
    BY <1>1, <1>2, <1>5
  <2>2. PICK d \in 1..Window :
          /\ MatchIn(source, output, o + l, DistanceAt(i, l), d, m)
          /\ Ends(source, output, <<o + l + m + MinMatch, NextAt(i, l, m)>>)
    BY <1>4, <2>1
  <2>3. MatchIn(source, output, n, input, d, m)
    BY <1>5, <2>2
  <2>4. Ends(source, output, <<n + m + MinMatch, q>>)
    BY <1>5, <2>2
  <2> QED
    BY <2>3, <2>4
<1>7. /\ d <= n /\ n + m + MinMatch <= Len(source)
      /\ input + 2 + Len(Extension(m)) <= Len(output)
      /\ \A k \in 0..(m + MinMatch - 1) : source[n - d + k + 1] = source[n + k + 1]
  BY <1>6 DEF MatchIn
<1> DEFINE e == Len(Extension(m))
<1>8. e \in Nat /\ input + 1 # Len(output) /\ q <= Len(output) /\ q \in Nat
  <2>1. e \in Nat /\ q = (input + 2) + e /\ input + 2 + e <= Len(output)
    BY <1>5, <1>7, ExtensionIs
  <2> HIDE DEF e, q
  <2> QED
    BY <1>2, <2>1
<1>9. MatchNibble(run.token) = Smaller(m, Nibble)
  <2>1. MatchNibble(output[i + 1]) = Smaller(m, Nibble)
    BY <1>2, <1>4, LiteralsRead
  <2> QED
    BY <1>4, <2>1
<1>10. /\ Distance(input) = d
       /\ ReadLength(Smaller(m, Nibble), input + 2) = [length |-> m, next |-> q]
  BY <1>2, <1>5, <1>6, MatchRead, SMTT(30)
<1>11. match = [length |-> m, next |-> q]
  BY <1>9, <1>10
<1> HIDE DEF q, match, e
<1>12. match.length = m /\ match.next = q
  BY <1>11
<1>13. InRing(Distance(input))
  BY <1>2, <1>7, <1>10, Constants DEF InRing, n
<1>14. ~(~InRing(Distance(input)) \/ match.next < 0)
  BY <1>8, <1>12, <1>13
<1>15. /\ run' = [run EXCEPT !.kind = "match", !.left = m + MinMatch, !.distance = d]
       /\ input' = q /\ UNCHANGED phase
  BY <1>1, <1>8, <1>10, <1>12, <1>14
<1>16. d \in Nat /\ m + MinMatch \in Nat /\ m + MinMatch >= 1
  BY <1>2, Constants
<1>17. /\ run' \in [kind : {"token", "literals", "match"}, left : Nat,
                    token : Bytes, distance : Nat]
       /\ run'.kind = "match" /\ run'.left = m + MinMatch /\ run'.distance = d
  BY <1>2, <1>15, <1>16
<1>18. RunOK' /\ run'.left <= Len(source) /\ input' \in 0..Len(output)
  <2>1. m + MinMatch <= Len(source) /\ q \in 0..Len(output)
    BY <1>2, <1>7, <1>8
  <2> QED
    BY <1>15, <1>17, <2>1 DEF RunOK
<1>19. InMatch'
  <2>1. UNCHANGED <<source, output, output_size>>
    BY <1>1 DEF output_size, chosen
  <2> DEFINE left == m + MinMatch
  <2>2. /\ left \in Nat /\ left >= 1 /\ n + left = n + m + MinMatch
        /\ left - 1 = m + MinMatch - 1
    BY <1>2, <1>16
  <2>3. n + left <= Len(source) /\ Ends(source, output, <<n + left, q>>)
    BY <1>6, <1>7, <2>2
  <2>4. \A k \in 0..(left - 1) : source[n - d + k + 1] = source[n + k + 1]
    BY <1>7, <2>2
  <2>5. run'.left = left
    BY <1>17
  <2> HIDE DEF left
  <2>6. ASSUME NEW j \in n..((n + left) - 1) PROVE source[j - d + 1] = source[j + 1]
    <3>1. j - n \in 0..(left - 1) /\ n - d + (j - n) + 1 = j - d + 1
          /\ n + (j - n) + 1 = j + 1
      BY <1>2, <1>16, <2>2, <2>6
    <3>2. source[n - d + (j - n) + 1] = source[n + (j - n) + 1]
      BY <2>4, <3>1
    <3> QED
      BY <3>1, <3>2
  <2>7. AmidMatch(source, output, n, q, run')
    BY <1>7, <1>17, <2>2, <2>3, <2>5, <2>6 DEF AmidMatch
  <2> QED
    BY <1>15, <2>1, <2>7 DEF InMatch, n
<1> QED
  BY <1>1, <1>15, <1>18, <1>19, Onward

LEMMA StreamMatchCodec == CodecInv /\ StreamMatch => CodecInv'
<1> SUFFICES ASSUME CodecInv, StreamMatch PROVE CodecInv'
  OBVIOUS
<1> DEFINE n == output_size
           left == run.left
           d == run.distance
<1>1. /\ phase = "stream" /\ run.kind = "match"
      /\ IF Overflows THEN Stop ELSE Emit(history[(n - d) % Window])
      /\ run' = IF left = 1 THEN Idle ELSE [run EXCEPT !.left = left - 1]
      /\ UNCHANGED <<source, limit, patience, output, hash, anchor, offset, input, decoded>>
  BY DEF StreamMatch, chosen, search
<1>2. /\ source \in Seq(Letters) /\ Len(source) \in Nat /\ input \in 0..Len(output)
      /\ n \in Nat /\ RingOK
      /\ run \in [kind : {"token", "literals", "match"}, left : Nat,
                  token : Bytes, distance : Nat]
      /\ Window \in Nat
  BY <1>1, Streaming, Constants
<1>3. AmidMatch(source, output, n, input, run)
  BY <1>1, IdleOK, Streaming DEF InToken, InLiterals, AmidLiterals, InMatch
<1>4. /\ left >= 1 /\ left \in Nat /\ d \in 1..Window /\ d <= n
      /\ n + left <= Len(source)
      /\ Ends(source, output, <<n + left, input>>)
      /\ \A k \in n..((n + left) - 1) : source[k - d + 1] = source[k + 1]
  BY <1>2, <1>3 DEF AmidMatch
<1>5. \A i \in 0..(n - 1) : i + Window >= n => history[i % Window] = source[i + 1]
  BY <1>2 DEF RingOK
<1>6. n < Len(source) /\ ~Overflows
  <2>1. n < Len(source)
    <3> HIDE DEF n, left
    <3> QED
      BY <1>2, <1>4
  <2> QED
    BY <1>2, <2>1 DEF Overflows
<1> HIDE DEF n, left, d
<1>7. history[(n - d) % Window] = source[n + 1]
  <2>1. n - d \in 0..(n - 1) /\ (n - d) + Window >= n /\ n \in n..((n + left) - 1)
    BY <1>2, <1>4
  <2>2. history[(n - d) % Window] = source[n - d + 1]
    BY <1>5, <2>1
  <2>3. source[n - d + 1] = source[n + 1]
    BY <1>4, <2>1
  <2> QED
    BY <2>2, <2>3
<1>8. Emit(source[n + 1])
  BY <1>1, <1>6, <1>7
<1>9. /\ run' \in [kind : {"token", "literals", "match"}, left : Nat,
                   token : Bytes, distance : Nat]
      /\ run'.left = left - 1
      /\ left # 1 => run'.kind = "match" /\ run'.distance = d
  <2>1. CASE left = 1
    <3>1. run' = Idle
      BY <1>1, <2>1
    <3> QED
      BY <2>1, <3>1, IdleOK
  <2>2. CASE left # 1
    <3>1. run' = [run EXCEPT !.left = left - 1] /\ left - 1 \in Nat
      BY <1>1, <1>4, <2>2
    <3> QED
      BY <1>1, <1>2, <2>2, <3>1 DEF d
  <2> QED
    BY <2>1, <2>2
<1>10. RunOK' /\ run'.left <= Len(source) /\ input' \in 0..Len(output)
  <2>1. left - 1 <= Len(source)
    BY <1>2, <1>4
  <2> QED
    BY <1>1, <1>2, <1>9, <2>1 DEF RunOK
<1>11. ASSUME output_size' = n + 1 PROVE InToken' \/ InMatch'
  <2>1. (n + 1) + (left - 1) = n + left
    BY <1>2, <1>4
  <2>2. CASE left = 1
    <3>1. run' = Idle
      BY <1>1, <2>2
    <3>2. Ends(source, output, <<n + 1, input>>)
      BY <1>4, <2>2
    <3>3. run'.kind = "token" /\ run'.left = 0
      BY <3>1, IdleOK
    <3> QED
      BY <1>1, <1>11, <3>2, <3>3 DEF InToken
  <2>3. CASE left # 1
    <3>1. /\ left - 1 >= 1 /\ d <= n + 1 /\ (n + 1) + (left - 1) <= Len(source)
          /\ Ends(source, output, <<(n + 1) + (left - 1), input>>)
      BY <1>2, <1>4, <2>1, <2>3
    <3>2. \A k \in (n + 1)..(((n + 1) + (left - 1)) - 1) :
            source[k - d + 1] = source[k + 1]
      BY <1>2, <1>4, <2>1
    <3>3. AmidMatch(source, output, n + 1, input, run')
      BY <1>4, <1>9, <2>3, <3>1, <3>2 DEF AmidMatch
    <3> QED
      BY <1>1, <1>11, <3>3 DEF InMatch
  <2> QED
    BY <2>2, <2>3
<1>12. OneMore
  BY <1>1, <1>6, <1>8, <1>10, <1>11 DEF OneMore, n
<1> QED
  BY <1>12, Writes

LEMMA EndStreamCodec == CodecInv /\ EndStream => CodecInv'
<1> SUFFICES ASSUME CodecInv, EndStream PROVE CodecInv'
  OBVIOUS
<1> DEFINE n == output_size
           all == sent \o chunk
<1>1. /\ phase = "stream" /\ input = Len(output) /\ run.left = 0
      /\ \/ /\ n = Len(source) /\ phase' = "streamed" /\ sent' = all
         \/ /\ n # Len(source) \/ Gone
            /\ phase' = "stopped" /\ UNCHANGED sent
      /\ chunk' = <<>>
      /\ UNCHANGED <<source, limit, patience, output, hash, anchor, offset, input,
                     decoded, run, history>>
  BY DEF EndStream, chosen, search
<1>2. /\ source \in Seq(Letters) /\ Len(source) \in Nat /\ output \in Seq(Bytes)
      /\ Len(output) \in Nat /\ input \in Nat /\ n \in Nat
      /\ sent \in Seq(Bytes) /\ chunk \in Seq(Bytes) /\ all = Prefix(n)
      /\ \/ output = <<>> \/ InToken \/ InLiterals \/ InMatch
  BY <1>1, Streaming
<1>3. Len(sent) <= Len(source) /\ sent = Prefix(Len(sent))
  BY DEF CodecInv, EndOK
<1>4. output = <<>> \/ n = Len(source)
  <2>1. CASE InToken
    <3>1. Ends(source, output, <<n, input>>)
      BY <2>1 DEF InToken
    <3>2. input < Len(output)
      BY <1>2, <3>1, NothingEnds
    <3> QED
      BY <1>1, <1>2, <3>2
  <2>2. CASE InLiterals
    <3>0. AmidLiterals(source, output, n, input, run)
      BY <2>2 DEF InLiterals
    <3> HIDE DEF n
    <3>1. PICK o \in Nat, i \in Nat, l \in Nat, m \in Nat :
            /\ LiteralsIn(source, output, o, i, l, m) /\ run.left <= l
            /\ n + run.left = o + l
            /\ input + run.left = DistanceAt(i, l) /\ run.token = output[i + 1]
            /\ \/ o + l = Len(source) /\ DistanceAt(i, l) = Len(output)
               \/ \E d \in 1..Window :
                    /\ MatchIn(source, output, o + l, DistanceAt(i, l), d, m)
                    /\ Ends(source, output, <<o + l + m + MinMatch, NextAt(i, l, m)>>)
      BY <3>0, Zenon DEF AmidLiterals
    <3>2. n = o + l /\ DistanceAt(i, l) = Len(output)
      <4>1. n + 0 = o + l /\ input + 0 = DistanceAt(i, l)
        <5>1. run.left = 0 /\ n + run.left = o + l /\ input + run.left = DistanceAt(i, l)
          BY <1>1, <3>1
        <5> QED
          BY <5>1, Zenon
      <4>2. n \in Nat /\ input \in Nat /\ input = Len(output)
        BY <1>1, <1>2
      <4>3. n + 0 = n /\ input + 0 = input
        BY <4>2
      <4> QED
        BY <4>1, <4>2, <4>3
    <3>3. ASSUME NEW d, MatchIn(source, output, o + l, DistanceAt(i, l), d, m) PROVE FALSE
      <4>1. DistanceAt(i, l) + 2 + Len(Extension(m)) <= Len(output)
        BY <3>3 DEF MatchIn
      <4> DEFINE e == Len(Extension(m))
      <4>2. e \in Nat /\ Len(output) + 2 + e <= Len(output)
        BY <3>2, <4>1, ExtensionIs
      <4> HIDE DEF e
      <4> QED
        BY <1>2, <4>2
    <3> QED
      BY <3>1, <3>2, <3>3
  <2>3. CASE InMatch
    <3>1. run.left >= 1
      BY <2>3 DEF InMatch, AmidMatch
    <3> QED
      BY <1>1, <3>1
  <2> QED
    BY <1>2, <2>1, <2>2, <2>3
<1>5. all \in Seq(Bytes) /\ Prefix(Len(source)) = source
      /\ <<>> \in Seq(Bytes) /\ Len(<<>>) = 0
  BY <1>2, PrefixEnds, ConcatProperties, EmptySeq
<1> HIDE DEF all, n
<1>6. phase' \in {"streamed", "stopped"} /\ sent' \in Seq(Bytes)
  BY <1>1, <1>2, <1>5
<1>7. TypeOK'
  <2>1. chunk' \in Seq(0..LengthStep) /\ sent' \in Seq(0..LengthStep)
        /\ Len(chunk') < SendBuffer
    BY <1>1, <1>5, <1>6, Constants DEF Bytes
  <2>2. UNCHANGED <<Capacity, Maximum>>
    BY <1>1 DEF Capacity, Maximum
  <2> QED
    BY <1>1, <1>6, <2>1, <2>2 DEF CodecInv, TypeOK
<1>8. EndOK'
  <2>1. CASE n = Len(source) /\ phase' = "streamed" /\ sent' = all
    <3>1. sent' = source
      BY <1>2, <1>5, <2>1
    <3>2. Len(sent') <= Len(source) /\ sent' = Prefix(Len(sent'))
      BY <1>2, <1>5, <3>1
    <3> QED
      BY <1>1, <2>1, <3>1, <3>2 DEF EndOK, Prefix, Part
  <2>2. CASE /\ n # Len(source) \/ Gone
             /\ phase' = "stopped" /\ UNCHANGED sent
    <3>1. output = <<>> \/ Gone
      BY <1>4, <2>2
    <3> QED
      BY <1>1, <1>3, <2>2, <3>1 DEF EndOK, Prefix, Part, Gone
  <2> QED
    BY <1>1, <2>1, <2>2
<1>9. RunOK' /\ FreshOK' /\ CompressOK' /\ CachedOK' /\ DecodeOK' /\ StreamOK'
  BY <1>1, <1>6
     DEF CodecInv, RunOK, FreshOK, Begun, CompressOK, CachedOK, DecodeOK, StreamOK
<1> QED
  BY <1>7, <1>8, <1>9 DEF CodecInv

--------------------------------------------------------------------------------
(* What holds of every response. *)

\* Every step keeps CodecInv: a reader never leaves the chain of sequences.
LEMMA StepCodec == CodecInv /\ [Next]_vars => CodecInv'
<1> SUFFICES ASSUME CodecInv, [Next]_vars PROVE CodecInv'
  OBVIOUS
<1>1. CASE UNCHANGED vars
  <2> USE <1>1 DEF CodecInv, vars, chosen, search, stream
  <2>1. TypeOK'
    BY DEF TypeOK, Capacity, Maximum
  <2>2. RunOK' /\ FreshOK' /\ CompressOK' /\ CachedOK'
    BY DEF RunOK, FreshOK, CompressOK, CachedOK
  <2>3. DecodeOK' /\ EndOK'
    BY DEF DecodeOK, EndOK, Gone, Prefix, Part
  <2>4. StreamOK'
    BY DEF StreamOK, output_size, RingOK, InToken, InLiterals, InMatch, Prefix, Part
  <2> QED
    BY <2>1, <2>2, <2>3, <2>4
<1>2. CASE Next
  BY <1>2, NoMemoryCodec, SearchCodec, EndSearchCodec, HandOverCodec, BeginDecodeCodec,
     DecodeSequenceCodec, EndDecodeCodec, BeginStreamCodec, StreamTokenCodec,
     StreamLiteralCodec, StreamDistanceCodec, StreamMatchCodec, EndStreamCodec
     DEF Next
<1> QED
  BY <1>1, <1>2

\* CodecInv is inductive.
LEMMA AlwaysCodec == Spec => []CodecInv
BY InitCodec, StepCodec, PTL DEF Spec

\* The variables keep their types: in particular every byte compress_response
\* emits is a byte, its output never outgrows its buffer, and neither reader's
\* place is beyond the end of the compressed response.
THEOREM TypeCorrect == Spec => []TypeOK
<1>1. CodecInv => TypeOK
  BY DEF CodecInv
<1> QED
  BY <1>1, AlwaysCodec, PTL

\* decompress_response never fails on what compress_response put in the cache,
\* and gives back the response it was given (CachedOK, DecodeOK, EndOK).
THEOREM ResponsesExpandToThemselves == Spec => []RoundTrip
<1>1. CodecInv => RoundTrip
  BY DEF CodecInv, EndOK, RoundTrip
<1> QED
  BY <1>1, AlwaysCodec, PTL

\* What stream_decompressed_response has sent is at any time a beginning of the
\* response, wherever its buffer was flushed, and all of it unless the client
\* went away: the streamer finds no fault with a cached response (StreamOK).
THEOREM ClientsReceiveTheResponse == Spec => []StreamIsResponse
<1>1. CodecInv => StreamIsResponse
  BY DEF CodecInv, EndOK, StreamIsResponse, Prefix
<1> QED
  BY <1>1, AlwaysCodec, PTL

\* The ring of stream_decompressed_response holds the last Window bytes of what
\* it has put out, each at its offset modulo Window, also while it overwrites
\* them: this is why a match may be copied from it.
THEOREM RingIsTheEndOfTheStream == Spec => []RingHoldsWindow
<1>1. CodecInv => RingHoldsWindow
  <2> SUFFICES ASSUME CodecInv, phase = "stream", NEW i \in 0..(output_size - 1),
                      i + Window >= output_size
               PROVE  history[i % Window] = (sent \o chunk)[i + 1]
    BY DEF RingHoldsWindow
  <2> DEFINE n == output_size
  <2>1. /\ source \in Seq(Letters) /\ Len(source) \in Nat /\ n \in Nat /\ n <= Len(source)
        /\ sent \o chunk = Prefix(n) /\ RingOK
    BY Streaming
  <2>2. history[i % Window] = source[i + 1]
    BY <2>1 DEF RingOK
  <2>3. \A k \in 1..n : Prefix(n)[k] = source[k]
    BY <2>1, PrefixIs
  <2>4. i + 1 \in 1..n
    BY <2>1
  <2> HIDE DEF n
  <2>5. Prefix(n)[i + 1] = source[i + 1]
    BY <2>3, <2>4
  <2> QED
    BY <2>1, <2>2, <2>5
<1> QED
  BY <1>1, AlwaysCodec, PTL

--------------------------------------------------------------------------------
(* The worst case. *)

\* The extension of a length has at most one byte more than it has LengthSteps.
LEMMA ExtensionLength ==
  ASSUME NEW n \in Nat
  PROVE  /\ Len(Extension(n)) \in Nat /\ Len(Extension(n)) <= n
         /\ Len(Extension(n)) <= 1 + (n \div LengthStep) /\ n \div LengthStep \in Nat
<1> DEFINE e == Len(Extension(n))
           f == n \div LengthStep
           q == (n - Nibble) \div LengthStep
<1>1. e \in Nat /\ (n < Nibble => e = 0) /\ (n >= Nibble => e = q + 1)
  BY ExtensionIs
<1>2. f \in Nat
  BY Constants, Division
<1>3. ASSUME n >= Nibble PROVE q \in Nat /\ q + 1 <= n /\ q <= f
  <2> DEFINE x == n - Nibble
             g == Nibble \div LengthStep
  <2>1. x \in Nat /\ x + Nibble = n
    BY <1>3, Constants
  <2> HIDE DEF x
  <2>2. x \div LengthStep \in Nat /\ x \div LengthStep <= x /\ g \in Nat
    BY <2>1, Constants, Division, QuotientIsSmaller
  <2>3. (x \div LengthStep) + g <= (x + Nibble) \div LengthStep
    BY <2>1, Constants, QuotientsAdd
  <2> HIDE DEF g
  <2>4. x \div LengthStep <= f
    BY <1>2, <2>1, <2>2, <2>3
  <2> HIDE DEF f
  <2>5. x \div LengthStep + 1 <= n
    BY <2>1, <2>2, Constants
  <2> QED
    BY <2>2, <2>4, <2>5 DEF x
<1> HIDE DEF e, f, q
<1>4. e <= n /\ e <= 1 + f
  BY <1>1, <1>2, <1>3, Constants
<1> QED
  BY <1>1, <1>2, <1>4 DEF e, f

\* The compressed response is never longer than the letters it stands for and
\* one byte for every LengthStep of them.
FitInv ==
  /\ phase = "compress" => Len(output) <= anchor + (anchor \div LengthStep)
  /\ CompressionFits

\* Rounding the parts down gives no more than rounding the sum down.
LEMMA Rounding ==
  ASSUME NEW a \in Nat, NEW l \in Nat, NEW x \in Nat
  PROVE  /\ (a \div LengthStep) + (l \div LengthStep) <= ((a + l) + x) \div LengthStep
         /\ a \div LengthStep \in Nat /\ l \div LengthStep \in Nat
         /\ ((a + l) + x) \div LengthStep \in Nat
<1> DEFINE f == a \div LengthStep
           g == l \div LengthStep
           h == (a + l) \div LengthStep
           y == x \div LengthStep
           z == ((a + l) + x) \div LengthStep
<1>1. f \in Nat /\ g \in Nat /\ h \in Nat /\ y \in Nat /\ z \in Nat
  <2>1. a + l \in Nat /\ (a + l) + x \in Nat
    OBVIOUS
  <2> QED
    BY <2>1, Constants, Division
<1>2. f + g <= h
  BY Constants, QuotientsAdd
<1>3. h + y <= z
  <2>1. a + l \in Nat
    OBVIOUS
  <2> QED
    BY <2>1, Constants, QuotientsAdd
<1> HIDE DEF f, g, h, y, z
<1>4. f + g <= z
  BY <1>1, <1>2, <1>3
<1> QED
  BY <1>1, <1>4 DEF f, g, z

\* Each sequence, and the last one, keeps the output within that size.
LEMMA FitStep ==
  ASSUME MinMatch >= 4, Slack >= 2, CodecInv, FitInv, [Next]_vars
  PROVE  FitInv'
<1>1. CASE Search \/ EndSearch
  <2> DEFINE a == anchor
             i == Len(output)
             F(x) == x \div LengthStep
  <2>1. /\ phase = "compress" /\ UNCHANGED <<source, limit>>
    BY <1>1 DEF Search, EndSearch, chosen
  <2>2. /\ source \in Seq(Letters) /\ Len(source) \in Nat /\ output \in Seq(Bytes)
        /\ i \in Nat /\ a \in Nat /\ a <= offset /\ offset \in Nat
        /\ offset <= Len(source) /\ MinMatch \in Nat /\ Slack \in Nat
        /\ i <= a + F(a) /\ F(Len(source)) \in Nat
        /\ Maximum = Len(source) + F(Len(source)) + Slack
    <3>1. source \in Seq(Letters) /\ output \in Seq(Bytes)
      BY DEF CodecInv, TypeOK, Bytes
    <3>2. Len(source) \in Nat /\ i \in Nat
      BY <3>1, LenProperties
    <3>3. F(Len(source)) \in Nat
      BY <3>2, Constants, Division
    <3>4. Maximum = Len(source) + F(Len(source)) + Slack
      BY DEF Maximum
    <3>5. i <= a + F(a)
      BY <2>1 DEF FitInv
    <3>6. a \in Nat /\ a <= offset /\ offset \in Nat /\ offset <= Len(source)
      BY <3>2 DEF CodecInv, TypeOK
    <3> QED
      BY <3>1, <3>2, <3>3, <3>4, <3>5, <3>6, Constants
  <2> HIDE DEF F, a, i
  <2>3. Maximum' = Maximum
    BY <2>1 DEF Maximum
  <2>4. ASSUME NEW bytes \in Seq(Bytes), NEW next, Put(bytes, next),
               next # "refused", Len(output \o bytes) <= Maximum
        PROVE  /\ CompressionFits'
               /\ phase' # "refused" => phase' = next /\ output' = output \o bytes
    <3>1. Len(output \o bytes) = Len(output) + Len(bytes)
      BY <2>2, <2>4, ConcatProperties
    <3>2. CASE phase' = next /\ output' = output \o bytes
      BY <2>4, <3>2 DEF CompressionFits
    <3>3. CASE Len(output) + Len(bytes) > Capacity /\ phase' = "refused"
      <4>1. /\ Capacity \in Nat /\ Maximum \in Nat /\ Capacity <= limit
            /\ (Capacity = limit \/ Capacity = Maximum) /\ limit \in Nat
        BY <2>2, RoomOK, Constants DEF CodecInv, TypeOK
      <4>2. Len(output \o bytes) \in Nat
        BY <2>2, <2>4, ConcatProperties, LenProperties
      <4>3. Capacity < Maximum
        BY <2>4, <3>1, <3>3, <4>1, <4>2
      <4>4. limit < Maximum
        BY <4>1, <4>3
      <4> QED
        BY <2>1, <2>3, <3>3, <4>4 DEF CompressionFits
    <3> QED
      BY <2>4, <3>2, <3>3 DEF Put
  <2>5. CASE Search
    <3> DEFINE from == hash[Slot[Gram(offset)]]
               m == MatchLength(from)
               n == m - MinMatch
               l == offset - anchor
               bytes == WithLiterals(anchor, l, n) \o MatchAt(offset - from, n)
    <3>1. /\ offset + MinMatch <= Len(source)
          /\ \/ ~Repeats(from) /\ UNCHANGED <<phase, output, anchor>>
             \/ /\ Repeats(from) /\ Put(bytes, "compress")
                /\ anchor' = offset + m
      BY <2>5 DEF Search
    <3>2. CASE ~Repeats(from)
      BY <2>1, <3>1, <3>2 DEF FitInv, CompressionFits
    <3>3. CASE Repeats(from)
      <4>1. /\ m \in Nat /\ offset + m <= Len(source) /\ n \in Nat /\ n + MinMatch = m
        BY <2>1, <3>1, <3>3, Found
      <4>2. /\ bytes \in Seq(Bytes)
            /\ Len(output \o bytes) = NextAt(Len(output), l, n)
        <5>1. Finds(from, n, bytes)
          BY <2>1, <3>1, <3>3 DEF Finds
        <5> QED
          BY <5>1, SearchEmits
      <4>3. l \in Nat /\ a + l = offset
        BY <2>2 DEF a
      <4> DEFINE p == Len(Extension(l))
                 q == Len(Extension(n))
      <4>4. Len(output \o bytes) = i + 1 + p + l + 2 + q
        BY <4>2 DEF i, NextAt, DistanceAt, LiteralsAt
      <4> HIDE DEF from, m, n, l, bytes
      <4>5. /\ p \in Nat /\ q \in Nat /\ p <= 1 + F(l) /\ q <= n
        BY <4>1, <4>3, ExtensionLength DEF F
      <4> HIDE DEF p, q
      <4>6. (a + l) + (n + MinMatch) = offset + m /\ n + MinMatch \in Nat
        BY <2>2, <4>1, <4>3
      <4>7. /\ F(a) + F(l) <= F(offset + m)
            /\ F(a) \in Nat /\ F(l) \in Nat /\ F(offset + m) \in Nat
        <5> DEFINE x == n + MinMatch
        <5>1. x \in Nat /\ (a + l) + x = offset + m
          BY <4>6
        <5> HIDE DEF x
        <5>2. /\ F(a) + F(l) <= F((a + l) + x)
              /\ F(a) \in Nat /\ F(l) \in Nat /\ F((a + l) + x) \in Nat
          BY <2>2, <4>3, <5>1, Rounding DEF F
        <5> QED
          BY <5>1, <5>2
      <4> DEFINE t == Len(output \o bytes)
                 b == offset + m
      <4>8. t <= b + F(b) /\ b \in Nat /\ b <= Len(source) /\ F(b) \in Nat
        <5>1. t <= a + F(a) + 1 + (1 + F(l)) + l + 2 + n
          <6>1. /\ i \in Nat /\ a \in Nat /\ l \in Nat /\ n \in Nat /\ p \in Nat
                /\ q \in Nat /\ F(a) \in Nat /\ F(l) \in Nat
                /\ i <= a + F(a) /\ p <= 1 + F(l) /\ q <= n
                /\ t = i + 1 + p + l + 2 + q
            BY <2>2, <4>1, <4>3, <4>4, <4>5, <4>7
          <6> QED
            BY <6>1, SMTT(30)
        <5>2. a + l + n + 4 <= b
          BY <2>2, <4>1, <4>3, <4>6
        <5>3. t \in Nat
          BY <2>2, <4>3, <4>4, <4>5
        <5>4. b \in Nat /\ b <= Len(source)
          BY <2>2, <4>1
        <5> HIDE DEF t, b
        <5>5. F(a) + F(l) <= F(b) /\ F(b) \in Nat
          BY <4>7 DEF b
        <5>6. /\ a \in Nat /\ l \in Nat /\ n \in Nat /\ F(a) \in Nat /\ F(l) \in Nat
          BY <2>2, <4>1, <4>3, <4>7
        <5> DEFINE fa == F(a)
                   fl == F(l)
                   fb == F(b)
        <5>7. /\ t \in Nat /\ b \in Nat /\ a \in Nat /\ l \in Nat /\ n \in Nat
              /\ fa \in Nat /\ fl \in Nat /\ fb \in Nat
              /\ t <= a + fa + 1 + (1 + fl) + l + 2 + n
              /\ a + l + n + 4 <= b /\ fa + fl <= fb
          BY <5>1, <5>2, <5>3, <5>4, <5>5, <5>6
        <5> HIDE DEF fa, fl, fb
        <5>8. t <= b + fb
          BY <5>7
        <5> QED
          BY <5>4, <5>5, <5>8 DEF fb
      <4>9. b + F(b) <= Maximum
        <5> DEFINE c == Len(source) - b
        <5>1. c \in Nat /\ (b + c) + 0 = Len(source)
          BY <2>2, <4>8, SMTT(30)
        <5> HIDE DEF c
        <5>2. /\ F(b) + F(c) <= F((b + c) + 0) /\ F(c) \in Nat
          BY <4>8, <5>1, Rounding DEF F
        <5>3. F(b) + F(c) <= F(Len(source))
          BY <5>1, <5>2
        <5> HIDE DEF b
        <5> QED
          BY <2>2, <4>8, <5>2, <5>3, SMTT(30)
      <4> HIDE DEF b
      <4>10. t <= Maximum
        <5>1. Maximum \in Nat /\ t \in Nat
          BY <2>2, <4>2, ConcatProperties, LenProperties
        <5> HIDE DEF t
        <5> QED
          BY <4>8, <4>9, <5>1
      <4>11. /\ CompressionFits'
             /\ phase' # "refused" => phase' = "compress" /\ output' = output \o bytes
        BY <2>4, <3>1, <3>3, <4>2, <4>10
      <4>12. phase' = "compress" => Len(output') <= anchor' + F(anchor')
        BY <3>1, <3>3, <4>8, <4>11 DEF b
      <4> QED
        BY <4>11, <4>12 DEF FitInv, F
    <3> QED
      BY <3>2, <3>3
  <2>6. CASE EndSearch
    <3> DEFINE l == Len(source) - anchor
               bytes == WithLiterals(anchor, l, 0)
               p == Len(Extension(l))
    <3>1. Put(bytes, "cached")
      BY <2>6 DEF EndSearch
    <3>2. l \in Nat /\ a + l = Len(source)
      BY <2>2 DEF a
    <3>3. bytes \in Seq(Bytes) /\ i + Len(bytes) = DistanceAt(i, l)
      <4>1. /\ bytes \in Seq(Bytes)
            /\ \A x \in Nat : x + Len(bytes) = DistanceAt(x, l)
        <5>1. 0 \in Nat /\ anchor \in Nat /\ anchor + l <= Len(source)
          BY <2>2, <3>2 DEF a
        <5> QED
          <6>1. source \in Seq(Letters) /\ l \in Nat /\ anchor \in Nat /\ 0 \in Nat
                /\ anchor + l <= Len(source)
            BY <2>2, <3>2, <5>1
          <6> HIDE DEF l
          <6> QED
            BY <6>1, LiteralsEmitted
      <4> QED
        BY <2>2, <4>1
    <3> HIDE DEF l, bytes
    <3>4. p \in Nat /\ p <= 1 + F(l)
      BY <3>2, ExtensionLength DEF F
    <3>5. Len(output \o bytes) = i + 1 + p + l
      <4>1. Len(output \o bytes) = i + Len(bytes)
        BY <2>2, <3>3, ConcatProperties DEF i
      <4> QED
        BY <3>3, <4>1 DEF DistanceAt, LiteralsAt
    <3> HIDE DEF p
    <3>6. F(a) + F(l) <= F(Len(source)) /\ F(a) \in Nat /\ F(l) \in Nat
      <4>1. 0 \in Nat /\ (a + l) + 0 = Len(source)
        BY <2>2, <3>2
      <4>2. /\ F(a) + F(l) <= F((a + l) + 0) /\ F(a) \in Nat /\ F(l) \in Nat
        BY <2>2, <3>2, <4>1, Rounding DEF F
      <4> QED
        BY <4>1, <4>2
    <3>7. Len(output \o bytes) <= Maximum
      <4> DEFINE fa == F(a)
                 fl == F(l)
                 fs == F(Len(source))
                 t == Len(output \o bytes)
                 e == Len(source)
      <4>1. /\ i \in Nat /\ a \in Nat /\ e \in Nat /\ i <= a + fa
            /\ Maximum = e + fs + Slack /\ fs \in Nat
        BY <2>2
      <4>2. /\ l \in Nat /\ a + l = e /\ p \in Nat /\ p <= 1 + fl
            /\ t = i + 1 + p + l
        BY <3>2, <3>4, <3>5
      <4>3. fa + fl <= fs /\ fa \in Nat /\ fl \in Nat
        BY <3>6
      <4>4. Slack \in Nat /\ Slack >= 2
        BY Constants
      <4> HIDE DEF fa, fl, fs, t, e
      <4>5. t <= Maximum
        BY <4>1, <4>2, <4>3, <4>4
      <4> QED
        BY <4>5 DEF t
    <3>8. /\ CompressionFits'
          /\ phase' # "refused" => phase' = "cached"
      BY <2>4, <3>1, <3>3, <3>7
    <3> QED
      BY <3>8 DEF FitInv
  <2> QED
    BY <1>1, <2>5, <2>6
<1>2. CASE UNCHANGED vars
  BY <1>2 DEF FitInv, CompressionFits, Maximum, vars, chosen, search
<1>3. CASE /\ Next /\ ~Search /\ ~EndSearch
  <2>1. phase' \notin {"compress", "refused"}
    <3>1. CASE NoMemory \/ HandOver \/ BeginDecode \/ BeginStream \/ EndDecode \/ EndStream
      BY <3>1 DEF NoMemory, HandOver, BeginDecode, BeginStream, EndDecode, EndStream
    <3>2. CASE DecodeSequence
      BY <3>2 DEF DecodeSequence
    <3>3. CASE StreamToken \/ StreamDistance
      BY <3>3 DEF StreamToken, StreamDistance
    <3>4. CASE StreamLiteral \/ StreamMatch
      BY <3>4 DEF StreamLiteral, StreamMatch, Emit, Stop
    <3> QED
      BY <1>3, <3>1, <3>2, <3>3, <3>4 DEF Next
  <2> QED
    BY <2>1 DEF FitInv, CompressionFits
<1> QED
  BY <1>1, <1>2, <1>3

\* compress_response refuses a response only when max_compressed_buffer is below
\* the maximum it reserves for that response: whatever the letters and however
\* the hash collides, its output fits that maximum.  A match pays for its token
\* and two bytes of distance when it has four letters or more, and the last
\* token and its first extension byte need two bytes beside the extensions: in
\* the code a match has at least 4 bytes and the maximum 32 beside them.
THEOREM CompressedResponsesFit ==
  ASSUME MinMatch >= 4, Slack >= 2
  PROVE  Spec => []CompressionFits
<1>1. Init => FitInv
  <2> SUFFICES ASSUME Init PROVE FitInv
    OBVIOUS
  <2>1. Len(<<>>) = 0 /\ 0 \div LengthStep \in Nat
    BY Constants, Division, EmptySeq
  <2> QED
    BY <2>1 DEF Init, FitInv, CompressionFits
<1>2. CodecInv /\ FitInv /\ [Next]_vars => FitInv'
  BY FitStep
<1>3. FitInv => CompressionFits
  BY DEF FitInv
<1> QED
  BY <1>1, <1>2, <1>3, AlwaysCodec, PTL DEF Spec

================================================================================
