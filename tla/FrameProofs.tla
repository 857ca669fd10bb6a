----------------------------- MODULE FrameProofs -----------------------------
(***************************************************************************)
(* The control protocol for every byte width, frame limit and payload, in  *)
(* particular 256 and 4096: encoding and decoding are inverse to each      *)
(* other, and a frame is read whole and alone however its bytes arrive.    *)
(***************************************************************************)
EXTENDS Frame, TLAPS

-----------------------------------------------------------------------------
(* Numbers in two bytes *)

(* How many numbers there are of two bytes. *)
Words == Base * Base

(* The quotient of a number in two bytes is a byte. *)
LEMMA HighByte ==
    ASSUME NEW n \in Nat, n < Words
    PROVE  /\ n \div Base \in Bytes /\ n % Base \in Bytes
           /\ n = (n \div Base) * Base + (n % Base)
<1>1. Base \in Nat /\ Base > 0
  BY WidthAssumption
<1>2. n % Base \in Bytes /\ n \div Base \in Nat
      /\ n = Base * (n \div Base) + (n % Base)
  <2>1. n % Base \in 0..(Base - 1)
    BY <1>1
  <2>2. n = Base * (n \div Base) + (n % Base) /\ n \div Base \in Int
    BY <1>1
  <2>3. n \div Base >= 0
    BY <1>1
  <2> QED BY <2>1, <2>2, <2>3 DEF Bytes
<1>3. n \div Base < Base
  <2> SUFFICES ASSUME n \div Base >= Base PROVE FALSE
    BY <1>1, <1>2
  <2>1. Base * (n \div Base) >= Base * Base
    BY <1>1, <1>2
  <2> QED BY <1>1, <1>2, <2>1 DEF Bytes, Words
<1> QED BY <1>1, <1>2, <1>3 DEF Bytes

(* PutUint16 writes two bytes, whatever it is given. *)
LEMMA TwoBytes ==
    ASSUME NEW n \in Nat
    PROVE  PutUint16(n) \in Seq(Bytes) /\ Len(PutUint16(n)) = 2
<1>1. Base \in Nat /\ Base > 0
  BY WidthAssumption
<1>2. n \div Base \in Int
  BY <1>1
<1>3. (n \div Base) % Base \in 0..(Base - 1) /\ n % Base \in 0..(Base - 1)
  BY <1>1, <1>2
<1> QED BY <1>3 DEF PutUint16, Bytes

(* PutUint16 and Uint16 are inverse to each other, within two bytes. *)
LEMMA ReadsBack ==
    ASSUME NEW n \in Nat, n < Words
    PROVE  /\ PutUint16(n) \in Seq(Bytes) /\ Len(PutUint16(n)) = 2
           /\ Uint16(PutUint16(n)) = n
<1>1. Base \in Nat /\ Base > 0
  BY WidthAssumption
<1>2. (n \div Base) % Base = n \div Base
  BY <1>1, HighByte DEF Bytes
<1>3. PutUint16(n) = <<n \div Base, n % Base>>
  BY <1>2 DEF PutUint16
<1> QED BY <1>1, <1>3, HighByte DEF Uint16

(* Any two bytes are what PutUint16 makes of the number they stand for. *)
LEMMA WritesBack ==
    ASSUME NEW a \in Bytes, NEW b \in Bytes
    PROVE  /\ a * Base + b \in Nat /\ a * Base + b < Words
           /\ PutUint16(a * Base + b) = <<a, b>>
<1>1. Base \in Nat /\ Base > 0 /\ a \in Nat /\ b \in Nat /\ a < Base /\ b < Base
  BY WidthAssumption DEF Bytes
<1>2. a * Base <= (Base - 1) * Base
  BY <1>1
<1>3. a * Base + b \in Nat /\ a * Base + b < Base * Base
  BY <1>1, <1>2
<1>4. (a * Base + b) % Base = b /\ (a * Base + b) \div Base = a
  BY <1>1
<1>5. a % Base = a
  BY <1>1
<1> QED BY <1>3, <1>4, <1>5 DEF PutUint16, Words

-----------------------------------------------------------------------------
(* Sequences *)

(* The members of two sequences, one behind the other. *)
LEMMA Joined ==
    ASSUME NEW S, NEW a \in Seq(S), NEW b \in Seq(S)
    PROVE  /\ a \o b \in Seq(S) /\ Len(a \o b) = Len(a) + Len(b)
           /\ \A i \in 1..Len(a) : (a \o b)[i] = a[i]
           /\ \A i \in 1..Len(b) : (a \o b)[Len(a) + i] = b[i]
OBVIOUS

(* It does not matter which of two seams is made first. *)
LEMMA Reassociate ==
    ASSUME NEW S, NEW a \in Seq(S), NEW b \in Seq(S), NEW c \in Seq(S)
    PROVE  (a \o b) \o c = a \o (b \o c)
OBVIOUS

(* The same, quantified, for leaves that cannot instantiate the lemma. *)
LEMMA Regroup ==
    \A a, b, c \in Seq(Bytes) : (a \o b) \o c = a \o (b \o c)
BY Reassociate

(* Sequences are equal when their members are. *)
LEMMA SameSequence ==
    ASSUME NEW S, NEW a \in Seq(S), NEW b \in Seq(S), Len(a) = Len(b),
           \A i \in 1..Len(a) : a[i] = b[i]
    PROVE  a = b
OBVIOUS

(* Cutting a sequence at the seam of two gives the two back. *)
LEMMA CutAtSeam ==
    ASSUME NEW S, NEW a \in Seq(S), NEW b \in Seq(S)
    PROVE  /\ SubSeq(a \o b, 1, Len(a)) = a
           /\ SubSeq(a \o b, Len(a) + 1, Len(a \o b)) = b
<1> DEFINE ab == a \o b
<1>1. /\ ab \in Seq(S) /\ Len(ab) = Len(a) + Len(b)
      /\ \A i \in 1..Len(a) : ab[i] = a[i]
      /\ \A i \in 1..Len(b) : ab[Len(a) + i] = b[i]
  BY Joined
<1> HIDE DEF ab
<1>2. SubSeq(ab, 1, Len(a)) = a
  BY <1>1
<1>3. SubSeq(ab, Len(a) + 1, Len(ab)) = b
  BY <1>1
<1> QED BY <1>2, <1>3 DEF ab

(* Two parts of a cut sequence make it up again. *)
LEMMA CutAndJoin ==
    ASSUME NEW S, NEW a \in Seq(S), NEW k \in 0..Len(a)
    PROVE  /\ SubSeq(a, 1, k) \in Seq(S) /\ Len(SubSeq(a, 1, k)) = k
           /\ SubSeq(a, k + 1, Len(a)) \in Seq(S)
           /\ Len(SubSeq(a, k + 1, Len(a))) = Len(a) - k
           /\ SubSeq(a, 1, k) \o SubSeq(a, k + 1, Len(a)) = a
<1> DEFINE x == SubSeq(a, 1, k)
           y == SubSeq(a, k + 1, Len(a))
<1>1. x \in Seq(S) /\ Len(x) = k /\ \A i \in 1..k : x[i] = a[i]
  OBVIOUS
<1>2. /\ y \in Seq(S) /\ Len(y) = Len(a) - k
      /\ \A i \in 1..(Len(a) - k) : y[i] = a[k + i]
  OBVIOUS
<1> HIDE DEF x, y
<1>a. x \in Seq(S) /\ y \in Seq(S)
  BY <1>1, <1>2
<1> DEFINE xy == x \o y
<1>b. /\ xy \in Seq(S) /\ Len(xy) = Len(x) + Len(y)
      /\ \A i \in 1..Len(x) : xy[i] = x[i]
      /\ \A i \in 1..Len(y) : xy[Len(x) + i] = y[i]
  BY <1>a, Joined
<1> HIDE DEF xy
<1>3. xy \in Seq(S) /\ Len(xy) = Len(a) /\ Len(a) \in Nat
  BY <1>1, <1>2, <1>b
<1>4. ASSUME NEW i \in 1..Len(a)
      PROVE  xy[i] = a[i]
  <2>1. CASE i <= k
    BY <1>1, <1>3, <1>b, <2>1
  <2>2. CASE i > k
    <3> DEFINE j == i - k
    <3>1. j \in 1..Len(y) /\ i = Len(x) + j /\ i = k + j
      BY <1>1, <1>2, <1>3, <2>2
    <3> HIDE DEF j
    <3>2. xy[Len(x) + j] = y[j]
      BY <1>b, <3>1
    <3>3. y[j] = a[k + j]
      BY <1>2, <3>1
    <3> QED BY <3>1, <3>2, <3>3
  <2> QED BY <1>3, <2>1, <2>2
<1>5. xy = a
  BY <1>3, <1>4, SameSequence
<1> QED BY <1>1, <1>2, <1>5 DEF x, y, xy

-----------------------------------------------------------------------------
(* Strings in a body *)

(* A string as appendString adds it to a body. *)
Text(s) == PutUint16(Len(s)) \o s

(* appendString adds two bytes and the string. *)
LEMMA TextType ==
    ASSUME NEW s \in Seq(Bytes)
    PROVE  Text(s) \in Seq(Bytes) /\ Len(Text(s)) = 2 + Len(s)
<1> DEFINE h == PutUint16(Len(s))
<1>1. Len(s) \in Nat
  OBVIOUS
<1>2. h \in Seq(Bytes) /\ Len(h) = 2
  BY <1>1, TwoBytes
<1> HIDE DEF h
<1>3. h \o s \in Seq(Bytes) /\ Len(h \o s) = Len(h) + Len(s)
  BY <1>2, Joined
<1> QED BY <1>1, <1>2, <1>3 DEF Text, h

(* readString takes off exactly what appendString added. *)
LEMMA ReadAppended ==
    ASSUME NEW s \in Seq(Bytes), Len(s) < Words, NEW rest \in Seq(Bytes)
    PROVE  readString(Text(s) \o rest)
             = [ok |-> TRUE, string |-> s, rest |-> rest]
<1> DEFINE h == PutUint16(Len(s))
           text == Text(s)
           body == text \o rest
<1>1. h \in Seq(Bytes) /\ Len(h) = 2 /\ Uint16(h) = Len(s)
  BY ReadsBack
<1>2. /\ text \in Seq(Bytes) /\ Len(text) = 2 + Len(s) /\ text = h \o s
      /\ Len(s) \in Nat /\ Len(rest) \in Nat
  BY TextType DEF Text
<1> HIDE DEF h, text
<1>3. h \in Seq(Bytes) /\ text \in Seq(Bytes)
  BY <1>1, <1>2
<1>4. /\ \A i \in 1..Len(h) : text[i] = h[i]
      /\ \A i \in 1..Len(s) : text[Len(h) + i] = s[i]
  BY <1>2, <1>3, Joined
<1>5. /\ body \in Seq(Bytes) /\ Len(body) = Len(text) + Len(rest)
      /\ \A i \in 1..Len(text) : body[i] = text[i]
  BY <1>3, Joined
<1>6. SubSeq(body, Len(text) + 1, Len(body)) = rest
  BY <1>3, CutAtSeam
<1> HIDE DEF body
<1>7. body[1] = h[1] /\ body[2] = h[2]
  <2>1. 1 \in 1..Len(h) /\ 2 \in 1..Len(h) /\ 1 \in 1..Len(text) /\ 2 \in 1..Len(text)
    BY <1>1, <1>2
  <2> QED BY <1>4, <1>5, <2>1
<1>8. Uint16(body) = Len(s) /\ Len(body) = 2 + Len(s) + Len(rest)
  BY <1>1, <1>2, <1>5, <1>7 DEF Uint16
<1>9. StringFits(body)
  BY <1>2, <1>8 DEF StringFits
<1>10. SubSeq(body, 3, 2 + Len(s)) = s
  <2>1. \A i \in 1..Len(s) : body[2 + i] = s[i]
    <3> TAKE i \in 1..Len(s)
    <3>1. 2 + i \in 1..Len(text) /\ Len(h) + i = 2 + i
      BY <1>1, <1>2
    <3> QED BY <1>4, <1>5, <3>1
  <2> QED BY <1>2, <1>5, <1>8, <2>1
<1>11. SubSeq(body, 3 + Len(s), Len(body)) = rest
  <2>1. Len(text) + 1 = 3 + Len(s)
    BY <1>2
  <2> QED BY <1>6, <2>1
<1>12. readString(body) = [ok |-> TRUE, string |-> SubSeq(body, 3, 2 + Len(s)),
                           rest |-> SubSeq(body, 3 + Len(s), Len(body))]
  BY <1>8, <1>9 DEF readString
<1>13. readString(body) = [ok |-> TRUE, string |-> s, rest |-> rest]
  BY <1>10, <1>11, <1>12
<1> QED BY <1>13 DEF body, text

(* And it takes off nothing that appendString would not have added. *)
LEMMA AppendRead ==
    ASSUME NEW body \in Seq(Bytes), readString(body).ok
    PROVE  LET r == readString(body)
           IN  /\ r.string \in Seq(Bytes) /\ r.rest \in Seq(Bytes)
               /\ Len(r.string) < Words
               /\ body = Text(r.string) \o r.rest
<1> DEFINE n == Uint16(body)
           front == SubSeq(body, 1, 2 + n)
           head == SubSeq(body, 1, 2)
           string == SubSeq(body, 3, 2 + n)
           rest == SubSeq(body, 3 + n, Len(body))
           r == readString(body)
<1>0. StringFits(body)
  BY DEF readString
<1>1. Len(body) >= 2 /\ n <= Len(body) - 2
  BY <1>0 DEF StringFits
<1>2. r = [ok |-> TRUE, string |-> string, rest |-> rest]
  BY DEF readString
<1>3. r.string = string /\ r.rest = rest
  <2> HIDE DEF string, rest, r
  <2> QED BY <1>2
<1>4. body[1] \in Bytes /\ body[2] \in Bytes /\ Len(body) \in Nat
  BY <1>1
<1>5. n \in Nat /\ n < Words /\ PutUint16(n) = <<body[1], body[2]>>
  BY <1>4, WritesBack DEF Uint16
<1> HIDE DEF n
<1>6. /\ front \in Seq(Bytes) /\ Len(front) = 2 + n
      /\ SubSeq(body, 2 + n + 1, Len(body)) = rest
      /\ rest \in Seq(Bytes) /\ body = front \o rest
  <2>1. 2 + n \in 0..Len(body) /\ 2 + n + 1 = 3 + n
    BY <1>1, <1>4, <1>5
  <2> QED BY <2>1, CutAndJoin
<1>7. /\ string \in Seq(Bytes) /\ Len(string) = n
      /\ \A i \in 1..n : string[i] = body[2 + i]
  BY <1>1, <1>4, <1>5
<1>8. \A i \in 1..(2 + n) : front[i] = body[i]
  BY <1>1, <1>4, <1>5
<1> HIDE DEF front, string, rest, r
<1>9. front = Text(string)
  <2> DEFINE h == PutUint16(n)
  <2>1. h \in Seq(Bytes) /\ Len(h) = 2 /\ h[1] = body[1] /\ h[2] = body[2]
    BY <1>4, <1>5
  <2> HIDE DEF h
  <2>2. h \in Seq(Bytes) /\ string \in Seq(Bytes)
    BY <1>7, <2>1
  <2>3. /\ h \o string \in Seq(Bytes) /\ Len(h \o string) = Len(h) + Len(string)
        /\ \A i \in 1..Len(h) : (h \o string)[i] = h[i]
        /\ \A i \in 1..Len(string) : (h \o string)[Len(h) + i] = string[i]
    BY <2>2, Joined
  <2>4. \A i \in 1..(2 + n) : (h \o string)[i] = body[i]
    <3> TAKE i \in 1..(2 + n)
    <3>1. CASE i \in {1, 2}
      BY <2>1, <2>3, <3>1
    <3>2. CASE i > 2
      <4>1. i - 2 \in 1..n /\ 2 + (i - 2) = i
        BY <1>5, <3>2
      <4>2. i - 2 \in 1..Len(string) /\ Len(h) + (i - 2) = i
        BY <1>7, <2>1, <4>1
      <4>3. (h \o string)[i] = string[i - 2]
        BY <2>3, <4>2
      <4> QED BY <1>7, <4>1, <4>3
    <3>3. i \in {1, 2} \/ i > 2
      BY <1>5
    <3> QED BY <3>1, <3>2, <3>3
  <2>5. h \o string = front
    BY <1>5, <1>6, <1>7, <1>8, <2>1, <2>3, <2>4, SameSequence
  <2> QED BY <1>7, <2>5 DEF Text, h
<1>10. /\ r.string \in Seq(Bytes) /\ r.rest \in Seq(Bytes)
       /\ Len(r.string) < Words
       /\ body = Text(r.string) \o r.rest
  BY <1>3, <1>5, <1>6, <1>7, <1>9
<1> QED BY <1>10 DEF r

-----------------------------------------------------------------------------
(* The five strings of OPEN and PROBE *)

Strings == [1..5 -> Seq(Bytes)]

(* The strings as they follow one another in a body. *)
Texts(ss) ==
    Text(ss[1]) \o (Text(ss[2]) \o (Text(ss[3]) \o (Text(ss[4]) \o Text(ss[5]))))

(* A body as far as it is allowed to grow. *)
UpToLimit(body) == IF Len(body) > MaxFrameLen THEN Failed ELSE body

(* appendString checks the length of a body that was within the limit, and *)
(* what once failed is not taken up again.                                 *)
LEMMA AppendOne ==
    ASSUME NEW body \in Seq(Bytes), body # << >>, NEW s \in Seq(Bytes)
    PROVE  /\ body \o Text(s) \in Seq(Bytes)
           /\ Len(body \o Text(s)) = Len(body) + (2 + Len(s))
           /\ body \o Text(s) # << >>
           /\ (IF UpToLimit(body) = Failed THEN Failed
                                           ELSE appendString(UpToLimit(body), s))
                = UpToLimit(body \o Text(s))
<1> DEFINE t == Text(s)
           h == PutUint16(Len(s))
           longer == body \o t
<1>1. Len(body) \in Nat /\ Len(s) \in Nat /\ MaxFrameLen \in Nat
  BY WidthAssumption
<1>2. t \in Seq(Bytes) /\ h \in Seq(Bytes)
  BY <1>1, TextType, TwoBytes
<1>3. Len(t) = 2 + Len(s)
  BY TextType
<1>4. t = h \o s
  BY DEF Text
<1> HIDE DEF t, h
<1>5. longer \in Seq(Bytes) /\ Len(longer) = Len(body) + Len(t)
  BY <1>2, Joined
<1>6. (body \o h) \o s = body \o (h \o s)
  BY <1>2, Regroup, Zenon
<1>7. (body \o h) \o s = longer
  BY <1>4, <1>6
<1> HIDE DEF longer
<1>8. Len(longer) = Len(body) + (2 + Len(s))
  BY <1>3, <1>5
<1>9. longer # << >> /\ Len(longer) > Len(body) /\ Len(longer) > Len(s)
  BY <1>1, <1>8
<1>10. CASE Len(body) > MaxFrameLen
  <2>1. Len(longer) > MaxFrameLen
    BY <1>1, <1>8, <1>9, <1>10
  <2>2. UpToLimit(body) = Failed /\ UpToLimit(longer) = Failed
    BY <1>10, <2>1 DEF UpToLimit
  <2> QED BY <1>5, <1>8, <1>9, <2>2 DEF longer, t
<1>11. CASE ~(Len(body) > MaxFrameLen)
  <2>1. UpToLimit(body) = body /\ body # Failed
    BY <1>11 DEF UpToLimit, Failed
  <2>2. appendString(body, s) =
          IF Len(s) > MaxFrameLen \/ Len(longer) > MaxFrameLen
            THEN Failed ELSE longer
    BY <1>7 DEF appendString, h
  <2>3. Len(s) > MaxFrameLen => Len(longer) > MaxFrameLen
    BY <1>1, <1>8, <1>9
  <2>4. appendString(body, s) = UpToLimit(longer)
    BY <2>2, <2>3 DEF UpToLimit
  <2> QED BY <1>5, <1>8, <1>9, <2>1, <2>4 DEF longer, t
<1> QED BY <1>10, <1>11

(* WriteFrame's five calls: all of the strings, or none when they do not   *)
(* fit, although each call looks only at the body so far.                  *)
LEMMA AppendAll ==
    ASSUME NEW body \in Seq(Bytes), body # << >>, NEW ss \in Strings
    PROVE  /\ Texts(ss) \in Seq(Bytes)
           /\ body \o Texts(ss) \in Seq(Bytes)
           /\ Len(body \o Texts(ss)) = Len(body) + StringsLen(ss)
           /\ StringsLen(ss) \in Nat
           /\ Len(body) <= MaxFrameLen =>
                appendStrings(body, ss) = UpToLimit(body \o Texts(ss))
<1> DEFINE s1 == ss[1]  s2 == ss[2]  s3 == ss[3]  s4 == ss[4]  s5 == ss[5]
           p1 == body \o Text(s1)
           p2 == p1 \o Text(s2)
           p3 == p2 \o Text(s3)
           p4 == p3 \o Text(s4)
           p5 == p4 \o Text(s5)
           add(b, s) == IF b = Failed THEN Failed ELSE appendString(b, s)
<1>0. /\ s1 \in Seq(Bytes) /\ s2 \in Seq(Bytes) /\ s3 \in Seq(Bytes)
      /\ s4 \in Seq(Bytes) /\ s5 \in Seq(Bytes)
  BY DEF Strings
<1>a. appendStrings(body, ss)
        = add(add(add(add(add(body, s1), s2), s3), s4), s5)
  BY DEF appendStrings
<1>b. Texts(ss) = Text(s1) \o (Text(s2) \o (Text(s3) \o (Text(s4) \o Text(s5))))
  BY DEF Texts
<1> HIDE DEF s1, s2, s3, s4, s5
<1>1. /\ p1 \in Seq(Bytes) /\ p1 # << >> /\ Len(p1) = Len(body) + (2 + Len(s1))
      /\ add(UpToLimit(body), s1) = UpToLimit(p1)
  BY <1>0, AppendOne
<1> HIDE DEF p1
<1>2. /\ p2 \in Seq(Bytes) /\ p2 # << >> /\ Len(p2) = Len(p1) + (2 + Len(s2))
      /\ add(UpToLimit(p1), s2) = UpToLimit(p2)
  <2>1. p1 \in Seq(Bytes) /\ p1 # << >> /\ s2 \in Seq(Bytes)
    BY <1>0, <1>1
  <2> QED BY <2>1, AppendOne
<1> HIDE DEF p2
<1>3. /\ p3 \in Seq(Bytes) /\ p3 # << >> /\ Len(p3) = Len(p2) + (2 + Len(s3))
      /\ add(UpToLimit(p2), s3) = UpToLimit(p3)
  <2>1. p2 \in Seq(Bytes) /\ p2 # << >> /\ s3 \in Seq(Bytes)
    BY <1>0, <1>2
  <2> QED BY <2>1, AppendOne
<1> HIDE DEF p3
<1>4. /\ p4 \in Seq(Bytes) /\ p4 # << >> /\ Len(p4) = Len(p3) + (2 + Len(s4))
      /\ add(UpToLimit(p3), s4) = UpToLimit(p4)
  <2>1. p3 \in Seq(Bytes) /\ p3 # << >> /\ s4 \in Seq(Bytes)
    BY <1>0, <1>3
  <2> QED BY <2>1, AppendOne
<1> HIDE DEF p4
<1>5. /\ p5 \in Seq(Bytes) /\ p5 # << >> /\ Len(p5) = Len(p4) + (2 + Len(s5))
      /\ add(UpToLimit(p4), s5) = UpToLimit(p5)
  <2>1. p4 \in Seq(Bytes) /\ p4 # << >> /\ s5 \in Seq(Bytes)
    BY <1>0, <1>4
  <2> QED BY <2>1, AppendOne
<1> HIDE DEF p5, add
<1>6. ASSUME Len(body) <= MaxFrameLen
      PROVE  appendStrings(body, ss) = UpToLimit(p5)
  <2>1. body = UpToLimit(body)
    <3>1. Len(body) \in Nat /\ MaxFrameLen \in Nat
      BY WidthAssumption
    <3> QED BY <1>6, <3>1 DEF UpToLimit
  <2>2. add(body, s1) = UpToLimit(p1)
    BY <1>1, <2>1
  <2>3. add(add(body, s1), s2) = UpToLimit(p2)
    BY <1>2, <2>2
  <2>4. add(add(add(body, s1), s2), s3) = UpToLimit(p3)
    BY <1>3, <2>3
  <2>5. add(add(add(add(body, s1), s2), s3), s4) = UpToLimit(p4)
    BY <1>4, <2>4
  <2> QED BY <1>5, <1>a, <2>5
<1> DEFINE t1 == Text(s1)  t2 == Text(s2)  t3 == Text(s3)
           t4 == Text(s4)  t5 == Text(s5)
           u4 == t4 \o t5
           u3 == t3 \o u4
           u2 == t2 \o u3
           u1 == t1 \o u2
<1>7. /\ t1 \in Seq(Bytes) /\ t2 \in Seq(Bytes) /\ t3 \in Seq(Bytes)
      /\ t4 \in Seq(Bytes) /\ t5 \in Seq(Bytes)
  BY <1>0, TextType
<1>8. /\ p1 = body \o t1 /\ p2 = p1 \o t2 /\ p3 = p2 \o t3
      /\ p4 = p3 \o t4 /\ p5 = p4 \o t5
  BY DEF p1, p2, p3, p4, p5
<1>9. Texts(ss) = u1
  BY <1>b
<1>10. p1 \in Seq(Bytes) /\ p2 \in Seq(Bytes) /\ p3 \in Seq(Bytes)
  BY <1>1, <1>2, <1>3
<1> HIDE DEF t1, t2, t3, t4, t5
<1>11. u4 \in Seq(Bytes) /\ p5 = p3 \o u4
  <2>1. (p3 \o t4) \o t5 = p3 \o u4
    <3>1. p3 \in Seq(Bytes) /\ t4 \in Seq(Bytes) /\ t5 \in Seq(Bytes)
      BY <1>7, <1>10
    <3> QED BY <3>1, Reassociate
  <2> QED BY <1>7, <1>8, <2>1
<1> HIDE DEF u4
<1>12. u3 \in Seq(Bytes) /\ p5 = p2 \o u3
  <2>1. (p2 \o t3) \o u4 = p2 \o u3
    <3>1. p2 \in Seq(Bytes) /\ t3 \in Seq(Bytes) /\ u4 \in Seq(Bytes)
      BY <1>7, <1>10, <1>11
    <3> QED BY <3>1, Reassociate
  <2> QED BY <1>7, <1>8, <1>11, <2>1
<1> HIDE DEF u3
<1>13. u2 \in Seq(Bytes) /\ p5 = p1 \o u2
  <2>1. (p1 \o t2) \o u3 = p1 \o u2
    <3>1. p1 \in Seq(Bytes) /\ t2 \in Seq(Bytes) /\ u3 \in Seq(Bytes)
      BY <1>7, <1>10, <1>12
    <3> QED BY <3>1, Reassociate
  <2> QED BY <1>7, <1>8, <1>12, <2>1
<1> HIDE DEF u2
<1>14. u1 \in Seq(Bytes) /\ p5 = body \o u1
  <2>1. (body \o t1) \o u2 = body \o u1
    <3>1. body \in Seq(Bytes) /\ t1 \in Seq(Bytes) /\ u2 \in Seq(Bytes)
      BY <1>7, <1>13
    <3> QED BY <3>1, Reassociate
  <2> QED BY <1>7, <1>8, <1>13, <2>1
<1> HIDE DEF u1
<1> DEFINE size == (2 + Len(s1)) + (2 + Len(s2)) + (2 + Len(s3))
                     + (2 + Len(s4)) + (2 + Len(s5))
<1>15. Len(p5) = Len(body) + size /\ size \in Nat
  <2>1. /\ Len(body) \in Nat /\ Len(s1) \in Nat /\ Len(s2) \in Nat
        /\ Len(s3) \in Nat /\ Len(s4) \in Nat /\ Len(s5) \in Nat
    BY <1>0
  <2>2. /\ Len(p1) = Len(body) + (2 + Len(s1)) /\ Len(p2) = Len(p1) + (2 + Len(s2))
        /\ Len(p3) = Len(p2) + (2 + Len(s3)) /\ Len(p4) = Len(p3) + (2 + Len(s4))
        /\ Len(p5) = Len(p4) + (2 + Len(s5))
    BY <1>1, <1>2, <1>3, <1>4, <1>5
  <2> QED BY <2>1, <2>2
<1>16. body \o Texts(ss) = p5 /\ Texts(ss) \in Seq(Bytes)
  BY <1>9, <1>14
<1>17. StringsLen(ss) = size
  BY DEF StringsLen, s1, s2, s3, s4, s5
<1> HIDE DEF size
<1> QED BY <1>5, <1>6, <1>15, <1>16, <1>17

(* No string is longer than all of them. *)
LEMMA PartOfAll ==
    ASSUME NEW ss \in Strings, NEW i \in 1..5
    PROVE  Len(ss[i]) \in Nat /\ Len(ss[i]) <= StringsLen(ss)
<1> DEFINE n1 == Len(ss[1])  n2 == Len(ss[2])  n3 == Len(ss[3])
           n4 == Len(ss[4])  n5 == Len(ss[5])
<1>1. n1 \in Nat /\ n2 \in Nat /\ n3 \in Nat /\ n4 \in Nat /\ n5 \in Nat
  BY DEF Strings
<1>2. StringsLen(ss) = (2 + n1) + (2 + n2) + (2 + n3) + (2 + n4) + (2 + n5)
  BY DEF StringsLen
<1>3. Len(ss[i]) \in {n1, n2, n3, n4, n5}
  OBVIOUS
<1> HIDE DEF n1, n2, n3, n4, n5
<1> QED BY <1>1, <1>2, <1>3

(* ReadFrame's five calls find the strings that WriteFrame put there. *)
LEMMA ReadAllAppended ==
    ASSUME NEW ss \in Strings, \A i \in 1..5 : Len(ss[i]) < Words
    PROVE  readStrings(Texts(ss)) = [ok |-> TRUE, rest |-> << >>, strings |-> ss]
<1> DEFINE s1 == ss[1]  s2 == ss[2]  s3 == ss[3]  s4 == ss[4]  s5 == ss[5]
           u5 == Text(s5)
           u4 == Text(s4) \o u5
           u3 == Text(s3) \o u4
           u2 == Text(s2) \o u3
           u1 == Text(s1) \o u2
           read(s, rest) == [ok |-> TRUE, string |-> s, rest |-> rest]
<1>1. Texts(ss) = u1
  BY DEF Texts
<1>2. /\ s1 \in Seq(Bytes) /\ s2 \in Seq(Bytes) /\ s3 \in Seq(Bytes)
      /\ s4 \in Seq(Bytes) /\ s5 \in Seq(Bytes)
  BY DEF Strings
<1>3. Len(s1) < Words /\ Len(s2) < Words /\ Len(s3) < Words
      /\ Len(s4) < Words /\ Len(s5) < Words
  OBVIOUS
<1>4. <<s1, s2, s3, s4, s5>> = ss
  BY DEF Strings
<1> HIDE DEF s1, s2, s3, s4, s5
<1>r5. readString(u5) = read(s5, << >>) /\ u5 \in Seq(Bytes)
  <2>1. s5 \in Seq(Bytes) /\ << >> \in Seq(Bytes)
    BY <1>2
  <2>2. readString(Text(s5) \o << >>) = read(s5, << >>)
    BY <1>3, <2>1, ReadAppended
  <2>3. Text(s5) \in Seq(Bytes)
    BY <2>1, TextType
  <2> QED BY <2>1, <2>2, <2>3
<1> HIDE DEF u5
<1>r4. readString(u4) = read(s4, u5) /\ u4 \in Seq(Bytes)
  <2>1. s4 \in Seq(Bytes) /\ u5 \in Seq(Bytes)
    BY <1>2, <1>r5
  <2>2. readString(Text(s4) \o u5) = read(s4, u5)
    BY <1>3, <2>1, ReadAppended
  <2>3. Text(s4) \in Seq(Bytes)
    BY <2>1, TextType
  <2> QED BY <2>1, <2>2, <2>3
<1> HIDE DEF u4
<1>r3. readString(u3) = read(s3, u4) /\ u3 \in Seq(Bytes)
  <2>1. s3 \in Seq(Bytes) /\ u4 \in Seq(Bytes)
    BY <1>2, <1>r4
  <2>2. readString(Text(s3) \o u4) = read(s3, u4)
    BY <1>3, <2>1, ReadAppended
  <2>3. Text(s3) \in Seq(Bytes)
    BY <2>1, TextType
  <2> QED BY <2>1, <2>2, <2>3
<1> HIDE DEF u3
<1>r2. readString(u2) = read(s2, u3) /\ u2 \in Seq(Bytes)
  <2>1. s2 \in Seq(Bytes) /\ u3 \in Seq(Bytes)
    BY <1>2, <1>r3
  <2>2. readString(Text(s2) \o u3) = read(s2, u3)
    BY <1>3, <2>1, ReadAppended
  <2>3. Text(s2) \in Seq(Bytes)
    BY <2>1, TextType
  <2> QED BY <2>1, <2>2, <2>3
<1> HIDE DEF u2
<1>r1. readString(u1) = read(s1, u2) /\ u1 \in Seq(Bytes)
  <2>1. s1 \in Seq(Bytes) /\ u2 \in Seq(Bytes)
    BY <1>2, <1>r2
  <2>2. readString(Text(s1) \o u2) = read(s1, u2)
    BY <1>3, <2>1, ReadAppended
  <2>3. Text(s1) \in Seq(Bytes)
    BY <2>1, TextType
  <2> QED BY <2>1, <2>2, <2>3
<1> HIDE DEF u1
<1>5. readStrings(u1) = [ok |-> TRUE, rest |-> << >>,
                         strings |-> <<s1, s2, s3, s4, s5>>]
  <2>1. /\ readString(u1).ok /\ readString(u1).string = s1 /\ readString(u1).rest = u2
        /\ readString(u2).ok /\ readString(u2).string = s2 /\ readString(u2).rest = u3
        /\ readString(u3).ok /\ readString(u3).string = s3 /\ readString(u3).rest = u4
        /\ readString(u4).ok /\ readString(u4).string = s4 /\ readString(u4).rest = u5
        /\ readString(u5).ok /\ readString(u5).string = s5
        /\ readString(u5).rest = << >>
    BY <1>r1, <1>r2, <1>r3, <1>r4, <1>r5
  <2> QED BY <2>1 DEF readStrings
<1> QED BY <1>1, <1>4, <1>5

(* And they accept nothing but such strings. *)
LEMMA AppendAllRead ==
    ASSUME NEW body \in Seq(Bytes),
           readStrings(body).ok, readStrings(body).rest = << >>
    PROVE  LET ss == readStrings(body).strings
           IN  ss \in Strings /\ body = Texts(ss)
<1> DEFINE r1 == readString(body)
           r2 == readString(r1.rest)
           r3 == readString(r2.rest)
           r4 == readString(r3.rest)
           r5 == readString(r4.rest)
           ss == <<r1.string, r2.string, r3.string, r4.string, r5.string>>
<1>1. /\ r1.ok /\ r2.ok /\ r3.ok /\ r4.ok /\ r5.ok
      /\ r5.rest = << >> /\ readStrings(body).strings = ss
  BY DEF readStrings
<1>r1. /\ r1.string \in Seq(Bytes) /\ r1.rest \in Seq(Bytes)
      /\ body = Text(r1.string) \o r1.rest
  BY <1>1, AppendRead
<1> HIDE DEF r1
<1>r2. /\ r2.string \in Seq(Bytes) /\ r2.rest \in Seq(Bytes)
      /\ r1.rest = Text(r2.string) \o r2.rest
  BY <1>1, <1>r1, AppendRead
<1> HIDE DEF r2
<1>r3. /\ r3.string \in Seq(Bytes) /\ r3.rest \in Seq(Bytes)
      /\ r2.rest = Text(r3.string) \o r3.rest
  BY <1>1, <1>r2, AppendRead
<1> HIDE DEF r3
<1>r4. /\ r4.string \in Seq(Bytes) /\ r4.rest \in Seq(Bytes)
      /\ r3.rest = Text(r4.string) \o r4.rest
  BY <1>1, <1>r3, AppendRead
<1> HIDE DEF r4
<1>r5. /\ r5.string \in Seq(Bytes) /\ r5.rest \in Seq(Bytes)
      /\ r4.rest = Text(r5.string) \o r5.rest
  BY <1>1, <1>r4, AppendRead
<1> HIDE DEF r5
<1>2. r4.rest = Text(r5.string)
  <2>1. Text(r5.string) \in Seq(Bytes)
    BY <1>r5, TextType
  <2> QED BY <1>1, <1>r5, <2>1
<1>3. ss \in Strings
  <2>1. /\ r1.string \in Seq(Bytes) /\ r2.string \in Seq(Bytes)
        /\ r3.string \in Seq(Bytes) /\ r4.string \in Seq(Bytes)
        /\ r5.string \in Seq(Bytes)
    BY <1>r1, <1>r2, <1>r3, <1>r4, <1>r5
  <2> QED BY <2>1 DEF Strings
<1>4. /\ ss[1] = r1.string /\ ss[2] = r2.string /\ ss[3] = r3.string
      /\ ss[4] = r4.string /\ ss[5] = r5.string
  OBVIOUS
<1> HIDE DEF ss
<1>5. body = Texts(ss)
  BY <1>r1, <1>r2, <1>r3, <1>r4, <1>2, <1>4 DEF Texts
<1> QED BY <1>1, <1>3, <1>5

-----------------------------------------------------------------------------
(* Frames *)

WellFormed(f) ==
    /\ f \in [type : 1..4, code : 0..4, dir : 0..2, strings : Strings]
    /\ f.type = TypeError <=> f.code # 0
    /\ f.type \notin {TypeOpen, TypeProbe} => f.dir = 0 /\ f.strings = NoStrings

HasStrings(f) == f.type \in {TypeOpen, TypeProbe}

(* WriteFrame's first check: OPEN and PROBE need a direction. *)
NoDirection(f) == HasStrings(f) /\ f.dir \notin Directions

(* What WriteFrame puts behind the length. *)
Body(f) ==
    CASE HasStrings(f) -> <<Version, f.type, f.dir>> \o Texts(f.strings)
      [] f.type = TypeError -> <<Version, f.type, f.code>>
      [] OTHER -> <<Version, f.type>>

(* The frames the program sends are of the kind the lemmas speak of. *)
LEMMA FramesAreWellFormed ==
    ASSUME NEW f \in Frames
    PROVE  WellFormed(f)
<1>1. DOMAIN StringFields = 1..5
  BY DEF StringFields
<1> QED BY <1>1, FramesAssumption DEF WellFormed, Strings

(* The small numbers of a body are bytes. *)
LEMMA SmallBytes == 0..4 \subseteq Bytes
BY WidthAssumption DEF Bytes

(* The three bytes before the strings. *)
LEMMA Prefix ==
    ASSUME NEW a \in 0..4, NEW b \in 0..4
    PROVE  /\ <<Version, a, b>> \in Seq(Bytes) /\ <<Version, a, b>> # << >>
           /\ Len(<<Version, a, b>>) = 3
           /\ <<Version, a>> \in Seq(Bytes) /\ Len(<<Version, a>>) = 2
BY SmallBytes DEF Version

(* WriteFrame: the body of a frame, and when it is refused. *)
LEMMA Encoded ==
    ASSUME NEW f, WellFormed(f)
    PROVE  /\ Body(f) \in Seq(Bytes) /\ Len(Body(f)) = BodyLen(f)
           /\ BodyLen(f) \in Nat /\ BodyLen(f) >= 2
           /\ NoDirection(f) => Encode(f) = Failed
           /\ ~NoDirection(f) =>
                Encode(f) = IF Len(Body(f)) > MaxFrameLen
                              THEN Failed ELSE PutUint16(Len(Body(f))) \o Body(f)
<1>1. /\ f.type \in 1..4 /\ f.code \in 0..4 /\ f.dir \in 0..2
      /\ f.strings \in Strings
  BY DEF WellFormed
<1>2. MaxFrameLen \in Nat /\ MaxFrameLen >= 13
  BY WidthAssumption
<1>3. CASE HasStrings(f)
  <2> DEFINE front == <<Version, f.type, f.dir>>
             ss == f.strings
             b == front \o Texts(ss)
  <2>1. front \in Seq(Bytes) /\ front # << >> /\ Len(front) = 3
    BY <1>1, Prefix
  <2>2. Body(f) = b /\ BodyLen(f) = 3 + StringsLen(ss)
    BY <1>3 DEF Body, BodyLen, HasStrings, TypeOpen, TypeProbe, TypeError
  <2>3. frameBody(f) = IF f.dir \in Directions
                         THEN appendStrings(front, ss) ELSE Failed
    BY <1>3 DEF frameBody, HasStrings, TypeOpen, TypeProbe, TypeError
  <2> HIDE DEF front
  <2>4. front \in Seq(Bytes) /\ front # << >> /\ ss \in Strings
    BY <1>1, <2>1
  <2>5. /\ b \in Seq(Bytes)
        /\ Len(b) = Len(front) + StringsLen(ss) /\ StringsLen(ss) \in Nat
        /\ Len(front) <= MaxFrameLen => appendStrings(front, ss) = UpToLimit(b)
    BY <2>4, AppendAll
  <2> HIDE DEF b
  <2>6. appendStrings(front, ss) = UpToLimit(b)
    BY <1>2, <2>1, <2>5
  <2>7. Len(b) = BodyLen(f)
    BY <2>1, <2>2, <2>5
  <2>8. BodyLen(f) \in Nat /\ BodyLen(f) >= 2
    BY <2>2, <2>5
  <2>9. NoDirection(f) => Encode(f) = Failed
    BY <2>3 DEF NoDirection, Encode
  <2>10. ASSUME ~NoDirection(f)
         PROVE  Encode(f) = IF Len(b) > MaxFrameLen
                              THEN Failed ELSE PutUint16(Len(b)) \o b
    <3>1. f.dir \in Directions
      BY <1>3, <2>10 DEF NoDirection
    <3>2. CASE Len(b) > MaxFrameLen
      BY <2>3, <2>6, <3>1, <3>2 DEF UpToLimit, Encode
    <3>3. CASE ~(Len(b) > MaxFrameLen)
      <4>1. b # Failed
        BY <2>7, <2>8 DEF Failed
      <4> QED BY <2>3, <2>6, <3>1, <3>3, <4>1 DEF UpToLimit, Encode
    <3> QED BY <3>2, <3>3
  <2> QED BY <2>2, <2>5, <2>7, <2>8, <2>9, <2>10
<1>4. CASE f.type = TypeError
  <2> DEFINE b == <<Version, f.type, f.code>>
  <2>1. Body(f) = b /\ BodyLen(f) = 3 /\ ~NoDirection(f)
    BY <1>4 DEF Body, BodyLen, HasStrings, NoDirection, TypeError, TypeOpen, TypeProbe
  <2>2. b \in Seq(Bytes) /\ b # << >> /\ Len(b) = 3
    BY <1>1, Prefix
  <2>3. frameBody(f) = b
    BY <1>4 DEF frameBody, TypeError, TypeOpen, TypeProbe
  <2> HIDE DEF b
  <2>4. b # Failed /\ ~(Len(b) > MaxFrameLen)
    BY <1>2, <2>2 DEF Failed
  <2>5. Encode(f) = PutUint16(Len(b)) \o b
    BY <2>3, <2>4 DEF Encode
  <2> QED BY <2>1, <2>2, <2>4, <2>5
<1>5. CASE ~HasStrings(f) /\ f.type # TypeError
  <2> DEFINE b == <<Version, f.type>>
  <2>1. Body(f) = b /\ BodyLen(f) = 2 /\ ~NoDirection(f)
    BY <1>5 DEF Body, BodyLen, HasStrings, NoDirection
  <2>2. b \in Seq(Bytes) /\ b # << >> /\ Len(b) = 2
    BY <1>1, Prefix
  <2>3. frameBody(f) = b
    BY <1>5 DEF frameBody, HasStrings
  <2> HIDE DEF b
  <2>4. b # Failed /\ ~(Len(b) > MaxFrameLen)
    BY <1>2, <2>2 DEF Failed
  <2>5. Encode(f) = PutUint16(Len(b)) \o b
    BY <2>3, <2>4 DEF Encode
  <2> QED BY <2>1, <2>2, <2>4, <2>5
<1> QED BY <1>3, <1>4, <1>5

(* ReadFrame makes of a body the frame that WriteFrame made it of. *)
LEMMA DecodesBack ==
    ASSUME NEW f, WellFormed(f), ~NoDirection(f), Len(Body(f)) <= MaxFrameLen
    PROVE  Decode(Body(f)) = f
<1>1. /\ f.type \in 1..4 /\ f.code \in 0..4 /\ f.dir \in 0..2
      /\ f.strings \in Strings
      /\ f = [type |-> f.type, code |-> f.code, dir |-> f.dir, strings |-> f.strings]
  BY DEF WellFormed
<1>2. CASE HasStrings(f)
  <2> DEFINE front == <<Version, f.type, f.dir>>
             ss == f.strings
             rest == Texts(ss)
             b == front \o rest
  <2>1. /\ front \in Seq(Bytes) /\ front # << >> /\ Len(front) = 3
        /\ front[1] = Version /\ front[2] = f.type /\ front[3] = f.dir
    BY <1>1, Prefix
  <2>2. Body(f) = b
    BY <1>2 DEF Body, HasStrings, TypeOpen, TypeProbe, TypeError
  <2> HIDE DEF front
  <2>3. front \in Seq(Bytes) /\ front # << >> /\ ss \in Strings
    BY <1>1, <2>1
  <2>4. /\ rest \in Seq(Bytes) /\ b \in Seq(Bytes)
        /\ Len(b) = Len(front) + StringsLen(ss) /\ StringsLen(ss) \in Nat
    BY <2>3, AppendAll
  <2> HIDE DEF rest
  <2>5. SubSeq(b, Len(front) + 1, Len(b)) = rest
    BY <2>3, <2>4, CutAtSeam
  <2>6. \A i \in 1..Len(front) : b[i] = front[i]
    BY <2>3, <2>4, Joined
  <2> HIDE DEF b
  <2>7. SubSeq(b, 4, Len(b)) = rest /\ Len(b) >= 3
    BY <2>1, <2>4, <2>5
  <2>8. b[1] = Version /\ b[2] = f.type /\ b[3] = f.dir
    <3>1. 1 \in 1..Len(front) /\ 2 \in 1..Len(front) /\ 3 \in 1..Len(front)
      BY <2>1
    <3> QED BY <2>1, <2>6, <3>1
  <2>9. readStrings(rest) = [ok |-> TRUE, rest |-> << >>, strings |-> ss]
    <3>1. \A i \in 1..5 : Len(ss[i]) < Words
      <4>1. MaxFrameLen \in Nat /\ MaxFrameLen < Words
        BY WidthAssumption DEF Words
      <4>2. StringsLen(ss) <= MaxFrameLen
        BY <2>1, <2>2, <2>4, <4>1
      <4>3. ASSUME NEW i \in 1..5
            PROVE  Len(ss[i]) < Words
        <5>1. Len(ss[i]) \in Nat /\ Len(ss[i]) <= StringsLen(ss)
          BY <2>3, PartOfAll
        <5>2. Words \in Int
          BY WidthAssumption DEF Words
        <5> QED BY <2>4, <4>1, <4>2, <5>1, <5>2
      <4> QED BY <4>3
    <3> QED BY <2>3, <3>1, ReadAllAppended DEF rest
  <2>10. f.type \in {TypeOpen, TypeProbe} /\ f.dir \in Directions
    BY <1>2 DEF HasStrings, NoDirection
  <2>11. Decode(b) = [NoFrame EXCEPT !.type = f.type, !.dir = f.dir, !.strings = ss]
    <3> DEFINE r == readStrings(SubSeq(b, 4, Len(b)))
    <3>1. r = [ok |-> TRUE, rest |-> << >>, strings |-> ss]
      BY <2>7, <2>9
    <3>2. Decode(b) =
            CASE /\ b[1] = Version /\ b[2] \in {TypeOpen, TypeProbe}
                 /\ Len(b) >= 3 /\ b[3] \in Directions
                 /\ r.ok /\ r.rest = << >> ->
                   [NoFrame EXCEPT !.type = b[2], !.dir = b[3], !.strings = r.strings]
              [] b[1] = Version /\ b[2] = TypeOK_ /\ Len(b) = 2 ->
                   [NoFrame EXCEPT !.type = b[2]]
              [] /\ b[1] = Version /\ b[2] = TypeError
                 /\ Len(b) = 3 /\ validErrorCode(b[3]) ->
                   [NoFrame EXCEPT !.type = b[2], !.code = b[3]]
              [] OTHER -> NoFrame
      BY DEF Decode
    <3> HIDE DEF r
    <3>3. r.ok /\ r.rest = << >> /\ r.strings = ss
      BY <3>1
    <3> QED BY <2>7, <2>8, <2>10, <3>2, <3>3 DEF TypeOpen, TypeProbe, TypeOK_, TypeError
  <2>12. f.code = 0
    BY <2>10 DEF WellFormed, TypeOpen, TypeProbe, TypeError
  <2> QED BY <1>1, <2>2, <2>11, <2>12 DEF NoFrame
<1>3. CASE f.type = TypeError
  <2> DEFINE b == <<Version, f.type, f.code>>
  <2>1. Body(f) = b
    BY <1>3 DEF Body, HasStrings, TypeError, TypeOpen, TypeProbe
  <2>2. Len(b) = 3 /\ b[1] = Version /\ b[2] = TypeError /\ b[3] = f.code
    BY <1>3
  <2>3. validErrorCode(f.code) /\ f.dir = 0 /\ f.strings = NoStrings
    BY <1>1, <1>3 DEF WellFormed, validErrorCode, TypeOpen, TypeProbe, TypeError
  <2> HIDE DEF b
  <2>4. Decode(b) = [NoFrame EXCEPT !.type = TypeError, !.code = f.code]
    BY <2>2, <2>3 DEF Decode, TypeOpen, TypeProbe, TypeOK_, TypeError
  <2> QED BY <1>1, <1>3, <2>1, <2>3, <2>4 DEF NoFrame
<1>4. CASE ~HasStrings(f) /\ f.type # TypeError
  <2> DEFINE b == <<Version, f.type>>
  <2>1. f.type = TypeOK_
    BY <1>1, <1>4 DEF HasStrings, TypeOpen, TypeProbe, TypeOK_, TypeError
  <2>2. Body(f) = b
    BY <1>4 DEF Body
  <2>3. Len(b) = 2 /\ b[1] = Version /\ b[2] = TypeOK_
    BY <2>1
  <2>4. f.code = 0 /\ f.dir = 0 /\ f.strings = NoStrings
    BY <1>4 DEF WellFormed, HasStrings
  <2> HIDE DEF b
  <2>5. Decode(b) = [NoFrame EXCEPT !.type = TypeOK_]
    BY <2>3 DEF Decode, TypeOpen, TypeProbe, TypeOK_, TypeError
  <2> QED BY <1>1, <2>1, <2>2, <2>4, <2>5 DEF NoFrame
<1> QED BY <1>2, <1>3, <1>4

(* And it accepts no body that WriteFrame would not have made. *)
LEMMA EncodesBack ==
    ASSUME NEW body \in Seq(Bytes), Len(body) >= 2, Len(body) <= MaxFrameLen,
           Decode(body) # NoFrame
    PROVE  /\ WellFormed(Decode(body))
           /\ Encode(Decode(body)) = PutUint16(Len(body)) \o body
<1> DEFINE type == body[2]
           r == readStrings(SubSeq(body, 4, Len(body)))
           withStrings == /\ body[1] = Version /\ type \in {TypeOpen, TypeProbe}
                          /\ Len(body) >= 3 /\ body[3] \in Directions
                          /\ r.ok /\ r.rest = << >>
           plain == body[1] = Version /\ type = TypeOK_ /\ Len(body) = 2
           withCode == /\ body[1] = Version /\ type = TypeError
                       /\ Len(body) = 3 /\ validErrorCode(body[3])
           f == Decode(body)
<1>1. f = CASE withStrings -> [NoFrame EXCEPT !.type = type, !.dir = body[3],
                                              !.strings = r.strings]
            [] plain -> [NoFrame EXCEPT !.type = type]
            [] withCode -> [NoFrame EXCEPT !.type = type, !.code = body[3]]
            [] OTHER -> NoFrame
  BY DEF Decode
<1>2. Len(body) \in Nat /\ MaxFrameLen \in Nat
  BY WidthAssumption
<1>3. NoStrings \in Strings
  <2>1. DOMAIN StringFields = 1..5
    BY DEF StringFields
  <2> QED BY <2>1 DEF NoStrings, Strings
<1> HIDE DEF r, f
<1>4. ASSUME NEW g, f = g, WellFormed(g), ~NoDirection(g), Body(g) = body
      PROVE  WellFormed(f) /\ Encode(f) = PutUint16(Len(body)) \o body
  <2>1. Encode(g) = IF Len(Body(g)) > MaxFrameLen
                      THEN Failed ELSE PutUint16(Len(Body(g))) \o Body(g)
    BY <1>4, Encoded
  <2>2. ~(Len(body) > MaxFrameLen)
    BY <1>2
  <2> QED BY <1>4, <2>1, <2>2
<1>5. CASE withStrings
  <2> DEFINE rest == SubSeq(body, 4, Len(body))
             front == <<Version, type, body[3]>>
             ss == r.strings
             g == [type |-> type, code |-> 0, dir |-> body[3], strings |-> ss]
  <2>1. f = g
    <3>1. ~plain /\ ~withCode
      BY <1>5 DEF TypeOpen, TypeProbe, TypeOK_, TypeError
    <3> HIDE DEF withStrings, plain, withCode
    <3>2. f = [NoFrame EXCEPT !.type = type, !.dir = body[3], !.strings = ss]
      BY <1>1, <1>5, <3>1
    <3> HIDE DEF ss
    <3> QED BY <3>2 DEF NoFrame
  <2>2. rest \in Seq(Bytes)
    BY <1>2, <1>5
  <2>3. ss \in Strings /\ rest = Texts(ss)
    BY <1>5, <2>2, AppendAllRead DEF r
  <2>4. body = front \o rest
    <3> DEFINE cut == SubSeq(body, 1, 3)
    <3>1. 3 \in 0..Len(body) /\ 3 + 1 = 4
      BY <1>2, <1>5
    <3>2. cut \in Seq(Bytes) /\ Len(cut) = 3 /\ cut \o rest = body
      BY <3>1, CutAndJoin
    <3>3. cut[1] = Version /\ cut[2] = type /\ cut[3] = body[3]
      BY <1>2, <1>5
    <3> HIDE DEF cut, rest
    <3>4. cut = front
      BY <3>2, <3>3
    <3> QED BY <3>2, <3>4
  <2> HIDE DEF rest, ss
  <2>5. type \in 1..4 /\ body[3] \in 0..2 /\ body[3] \in Directions
    BY <1>5 DEF TypeOpen, TypeProbe, Directions
  <2>6. WellFormed(g)
    BY <1>5, <2>3, <2>5 DEF WellFormed, TypeOpen, TypeProbe, TypeError
  <2>7. g.type = type /\ g.dir = body[3] /\ g.strings = ss
    OBVIOUS
  <2> HIDE DEF g
  <2>8. ~NoDirection(g) /\ HasStrings(g)
    BY <1>5, <2>5, <2>7 DEF NoDirection, HasStrings
  <2>9. Body(g) = front \o Texts(ss)
    BY <2>7, <2>8 DEF Body, HasStrings, TypeOpen, TypeProbe, TypeError
  <2>10. WellFormed(f) /\ Encode(f) = PutUint16(Len(body)) \o body
    BY <1>4, <2>1, <2>3, <2>4, <2>6, <2>8, <2>9
  <2> QED BY <2>10 DEF f
<1>6. CASE plain
  <2> DEFINE g == [type |-> type, code |-> 0, dir |-> 0, strings |-> NoStrings]
  <2>1. f = g
    <3>1. ~withStrings /\ ~withCode
      BY <1>6 DEF TypeOpen, TypeProbe, TypeOK_, TypeError
    <3> HIDE DEF withStrings, plain, withCode
    <3>2. f = [NoFrame EXCEPT !.type = type]
      BY <1>1, <1>6, <3>1
    <3> QED BY <3>2 DEF NoFrame
  <2>2. body = <<Version, type>>
    BY <1>2, <1>6
  <2>3. WellFormed(g)
    BY <1>3, <1>6 DEF WellFormed, TypeOK_, TypeOpen, TypeProbe, TypeError
  <2>4. ~NoDirection(g) /\ ~HasStrings(g) /\ g.type = type /\ type # TypeError
    BY <1>6 DEF NoDirection, HasStrings, TypeOK_, TypeOpen, TypeProbe, TypeError
  <2> HIDE DEF g
  <2>5. Body(g) = <<Version, type>>
    BY <2>4 DEF Body
  <2>6. WellFormed(f) /\ Encode(f) = PutUint16(Len(body)) \o body
    BY <1>4, <2>1, <2>2, <2>3, <2>4, <2>5
  <2> QED BY <2>6 DEF f
<1>7. CASE withCode
  <2> DEFINE g == [type |-> type, code |-> body[3], dir |-> 0, strings |-> NoStrings]
  <2>1. f = g
    <3>1. ~withStrings /\ ~plain
      BY <1>7 DEF TypeOpen, TypeProbe, TypeOK_, TypeError
    <3> HIDE DEF withStrings, plain, withCode
    <3>2. f = [NoFrame EXCEPT !.type = type, !.code = body[3]]
      BY <1>1, <1>7, <3>1
    <3> QED BY <3>2 DEF NoFrame
  <2>2. body = <<Version, type, body[3]>>
    BY <1>2, <1>7
  <2>3. body[3] \in 1..4
    BY <1>7 DEF validErrorCode
  <2>4. WellFormed(g)
    BY <1>3, <1>7, <2>3 DEF WellFormed, TypeOpen, TypeProbe, TypeError
  <2>5. /\ ~NoDirection(g) /\ ~HasStrings(g) /\ g.type = TypeError
        /\ g.type = type /\ g.code = body[3]
    BY <1>7 DEF NoDirection, HasStrings, TypeOpen, TypeProbe, TypeError
  <2> HIDE DEF g
  <2>6. Body(g) = <<Version, type, body[3]>>
    BY <2>5 DEF Body
  <2>7. WellFormed(f) /\ Encode(f) = PutUint16(Len(body)) \o body
    BY <1>4, <2>1, <2>2, <2>4, <2>5, <2>6
  <2> QED BY <2>7 DEF f
<1>8. withStrings \/ plain \/ withCode
  BY <1>1 DEF f
<1> QED BY <1>5, <1>6, <1>7, <1>8

-----------------------------------------------------------------------------
(* The two ends of a stream *)

StreamTypes ==
    /\ given = NoFrame \/ given \in Frames
    /\ writer \in {"idle", "frame", "payload", "raw", "ended"}
    /\ reader \in {"header", "body", "done", "failed"}
    /\ out \in Seq(Bytes) /\ wire \in Seq(Bytes) /\ taken \in Seq(Bytes)
    /\ need \in 2..MaxFrameLen

(* How far ReadFrame is, whether the frame is sound or not. *)
Reading ==
    /\ writer = "idle" => given = NoFrame /\ wire = << >> /\ reader = "header"
    /\ reader = "header" => taken = << >> /\ need = 2
    /\ reader = "body" => Len(taken) = 2 /\ need = Uint16(taken)
    /\ reader = "done" => WellFormed(got) /\ Encode(got) = taken
    /\ reader # "done" => got = NoFrame

(* Everything written, read or not, and what is left to write. *)
Stream == taken \o (wire \o out)

(* The writer is in the frame, or behind it. *)
InFrame == Stream = Encode(given) /\ out # << >>
InPayload == Stream = Encode(given) \o Payload

(* A frame that WriteFrame refuses leaves no byte. *)
Refused ==
    /\ writer = "ended" /\ reader \in {"header", "failed"}
    /\ out = << >> /\ wire = << >> /\ taken = << >>

(* A frame that it writes. *)
Sending ==
    /\ \/ writer = "frame" /\ InFrame
       \/ writer = "payload" /\ InPayload
       \/ writer = "ended" /\ (InFrame \/ InPayload)
    /\ reader = "done" =>
         /\ writer # "frame"
         /\ got = given /\ taken = Encode(given) /\ wire \o out = Payload
    /\ reader = "failed" =>
         writer = "ended" /\ Len(taken) + Len(wire) < Len(Encode(given))

FrameInv ==
    /\ StreamTypes
    /\ Reading
    /\ given # NoFrame =>
         IF Encode(given) = Failed THEN Refused ELSE Sending

-----------------------------------------------------------------------------
(* The bytes of a frame that WriteFrame writes *)

(* Two ways to make up a sequence that are cut at the same place. *)
LEMMA SameHalves ==
    ASSUME NEW S, NEW a \in Seq(S), NEW b \in Seq(S), NEW c \in Seq(S),
           NEW d \in Seq(S), a \o b = c \o d, Len(a) = Len(c)
    PROVE  a = c /\ b = d
<1>1. /\ SubSeq(a \o b, 1, Len(a)) = a
      /\ SubSeq(a \o b, Len(a) + 1, Len(a \o b)) = b
  BY CutAtSeam
<1>2. /\ SubSeq(c \o d, 1, Len(c)) = c
      /\ SubSeq(c \o d, Len(c) + 1, Len(c \o d)) = d
  BY CutAtSeam
<1> QED BY <1>1, <1>2

(* The length in front is that of the body, and the body means the frame. *)
LEMMA Written ==
    ASSUME NEW f, WellFormed(f), Encode(f) # Failed
    PROVE  /\ Encode(f) \in Seq(Bytes) /\ Body(f) \in Seq(Bytes)
           /\ Len(Body(f)) \in 2..MaxFrameLen
           /\ Len(Encode(f)) = 2 + Len(Body(f))
           /\ Encode(f) = PutUint16(Len(Body(f))) \o Body(f)
           /\ PutUint16(Len(Body(f))) \in Seq(Bytes)
           /\ Len(PutUint16(Len(Body(f)))) = 2
           /\ Uint16(PutUint16(Len(Body(f)))) = Len(Body(f))
           /\ Uint16(Encode(f)) = Len(Body(f))
           /\ Decode(Body(f)) = f
<1> DEFINE b == Body(f)
           h == PutUint16(Len(b))
<1>1. MaxFrameLen \in Nat /\ MaxFrameLen < Words /\ Words \in Int
  BY WidthAssumption DEF Words
<1>2. b \in Seq(Bytes) /\ Len(b) \in Nat /\ Len(b) >= 2
  BY Encoded
<1>3. ~NoDirection(f) /\ ~(Len(b) > MaxFrameLen) /\ Encode(f) = h \o b
  BY Encoded
<1>4. Decode(b) = f
  BY <1>1, <1>2, <1>3, DecodesBack
<1> HIDE DEF b
<1>5. Len(b) \in 2..MaxFrameLen /\ Len(b) < Words
  BY <1>1, <1>2, <1>3
<1>6. h \in Seq(Bytes) /\ Len(h) = 2 /\ Uint16(h) = Len(b)
  BY <1>2, <1>5, ReadsBack
<1> HIDE DEF h
<1>7. h \in Seq(Bytes) /\ b \in Seq(Bytes)
  BY <1>2, <1>6
<1>8. /\ h \o b \in Seq(Bytes) /\ Len(h \o b) = Len(h) + Len(b)
      /\ \A i \in 1..Len(h) : (h \o b)[i] = h[i]
  BY <1>7, Joined
<1>9. (h \o b)[1] = h[1] /\ (h \o b)[2] = h[2]
  BY <1>6, <1>8
<1>10. Uint16(h \o b) = Uint16(h)
  BY <1>9 DEF Uint16
<1>11. Len(h \o b) = 2 + Len(b)
  BY <1>6, <1>8
<1> QED BY <1>2, <1>3, <1>4, <1>5, <1>6, <1>8, <1>10, <1>11 DEF b, h

(* A frame of the program is not Go's empty Frame. *)
LEMMA NotNoFrame ==
    ASSUME NEW f, WellFormed(f)
    PROVE  f # NoFrame
<1>1. f.type \in 1..4
  BY DEF WellFormed
<1>2. NoFrame.type = 0
  BY DEF NoFrame
<1> QED BY <1>1, <1>2

-----------------------------------------------------------------------------
(* Every step keeps the invariant *)

(* A stream begins empty, with ReadFrame waiting for a length. *)
LEMMA FrameInit == Init => FrameInv
<1> SUFFICES ASSUME Init PROVE FrameInv
  OBVIOUS
<1>1. StreamTypes
  BY WidthAssumption DEF Init, StreamTypes
<1>2. Reading
  BY DEF Init, Reading
<1> QED BY <1>1, <1>2 DEF Init, FrameInv

(* WriteFrame is called on a fresh stream. *)
LEMMA WriteFrameStep ==
    ASSUME FrameInv, writer = "idle", NEW f \in Frames, WriteFrame(f)
    PROVE  FrameInv'
<1>1. StreamTypes /\ Reading
  BY DEF FrameInv
<1>2. /\ wire = << >> /\ reader = "header" /\ taken = << >> /\ need = 2
      /\ got = NoFrame
  BY <1>1 DEF Reading
<1>3. /\ given' = f /\ out' = Encode(f)
      /\ writer' = IF Encode(f) = Failed THEN "ended" ELSE "frame"
      /\ wire' = << >> /\ reader' = "header" /\ taken' = << >> /\ need' = 2
      /\ got' = NoFrame
  BY <1>2 DEF WriteFrame, readerVars
<1>4. Encode(f) \in Seq(Bytes)
  <2>1. CASE Encode(f) = Failed
    BY <2>1 DEF Failed
  <2>2. CASE Encode(f) # Failed
    BY <2>2, FramesAreWellFormed, Written
  <2> QED BY <2>1, <2>2
<1>5. StreamTypes'
  BY <1>3, <1>4, WidthAssumption DEF StreamTypes
<1>6. Reading'
  BY <1>3 DEF Reading
<1>7. CASE Encode(f) = Failed
  <2>1. Refused'
    BY <1>3, <1>7 DEF Refused, Failed
  <2> QED BY <1>3, <1>5, <1>6, <1>7, <2>1 DEF FrameInv
<1>8. CASE Encode(f) # Failed
  <2> DEFINE e == Encode(f)
  <2>1. e \in Seq(Bytes) /\ e # << >>
    BY <1>4, <1>8 DEF Failed
  <2>2. << >> \o (<< >> \o e) = e
    <3> HIDE DEF e
    <3> QED BY <2>1
  <2>3. InFrame'
    BY <1>3, <2>1, <2>2 DEF InFrame, Stream
  <2>4. Sending'
    BY <1>3, <1>8, <2>3 DEF Sending
  <2> QED BY <1>3, <1>5, <1>6, <1>8, <2>4 DEF FrameInv
<1> QED BY <1>7, <1>8

(* A peer that does not speak the protocol leaves bytes all the same. *)
LEMMA WriteOtherStep ==
    ASSUME FrameInv, writer = "idle", NEW f \in Frames,
           NEW i \in 1..(MaxFrameLen + 2), NEW b \in Bytes, WriteOther(f, i, b)
    PROVE  FrameInv'
<1>1. StreamTypes /\ Reading
  BY DEF FrameInv
<1>2. /\ given = NoFrame /\ reader = "header" /\ taken = << >> /\ need = 2
      /\ got = NoFrame
  BY <1>1 DEF Reading
<1> DEFINE e == Encode(f)
<1>3. /\ i \in DOMAIN e /\ wire' = [e EXCEPT ![i] = b] /\ writer' = "raw"
      /\ given' = NoFrame /\ reader' = "header" /\ taken' = << >> /\ need' = 2
      /\ got' = NoFrame /\ out' = out
  BY <1>2 DEF WriteOther, readerVars
<1>4. e \in Seq(Bytes)
  <2>1. e # Failed
    BY <1>3 DEF Failed
  <2> QED BY <2>1, FramesAreWellFormed, Written
<1> HIDE DEF e
<1>5. wire' \in Seq(Bytes)
  BY <1>3, <1>4
<1>6. StreamTypes'
  BY <1>1, <1>3, <1>5, WidthAssumption DEF StreamTypes
<1>7. Reading'
  BY <1>3 DEF Reading
<1> QED BY <1>3, <1>6, <1>7 DEF FrameInv

(* A piece of the frame or of the payload is written. *)
LEMMA writeFullStep ==
    ASSUME FrameInv, NEW n \in 1..(MaxFrameLen + 2), writeFull(n)
    PROVE  FrameInv'
<1>1. StreamTypes /\ Reading
  BY DEF FrameInv
<1> DEFINE piece == SubSeq(out, 1, n)
           left == SubSeq(out, n + 1, Len(out))
<1>2. /\ writer \in {"frame", "payload"} /\ n \in 1..Len(out)
      /\ wire' = wire \o piece
      /\ IF n = Len(out) /\ writer = "frame"
           THEN writer' = "payload" /\ out' = Payload
           ELSE writer' = writer /\ out' = left
      /\ given' = given /\ reader' = reader /\ need' = need
      /\ taken' = taken /\ got' = got
  BY DEF writeFull, readerVars
<1>3. /\ out \in Seq(Bytes) /\ wire \in Seq(Bytes) /\ taken \in Seq(Bytes)
      /\ Payload \in Seq(Bytes)
  BY <1>1, FramesAssumption DEF StreamTypes
<1>4. /\ piece \in Seq(Bytes) /\ left \in Seq(Bytes) /\ piece \o left = out
      /\ Len(left) = Len(out) - n
  <2>1. n \in 0..Len(out)
    BY <1>2
  <2> QED BY <1>3, <2>1, CutAndJoin
<1>5. n = Len(out) => piece = out
  BY <1>3
<1> HIDE DEF piece, left
<1>6. wire' \in Seq(Bytes) /\ out' \in Seq(Bytes)
  <2>1. wire \in Seq(Bytes) /\ piece \in Seq(Bytes)
    BY <1>3, <1>4
  <2>2. wire \o piece \in Seq(Bytes)
    BY <2>1, Joined
  <2> QED BY <1>2, <1>3, <1>4, <2>2
<1>7. StreamTypes'
  BY <1>1, <1>2, <1>6 DEF StreamTypes
<1>8. Reading'
  BY <1>1, <1>2 DEF Reading
<1>9. ASSUME given # NoFrame
      PROVE  Encode(given) # Failed /\ Sending'
  <2>1. Encode(given) # Failed /\ Sending
    BY <1>2, <1>9 DEF FrameInv, Refused
  <2>2. writer = "frame" => InFrame
    BY <2>1 DEF Sending
  <2>3. writer = "payload" => InPayload
    BY <2>1 DEF Sending
  <2>4. reader # "failed"
    BY <1>2, <2>1 DEF Sending
  <2>5. (wire \o piece) \o left = wire \o out
    <3>1. wire \in Seq(Bytes) /\ piece \in Seq(Bytes) /\ left \in Seq(Bytes)
      BY <1>3, <1>4
    <3>2. (wire \o piece) \o left = wire \o (piece \o left)
      BY <3>1, Regroup, Zenon
    <3> QED BY <1>4, <3>2
  <2>6. CASE n = Len(out) /\ writer = "frame"
    <3>1. wire' = wire \o out /\ out' = Payload /\ writer' = "payload"
      BY <1>2, <1>5, <2>6
    <3>2. Stream = Encode(given)
      BY <2>2, <2>6 DEF InFrame
    <3>3. taken \o ((wire \o out) \o Payload) = (taken \o (wire \o out)) \o Payload
      <4> DEFINE wo == wire \o out
      <4>1. wo \in Seq(Bytes)
        BY <1>3, Joined
      <4> HIDE DEF wo
      <4>2. (taken \o wo) \o Payload = taken \o (wo \o Payload)
        <5>1. taken \in Seq(Bytes) /\ wo \in Seq(Bytes) /\ Payload \in Seq(Bytes)
          BY <1>3, <4>1
        <5> QED BY <5>1, Regroup, Zenon
      <4> QED BY <4>2 DEF wo
    <3>4. InPayload'
      BY <1>2, <3>1, <3>2, <3>3 DEF InPayload, Stream
    <3>5. reader' # "done" /\ reader' # "failed"
      BY <1>2, <2>1, <2>4, <2>6 DEF Sending
    <3> QED BY <2>1, <3>1, <3>4, <3>5 DEF Sending
  <2>7. CASE ~(n = Len(out) /\ writer = "frame")
    <3>1. writer' = writer /\ out' = left
      BY <1>2, <2>7
    <3>2. wire' \o out' = wire \o out
      BY <1>2, <2>5, <3>1
    <3>3. Stream' = Stream
      BY <1>2, <3>2 DEF Stream
    <3>4. writer = "frame" => InFrame'
      <4> SUFFICES ASSUME writer = "frame" PROVE InFrame'
        OBVIOUS
      <4>1. left # << >>
        <5>1. Len(out) \in Nat /\ n \in 1..Len(out) /\ n # Len(out)
          BY <1>2, <1>3, <2>7
        <5>2. Len(left) # 0
          BY <1>4, <5>1
        <5> QED BY <5>2
      <4> QED BY <1>2, <2>2, <3>1, <3>3, <4>1 DEF InFrame
    <3>5. writer = "payload" => InPayload'
      BY <1>2, <2>3, <3>3 DEF InPayload
    <3>6. reader' = "done" =>
            /\ writer' # "frame"
            /\ got' = given' /\ taken' = Encode(given') /\ wire' \o out' = Payload
      BY <1>2, <2>1, <3>1, <3>2 DEF Sending
    <3> QED BY <1>2, <2>1, <2>4, <3>1, <3>4, <3>5, <3>6 DEF Sending
  <2> QED BY <2>6, <2>7
<1> QED BY <1>2, <1>7, <1>8, <1>9 DEF FrameInv

(* The stream ends, wherever the writer is. *)
LEMMA EndStreamStep ==
    ASSUME FrameInv, EndStream
    PROVE  FrameInv'
<1>1. StreamTypes /\ Reading
  BY DEF FrameInv
<1>2. /\ writer # "ended" /\ writer' = "ended" /\ given' = given /\ out' = out
      /\ wire' = wire /\ reader' = reader /\ need' = need /\ taken' = taken
      /\ got' = got
  BY DEF EndStream, readerVars
<1>3. StreamTypes'
  BY <1>1, <1>2 DEF StreamTypes
<1>4. Reading'
  BY <1>1, <1>2 DEF Reading
<1>5. ASSUME given # NoFrame
      PROVE  Encode(given) # Failed /\ Sending'
  <2>1. Encode(given) # Failed /\ Sending
    BY <1>2, <1>5 DEF FrameInv, Refused
  <2>2. InFrame' = InFrame /\ InPayload' = InPayload
    BY <1>2 DEF InFrame, InPayload, Stream
  <2> QED BY <1>2, <2>1, <2>2 DEF Sending
<1> QED BY <1>2, <1>3, <1>4, <1>5 DEF FrameInv

(* What has been written begins with the frame, whose length is known.     *)
LEMMA BeginsWithFrame ==
    ASSUME StreamTypes, given # NoFrame, Encode(given) # Failed, Sending
    PROVE  \E tail \in Seq(Bytes) : Stream = Encode(given) \o tail
<1>1. Encode(given) \in Seq(Bytes)
  BY FramesAreWellFormed, Written DEF StreamTypes
<1>2. Payload \in Seq(Bytes) /\ << >> \in Seq(Bytes)
  BY FramesAssumption
<1>3. InFrame \/ InPayload
  BY DEF Sending
<1>4. CASE InFrame
  <2> DEFINE e == Encode(given)
  <2>1. e = e \o << >>
    <3> HIDE DEF e
    <3> QED BY <1>1 DEF e
  <2> QED BY <1>2, <1>4, <2>1 DEF InFrame
<1>5. CASE InPayload
  BY <1>2, <1>5 DEF InPayload
<1> QED BY <1>3, <1>4, <1>5

(* Its first two bytes are the length of its body, and the body follows. *)
LEMMA LengthThenBody ==
    ASSUME StreamTypes, given # NoFrame, Encode(given) # Failed, Sending
    PROVE  \A hd, more \in Seq(Bytes) :
             Len(hd) = 2 /\ Stream = hd \o more =>
               /\ hd = PutUint16(Len(Body(given)))
               /\ Uint16(hd) = Len(Body(given))
               /\ \E tail \in Seq(Bytes) : more = Body(given) \o tail
<1> DEFINE b == Body(given)
           h == PutUint16(Len(b))
<1>1. /\ b \in Seq(Bytes) /\ h \in Seq(Bytes) /\ Len(h) = 2
      /\ Uint16(h) = Len(b) /\ Encode(given) = h \o b
  BY FramesAreWellFormed, Written DEF StreamTypes
<1>2. PICK tail \in Seq(Bytes) : Stream = Encode(given) \o tail
  BY BeginsWithFrame
<1> DEFINE bt == b \o tail
<1> HIDE DEF b, h
<1>3. h \in Seq(Bytes) /\ b \in Seq(Bytes) /\ tail \in Seq(Bytes)
  BY <1>1, <1>2
<1>4. (h \o b) \o tail = h \o bt
  BY <1>3, Regroup, Zenon
<1>5. bt \in Seq(Bytes)
  BY <1>3, Joined
<1> HIDE DEF bt
<1>6. Stream = h \o bt
  BY <1>1, <1>2, <1>4
<1>7. ASSUME NEW hd \in Seq(Bytes), NEW more \in Seq(Bytes),
             Len(hd) = 2, Stream = hd \o more
      PROVE  hd = h /\ more = bt
  BY <1>1, <1>3, <1>5, <1>6, <1>7, SameHalves
<1>8. \E t \in Seq(Bytes) : bt = b \o t
  BY <1>3 DEF bt
<1> QED BY <1>1, <1>7, <1>8 DEF b, h

(* ReadFrame has the length: of a frame that WriteFrame wrote, a good one. *)
LEMMA ReadHeaderStep ==
    ASSUME FrameInv, ReadHeader
    PROVE  FrameInv'
<1> DEFINE hd == SubSeq(wire, 1, 2)
           left == SubSeq(wire, 3, Len(wire))
           n == Uint16(wire)
<1>1. StreamTypes /\ Reading
  BY DEF FrameInv
<1>2. /\ reader = "header" /\ Len(wire) >= 2 /\ taken' = hd /\ wire' = left
      /\ IF n > MaxFrameLen \/ n < 2
           THEN reader' = "failed" /\ need' = need
           ELSE reader' = "body" /\ need' = n
      /\ given' = given /\ writer' = writer /\ out' = out /\ got' = got
  BY DEF ReadHeader
<1>3. /\ wire \in Seq(Bytes) /\ out \in Seq(Bytes) /\ taken = << >>
      /\ got = NoFrame /\ Len(wire) \in Nat /\ MaxFrameLen \in Nat
  BY <1>1, <1>2, WidthAssumption DEF StreamTypes, Reading
<1>4. /\ hd \in Seq(Bytes) /\ Len(hd) = 2 /\ left \in Seq(Bytes)
      /\ hd \o left = wire
  <2>1. 2 \in 0..Len(wire) /\ 2 + 1 = 3
    BY <1>2, <1>3
  <2> QED BY <1>3, <2>1, CutAndJoin
<1>5. n = Uint16(hd) /\ n \in Nat
  <2>1. hd[1] = wire[1] /\ hd[2] = wire[2] /\ wire[1] \in Bytes /\ wire[2] \in Bytes
    BY <1>2, <1>3
  <2> QED BY <2>1, WritesBack DEF Uint16
<1> HIDE DEF hd, left, n
<1>6. StreamTypes'
  <2>1. need' \in 2..MaxFrameLen /\ reader' \in {"failed", "body"}
    BY <1>1, <1>2, <1>3, <1>5 DEF StreamTypes
  <2> QED BY <1>1, <1>2, <1>4, <2>1 DEF StreamTypes
<1>7. Reading'
  <2>1. writer # "idle"
    BY <1>1, <1>2, <1>3 DEF Reading
  <2> QED BY <1>2, <1>3, <1>4, <1>5, <2>1 DEF Reading
<1>8. ASSUME given # NoFrame
      PROVE  Encode(given) # Failed /\ Sending'
  <2>1. Encode(given) # Failed /\ Sending
    BY <1>2, <1>3, <1>8 DEF FrameInv, Refused
  <2>2. Stream = hd \o (left \o out) /\ left \o out \in Seq(Bytes)
    <3>1. hd \in Seq(Bytes) /\ left \in Seq(Bytes) /\ out \in Seq(Bytes)
      BY <1>3, <1>4
    <3>2. /\ (hd \o left) \o out = hd \o (left \o out)
          /\ left \o out \in Seq(Bytes)
      BY <3>1, Reassociate, Joined
    <3>3. wire \o out \in Seq(Bytes)
      BY <1>3, Joined
    <3>4. Stream = wire \o out
      BY <1>3, <3>3 DEF Stream
    <3> QED BY <1>4, <3>2, <3>4
  <2>3. Stream' = Stream
    BY <1>2, <2>2 DEF Stream
  <2>4. InFrame' = InFrame /\ InPayload' = InPayload
    BY <1>2, <2>3 DEF InFrame, InPayload
  <2>5. n = Len(Body(given))
    BY <1>1, <1>4, <1>5, <1>8, <2>1, <2>2, LengthThenBody
  <2>6. Len(Body(given)) \in 2..MaxFrameLen
    BY <1>1, <1>8, <2>1, FramesAreWellFormed, Written DEF StreamTypes
  <2>7. reader' = "body"
    BY <1>2, <1>3, <2>5, <2>6
  <2> QED BY <1>2, <2>1, <2>4, <2>7 DEF Sending
<1> QED BY <1>2, <1>6, <1>7, <1>8 DEF FrameInv

(* ReadFrame has the body: of such a frame, the frame and nothing more. *)
LEMMA ReadBodyStep ==
    ASSUME FrameInv, ReadBody
    PROVE  FrameInv'
<1> DEFINE x == SubSeq(wire, 1, need)
           y == SubSeq(wire, need + 1, Len(wire))
<1>1. StreamTypes /\ Reading
  BY DEF FrameInv
<1>2. /\ reader = "body" /\ Len(wire) >= need
      /\ taken' = taken \o x /\ wire' = y /\ got' = Decode(x)
      /\ reader' = IF Decode(x) = NoFrame THEN "failed" ELSE "done"
      /\ given' = given /\ writer' = writer /\ out' = out /\ need' = need
  BY DEF ReadBody
<1>3. /\ wire \in Seq(Bytes) /\ out \in Seq(Bytes) /\ taken \in Seq(Bytes)
      /\ need \in 2..MaxFrameLen /\ MaxFrameLen \in Nat /\ Len(wire) \in Nat
  BY <1>1, WidthAssumption DEF StreamTypes
<1>4. Len(taken) = 2 /\ need = Uint16(taken)
  BY <1>1, <1>2 DEF Reading
<1>5. /\ x \in Seq(Bytes) /\ Len(x) = need /\ y \in Seq(Bytes)
      /\ x \o y = wire
  <2>1. need \in 0..Len(wire)
    BY <1>2, <1>3
  <2> QED BY <1>3, <2>1, CutAndJoin
<1> HIDE DEF x, y
<1>6. taken \in Seq(Bytes) /\ x \in Seq(Bytes) /\ y \in Seq(Bytes)
      /\ out \in Seq(Bytes)
  BY <1>3, <1>5
<1>7. taken \o x \in Seq(Bytes) /\ y \o out \in Seq(Bytes)
  BY <1>6, Joined
<1>8. StreamTypes'
  BY <1>1, <1>2, <1>6, <1>7 DEF StreamTypes
<1>9. Reading'
  <2>1. writer # "idle"
    BY <1>1, <1>2 DEF Reading
  <2>2. PutUint16(need) = taken
    <3>0. taken \in Seq(Bytes) /\ Len(taken) = 2
      BY <1>3, <1>4
    <3>1. taken[1] \in Bytes /\ taken[2] \in Bytes
      BY <3>0
    <3>2. PutUint16(taken[1] * Base + taken[2]) = <<taken[1], taken[2]>>
      BY <3>1, WritesBack
    <3>3. taken = <<taken[1], taken[2]>>
      BY <3>0
    <3> QED BY <1>4, <3>2, <3>3 DEF Uint16
  <2>3. reader' = "done" => WellFormed(got') /\ Encode(got') = taken'
    <3> SUFFICES ASSUME Decode(x) # NoFrame
                 PROVE  WellFormed(Decode(x)) /\ Encode(Decode(x)) = taken \o x
      BY <1>2
    <3>1. Len(x) >= 2 /\ Len(x) <= MaxFrameLen
      BY <1>3, <1>5
    <3>2. WellFormed(Decode(x)) /\ Encode(Decode(x)) = PutUint16(Len(x)) \o x
      BY <1>6, <3>1, EncodesBack
    <3> QED BY <1>5, <2>2, <3>2
  <2>4. reader' # "done" => got' = NoFrame
    BY <1>2
  <2>5. reader' \in {"failed", "done"}
    BY <1>2
  <2> QED BY <1>2, <2>1, <2>3, <2>4, <2>5 DEF Reading
<1>10. ASSUME given # NoFrame
       PROVE  Encode(given) # Failed /\ Sending'
  <2> DEFINE e == Encode(given)
             b == Body(given)
  <2>1. e # Failed /\ Sending
    BY <1>2, <1>10 DEF FrameInv, Refused
  <2>2. /\ e \in Seq(Bytes) /\ b \in Seq(Bytes) /\ Decode(b) = given
        /\ e = PutUint16(Len(b)) \o b
    BY <1>1, <1>10, <2>1, FramesAreWellFormed, Written DEF StreamTypes
  <2>3. wire \o out = x \o (y \o out) /\ wire \o out \in Seq(Bytes)
    <3>1. (x \o y) \o out = x \o (y \o out)
      BY <1>6, Reassociate
    <3>2. wire \o out \in Seq(Bytes)
      BY <1>3, Joined
    <3> QED BY <1>5, <3>1, <3>2
  <2>4. /\ taken = PutUint16(Len(b)) /\ Uint16(taken) = Len(b)
        /\ \E tail \in Seq(Bytes) : wire \o out = b \o tail
    <3> DEFINE more == wire \o out
    <3>1. taken \in Seq(Bytes) /\ more \in Seq(Bytes) /\ Stream = taken \o more
      BY <1>6, <2>3 DEF Stream
    <3> HIDE DEF more
    <3>2. /\ taken = PutUint16(Len(b)) /\ Uint16(taken) = Len(b)
          /\ \E tail \in Seq(Bytes) : more = b \o tail
      BY <1>1, <1>4, <1>10, <2>1, <3>1, LengthThenBody
    <3> QED BY <3>2 DEF more
  <2> HIDE DEF e, b
  <2>5. x = b
    <3>1. PICK tail \in Seq(Bytes) : wire \o out = b \o tail
      BY <2>4
    <3> DEFINE yo == y \o out
    <3>2. x \in Seq(Bytes) /\ yo \in Seq(Bytes) /\ b \in Seq(Bytes)
          /\ x \o yo = b \o tail
      BY <1>6, <1>7, <2>2, <2>3, <3>1
    <3>3. Len(x) = Len(b)
      BY <1>4, <1>5, <2>4
    <3> HIDE DEF yo
    <3> QED BY <3>2, <3>3, SameHalves
  <2>6. reader' = "done" /\ got' = given
    BY <1>2, <1>10, <2>2, <2>5
  <2>7. taken' = e
    BY <1>2, <2>2, <2>4, <2>5
  <2>8. Stream = e \o (y \o out)
    <3> DEFINE yo == y \o out
    <3>1. taken \in Seq(Bytes) /\ x \in Seq(Bytes) /\ yo \in Seq(Bytes)
      BY <1>6, <1>7
    <3> HIDE DEF yo
    <3>2. (taken \o x) \o yo = taken \o (x \o yo)
      BY <3>1, Reassociate
    <3> QED BY <1>2, <2>3, <2>7, <3>2 DEF yo, Stream
  <2>9. Stream' = Stream
    BY <1>2, <2>7, <2>8 DEF Stream
  <2>10. ~InFrame
    <3> SUFFICES ASSUME InFrame PROVE FALSE
      OBVIOUS
    <3> DEFINE yo == y \o out
    <3>1. e = e \o yo /\ out # << >>
      BY <2>8 DEF InFrame, e
    <3>2. Len(yo) = Len(y) + Len(out)
      BY <1>6, Joined
    <3>3. yo \in Seq(Bytes) /\ e \in Seq(Bytes)
      BY <1>7, <2>2
    <3> HIDE DEF yo
    <3>4. Len(e \o yo) = Len(e) + Len(yo)
      BY <3>3, Joined
    <3>5. Len(e) \in Nat /\ Len(y) \in Nat /\ Len(out) \in Nat
      BY <1>6, <3>3
    <3>6. Len(e) = Len(e) + Len(yo)
      BY <3>1, <3>4
    <3>7. Len(out) = 0
      BY <3>2, <3>5, <3>6
    <3> QED BY <1>6, <3>1, <3>7
  <2>11. InPayload
    BY <2>1, <2>10 DEF Sending
  <2>12. InPayload'
    BY <1>2, <2>9, <2>11 DEF InPayload
  <2>13. y \o out = Payload
    <3> DEFINE yo == y \o out
    <3>1. e \in Seq(Bytes) /\ yo \in Seq(Bytes) /\ Payload \in Seq(Bytes)
          /\ e \o yo = e \o Payload
      BY <1>7, <2>2, <2>8, <2>11, FramesAssumption DEF InPayload, e
    <3> HIDE DEF yo
    <3>2. yo = Payload
      BY <3>1, SameHalves
    <3> QED BY <3>2 DEF yo
  <2>14. writer' \in {"payload", "ended"}
    BY <1>2, <2>1, <2>10 DEF Sending
  <2> QED BY <1>2, <2>1, <2>6, <2>7, <2>12, <2>13, <2>14 DEF Sending, e
<1> QED BY <1>2, <1>8, <1>9, <1>10 DEF FrameInv

(* ReadFrame meets the end of the stream inside the frame. *)
LEMMA ReadEOFStep ==
    ASSUME FrameInv, ReadEOF
    PROVE  FrameInv'
<1>1. StreamTypes /\ Reading
  BY DEF FrameInv
<1>2. /\ reader \in {"header", "body"} /\ writer = "ended" /\ Len(wire) < need
      /\ reader' = "failed" /\ given' = given /\ writer' = writer /\ out' = out
      /\ wire' = wire /\ need' = need /\ taken' = taken /\ got' = got
  BY DEF ReadEOF
<1>3. StreamTypes'
  BY <1>1, <1>2 DEF StreamTypes
<1>4. Reading'
  BY <1>1, <1>2 DEF Reading
<1>5. ASSUME given # NoFrame, Encode(given) = Failed
      PROVE  Refused'
  BY <1>2, <1>5 DEF FrameInv, Refused
<1>6. ASSUME given # NoFrame, Encode(given) # Failed
      PROVE  Sending'
  <2>1. Sending
    BY <1>6 DEF FrameInv
  <2>2. InFrame' = InFrame /\ InPayload' = InPayload
    BY <1>2 DEF InFrame, InPayload, Stream
  <2>3. /\ Len(Body(given)) \in Nat /\ Len(Body(given)) >= 2
        /\ Len(Encode(given)) = 2 + Len(Body(given))
    BY <1>1, <1>6, FramesAreWellFormed, Written, WidthAssumption DEF StreamTypes
  <2>4. /\ wire \in Seq(Bytes) /\ out \in Seq(Bytes) /\ taken \in Seq(Bytes)
        /\ need \in Nat /\ Len(wire) \in Nat
    BY <1>1 DEF StreamTypes
  <2>5. Len(taken) + Len(wire) < Len(Encode(given))
    <3>1. CASE reader = "header"
      <4>1. taken = << >> /\ need = 2
        BY <1>1, <3>1 DEF Reading
      <4>2. Len(taken) = 0
        BY <4>1
      <4> QED BY <1>2, <2>3, <2>4, <4>1, <4>2
    <3>2. CASE reader = "body"
      <4>1. Len(taken) = 2 /\ need = Uint16(taken)
        BY <1>1, <3>2 DEF Reading
      <4> DEFINE more == wire \o out
      <4>2. more \in Seq(Bytes)
        BY <2>4, Joined
      <4>3. taken \in Seq(Bytes) /\ more \in Seq(Bytes) /\ Stream = taken \o more
        BY <2>4, <4>2 DEF Stream
      <4> HIDE DEF more
      <4>4. Uint16(taken) = Len(Body(given))
        BY <1>1, <1>6, <2>1, <4>1, <4>3, LengthThenBody
      <4> QED BY <1>2, <2>3, <2>4, <4>1, <4>4
    <3> QED BY <1>2, <3>1, <3>2
  <2> QED BY <1>2, <2>1, <2>2, <2>5 DEF Sending
<1> QED BY <1>2, <1>3, <1>4, <1>5, <1>6 DEF FrameInv

-----------------------------------------------------------------------------
(* Theorems *)

(* Writer, reader and a broken stream, in any order. *)
LEMMA FrameStep == FrameInv /\ [Next]_vars => FrameInv'
<1> SUFFICES ASSUME FrameInv, [Next]_vars PROVE FrameInv'
  OBVIOUS
<1>1. CASE Begin
  <2>1. writer = "idle"
    BY <1>1 DEF Begin
  <2>2. PICK f \in Frames :
          \/ WriteFrame(f)
          \/ \E i \in 1..(MaxFrameLen + 2), b \in Bytes : WriteOther(f, i, b)
    BY <1>1 DEF Begin
  <2> QED BY <2>1, <2>2, WriteFrameStep, WriteOtherStep
<1>2. CASE \E n \in 1..(MaxFrameLen + 2) : writeFull(n)
  BY <1>2, writeFullStep
<1>3. CASE EndStream
  BY <1>3, EndStreamStep
<1>4. CASE ReadHeader
  BY <1>4, ReadHeaderStep
<1>5. CASE ReadBody
  BY <1>5, ReadBodyStep
<1>6. CASE ReadEOF
  BY <1>6, ReadEOFStep
<1>7. CASE UNCHANGED vars
  BY <1>7 DEF vars, FrameInv, StreamTypes, Reading, Refused, Sending,
              InFrame, InPayload, Stream
<1> QED BY <1>1, <1>2, <1>3, <1>4, <1>5, <1>6, <1>7 DEF Next

(* The invariant holds of every stream. *)
LEMMA FrameAlways == Spec => []FrameInv
BY FrameInit, FrameStep, PTL DEF Spec

(***************************************************************************)
(* Whatever is on the stream, the two ends keep their types; in particular *)
(* the length ReadFrame waits for is always one it accepted.               *)
(***************************************************************************)
THEOREM FrameTypeCorrect == Spec => []TypeOK
<1>1. FrameInv => TypeOK
  <2> SUFFICES ASSUME FrameInv PROVE TypeOK
    OBVIOUS
  <2>1. StreamTypes /\ Reading
    BY DEF FrameInv
  <2>2. DOMAIN StringFields = 1..5
    BY DEF StringFields
  <2>3. /\ got.type \in 0..4 /\ got.code \in 0..4 /\ got.dir \in 0..2
        /\ DOMAIN got.strings = DOMAIN StringFields
    <3>1. CASE reader = "done"
      <4>1. WellFormed(got)
        BY <2>1, <3>1 DEF Reading
      <4>2. /\ got.type \in 1..4 /\ got.code \in 0..4 /\ got.dir \in 0..2
            /\ got.strings \in Strings
        BY <4>1 DEF WellFormed
      <4>3. DOMAIN got.strings = 1..5
        BY <4>2 DEF Strings
      <4> QED BY <2>2, <4>2, <4>3
    <3>2. CASE reader # "done"
      <4>1. got = NoFrame
        BY <2>1, <3>2 DEF Reading
      <4> QED BY <4>1 DEF NoFrame, NoStrings
    <3> QED BY <3>1, <3>2
  <2> QED BY <2>1, <2>3 DEF TypeOK, StreamTypes
<1> QED BY <1>1, FrameAlways, PTL

(***************************************************************************)
(* A frame given to WriteFrame arrives as it is, alone, or the stream      *)
(* ended before all of it was written: for every byte width, frame limit,  *)
(* frame and payload, and however the bytes are cut up on the way.         *)
(***************************************************************************)
THEOREM FramesArrive == Spec => []RoundTrip
<1>1. FrameInv => RoundTrip
  <2> SUFFICES ASSUME FrameInv, given # NoFrame, Encode(given) # Failed
               PROVE  /\ reader = "done" => got = given /\ taken = Encode(given)
                      /\ reader = "failed" =>
                           Len(taken \o wire) < Len(Encode(given))
    BY DEF FrameInv, RoundTrip, Refused
  <2>1. Sending /\ wire \in Seq(Bytes) /\ taken \in Seq(Bytes)
    BY DEF FrameInv, StreamTypes
  <2>2. Len(taken \o wire) = Len(taken) + Len(wire)
    BY <2>1, Joined
  <2> QED BY <2>1, <2>2 DEF Sending
<1> QED BY <1>1, FrameAlways, PTL

(***************************************************************************)
(* When ReadFrame returns a frame, the payload behind it is untouched.     *)
(***************************************************************************)
THEOREM PayloadIsIntact == Spec => []PayloadFollows
<1>1. FrameInv => PayloadFollows
  BY DEF FrameInv, PayloadFollows, Refused, Sending
<1> QED BY <1>1, FrameAlways, PTL

(***************************************************************************)
(* ReadFrame accepts no bytes but those that WriteFrame writes for the     *)
(* frame it returns, also when a byte has become another on the way.       *)
(***************************************************************************)
THEOREM OnlyEncodingsAreRead == Spec => []Canonical
<1>1. FrameInv => Canonical
  BY DEF FrameInv, Canonical, Reading
<1> QED BY <1>1, FrameAlways, PTL

(***************************************************************************)
(* WriteFrame refuses a frame exactly when it is too large or has no       *)
(* direction, and writes the true length of every other one.               *)
(***************************************************************************)
THEOREM LimitIsExact == Spec => []RefusesExactlyTooLarge
<1>1. FrameInv => RefusesExactlyTooLarge
  <2> SUFFICES ASSUME FrameInv, given # NoFrame
               PROVE  /\ Encode(given) = Failed
                            <=> BodyLen(given) > MaxFrameLen \/ NoDirection(given)
                      /\ Encode(given) # Failed =>
                            Uint16(Encode(given)) = BodyLen(given)
    BY DEF RefusesExactlyTooLarge, NoDirection, HasStrings
  <2>1. WellFormed(given)
    BY FramesAreWellFormed DEF FrameInv, StreamTypes
  <2> DEFINE b == Body(given)
  <2>2. /\ b \in Seq(Bytes) /\ Len(b) = BodyLen(given)
        /\ NoDirection(given) => Encode(given) = Failed
        /\ ~NoDirection(given) =>
             Encode(given) = IF Len(b) > MaxFrameLen
                               THEN Failed ELSE PutUint16(Len(b)) \o b
    BY <2>1, Encoded
  <2>3. Encode(given) # Failed => Uint16(Encode(given)) = Len(b)
    BY <2>1, Written
  <2> HIDE DEF b
  <2>4. PutUint16(Len(b)) \o b # Failed
    <3> DEFINE h == PutUint16(Len(b))
    <3>1. Len(b) \in Nat
      BY <2>2
    <3>2. h \in Seq(Bytes) /\ Len(h) = 2
      BY <3>1, TwoBytes
    <3> HIDE DEF h
    <3>3. h \in Seq(Bytes) /\ b \in Seq(Bytes)
      BY <2>2, <3>2
    <3>4. Len(h \o b) = Len(h) + Len(b)
      BY <3>3, Joined
    <3>5. Len(h \o b) # 0
      BY <3>1, <3>2, <3>4
    <3> QED BY <3>5 DEF Failed, h
  <2> QED BY <2>2, <2>3, <2>4
<1> QED BY <1>1, FrameAlways, PTL
=============================================================================
