-------------------------- MODULE WrapperCallProofs --------------------------
(***************************************************************************)
(* Proofs about one call of the compiler wrapper: the daemon handles what  *)
(* the wrapper was started with, the exit code speaks of the user's        *)
(* command, and a server asks for a file by its declared path exactly if   *)
(* that is absolute.                                                       *)
(*                                                                         *)
(* A frame is data after its length, and a length is four digits: the      *)
(* first lemmas read numbers, strings, responses and frames back, and tell *)
(* a frame that was cut from a whole one. The invariant Conversation then  *)
(* says what is on the socket in every state of the wrapper and of its     *)
(* session, and Commands what is known of the commands that were run.      *)
(***************************************************************************)
EXTENDS WrapperCall, SequenceTheorems, TLAPS

-----------------------------------------------------------------------------
(* Numbers.                                                                *)

(* Quotient and remainder of natural numbers.                              *)
LEMMA Divided ==
  ASSUME NEW n \in Nat \ {0}, NEW v \in Nat
  PROVE  v \div n \in Nat /\ v % n \in Nat /\ v % n < n /\ v = n * (v \div n) + (v % n)
  OBVIOUS

(* Dividing twice is dividing by the product.                              *)
LEMMA DividedTwice ==
  ASSUME NEW n \in Nat \ {0}, NEW m \in Nat \ {0}, NEW v \in Nat
  PROVE  v \div (n * m) = (v \div n) \div m /\ n * m \in Nat \ {0}
  OBVIOUS

(* The four digits of a number, as append_u32 writes them.                 *)
Digits(value) == <<(value \div Cube) % Base, (value \div Square) % Base, (value \div Base) % Base,
                   value % Base>>

(* A 32-bit number is read back from its four digits.                      *)
LEMMA DigitsReadBack ==
  ASSUME NEW v \in Nat, v < Width
  PROVE  /\ Digits(v) \in Seq(Nat) /\ Len(Digits(v)) = 4
         /\ Digits(v)[1] * Cube + Digits(v)[2] * Square + Digits(v)[3] * Base + Digits(v)[4] = v
<1> DEFINE a == v \div Base
           b == a \div Base
           c == b \div Base
<1>1. Base \in Nat \ {0}
  BY BaseAssumption DEF BaseAssumption
<1>2. a \in Nat /\ v % Base \in Nat /\ v % Base < Base /\ v = Base * a + (v % Base)
  BY <1>1, Divided
<1> HIDE DEF a
<1>3. b \in Nat /\ a % Base \in Nat /\ a % Base < Base /\ a = Base * b + (a % Base)
  BY <1>1, <1>2, Divided
<1> HIDE DEF b
<1>4. c \in Nat /\ b % Base \in Nat /\ b % Base < Base /\ b = Base * c + (b % Base)
  BY <1>1, <1>3, Divided
<1> HIDE DEF c
<1>5. v \div Square = b /\ Square \in Nat \ {0}
  BY <1>1, DividedTwice DEF Square, a, b
<1>6. v \div Cube = c /\ Cube \in Nat \ {0}
  BY <1>1, <1>5, DividedTwice DEF Cube, c
<1> DEFINE x == b % Base
           y == a % Base
           z == v % Base
<1> HIDE DEF x, y, z
<1>7. v = c * Cube + x * Square + y * Base + z
  <2>1. v = Base * (Base * (Base * c + x) + y) + z
    <3>1. v = Base * a + z
      BY <1>2, Zenon DEF z
    <3>2. a = Base * b + y
      BY <1>3, Zenon DEF y
    <3>3. b = Base * c + x
      BY <1>4, Zenon DEF x
    <3> QED
      BY <3>1, <3>2, <3>3, Zenon
  <2>2. x \in Nat /\ y \in Nat /\ z \in Nat
    BY <1>2, <1>3, <1>4 DEF x, y, z
  <2> QED
    BY <1>1, <1>4, <2>1, <2>2 DEF Cube, Square
<1>8. c % Base = c
  <2>1. c < Base
    <3>1. c * Cube <= v
      <4>1. x * Square \in Nat /\ y * Base \in Nat /\ z \in Nat /\ c * Cube \in Nat
        BY <1>1, <1>2, <1>3, <1>4, <1>5, <1>6 DEF x, y, z
      <4> QED
        BY <1>7, <4>1
    <3>2. ASSUME c >= Base PROVE FALSE
      <4>1. PICK d \in Nat : c = Base + d
        <5>1. c - Base \in Nat /\ c = Base + (c - Base)
          BY <1>1, <1>4, <3>2
        <5> QED
          BY <5>1
      <4>2. c * Cube = Width + d * Cube /\ d * Cube \in Nat /\ Width \in Nat
        BY <1>1, <1>6, <4>1 DEF Width
      <4> QED
        BY <3>1, <4>2
    <3> QED
      BY <1>1, <1>4, <3>2
  <2> QED
    BY <1>1, <1>4, <2>1
<1>9. Digits(v) = <<c, x, y, z>>
  BY <1>5, <1>6, <1>8 DEF Digits, a, x, y, z
<1>10. c \in Nat /\ x \in Nat /\ y \in Nat /\ z \in Nat
  BY <1>2, <1>3, <1>4 DEF x, y, z
<1>11. /\ <<c, x, y, z>> \in Seq(Nat) /\ Len(<<c, x, y, z>>) = 4
       /\ <<c, x, y, z>>[1] = c /\ <<c, x, y, z>>[2] = x /\ <<c, x, y, z>>[3] = y
       /\ <<c, x, y, z>>[4] = z
  BY <1>10
<1> QED
  BY <1>7, <1>9, <1>11, Zenon

-----------------------------------------------------------------------------
(* Frames.                                                                 *)

(* Where two sequences are joined.                                         *)
LEMMA JoinedAt ==
  ASSUME NEW a \in Seq(Nat), NEW b \in Seq(Nat)
  PROVE  /\ a \o b \in Seq(Nat) /\ Len(a \o b) = Len(a) + Len(b) /\ Len(a) \in Nat /\ Len(b) \in Nat
         /\ \A i \in 1..Len(a) : (a \o b)[i] = a[i]
         /\ \A i \in 1..Len(b) : (a \o b)[Len(a) + i] = b[i]
<1>1. /\ a \o b \in Seq(Nat) /\ Len(a \o b) = Len(a) + Len(b) /\ Len(a) \in Nat /\ Len(b) \in Nat
      /\ \A i \in 1..Len(a) : (a \o b)[i] = a[i]
  OBVIOUS
<1>2. ASSUME NEW i \in 1..Len(b) PROVE (a \o b)[Len(a) + i] = b[i]
  <2>1. /\ Len(a) + i \in 1..(Len(a) + Len(b)) /\ ~(Len(a) + i <= Len(a))
        /\ (Len(a) + i) - Len(a) = i
    BY <1>1
  <2> QED
    BY <1>1, <2>1
<1> QED
  BY <1>1, <1>2

(* Sequences are joined in any grouping.                                   *)
LEMMA JoinedThrice ==
  ASSUME NEW a \in Seq(Nat), NEW b \in Seq(Nat), NEW c \in Seq(Nat)
  PROVE  (a \o b) \o c = a \o (b \o c)
  BY ConcatAssociative, SMTT(30)

(* What a part of a sequence is.                                           *)
LEMMA PartOf ==
  ASSUME NEW x \in Seq(Nat), NEW m \in Nat, NEW n \in Nat, m + n <= Len(x)
  PROVE  /\ SubSeq(x, m + 1, m + n) \in Seq(Nat) /\ Len(SubSeq(x, m + 1, m + n)) = n
         /\ \A i \in 1..n : SubSeq(x, m + 1, m + n)[i] = x[m + i]
<1> DEFINE s == SubSeq(x, m + 1, m + n)
<1>1. s = [i \in 1..n |-> x[m + i]]
  OBVIOUS
<1>2. \A i \in 1..n : x[m + i] \in Nat
  OBVIOUS
<1> HIDE DEF s
<1> QED
  BY <1>1, <1>2 DEF s

(* A part in the middle of a sequence.                                     *)
LEMMA MiddleOfJoined ==
  ASSUME NEW a \in Seq(Nat), NEW b \in Seq(Nat), NEW c \in Seq(Nat)
  PROVE  SubSeq((a \o b) \o c, Len(a) + 1, Len(a) + Len(b)) = b
<1> DEFINE ab == a \o b
           abc == ab \o c
           s == SubSeq(abc, Len(a) + 1, Len(a) + Len(b))
<1>1. /\ ab \in Seq(Nat) /\ Len(ab) = Len(a) + Len(b) /\ Len(a) \in Nat /\ Len(b) \in Nat
      /\ \A i \in 1..Len(b) : ab[Len(a) + i] = b[i]
  BY JoinedAt
<1> HIDE DEF ab
<1>2. /\ abc \in Seq(Nat) /\ Len(abc) = Len(ab) + Len(c) /\ Len(c) \in Nat
      /\ \A i \in 1..Len(ab) : abc[i] = ab[i]
  BY <1>1, JoinedAt
<1> HIDE DEF abc
<1>3. Len(a) + Len(b) <= Len(abc)
  BY <1>1, <1>2
<1>4. /\ s \in Seq(Nat) /\ Len(s) = Len(b)
      /\ \A i \in 1..Len(b) : s[i] = abc[Len(a) + i]
  BY <1>1, <1>2, <1>3, PartOf, Zenon
<1>5. \A i \in 1..Len(b) : s[i] = b[i]
  <2> SUFFICES ASSUME NEW i \in 1..Len(b) PROVE s[i] = b[i]
    OBVIOUS
  <2>1. Len(a) + i \in 1..Len(ab)
    BY <1>1
  <2> QED
    BY <1>1, <1>2, <1>4, <2>1
<1> HIDE DEF s
<1>6. s = b
  BY <1>4, <1>5, SeqEqual
<1> QED
  BY <1>6 DEF s, abc, ab

(* append_u32 appends the digits, in both programs.                        *)
LEMMA Appended ==
  /\ \A out, v : append_u32(out, v) = out \o Digits(v)
  /\ \A out, v : _append_u32(out, v) = out \o Digits(v)
  BY Zenon DEF append_u32, _append_u32, Digits

(* A number is read back from wherever its digits are, in both programs.   *)
LEMMA NumberReadBack ==
  ASSUME NEW a \in Seq(Nat), NEW c \in Seq(Nat), NEW v \in Nat, v < Width
  PROVE  /\ read_u32((a \o Digits(v)) \o c, Len(a)) = v
         /\ _read_u32((a \o Digits(v)) \o c, Len(a)) = v
<1> DEFINE d == Digits(v)
           ad == a \o d
           all == ad \o c
<1>1. d \in Seq(Nat) /\ Len(d) = 4 /\ d[1] * Cube + d[2] * Square + d[3] * Base + d[4] = v
  BY DigitsReadBack
<1> HIDE DEF d
<1>2. /\ ad \in Seq(Nat) /\ Len(ad) = Len(a) + 4 /\ Len(a) \in Nat
      /\ \A i \in 1..4 : ad[Len(a) + i] = d[i]
  <2>1. /\ ad \in Seq(Nat) /\ Len(ad) = Len(a) + Len(d) /\ Len(a) \in Nat
        /\ \A i \in 1..Len(d) : ad[Len(a) + i] = d[i]
    BY <1>1, JoinedAt
  <2> HIDE DEF ad
  <2> QED
    BY <1>1, <2>1
<1> HIDE DEF ad
<1>3. \A i \in 1..Len(ad) : all[i] = ad[i]
  BY <1>2, JoinedAt
<1> HIDE DEF all
<1>4. \A i \in 1..4 : all[Len(a) + i] = d[i]
  <2> SUFFICES ASSUME NEW i \in 1..4 PROVE all[Len(a) + i] = d[i]
    OBVIOUS
  <2>1. Len(a) + i \in 1..Len(ad)
    <3>1. Len(ad) = Len(a) + 4 /\ Len(a) \in Nat
      BY <1>2
    <3> QED
      BY <3>1
  <2> QED
    BY <1>2, <1>3, <2>1
<1>5. /\ all[Len(a) + 1] = d[1] /\ all[Len(a) + 2] = d[2] /\ all[Len(a) + 3] = d[3]
      /\ all[Len(a) + 4] = d[4]
  BY <1>4
<1>6. read_u32(all, Len(a)) = v /\ _read_u32(all, Len(a)) = v
  BY <1>1, <1>5, Zenon DEF read_u32, _read_u32
<1> QED
  BY <1>6 DEF all, ad, d

(* A string is read back from wherever it is.                              *)
LEMMA StringReadBack ==
  ASSUME NEW a \in Seq(Nat), NEW s \in Seq(Nat), NEW c \in Seq(Nat), Len(s) < Width
  PROVE  read_string(((a \o Digits(Len(s))) \o s) \o c, Len(a))
            = [s |-> s, offset |-> Len(a) + 4 + Len(s)]
<1> DEFINE d == Digits(Len(s))
           b == a \o d
           all == (b \o s) \o c
<1>1. Len(s) \in Nat /\ d \in Seq(Nat) /\ Len(d) = 4
  BY DigitsReadBack
<1>2. b \in Seq(Nat) /\ Len(b) = Len(a) + 4 /\ Len(a) \in Nat
  <2> HIDE DEF d
  <2>1. b \in Seq(Nat) /\ Len(b) = Len(a) + Len(d) /\ Len(a) \in Nat
    BY <1>1, JoinedAt
  <2> QED
    BY <1>1, <2>1
<1>3. all = b \o (s \o c) /\ s \o c \in Seq(Nat)
  <2> HIDE DEF b
  <2>1. s \o c \in Seq(Nat)
    BY JoinedAt
  <2>2. (b \o s) \o c = b \o (s \o c)
    BY <1>2, JoinedThrice
  <2> QED
    BY <2>1, <2>2
<1>4. read_u32(b \o (s \o c), Len(a)) = Len(s)
  BY <1>1, <1>3, NumberReadBack
<1> HIDE DEF d, b
<1>5. SubSeq(all, Len(b) + 1, Len(b) + Len(s)) = s
  BY <1>2, MiddleOfJoined
<1>6. read_u32(all, Len(a)) = Len(s)
  BY <1>3, <1>4
<1>7. Len(a) + 5 = Len(b) + 1 /\ Len(a) + 4 + Len(s) = Len(b) + Len(s)
  BY <1>1, <1>2
<1> HIDE DEF all
<1>8. read_string(all, Len(a)) = [s |-> s, offset |-> Len(a) + 4 + Len(s)]
  BY <1>5, <1>6, <1>7 DEF read_string
<1> QED
  BY <1>8 DEF all, b, d

(* An exit code survives the cast to 32 bits without a sign and back.      *)
LEMMA CodeReadBack ==
  ASSUME NEW code \in Int, 0 - Width \div 2 <= code, code < Width \div 2
  PROVE  code % Width \in Nat /\ code % Width < Width /\ ToInt(code % Width) = code
<1>1. Width \in Nat \ {0}
  BY BaseAssumption DEF BaseAssumption, Width, Cube, Square
<1>2. Width \div 2 \in Nat /\ 2 * (Width \div 2) <= Width
  BY <1>1
<1>3. CASE code >= 0
  <2>1. code % Width = code
    BY <1>1, <1>2, <1>3
  <2> QED
    BY <1>1, <1>2, <1>3, <2>1 DEF ToInt
<1>4. CASE code < 0
  <2>1. code % Width = code + Width
    BY <1>1, <1>2, <1>4
  <2> QED
    BY <1>1, <1>2, <1>4, <2>1 DEF ToInt
<1> QED
  BY <1>3, <1>4

(* The wrapper reads the response that the daemon has written, whatever    *)
(* the exit code and the output.                                           *)
LEMMA ResponseReadBack ==
  ASSUME NEW code \in Int, 0 - Width \div 2 <= code, code < Width \div 2,
         NEW out \in Seq(Nat), NEW err \in Seq(Nat), 12 + Len(out) + Len(err) < Width,
         NEW data, data = _serialize_response(Response(code, out, err))
  PROVE  /\ data \in Seq(Nat) /\ Len(data) \in Nat /\ Len(data) < Width
         /\ deserialize_response(data) = Response(code, out, err)
<1> DEFINE d0 == Digits(code % Width)
           d1 == Digits(Len(out))
           d2 == Digits(Len(err))
           a == <<>> \o d0
           b == (a \o d1) \o out
           c == d2 \o err
<1>1. Width \in Nat /\ Len(out) \in Nat /\ Len(err) \in Nat /\ Len(out) < Width /\ Len(err) < Width
  BY BaseAssumption DEF BaseAssumption, Width, Cube, Square
<1>2. code % Width \in Nat /\ code % Width < Width /\ ToInt(code % Width) = code
  BY CodeReadBack
<1>3. /\ d0 \in Seq(Nat) /\ Len(d0) = 4 /\ d1 \in Seq(Nat) /\ Len(d1) = 4
      /\ d2 \in Seq(Nat) /\ Len(d2) = 4
  BY <1>1, <1>2, DigitsReadBack
<1>4. data = (b \o d2) \o err
  <2>1. _append_u32(<<>>, code % Width) = a
    BY Appended
  <2>2. \A o, s : _append_string(o, s) = (o \o Digits(Len(s))) \o s
    BY Appended DEF _append_string
  <2>3. data = _append_string(_append_string(_append_u32(<<>>, code % Width), out), err)
    BY DEF _serialize_response, Response
  <2> QED
    BY <2>1, <2>2, <2>3
<1> HIDE DEF d0, d1, d2
<1>5. a \in Seq(Nat) /\ Len(a) = 4
  BY <1>3
<1> HIDE DEF a
<1>6. b \in Seq(Nat) /\ Len(b) = 8 + Len(out)
  <2>1. a \o d1 \in Seq(Nat) /\ Len(a \o d1) = 8
    <3>1. a \o d1 \in Seq(Nat) /\ Len(a \o d1) = Len(a) + Len(d1)
      BY <1>3, <1>5, JoinedAt, Zenon
    <3> QED
      BY <1>3, <1>5, <3>1
  <2>2. b \in Seq(Nat) /\ Len(b) = Len(a \o d1) + Len(out)
    BY <2>1, JoinedAt, Zenon
  <2> QED
    BY <2>1, <2>2
<1>7. c \in Seq(Nat) /\ d1 \o out \in Seq(Nat) /\ (d1 \o out) \o c \in Seq(Nat)
  BY <1>3, JoinedAt, Zenon
<1>8. data = b \o c
  <2> HIDE DEF b
  <2> QED
    BY <1>3, <1>4, <1>6, JoinedThrice
<1>9. data = a \o ((d1 \o out) \o c)
  <2>1. b = a \o (d1 \o out)
    BY <1>3, <1>5, JoinedThrice
  <2> HIDE DEF b, c
  <2>2. (a \o (d1 \o out)) \o c = a \o ((d1 \o out) \o c)
    BY <1>5, <1>7, JoinedThrice
  <2> QED
    BY <1>8, <2>1, <2>2
<1>10. data \in Seq(Nat) /\ Len(data) = 12 + Len(out) + Len(err)
  <2> HIDE DEF b
  <2>1. b \o d2 \in Seq(Nat) /\ Len(b \o d2) = Len(b) + Len(d2)
    BY <1>3, <1>6, JoinedAt
  <2>2. data \in Seq(Nat) /\ Len(data) = Len(b \o d2) + Len(err)
    BY <1>4, <2>1, JoinedAt, Zenon
  <2> QED
    BY <1>1, <1>3, <1>6, <2>1, <2>2
<1>11. read_u32(data, 0) = code % Width
  <2>1. <<>> \in Seq(Nat) /\ Len(<<>>) = 0
    OBVIOUS
  <2> HIDE DEF b, c
  <2>2. read_u32((<<>> \o d0) \o ((d1 \o out) \o c), Len(<<>>)) = code % Width
    BY <1>2, <1>7, <2>1, NumberReadBack, Zenon DEF d0
  <2> QED
    BY <1>9, <2>1, <2>2, Zenon DEF a
<1>12. read_string(data, 4) = [s |-> out, offset |-> 8 + Len(out)]
  <2> HIDE DEF c
  <2>1. read_string(((a \o d1) \o out) \o c, Len(a)) = [s |-> out, offset |-> Len(a) + 4 + Len(out)]
    BY <1>1, <1>5, <1>7, StringReadBack, Zenon DEF d1
  <2>2. Len(a) + 4 + Len(out) = 8 + Len(out)
    BY <1>1, <1>5
  <2> QED
    BY <1>5, <1>8, <2>1, <2>2, Zenon
<1>13. read_string(data, 8 + Len(out)).s = err
  <2> HIDE DEF b
  <2>1. <<>> \in Seq(Nat)
    OBVIOUS
  <2>2. read_string(((b \o d2) \o err) \o <<>>, Len(b))
            = [s |-> err, offset |-> Len(b) + 4 + Len(err)]
    BY <1>1, <1>6, <2>1, StringReadBack, Zenon DEF d2
  <2>3. data \o <<>> = data
    BY <1>10, ConcatEmptySeq
  <2>4. read_string(data, 8 + Len(out)) = [s |-> err, offset |-> Len(b) + 4 + Len(err)]
    BY <1>4, <1>6, <2>2, <2>3, Zenon
  <2> QED
    BY <2>4
<1>14. deserialize_response(data) = Response(code, out, err)
  <2>1. read_string(data, 4).offset = 8 + Len(out) /\ read_string(data, 4).s = out
    BY <1>12
  <2> QED
    BY <1>2, <1>11, <1>13, <2>1, Zenon DEF deserialize_response
<1> QED
  BY <1>1, <1>10, <1>14

(* A frame is its length and its data, and both are found in it.           *)
LEMMA FrameReadBack ==
  ASSUME NEW data \in Seq(Nat), Len(data) < Width
  PROVE  LET F == (<<>> \o Digits(Len(data))) \o data IN
         /\ F \in Seq(Nat) /\ Len(F) = 4 + Len(data) /\ Len(data) \in Nat
         /\ read_u32(F, 0) = Len(data) /\ _read_u32(F, 0) = Len(data)
         /\ SubSeq(F, 5, 4 + Len(data)) = data
<1> DEFINE d == Digits(Len(data))
           h == <<>> \o d
           F == h \o data
<1>1. Len(data) \in Nat /\ <<>> \in Seq(Nat) /\ Len(<<>>) = 0
  OBVIOUS
<1>2. d \in Seq(Nat) /\ Len(d) = 4
  BY <1>1, DigitsReadBack
<1>3. read_u32(F, 0) = Len(data) /\ _read_u32(F, 0) = Len(data)
  <2>1. /\ read_u32((<<>> \o Digits(Len(data))) \o data, Len(<<>>)) = Len(data)
        /\ _read_u32((<<>> \o Digits(Len(data))) \o data, Len(<<>>)) = Len(data)
    BY <1>1, NumberReadBack, Zenon
  <2> QED
    BY <1>1, <2>1, Zenon
<1> HIDE DEF d
<1>4. h \in Seq(Nat) /\ Len(h) = 4
  BY <1>2
<1> HIDE DEF h
<1>5. F \in Seq(Nat) /\ Len(F) = 4 + Len(data)
  <2>1. F \in Seq(Nat) /\ Len(F) = Len(h) + Len(data)
    BY <1>4, JoinedAt, Zenon
  <2> QED
    BY <1>4, <2>1
<1>6. SubSeq(F, 5, 4 + Len(data)) = data
  <2>1. F \o <<>> = F
    BY <1>5, ConcatEmptySeq
  <2>2. SubSeq((h \o data) \o <<>>, Len(h) + 1, Len(h) + Len(data)) = data
    BY <1>1, <1>4, MiddleOfJoined
  <2>3. Len(h) + 1 = 5 /\ Len(h) + Len(data) = 4 + Len(data)
    BY <1>1, <1>4
  <2> QED
    BY <2>1, <2>2, <2>3
<1> QED
  BY <1>1, <1>3, <1>5, <1>6, Zenon DEF F, h, d

(* What the beginning of a sequence is.                                    *)
LEMMA BeginningOf ==
  ASSUME NEW x \in Seq(Nat), NEW n \in 0..Len(x)
  PROVE  /\ SubSeq(x, 1, n) \in Seq(Nat) /\ Len(SubSeq(x, 1, n)) = n /\ n \in Nat
         /\ \A i \in 1..n : SubSeq(x, 1, n)[i] = x[i]
  OBVIOUS

(* The length the daemon reads at the beginning of a frame.                *)
Announced(bytes) == IF Len(bytes) >= 4 THEN _read_u32(bytes, 0) ELSE 0

(* A frame that was cut is not taken for a whole one.                      *)
LEMMA CutFrame ==
  ASSUME NEW data \in Seq(Nat), Len(data) < Width,
         NEW F, F = (<<>> \o Digits(Len(data))) \o data,
         NEW bytes, \E n \in 0..Len(F) : bytes = SubSeq(F, 1, n),
         Whole(bytes, Announced(bytes))
  PROVE  bytes = F
<1> DEFINE size == Announced(bytes)
<1>0. PICK n \in 0..Len(F) : bytes = SubSeq(F, 1, n)
  OBVIOUS
<1>1. /\ F \in Seq(Nat) /\ Len(F) = 4 + Len(data) /\ Len(data) \in Nat
      /\ _read_u32(F, 0) = Len(data)
  BY FrameReadBack
<1>2. /\ bytes \in Seq(Nat) /\ Len(bytes) = n /\ n \in Nat
      /\ \A i \in 1..n : bytes[i] = F[i]
  <2>1. F \in Seq(Nat)
    BY <1>1
  <2>2. /\ SubSeq(F, 1, n) \in Seq(Nat) /\ Len(SubSeq(F, 1, n)) = n /\ n \in Nat
        /\ \A i \in 1..n : SubSeq(F, 1, n)[i] = F[i]
    BY <2>1, BeginningOf, Zenon
  <2> QED
    BY <1>0, <2>2, Zenon
<1>3. Len(bytes) >= 4 /\ Len(bytes) >= 4 + size
  BY DEF Whole
<1> HIDE DEF size
<1>4. n >= 4
  BY <1>2, <1>3
<1>5. /\ bytes[0 + 1] = F[0 + 1] /\ bytes[0 + 2] = F[0 + 2] /\ bytes[0 + 3] = F[0 + 3]
      /\ bytes[0 + 4] = F[0 + 4]
  <2>1. /\ n \in Nat /\ \A i \in 1..n : bytes[i] = F[i]
    BY <1>2
  <2>2. 0 + 1 \in 1..n /\ 0 + 2 \in 1..n /\ 0 + 3 \in 1..n /\ 0 + 4 \in 1..n
    BY <1>4, <2>1
  <2> QED
    BY <2>1, <2>2, Zenon
<1>6. _read_u32(bytes, 0) = _read_u32(F, 0)
  BY <1>5, Zenon DEF _read_u32
<1>7. size = Len(data)
  BY <1>1, <1>3, <1>6 DEF Announced, size
<1>8. n = Len(F)
  BY <1>1, <1>2, <1>3, <1>7
<1>9. bytes = F
  BY <1>0, <1>1, <1>8
<1> QED
  BY <1>9

-----------------------------------------------------------------------------
(* Words and paths.                                                        *)

(* Where two paths are joined.                                             *)
LEMMA JoinedStrings ==
  ASSUME NEW a \in Seq(STRING), NEW b \in Seq(STRING)
  PROVE  /\ a \o b \in Seq(STRING) /\ Len(a \o b) = Len(a) + Len(b) /\ Len(a) \in Nat
         /\ \A i \in 1..Len(a) : (a \o b)[i] = a[i]
         /\ \A i \in 1..Len(b) : (a \o b)[Len(a) + i] = b[i]
<1>1. /\ a \o b \in Seq(STRING) /\ Len(a \o b) = Len(a) + Len(b) /\ Len(a) \in Nat /\ Len(b) \in Nat
      /\ \A i \in 1..Len(a) : (a \o b)[i] = a[i]
  OBVIOUS
<1>2. ASSUME NEW i \in 1..Len(b) PROVE (a \o b)[Len(a) + i] = b[i]
  <2>1. /\ Len(a) + i \in 1..(Len(a) + Len(b)) /\ ~(Len(a) + i <= Len(a))
        /\ (Len(a) + i) - Len(a) = i
    BY <1>1
  <2> QED
    BY <1>1, <2>1
<1> QED
  BY <1>1, <1>2

(* The daemon finds the words of a command line from their bytes.          *)
LEMMA WordsReadBack ==
  /\ Untext(Text[Path(Cwd)]).path = Cwd
  /\ \A args \in Calls : UntextAll(Texts(args)) = args
<1>1. ASSUME NEW a \in DOMAIN Text PROVE Untext(Text[a]) = a
  <2>1. \E b \in DOMAIN Text : Text[b] = Text[a]
    OBVIOUS
  <2>2. Untext(Text[a]) \in DOMAIN Text /\ Text[Untext(Text[a])] = Text[a]
    BY <2>1 DEF Untext
  <2> QED
    BY <2>2, TextAssumption DEF TextAssumption
<1>2. Untext(Text[Path(Cwd)]) = Path(Cwd)
  BY <1>1, TextAssumption DEF TextAssumption
<1>3. ASSUME NEW args \in Calls PROVE UntextAll(Texts(args)) = args
  <2>1. args \in Seq(DOMAIN Text)
    BY TextAssumption DEF TextAssumption
  <2>2. \A i \in DOMAIN args : args[i] \in DOMAIN Text
    BY <2>1
  <2>3. UntextAll(Texts(args)) = [i \in DOMAIN args |-> Untext(Text[args[i]])]
    BY Zenon DEF UntextAll, Texts
  <2>4. UntextAll(Texts(args)) = [i \in DOMAIN args |-> args[i]]
    BY <1>1, <2>2, <2>3
  <2>5. args = [i \in DOMAIN args |-> args[i]]
    BY <2>1
  <2> QED
    BY <2>4, <2>5
<1>4. Path(Cwd).path = Cwd
  BY DEF Path
<1> QED
  BY <1>2, <1>3, <1>4, Zenon

(* What comes back of a path that went to the server: the path, if it is   *)
(* absolute, and the path after a root, if it is relative.                 *)
LEMMA PathThereAndBack ==
  ASSUME NEW f \in Files
  PROVE  cnvt_server_to_client_path(ServerDir, cnvt_client_to_server_path(ServerDir, f)) = f
             <=> IsAbsolute(f)
<1>1. /\ ServerDir \in Seq(STRING) /\ f \in Seq(STRING)
      /\ is_system_path(f) => IsAbsolute(f) /\ ~IsPrefix(ServerDir, f)
  BY PathAssumption DEF PathAssumption, is_system_path
<1>2. CASE is_system_path(f)
  <2>1. cnvt_client_to_server_path(ServerDir, f) = f
    BY <1>2, Zenon DEF cnvt_client_to_server_path
  <2> QED
    BY <1>1, <1>2, <2>1, Zenon DEF cnvt_server_to_client_path
<1>3. CASE ~is_system_path(f)
  <2> DEFINE t == relative_path(f)
             p == ServerDir \o t
  <2>1. cnvt_client_to_server_path(ServerDir, f) = p
    BY <1>3, Zenon DEF cnvt_client_to_server_path
  <2>2. t \in Seq(STRING) /\ Len(t) \in Nat /\ (<<"/">> \o t = f <=> IsAbsolute(f))
    <3>1. CASE IsAbsolute(f)
      <4>1. f # <<>> /\ f[1] = "/" /\ t = Tail(f)
        BY <3>1 DEF IsAbsolute, relative_path
      <4> HIDE DEF t
      <4> QED
        BY <1>1, <3>1, <4>1
    <3>2. CASE ~IsAbsolute(f)
      <4>1. t = f
        BY <3>2, Zenon DEF relative_path
      <4> HIDE DEF t
      <4>2. Len(<<"/">> \o t) = 1 + Len(f) /\ Len(f) \in Nat /\ t \in Seq(STRING)
        BY <1>1, <4>1
      <4> QED
        BY <3>2, <4>1, <4>2
    <3> QED
      BY <3>1, <3>2
  <2> HIDE DEF t
  <2>3. /\ p \in Seq(STRING) /\ Len(p) = Len(ServerDir) + Len(t) /\ Len(ServerDir) \in Nat
        /\ \A i \in 1..Len(ServerDir) : p[i] = ServerDir[i]
        /\ \A i \in 1..Len(t) : p[Len(ServerDir) + i] = t[i]
    BY <1>1, <2>2, JoinedStrings, Zenon
  <2> HIDE DEF p
  <2>4. IsPrefix(ServerDir, p)
    <3>1. SubSeq(ServerDir, 1, Len(ServerDir)) = SubSeq(p, 1, Len(ServerDir))
      BY <1>1, <2>2, <2>3
    <3>2. Len(ServerDir) <= Len(p)
      BY <2>2, <2>3
    <3> QED
      BY <3>1, <3>2 DEF IsPrefix
  <2> DEFINE q == SubSeq(p, Len(ServerDir) + 1, Len(p))
  <2>5. q = t
    <3>1. q \in Seq(STRING) /\ Len(q) = Len(t)
      BY <2>2, <2>3
    <3>2. ASSUME NEW i \in 1..Len(t) PROVE q[i] = t[i]
      <4>1. q[i] = p[Len(ServerDir) + i]
        BY <2>2, <2>3
      <4> QED
        BY <2>3, <4>1
    <3> HIDE DEF q
    <3> QED
      BY <2>2, <3>1, <3>2, SeqEqual
  <2> QED
    BY <2>1, <2>2, <2>4, <2>5, Zenon DEF cnvt_server_to_client_path
<1> QED
  BY <1>2, <1>3

-----------------------------------------------------------------------------
(* The conversation of the wrapper and the daemon.                         *)

(* What the daemon writes on the socket for some data.                     *)
FrameOf(data) == _append_u32(<<>>, Len(data)) \o data

(* A response the daemon is able to write.                                 *)
IsAnswer(resp) ==
    /\ resp = Response(resp.compiler_exit_code, resp.stdout_content, resp.stderr_content)
    /\ resp.compiler_exit_code \in ExitCodes
    /\ resp.stdout_content \in Seq(Nat) /\ resp.stderr_content \in Seq(Nat)
    /\ 12 + Len(resp.stdout_content) + Len(resp.stderr_content) < Width

(* The states of _handle_session in which a request has been read.         *)
Heard == {"handling", "connecting", "local", "remote", "dispose", "reply"}

(* The daemon has before it the beginning of the wrapper's frame, and the  *)
(* wrapper still has the rest.                                             *)
FrameIsCut ==
    /\ argv \in Calls /\ rest \in Seq(Nat)
    /\ \E n \in 0..Len(FramedRequest) : up = SubSeq(FramedRequest, 1, n)
    /\ wrapper = "start" => up = <<>>
    /\ wrapper = "writing" => up \o rest = FramedRequest
    /\ up = <<>> => session = "none"

(* Only the whole frame is handled, and it says what the wrapper asks.     *)
RequestIsHeard ==
    /\ request # None => request = Asked
    /\ session \in Heard => request = Asked /\ up = FramedRequest

(* The daemon writes only the response of a handler, and then it closes.   *)
ResponseIsFramed ==
    /\ session \in {"dispose", "reply"} => IsAnswer(response)
    /\ down # <<>> => /\ session = "closed" /\ up = FramedRequest
                      /\ IsAnswer(response) /\ down = FrameOf(_serialize_response(response))

(* A wrapper leaves when its session is over or never began: with the      *)
(* response, or with 1 if there is none.                                   *)
ExitIsResponse ==
    exit # None => /\ wrapper = "exited"
                   /\ session = "closed" \/ (session = "none" /\ up = <<>>)
                   /\ IF down # <<>> THEN exit = response ELSE exit.compiler_exit_code = 1

Conversation == FrameIsCut /\ RequestIsHeard /\ ResponseIsFramed /\ ExitIsResponse

(* The command of the call is the one the user has given.                  *)
CallIsTheUsers ==
    /\ session \in {"connecting", "remote"} =>
        call = initialize_compiler_call(Cwd, argv) /\ call.type = "COMPILE"
    /\ session = "remote" => call.src \in Files /\ remote.cmd = preprocess_compiler_call(call)

(* A sequence of whatever is in it.                                        *)
IsSequence(s) == s \in Seq({s[i] : i \in DOMAIN s})

(* The last command that was run is the user's, its exit code is the one   *)
(* in the response, and a failure that is answered is the client's.        *)
LastRunIsAnswered ==
    /\ IsSequence(ran)
    /\ session \in {"dispose", "reply"} \/ down # <<>> =>
        /\ ran # <<>> /\ Last(ran).code = response.compiler_exit_code /\ SameCall(Last(ran))
        /\ session # "dispose" /\ response.compiler_exit_code # 0 => Last(ran).where = "client"

Commands == CallIsTheUsers /\ LastRunIsAnswered

(* What the frame of a call is.                                            *)
LEMMA FrameOfCall ==
  ASSUME RequestsReadBack, argv \in Calls, NEW data, data = serialize_request(Asked)
  PROVE  /\ data \in Seq(Nat) /\ Len(data) \in Nat /\ Len(data) < Width
         /\ _deserialize_request(data) = Asked
         /\ FramedRequest = (<<>> \o Digits(Len(data))) \o data
         /\ FramedRequest \in Seq(Nat) /\ Len(FramedRequest) = 4 + Len(data)
         /\ SubSeq(FramedRequest, 5, 4 + Len(data)) = data
<1>1. data \in Seq(Nat) /\ Len(data) < Width /\ _deserialize_request(data) = Asked
  BY Zenon DEF RequestsReadBack, Asked
<1>2. FramedRequest = (<<>> \o Digits(Len(data))) \o data
  BY Appended, Zenon DEF FramedRequest
<1> QED
  BY <1>1, <1>2, FrameReadBack, Zenon

(* The wrapper and its frame at the start.                                 *)
LEMMA ConversationInit ==
  ASSUME RequestsReadBack, Init
  PROVE  Conversation
<1>1. FramedRequest \in Seq(Nat) /\ Len(FramedRequest) \in Nat
  <2>1. argv \in Calls
    BY DEF Init
  <2>2. FramedRequest \in Seq(Nat)
    BY <2>1, FrameOfCall, Zenon
  <2> QED
    BY <2>2
<1>2. 0 \in 0..Len(FramedRequest) /\ SubSeq(FramedRequest, 1, 0) = <<>>
  BY <1>1
<1>3. FrameIsCut
  BY <1>2 DEF Init, FrameIsCut
<1> QED
  BY <1>3 DEF Init, Conversation, RequestIsHeard, ResponseIsFramed, ExitIsResponse, Heard

(* The call stays what it is, and so does its frame.                       *)
LEMMA SameFrame ==
  ASSUME [Next]_vars
  PROVE  argv' = argv /\ Asked' = Asked /\ FramedRequest' = FramedRequest
<1>1. argv' = argv
  BY DEF Next, vars, Wrapper, handle_session, main, WriteRest, ReadResponse, Killed,
         start_ipc_manager, stop_ipc_manager, accept_loop, ReadRequest, Classify, connect_to_server,
         RemoteAnswers, _send_required_file, perform_local_compilation, FillsPipe, Conclude, RunHere,
         Reply, test_handle_compiler_call, wrapperVars
<1>2. Asked' = Asked
  BY <1>1, Zenon DEF Asked, Texts
<1>3. FramedRequest' = FramedRequest
  BY <1>2, Zenon DEF FramedRequest
<1> QED
  BY <1>1, <1>2, <1>3

(* A sequence is put together from its two parts.                          *)
LEMMA PutTogether ==
  ASSUME NEW F \in Seq(Nat), NEW n \in 1..Len(F)
  PROVE  /\ SubSeq(F, n + 1, Len(F)) \in Seq(Nat)
         /\ SubSeq(F, 1, n) \o SubSeq(F, n + 1, Len(F)) = F
<1> DEFINE a == SubSeq(F, 1, n)
           b == SubSeq(F, n + 1, Len(F))
           m == Len(F) - n
<1>1. n \in Nat /\ m \in Nat /\ n + m = Len(F) /\ 0 + n = n /\ 0 + n <= Len(F) /\ 0 + 1 = 1
  OBVIOUS
<1>2. a \in Seq(Nat) /\ Len(a) = n /\ \A i \in 1..n : a[i] = F[i]
  OBVIOUS
<1>3. b \in Seq(Nat) /\ Len(b) = m /\ \A i \in 1..m : b[i] = F[n + i]
  <2> HIDE DEF m
  <2>1. n + m <= Len(F)
    BY <1>1
  <2>2. /\ SubSeq(F, n + 1, n + m) \in Seq(Nat) /\ Len(SubSeq(F, n + 1, n + m)) = m
        /\ \A i \in 1..m : SubSeq(F, n + 1, n + m)[i] = F[n + i]
    BY <1>1, <2>1, PartOf, Zenon
  <2> QED
    BY <1>1, <2>2, Zenon
<1> HIDE DEF a, b
<1>4. /\ a \o b \in Seq(Nat) /\ Len(a \o b) = Len(a) + Len(b)
      /\ \A i \in 1..Len(a) : (a \o b)[i] = a[i]
      /\ \A i \in 1..Len(b) : (a \o b)[Len(a) + i] = b[i]
  BY <1>2, <1>3, JoinedAt, Zenon
<1> DEFINE ab == a \o b
<1> HIDE DEF ab
<1>5. ab \in Seq(Nat) /\ Len(ab) = Len(F)
  BY <1>1, <1>2, <1>3, <1>4 DEF ab
<1>6. ASSUME NEW i \in 1..Len(F) PROVE ab[i] = F[i]
  <2>1. CASE i <= n
    <3>1. i \in 1..Len(a)
      BY <1>2, <2>1
    <3>2. ab[i] = a[i]
      BY <1>4, <3>1, Zenon DEF ab
    <3> QED
      BY <1>2, <2>1, <3>2
  <2>2. CASE i > n
    <3>1. PICK j \in 1..m : i = n + j
      <4>1. i - n \in 1..m /\ i = n + (i - n)
        BY <1>1, <2>2
      <4> QED
        BY <4>1
    <3>2. ab[Len(a) + j] = b[j]
      BY <1>3, <1>4, <3>1, Zenon DEF ab
    <3> QED
      BY <1>2, <1>3, <3>1, <3>2
  <2> QED
    BY <1>1, <2>1, <2>2
<1>7. ab = F
  BY <1>5, <1>6, SeqEqual
<1> QED
  BY <1>3, <1>7 DEF ab, a, b

(* The wrapper finds in the daemon's frame the response that was framed.   *)
LEMMA AnswerReadBack ==
  ASSUME NEW resp, IsAnswer(resp), NEW frame, frame = FrameOf(_serialize_response(resp))
  PROVE  deserialize_response(SubSeq(frame, 5, 4 + read_u32(frame, 0))) = resp
<1> DEFINE code == resp.compiler_exit_code
           out == resp.stdout_content
           err == resp.stderr_content
           data == _serialize_response(resp)
<1>1. /\ resp = Response(code, out, err)
      /\ code \in ExitCodes /\ out \in Seq(Nat) /\ err \in Seq(Nat)
      /\ 12 + Len(out) + Len(err) < Width
  BY Zenon DEF IsAnswer
<1>2. code \in Int /\ 0 - Width \div 2 <= code /\ code < Width \div 2
  BY <1>1, OutputAssumption DEF OutputAssumption
<1> HIDE DEF code, out, err
<1>3. data = _serialize_response(Response(code, out, err))
  BY <1>1, Zenon
<1> HIDE DEF data
<1>4. /\ data \in Seq(Nat) /\ Len(data) < Width
      /\ deserialize_response(data) = Response(code, out, err)
  BY <1>1, <1>2, <1>3, ResponseReadBack, Zenon
<1>5. frame = (<<>> \o Digits(Len(data))) \o data
  BY Appended, Zenon DEF FrameOf, data
<1>6. read_u32(frame, 0) = Len(data) /\ SubSeq(frame, 5, 4 + Len(data)) = data
  BY <1>4, <1>5, FrameReadBack, Zenon
<1> QED
  BY <1>1, <1>4, <1>6, Zenon

(* What a compiler has printed makes a response, in whatever order the     *)
(* daemon takes the two streams.                                           *)
LEMMA Answers ==
  ASSUME NEW code \in ExitCodes
  PROVE  /\ IsAnswer(Response(code, Output["server"].err, Output["server"].out))
         /\ IsAnswer(Response(code, Output["session"].out, Output["session"].err))
         /\ IsAnswer(Response(code, Output["client"].out, Output["client"].err))
<1>1. ASSUME NEW out \in Seq(Nat), NEW err \in Seq(Nat), 12 + Len(out) + Len(err) < Width
      PROVE  IsAnswer(Response(code, out, err))
  BY <1>1 DEF IsAnswer, Response
<1>2. ASSUME NEW place \in {"server", "session", "client"}
      PROVE  /\ Output[place].out \in Seq(Nat) /\ Output[place].err \in Seq(Nat)
             /\ 12 + Len(Output[place].out) + Len(Output[place].err) < Width
             /\ 12 + Len(Output[place].err) + Len(Output[place].out) < Width
  <2>1. /\ Output[place].out \in Seq(Nat) /\ Output[place].err \in Seq(Nat)
        /\ 12 + Len(Output[place].out) + Len(Output[place].err) < Width
    BY OutputAssumption, Zenon DEF OutputAssumption
  <2> DEFINE o == Len(Output[place].out)
             e == Len(Output[place].err)
  <2>2. o \in Nat /\ e \in Nat /\ Width \in Nat
    BY <2>1, BaseAssumption DEF BaseAssumption, Width, Cube, Square
  <2>3. 12 + o + e < Width
    BY <2>1
  <2> HIDE DEF o, e
  <2>4. 12 + e + o < Width
    BY <2>2, <2>3
  <2> QED
    BY <2>1, <2>4, Zenon DEF o, e
<1> QED
  BY <1>1, <1>2, Zenon

(* Every step of the wrapper and of the daemon keeps the conversation.     *)
LEMMA ConversationStep ==
  ASSUME RequestsReadBack, Conversation, [Next]_vars
  PROVE  Conversation'
<1> DEFINE data == serialize_request(Asked)
           F == FramedRequest
<1>1. argv' = argv /\ Asked' = Asked /\ FramedRequest' = F
  BY SameFrame
<1>2. argv \in Calls
  BY DEF Conversation, FrameIsCut
<1>3. /\ data \in Seq(Nat) /\ Len(data) \in Nat /\ Len(data) < Width
      /\ _deserialize_request(data) = Asked /\ F = (<<>> \o Digits(Len(data))) \o data
      /\ F \in Seq(Nat) /\ Len(F) = 4 + Len(data) /\ SubSeq(F, 5, 4 + Len(data)) = data
  BY <1>2, FrameOfCall, Zenon
<1>4. Len(F) \in Nat
  BY <1>3
<1> USE DEF Conversation
<1>5. CASE main
  <2>1. session = "none" /\ up = <<>> /\ down = <<>> /\ exit = None /\ wrapper = "start"
    BY <1>5 DEF main, FrameIsCut, ResponseIsFramed, ExitIsResponse
  <2>2. UNCHANGED sessionVars
    BY <1>5 DEF main
  <2>3. CASE wrapper' = "exited" /\ UNCHANGED <<up, rest>> /\ exit'.compiler_exit_code = 1
    <3>1. FrameIsCut'
      BY <1>1, <2>1, <2>2, <2>3 DEF FrameIsCut, sessionVars
    <3>2. RequestIsHeard'
      BY <1>1, <2>1, <2>2, <2>3 DEF RequestIsHeard, sessionVars, Heard
    <3>3. ResponseIsFramed'
      BY <2>1, <2>2 DEF ResponseIsFramed, sessionVars
    <3>4. ExitIsResponse'
      BY <2>1, <2>2, <2>3 DEF ExitIsResponse, sessionVars
    <3> QED
      BY <3>1, <3>2, <3>3, <3>4
  <2>4. CASE /\ wrapper' = "writing" /\ UNCHANGED exit
             /\ \E left \in Cuts \cup {0} :
                    LET n == Len(FramedRequest) - left IN
                    /\ n > 0
                    /\ up' = SubSeq(FramedRequest, 1, n)
                    /\ rest' = SubSeq(FramedRequest, n + 1, Len(FramedRequest))
    <3>1. PICK left \in Cuts \cup {0} :
            /\ Len(F) - left > 0
            /\ up' = SubSeq(F, 1, Len(F) - left)
            /\ rest' = SubSeq(F, Len(F) - left + 1, Len(F))
      BY <2>4, Zenon
    <3> DEFINE n == Len(F) - left
    <3>2. n \in 1..Len(F)
      <4>1. left \in Nat
        BY TextAssumption DEF TextAssumption
      <4> QED
        BY <1>4, <3>1, <4>1
    <3>3. up' = SubSeq(F, 1, n) /\ rest' = SubSeq(F, n + 1, Len(F))
      BY <3>1
    <3> HIDE DEF n
    <3>4. rest' \in Seq(Nat) /\ up' \o rest' = F
      BY <1>3, <3>2, <3>3, PutTogether
    <3>5. FrameIsCut'
      <4>1. n \in 0..Len(F)
        BY <1>4, <3>2
      <4> QED
        BY <1>1, <1>2, <2>1, <2>2, <2>4, <3>3, <3>4, <4>1 DEF FrameIsCut, sessionVars
    <3>6. RequestIsHeard'
      BY <1>1, <2>1, <2>2 DEF RequestIsHeard, sessionVars, Heard
    <3>7. ResponseIsFramed'
      BY <2>1, <2>2 DEF ResponseIsFramed, sessionVars
    <3>8. ExitIsResponse'
      BY <2>1, <2>4 DEF ExitIsResponse
    <3> QED
      BY <3>5, <3>6, <3>7, <3>8
  <2>5. Response(1, <<>>, <<>>).compiler_exit_code = 1 /\ Broken.compiler_exit_code = 1
    BY DEF Broken, Response
  <2> QED
    BY <1>5, <2>3, <2>4, <2>5, Zenon DEF main, Exit
<1>6. CASE WriteRest
  <2>1. /\ wrapper = "writing" /\ up \o rest = F /\ exit = None
    BY <1>6 DEF WriteRest, FrameIsCut, ExitIsResponse
  <2>2. UNCHANGED sessionVars /\ rest' = <<>> /\ <<>> \in Seq(Nat)
    BY <1>6 DEF WriteRest
  <2>3. PICK n \in 0..Len(F) : up = SubSeq(F, 1, n)
    BY DEF FrameIsCut
  <2>4. up \in Seq(Nat) /\ rest \in Seq(Nat)
    <3> HIDE DEF F
    <3>1. up \in Seq(Nat)
      BY <1>3, <2>3
    <3> QED
      BY <3>1 DEF FrameIsCut
  <2>5. CASE PeerGone /\ rest # <<>> /\ wrapper' = "exited" /\ exit' = Broken /\ UNCHANGED up
    <3>1. up # F
      BY <1>3, <2>1, <2>4, <2>5
    <3>2. FrameIsCut'
      BY <1>1, <2>2, <2>5 DEF FrameIsCut, sessionVars
    <3>3. RequestIsHeard'
      BY <1>1, <2>2, <2>5 DEF RequestIsHeard, sessionVars
    <3>4. ResponseIsFramed'
      BY <1>1, <2>2, <2>5 DEF ResponseIsFramed, sessionVars
    <3>5. ExitIsResponse'
      <4>1. down = <<>>
        BY <3>1 DEF ResponseIsFramed
      <4>2. exit'.compiler_exit_code = 1
        BY <2>5 DEF Broken, Response
      <4> QED
        BY <2>2, <2>5, <4>1, <4>2 DEF ExitIsResponse, PeerGone, sessionVars
    <3> QED
      BY <3>2, <3>3, <3>4, <3>5
  <2>6. CASE wrapper' = "reading" /\ up' = up \o rest /\ UNCHANGED exit
    <3>1. up' = F /\ F = SubSeq(F, 1, Len(F)) /\ Len(F) \in 0..Len(F)
      BY <1>3, <1>4, <2>1, <2>6
    <3>2. up' = <<>> => up = <<>>
      BY <1>3, <2>3, <3>1
    <3>3. FrameIsCut'
      BY <1>1, <2>2, <2>6, <3>1, <3>2 DEF FrameIsCut, sessionVars
    <3>4. RequestIsHeard'
      BY <1>1, <2>2, <3>1 DEF RequestIsHeard, sessionVars
    <3>5. ResponseIsFramed'
      BY <1>1, <2>2, <3>1 DEF ResponseIsFramed, sessionVars
    <3>6. ExitIsResponse'
      BY <2>1, <2>6 DEF ExitIsResponse
    <3> QED
      BY <3>3, <3>4, <3>5, <3>6
  <2> QED
    BY <1>6, <2>5, <2>6, Zenon DEF WriteRest, Exit
<1>7. CASE ReadResponse
  <2>1. wrapper = "reading" /\ wrapper' = "exited" /\ exit = None
    BY <1>7 DEF ReadResponse, ExitIsResponse, Exit
  <2>2. UNCHANGED <<rest, up, sessionVars>>
    BY <1>7 DEF ReadResponse
  <2>3. FrameIsCut'
    BY <1>1, <2>1, <2>2 DEF FrameIsCut, sessionVars
  <2>4. RequestIsHeard'
    BY <1>1, <2>2 DEF RequestIsHeard, sessionVars
  <2>5. ResponseIsFramed'
    BY <1>1, <2>2 DEF ResponseIsFramed, sessionVars
  <2>6. ExitIsResponse'
    <3>1. CASE down # <<>> /\ exit' = deserialize_response(SubSeq(down, 5, 4 + read_u32(down, 0)))
      <4>1. /\ session = "closed" /\ IsAnswer(response)
            /\ down = FrameOf(_serialize_response(response))
        BY <3>1 DEF ResponseIsFramed
      <4>2. exit' = response
        BY <3>1, <4>1, AnswerReadBack, Zenon
      <4> QED
        BY <2>1, <2>2, <3>1, <4>1, <4>2 DEF ExitIsResponse, sessionVars
    <3>2. CASE down = <<>> /\ PeerGone /\ exit' = Broken
      <4>1. exit'.compiler_exit_code = 1
        BY <3>2 DEF Broken, Response
      <4> QED
        BY <2>1, <2>2, <3>2, <4>1 DEF ExitIsResponse, PeerGone, sessionVars
    <3> QED
      BY <1>7, <3>1, <3>2, Zenon DEF ReadResponse, Exit
  <2> QED
    BY <2>3, <2>4, <2>5, <2>6
<1>8. CASE Killed
  <2>1. /\ wrapper \in {"start", "writing", "reading"} /\ wrapper' = "killed"
        /\ UNCHANGED <<rest, exit, up, sessionVars>>
    BY <1>8 DEF Killed
  <2>2. FrameIsCut'
    BY <1>1, <2>1 DEF FrameIsCut, sessionVars
  <2>3. RequestIsHeard' /\ ResponseIsFramed'
    BY <1>1, <2>1 DEF RequestIsHeard, ResponseIsFramed, sessionVars
  <2>4. ExitIsResponse'
    BY <2>1 DEF ExitIsResponse
  <2> QED
    BY <2>2, <2>3, <2>4
<1>9. CASE UNCHANGED <<wrapperVars, up, sessionVars>>
  BY <1>1, <1>9 DEF FrameIsCut, RequestIsHeard, ResponseIsFramed, ExitIsResponse, wrapperVars,
                    sessionVars
<1>10. CASE stop_ipc_manager \/ accept_loop
  <2>1. UNCHANGED <<wrapperVars, up, down, request, response>>
    BY <1>10 DEF stop_ipc_manager, accept_loop
  <2>2. \/ session' = session
        \/ session' = "closed" /\ Connected
        \/ session = "none" /\ session' = "accepted" /\ up # <<>>
    BY <1>10, Zenon DEF stop_ipc_manager, accept_loop
  <2>3. FrameIsCut'
    BY <1>1, <2>1, <2>2 DEF FrameIsCut, Connected, wrapperVars
  <2>4. RequestIsHeard'
    BY <1>1, <2>1, <2>2 DEF RequestIsHeard, Heard
  <2>5. ResponseIsFramed'
    BY <1>1, <2>1, <2>2 DEF ResponseIsFramed
  <2>6. ExitIsResponse'
    BY <2>1, <2>2 DEF ExitIsResponse, wrapperVars
  <2> QED
    BY <2>3, <2>4, <2>5, <2>6
<1>11. CASE ReadRequest
  <2>1. session = "accepted" /\ down = <<>> /\ exit = None /\ up # <<>>
    BY <1>11 DEF ReadRequest, ResponseIsFramed, ExitIsResponse, FrameIsCut
  <2>2. UNCHANGED <<wrapperVars, up, down, response>>
    BY <1>11 DEF ReadRequest
  <2>3. session' \in {"handling", "failed"}
    BY <1>11, Zenon DEF ReadRequest
  <2>4. \/ request' = Asked /\ up = F
        \/ session' = "failed" /\ request' = request
    <3> DEFINE size == Announced(up)
    <3>1. CASE Whole(up, size) /\ request' = _deserialize_request(SubSeq(up, 5, 4 + size))
      <4>1. \E n \in 0..Len(F) : up = SubSeq(F, 1, n)
        BY DEF FrameIsCut
      <4>2. up = F
        BY <1>3, <3>1, <4>1, CutFrame, Zenon
      <4>3. size = Len(data)
        <5>1. _read_u32(F, 0) = Len(data)
          BY <1>3, FrameReadBack, Zenon
        <5> HIDE DEF F, data
        <5> QED
          BY <1>3, <4>2, <5>1 DEF Announced
      <4> QED
        BY <1>3, <3>1, <4>2, <4>3, Zenon
    <3> QED
      BY <1>11, <3>1, Zenon DEF ReadRequest, Announced
  <2>5. FrameIsCut'
    BY <1>1, <2>1, <2>2 DEF FrameIsCut, wrapperVars
  <2>6. RequestIsHeard'
    BY <1>1, <2>2, <2>3, <2>4 DEF RequestIsHeard, Heard
  <2>7. ResponseIsFramed' /\ ExitIsResponse'
    BY <2>1, <2>2, <2>3 DEF ResponseIsFramed, ExitIsResponse, wrapperVars
  <2> QED
    BY <2>5, <2>6, <2>7
<1>12. CASE \/ Classify \/ connect_to_server \/ RemoteAnswers \/ _send_required_file
            \/ perform_local_compilation \/ Conclude \/ RunHere
  <2>1. UNCHANGED <<wrapperVars, up, down, request>>
    BY <1>12 DEF Classify, connect_to_server, RemoteAnswers, _send_required_file,
                 perform_local_compilation, Conclude, RunHere
  <2>2. /\ session \in Heard /\ session' \in Heard \cup {"failed", "hung", "stuck"}
        /\ session' \in {"dispose", "reply"} => IsAnswer(response')
    <3>1. CASE Classify \/ connect_to_server
      BY <3>1, Zenon DEF Classify, connect_to_server, Heard
    <3>2. CASE RemoteAnswers \/ _send_required_file \/ perform_local_compilation
      BY <3>2, Answers, Zenon DEF RemoteAnswers, _send_required_file, perform_local_compilation,
                                  FillsPipe, process_obj_file_chunk, Heard
    <3>3. CASE Conclude
      BY <3>3, Zenon DEF Conclude, Dispose, Heard, ResponseIsFramed
    <3>4. CASE RunHere
      BY <3>4, Answers, Zenon DEF RunHere, FillsPipe, Heard
    <3> QED
      BY <1>12, <3>1, <3>2, <3>3, <3>4
  <2>3. down = <<>> /\ exit = None /\ up = F /\ request = Asked /\ up # <<>>
    BY <2>2 DEF ResponseIsFramed, ExitIsResponse, RequestIsHeard, FrameIsCut, Heard
  <2>4. FrameIsCut'
    BY <1>1, <2>1, <2>3 DEF FrameIsCut, wrapperVars
  <2>5. RequestIsHeard'
    BY <1>1, <2>1, <2>3 DEF RequestIsHeard
  <2>6. ResponseIsFramed'
    BY <2>1, <2>2, <2>3 DEF ResponseIsFramed
  <2>7. ExitIsResponse'
    BY <2>1, <2>3 DEF ExitIsResponse, wrapperVars
  <2> QED
    BY <2>4, <2>5, <2>6, <2>7
<1>13. CASE Reply
  <2>1. /\ session \in {"reply", "failed"} /\ session' = "closed"
        /\ UNCHANGED <<wrapperVars, up, request, response>>
    BY <1>13 DEF Reply, Close
  <2>2. down = <<>> /\ exit = None /\ up # <<>>
    BY <2>1 DEF ResponseIsFramed, ExitIsResponse, FrameIsCut
  <2>3. FrameIsCut'
    BY <1>1, <2>1, <2>2 DEF FrameIsCut, wrapperVars
  <2>4. RequestIsHeard'
    BY <1>1, <2>1 DEF RequestIsHeard, Heard
  <2>5. ResponseIsFramed'
    <3>1. CASE session = "reply" /\ down' = FrameOf(_serialize_response(response))
      BY <1>1, <2>1, <3>1 DEF ResponseIsFramed, RequestIsHeard, Heard, IsAnswer, FrameOf,
                              _serialize_response
    <3>2. CASE down' = down
      BY <2>1, <2>2, <3>2 DEF ResponseIsFramed
    <3> QED
      BY <1>13, <3>1, <3>2, Zenon DEF Reply, FrameOf
  <2>6. ExitIsResponse'
    BY <2>1, <2>2 DEF ExitIsResponse, wrapperVars
  <2> QED
    BY <2>3, <2>4, <2>5, <2>6
<1>14. CASE test_handle_compiler_call
  <2>1. UNCHANGED <<wrapperVars, session, up, down, request, response>>
    BY <1>14 DEF test_handle_compiler_call
  <2> QED
    BY <1>1, <2>1 DEF FrameIsCut, RequestIsHeard, ResponseIsFramed, ExitIsResponse, wrapperVars
<1>15. start_ipc_manager \/ vars' = vars => UNCHANGED <<wrapperVars, up, sessionVars>>
  BY Zenon DEF start_ipc_manager, vars, wrapperVars, sessionVars
<1> QED
  BY <1>5, <1>6, <1>7, <1>8, <1>9, <1>10, <1>11, <1>12, <1>13, <1>14, <1>15, Zenon
     DEF Next, Wrapper, handle_session

(* A sequence is one of its own elements.                                  *)
LEMMA OfItsElements ==
  ASSUME NEW S, NEW s \in Seq(S)
  PROVE  IsSequence(s)
<1>1. Len(s) \in Nat /\ DOMAIN s = 1..Len(s) /\ s = [i \in 1..Len(s) |-> s[i]]
  OBVIOUS
<1> DEFINE T == {s[i] : i \in DOMAIN s}
<1>2. \A i \in 1..Len(s) : s[i] \in T
  BY <1>1
<1> HIDE DEF T
<1>3. s \in Seq(T)
  BY <1>1, <1>2
<1> QED
  BY <1>3 DEF T, IsSequence

(* A command appended to those that were run is the last of them.          *)
LEMMA LastOfAppended ==
  ASSUME NEW s, IsSequence(s), NEW e, NEW t, t = Append(s, e)
  PROVE  IsSequence(t) /\ t # <<>> /\ Last(t) = e
<1> DEFINE R == {s[i] : i \in DOMAIN s}
           S == R \cup {e}
<1>1. s \in Seq(R)
  BY DEF IsSequence
<1> HIDE DEF R
<1>2. s \in Seq(S) /\ e \in S
  <2>1. Len(s) \in Nat /\ s = [i \in 1..Len(s) |-> s[i]] /\ \A i \in 1..Len(s) : s[i] \in R
    BY <1>1
  <2>2. \A i \in 1..Len(s) : s[i] \in S
    BY <2>1
  <2> HIDE DEF S
  <2> QED
    BY <2>1, <2>2 DEF S
<1> HIDE DEF S
<1>3. t \in Seq(S) /\ Len(t) = Len(s) + 1 /\ t[Len(s) + 1] = e /\ Len(s) \in Nat
  BY <1>2
<1>4. IsSequence(t)
  BY <1>3, OfItsElements, Zenon
<1>5. t # <<>> /\ Last(t) = e
  BY <1>3 DEF Last
<1> QED
  BY <1>4, <1>5

(* Every step keeps what is known of the commands.                         *)
LEMMA CommandsStep ==
  ASSUME CommandsKept, Conversation, Commands, [Next]_vars
  PROVE  Commands'
<1>1. argv' = argv /\ argv \in Calls
  BY SameFrame DEF Conversation, FrameIsCut
<1>2. /\ session \in {"handling", "local"} => request = Asked
      /\ session # "closed" => down = <<>>
  BY DEF Conversation, RequestIsHeard, ResponseIsFramed, Heard
<1>3. /\ Untext(Text[Path(Cwd)]).path = Cwd /\ UntextAll(Texts(argv)) = argv
  BY <1>1, WordsReadBack
<1>4. /\ Untext(Asked.current_working_dir).path = Cwd /\ UntextAll(Asked.cmd_line_args) = argv
  <2>1. Asked.current_working_dir = Text[Path(Cwd)] /\ Asked.cmd_line_args = Texts(argv)
    BY DEF Asked, Request
  <2> QED
    BY <1>3, <2>1, Zenon
<1>5. CASE UNCHANGED <<session, down, call, remote, response, ran>>
  BY <1>1, <1>5 DEF Commands, CallIsTheUsers, LastRunIsAnswered, SameCall
<1>6. CASE stop_ipc_manager \/ accept_loop \/ ReadRequest
  <2>1. /\ UNCHANGED <<down, call, remote, response, ran>>
        /\ \/ session' = session
           \/ session' = "closed"
           \/ session # "closed" /\ session' \in {"accepted", "handling", "failed"}
    BY <1>6, Zenon DEF stop_ipc_manager, accept_loop, ReadRequest
  <2> QED
    BY <1>1, <1>2, <2>1 DEF Commands, CallIsTheUsers, LastRunIsAnswered, SameCall
<1>7. CASE Classify
  <2>1. /\ session = "handling" /\ UNCHANGED <<down, ran>>
        /\ call' = initialize_compiler_call(Untext(request.current_working_dir).path,
                                            UntextAll(request.cmd_line_args))
        /\ session' = IF call'.type = "COMPILE" THEN "connecting" ELSE "local"
    BY <1>7 DEF Classify
  <2>2. call' = initialize_compiler_call(Cwd, argv)
    BY <1>2, <1>4, <2>1, Zenon
  <2> QED
    BY <1>1, <1>2, <2>1, <2>2 DEF Commands, CallIsTheUsers, LastRunIsAnswered
<1>8. CASE connect_to_server
  <2>1. /\ session = "connecting" /\ UNCHANGED <<down, ran, call>>
        /\ \/ /\ call.src \in Files /\ session' = "remote"
              /\ remote'.cmd = preprocess_compiler_call(call)
           \/ session' = "failed"
    BY <1>8 DEF connect_to_server
  <2> QED
    BY <1>1, <1>2, <2>1 DEF Commands, CallIsTheUsers, LastRunIsAnswered
<1>9. CASE RemoteAnswers \/ _send_required_file \/ perform_local_compilation
  <2>1. session = "remote" /\ UNCHANGED <<down, call, remote>>
    BY <1>9, Zenon DEF RemoteAnswers, _send_required_file, perform_local_compilation
  <2>2. /\ call = initialize_compiler_call(Cwd, argv) /\ call.type = "COMPILE" /\ call.src \in Files
        /\ remote.cmd = preprocess_compiler_call(call)
    BY <2>1 DEF Commands, CallIsTheUsers
  <2>3. /\ Repeats(argv, "server", remote.cmd.cwd, remote.cmd.args)
        /\ Repeats(argv, "session", call.cwd, call.args)
    BY <1>1, <2>2, Zenon DEF CommandsKept
  <2>4. CASE session' \in {"failed", "hung", "stuck"} /\ UNCHANGED <<ran, response>>
    BY <1>1, <1>2, <2>1, <2>4 DEF Commands, CallIsTheUsers, LastRunIsAnswered, SameCall
  <2>5. ASSUME NEW code, NEW where, NEW cwd, NEW args, session' = "dispose",
               ran' = Append(ran, [where |-> where, cwd |-> cwd, args |-> args, code |-> code]),
               response'.compiler_exit_code = code, Repeats(argv, where, cwd, args)
        PROVE  Commands'
    <3> DEFINE e == [where |-> where, cwd |-> cwd, args |-> args, code |-> code]
    <3>1. IsSequence(ran') /\ ran' # <<>> /\ Last(ran') = e
      <4>1. IsSequence(ran) /\ ran' = Append(ran, e)
        BY <2>5 DEF Commands, LastRunIsAnswered
      <4> HIDE DEF e
      <4> QED
        BY <4>1, LastOfAppended, Zenon
    <3>2. e.where = where /\ e.cwd = cwd /\ e.args = args /\ e.code = code
      OBVIOUS
    <3> HIDE DEF e
    <3>3. SameCall(Last(ran))' /\ Last(ran').code = response'.compiler_exit_code
      BY <1>1, <2>5, <3>1, <3>2, Zenon DEF SameCall
    <3>4. CallIsTheUsers'
      BY <2>5 DEF CallIsTheUsers
    <3>5. LastRunIsAnswered'
      BY <1>2, <2>1, <2>5, <3>1, <3>3 DEF LastRunIsAnswered
    <3> QED
      BY <3>4, <3>5 DEF Commands
  <2>6. CASE RemoteAnswers
    <3>1. ASSUME NEW code \in ExitCodes, session' = "dispose",
                 ran' = Append(ran, [where |-> "server", cwd |-> remote.cmd.cwd,
                                     args |-> remote.cmd.args, code |-> code]),
                 response' = Response(code, Output["server"].err, Output["server"].out)
          PROVE  Commands'
      <4>1. response'.compiler_exit_code = code
        BY <3>1 DEF Response
      <4> QED
        BY <2>3, <2>5, <3>1, <4>1, Zenon
    <3> QED
      BY <2>4, <2>6, <3>1, Zenon DEF RemoteAnswers, Run, process_obj_file_chunk, FillsPipe
  <2>7. CASE perform_local_compilation
    <3>1. ASSUME NEW code \in ExitCodes, session' = "dispose",
                 ran' = Append(ran, [where |-> "session", cwd |-> call.cwd,
                                     args |-> call.args, code |-> code]),
                 response' = Response(code, Output["session"].out, Output["session"].err)
          PROVE  Commands'
      <4>1. response'.compiler_exit_code = code
        BY <3>1 DEF Response
      <4> QED
        BY <2>3, <2>5, <3>1, <4>1, Zenon
    <3> QED
      BY <2>4, <2>7, <3>1, Zenon DEF perform_local_compilation, Run, FillsPipe
  <2>8. CASE _send_required_file
    BY <2>4, <2>8, Zenon DEF _send_required_file
  <2> QED
    BY <1>9, <2>6, <2>7, <2>8
<1>10. CASE Conclude
  <2>1. /\ session = "dispose" /\ UNCHANGED <<down, call, remote, response, ran>>
        /\ session' = IF response.compiler_exit_code # 0 THEN "local" ELSE "reply"
    BY <1>10 DEF Conclude, Dispose
  <2> QED
    BY <1>1, <1>2, <2>1 DEF Commands, CallIsTheUsers, LastRunIsAnswered, SameCall
<1>11. CASE RunHere
  <2>1. session = "local" /\ UNCHANGED <<down, call, remote>>
    BY <1>11 DEF RunHere
  <2>2. CASE session' \in {"failed", "hung"} /\ UNCHANGED <<ran, response>>
    BY <1>1, <1>2, <2>1, <2>2 DEF Commands, CallIsTheUsers, LastRunIsAnswered, SameCall
  <2>3. ASSUME NEW code \in ExitCodes, session' = "reply",
               Run("client", Untext(request.current_working_dir).path,
                   Tail(UntextAll(request.cmd_line_args)), code),
               response' = Response(code, Output["client"].out, Output["client"].err)
        PROVE  Commands'
    <3> DEFINE e == [where |-> "client", cwd |-> Cwd, args |-> Tail(argv), code |-> code]
    <3>1. ran' = Append(ran, e)
      BY <1>2, <1>4, <2>1, <2>3, Zenon DEF Run
    <3>2. IsSequence(ran') /\ ran' # <<>> /\ Last(ran') = e
      <4>1. IsSequence(ran)
        BY DEF Commands, LastRunIsAnswered
      <4> HIDE DEF e
      <4> QED
        BY <3>1, <4>1, LastOfAppended, Zenon
    <3>3. e.where = "client" /\ e.cwd = Cwd /\ e.args = Tail(argv) /\ e.code = code
      OBVIOUS
    <3> HIDE DEF e
    <3>4. Repeats(argv, "client", Cwd, Tail(argv))
      BY DEF Repeats
    <3>5. SameCall(Last(ran))' /\ Last(ran').where = "client"
      BY <1>1, <3>2, <3>3, <3>4, Zenon DEF SameCall
    <3>6. Last(ran').code = response'.compiler_exit_code
      BY <2>3, <3>2, <3>3 DEF Response
    <3> QED
      BY <2>3, <3>2, <3>5, <3>6 DEF Commands, CallIsTheUsers, LastRunIsAnswered
  <2> QED
    BY <1>11, <2>2, <2>3, Zenon DEF RunHere, FillsPipe
<1>12. CASE Reply
  <2>1. /\ session \in {"reply", "failed"} /\ session' = "closed"
        /\ UNCHANGED <<call, remote, response, ran>> /\ (session = "failed" => down' = down)
    BY <1>12 DEF Reply, Close
  <2> QED
    BY <1>1, <1>2, <2>1 DEF Commands, CallIsTheUsers, LastRunIsAnswered, SameCall
<1>13. main \/ WriteRest \/ ReadResponse \/ Killed \/ start_ipc_manager
          \/ test_handle_compiler_call \/ vars' = vars
            => UNCHANGED <<session, down, call, remote, response, ran>>
  BY Zenon DEF main, WriteRest, ReadResponse, Killed, start_ipc_manager, test_handle_compiler_call,
               vars, sessionVars
<1> QED
  BY <1>5, <1>6, <1>7, <1>8, <1>9, <1>10, <1>11, <1>12, <1>13, Zenon
     DEF Next, Wrapper, handle_session

-----------------------------------------------------------------------------

(* The daemon handles the directory and the arguments the wrapper was      *)
(* started with, however the frame was cut and whenever the daemon stops,  *)
(* and the wrapper prints and returns what the daemon answered, provided   *)
(* the daemon's _deserialize_request reads what the wrapper's              *)
(* serialize_request has written.                                          *)
THEOREM RequestsAndResponsesArrive ==
  ASSUME RequestsReadBack
  PROVE  Spec => []FramingAgrees
<1>1. Init => Conversation
  BY ConversationInit
<1>2. Conversation /\ [Next]_vars => Conversation'
  BY ConversationStep
<1>3. Conversation => FramingAgrees
  BY DEF Conversation, RequestIsHeard, ExitIsResponse, FramingAgrees
<1> QED
  BY <1>1, <1>2, <1>3, PTL DEF Spec

(* The wrapper returns 0 only if the last command that was run for it      *)
(* succeeded and was the user's, and a compiler's failure only after the   *)
(* user's command line has failed on the client, provided the request is   *)
(* read back and the functions on command lines keep a command.            *)
THEOREM ExitCodesAreTheUsers ==
  ASSUME RequestsReadBack, CommandsKept
  PROVE  Spec => []ExitCodeSpeaksOfCall
<1>1. Init => Conversation /\ Commands
  BY ConversationInit DEF Init, Commands, CallIsTheUsers, LastRunIsAnswered, IsSequence
<1>2. Conversation /\ Commands /\ [Next]_vars => (Conversation /\ Commands)'
  BY ConversationStep, CommandsStep
<1>3. Conversation /\ Commands => ExitCodeSpeaksOfCall
  <2> SUFFICES ASSUME Conversation, Commands PROVE ExitCodeSpeaksOfCall
    OBVIOUS
  <2>1. exit # None /\ down # <<>> => /\ exit = response /\ session = "closed"
    BY DEF Conversation, ExitIsResponse, ResponseIsFramed
  <2>2. exit # None /\ down = <<>> => exit.compiler_exit_code = 1
    BY DEF Conversation, ExitIsResponse
  <2> QED
    BY <2>1, <2>2 DEF Commands, LastRunIsAnswered, ExitCodeSpeaksOfCall
<1> QED
  BY <1>1, <1>2, <1>3, PTL DEF Spec

(* A server that has none of the files of a call asks for each by the path *)
(* the client has declared it with if that path is absolute, and by        *)
(* another name if it is relative; the files may have names of both kinds. *)
THEOREM ServersAskForDeclaredFiles == Spec => []AskedIsDeclared
<1>1. Init => AskedIsDeclared
  BY DEF Init, AskedIsDeclared
<1>2. AskedIsDeclared /\ [Next]_vars => AskedIsDeclared'
  <2> SUFFICES ASSUME AskedIsDeclared, [Next]_vars PROVE AskedIsDeclared'
    OBVIOUS
  <2>1. CASE connect_to_server /\ call.src \in Files
    <3>1. remote'.files = AskedFor(call.src)
      BY <2>1 DEF connect_to_server
    <3>2. Declared(call.src) \subseteq Files
      BY <2>1, PathAssumption DEF PathAssumption, Declared
    <3>3. DOMAIN remote'.files = Declared(call.src)
      BY <3>1 DEF AskedFor
    <3>4. ASSUME NEW f \in Declared(call.src)
          PROVE  remote'.files[f] = f <=> IsAbsolute(f)
      <4>1. remote'.files[f]
                = cnvt_server_to_client_path(ServerDir, cnvt_client_to_server_path(ServerDir, f))
        BY <3>1 DEF AskedFor
      <4> QED
        BY <3>2, <4>1, PathThereAndBack, Zenon
    <3> QED
      BY <3>3, <3>4, Zenon DEF AskedIsDeclared
  <2>2. CASE remote' = remote
    BY <2>2 DEF AskedIsDeclared
  <2>3. remote' = remote \/ (connect_to_server /\ call.src \in Files)
    BY DEF Next, vars, Wrapper, handle_session, main, WriteRest, ReadResponse, Killed,
           start_ipc_manager, stop_ipc_manager, accept_loop, ReadRequest, Classify,
           connect_to_server, RemoteAnswers, _send_required_file, perform_local_compilation,
           FillsPipe, Conclude, RunHere, Reply, test_handle_compiler_call, sessionVars
  <2> QED
    BY <2>1, <2>2, <2>3
<1> QED
  BY <1>1, <1>2, PTL DEF Spec
==============================================================================
