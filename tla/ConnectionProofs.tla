-------------------------- MODULE ConnectionProofs --------------------------
(***************************************************************************)
(* Proofs about Connection for any messages, file, results and pieces: one *)
(* writer for each queue, and the order in which messages are delivered.   *)
(***************************************************************************)
EXTENDS Connection, Integers, SequenceTheorems, TLAPS

-----------------------------------------------------------------------------
(* Frames in a stream of bytes.                                            *)

(* The bytes hold the frames g + 1 to k one after the other: pos[i] is     *)
(* where frame i ends. The first may have begun before the bytes do.       *)
Placed(frames, bytes, g, k, pos) ==
    /\ pos[k] = Len(bytes)
    /\ \A i \in g..k : pos[i] <= Len(bytes)
    /\ \A i \in g..(k - 1) :
        frames[i + 1] \in Seq(Nat) /\ pos[i + 1] = pos[i] + Len(frames[i + 1])
    /\ \A i \in g..(k - 1) : \A j \in 1..Len(frames[i + 1]) :
        pos[i] + j >= 1 => bytes[pos[i] + j] = frames[i + 1][j]

(* The same, for some positions; the first frame begins after position     *)
(* base, which is negative when its first bytes have been read.            *)
Aligned(frames, bytes, g, k, base) ==
    \E pos \in [Nat -> Int] : pos[g] = base /\ Placed(frames, bytes, g, k, pos)

(* Joining bytes adds their lengths.                                       *)
LEMMA JoinedLen ==
  ASSUME NEW a \in Seq(Nat), NEW b \in Seq(Nat)
  PROVE  a \o b \in Seq(Nat) /\ Len(a \o b) = Len(a) + Len(b) /\ Len(a) \in Nat /\ Len(b) \in Nat
  OBVIOUS

(* What the joined bytes are, place by place.                              *)
LEMMA JoinedAt ==
  ASSUME NEW a \in Seq(Nat), NEW b \in Seq(Nat)
  PROVE  /\ \A x \in 1..Len(a) : (a \o b)[x] = a[x]
         /\ \A x \in 1..Len(b) : (a \o b)[Len(a) + x] = b[x]
<1>1. ASSUME NEW x \in 1..Len(a) PROVE (a \o b)[x] = a[x]
  BY JoinedLen
<1>2. ASSUME NEW x \in 1..Len(b) PROVE (a \o b)[Len(a) + x] = b[x]
  <2>1. /\ Len(a) + x \in 1..(Len(a) + Len(b)) /\ ~(Len(a) + x <= Len(a))
        /\ (Len(a) + x) - Len(a) = x
    BY JoinedLen
  <2> QED
    BY <2>1, ConcatProperties
<1> QED
  BY <1>1, <1>2

(* Bytes are joined in any grouping.                                       *)
LEMMA JoinedThrice ==
  ASSUME NEW a \in Seq(Nat), NEW b \in Seq(Nat), NEW c \in Seq(Nat)
  PROVE  (a \o b) \o c = a \o (b \o c)
  BY ConcatAssociative, SMTT(30)

(* Reading n bytes leaves the others,                                      *)
LEMMA DroppedLen ==
  ASSUME NEW a \in Seq(Nat), NEW n \in Nat, n <= Len(a)
  PROVE  /\ SubSeq(a, n + 1, Len(a)) \in Seq(Nat) /\ Len(SubSeq(a, n + 1, Len(a))) = Len(a) - n
         /\ Len(a) \in Nat
<1>1. Len(a) \in Nat
  OBVIOUS
<1> QED
  BY <1>1

(* n places further on.                                                    *)
LEMMA DroppedAt ==
  ASSUME NEW a \in Seq(Nat), NEW n \in Nat, n <= Len(a)
  PROVE  \A x \in 1..(Len(a) - n) : SubSeq(a, n + 1, Len(a))[x] = a[x + n]
  OBVIOUS

(* No bytes hold no frames.                                                *)
LEMMA AlignedNone == \A f : Aligned(f, <<>>, 0, 0, 0)
<1> DEFINE pos == [i \in Nat |-> 0]
<1>1. pos \in [Nat -> Int] /\ pos[0] = 0 /\ Len(<<>>) = 0
  OBVIOUS
<1> HIDE DEF pos
<1>2. (\A i \in 0..0 : i = 0) /\ \A i \in 0..(0 - 1) : FALSE
  OBVIOUS
<1>3. ASSUME NEW f PROVE Placed(f, <<>>, 0, 0, pos)
  BY <1>1, <1>2 DEF Placed
<1> QED
  BY <1>1, <1>3 DEF Aligned

(* Only the frames g + 1 to k matter.                                      *)
LEMMA AlignedAgree ==
  ASSUME NEW f, NEW f2, NEW bytes, NEW g \in Nat, NEW k \in Nat, NEW base,
         \A i \in (g + 1)..k : f2[i] = f[i],
         Aligned(f, bytes, g, k, base)
  PROVE  Aligned(f2, bytes, g, k, base)
<1>1. \A i \in g..(k - 1) : f2[i + 1] = f[i + 1]
  OBVIOUS
<1>2. ASSUME NEW pos, Placed(f, bytes, g, k, pos) PROVE Placed(f2, bytes, g, k, pos)
  BY <1>1, <1>2, Zenon DEF Placed
<1> QED
  BY <1>2, Zenon DEF Aligned

(* A whole frame after aligned bytes leaves them aligned.                  *)
LEMMA AlignedAppend ==
  ASSUME NEW f, NEW bytes \in Seq(Nat), NEW g \in Nat, NEW k \in Nat, g <= k, NEW base,
         Aligned(f, bytes, g, k, base), NEW piece \in Seq(Nat), f[k + 1] = piece
  PROVE  Aligned(f, bytes \o piece, g, k + 1, base)
<1>1. PICK pos \in [Nat -> Int] : pos[g] = base /\ Placed(f, bytes, g, k, pos)
  BY DEF Aligned
<1> DEFINE more == bytes \o piece
           new == [pos EXCEPT ![k + 1] = Len(more)]
<1>n. Len(bytes) \in Nat /\ Len(piece) \in Nat
  BY JoinedLen
<1>l. Len(more) = Len(bytes) + Len(piece)
  BY JoinedLen
<1>x. \A x \in 1..Len(bytes) : more[x] = bytes[x]
  BY JoinedAt, Zenon
<1>y. \A j \in 1..Len(piece) : more[Len(bytes) + j] = piece[j]
  BY JoinedAt, Zenon
<1> DEFINE b == Len(bytes)
           m == Len(more)
<1> HIDE DEF more
<1>2. b \in Nat /\ m \in Nat /\ b <= m
  BY <1>n, <1>l
<1>3. /\ new \in [Nat -> Int] /\ new[k + 1] = Len(more)
      /\ \A i \in g..k : new[i] = pos[i] /\ pos[i] \in Int
  BY <1>2
<1> HIDE DEF new
<1>a. k \in g..k /\ g \in g..k
  OBVIOUS
<1>4. new[g] = base
  BY <1>1, <1>3, <1>a
<1>b. new[k] = Len(bytes)
  BY <1>1, <1>3, <1>a DEF Placed
<1>5. \A i \in g..(k + 1) : new[i] <= Len(more)
  <2> SUFFICES ASSUME NEW i \in g..(k + 1) PROVE new[i] <= Len(more)
    OBVIOUS
  <2>1. CASE i = k + 1
    BY <2>1, <1>2, <1>3
  <2>2. CASE i \in g..k
    <3>1. pos[i] <= b
      BY <1>1, <2>2 DEF Placed
    <3>2. new[i] = pos[i] /\ pos[i] \in Int
      BY <1>3, <2>2
    <3> HIDE DEF b, m
    <3>3. new[i] <= m
      BY <3>1, <3>2, <1>2
    <3> QED
      BY <3>3 DEF m
  <2> QED
    BY <2>1, <2>2
<1>6. \A i \in g..(k - 1) : i \in g..k /\ i + 1 \in g..k
  OBVIOUS
<1>7. ASSUME NEW i \in g..((k + 1) - 1)
      PROVE  /\ f[i + 1] \in Seq(Nat) /\ new[i + 1] = new[i] + Len(f[i + 1])
             /\ \A j \in 1..Len(f[i + 1]) : new[i] + j >= 1 => more[new[i] + j] = f[i + 1][j]
  <2>1. CASE i = k
    BY <1>n, <1>l, <1>y, <1>3, <1>b, <2>1
  <2>2. CASE i \in g..(k - 1)
    <3>1. /\ f[i + 1] \in Seq(Nat) /\ pos[i + 1] = pos[i] + Len(f[i + 1])
          /\ \A j \in 1..Len(f[i + 1]) : pos[i] + j >= 1 => bytes[pos[i] + j] = f[i + 1][j]
      BY <1>1, <2>2 DEF Placed
    <3>2. pos[i + 1] <= Len(bytes)
      BY <1>1, <1>6, <2>2 DEF Placed
    <3>3. new[i] = pos[i] /\ new[i + 1] = pos[i + 1] /\ pos[i] \in Int
      BY <1>3, <1>6, <2>2, Zenon
    <3>5. Len(f[i + 1]) \in Nat
      BY <3>1, LenProperties
    <3>4. ASSUME NEW j \in 1..Len(f[i + 1]), new[i] + j >= 1
          PROVE  more[new[i] + j] = f[i + 1][j]
      <4>1. pos[i] + j \in 1..Len(bytes)
        <5> DEFINE p == pos[i]
                   q == pos[i + 1]
                   l == Len(f[i + 1])
                   m2 == Len(bytes)
        <5>1. /\ p \in Int /\ l \in Nat /\ j \in 1..l /\ p + j >= 1 /\ q = p + l /\ q <= m2 /\ m2 \in Nat
          BY <3>1, <3>2, <3>3, <3>5, <3>4, <1>n, Zenon
        <5> HIDE DEF p, q, l, m2
        <5>2. p + j \in 1..m2
          BY <5>1
        <5> QED
          BY <5>2 DEF p, m2
      <4>2. more[pos[i] + j] = bytes[pos[i] + j] /\ pos[i] + j >= 1
        BY <3>3, <3>4, <4>1, <1>x, Zenon
      <4> QED
        BY <3>1, <3>3, <3>4, <4>2, Zenon
    <3> QED
      BY <3>1, <3>3, <3>4
  <2> QED
    BY <2>1, <2>2
<1>8. Placed(f, more, g, k + 1, new)
  BY <1>3, <1>5, <1>7 DEF Placed
<1> QED
  BY <1>3, <1>4, <1>8 DEF Aligned, more

(* Reading bytes moves every frame to the front.                           *)
LEMMA AlignedDrop ==
  ASSUME NEW f, NEW bytes \in Seq(Nat), NEW g \in Nat, NEW k \in Nat, g <= k, NEW base \in Int,
         Aligned(f, bytes, g, k, base), NEW n \in Nat, n <= Len(bytes)
  PROVE  Aligned(f, SubSeq(bytes, n + 1, Len(bytes)), g, k, base - n)
<1>1. PICK pos \in [Nat -> Int] : pos[g] = base /\ Placed(f, bytes, g, k, pos)
  BY DEF Aligned
<1> DEFINE less == SubSeq(bytes, n + 1, Len(bytes))
           new == [i \in Nat |-> pos[i] - n]
<1>2. less \in Seq(Nat) /\ Len(less) = Len(bytes) - n /\ Len(bytes) \in Nat
  BY DroppedLen
<1>x. \A x \in 1..Len(less) : less[x] = bytes[x + n]
  BY <1>2, DroppedAt, Zenon
<1> HIDE DEF less
<1>3. new \in [Nat -> Int] /\ \A i \in g..k : new[i] = pos[i] - n /\ pos[i] \in Int
  BY SMTT(30)
<1> HIDE DEF new
<1>a. k \in g..k /\ g \in g..k
  OBVIOUS
<1>4. new[g] = base - n
  BY <1>1, <1>3, <1>a
<1>b. new[k] = Len(less)
  BY <1>1, <1>2, <1>3, <1>a DEF Placed
<1>5. \A i \in g..k : new[i] <= Len(less)
  <2> SUFFICES ASSUME NEW i \in g..k PROVE new[i] <= Len(less)
    OBVIOUS
  <2>1. pos[i] <= Len(bytes)
    BY <1>1 DEF Placed
  <2>2. new[i] = pos[i] - n /\ pos[i] \in Int
    BY <1>3
  <2> QED
    BY <2>1, <2>2, <1>2, SMTT(30)
<1>6. \A i \in g..(k - 1) : i \in g..k /\ i + 1 \in g..k
  OBVIOUS
<1>7. ASSUME NEW i \in g..(k - 1)
      PROVE  /\ f[i + 1] \in Seq(Nat) /\ new[i + 1] = new[i] + Len(f[i + 1])
             /\ \A j \in 1..Len(f[i + 1]) : new[i] + j >= 1 => less[new[i] + j] = f[i + 1][j]
  <2>1. /\ f[i + 1] \in Seq(Nat) /\ pos[i + 1] = pos[i] + Len(f[i + 1])
        /\ \A j \in 1..Len(f[i + 1]) : pos[i] + j >= 1 => bytes[pos[i] + j] = f[i + 1][j]
    BY <1>1 DEF Placed
  <2>2. pos[i + 1] <= Len(bytes)
    BY <1>1, <1>6 DEF Placed
  <2>3. new[i] = pos[i] - n /\ new[i + 1] = pos[i + 1] - n /\ pos[i] \in Int
    BY <1>3, <1>6, Zenon
  <2>5. Len(f[i + 1]) \in Nat
    BY <2>1, LenProperties
  <2>4. ASSUME NEW j \in 1..Len(f[i + 1]), new[i] + j >= 1
        PROVE  less[new[i] + j] = f[i + 1][j]
    <3>1. new[i] + j \in 1..Len(less) /\ (new[i] + j) + n = pos[i] + j /\ pos[i] + j >= 1
      <4> DEFINE p == pos[i]
                 q == pos[i + 1]
                 r == new[i]
                 l == Len(f[i + 1])
                 m == Len(bytes)
      <4>1. /\ p \in Int /\ l \in Nat /\ j \in 1..l /\ r + j >= 1 /\ q = p + l /\ q <= m /\ m \in Nat
            /\ r = p - n /\ Len(less) = m - n
        BY <2>1, <2>2, <2>3, <2>4, <2>5, <1>2, Zenon
      <4> HIDE DEF p, q, r, l, m
      <4>2. r + j \in 1..(m - n) /\ (r + j) + n = p + j /\ p + j >= 1
        BY <4>1
      <4> QED
        BY <4>1, <4>2, Zenon DEF p, r
    <3>2. less[new[i] + j] = bytes[(new[i] + j) + n]
      BY <3>1, <1>x, Zenon
    <3>3. bytes[pos[i] + j] = f[i + 1][j]
      BY <2>1, <2>4, <3>1
    <3> QED
      BY <3>1, <3>2, <3>3, Zenon
  <2>6. new[i + 1] = new[i] + Len(f[i + 1])
    <3> DEFINE l == Len(f[i + 1])
    <3>1. l \in Nat /\ pos[i + 1] = pos[i] + l
      BY <2>1, <2>5
    <3> HIDE DEF l
    <3>2. new[i + 1] = new[i] + l
      BY <3>1, <2>3
    <3> QED
      BY <3>2 DEF l
  <2> QED
    BY <2>1, <2>4, <2>6, Zenon
<1>8. Placed(f, less, g, k, new)
  BY <1>b, <1>5, <1>7 DEF Placed
<1> QED
  BY <1>3, <1>4, <1>8 DEF Aligned, less

(* The first frame is at the front, and the others follow it.              *)
LEMMA AlignedNext ==
  ASSUME NEW f, NEW bytes \in Seq(Nat), NEW g \in Nat, NEW k \in Nat, g <= k, NEW base \in Int,
         Aligned(f, bytes, g, k, base), g < k
  PROVE  /\ Aligned(f, bytes, g + 1, k, base + Len(f[g + 1]))
         /\ \A j \in 1..Len(f[g + 1]) : base + j >= 1 => bytes[base + j] = f[g + 1][j]
<1>1. PICK pos \in [Nat -> Int] : pos[g] = base /\ Placed(f, bytes, g, k, pos)
  BY DEF Aligned
<1>3. /\ f[g + 1] \in Seq(Nat) /\ pos[g + 1] = base + Len(f[g + 1])
      /\ \A j \in 1..Len(f[g + 1]) : base + j >= 1 => bytes[base + j] = f[g + 1][j]
  <2>1. g \in g..(k - 1)
    OBVIOUS
  <2> QED
    BY <1>1, <2>1 DEF Placed
<1>4. \A i \in (g + 1)..k : i \in g..k
  OBVIOUS
<1>5. \A i \in (g + 1)..(k - 1) : i \in g..(k - 1)
  OBVIOUS
<1>6. Placed(f, bytes, g + 1, k, pos)
  BY <1>1, <1>4, <1>5 DEF Placed
<1> QED
  BY <1>3, <1>6 DEF Aligned

(* At the start of a frame, the bytes are the frame's.                     *)
LEMMA AlignedHead ==
  ASSUME NEW f, NEW bytes \in Seq(Nat), NEW g \in Nat, NEW k \in Nat, g < k,
         Aligned(f, bytes, g, k, 0), NEW j \in 1..Len(f[g + 1])
  PROVE  bytes[j] = f[g + 1][j]
<1>1. g <= k /\ 0 \in Int
  OBVIOUS
<1>2. \A i \in 1..Len(f[g + 1]) : 0 + i >= 1 => bytes[0 + i] = f[g + 1][i]
  BY <1>1, AlignedNext
<1>3. 0 + j = j /\ j >= 1
  OBVIOUS
<1> QED
  BY <1>2, <1>3

(* Behind a length prefix, they are the frame's without the prefix.        *)
LEMMA AlignedBody ==
  ASSUME NEW f, NEW bytes \in Seq(Nat), NEW g \in Nat, NEW k \in Nat, g < k,
         Aligned(f, bytes, g, k, 0 - 4), NEW j \in 1..Len(f[g + 1]), j > 4
  PROVE  bytes[j - 4] = f[g + 1][j]
<1>1. g <= k /\ 0 - 4 \in Int
  OBVIOUS
<1>2. \A i \in 1..Len(f[g + 1]) : (0 - 4) + i >= 1 => bytes[(0 - 4) + i] = f[g + 1][i]
  BY <1>1, AlignedNext
<1>3. (0 - 4) + j = j - 4 /\ j - 4 >= 1
  OBVIOUS
<1> QED
  BY <1>2, <1>3

(* No frames leave no bytes.                                               *)
LEMMA AlignedEnd ==
  ASSUME NEW f, NEW bytes, NEW g, NEW base, Aligned(f, bytes, g, g, base)
  PROVE  base = Len(bytes)
  BY DEF Aligned, Placed

(* The frames of some messages.                                            *)
Frames(e, messages) == [i \in DOMAIN messages |-> Framed(e, messages[i])]

(* A frame is four bytes that say the length of the payload, which is not  *)
(* empty, and the payload.                                                 *)
LEMMA FrameIs ==
  ASSUME PayloadsReadBack, NEW e \in Ends, NEW m \in Messages[e]
  PROVE  /\ Payload[e][m] \in Seq(Nat) /\ Len(Payload[e][m]) \in Nat \ {0}
         /\ Framed(e, m) \in Seq(Nat) /\ Len(Framed(e, m)) = 4 + Len(Payload[e][m])
         /\ 256 * Framed(e, m)[3] + Framed(e, m)[4] = Len(Payload[e][m])
         /\ \A j \in 1..Len(Payload[e][m]) : Framed(e, m)[4 + j] = Payload[e][m][j]
<1> DEFINE p == Payload[e][m]
           h == <<0, 0, Len(p) \div 256, Len(p) % 256>>
<1>1. p \in Seq(Nat) /\ p # <<>>
  BY DEF PayloadsReadBack
<1>2. Framed(e, m) = h \o p
  BY DEF Framed
<1> HIDE DEF p
<1>3. Len(p) \in Nat /\ Len(p) # 0
  BY <1>1
<1>4. Len(p) \div 256 \in Nat /\ Len(p) % 256 \in Nat /\ 256 * (Len(p) \div 256) + (Len(p) % 256) = Len(p)
  BY <1>3
<1>5. h \in Seq(Nat) /\ Len(h) = 4 /\ h[3] = Len(p) \div 256 /\ h[4] = Len(p) % 256
  BY <1>4
<1> HIDE DEF h
<1>6. 3 \in 1..Len(h) /\ 4 \in 1..Len(h)
  BY <1>5
<1>7. /\ h \o p \in Seq(Nat) /\ Len(h \o p) = Len(h) + Len(p)
      /\ (h \o p)[3] = h[3] /\ (h \o p)[4] = h[4]
      /\ \A j \in 1..Len(p) : (h \o p)[Len(h) + j] = p[j]
  <2>1. h \o p \in Seq(Nat) /\ Len(h \o p) = Len(h) + Len(p)
    BY <1>1, <1>5, JoinedLen
  <2>2. /\ \A x \in 1..Len(h) : (h \o p)[x] = h[x]
        /\ \A x \in 1..Len(p) : (h \o p)[Len(h) + x] = p[x]
    BY <1>1, <1>5, JoinedAt, Zenon
  <2> QED
    BY <1>6, <2>1, <2>2, Zenon
<1>8. \A j \in 1..Len(p) : (h \o p)[4 + j] = p[j]
  BY <1>5, <1>7, Zenon
<1>9. 256 * (h \o p)[3] + (h \o p)[4] = Len(p)
  BY <1>4, <1>5, <1>7
<1>10. Len(h \o p) = 4 + Len(p)
  BY <1>5, <1>7, Zenon
<1> QED
  BY <1>1, <1>2, <1>3, <1>7, <1>8, <1>9, <1>10 DEF p

(* The frames of messages, one by one.                                     *)
LEMMA FramesType ==
  ASSUME PayloadsReadBack, NEW e \in Ends, NEW messages \in Seq(Messages[e])
  PROVE  /\ Frames(e, messages) \in Seq(Seq(Nat)) /\ Len(Frames(e, messages)) = Len(messages)
         /\ \A i \in 1..Len(messages) : Frames(e, messages)[i] = Framed(e, messages[i])
<1>1. DOMAIN messages = 1..Len(messages) /\ Len(messages) \in Nat
  OBVIOUS
<1>2. \A i \in 1..Len(messages) : Framed(e, messages[i]) \in Seq(Nat)
  BY FrameIs
<1>3. Frames(e, messages) = [i \in 1..Len(messages) |-> Framed(e, messages[i])]
  BY <1>1 DEF Frames
<1> QED
  BY <1>1, <1>2, <1>3

(* Messages sent later have their frames after the others.                 *)
LEMMA FramesJoined ==
  ASSUME PayloadsReadBack, NEW e \in Ends, NEW messages \in Seq(Messages[e]),
         NEW more \in Seq(Messages[e])
  PROVE  Frames(e, messages \o more) = Frames(e, messages) \o Frames(e, more)
<1> DEFINE all == messages \o more
           A == Frames(e, messages)
           B == Frames(e, more)
<1>1. /\ all \in Seq(Messages[e]) /\ Len(all) = Len(messages) + Len(more)
      /\ Len(messages) \in Nat /\ Len(more) \in Nat
      /\ \A i \in 1..(Len(messages) + Len(more)) :
            all[i] = IF i <= Len(messages) THEN messages[i] ELSE more[i - Len(messages)]
  BY ConcatProperties
<1> HIDE DEF all
<1>2. /\ A \in Seq(Seq(Nat)) /\ Len(A) = Len(messages) /\ B \in Seq(Seq(Nat)) /\ Len(B) = Len(more)
      /\ \A i \in 1..Len(messages) : A[i] = Framed(e, messages[i])
      /\ \A i \in 1..Len(more) : B[i] = Framed(e, more[i])
  BY FramesType
<1>3. /\ Frames(e, all) \in Seq(Seq(Nat)) /\ Len(Frames(e, all)) = Len(all)
      /\ \A i \in 1..Len(all) : Frames(e, all)[i] = Framed(e, all[i])
  BY <1>1, FramesType
<1> HIDE DEF A, B
<1>4. /\ A \o B \in Seq(Seq(Nat)) /\ Len(A \o B) = Len(A) + Len(B)
      /\ \A i \in 1..(Len(A) + Len(B)) :
            (A \o B)[i] = IF i <= Len(A) THEN A[i] ELSE B[i - Len(A)]
  <2> DEFINE S == Seq(Nat)
  <2>1. A \in Seq(S) /\ B \in Seq(S)
    BY <1>2
  <2> HIDE DEF S
  <2>2. A \o B \in Seq(S) /\ Len(A \o B) = Len(A) + Len(B)
    BY <2>1, ConcatProperties
  <2>3. \A i \in 1..(Len(A) + Len(B)) :
            (A \o B)[i] = IF i <= Len(A) THEN A[i] ELSE B[i - Len(A)]
    BY <2>1, ConcatProperties
  <2> QED
    BY <2>2, <2>3 DEF S
<1>5. Len(Frames(e, all)) = Len(A \o B)
  BY <1>1, <1>2, <1>3, <1>4
<1>6. ASSUME NEW i \in 1..Len(all) PROVE Frames(e, all)[i] = (A \o B)[i]
  <2>1. i \in 1..(Len(messages) + Len(more)) /\ i \in 1..(Len(A) + Len(B))
    BY <1>1, <1>2
  <2>2. CASE i <= Len(messages)
    <3>1. i \in 1..Len(messages)
      BY <2>2, <1>1
    <3> QED
      BY <1>1, <1>2, <1>3, <1>4, <2>1, <2>2, <3>1, Zenon
  <2>3. CASE ~(i <= Len(messages))
    <3>1. i - Len(messages) \in 1..Len(more)
      BY <2>3, <2>1, <1>1
    <3> QED
      BY <1>1, <1>2, <1>3, <1>4, <2>1, <2>3, <3>1, Zenon
  <2> QED
    BY <2>2, <2>3
<1> QED
  BY <1>3, <1>4, <1>5, <1>6, SeqEqual, Zenon DEF all, A, B

(* What waits to be written is exactly the frames after the k-th.          *)
Remaining(pending, frames, k) ==
    /\ Len(pending) = Len(frames) - k
    /\ \A i \in 1..Len(pending) : pending[i] = frames[k + i]

-----------------------------------------------------------------------------
(* One direction of the connection, with its state as parameters.          *)

(* The stream from an end's send_msg to its peer's reader: with g messages *)
(* read and want bytes awaited (0: a prefix), the bytes on the wire and    *)
(* some rest are the frames g + 1 to k. While the network holds, the rest  *)
(* is what the writer has in hand and the frames after the k-th are those  *)
(* that wait. Once it is broken nothing is written any more, and only the  *)
(* bytes on the wire count.                                                *)
Carried(e, messages, g, want, bytes, broken, piece, pending) ==
    \E k \in Nat : \E rest \in Seq(Nat) :
        /\ g <= k /\ k <= Len(messages)
        /\ want # 0 => g < k /\ want = Len(Payload[e][messages[g + 1]])
        /\ Aligned(Frames(e, messages), bytes \o rest, g, k, IF want = 0 THEN 0 ELSE 0 - 4)
        /\ ~broken => rest = piece /\ Remaining(pending, Frames(e, messages), k)

(* More frames to send are more frames that wait.                          *)
LEMMA RemainingMore ==
  ASSUME NEW pending \in Seq(Seq(Nat)), NEW frames \in Seq(Seq(Nat)), NEW more \in Seq(Seq(Nat)),
         NEW k \in Nat, k <= Len(frames), Remaining(pending, frames, k)
  PROVE  Remaining(pending \o more, frames \o more, k)
<1> DEFINE S == Seq(Nat)
           P == pending \o more
           F == frames \o more
<1>1. pending \in Seq(S) /\ frames \in Seq(S) /\ more \in Seq(S)
  OBVIOUS
<1> HIDE DEF S
<1>2. /\ Len(P) = Len(pending) + Len(more)
      /\ \A i \in 1..(Len(pending) + Len(more)) :
            P[i] = IF i <= Len(pending) THEN pending[i] ELSE more[i - Len(pending)]
  BY <1>1, ConcatProperties
<1>3. /\ Len(F) = Len(frames) + Len(more)
      /\ \A i \in 1..(Len(frames) + Len(more)) :
            F[i] = IF i <= Len(frames) THEN frames[i] ELSE more[i - Len(frames)]
  BY <1>1, ConcatProperties
<1>4. Len(pending) \in Nat /\ Len(more) \in Nat /\ Len(frames) \in Nat
  BY <1>1, LenProperties
<1> HIDE DEF P, F
<1>5. Len(pending) = Len(frames) - k
  BY DEF Remaining
<1>6. ASSUME NEW i \in 1..Len(P) PROVE P[i] = F[k + i]
  <2>0. i \in Int /\ i \in 1..(Len(pending) + Len(more)) /\ k + i \in 1..(Len(frames) + Len(more))
    BY <1>2, <1>4, <1>5
  <2>1. CASE i <= Len(pending)
    <3>1. i \in 1..Len(pending) /\ k + i <= Len(frames)
      BY <2>0, <2>1, <1>4, <1>5
    <3>2. P[i] = pending[i] /\ F[k + i] = frames[k + i]
      BY <2>0, <2>1, <3>1, <1>2, <1>3, Zenon
    <3> QED
      BY <3>1, <3>2, Zenon DEF Remaining
  <2>2. CASE ~(i <= Len(pending))
    <3>1. ~(k + i <= Len(frames)) /\ (k + i) - Len(frames) = i - Len(pending)
      BY <2>0, <2>2, <1>4, <1>5
    <3> QED
      BY <2>0, <2>2, <3>1, <1>2, <1>3, Zenon
  <2> QED
    BY <2>1, <2>2
<1>7. Len(P) = Len(F) - k
  BY <1>2, <1>3, <1>4, <1>5
<1> QED
  BY <1>6, <1>7, Zenon DEF Remaining, P, F

(* The first frame that waits is the next to be written.                   *)
LEMMA RemainingTail ==
  ASSUME NEW pending \in Seq(Seq(Nat)), pending # <<>>, NEW frames \in Seq(Seq(Nat)),
         NEW k \in Nat, k <= Len(frames), Remaining(pending, frames, k)
  PROVE  /\ k + 1 <= Len(frames) /\ frames[k + 1] = Head(pending)
         /\ Remaining(Tail(pending), frames, k + 1)
<1> DEFINE S == Seq(Nat)
           T == Tail(pending)
<1>1. pending \in Seq(S) /\ frames \in Seq(S)
  OBVIOUS
<1> HIDE DEF S
<1>2. Len(pending) \in Nat /\ Len(pending) # 0 /\ Len(frames) \in Nat /\ Head(pending) = pending[1]
  BY <1>1
<1>3. Len(T) = Len(pending) - 1 /\ \A i \in 1..Len(T) : T[i] = pending[i + 1]
  BY <1>1, HeadTailProperties
<1> HIDE DEF T
<1>4. Len(pending) = Len(frames) - k /\ \A i \in 1..Len(pending) : pending[i] = frames[k + i]
  BY DEF Remaining
<1>5. k + 1 <= Len(frames)
  BY <1>2, <1>4
<1>6. 1 \in 1..Len(pending)
  BY <1>2
<1>7. Len(T) = Len(frames) - (k + 1)
  BY <1>2, <1>3, <1>4
<1>8. ASSUME NEW i \in 1..Len(T) PROVE T[i] = frames[(k + 1) + i]
  <2>1. i + 1 \in 1..Len(pending) /\ k + (i + 1) = (k + 1) + i
    BY <1>2, <1>3
  <2> QED
    BY <1>3, <1>4, <2>1
<1> QED
  BY <1>2, <1>4, <1>5, <1>6, <1>7, <1>8 DEF Remaining, T

(* A new connection carries nothing.                                       *)
LEMMA CarriedInit ==
  ASSUME NEW e \in Ends
  PROVE  Carried(e, <<>>, 0, 0, <<>>, FALSE, <<>>, <<>>)
<1>1. Frames(e, <<>>) = <<>>
  BY DEF Frames
<1>2. Remaining(<<>>, <<>>, 0)
  BY DEF Remaining
<1>3. Aligned(Frames(e, <<>>), <<>> \o <<>>, 0, 0, 0)
  <2>1. <<>> \o <<>> = <<>>
    OBVIOUS
  <2> QED
    BY <2>1, AlignedNone
<1>4. <<>> \in Seq(Nat) /\ Len(<<>>) = 0 /\ 0 <= 0 /\ 0 \in Nat
  OBVIOUS
<1>5. (IF 0 = 0 THEN 0 ELSE 0 - 4) = 0
  OBVIOUS
<1>6. Aligned(Frames(e, <<>>), <<>> \o <<>>, 0, 0, IF 0 = 0 THEN 0 ELSE 0 - 4)
  BY <1>3, <1>5
<1>7. /\ 0 <= 0 /\ 0 <= Len(<<>>)
      /\ 0 # 0 => 0 < 0 /\ 0 = Len(Payload[e][<<>>[0 + 1]])
      /\ Aligned(Frames(e, <<>>), <<>> \o <<>>, 0, 0, IF 0 = 0 THEN 0 ELSE 0 - 4)
      /\ ~FALSE => <<>> = <<>> /\ Remaining(<<>>, Frames(e, <<>>), 0)
  <2>1. 0 <= Len(<<>>)
    BY <1>4
  <2> QED
    BY <1>1, <1>2, <1>4, <1>6, <2>1, Zenon
<1> QED
  BY <1>4, <1>7, Zenon DEF Carried

(* A broken connection carries what is on the wire, whatever the writer    *)
(* does.                                                                   *)
LEMMA CarriedBroken ==
  ASSUME NEW e, NEW messages, NEW g, NEW want, NEW bytes, NEW broken, NEW piece, NEW pending,
         Carried(e, messages, g, want, bytes, broken, piece, pending)
  PROVE  \A any, left : Carried(e, messages, g, want, bytes, TRUE, any, left)
  BY Zenon DEF Carried

(* send_msg adds its frames behind those that wait.                        *)
LEMMA CarriedSend ==
  ASSUME PayloadsReadBack, NEW e \in Ends,
         NEW messages \in Seq(Messages[e]), NEW more \in Seq(Messages[e]),
         NEW g \in Nat, NEW want \in Nat, NEW bytes \in Seq(Nat), NEW broken \in BOOLEAN,
         NEW piece \in Seq(Nat), NEW pending \in Seq(Seq(Nat)),
         Carried(e, messages, g, want, bytes, broken, piece, pending)
  PROVE  Carried(e, messages \o more, g, want, bytes, broken, piece, pending \o Frames(e, more))
<1> DEFINE all == messages \o more
           F == Frames(e, messages)
           G == Frames(e, all)
           base == IF want = 0 THEN 0 ELSE 0 - 4
<1>1. /\ all \in Seq(Messages[e]) /\ Len(all) = Len(messages) + Len(more)
      /\ Len(messages) \in Nat /\ Len(more) \in Nat
  BY ConcatProperties
<1>2. \A i \in 1..Len(messages) : all[i] = messages[i]
  <2> SUFFICES ASSUME NEW i \in 1..Len(messages) PROVE all[i] = messages[i]
    OBVIOUS
  <2>1. i \in 1..(Len(messages) + Len(more)) /\ i <= Len(messages)
    BY <1>1
  <2> QED
    BY <2>1, ConcatProperties
<1>3. G = F \o Frames(e, more)
  BY FramesJoined
<1>4. F \in Seq(Seq(Nat)) /\ Len(F) = Len(messages) /\ Frames(e, more) \in Seq(Seq(Nat))
  BY FramesType
<1> HIDE DEF all
<1>5. \A i \in 1..Len(messages) : G[i] = F[i]
  <2>1. \A i \in 1..Len(messages) : G[i] = Framed(e, all[i])
    <3>1. \A i \in 1..Len(all) : G[i] = Framed(e, all[i])
      BY <1>1, FramesType
    <3>2. \A i \in 1..Len(messages) : i \in 1..Len(all)
      BY <1>1
    <3> QED
      BY <3>1, <3>2, Zenon
  <2>2. \A i \in 1..Len(messages) : F[i] = Framed(e, messages[i])
    BY FramesType
  <2> QED
    BY <2>1, <2>2, <1>2, Zenon
<1>6. PICK k \in Nat : \E rest \in Seq(Nat) :
        /\ g <= k /\ k <= Len(messages)
        /\ want # 0 => g < k /\ want = Len(Payload[e][messages[g + 1]])
        /\ Aligned(F, bytes \o rest, g, k, base)
        /\ ~broken => rest = piece /\ Remaining(pending, F, k)
  BY DEF Carried
<1>7. PICK rest \in Seq(Nat) :
        /\ g <= k /\ k <= Len(messages)
        /\ want # 0 => g < k /\ want = Len(Payload[e][messages[g + 1]])
        /\ Aligned(F, bytes \o rest, g, k, base)
        /\ ~broken => rest = piece /\ Remaining(pending, F, k)
  BY <1>6
<1> HIDE DEF F, G, base
<1>8. g <= k /\ k <= Len(all)
  BY <1>1, <1>7
<1>9. want # 0 => g < k /\ want = Len(Payload[e][all[g + 1]])
  <2>1. g < k => g + 1 \in 1..Len(messages)
    BY <1>1, <1>7
  <2> QED
    BY <2>1, <1>2, <1>7, Zenon
<1>10. Aligned(G, bytes \o rest, g, k, base)
  <2>1. \A i \in (g + 1)..k : G[i] = F[i]
    <3>1. \A i \in (g + 1)..k : i \in 1..Len(messages)
      BY <1>1, <1>7
    <3> QED
      BY <3>1, <1>5, Zenon
  <2>2. Aligned(F, bytes \o rest, g, k, base)
    BY <1>7
  <2> QED
    BY <2>1, <2>2, AlignedAgree
<1>11. ~broken => rest = piece /\ Remaining(pending \o Frames(e, more), G, k)
  <2>1. k <= Len(F)
    BY <1>4, <1>7
  <2> QED
    BY <2>1, <1>3, <1>4, <1>7, RemainingMore
<1> QED
  BY <1>8, <1>9, <1>10, <1>11, Zenon DEF Carried, all, G, base

(* A write of any piece of a frame moves it to the wire.                   *)
LEMMA CarriedPiece ==
  ASSUME NEW e \in Ends, NEW messages, NEW g, NEW want, NEW bytes \in Seq(Nat),
         NEW piece \in Seq(Nat), NEW pending, NEW n \in Nat, n <= Len(piece),
         Carried(e, messages, g, want, bytes, FALSE, piece, pending)
  PROVE  Carried(e, messages, g, want, bytes \o SubSeq(piece, 1, n), FALSE,
                 SubSeq(piece, n + 1, Len(piece)), pending)
<1> DEFINE a == SubSeq(piece, 1, n)
           b == SubSeq(piece, n + 1, Len(piece))
           base == IF want = 0 THEN 0 ELSE 0 - 4
<1>1. a \in Seq(Nat) /\ b \in Seq(Nat)
  BY DroppedLen
<1>2. a \o b = piece
  <2>1. Len(piece) \in Nat
    OBVIOUS
  <2>2. 1 \in 1..(Len(piece) + 1) /\ n \in (1 - 1)..Len(piece) /\ Len(piece) \in n..Len(piece)
    BY <2>1
  <2>3. SubSeq(piece, 1, Len(piece)) = piece
    OBVIOUS
  <2> QED
    BY <2>2, <2>3, ConcatAdjacentSubSeq
<1> HIDE DEF a, b
<1>3. (bytes \o a) \o b = bytes \o piece
  <2>1. (bytes \o a) \o b = bytes \o (a \o b)
    BY <1>1, JoinedThrice
  <2> QED
    BY <1>2, <2>1
<1>4. PICK k \in Nat :
        /\ g <= k /\ k <= Len(messages)
        /\ want # 0 => g < k /\ want = Len(Payload[e][messages[g + 1]])
        /\ Aligned(Frames(e, messages), bytes \o piece, g, k, base)
        /\ Remaining(pending, Frames(e, messages), k)
  BY Zenon DEF Carried
<1> HIDE DEF base
<1>5. Aligned(Frames(e, messages), (bytes \o a) \o b, g, k, base)
  BY <1>3, <1>4
<1> QED
  BY <1>1, <1>4, <1>5, Zenon DEF Carried, a, b, base

(* The write of the last piece is followed by the next frame, if one       *)
(* waits.                                                                  *)
LEMMA CarriedTake ==
  ASSUME PayloadsReadBack, NEW e \in Ends, NEW messages \in Seq(Messages[e]), NEW g \in Nat,
         NEW want \in Nat, NEW bytes \in Seq(Nat), NEW piece \in Seq(Nat),
         NEW pending \in Seq(Seq(Nat)),
         Carried(e, messages, g, want, bytes, FALSE, piece, pending)
  PROVE  /\ Carried(e, messages, g, want, bytes \o piece, FALSE, <<>>, pending)
         /\ pending # <<>> =>
              /\ Head(pending) # <<>>
              /\ Carried(e, messages, g, want, bytes \o piece, FALSE, Head(pending), Tail(pending))
<1> DEFINE F == Frames(e, messages)
           base == IF want = 0 THEN 0 ELSE 0 - 4
           w == bytes \o piece
<1>1. PICK k \in Nat :
        /\ g <= k /\ k <= Len(messages)
        /\ want # 0 => g < k /\ want = Len(Payload[e][messages[g + 1]])
        /\ Aligned(F, w, g, k, base)
        /\ Remaining(pending, F, k)
  BY Zenon DEF Carried
<1>2. F \in Seq(Seq(Nat)) /\ Len(F) = Len(messages)
      /\ \A i \in 1..Len(messages) : F[i] = Framed(e, messages[i])
  BY FramesType
<1>3. w \in Seq(Nat) /\ w \o <<>> = w /\ <<>> \in Seq(Nat)
  BY ConcatEmptySeq
<1> HIDE DEF F, base, w
<1>4. Carried(e, messages, g, want, w, FALSE, <<>>, pending)
  <2>1. Aligned(F, w \o <<>>, g, k, base)
    BY <1>1, <1>3
  <2> QED
    BY <1>1, <1>3, <2>1, Zenon DEF Carried, F, base
<1>5. ASSUME pending # <<>>
      PROVE  /\ Head(pending) # <<>>
             /\ Carried(e, messages, g, want, w, FALSE, Head(pending), Tail(pending))
  <2> DEFINE h == Head(pending)
             t == Tail(pending)
  <2>1. k + 1 <= Len(messages) /\ F[k + 1] = h /\ Remaining(t, F, k + 1)
    BY <1>1, <1>2, <1>5, RemainingTail
  <2> HIDE DEF h, t
  <2>2. k + 1 \in 1..Len(messages) /\ k + 1 \in Nat /\ g <= k + 1 /\ (g < k => g < k + 1)
    BY <1>1, <2>1
  <2>3. h = Framed(e, messages[k + 1]) /\ messages[k + 1] \in Messages[e]
    BY <1>2, <2>1, <2>2
  <2>4. h \in Seq(Nat) /\ h # <<>>
    <3>1. /\ h \in Seq(Nat) /\ Len(h) = 4 + Len(Payload[e][messages[k + 1]])
          /\ Len(Payload[e][messages[k + 1]]) \in Nat
      <4> DEFINE m == messages[k + 1]
      <4>1. m \in Messages[e] /\ h = Framed(e, m)
        BY <2>3
      <4> HIDE DEF m
      <4>2. /\ h \in Seq(Nat) /\ Len(h) = 4 + Len(Payload[e][m]) /\ Len(Payload[e][m]) \in Nat \ {0}
        BY <4>1, FrameIs, Zenon
      <4> QED
        BY <4>2 DEF m
    <3>2. Len(h) # 0
      BY <3>1
    <3> QED
      BY <3>1, <3>2
  <2>5. Aligned(F, w \o h, g, k + 1, base)
    BY <1>1, <1>3, <2>1, <2>4, AlignedAppend
  <2>6. want # 0 => g < k + 1 /\ want = Len(Payload[e][messages[g + 1]])
    BY <1>1, <2>2, Zenon
  <2> QED
    BY <2>1, <2>2, <2>4, <2>5, <2>6, Zenon DEF Carried, F, base, h, t
<1> QED
  BY <1>4, <1>5 DEF w

(* Reading from the front leaves the rest alone.                           *)
LEMMA DroppedOfJoined ==
  ASSUME NEW bytes \in Seq(Nat), NEW rest \in Seq(Nat), NEW n \in Nat, n <= Len(bytes)
  PROVE  SubSeq(bytes, n + 1, Len(bytes)) \o rest
            = SubSeq(bytes \o rest, n + 1, Len(bytes \o rest))
<1> DEFINE d == SubSeq(bytes, n + 1, Len(bytes))
           w == bytes \o rest
           r == SubSeq(w, n + 1, Len(w))
<1>1. d \in Seq(Nat) /\ Len(d) = Len(bytes) - n /\ Len(bytes) \in Nat /\ Len(rest) \in Nat
  BY DroppedLen
<1>2. \A x \in 1..(Len(bytes) - n) : d[x] = bytes[x + n]
  BY DroppedAt
<1>3. w \in Seq(Nat) /\ Len(w) = Len(bytes) + Len(rest)
  BY JoinedLen
<1>4. /\ \A x \in 1..Len(bytes) : w[x] = bytes[x]
      /\ \A x \in 1..Len(rest) : w[Len(bytes) + x] = rest[x]
  BY JoinedAt
<1> HIDE DEF d, w
<1>5. n <= Len(w)
  BY <1>1, <1>3
<1>6. r \in Seq(Nat) /\ Len(r) = Len(w) - n
  BY <1>3, <1>5, DroppedLen
<1>7. \A x \in 1..(Len(w) - n) : r[x] = w[x + n]
  BY <1>3, <1>5, DroppedAt
<1> HIDE DEF r
<1>8. d \o rest \in Seq(Nat) /\ Len(d \o rest) = Len(d) + Len(rest)
  BY <1>1, JoinedLen
<1>9. /\ \A x \in 1..Len(d) : (d \o rest)[x] = d[x]
      /\ \A x \in 1..Len(rest) : (d \o rest)[Len(d) + x] = rest[x]
  BY <1>1, JoinedAt
<1>10. Len(d \o rest) = Len(r)
  BY <1>1, <1>3, <1>6, <1>8
<1>11. ASSUME NEW x \in 1..Len(d \o rest) PROVE (d \o rest)[x] = r[x]
  <2>0. x \in 1..(Len(w) - n)
    BY <1>6, <1>10
  <2>1. CASE x <= Len(d)
    <3>1. x \in 1..Len(d) /\ x \in 1..(Len(bytes) - n) /\ x + n \in 1..Len(bytes)
      BY <2>1, <1>1
    <3> QED
      BY <2>0, <3>1, <1>2, <1>4, <1>7, <1>9, Zenon
  <2>2. CASE ~(x <= Len(d))
    <3> DEFINE y == x - Len(d)
    <3>1. y \in 1..Len(rest) /\ Len(d) + y = x /\ Len(bytes) + y = x + n
      BY <2>2, <1>1, <1>8
    <3> HIDE DEF y
    <3>2. (d \o rest)[Len(d) + y] = rest[y] /\ w[Len(bytes) + y] = rest[y] /\ r[x] = w[x + n]
      BY <2>0, <3>1, <1>4, <1>7, <1>9, Zenon
    <3> QED
      BY <3>1, <3>2, Zenon
  <2> QED
    BY <2>1, <2>2
<1> QED
  BY <1>6, <1>8, <1>10, <1>11, SeqEqual, Zenon DEF d, w, r

(* The four bytes at the start of a frame are the length of the next       *)
(* message's payload.                                                      *)
LEMMA CarriedLength ==
  ASSUME PayloadsReadBack, NEW e \in Ends, NEW messages \in Seq(Messages[e]), NEW g \in Nat,
         NEW bytes \in Seq(Nat), Len(bytes) >= 4,
         NEW broken, NEW piece, NEW pending,
         Carried(e, messages, g, 0, bytes, broken, piece, pending)
  PROVE  /\ 256 * bytes[3] + bytes[4] \in Nat
         /\ Carried(e, messages, g, 256 * bytes[3] + bytes[4], SubSeq(bytes, 5, Len(bytes)),
                    broken, piece, pending)
<1> DEFINE F == Frames(e, messages)
           m == messages[g + 1]
           new == 256 * bytes[3] + bytes[4]
<1>1. PICK k \in Nat : \E rest \in Seq(Nat) :
        /\ g <= k /\ k <= Len(messages)
        /\ Aligned(F, bytes \o rest, g, k, 0)
        /\ ~broken => rest = piece /\ Remaining(pending, F, k)
  BY DEF Carried
<1>2. PICK rest \in Seq(Nat) :
        /\ g <= k /\ k <= Len(messages)
        /\ Aligned(F, bytes \o rest, g, k, 0)
        /\ ~broken => rest = piece /\ Remaining(pending, F, k)
  BY <1>1
<1> DEFINE w == bytes \o rest
<1>3. w \in Seq(Nat) /\ Len(w) = Len(bytes) + Len(rest) /\ Len(bytes) \in Nat /\ Len(rest) \in Nat
  BY JoinedLen
<1>4. \A x \in 1..Len(bytes) : w[x] = bytes[x]
  BY JoinedAt
<1>5. 3 \in 1..Len(bytes) /\ 4 \in 1..Len(bytes)
  BY <1>3
<1>6. F \in Seq(Seq(Nat)) /\ Len(F) = Len(messages)
      /\ \A i \in 1..Len(messages) : F[i] = Framed(e, messages[i])
  BY FramesType
<1> HIDE DEF F, w
<1>7. Aligned(F, w, g, k, 0)
  BY <1>2 DEF w
<1>9. g < k
  <2>1. g = k => 0 = Len(w)
    BY <1>7, AlignedEnd
  <2> QED
    BY <1>2, <1>3, <2>1
<1>10. g + 1 \in 1..Len(messages)
  BY <1>2, <1>9
<1>11. F[g + 1] = Framed(e, m) /\ m \in Messages[e]
  BY <1>6, <1>10
<1> HIDE DEF m
<1>12. /\ Len(Payload[e][m]) \in Nat \ {0} /\ Len(F[g + 1]) = 4 + Len(Payload[e][m])
       /\ 256 * F[g + 1][3] + F[g + 1][4] = Len(Payload[e][m])
  BY <1>11, FrameIs
<1>13. 3 \in 1..Len(F[g + 1]) /\ 4 \in 1..Len(F[g + 1])
  <2> DEFINE l == Len(F[g + 1])
             n == Len(Payload[e][m])
  <2>1. n \in Nat /\ l = 4 + n
    BY <1>12
  <2> HIDE DEF l, n
  <2>2. 3 \in 1..l /\ 4 \in 1..l
    BY <2>1
  <2> QED
    BY <2>2 DEF l
<1>14. w[3] = F[g + 1][3] /\ w[4] = F[g + 1][4]
  <2>1. w \in Seq(Nat)
    BY <1>3
  <2>2. \A j \in 1..Len(F[g + 1]) : w[j] = F[g + 1][j]
    BY <1>7, <1>9, <2>1, AlignedHead
  <2> QED
    BY <1>13, <2>2, Zenon
<1>15. bytes[3] = F[g + 1][3] /\ bytes[4] = F[g + 1][4]
  BY <1>4, <1>5, <1>14
<1>16. new = Len(Payload[e][m]) /\ new \in Nat \ {0}
  BY <1>12, <1>15
<1> HIDE DEF new
<1>17. Aligned(F, SubSeq(w, 5, Len(w)), g, k, 0 - 4)
  <2>1. 4 <= Len(w) /\ 4 + 1 = 5 /\ 4 \in Nat /\ 0 \in Int /\ g <= k
    BY <1>2, <1>3
  <2>2. Aligned(F, SubSeq(w, 4 + 1, Len(w)), g, k, 0 - 4)
    BY <1>3, <1>7, <2>1, AlignedDrop, Zenon
  <2> QED
    BY <2>1, <2>2
<1>18. SubSeq(w, 5, Len(w)) = SubSeq(bytes, 5, Len(bytes)) \o rest
  <2>1. 4 + 1 = 5
    OBVIOUS
  <2>2. SubSeq(bytes, 4 + 1, Len(bytes)) \o rest = SubSeq(bytes \o rest, 4 + 1, Len(bytes \o rest))
    BY DroppedOfJoined
  <2> QED
    BY <2>1, <2>2 DEF w
<1>19. (IF new = 0 THEN 0 ELSE 0 - 4) = 0 - 4
  BY <1>16
<1>20. Aligned(F, SubSeq(bytes, 5, Len(bytes)) \o rest, g, k, IF new = 0 THEN 0 ELSE 0 - 4)
  BY <1>17, <1>18, <1>19
<1>21. new # 0 => g < k /\ new = Len(Payload[e][messages[g + 1]])
  BY <1>9, <1>16 DEF m
<1>22. Carried(e, messages, g, new, SubSeq(bytes, 5, Len(bytes)), broken, piece, pending)
  BY <1>2, <1>20, <1>21, Zenon DEF Carried, F
<1> QED
  BY <1>16, <1>22 DEF new

(* So many bytes after it are that payload, and the next bytes start a     *)
(* frame.                                                                  *)
LEMMA CarriedPayload ==
  ASSUME PayloadsReadBack, NEW e \in Ends, NEW messages \in Seq(Messages[e]), NEW g \in Nat,
         NEW want \in Nat, want # 0, NEW bytes \in Seq(Nat), Len(bytes) >= want,
         NEW broken, NEW piece, NEW pending,
         Carried(e, messages, g, want, bytes, broken, piece, pending)
  PROVE  /\ g + 1 <= Len(messages)
         /\ SubSeq(bytes, 1, want) = Payload[e][messages[g + 1]]
         /\ Carried(e, messages, g + 1, 0, SubSeq(bytes, want + 1, Len(bytes)),
                    broken, piece, pending)
<1> DEFINE F == Frames(e, messages)
           m == messages[g + 1]
<1>1. PICK k \in Nat : \E rest \in Seq(Nat) :
        /\ g < k /\ k <= Len(messages) /\ want = Len(Payload[e][m])
        /\ Aligned(F, bytes \o rest, g, k, 0 - 4)
        /\ ~broken => rest = piece /\ Remaining(pending, F, k)
  BY DEF Carried
<1>2. PICK rest \in Seq(Nat) :
        /\ g < k /\ k <= Len(messages) /\ want = Len(Payload[e][m])
        /\ Aligned(F, bytes \o rest, g, k, 0 - 4)
        /\ ~broken => rest = piece /\ Remaining(pending, F, k)
  BY <1>1
<1> DEFINE w == bytes \o rest
<1>3. w \in Seq(Nat) /\ Len(w) = Len(bytes) + Len(rest) /\ Len(bytes) \in Nat /\ Len(rest) \in Nat
  BY JoinedLen
<1>4. \A x \in 1..Len(bytes) : w[x] = bytes[x]
  BY JoinedAt
<1>6. F \in Seq(Seq(Nat)) /\ Len(F) = Len(messages)
      /\ \A i \in 1..Len(messages) : F[i] = Framed(e, messages[i])
  BY FramesType
<1> HIDE DEF F, w
<1>7. Aligned(F, w, g, k, 0 - 4)
  BY <1>2 DEF w
<1>8. Aligned(F, w, g + 1, k, (0 - 4) + Len(F[g + 1]))
  <2>1. g <= k /\ 0 - 4 \in Int
    BY <1>2
  <2> QED
    BY <1>2, <1>3, <1>7, <2>1, AlignedNext, Zenon
<1>10. g + 1 \in 1..Len(messages) /\ g + 1 \in Nat /\ g + 1 <= k
  BY <1>2
<1>11. F[g + 1] = Framed(e, m) /\ m \in Messages[e]
  BY <1>6, <1>10
<1> HIDE DEF m
<1> DEFINE p == Payload[e][m]
<1>12. /\ p \in Seq(Nat) /\ want = Len(p) /\ Len(F[g + 1]) = 4 + want
       /\ \A j \in 1..want : F[g + 1][4 + j] = p[j]
  <2>1. want = Len(Payload[e][m])
    BY <1>2 DEF m
  <2> QED
    BY <1>11, <2>1, FrameIs
<1> HIDE DEF p
<1>13. SubSeq(bytes, 1, want) = p
  <2> DEFINE s == SubSeq(bytes, 1, want)
  <2>1. s \in Seq(Nat) /\ Len(s) = want /\ \A x \in 1..want : s[x] = bytes[x]
    BY <1>3, SMTT(30)
  <2> HIDE DEF s
  <2>4. w \in Seq(Nat) /\ g < k
    BY <1>2, <1>3
  <2>5. \A j \in 1..Len(F[g + 1]) : j > 4 => w[j - 4] = F[g + 1][j]
    BY <1>7, <2>4, AlignedBody
  <2>2. ASSUME NEW x \in 1..want PROVE s[x] = p[x]
    <3>1. x \in 1..Len(bytes) /\ 4 + x \in 1..Len(F[g + 1]) /\ 4 + x > 4 /\ (4 + x) - 4 = x
      BY <1>3, <1>12
    <3>3. w[(4 + x) - 4] = F[g + 1][4 + x]
      BY <2>5, <3>1, Zenon
    <3>2. w[x] = F[g + 1][4 + x]
      BY <3>1, <3>3
    <3> QED
      BY <1>4, <1>12, <2>1, <3>1, <3>2, Zenon
  <2>3. s = p
    BY <1>12, <2>1, <2>2, SeqEqual
  <2> QED
    BY <2>3 DEF s
<1>14. Aligned(F, w, g + 1, k, want)
  <2>1. (0 - 4) + Len(F[g + 1]) = want
    BY <1>12
  <2> QED
    BY <1>8, <2>1
<1>15. Aligned(F, SubSeq(w, want + 1, Len(w)), g + 1, k, 0)
  <2>1. want <= Len(w) /\ want - want = 0 /\ want \in Int
    BY <1>3
  <2>2. Aligned(F, SubSeq(w, want + 1, Len(w)), g + 1, k, want - want)
    BY <1>3, <1>10, <1>14, <2>1, AlignedDrop, Zenon
  <2> QED
    BY <2>1, <2>2
<1>16. SubSeq(w, want + 1, Len(w)) = SubSeq(bytes, want + 1, Len(bytes)) \o rest
  BY DroppedOfJoined DEF w
<1>17. (IF 0 = 0 THEN 0 ELSE 0 - 4) = 0
  OBVIOUS
<1>18. Aligned(F, SubSeq(bytes, want + 1, Len(bytes)) \o rest, g + 1, k, IF 0 = 0 THEN 0 ELSE 0 - 4)
  BY <1>15, <1>16, <1>17
<1>19. Carried(e, messages, g + 1, 0, SubSeq(bytes, want + 1, Len(bytes)), broken, piece, pending)
  BY <1>2, <1>10, <1>18, Zenon DEF Carried, F
<1>20. g + 1 <= Len(messages)
  BY <1>10
<1> QED
  BY <1>13, <1>19, <1>20 DEF p, m

-----------------------------------------------------------------------------
(* One writer for each queue.                                              *)

(* _write_in_progress says whether there is a writer; there is never more  *)
(* than one, and without one the queue is empty.                           *)
Manned(e) ==
    \/ in_progress[e] /\ \E w : writers[e] = <<w>>
    \/ ~in_progress[e] /\ writers[e] = <<>> /\ queue[e] = <<>>

(* Both ends are manned.                                                   *)
QueuesManned ==
    /\ DOMAIN queue = Ends /\ DOMAIN writers = Ends
    /\ in_progress \in [Ends -> BOOLEAN]
    /\ \A e \in Ends : Manned(e)

(* Removing the only writer leaves none.                                   *)
LEMMA RemoveOnly == \A w : RemoveAt(<<w>>, 1) = <<>> /\ [<<w>> EXCEPT ![1] = <<>>] = << <<>> >>
  BY DEF RemoveAt

(* The head of the loop leaves one writer, or none and an empty queue.     *)
LEMMA TakeFrontManned ==
  ASSUME QueuesManned, NEW e \in Ends, NEW w, writers[e] = <<w>>, in_progress[e], NEW q,
         TakeFront(e, 1, q)
  PROVE  QueuesManned'
<1>1. CASE q = <<>>
  <2>1. /\ writers' = [writers EXCEPT ![e] = RemoveAt(@, 1)]
        /\ in_progress' = [in_progress EXCEPT ![e] = FALSE]
        /\ queue' = [queue EXCEPT ![e] = <<>>]
    BY <1>1 DEF TakeFront
  <2>2. writers'[e] = <<>>
    BY <2>1, RemoveOnly DEF QueuesManned
  <2> QED
    BY <2>1, <2>2 DEF QueuesManned, Manned
<1>2. CASE q # <<>>
  <2>1. /\ UNCHANGED in_progress /\ writers' = [writers EXCEPT ![e][1] = Head(q)]
        /\ queue' = [queue EXCEPT ![e] = IF e = "client" THEN q ELSE Tail(q)]
    BY <1>2 DEF TakeFront
  <2>2. writers'[e] = <<Head(q)>>
    BY <2>1 DEF QueuesManned
  <2> QED
    BY <2>1, <2>2 DEF QueuesManned, Manned
<1> QED
  BY <1>1, <1>2

(* Every step keeps the queues manned.                                     *)
LEMMA MannedStep ==
  ASSUME QueuesManned, [Next]_vars
  PROVE  QueuesManned'
<1>1. ASSUME NEW e \in Ends, RunPosted(e) PROVE QueuesManned'
  BY <1>1 DEF RunPosted, Enqueue, QueuesManned, Manned
<1>2. ASSUME NEW e \in Ends, writer_loop(e) PROVE QueuesManned'
  <2>1. PICK i \in DOMAIN writers[e] : WriterStarts(e, i) \/ WriteSome(e, i) \/ WriteFails(e, i)
    BY <1>2 DEF writer_loop
  <2>2. PICK w : writers[e] = <<w>> /\ in_progress[e]
    BY <2>1 DEF QueuesManned, Manned
  <2>3. i = 1
    BY <2>1, <2>2
  <2>4. CASE \E q : TakeFront(e, 1, q)
    BY <2>2, <2>4, TakeFrontManned
  <2>5. CASE WriteFails(e, 1)
    <3>1. /\ in_progress' = [in_progress EXCEPT ![e] = queue[e] # <<>>] /\ UNCHANGED queue
          /\ writers' = [writers EXCEPT ![e] = IF queue[e] = <<>> THEN RemoveAt(@, 1)
                                               ELSE [@ EXCEPT ![1] = <<>>]]
      BY <2>5 DEF WriteFails, WriterFailed
    <3>2. writers'[e] = IF queue[e] = <<>> THEN <<>> ELSE << <<>> >>
      BY <2>2, <3>1, RemoveOnly DEF QueuesManned
    <3>3. ASSUME NEW d \in Ends PROVE Manned(d)'
      BY <3>1, <3>2 DEF QueuesManned, Manned
    <3> QED
      BY <3>1, <3>3 DEF QueuesManned
  <2>6. CASE \E n : writers' = [writers EXCEPT ![e][1] = SubSeq(@, n + 1, Len(@))]
              /\ UNCHANGED <<queue, in_progress>>
    BY <2>2, <2>6 DEF QueuesManned, Manned
  <2> QED
    BY <2>1, <2>3, <2>4, <2>5, <2>6 DEF WriterStarts, WriteSome, AfterWrite
<1>3. CASE UNCHANGED <<queue, in_progress, writers>>
  BY <1>3 DEF QueuesManned, Manned
<1> QED
  BY <1>1, <1>2, <1>3
  DEF Next, Receive_loop, pick_and_connect, Conclude, add_session, Worker,
      publish_compilation_results, send_compilation_result, Lose, Reader, ReadLength, ReceiveFails,
      start_client_session, handle_client_session, handle_new_connection, handle_server_session,
      ReadPayload, net, vars

(* Whatever send_msg calls, writes, failures and ends of the two processes *)
(* interleave, a queued message has its one writer: the lambda of send_msg *)
(* and the end of _writer_loop agree about _write_in_progress.             *)
THEOREM QueuesAreManned == Spec => []NoMessageStranded
<1>1. Init => QueuesManned
  <2> SUFFICES ASSUME Init PROVE QueuesManned
    OBVIOUS
  <2>1. /\ queue = [e \in Ends |-> <<>>] /\ writers = [e \in Ends |-> <<>>]
        /\ in_progress = [e \in Ends |-> FALSE]
    BY DEF Init
  <2> QED
    BY <2>1 DEF QueuesManned, Manned
<1>2. QueuesManned /\ [Next]_vars => QueuesManned'
  BY MannedStep
<1>3. QueuesManned => NoMessageStranded
  <2> SUFFICES ASSUME QueuesManned, NEW e \in Ends, queue[e] # <<>>
               PROVE  in_progress[e] /\ Len(writers[e]) = 1
    BY DEF NoMessageStranded
  <2>1. PICK w : in_progress[e] /\ writers[e] = <<w>>
    BY DEF QueuesManned, Manned
  <2> QED
    BY <2>1
<1> QED
  BY <1>1, <1>2, <1>3, PTL DEF Spec

-----------------------------------------------------------------------------
(* Who reads, and what is sent.                                            *)

(* Who reads keeps the session alive; the server reads its second message  *)
(* only after add_session, and nobody reads before the connection.         *)
Alive ==
    /\ reader \in [Ends -> {"none", "first", "loop", "ended"}] /\ DOMAIN holds = Ends
    /\ \A e \in Ends :
        /\ reader[e] \in {"none", "first"} => "connect" \in holds[e] \/ "accept" \in holds[e]
        /\ reader[e] = "loop" => "reader" \in holds[e]
    /\ holds["server"] = {"accept", "table"} => reader["server"] = "none"
    /\ reader["client"] = "none" => reader["server"] = "none" /\ holds["server"] = {"accept"}

(* There are two ends.                                                     *)
LEMMA EndsAre ==
  /\ "client" \in Ends /\ "server" \in Ends /\ "client" # "server"
  /\ Peer("client") = "server" /\ Peer("server") = "client"
  /\ \A e \in Ends : Peer(e) \in Ends /\ Peer(Peer(e)) = e /\ Peer(e) # e
  /\ \A e, d \in Ends : d = e \/ d = Peer(e)
  BY DEF Ends, Peer

(* A socket is closed only once its reader has ended.                      *)
LEMMA ClosedIsEnded ==
  ASSUME Alive, NEW e \in Ends, Closed(e)
  PROVE  reader[e] = "ended"
  BY DEF Alive, Closed

(* Nobody reads at first.                                                  *)
LEMMA AliveInit == Init => Alive
<1> SUFFICES ASSUME Init PROVE Alive
  OBVIOUS
<1>1. /\ reader = [e \in Ends |-> "none"]
      /\ DOMAIN holds = Ends /\ holds["client"] = {"connect"} /\ holds["server"] = {"accept"}
  BY DEF Init, Ends
<1>2. {"accept", "table"} # {"accept"}
  OBVIOUS
<1> QED
  BY <1>1, <1>2 DEF Alive, Ends

(* No step closes the socket under a reader.                               *)
LEMMA AliveStep ==
  ASSUME Alive, [Next]_vars
  PROVE  Alive'
<1> USE EndsAre
<1>0. /\ {"accept", "table"} # {"accept"} /\ "reader" \notin {"accept", "table"}
      /\ "accept" \notin {"table", "reader"}
  OBVIOUS
<1>1. CASE UNCHANGED <<reader, holds>>
  BY <1>1 DEF Alive
<1>2. ASSUME NEW e \in Ends, ReceiveFails(e) PROVE Alive'
  <2>1. /\ reader[e] \in {"first", "loop"} /\ reader' = [reader EXCEPT ![e] = "ended"]
        /\ holds' = [holds EXCEPT ![e] = holds[e] \ {"connect", "accept", "reader"}]
    BY <1>2 DEF ReceiveFails, Alive
  <2>2. holds'["server"] = {"accept", "table"} => e # "server"
    BY <2>1 DEF Alive
  <2>3. reader["client"] # "none"
    BY <2>1 DEF Alive, Ends
  <2>4. reader'["client"] # "none"
    BY <2>1, <2>3 DEF Alive
  <2> QED
    BY <2>1, <2>2, <2>4 DEF Alive
<1>3. CASE pick_and_connect
  <2>1. reader["client"] = "none" /\ reader' = [e \in Ends |-> "first"] /\ UNCHANGED holds
    BY <1>3 DEF pick_and_connect
  <2> QED
    BY <1>0, <2>1 DEF Alive
<1>4. CASE Conclude
  <2>1. holds' = [holds EXCEPT !["client"] = holds["client"] \ {"table"}] /\ UNCHANGED reader
    BY <1>4 DEF Conclude
  <2>2. /\ holds'["server"] = holds["server"]
        /\ \A x \in {"connect", "accept", "reader"} : x \in holds["client"] => x \in holds'["client"]
    BY <2>1 DEF Alive
  <2> QED
    BY <2>1, <2>2 DEF Alive, Ends
<1>5. CASE add_session
  <2>1. /\ holds["server"] = {"accept", "table"}
        /\ holds' = [holds EXCEPT !["server"] = {"table", "reader"}]
        /\ reader' = [reader EXCEPT !["server"] = "loop"]
    BY <1>5 DEF add_session
  <2>2. reader["client"] # "none"
    BY <1>0, <2>1 DEF Alive
  <2>3. holds'["server"] # {"accept", "table"}
    BY <1>0, <2>1 DEF Alive
  <2> QED
    BY <2>1, <2>2, <2>3 DEF Alive, Ends
<1>6. CASE handle_new_connection
  <2>1. /\ reader["server"] = "first"
        /\ \/ /\ holds' = [holds EXCEPT !["server"] = {"accept", "table"}]
              /\ reader' = [reader EXCEPT !["server"] = "none"]
           \/ /\ holds' = [holds EXCEPT !["server"] = {}]
              /\ reader' = [reader EXCEPT !["server"] = "ended"]
    BY <1>6 DEF handle_new_connection
  <2>2. reader["client"] # "none" /\ {} # {"accept", "table"}
    BY <2>1 DEF Alive
  <2> QED
    BY <2>1, <2>2 DEF Alive, Ends
<1>7. CASE /\ reader["server"] = "loop"
           /\ reader' = [reader EXCEPT !["server"] = "ended"]
           /\ holds' = [holds EXCEPT !["server"] = {}]
  <2>1. reader["client"] # "none" /\ {} # {"accept", "table"}
    BY <1>7 DEF Alive
  <2> QED
    BY <1>7, <2>1 DEF Alive, Ends
<1>8. CASE \E who : client_ends(who)
  <2>1. reader' = [reader EXCEPT !["client"] = "ended"] /\ holds'["server"] = holds["server"]
        /\ DOMAIN holds' = Ends
    BY <1>8 DEF client_ends, Alive
  <2> QED
    BY <2>1 DEF Alive, Ends
<1>9. CASE /\ reader["client"] = "first"
           /\ reader' = [reader EXCEPT !["client"] = "loop"]
           /\ holds' = [holds EXCEPT !["client"] = {"table", "reader"}]
  BY <1>9 DEF Alive, Ends
<1>10. CASE start_client_session
  BY <1>8, <1>9, <1>10 DEF start_client_session
<1>11. CASE handle_client_session
  BY <1>1, <1>8, <1>11 DEF handle_client_session, GiveUp, WhileNotTerminated, process_obj_file_chunk
<1>12. CASE handle_server_session
  BY <1>1, <1>7, <1>12 DEF handle_server_session, terminate_server_session
<1> QED
  BY <1>1, <1>2, <1>3, <1>4, <1>5, <1>6, <1>10, <1>11, <1>12
  DEF Next, Receive_loop, Worker, publish_compilation_results, send_compilation_result, Lose,
      Reader, ReadLength, RunPosted, writer_loop, net, vars

(* What the client's handlers send are its messages.                       *)
LEMMA ClientMessages ==
  /\ Abort \in Messages["client"]
  /\ \A r \in Requests : Message("session_start", r) \in Messages["client"]
  /\ Chunks("file_chunk_upload", FileChunks) \in Seq(Messages["client"])
<1>1. Messages["client"] = {Message("session_start", r) : r \in Requests} \cup {Abort}
                              \cup Range(Chunks("file_chunk_upload", FileChunks))
  BY DEF Messages
<1> DEFINE C == Chunks("file_chunk_upload", FileChunks)
<1>2. /\ C = [i \in 1..Len(FileChunks) |-> Message("file_chunk_upload", FileChunks[i])]
      /\ Len(FileChunks) \in Nat
  <2>1. FileChunks \in Seq([session_id : Seq(Nat), filename : Seq(Nat), sequence_no : Nat,
                            offset : Nat, data : Seq(Nat), is_last_chunk : Nat])
    BY ContentsAssumption DEF ContentsAssumption
  <2>2. DOMAIN FileChunks = 1..Len(FileChunks) /\ Len(FileChunks) \in Nat
    BY <2>1, LenProperties, Zenon
  <2> QED
    BY <2>2 DEF Chunks
<1>3. \A i \in 1..Len(FileChunks) : C[i] \in Range(C)
  BY <1>2 DEF Range
<1>4. C \in Seq(Range(C))
  <2> HIDE DEF C
  <2>1. C = [i \in 1..Len(FileChunks) |-> C[i]]
    BY <1>2
  <2> QED
    BY <1>2, <1>3, <2>1
<1>5. Range(C) \subseteq Messages["client"]
  BY <1>1
<1> HIDE DEF C
<1>6. C \in Seq(Messages["client"])
  BY <1>4, <1>5
<1> QED
  BY <1>1, <1>6 DEF C

(* What the server's handlers send are its messages.                       *)
LEMMA ServerMessages ==
  /\ \A files \in Required \cup {<<>>} : Confirmed(files) \in Messages["server"]
  /\ AbortResponse \in Messages["server"]
  /\ \A c \in Range(FileChunks) : UpComplete(c) \in Messages["server"]
  /\ \A r \in Results : \A c \in Range(r) :
        Message("obj_file_chunk_transmit", c) \in Messages["server"]
<1>1. Messages["server"] =
        {Confirmed(files) : files \in Required \cup {<<>>}} \cup {AbortResponse}
            \cup {UpComplete(c) : c \in Range(FileChunks)}
            \cup UNION {Range(Chunks("obj_file_chunk_transmit", r)) : r \in Results}
  BY DEF Messages
<1>2. ASSUME NEW r \in Results, NEW c \in Range(r)
      PROVE  Message("obj_file_chunk_transmit", c) \in Range(Chunks("obj_file_chunk_transmit", r))
  BY DEF Range, Chunks
<1> QED
  BY <1>1, <1>2, Zenon

(* An upload is a chunk of the file.                                       *)
LEMMA UploadedChunk ==
  ASSUME NEW m \in Messages["client"], m.content_case = "file_chunk_upload"
  PROVE  \E c \in Range(FileChunks) : m = Message("file_chunk_upload", c)
<1>1. Messages["client"] = {Message("session_start", r) : r \in Requests} \cup {Abort}
                              \cup Range(Chunks("file_chunk_upload", FileChunks))
  BY DEF Messages
<1>2. m \in Range(Chunks("file_chunk_upload", FileChunks))
  BY <1>1 DEF Message, Abort
<1> QED
  BY <1>2 DEF Range, Chunks

(* The receiver always sees which message it is.                           *)
LEMMA VisibleCase ==
  ASSUME NEW e \in Ends, NEW m \in Messages[e]
  PROVE  Visible(m).content_case = m.content_case
<1>1. \E case, value : m = Message(case, value)
  <2>1. e = "client" \/ e = "server"
    BY DEF Ends
  <2>2. CASE e = "client"
    BY <2>2 DEF Messages, Abort, Range, Chunks
  <2>3. CASE e = "server"
    BY <2>3 DEF Messages, Confirmed, AbortResponse, UpComplete, Range, Chunks
  <2> QED
    BY <2>1, <2>2, <2>3
<1>2. "content_case" \in DOMAIN m
  BY <1>1 DEF Message
<1>3. PICK v : Visible(m) = [m EXCEPT !.value = v]
  BY DEF Visible
<1> QED
  BY <1>2, <1>3

(* The least of some of a chunk's six fields is one of them.               *)
LEMMA LeastOfSome ==
  ASSUME NEW S \in SUBSET (1..6), S # {}
  PROVE  Min(S) \in 1..6
<1>1. \E x \in S : \A y \in S : x <= y
  <2>1. CASE 1 \in S
    BY <2>1
  <2>2. CASE 1 \notin S /\ 2 \in S
    BY <2>2
  <2>3. CASE 1 \notin S /\ 2 \notin S /\ 3 \in S
    BY <2>3
  <2>4. CASE 1 \notin S /\ 2 \notin S /\ 3 \notin S /\ 4 \in S
    BY <2>4
  <2>5. CASE 1 \notin S /\ 2 \notin S /\ 3 \notin S /\ 4 \notin S /\ 5 \in S
    BY <2>5
  <2>6. CASE 1 \notin S /\ 2 \notin S /\ 3 \notin S /\ 4 \notin S /\ 5 \notin S
    <3>1. PICK x : x \in S
      OBVIOUS
    <3>2. \A y \in S : y = 6
      BY <2>6
    <3> QED
      BY <3>1, <3>2
  <2> QED
    BY <2>1, <2>2, <2>3, <2>4, <2>5, <2>6
<1> QED
  BY <1>1 DEF Min

(* Who sees is_last_chunk, which is written after the filename, has seen   *)
(* the whole filename: ParseFromArray had not stopped at it.               *)
LEMMA LastChunkIsNamed ==
  ASSUME NEW c \in Range(FileChunks), NEW m, m = Message("file_chunk_upload", c),
         Visible(m).value.is_last_chunk = 1
  PROVE  Visible(m).value.filename = c.filename
<1> DEFINE table == Classes[m.content_case].serialize
           fields == [i \in DOMAIN table |-> table[i][2]]
           bad == {i \in DOMAIN fields : ~CleanField(fields[i], m.value[fields[i].field])}
           first == IF bad = {} THEN Len(fields) + 1 ELSE Min(bad)
           At(name) == CHOOSE i \in DOMAIN fields : fields[i].field = name
           v == [name \in DOMAIN m.value |->
                    CASE At(name) < first -> m.value[name]
                      [] At(name) = first -> CutField(fields[first], m.value[name])
                      [] OTHER            -> Classes[m.content_case].new[name]]
<1>1. m.content_case = "file_chunk_upload" /\ m.value = c /\ DOMAIN m = {"content_case", "value"}
  BY DEF Message
<1>2. Visible(m) = [m EXCEPT !.value = v]
  BY DEF Visible
<1>3. Visible(m).value = v
  BY <1>1, <1>2
<1>4. table = ClientFileChunkUploadRequest_InternalSerialize
  BY <1>1 DEF Classes, Class
<1>5. DOMAIN table = 1..6 /\ Len(table) = 6
  BY <1>4 DEF ClientFileChunkUploadRequest_InternalSerialize
<1>6. /\ table[1][2].field = "session_id" /\ table[2][2].field = "filename"
      /\ table[3][2].field = "sequence_no" /\ table[4][2].field = "offset"
      /\ table[5][2].field = "data" /\ table[6][2].field = "is_last_chunk"
  BY <1>4 DEF ClientFileChunkUploadRequest_InternalSerialize, Str, Varint, Bytes
<1>7. Classes[m.content_case].new = ClientFileChunkUploadRequest
  BY <1>1 DEF Classes, Class
<1> HIDE DEF table
<1>8. /\ DOMAIN fields = 1..6 /\ Len(fields) = 6
      /\ fields[1].field = "session_id" /\ fields[2].field = "filename"
      /\ fields[3].field = "sequence_no" /\ fields[4].field = "offset"
      /\ fields[5].field = "data" /\ fields[6].field = "is_last_chunk"
  BY <1>5, <1>6
<1>9. bad \in SUBSET (1..6)
  BY <1>8
<1> HIDE DEF fields
<1>10. At("filename") = 2 /\ At("is_last_chunk") = 6
  BY <1>8
<1> HIDE DEF At, bad
<1>11. first \in 1..7
  BY <1>8, <1>9, LeastOfSome
<1>12. "filename" \in DOMAIN m.value /\ "is_last_chunk" \in DOMAIN m.value
  <2> DEFINE R == [session_id : Seq(Nat), filename : Seq(Nat), sequence_no : Nat,
                   offset : Nat, data : Seq(Nat), is_last_chunk : Nat]
  <2>2. FileChunks \in Seq(R)
    BY ContentsAssumption DEF ContentsAssumption
  <2> HIDE DEF R
  <2>3. PICK i \in DOMAIN FileChunks : c = FileChunks[i]
    BY DEF Range
  <2>4. c \in R
    BY <2>2, <2>3
  <2>1. c \in [session_id : Seq(Nat), filename : Seq(Nat), sequence_no : Nat,
               offset : Nat, data : Seq(Nat), is_last_chunk : Nat]
    BY <2>4 DEF R
  <2> QED
    BY <1>1, <2>1
<1> HIDE DEF first
<1>13. v["is_last_chunk"] = 1 => first >= 6
  <2>1. Classes[m.content_case].new["is_last_chunk"] = 0
    BY <1>7 DEF ClientFileChunkUploadRequest
  <2> QED
    BY <1>10, <1>11, <1>12, <2>1
<1>14. first >= 6 => v["filename"] = m.value["filename"]
  BY <1>10, <1>11, <1>12
<1> QED
  BY <1>1, <1>3, <1>13, <1>14

(* So the answer to the last chunk names the file that was sent.           *)
LEMMA ReplyIsKnown ==
  ASSUME NEW m \in Messages["client"], m.content_case = "file_chunk_upload",
         CopyClientFileChunk(Visible(m).value).is_last_chunk = 1
  PROVE  UpComplete(CopyClientFileChunk(Visible(m).value)) \in Messages["server"]
<1> DEFINE v == Visible(m).value
<1>1. PICK c \in Range(FileChunks) : m = Message("file_chunk_upload", c)
  BY UploadedChunk
<1>2. CopyClientFileChunk(v).is_last_chunk = v.is_last_chunk /\ CopyClientFileChunk(v).filename = v.filename
  BY DEF CopyClientFileChunk, ClientFileChunkUploadRequest
<1>3. v.filename = c.filename
  BY <1>1, <1>2, LastChunkIsNamed
<1> HIDE DEF v
<1>4. UpComplete(CopyClientFileChunk(v)) = UpComplete(c)
  BY <1>2, <1>3 DEF UpComplete
<1> QED
  BY <1>4, ServerMessages DEF v

-----------------------------------------------------------------------------
(* The two streams, and the steps of each part.                            *)

(* What the writer of an end has in hand,                                  *)
Piece(e) == IF writers[e] = <<>> THEN <<>> ELSE writers[e][1]
(* the queue behind it (the client's still holds the frame being written), *)
Waiting(e) == IF e = "client" /\ Piece(e) # <<>> THEN Tail(queue[e]) ELSE queue[e]
(* and all that is still to be taken up.                                   *)
Pending(e) == Waiting(e) \o posted[e]

(* The types of the queues, writers and wires. What the client writes is   *)
(* in its queue.                                                           *)
NetTyped ==
    /\ posted \in [Ends -> Seq(Seq(Nat))] /\ queue \in [Ends -> Seq(Seq(Nat))]
    /\ writers \in [Ends -> Seq(Seq(Nat))]
    /\ wire \in [Ends -> Seq(Nat)] /\ lost \in BOOLEAN /\ need \in [Ends -> Nat]
    /\ Piece("client") # <<>> => queue["client"] # <<>>

(* Every message sent is one of the end's, and every message read is what  *)
(* is visible of one of the peer's.                                        *)
HistoryTyped ==
    /\ DOMAIN sent = Ends /\ DOMAIN got = Ends
    /\ \A e \in Ends : /\ sent[e] \in Seq(Messages[e])
                       /\ got[e] \in Seq({Visible(m) : m \in Messages[Peer(e)]})

(* What the peer has read is what was sent, in order,                      *)
Received(e) ==
    /\ Len(got[Peer(e)]) <= Len(sent[e])
    /\ \A i \in 1..Len(got[Peer(e)]) : got[Peer(e)][i] = Visible(sent[e][i])

(* and, unless its reader has ended, the bytes that follow continue it.    *)
Flowing(e) ==
    reader[Peer(e)] # "ended" =>
        Carried(e, sent[e], Len(got[Peer(e)]), need[Peer(e)], wire[e], lost, Piece(e), Pending(e))

(* What is in hand and what waits are bytes and frames.                    *)
LEMMA PendingType ==
  ASSUME QueuesManned, NetTyped, NEW e \in Ends
  PROVE  /\ Piece(e) \in Seq(Nat) /\ Waiting(e) \in Seq(Seq(Nat)) /\ Pending(e) \in Seq(Seq(Nat))
         /\ posted[e] \in Seq(Seq(Nat)) /\ queue[e] \in Seq(Seq(Nat))
<1> DEFINE S == Seq(Nat)
<1>1. posted[e] \in Seq(S) /\ queue[e] \in Seq(S) /\ writers[e] \in Seq(S)
  BY DEF NetTyped
<1>2. Piece(e) \in S
  <2>1. <<>> \in S
    OBVIOUS
  <2> HIDE DEF S
  <2>2. writers[e] # <<>> => writers[e][1] \in S
    BY <1>1
  <2> QED
    BY <2>1, <2>2 DEF Piece
<1> HIDE DEF S
<1>3. Waiting(e) \in Seq(S)
  <2>1. CASE e = "client" /\ Piece(e) # <<>>
    <3>1. queue[e] # <<>>
      BY <2>1 DEF NetTyped
    <3> QED
      BY <1>1, <2>1, <3>1, HeadTailProperties DEF Waiting
  <2>2. CASE ~(e = "client" /\ Piece(e) # <<>>)
    BY <1>1, <2>2 DEF Waiting
  <2> QED
    BY <2>1, <2>2
<1>4. Pending(e) \in Seq(S)
  BY <1>1, <1>3, ConcatProperties DEF Pending
<1> QED
  BY <1>1, <1>2, <1>3, <1>4 DEF S

(* Frames are joined in any grouping.                                      *)
LEMMA FramesThrice ==
  ASSUME NEW a \in Seq(Seq(Nat)), NEW b \in Seq(Seq(Nat)), NEW c \in Seq(Seq(Nat))
  PROVE  (a \o b) \o c = a \o (b \o c)
  BY ConcatAssociative, SMTT(30)

(* A step that touches neither end of a stream, except to end its reader,  *)
(* keeps it.                                                               *)
LEMMA FlowKept ==
  ASSUME NEW e \in Ends, Flowing(e), Received(e), wire'[e] = wire[e], writers'[e] = writers[e],
         queue'[e] = queue[e], posted'[e] = posted[e], sent'[e] = sent[e],
         got'[Peer(e)] = got[Peer(e)], need'[Peer(e)] = need[Peer(e)], lost' = lost,
         reader'[Peer(e)] # "ended" => reader[Peer(e)] # "ended"
  PROVE  Flowing(e)' /\ Received(e)'
<1>1. Piece(e)' = Piece(e)
  BY DEF Piece
<1>2. Pending(e)' = Pending(e)
  BY <1>1 DEF Pending, Waiting
<1>3. Received(e)'
  BY DEF Received
<1>4. Flowing(e)'
  <2> SUFFICES ASSUME reader'[Peer(e)] # "ended"
               PROVE  Carried(e, sent'[e], Len(got'[Peer(e)]), need'[Peer(e)], wire'[e], lost',
                              Piece(e)', Pending(e)')
    BY DEF Flowing
  <2>1. Carried(e, sent[e], Len(got[Peer(e)]), need[Peer(e)], wire[e], lost, Piece(e), Pending(e))
    BY DEF Flowing
  <2> QED
    BY <1>1, <1>2, <2>1
<1> QED
  BY <1>3, <1>4

(* A step in which an end sends some of its messages, or nothing.          *)
Says(e) == (\E messages \in Seq(Messages[e]) : send_msg(e, messages)) \/ NothingSent

(* send_msg keeps its stream.                                              *)
LEMMA FlowSent ==
  ASSUME PayloadsReadBack, QueuesManned, NetTyped, HistoryTyped,
         NEW e \in Ends, Flowing(e), Received(e), Says(e),
         wire'[e] = wire[e], writers'[e] = writers[e], queue'[e] = queue[e],
         got'[Peer(e)] = got[Peer(e)], need'[Peer(e)] = need[Peer(e)], lost' = lost,
         reader'[Peer(e)] # "ended" => reader[Peer(e)] # "ended"
  PROVE  Flowing(e)' /\ Received(e)'
<1>1. CASE NothingSent
  BY <1>1, FlowKept DEF NothingSent
<1>2. ASSUME NEW messages \in Seq(Messages[e]), send_msg(e, messages)
      PROVE  Flowing(e)' /\ Received(e)'
  <2>1. posted'[e] = posted[e] \o Frames(e, messages) /\ sent'[e] = sent[e] \o messages
    BY <1>2 DEF send_msg, Frames, NetTyped, HistoryTyped
  <2>2. Piece(e)' = Piece(e) /\ Waiting(e)' = Waiting(e)
    BY DEF Piece, Waiting
  <2>3. Frames(e, messages) \in Seq(Seq(Nat)) /\ sent[e] \in Seq(Messages[e])
    BY FramesType DEF HistoryTyped
  <2>4. Pending(e)' = Pending(e) \o Frames(e, messages)
    <3> DEFINE S == Seq(Nat)
    <3>1. Waiting(e) \in Seq(S) /\ posted[e] \in Seq(S) /\ Frames(e, messages) \in Seq(S)
      BY <2>3, PendingType
    <3> HIDE DEF S
    <3>2. (Waiting(e) \o posted[e]) \o Frames(e, messages)
            = Waiting(e) \o (posted[e] \o Frames(e, messages))
      BY <3>1, FramesThrice, Zenon DEF S
    <3>3. Pending(e)' = Waiting(e)' \o posted'[e]
      BY DEF Pending
    <3> QED
      BY <2>1, <2>2, <3>2, <3>3 DEF Pending
  <2>5. Flowing(e)'
    <3> SUFFICES ASSUME reader'[Peer(e)] # "ended"
                 PROVE  Carried(e, sent'[e], Len(got'[Peer(e)]), need'[Peer(e)], wire'[e], lost',
                                Piece(e)', Pending(e)')
      BY DEF Flowing
    <3> DEFINE g == Len(got[Peer(e)])
    <3>1. Carried(e, sent[e], g, need[Peer(e)], wire[e], lost, Piece(e), Pending(e))
      BY DEF Flowing
    <3>2. g \in Nat /\ need[Peer(e)] \in Nat /\ wire[e] \in Seq(Nat) /\ lost \in BOOLEAN
      BY EndsAre, LenProperties DEF NetTyped, HistoryTyped
    <3>3. Piece(e) \in Seq(Nat) /\ Pending(e) \in Seq(Seq(Nat))
      BY PendingType
    <3> HIDE DEF g
    <3>4. Carried(e, sent[e] \o messages, g, need[Peer(e)], wire[e], lost, Piece(e),
                  Pending(e) \o Frames(e, messages))
      BY <2>3, <3>1, <3>2, <3>3, CarriedSend
    <3>5. Len(got'[Peer(e)]) = g
      BY DEF g
    <3> QED
      BY <2>1, <2>2, <2>4, <3>4, <3>5
  <2>6. Received(e)'
    <3> DEFINE g == Len(got[Peer(e)])
               all == sent[e] \o messages
    <3>1. /\ Len(all) = Len(sent[e]) + Len(messages) /\ Len(sent[e]) \in Nat /\ Len(messages) \in Nat
          /\ \A i \in 1..(Len(sent[e]) + Len(messages)) :
                all[i] = IF i <= Len(sent[e]) THEN sent[e][i] ELSE messages[i - Len(sent[e])]
      BY <2>3, ConcatProperties
    <3>2. g \in Nat /\ g <= Len(sent[e]) /\ \A i \in 1..g : got[Peer(e)][i] = Visible(sent[e][i])
      BY EndsAre, LenProperties DEF Received, HistoryTyped
    <3> HIDE DEF g, all
    <3>3. g <= Len(all)
      BY <3>1, <3>2
    <3>4. \A i \in 1..g : all[i] = sent[e][i]
      BY <3>1, <3>2
    <3>5. \A i \in 1..g : got[Peer(e)][i] = Visible(all[i])
      BY <3>2, <3>4
    <3>6. got'[Peer(e)] = got[Peer(e)] /\ sent'[e] = all /\ g = Len(got[Peer(e)])
      BY <2>1 DEF all, g
    <3> QED
      BY <3>3, <3>5, <3>6 DEF Received
  <2> QED
    BY <2>5, <2>6
<1> QED
  BY <1>1, <1>2 DEF Says

(* Reading a length prefix keeps the stream.                               *)
LEMMA LengthFlow ==
  ASSUME PayloadsReadBack, NetTyped, HistoryTyped, NEW r \in Ends, ReadLength(r),
         Flowing(Peer(r)), Received(Peer(r))
  PROVE  Flowing(Peer(r))' /\ Received(Peer(r))' /\ need' \in [Ends -> Nat]
<1> DEFINE e == Peer(r)
           w == wire[e]
           n == 256 * w[3] + w[4]
<1>1. e \in Ends /\ Peer(e) = r
  BY EndsAre
<1>2. /\ reader[r] \in {"first", "loop"} /\ need[r] = 0 /\ Len(w) >= 4
      /\ need' = [need EXCEPT ![r] = n] /\ wire' = [wire EXCEPT ![e] = SubSeq(w, 5, Len(w))]
      /\ UNCHANGED <<posted, queue, writers, lost, sent, got, reader>>
  BY <1>1 DEF ReadLength, Arrived, NetTyped
<1>3. /\ wire'[e] = SubSeq(w, 5, Len(w)) /\ need'[r] = n
      /\ w \in Seq(Nat) /\ sent[e] \in Seq(Messages[e]) /\ Len(got[r]) \in Nat
  BY <1>1, <1>2, LenProperties DEF NetTyped, HistoryTyped
<1>4. Carried(e, sent[e], Len(got[r]), 0, w, lost, Piece(e), Pending(e))
  BY <1>1, <1>2 DEF Flowing
<1> HIDE DEF w
<1>5. n \in Nat /\ Carried(e, sent[e], Len(got[r]), n, SubSeq(w, 5, Len(w)), lost, Piece(e), Pending(e))
  BY <1>1, <1>2, <1>3, <1>4, CarriedLength
<1> HIDE DEF n, e
<1>6. Piece(e)' = Piece(e) /\ Pending(e)' = Pending(e)
  BY <1>2 DEF Piece, Pending, Waiting
<1>7. Flowing(e)'
  BY <1>1, <1>2, <1>3, <1>5, <1>6 DEF Flowing
<1>8. Received(e)'
  BY <1>2 DEF Received, e
<1>9. need' \in [Ends -> Nat]
  BY <1>2, <1>5 DEF NetTyped
<1> QED
  BY <1>7, <1>8, <1>9 DEF e

(* Reading a payload appends the next message to what was received.        *)
LEMMA PayloadFlow ==
  ASSUME PayloadsReadBack, NetTyped, HistoryTyped, NEW r \in Ends, reader[r] # "ended",
         ReadPayload(r), posted'[Peer(r)] = posted[Peer(r)], sent'[Peer(r)] = sent[Peer(r)],
         Flowing(Peer(r)), Received(Peer(r))
  PROVE  /\ Flowing(Peer(r))' /\ Received(Peer(r))'
         /\ need' \in [Ends -> Nat]
         /\ \E m \in Messages[Peer(r)] : In(r) = Visible(m)
         /\ got'[r] \in Seq({Visible(m) : m \in Messages[Peer(r)]})
<1> DEFINE e == Peer(r)
           w == wire[e]
           n == need[r]
           g == Len(got[r])
           V == {Visible(m) : m \in Messages[e]}
<1>1. e \in Ends /\ Peer(e) = r
  BY EndsAre
<1>2. /\ n > 0 /\ Len(w) >= n
      /\ need' = [need EXCEPT ![r] = 0] /\ wire' = [wire EXCEPT ![e] = SubSeq(w, n + 1, Len(w))]
      /\ got' = [got EXCEPT ![r] = Append(got[r], Parse(e, SubSeq(w, 1, n)))]
      /\ UNCHANGED <<queue, writers, lost>>
  BY <1>1 DEF ReadPayload, Arrived, NetTyped, HistoryTyped
<1>3. /\ wire'[e] = SubSeq(w, n + 1, Len(w)) /\ need'[r] = 0 /\ n \in Nat /\ n # 0
      /\ w \in Seq(Nat) /\ sent[e] \in Seq(Messages[e]) /\ got[r] \in Seq(V) /\ g \in Nat
  <2>1. /\ wire'[e] = SubSeq(w, n + 1, Len(w)) /\ need'[r] = 0 /\ n \in Nat
        /\ w \in Seq(Nat) /\ sent[e] \in Seq(Messages[e])
    BY <1>1, <1>2 DEF NetTyped, HistoryTyped
  <2>2. n # 0
    BY <1>2, <2>1
  <2>3. got[r] \in Seq(V)
    BY DEF HistoryTyped
  <2>4. g \in Nat
    BY <2>3, LenProperties
  <2> QED
    BY <2>1, <2>2, <2>3, <2>4
<1>4. Carried(e, sent[e], g, n, w, lost, Piece(e), Pending(e))
  BY <1>1 DEF Flowing
<1> HIDE DEF w, n, g
<1>5. /\ g + 1 <= Len(sent[e]) /\ SubSeq(w, 1, n) = Payload[e][sent[e][g + 1]]
      /\ Carried(e, sent[e], g + 1, 0, SubSeq(w, n + 1, Len(w)), lost, Piece(e), Pending(e))
  <2>1. Len(w) >= n
    BY <1>2
  <2> QED
    BY <1>1, <1>3, <1>4, <2>1, CarriedPayload, ZenonT(60)
<1> DEFINE m == sent[e][g + 1]
<1>6. m \in Messages[e]
  BY <1>3, <1>5
<1> HIDE DEF m, e
<1>7. Parse(e, SubSeq(w, 1, n)) = Visible(m)
  BY <1>1, <1>5, <1>6 DEF PayloadsReadBack, m
<1>8. got'[r] = Append(got[r], Visible(m))
  BY <1>2, <1>7 DEF HistoryTyped
<1>9. Visible(m) \in V
  BY <1>6
<1> HIDE DEF V
<1>10. /\ got'[r] \in Seq(V) /\ Len(got'[r]) = g + 1 /\ got'[r][g + 1] = Visible(m)
       /\ \A i \in 1..g : got'[r][i] = got[r][i]
  BY <1>3, <1>8, <1>9, AppendProperties DEF g
<1>11. In(r) = Visible(m)
  BY <1>10, <1>3 DEF In, Last
<1>12. Piece(e)' = Piece(e) /\ Pending(e)' = Pending(e)
  BY <1>2 DEF Piece, Pending, Waiting, e
<1>13. sent'[e] = sent[e]
  BY DEF e
<1>14. Flowing(e)'
  <2>1. Carried(e, sent'[e], Len(got'[r]), need'[r], wire'[e], lost', Piece(e)', Pending(e)')
    BY <1>2, <1>3, <1>5, <1>10, <1>12, <1>13
  <2> QED
    BY <1>1, <2>1 DEF Flowing
<1>15. Received(e)'
  <2>1. \A i \in 1..g : got[r][i] = Visible(sent[e][i])
    BY <1>1 DEF Received, e, g
  <2>2. \A i \in 1..(g + 1) : got'[r][i] = Visible(sent[e][i])
    BY <1>3, <1>10, <2>1, SMTT(30) DEF m
  <2> QED
    BY <1>1, <1>5, <1>10, <1>13, <2>2 DEF Received
<1>16. need' \in [Ends -> Nat]
  BY <1>2 DEF NetTyped
<1> QED
  BY <1>6, <1>10, <1>11, <1>14, <1>15, <1>16 DEF e, V

(* Moving a frame from one queue to the next changes nothing in their      *)
(* order.                                                                  *)
LEMMA MovedOver ==
  ASSUME NEW a \in Seq(Seq(Nat)), NEW p \in Seq(Seq(Nat)), p # <<>>
  PROVE  Append(a, Head(p)) \o Tail(p) = a \o p
<1> DEFINE S == Seq(Nat)
<1>1. a \in Seq(S) /\ p \in Seq(S)
  OBVIOUS
<1> HIDE DEF S
<1>2. Head(p) \in S /\ Tail(p) \in Seq(S) /\ <<Head(p)>> \in Seq(S)
  BY <1>1, HeadTailProperties
<1>3. Append(a, Head(p)) = a \o <<Head(p)>>
  BY <1>1, <1>2, AppendIsConcat
<1>4. <<Head(p)>> \o Tail(p) = p
  BY <1>1
<1>5. (a \o <<Head(p)>>) \o Tail(p) = a \o (<<Head(p)>> \o Tail(p))
  BY <1>1, <1>2, FramesThrice DEF S
<1> QED
  BY <1>3, <1>4, <1>5

(* The first of two queues is emptied first.                               *)
LEMMA TailOfJoined ==
  ASSUME NEW a \in Seq(Seq(Nat)), NEW b \in Seq(Seq(Nat)), a # <<>>
  PROVE  a \o b # <<>> /\ Head(a \o b) = Head(a) /\ Tail(a \o b) = Tail(a) \o b
<1> DEFINE S == Seq(Nat)
           c == a \o b
           t == Tail(a)
<1>1. a \in Seq(S) /\ b \in Seq(S)
  OBVIOUS
<1> HIDE DEF S
<1>2. Len(a) \in Nat /\ Len(b) \in Nat /\ Len(a) # 0
  BY <1>1
<1>3. /\ c \in Seq(S) /\ Len(c) = Len(a) + Len(b)
      /\ \A i \in 1..(Len(a) + Len(b)) : c[i] = IF i <= Len(a) THEN a[i] ELSE b[i - Len(a)]
  BY <1>1, ConcatProperties
<1>4. t \in Seq(S) /\ Len(t) = Len(a) - 1 /\ \A i \in 1..Len(t) : t[i] = a[i + 1]
  BY <1>1, HeadTailProperties
<1> HIDE DEF c, t
<1>5. Len(c) # 0
  BY <1>2, <1>3
<1>6. c # <<>>
  BY <1>3, <1>5
<1>7. Head(c) = c[1] /\ Head(a) = a[1]
  BY <1>1, <1>3, <1>6
<1>8. c[1] = a[1]
  <2>1. 1 \in 1..(Len(a) + Len(b)) /\ 1 <= Len(a)
    BY <1>2
  <2> QED
    BY <2>1, <1>3
<1>9. Tail(c) \in Seq(S) /\ Len(Tail(c)) = Len(c) - 1 /\ \A i \in 1..Len(Tail(c)) : Tail(c)[i] = c[i + 1]
  BY <1>3, <1>6, HeadTailProperties
<1> DEFINE u == Tail(c)
           v == t \o b
<1>10. /\ v \in Seq(S) /\ Len(v) = Len(t) + Len(b)
       /\ \A i \in 1..(Len(t) + Len(b)) : v[i] = IF i <= Len(t) THEN t[i] ELSE b[i - Len(t)]
  BY <1>1, <1>4, ConcatProperties
<1>11. u \in Seq(S) /\ Len(u) = Len(c) - 1 /\ \A i \in 1..Len(u) : u[i] = c[i + 1]
  BY <1>9
<1> HIDE DEF u, v
<1>12. Len(u) = Len(v)
  BY <1>2, <1>3, <1>4, <1>10, <1>11
<1>13. ASSUME NEW i \in 1..Len(u) PROVE u[i] = v[i]
  <2>1. i \in 1..(Len(t) + Len(b)) /\ i + 1 \in 1..(Len(a) + Len(b)) /\ i \in Int
    BY <1>2, <1>3, <1>4, <1>11
  <2>2. CASE i <= Len(t)
    <3>1. i \in 1..Len(t) /\ i + 1 <= Len(a)
      BY <2>1, <2>2, <1>2, <1>4
    <3>2. u[i] = c[i + 1] /\ c[i + 1] = a[i + 1] /\ v[i] = t[i] /\ t[i] = a[i + 1]
      BY <1>3, <1>4, <1>10, <1>11, <2>1, <2>2, <3>1, Zenon
    <3> QED
      BY <3>2
  <2>3. CASE ~(i <= Len(t))
    <3>1. ~(i + 1 <= Len(a)) /\ (i + 1) - Len(a) = i - Len(t)
      BY <2>1, <2>3, <1>2, <1>4
    <3>2. u[i] = c[i + 1] /\ c[i + 1] = b[(i + 1) - Len(a)] /\ v[i] = b[i - Len(t)]
      BY <1>3, <1>10, <1>11, <2>1, <2>3, <3>1, Zenon
    <3> QED
      BY <3>1, <3>2
  <2> QED
    BY <2>2, <2>3
<1>14. u = v
  BY <1>10, <1>11, <1>12, <1>13, SeqEqual
<1> QED
  BY <1>6, <1>7, <1>8, <1>14 DEF c, t, u, v

(* The lambda of send_msg keeps the stream.                                *)
LEMMA RunFlow ==
  ASSUME QueuesManned, NetTyped, NEW e \in Ends, RunPosted(e), Flowing(e), Received(e)
  PROVE  Flowing(e)' /\ Received(e)' /\ NetTyped'
<1> DEFINE S == Seq(Nat)
           q == queue[e]
           p == posted[e]
<1>1. /\ p # <<>> /\ posted' = [posted EXCEPT ![e] = Tail(p)]
      /\ queue' = [queue EXCEPT ![e] = Append(q, Head(p))]
      /\ writers' = [writers EXCEPT ![e] = IF in_progress[e] THEN writers[e]
                                           ELSE Append(writers[e], <<>>)]
      /\ UNCHANGED <<wire, lost, reader, need, sent, got>>
  BY DEF RunPosted, Enqueue, NetTyped
<1>2. /\ posted'[e] = Tail(p) /\ queue'[e] = Append(q, Head(p))
      /\ writers'[e] = IF in_progress[e] THEN writers[e] ELSE Append(writers[e], <<>>)
  BY <1>1 DEF NetTyped
<1>3. p \in Seq(S) /\ q \in Seq(S) /\ Waiting(e) \in Seq(S) /\ Piece(e) \in S
  BY PendingType
<1>4. \/ in_progress[e]
      \/ ~in_progress[e] /\ writers[e] = <<>> /\ q = <<>> /\ writers'[e] = << <<>> >>
  <2>1. CASE in_progress[e]
    BY <2>1
  <2>2. CASE ~in_progress[e]
    <3>1. writers[e] = <<>> /\ q = <<>>
      BY <2>2 DEF QueuesManned, Manned
    <3>2. writers'[e] = Append(writers[e], <<>>)
      BY <1>2, <2>2
    <3>3. Append(<<>>, <<>>) = << <<>> >>
      OBVIOUS
    <3> QED
      BY <2>2, <3>1, <3>2, <3>3
  <2> QED
    BY <2>1, <2>2
<1>5. Piece(e)' = Piece(e)
  BY <1>2, <1>4 DEF Piece
<1> HIDE DEF p, q
<1>6. e = "client" /\ Piece(e) # <<>> => q # <<>>
  BY DEF NetTyped, q
<1>7. Waiting(e)' = Append(Waiting(e), Head(p))
  <2>0. /\ Waiting(e) = IF e = "client" /\ Piece(e) # <<>> THEN Tail(q) ELSE q
        /\ Waiting(e)' = IF e = "client" /\ Piece(e) # <<>> THEN Tail(Append(q, Head(p)))
                         ELSE Append(q, Head(p))
    BY <1>2, <1>5 DEF Waiting, q
  <2> HIDE DEF S
  <2>1. Tail(Append(q, Head(p))) = IF q = <<>> THEN <<>> ELSE Append(Tail(q), Head(p))
    BY <1>3, HeadTailAppend
  <2> QED
    BY <1>6, <2>0, <2>1
<1>8. Pending(e)' = Pending(e)
  <2>1. Pending(e)' = Append(Waiting(e), Head(p)) \o Tail(p)
    BY <1>2, <1>7 DEF Pending
  <2>2. Append(Waiting(e), Head(p)) \o Tail(p) = Waiting(e) \o p
    BY <1>1, <1>3, MovedOver
  <2> QED
    BY <2>1, <2>2 DEF Pending, p
<1>9. Flowing(e)'
  <2>1. wire'[e] = wire[e] /\ sent'[e] = sent[e] /\ got' = got /\ need' = need /\ lost' = lost
        /\ reader' = reader
    BY <1>1
  <2> QED
    BY <1>5, <1>8, <2>1 DEF Flowing
<1>10. Received(e)'
  BY <1>1 DEF Received
<1>11. NetTyped'
  <2> HIDE DEF S
  <2>1. Tail(p) \in Seq(S) /\ Append(q, Head(p)) \in Seq(S) /\ Append(q, Head(p)) # <<>>
    BY <1>1, <1>3, HeadTailProperties, AppendProperties
  <2>2. posted' \in [Ends -> Seq(S)] /\ queue' \in [Ends -> Seq(S)]
    BY <1>1, <2>1 DEF NetTyped, S
  <2>3. writers' \in [Ends -> Seq(S)]
    <3>1. << <<>> >> \in Seq(S)
      BY DEF S
    <3>2. writers'[e] \in Seq(S)
      BY <1>2, <1>4, <3>1 DEF NetTyped, S
    <3>3. DOMAIN writers' = Ends /\ \A d \in Ends : d # e => writers'[d] = writers[d]
      BY <1>1 DEF NetTyped
    <3>4. \A d \in Ends : writers'[d] \in Seq(S)
      BY <3>2, <3>3 DEF NetTyped, S
    <3>5. writers' = [d \in Ends |-> writers'[d]]
      BY <1>1, <3>3 DEF NetTyped
    <3> QED
      BY <3>4, <3>5
  <2>4. Piece("client")' # <<>> => queue'["client"] # <<>>
    <3>1. CASE e = "client"
      BY <1>2, <2>1, <3>1
    <3>2. CASE e # "client"
      <4>1. writers'["client"] = writers["client"] /\ queue'["client"] = queue["client"]
        BY <1>1, <3>2 DEF NetTyped
      <4> QED
        BY <4>1 DEF Piece, NetTyped
    <3> QED
      BY <3>1, <3>2
  <2> QED
    BY <1>1, <2>2, <2>3, <2>4 DEF NetTyped, S
<1> QED
  BY <1>9, <1>10, <1>11

(* At the head of its loop the writer takes the front of the queue, or     *)
(* ends.                                                                   *)
LEMMA TakeTyped ==
  ASSUME QueuesManned, NetTyped, NEW e \in Ends, NEW w, writers[e] = <<w>>,
         TakeFront(e, 1, Waiting(e))
  PROVE  /\ queue' \in [Ends -> Seq(Seq(Nat))] /\ writers' \in [Ends -> Seq(Seq(Nat))]
         /\ Piece("client")' # <<>> => queue'["client"] # <<>>
         /\ Waiting(e) = <<>> => Piece(e)' = <<>> /\ Waiting(e)' = <<>>
         /\ Waiting(e) # <<>> => /\ Piece(e)' = Head(Waiting(e))
                                 /\ Piece(e)' # <<>> => Waiting(e)' = Tail(Waiting(e))
<1> DEFINE S == Seq(Nat)
           q == Waiting(e)
<1>1. q \in Seq(S) /\ queue \in [Ends -> Seq(S)] /\ writers \in [Ends -> Seq(S)]
  BY PendingType DEF NetTyped
<1> HIDE DEF S
<1>2. TakeFront(e, 1, q)
  OBVIOUS
<1> HIDE DEF q
<1>3. CASE q = <<>>
  <2>1. /\ writers' = [writers EXCEPT ![e] = RemoveAt(writers[e], 1)]
        /\ queue' = [queue EXCEPT ![e] = <<>>]
    BY <1>1, <1>2, <1>3 DEF TakeFront
  <2>2. writers'[e] = <<>> /\ queue'[e] = <<>> /\ RemoveAt(writers[e], 1) = <<>>
    BY <1>1, <2>1, RemoveOnly
  <2>3. queue' \in [Ends -> Seq(S)] /\ writers' \in [Ends -> Seq(S)]
    <3>1. <<>> \in Seq(S)
      OBVIOUS
    <3>2. queue' \in [Ends -> Seq(S)]
      BY <1>1, <2>1, <3>1
    <3>3. DOMAIN writers' = Ends /\ \A d \in Ends : d # e => writers'[d] = writers[d]
      BY <1>1, <2>1
    <3>4. \A d \in Ends : writers'[d] \in Seq(S)
      BY <1>1, <2>2, <3>1, <3>3
    <3>5. writers' = [d \in Ends |-> writers'[d]]
      BY <1>1, <2>1, <3>3
    <3> QED
      BY <3>2, <3>4, <3>5
  <2>4. Piece(e)' = <<>> /\ Waiting(e)' = <<>>
    BY <2>2 DEF Piece, Waiting
  <2>5. Piece("client")' # <<>> => queue'["client"] # <<>>
    <3>1. CASE e # "client"
      <4>1. writers'["client"] = writers["client"] /\ queue'["client"] = queue["client"]
        BY <1>1, <2>1, <3>1
      <4> QED
        BY <4>1 DEF Piece, NetTyped
    <3> QED
      BY <2>4, <3>1
  <2> QED
    BY <1>3, <2>3, <2>4, <2>5 DEF q, S
<1>4. CASE q # <<>>
  <2>1. /\ writers' = [writers EXCEPT ![e][1] = Head(q)]
        /\ queue' = [queue EXCEPT ![e] = IF e = "client" THEN q ELSE Tail(q)]
    BY <1>1, <1>2, <1>4 DEF TakeFront
  <2>2. Head(q) \in S /\ Tail(q) \in Seq(S) /\ <<Head(q)>> \in Seq(S)
    BY <1>1, <1>4, HeadTailProperties
  <2>3. writers'[e] = <<Head(q)>> /\ queue'[e] = IF e = "client" THEN q ELSE Tail(q)
    BY <1>1, <2>1
  <2>4. queue' \in [Ends -> Seq(S)]
    BY <1>1, <2>1, <2>2
  <2>5. writers' \in [Ends -> Seq(S)]
    <3>1. DOMAIN writers' = Ends /\ \A d \in Ends : d # e => writers'[d] = writers[d]
      BY <1>1, <2>1
    <3>2. \A d \in Ends : writers'[d] \in Seq(S)
      BY <1>1, <2>2, <2>3, <3>1
    <3>3. writers' = [d \in Ends |-> writers'[d]]
      BY <1>1, <2>1, <3>1
    <3> QED
      BY <3>2, <3>3
  <2>6. Piece(e)' = Head(q)
    BY <2>3 DEF Piece
  <2>7. Piece(e)' # <<>> => Waiting(e)' = Tail(q)
    BY <2>3 DEF Waiting
  <2>8. Piece("client")' # <<>> => queue'["client"] # <<>>
    <3>1. CASE e # "client"
      <4>1. writers'["client"] = writers["client"] /\ queue'["client"] = queue["client"]
        BY <1>1, <2>1, <3>1
      <4> QED
        BY <4>1 DEF Piece, NetTyped
    <3> QED
      BY <1>4, <2>3, <3>1
  <2> QED
    BY <1>4, <2>4, <2>5, <2>6, <2>7, <2>8 DEF q, S
<1> QED
  BY <1>3, <1>4

(* The head of the writer's loop keeps the stream: the frame in hand is    *)
(* written whole, and the next is the one that was sent next.              *)
LEMMA TakeFlow ==
  ASSUME PayloadsReadBack, QueuesManned, NetTyped, HistoryTyped, NEW e \in Ends,
         NEW w, writers[e] = <<w>>, TakeFront(e, 1, Waiting(e)), ~lost,
         wire'[e] = wire[e] \o w, posted'[e] = posted[e],
         UNCHANGED <<lost, reader, need, sent, got>>, Flowing(e), reader[Peer(e)] # "ended"
  PROVE  Flowing(e)'
<1> DEFINE g == Len(got[Peer(e)])
           n == need[Peer(e)]
           p == Pending(e)
<1>1. Piece(e) = w
  BY DEF Piece
<1>2. Carried(e, sent[e], g, n, wire[e], FALSE, w, p)
  <2>1. lost = FALSE
    BY DEF NetTyped
  <2> QED
    BY <1>1, <2>1 DEF Flowing
<1>3. /\ g \in Nat /\ n \in Nat /\ wire[e] \in Seq(Nat) /\ sent[e] \in Seq(Messages[e])
      /\ w \in Seq(Nat) /\ p \in Seq(Seq(Nat)) /\ Waiting(e) \in Seq(Seq(Nat)) /\ posted[e] \in Seq(Seq(Nat))
  BY <1>1, EndsAre, LenProperties, PendingType DEF NetTyped, HistoryTyped
<1> HIDE DEF g, n, p
<1>4. /\ Carried(e, sent[e], g, n, wire[e] \o w, FALSE, <<>>, p)
      /\ p # <<>> => /\ Head(p) # <<>>
                     /\ Carried(e, sent[e], g, n, wire[e] \o w, FALSE, Head(p), Tail(p))
  BY <1>2, <1>3, CarriedTake
<1>5. \/ Piece(e)' = <<>> /\ Pending(e)' = p
      \/ p # <<>> /\ Piece(e)' = Head(p) /\ Pending(e)' = Tail(p)
  <2>1. CASE Waiting(e) = <<>>
    <3>1. Piece(e)' = <<>> /\ Waiting(e)' = <<>>
      BY <2>1, TakeTyped
    <3>2. Pending(e)' = Waiting(e)' \o posted'[e]
      BY DEF Pending
    <3>3. Pending(e)' = Waiting(e) \o posted[e]
      BY <2>1, <3>1, <3>2
    <3> QED
      BY <3>1, <3>3 DEF Pending, p
  <2>2. CASE Waiting(e) # <<>>
    <3>1. Piece(e)' = Head(Waiting(e)) /\ (Piece(e)' # <<>> => Waiting(e)' = Tail(Waiting(e)))
      BY <2>2, TakeTyped
    <3>2. p # <<>> /\ Head(p) = Head(Waiting(e)) /\ Tail(p) = Tail(Waiting(e)) \o posted[e]
      BY <1>3, <2>2, TailOfJoined DEF Pending, p
    <3>3. Waiting(e)' = Tail(Waiting(e))
      BY <1>4, <3>1, <3>2
    <3>4. Pending(e)' = Waiting(e)' \o posted'[e]
      BY DEF Pending
    <3> QED
      BY <3>1, <3>2, <3>3, <3>4
  <2> QED
    BY <2>1, <2>2
<1>6. Carried(e, sent[e], g, n, wire'[e], FALSE, Piece(e)', Pending(e)')
  BY <1>4, <1>5
<1>7. Len(got'[Peer(e)]) = g /\ need'[Peer(e)] = n /\ lost' = FALSE /\ sent'[e] = sent[e]
  BY DEF g, n, NetTyped
<1> QED
  BY <1>6, <1>7 DEF Flowing

(* A piece leaves a shorter rest that is not empty.                        *)
LEMMA RestOfPiece ==
  ASSUME NEW w \in Seq(Nat), NEW left \in Nat, left # 0, NEW n, n = Len(w) - left, n > 0
  PROVE  /\ n \in Nat /\ n <= Len(w)
         /\ SubSeq(w, n + 1, Len(w)) \in Seq(Nat) /\ SubSeq(w, n + 1, Len(w)) # <<>>
         /\ SubSeq(w, 1, n) \in Seq(Nat)
<1>1. Len(w) \in Nat
  OBVIOUS
<1>2. n \in Nat /\ n <= Len(w)
  BY <1>1
<1>3. SubSeq(w, n + 1, Len(w)) \in Seq(Nat) /\ Len(SubSeq(w, n + 1, Len(w))) = Len(w) - n
  BY <1>2, DroppedLen, Zenon
<1>4. Len(SubSeq(w, n + 1, Len(w))) # 0
  BY <1>1, <1>2, <1>3
<1>5. SubSeq(w, 1, n) \in Seq(Nat)
  BY <1>2
<1> QED
  BY <1>2, <1>3, <1>4, <1>5

(* When the network fails, the stream ends in what is on the wire.         *)
LEMMA FlowBroken ==
  ASSUME NEW e \in Ends, Flowing(e), lost' = TRUE,
         wire'[e] = wire[e], UNCHANGED <<reader, need, sent, got>>
  PROVE  Flowing(e)'
<1> SUFFICES ASSUME reader'[Peer(e)] # "ended"
             PROVE  Carried(e, sent'[e], Len(got'[Peer(e)]), need'[Peer(e)], wire'[e], lost',
                            Piece(e)', Pending(e)')
  BY DEF Flowing
<1>1. Carried(e, sent[e], Len(got[Peer(e)]), need[Peer(e)], wire[e], lost, Piece(e), Pending(e))
  BY DEF Flowing
<1>2. \A any, left : Carried(e, sent[e], Len(got[Peer(e)]), need[Peer(e)], wire[e], TRUE, any, left)
  BY <1>1, CarriedBroken, Zenon
<1>3. Carried(e, sent[e], Len(got[Peer(e)]), need[Peer(e)], wire[e], TRUE, Piece(e)', Pending(e)')
  BY <1>2, Zenon
<1> QED
  BY <1>3

(* The writer keeps the types.                                             *)
LEMMA WriterTyped ==
  ASSUME QueuesManned, NetTyped, NEW e \in Ends, writer_loop(e)
  PROVE  NetTyped'
<1> DEFINE S == Seq(Nat)
<1>1. PICK i \in DOMAIN writers[e] : WriterStarts(e, i) \/ WriteSome(e, i) \/ WriteFails(e, i)
  BY DEF writer_loop
<1>2. PICK w : writers[e] = <<w>>
  BY <1>1 DEF QueuesManned, Manned
<1>3. i = 1 /\ writers[e][1] = w
  BY <1>1, <1>2
<1>4. Piece(e) = w
  BY <1>2 DEF Piece
<1>5. /\ w \in S /\ wire \in [Ends -> Seq(Nat)] /\ wire[e] \in Seq(Nat)
      /\ queue \in [Ends -> Seq(S)] /\ writers \in [Ends -> Seq(S)]
      /\ e = "client" /\ w # <<>> => queue[e] # <<>>
  BY <1>4, PendingType DEF NetTyped
<1>6. UNCHANGED <<posted, lost, need>>
  BY DEF writer_loop
<1>7. wire' \in [Ends -> Seq(Nat)]
  <2>1. ASSUME NEW bytes \in Seq(Nat), wire' = [wire EXCEPT ![e] = Unread(e, bytes)]
        PROVE  wire' \in [Ends -> Seq(Nat)]
    <3>1. wire[e] \o bytes \in Seq(Nat)
      BY <1>5, ConcatProperties
    <3>2. Unread(e, bytes) \in Seq(Nat)
      BY <1>5, <3>1 DEF Unread
    <3> QED
      BY <1>5, <2>1, <3>2
  <2>2. CASE WriteSome(e, 1)
    <3>1. PICK left \in Cuts \cup {0} :
            /\ Len(w) - left > 0
            /\ wire' = [wire EXCEPT ![e] = Unread(e, SubSeq(w, 1, Len(w) - left))]
      BY <1>3, <2>2 DEF WriteSome
    <3>2. left \in Nat /\ Len(w) \in Nat
      BY <1>5, ContentsAssumption, LenProperties DEF ContentsAssumption
    <3>3. Len(w) - left \in Nat /\ Len(w) - left <= Len(w)
      BY <3>1, <3>2
    <3>4. SubSeq(w, 1, Len(w) - left) \in Seq(Nat)
      BY <1>5, <3>3, DroppedLen
    <3> QED
      BY <2>1, <3>1, <3>4
  <2>3. CASE UNCHANGED wire
    BY <1>5, <2>3
  <2> QED
    BY <1>1, <1>3, <2>2, <2>3 DEF WriterStarts, WriteFails
<1>8. /\ queue' \in [Ends -> Seq(S)] /\ writers' \in [Ends -> Seq(S)]
      /\ Piece("client")' # <<>> => queue'["client"] # <<>>
  <2>1. CASE TakeFront(e, 1, Waiting(e))
    BY <1>2, <2>1, TakeTyped
  <2>2. CASE WriterStarts(e, 1)
    <3>1. Waiting(e) = queue[e]
      BY <1>3, <1>4, <2>2 DEF Waiting, WriterStarts
    <3> QED
      BY <2>1, <2>2, <3>1 DEF WriterStarts
  <2>3. ASSUME UNCHANGED queue, NEW v \in S, w # <<>>,
               writers' = [writers EXCEPT ![e] = <<v>>] \/ writers' = [writers EXCEPT ![e] = <<>>]
        PROVE  /\ queue' \in [Ends -> Seq(S)] /\ writers' \in [Ends -> Seq(S)]
               /\ Piece("client")' # <<>> => queue'["client"] # <<>>
    <3> HIDE DEF S
    <3>1. <<v>> \in Seq(S) /\ <<>> \in Seq(S)
      BY <2>3
    <3>2. writers' \in [Ends -> Seq(S)]
      BY <1>5, <2>3, <3>1
    <3>3. CASE e = "client"
      BY <1>5, <2>3, <3>2, <3>3
    <3>4. CASE e # "client"
      <4>1. "client" \in Ends
        BY EndsAre
      <4>2. writers'["client"] = writers["client"]
        BY <1>5, <2>3, <3>4, <4>1
      <4> QED
        BY <1>5, <2>3, <3>2, <4>2 DEF Piece, NetTyped
    <3> QED
      BY <3>3, <3>4
  <2>4. CASE WriteSome(e, 1)
    <3>1. w # <<>>
      BY <1>3, <2>4 DEF WriteSome
    <3>2. CASE AfterWrite(e, 1)
      <4>1. Waiting(e) = IF e = "client" THEN Tail(queue[e]) ELSE queue[e]
        BY <1>4, <3>1 DEF Waiting
      <4> QED
        BY <2>1, <3>2, <4>1 DEF AfterWrite
    <3>3. ASSUME NEW left \in Cuts \cup {0}, left # 0, Len(w) - left > 0, UNCHANGED queue,
                 writers' = [writers EXCEPT ![e][1] = SubSeq(@, Len(w) - left + 1, Len(@))]
          PROVE  /\ queue' \in [Ends -> Seq(S)] /\ writers' \in [Ends -> Seq(S)]
                 /\ Piece("client")' # <<>> => queue'["client"] # <<>>
      <4>1. left \in Nat
        BY ContentsAssumption DEF ContentsAssumption
      <4> DEFINE v == SubSeq(w, Len(w) - left + 1, Len(w))
      <4>2. v \in S
        BY <1>5, <3>3, <4>1, RestOfPiece
      <4>3. writers' = [writers EXCEPT ![e] = <<v>>]
        <5>1. writers' = [writers EXCEPT ![e] = [writers[e] EXCEPT ![1] = v]]
          BY <1>3, <1>5, <3>3
        <5>2. [<<w>> EXCEPT ![1] = v] = <<v>>
          BY DEF v
        <5> QED
          BY <1>2, <5>1, <5>2
      <4> QED
        BY <2>3, <3>1, <3>3, <4>2, <4>3
    <3> QED
      BY <1>3, <2>4, <3>2, <3>3 DEF WriteSome
  <2>5. CASE WriteFails(e, 1)
    <3>1. w # <<>> /\ UNCHANGED queue
          /\ writers' = [writers EXCEPT ![e] = IF queue[e] = <<>> THEN RemoveAt(writers[e], 1)
                                               ELSE [writers[e] EXCEPT ![1] = <<>>]]
      BY <1>3, <1>5, <2>5 DEF WriteFails, WriterFailed
    <3>2. RemoveAt(writers[e], 1) = <<>> /\ [writers[e] EXCEPT ![1] = <<>>] = << <<>> >>
      BY <1>2, RemoveOnly
    <3>3. <<>> \in S
      OBVIOUS
    <3> QED
      BY <2>3, <3>1, <3>2, <3>3
  <2> QED
    BY <1>1, <1>3, <2>2, <2>4, <2>5
<1> QED
  BY <1>6, <1>7, <1>8 DEF NetTyped

(* The writer keeps the stream: it starts, writes a piece, takes the next  *)
(* frame, or fails. After a failure the client's writes the whole frame    *)
(* again, which nobody will read.                                          *)
LEMMA WriterFlow ==
  ASSUME PayloadsReadBack, QueuesManned, Alive, NetTyped, HistoryTyped, NEW e \in Ends,
         writer_loop(e), Flowing(e)
  PROVE  Flowing(e)'
<1>0. UNCHANGED <<posted, lost, reader, need, sent, got>>
  BY DEF writer_loop
<1> SUFFICES ASSUME reader[Peer(e)] # "ended" PROVE Flowing(e)'
  BY <1>0 DEF Flowing
<1>1. PICK i \in DOMAIN writers[e] : WriterStarts(e, i) \/ WriteSome(e, i) \/ WriteFails(e, i)
  BY DEF writer_loop
<1>2. PICK w : writers[e] = <<w>>
  BY <1>1 DEF QueuesManned, Manned
<1>3. i = 1 /\ writers[e][1] = w
  BY <1>1, <1>2
<1>4. Piece(e) = w /\ w \in Seq(Nat) /\ wire[e] \in Seq(Nat)
  <2>1. Piece(e) = w
    BY <1>2 DEF Piece
  <2> QED
    BY <2>1, PendingType DEF NetTyped
<1>5. ~Closed(Peer(e))
  BY EndsAre, ClosedIsEnded
<1>6. \A bytes : Unread(e, bytes) = wire[e] \o bytes
  BY <1>5 DEF Unread
<1>7. CASE lost /\ UNCHANGED wire
  <2>1. lost' = TRUE
    BY <1>0, <1>7 DEF NetTyped
  <2> QED
    BY <1>0, <1>7, <2>1, FlowBroken
<1>8. CASE WriterStarts(e, 1) /\ ~lost
  <2>1. w = <<>> /\ Waiting(e) = queue[e]
    BY <1>3, <1>4, <1>8 DEF Waiting, WriterStarts
  <2>2. wire'[e] = wire[e] \o w
    <3>1. wire[e] \o <<>> = wire[e]
      BY <1>4, ConcatEmptySeq
    <3> QED
      BY <1>8, <2>1, <3>1 DEF WriterStarts
  <2>3. TakeFront(e, 1, Waiting(e))
    BY <1>8, <2>1 DEF WriterStarts
  <2> QED
    BY <1>0, <1>2, <1>8, <2>2, <2>3, TakeFlow
<1>9. CASE WriteSome(e, 1)
  <2>1. PICK left \in Cuts \cup {0} :
          /\ Len(w) - left > 0
          /\ wire' = [wire EXCEPT ![e] = Unread(e, SubSeq(w, 1, Len(w) - left))]
          /\ IF left = 0
             THEN AfterWrite(e, 1)
             ELSE /\ writers' = [writers EXCEPT ![e][1] = SubSeq(@, Len(w) - left + 1, Len(@))]
                  /\ UNCHANGED queue
    BY <1>3, <1>9 DEF WriteSome
  <2>2. w # <<>> /\ ~lost
    BY <1>3, <1>9 DEF WriteSome
  <2>3. wire'[e] = wire[e] \o SubSeq(w, 1, Len(w) - left)
    BY <1>6, <2>1 DEF NetTyped
  <2>4. CASE left = 0
    <3>1. SubSeq(w, 1, Len(w) - left) = w
      BY <1>4, <2>4
    <3>2. Waiting(e) = IF e = "client" THEN Tail(queue[e]) ELSE queue[e]
      BY <1>4, <2>2 DEF Waiting
    <3>3. TakeFront(e, 1, Waiting(e))
      BY <2>1, <2>4, <3>2 DEF AfterWrite
    <3>4. wire'[e] = wire[e] \o w
      BY <2>3, <3>1
    <3> QED
      BY <1>0, <1>2, <2>2, <3>3, <3>4, TakeFlow
  <2>5. CASE left # 0
    <3> DEFINE n == Len(w) - left
               v == SubSeq(w, n + 1, Len(w))
               g == Len(got[Peer(e)])
               k == need[Peer(e)]
    <3>1. left \in Nat
      BY ContentsAssumption DEF ContentsAssumption
    <3>2. n \in Nat /\ n <= Len(w) /\ v \in Seq(Nat) /\ v # <<>>
      BY <1>4, <2>1, <2>5, <3>1, RestOfPiece
    <3>3. writers'[e] = <<v>> /\ queue'[e] = queue[e]
      <4>1. writers' = [writers EXCEPT ![e] = [<<w>> EXCEPT ![1] = v]]
        BY <1>2, <1>3, <2>1, <2>5 DEF NetTyped
      <4>2. [<<w>> EXCEPT ![1] = v] = <<v>>
        BY DEF v
      <4> QED
        BY <2>1, <2>5, <4>1, <4>2 DEF NetTyped
    <3>4. lost = FALSE
      BY <2>2 DEF NetTyped
    <3>5. Carried(e, sent[e], g, k, wire[e], FALSE, w, Pending(e))
      BY <1>4, <3>4 DEF Flowing
    <3> HIDE DEF g, k, n
    <3>6. Carried(e, sent[e], g, k, wire[e] \o SubSeq(w, 1, n), FALSE, v, Pending(e))
      BY <1>4, <3>2, <3>5, CarriedPiece
    <3> HIDE DEF v
    <3>7. Piece(e)' = v
      BY <3>3 DEF Piece
    <3>8. Pending(e)' = Pending(e)
      <4>1. Waiting(e)' = Waiting(e)
        BY <1>4, <2>2, <3>2, <3>3, <3>7 DEF Waiting
      <4> QED
        BY <1>0, <4>1 DEF Pending
    <3>9. Carried(e, sent'[e], Len(got'[Peer(e)]), need'[Peer(e)], wire'[e], lost', Piece(e)', Pending(e)')
      BY <1>0, <2>3, <3>4, <3>6, <3>7, <3>8 DEF g, k, n
    <3> QED
      BY <3>9 DEF Flowing
  <2> QED
    BY <2>4, <2>5
<1>10. CASE WriteFails(e, 1)
  BY <1>5, <1>7, <1>10 DEF WriteFails
<1> QED
  BY <1>1, <1>3, <1>7, <1>8, <1>9, <1>10 DEF WriterStarts

-----------------------------------------------------------------------------
(* The invariant, step by step.                                            *)

(* The listener knows a server that has advertised; the worker sends       *)
(* chunks of one of the answers.                                           *)
ContentsKnown ==
    /\ heard # None => heard \in Adverts
    /\ result # None => result \in Seq(UNION {Range(r) : r \in Results})

(* Both directions.                                                        *)
Flows == \A e \in Ends : Received(e) /\ Flowing(e)

(* The inductive invariant, but for ContentsKnown.                         *)
Streams == QueuesManned /\ Alive /\ NetTyped /\ HistoryTyped /\ Flows

(* Sending keeps the types, and the other end's queue.                     *)
LEMMA SaysTyped ==
  ASSUME PayloadsReadBack, NetTyped, HistoryTyped, NEW e \in Ends, Says(e)
  PROVE  /\ posted' \in [Ends -> Seq(Seq(Nat))]
         /\ DOMAIN sent' = Ends /\ \A d \in Ends : sent'[d] \in Seq(Messages[d])
         /\ \A d \in Ends : d # e => posted'[d] = posted[d] /\ sent'[d] = sent[d]
<1>1. CASE NothingSent
  BY <1>1 DEF NothingSent, NetTyped, HistoryTyped
<1>2. ASSUME NEW messages \in Seq(Messages[e]), send_msg(e, messages)
      PROVE  /\ posted' \in [Ends -> Seq(Seq(Nat))]
             /\ DOMAIN sent' = Ends /\ \A d \in Ends : sent'[d] \in Seq(Messages[d])
             /\ \A d \in Ends : d # e => posted'[d] = posted[d] /\ sent'[d] = sent[d]
  <2> DEFINE S == Seq(Nat)
             f == Frames(e, messages)
  <2>1. /\ posted' = [posted EXCEPT ![e] = posted[e] \o f]
        /\ sent' = [sent EXCEPT ![e] = sent[e] \o messages]
    BY <1>2 DEF send_msg, Frames, NetTyped, HistoryTyped
  <2>2. /\ f \in Seq(S) /\ posted \in [Ends -> Seq(S)]
        /\ DOMAIN sent = Ends /\ \A d \in Ends : sent[d] \in Seq(Messages[d])
    BY FramesType DEF NetTyped, HistoryTyped
  <2> HIDE DEF S, f
  <2>3. posted[e] \o f \in Seq(S) /\ sent[e] \o messages \in Seq(Messages[e])
    BY <2>2, ConcatProperties
  <2>4. posted' \in [Ends -> Seq(S)]
    BY <2>1, <2>2, <2>3
  <2>5. DOMAIN sent' = Ends /\ \A d \in Ends : sent'[d] \in Seq(Messages[d])
    BY <2>1, <2>2, <2>3
  <2>6. \A d \in Ends : d # e => posted'[d] = posted[d] /\ sent'[d] = sent[d]
    BY <2>1, <2>2
  <2> QED
    BY <2>4, <2>5, <2>6 DEF S
<1> QED
  BY <1>1, <1>2 DEF Says

(* What the client writes stays in its queue while nobody touches it.      *)
LEMMA PieceKept ==
  ASSUME NetTyped, UNCHANGED <<queue, writers>>
  PROVE  Piece("client")' # <<>> => queue'["client"] # <<>>
  BY DEF NetTyped, Piece

(* A step that only sends keeps both streams.                              *)
LEMMA SendStep ==
  ASSUME PayloadsReadBack, Streams, NEW e \in Ends, Says(e),
         UNCHANGED <<queue, writers, wire, lost, need, got>>,
         \A d \in Ends : reader'[d] # "ended" => reader[d] # "ended"
  PROVE  NetTyped' /\ HistoryTyped' /\ Flows'
<1>1. /\ posted' \in [Ends -> Seq(Seq(Nat))]
      /\ DOMAIN sent' = Ends /\ \A d \in Ends : sent'[d] \in Seq(Messages[d])
      /\ \A d \in Ends : d # e => posted'[d] = posted[d] /\ sent'[d] = sent[d]
  BY SaysTyped DEF Streams
<1>2. NetTyped'
  <2>1. Piece("client")' # <<>> => queue'["client"] # <<>>
    BY PieceKept DEF Streams
  <2> QED
    BY <1>1, <2>1 DEF NetTyped, Streams
<1>3. HistoryTyped'
  BY <1>1 DEF HistoryTyped, Streams
<1>4. ASSUME NEW d \in Ends PROVE Received(d)' /\ Flowing(d)'
  <2>1. Peer(d) \in Ends
    BY EndsAre
  <2>2. CASE d = e
    BY <2>1, <2>2, FlowSent DEF Streams, Flows
  <2>3. CASE d # e
    BY <1>1, <2>1, <2>3, FlowKept DEF Streams, Flows
  <2> QED
    BY <2>2, <2>3
<1> QED
  BY <1>2, <1>3, <1>4 DEF Flows

(* Reading from a wire leaves bytes.                                       *)
LEMMA RestOfWire ==
  ASSUME NetTyped, NEW e \in Ends, NEW n \in Nat, Len(wire[e]) >= n,
         wire' = [wire EXCEPT ![e] = SubSeq(@, n + 1, Len(@))]
  PROVE  wire' \in [Ends -> Seq(Nat)]
<1>1. wire[e] \in Seq(Nat) /\ wire \in [Ends -> Seq(Nat)]
  BY DEF NetTyped
<1>2. n <= Len(wire[e])
  <2>1. Len(wire[e]) \in Nat
    BY <1>1, LenProperties
  <2> QED
    BY <2>1
<1>3. SubSeq(wire[e], n + 1, Len(wire[e])) \in Seq(Nat)
  BY <1>1, <1>2, DroppedLen, Zenon
<1> QED
  BY <1>1, <1>3

(* A handler, which reads a message and answers, keeps both streams.       *)
LEMMA ReadStep ==
  ASSUME PayloadsReadBack, Streams, NEW r \in Ends, reader[r] # "ended", ReadPayload(r), Says(r),
         reader'[Peer(r)] # "ended" => reader[Peer(r)] # "ended"
  PROVE  NetTyped' /\ HistoryTyped' /\ Flows'
<1> DEFINE e == Peer(r)
<1>1. e \in Ends /\ Peer(e) = r /\ e # r
  BY EndsAre
<1>2. /\ posted' \in [Ends -> Seq(Seq(Nat))]
      /\ DOMAIN sent' = Ends /\ \A d \in Ends : sent'[d] \in Seq(Messages[d])
      /\ \A d \in Ends : d # r => posted'[d] = posted[d] /\ sent'[d] = sent[d]
  BY SaysTyped DEF Streams
<1>3. /\ Flowing(e)' /\ Received(e)' /\ need' \in [Ends -> Nat]
      /\ got'[r] \in Seq({Visible(m) : m \in Messages[e]})
  BY <1>1, <1>2, PayloadFlow DEF Streams, Flows
<1>4. /\ need[r] \in Nat /\ Len(wire[e]) >= need[r] /\ UNCHANGED <<queue, writers, lost>>
      /\ wire' = [wire EXCEPT ![e] = SubSeq(@, need[r] + 1, Len(@))]
      /\ need' = [need EXCEPT ![r] = 0]
      /\ \E x : got' = [got EXCEPT ![r] = x]
  BY DEF ReadPayload, Arrived, NetTyped, Streams
<1>5. NetTyped'
  <2>1. Piece("client")' # <<>> => queue'["client"] # <<>>
    BY <1>4, PieceKept DEF Streams
  <2>2. wire' \in [Ends -> Seq(Nat)]
    BY <1>1, <1>4, RestOfWire DEF Streams
  <2> QED
    BY <1>2, <1>3, <1>4, <2>1, <2>2 DEF NetTyped, Streams
<1>6. got'[e] = got[e] /\ need'[e] = need[e] /\ wire'[r] = wire[r] /\ DOMAIN got' = Ends
  BY <1>1, <1>4 DEF NetTyped, HistoryTyped, Streams
<1>7. HistoryTyped'
  <2>1. \A d \in Ends : got'[d] \in Seq({Visible(m) : m \in Messages[Peer(d)]})
    <3>1. \A d \in Ends : d = r \/ d = e
      BY EndsAre
    <3>2. got'[e] \in Seq({Visible(m) : m \in Messages[Peer(e)]})
      BY <1>1, <1>6 DEF HistoryTyped, Streams
    <3> QED
      BY <1>3, <3>1, <3>2
  <2> QED
    BY <1>2, <1>6, <2>1 DEF HistoryTyped
<1>8. Flowing(r)' /\ Received(r)'
  BY <1>4, <1>6, FlowSent DEF Streams, Flows
<1>9. \A d \in Ends : d = r \/ d = e
  BY EndsAre
<1> QED
  BY <1>3, <1>5, <1>7, <1>8, <1>9 DEF Flows

(* Reading a prefix keeps both streams.                                    *)
LEMMA LengthStep ==
  ASSUME PayloadsReadBack, Streams, NEW r \in Ends, ReadLength(r)
  PROVE  NetTyped' /\ HistoryTyped' /\ Flows'
<1> DEFINE e == Peer(r)
<1>1. e \in Ends /\ Peer(e) = r /\ e # r
  BY EndsAre
<1>2. Flowing(e)' /\ Received(e)' /\ need' \in [Ends -> Nat]
  BY <1>1, LengthFlow DEF Streams, Flows
<1>3. /\ Len(wire[e]) >= 4 /\ UNCHANGED <<posted, queue, writers, lost, reader, sent, got>>
      /\ wire' = [wire EXCEPT ![e] = SubSeq(@, 4 + 1, Len(@))]
      /\ \E x : need' = [need EXCEPT ![r] = x]
  <2>1. /\ Len(wire[e]) >= 4 /\ UNCHANGED <<posted, queue, writers, lost, reader, sent, got>>
        /\ wire' = [wire EXCEPT ![e] = SubSeq(@, 5, Len(@))]
        /\ \E x : need' = [need EXCEPT ![r] = x]
    BY Zenon DEF ReadLength, Arrived
  <2>2. 4 + 1 = 5
    OBVIOUS
  <2> QED
    BY <2>1, <2>2
<1>4. NetTyped'
  <2>1. Piece("client")' # <<>> => queue'["client"] # <<>>
    BY <1>3, PieceKept DEF Streams
  <2>2. wire' \in [Ends -> Seq(Nat)]
    BY <1>1, <1>3, RestOfWire DEF Streams
  <2> QED
    BY <1>2, <1>3, <2>1, <2>2 DEF NetTyped, Streams
<1>5. HistoryTyped'
  BY <1>3 DEF HistoryTyped, Streams
<1>6. need'[e] = need[e] /\ wire'[r] = wire[r]
  BY <1>1, <1>3 DEF NetTyped, Streams
<1>7. Flowing(r)' /\ Received(r)'
  BY <1>3, <1>6, FlowKept DEF Streams, Flows
<1>8. \A d \in Ends : d = r \/ d = e
  BY EndsAre
<1> QED
  BY <1>2, <1>4, <1>5, <1>7, <1>8 DEF Flows

(* The strand and the writer of an end keep both streams.                  *)
LEMMA WritingStep ==
  ASSUME PayloadsReadBack, Streams, NEW e \in Ends, RunPosted(e) \/ writer_loop(e)
  PROVE  NetTyped' /\ HistoryTyped' /\ Flows'
<1>1. UNCHANGED <<lost, reader, need, sent, got>>
  BY DEF RunPosted, writer_loop
<1>2. NetTyped' /\ Flowing(e)' /\ Received(e)'
  <2>1. CASE RunPosted(e)
    BY <2>1, RunFlow DEF Streams, Flows
  <2>2. CASE writer_loop(e)
    <3>1. NetTyped' /\ Flowing(e)'
      BY <2>2, WriterTyped, WriterFlow DEF Streams, Flows
    <3>2. Received(e)'
      BY <1>1 DEF Streams, Flows, Received
    <3> QED
      BY <3>1, <3>2
  <2> QED
    BY <2>1, <2>2
<1>3. HistoryTyped'
  BY <1>1 DEF HistoryTyped, Streams
<1>4. ASSUME NEW d \in Ends, d # e PROVE Flowing(d)' /\ Received(d)'
  <2>1. wire'[d] = wire[d] /\ writers'[d] = writers[d] /\ queue'[d] = queue[d] /\ posted'[d] = posted[d]
    BY <1>4 DEF RunPosted, Enqueue, writer_loop, WriterStarts, WriteSome, WriteFails, WriterFailed,
                AfterWrite, TakeFront, NetTyped, Streams
  <2> QED
    BY <1>1, <2>1, FlowKept DEF Streams, Flows
<1> QED
  BY <1>2, <1>3, <1>4 DEF Flows

(* A network failure keeps both streams.                                   *)
LEMMA LoseStep ==
  ASSUME Streams, Lose
  PROVE  NetTyped' /\ HistoryTyped' /\ Flows'
<1>1. lost' = TRUE /\ UNCHANGED <<posted, queue, writers, wire, reader, need, sent, got>>
  BY DEF Lose
<1>2. NetTyped'
  <2>1. Piece("client")' # <<>> => queue'["client"] # <<>>
    BY <1>1, PieceKept DEF Streams
  <2> QED
    BY <1>1, <2>1 DEF NetTyped, Streams
<1>3. HistoryTyped'
  BY <1>1 DEF HistoryTyped, Streams
<1>4. ASSUME NEW e \in Ends PROVE Received(e)' /\ Flowing(e)'
  <2>1. Flowing(e)'
    BY <1>1, FlowBroken DEF Streams, Flows
  <2>2. Received(e)'
    BY <1>1 DEF Received, Streams, Flows
  <2> QED
    BY <2>1, <2>2
<1> QED
  BY <1>2, <1>3, <1>4 DEF Flows

(* A message of the end is something it says.                              *)
LEMMA SaysOne ==
  ASSUME NEW e \in Ends, NEW m \in Messages[e], send_msg(e, <<m>>)
  PROVE  Says(e)
<1> DEFINE M == Messages[e]
<1>1. <<m>> \in Seq(M)
  <2>1. m \in M
    OBVIOUS
  <2> HIDE DEF M
  <2> QED
    BY <2>1
<1> QED
  BY <1>1, Zenon DEF Says

(* The client's handlers send the client's messages.                       *)
LEMMA ClientSays ==
  ASSUME start_client_session \/ handle_client_session \/ pick_and_connect \/ Conclude
  PROVE  Says("client")
<1>0. "client" \in Ends
  BY EndsAre
<1>1. ASSUME send_msg("client", <<Abort>>) PROVE Says("client")
  BY <1>0, <1>1, ClientMessages, SaysOne
<1>2. ASSUME send_msg("client", <<>>) PROVE Says("client")
  <2>1. <<>> \in Seq(Messages["client"])
    OBVIOUS
  <2> QED
    BY <1>2, <2>1, Zenon DEF Says
<1>3. ASSUME NothingSent PROVE Says("client")
  BY <1>3 DEF Says
<1>4. ASSUME NEW files, send_required_file(files) PROVE Says("client")
  <2>1. CASE send_msg("client", Chunks("file_chunk_upload", FileChunks))
    BY <2>1, ClientMessages, Zenon DEF Says
  <2> QED
    BY <1>3, <1>4, <2>1 DEF send_required_file
<1>5. CASE start_client_session
  <2>1. (\E files : send_required_file(files)) \/ send_msg("client", <<Abort>>)
    BY <1>5 DEF start_client_session
  <2> QED
    BY <1>1, <1>4, <2>1
<1>6. CASE handle_client_session
  <2>1. \/ \E files : send_required_file(files)
        \/ send_msg("client", <<Abort>>) \/ send_msg("client", <<>>) \/ NothingSent
    BY <1>6 DEF handle_client_session, GiveUp, process_obj_file_chunk
  <2> QED
    BY <1>1, <1>2, <1>3, <1>4, <2>1
<1>7. CASE pick_and_connect
  <2>1. PICK request \in Requests : send_msg("client", <<Message("session_start", request)>>)
    BY <1>7 DEF pick_and_connect
  <2>2. Message("session_start", request) \in Messages["client"]
    BY ClientMessages
  <2> QED
    BY <1>0, <2>1, <2>2, SaysOne
<1>8. CASE Conclude
  BY <1>1, <1>8 DEF Conclude
<1> QED
  BY <1>5, <1>6, <1>7, <1>8

(* The server's handlers send the server's messages, which for the answer  *)
(* to an upload depends on what was received.                              *)
LEMMA ServerSays ==
  ASSUME PayloadsReadBack, Streams, ContentsKnown,
         \/ handle_new_connection \/ handle_server_session \/ add_session
         \/ send_compilation_result
  PROVE  Says("server")
<1>0. "server" \in Ends /\ "client" \in Ends /\ Peer("server") = "client" /\ "client" # "server"
  BY EndsAre
<1>1. ASSUME NothingSent PROVE Says("server")
  BY <1>1 DEF Says
<1>2. CASE handle_new_connection
  BY <1>1, <1>2 DEF handle_new_connection
<1>3. CASE add_session
  <2>1. PICK files \in Required \cup {<<>>} : send_msg("server", <<Confirmed(files)>>)
    BY <1>3 DEF add_session
  <2>2. Confirmed(files) \in Messages["server"]
    BY ServerMessages
  <2> QED
    BY <1>0, <2>1, <2>2, SaysOne
<1>4. CASE send_compilation_result
  <2> DEFINE C == UNION {Range(r) : r \in Results}
  <2>1. /\ result # None /\ result # <<>>
        /\ send_msg("server", <<Message("obj_file_chunk_transmit", Head(result))>>)
    BY <1>4 DEF send_compilation_result
  <2>2. result \in Seq(C)
    BY <2>1 DEF ContentsKnown
  <2>3. Head(result) \in C
    <3> HIDE DEF C
    <3> QED
      BY <2>1, <2>2
  <2>4. PICK r \in Results : Head(result) \in Range(r)
    BY <2>3
  <2>5. Message("obj_file_chunk_transmit", Head(result)) \in Messages["server"]
    BY <2>4, ServerMessages
  <2> QED
    BY <1>0, <2>1, <2>5, SaysOne
<1>5. CASE handle_server_session
  <2> DEFINE in == In("server")
             chunk == CopyClientFileChunk(in.value)
  <2>1. /\ reader["server"] = "loop" /\ ReadPayload("server")
        /\ \/ NothingSent
           \/ in.content_case = "file_chunk_upload" /\ process_file_chunk(chunk)
    BY <1>5 DEF handle_server_session, terminate_server_session
  <2>2. CASE in.content_case = "file_chunk_upload" /\ chunk.is_last_chunk = 1
             /\ \E reply \in {UpComplete(chunk), AbortResponse} : send_msg("server", <<reply>>)
    <3>1. PICK reply \in {UpComplete(chunk), AbortResponse} : send_msg("server", <<reply>>)
      BY <2>2
    <3>2. posted'["client"] = posted["client"] /\ sent'["client"] = sent["client"]
      BY <1>0, <3>1 DEF send_msg, NetTyped, HistoryTyped, Streams
    <3>3. PICK m \in Messages["client"] : in = Visible(m)
      <4>1. \E m \in Messages[Peer("server")] : In("server") = Visible(m)
        BY <1>0, <2>1, <3>2, PayloadFlow DEF Streams, Flows
      <4> QED
        BY <1>0, <4>1
    <3>4. m.content_case = "file_chunk_upload"
      BY <1>0, <2>2, <3>3, VisibleCase
    <3>5. UpComplete(chunk) \in Messages["server"]
      BY <2>2, <3>3, <3>4, ReplyIsKnown
    <3>6. reply \in Messages["server"]
      BY <3>1, <3>5, ServerMessages
    <3> QED
      BY <1>0, <3>1, <3>6, SaysOne
  <2> QED
    BY <1>1, <2>1, <2>2 DEF process_file_chunk
<1> QED
  BY <1>2, <1>3, <1>4, <1>5

(* Every step keeps both streams.                                          *)
LEMMA FlowStep ==
  ASSUME PayloadsReadBack, Streams, ContentsKnown, [Next]_vars
  PROVE  NetTyped' /\ HistoryTyped' /\ Flows'
<1>0. /\ "client" \in Ends /\ "server" \in Ends /\ Peer("client") = "server"
      /\ Peer("server") = "client" /\ "client" # "server"
  BY EndsAre
<1>1. CASE /\ UNCHANGED <<posted, queue, writers, wire, lost, need, sent, got>>
           /\ \A d \in Ends : reader'[d] # "ended" => reader[d] # "ended"
  <2>1. Says("client")
    BY <1>1 DEF Says, NothingSent
  <2> QED
    BY <1>0, <1>1, <2>1, SendStep
<1>2. ASSUME NEW e \in Ends, ReceiveFails(e) PROVE NetTyped' /\ HistoryTyped' /\ Flows'
  <2>1. reader' = [reader EXCEPT ![e] = "ended"]
    BY <1>2 DEF ReceiveFails
  <2>2. \A d \in Ends : reader'[d] # "ended" => reader[d] # "ended"
    BY <2>1 DEF Streams, Alive
  <2> QED
    BY <1>1, <1>2, <2>2 DEF ReceiveFails, net
<1>3. CASE pick_and_connect
  <2>1. reader["client"] = "none" /\ UNCHANGED <<queue, writers, wire, lost, need, got>>
    BY <1>3 DEF pick_and_connect
  <2>2. \A d \in Ends : reader[d] # "ended"
    BY <2>1 DEF Streams, Alive, Ends
  <2> QED
    BY <1>0, <1>3, <2>1, <2>2, ClientSays, SendStep
<1>4. CASE Conclude
  <2>1. UNCHANGED <<queue, writers, wire, lost, need, got, reader>>
    BY <1>4 DEF Conclude
  <2> QED
    BY <1>0, <1>4, <2>1, ClientSays, SendStep
<1>5. CASE add_session
  <2>1. /\ UNCHANGED <<queue, writers, wire, lost, need, got>>
        /\ holds["server"] = {"accept", "table"} /\ reader' = [reader EXCEPT !["server"] = "loop"]
    BY <1>5 DEF add_session
  <2>2. reader["server"] = "none"
    BY <2>1 DEF Streams, Alive
  <2>3. \A d \in Ends : reader'[d] # "ended" => reader[d] # "ended"
    BY <2>1, <2>2 DEF Streams, Alive
  <2> QED
    BY <1>0, <1>5, <2>1, <2>3, ServerSays, SendStep
<1>6. CASE send_compilation_result
  <2>1. UNCHANGED <<queue, writers, wire, lost, need, got, reader>>
    BY <1>6 DEF send_compilation_result
  <2> QED
    BY <1>0, <1>6, <2>1, ServerSays, SendStep
<1>7. CASE start_client_session \/ handle_client_session
  <2>1. /\ reader["client"] \in {"first", "loop"} /\ ReadPayload("client")
        /\ \/ UNCHANGED reader
           \/ \E x : reader' = [reader EXCEPT !["client"] = x]
    BY <1>7 DEF start_client_session, handle_client_session, client_ends, GiveUp,
                WhileNotTerminated, process_obj_file_chunk
  <2>2. reader["client"] # "ended" /\ reader'["server"] = reader["server"]
    BY <1>0, <2>1 DEF Streams, Alive
  <2> QED
    BY <1>0, <1>7, <2>1, <2>2, ClientSays, ReadStep
<1>8. CASE handle_new_connection \/ handle_server_session
  <2>1. /\ reader["server"] \in {"first", "loop"} /\ ReadPayload("server")
        /\ \/ UNCHANGED reader
           \/ \E x : reader' = [reader EXCEPT !["server"] = x]
    BY <1>8 DEF handle_new_connection, handle_server_session, terminate_server_session
  <2>2. reader["server"] # "ended" /\ reader'["client"] = reader["client"]
    BY <1>0, <2>1 DEF Streams, Alive
  <2> QED
    BY <1>0, <1>8, <2>1, <2>2, ServerSays, ReadStep
<1>9. CASE Receive_loop \/ publish_compilation_results \/ UNCHANGED vars
  BY <1>1, <1>9 DEF Receive_loop, publish_compilation_results, net, vars
<1>10. CASE Lose
  BY <1>10, LoseStep
<1>11. ASSUME NEW e \in Ends, RunPosted(e) \/ writer_loop(e)
       PROVE  NetTyped' /\ HistoryTyped' /\ Flows'
  BY <1>11, WritingStep
<1>12. ASSUME NEW e \in Ends, ReadLength(e) PROVE NetTyped' /\ HistoryTyped' /\ Flows'
  BY <1>12, LengthStep
<1> QED
  BY <1>2, <1>3, <1>4, <1>5, <1>6, <1>7, <1>8, <1>9, <1>10, <1>11, <1>12 DEF Next, Reader, Worker

(* Every step keeps the contents known.                                    *)
LEMMA ContentsStep ==
  ASSUME AdvertsReadBack, ContentsKnown, [Next]_vars
  PROVE  ContentsKnown'
<1> DEFINE C == UNION {Range(r) : r \in Results}
<1>1. heard' # None => heard' \in Adverts
  <2>1. CASE Receive_loop
    <3>1. PICK advert \in Adverts :
            LET parsed == ParseAdvert(InternalSerialize(ResourceAdvMessage_InternalSerialize, advert))
            IN  heard' = IF parsed.ok THEN parsed.msg ELSE heard
      BY <2>1 DEF Receive_loop
    <3> DEFINE parsed == ParseAdvert(InternalSerialize(ResourceAdvMessage_InternalSerialize, advert))
    <3>2. heard' = IF parsed.ok THEN parsed.msg ELSE heard
      BY <3>1
    <3>3. parsed.ok => parsed.msg \in Adverts
      BY DEF AdvertsReadBack
    <3> HIDE DEF parsed
    <3> QED
      BY <3>2, <3>3 DEF ContentsKnown
  <2>2. CASE UNCHANGED heard
    BY <2>2 DEF ContentsKnown
  <2> QED
    BY <2>1, <2>2
    DEF Next, pick_and_connect, Conclude, add_session, Worker,
        publish_compilation_results, send_compilation_result, Lose, Reader, ReadLength, ReceiveFails,
        start_client_session, handle_client_session, handle_new_connection, handle_server_session,
        ReadPayload, RunPosted, writer_loop, net, vars
<1>2. result' # None => result' \in Seq(C)
  <2>1. CASE publish_compilation_results
    <3>1. PICK r \in Results : result' = r
      BY <2>1 DEF publish_compilation_results
    <3>2. r \in Seq(Range(r))
      BY ContentsAssumption DEF ContentsAssumption
    <3>3. Range(r) \subseteq C
      OBVIOUS
    <3> HIDE DEF C
    <3>4. r \in Seq(C)
      BY <3>2, <3>3
    <3> QED
      BY <3>1, <3>4
  <2>2. CASE send_compilation_result
    <3>1. result # None /\ result # <<>> /\ result' = Tail(result)
      BY <2>2 DEF send_compilation_result
    <3>2. result \in Seq(C)
      BY <3>1 DEF ContentsKnown
    <3> HIDE DEF C
    <3>3. Tail(result) \in Seq(C)
      BY <3>1, <3>2, HeadTailProperties
    <3> QED
      BY <3>1, <3>3
  <2>3. CASE UNCHANGED result
    BY <2>3 DEF ContentsKnown
  <2> QED
    BY <2>1, <2>2, <2>3
    DEF Next, Receive_loop, pick_and_connect, Conclude, add_session, Worker, Lose, Reader,
        ReadLength, ReceiveFails, start_client_session, handle_client_session,
        handle_new_connection, handle_server_session, RunPosted, writer_loop, net, vars
<1> QED
  BY <1>1, <1>2 DEF ContentsKnown

(* Initially both streams are empty.                                       *)
LEMMA StreamsInit == Init => Streams /\ ContentsKnown
<1> SUFFICES ASSUME Init PROVE Streams /\ ContentsKnown
  OBVIOUS
<1>1. /\ heard = None /\ result = None /\ lost = FALSE /\ in_progress = [e \in Ends |-> FALSE]
      /\ posted = [e \in Ends |-> <<>>] /\ queue = [e \in Ends |-> <<>>]
      /\ writers = [e \in Ends |-> <<>>] /\ wire = [e \in Ends |-> <<>>]
      /\ need = [e \in Ends |-> 0] /\ sent = [e \in Ends |-> <<>>] /\ got = [e \in Ends |-> <<>>]
  BY DEF Init
<1>2. ContentsKnown
  BY <1>1 DEF ContentsKnown
<1>3. QueuesManned
  BY <1>1 DEF QueuesManned, Manned
<1>4. \A e \in Ends : Piece(e) = <<>> /\ Waiting(e) = <<>>
  BY <1>1 DEF Piece, Waiting
<1>5. NetTyped
  <2> DEFINE S == Seq(Nat)
  <2>1. <<>> \in S /\ <<>> \in Seq(S)
    OBVIOUS
  <2> HIDE DEF S
  <2>2. /\ posted \in [Ends -> Seq(S)] /\ queue \in [Ends -> Seq(S)]
        /\ writers \in [Ends -> Seq(S)] /\ wire \in [Ends -> S]
    BY <1>1, <2>1
  <2> QED
    BY <1>1, <1>4, <2>2, EndsAre DEF NetTyped, S
<1>6. HistoryTyped
  <2>1. \A S : <<>> \in Seq(S)
    OBVIOUS
  <2> QED
    BY <1>1, <2>1, EndsAre DEF HistoryTyped
<1>7. ASSUME NEW e \in Ends PROVE Received(e) /\ Flowing(e)
  <2>1. /\ Peer(e) \in Ends /\ got[Peer(e)] = <<>> /\ sent[e] = <<>> /\ need[Peer(e)] = 0
        /\ wire[e] = <<>> /\ posted[e] = <<>> /\ Len(<<>>) = 0
    BY <1>1, EndsAre
  <2>2. Pending(e) = <<>>
    <3>1. <<>> \o <<>> = <<>>
      OBVIOUS
    <3> QED
      BY <1>4, <2>1, <3>1 DEF Pending
  <2>3. Received(e)
    BY <2>1 DEF Received
  <2>4. Carried(e, sent[e], Len(got[Peer(e)]), need[Peer(e)], wire[e], lost, Piece(e), Pending(e))
    BY <1>1, <1>4, <2>1, <2>2, CarriedInit
  <2> QED
    BY <2>3, <2>4 DEF Flowing
<1> QED
  BY <1>2, <1>3, <1>5, <1>6, <1>7, AliveInit DEF Streams, Flows

(* The invariant says that messages are delivered in order.                *)
LEMMA StreamsDeliver ==
  ASSUME Streams, ContentsKnown
  PROVE  DeliveredInOrder
<1> SUFFICES ASSUME NEW e \in Ends
             PROVE  /\ Len(got[e]) <= Len(sent[Peer(e)])
                    /\ \A i \in DOMAIN got[e] : got[e][i] = Visible(sent[Peer(e)][i])
  BY DEF ContentsKnown, DeliveredInOrder
<1>1. Peer(e) \in Ends /\ Peer(Peer(e)) = e
  BY EndsAre
<1>2. /\ Len(got[e]) <= Len(sent[Peer(e)])
      /\ \A i \in 1..Len(got[e]) : got[e][i] = Visible(sent[Peer(e)][i])
  BY <1>1 DEF Streams, Flows, Received
<1>3. DOMAIN got[e] = 1..Len(got[e])
  BY LenProperties DEF Streams, HistoryTyped
<1> QED
  BY <1>2, <1>3

(* For any messages that the classes read back as what is visible of them, *)
(* any file, answers and pieces, and however the handlers, the strands,    *)
(* the writers, the readers and a failure of the network interleave: an    *)
(* end reads the messages of the other in the order they were given to     *)
(* send_msg, none skipped, doubled or mixed with another.                  *)
THEOREM DeliveryIsOrdered ==
  ASSUME PayloadsReadBack, AdvertsReadBack
  PROVE  Spec => []DeliveredInOrder
<1>1. Init => Streams /\ ContentsKnown
  BY StreamsInit
<1>2. Streams /\ ContentsKnown /\ [Next]_vars => (Streams /\ ContentsKnown)'
  BY MannedStep, AliveStep, FlowStep, ContentsStep DEF Streams
<1>3. Streams /\ ContentsKnown => DeliveredInOrder
  BY StreamsDeliver
<1> QED
  BY <1>1, <1>2, <1>3, PTL DEF Spec
=============================================================================
