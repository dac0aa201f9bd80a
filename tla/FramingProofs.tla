--------------------------- MODULE FramingProofs ---------------------------
(***************************************************************************)
(* What Framing.tla says of a connection, for frames and pieces of any      *)
(* number and size: types for client and server, and for a server's         *)
(* connections, whose parser starts anew, that a packet is decoded from its *)
(* own body, that valid data is handled, and that the adapter gets the      *)
(* packets once and in order.                                               *)
(*                                                                         *)
(* The units that the parser has not consumed, the input buffer followed by *)
(* what is under way, are a run of the stream up to its end: it does not    *)
(* matter how the stream is cut.                                            *)
(***************************************************************************)
EXTENDS Framing, TLAPS, FiniteSetTheorems, WellFoundedInduction

\* The units not yet consumed.
Rest == input \o net

\* In the stream fs the unit v comes right after u; u is the last unit.
Follows(fs, u, v) == v = IF u[2] < HeaderLen + fs[u[1]].len
                         THEN <<u[1], u[2] + 1>> ELSE <<u[1] + 1, 1>>
LastUnit(fs, u) == u[1] = Len(fs) /\ u[2] = HeaderLen + fs[u[1]].len

\* r has units of frames from lo on, in the order of the stream and without a
\* gap, up to the stream's end.
InStream(fs, lo, r) ==
    \A j \in 1 .. Len(r) : /\ r[j][1] \in lo .. Len(fs)
                           /\ r[j][2] \in 1 .. HeaderLen + fs[r[j][1]].len
Gapless(fs, r) ==
    \A j \in 1 .. Len(r) : IF j = Len(r) THEN LastUnit(fs, r[j]) ELSE Follows(fs, r[j], r[j + 1])
Ascending(r) == \A i, j \in 1 .. Len(r) : i <= j => r[i][1] <= r[j][1]
Complete(fs, r) ==
    Len(r) > 0 => \A f \in r[1][1] .. Len(fs) :
                      \E j \in 1 .. Len(r) : r[j] = <<f, HeaderLen + fs[f].len>>

Consecutive(fs, lo, r) ==
    InStream(fs, lo, r) /\ Gapless(fs, r) /\ Ascending(r) /\ Complete(fs, r)

\* r is what comes right after the unit u.
After(fs, u, r) == IF Len(r) = 0 THEN LastUnit(fs, u) ELSE Follows(fs, u, r[1])

StreamInv == Consecutive(frames, first, Rest)

\* The parser's state, of this connection or, on a client, of an earlier one.
Sent(r) == \A j \in 1 .. Len(r) : r[j][1] <= Len(frames)

ParserInv ==
    /\ Sent(input) /\ Sent(net)
    /\ first <= Len(frames) + 1
    /\ gotHeader <=> header # 0
    /\ header <= Len(frames)
    /\ pc = "body" => gotHeader
    /\ pc # "body" /\ gotHeader => frames[header].len > 0
    /\ pc # "idle" => up

\* After a header its body comes.
BodyInv == up /\ gotHeader => /\ header \in first .. Len(frames)
                              /\ After(frames, <<header, HeaderLen>>, Rest)

\* The packets of q are in the order of the stream.
InOrder(q) == \A i, j \in 1 .. Len(q) :
    i < j /\ q[i].head # 0 /\ q[j].head # 0 => q[i].head < q[j].head

\* The parser is past the frame f.
Passed(f) == /\ f <= Len(frames)
             /\ gotHeader => f < header
             /\ Len(Rest) > 0 => f < Rest[1][1]

\* Packets with their own body, of frames that the parser is past.
Sound == {BadPacket} \cup
    {p \in Packet : Passed(p.head) /\ p.body = Part(p.head, HeaderLen + 1, HeaderLen + frames[p.head].len)}

PacketInv ==
    /\ Len(inputQueue) < Batch
    /\ ~ batching => inputQueue = <<>>
    /\ given \in Seq(Sound) /\ inputQueue \in Seq(Sound)
    /\ InOrder(given) /\ InOrder(inputQueue)
    /\ \A i \in 1 .. Len(given), j \in 1 .. Len(inputQueue) : given[i].head < inputQueue[j].head

\* What was handled was given, or waits in the batch.
GivenInv ==
    /\ \A i \in DOMAIN handled : handled[i] \in 1 .. Len(frames)
    /\ Heads(given) \cup Heads(inputQueue) \subseteq GoodHandled
    /\ up => /\ GoodHandled \subseteq Heads(given) \cup Heads(inputQueue)
             /\ Len(handled) = Len(given) + Len(inputQueue)
    /\ Len(handled) < Len(given) + Batch

\* On a clean stream the frame that the parser is at follows those handled.
CleanInv ==
    up /\ Clean =>
        /\ \A i \in 1 .. Len(handled) : handled[i] = first + i - 1
        /\ gotHeader => header = first + Len(handled)
        /\ ~ gotHeader => IF Len(Rest) = 0 THEN first + Len(handled) = Len(frames) + 1
                          ELSE Rest[1] = <<first + Len(handled), 1>>
        /\ pc = "idle" /\ ~ gotHeader => Len(input) < HeaderLen
        /\ pc = "idle" /\ gotHeader => Len(input) < frames[header].len

TypeInv == TypeOK /\ ParserInv
PlaceInv == StreamInv /\ BodyInv
FrameInv == TypeInv /\ PlaceInv /\ PacketInv /\ GivenInv /\ CleanInv

-----------------------------------------------------------------------------
(* Sequences and runs of the stream. *)

LEMMA Least ==
    ASSUME NEW S, S # {}, S \subseteq Nat
    PROVE  \E s \in S : \A t \in S : s <= t
<1> DEFINE R == OpToRel(<, Nat)
<1>1. IsWellFoundedOn(R, Nat)
    BY NatLessThanWellFounded
<1>2. \A a, b \in Nat : a < b => <<a, b>> \in R
    BY DEF OpToRel
<1> HIDE DEF R
<1>3. PICK m \in S : \A k \in S : ~ (<<k, m>> \in R)
    BY <1>1, WFMin
<1>4. ASSUME NEW k \in S PROVE m <= k
  <2>1. k \in Nat /\ m \in Nat
      OBVIOUS
  <2>2. ~ (k < m)
      BY <1>2, <1>3, <2>1, Zenon
  <2> QED
      BY <2>1, <2>2
<1> QED
    BY <1>4

LEMMA TakeFacts ==
    ASSUME NEW T, NEW s \in Seq(T), NEW n \in 0 .. Len(s)
    PROVE  /\ Take(s, n) \in Seq(T) /\ Len(Take(s, n)) = n
           /\ \A i \in 1 .. n : Take(s, n)[i] = s[i]
BY DEF Take

LEMMA DropFacts ==
    ASSUME NEW T, NEW s \in Seq(T), NEW n \in 0 .. Len(s)
    PROVE  /\ Drop(s, n) \in Seq(T) /\ Len(Drop(s, n)) = Len(s) - n
           /\ \A i \in 1 .. Len(s) - n : Drop(s, n)[i] = s[n + i]
BY DEF Drop

LEMMA PartFacts ==
    ASSUME NEW f \in Nat, NEW a \in Nat \ {0}, NEW b \in Nat, a <= b + 1
    PROVE  /\ Part(f, a, b) \in Seq({f} \X (a .. b)) /\ Len(Part(f, a, b)) = b + 1 - a
           /\ \A i \in 1 .. b + 1 - a : Part(f, a, b)[i] = <<f, a + i - 1>>
<1>1. b + 1 - a \in Nat
    OBVIOUS
<1>2. \A i \in 1 .. b + 1 - a : <<f, a + i - 1>> \in {f} \X (a .. b)
    OBVIOUS
<1> QED
    BY <1>1, <1>2 DEF Part

LEMMA SameSeq ==
    ASSUME NEW T, NEW s \in Seq(T), NEW t \in Seq(T), Len(s) = Len(t),
           \A i \in 1 .. Len(s) : s[i] = t[i]
    PROVE  s = t
OBVIOUS

LEMMA JoinFacts ==
    ASSUME NEW T, NEW s \in Seq(T), NEW t \in Seq(T)
    PROVE  /\ s \o t \in Seq(T) /\ Len(s \o t) = Len(s) + Len(t)
           /\ \A i \in 1 .. Len(s) : (s \o t)[i] = s[i]
           /\ \A i \in 1 .. Len(t) : (s \o t)[Len(s) + i] = t[i]
OBVIOUS

\* Cutting the stream elsewhere does not change it.
LEMMA CutAnywhere ==
    ASSUME NEW T, NEW s \in Seq(T), NEW t \in Seq(T), NEW n \in 0 .. Len(t)
    PROVE  (s \o Take(t, n)) \o Drop(t, n) = s \o t
<1>1. /\ Take(t, n) \in Seq(T) /\ Len(Take(t, n)) = n
      /\ \A i \in 1 .. n : Take(t, n)[i] = t[i]
    BY TakeFacts
<1>2. /\ Drop(t, n) \in Seq(T) /\ Len(Drop(t, n)) = Len(t) - n
      /\ \A i \in 1 .. Len(t) - n : Drop(t, n)[i] = t[n + i]
    BY DropFacts
<1> DEFINE a == Take(t, n)
           b == Drop(t, n)
<1> HIDE DEF a, b
<1>3. a \in Seq(T) /\ b \in Seq(T) /\ Len(a) = n /\ Len(b) = Len(t) - n
    BY <1>1, <1>2 DEF a, b
<1> DEFINE c == s \o a
<1>4. c \in Seq(T) /\ Len(c) = Len(s) + n
    BY <1>3
<1> HIDE DEF c
<1>5. c \o b \in Seq(T) /\ s \o t \in Seq(T) /\ Len(c \o b) = Len(s) + Len(t) /\ Len(s \o t) = Len(s) + Len(t)
  <2>0. c \in Seq(T) /\ b \in Seq(T)
      BY <1>3, <1>4
  <2>1. Len(c \o b) = Len(c) + Len(b) /\ c \o b \in Seq(T)
      BY <2>0
  <2>2. Len(s) \in Nat /\ Len(t) \in Nat
      OBVIOUS
  <2> QED
      BY <1>3, <1>4, <2>1, <2>2
<1>6. ASSUME NEW i \in 1 .. Len(s) + Len(t) PROVE (c \o b)[i] = (s \o t)[i]
  <2>0. i \in Nat /\ Len(s) \in Nat /\ n \in Nat
      OBVIOUS
  <2>1. CASE i <= Len(s)
    <3>1. (c \o b)[i] = c[i]
        BY <1>3, <1>4, <2>0, <2>1
    <3>2. c[i] = s[i]
        BY <1>3, <2>0, <2>1 DEF c
    <3> QED
        BY <2>0, <2>1, <3>1, <3>2
  <2>2. CASE i > Len(s) /\ i <= Len(s) + n
    <3>1. (c \o b)[i] = c[i]
        BY <1>3, <1>4, <2>0, <2>2
    <3>2. c[i] = a[i - Len(s)]
        BY <1>3, <2>0, <2>2 DEF c
    <3>3. a[i - Len(s)] = t[i - Len(s)]
        BY <1>1, <2>2 DEF a
    <3> QED
        BY <2>0, <2>2, <3>1, <3>2, <3>3
  <2>3. CASE i > Len(s) + n
    <3>1. (c \o b)[i] = b[i - (Len(s) + n)]
      <4>1. \A k \in 1 .. Len(b) : (c \o b)[Len(c) + k] = b[k]
          BY <1>3, <1>4, JoinFacts, SMTT(30)
      <4>2. i - (Len(s) + n) \in 1 .. Len(b) /\ Len(c) + (i - (Len(s) + n)) = i
          BY <1>3, <1>4, <2>0, <2>3
      <4> QED
          BY <4>1, <4>2
    <3>2. b[i - (Len(s) + n)] = t[i - Len(s)]
      <4>1. \A k \in 1 .. Len(t) - n : b[k] = t[n + k]
          BY <1>2 DEF b
      <4>2. i - (Len(s) + n) \in 1 .. Len(t) - n /\ n + (i - (Len(s) + n)) = i - Len(s)
          BY <2>0, <2>3
      <4> QED
          BY <4>1, <4>2
    <3> QED
        BY <2>0, <2>3, <3>1, <3>2
  <2>4. i <= Len(s) \/ (i > Len(s) /\ i <= Len(s) + n) \/ i > Len(s) + n
      BY <2>0
  <2> QED
      BY <2>1, <2>2, <2>3, <2>4, Zenon
<1>7. c \o b = s \o t
    BY <1>5, <1>6, SameSeq
<1> QED
    BY <1>7 DEF a, b, c

LEMMA DropOfRun ==
    ASSUME NEW T, NEW s \in Seq(T), NEW t \in Seq(T), NEW n \in 0 .. Len(s)
    PROVE  Drop(s, n) \o t = Drop(s \o t, n)
<1> DEFINE r == s \o t
<1>0. r \in Seq(T) /\ Len(r) = Len(s) + Len(t) /\ n \in 0 .. Len(r)
    OBVIOUS
<1>1. /\ Drop(s, n) \in Seq(T) /\ Len(Drop(s, n)) = Len(s) - n
      /\ \A i \in 1 .. Len(s) - n : Drop(s, n)[i] = s[n + i]
    BY DropFacts
<1> DEFINE a == Drop(s, n)
           b == Drop(r, n)
<1> HIDE DEF r, a, b
<1>2a. b \in Seq(T) /\ Len(b) = Len(r) - n /\ \A i \in 1 .. Len(r) - n : b[i] = r[n + i]
    BY <1>0, DropFacts, Zenon DEF b
<1>2. b \in Seq(T) /\ Len(b) = Len(s) + Len(t) - n
    BY <1>0, <1>2a
<1>3. \A i \in 1 .. Len(s) + Len(t) - n : b[i] = r[n + i]
    BY <1>0, <1>2a
<1>4. a \in Seq(T) /\ Len(a) = Len(s) - n
    BY <1>1 DEF a
<1>5. a \o t \in Seq(T) /\ Len(a \o t) = Len(b)
  <2>1. a \o t \in Seq(T) /\ Len(a \o t) = Len(a) + Len(t)
      BY <1>4
  <2>2. Len(s) \in Nat /\ Len(t) \in Nat
      OBVIOUS
  <2> QED
      BY <1>2, <1>4, <2>1, <2>2
<1>6. ASSUME NEW i \in 1 .. Len(a \o t) PROVE (a \o t)[i] = b[i]
  <2>0. i \in 1 .. Len(s) + Len(t) - n
      BY <1>2, <1>5
  <2>1. b[i] = (s \o t)[n + i]
      BY <1>3, <2>0 DEF r
  <2>2. CASE i <= Len(s) - n
    <3>1. (a \o t)[i] = a[i]
        BY <1>4, <2>0, <2>2
    <3>2. a[i] = s[n + i]
        BY <1>1, <2>0, <2>2 DEF a
    <3> QED
        BY <2>1, <3>1, <3>2, <2>0, <2>2
  <2>3. CASE i > Len(s) - n
      BY <1>4, <2>0, <2>1, <2>3, SMTT(30)
  <2> QED
      BY <2>2, <2>3, <2>0
<1>7. a \o t = b
    BY <1>2, <1>5, <1>6, SameSeq
<1> QED
    BY <1>7 DEF a, b, r

LEMMA Associative ==
    ASSUME NEW T, NEW s \in Seq(T), NEW t \in Seq(T), NEW u \in Seq(T)
    PROVE  s \o (t \o u) = (s \o t) \o u
OBVIOUS

LEMMA Lengths ==
    ASSUME NEW fs \in Seq(Frame), NEW f \in 1 .. Len(fs)
    PROVE  fs[f].len \in 0 .. MaxLen /\ fs[f].kind \in Kinds
<1>1. fs[f] \in Frame
    OBVIOUS
<1> QED
    BY <1>1 DEF Frame

LEMMA UnitFacts ==
    ASSUME NEW r \in Seq(Unit), NEW j \in 1 .. Len(r)
    PROVE  /\ r[j] = <<r[j][1], r[j][2]>>
           /\ r[j][1] \in 1 .. MaxFrames /\ r[j][2] \in 1 .. HeaderLen + MaxLen
           /\ r[j][1] \in Nat /\ r[j][2] \in Nat
<1>1. r[j] \in (1 .. MaxFrames) \X (1 .. HeaderLen + MaxLen)
    BY DEF Unit
<1> QED
    BY <1>1, FramingBounds

\* What is left of a run when its first n units are consumed.
LEMMA DropConsecutive ==
    ASSUME NEW fs \in Seq(Frame), NEW lo \in Nat, NEW r \in Seq(Unit), NEW n \in 0 .. Len(r),
           Consecutive(fs, lo, r)
    PROVE  Consecutive(fs, lo, Drop(r, n))
<1> DEFINE d == Drop(r, n)
<1>1. d \in Seq(Unit) /\ Len(d) = Len(r) - n /\ \A i \in 1 .. Len(r) - n : d[i] = r[n + i]
    BY DropFacts
<1> HIDE DEF d
<1>2. \A i \in 1 .. Len(d) : d[i] = r[n + i] /\ n + i \in 1 .. Len(r)
    BY <1>1
<1>3. InStream(fs, lo, d)
    BY <1>2 DEF Consecutive, InStream
<1>4. Gapless(fs, d)
  <2> SUFFICES ASSUME NEW j \in 1 .. Len(d)
               PROVE  IF j = Len(d) THEN LastUnit(fs, d[j]) ELSE Follows(fs, d[j], d[j + 1])
      BY DEF Gapless
  <2>1. IF n + j = Len(r) THEN LastUnit(fs, r[n + j]) ELSE Follows(fs, r[n + j], r[n + j + 1])
      BY <1>2 DEF Consecutive, Gapless
  <2>2. j = Len(d) <=> n + j = Len(r)
      BY <1>1
  <2>3. j # Len(d) => d[j + 1] = r[n + j + 1]
    <3>1. j # Len(d) => j + 1 \in 1 .. Len(r) - n
        BY <1>1
    <3>2. n + (j + 1) = n + j + 1
        OBVIOUS
    <3> QED
        BY <1>1, <3>1, <3>2
  <2> QED
      BY <1>2, <2>1, <2>2, <2>3
<1>5. Ascending(d)
    BY <1>1, <1>2 DEF Consecutive, Ascending
<1>6. Complete(fs, d)
  <2> SUFFICES ASSUME Len(d) > 0, NEW f \in d[1][1] .. Len(fs)
               PROVE  \E j \in 1 .. Len(d) : d[j] = <<f, HeaderLen + fs[f].len>>
      BY DEF Complete
  <2>0. d[1] = r[n + 1] /\ n + 1 \in 1 .. Len(r) /\ Len(r) > 0 /\ 1 \in 1 .. Len(r)
      BY <1>1
  <2>1. r[1][1] <= r[n + 1][1]
      BY <2>0 DEF Consecutive, Ascending
  <2>2. r[1][1] \in Nat /\ r[n + 1][1] \in Nat /\ r[n + 1][1] > 0
      BY <2>0, UnitFacts
  <2>3. f \in r[1][1] .. Len(fs) /\ f \in 1 .. Len(fs)
      BY <2>0, <2>1, <2>2
  <2>4. PICK j \in 1 .. Len(r) : r[j] = <<f, HeaderLen + fs[f].len>>
      BY <2>0, <2>3 DEF Consecutive, Complete
  <2>5. CASE j > n
    <3>1. j - n \in 1 .. Len(d) /\ d[j - n] = r[j]
        BY <1>1, <2>5
    <3> QED
        BY <2>4, <3>1
  <2>6. CASE j <= n
    <3>1. Follows(fs, r[j], r[j + 1]) /\ j + 1 \in 1 .. Len(r) /\ j + 1 <= n + 1
        BY <2>0, <2>6 DEF Consecutive, Gapless
    <3>2. r[j][1] = f /\ r[j][2] = HeaderLen + fs[f].len /\ f \in Nat
        BY <2>3, <2>4
    <3>3. fs[f].len \in Nat /\ HeaderLen \in Nat
        BY <2>3, Lengths, FramingBounds
    <3>4. r[j + 1] = <<f + 1, 1>>
        BY <3>1, <3>2, <3>3 DEF Follows
    <3>5. r[j + 1][1] <= r[n + 1][1]
        BY <2>0, <3>1 DEF Consecutive, Ascending
    <3>6. r[n + 1][1] <= f
        BY <2>0
    <3> QED
        BY <2>2, <3>2, <3>4, <3>5, <3>6
  <2> QED
      BY <2>5, <2>6, SMTT(30)
<1> QED
    BY <1>3, <1>4, <1>5, <1>6 DEF Consecutive, d

\* The run after its unit n.
LEMMA AfterUnit ==
    ASSUME NEW fs \in Seq(Frame), NEW lo \in Nat, NEW r \in Seq(Unit), NEW n \in 1 .. Len(r),
           Consecutive(fs, lo, r)
    PROVE  After(fs, r[n], Drop(r, n))
<1> DEFINE d == Drop(r, n)
<1>1. d \in Seq(Unit) /\ Len(d) = Len(r) - n /\ \A i \in 1 .. Len(r) - n : d[i] = r[n + i]
  <2>1. n \in 0 .. Len(r)
      OBVIOUS
  <2> QED
      BY <2>1, DropFacts
<1> HIDE DEF d
<1>2. IF n = Len(r) THEN LastUnit(fs, r[n]) ELSE Follows(fs, r[n], r[n + 1])
    BY DEF Consecutive, Gapless
<1>3. n # Len(r) => d[1] = r[n + 1]
    BY <1>1
<1> QED
    BY <1>1, <1>2, <1>3 DEF After, d

\* From unit a of frame f on come the units of that frame.
RunFrom(fs, lo, r, f, a, n) ==
    /\ fs \in Seq(Frame) /\ lo \in Nat /\ r \in Seq(Unit) /\ Consecutive(fs, lo, r)
    /\ f \in 1 .. Len(fs) /\ a \in Nat \ {0} /\ n \in 1 .. Len(r)
    /\ r[1] = <<f, a>> /\ a + n <= HeaderLen + fs[f].len + 1

LEMMA UnitsOfFrame ==
    ASSUME NEW fs, NEW lo, NEW r, NEW f, NEW a, NEW n, RunFrom(fs, lo, r, f, a, n)
    PROVE  \A j \in 1 .. n : r[j] = <<f, a + j - 1>>
<1>0. /\ fs \in Seq(Frame) /\ r \in Seq(Unit) /\ Consecutive(fs, lo, r)
      /\ f \in 1 .. Len(fs) /\ a \in Nat \ {0} /\ n \in 1 .. Len(r) /\ n \in Nat /\ Len(r) \in Nat
      /\ r[1] = <<f, a>> /\ a + n <= HeaderLen + fs[f].len + 1
    BY DEF RunFrom
<1> DEFINE bad == {j \in 1 .. n : r[j] # <<f, a + j - 1>>}
<1> SUFFICES ASSUME bad # {} PROVE FALSE
    BY <1>0
<1>1. PICK m \in bad : \A j \in bad : m <= j
  <2>1. bad \subseteq Nat
      BY <1>0
  <2> HIDE DEF bad
  <2> QED
      BY <2>1, Least
<1>2. m # 1 /\ m \in 1 .. n
    BY <1>0
<1>3. m - 1 \in 1 .. n /\ m - 1 \notin bad
  <2> HIDE DEF bad
  <2>1. m - 1 \in 1 .. n /\ ~ (m <= m - 1)
      BY <1>0, <1>2
  <2> QED
      BY <1>1, <2>1
<1>4. r[m - 1] = <<f, a + m - 2>>
    BY <1>2, <1>3
<1>5. Follows(fs, r[m - 1], r[m])
  <2>1. m - 1 \in 1 .. Len(r) /\ m - 1 # Len(r) /\ m - 1 + 1 = m
    <3> HIDE DEF bad
    <3> QED
        BY <1>0, <1>2
  <2> QED
      BY <1>0, <2>1 DEF Consecutive, Gapless
<1>6. fs[f].len \in Nat /\ HeaderLen \in Nat
    BY <1>0, Lengths, FramingBounds
<1>7. a + m - 2 < HeaderLen + fs[f].len
  <2>1. m \in Nat /\ n \in Nat /\ m <= n
      BY <1>0, <1>2
  <2> HIDE DEF bad
  <2> QED
      BY <1>0, <1>6, <2>1
<1>8. r[m] = <<f, (a + m - 2) + 1>>
    BY <1>4, <1>5, <1>7 DEF Follows
<1> QED
    BY <1>0, <1>2, <1>8

LEMMA AppendFrame ==
    ASSUME NEW fs \in Seq(Frame), NEW fr \in Frame
    PROVE  /\ Append(fs, fr) \in Seq(Frame) /\ Len(Append(fs, fr)) = Len(fs) + 1
           /\ \A f \in 1 .. Len(fs) : Append(fs, fr)[f] = fs[f]
           /\ Append(fs, fr)[Len(fs) + 1] = fr
           /\ fr.len \in 0 .. MaxLen
BY DEF Frame

LEMMA EncodedFacts ==
    ASSUME NEW f \in 1 .. MaxFrames, NEW len \in 0 .. MaxLen
    PROVE  /\ Encoded(f, len) \in Seq(Unit) /\ Len(Encoded(f, len)) = HeaderLen + len
           /\ \A i \in 1 .. HeaderLen + len : Encoded(f, len)[i] = <<f, i>>
<1>1. HeaderLen + len \in Nat /\ len <= MaxLen /\ HeaderLen \in Nat /\ MaxLen \in Nat /\ f \in Nat
    BY FramingBounds
<1> DEFINE e == Part(f, 1, HeaderLen + len)
           b == HeaderLen + len
<1>2. 1 <= b + 1 /\ b \in Nat /\ b + 1 - 1 = b
    BY <1>1
<1> HIDE DEF b
<1>3. /\ Part(f, 1, b) \in Seq({f} \X (1 .. b)) /\ Len(Part(f, 1, b)) = b + 1 - 1
      /\ \A i \in 1 .. b + 1 - 1 : Part(f, 1, b)[i] = <<f, 1 + i - 1>>
  <2>1. 1 \in Nat \ {0} /\ f \in Nat
      BY <1>1
  <2> QED
      BY <1>2, <2>1, PartFacts, Zenon
<1>4. \A i \in 1 .. b : Part(f, 1, b)[i] = <<f, i>>
  <2> SUFFICES ASSUME NEW i \in 1 .. b PROVE Part(f, 1, b)[i] = <<f, i>>
      OBVIOUS
  <2>1. 1 + i - 1 = i
      OBVIOUS
  <2> QED
      BY <1>2, <1>3, <2>1
<1>5. {f} \X (1 .. b) \subseteq Unit
    BY <1>1, <1>2 DEF Unit, b
<1>6. Part(f, 1, b) \in Seq(Unit)
    BY <1>3, <1>5
<1> QED
    BY <1>2, <1>3, <1>4, <1>6 DEF Encoded, b

\* The run r of fs, and then the units of one frame more.
Extends(fs, fr, gs, r, e) ==
    /\ gs = Append(fs, fr) /\ e = Encoded(Len(fs) + 1, fr.len)
    /\ fs \in Seq(Frame) /\ fr \in Frame /\ r \in Seq(Unit) /\ Len(fs) < MaxFrames

LEMMA ExtendFacts ==
    ASSUME NEW fs, NEW fr, NEW gs, NEW r, NEW e, Extends(fs, fr, gs, r, e)
    PROVE  /\ gs \in Seq(Frame) /\ Len(gs) = Len(fs) + 1 /\ Len(fs) \in Nat
           /\ \A f \in 1 .. Len(fs) : gs[f] = fs[f]
           /\ gs[Len(fs) + 1] = fr /\ fr.len \in Nat /\ HeaderLen \in Nat \ {0}
           /\ e \in Seq(Unit) /\ Len(e) = HeaderLen + fr.len
           /\ \A i \in 1 .. Len(e) : e[i] = <<Len(fs) + 1, i>>
           /\ r \o e \in Seq(Unit) /\ Len(r \o e) = Len(r) + Len(e)
           /\ Len(r) \in Nat /\ Len(e) \in Nat \ {0}
           /\ \A i \in 1 .. Len(r) : (r \o e)[i] = r[i]
           /\ \A i \in 1 .. Len(e) : (r \o e)[Len(r) + i] = e[i]
<1>1. fs \in Seq(Frame) /\ fr \in Frame /\ r \in Seq(Unit) /\ Len(fs) + 1 \in 1 .. MaxFrames
    BY FramingBounds DEF Extends
<1>2. gs \in Seq(Frame) /\ Len(gs) = Len(fs) + 1 /\ Len(fs) \in Nat
    BY <1>1, AppendFrame DEF Extends
<1>3. \A f \in 1 .. Len(fs) : gs[f] = fs[f]
    BY <1>1, AppendFrame DEF Extends
<1>4. gs[Len(fs) + 1] = fr /\ fr.len \in 0 .. MaxLen /\ fr.len \in Nat /\ HeaderLen \in Nat \ {0}
  <2>1. gs[Len(fs) + 1] = fr /\ fr.len \in 0 .. MaxLen
      BY <1>1, AppendFrame DEF Extends
  <2> QED
      BY <2>1, FramingBounds
<1>5. e \in Seq(Unit) /\ Len(e) = HeaderLen + fr.len
    BY <1>1, <1>4, EncodedFacts DEF Extends
<1>6. \A i \in 1 .. HeaderLen + fr.len : e[i] = <<Len(fs) + 1, i>>
    BY <1>1, <1>4, EncodedFacts DEF Extends
<1>7. /\ r \o e \in Seq(Unit) /\ Len(r \o e) = Len(r) + Len(e) /\ Len(r) \in Nat /\ Len(e) \in Nat
      /\ \A i \in 1 .. Len(r) : (r \o e)[i] = r[i]
      /\ \A i \in 1 .. Len(e) : (r \o e)[Len(r) + i] = e[i]
    BY <1>1, <1>5
<1>8. Len(e) # 0
    BY <1>4, <1>5
<1> QED
    BY <1>2, <1>3, <1>4, <1>5, <1>6, <1>7, <1>8

LEMMA ExtendConsecutive ==
    ASSUME NEW fs, NEW fr, NEW gs, NEW r, NEW e, Extends(fs, fr, gs, r, e),
           NEW lo \in Nat \ {0}, lo <= Len(fs) + 1, Consecutive(fs, lo, r)
    PROVE  Consecutive(gs, lo, r \o e)
<1> DEFINE x == r \o e
<1>1. /\ gs \in Seq(Frame) /\ Len(gs) = Len(fs) + 1 /\ Len(fs) \in Nat
      /\ \A f \in 1 .. Len(fs) : gs[f] = fs[f]
      /\ gs[Len(fs) + 1] = fr /\ fr.len \in Nat /\ HeaderLen \in Nat \ {0}
    BY ExtendFacts
<1>2. /\ x \in Seq(Unit) /\ Len(x) = Len(r) + Len(e) /\ Len(r) \in Nat /\ Len(e) \in Nat \ {0}
      /\ Len(e) = HeaderLen + fr.len
      /\ \A i \in 1 .. Len(r) : x[i] = r[i]
      /\ \A i \in 1 .. Len(e) : x[Len(r) + i] = <<Len(fs) + 1, i>>
    BY ExtendFacts
<1> HIDE DEF x
<1>3. fs \in Seq(Frame) /\ r \in Seq(Unit)
    BY DEF Extends
<1>4. ASSUME NEW j \in 1 .. Len(x), j <= Len(r)
      PROVE  /\ j \in 1 .. Len(r) /\ x[j] = r[j] /\ r[j][1] \in lo .. Len(fs) /\ r[j][1] \in 1 .. Len(fs)
             /\ gs[r[j][1]] = fs[r[j][1]] /\ r[j][2] \in 1 .. HeaderLen + fs[r[j][1]].len
  <2>1. j \in 1 .. Len(r)
      BY <1>2, <1>4
  <2>2. r[j][1] \in lo .. Len(fs) /\ r[j][2] \in 1 .. HeaderLen + fs[r[j][1]].len
      BY <2>1 DEF Consecutive, InStream
  <2>3. r[j][1] \in 1 .. Len(fs)
      BY <2>2
  <2> QED
      BY <1>1, <1>2, <2>1, <2>2, <2>3
<1>5. ASSUME NEW j \in 1 .. Len(x), j > Len(r)
      PROVE  /\ x[j] = <<Len(fs) + 1, j - Len(r)>> /\ j - Len(r) \in 1 .. HeaderLen + fr.len
             /\ x[j][1] = Len(fs) + 1 /\ x[j][2] = j - Len(r)
  <2>1. j - Len(r) \in 1 .. Len(e) /\ Len(r) + (j - Len(r)) = j
      BY <1>2, <1>5
  <2>2. x[j] = <<Len(fs) + 1, j - Len(r)>>
      BY <1>2, <2>1
  <2> QED
      BY <1>2, <2>1, <2>2
<1>6. InStream(gs, lo, x)
  <2> SUFFICES ASSUME NEW j \in 1 .. Len(x)
               PROVE  x[j][1] \in lo .. Len(gs) /\ x[j][2] \in 1 .. HeaderLen + gs[x[j][1]].len
      BY DEF InStream
  <2>1. CASE j <= Len(r)
    <3>1. /\ x[j] = r[j] /\ r[j][1] \in lo .. Len(fs) /\ gs[r[j][1]] = fs[r[j][1]]
          /\ r[j][2] \in 1 .. HeaderLen + fs[r[j][1]].len
        BY <1>4, <2>1
    <3>2. Len(gs) = Len(fs) + 1 /\ Len(fs) \in Nat
        BY <1>1, <1>3
    <3>3. r[j][1] \in lo .. Len(gs)
        BY <3>1, <3>2
    <3> QED
        BY <3>1, <3>3
  <2>2. CASE j > Len(r)
      BY <1>1, <1>5, <2>2
  <2> QED
      BY <1>2, <2>1, <2>2
<1>7. Gapless(gs, x)
  <2> SUFFICES ASSUME NEW j \in 1 .. Len(x)
               PROVE  IF j = Len(x) THEN LastUnit(gs, x[j]) ELSE Follows(gs, x[j], x[j + 1])
      BY DEF Gapless
  <2>1. CASE j < Len(r)
    <3>1. Follows(fs, r[j], r[j + 1]) /\ j # Len(x) /\ j + 1 \in 1 .. Len(r) /\ j <= Len(r)
        BY <1>2, <2>1 DEF Consecutive, Gapless
    <3>2. x[j + 1] = r[j + 1]
        BY <1>2, <3>1
    <3>3. x[j] = r[j] /\ gs[r[j][1]] = fs[r[j][1]]
        BY <1>4, <3>1
    <3> QED
        BY <3>1, <3>2, <3>3 DEF Follows
  <2>2. CASE j = Len(r)
    <3>1. LastUnit(fs, r[j]) /\ j # Len(x) /\ j + 1 \in 1 .. Len(x) /\ j + 1 > Len(r) /\ j <= Len(r)
        BY <1>2, <2>2 DEF Consecutive, Gapless
    <3>2. x[j + 1] = <<Len(fs) + 1, j + 1 - Len(r)>> /\ j + 1 - Len(r) = 1
        BY <1>2, <1>5, <2>2, <3>1
    <3>3. x[j] = r[j] /\ gs[r[j][1]] = fs[r[j][1]]
        BY <1>4, <3>1
    <3>4. r[j][1] = Len(fs) /\ r[j][2] = HeaderLen + fs[r[j][1]].len
        BY <3>1 DEF LastUnit
    <3>5. ~ (r[j][2] < HeaderLen + gs[r[j][1]].len)
      <4>1. r[j][2] \in Nat
          BY <1>3, <1>4, <3>1, UnitFacts
      <4> QED
          BY <3>3, <3>4, <4>1
    <3> QED
        BY <3>1, <3>2, <3>3, <3>4, <3>5 DEF Follows
  <2>3. CASE j > Len(r)
    <3>1. /\ x[j] = <<Len(fs) + 1, j - Len(r)>> /\ j - Len(r) \in 1 .. HeaderLen + fr.len
          /\ x[j][1] = Len(fs) + 1 /\ x[j][2] = j - Len(r)
        BY <1>5, <2>3
    <3>2. CASE j = Len(x)
      <4>1. j - Len(r) = HeaderLen + fr.len
          BY <1>2, <3>2
      <4> QED
          BY <1>1, <3>1, <3>2, <4>1 DEF LastUnit
    <3>3. CASE j # Len(x)
      <4>1. j + 1 \in 1 .. Len(x) /\ j + 1 > Len(r) /\ j + 1 - Len(r) = (j - Len(r)) + 1
          BY <1>2, <2>3, <3>3
      <4>2. x[j + 1] = <<Len(fs) + 1, (j - Len(r)) + 1>>
          BY <1>5, <4>1
      <4>3. x[j][2] < HeaderLen + gs[x[j][1]].len
        <5>1. j - Len(r) < HeaderLen + fr.len
            BY <1>1, <1>2, <3>3
        <5> QED
            BY <1>1, <3>1, <5>1
      <4> QED
          BY <3>1, <3>3, <4>2, <4>3 DEF Follows
    <3> QED
        BY <3>2, <3>3
  <2> QED
      BY <1>2, <2>1, <2>2, <2>3
<1>8. Ascending(x)
  <2> SUFFICES ASSUME NEW i \in 1 .. Len(x), NEW j \in 1 .. Len(x), i <= j
               PROVE  x[i][1] <= x[j][1]
      BY DEF Ascending
  <2>1. CASE j <= Len(r)
    <3>1. i <= Len(r)
        BY <1>2, <2>1
    <3> QED
        BY <1>4, <2>1, <3>1 DEF Consecutive, Ascending
  <2>2. CASE j > Len(r) /\ i <= Len(r)
      BY <1>1, <1>4, <1>5, <2>2, SMTT(30)
  <2>3. CASE j > Len(r) /\ i > Len(r)
      BY <1>1, <1>5, <2>3, SMTT(30)
  <2> QED
      BY <1>2, <2>1, <2>2, <2>3
<1>9. Complete(gs, x)
  <2> SUFFICES ASSUME NEW f \in x[1][1] .. Len(gs)
               PROVE  \E j \in 1 .. Len(x) : x[j] = <<f, HeaderLen + gs[f].len>>
      BY DEF Complete
  <2>1. 1 \in 1 .. Len(x) /\ Len(x) \in 1 .. Len(x) /\ Len(x) > Len(r)
      BY <1>2
  <2>2. CASE f = Len(fs) + 1
    <3>1. x[Len(x)] = <<Len(fs) + 1, Len(x) - Len(r)>> /\ Len(x) - Len(r) = HeaderLen + fr.len
        BY <1>2, <1>5, <2>1, SMTT(30)
    <3> QED
        BY <1>1, <2>1, <2>2, <3>1
  <2>3. CASE f # Len(fs) + 1
    <3>1. Len(r) > 0
      <4>1. 1 > Len(r) => x[1][1] = Len(fs) + 1
          BY <1>5, <2>1
      <4> QED
          BY <1>1, <1>2, <2>3, <4>1
    <3>2. x[1] = r[1] /\ r[1][1] \in 1 .. Len(fs)
        BY <1>4, <2>1, <3>1
    <3>3. f \in r[1][1] .. Len(fs) /\ f \in 1 .. Len(fs)
        BY <1>1, <2>3, <3>2
    <3>4. PICK j \in 1 .. Len(r) : r[j] = <<f, HeaderLen + fs[f].len>>
        BY <3>1, <3>3 DEF Consecutive, Complete
    <3>5. j \in 1 .. Len(x) /\ x[j] = r[j] /\ gs[f] = fs[f]
      <4>1. j \in 1 .. Len(x)
          BY <1>2
      <4> QED
          BY <1>1, <1>2, <3>3, <4>1
    <3> QED
        BY <3>4, <3>5
  <2> QED
      BY <2>2, <2>3
<1> QED
    BY <1>6, <1>7, <1>8, <1>9 DEF Consecutive, x

LEMMA ExtendAfter ==
    ASSUME NEW fs, NEW fr, NEW gs, NEW r, NEW e, Extends(fs, fr, gs, r, e),
           NEW f \in 1 .. Len(fs), NEW a \in Nat, After(fs, <<f, a>>, r)
    PROVE  After(gs, <<f, a>>, r \o e)
<1> DEFINE x == r \o e
<1>1. /\ Len(fs) \in Nat /\ \A g \in 1 .. Len(fs) : gs[g] = fs[g]
      /\ Len(x) = Len(r) + Len(e) /\ Len(r) \in Nat /\ Len(e) \in Nat \ {0}
      /\ \A i \in 1 .. Len(r) : x[i] = r[i]
      /\ \A i \in 1 .. Len(e) : x[Len(r) + i] = e[i]
      /\ \A i \in 1 .. Len(e) : e[i] = <<Len(fs) + 1, i>>
    BY ExtendFacts
<1> HIDE DEF x
<1>2. gs[f] = fs[f] /\ Len(x) # 0
    BY <1>1
<1>3. CASE Len(r) = 0
  <2>1. f = Len(fs) /\ a = HeaderLen + fs[f].len
      BY <1>3 DEF After, LastUnit
  <2>2. x[1] = e[1] /\ e[1] = <<Len(fs) + 1, 1>>
      BY <1>1, <1>3
  <2>3. ~ (a < HeaderLen + gs[f].len)
      BY <1>2, <2>1
  <2> QED
      BY <1>2, <2>1, <2>2, <2>3 DEF After, Follows, x
<1>4. CASE Len(r) # 0
  <2>1. Follows(fs, <<f, a>>, r[1]) /\ x[1] = r[1]
      BY <1>1, <1>4 DEF After
  <2> QED
      BY <1>2, <2>1 DEF After, Follows, x
<1> QED
    BY <1>3, <1>4

-----------------------------------------------------------------------------
(* Types, for a client's parser as well as for a server's. *)

LEMMA TypeFacts ==
    ASSUME TypeOK
    PROVE  /\ frames \in Seq(Frame) /\ Len(frames) \in Nat /\ Len(frames) <= MaxFrames
           /\ first \in Nat \ {0} /\ up \in BOOLEAN
           /\ net \in Seq(Unit) /\ input \in Seq(Unit) /\ Rest \in Seq(Unit)
           /\ Len(input) \in Nat /\ Len(net) \in Nat /\ Len(Rest) = Len(input) + Len(net)
           /\ \A i \in 1 .. Len(input) : Rest[i] = input[i]
           /\ \A i \in 1 .. Len(net) : Rest[Len(input) + i] = net[i]
           /\ gotHeader \in BOOLEAN /\ header \in Nat /\ header <= MaxFrames
           /\ pc \in {"idle", "loop", "body"} /\ batching \in BOOLEAN
BY FramingBounds DEF TypeOK, Rest

LEMMA HeaderFacts ==
    ASSUME TypeInv, gotHeader
    PROVE  /\ header \in 1 .. Len(frames) /\ header \in 1 .. MaxFrames
           /\ DataLen = frames[header].len /\ DataLen \in 0 .. MaxLen /\ DataLen \in Nat
           /\ HeaderLen \in Nat \ {0}
<1>1. header \in 1 .. Len(frames) /\ header \in 1 .. MaxFrames /\ frames \in Seq(Frame)
    BY TypeFacts DEF TypeInv, ParserInv
<1>2. frames[header].len \in 0 .. MaxLen
    BY <1>1, Lengths
<1> QED
    BY <1>1, <1>2, FramingBounds DEF DataLen

LEMMA Empty ==
    ASSUME NEW T
    PROVE  <<>> \in Seq(T) /\ Len(<<>>) = 0
OBVIOUS

LEMMA SentEmpty == Sent(<<>>) /\ Sent(<<>>)'
<1>1. \A j : ~ (j \in 1 .. Len(<<>>))
    OBVIOUS
<1> QED
    BY <1>1, Zenon DEF Sent

LEMMA InitTypes ==
    ASSUME Init
    PROVE  TypeInv
<1>1. TypeOK
  <2>1. /\ frames \in Seq(Frame) /\ Len(frames) = 0 /\ net \in Seq(Unit) /\ input \in Seq(Unit)
        /\ inputQueue \in Seq(Packet) /\ given \in Seq(Packet \cup {BadPacket})
        /\ handled \in Seq(1 .. MaxFrames)
      BY Empty DEF Init
  <2>2. /\ Len(frames) <= MaxFrames /\ conn \in 0 .. MaxConns /\ first \in 1 .. MaxFrames + 1
        /\ header \in 0 .. MaxFrames
      BY <2>1, FramingBounds DEF Init
  <2>3. up \in BOOLEAN /\ gotHeader \in BOOLEAN /\ pc \in {"idle", "loop", "body"} /\ batching \in Batching
      BY Zenon DEF Init
  <2> QED
      BY <2>1, <2>2, <2>3 DEF TypeOK
<1>2. Sent(input) /\ Sent(net) /\ Len(frames) = 0
    BY SentEmpty, Empty, Zenon DEF Init
<1>3. ParserInv
    BY <1>2 DEF Init, ParserInv
<1> QED
    BY <1>1, <1>3 DEF TypeInv

LEMMA SentTail ==
    ASSUME NEW s \in Seq(Unit), NEW n \in 0 .. Len(s), Sent(s)
    PROVE  Sent(Take(s, n)) /\ Sent(Drop(s, n))
<1>1. /\ Len(Take(s, n)) = n /\ Len(Drop(s, n)) = Len(s) - n
      /\ \A i \in 1 .. n : Take(s, n)[i] = s[i]
      /\ \A i \in 1 .. Len(s) - n : Drop(s, n)[i] = s[n + i]
    BY TakeFacts, DropFacts
<1>2. Sent(Take(s, n))
    BY <1>1 DEF Sent
<1>3. ASSUME NEW j \in 1 .. Len(Drop(s, n)) PROVE Drop(s, n)[j][1] <= Len(frames)
  <2>1. j \in 1 .. Len(s) - n /\ n + j \in 1 .. Len(s)
      BY <1>1
  <2> QED
      BY <1>1, <2>1 DEF Sent
<1> QED
    BY <1>2, <1>3 DEF Sent

LEMMA SentBoth ==
    ASSUME NEW s \in Seq(Unit), NEW t \in Seq(Unit), Sent(s), Sent(t)
    PROVE  Sent(s \o t)
<1> SUFFICES ASSUME NEW j \in 1 .. Len(s \o t) PROVE (s \o t)[j][1] <= Len(frames)
    BY DEF Sent
<1>1. CASE j <= Len(s)
    BY <1>1 DEF Sent
<1>2. CASE j > Len(s)
  <2>1. (s \o t)[j] = t[j - Len(s)] /\ j - Len(s) \in 1 .. Len(t)
      BY <1>2
  <2> QED
      BY <2>1 DEF Sent
<1> QED
    BY <1>1, <1>2

LEMMA EncodeTypes ==
    ASSUME TypeInv, NEW fr \in Frame, Encode(fr)
    PROVE  TypeInv'
<1> DEFINE e == Encoded(Len(frames) + 1, fr.len)
<1>0. frames \in Seq(Frame) /\ net \in Seq(Unit) /\ Len(frames) \in Nat /\ Len(frames) < MaxFrames
    BY TypeFacts DEF TypeInv, Encode
<1>1. /\ frames' = Append(frames, fr) /\ net' = net \o Encoded(Len(frames'), fr.len)
      /\ UNCHANGED <<conn, first, up, input, gotHeader, header, pc, batching, inputQueue, given, handled>>
    BY DEF Encode, parser, packets
<1>2. frames' \in Seq(Frame) /\ Len(frames') = Len(frames) + 1 /\ net' = net \o e
    BY <1>0, <1>1, AppendFrame
<1>3. \A f \in 1 .. Len(frames) : frames'[f] = frames[f]
    BY <1>0, <1>1, AppendFrame
<1>4. Extends(frames, fr, frames', net, e)
    BY <1>0, <1>1 DEF Extends
<1>5. /\ e \in Seq(Unit) /\ net \o e \in Seq(Unit) /\ Len(net \o e) = Len(net) + Len(e)
      /\ \A i \in 1 .. Len(e) : e[i] = <<Len(frames) + 1, i>>
    BY <1>4, ExtendFacts
<1>6. TypeOK'
  <2>1. Len(frames') <= MaxFrames
      BY <1>0, <1>2, FramingBounds
  <2>2. net' \in Seq(Unit)
      BY <1>2, <1>5
  <2> HIDE DEF e
  <2> QED
      BY <1>1, <1>2, <2>1, <2>2 DEF TypeInv, TypeOK
<1>7. Sent(input)' /\ Sent(net)'
  <2>1. Sent(input)'
      BY <1>0, <1>1, <1>2, UnitFacts DEF Sent, TypeInv, ParserInv, TypeOK
  <2>2. ASSUME NEW j \in 1 .. Len(net \o e) PROVE (net \o e)[j][1] <= Len(frames) + 1
    <3>1. CASE j <= Len(net)
      <4>1. (net \o e)[j] = net[j] /\ j \in 1 .. Len(net)
          BY <1>0, <1>5, <3>1
      <4>2. net[j][1] <= Len(frames) /\ net[j][1] \in Nat
          BY <1>0, <4>1, UnitFacts DEF Sent, TypeInv, ParserInv
      <4> QED
          BY <1>0, <4>1, <4>2
    <3>2. CASE j > Len(net)
      <4>1. (net \o e)[j] = e[j - Len(net)] /\ j - Len(net) \in 1 .. Len(e)
          BY <1>0, <1>5, <3>2
      <4> QED
          BY <1>0, <1>5, <4>1, SMTT(30)
    <3> QED
        BY <1>0, <3>1, <3>2
  <2> QED
      BY <1>2, <2>1, <2>2 DEF Sent
<1>8. ASSUME gotHeader PROVE frames'[header] = frames[header]
    BY <1>3, <1>8, HeaderFacts
<1>9. ParserInv'
  <2>1. first' <= Len(frames') + 1 /\ header' <= Len(frames')
      BY <1>0, <1>1, <1>2, TypeFacts DEF TypeInv, ParserInv
  <2>2. (pc # "body" /\ gotHeader => frames[header].len > 0)'
      BY <1>1, <1>8 DEF TypeInv, ParserInv
  <2> QED
      BY <1>1, <1>7, <2>1, <2>2 DEF TypeInv, ParserInv
<1> QED
    BY <1>6, <1>9 DEF TypeInv

LEMMA ConnectTypes ==
    ASSUME TypeInv, Connected
    PROVE  TypeInv'
<1>1. /\ conn' \in 0 .. MaxConns /\ first' \in 1 .. MaxFrames + 1 /\ first' = Len(frames) + 1
      /\ Len(frames) \in Nat /\ header' \in 0 .. MaxFrames /\ gotHeader' \in BOOLEAN
  <2>1. \/ gotHeader' = gotHeader /\ header' = header
        \/ gotHeader' = FALSE /\ header' = 0
      BY DEF Connected, parser
  <2>2. gotHeader \in BOOLEAN /\ header \in 0 .. MaxFrames
      BY DEF TypeInv, TypeOK
  <2>3. gotHeader' \in BOOLEAN
      BY <2>1, <2>2, Zenon
  <2>4. header' \in 0 .. MaxFrames
      BY <2>1, <2>2, FramingBounds
  <2>5. Len(frames) \in Nat /\ Len(frames) <= MaxFrames /\ first' = Len(frames) + 1
      BY DEF TypeInv, TypeOK, Connected
  <2>6. conn \in 0 .. MaxConns /\ conn < MaxConns /\ conn' = conn + 1
      BY DEF TypeInv, TypeOK, Connected
  <2> QED
      BY <2>3, <2>4, <2>5, <2>6, FramingBounds
<1>2. /\ net' \in Seq(Unit) /\ input' \in Seq(Unit) /\ handled' \in Seq(1 .. MaxFrames)
      /\ inputQueue' \in Seq(Packet) /\ given' \in Seq(Packet \cup {BadPacket})
    BY Empty, Zenon DEF Connected
<1>3. TypeOK'
    BY <1>1, <1>2 DEF TypeInv, TypeOK, Connected
<1>4. net' = <<>> /\ input' = <<>>
    BY DEF Connected
<1>5. Sent(input)' /\ Sent(net)'
    BY <1>4, SentEmpty, Zenon
<1>6. /\ frames' = frames /\ pc' = pc /\ pc = "idle"
      /\ \/ gotHeader' = gotHeader /\ header' = header
         \/ gotHeader' = FALSE /\ header' = 0
    BY DEF Connected, TypeInv, ParserInv, parser
<1>7. ParserInv'
    BY <1>1, <1>5, <1>6 DEF ParserInv, TypeInv
<1> QED
    BY <1>3, <1>7 DEF TypeInv

LEMMA LostTypes ==
    ASSUME TypeInv, ConnectionLost
    PROVE  TypeInv'
<1>1. /\ net' \in Seq(Unit) /\ input' \in Seq(Unit) /\ inputQueue' \in Seq(Packet)
    BY Empty, Zenon DEF ConnectionLost
<1>2. net' = <<>> /\ input' = <<>>
    BY DEF ConnectionLost
<1>3. Sent(input)' /\ Sent(net)'
    BY <1>2, SentEmpty, Zenon
<1>4. TypeOK'
    BY <1>1 DEF TypeInv, TypeOK, ConnectionLost, parser
<1>5. ParserInv'
    BY <1>3 DEF ParserInv, TypeInv, ConnectionLost, parser
<1> QED
    BY <1>4, <1>5 DEF TypeInv

LEMMA MessageTypes ==
    ASSUME TypeInv, NEW n \in 1 .. Len(net), OnMessage(n)
    PROVE  TypeInv'
<1>0. net \in Seq(Unit) /\ input \in Seq(Unit) /\ n \in 0 .. Len(net) /\ Sent(input) /\ Sent(net)
    BY TypeFacts DEF TypeInv, ParserInv
<1>1. Take(net, n) \in Seq(Unit) /\ Drop(net, n) \in Seq(Unit)
    BY <1>0, TakeFacts, DropFacts
<1>2. Sent(Take(net, n)) /\ Sent(Drop(net, n))
    BY <1>0, SentTail
<1>3. Sent(input \o Take(net, n)) /\ input \o Take(net, n) \in Seq(Unit)
    BY <1>0, <1>1, <1>2, SentBoth
<1>4. Sent(input)' /\ Sent(net)'
    BY <1>2, <1>3 DEF Sent, OnMessage, stream
<1> QED
    BY <1>1, <1>3, <1>4 DEF TypeInv, TypeOK, ParserInv, OnMessage, stream, parser, packets

LEMMA HeaderOfType ==
    ASSUME TypeInv, Len(input) >= HeaderLen
    PROVE  HeaderOf(input) \in 0 .. Len(frames)
<1>1. 1 \in 1 .. Len(input) /\ input \in Seq(Unit) /\ Len(frames) \in Nat
    BY TypeFacts, FramingBounds DEF TypeInv
<1>2. input[1][1] \in Nat /\ input[1][1] <= Len(frames)
    BY <1>1, UnitFacts DEF TypeInv, ParserInv, Sent
<1> QED
    BY <1>1, <1>2 DEF HeaderOf

LEMMA HeaderTypes ==
    ASSUME TypeInv, GetPacketInfo
    PROVE  TypeInv'
<1>0. /\ input \in Seq(Unit) /\ HeaderLen \in 0 .. Len(input) /\ Sent(input)
      /\ Len(frames) \in Nat /\ Len(frames) <= MaxFrames /\ MaxFrames \in Nat
    BY TypeFacts, FramingBounds DEF TypeInv, ParserInv, GetPacketInfo
<1>1. Drop(input, HeaderLen) \in Seq(Unit) /\ Sent(Drop(input, HeaderLen))
    BY <1>0, DropFacts, SentTail
<1>2. header' \in 0 .. Len(frames)
    BY HeaderOfType DEF GetPacketInfo
<1>3. TypeOK'
    BY <1>0, <1>1, <1>2 DEF TypeInv, TypeOK, GetPacketInfo, stream, packets
<1>4. Sent(input)' /\ Sent(net)'
    BY <1>1 DEF TypeInv, ParserInv, Sent, GetPacketInfo, stream
<1>5. header' <= Len(frames')
    BY <1>0, <1>2 DEF GetPacketInfo, stream
<1> QED
    BY <1>3, <1>4, <1>5 DEF TypeInv, ParserInv, GetPacketInfo, stream, packets

LEMMA WaitTypes ==
    ASSUME TypeInv, NeedsHeader \/ ResumeBody \/ NeedsBody
    PROVE  TypeInv'
<1>1. CASE NeedsHeader
    BY <1>1 DEF TypeInv, TypeOK, ParserInv, Sent, NeedsHeader, stream, parser, packets
<1>2. CASE ResumeBody
    BY <1>2 DEF TypeInv, TypeOK, ParserInv, Sent, ResumeBody, stream, parser, packets
<1>3. CASE NeedsBody
  <2>1. gotHeader /\ Len(input) < DataLen /\ Len(input) \in Nat
      BY <1>3, TypeFacts DEF NeedsBody, TypeInv, ParserInv
  <2>2. frames[header].len > 0
      BY <2>1, HeaderFacts
  <2> QED
      BY <1>3, <2>2 DEF TypeInv, TypeOK, ParserInv, Sent, NeedsBody, stream, parser, packets
<1> QED
    BY <1>1, <1>2, <1>3

\* What HandlePacket takes from the input.
LEMMA HandleFacts ==
    ASSUME TypeInv, NEW k \in 0 .. MaxLen, HandlePacket(k)
    PROVE  /\ gotHeader /\ up /\ pc = "body" /\ Len(input) >= DataLen
           /\ k \in 0 .. DataLen /\ k \in 0 .. Len(input)
           /\ frames[header].kind # "bad" => k = DataLen
<1>1. gotHeader /\ up /\ Len(input) >= DataLen /\ pc = "body"
    BY DEF TypeInv, ParserInv, HandlePacket
<1>2. DataLen \in Nat /\ Len(input) \in Nat
    BY <1>1, HeaderFacts, TypeFacts DEF TypeInv
<1>3. k \in 0 .. DataLen /\ (frames[header].kind # "bad" => k = DataLen)
    BY <1>2 DEF HandlePacket, Decoded
<1> QED
    BY <1>1, <1>2, <1>3

LEMMA HandleTypes ==
    ASSUME TypeInv, NEW k \in 0 .. MaxLen, HandlePacket(k)
    PROVE  TypeInv'
<1> DEFINE p == [head |-> header, body |-> Take(input, k)]
<1>0. input \in Seq(Unit) /\ k \in 0 .. Len(input) /\ Sent(input) /\ header \in 1 .. MaxFrames
    BY TypeFacts, HandleFacts, HeaderFacts DEF TypeInv, ParserInv
<1>1. /\ Drop(input, k) \in Seq(Unit) /\ Sent(Drop(input, k)) /\ Take(input, k) \in Seq(Unit)
    BY <1>0, DropFacts, TakeFacts, SentTail
<1>2. p \in Packet
    BY <1>0, <1>1 DEF Packet
<1>3. inputQueue \in Seq(Packet) /\ given \in Seq(Packet \cup {BadPacket})
    BY DEF TypeInv, TypeOK
<1> HIDE DEF p
<1>4. Append(inputQueue, p) \in Seq(Packet) /\ Append(inputQueue, p) \in Seq(Packet \cup {BadPacket})
    BY <1>2, <1>3
<1>5. inputQueue' \in Seq(Packet) /\ given' \in Seq(Packet \cup {BadPacket})
  <2>1. CASE frames[header].kind # "good"
    <3>1. given' = Append(given, BadPacket) /\ inputQueue' = inputQueue
        BY <2>1 DEF HandlePacket
    <3> QED
        BY <1>3, <3>1
  <2>2. CASE frames[header].kind = "good" /\ batching
    <3>1. Push(p)
        BY <2>2 DEF HandlePacket, p
    <3>2. given \o Append(inputQueue, p) \in Seq(Packet \cup {BadPacket})
        BY <1>3, <1>4
    <3>3. <<>> \in Seq(Packet)
        BY Empty
    <3>4. \/ given' = given \o Append(inputQueue, p) /\ inputQueue' = <<>>
          \/ inputQueue' = Append(inputQueue, p) /\ given' = given
        BY <3>1 DEF Push
    <3> QED
        BY <1>3, <1>4, <3>2, <3>3, <3>4
  <2>3. CASE frames[header].kind = "good" /\ ~ batching
    <3>1. given' = Append(given, p) /\ inputQueue' = inputQueue
        BY <2>3 DEF HandlePacket, p
    <3> QED
        BY <1>2, <1>3, <3>1
  <2> QED
      BY <2>1, <2>2, <2>3
<1>6. handled' \in Seq(1 .. MaxFrames)
    BY <1>0 DEF HandlePacket, TypeInv, TypeOK
<1>7. TypeOK'
  <2>1. /\ input' \in Seq(Unit) /\ gotHeader' \in BOOLEAN /\ header' \in 0 .. MaxFrames
        /\ pc' \in {"idle", "loop", "body"}
        /\ UNCHANGED <<frames, conn, first, up, net, batching>>
    <3>1. /\ input' = Drop(input, k) /\ gotHeader' = FALSE /\ header' = 0 /\ pc' = "loop"
          /\ UNCHANGED <<frames, conn, first, up, net, batching>>
        BY DEF HandlePacket, stream
    <3>2. 0 \in 0 .. MaxFrames
        BY FramingBounds
    <3> QED
        BY <1>1, <3>1, <3>2, Zenon
  <2> QED
      BY <1>5, <1>6, <2>1 DEF TypeInv, TypeOK
<1>8. Sent(input)' /\ Sent(net)'
    BY <1>1 DEF TypeInv, ParserInv, Sent, HandlePacket, stream
<1>9. up /\ 0 <= Len(frames)
    BY HandleFacts, TypeFacts DEF TypeInv
<1> QED
    BY <1>7, <1>8, <1>9 DEF TypeInv, ParserInv, HandlePacket, stream

LEMMA NextTypes ==
    ASSUME TypeInv, [Next]_vars
    PROVE  TypeInv'
<1>1. CASE \E fr \in Frame : Encode(fr)
    BY <1>1, EncodeTypes
<1>2. CASE Connected \/ ConnectionLost
    BY <1>2, ConnectTypes, LostTypes
<1>3. CASE \E n \in 1 .. Len(net) : OnMessage(n)
    BY <1>3, MessageTypes
<1>4. CASE Parse
    BY <1>4, HeaderTypes, WaitTypes, HandleTypes DEF Parse
<1>5. CASE UNCHANGED vars
    BY <1>5 DEF TypeInv, TypeOK, ParserInv, Sent, vars, stream, parser, packets
<1> QED
    BY <1>1, <1>2, <1>3, <1>4, <1>5 DEF Next

\* The state keeps its types: no call reads past the buffer, and the header
\* that a parser holds, on a client that of an earlier connection too, is one
\* of a frame that was sent.
THEOREM TypesHold == Spec => []TypeOK
<1>1. Init => TypeInv
    BY InitTypes
<1>2. TypeInv /\ [Next]_vars => TypeInv'
    BY NextTypes
<1>3. TypeInv => TypeOK
    BY DEF TypeInv
<1> QED
    BY <1>1, <1>2, <1>3, PTL DEF Spec

-----------------------------------------------------------------------------
(* The stream and the parser's place in it, on a server. *)

\* Steps that change neither the stream nor the parser's place in it.
Quiet == Rest' = Rest /\ UNCHANGED <<stream, parser, packets>>

LEMMA QuietSteps ==
    ASSUME TypeInv,
           \/ \E n \in 1 .. Len(net) : OnMessage(n)
           \/ NeedsHeader \/ ResumeBody \/ NeedsBody \/ UNCHANGED vars
    PROVE  Quiet
<1>1. ASSUME NEW n \in 1 .. Len(net), OnMessage(n) PROVE Quiet
  <2>1. net \in Seq(Unit) /\ input \in Seq(Unit) /\ n \in 0 .. Len(net)
      BY TypeFacts DEF TypeInv
  <2>2. (input \o Take(net, n)) \o Drop(net, n) = input \o net
      BY <2>1, CutAnywhere
  <2> QED
      BY <1>1, <2>2 DEF OnMessage, Quiet, Rest
<1>2. CASE NeedsHeader \/ ResumeBody \/ NeedsBody \/ UNCHANGED vars
    BY <1>2 DEF NeedsHeader, ResumeBody, NeedsBody, vars, Quiet, Rest
<1> QED
    BY <1>1, <1>2

LEMMA EncodeRest ==
    ASSUME TypeInv, NEW fr \in Frame, Encode(fr)
    PROVE  \E e : Extends(frames, fr, frames', Rest, e) /\ Rest' = Rest \o e
<1> DEFINE e == Encoded(Len(frames) + 1, fr.len)
<1>0. /\ frames \in Seq(Frame) /\ net \in Seq(Unit) /\ input \in Seq(Unit) /\ Rest \in Seq(Unit)
      /\ Len(frames) < MaxFrames
    BY TypeFacts DEF TypeInv, Encode
<1>1. frames' = Append(frames, fr) /\ net' = net \o Encoded(Len(frames'), fr.len) /\ input' = input
    BY DEF Encode
<1>2. Len(frames') = Len(frames) + 1
    BY <1>0, <1>1, AppendFrame
<1>3. Extends(frames, fr, frames', Rest, e)
    BY <1>0, <1>1 DEF Extends
<1>4. e \in Seq(Unit)
    BY <1>3, ExtendFacts
<1>5. net' = net \o e
    BY <1>1, <1>2
<1> HIDE DEF e
<1>6. input \o (net \o e) = (input \o net) \o e
    BY <1>0, <1>4, Associative
<1> QED
    BY <1>1, <1>3, <1>5, <1>6 DEF Rest

LEMMA DropRest ==
    ASSUME TypeInv, NEW n \in 0 .. Len(input), input' = Drop(input, n), net' = net
    PROVE  /\ Rest' = Drop(Rest, n) /\ Rest \in Seq(Unit) /\ n \in 0 .. Len(Rest)
           /\ Rest' \in Seq(Unit) /\ Len(Rest') = Len(Rest) - n
           /\ \A i \in 1 .. Len(Rest) - n : Rest'[i] = Rest[n + i]
<1>1. net \in Seq(Unit) /\ input \in Seq(Unit) /\ Rest \in Seq(Unit) /\ n \in 0 .. Len(Rest)
    BY TypeFacts DEF TypeInv
<1>2. Drop(input, n) \o net = Drop(input \o net, n)
    BY <1>1, DropOfRun
<1>3. Rest' = Drop(Rest, n)
    BY <1>2 DEF Rest
<1>4. /\ Drop(Rest, n) \in Seq(Unit) /\ Len(Drop(Rest, n)) = Len(Rest) - n
      /\ \A i \in 1 .. Len(Rest) - n : Drop(Rest, n)[i] = Rest[n + i]
    BY <1>1, DropFacts
<1> QED
    BY <1>1, <1>3, <1>4

\* GetPacketInfo: a header that was found is the one the input starts with.
LEMMA HeaderFound ==
    ASSUME TypeInv, GetPacketInfo, header' # 0
    PROVE  /\ Len(Rest) >= HeaderLen /\ header' = Rest[1][1] /\ header' \in 1 .. Len(frames)
           /\ Rest[HeaderLen] = <<header', HeaderLen>> /\ frames[header'].kind # "broken"
<1>0. /\ input \in Seq(Unit) /\ HeaderLen \in 0 .. Len(input) /\ HeaderLen \in Nat \ {0}
      /\ 1 \in 1 .. Len(input) /\ HeaderLen \in 1 .. Len(input)
    BY TypeFacts, FramingBounds DEF TypeInv, GetPacketInfo
<1>1. /\ header' = HeaderOf(input) /\ HeaderOf(input) # 0 /\ header' \in 1 .. Len(frames)
  <2>1. HeaderOf(input) \in 0 .. Len(frames)
      BY HeaderOfType DEF GetPacketInfo
  <2> QED
      BY <2>1 DEF GetPacketInfo
<1>2. /\ header' = input[1][1] /\ Take(input, HeaderLen) = Part(header', 1, HeaderLen)
      /\ frames[header'].kind # "broken"
    BY <1>1 DEF HeaderOf
<1> DEFINE f == input[1][1]
<1>3. Part(f, 1, HeaderLen)[HeaderLen] = <<f, HeaderLen>>
  <2>1. HeaderLen \in 1 .. HeaderLen + 1 - 1 /\ 1 + HeaderLen - 1 = HeaderLen
      BY <1>0
  <2>2. Part(f, 1, HeaderLen)[HeaderLen] = <<f, 1 + HeaderLen - 1>>
      BY <2>1 DEF Part
  <2> QED
      BY <2>1, <2>2
<1>4. Take(input, HeaderLen)[HeaderLen] = input[HeaderLen]
    BY <1>0, TakeFacts
<1>5. input[HeaderLen] = <<header', HeaderLen>>
    BY <1>2, <1>3, <1>4
<1>6. /\ Rest[1] = input[1] /\ Rest[HeaderLen] = input[HeaderLen] /\ Len(Rest) >= HeaderLen
    BY <1>0, TypeFacts DEF TypeInv
<1> QED
    BY <1>1, <1>2, <1>5, <1>6

\* The units of the body, in the input or on their way.
LEMMA BodyUnits ==
    ASSUME TypeInv, StreamInv, BodyInv, up, gotHeader, NEW n \in 1 .. DataLen, n <= Len(Rest)
    PROVE  \A j \in 1 .. n : Rest[j] = <<header, HeaderLen + j>>
<1>0. /\ header \in 1 .. Len(frames) /\ DataLen = frames[header].len /\ DataLen \in Nat
      /\ HeaderLen \in Nat \ {0}
    BY HeaderFacts
<1>1. frames \in Seq(Frame) /\ Rest \in Seq(Unit) /\ first \in Nat /\ n \in 1 .. Len(Rest) /\ Len(Rest) # 0
    BY <1>0, TypeFacts DEF TypeInv
<1>2. Follows(frames, <<header, HeaderLen>>, Rest[1])
    BY <1>1 DEF BodyInv, After
<1>3. HeaderLen < HeaderLen + frames[header].len
    BY <1>0
<1>4. Rest[1] = <<header, HeaderLen + 1>>
    BY <1>2, <1>3 DEF Follows
<1>5. (HeaderLen + 1) + n <= HeaderLen + frames[header].len + 1 /\ HeaderLen + 1 \in Nat \ {0}
    BY <1>0
<1>6. \A j \in 1 .. n : Rest[j] = <<header, (HeaderLen + 1) + j - 1>>
  <2> DEFINE a == HeaderLen + 1
             r == Rest
  <2>1. /\ a \in Nat \ {0} /\ r[1] = <<header, a>> /\ a + n <= HeaderLen + frames[header].len + 1
        /\ r \in Seq(Unit) /\ n \in 1 .. Len(r) /\ Consecutive(frames, first, r)
      BY <1>1, <1>4, <1>5 DEF StreamInv
  <2> HIDE DEF a, r
  <2>2. RunFrom(frames, first, r, header, a, n)
      BY <1>0, <1>1, <2>1 DEF RunFrom
  <2>3. \A j \in 1 .. n : r[j] = <<header, a + j - 1>>
      BY <2>2, UnitsOfFrame
  <2> QED
      BY <2>3 DEF a, r
<1>7. \A j \in 1 .. n : (HeaderLen + 1) + j - 1 = HeaderLen + j
    BY <1>0
<1> QED
    BY <1>6, <1>7

\* The body of a frame, once it is in the input.
LEMMA BodyTaken ==
    ASSUME TypeInv, StreamInv, BodyInv, up, gotHeader, Len(input) >= DataLen
    PROVE  /\ Take(input, DataLen) = Part(header, HeaderLen + 1, HeaderLen + DataLen)
           /\ After(frames, <<header, HeaderLen + DataLen>>, Drop(Rest, DataLen))
<1>0. /\ header \in 1 .. Len(frames) /\ DataLen = frames[header].len /\ DataLen \in Nat
      /\ HeaderLen \in Nat \ {0}
    BY HeaderFacts
<1>1. /\ frames \in Seq(Frame) /\ Rest \in Seq(Unit) /\ first \in Nat /\ input \in Seq(Unit)
      /\ DataLen \in 0 .. Len(input) /\ DataLen <= Len(Rest)
      /\ \A i \in 1 .. Len(input) : Rest[i] = input[i]
    BY <1>0, TypeFacts DEF TypeInv
<1>2. \A j \in 1 .. DataLen : Rest[j] = <<header, HeaderLen + j>>
  <2>1. CASE DataLen = 0
      BY <2>1
  <2>2. CASE DataLen # 0
    <3>1. DataLen \in 1 .. DataLen
        BY <1>0, <2>2
    <3> QED
        BY <1>1, <3>1, BodyUnits
  <2> QED
      BY <2>1, <2>2
<1>3. Take(input, DataLen) = Part(header, HeaderLen + 1, HeaderLen + DataLen)
  <2> DEFINE t == Take(input, DataLen)
             q == Part(header, HeaderLen + 1, HeaderLen + DataLen)
             S == {header} \X (HeaderLen + 1 .. HeaderLen + DataLen)
             T == Unit \cup S
  <2>1. t \in Seq(Unit) /\ Len(t) = DataLen /\ \A i \in 1 .. DataLen : t[i] = input[i]
      BY <1>1, TakeFacts
  <2>2. HeaderLen + 1 \in Nat \ {0} /\ HeaderLen + DataLen \in Nat /\ header \in Nat
        /\ HeaderLen + 1 <= HeaderLen + DataLen + 1
        /\ HeaderLen + DataLen + 1 - (HeaderLen + 1) = DataLen
      BY <1>0
  <2>3. q \in Seq(S) /\ Len(q) = HeaderLen + DataLen + 1 - (HeaderLen + 1)
        /\ \A i \in 1 .. HeaderLen + DataLen + 1 - (HeaderLen + 1) : q[i] = <<header, HeaderLen + 1 + i - 1>>
      BY <2>2, PartFacts, Zenon
  <2> HIDE DEF t, q, S
  <2>4. Len(q) = DataLen /\ \A i \in 1 .. DataLen : q[i] = <<header, HeaderLen + 1 + i - 1>>
      BY <2>2, <2>3
  <2>5. ASSUME NEW i \in 1 .. DataLen PROVE t[i] = q[i]
    <3>1. HeaderLen + 1 + i - 1 = HeaderLen + i /\ i \in 1 .. Len(input)
        BY <1>0, <1>1
    <3> QED
        BY <1>1, <1>2, <2>1, <2>4, <3>1
  <2>6. t \in Seq(T) /\ q \in Seq(T)
      BY <2>1, <2>3
  <2>7. Len(t) = Len(q) /\ \A i \in 1 .. Len(t) : t[i] = q[i]
      BY <2>1, <2>4, <2>5
  <2> HIDE DEF T
  <2>8. t = q
      BY <2>6, <2>7, SameSeq
  <2> QED
      BY <2>8 DEF t, q
<1>4. After(frames, <<header, HeaderLen + DataLen>>, Drop(Rest, DataLen))
  <2>1. CASE DataLen = 0
    <3>1. Drop(Rest, 0) = Rest
        BY <1>1 DEF Drop
    <3>2. HeaderLen + 0 = HeaderLen
        BY <1>0
    <3> QED
        BY <2>1, <3>1, <3>2 DEF BodyInv
  <2>2. CASE DataLen # 0
    <3>1. DataLen \in 1 .. Len(Rest) /\ Rest[DataLen] = <<header, HeaderLen + DataLen>>
        BY <1>0, <1>1, <1>2, <2>2
    <3>2. After(frames, Rest[DataLen], Drop(Rest, DataLen))
        BY <1>1, <3>1, AfterUnit DEF StreamInv
    <3> QED
        BY <3>1, <3>2
  <2> QED
      BY <2>1, <2>2
<1> QED
    BY <1>3, <1>4

LEMMA InitPlace ==
    ASSUME Init
    PROVE  PlaceInv
<1>1. Rest = <<>> /\ ~ gotHeader
    BY DEF Init, Rest
<1>2. Len(Rest) = 0
    BY <1>1
<1>3. StreamInv
    BY <1>2 DEF StreamInv, Consecutive, InStream, Gapless, Ascending, Complete
<1> QED
    BY <1>1, <1>3 DEF PlaceInv, BodyInv

LEMMA EmptyStream ==
    ASSUME input' = <<>>, net' = <<>>
    PROVE  StreamInv' /\ Len(Rest)' = 0
<1>1. Len(Rest') = 0
    BY DEF Rest
<1>2. StreamInv'
    BY <1>1 DEF StreamInv, Consecutive, InStream, Gapless, Ascending, Complete
<1> QED
    BY <1>1, <1>2

LEMMA EncodePlace ==
    ASSUME TypeInv, PlaceInv, NEW fr \in Frame, Encode(fr)
    PROVE  PlaceInv'
<1>1. PICK e : Extends(frames, fr, frames', Rest, e) /\ Rest' = Rest \o e
    BY EncodeRest
<1>2. /\ first \in Nat \ {0} /\ first <= Len(frames) + 1
      /\ UNCHANGED <<first, up, gotHeader, header>>
    BY TypeFacts DEF TypeInv, ParserInv, Encode, parser
<1>3. Consecutive(frames', first, Rest \o e)
    BY <1>1, <1>2, ExtendConsecutive DEF PlaceInv, StreamInv
<1>4. StreamInv'
    BY <1>1, <1>2, <1>3 DEF StreamInv
<1>5. ASSUME up, gotHeader
      PROVE  header \in first .. Len(frames') /\ After(frames', <<header, HeaderLen>>, Rest \o e)
  <2>1. header \in first .. Len(frames) /\ After(frames, <<header, HeaderLen>>, Rest) /\ header \in 1 .. Len(frames)
      BY <1>5, HeaderFacts DEF PlaceInv, BodyInv
  <2>2. Len(frames') = Len(frames) + 1 /\ Len(frames) \in Nat
      BY <1>1, ExtendFacts
  <2>3. HeaderLen \in Nat
      BY FramingBounds
  <2>4. After(frames', <<header, HeaderLen>>, Rest \o e)
      BY <1>1, <2>1, <2>3, ExtendAfter
  <2> QED
      BY <1>2, <2>1, <2>2, <2>4
<1>6. BodyInv'
    BY <1>1, <1>2, <1>5 DEF BodyInv
<1> QED
    BY <1>4, <1>6 DEF PlaceInv

LEMMA HeaderPlace ==
    ASSUME TypeInv, PlaceInv, GetPacketInfo
    PROVE  PlaceInv'
<1>0. /\ HeaderLen \in 0 .. Len(input) /\ input' = Drop(input, HeaderLen) /\ net' = net
      /\ gotHeader' = (header' # 0) /\ UNCHANGED <<frames, first, up>> /\ HeaderLen \in Nat \ {0}
    BY FramingBounds, TypeFacts DEF TypeInv, GetPacketInfo, stream
<1>1. Rest' = Drop(Rest, HeaderLen) /\ Rest \in Seq(Unit) /\ HeaderLen \in 0 .. Len(Rest)
    BY <1>0, DropRest
<1>2. frames \in Seq(Frame) /\ first \in Nat
    BY TypeFacts DEF TypeInv
<1>3. Consecutive(frames, first, Drop(Rest, HeaderLen))
    BY <1>1, <1>2, DropConsecutive DEF PlaceInv, StreamInv
<1>4. StreamInv'
    BY <1>0, <1>1, <1>3 DEF StreamInv
<1>5. ASSUME header' # 0
      PROVE  header' \in first .. Len(frames) /\ After(frames, <<header', HeaderLen>>, Rest')
  <2>1. /\ Len(Rest) >= HeaderLen /\ header' = Rest[1][1] /\ Rest[HeaderLen] = <<header', HeaderLen>>
      BY <1>5, HeaderFound
  <2>2. HeaderLen \in 1 .. Len(Rest) /\ 1 \in 1 .. Len(Rest)
      BY <1>0, <1>1, <2>1
  <2>3. Rest[1][1] \in first .. Len(frames)
      BY <2>2 DEF PlaceInv, StreamInv, Consecutive, InStream
  <2>4. After(frames, Rest[HeaderLen], Drop(Rest, HeaderLen))
      BY <1>1, <1>2, <2>2, AfterUnit DEF PlaceInv, StreamInv
  <2> QED
      BY <1>1, <2>1, <2>3, <2>4
<1>6. BodyInv'
    BY <1>0, <1>5 DEF BodyInv
<1> QED
    BY <1>4, <1>6 DEF PlaceInv

LEMMA HandlePlace ==
    ASSUME TypeInv, PlaceInv, NEW k \in 0 .. MaxLen, HandlePacket(k)
    PROVE  PlaceInv'
<1>0. /\ k \in 0 .. Len(input) /\ input' = Drop(input, k) /\ net' = net
      /\ gotHeader' = FALSE /\ UNCHANGED <<frames, first, up>>
    BY HandleFacts DEF HandlePacket, stream
<1>1. Rest' = Drop(Rest, k) /\ Rest \in Seq(Unit) /\ k \in 0 .. Len(Rest)
    BY <1>0, DropRest
<1>2. frames \in Seq(Frame) /\ first \in Nat
    BY TypeFacts DEF TypeInv
<1>3. Consecutive(frames, first, Drop(Rest, k))
    BY <1>1, <1>2, DropConsecutive DEF PlaceInv, StreamInv
<1> QED
    BY <1>0, <1>1, <1>3 DEF PlaceInv, StreamInv, BodyInv

LEMMA NextPlace ==
    ASSUME ~ KeepsHeader, TypeInv, PlaceInv, [Next]_vars
    PROVE  PlaceInv'
<1>1. CASE \E fr \in Frame : Encode(fr)
    BY <1>1, EncodePlace
<1>2. CASE Connected
  <2>1. StreamInv'
      BY <1>2, EmptyStream DEF Connected
  <2> QED
      BY <1>2, <2>1 DEF Connected, PlaceInv, BodyInv
<1>3. CASE ConnectionLost
  <2>1. StreamInv'
      BY <1>3, EmptyStream DEF ConnectionLost
  <2> QED
      BY <1>3, <2>1 DEF ConnectionLost, PlaceInv, BodyInv
<1>4. CASE Quiet
    BY <1>4 DEF Quiet, PlaceInv, StreamInv, BodyInv, stream, parser
<1>5. CASE GetPacketInfo \/ \E k \in 0 .. MaxLen : HandlePacket(k)
    BY <1>5, HeaderPlace, HandlePlace
<1> QED
    BY <1>1, <1>2, <1>3, <1>4, <1>5, QuietSteps DEF Next, Parse

-----------------------------------------------------------------------------
(* The packets. *)

LEMMA DropPassed ==
    ASSUME TypeInv, StreamInv, NEW n \in 0 .. Len(input), input' = Drop(input, n), net' = net,
           NEW f \in Nat, Len(Rest) > 0 => f < Rest[1][1]
    PROVE  Len(Rest') > 0 => f < Rest'[1][1]
<1> SUFFICES ASSUME Len(Rest') > 0 PROVE f < Rest'[1][1]
    OBVIOUS
<1>1. /\ Rest \in Seq(Unit) /\ n \in 0 .. Len(Rest) /\ Len(Rest') = Len(Rest) - n
      /\ \A i \in 1 .. Len(Rest) - n : Rest'[i] = Rest[n + i]
    BY DropRest
<1>2. 1 \in 1 .. Len(Rest) /\ n + 1 \in 1 .. Len(Rest) /\ 1 <= n + 1 /\ 1 \in 1 .. Len(Rest) - n
    BY <1>1
<1>3. Rest'[1] = Rest[n + 1]
    BY <1>1, <1>2
<1>4. Rest[1][1] <= Rest[n + 1][1]
    BY <1>2 DEF StreamInv, Consecutive, Ascending
<1>5. Rest[1][1] \in Nat /\ Rest[n + 1][1] \in Nat
    BY <1>1, <1>2, UnitFacts
<1>6. f < Rest[1][1]
    BY <1>1, <1>2
<1> QED
    BY <1>3, <1>4, <1>5, <1>6

\* The parser never comes back to a frame.
LEMMA StaysPassed ==
    ASSUME TypeInv, PlaceInv, NEW f \in Nat, Passed(f), [Next]_vars, ~ Connected
    PROVE  Passed(f)'
<1>0. f <= Len(frames) /\ Len(frames) \in Nat /\ (gotHeader => f < header) /\ (Len(Rest) > 0 => f < Rest[1][1])
    BY TypeFacts DEF TypeInv, Passed
<1>1. ASSUME NEW fr \in Frame, Encode(fr) PROVE Passed(f)'
  <2>1. PICK e : Extends(frames, fr, frames', Rest, e) /\ Rest' = Rest \o e
      BY <1>1, EncodeRest
  <2>2. /\ Len(frames') = Len(frames) + 1 /\ Len(Rest) \in Nat /\ Len(e) \in Nat \ {0}
        /\ \A i \in 1 .. Len(e) : e[i] = <<Len(frames) + 1, i>>
        /\ \A i \in 1 .. Len(Rest) : (Rest \o e)[i] = Rest[i]
        /\ \A i \in 1 .. Len(e) : (Rest \o e)[Len(Rest) + i] = e[i]
      BY <2>1, ExtendFacts
  <2>3. CASE Len(Rest) = 0
    <3>1. Rest'[1] = e[1] /\ e[1] = <<Len(frames) + 1, 1>>
        BY <2>1, <2>2, <2>3
    <3>2. f < Rest'[1][1]
        BY <1>0, <3>1
    <3>3. f <= Len(frames') /\ (gotHeader' => f < header')
        BY <1>0, <1>1, <2>2 DEF Encode, parser
    <3> QED
        BY <3>2, <3>3 DEF Passed
  <2>4. CASE Len(Rest) > 0
    <3>1. Rest'[1] = Rest[1]
        BY <2>1, <2>2, <2>4
    <3>2. f < Rest'[1][1]
        BY <1>0, <2>4, <3>1
    <3>3. f <= Len(frames') /\ (gotHeader' => f < header')
        BY <1>0, <1>1, <2>2 DEF Encode, parser
    <3> QED
        BY <3>2, <3>3 DEF Passed
  <2> QED
      BY <2>2, <2>3, <2>4
<1>2. CASE ConnectionLost
  <2>1. Len(Rest)' = 0
      BY <1>2, EmptyStream DEF ConnectionLost
  <2> QED
      BY <1>0, <1>2, <2>1 DEF ConnectionLost, parser, Passed
<1>3. CASE Quiet
    BY <1>0, <1>3 DEF Quiet, Passed, stream, parser
<1>4. CASE GetPacketInfo
  <2>1. /\ HeaderLen \in 0 .. Len(input) /\ input' = Drop(input, HeaderLen) /\ net' = net
        /\ gotHeader' = (header' # 0) /\ frames' = frames /\ HeaderLen \in Nat \ {0}
      BY <1>4, FramingBounds, TypeFacts DEF TypeInv, GetPacketInfo, stream
  <2>2. Len(Rest') > 0 => f < Rest'[1][1]
      BY <1>0, <2>1, DropPassed DEF PlaceInv
  <2>3. ASSUME gotHeader' PROVE f < header'
    <3>1. header' = Rest[1][1] /\ Len(Rest) >= HeaderLen
        BY <1>4, <2>1, <2>3, HeaderFound
    <3>2. Len(Rest) > 0
        BY <2>1, <3>1, TypeFacts DEF TypeInv
    <3> QED
        BY <1>0, <3>1, <3>2
  <2> QED
      BY <1>0, <2>1, <2>2, <2>3 DEF Passed
<1>5. ASSUME NEW k \in 0 .. MaxLen, HandlePacket(k) PROVE Passed(f)'
  <2>1. /\ k \in 0 .. Len(input) /\ input' = Drop(input, k) /\ net' = net
        /\ gotHeader' = FALSE /\ frames' = frames
      BY <1>5, HandleFacts DEF HandlePacket, stream
  <2>2. Len(Rest') > 0 => f < Rest'[1][1]
      BY <1>0, <2>1, DropPassed DEF PlaceInv
  <2> QED
      BY <1>0, <2>1, <2>2 DEF Passed
<1> QED
    BY <1>1, <1>2, <1>3, <1>4, <1>5, QuietSteps DEF Next, Parse

LEMMA FramesStay ==
    ASSUME TypeInv, [Next]_vars, NEW f \in 1 .. Len(frames)
    PROVE  frames'[f] = frames[f]
<1>1. ASSUME NEW fr \in Frame, Encode(fr) PROVE frames'[f] = frames[f]
  <2>1. frames \in Seq(Frame) /\ frames' = Append(frames, fr)
      BY <1>1, TypeFacts DEF TypeInv, Encode
  <2> QED
      BY <2>1, AppendFrame
<1>2. CASE ~ \E fr \in Frame : Encode(fr)
  <2>1. frames' = frames
      BY <1>2 DEF Next, Parse, Connected, ConnectionLost, OnMessage, NeedsHeader, GetPacketInfo,
                  ResumeBody, NeedsBody, HandlePacket, stream, vars
  <2> QED
      BY <2>1
<1> QED
    BY <1>1, <1>2

LEMMA SoundGrows ==
    ASSUME TypeInv, PlaceInv, [Next]_vars, ~ Connected
    PROVE  Sound \subseteq Sound'
<1> SUFFICES ASSUME NEW p \in Packet, Passed(p.head),
                    p.body = Part(p.head, HeaderLen + 1, HeaderLen + frames[p.head].len)
             PROVE  p \in Sound'
    BY DEF Sound
<1>1. p.head \in 1 .. MaxFrames /\ p.head \in Nat /\ p.head <= Len(frames) /\ p.head \in 1 .. Len(frames)
    BY FramingBounds, TypeFacts DEF Packet, Passed, TypeInv
<1>2. Passed(p.head)'
    BY <1>1, StaysPassed
<1>3. frames'[p.head] = frames[p.head]
    BY <1>1, FramesStay
<1> QED
    BY <1>2, <1>3 DEF Sound

LEMMA SoundFacts ==
    ASSUME TypeInv, NEW p \in Sound
    PROVE  /\ p.head \in Nat /\ (p.head # 0 => Passed(p.head)) /\ (p.head = 0 <=> p = BadPacket)
           /\ p \in Packet => p.head # 0
           /\ p # BadPacket => p.body = Part(p.head, HeaderLen + 1, HeaderLen + frames[p.head].len)
BY FramingBounds DEF Sound, Packet, BadPacket

LEMMA OrderAppend ==
    ASSUME NEW S, NEW q \in Seq(S), NEW p \in S, InOrder(q),
           p.head = 0 \/ \A i \in 1 .. Len(q) : q[i].head # 0 => q[i].head < p.head
    PROVE  InOrder(Append(q, p))
<1> SUFFICES ASSUME NEW i \in 1 .. Len(Append(q, p)), NEW j \in 1 .. Len(Append(q, p)), i < j,
                    Append(q, p)[i].head # 0, Append(q, p)[j].head # 0
             PROVE  Append(q, p)[i].head < Append(q, p)[j].head
    BY DEF InOrder
<1>1. i \in 1 .. Len(q) /\ Append(q, p)[i] = q[i]
    OBVIOUS
<1>2. CASE j \in 1 .. Len(q)
  <2>1. Append(q, p)[j] = q[j]
      BY <1>2
  <2> QED
      BY <1>1, <1>2, <2>1 DEF InOrder
<1>3. CASE j = Len(q) + 1
  <2>1. Append(q, p)[j] = p
      BY <1>3
  <2> QED
      BY <1>1, <2>1
<1> QED
    BY <1>2, <1>3

LEMMA OrderJoin ==
    ASSUME NEW S, NEW q \in Seq(S), NEW r \in Seq(S), InOrder(q), InOrder(r),
           \A i \in 1 .. Len(q), j \in 1 .. Len(r) : q[i].head < r[j].head
    PROVE  InOrder(q \o r)
<1> SUFFICES ASSUME NEW i \in 1 .. Len(q \o r), NEW j \in 1 .. Len(q \o r), i < j,
                    (q \o r)[i].head # 0, (q \o r)[j].head # 0
             PROVE  (q \o r)[i].head < (q \o r)[j].head
    BY DEF InOrder
<1>0. i \in Nat /\ j \in Nat /\ Len(q) \in Nat
    OBVIOUS
<1>1. CASE j <= Len(q)
  <2>1. (q \o r)[i] = q[i] /\ (q \o r)[j] = q[j] /\ i \in 1 .. Len(q) /\ j \in 1 .. Len(q)
      BY <1>1
  <2> QED
      BY <2>1 DEF InOrder
<1>2. CASE i <= Len(q) /\ j > Len(q)
  <2>1. (q \o r)[i] = q[i] /\ (q \o r)[j] = r[j - Len(q)] /\ i \in 1 .. Len(q) /\ j - Len(q) \in 1 .. Len(r)
      BY <1>2
  <2> QED
      BY <2>1
<1>3. CASE i > Len(q)
  <2>1. /\ (q \o r)[i] = r[i - Len(q)] /\ (q \o r)[j] = r[j - Len(q)]
        /\ i - Len(q) \in 1 .. Len(r) /\ j - Len(q) \in 1 .. Len(r) /\ i - Len(q) < j - Len(q)
      BY <1>3
  <2> QED
      BY <2>1 DEF InOrder
<1>4. j <= Len(q) \/ (i <= Len(q) /\ j > Len(q)) \/ i > Len(q)
    BY <1>0
<1> QED
    BY <1>1, <1>2, <1>3, <1>4, Zenon

\* A good packet has the body of its frame, and then the parser is past it.
LEMMA NewPacket ==
    ASSUME TypeInv, PlaceInv, NEW k \in 0 .. MaxLen, HandlePacket(k), frames[header].kind = "good"
    PROVE  [head |-> header, body |-> Take(input, k)] \in Sound'
<1> DEFINE p == [head |-> header, body |-> Take(input, k)]
<1>0. /\ gotHeader /\ up /\ k = DataLen /\ Len(input) >= DataLen /\ k \in 0 .. Len(input)
    BY HandleFacts
<1>1. /\ header \in 1 .. Len(frames) /\ header \in 1 .. MaxFrames /\ DataLen = frames[header].len
      /\ DataLen \in Nat /\ HeaderLen \in Nat \ {0} /\ frames \in Seq(Frame) /\ Len(frames) \in Nat
    BY <1>0, HeaderFacts, TypeFacts DEF TypeInv
<1>2. /\ Take(input, DataLen) = Part(header, HeaderLen + 1, HeaderLen + DataLen)
      /\ After(frames, <<header, HeaderLen + DataLen>>, Drop(Rest, DataLen))
    BY <1>0, BodyTaken DEF PlaceInv
<1>3. input' = Drop(input, k) /\ net' = net /\ gotHeader' = FALSE /\ frames' = frames
    BY DEF HandlePacket, stream
<1>4. Rest' = Drop(Rest, DataLen)
    BY <1>0, <1>3, DropRest
<1>5. Len(Rest') > 0 => header < Rest'[1][1]
  <2>1. Len(Rest') > 0 => Follows(frames, <<header, HeaderLen + DataLen>>, Rest'[1])
      BY <1>2, <1>4 DEF After
  <2>2. ~ (HeaderLen + DataLen < HeaderLen + frames[header].len)
      BY <1>1
  <2>3. Len(Rest') > 0 => Rest'[1] = <<header + 1, 1>>
      BY <2>1, <2>2 DEF Follows
  <2> QED
      BY <1>1, <2>3
<1> PICK h : h = header
    OBVIOUS
<1>6. Passed(h)'
  <2>1. h <= Len(frames') /\ ~ gotHeader'
      BY <1>1, <1>3
  <2>2. Len(Rest') > 0 => h < Rest'[1][1]
      BY <1>5
  <2> QED
      BY <2>1, <2>2 DEF Passed
<1>7. p.body = Part(h, HeaderLen + 1, HeaderLen + frames'[h].len) /\ p.head = h
    BY <1>0, <1>1, <1>2, <1>3
<1>8. p \in Packet
  <2>1. Take(input, k) \in Seq(Unit)
      BY <1>0, TakeFacts, TypeFacts DEF TypeInv
  <2> QED
      BY <1>1, <2>1 DEF Packet
<1>9. ASSUME NEW q, q = p PROVE q \in Sound'
  <2>1. q \in Packet /\ q.head = h /\ q.body = Part(h, HeaderLen + 1, HeaderLen + frames'[h].len)
      BY <1>7, <1>8, <1>9
  <2>2. Passed(q.head)'
      BY <1>6, <2>1
  <2> QED
      BY <2>1, <2>2 DEF Sound
<1> QED
    BY <1>9

LEMMA HandlePackets ==
    ASSUME TypeInv, PlaceInv, PacketInv, NEW k \in 0 .. MaxLen, HandlePacket(k)
    PROVE  PacketInv'
<1> DEFINE p == [head |-> header, body |-> Take(input, k)]
           S == Sound'
<1>0. /\ given \in Seq(Sound) /\ inputQueue \in Seq(Sound) /\ InOrder(given) /\ InOrder(inputQueue)
      /\ Len(inputQueue) < Batch /\ (~ batching => inputQueue = <<>>) /\ Batch \in Nat \ {0}
      /\ \A i \in 1 .. Len(given), j \in 1 .. Len(inputQueue) : given[i].head < inputQueue[j].head
    BY FramingBounds DEF PacketInv
<1>1. gotHeader /\ header \in Nat \ {0} /\ batching' = batching /\ batching \in BOOLEAN
  <2>1. gotHeader
      BY HandleFacts
  <2>2. header \in Nat \ {0}
      BY <2>1, HeaderFacts
  <2>3. batching' = batching
      BY DEF HandlePacket
  <2> QED
      BY <2>1, <2>2, <2>3, TypeFacts DEF TypeInv
<1>2. Sound \subseteq S
  <2>1. Next /\ ~ Connected
    <3>1. pc = "body" /\ up
        BY HandleFacts
    <3> QED
        BY <3>1 DEF Next, Parse, Connected
  <2> QED
      BY <2>1, SoundGrows
<1>3. \A i \in 1 .. Len(given) : given[i].head \in Nat /\ given[i].head < header
  <2> SUFFICES ASSUME NEW i \in 1 .. Len(given) PROVE given[i].head \in Nat /\ given[i].head < header
      OBVIOUS
  <2>1. given[i] \in Sound
      BY <1>0
  <2>2. given[i].head \in Nat /\ (given[i].head # 0 => Passed(given[i].head))
      BY <2>1, SoundFacts
  <2> QED
      BY <1>1, <2>2 DEF Passed
<1>4. \A i \in 1 .. Len(inputQueue) : inputQueue[i].head \in Nat /\ inputQueue[i].head < header
                                       /\ 0 < inputQueue[i].head
  <2> SUFFICES ASSUME NEW i \in 1 .. Len(inputQueue)
               PROVE  inputQueue[i].head \in Nat /\ inputQueue[i].head < header /\ 0 < inputQueue[i].head
      OBVIOUS
  <2>1. inputQueue[i] \in Sound
      BY <1>0
  <2>2. inputQueue[i].head \in Nat /\ (inputQueue[i].head # 0 => Passed(inputQueue[i].head))
      BY <2>1, SoundFacts
  <2>3. inputQueue[i] \in Packet
      BY DEF TypeInv, TypeOK
  <2>4. inputQueue[i].head # 0
      BY <2>3, FramingBounds DEF Packet
  <2> QED
      BY <1>1, <2>2, <2>4 DEF Passed
<1>5. given \in Seq(S) /\ inputQueue \in Seq(S) /\ BadPacket \in S /\ BadPacket.head = 0
    BY <1>0, <1>2 DEF Sound, BadPacket
<1>6. frames[header].kind = "good" => p \in S
    BY NewPacket
<1>7. p.head = header
    OBVIOUS
<1> HIDE DEF p, S
<1>8. CASE frames[header].kind # "good"
  <2>1. given' = Append(given, BadPacket) /\ inputQueue' = inputQueue
      BY <1>8 DEF HandlePacket
  <2>2. given' \in Seq(S) /\ InOrder(given') /\ Len(given') = Len(given) + 1
      BY <1>0, <1>5, <2>1, OrderAppend
  <2>3. ASSUME NEW i \in 1 .. Len(given'), NEW j \in 1 .. Len(inputQueue)
        PROVE  given'[i].head < inputQueue[j].head
    <3>1. CASE i \in 1 .. Len(given)
        BY <1>0, <2>1, <3>1
    <3>2. CASE i = Len(given) + 1
      <4>1. given'[i] = BadPacket
          BY <1>5, <2>1, <3>2
      <4> QED
          BY <1>4, <1>5, <4>1
    <3> QED
        BY <1>5, <2>2, <3>1, <3>2
  <2> QED
      BY <1>0, <1>1, <1>5, <2>1, <2>2, <2>3 DEF PacketInv, S
<1>9. CASE frames[header].kind = "good" /\ batching
  <2> DEFINE q == Append(inputQueue, p)
  <2>1. Push(p)
      BY <1>9 DEF HandlePacket, p
  <2>2. q \in Seq(S) /\ Len(q) = Len(inputQueue) + 1
      BY <1>5, <1>6, <1>9
  <2>3. InOrder(q)
      BY <1>0, <1>4, <1>5, <1>6, <1>7, <1>9, OrderAppend
  <2>4. ASSUME NEW i \in 1 .. Len(given), NEW j \in 1 .. Len(q)
        PROVE  given[i].head < q[j].head
    <3>1. CASE j \in 1 .. Len(inputQueue)
      <4>1. q[j] = inputQueue[j]
          BY <1>5, <3>1
      <4> QED
          BY <1>0, <3>1, <4>1
    <3>2. CASE j = Len(inputQueue) + 1
      <4>1. q[j] = p
          BY <1>5, <3>2
      <4> QED
          BY <1>3, <1>7, <4>1
    <3> QED
        BY <1>5, <2>2, <3>1, <3>2
  <2>5. CASE Len(q) >= Batch
    <3>1. given' = given \o q /\ inputQueue' = <<>>
        BY <2>1, <2>5 DEF Push
    <3> HIDE DEF q
    <3>2. InOrder(given \o q)
        BY <1>0, <1>5, <2>2, <2>3, <2>4, OrderJoin
    <3>3. given \o q \in Seq(S)
        BY <1>5, <2>2
    <3>4. /\ <<>> \in Seq(S) /\ Len(<<>>) = 0 /\ InOrder(<<>>) /\ \A j : ~ (j \in 1 .. Len(<<>>))
        BY DEF InOrder
    <3>5. /\ given' \in Seq(Sound)' /\ inputQueue' \in Seq(Sound)' /\ InOrder(given') /\ InOrder(inputQueue')
          /\ Len(inputQueue') = 0
        BY <3>1, <3>2, <3>3, <3>4 DEF S
    <3> QED
        BY <1>0, <3>1, <3>5 DEF PacketInv
  <2>6. CASE ~ (Len(q) >= Batch)
    <3>1. given' = given /\ inputQueue' = q
        BY <2>1, <2>6 DEF Push
    <3>2. Len(q) < Batch
        BY <1>0, <1>5, <2>2, <2>6
    <3> HIDE DEF q
    <3> QED
        BY <1>0, <1>1, <1>5, <1>9, <2>2, <2>3, <2>4, <3>1, <3>2 DEF PacketInv, S
  <2> QED
      BY <2>5, <2>6
<1>10. CASE frames[header].kind = "good" /\ ~ batching
  <2>1. given' = Append(given, p) /\ inputQueue' = inputQueue /\ inputQueue = <<>>
      BY <1>0, <1>10 DEF HandlePacket, p
  <2>2. Append(given, p) \in Seq(S) /\ InOrder(Append(given, p))
      BY <1>0, <1>3, <1>5, <1>6, <1>7, <1>10, OrderAppend
  <2>3. given' \in Seq(Sound)' /\ inputQueue' \in Seq(Sound)' /\ InOrder(given') /\ InOrder(inputQueue')
      BY <1>0, <1>5, <2>1, <2>2 DEF S
  <2>4. Len(inputQueue') = 0 /\ inputQueue' = <<>>
      BY <2>1
  <2> QED
      BY <1>0, <2>3, <2>4 DEF PacketInv
<1> QED
    BY <1>8, <1>9, <1>10, <1>1

LEMMA NextPackets ==
    ASSUME TypeInv, PlaceInv, PacketInv, [Next]_vars
    PROVE  PacketInv'
<1>1. CASE Connected
  <2>1. given' = <<>> /\ inputQueue' = <<>>
      BY <1>1 DEF Connected
  <2>2. /\ <<>> \in Seq(Sound') /\ Len(<<>>) = 0 /\ InOrder(<<>>)
      BY DEF InOrder
  <2>3. given' \in Seq(Sound)' /\ inputQueue' \in Seq(Sound)' /\ InOrder(given') /\ InOrder(inputQueue')
      BY <2>1, <2>2
  <2>4. Len(inputQueue') = 0 /\ Len(given') = 0
      BY <2>1
  <2> QED
      BY <2>1, <2>3, <2>4, FramingBounds DEF PacketInv
<1>2. CASE ~ Connected /\ ~ \E k \in 0 .. MaxLen : HandlePacket(k)
  <2>1. Sound \subseteq Sound'
      BY <1>2, SoundGrows
  <2>2. batching' = batching /\ given' = given /\ (inputQueue' = inputQueue \/ inputQueue' = <<>>)
      BY <1>2 DEF Next, Parse, Encode, ConnectionLost, OnMessage, NeedsHeader, GetPacketInfo,
                  ResumeBody, NeedsBody, stream, packets, vars
  <2>3. given \in Seq(Sound') /\ inputQueue \in Seq(Sound') /\ <<>> \in Seq(Sound')
      BY <2>1 DEF PacketInv
  <2>4. CASE inputQueue' = inputQueue
      BY <2>2, <2>3, <2>4 DEF PacketInv
  <2>5. CASE inputQueue' = <<>>
    <3>1. Len(inputQueue') = 0 /\ InOrder(inputQueue') /\ inputQueue' \in Seq(Sound)'
        BY <2>3, <2>5 DEF InOrder
    <3> QED
        BY <2>2, <2>3, <2>5, <3>1, FramingBounds DEF PacketInv
  <2> QED
      BY <2>2, <2>4, <2>5
<1> QED
    BY <1>1, <1>2, HandlePackets

-----------------------------------------------------------------------------
(* Nothing is lost on the way to the adapter. *)

LEMMA HeadsAre == \A q, h : h \in Heads(q) <=> h # 0 /\ \E i \in DOMAIN q : h = q[i].head
BY DEF Heads, BadPacket

LEMMA HeadsOneMore ==
    ASSUME NEW a, NEW q, NEW n, DOMAIN a = DOMAIN q \cup {n}, \A i \in DOMAIN q : a[i] = q[i]
    PROVE  Heads(a) = Heads(q) \cup ({a[n].head} \ {0})
BY HeadsAre

LEMMA HeadsOfBoth ==
    ASSUME NEW a, NEW q, NEW r,
           \A i \in DOMAIN a : (i \in DOMAIN q /\ a[i] = q[i]) \/ (\E j \in DOMAIN r : a[i] = r[j]),
           \A i \in DOMAIN q : i \in DOMAIN a /\ a[i] = q[i],
           \A j \in DOMAIN r : \E i \in DOMAIN a : a[i] = r[j]
    PROVE  Heads(a) = Heads(q) \cup Heads(r)
BY HeadsAre

LEMMA HeadsAppend ==
    ASSUME NEW S, NEW q \in Seq(S), NEW p \in S
    PROVE  Heads(Append(q, p)) = Heads(q) \cup ({p.head} \ {0})
<1>1. /\ DOMAIN Append(q, p) = DOMAIN q \cup {Len(q) + 1} /\ Append(q, p)[Len(q) + 1] = p
      /\ \A i \in DOMAIN q : Append(q, p)[i] = q[i]
    OBVIOUS
<1>2. ASSUME NEW a, a = Append(q, p) PROVE Heads(a) = Heads(q) \cup ({p.head} \ {0})
  <2>1. /\ DOMAIN a = DOMAIN q \cup {Len(q) + 1} /\ a[Len(q) + 1] = p
        /\ \A i \in DOMAIN q : a[i] = q[i]
      BY <1>1, <1>2
  <2>2. Heads(a) = Heads(q) \cup ({a[Len(q) + 1].head} \ {0})
      BY ONLY <2>1, HeadsOneMore
  <2> QED
      BY <2>1, <2>2
<1> QED
    BY <1>2

LEMMA HeadsJoin ==
    ASSUME NEW S, NEW q \in Seq(S), NEW r \in Seq(S)
    PROVE  Heads(q \o r) = Heads(q) \cup Heads(r)
<1>1. ASSUME NEW i \in DOMAIN (q \o r)
      PROVE  (i \in DOMAIN q /\ (q \o r)[i] = q[i]) \/ (\E j \in DOMAIN r : (q \o r)[i] = r[j])
  <2>1. CASE i <= Len(q)
      BY <1>1, <2>1
  <2>2. CASE ~ (i <= Len(q))
    <3>1. i - Len(q) \in DOMAIN r /\ (q \o r)[i] = r[i - Len(q)]
        BY <1>1, <2>2
    <3> QED
        BY <3>1
  <2> QED
      BY <2>1, <2>2
<1>2. \A i \in DOMAIN q : i \in DOMAIN (q \o r) /\ (q \o r)[i] = q[i]
    OBVIOUS
<1>3. \A j \in DOMAIN r : Len(q) + j \in DOMAIN (q \o r) /\ (q \o r)[Len(q) + j] = r[j]
    OBVIOUS
<1>4. \A j \in DOMAIN r : \E i \in DOMAIN (q \o r) : (q \o r)[i] = r[j]
    BY <1>3
<1> QED
    BY ONLY <1>1, <1>2, <1>4, HeadsOfBoth

LEMMA HeadsEmpty == Heads(<<>>) = {}
BY DEF Heads

\* A step that handles nothing.
LEMMA QuietGiven ==
    ASSUME TypeInv, GivenInv, [Next]_vars, ~ Connected, ~ \E k \in 0 .. MaxLen : HandlePacket(k)
    PROVE  GivenInv'
<1>1. /\ handled' = handled /\ given' = given
      /\ (up' /\ inputQueue' = inputQueue /\ up) \/ (~ up' /\ inputQueue' = <<>>) \/ (up' = up /\ inputQueue' = inputQueue)
    BY DEF Next, Parse, Encode, ConnectionLost, OnMessage, NeedsHeader, GetPacketInfo,
           ResumeBody, NeedsBody, stream, packets, vars
<1>2. \A f \in 1 .. Len(frames) : frames'[f] = frames[f]
    BY FramesStay
<1>3. Len(frames) \in Nat /\ Len(frames') \in Nat /\ Len(frames) <= Len(frames')
  <2>1. frames' = frames \/ \E fr \in Frame : frames' = Append(frames, fr)
      BY DEF Next, Parse, Connected, Encode, ConnectionLost, OnMessage, NeedsHeader, GetPacketInfo,
             ResumeBody, NeedsBody, stream, vars
  <2>2. frames \in Seq(Frame)
      BY DEF TypeInv, TypeOK
  <2> QED
      BY <2>1, <2>2
<1>4. \A i \in DOMAIN handled' : handled'[i] \in 1 .. Len(frames')
    BY <1>1, <1>3 DEF GivenInv
<1>5. GoodHandled' = GoodHandled
  <2>1. \A i \in DOMAIN handled : frames'[handled[i]] = frames[handled[i]]
      BY <1>2 DEF GivenInv
  <2> QED
      BY <1>1, <2>1 DEF GoodHandled
<1>6. Heads(inputQueue') \subseteq Heads(inputQueue)
    BY <1>1, HeadsEmpty
<1> QED
    BY <1>1, <1>4, <1>5, <1>6 DEF GivenInv

LEMMA HandleGiven ==
    ASSUME TypeInv, GivenInv, PacketInv, NEW k \in 0 .. MaxLen, HandlePacket(k)
    PROVE  GivenInv'
<1> DEFINE p == [head |-> header, body |-> Take(input, k)]
           good == frames[header].kind = "good"
           S == Packet \cup {BadPacket}
<1>1. /\ gotHeader /\ up /\ header \in 1 .. Len(frames) /\ header \in 1 .. MaxFrames /\ header # 0
      /\ up' = up /\ frames' = frames /\ handled' = Append(handled, header)
  <2>1. gotHeader /\ up
      BY HandleFacts
  <2>2. up' = up /\ frames' = frames /\ handled' = Append(handled, header)
      BY DEF HandlePacket, stream
  <2>3. header \in 1 .. Len(frames) /\ header \in 1 .. MaxFrames /\ header # 0
      BY <2>1, HeaderFacts, TypeFacts DEF TypeInv
  <2> QED
      BY <2>1, <2>2, <2>3
<1>2. /\ given \in Seq(S) /\ inputQueue \in Seq(Packet) /\ inputQueue \in Seq(S)
      /\ handled \in Seq(1 .. MaxFrames) /\ batching \in BOOLEAN /\ input \in Seq(Unit)
    BY FramingBounds DEF TypeInv, TypeOK
<1>3. p \in Packet /\ p \in S /\ p.head = header /\ BadPacket \in S /\ BadPacket.head = 0
  <2>1. k \in 0 .. Len(input)
      BY HandleFacts
  <2>2. Take(input, k) \in Seq(Unit)
      BY <1>2, <2>1, TakeFacts
  <2> QED
      BY <1>1, <2>2 DEF Packet, BadPacket
<1>4. /\ DOMAIN handled' = DOMAIN handled \cup {Len(handled) + 1} /\ handled'[Len(handled) + 1] = header
      /\ \A i \in DOMAIN handled : handled'[i] = handled[i]
    BY <1>1, <1>2
<1>5. Len(handled') = Len(handled) + 1 /\ Len(handled) \in Nat /\ Len(given) \in Nat /\ Len(inputQueue) \in Nat
    BY <1>1, <1>2
<1>6. GoodHandled' = GoodHandled \cup (IF good THEN {header} ELSE {})
    BY <1>1, <1>4 DEF GoodHandled
<1>7. \A i \in DOMAIN handled' : handled'[i] \in 1 .. Len(frames')
    BY <1>1, <1>4 DEF GivenInv
<1>8. GoodHandled = Heads(given) \cup Heads(inputQueue) /\ Len(handled) = Len(given) + Len(inputQueue)
    BY <1>1 DEF GivenInv
<1>9. Batch \in Nat \ {0} /\ Len(inputQueue) < Batch
    BY FramingBounds DEF PacketInv
<1> SUFFICES /\ Heads(given') \cup Heads(inputQueue') = GoodHandled'
             /\ Len(handled') = Len(given') + Len(inputQueue')
             /\ Len(handled') < Len(given') + Batch
    BY <1>7 DEF GivenInv
<1> HIDE DEF p, S
<1>10. CASE ~ good
  <2>1. given' = Append(given, BadPacket) /\ inputQueue' = inputQueue
      BY <1>10 DEF HandlePacket
  <2>2. Heads(given') = Heads(given) /\ Len(given') = Len(given) + 1
    <3>1. Heads(Append(given, BadPacket)) = Heads(given) \cup ({BadPacket.head} \ {0})
        BY <1>2, <1>3, HeadsAppend
    <3> QED
        BY <1>2, <1>3, <2>1, <3>1
  <2> QED
      BY <1>5, <1>6, <1>8, <1>9, <1>10, <2>1, <2>2
<1>11. CASE good /\ batching
  <2> DEFINE q == Append(inputQueue, p)
  <2>1. Push(p)
      BY <1>11 DEF HandlePacket, p
  <2>2. q \in Seq(S) /\ Len(q) = Len(inputQueue) + 1 /\ Heads(q) = Heads(inputQueue) \cup {header}
      BY <1>1, <1>2, <1>3, HeadsAppend
  <2>3. CASE Len(q) >= Batch
    <3>1. given' = given \o q /\ inputQueue' = <<>>
        BY <2>1, <2>3 DEF Push
    <3> HIDE DEF q
    <3>2. Heads(given') = Heads(given) \cup Heads(q) /\ Len(given') = Len(given) + Len(q)
      <4>1. Heads(given \o q) = Heads(given) \cup Heads(q)
          BY <1>2, <2>2, HeadsJoin
      <4> QED
          BY <1>2, <2>2, <3>1, <4>1
    <3>3. Heads(inputQueue') = {} /\ Len(inputQueue') = 0
        BY <3>1, HeadsEmpty
    <3> QED
        BY <1>5, <1>6, <1>8, <1>9, <1>11, <2>2, <3>2, <3>3
  <2>4. CASE ~ (Len(q) >= Batch)
    <3>1. given' = given /\ inputQueue' = q
        BY <2>1, <2>4 DEF Push
    <3> HIDE DEF q
    <3> QED
        BY <1>5, <1>6, <1>8, <1>9, <1>11, <2>2, <2>4, <3>1
  <2> QED
      BY <2>3, <2>4
<1>12. CASE good /\ ~ batching
  <2>1. given' = Append(given, p) /\ inputQueue' = inputQueue
      BY <1>12 DEF HandlePacket, p
  <2>2. Heads(given') = Heads(given) \cup {header} /\ Len(given') = Len(given) + 1
    <3>1. Heads(Append(given, p)) = Heads(given) \cup ({p.head} \ {0})
        BY <1>2, <1>3, HeadsAppend
    <3> QED
        BY <1>1, <1>2, <1>3, <2>1, <3>1
  <2> QED
      BY <1>5, <1>6, <1>8, <1>9, <1>12, <2>1, <2>2
<1> QED
    BY <1>2, <1>10, <1>11, <1>12

LEMMA NextGiven ==
    ASSUME TypeInv, PacketInv, GivenInv, [Next]_vars
    PROVE  GivenInv'
<1>1. CASE Connected
  <2>1. given' = <<>> /\ inputQueue' = <<>> /\ handled' = <<>>
      BY <1>1 DEF Connected
  <2>2. GoodHandled' = {} /\ Heads(given') = {} /\ Heads(inputQueue') = {}
      BY <2>1, HeadsEmpty DEF GoodHandled
  <2> QED
      BY <2>1, <2>2, FramingBounds DEF GivenInv
<1> QED
    BY <1>1, QuietGiven, HandleGiven

-----------------------------------------------------------------------------
(* Streams without errors. *)

LEMMA CleanFacts ==
    ASSUME TypeInv, CleanInv, up, Clean
    PROVE  /\ \A i \in 1 .. Len(handled) : handled[i] = first + i - 1
           /\ gotHeader => header = first + Len(handled)
           /\ ~ gotHeader => IF Len(Rest) = 0 THEN first + Len(handled) = Len(frames) + 1
                             ELSE Rest[1] = <<first + Len(handled), 1>>
           /\ pc = "idle" /\ ~ gotHeader => Len(input) < HeaderLen
           /\ pc = "idle" /\ gotHeader => Len(input) < frames[header].len
           /\ handled \in Seq(1 .. MaxFrames) /\ Len(handled) \in Nat
BY DEF CleanInv, TypeInv, TypeOK

LEMMA EncodeClean ==
    ASSUME TypeInv, PlaceInv, CleanInv, NEW fr \in Frame, Encode(fr)
    PROVE  CleanInv'
<1> SUFFICES ASSUME up', Clean'
             PROVE  /\ (\A i \in 1 .. Len(handled) : handled[i] = first + i - 1)'
                    /\ (gotHeader => header = first + Len(handled))'
                    /\ (~ gotHeader => IF Len(Rest) = 0 THEN first + Len(handled) = Len(frames) + 1
                                       ELSE Rest[1] = <<first + Len(handled), 1>>)'
                    /\ (pc = "idle" /\ ~ gotHeader => Len(input) < HeaderLen)'
                    /\ (pc = "idle" /\ gotHeader => Len(input) < frames[header].len)'
    BY DEF CleanInv
<1>1. UNCHANGED <<first, up, input, gotHeader, header, pc, handled>>
    BY DEF Encode, parser, packets
<1>2. PICK e : Extends(frames, fr, frames', Rest, e) /\ Rest' = Rest \o e
    BY EncodeRest
<1>3. /\ Len(frames') = Len(frames) + 1 /\ Len(frames) \in Nat /\ Len(Rest) \in Nat /\ Len(e) \in Nat \ {0}
      /\ Len(Rest \o e) = Len(Rest) + Len(e)
      /\ \A i \in 1 .. Len(e) : e[i] = <<Len(frames) + 1, i>>
      /\ \A i \in 1 .. Len(Rest) : (Rest \o e)[i] = Rest[i]
      /\ \A i \in 1 .. Len(e) : (Rest \o e)[Len(Rest) + i] = e[i]
      /\ \A f \in 1 .. Len(frames) : frames'[f] = frames[f]
    BY <1>2, ExtendFacts
<1>4. first \in Nat \ {0} /\ up
    BY <1>1, TypeFacts DEF TypeInv
<1>5. Clean
  <2> SUFFICES ASSUME NEW f \in first .. Len(frames) PROVE frames[f].kind \in {"good", "unknown"}
      BY DEF Clean
  <2>1. f \in 1 .. Len(frames) /\ f \in first' .. Len(frames')
      BY <1>1, <1>3, <1>4
  <2>2. frames'[f].kind \in {"good", "unknown"}
      BY <2>1 DEF Clean
  <2> QED
      BY <1>3, <2>1, <2>2
<1>6. /\ \A i \in 1 .. Len(handled) : handled[i] = first + i - 1
      /\ gotHeader => header = first + Len(handled)
      /\ ~ gotHeader => IF Len(Rest) = 0 THEN first + Len(handled) = Len(frames) + 1
                        ELSE Rest[1] = <<first + Len(handled), 1>>
      /\ pc = "idle" /\ ~ gotHeader => Len(input) < HeaderLen
      /\ pc = "idle" /\ gotHeader => Len(input) < frames[header].len
    BY <1>4, <1>5, CleanFacts
<1>7. ASSUME gotHeader PROVE frames'[header] = frames[header]
    BY <1>3, <1>7, HeaderFacts
<1>8. ASSUME ~ gotHeader PROVE Rest'[1] = <<first + Len(handled), 1>> /\ Len(Rest') # 0
  <2>0. Len(Rest') # 0
      BY <1>2, <1>3
  <2>1. CASE Len(Rest) = 0
    <3>1. (Rest \o e)[1] = e[1] /\ e[1] = <<Len(frames) + 1, 1>>
        BY <1>3, <2>1
    <3> QED
        BY <1>2, <1>6, <1>8, <2>0, <2>1, <3>1
  <2>2. CASE Len(Rest) # 0
    <3>1. (Rest \o e)[1] = Rest[1]
        BY <1>3, <2>2
    <3> QED
        BY <1>2, <1>6, <1>8, <2>0, <2>2, <3>1
  <2> QED
      BY <2>1, <2>2
<1> QED
    BY <1>1, <1>6, <1>7, <1>8

LEMMA ConnectClean ==
    ASSUME ~ KeepsHeader, TypeInv, Connected
    PROVE  CleanInv'
<1>1. /\ gotHeader' = FALSE /\ handled' = <<>> /\ first' = Len(frames) + 1 /\ frames' = frames
      /\ input' = <<>> /\ net' = <<>>
    BY DEF Connected
<1>2. Len(handled') = 0 /\ Len(input') = 0 /\ Len(frames) \in Nat
    BY <1>1, TypeFacts DEF TypeInv
<1>3. Len(Rest)' = 0
    BY <1>1, EmptyStream
<1>4. 0 < HeaderLen
    BY FramingBounds
<1> QED
    BY <1>1, <1>2, <1>3, <1>4 DEF CleanInv

LEMMA QuietClean ==
    ASSUME TypeInv, CleanInv,
           \/ \E n \in 1 .. Len(net) : OnMessage(n)
           \/ NeedsHeader \/ ResumeBody \/ NeedsBody \/ UNCHANGED vars
    PROVE  CleanInv'
<1>0. Rest' = Rest /\ UNCHANGED <<frames, first, up, gotHeader, header, handled>>
    BY QuietSteps DEF Quiet, stream, parser, packets
<1>1. HeaderLen \in Nat \ {0}
    BY FramingBounds
<1> SUFFICES ASSUME up, Clean
             PROVE  /\ (pc = "idle" /\ ~ gotHeader => Len(input) < HeaderLen)'
                    /\ (pc = "idle" /\ gotHeader => Len(input) < frames[header].len)'
    BY <1>0 DEF CleanInv, Clean
<1>2. CASE (\E n \in 1 .. Len(net) : OnMessage(n)) \/ ResumeBody
  <2>1. pc' # "idle"
      BY <1>2 DEF OnMessage, ResumeBody
  <2> QED
      BY <2>1
<1>3. CASE NeedsHeader
  <2>1. /\ input' = input /\ pc = "loop"
        /\ input = <<>> \/ (~ gotHeader /\ Len(input) < HeaderLen)
      BY <1>3 DEF NeedsHeader
  <2>2. input = <<>> => Len(input) = 0
      OBVIOUS
  <2>3. gotHeader => frames[header].len > 0
      BY <2>1 DEF TypeInv, ParserInv
  <2> QED
      BY <1>0, <1>1, <2>1, <2>2, <2>3
<1>4. CASE NeedsBody
  <2>1. input' = input /\ gotHeader /\ Len(input) < frames[header].len
      BY <1>4 DEF NeedsBody, DataLen, TypeInv, ParserInv
  <2> QED
      BY <1>0, <2>1
<1>5. CASE UNCHANGED vars
  <2>1. pc' = pc /\ input' = input
      BY <1>5 DEF vars
  <2>2. /\ pc = "idle" /\ ~ gotHeader => Len(input) < HeaderLen
        /\ pc = "idle" /\ gotHeader => Len(input) < frames[header].len
      BY CleanFacts
  <2> QED
      BY <1>0, <2>1, <2>2
<1> QED
    BY <1>2, <1>3, <1>4, <1>5

\* On a clean stream the parser finds the header of the next frame.
LEMMA HeaderClean ==
    ASSUME TypeInv, PlaceInv, CleanInv, GetPacketInfo
    PROVE  CleanInv'
<1>0. /\ ~ gotHeader /\ Len(input) >= HeaderLen /\ input' = Drop(input, HeaderLen) /\ net' = net
      /\ header' = HeaderOf(input) /\ gotHeader' = (header' # 0)
      /\ pc' = (IF gotHeader' THEN "body" ELSE "idle")
      /\ UNCHANGED <<frames, first, up, handled>>
    BY DEF GetPacketInfo, stream, packets
<1> SUFFICES ASSUME up, Clean
             PROVE  /\ \A i \in 1 .. Len(handled) : handled[i] = first + i - 1
                    /\ header' = first + Len(handled) /\ header' # 0
    BY <1>0 DEF CleanInv, Clean
<1>1. /\ input \in Seq(Unit) /\ Rest \in Seq(Unit) /\ frames \in Seq(Frame) /\ first \in Nat \ {0}
      /\ Len(input) \in Nat /\ Len(Rest) >= Len(input) /\ Len(Rest) \in Nat
      /\ \A i \in 1 .. Len(input) : Rest[i] = input[i]
      /\ HeaderLen \in Nat \ {0} /\ HeaderLen \in 1 .. Len(input) /\ HeaderLen \in 0 .. Len(input)
      /\ HeaderLen \in 1 .. Len(Rest) /\ 1 \in 1 .. Len(input) /\ 1 \in 1 .. Len(Rest)
    BY <1>0, TypeFacts, FramingBounds DEF TypeInv
<1>2. /\ \A i \in 1 .. Len(handled) : handled[i] = first + i - 1
      /\ Rest[1] = <<first + Len(handled), 1>> /\ Len(handled) \in Nat
    BY <1>0, <1>1, CleanFacts
<1>3. PICK f : f = first + Len(handled)
    OBVIOUS
<1>4. f \in first .. Len(frames) /\ f \in 1 .. Len(frames) /\ f \in Nat
  <2>1. Rest[1][1] \in first .. Len(frames)
      BY <1>1 DEF PlaceInv, StreamInv, Consecutive, InStream
  <2> QED
      BY <1>1, <1>2, <1>3, <2>1
<1>5. frames[f].kind # "broken" /\ frames[f].len \in Nat
    BY <1>1, <1>4, Lengths DEF Clean
<1>6. \A j \in 1 .. HeaderLen : Rest[j] = <<f, 1 + j - 1>>
  <2>1. 1 + HeaderLen <= HeaderLen + frames[f].len + 1 /\ 1 \in Nat \ {0}
      BY <1>1, <1>5
  <2>2. Rest[1] = <<f, 1>> /\ Consecutive(frames, first, Rest)
      BY <1>2, <1>3 DEF PlaceInv, StreamInv
  <2>3. RunFrom(frames, first, Rest, f, 1, HeaderLen)
      BY <1>1, <1>4, <2>1, <2>2 DEF RunFrom
  <2> QED
      BY <2>3, UnitsOfFrame
<1>7. Take(input, HeaderLen) = Part(f, 1, HeaderLen)
  <2> DEFINE t == Take(input, HeaderLen)
             q == Part(f, 1, HeaderLen)
             S == {f} \X (1 .. HeaderLen)
             T == Unit \cup S
  <2>1. t \in Seq(Unit) /\ Len(t) = HeaderLen /\ \A i \in 1 .. HeaderLen : t[i] = input[i]
      BY <1>1, TakeFacts
  <2>2. 1 \in Nat \ {0} /\ HeaderLen \in Nat /\ 1 <= HeaderLen + 1 /\ HeaderLen + 1 - 1 = HeaderLen
      BY <1>1
  <2>3. q \in Seq(S) /\ Len(q) = HeaderLen + 1 - 1
        /\ \A i \in 1 .. HeaderLen + 1 - 1 : q[i] = <<f, 1 + i - 1>>
      BY <1>4, <2>2, PartFacts, Zenon
  <2> HIDE DEF t, q, S
  <2>4. Len(q) = HeaderLen /\ \A i \in 1 .. HeaderLen : q[i] = <<f, 1 + i - 1>>
      BY <2>2, <2>3
  <2>5. ASSUME NEW i \in 1 .. HeaderLen PROVE t[i] = q[i]
    <3>1. i \in 1 .. Len(input)
        BY <1>1
    <3> QED
        BY <1>1, <1>6, <2>1, <2>4, <3>1
  <2>6. t \in Seq(T) /\ q \in Seq(T)
      BY <2>1, <2>3
  <2>7. Len(t) = Len(q) /\ \A i \in 1 .. Len(t) : t[i] = q[i]
      BY <2>1, <2>4, <2>5
  <2> HIDE DEF T
  <2>8. t = q
      BY <2>6, <2>7, SameSeq
  <2> QED
      BY <2>8 DEF t, q
<1>8. input[1][1] = f
    BY <1>1, <1>2, <1>3
<1>9. HeaderOf(input) = f
    BY <1>5, <1>7, <1>8 DEF HeaderOf
<1> QED
    BY <1>0, <1>2, <1>3, <1>4, <1>9

LEMMA HandleClean ==
    ASSUME TypeInv, PlaceInv, CleanInv, NEW k \in 0 .. MaxLen, HandlePacket(k)
    PROVE  CleanInv'
<1>0. /\ gotHeader /\ up /\ Len(input) >= DataLen /\ k \in 0 .. Len(input)
      /\ frames[header].kind # "bad" => k = DataLen
    BY HandleFacts
<1>1. /\ input' = Drop(input, k) /\ net' = net /\ handled' = Append(handled, header)
      /\ gotHeader' = FALSE /\ pc' = "loop" /\ UNCHANGED <<frames, first, up>>
    BY DEF HandlePacket, stream
<1> SUFFICES ASSUME Clean
             PROVE  /\ \A i \in 1 .. Len(handled') : handled'[i] = first + i - 1
                    /\ IF Len(Rest') = 0 THEN first + Len(handled') = Len(frames) + 1
                       ELSE Rest'[1] = <<first + Len(handled'), 1>>
    BY <1>1 DEF CleanInv, Clean
<1>2. /\ \A i \in 1 .. Len(handled) : handled[i] = first + i - 1
      /\ header = first + Len(handled) /\ handled \in Seq(1 .. MaxFrames) /\ Len(handled) \in Nat
    BY <1>0, CleanFacts
<1>3. /\ header \in 1 .. MaxFrames /\ header \in Nat /\ DataLen = frames[header].len /\ DataLen \in Nat
      /\ HeaderLen \in Nat \ {0} /\ first \in Nat \ {0} /\ Len(frames) \in Nat
    BY <1>0, HeaderFacts, TypeFacts DEF TypeInv
<1>4. k = DataLen
    BY <1>0 DEF PlaceInv, BodyInv, Clean
<1>5. After(frames, <<header, HeaderLen + DataLen>>, Rest')
  <2>1. Rest' = Drop(Rest, DataLen)
      BY <1>0, <1>1, <1>4, DropRest
  <2> QED
      BY <1>0, <2>1, BodyTaken DEF PlaceInv
<1>6. Len(handled') = Len(handled) + 1 /\ first + Len(handled') = header + 1
    BY <1>1, <1>2, <1>3
<1>7. \A i \in 1 .. Len(handled') : handled'[i] = first + i - 1
  <2> SUFFICES ASSUME NEW i \in 1 .. Len(handled') PROVE handled'[i] = first + i - 1
      OBVIOUS
  <2>1. CASE i \in 1 .. Len(handled)
    <3>1. handled'[i] = handled[i]
        BY <1>1, <1>2, <2>1
    <3> QED
        BY <1>2, <2>1, <3>1
  <2>2. CASE i = Len(handled) + 1
    <3>1. handled'[i] = header
        BY <1>1, <1>2, <2>2
    <3> QED
        BY <1>2, <1>3, <2>2, <3>1
  <2> QED
      BY <1>2, <1>6, <2>1, <2>2
<1>8. CASE Len(Rest') = 0
  <2>1. header = Len(frames)
      BY <1>5, <1>8 DEF After, LastUnit
  <2> QED
      BY <1>6, <1>7, <1>8, <2>1
<1>9. CASE Len(Rest') # 0
  <2>1. Follows(frames, <<header, HeaderLen + DataLen>>, Rest'[1])
      BY <1>5, <1>9 DEF After
  <2>2. ~ (HeaderLen + DataLen < HeaderLen + frames[header].len)
      BY <1>3
  <2>3. Rest'[1] = <<header + 1, 1>>
      BY <2>1, <2>2 DEF Follows
  <2> QED
      BY <1>6, <1>7, <1>9, <2>3
<1> QED
    BY <1>8, <1>9

LEMMA NextClean ==
    ASSUME ~ KeepsHeader, TypeInv, PlaceInv, CleanInv, [Next]_vars
    PROVE  CleanInv'
<1>1. CASE ConnectionLost
    BY <1>1 DEF ConnectionLost, CleanInv
<1> QED
    BY <1>1, EncodeClean, ConnectClean, QuietClean, HeaderClean, HandleClean DEF Next, Parse

-----------------------------------------------------------------------------
(* The theorems. *)

LEMMA InitFrames ==
    ASSUME Init
    PROVE  FrameInv
<1>1. given = <<>> /\ inputQueue = <<>> /\ handled = <<>> /\ up = FALSE
    BY DEF Init
<1>2. /\ <<>> \in Seq(Sound) /\ Len(<<>>) = 0 /\ InOrder(<<>>)
    BY DEF InOrder
<1>3. /\ given \in Seq(Sound) /\ inputQueue \in Seq(Sound) /\ InOrder(given) /\ InOrder(inputQueue)
      /\ Len(inputQueue) = 0
    BY <1>1, <1>2
<1>4. PacketInv
    BY <1>1, <1>3, FramingBounds DEF PacketInv
<1>5. CleanInv
    BY <1>1 DEF CleanInv
<1>6. GivenInv
  <2>1. GoodHandled = {} /\ Heads(given) = {} /\ Heads(inputQueue) = {}
      BY <1>1, HeadsEmpty DEF GoodHandled
  <2> QED
      BY <1>1, <2>1, FramingBounds DEF GivenInv
<1> QED
    BY <1>4, <1>5, <1>6, InitTypes, InitPlace DEF FrameInv

LEMMA NextFrames ==
    ASSUME ~ KeepsHeader, FrameInv, [Next]_vars
    PROVE  FrameInv'
BY NextTypes, NextPlace, NextPackets, NextGiven, NextClean DEF FrameInv

LEMMA Intact == FrameInv => PacketsIntact
<1> SUFFICES ASSUME FrameInv, NEW q \in {given, inputQueue}, NEW i \in DOMAIN q, q[i] # BadPacket
             PROVE  q[i].body = Part(q[i].head, HeaderLen + 1, HeaderLen + frames[q[i].head].len)
    BY DEF PacketsIntact
<1>1. q \in Seq(Sound)
    BY DEF FrameInv, PacketInv
<1>2. q[i] \in Sound
    BY <1>1
<1> QED
    BY <1>2, SoundFacts DEF FrameInv

LEMMA Ordered == FrameInv => GivenOnceInOrder
<1> SUFFICES ASSUME FrameInv PROVE GivenOnceInOrder
    OBVIOUS
<1> DEFINE got == given \o inputQueue
<1>1. /\ given \in Seq(Sound) /\ inputQueue \in Seq(Sound) /\ InOrder(given) /\ InOrder(inputQueue)
      /\ \A i \in 1 .. Len(given), j \in 1 .. Len(inputQueue) : given[i].head < inputQueue[j].head
      /\ Len(inputQueue) < Batch
    BY DEF FrameInv, PacketInv
<1>2. got \in Seq(Sound) /\ InOrder(got)
    BY <1>1, OrderJoin
<1> HIDE DEF got
<1>3. ASSUME NEW i \in DOMAIN got, NEW j \in DOMAIN got, i < j, got[i] # BadPacket, got[j] # BadPacket
      PROVE  got[i].head < got[j].head
  <2>1. got[i] \in Sound /\ got[j] \in Sound /\ i \in 1 .. Len(got) /\ j \in 1 .. Len(got)
      BY <1>2
  <2>2. got[i].head # 0 /\ got[j].head # 0
      BY <1>3, <2>1, SoundFacts DEF FrameInv
  <2> QED
      BY <1>2, <1>3, <2>1, <2>2 DEF InOrder
<1>4. Heads(got) = Heads(given) \cup Heads(inputQueue) /\ Len(got) = Len(given) + Len(inputQueue)
    BY <1>1, HeadsJoin DEF got
<1>5. GivenInv
    BY DEF FrameInv
<1> QED
    BY <1>3, <1>4, <1>5 DEF GivenOnceInOrder, GivenInv, got

\* When OnMessage has returned, the input holds no whole part of the next frame.
LEMMA InputIsShort ==
    ASSUME FrameInv, up, Clean, pc = "idle", NEW j \in 1 .. Len(input), NEW f \in 1 .. Len(frames)
    PROVE  Rest[j] # <<f, HeaderLen + frames[f].len>>
<1>0. TypeInv /\ StreamInv /\ BodyInv /\ CleanInv /\ PlaceInv
    BY DEF FrameInv, PlaceInv
<1>1. /\ Rest \in Seq(Unit) /\ frames \in Seq(Frame) /\ first \in Nat \ {0} /\ Len(input) \in Nat
      /\ j \in 1 .. Len(Rest) /\ 1 \in 1 .. Len(Rest) /\ Len(Rest) # 0 /\ HeaderLen \in Nat \ {0}
      /\ gotHeader \in BOOLEAN /\ frames[f].len \in Nat
    BY <1>0, TypeFacts, FramingBounds, Lengths DEF TypeInv
<1>2. CASE gotHeader
  <2>1. Len(input) < frames[header].len /\ DataLen = frames[header].len /\ DataLen \in Nat /\ header \in Nat
      BY <1>0, <1>2, CleanFacts, HeaderFacts
  <2>2. j \in 1 .. DataLen /\ j <= Len(Rest) /\ j \in 1 .. j
      BY <1>1, <2>1
  <2>3. Rest[j] = <<header, HeaderLen + j>>
      BY <1>0, <1>2, <2>2, BodyUnits
  <2>4. j < frames[header].len
      BY <1>1, <2>1
  <2> QED
      BY <1>1, <2>1, <2>3, <2>4
<1>3. CASE ~ gotHeader
  <2>1. Len(input) < HeaderLen /\ Rest[1] = <<first + Len(handled), 1>> /\ Len(handled) \in Nat
      BY <1>0, <1>1, <1>3, CleanFacts
  <2>2. PICK g : g = first + Len(handled)
      OBVIOUS
  <2>3. g \in 1 .. Len(frames)
    <3>1. Rest[1][1] \in first .. Len(frames)
        BY <1>0, <1>1 DEF StreamInv, Consecutive, InStream
    <3> QED
        BY <1>1, <2>1, <2>2, <3>1
  <2>4. frames[g].len \in Nat
      BY <1>1, <2>3, Lengths
  <2>5. Rest[1] = <<g, 1>> /\ Consecutive(frames, first, Rest)
      BY <1>0, <2>1, <2>2 DEF StreamInv
  <2>6. 1 + j <= HeaderLen + frames[g].len + 1 /\ 1 \in Nat \ {0} /\ j < HeaderLen /\ j \in 1 .. j
      BY <1>1, <2>1, <2>4, SMTT(30)
  <2>7. \A i \in 1 .. j : Rest[i] = <<g, 1 + i - 1>>
    <3>1. RunFrom(frames, first, Rest, g, 1, j)
        BY <1>1, <2>3, <2>5, <2>6 DEF RunFrom
    <3> QED
        BY <3>1, UnitsOfFrame
  <2> QED
      BY <1>1, <2>6, <2>7, SMTT(30)
<1> QED
    BY <1>1, <1>2, <1>3

LEMMA ArrivedFrames ==
    ASSUME FrameInv, up, Clean, pc = "idle"
    PROVE  Arrived = first .. first + Len(handled) - 1
<1>0. TypeInv /\ StreamInv /\ BodyInv /\ CleanInv /\ PlaceInv
    BY DEF FrameInv, PlaceInv
<1>1. /\ Rest \in Seq(Unit) /\ frames \in Seq(Frame) /\ first \in Nat \ {0} /\ Len(input) \in Nat
      /\ net \in Seq(Unit) /\ Len(net) \in Nat /\ Len(Rest) = Len(input) + Len(net)
      /\ \A i \in 1 .. Len(net) : Rest[Len(input) + i] = net[i]
      /\ gotHeader \in BOOLEAN /\ Len(frames) \in Nat /\ HeaderLen \in Nat \ {0}
    BY <1>0, TypeFacts, FramingBounds DEF TypeInv
<1>2. Len(handled) \in Nat
    BY <1>0, CleanFacts
<1> DEFINE g == first + Len(handled)
<1>3. g \in Nat
    BY <1>1, <1>2
<1>4. g <= Len(frames) + 1 /\ (Len(Rest) = 0 => g = Len(frames) + 1) /\ (Len(Rest) # 0 => Rest[1][1] = g)
  <2>1. CASE gotHeader
    <3>1. /\ header = g /\ Len(input) < frames[header].len /\ DataLen = frames[header].len /\ DataLen \in Nat
          /\ header \in 1 .. Len(frames)
        BY <1>0, <2>1, CleanFacts, HeaderFacts
    <3>2. After(frames, <<header, HeaderLen>>, Rest)
        BY <1>0, <2>1 DEF BodyInv
    <3>3. HeaderLen < HeaderLen + frames[header].len
        BY <1>1, <3>1
    <3>4. Len(Rest) # 0 => Rest[1] = <<header, HeaderLen + 1>>
        BY <3>2, <3>3 DEF After, Follows
    <3>5. Len(Rest) # 0
        BY <1>1, <3>1, <3>2, <3>3 DEF After, LastUnit
    <3> QED
        BY <1>1, <3>1, <3>4, <3>5
  <2>2. CASE ~ gotHeader
    <3>1. IF Len(Rest) = 0 THEN g = Len(frames) + 1 ELSE Rest[1] = <<g, 1>>
        BY <1>0, <2>2, CleanFacts
    <3>2. Len(Rest) # 0 => Rest[1][1] \in first .. Len(frames)
        BY <1>0, <1>1 DEF StreamInv, Consecutive, InStream
    <3> QED
        BY <1>1, <1>3, <3>1, <3>2
  <2> QED
      BY <1>1, <2>1, <2>2
<1> HIDE DEF g
<1>5. ASSUME NEW f \in first .. Len(frames), f < g, NEW i \in DOMAIN net PROVE net[i][1] # f
  <2>1. i \in 1 .. Len(net) /\ Len(input) + i \in 1 .. Len(Rest) /\ 1 \in 1 .. Len(Rest) /\ 1 <= Len(input) + i
        /\ Len(Rest) # 0
      BY <1>1
  <2>2. Rest[1][1] <= Rest[Len(input) + i][1]
      BY <1>0, <2>1 DEF StreamInv, Consecutive, Ascending
  <2>3. g <= net[i][1] /\ net[i][1] \in Nat
      BY <1>1, <1>4, <2>1, <2>2, UnitFacts
  <2> QED
      BY <1>3, <1>5, <2>3
<1>6. ASSUME NEW f \in first .. Len(frames), f >= g PROVE \E i \in DOMAIN net : net[i][1] = f
  <2>1. Len(Rest) # 0 /\ Len(Rest) > 0
      BY <1>1, <1>3, <1>4, <1>6
  <2>2. f \in Rest[1][1] .. Len(frames) /\ f \in 1 .. Len(frames)
      BY <1>1, <1>3, <1>4, <1>6, <2>1
  <2>3. PICK j \in 1 .. Len(Rest) : Rest[j] = <<f, HeaderLen + frames[f].len>>
      BY <1>0, <2>1, <2>2 DEF StreamInv, Consecutive, Complete
  <2>4. ~ (j \in 1 .. Len(input))
      BY <2>2, <2>3, InputIsShort
  <2>5. j - Len(input) \in 1 .. Len(net) /\ Len(input) + (j - Len(input)) = j
      BY <1>1, <2>4
  <2>6. net[j - Len(input)] = Rest[j] /\ j - Len(input) \in DOMAIN net
      BY <1>1, <2>5, SMTT(30)
  <2> QED
      BY <2>3, <2>6
<1>7. ASSUME NEW f PROVE f \in Arrived <=> f \in first .. g - 1
  <2>1. f \in first .. g - 1 <=> f \in first .. Len(frames) /\ f < g
      BY <1>1, <1>3, <1>4
  <2>2. f \in Arrived <=> f \in first .. Len(frames) /\ \A i \in DOMAIN net : net[i][1] # f
      BY DEF Arrived
  <2>3. CASE f \in first .. Len(frames) /\ f < g
      BY <1>5, <2>1, <2>2, <2>3
  <2>4. CASE f \in first .. Len(frames) /\ ~ (f < g)
    <3>1. f >= g
        BY <1>1, <1>3, <2>4
    <3> QED
        BY <1>6, <2>1, <2>2, <2>4, <3>1
  <2>5. CASE ~ (f \in first .. Len(frames))
      BY <2>1, <2>2, <2>5
  <2> QED
      BY <2>3, <2>4, <2>5
<1>8. Arrived = first .. g - 1
    BY <1>7
<1>9. g - 1 = first + Len(handled) - 1
    BY <1>1, <1>2 DEF g
<1> QED
    BY <1>8, <1>9

LEMMA Handled == FrameInv => ValidDataIsHandled
<1> SUFFICES ASSUME FrameInv, up, Clean, pc = "idle"
             PROVE  handled = [i \in 1 .. Cardinality(Arrived) |-> first + i - 1]
    BY DEF ValidDataIsHandled
<1>1. /\ \A i \in 1 .. Len(handled) : handled[i] = first + i - 1
      /\ handled \in Seq(1 .. MaxFrames) /\ Len(handled) \in Nat /\ first \in Nat
    BY CleanFacts, TypeFacts DEF FrameInv, TypeInv
<1>2. Cardinality(Arrived) = Len(handled)
  <2> DEFINE b == first + Len(handled) - 1
  <2>1. Arrived = first .. b
      BY ArrivedFrames
  <2>2. first \in Int /\ b \in Int
      BY <1>1
  <2> HIDE DEF b
  <2>3. Cardinality(first .. b) = IF first > b THEN 0 ELSE b - first + 1
      BY <2>2, FS_Interval
  <2> QED
      BY <1>1, <2>1, <2>3 DEF b
<1>3. handled = [i \in 1 .. Len(handled) |-> first + i - 1]
    BY <1>1
<1> QED
    BY <1>2, <1>3

\* On a server's connection every packet that reaches the adapter, or waits for
\* it, was decoded from the whole body of its own header, wherever the pieces
\* of the stream begin and end and whatever broken frames came before.
THEOREM PacketsStayIntact == ASSUME ~ KeepsHeader PROVE Spec => []PacketsIntact
<1>1. Init => FrameInv
    BY InitFrames
<1>2. FrameInv /\ [Next]_vars => FrameInv'
    BY NextFrames
<1> QED
    BY <1>1, <1>2, Intact, PTL DEF Spec

\* While a server's connection lives the adapter gets, or the batch holds, one
\* packet for each frame handled: none lost, none twice, in the order of the
\* stream, for batches of any size; a lost connection takes less than a batch.
THEOREM PacketsInOrder == ASSUME ~ KeepsHeader PROVE Spec => []GivenOnceInOrder
<1>1. Init => FrameInv
    BY InitFrames
<1>2. FrameInv /\ [Next]_vars => FrameInv'
    BY NextFrames
<1> QED
    BY <1>1, <1>2, Ordered, PTL DEF Spec

\* While the peer sends no frame with an error, OnMessage returns with exactly
\* the frames handled that have arrived to their last unit.
THEOREM DataIsHandled == ASSUME ~ KeepsHeader PROVE Spec => []ValidDataIsHandled
<1>1. Init => FrameInv
    BY InitFrames
<1>2. FrameInv /\ [Next]_vars => FrameInv'
    BY NextFrames
<1> QED
    BY <1>1, <1>2, Handled, PTL DEF Spec
=============================================================================
