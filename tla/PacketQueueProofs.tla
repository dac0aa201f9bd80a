------------------------- MODULE PacketQueueProofs -------------------------
(***************************************************************************)
(* The linked lists of PacketQueue.tla are first-in first-out queues, for   *)
(* any number of packets and queues: theorems about its pointers, and that  *)
(* it implements PacketQueueSpec.                                           *)
(*                                                                         *)
(* What a walk along next_ finds is a recursive function of the pointers.   *)
(* It is well defined because next_ has no cycle, not even through packets  *)
(* that were popped and still point into a queue (Ranked), and it is the    *)
(* only sequence that the pointers link (Path).                             *)
(***************************************************************************)
EXTENDS PacketQueue, TLAPS, FiniteSetTheorems, WellFoundedInduction

Heads == Packets \cup {NULL}

\* From p the pointers nx lead through s, and end there.
Path(nx, p, s) ==
    /\ s \in Seq(Packets)
    /\ p = IF Len(s) = 0 THEN NULL ELSE s[1]
    /\ \A i \in 1 .. Len(s) : nx[s[i]] = IF i = Len(s) THEN NULL ELSE s[i + 1]
    /\ \A i, j \in 1 .. Len(s) : s[i] = s[j] => i = j

\* The packets of the owner o are those of s.
On(s) == {s[i] : i \in 1 .. Len(s)}
Holds(own, o, s) == \A p \in Packets : own[p] = o <=> p \in On(s)

LastOf(s) == IF Len(s) = 0 THEN NULL ELSE s[Len(s)]

\* The queues hold the sequences c, the caller's list is l.
Linked(c, l) == /\ \A q \in Queues : Path(next, head[q], c[q])
                /\ Path(next, list, l)
Owned(c, l) == /\ \A q \in Queues : Holds(owner, q, c[q])
               /\ Holds(owner, "list", l)
Counted(c) == \A q \in Queues : size[q] = Len(c[q]) /\ tail[q] = LastOf(c[q])

Lists(c, l) == /\ c \in [Queues -> Seq(Packets)] /\ l \in Seq(Packets)
               /\ Linked(c, l) /\ Owned(c, l) /\ Counted(c)

\* The pointers have no cycle.
Ranks(nx, r, b) == /\ r \in [Packets -> Nat] /\ b \in Nat
                   /\ \A p \in Packets : r[p] <= b /\ (nx[p] # NULL => r[nx[p]] < r[p])
Ranked(nx) == \E r, b : Ranks(nx, r, b)

Pointers == /\ head \in [Queues -> Heads] /\ tail \in [Queues -> Heads]
            /\ next \in [Packets -> Heads] /\ list \in Heads
            /\ size \in [Queues -> Nat]
            /\ deadline \in [Packets -> 0 .. MaxTime]
            /\ owner \in [Packets -> Queues \cup {"list", "out"}]

QueueInv == Pointers /\ Ranked(next) /\ \E c, l : Lists(c, l)

-----------------------------------------------------------------------------
(* Walks along the pointers. *)

LEMMA Least ==
    ASSUME NEW S, S # {}, S \subseteq Nat
    PROVE  \E s \in S : \A t \in S : s <= t
<1> DEFINE R == OpToRel(<, Nat)
<1>1. IsWellFoundedOn(R, Nat)
    BY NatLessThanWellFounded
<1>2. \A a, b \in Nat : a < b => <<a, b>> \in R
    BY DEF OpToRel
<1> HIDE DEF R
<1>3. PICK m \in S : \A k \in S : ~ (<<k, m>> \in R)
    BY <1>1, WFMin
<1>4. ASSUME NEW k \in S PROVE m <= k
  <2>1. k \in Nat /\ m \in Nat
      OBVIOUS
  <2>2. ~ (k < m)
      BY <1>2, <1>3, <2>1, Zenon
  <2> QED
      BY <2>1, <2>2
<1> QED
    BY <1>4

LEMMA NullIsNoPacket == NULL \notin Packets /\ \A p \in Packets : p # NULL /\ p \in Nat
BY DEF NULL, Packets

\* f is a walk on the part D of the packets.
WalkOn(nx, go, D, f) ==
    f = [q \in D |-> IF q \in go THEN <<q>> \o f[nx[q]] ELSE <<>>]

Walk(nx, go) == CHOOSE f : WalkOn(nx, go, Heads, f)

LEMMA ChainIsWalk ==
    ASSUME NEW p, NEW go
    PROVE  Chain(p, go) = Walk(next, go)[p] /\ Chain(p, go)' = Walk(next', go)[p]
BY DEF Chain, Walk, WalkOn, Heads

\* A walk is well defined: it is so on the packets of rank below n, for every n.
LEMMA WalkExists ==
    ASSUME NEW nx \in [Packets -> Heads], Ranked(nx), NEW go \in SUBSET Packets
    PROVE  WalkOn(nx, go, Heads, Walk(nx, go))
<1>1. PICK r, b : Ranks(nx, r, b)
    BY DEF Ranked
<1>2. r \in [Packets -> Nat] /\ b \in Nat
    BY <1>1 DEF Ranks
<1>3. \A p \in Packets : r[p] <= b /\ (nx[p] # NULL => r[nx[p]] < r[p])
    BY <1>1 DEF Ranks
<1> DEFINE D(n) == {p \in Packets : r[p] < n} \cup {NULL}
           bad == {n \in Nat : ~ \E f : WalkOn(nx, go, D(n), f)}
<1>4. bad = {}
  <2> SUFFICES ASSUME bad # {} PROVE FALSE
      OBVIOUS
  <2>1. PICK m \in bad : \A k \in bad : m <= k
    <3>1. bad \subseteq Nat
        OBVIOUS
    <3> HIDE DEF bad
    <3> QED
        BY <3>1, Least
  <2>2. m \in Nat /\ ~ \E f : WalkOn(nx, go, D(m), f)
      OBVIOUS
  <2>3. m # 0
    <3> SUFFICES ASSUME m = 0 PROVE FALSE
        OBVIOUS
    <3>1. D(m) = {NULL}
        BY <1>2
    <3> DEFINE f == [q \in D(m) |-> <<>>]
    <3>2. WalkOn(nx, go, D(m), f)
        BY <3>1, NullIsNoPacket DEF WalkOn
    <3> QED
        BY <2>2, <3>2
  <2>4. m - 1 \in Nat /\ m - 1 \notin bad
    <3> HIDE DEF bad
    <3> QED
        BY <2>1, <2>2, <2>3
  <2>5. PICK f : WalkOn(nx, go, D(m - 1), f)
      BY <2>4
  <2> DEFINE g == [q \in D(m) |-> IF q \in go THEN <<q>> \o f[nx[q]] ELSE <<>>]
  <2>6. ASSUME NEW q \in D(m), q \in go PROVE nx[q] \in D(m - 1) /\ nx[q] \in D(m) /\ f[nx[q]] = g[nx[q]]
    <3>1. q \in Packets /\ r[q] < m /\ r[q] \in Nat
        BY <1>2, <2>6, NullIsNoPacket
    <3>2. nx[q] = NULL \/ (nx[q] \in Packets /\ r[nx[q]] < r[q] /\ r[nx[q]] \in Nat)
        BY <1>2, <1>3, <3>1 DEF Heads
    <3>3. nx[q] \in D(m - 1) /\ nx[q] \in D(m)
        BY <2>2, <3>1, <3>2
    <3>4. \A x \in D(m - 1) : f[x] = IF x \in go THEN <<x>> \o f[nx[x]] ELSE <<>>
        BY <2>5 DEF WalkOn
    <3>5. f[nx[q]] = IF nx[q] \in go THEN <<nx[q]>> \o f[nx[nx[q]]] ELSE <<>>
        BY <3>3, <3>4
    <3>6. g[nx[q]] = IF nx[q] \in go THEN <<nx[q]>> \o f[nx[nx[q]]] ELSE <<>>
        BY <3>3
    <3> QED
        BY <3>3, <3>5, <3>6
  <2>7. WalkOn(nx, go, D(m), g)
    <3>1. \A q \in D(m) : g[q] = IF q \in go THEN <<q>> \o g[nx[q]] ELSE <<>>
        BY <2>6
    <3>2. g = [q \in D(m) |-> g[q]]
        OBVIOUS
    <3> HIDE DEF g
    <3> QED
        BY <3>1, <3>2 DEF WalkOn
  <2> QED
      BY <2>2, <2>7
<1>5. \E f : WalkOn(nx, go, D(b + 1), f)
  <2>1. b + 1 \in Nat
      BY <1>2
  <2>2. \A n \in Nat : \E f : WalkOn(nx, go, D(n), f)
      BY <1>4
  <2> HIDE DEF D
  <2> QED
      BY <2>1, <2>2
<1>6. D(b + 1) = Heads
    BY <1>2, <1>3 DEF Heads
<1>7. \E f : WalkOn(nx, go, Heads, f)
    BY <1>5, <1>6
<1> QED
    BY <1>7, Zenon DEF Walk

LEMMA SubFacts ==
    ASSUME NEW T, NEW s \in Seq(T), NEW a \in 1 .. Len(s) + 1, NEW b \in 0 .. Len(s), a <= b + 1
    PROVE  /\ SubSeq(s, a, b) \in Seq(T) /\ Len(SubSeq(s, a, b)) = b + 1 - a
           /\ \A i \in 1 .. b + 1 - a : SubSeq(s, a, b)[i] = s[a + i - 1]
OBVIOUS

LEMMA JoinFacts ==
    ASSUME NEW T, NEW s \in Seq(T), NEW t \in Seq(T)
    PROVE  /\ s \o t \in Seq(T) /\ Len(s \o t) = Len(s) + Len(t)
           /\ \A i \in 1 .. Len(s) : (s \o t)[i] = s[i]
           /\ \A i \in 1 .. Len(t) : (s \o t)[Len(s) + i] = t[i]
OBVIOUS

LEMMA SameSeq ==
    ASSUME NEW T, NEW s \in Seq(T), NEW t \in Seq(T), Len(s) = Len(t),
           \A i \in 1 .. Len(s) : s[i] = t[i]
    PROVE  s = t
OBVIOUS

LEMMA FirstAndRest ==
    ASSUME NEW T, NEW s \in Seq(T), NEW k \in 1 .. Len(s)
    PROVE  <<s[k]>> \o SubSeq(s, k + 1, Len(s)) = SubSeq(s, k, Len(s))
<1> DEFINE n == Len(s)
           a == SubSeq(s, k, n)
           b == SubSeq(s, k + 1, n)
           f == <<s[k]>>
<1>0. n \in Nat /\ k \in Nat /\ k \in 1 .. n + 1 /\ k + 1 \in 1 .. n + 1 /\ n \in 0 .. n /\ k <= n + 1 /\ k + 1 <= n + 1
    OBVIOUS
<1>1. a \in Seq(T) /\ Len(a) = n + 1 - k /\ \A i \in 1 .. n + 1 - k : a[i] = s[k + i - 1]
    BY <1>0, SubFacts
<1>2. b \in Seq(T) /\ Len(b) = n + 1 - (k + 1) /\ \A i \in 1 .. n + 1 - (k + 1) : b[i] = s[(k + 1) + i - 1]
    BY <1>0, SubFacts
<1>3. f \in Seq(T) /\ Len(f) = 1 /\ f[1] = s[k]
    OBVIOUS
<1> HIDE DEF n, a, b, f
<1>4. /\ f \o b \in Seq(T) /\ Len(f \o b) = Len(f) + Len(b)
      /\ \A i \in 1 .. Len(f) : (f \o b)[i] = f[i]
      /\ \A i \in 1 .. Len(b) : (f \o b)[Len(f) + i] = b[i]
  <2>1. f \in Seq(T) /\ b \in Seq(T)
      BY <1>2, <1>3
  <2> QED
      BY <2>1, JoinFacts
<1>5. Len(f \o b) = Len(a)
    BY <1>0, <1>1, <1>2, <1>3, <1>4
<1>6. ASSUME NEW i \in 1 .. Len(f \o b) PROVE (f \o b)[i] = a[i]
  <2>0. i \in 1 .. n + 1 - k
      BY <1>1, <1>5
  <2>1. CASE i = 1
    <3>1. a[1] = s[k]
      <4>1. k + 1 - 1 = k
          BY <1>0
      <4> QED
          BY <1>1, <2>0, <2>1, <4>1
    <3> QED
        BY <1>3, <1>4, <2>1, <3>1
  <2>2. CASE i # 1
    <3>1. /\ i - 1 \in 1 .. n + 1 - (k + 1) /\ 1 + (i - 1) = i
          /\ (k + 1) + (i - 1) - 1 = k + i - 1
        BY <1>0, <2>0, <2>2
    <3>2. (f \o b)[i] = b[i - 1]
      <4>1. i - 1 \in 1 .. Len(b)
          BY <1>2, <3>1
      <4>2. (f \o b)[Len(f) + (i - 1)] = b[i - 1]
          BY <1>4, <4>1
      <4>3. Len(f) + (i - 1) = i
          BY <1>3, <3>1
      <4> QED
          BY <4>2, <4>3
    <3>3. b[i - 1] = s[(k + 1) + (i - 1) - 1]
        BY <1>2, <3>1
    <3>4. a[i] = s[k + i - 1]
        BY <1>1, <2>0
    <3> QED
        BY <3>1, <3>2, <3>3, <3>4
  <2> QED
      BY <2>1, <2>2
<1>7. f \o b = a
    BY <1>1, <1>4, <1>5, <1>6, SameSeq
<1> QED
    BY <1>7 DEF f, a, b, n

\* The only sequence that the pointers link from p on, as far as go reaches.
Reach(nx, go, p, s) ==
    /\ s \in Seq(go) /\ p \in Heads
    /\ Len(s) > 0 => p = s[1]
    /\ \A i \in 1 .. Len(s) - 1 : nx[s[i]] = s[i + 1]
    /\ IF Len(s) = 0 THEN p \notin go ELSE nx[s[Len(s)]] \in Heads \ go

LEMMA WalkIs ==
    ASSUME NEW nx \in [Packets -> Heads], Ranked(nx), NEW go \in SUBSET Packets,
           NEW p, NEW s, Reach(nx, go, p, s)
    PROVE  Walk(nx, go)[p] = s
<1> DEFINE W == Walk(nx, go)
           n == Len(s)
           at(k) == IF n = 0 THEN p ELSE IF k <= n THEN s[k] ELSE nx[s[n]]
<1>0. /\ s \in Seq(go) /\ s \in Seq(Packets) /\ n \in Nat /\ p \in Heads /\ (n > 0 => p = s[1])
      /\ (\A i \in 1 .. n - 1 : nx[s[i]] = s[i + 1])
      /\ IF n = 0 THEN p \notin go ELSE nx[s[n]] \in Heads \ go
    BY DEF Reach
<1>1. \A q \in Heads : W[q] = IF q \in go THEN <<q>> \o W[nx[q]] ELSE <<>>
  <2>1. WalkOn(nx, go, Heads, W)
      BY WalkExists
  <2> HIDE DEF W
  <2> QED
      BY <2>1 DEF WalkOn
<1> HIDE DEF W
<1> DEFINE bad == {j \in 0 .. n : W[at(n + 1 - j)] # SubSeq(s, n + 1 - j, n)}
<1>2. bad = {}
  <2> SUFFICES ASSUME bad # {} PROVE FALSE
      OBVIOUS
  <2>1. PICK m \in bad : \A k \in bad : m <= k
    <3>1. bad \subseteq Nat
        BY <1>0
    <3> HIDE DEF bad
    <3> QED
        BY <3>1, Least
  <2>2. m \in 0 .. n /\ W[at(n + 1 - m)] # SubSeq(s, n + 1 - m, n)
      OBVIOUS
  <2>3. m # 0
    <3> SUFFICES ASSUME m = 0 PROVE FALSE
        OBVIOUS
    <3>1. at(n + 1) \in Heads /\ at(n + 1) \notin go
        BY <1>0
    <3>2. W[at(n + 1)] = <<>>
        BY <1>1, <3>1
    <3>3. SubSeq(s, n + 1, n) = <<>> /\ n + 1 - 0 = n + 1
        BY <1>0
    <3> QED
        BY <2>2, <3>2, <3>3
  <2>4. m - 1 \in 0 .. n /\ m - 1 \notin bad
    <3>1. m - 1 \in 0 .. n /\ ~ (m <= m - 1)
        BY <1>0, <2>2, <2>3
    <3> HIDE DEF bad
    <3> QED
        BY <2>1, <3>1
  <2>5. PICK k : k = n + 1 - m
      OBVIOUS
  <2>6. k \in 1 .. n /\ n + 1 - (m - 1) = k + 1 /\ k \in Nat /\ n # 0
      BY <1>0, <2>2, <2>3, <2>5
  <2>7. W[at(k + 1)] = SubSeq(s, k + 1, n)
      BY <2>4, <2>6
  <2>8. at(k) = s[k] /\ s[k] \in go /\ s[k] \in Packets
      BY <1>0, <2>6
  <2>9. nx[s[k]] = at(k + 1)
    <3>1. CASE k = n
        BY <2>6, <3>1
    <3>2. CASE k # n
      <4>1. k \in 1 .. n - 1 /\ k + 1 <= n
          BY <1>0, <2>6, <3>2
      <4> QED
          BY <1>0, <2>6, <4>1
    <3> QED
        BY <3>1, <3>2
  <2>10. W[s[k]] = <<s[k]>> \o W[nx[s[k]]]
      BY <1>1, <2>8 DEF Heads
  <2>11. <<s[k]>> \o SubSeq(s, k + 1, n) = SubSeq(s, k, n)
      BY <1>0, <2>6, FirstAndRest
  <2> QED
      BY <2>2, <2>5, <2>7, <2>8, <2>9, <2>10, <2>11
<1>3. n \in 0 .. n /\ n \notin bad /\ n + 1 - n = 1
  <2>1. n \in Nat
      BY <1>0
  <2> HIDE DEF n, bad
  <2> QED
      BY <1>2, <2>1
<1>4. W[at(1)] = SubSeq(s, 1, n)
    BY <1>3
<1>5. at(1) = p /\ SubSeq(s, 1, n) = s
    BY <1>0
<1> QED
    BY <1>4, <1>5 DEF W

-----------------------------------------------------------------------------
(* Paths, and what the operations do to them. *)

LEMMA PathFacts ==
    ASSUME NEW nx, NEW p, NEW s, Path(nx, p, s)
    PROVE  /\ s \in Seq(Packets) /\ Len(s) \in Nat
           /\ p = IF Len(s) = 0 THEN NULL ELSE s[1]
           /\ \A i \in 1 .. Len(s) : s[i] \in Packets
           /\ \A i \in 1 .. Len(s) : nx[s[i]] = IF i = Len(s) THEN NULL ELSE s[i + 1]
           /\ \A i, j \in 1 .. Len(s) : s[i] = s[j] => i = j
           /\ p \in Heads /\ (p = NULL <=> Len(s) = 0)
           /\ Len(s) > 0 => p = s[1] /\ p \in Packets /\ p \in On(s)
<1>1. s \in Seq(Packets) /\ Len(s) \in Nat /\ \A i \in 1 .. Len(s) : s[i] \in Packets
    BY DEF Path
<1>2. Len(s) > 0 => 1 \in 1 .. Len(s)
    BY <1>1
<1>3. p = IF Len(s) = 0 THEN NULL ELSE s[1]
    BY DEF Path
<1>4. Len(s) > 0 => p = s[1] /\ p \in Packets /\ p \in On(s)
    BY <1>1, <1>2, <1>3 DEF On
<1>5. p \in Heads /\ (p = NULL <=> Len(s) = 0)
    BY <1>1, <1>3, <1>4, NullIsNoPacket DEF Heads
<1> QED
    BY <1>1, <1>3, <1>4, <1>5 DEF Path

\* A path is what a walk over all packets finds.
LEMMA PathIsWalk ==
    ASSUME NEW nx \in [Packets -> Heads], Ranked(nx), NEW p, NEW s, Path(nx, p, s)
    PROVE  Walk(nx, Packets)[p] = s
<1>0. /\ s \in Seq(Packets) /\ Len(s) \in Nat /\ p \in Heads
      /\ p = IF Len(s) = 0 THEN NULL ELSE s[1]
      /\ \A i \in 1 .. Len(s) : nx[s[i]] = IF i = Len(s) THEN NULL ELSE s[i + 1]
    BY PathFacts
<1>1. \A i \in 1 .. Len(s) - 1 : nx[s[i]] = s[i + 1]
  <2> SUFFICES ASSUME NEW i \in 1 .. Len(s) - 1 PROVE nx[s[i]] = s[i + 1]
      OBVIOUS
  <2>1. i \in 1 .. Len(s) /\ i # Len(s)
      BY <1>0
  <2> QED
      BY <1>0, <2>1
<1>2. Len(s) # 0 => nx[s[Len(s)]] = NULL
    BY <1>0
<1>3. Reach(nx, Packets, p, s)
    BY <1>0, <1>1, <1>2, NullIsNoPacket DEF Reach, Heads
<1> QED
    BY <1>3, WalkIs

\* Pointers of other packets do not matter.
LEMMA PathSame ==
    ASSUME NEW nx, NEW nx2, NEW p, NEW s, Path(nx, p, s), \A x \in On(s) : nx2[x] = nx[x]
    PROVE  Path(nx2, p, s)
<1>1. \A i \in 1 .. Len(s) : s[i] \in On(s)
    BY DEF On
<1> QED
    BY <1>1 DEF Path

LEMMA EmptyPath ==
    ASSUME NEW nx
    PROVE  Path(nx, NULL, <<>>) /\ On(<<>>) = {} /\ Len(<<>>) = 0 /\ LastOf(<<>>) = NULL
<1>1. Len(<<>>) = 0 /\ <<>> \in Seq(Packets)
    OBVIOUS
<1> QED
    BY <1>1 DEF Path, On, LastOf

LEMMA OnAppend ==
    ASSUME NEW s \in Seq(Packets), NEW p \in Packets
    PROVE  On(Append(s, p)) = On(s) \cup {p} /\ LastOf(Append(s, p)) = p
<1>1. /\ Len(Append(s, p)) = Len(s) + 1 /\ Len(s) \in Nat /\ Append(s, p)[Len(s) + 1] = p
      /\ \A i \in 1 .. Len(s) : Append(s, p)[i] = s[i]
    OBVIOUS
<1>2. \A i : i \in 1 .. Len(s) + 1 <=> i \in 1 .. Len(s) \/ i = Len(s) + 1
    BY <1>1
<1>3. ASSUME NEW x PROVE x \in On(Append(s, p)) <=> x \in On(s) \cup {p}
    BY <1>1, <1>2 DEF On
<1>4. On(Append(s, p)) = On(s) \cup {p}
    BY <1>3
<1>5. LastOf(Append(s, p)) = p
    BY <1>1 DEF LastOf
<1> QED
    BY <1>4, <1>5

\* Push at the tail.
LEMMA PathAppend ==
    ASSUME NEW nx, NEW nx2, NEW h, NEW s, NEW p \in Packets, Path(nx, h, s), p \notin On(s),
           nx2[p] = NULL, Len(s) > 0 => nx2[LastOf(s)] = p,
           \A x \in On(s) : x # LastOf(s) => nx2[x] = nx[x]
    PROVE  Path(nx2, IF Len(s) = 0 THEN p ELSE h, Append(s, p))
<1>0. /\ s \in Seq(Packets) /\ Len(s) \in Nat
      /\ h = IF Len(s) = 0 THEN NULL ELSE s[1]
      /\ \A i \in 1 .. Len(s) : nx[s[i]] = IF i = Len(s) THEN NULL ELSE s[i + 1]
      /\ \A i, j \in 1 .. Len(s) : s[i] = s[j] => i = j
    BY PathFacts
<1> DEFINE t == Append(s, p)
<1>1. /\ t \in Seq(Packets) /\ Len(t) = Len(s) + 1 /\ t[Len(s) + 1] = p
      /\ \A i \in 1 .. Len(s) : t[i] = s[i]
    BY <1>0
<1> HIDE DEF t
<1>2. (IF Len(s) = 0 THEN p ELSE h) = IF Len(t) = 0 THEN NULL ELSE t[1]
    BY <1>0, <1>1
<1>3. ASSUME NEW i \in 1 .. Len(t) PROVE nx2[t[i]] = IF i = Len(t) THEN NULL ELSE t[i + 1]
  <2>1. CASE i = Len(s) + 1
      BY <1>1, <2>1
  <2>2. CASE i = Len(s)
    <3>1. i \in 1 .. Len(s) /\ t[i] = s[i] /\ LastOf(s) = s[i] /\ Len(s) > 0 /\ i # Len(t) /\ t[i + 1] = p
        BY <1>0, <1>1, <2>2 DEF LastOf
    <3> QED
        BY <3>1
  <2>3. CASE i < Len(s)
    <3>1. i \in 1 .. Len(s) /\ i + 1 \in 1 .. Len(s) /\ Len(s) \in 1 .. Len(s) /\ i # Len(t) /\ i # Len(s)
        BY <1>0, <1>1, <2>3
    <3>2. s[i] # LastOf(s) /\ s[i] \in On(s)
        BY <1>0, <2>3, <3>1 DEF LastOf, On
    <3> QED
        BY <1>0, <1>1, <3>1, <3>2
  <2> QED
      BY <1>0, <1>1, <2>1, <2>2, <2>3
<1>4. ASSUME NEW i \in 1 .. Len(t), NEW j \in 1 .. Len(t), t[i] = t[j] PROVE i = j
  <2>1. \A k \in 1 .. Len(s) : s[k] # p
      BY DEF On
  <2>2. CASE i \in 1 .. Len(s) /\ j \in 1 .. Len(s)
      BY <1>0, <1>1, <1>4, <2>2
  <2>3. CASE i = Len(s) + 1 \/ j = Len(s) + 1
      BY <1>0, <1>1, <1>4, <2>1, <2>3
  <2> QED
      BY <1>0, <1>1, <2>2, <2>3
<1>5. Path(nx2, IF Len(s) = 0 THEN p ELSE h, t)
    BY <1>1, <1>2, <1>3, <1>4 DEF Path
<1> QED
    BY <1>5 DEF t

LEMMA RestFacts ==
    ASSUME NEW s \in Seq(Packets), Len(s) > 0
    PROVE  /\ Tail(s) \in Seq(Packets) /\ Len(Tail(s)) = Len(s) - 1 /\ Len(s) \in Nat
           /\ \A i \in 1 .. Len(s) - 1 : Tail(s)[i] = s[i + 1]
OBVIOUS

\* Pop, and GetNext: the first packet goes.
LEMMA PathTail ==
    ASSUME NEW nx, NEW h, NEW s, Path(nx, h, s), Len(s) > 0
    PROVE  /\ Path(nx, nx[h], Tail(s)) /\ On(Tail(s)) = On(s) \ {h}
           /\ LastOf(Tail(s)) = IF nx[h] = NULL THEN NULL ELSE LastOf(s)
<1>0. /\ s \in Seq(Packets) /\ Len(s) \in Nat /\ h = s[1]
      /\ \A i \in 1 .. Len(s) : s[i] \in Packets
      /\ \A i \in 1 .. Len(s) : nx[s[i]] = IF i = Len(s) THEN NULL ELSE s[i + 1]
      /\ \A i, j \in 1 .. Len(s) : s[i] = s[j] => i = j
    BY PathFacts
<1> DEFINE t == Tail(s)
<1>1. t \in Seq(Packets) /\ Len(t) = Len(s) - 1 /\ \A i \in 1 .. Len(s) - 1 : t[i] = s[i + 1]
    BY <1>0, RestFacts
<1> HIDE DEF t
<1>2. nx[h] = IF Len(t) = 0 THEN NULL ELSE t[1]
    BY <1>0, <1>1
<1>3. ASSUME NEW i \in 1 .. Len(t) PROVE nx[t[i]] = IF i = Len(t) THEN NULL ELSE t[i + 1]
  <2>1. t[i] = s[i + 1] /\ i + 1 \in 1 .. Len(s) /\ (i = Len(t) <=> i + 1 = Len(s))
      BY <1>0, <1>1
  <2>2. i # Len(t) => t[i + 1] = s[(i + 1) + 1]
      BY <1>0, <1>1
  <2> QED
      BY <1>0, <2>1, <2>2
<1>4. ASSUME NEW i \in 1 .. Len(t), NEW j \in 1 .. Len(t), t[i] = t[j] PROVE i = j
  <2>1. i + 1 \in 1 .. Len(s) /\ j + 1 \in 1 .. Len(s) /\ s[i + 1] = s[j + 1]
      BY <1>0, <1>1, <1>4
  <2>2. i + 1 = j + 1
      BY <1>0, <2>1
  <2> QED
      BY <2>2
<1>5. Path(nx, nx[h], t)
    BY <1>1, <1>2, <1>3, <1>4 DEF Path
<1>6. ASSUME NEW x PROVE x \in On(t) <=> x \in On(s) \ {h}
  <2>1. ASSUME x \in On(t) PROVE x \in On(s) \ {h}
    <3>1. PICK i \in 1 .. Len(t) : x = t[i]
        BY <2>1 DEF On
    <3>2. x = s[i + 1] /\ i + 1 \in 1 .. Len(s) /\ i + 1 # 1 /\ 1 \in 1 .. Len(s)
        BY <1>0, <1>1, <3>1
    <3> QED
        BY <1>0, <3>2 DEF On
  <2>2. ASSUME x \in On(s) \ {h} PROVE x \in On(t)
    <3>1. PICK i \in 1 .. Len(s) : x = s[i]
        BY <2>2 DEF On
    <3>2. i # 1
        BY <1>0, <2>2, <3>1
    <3>3. i - 1 \in 1 .. Len(s) - 1 /\ (i - 1) + 1 = i
        BY <1>0, <3>2
    <3>4. t[i - 1] = x /\ i - 1 \in 1 .. Len(t)
        BY <1>1, <3>1, <3>3
    <3> QED
        BY <3>4 DEF On
  <2> QED
      BY <2>1, <2>2
<1>7. On(t) = On(s) \ {h}
    BY <1>6
<1>8. LastOf(t) = IF nx[h] = NULL THEN NULL ELSE LastOf(s)
  <2>1. CASE Len(t) = 0
      BY <1>2, <2>1 DEF LastOf
  <2>2. CASE Len(t) # 0
    <3>1. Len(t) \in 1 .. Len(s) - 1 /\ 1 \in 1 .. Len(t) /\ Len(t) + 1 = Len(s) /\ Len(s) # 0
        BY <1>0, <1>1, <2>2
    <3>2. t[Len(t)] = s[Len(s)]
        BY <1>1, <3>1
    <3>3. nx[h] # NULL
        BY <1>1, <1>2, <2>2, <3>1, NullIsNoPacket
    <3> QED
        BY <2>2, <3>1, <3>2, <3>3 DEF LastOf
  <2> QED
      BY <2>1, <2>2
<1> QED
    BY <1>5, <1>7, <1>8 DEF t

LEMMA OnJoin ==
    ASSUME NEW s \in Seq(Packets), NEW t \in Seq(Packets)
    PROVE  /\ On(s \o t) = On(s) \cup On(t)
           /\ Len(t) > 0 => LastOf(s \o t) = LastOf(t)
<1>0. Len(s) \in Nat /\ Len(t) \in Nat
    OBVIOUS
<1>1. /\ Len(s \o t) = Len(s) + Len(t)
      /\ \A i \in 1 .. Len(s) : (s \o t)[i] = s[i]
      /\ \A i \in 1 .. Len(t) : (s \o t)[Len(s) + i] = t[i]
    BY JoinFacts
<1> DEFINE u == s \o t
<1> HIDE DEF u
<1>2. ASSUME NEW x \in On(u) PROVE x \in On(s) \cup On(t)
  <2>1. PICK i \in 1 .. Len(u) : x = u[i]
      BY DEF On
  <2>2. CASE i <= Len(s)
    <3>1. i \in 1 .. Len(s)
        BY <1>0, <1>1, <2>2 DEF u
    <3> QED
        BY <1>1, <2>1, <3>1 DEF On, u
  <2>3. CASE ~ (i <= Len(s))
    <3>1. i - Len(s) \in 1 .. Len(t) /\ Len(s) + (i - Len(s)) = i
        BY <1>0, <1>1, <2>3 DEF u
    <3>2. u[i] = t[i - Len(s)]
        BY <1>1, <3>1 DEF u
    <3> QED
        BY <2>1, <3>1, <3>2 DEF On
  <2> QED
      BY <2>2, <2>3
<1>3. ASSUME NEW x \in On(s) PROVE x \in On(u)
  <2>1. PICK i \in 1 .. Len(s) : x = s[i]
      BY DEF On
  <2>2. i \in 1 .. Len(u) /\ u[i] = x
      BY <1>0, <1>1, <2>1 DEF u
  <2> QED
      BY <2>2 DEF On
<1>4. ASSUME NEW x \in On(t) PROVE x \in On(u)
  <2>1. PICK i \in 1 .. Len(t) : x = t[i]
      BY DEF On
  <2>2. Len(s) + i \in 1 .. Len(u) /\ u[Len(s) + i] = x
      BY <1>0, <1>1, <2>1 DEF u
  <2> QED
      BY <2>2 DEF On
<1>5. On(u) = On(s) \cup On(t)
    BY <1>2, <1>3, <1>4
<1>6. ASSUME Len(t) > 0 PROVE LastOf(u) = LastOf(t)
  <2>1. Len(t) \in 1 .. Len(t) /\ Len(u) = Len(s) + Len(t) /\ Len(u) # 0 /\ Len(t) # 0
      BY <1>0, <1>1, <1>6 DEF u
  <2>2. u[Len(u)] = t[Len(t)]
      BY <1>1, <2>1 DEF u
  <2> QED
      BY <2>1, <2>2 DEF LastOf
<1> QED
    BY <1>5, <1>6 DEF u

\* MoveTo: the path t is hung behind s.
LEMMA PathJoin ==
    ASSUME NEW nx, NEW nx2, NEW h, NEW s, NEW k, NEW t, Path(nx, h, s), Path(nx, k, t),
           Len(t) > 0, On(s) \cap On(t) = {},
           Len(s) > 0 => nx2[LastOf(s)] = k,
           \A x \in On(s) \cup On(t) : Len(s) = 0 \/ x # LastOf(s) => nx2[x] = nx[x]
    PROVE  Path(nx2, IF Len(s) = 0 THEN k ELSE h, s \o t)
<1>0. /\ s \in Seq(Packets) /\ Len(s) \in Nat
      /\ h = IF Len(s) = 0 THEN NULL ELSE s[1]
      /\ \A i \in 1 .. Len(s) : nx[s[i]] = IF i = Len(s) THEN NULL ELSE s[i + 1]
      /\ \A i, j \in 1 .. Len(s) : s[i] = s[j] => i = j
    BY PathFacts
<1>1. /\ t \in Seq(Packets) /\ Len(t) \in Nat /\ k = t[1]
      /\ \A i \in 1 .. Len(t) : nx[t[i]] = IF i = Len(t) THEN NULL ELSE t[i + 1]
      /\ \A i, j \in 1 .. Len(t) : t[i] = t[j] => i = j
    BY PathFacts
<1> DEFINE u == s \o t
<1>2. /\ u \in Seq(Packets) /\ Len(u) = Len(s) + Len(t)
      /\ \A i \in 1 .. Len(s) : u[i] = s[i]
      /\ \A i \in 1 .. Len(t) : u[Len(s) + i] = t[i]
    BY <1>0, <1>1, JoinFacts
<1> HIDE DEF u
<1>3. ASSUME NEW i \in 1 .. Len(u), ~ (i <= Len(s))
      PROVE  i - Len(s) \in 1 .. Len(t) /\ u[i] = t[i - Len(s)] /\ t[i - Len(s)] \in On(t)
  <2>1. i - Len(s) \in 1 .. Len(t) /\ Len(s) + (i - Len(s)) = i
      BY <1>0, <1>1, <1>2, <1>3
  <2>2. u[i] = t[i - Len(s)]
      BY <1>2, <2>1
  <2> QED
      BY <2>1, <2>2 DEF On
<1>4. ASSUME NEW i \in 1 .. Len(u), i <= Len(s)
      PROVE  i \in 1 .. Len(s) /\ u[i] = s[i] /\ s[i] \in On(s)
  <2>1. i \in 1 .. Len(s)
      BY <1>0, <1>4
  <2> QED
      BY <1>2, <2>1 DEF On
<1>5. (IF Len(s) = 0 THEN k ELSE h) = IF Len(u) = 0 THEN NULL ELSE u[1]
  <2>1. CASE Len(s) = 0
    <3>1. u[0 + 1] = t[1]
        BY <1>1, <1>2, <2>1
    <3> QED
        BY <1>1, <1>2, <2>1, <3>1
  <2>2. CASE Len(s) # 0
      BY <1>0, <1>1, <1>2, <2>2
  <2> QED
      BY <2>1, <2>2
<1>6. ASSUME NEW i \in 1 .. Len(u) PROVE nx2[u[i]] = IF i = Len(u) THEN NULL ELSE u[i + 1]
  <2>1. CASE i < Len(s)
    <3>1. i + 1 \in 1 .. Len(s) /\ i + 1 <= Len(s) /\ i <= Len(s) /\ i # Len(s) /\ i # Len(u)
          /\ Len(s) \in 1 .. Len(s) /\ Len(s) # 0
        BY <1>0, <1>1, <1>2, <2>1
    <3>2. i \in 1 .. Len(s) /\ u[i] = s[i] /\ s[i] \in On(s) /\ u[i + 1] = s[i + 1]
        BY <1>2, <1>4, <3>1
    <3>3. s[i] # LastOf(s)
        BY <1>0, <3>1, <3>2 DEF LastOf
    <3> QED
        BY <1>0, <3>1, <3>2, <3>3
  <2>2. CASE i = Len(s)
    <3>1. i <= Len(s) /\ i # Len(u) /\ Len(s) > 0 /\ 1 \in 1 .. Len(t)
        BY <1>0, <1>1, <1>2, <2>2
    <3>2. u[i] = s[i] /\ LastOf(s) = s[i]
        BY <1>4, <2>2, <3>1 DEF LastOf
    <3>3. u[i + 1] = t[1]
        BY <1>2, <2>2, <3>1
    <3> QED
        BY <1>1, <3>1, <3>2, <3>3
  <2>3. CASE i > Len(s)
    <3>1. ~ (i <= Len(s))
        BY <1>0, <2>3
    <3>2. i - Len(s) \in 1 .. Len(t) /\ u[i] = t[i - Len(s)] /\ t[i - Len(s)] \in On(t)
        BY <1>3, <3>1
    <3>3. Len(s) = 0 \/ u[i] # LastOf(s)
      <4>1. Len(s) # 0 => LastOf(s) \in On(s)
          BY <1>0 DEF LastOf, On
      <4> QED
          BY <3>2, <4>1
    <3>4. nx2[u[i]] = nx[t[i - Len(s)]]
        BY <3>2, <3>3
    <3>5. i = Len(u) <=> i - Len(s) = Len(t)
        BY <1>0, <1>1, <1>2
    <3>6. i # Len(u) => u[i + 1] = t[(i - Len(s)) + 1]
      <4>1. i # Len(u) => (i - Len(s)) + 1 \in 1 .. Len(t) /\ Len(s) + ((i - Len(s)) + 1) = i + 1
          BY <1>0, <1>1, <1>2, <3>2
      <4> QED
          BY <1>2, <4>1
    <3> QED
        BY <1>1, <3>2, <3>4, <3>5, <3>6
  <2> QED
      BY <1>0, <1>2, <2>1, <2>2, <2>3
<1>7. ASSUME NEW i \in 1 .. Len(u), NEW j \in 1 .. Len(u), u[i] = u[j] PROVE i = j
  <2>1. CASE i <= Len(s) /\ j <= Len(s)
      BY <1>0, <1>4, <1>7, <2>1
  <2>2. CASE i <= Len(s) /\ ~ (j <= Len(s))
      BY <1>3, <1>4, <1>7, <2>2
  <2>3. CASE ~ (i <= Len(s)) /\ j <= Len(s)
      BY <1>3, <1>4, <1>7, <2>3
  <2>4. CASE ~ (i <= Len(s)) /\ ~ (j <= Len(s))
    <3>1. i - Len(s) = j - Len(s)
        BY <1>1, <1>3, <1>7, <2>4
    <3> QED
        BY <1>0, <3>1
  <2> QED
      BY <2>1, <2>2, <2>3, <2>4
<1>8. Path(nx2, IF Len(s) = 0 THEN k ELSE h, u)
    BY <1>2, <1>5, <1>6, <1>7 DEF Path
<1> QED
    BY <1>8 DEF u

\* GetTimeoutList: the path is cut behind its packet n.
Cuts(nx, nx2, h, s, n) == /\ Path(nx, h, s) /\ n \in 1 .. Len(s)
                          /\ nx2[s[n]] = NULL /\ \A x \in On(s) \ {s[n]} : nx2[x] = nx[x]

Parts(nx, nx2, h, s, n, a, b) ==
    /\ a = SubSeq(s, 1, n) /\ b = SubSeq(s, n + 1, Len(s))
    /\ Path(nx2, h, a) /\ Path(nx2, nx[s[n]], b)
    /\ On(b) = On(s) \ On(a) /\ On(a) \subseteq On(s) /\ Len(b) = Len(s) - n
    /\ LastOf(b) = IF nx[s[n]] = NULL THEN NULL ELSE LastOf(s)

LEMMA PathCut ==
    ASSUME NEW nx, NEW nx2, NEW h, NEW s, NEW n, Cuts(nx, nx2, h, s, n)
    PROVE  \E a, b : Parts(nx, nx2, h, s, n, a, b)
<1>0. /\ s \in Seq(Packets) /\ Len(s) \in Nat /\ h = s[1] /\ n \in Nat /\ n <= Len(s) /\ n >= 1
      /\ \A i \in 1 .. Len(s) : s[i] \in Packets
      /\ \A i \in 1 .. Len(s) : nx[s[i]] = IF i = Len(s) THEN NULL ELSE s[i + 1]
      /\ \A i, j \in 1 .. Len(s) : s[i] = s[j] => i = j
    BY PathFacts DEF Cuts
<1> DEFINE a == SubSeq(s, 1, n)
           b == SubSeq(s, n + 1, Len(s))
<1>1. a \in Seq(Packets) /\ Len(a) = n /\ \A i \in 1 .. n : a[i] = s[i]
    BY <1>0
<1>2. b \in Seq(Packets) /\ Len(b) = Len(s) - n /\ \A i \in 1 .. Len(s) - n : b[i] = s[n + i]
  <2>1. n + 1 \in 1 .. Len(s) + 1 /\ Len(s) \in 0 .. Len(s) /\ n + 1 <= Len(s) + 1
      BY <1>0
  <2>2. /\ b \in Seq(Packets) /\ Len(b) = Len(s) + 1 - (n + 1)
        /\ \A i \in 1 .. Len(s) + 1 - (n + 1) : b[i] = s[(n + 1) + i - 1]
      BY <1>0, <2>1, SubFacts
  <2>3. Len(s) + 1 - (n + 1) = Len(s) - n /\ \A i \in 1 .. Len(s) - n : (n + 1) + i - 1 = n + i
      BY <1>0
  <2> HIDE DEF b
  <2> QED
      BY <2>2, <2>3
<1> HIDE DEF a, b
<1>3. nx2[s[n]] = NULL /\ \A i \in 1 .. Len(s) : i # n => nx2[s[i]] = nx[s[i]]
    BY <1>0 DEF On, Cuts
<1>4. Path(nx2, h, a)
  <2>1. ASSUME NEW i \in 1 .. Len(a) PROVE nx2[a[i]] = IF i = Len(a) THEN NULL ELSE a[i + 1]
    <3>1. CASE i = n
        BY <1>1, <1>3, <3>1
    <3>2. CASE i # n
      <4>1. i \in 1 .. Len(s) /\ i + 1 \in 1 .. n /\ i # Len(s) /\ i \in 1 .. n
          BY <1>0, <1>1, <3>2
      <4> QED
          BY <1>0, <1>1, <1>3, <3>2, <4>1
    <3> QED
        BY <3>1, <3>2
  <2>2. \A i, j \in 1 .. Len(a) : a[i] = a[j] => i = j
      BY <1>0, <1>1
  <2>3. h = IF Len(a) = 0 THEN NULL ELSE a[1]
      BY <1>0, <1>1
  <2> QED
      BY <1>1, <2>1, <2>2, <2>3 DEF Path
<1>5. ASSUME NEW i \in 1 .. Len(b) PROVE b[i] = s[n + i] /\ n + i \in 1 .. Len(s) /\ n + i # n
    BY <1>0, <1>2
<1>6. Path(nx2, nx[s[n]], b)
  <2>1. ASSUME NEW i \in 1 .. Len(b) PROVE nx2[b[i]] = IF i = Len(b) THEN NULL ELSE b[i + 1]
    <3>1. nx2[b[i]] = nx[s[n + i]]
        BY <1>3, <1>5
    <3>2. i = Len(b) <=> n + i = Len(s)
        BY <1>0, <1>2
    <3>3. i # Len(b) => b[i + 1] = s[n + i + 1]
      <4>0. Len(b) \in Nat /\ i \in Nat /\ i <= Len(b) /\ n \in Nat
          BY <1>0, <1>2
      <4>1. i # Len(b) => i + 1 \in 1 .. Len(b) /\ n + (i + 1) = n + i + 1
          BY <4>0
      <4> QED
          BY <1>5, <4>1
    <3> QED
        BY <1>0, <1>5, <3>1, <3>2, <3>3
  <2>2. ASSUME NEW i \in 1 .. Len(b), NEW j \in 1 .. Len(b), b[i] = b[j] PROVE i = j
    <3>1. n + i = n + j
        BY <1>0, <1>5, <2>2
    <3> QED
        BY <1>0, <3>1
  <2>3. nx[s[n]] = IF Len(b) = 0 THEN NULL ELSE b[1]
    <3>1. Len(b) = 0 <=> n = Len(s)
        BY <1>0, <1>2
    <3>2. Len(b) # 0 => b[1] = s[n + 1]
      <4>1. Len(b) # 0 => 1 \in 1 .. Len(b)
          BY <1>2
      <4> QED
          BY <1>5, <4>1
    <3> QED
        BY <1>0, <3>1, <3>2
  <2> QED
      BY <1>2, <2>1, <2>2, <2>3 DEF Path
<1>7. On(a) \subseteq On(s)
  <2>1. \A i \in 1 .. Len(a) : i \in 1 .. Len(s) /\ a[i] = s[i]
      BY <1>0, <1>1
  <2> QED
      BY <2>1 DEF On
<1>8. ASSUME NEW x PROVE x \in On(b) <=> x \in On(s) \ On(a)
  <2>1. ASSUME x \in On(b) PROVE x \in On(s) \ On(a)
    <3>1. PICK i \in 1 .. Len(b) : x = b[i]
        BY <2>1 DEF On
    <3>2. x = s[n + i] /\ n + i \in 1 .. Len(s)
        BY <1>5, <3>1
    <3>3. ASSUME NEW j \in 1 .. Len(a) PROVE a[j] # x
      <4>1. a[j] = s[j] /\ j \in 1 .. Len(s) /\ j # n + i
          BY <1>0, <1>1, <1>2
      <4> QED
          BY <1>0, <3>2, <4>1
    <3> QED
        BY <3>2, <3>3 DEF On
  <2>2. ASSUME x \in On(s), x \notin On(a) PROVE x \in On(b)
    <3>1. PICK i \in 1 .. Len(s) : x = s[i]
        BY <2>2 DEF On
    <3>2. ~ (i <= n)
      <4>1. i <= n => i \in 1 .. Len(a) /\ a[i] = x
          BY <1>0, <1>1, <3>1
      <4> QED
          BY <2>2, <4>1 DEF On
    <3>3. i - n \in 1 .. Len(b) /\ n + (i - n) = i
        BY <1>0, <1>2, <3>2
    <3>4. b[i - n] = x
        BY <1>5, <3>1, <3>3
    <3> QED
        BY <3>3, <3>4 DEF On
  <2> QED
      BY <2>1, <2>2
<1>9. On(b) = On(s) \ On(a)
    BY <1>8
<1>10. LastOf(b) = IF nx[s[n]] = NULL THEN NULL ELSE LastOf(s)
  <2>1. CASE Len(b) = 0
    <3>1. n = Len(s)
        BY <1>0, <1>2, <2>1
    <3> QED
        BY <1>0, <2>1, <3>1 DEF LastOf
  <2>2. CASE Len(b) # 0
    <3>1. n # Len(s) /\ n + 1 \in 1 .. Len(s) /\ Len(b) \in 1 .. Len(b) /\ n + Len(b) = Len(s) /\ Len(s) # 0
        BY <1>0, <1>2, <2>2
    <3>2. b[Len(b)] = s[Len(s)]
        BY <1>5, <3>1
    <3>3. nx[s[n]] # NULL
        BY <1>0, <3>1, NullIsNoPacket
    <3> QED
        BY <2>2, <3>1, <3>2, <3>3 DEF LastOf
  <2> QED
      BY <2>1, <2>2
<1>11. a = SubSeq(s, 1, n) /\ b = SubSeq(s, n + 1, Len(s))
    BY DEF a, b
<1>12. Parts(nx, nx2, h, s, n, a, b)
    BY <1>2, <1>4, <1>6, <1>7, <1>9, <1>10, <1>11 DEF Parts
<1> QED
    BY <1>12

-----------------------------------------------------------------------------
(* No cycles. *)

\* Fewer pointers make no cycle.
LEMMA RankedLess ==
    ASSUME NEW nx, NEW nx2, Ranked(nx), \A p \in Packets : nx2[p] = NULL \/ nx2[p] = nx[p]
    PROVE  Ranked(nx2)
<1>1. PICK r, b : Ranks(nx, r, b)
    BY DEF Ranked
<1>2. Ranks(nx2, r, b)
    BY <1>1 DEF Ranks
<1> QED
    BY <1>2 DEF Ranked

\* Neither does a pointer from u to v if the packets C that v leads to are not
\* u: everything else is ranked above them.
LEMMA RankedMore ==
    ASSUME NEW nx \in [Packets -> Heads], NEW nx2, Ranked(nx), NEW C \in SUBSET Packets,
           NEW u \in Packets, u \notin C, NEW v \in C,
           \A p \in C : nx[p] = NULL \/ nx[p] \in C,
           nx2[u] = v, \A p \in Packets : p # u => nx2[p] = nx[p]
    PROVE  Ranked(nx2)
<1>1. PICK r, b : Ranks(nx, r, b)
    BY DEF Ranked
<1>2. r \in [Packets -> Nat] /\ b \in Nat
    BY <1>1 DEF Ranks
<1>3. \A p \in Packets : r[p] <= b /\ (nx[p] # NULL => r[nx[p]] < r[p])
    BY <1>1 DEF Ranks
<1> DEFINE t == [p \in Packets |-> IF p \in C THEN r[p] ELSE r[p] + b + 1]
<1>4. t \in [Packets -> Nat] /\ b + b + 1 \in Nat
    BY <1>2
<1>5. ASSUME NEW p \in Packets PROVE t[p] <= b + b + 1 /\ (nx2[p] # NULL => t[nx2[p]] < t[p])
  <2>1. r[p] \in Nat /\ r[p] <= b
      BY <1>2, <1>3
  <2>2. t[p] <= b + b + 1
      BY <1>2, <2>1
  <2>3. ASSUME nx2[p] # NULL PROVE t[nx2[p]] < t[p]
    <3>1. CASE p = u
      <4>1. t[v] = r[v] /\ t[u] = r[u] + b + 1 /\ r[v] \in Nat /\ r[v] <= b /\ r[u] \in Nat
          BY <1>2, <1>3
      <4> QED
          BY <1>2, <3>1, <4>1
    <3>2. CASE p # u
      <4>1. nx2[p] = nx[p] /\ nx[p] \in Packets /\ r[nx[p]] < r[p] /\ r[nx[p]] \in Nat
          BY <1>2, <1>3, <2>3, <3>2 DEF Heads
      <4>2. CASE p \in C
        <5>1. nx[p] \in C
            BY <2>3, <4>1, <4>2
        <5> QED
            BY <4>1, <4>2, <5>1
      <4>3. CASE p \notin C
          BY <1>2, <2>1, <4>1, <4>3
      <4> QED
          BY <4>2, <4>3
    <3> QED
        BY <3>1, <3>2
  <2> QED
      BY <2>2, <2>3
<1> HIDE DEF t
<1>6. Ranks(nx2, t, b + b + 1)
    BY <1>4, <1>5 DEF Ranks
<1> QED
    BY <1>6 DEF Ranked

\* The packets on a path lead only to each other.
LEMMA PathClosed ==
    ASSUME NEW nx, NEW p, NEW s, Path(nx, p, s)
    PROVE  On(s) \in SUBSET Packets /\ \A x \in On(s) : nx[x] = NULL \/ nx[x] \in On(s)
<1>0. /\ Len(s) \in Nat /\ \A i \in 1 .. Len(s) : s[i] \in Packets
      /\ \A i \in 1 .. Len(s) : nx[s[i]] = IF i = Len(s) THEN NULL ELSE s[i + 1]
    BY PathFacts
<1>1. On(s) \in SUBSET Packets
    BY <1>0 DEF On
<1>2. ASSUME NEW x \in On(s) PROVE nx[x] = NULL \/ nx[x] \in On(s)
  <2>1. PICK i \in 1 .. Len(s) : x = s[i]
      BY DEF On
  <2>2. CASE i = Len(s)
      BY <1>0, <2>1, <2>2
  <2>3. CASE i # Len(s)
    <3>1. i + 1 \in 1 .. Len(s) /\ nx[x] = s[i + 1]
        BY <1>0, <2>1, <2>3
    <3> QED
        BY <3>1 DEF On
  <2> QED
      BY <2>2, <2>3
<1> QED
    BY <1>1, <1>2

-----------------------------------------------------------------------------
(* What the state says of its lists. *)

LEMMA ListFacts ==
    ASSUME NEW c, NEW l, Lists(c, l), NEW q \in Queues
    PROVE  /\ Path(next, head[q], c[q]) /\ Holds(owner, q, c[q])
           /\ size[q] = Len(c[q]) /\ tail[q] = LastOf(c[q])
           /\ Path(next, list, l) /\ Holds(owner, "list", l)
           /\ c \in [Queues -> Seq(Packets)] /\ l \in Seq(Packets) /\ c[q] \in Seq(Packets)
           /\ Len(c[q]) \in Nat /\ On(c[q]) \in SUBSET Packets /\ On(l) \in SUBSET Packets
<1>1. /\ Path(next, head[q], c[q]) /\ Holds(owner, q, c[q])
      /\ size[q] = Len(c[q]) /\ tail[q] = LastOf(c[q])
      /\ Path(next, list, l) /\ Holds(owner, "list", l)
      /\ c \in [Queues -> Seq(Packets)] /\ l \in Seq(Packets)
    BY DEF Lists, Linked, Owned, Counted
<1>2. c[q] \in Seq(Packets) /\ Len(c[q]) \in Nat
    BY <1>1
<1>3. On(c[q]) \in SUBSET Packets /\ On(l) \in SUBSET Packets
    BY <1>1, PathClosed
<1> QED
    BY <1>1, <1>2, <1>3

\* A packet has one owner.
LEMMA Apart ==
    ASSUME NEW c, NEW l, Lists(c, l)
    PROVE  /\ \A q, d \in Queues : q # d => On(c[q]) \cap On(c[d]) = {}
           /\ \A q \in Queues : On(c[q]) \cap On(l) = {}
<1>1. \A q \in Queues : q # "list" /\ q # "out"
    BY QueueBounds
<1>2. ASSUME NEW q \in Queues, NEW x \in On(c[q]) PROVE owner[x] = q
    BY ListFacts DEF Holds
<1>3. ASSUME NEW q \in Queues, NEW x \in On(l), x \in On(c[q]) PROVE FALSE
  <2>1. owner[x] = "list" /\ owner[x] = q
      BY <1>2, <1>3, ListFacts DEF Holds
  <2> QED
      BY <1>1, <2>1
<1> QED
    BY <1>2, <1>3

LEMMA ChainIs ==
    ASSUME Pointers, Ranked(next), NEW c, NEW l, Lists(c, l)
    PROVE  /\ \A q \in Queues : Chain(head[q], Packets) = c[q]
           /\ Chain(list, Packets) = l
           /\ [q \in Queues |-> Chain(head[q], Packets)] = c
<1>1. next \in [Packets -> Heads] /\ Packets \in SUBSET Packets
    BY DEF Pointers
<1>2. ASSUME NEW q \in Queues PROVE Chain(head[q], Packets) = c[q]
  <2>1. Walk(next, Packets)[head[q]] = c[q]
      BY <1>1, PathIsWalk DEF Lists, Linked
  <2> QED
      BY <2>1, ChainIsWalk
<1>3. Chain(list, Packets) = l
  <2>1. Walk(next, Packets)[list] = l
      BY <1>1, PathIsWalk DEF Lists, Linked
  <2> QED
      BY <2>1, ChainIsWalk
<1>4. c \in [Queues -> Seq(Packets)]
    BY DEF Lists
<1>5. [q \in Queues |-> Chain(head[q], Packets)] = c
    BY <1>2, <1>4
<1> QED
    BY <1>2, <1>3, <1>5

LEMMA ChainIsNext ==
    ASSUME Pointers', Ranked(next'), NEW c, NEW l, Lists(c, l)'
    PROVE  /\ [q \in Queues |-> Chain(head[q], Packets)]' = c
           /\ Chain(list, Packets)' = l
<1>1. next' \in [Packets -> Heads] /\ Packets \in SUBSET Packets
    BY DEF Pointers
<1>2. ASSUME NEW q \in Queues PROVE Chain(head[q], Packets)' = c[q]
  <2>1. Path(next', head'[q], c[q])
      BY DEF Lists, Linked
  <2>2. Walk(next', Packets)[head'[q]] = c[q]
      BY <1>1, <2>1, PathIsWalk
  <2>3. Chain(head[q], Packets)' = Walk(next', Packets)[head'[q]]
      BY DEF Chain, Walk, WalkOn, Heads
  <2> QED
      BY <2>2, <2>3
<1>3. Chain(list, Packets)' = l
  <2>1. Path(next', list', l)
      BY DEF Lists, Linked
  <2>2. Walk(next', Packets)[list'] = l
      BY <1>1, <2>1, PathIsWalk
  <2>3. Chain(list, Packets)' = Walk(next', Packets)[list']
      BY DEF Chain, Walk, WalkOn, Heads
  <2> QED
      BY <2>2, <2>3
<1>4. c \in [Queues -> Seq(Packets)]
    BY DEF Lists
<1>5. [q \in Queues |-> Chain(head[q], Packets)]' = c
    BY <1>2, <1>4
<1> QED
    BY <1>3, <1>5

LEMMA LastFacts ==
    ASSUME NEW nx, NEW p, NEW s, Path(nx, p, s)
    PROVE  /\ LastOf(s) = NULL <=> Len(s) = 0
           /\ Len(s) > 0 => LastOf(s) \in On(s) /\ LastOf(s) \in Packets /\ nx[LastOf(s)] = NULL
<1>0. /\ Len(s) \in Nat /\ \A i \in 1 .. Len(s) : s[i] \in Packets
      /\ \A i \in 1 .. Len(s) : nx[s[i]] = IF i = Len(s) THEN NULL ELSE s[i + 1]
    BY PathFacts
<1>1. Len(s) > 0 => Len(s) \in 1 .. Len(s)
    BY <1>0
<1>2. Len(s) > 0 => LastOf(s) \in On(s) /\ LastOf(s) \in Packets /\ nx[LastOf(s)] = NULL
    BY <1>0, <1>1 DEF LastOf, On
<1> QED
    BY <1>0, <1>2, NullIsNoPacket DEF LastOf

-----------------------------------------------------------------------------
(* The operations: each takes the lists of a state to those of the next. *)

\* A queue that an operation leaves alone.
Kept(q, s) == /\ head'[q] = head[q] /\ tail'[q] = tail[q] /\ size'[q] = size[q]
              /\ \A x \in On(s) : next'[x] = next[x]
              /\ \A x \in Packets : owner'[x] = q <=> owner[x] = q

\* What an operation makes of a queue.
Made(q, s) == /\ s \in Seq(Packets) /\ Path(next', head'[q], s) /\ Holds(owner', q, s)
              /\ size'[q] = Len(s) /\ tail'[q] = LastOf(s)

LEMMA KeptIsMade ==
    ASSUME NEW c, NEW l, Lists(c, l), NEW q \in Queues, Kept(q, c[q])
    PROVE  Made(q, c[q])
<1>1. /\ Path(next, head[q], c[q]) /\ Holds(owner, q, c[q]) /\ c[q] \in Seq(Packets)
      /\ size[q] = Len(c[q]) /\ tail[q] = LastOf(c[q])
    BY ListFacts
<1>2. Path(next', head[q], c[q])
    BY <1>1, PathSame DEF Kept
<1>3. Holds(owner', q, c[q])
    BY <1>1 DEF Holds, Kept
<1> QED
    BY <1>1, <1>2, <1>3 DEF Made, Kept

LEMMA MadeLists ==
    ASSUME NEW c \in [Queues -> Seq(Packets)], NEW l \in Seq(Packets),
           \A q \in Queues : Made(q, c[q]),
           Path(next', list', l), Holds(owner', "list", l)
    PROVE  Lists(c, l)'
BY DEF Made, Lists, Linked, Owned, Counted

\* The caller's list is left alone.
LEMMA ListKept ==
    ASSUME NEW c, NEW l, Lists(c, l), list' = list, \A x \in On(l) : next'[x] = next[x],
           \A x \in Packets : owner'[x] = "list" <=> owner[x] = "list"
    PROVE  Path(next', list', l) /\ Holds(owner', "list", l) /\ l \in Seq(Packets)
<1>1. Path(next, list, l) /\ Holds(owner, "list", l) /\ l \in Seq(Packets)
    BY DEF Lists, Linked, Owned
<1>2. Path(next', list, l)
    BY <1>1, PathSame
<1> QED
    BY <1>1, <1>2 DEF Holds

LEMMA PushPointers ==
    ASSUME Pointers, Ranked(next), NEW c, NEW l, Lists(c, l),
           NEW q \in Queues, NEW p \in Packets, NEW t \in 0 .. MaxTime, Push(q, p, t)
    PROVE  Pointers' /\ Ranked(next')
<1>0. /\ next \in [Packets -> Heads] /\ head \in [Queues -> Heads] /\ tail \in [Queues -> Heads]
      /\ size \in [Queues -> Nat] /\ owner \in [Packets -> Queues \cup {"list", "out"}] /\ list \in Heads
      /\ deadline \in [Packets -> 0 .. MaxTime]
    BY DEF Pointers
<1>1. Pointers'
  <2>1. next' \in [Packets -> Heads] /\ head' \in [Queues -> Heads] /\ tail' \in [Queues -> Heads]
      BY <1>0 DEF Push, Heads
  <2>2. size' \in [Queues -> Nat] /\ owner' \in [Packets -> Queues \cup {"list", "out"}] /\ list' \in Heads
      BY <1>0 DEF Push
  <2>3. deadline' \in [Packets -> 0 .. MaxTime]
      BY <1>0 DEF Push
  <2> QED
      BY <2>1, <2>2, <2>3 DEF Pointers
<1> DEFINE nx == [next EXCEPT ![p] = NULL]
<1>2. nx \in [Packets -> Heads] /\ nx[p] = NULL /\ \A r \in Packets : r # p => nx[r] = next[r]
    BY <1>0 DEF Heads
<1> HIDE DEF nx
<1>3. Ranked(nx)
    BY <1>2, RankedLess
<1>4. /\ next'[p] = NULL
      /\ \A r \in Packets : r # p => next'[r] = IF r = tail[q] THEN p ELSE next[r]
    BY DEF Push
<1>5. owner[p] = "out" /\ "out" # q
    BY QueueBounds DEF Push
<1>6. p # tail[q]
  <2>1. p \notin On(c[q])
      BY <1>5, ListFacts DEF Holds
  <2>2. Path(next, head[q], c[q]) /\ tail[q] = LastOf(c[q]) /\ Len(c[q]) \in Nat
      BY ListFacts
  <2> QED
      BY <2>1, <2>2, LastFacts, NullIsNoPacket
<1>7. Ranked(next')
  <2>1. CASE tail[q] = NULL
    <3>1. \A r \in Packets : next'[r] = nx[r]
        BY <1>2, <1>4, <2>1, NullIsNoPacket
    <3> QED
        BY <1>3, <3>1, RankedLess
  <2>2. CASE tail[q] # NULL
    <3>1. tail[q] \in Packets
        BY <1>0, <2>2 DEF Heads
    <3>2. PICK u : u = tail[q]
        OBVIOUS
    <3>3. u \in Packets /\ u \notin {p} /\ {p} \in SUBSET Packets /\ p \in {p}
        BY <1>6, <3>1, <3>2
    <3>4. next'[u] = p /\ \A r \in Packets : r # u => next'[r] = nx[r]
        BY <1>2, <1>4, <3>2, <3>3
    <3>5. \A r \in {p} : nx[r] = NULL \/ nx[r] \in {p}
        BY <1>2
    <3> QED
        BY <1>2, <1>3, <3>3, <3>4, <3>5, RankedMore
  <2> QED
      BY <2>1, <2>2
<1> QED
    BY <1>1, <1>7

LEMMA PushLists ==
    ASSUME Pointers, Ranked(next), NEW c, NEW l, Lists(c, l),
           NEW q \in Queues, NEW p \in Packets, NEW t \in 0 .. MaxTime, Push(q, p, t)
    PROVE  Lists([c EXCEPT ![q] = Append(@, p)], l)'
<1>0. /\ head \in [Queues -> Heads] /\ tail \in [Queues -> Heads] /\ size \in [Queues -> Nat]
      /\ owner \in [Packets -> Queues \cup {"list", "out"}]
    BY DEF Pointers
<1>1. owner[p] = "out" /\ \A d \in Queues : "out" # d /\ "list" # d
    BY QueueBounds DEF Push
<1>2. /\ Path(next, head[q], c[q]) /\ Holds(owner, q, c[q])
      /\ size[q] = Len(c[q]) /\ tail[q] = LastOf(c[q]) /\ c \in [Queues -> Seq(Packets)]
      /\ c[q] \in Seq(Packets) /\ Len(c[q]) \in Nat /\ On(c[q]) \in SUBSET Packets /\ On(l) \in SUBSET Packets
    BY ListFacts
<1>3. /\ next'[p] = NULL
      /\ \A r \in Packets : r # p => next'[r] = IF r = tail[q] THEN p ELSE next[r]
    BY DEF Push
<1>4. /\ owner'[p] = q /\ \A r \in Packets : r # p => owner'[r] = owner[r]
    BY <1>0 DEF Push
<1>5. p \notin On(l) /\ \A d \in Queues : p \notin On(c[d])
    BY <1>1, ListFacts DEF Holds
<1>6. /\ LastOf(c[q]) = NULL <=> Len(c[q]) = 0
      /\ Len(c[q]) > 0 => LastOf(c[q]) \in On(c[q]) /\ LastOf(c[q]) \in Packets
    BY <1>2, LastFacts
<1> DEFINE c2 == [c EXCEPT ![q] = Append(@, p)]
<1>7. c2 \in [Queues -> Seq(Packets)] /\ c2[q] = Append(c[q], p) /\ \A d \in Queues : d # q => c2[d] = c[d]
    BY <1>2
<1>8. \A x \in Packets : x \notin On(c[q]) /\ x # p => next'[x] = next[x]
    BY <1>2, <1>3, <1>6, NullIsNoPacket
<1>9. Made(q, c2[q])
  <2>1. Path(next', IF Len(c[q]) = 0 THEN p ELSE head[q], Append(c[q], p))
    <3>1. Len(c[q]) > 0 => next'[LastOf(c[q])] = p
        BY <1>2, <1>3, <1>5, <1>6
    <3>2. \A x \in On(c[q]) : x # LastOf(c[q]) => next'[x] = next[x]
        BY <1>2, <1>3, <1>5
    <3> QED
        BY <1>2, <1>3, <1>5, <3>1, <3>2, PathAppend
  <2>2. head'[q] = IF Len(c[q]) = 0 THEN p ELSE head[q]
      BY <1>0, <1>2, <1>6 DEF Push
  <2>3. tail'[q] = p /\ size'[q] = size[q] + 1
      BY <1>0 DEF Push
  <2>4. On(Append(c[q], p)) = On(c[q]) \cup {p} /\ LastOf(Append(c[q], p)) = p
      BY <1>2, OnAppend
  <2>5. Len(Append(c[q], p)) = Len(c[q]) + 1 /\ Append(c[q], p) \in Seq(Packets)
      BY <1>2
  <2>6. Holds(owner', q, Append(c[q], p))
      BY <1>2, <1>4, <2>4 DEF Holds
  <2> QED
      BY <1>2, <1>7, <2>1, <2>2, <2>3, <2>4, <2>5, <2>6 DEF Made
<1>10. ASSUME NEW d \in Queues, d # q PROVE Made(d, c2[d])
  <2>1. On(c[d]) \cap On(c[q]) = {} /\ On(c[d]) \in SUBSET Packets
      BY <1>10, Apart, ListFacts
  <2>2. head'[d] = head[d] /\ tail'[d] = tail[d] /\ size'[d] = size[d]
      BY <1>0, <1>10 DEF Push
  <2>3. \A x \in On(c[d]) : next'[x] = next[x]
      BY <1>5, <1>8, <2>1
  <2>4. \A x \in Packets : owner'[x] = d <=> owner[x] = d
      BY <1>1, <1>4, <1>10
  <2>5. Made(d, c[d])
      BY <2>2, <2>3, <2>4, KeptIsMade DEF Kept
  <2> QED
      BY <1>7, <1>10, <2>5
<1>11. Path(next', list', l) /\ Holds(owner', "list", l) /\ l \in Seq(Packets)
  <2>1. \A x \in On(l) : next'[x] = next[x]
      BY <1>2, <1>5, <1>8, Apart
  <2>2. \A x \in Packets : owner'[x] = "list" <=> owner[x] = "list"
      BY <1>1, <1>4
  <2>3. list' = list
      BY DEF Push
  <2> QED
      BY <2>1, <2>2, <2>3, ListKept
<1> HIDE DEF c2
<1>12. Lists(c2, l)'
    BY <1>7, <1>9, <1>10, <1>11, MadeLists
<1> QED
    BY <1>12 DEF c2

\* Pointers that an operation does not write keep the caller's list and the
\* other queues as they were.
LEMMA OneQueue ==
    ASSUME NEW c, NEW l, Lists(c, l), NEW q \in Queues, NEW s, Made(q, s),
           \A d \in Queues : d # q => Kept(d, c[d]),
           NEW l2 \in Seq(Packets), Path(next', list', l2), Holds(owner', "list", l2)
    PROVE  Lists([c EXCEPT ![q] = s], l2)'
<1>1. s \in Seq(Packets) /\ c \in [Queues -> Seq(Packets)]
    BY ListFacts DEF Made
<1> DEFINE c2 == [c EXCEPT ![q] = s]
<1>2. c2 \in [Queues -> Seq(Packets)] /\ c2[q] = s /\ \A d \in Queues : d # q => c2[d] = c[d]
    BY <1>1
<1>3. ASSUME NEW d \in Queues, d # q PROVE Made(d, c2[d])
  <2>1. Made(d, c[d])
      BY <1>3, KeptIsMade
  <2> QED
      BY <1>2, <1>3, <2>1
<1>4. Made(q, c2[q])
    BY <1>2
<1> HIDE DEF c2
<1>5. Lists(c2, l2)'
    BY <1>2, <1>3, <1>4, MadeLists
<1> QED
    BY <1>5 DEF c2

LEMMA PopLists ==
    ASSUME Pointers, Ranked(next), NEW c, NEW l, Lists(c, l), NEW q \in Queues, Pop(q)
    PROVE  /\ Pointers' /\ Ranked(next') /\ Len(c[q]) > 0
           /\ Lists([c EXCEPT ![q] = Tail(@)], l)'
<1>0. /\ next \in [Packets -> Heads] /\ head \in [Queues -> Heads] /\ tail \in [Queues -> Heads]
      /\ size \in [Queues -> Nat] /\ owner \in [Packets -> Queues \cup {"list", "out"}] /\ list \in Heads
      /\ deadline \in [Packets -> 0 .. MaxTime]
    BY DEF Pointers
<1>1. \A d \in Queues : "out" # d /\ "list" # d
    BY QueueBounds
<1>2. /\ Path(next, head[q], c[q]) /\ Holds(owner, q, c[q])
      /\ size[q] = Len(c[q]) /\ tail[q] = LastOf(c[q]) /\ c \in [Queues -> Seq(Packets)]
      /\ c[q] \in Seq(Packets) /\ Len(c[q]) \in Nat
    BY ListFacts
<1>3. head[q] # NULL /\ next' = next /\ deadline' = deadline /\ list' = list
    BY DEF Pop
<1>4. Len(c[q]) > 0 /\ head[q] \in On(c[q]) /\ head[q] \in Packets
    BY <1>2, <1>3, PathFacts
<1>5. owner[head[q]] = q
    BY <1>2, <1>4 DEF Holds
<1>6. owner'[head[q]] = "out" /\ \A x \in Packets : x # head[q] => owner'[x] = owner[x]
    BY <1>0, <1>4 DEF Pop
<1>7. Pointers'
  <2>1. next' \in [Packets -> Heads] /\ deadline' \in [Packets -> 0 .. MaxTime] /\ list' \in Heads
      BY <1>0, <1>3
  <2>2. next[head[q]] \in Heads /\ size[q] - 1 \in Nat
      BY <1>0, <1>2, <1>4
  <2>3. head' \in [Queues -> Heads] /\ tail' \in [Queues -> Heads]
      BY <1>0, <2>2 DEF Pop, Heads
  <2>4. size' \in [Queues -> Nat] /\ owner' \in [Packets -> Queues \cup {"list", "out"}]
      BY <1>0, <2>2 DEF Pop
  <2> QED
      BY <2>1, <2>3, <2>4 DEF Pointers
<1>8. Path(next, next[head[q]], Tail(c[q])) /\ On(Tail(c[q])) = On(c[q]) \ {head[q]}
      /\ LastOf(Tail(c[q])) = IF next[head[q]] = NULL THEN NULL ELSE LastOf(c[q])
    BY <1>2, <1>4, PathTail
<1>9. Made(q, Tail(c[q]))
  <2>1. Tail(c[q]) \in Seq(Packets) /\ Len(Tail(c[q])) = Len(c[q]) - 1
      BY <1>2, <1>4, RestFacts
  <2>2. head'[q] = next[head[q]] /\ size'[q] = size[q] - 1
        /\ tail'[q] = IF next[head[q]] = NULL THEN NULL ELSE tail[q]
      BY <1>0 DEF Pop
  <2>3. Path(next', head'[q], Tail(c[q]))
      BY <1>3, <1>8, <2>2
  <2>4. Holds(owner', q, Tail(c[q]))
      BY <1>1, <1>2, <1>6, <1>8 DEF Holds
  <2> QED
      BY <1>2, <1>8, <2>1, <2>2, <2>3, <2>4 DEF Made
<1>10. ASSUME NEW d \in Queues, d # q PROVE Kept(d, c[d])
  <2>1. head'[d] = head[d] /\ tail'[d] = tail[d] /\ size'[d] = size[d]
      BY <1>0, <1>10 DEF Pop
  <2>2. \A x \in Packets : owner'[x] = d <=> owner[x] = d
      BY <1>1, <1>5, <1>6, <1>10
  <2> QED
      BY <1>3, <2>1, <2>2 DEF Kept
<1>11. Path(next', list', l) /\ Holds(owner', "list", l) /\ l \in Seq(Packets)
  <2>1. \A x \in Packets : owner'[x] = "list" <=> owner[x] = "list"
      BY <1>1, <1>5, <1>6
  <2> QED
      BY <1>3, <2>1, ListKept
<1>12. Lists([c EXCEPT ![q] = Tail(c[q])], l)'
    BY <1>9, <1>10, <1>11, OneQueue
<1>13. Ranked(next')
    BY <1>3
<1> QED
    BY <1>4, <1>7, <1>12, <1>13

LEMMA ClearLists ==
    ASSUME Pointers, Ranked(next), NEW c, NEW l, Lists(c, l), NEW q \in Queues, Clear(q)
    PROVE  Pointers' /\ Ranked(next') /\ Lists([c EXCEPT ![q] = <<>>], l)'
<1>0. /\ next \in [Packets -> Heads] /\ head \in [Queues -> Heads] /\ tail \in [Queues -> Heads]
      /\ size \in [Queues -> Nat] /\ owner \in [Packets -> Queues \cup {"list", "out"}] /\ list \in Heads
      /\ deadline \in [Packets -> 0 .. MaxTime]
    BY DEF Pointers
<1>1. \A d \in Queues : "out" # d /\ "list" # d
    BY QueueBounds
<1>2. Holds(owner, q, c[q]) /\ c[q] \in Seq(Packets)
    BY ListFacts
<1>3. next' = next /\ deadline' = deadline /\ list' = list
    BY DEF Clear
<1>4. Chain(head[q], Packets) = c[q]
    BY ChainIs
<1>5. \A p \in Packets : owner'[p] = IF owner[p] = q THEN "out" ELSE owner[p]
  <2>1. \A p \in Packets : owner'[p] = IF \E i \in DOMAIN c[q] : c[q][i] = p THEN "out" ELSE owner[p]
      BY <1>4 DEF Clear
  <2>2. DOMAIN c[q] = 1 .. Len(c[q])
      BY <1>2
  <2> QED
      BY <1>2, <2>1, <2>2 DEF Holds, On
<1>6. owner' \in [Packets -> Queues \cup {"list", "out"}]
  <2>1. owner' = [p \in Packets |-> owner'[p]]
      BY DEF Clear
  <2>2. \A p \in Packets : owner'[p] \in Queues \cup {"list", "out"}
      BY <1>0, <1>5
  <2> QED
      BY <2>1, <2>2
<1>7. Pointers'
  <2>1. next' \in [Packets -> Heads] /\ deadline' \in [Packets -> 0 .. MaxTime] /\ list' \in Heads
      BY <1>0, <1>3
  <2>2. head' \in [Queues -> Heads] /\ tail' \in [Queues -> Heads] /\ size' \in [Queues -> Nat]
      BY <1>0 DEF Clear, Heads
  <2> QED
      BY <1>6, <2>1, <2>2 DEF Pointers
<1>8. Made(q, <<>>)
  <2>1. head'[q] = NULL /\ tail'[q] = NULL /\ size'[q] = 0
      BY <1>0 DEF Clear
  <2>2. Path(next', NULL, <<>>) /\ On(<<>>) = {} /\ Len(<<>>) = 0 /\ LastOf(<<>>) = NULL
      BY EmptyPath
  <2>3. Holds(owner', q, <<>>)
      BY <1>1, <1>5, <2>2 DEF Holds
  <2>4. <<>> \in Seq(Packets)
      OBVIOUS
  <2> QED
      BY <2>1, <2>2, <2>3, <2>4 DEF Made
<1>9. ASSUME NEW d \in Queues, d # q PROVE Kept(d, c[d])
  <2>1. head'[d] = head[d] /\ tail'[d] = tail[d] /\ size'[d] = size[d]
      BY <1>0, <1>9 DEF Clear
  <2>2. \A x \in Packets : owner'[x] = d <=> owner[x] = d
      BY <1>1, <1>5, <1>9
  <2> QED
      BY <1>3, <2>1, <2>2 DEF Kept
<1>10. Path(next', list', l) /\ Holds(owner', "list", l) /\ l \in Seq(Packets)
  <2>1. \A x \in Packets : owner'[x] = "list" <=> owner[x] = "list"
      BY <1>1, <1>5
  <2> QED
      BY <1>3, <2>1, ListKept
<1>11. Lists([c EXCEPT ![q] = <<>>], l)'
    BY <1>8, <1>9, <1>10, OneQueue
<1>12. Ranked(next')
    BY <1>3
<1> QED
    BY <1>7, <1>11, <1>12

LEMMA GetNextLists ==
    ASSUME Pointers, Ranked(next), NEW c, NEW l, Lists(c, l), GetNext
    PROVE  Pointers' /\ Ranked(next') /\ Len(l) > 0 /\ Lists(c, Tail(l))'
<1>0. /\ next \in [Packets -> Heads] /\ head \in [Queues -> Heads] /\ tail \in [Queues -> Heads]
      /\ size \in [Queues -> Nat] /\ owner \in [Packets -> Queues \cup {"list", "out"}] /\ list \in Heads
      /\ deadline \in [Packets -> 0 .. MaxTime]
    BY DEF Pointers
<1>1. \A d \in Queues : "out" # d /\ "list" # d
    BY QueueBounds
<1>2. Path(next, list, l) /\ Holds(owner, "list", l) /\ l \in Seq(Packets) /\ c \in [Queues -> Seq(Packets)]
    BY DEF Lists, Linked, Owned
<1>3. /\ list # NULL /\ next' = next /\ deadline' = deadline /\ list' = next[list]
      /\ head' = head /\ tail' = tail /\ size' = size
    BY DEF GetNext
<1>4. Len(l) > 0 /\ list \in On(l) /\ list \in Packets
    BY <1>2, <1>3, PathFacts
<1>5. owner[list] = "list"
    BY <1>2, <1>4 DEF Holds
<1>6. owner'[list] = "out" /\ \A x \in Packets : x # list => owner'[x] = owner[x]
    BY <1>0, <1>4 DEF GetNext
<1>7. Pointers'
  <2>1. owner' \in [Packets -> Queues \cup {"list", "out"}]
      BY <1>0 DEF GetNext
  <2>2. next[list] \in Heads
      BY <1>0, <1>4
  <2> QED
      BY <1>0, <1>3, <2>1, <2>2 DEF Pointers
<1>8. Path(next, next[list], Tail(l)) /\ On(Tail(l)) = On(l) \ {list}
    BY <1>2, <1>4, PathTail
<1>9. Path(next', list', Tail(l)) /\ Holds(owner', "list", Tail(l)) /\ Tail(l) \in Seq(Packets)
  <2>1. Tail(l) \in Seq(Packets)
      BY <1>2, <1>4, RestFacts
  <2>2. Path(next', list', Tail(l))
      BY <1>3, <1>8
  <2>3. Holds(owner', "list", Tail(l))
      BY <1>2, <1>6, <1>8 DEF Holds
  <2> QED
      BY <2>1, <2>2, <2>3
<1>10. ASSUME NEW d \in Queues PROVE Made(d, c[d])
  <2>1. \A x \in Packets : owner'[x] = d <=> owner[x] = d
      BY <1>1, <1>5, <1>6
  <2>2. Kept(d, c[d])
      BY <1>3, <2>1 DEF Kept
  <2> QED
      BY <2>2, KeptIsMade
<1>11. Lists(c, Tail(l))'
    BY <1>2, <1>9, <1>10, MadeLists
<1>12. Ranked(next')
    BY <1>3
<1> QED
    BY <1>4, <1>7, <1>11, <1>12

LEMMA MovePointers ==
    ASSUME Pointers, Ranked(next), NEW c, NEW l, Lists(c, l),
           NEW q \in Queues, NEW d \in Queues, MoveTo(q, d)
    PROVE  Pointers' /\ Ranked(next')
<1>0. /\ next \in [Packets -> Heads] /\ head \in [Queues -> Heads] /\ tail \in [Queues -> Heads]
      /\ size \in [Queues -> Nat] /\ owner \in [Packets -> Queues \cup {"list", "out"}] /\ list \in Heads
      /\ deadline \in [Packets -> 0 .. MaxTime]
    BY DEF Pointers
<1>1. head[q] # NULL /\ q # d /\ deadline' = deadline /\ list' = list
    BY DEF MoveTo
<1>2. Pointers'
  <2>1. next' \in [Packets -> Heads]
      BY <1>0 DEF MoveTo
  <2>2. head' \in [Queues -> Heads] /\ tail' \in [Queues -> Heads]
      BY <1>0 DEF MoveTo, Heads
  <2>3. size' \in [Queues -> Nat]
      BY <1>0, <1>1 DEF MoveTo
  <2>4. owner' \in [Packets -> Queues \cup {"list", "out"}]
      BY <1>0 DEF MoveTo
  <2> QED
      BY <1>0, <1>1, <2>1, <2>2, <2>3, <2>4 DEF Pointers
<1>3. \A r \in Packets : next'[r] = IF r = tail[d] THEN head[q] ELSE next[r]
    BY DEF MoveTo
<1>4. Ranked(next')
  <2>1. CASE tail[d] = NULL
    <3>1. \A r \in Packets : next'[r] = next[r]
        BY <1>3, <2>1, NullIsNoPacket
    <3> QED
        BY <3>1, RankedLess
  <2>2. CASE tail[d] # NULL
    <3>1. Path(next, head[d], c[d]) /\ tail[d] = LastOf(c[d]) /\ Len(c[d]) \in Nat
        BY ListFacts
    <3>2. tail[d] \in On(c[d]) /\ tail[d] \in Packets
        BY <2>2, <3>1, LastFacts
    <3>3. Path(next, head[q], c[q]) /\ Len(c[q]) \in Nat
        BY ListFacts
    <3>4. head[q] \in On(c[q])
        BY <1>1, <3>3, PathFacts
    <3>5. tail[d] \notin On(c[q])
        BY <1>1, <3>2, Apart
    <3>6. On(c[q]) \in SUBSET Packets /\ \A x \in On(c[q]) : next[x] = NULL \/ next[x] \in On(c[q])
        BY <3>3, PathClosed
    <3>7. PICK u, v, C : u = tail[d] /\ v = head[q] /\ C = On(c[q])
        OBVIOUS
    <3>8. u \in Packets /\ u \notin C /\ v \in C /\ C \in SUBSET Packets
        BY <3>2, <3>4, <3>5, <3>6, <3>7
    <3>9. next'[u] = v /\ \A r \in Packets : r # u => next'[r] = next[r]
        BY <1>3, <3>2, <3>7
    <3>10. \A x \in C : next[x] = NULL \/ next[x] \in C
        BY <3>6, <3>7
    <3> QED
        BY <1>0, <3>8, <3>9, <3>10, RankedMore
  <2> QED
      BY <2>1, <2>2
<1> QED
    BY <1>2, <1>4

LEMMA MoveLists ==
    ASSUME Pointers, Ranked(next), NEW c, NEW l, Lists(c, l),
           NEW q \in Queues, NEW d \in Queues, MoveTo(q, d)
    PROVE  q # d /\ Lists([c EXCEPT ![d] = @ \o c[q], ![q] = <<>>], l)'
<1>0. /\ head \in [Queues -> Heads] /\ tail \in [Queues -> Heads] /\ size \in [Queues -> Nat]
      /\ owner \in [Packets -> Queues \cup {"list", "out"}]
    BY DEF Pointers
<1>1. \A e \in Queues : "out" # e /\ "list" # e
    BY QueueBounds
<1>2. head[q] # NULL /\ q # d /\ list' = list
    BY DEF MoveTo
<1>3. /\ Path(next, head[q], c[q]) /\ Holds(owner, q, c[q]) /\ size[q] = Len(c[q])
      /\ tail[q] = LastOf(c[q]) /\ c \in [Queues -> Seq(Packets)]
      /\ c[q] \in Seq(Packets) /\ Len(c[q]) \in Nat /\ On(c[q]) \in SUBSET Packets /\ On(l) \in SUBSET Packets
    BY ListFacts
<1>4. /\ Path(next, head[d], c[d]) /\ Holds(owner, d, c[d]) /\ size[d] = Len(c[d])
      /\ tail[d] = LastOf(c[d]) /\ c[d] \in Seq(Packets) /\ Len(c[d]) \in Nat /\ On(c[d]) \in SUBSET Packets
    BY ListFacts
<1>5. Len(c[q]) > 0
    BY <1>2, <1>3, PathFacts
<1>6. \A r \in Packets : next'[r] = IF r = tail[d] THEN head[q] ELSE next[r]
    BY DEF MoveTo
<1>7. \A r \in Packets : owner'[r] = IF owner[r] = q THEN d ELSE owner[r]
    BY DEF MoveTo
<1>8. /\ LastOf(c[d]) = NULL <=> Len(c[d]) = 0
      /\ Len(c[d]) > 0 => LastOf(c[d]) \in On(c[d]) /\ LastOf(c[d]) \in Packets
    BY <1>4, LastFacts
<1>9. \A x \in Packets : x \notin On(c[d]) => next'[x] = next[x]
    BY <1>4, <1>6, <1>8, NullIsNoPacket
<1> DEFINE j == c[d] \o c[q]
           c2 == [c EXCEPT ![d] = @ \o c[q], ![q] = <<>>]
<1>10. j \in Seq(Packets) /\ Len(j) = Len(c[d]) + Len(c[q])
    BY <1>3, <1>4, JoinFacts
<1>11. On(j) = On(c[d]) \cup On(c[q]) /\ LastOf(j) = LastOf(c[q])
    BY <1>3, <1>4, <1>5, OnJoin
<1>12. Path(next', IF Len(c[d]) = 0 THEN head[q] ELSE head[d], j)
  <2>1. On(c[d]) \cap On(c[q]) = {}
      BY <1>2, Apart
  <2>2. Len(c[d]) > 0 => next'[LastOf(c[d])] = head[q]
      BY <1>4, <1>6, <1>8
  <2>3. ASSUME NEW x \in On(c[d]) \cup On(c[q]), Len(c[d]) = 0 \/ x # LastOf(c[d])
        PROVE  next'[x] = next[x]
    <3>1. x \in Packets /\ x # NULL
        BY <1>3, <1>4, NullIsNoPacket
    <3>2. x # tail[d]
        BY <1>4, <1>8, <2>3, <3>1
    <3> QED
        BY <1>6, <3>1, <3>2
  <2> QED
      BY <1>3, <1>4, <1>5, <2>1, <2>2, <2>3, PathJoin
<1>13. c2 \in [Queues -> Seq(Packets)] /\ c2[d] = j /\ c2[q] = <<>>
       /\ \A e \in Queues : e # q /\ e # d => c2[e] = c[e]
  <2>1. c2 = [e \in Queues |-> IF e = q THEN <<>> ELSE IF e = d THEN j ELSE c[e]]
      BY <1>2, <1>3
  <2>2. <<>> \in Seq(Packets) /\ \A e \in Queues : c[e] \in Seq(Packets)
      BY <1>3
  <2> HIDE DEF c2, j
  <2> QED
      BY <1>2, <1>10, <2>1, <2>2
<1> HIDE DEF j, c2
<1>14. /\ head'[q] = NULL /\ tail'[q] = NULL /\ size'[q] = 0
       /\ head'[d] = IF tail[d] = NULL THEN head[q] ELSE head[d]
       /\ tail'[d] = tail[q] /\ size'[d] = size[d] + size[q]
       /\ \A e \in Queues : e # q /\ e # d => head'[e] = head[e] /\ tail'[e] = tail[e] /\ size'[e] = size[e]
    BY <1>0, <1>2 DEF MoveTo
<1>15. Made(d, c2[d])
  <2>1. Path(next', head'[d], j)
      BY <1>4, <1>8, <1>12, <1>14
  <2>2. Holds(owner', d, j)
      BY <1>2, <1>3, <1>4, <1>7, <1>11 DEF Holds
  <2>3. size'[d] = Len(j) /\ tail'[d] = LastOf(j)
      BY <1>3, <1>4, <1>10, <1>11, <1>14
  <2> QED
      BY <1>10, <1>13, <2>1, <2>2, <2>3 DEF Made
<1>16. Made(q, c2[q])
  <2>1. Path(next', NULL, <<>>) /\ On(<<>>) = {} /\ Len(<<>>) = 0 /\ LastOf(<<>>) = NULL
      BY EmptyPath
  <2>2. Holds(owner', q, <<>>)
      BY <1>2, <1>7, <2>1 DEF Holds
  <2>3. <<>> \in Seq(Packets)
      OBVIOUS
  <2> QED
      BY <1>13, <1>14, <2>1, <2>2, <2>3 DEF Made
<1>17. ASSUME NEW e \in Queues, e # q, e # d PROVE Made(e, c2[e])
  <2>1. On(c[e]) \cap On(c[d]) = {} /\ On(c[e]) \in SUBSET Packets
      BY <1>17, Apart, ListFacts
  <2>2. \A x \in On(c[e]) : next'[x] = next[x]
      BY <1>9, <2>1
  <2>3. \A x \in Packets : owner'[x] = e <=> owner[x] = e
      BY <1>7, <1>17
  <2>4. head'[e] = head[e] /\ tail'[e] = tail[e] /\ size'[e] = size[e]
      BY <1>14, <1>17
  <2>5. Made(e, c[e])
      BY <2>2, <2>3, <2>4, KeptIsMade DEF Kept
  <2> QED
      BY <1>13, <1>17, <2>5
<1>18. Path(next', list', l) /\ Holds(owner', "list", l) /\ l \in Seq(Packets)
  <2>1. \A x \in On(l) : next'[x] = next[x]
      BY <1>3, <1>9, Apart
  <2>2. \A x \in Packets : owner'[x] = "list" <=> owner[x] = "list"
      BY <1>1, <1>7
  <2> QED
      BY <1>2, <2>1, <2>2, ListKept
<1>19. ASSUME NEW e \in Queues PROVE Made(e, c2[e])
    BY <1>15, <1>16, <1>17
<1>20. Lists(c2, l)'
    BY <1>13, <1>18, <1>19, MadeLists
<1> QED
    BY <1>2, <1>20 DEF c2

\* The loop of GetTimeoutList stops behind the n expired packets in front.
Expired(s, n, now) ==
    /\ n \in 0 .. Len(s)
    /\ \A i \in 1 .. n : s[i] \in Lapsed(now)
    /\ n < Len(s) => s[n + 1] \notin Lapsed(now)

LEMMA TakenIs ==
    ASSUME Pointers, Ranked(next), NEW c, NEW l, Lists(c, l), NEW q \in Queues, NEW now
    PROVE  \E n : Expired(c[q], n, now) /\ Chain(head[q], Lapsed(now)) = SubSeq(c[q], 1, n)
<1> DEFINE s == c[q]
           go == Lapsed(now)
           S == {i \in 1 .. Len(s) + 1 : i = Len(s) + 1 \/ s[i] \notin go}
<1>0. Path(next, head[q], s) /\ next \in [Packets -> Heads]
    BY ListFacts DEF Pointers
<1>1. /\ s \in Seq(Packets) /\ Len(s) \in Nat /\ head[q] \in Heads
      /\ head[q] = IF Len(s) = 0 THEN NULL ELSE s[1]
      /\ \A i \in 1 .. Len(s) : s[i] \in Packets
      /\ \A i \in 1 .. Len(s) : next[s[i]] = IF i = Len(s) THEN NULL ELSE s[i + 1]
    BY <1>0, PathFacts
<1>2. go \in SUBSET Packets /\ NULL \notin go
    BY NullIsNoPacket DEF Lapsed
<1> HIDE DEF s, go
<1>3. PICK m \in S : \A k \in S : m <= k
  <2>1. Len(s) + 1 \in S /\ S \subseteq Nat
      BY <1>1
  <2>2. S # {}
      BY <2>1
  <2> HIDE DEF S
  <2> QED
      BY <2>1, <2>2, Least
<1>4. PICK n : n = m - 1
    OBVIOUS
<1>5. /\ n \in 0 .. Len(s) /\ m = n + 1 /\ n \in Nat /\ n <= Len(s)
      /\ \A i \in 1 .. n : s[i] \in go
      /\ n < Len(s) => s[n + 1] \notin go
  <2>1. m \in 1 .. Len(s) + 1 /\ (m = Len(s) + 1 \/ s[m] \notin go)
      OBVIOUS
  <2>2. n \in 0 .. Len(s) /\ m = n + 1 /\ n \in Nat /\ n <= Len(s)
      BY <1>1, <1>4, <2>1
  <2>3. ASSUME NEW i \in 1 .. n PROVE s[i] \in go
    <3>1. i \in 1 .. Len(s) + 1 /\ ~ (m <= i)
        BY <1>1, <2>2
    <3> QED
        BY <1>3, <3>1
  <2>4. n < Len(s) => s[n + 1] \notin go
      BY <1>1, <2>1, <2>2
  <2> QED
      BY <2>2, <2>3, <2>4
<1> HIDE DEF S
<1> DEFINE t == SubSeq(s, 1, n)
<1>6. t \in Seq(Packets) /\ Len(t) = n /\ \A i \in 1 .. n : t[i] = s[i]
    BY <1>1, <1>5
<1>7. t \in Seq(go)
  <2>1. t = [i \in 1 .. n |-> t[i]]
      BY <1>6
  <2>2. \A i \in 1 .. n : t[i] \in go
      BY <1>5, <1>6
  <2> HIDE DEF t
  <2> QED
      BY <1>5, <2>1, <2>2
<1> HIDE DEF t
<1>8. Len(t) > 0 => head[q] = t[1]
    BY <1>1, <1>5, <1>6
<1>9. ASSUME NEW i \in 1 .. Len(t) - 1 PROVE next[t[i]] = t[i + 1]
  <2>1. i \in 1 .. n /\ i + 1 \in 1 .. n /\ i \in 1 .. Len(s) /\ i # Len(s)
      BY <1>1, <1>5, <1>6
  <2>2. t[i] = s[i] /\ t[i + 1] = s[i + 1]
      BY <1>6, <2>1
  <2> QED
      BY <1>1, <2>1, <2>2
<1>10. IF Len(t) = 0 THEN head[q] \notin go ELSE next[t[Len(t)]] \in Heads \ go
  <2>1. CASE n = 0
      BY <1>1, <1>2, <1>5, <1>6, <2>1
  <2>2. CASE n # 0
    <3>1. n \in 1 .. n /\ n \in 1 .. Len(s) /\ t[Len(t)] = s[n]
        BY <1>1, <1>5, <1>6, <2>2
    <3>2. next[s[n]] = IF n = Len(s) THEN NULL ELSE s[n + 1]
        BY <1>1, <3>1
    <3>3. next[s[n]] \in Heads
        BY <1>0, <1>1, <3>1
    <3>4. next[s[n]] \notin go
        BY <1>1, <1>2, <1>5, <3>2
    <3> QED
        BY <1>6, <2>2, <3>1, <3>3, <3>4
  <2> QED
      BY <2>1, <2>2
<1>11. Reach(next, go, head[q], t)
    BY <1>1, <1>7, <1>8, <1>9, <1>10 DEF Reach
<1>12. Walk(next, go)[head[q]] = t
    BY <1>0, <1>2, <1>11, WalkIs
<1>13. Chain(head[q], go) = t
    BY <1>12, ChainIsWalk
<1>14. Expired(s, n, now)
    BY <1>5 DEF Expired, go
<1> QED
    BY <1>13, <1>14 DEF t, s, go

LEMMA TimeoutLists ==
    ASSUME Pointers, Ranked(next), NEW c, NEW l, Lists(c, l), NEW q \in Queues, NEW now,
           GetTimeoutList(q, now)
    PROVE  /\ Pointers' /\ Ranked(next') /\ l = <<>>
           /\ \E n : /\ Expired(c[q], n, now)
                     /\ Lists([c EXCEPT ![q] = SubSeq(@, n + 1, Len(@))], SubSeq(c[q], 1, n))'
<1>0. /\ next \in [Packets -> Heads] /\ head \in [Queues -> Heads] /\ tail \in [Queues -> Heads]
      /\ size \in [Queues -> Nat] /\ owner \in [Packets -> Queues \cup {"list", "out"}] /\ list \in Heads
      /\ deadline \in [Packets -> 0 .. MaxTime]
    BY DEF Pointers
<1>1. \A e \in Queues : "out" # e /\ "list" # e
    BY QueueBounds
<1>2. /\ Path(next, head[q], c[q]) /\ Holds(owner, q, c[q]) /\ size[q] = Len(c[q])
      /\ tail[q] = LastOf(c[q]) /\ c \in [Queues -> Seq(Packets)]
      /\ Path(next, list, l) /\ Holds(owner, "list", l) /\ l \in Seq(Packets)
      /\ c[q] \in Seq(Packets) /\ Len(c[q]) \in Nat /\ On(c[q]) \in SUBSET Packets
    BY ListFacts
<1>3. PICK n : Expired(c[q], n, now) /\ Chain(head[q], Lapsed(now)) = SubSeq(c[q], 1, n)
    BY TakenIs
<1> DEFINE s == c[q]
           a == SubSeq(s, 1, n)
           b == SubSeq(s, n + 1, Len(s))
           last == a[Len(a)]
<1>4. /\ list = NULL /\ a # <<>> /\ list' = head[q] /\ deadline' = deadline
      /\ head' = [head EXCEPT ![q] = next[last]]
      /\ tail' = [tail EXCEPT ![q] = IF next[last] = NULL THEN NULL ELSE @]
      /\ size' = [size EXCEPT ![q] = @ - Len(a)]
      /\ next' = [next EXCEPT ![last] = NULL]
      /\ owner' = [p \in Packets |-> IF \E i \in DOMAIN a : a[i] = p THEN "list" ELSE owner[p]]
    BY <1>3 DEF GetTimeoutList, Terminated
<1>5. n \in 0 .. Len(s) /\ n \in Nat /\ n <= Len(s)
    BY <1>2, <1>3 DEF Expired
<1>6. a \in Seq(Packets) /\ Len(a) = n /\ \A i \in 1 .. n : a[i] = s[i]
    BY <1>2, <1>5
<1>7. n \in 1 .. Len(s) /\ n # 0
    BY <1>4, <1>5, <1>6
<1>8. last = s[n] /\ s[n] \in Packets /\ s[n] \in On(s)
    BY <1>2, <1>6, <1>7 DEF On
<1>9. DOMAIN a = 1 .. Len(a)
    BY <1>6
<1>10. \A p \in Packets : owner'[p] = IF p \in On(a) THEN "list" ELSE owner[p]
    BY <1>4, <1>9 DEF On
<1>11. next' \in [Packets -> Heads] /\ next'[s[n]] = NULL /\ \A x \in Packets : x # s[n] => next'[x] = next[x]
    BY <1>0, <1>4, <1>8 DEF Heads
<1>12. l = <<>> /\ On(l) = {} /\ \A p \in Packets : owner[p] # "list"
  <2>1. Len(l) = 0
      BY <1>2, <1>4, PathFacts
  <2>2. l = <<>>
      BY <1>2, <2>1
  <2>3. On(l) = {}
      BY <2>2, EmptyPath
  <2> QED
      BY <1>2, <2>2, <2>3 DEF Holds
<1> HIDE DEF s, last
<1>13. Path(next, head[q], s) /\ On(s) \in SUBSET Packets
    BY <1>2 DEF s
<1>14. /\ Path(next', head[q], a) /\ Path(next', next[s[n]], b)
       /\ On(b) = On(s) \ On(a) /\ On(a) \subseteq On(s) /\ Len(b) = Len(s) - n
       /\ LastOf(b) = IF next[s[n]] = NULL THEN NULL ELSE LastOf(s)
  <2>1. \A x \in On(s) \ {s[n]} : next'[x] = next[x]
      BY <1>11, <1>13
  <2>2. Cuts(next, next', head[q], s, n)
      BY <1>7, <1>11, <1>13, <2>1 DEF Cuts
  <2>3. PICK x, y : Parts(next, next', head[q], s, n, x, y)
      BY <2>2, PathCut
  <2>4. x = a /\ y = b
      BY <2>3 DEF Parts
  <2> HIDE DEF a, b
  <2> QED
      BY <2>3, <2>4 DEF Parts
<1>15. b \in Seq(Packets)
    BY <1>14, PathFacts
<1> HIDE DEF a, b
<1>16. Pointers'
  <2>1. next[s[n]] \in Heads /\ size[q] - n \in Nat
      BY <1>0, <1>2, <1>5, <1>8 DEF s
  <2>2. head' \in [Queues -> Heads] /\ tail' \in [Queues -> Heads]
      BY <1>0, <1>4, <1>8, <2>1 DEF Heads
  <2>3. size' \in [Queues -> Nat]
      BY <1>0, <1>4, <1>6, <2>1
  <2>4. owner' \in [Packets -> Queues \cup {"list", "out"}]
      BY <1>0, <1>4
  <2>5. list' \in Heads /\ deadline' \in [Packets -> 0 .. MaxTime]
      BY <1>0, <1>4
  <2> QED
      BY <1>11, <2>2, <2>3, <2>4, <2>5 DEF Pointers
<1>17. Ranked(next')
    BY <1>11, RankedLess
<1>18. Made(q, b)
  <2>1. head'[q] = next[s[n]] /\ size'[q] = size[q] - n
        /\ tail'[q] = IF next[s[n]] = NULL THEN NULL ELSE tail[q]
      BY <1>0, <1>4, <1>6, <1>8
  <2>2. Holds(owner', q, b)
      BY <1>1, <1>2, <1>10, <1>14 DEF Holds, s
  <2>3. size'[q] = Len(b) /\ tail'[q] = LastOf(b)
      BY <1>2, <1>14, <2>1 DEF s
  <2> QED
      BY <1>14, <1>15, <2>1, <2>2, <2>3 DEF Made
<1>19. ASSUME NEW d \in Queues, d # q PROVE Kept(d, c[d])
  <2>1. On(c[d]) \cap On(s) = {} /\ On(c[d]) \in SUBSET Packets
      BY <1>19, Apart, ListFacts DEF s
  <2>2. \A x \in On(c[d]) : next'[x] = next[x]
      BY <1>8, <1>11, <2>1
  <2>3. ASSUME NEW x \in Packets PROVE owner'[x] = d <=> owner[x] = d
    <3>1. x \in On(a) => owner[x] = q
        BY <1>2, <1>14 DEF Holds, s
    <3> QED
        BY <1>1, <1>10, <1>19, <3>1
  <2>4. head'[d] = head[d] /\ tail'[d] = tail[d] /\ size'[d] = size[d]
      BY <1>0, <1>4, <1>19
  <2> QED
      BY <2>2, <2>3, <2>4 DEF Kept
<1>20. Path(next', list', a) /\ Holds(owner', "list", a)
  <2>1. Holds(owner', "list", a)
      BY <1>10, <1>12 DEF Holds
  <2> QED
      BY <1>4, <1>14, <2>1
<1>21. Lists([c EXCEPT ![q] = b], a)'
    BY <1>6, <1>18, <1>19, <1>20, OneQueue
<1>22. Lists([c EXCEPT ![q] = SubSeq(c[q], n + 1, Len(c[q]))], SubSeq(c[q], 1, n))'
    BY <1>21 DEF a, b, s
<1>23. Lists([c EXCEPT ![q] = SubSeq(@, n + 1, Len(@))], SubSeq(c[q], 1, n))'
    BY <1>22
<1> QED
    BY <1>3, <1>12, <1>16, <1>17, <1>23

-----------------------------------------------------------------------------
(* The inductive invariant. *)

LEMMA EmptyLists ==
    ASSUME Init
    PROVE  Pointers /\ Ranked(next) /\ Lists([q \in Queues |-> <<>>], <<>>)
<1>1. Pointers
    BY QueueBounds DEF Init, Pointers, Heads
<1>2. Ranked(next)
  <2>1. Ranks(next, [p \in Packets |-> 0], 0)
      BY DEF Init, Ranks
  <2> QED
      BY <2>1 DEF Ranked
<1>3. Path(next, NULL, <<>>) /\ On(<<>>) = {} /\ Len(<<>>) = 0 /\ LastOf(<<>>) = NULL /\ <<>> \in Seq(Packets)
    BY EmptyPath
<1>4. \A q \in Queues : head[q] = NULL /\ tail[q] = NULL /\ size[q] = 0 /\ q # "out"
    BY QueueBounds DEF Init
<1>5. list = NULL /\ \A p \in Packets : owner[p] = "out"
    BY DEF Init
<1> DEFINE c == [q \in Queues |-> <<>>]
<1>6. c \in [Queues -> Seq(Packets)] /\ \A q \in Queues : c[q] = <<>>
    BY <1>3
<1> HIDE DEF c
<1>7. Linked(c, <<>>)
    BY <1>3, <1>4, <1>5, <1>6 DEF Linked
<1>8. Owned(c, <<>>)
    BY <1>3, <1>4, <1>5, <1>6 DEF Owned, Holds
<1>9. Counted(c)
    BY <1>3, <1>4, <1>6 DEF Counted
<1>10. Lists(c, <<>>)
    BY <1>3, <1>6, <1>7, <1>8, <1>9 DEF Lists
<1> QED
    BY <1>1, <1>2, <1>10 DEF c

LEMMA StutterKeeps ==
    ASSUME Pointers, Ranked(next), NEW c, NEW l, Lists(c, l), UNCHANGED vars
    PROVE  Pointers' /\ Ranked(next') /\ Lists(c, l)'
<1>1. /\ head' = head /\ tail' = tail /\ size' = size /\ next' = next
      /\ deadline' = deadline /\ list' = list /\ owner' = owner
    BY DEF vars
<1>2. Pointers' /\ Ranked(next')
    BY <1>1 DEF Pointers
<1>3. Lists(c, l)'
    BY <1>1 DEF Lists, Linked, Owned, Counted
<1> QED
    BY <1>2, <1>3

LEMMA InvStart == Init => QueueInv
BY EmptyLists DEF QueueInv

LEMMA InvStep ==
    ASSUME QueueInv, [Next]_vars
    PROVE  QueueInv'
<1>1. Pointers /\ Ranked(next)
    BY DEF QueueInv
<1>2. PICK c, l : Lists(c, l)
    BY DEF QueueInv
<1>3. SUFFICES Pointers' /\ Ranked(next') /\ \E c2, l2 : Lists(c2, l2)'
    BY DEF QueueInv
<1>4. CASE GetNext
    BY <1>1, <1>2, <1>4, GetNextLists
<1>5. ASSUME NEW q \in Queues, Pop(q) PROVE Pointers' /\ Ranked(next') /\ \E c2, l2 : Lists(c2, l2)'
    BY <1>1, <1>2, <1>5, PopLists
<1>6. ASSUME NEW q \in Queues, Clear(q) PROVE Pointers' /\ Ranked(next') /\ \E c2, l2 : Lists(c2, l2)'
    BY <1>1, <1>2, <1>6, ClearLists
<1>7. ASSUME NEW q \in Queues, NEW p \in Packets, NEW t \in 0 .. MaxTime, Push(q, p, t)
      PROVE  Pointers' /\ Ranked(next') /\ \E c2, l2 : Lists(c2, l2)'
    BY <1>1, <1>2, <1>7, PushPointers, PushLists
<1>8. ASSUME NEW q \in Queues, NEW d \in Queues, MoveTo(q, d)
      PROVE  Pointers' /\ Ranked(next') /\ \E c2, l2 : Lists(c2, l2)'
    BY <1>1, <1>2, <1>8, MovePointers, MoveLists
<1>9. ASSUME NEW q \in Queues, NEW now \in 1 .. MaxTime + 1, GetTimeoutList(q, now)
      PROVE  Pointers' /\ Ranked(next') /\ \E c2, l2 : Lists(c2, l2)'
    BY <1>1, <1>2, <1>9, TimeoutLists
<1>10. CASE UNCHANGED vars
    BY <1>1, <1>2, <1>10, StutterKeeps
<1> QED
    BY <1>4, <1>5, <1>6, <1>7, <1>8, <1>9, <1>10 DEF Next

\* A path does not visit more packets than there are.
LEMMA PathIsShort ==
    ASSUME NEW nx, NEW p, NEW s, Path(nx, p, s)
    PROVE  Len(s) <= MaxPackets
<1>0. /\ s \in Seq(Packets) /\ Len(s) \in Nat /\ \A i \in 1 .. Len(s) : s[i] \in Packets
      /\ \A i, j \in 1 .. Len(s) : s[i] = s[j] => i = j
    BY PathFacts
<1>1. MaxPackets \in Nat
    BY QueueBounds
<1>2. SUFFICES ASSUME MaxPackets < Len(s) PROVE FALSE
    BY <1>0, <1>1
<1> DEFINE S == 1 .. Len(s)
           f == [i \in S |-> s[i]]
<1>3. IsFiniteSet(S) /\ Cardinality(S) = Len(s)
  <2>1. 1 \in Int /\ Len(s) \in Int
      BY <1>0
  <2>2. /\ IsFiniteSet(1 .. Len(s))
        /\ Cardinality(1 .. Len(s)) = IF 1 > Len(s) THEN 0 ELSE Len(s) - 1 + 1
      BY <2>1, FS_Interval
  <2> QED
      BY <1>0, <1>1, <1>2, <2>2
<1>4. IsFiniteSet(Packets) /\ Cardinality(Packets) = MaxPackets
  <2>1. 1 \in Int /\ MaxPackets \in Int
      BY <1>1
  <2>2. /\ IsFiniteSet(1 .. MaxPackets)
        /\ Cardinality(1 .. MaxPackets) = IF 1 > MaxPackets THEN 0 ELSE MaxPackets - 1 + 1
      BY <2>1, FS_Interval
  <2>3. Cardinality(1 .. MaxPackets) = MaxPackets
      BY <1>1, <2>2
  <2> QED
      BY <2>2, <2>3 DEF Packets
<1>5. f \in [S -> Packets]
    BY <1>0
<1> HIDE DEF S, f
<1>6. Cardinality(Packets) < Cardinality(S)
    BY <1>2, <1>3, <1>4
<1>7. \E i, j \in S : i # j /\ f[i] = f[j]
    BY <1>3, <1>4, <1>5, <1>6, FS_PigeonHole
<1> QED
    BY <1>0, <1>7 DEF S, f

LEMMA InvGives == QueueInv => TypeOK /\ SizeAndTailAgree /\ NoPacketShared
<1> SUFFICES ASSUME QueueInv PROVE TypeOK /\ SizeAndTailAgree /\ NoPacketShared
    OBVIOUS
<1>1. Pointers /\ Ranked(next)
    BY DEF QueueInv
<1>2. PICK c, l : Lists(c, l)
    BY DEF QueueInv
<1>3. (\A q \in Queues : Chain(head[q], Packets) = c[q]) /\ Chain(list, Packets) = l
    BY <1>1, <1>2, ChainIs
<1>4. TypeOK
  <2>1. \A q \in Queues : size[q] \in 0 .. MaxPackets
    <3> TAKE q \in Queues
    <3>1. Path(next, head[q], c[q]) /\ size[q] = Len(c[q]) /\ Len(c[q]) \in Nat
        BY <1>2, ListFacts
    <3>2. Len(c[q]) <= MaxPackets
        BY <3>1, PathIsShort
    <3> QED
        BY <3>1, <3>2, QueueBounds
  <2>2. size \in [Queues -> 0 .. MaxPackets]
      BY <1>1, <2>1 DEF Pointers
  <2> QED
      BY <1>1, <2>2 DEF Pointers, TypeOK, Heads
<1>5. SizeAndTailAgree
  <2> SUFFICES ASSUME NEW q \in Queues
               PROVE  /\ size[q] = Len(c[q])
                      /\ tail[q] = IF c[q] = <<>> THEN NULL ELSE c[q][Len(c[q])]
      BY <1>3 DEF SizeAndTailAgree
  <2>1. size[q] = Len(c[q]) /\ tail[q] = LastOf(c[q]) /\ c[q] \in Seq(Packets)
      BY <1>2, ListFacts
  <2>2. Len(c[q]) = 0 <=> c[q] = <<>>
      BY <2>1
  <2> QED
      BY <2>1, <2>2 DEF LastOf
<1>6. NoPacketShared
  <2>1. \A q \in Queues : \A i \in DOMAIN c[q] : owner[c[q][i]] = q
    <3> TAKE q \in Queues
    <3>1. Holds(owner, q, c[q]) /\ c[q] \in Seq(Packets)
        BY <1>2, ListFacts
    <3>2. DOMAIN c[q] = 1 .. Len(c[q]) /\ \A i \in 1 .. Len(c[q]) : c[q][i] \in Packets
        BY <3>1
    <3> QED
        BY <3>1, <3>2 DEF Holds, On
  <2>2. \A i \in DOMAIN l : owner[l[i]] = "list"
    <3>1. Holds(owner, "list", l) /\ l \in Seq(Packets)
        BY <1>2 DEF Lists, Owned
    <3>2. DOMAIN l = 1 .. Len(l) /\ \A i \in 1 .. Len(l) : l[i] \in Packets
        BY <3>1
    <3> QED
        BY <3>1, <3>2 DEF Holds, On
  <2> QED
      BY <1>3, <2>1, <2>2 DEF NoPacketShared
<1> QED
    BY <1>4, <1>5, <1>6

LEMMA Invariance == Spec => []QueueInv
<1>1. QueueInv /\ [Next]_vars => QueueInv'
    BY InvStep
<1> QED
    BY <1>1, InvStart, PTL DEF Spec

-----------------------------------------------------------------------------
(* First-in first-out queues. *)

LEMMA FifoIn == ASSUME NEW s \in Seq(Packets) PROVE Fifo!In(s) = On(s)
<1>1. DOMAIN s = 1 .. Len(s)
    OBVIOUS
<1> QED
    BY <1>1 DEF Fifo!In, On

LEMMA FrontIs ==
    ASSUME Pointers, NEW c \in [Queues -> Seq(Packets)], NEW q \in Queues, NEW n, NEW now \in 1 .. MaxTime + 1,
           [r \in Queues |-> Chain(head[r], Packets)] = c, Expired(c[q], n, now)
    PROVE  Fifo!Front(q, now) = n
<1> DEFINE s == c[q]
           due(i) == deadline[s[i]] \in 1 .. now - 1
           good(m) == /\ \A i \in 1 .. m : due(i)
                      /\ m < Len(s) => ~ due(m + 1)
<1>1. s \in Seq(Packets) /\ Len(s) \in Nat /\ \A i \in 1 .. Len(s) : s[i] \in Packets
    OBVIOUS
<1>2. ASSUME NEW p \in Packets PROVE p \in Lapsed(now) <=> deadline[p] \in 1 .. now - 1
  <2>1. deadline[p] \in Nat /\ now \in Nat
      BY QueueBounds DEF Pointers
  <2> QED
      BY <2>1 DEF Lapsed
<1>3. n \in 0 .. Len(s) /\ n \in Nat
    BY <1>1 DEF Expired
<1>4. good(n)
  <2>1. ASSUME NEW i \in 1 .. n PROVE due(i)
    <3>1. i \in 1 .. Len(s)
        BY <1>1, <1>3
    <3> QED
        BY <1>1, <1>2, <3>1 DEF Expired
  <2>2. ASSUME n < Len(s) PROVE ~ due(n + 1)
    <3>1. n + 1 \in 1 .. Len(s)
        BY <1>1, <1>3, <2>2
    <3> QED
        BY <1>1, <1>2, <2>2, <3>1 DEF Expired
  <2> QED
      BY <2>1, <2>2
<1>5. ASSUME NEW m \in 0 .. Len(s), good(m) PROVE m = n
  <2> HIDE DEF due
  <2>1. ~ (m < n)
    <3>1. m < n => m < Len(s) /\ m + 1 \in 1 .. n
        BY <1>1, <1>3
    <3> QED
        BY <1>4, <1>5, <3>1
  <2>2. ~ (n < m)
    <3>1. n < m => n < Len(s) /\ n + 1 \in 1 .. m
        BY <1>1, <1>3
    <3> QED
        BY <1>4, <1>5, <3>1
  <2> QED
      BY <1>1, <1>3, <2>1, <2>2
<1>6. Fifo!Front(q, now) = CHOOSE m \in 0 .. Len(s) : good(m)
    BY DEF Fifo!Front
<1> HIDE DEF good
<1> QED
    BY <1>3, <1>4, <1>5, <1>6

LEMMA FifoStep ==
    ASSUME QueueInv, Next
    PROVE  Fifo!Next
<1>1. Pointers /\ Ranked(next)
    BY DEF QueueInv
<1>2. PICK c, l : Lists(c, l)
    BY DEF QueueInv
<1>3. [q \in Queues |-> Chain(head[q], Packets)] = c /\ Chain(list, Packets) = l
    BY <1>1, <1>2, ChainIs
<1>4. c \in [Queues -> Seq(Packets)] /\ l \in Seq(Packets)
    BY <1>2 DEF Lists
<1>5. ASSUME NEW c2, NEW l2, Pointers', Ranked(next'), Lists(c2, l2)'
      PROVE  [q \in Queues |-> Chain(head[q], Packets)]' = c2 /\ Chain(list, Packets)' = l2
    BY <1>5, ChainIsNext
<1>6. CASE GetNext
  <2>1. Pointers' /\ Ranked(next') /\ Len(l) > 0 /\ Lists(c, Tail(l))'
      BY <1>1, <1>2, <1>6, GetNextLists
  <2>2. [q \in Queues |-> Chain(head[q], Packets)]' = c /\ Chain(list, Packets)' = Tail(l)
      BY <1>5, <2>1
  <2>3. l # <<>>
      BY <2>1
  <2>4. deadline' = deadline
      BY <1>6 DEF GetNext
  <2>5. Fifo!GetNext
      BY <1>3, <2>2, <2>3, <2>4 DEF Fifo!GetNext
  <2> QED
      BY <2>5 DEF Fifo!Next
<1>7. ASSUME NEW q \in Queues, Pop(q) PROVE Fifo!Next
  <2>1. Pointers' /\ Ranked(next') /\ Len(c[q]) > 0 /\ Lists([c EXCEPT ![q] = Tail(@)], l)'
      BY <1>1, <1>2, <1>7, PopLists
  <2>2. /\ [r \in Queues |-> Chain(head[r], Packets)]' = [c EXCEPT ![q] = Tail(@)]
        /\ Chain(list, Packets)' = l
      BY <1>5, <2>1
  <2>3. c[q] # <<>>
      BY <2>1
  <2>4. deadline' = deadline
      BY <1>7 DEF Pop
  <2>5. Fifo!Pop(q)
      BY <1>3, <2>2, <2>3, <2>4 DEF Fifo!Pop
  <2> QED
      BY <2>5 DEF Fifo!Next
<1>8. ASSUME NEW q \in Queues, Clear(q) PROVE Fifo!Next
  <2>1. Pointers' /\ Ranked(next') /\ Lists([c EXCEPT ![q] = <<>>], l)'
      BY <1>1, <1>2, <1>8, ClearLists
  <2>2. /\ [r \in Queues |-> Chain(head[r], Packets)]' = [c EXCEPT ![q] = <<>>]
        /\ Chain(list, Packets)' = l
      BY <1>5, <2>1
  <2>3. deadline' = deadline
      BY <1>8 DEF Clear
  <2>4. Fifo!Clear(q)
      BY <1>3, <2>2, <2>3 DEF Fifo!Clear
  <2> QED
      BY <2>4 DEF Fifo!Next
<1>9. ASSUME NEW q \in Queues, NEW p \in Packets, NEW t \in 0 .. MaxTime, Push(q, p, t) PROVE Fifo!Next
  <2>1. Pointers' /\ Ranked(next') /\ Lists([c EXCEPT ![q] = Append(@, p)], l)'
      BY <1>1, <1>2, <1>9, PushPointers, PushLists
  <2>2. /\ [r \in Queues |-> Chain(head[r], Packets)]' = [c EXCEPT ![q] = Append(@, p)]
        /\ Chain(list, Packets)' = l
      BY <1>5, <2>1
  <2>3. deadline' = [deadline EXCEPT ![p] = t] /\ owner[p] = "out"
      BY <1>9 DEF Push
  <2>4. p \notin On(l) /\ \A d \in Queues : p \notin On(c[d])
      BY <1>2, <2>3, QueueBounds DEF Lists, Owned, Holds
  <2>5. p \notin Fifo!Held
    <3>1. Fifo!In(l) = On(l) /\ \A d \in Queues : Fifo!In(c[d]) = On(c[d])
        BY <1>4, FifoIn
    <3> QED
        BY <1>3, <2>4, <3>1 DEF Fifo!Held
  <2>6. Fifo!Push(q, p, t)
      BY <1>3, <2>2, <2>3, <2>5 DEF Fifo!Push
  <2> QED
      BY <2>6 DEF Fifo!Next
<1>10. ASSUME NEW q \in Queues, NEW d \in Queues, MoveTo(q, d) PROVE Fifo!Next
  <2>1. Pointers' /\ Ranked(next') /\ q # d /\ Lists([c EXCEPT ![d] = @ \o c[q], ![q] = <<>>], l)'
      BY <1>1, <1>2, <1>10, MovePointers, MoveLists
  <2>2. /\ [r \in Queues |-> Chain(head[r], Packets)]' = [c EXCEPT ![d] = @ \o c[q], ![q] = <<>>]
        /\ Chain(list, Packets)' = l
      BY <1>5, <2>1
  <2>3. deadline' = deadline
      BY <1>10 DEF MoveTo
  <2>4. Fifo!MoveTo(q, d)
      BY <1>3, <2>1, <2>2, <2>3 DEF Fifo!MoveTo
  <2> QED
      BY <2>4 DEF Fifo!Next
<1>11. ASSUME NEW q \in Queues, NEW now \in 1 .. MaxTime + 1, GetTimeoutList(q, now) PROVE Fifo!Next
  <2>1. /\ Pointers' /\ Ranked(next') /\ l = <<>>
        /\ \E n : /\ Expired(c[q], n, now)
                  /\ Lists([c EXCEPT ![q] = SubSeq(@, n + 1, Len(@))], SubSeq(c[q], 1, n))'
      BY <1>1, <1>2, <1>11, TimeoutLists
  <2>2. PICK n : /\ Expired(c[q], n, now)
                 /\ Lists([c EXCEPT ![q] = SubSeq(@, n + 1, Len(@))], SubSeq(c[q], 1, n))'
      BY <2>1
  <2>3. /\ [r \in Queues |-> Chain(head[r], Packets)]' = [c EXCEPT ![q] = SubSeq(@, n + 1, Len(@))]
        /\ Chain(list, Packets)' = SubSeq(c[q], 1, n)
      BY <1>5, <2>1, <2>2
  <2>4. Fifo!Front(q, now) = n
      BY <1>1, <1>3, <1>4, <2>2, FrontIs
  <2>5. deadline' = deadline
      BY <1>11 DEF GetTimeoutList
  <2>6. Fifo!GetTimeoutList(q, now)
      BY <1>3, <2>1, <2>3, <2>4, <2>5 DEF Fifo!GetTimeoutList
  <2> QED
      BY <2>6 DEF Fifo!Next
<1> QED
    BY <1>6, <1>7, <1>8, <1>9, <1>10, <1>11 DEF Next

LEMMA FifoStutter ==
    ASSUME QueueInv, UNCHANGED vars
    PROVE  UNCHANGED Fifo!vars
<1>1. Pointers /\ Ranked(next)
    BY DEF QueueInv
<1>2. PICK c, l : Lists(c, l)
    BY DEF QueueInv
<1>3. [q \in Queues |-> Chain(head[q], Packets)] = c /\ Chain(list, Packets) = l
    BY <1>1, <1>2, ChainIs
<1>4. Pointers' /\ Ranked(next') /\ Lists(c, l)'
    BY <1>1, <1>2, StutterKeeps
<1>5. [q \in Queues |-> Chain(head[q], Packets)]' = c /\ Chain(list, Packets)' = l
    BY <1>4, ChainIsNext
<1>6. deadline' = deadline
    BY DEF vars
<1> QED
    BY <1>3, <1>5, <1>6 DEF Fifo!vars

LEMMA FifoStart == ASSUME Init PROVE Fifo!Init
<1>1. /\ [q \in Queues |-> Chain(head[q], Packets)] = [q \in Queues |-> <<>>]
      /\ Chain(list, Packets) = <<>>
    BY EmptyLists, ChainIs
<1>2. deadline = [p \in Packets |-> 0]
    BY DEF Init
<1> QED
    BY <1>1, <1>2 DEF Fifo!Init

-----------------------------------------------------------------------------

\* The state keeps its type: no pointer leads outside the packets, and size_
\* never passes the number of packets in play.
THEOREM TypesHold == Spec => []TypeOK
BY Invariance, InvGives, PTL

\* For any number of packets and queues, Size() and Empty() tell what is
\* linked, and tail_ is its last packet: Push never loses a packet behind a
\* stale tail, through Pop, Clear, MoveTo and GetTimeoutList.
THEOREM SizesAndTailsAgree == Spec => []SizeAndTailAgree
BY Invariance, InvGives, PTL

\* No packet hangs in two places: although Pop leaves next_ of a popped packet
\* pointing into the queue, no queue and no timed-out list reaches a packet
\* that was freed or that is someone else's.
THEOREM PacketsHaveOnePlace == Spec => []NoPacketShared
BY Invariance, InvGives, PTL

\* The linked lists are first-in first-out queues, from whose front
\* GetTimeoutList takes exactly the packets whose deadline has passed.
THEOREM QueuesAreFifo == Spec => ImplementsFifo
<1>1. Init => Fifo!Init
    BY FifoStart
<1>2. QueueInv /\ [Next]_vars => [Fifo!Next]_(Fifo!vars)
    BY FifoStep, FifoStutter
<1> QED
    BY <1>1, <1>2, Invariance, PTL DEF Spec, Fifo!Spec, ImplementsFifo
=============================================================================
