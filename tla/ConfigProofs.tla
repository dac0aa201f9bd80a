---------------------------- MODULE ConfigProofs ----------------------------
(***************************************************************************)
(* Theorems about Config.tla for files of any length and any settings: what *)
(* WriteProfileString writes is what Load finds, now and in later processes.*)
(***************************************************************************)
EXTENDS Config, TLAPS, WellFoundedInduction, SequenceTheorems

\* No comment, and no malformed row, has the head of a section in it.
PlainNotes == \A m \in Notes : m \cap Sections = {}

\* Row i of f belongs to section s.
Within(f, i, s) ==
    \E h \in 1 .. i : /\ f[h].type = "section" /\ f[h].name = s
                      /\ \A j \in h + 1 .. i : f[j].type # "section"

\* Row i of f gives the setting p a value.
Gives(f, i, p) == f[i].type = "pair" /\ f[i].name = p[2] /\ Within(f, i, p[1])

\* Load comes to the end of f; find sees the heads of section s in f; every
\* pair of f is a setting.
Whole(f) == \A i \in DOMAIN f : f[i].type # "bad"
Literal(f, s) ==
    \A i \in DOMAIN f : f[i].type = "section" /\ f[i].name = s => s \in f[i].mentions
Placed(f) == \A i \in DOMAIN f : f[i].type = "pair" =>
                 HeadOf(f, i) # 0 /\ <<f[HeadOf(f, i)].name, f[i].name>> \in Places

-----------------------------------------------------------------------------
(* Smallest and largest numbers. *)

LEMMA Least ==
    ASSUME NEW S, S # {}, S \subseteq Nat
    PROVE  \E s \in S : \A t \in S : s <= t
<1> DEFINE R == OpToRel(<, Nat)
<1>1. IsWellFoundedOn(R, Nat)
    BY NatLessThanWellFounded
<1>2. \A a, b \in Nat : a < b => <<a, b>> \in R
    BY DEF OpToRel
<1> HIDE DEF R
<1>3. PICK m \in S : \A k \in S : ~ (<<k, m>> \in R)
    BY <1>1, WFMin
<1>4. ASSUME NEW k \in S PROVE m <= k
  <2>1. k \in Nat /\ m \in Nat
      OBVIOUS
  <2>2. ~ (k < m)
      BY <1>2, <1>3, <2>1, Zenon
  <2> QED
      BY <2>1, <2>2
<1> QED
    BY <1>4

LEMMA MinIs ==
    ASSUME NEW S, S # {}, S \subseteq Nat
    PROVE  Min(S) \in S /\ \A t \in S : Min(S) <= t
<1>1. \E s \in S : \A t \in S : s <= t
    BY Least
<1> QED
    BY <1>1, Zenon DEF Min

LEMMA MaxIs ==
    ASSUME NEW n \in Nat, NEW S, S # {}, S \subseteq 1 .. n
    PROVE  Max(S) \in S /\ \A t \in S : t <= Max(S)
<1> DEFINE D == {n - s : s \in S}
<1>1. D # {} /\ D \subseteq Nat
  <2>1. \A s \in S : n - s \in Nat
      OBVIOUS
  <2>2. PICK s : s \in S
      OBVIOUS
  <2>3. n - s \in D
      BY <2>2
  <2> QED
      BY <2>1, <2>3
<1>2. PICK d \in D : \A e \in D : d <= e
  <2> HIDE DEF D
  <2> QED
      BY <1>1, Least
<1>3. PICK s \in S : d = n - s
    OBVIOUS
<1>4. ASSUME NEW t \in S PROVE t <= s
  <2>1. n - s <= n - t
      BY <1>2, <1>3
  <2>2. n \in Nat /\ s \in Nat /\ t \in Nat
      OBVIOUS
  <2> QED
      BY <2>1, <2>2
<1>5. \E x \in S : \A y \in S : x >= y
    BY <1>4
<1>6. Max(S) \in S /\ \A t \in S : Max(S) >= t
    BY <1>5, Zenon DEF Max
<1> QED
    BY <1>6

-----------------------------------------------------------------------------
(* What Load finds. *)

LEMMA RowTypes ==
    ASSUME NEW r \in Row
    PROVE  /\ r.type \in {"section", "pair", "note", "bad"}
           /\ r.type = "section" => /\ r.name \in Sections /\ r.mentions \subseteq {r.name}
                                    /\ r.name \in r.mentions => r = SectionRow(r.name)
           /\ r.type = "pair" => r.name \in Keys /\ r.value \in Values /\ r.mentions = {}
           /\ r.type = "note" => r.name = NoValue /\ r.mentions \in Notes
           /\ r.type = "bad" => /\ r.name = NoValue
                                /\ r.mentions \in Notes \/ \E s \in Long : r.mentions = {s}
           /\ r.type # "pair" => r.value = NoValue
<1>1. CASE \E s \in Sections : r = SectionRow(s)
    BY <1>1 DEF SectionRow
<1>2. CASE \E s \in Sections : r = SpacedRow(s)
    BY <1>2 DEF SpacedRow
<1>3. CASE \E k \in Keys, v \in Values : r = Pair(k, v)
    BY <1>3 DEF Pair
<1>4. CASE \E m \in Notes : r = Note(m)
    BY <1>4 DEF Note
<1>5. CASE (\E m \in Notes : r = BadRow(m)) \/ (\E s \in Long : r = BadRow({s}))
    BY <1>5 DEF BadRow
<1> QED
    BY <1>1, <1>2, <1>3, <1>4, <1>5 DEF Row

LEMMA InRow ==
    /\ \A s \in Sections : SectionRow(s) \in Row
    /\ \A k \in Keys, v \in Values : Pair(k, v) \in Row
    /\ \A s \in Long : BadRow({s}) \in Row
<1>1. ASSUME NEW r, NEW s \in Sections, r = SectionRow(s) PROVE r \in Row
    BY <1>1 DEF Row
<1>2. ASSUME NEW r, NEW k \in Keys, NEW v \in Values, r = Pair(k, v) PROVE r \in Row
    BY <1>2 DEF Row
<1>3. ASSUME NEW r, NEW s \in Long, r = BadRow({s}) PROVE r \in Row
    BY <1>3 DEF Row
<1> QED
    BY <1>1, <1>2, <1>3

LEMMA LiteralHead ==
    ASSUME NEW f \in Seq(Row), NEW s, Literal(f, s), NEW h \in DOMAIN f,
           f[h].type = "section", f[h].name = s
    PROVE  f[h] = SectionRow(s)
<1>1. f[h] \in Row /\ s \in f[h].mentions
    BY DEF Literal
<1> QED
    BY <1>1, RowTypes

LEMMA WholeRead ==
    ASSUME NEW f \in Seq(Row), Whole(f)
    PROVE  Read(f) = f /\ (Loadable(f) <=> Placed(f)) /\ \A p : LoadedValue(f, p) = AsRead(Text(f, p))
<1> DEFINE I == {i \in 1 .. Len(f) : f[i].type = "bad"}
           bad == SelectInSeq(f, LAMBDA r : r.type = "bad")
<1>1. bad = IF I # {} THEN Min(I) ELSE 0
    BY DEF SelectInSeq
<1>2. I = {}
    BY DEF Whole
<1>3. bad = 0
    BY <1>1, <1>2
<1>4. Read(f) = f
    BY <1>3 DEF Read
<1> QED
    BY <1>4 DEF Loadable, Placed, LoadedValue

LEMMA ReadType ==
    ASSUME NEW f \in Seq(Row)
    PROVE  Read(f) \in Seq(Row)
<1> DEFINE I == {i \in 1 .. Len(f) : f[i].type = "bad"}
           bad == SelectInSeq(f, LAMBDA r : r.type = "bad")
<1>1. bad = IF I # {} THEN Min(I) ELSE 0
    BY DEF SelectInSeq
<1>2. I \subseteq Nat /\ I \subseteq 1 .. Len(f) /\ Len(f) \in Nat
    OBVIOUS
<1>3. Read(f) = IF bad = 0 THEN f ELSE SubSeq(f, 1, bad - 1)
    BY DEF Read
<1> HIDE DEF I, bad
<1>4. bad = 0 \/ bad \in 1 .. Len(f)
    BY <1>1, <1>2, MinIs
<1>5. ASSUME bad \in 1 .. Len(f) PROVE SubSeq(f, 1, bad - 1) \in Seq(Row)
  <2>1. \A i \in 1 .. bad - 1 : f[i] \in Row
      BY <1>2, <1>5
  <2> QED
      BY <1>2, <1>5, <2>1, SubSeqProperties
<1> QED
    BY <1>3, <1>4, <1>5

\* HeadOf finds the section of a row.
LEMMA HeadIs ==
    ASSUME NEW f \in Seq(Row), NEW i \in DOMAIN f, NEW s
    PROVE  HeadOf(f, i) # 0 /\ f[HeadOf(f, i)].name = s <=> Within(f, i, s)
<1> DEFINE H == {j \in 1 .. i : f[j].type = "section"}
<1>0. i \in Nat /\ H \subseteq 1 .. i
    OBVIOUS
<1>1. HeadOf(f, i) = IF H # {} THEN Max(H) ELSE 0
    BY DEF HeadOf, SelectLastInSubSeq
<1>2. CASE H = {}
    BY <1>1, <1>2 DEF Within
<1>3. CASE H # {}
  <2> DEFINE m == Max(H)
  <2>1. m \in H /\ \A t \in H : t <= m
    <3> HIDE DEF H
    <3> QED
        BY <1>0, <1>3, MaxIs
  <2>2. HeadOf(f, i) = m
      BY <1>1, <1>3
  <2> HIDE DEF m
  <2>3. m \in 1 .. i /\ f[m].type = "section"
      BY <2>1
  <2>4. \A j \in m + 1 .. i : f[j].type # "section"
    <3>1. ASSUME NEW j \in m + 1 .. i, f[j].type = "section" PROVE FALSE
      <4>1. j \in 1 .. i /\ ~ (j <= m)
          BY <2>3
      <4> QED
          BY <2>1, <3>1, <4>1
    <3> QED
        BY <3>1
  <2>5. ASSUME f[m].name = s PROVE Within(f, i, s)
      BY <2>3, <2>4, <2>5 DEF Within
  <2>6. ASSUME Within(f, i, s) PROVE f[m].name = s
    <3>1. PICK h \in 1 .. i : /\ f[h].type = "section" /\ f[h].name = s
                              /\ \A j \in h + 1 .. i : f[j].type # "section"
        BY <2>6 DEF Within
    <3>2. h <= m
        BY <2>1, <3>1
    <3>3. ~ (m \in h + 1 .. i)
        BY <2>3, <3>1
    <3>4. h = m
        BY <2>3, <3>2, <3>3
    <3> QED
        BY <3>1, <3>4
  <2>7. m # 0
      BY <2>3
  <2> QED
      BY <2>2, <2>5, <2>6, <2>7
<1> QED
    BY <1>2, <1>3

\* The value of a setting is that of the first row that gives it one.
LEMMA LoadedIs ==
    ASSUME NEW f \in Seq(Row), NEW p
    PROVE  /\ (\A i \in DOMAIN f : ~ Gives(f, i, p)) => Text(f, p) = NoValue
           /\ (\E i \in DOMAIN f : Gives(f, i, p)) =>
                 \E i \in DOMAIN f : /\ Gives(f, i, p) /\ Text(f, p) = f[i].value
                                     /\ \A j \in DOMAIN f : Gives(f, j, p) => i <= j
<1> DEFINE G == {i \in DOMAIN f : /\ f[i].type = "pair" /\ f[i].name = p[2]
                                  /\ HeadOf(f, i) # 0 /\ f[HeadOf(f, i)].name = p[1]}
<1>1. Text(f, p) = IF G = {} THEN NoValue ELSE f[Min(G)].value
    BY DEF Text
<1>2. \A i \in DOMAIN f : i \in G <=> Gives(f, i, p)
    BY HeadIs DEF Gives
<1>3. G \subseteq DOMAIN f /\ DOMAIN f \subseteq Nat
    OBVIOUS
<1> HIDE DEF G
<1>4. CASE G = {}
    BY <1>1, <1>2, <1>4
<1>5. CASE G # {}
  <2> DEFINE m == Min(G)
  <2>1. m \in G /\ \A j \in G : m <= j
      BY <1>3, <1>5, MinIs
  <2> HIDE DEF m
  <2>2. Text(f, p) = f[m].value
      BY <1>1, <1>5 DEF m
  <2>3. m \in DOMAIN f /\ Gives(f, m, p) /\ \A j \in DOMAIN f : Gives(f, j, p) => m <= j
      BY <1>2, <1>3, <2>1
  <2> QED
      BY <2>2, <2>3
<1> QED
    BY <1>4, <1>5

\* The first row that gives a setting its value decides.
LEMMA LoadedFirst ==
    ASSUME NEW f \in Seq(Row), NEW p, NEW i \in DOMAIN f, Gives(f, i, p),
           \A j \in DOMAIN f : Gives(f, j, p) => i <= j
    PROVE  Text(f, p) = f[i].value
<1>1. PICK m \in DOMAIN f : /\ Gives(f, m, p) /\ Text(f, p) = f[m].value
                            /\ \A j \in DOMAIN f : Gives(f, j, p) => m <= j
    BY LoadedIs
<1>2. i <= m /\ m <= i /\ i \in Nat /\ m \in Nat
    BY <1>1
<1> QED
    BY <1>1, <1>2

LEMMA LoadedType ==
    ASSUME NEW f \in Seq(Row), NEW p
    PROVE  Text(f, p) \in Values \cup {NoValue}
<1>1. ASSUME NEW i \in DOMAIN f, Gives(f, i, p) PROVE f[i].value \in Values
  <2>1. f[i] \in Row /\ f[i].type = "pair"
      BY <1>1 DEF Gives
  <2> QED
      BY <2>1, RowTypes
<1> QED
    BY <1>1, LoadedIs

\* A file that has the rows of f for setting p, in their order, gives it the
\* same value.
LEMMA LoadCarries ==
    ASSUME NEW f \in Seq(Row), NEW g \in Seq(Row), NEW p, NEW e \in [DOMAIN f -> DOMAIN g],
           \A i, j \in DOMAIN f : i <= j => e[i] <= e[j],
           \A i \in DOMAIN f : Gives(f, i, p) => Gives(g, e[i], p) /\ g[e[i]].value = f[i].value,
           \A j \in DOMAIN g : Gives(g, j, p) => \E i \in DOMAIN f : j = e[i] /\ Gives(f, i, p)
    PROVE  Text(g, p) = Text(f, p)
<1>1. CASE \A i \in DOMAIN f : ~ Gives(f, i, p)
  <2>1. \A j \in DOMAIN g : ~ Gives(g, j, p)
      BY <1>1
  <2> QED
      BY <1>1, <2>1, LoadedIs
<1>2. CASE \E i \in DOMAIN f : Gives(f, i, p)
  <2>1. PICK m \in DOMAIN f : /\ Gives(f, m, p) /\ Text(f, p) = f[m].value
                              /\ \A j \in DOMAIN f : Gives(f, j, p) => m <= j
      BY <1>2, LoadedIs
  <2>2. e[m] \in DOMAIN g /\ Gives(g, e[m], p) /\ g[e[m]].value = f[m].value
      BY <2>1
  <2>3. \A j \in DOMAIN g : Gives(g, j, p) => e[m] <= j
      BY <2>1
  <2>4. Text(g, p) = g[e[m]].value
      BY <2>2, <2>3, LoadedFirst
  <2> QED
      BY <2>1, <2>2, <2>4
<1> QED
    BY <1>1, <1>2

\* Every pair of a file that can be loaded is a setting.
LEMMA PlacedIs ==
    ASSUME NEW f \in Seq(Row)
    PROVE  Placed(f) <=> \A i \in DOMAIN f : f[i].type = "pair" =>
                               \E s : Within(f, i, s) /\ <<s, f[i].name>> \in Places
<1>1. ASSUME NEW i \in DOMAIN f
      PROVE  HeadOf(f, i) # 0 /\ <<f[HeadOf(f, i)].name, f[i].name>> \in Places
             <=> \E s : Within(f, i, s) /\ <<s, f[i].name>> \in Places
    BY HeadIs
<1> QED
    BY <1>1 DEF Placed

-----------------------------------------------------------------------------
(* What WriteProfileString writes. *)

\* Rows before i decide the section of row i.
LEMMA WithinSame ==
    ASSUME NEW f, NEW g, NEW i \in Nat, NEW s,
           \A j \in 1 .. i : g[j].type = f[j].type /\ g[j].name = f[j].name
    PROVE  Within(g, i, s) <=> Within(f, i, s)
<1>1. \A h \in 1 .. i : \A j \in h + 1 .. i : j \in 1 .. i
    OBVIOUS
<1> QED
    BY <1>1 DEF Within

\* A concatenation, by index.
LEMMA JoinFacts ==
    ASSUME NEW T, NEW s \in Seq(T), NEW t \in Seq(T)
    PROVE  /\ s \o t \in Seq(T) /\ Len(s \o t) = Len(s) + Len(t)
           /\ \A i \in 1 .. Len(s) : (s \o t)[i] = s[i]
           /\ \A i \in 1 .. Len(t) : (s \o t)[Len(s) + i] = t[i]
OBVIOUS

LEMMA InsertAtDef ==
    ASSUME NEW q, NEW k, NEW r
    PROVE  InsertAt(q, k, r) = SubSeq(q, 1, k - 1) \o <<r>> \o SubSeq(q, k, Len(q))
BY DEF InsertAt

\* The rows of a file with pair r put in after row c.
Inserted(f, g, c, r) ==
    /\ g \in Seq(Row) /\ Len(g) = Len(f) + 1
    /\ \A i \in 1 .. c : g[i] = f[i]
    /\ g[c + 1] = r
    /\ \A i \in c + 1 .. Len(f) : g[i + 1] = f[i]

LEMMA InsertAtIs ==
    ASSUME NEW f \in Seq(Row), NEW c \in DOMAIN f, NEW r \in Row
    PROVE  Inserted(f, InsertAt(f, c + 1, r), c, r)
<1> DEFINE a == SubSeq(f, 1, c)
           b == SubSeq(f, c + 1, Len(f))
           ar == a \o <<r>>
           g == ar \o b
<1>0. c \in Nat /\ Len(f) \in Nat /\ c <= Len(f) /\ c + 1 - 1 = c
    OBVIOUS
<1>1. InsertAt(f, c + 1, r) = g
  <2> DEFINE k == c + 1
  <2>1. k - 1 = c
      BY <1>0
  <2>2. b = SubSeq(f, k, Len(f))
      OBVIOUS
  <2> HIDE DEF k, b
  <2>3. InsertAt(f, k, r) = SubSeq(f, 1, k - 1) \o <<r>> \o SubSeq(f, k, Len(f))
      BY InsertAtDef
  <2>4. InsertAt(f, k, r) = g
      BY <2>1, <2>2, <2>3
  <2> QED
      BY <2>4 DEF k
<1>2. a \in Seq(Row) /\ Len(a) = c /\ \A i \in 1 .. c : a[i] = f[i]
    OBVIOUS
<1>3. b \in Seq(Row) /\ Len(b) = Len(f) - c /\ \A i \in 1 .. Len(f) - c : b[i] = f[c + i]
  <2>1. \A i \in c + 1 .. Len(f) : f[i] \in Row
      OBVIOUS
  <2>2. /\ b \in Seq(Row)
        /\ Len(b) = IF c + 1 <= Len(f) THEN Len(f) - (c + 1) + 1 ELSE 0
        /\ \A i \in 1 .. Len(f) - (c + 1) + 1 : b[i] = f[(c + 1) + i - 1]
      BY <1>0, <2>1, SubSeqProperties
  <2> HIDE DEF b
  <2>3. Len(f) - (c + 1) + 1 = Len(f) - c
      BY <1>0
  <2>4. Len(b) = Len(f) - c
      BY <1>0, <2>2
  <2>5. \A i \in 1 .. Len(f) - c : (c + 1) + i - 1 = c + i
      BY <1>0
  <2> QED
      BY <2>2, <2>3, <2>4, <2>5
<1> HIDE DEF a, b
<1>4. /\ ar \in Seq(Row) /\ Len(ar) = c + 1
      /\ \A i \in 1 .. c : ar[i] = f[i]
      /\ ar[c + 1] = r
  <2>1. <<r>> \in Seq(Row) /\ Len(<<r>>) = 1 /\ <<r>>[1] = r /\ 1 \in 1 .. 1
      OBVIOUS
  <2> QED
      BY <1>0, <1>2, <2>1, JoinFacts
<1> HIDE DEF ar
<1>5. g \in Seq(Row) /\ Len(g) = Len(f) + 1
  <2>1. ar \in Seq(Row) /\ b \in Seq(Row)
      BY <1>3, <1>4
  <2>2. g \in Seq(Row) /\ Len(g) = Len(ar) + Len(b)
      BY ONLY <2>1, JoinFacts DEF g
  <2>3. Len(ar) = c + 1 /\ Len(b) = Len(f) - c
      BY <1>3, <1>4
  <2> HIDE DEF g
  <2> QED
      BY <1>0, <2>2, <2>3
<1>6. /\ \A i \in 1 .. c + 1 : g[i] = ar[i]
      /\ \A i \in 1 .. Len(f) - c : g[c + 1 + i] = b[i]
    BY <1>3, <1>4, JoinFacts
<1> HIDE DEF g
<1>7. ASSUME NEW i \in c + 1 .. Len(f) PROVE g[i + 1] = f[i]
  <2>1. i - c \in 1 .. Len(f) - c /\ c + 1 + (i - c) = i + 1 /\ c + (i - c) = i
      BY <1>0
  <2> QED
      BY <1>3, <1>6, <2>1
<1>8. \A i \in 1 .. c : i \in 1 .. c + 1
    BY <1>0
<1>9. c + 1 \in 1 .. c + 1
    BY <1>0
<1> QED
    BY <1>1, <1>4, <1>5, <1>6, <1>7, <1>8, <1>9 DEF Inserted

\* Putting in a pair leaves every other row in its section.
LEMMA WithinInserted ==
    ASSUME NEW f \in Seq(Row), NEW g, NEW c \in DOMAIN f, NEW r, r.type = "pair",
           Inserted(f, g, c, r), NEW s
    PROVE  /\ \A i \in 1 .. c : Within(g, i, s) <=> Within(f, i, s)
           /\ Within(g, c + 1, s) <=> Within(f, c, s)
           /\ \A i \in c + 1 .. Len(f) : Within(g, i + 1, s) <=> Within(f, i, s)
<1>0. /\ c \in Nat /\ Len(f) \in Nat /\ 1 <= c /\ c <= Len(f)
      /\ \A i \in 1 .. c : g[i] = f[i]
      /\ g[c + 1].type = "pair"
      /\ \A i \in c + 1 .. Len(f) : g[i + 1] = f[i]
    BY DEF Inserted
<1>1. ASSUME NEW i \in 1 .. c PROVE Within(g, i, s) <=> Within(f, i, s)
  <2>1. i \in Nat /\ \A j \in 1 .. i : j \in 1 .. c
      BY <1>0
  <2> QED
      BY <1>0, <2>1, WithinSame
<1>2. ASSUME NEW i \in c .. Len(f), Within(f, i, s) PROVE Within(g, i + 1, s)
  <2>1. PICK h \in 1 .. i : /\ f[h].type = "section" /\ f[h].name = s
                            /\ \A j \in h + 1 .. i : f[j].type # "section"
      BY <1>2 DEF Within
  <2> DEFINE k == IF h <= c THEN h ELSE h + 1
  <2>2. k \in 1 .. i + 1 /\ g[k] = f[h]
    <3>1. CASE h <= c
        BY <1>0, <3>1
    <3>2. CASE h > c
      <4>1. h \in c + 1 .. Len(f)
          BY <1>0, <3>2
      <4> QED
          BY <1>0, <3>2, <4>1
    <3> QED
        BY <1>0, <3>1, <3>2
  <2>3. ASSUME NEW j \in k + 1 .. i + 1 PROVE g[j].type # "section"
    <3>1. CASE j <= c
      <4>1. j \in 1 .. c /\ j \in h + 1 .. i
          BY <1>0, <3>1
      <4> QED
          BY <1>0, <2>1, <4>1
    <3>2. CASE j = c + 1
        BY <1>0, <3>2
    <3>3. CASE j > c + 1
      <4>1. j - 1 \in c + 1 .. Len(f) /\ j - 1 \in h + 1 .. i /\ (j - 1) + 1 = j
          BY <1>0, <3>3
      <4>2. g[(j - 1) + 1] = f[j - 1]
          BY <1>0, <4>1
      <4> QED
          BY <2>1, <4>1, <4>2
    <3> QED
        BY <1>0, <3>1, <3>2, <3>3
  <2> HIDE DEF k
  <2> QED
      BY <2>1, <2>2, <2>3 DEF Within
<1>3. ASSUME NEW i \in c .. Len(f), Within(g, i + 1, s) PROVE Within(f, i, s)
  <2>1. PICK k \in 1 .. i + 1 : /\ g[k].type = "section" /\ g[k].name = s
                                /\ \A j \in k + 1 .. i + 1 : g[j].type # "section"
      BY <1>3 DEF Within
  <2> DEFINE h == IF k <= c THEN k ELSE k - 1
  <2>2. k # c + 1
      BY <1>0, <2>1
  <2>3. h \in 1 .. i /\ g[k] = f[h]
    <3>1. CASE k <= c
        BY <1>0, <3>1
    <3>2. CASE k > c + 1
      <4>1. k - 1 \in c + 1 .. Len(f) /\ (k - 1) + 1 = k /\ k - 1 \in 1 .. i /\ ~ (k <= c)
          BY <1>0, <3>2
      <4>2. g[(k - 1) + 1] = f[k - 1]
          BY <1>0, <4>1
      <4> QED
          BY <4>1, <4>2
    <3> QED
        BY <1>0, <2>2, <3>1, <3>2
  <2>4. ASSUME NEW j \in h + 1 .. i PROVE f[j].type # "section"
    <3>1. CASE j <= c
      <4>1. j \in 1 .. c /\ j \in k + 1 .. i + 1
          BY <1>0, <3>1
      <4> QED
          BY <1>0, <2>1, <4>1
    <3>2. CASE j > c
      <4>1. j \in c + 1 .. Len(f) /\ j + 1 \in k + 1 .. i + 1
          BY <1>0, <3>2
      <4> QED
          BY <1>0, <2>1, <4>1
    <3> QED
        BY <1>0, <3>1, <3>2
  <2> HIDE DEF h
  <2> QED
      BY <2>1, <2>3, <2>4 DEF Within
<1>4. c \in c .. Len(f) /\ \A i \in c + 1 .. Len(f) : i \in c .. Len(f)
    BY <1>0
<1> QED
    BY <1>1, <1>2, <1>3, <1>4

\* The text of each setting in g is that in f, but v for p if find sees the
\* heads of its section.
Written(f, g, p, v) ==
    /\ g \in Seq(Row) /\ Placed(g)
    /\ \A s : Literal(g, s) => Literal(f, s)
    /\ \A q \in Places : Clear(q) /\ q # p => Text(g, q) = Text(f, q)
    /\ Clear(p) /\ Literal(f, p[1]) => Text(g, p) = v

LEMMA PlaceTypes ==
    ASSUME NEW p \in Places
    PROVE  p[1] \in Sections /\ p[2] \in Keys /\ p = <<p[1], p[2]>>
BY ConfigBounds

LEMMA SamePlace ==
    ASSUME NEW p \in Places, NEW q \in Places, q[1] = p[1], q[2] = p[2]
    PROVE  q = p
BY PlaceTypes

LEMMA RowsWritten ==
    ASSUME NEW p \in Places, NEW v \in Values
    PROVE  /\ SectionRow(p[1]) \in Row /\ SectionRow(p[1]).type = "section"
           /\ SectionRow(p[1]).name = p[1]
           /\ Pair(p[2], v) \in Row /\ Pair(p[2], v).type = "pair"
           /\ Pair(p[2], v).name = p[2] /\ Pair(p[2], v).value = v
<1>1. p[1] \in Sections /\ p[2] \in Keys
    BY PlaceTypes
<1>2. SectionRow(p[1]) \in Row
    BY <1>1, InRow
<1>3. Pair(p[2], v) \in Row
    BY <1>1, InRow
<1> QED
    BY <1>2, <1>3 DEF SectionRow, Pair

\* A new section goes to the end of the file.
LEMMA NewSection ==
    ASSUME NEW f \in Seq(Row), Placed(f), NEW p \in Places, NEW v \in Values,
           \A i \in DOMAIN f : f[i] # SectionRow(p[1])
    PROVE  Written(f, f \o <<SectionRow(p[1]), Pair(p[2], v)>>, p, v)
<1> DEFINE t == <<SectionRow(p[1]), Pair(p[2], v)>>
           g == f \o t
           n == Len(f)
<1>0. n \in Nat /\ DOMAIN f = 1 .. n
    OBVIOUS
<1>1. /\ g \in Seq(Row) /\ Len(g) = n + 2
      /\ \A i \in 1 .. n : g[i] = f[i]
      /\ g[n + 1] = SectionRow(p[1]) /\ g[n + 2] = Pair(p[2], v)
  <2>1. /\ t \in Seq(Row) /\ Len(t) = 2 /\ t[1] = SectionRow(p[1]) /\ t[2] = Pair(p[2], v)
        /\ 1 \in 1 .. 2 /\ 2 \in 1 .. 2
      BY RowsWritten
  <2> HIDE DEF t
  <2>2. /\ g \in Seq(Row) /\ Len(g) = n + Len(t)
        /\ \A i \in 1 .. n : g[i] = f[i]
        /\ \A i \in 1 .. Len(t) : g[n + i] = t[i]
    <3>1. f \in Seq(Row) /\ t \in Seq(Row)
        BY <2>1
    <3> QED
        BY ONLY <3>1, JoinFacts DEF g, n
  <2> HIDE DEF g, n
  <2> QED
      BY <2>1, <2>2
<1> HIDE DEF g, t
<1>2. DOMAIN g = 1 .. n + 2
    BY <1>1
<1>3. ASSUME NEW i \in 1 .. n, NEW s PROVE Within(g, i, s) <=> Within(f, i, s)
  <2>1. i \in Nat /\ \A j \in 1 .. i : j \in 1 .. n
      BY <1>0
  <2> QED
      BY <1>1, <2>1, WithinSame
<1>4. ASSUME NEW s PROVE Within(g, n + 2, s) <=> s = p[1]
  <2>1. /\ n + 1 \in 1 .. n + 2 /\ g[n + 1].type = "section" /\ g[n + 1].name = p[1]
        /\ \A j \in (n + 1) + 1 .. n + 2 : j = n + 2
        /\ g[n + 2].type = "pair"
      BY <1>0, <1>1, RowsWritten
  <2>2. Within(g, n + 2, p[1])
      BY <2>1 DEF Within
  <2>3. ASSUME Within(g, n + 2, s) PROVE s = p[1]
    <3>1. PICK h \in 1 .. n + 2 : /\ g[h].type = "section" /\ g[h].name = s
                                  /\ \A j \in h + 1 .. n + 2 : g[j].type # "section"
        BY <2>3 DEF Within
    <3>2. h # n + 2 /\ ~ (n + 1 \in h + 1 .. n + 2)
        BY <2>1, <3>1
    <3>3. h = n + 1
        BY <1>0, <3>2
    <3> QED
        BY <2>1, <3>1, <3>3
  <2> QED
      BY <2>2, <2>3
<1>5. ASSUME NEW i \in 1 .. n + 2, g[i].type = "pair" PROVE i \in 1 .. n \/ i = n + 2
  <2>1. i # n + 1
      BY <1>1, <1>5, RowsWritten
  <2> QED
      BY <1>0, <2>1
<1>6. Placed(g)
  <2>1. ASSUME NEW i \in DOMAIN g, g[i].type = "pair"
        PROVE  \E s : Within(g, i, s) /\ <<s, g[i].name>> \in Places
    <3>1. CASE i \in 1 .. n
        BY <1>0, <1>1, <1>3, <2>1, <3>1, PlacedIs
    <3>2. CASE i = n + 2
      <4>1. Within(g, n + 2, p[1]) /\ g[n + 2].name = p[2]
          BY <1>1, <1>4, RowsWritten
      <4>2. <<p[1], g[n + 2].name>> \in Places
          BY <4>1, PlaceTypes
      <4> QED
          BY <3>2, <4>1, <4>2
    <3> QED
        BY <1>2, <1>5, <2>1, <3>1, <3>2
  <2> QED
      BY <1>1, <2>1, PlacedIs
<1>7. ASSUME NEW q \in Places
      PROVE  /\ \A i \in 1 .. n : Gives(g, i, q) <=> Gives(f, i, q)
             /\ \A i \in 1 .. n + 2 : Gives(g, i, q) => i \in 1 .. n \/ (i = n + 2 /\ q = p)
  <2>1. \A i \in 1 .. n : Gives(g, i, q) <=> Gives(f, i, q)
      BY <1>1, <1>3 DEF Gives
  <2>2. ASSUME NEW i \in 1 .. n + 2, Gives(g, i, q) PROVE i \in 1 .. n \/ (i = n + 2 /\ q = p)
    <3>1. i \in 1 .. n \/ i = n + 2
        BY <1>5, <2>2 DEF Gives
    <3>2. CASE i = n + 2
      <4>1. q[1] = p[1] /\ q[2] = p[2]
          BY <1>1, <1>4, <2>2, <3>2, RowsWritten DEF Gives
      <4> QED
          BY <3>2, <4>1, SamePlace
    <3> QED
        BY <3>1, <3>2
  <2> QED
      BY <2>1, <2>2
<1>8. ASSUME Literal(f, p[1]) PROVE Text(g, p) = v
  <2>1. n + 2 \in DOMAIN g /\ Gives(g, n + 2, p) /\ g[n + 2].value = v
      BY <1>0, <1>1, <1>2, <1>4, RowsWritten DEF Gives
  <2>2. \A i \in 1 .. n : ~ Gives(f, i, p)
    <3>1. ASSUME NEW i \in 1 .. n, Gives(f, i, p) PROVE FALSE
      <4>1. PICK h \in 1 .. i : f[h].type = "section" /\ f[h].name = p[1]
          BY <3>1 DEF Gives, Within
      <4>2. h \in DOMAIN f
          BY <1>0
      <4> QED
          BY <1>8, <4>1, <4>2, LiteralHead
    <3> QED
        BY <3>1
  <2>3. ASSUME NEW j \in DOMAIN g, Gives(g, j, p) PROVE n + 2 <= j
    <3>1. j = n + 2
        BY <1>2, <1>7, <2>2, <2>3
    <3> QED
        BY <1>0, <3>1
  <2>4. Text(g, p) = g[n + 2].value
      BY <1>1, <2>1, <2>3, LoadedFirst
  <2> QED
      BY <2>1, <2>4
<1>9. ASSUME NEW q \in Places, q # p PROVE Text(g, q) = Text(f, q)
  <2> DEFINE e == [i \in DOMAIN f |-> i]
  <2>1. e \in [DOMAIN f -> DOMAIN g] /\ \A i, j \in DOMAIN f : i <= j => e[i] <= e[j]
      BY <1>0, <1>2
  <2>2. \A i \in DOMAIN f : e[i] = i
      OBVIOUS
  <2> HIDE DEF e
  <2>3. \A i \in DOMAIN f : Gives(f, i, q) => Gives(g, e[i], q) /\ g[e[i]].value = f[i].value
      BY <1>0, <1>1, <1>7, <2>2
  <2>4. \A j \in DOMAIN g : Gives(g, j, q) => \E i \in DOMAIN f : j = e[i] /\ Gives(f, i, q)
      BY <1>0, <1>2, <1>7, <1>9, <2>2
  <2> QED
      BY <1>1, <2>1, <2>3, <2>4, LoadCarries
<1>10. ASSUME NEW s, Literal(g, s) PROVE Literal(f, s)
    BY <1>0, <1>1, <1>2, <1>10 DEF Literal
<1>11. Written(f, g, p, v)
    BY <1>1, <1>6, <1>8, <1>9, <1>10 DEF Written
<1> QED
    BY <1>11 DEF g, t

\* A new key goes right after the first head of its section.
LEMMA NewKey ==
    ASSUME NEW f \in Seq(Row), Placed(f), NEW p \in Places, NEW v \in Values,
           NEW c \in DOMAIN f, f[c].type = "section", f[c].name = p[1],
           \A i \in 1 .. c - 1 : f[i] # SectionRow(p[1]),
           \A i \in c + 1 .. Len(f) : f[i].name # p[2]
    PROVE  Written(f, WithNewKey(f, c, p[2], v), p, v)
<1> DEFINE g == WithNewKey(f, c, p[2], v)
           r == Pair(p[2], v)
           n == Len(f)
<1>0. n \in Nat /\ DOMAIN f = 1 .. n /\ c \in Nat /\ 1 <= c /\ c <= n
    OBVIOUS
<1>1. Inserted(f, g, c, r) /\ r \in Row /\ r.type = "pair" /\ r.name = p[2] /\ r.value = v
    BY InsertAtIs, RowsWritten DEF WithNewKey
<1> HIDE DEF g, r
<1>2. /\ g \in Seq(Row) /\ Len(g) = n + 1 /\ DOMAIN g = 1 .. n + 1
      /\ \A i \in 1 .. c : g[i] = f[i]
      /\ g[c + 1] = r
      /\ \A i \in c + 1 .. n : g[i + 1] = f[i]
    BY <1>1 DEF Inserted
<1>3. ASSUME NEW s
      PROVE  /\ \A i \in 1 .. c : Within(g, i, s) <=> Within(f, i, s)
             /\ Within(g, c + 1, s) <=> Within(f, c, s)
             /\ \A i \in c + 1 .. n : Within(g, i + 1, s) <=> Within(f, i, s)
    BY <1>1, WithinInserted
<1>4. ASSUME NEW s PROVE Within(f, c, s) <=> s = p[1]
  <2>1. c \in 1 .. c /\ \A j \in c + 1 .. c : FALSE
      BY <1>0
  <2>2. Within(f, c, p[1])
      BY <2>1 DEF Within
  <2>3. ASSUME Within(f, c, s) PROVE s = p[1]
    <3>1. PICK h \in 1 .. c : /\ f[h].type = "section" /\ f[h].name = s
                              /\ \A j \in h + 1 .. c : f[j].type # "section"
        BY <2>3 DEF Within
    <3>2. ~ (c \in h + 1 .. c)
        BY <3>1
    <3>3. h = c
        BY <1>0, <3>2
    <3> QED
        BY <3>1, <3>3
  <2> QED
      BY <2>2, <2>3
<1>5. ASSUME NEW i \in 1 .. n + 1
      PROVE  i \in 1 .. c \/ i = c + 1 \/ (i - 1 \in c + 1 .. n /\ (i - 1) + 1 = i)
    BY <1>0
<1>6. Placed(g)
  <2>1. ASSUME NEW i \in DOMAIN g, g[i].type = "pair"
        PROVE  \E s : Within(g, i, s) /\ <<s, g[i].name>> \in Places
    <3>1. CASE i \in 1 .. c
      <4>1. i \in DOMAIN f
          BY <1>0, <3>1
      <4> QED
          BY <1>2, <1>3, <2>1, <3>1, <4>1, PlacedIs
    <3>2. CASE i = c + 1
      <4>1. Within(g, c + 1, p[1]) /\ g[c + 1].name = p[2] /\ <<p[1], p[2]>> \in Places
          BY <1>1, <1>2, <1>3, <1>4, PlaceTypes
      <4> QED
          BY <3>2, <4>1
    <3>3. ASSUME NEW j \in c + 1 .. n, i = j + 1
          PROVE  \E s : Within(g, i, s) /\ <<s, g[i].name>> \in Places
      <4>1. j \in DOMAIN f /\ g[i] = f[j]
          BY <1>0, <1>2, <3>3
      <4> QED
          BY <1>3, <2>1, <3>3, <4>1, PlacedIs
    <3> QED
        BY <1>2, <1>5, <3>1, <3>2, <3>3
  <2> QED
      BY <1>2, <2>1, PlacedIs
<1>7. ASSUME NEW q \in Places
      PROVE  /\ \A i \in 1 .. c : Gives(g, i, q) <=> Gives(f, i, q)
             /\ Gives(g, c + 1, q) <=> q = p
             /\ \A i \in c + 1 .. n : Gives(g, i + 1, q) <=> Gives(f, i, q)
  <2>1. Gives(g, c + 1, q) <=> q[1] = p[1] /\ q[2] = p[2]
      BY <1>1, <1>2, <1>3, <1>4 DEF Gives
  <2>2. Gives(g, c + 1, q) <=> q = p
      BY <2>1, SamePlace
  <2> QED
      BY <1>2, <1>3, <2>2 DEF Gives
<1>8. ASSUME Literal(f, p[1]) PROVE Text(g, p) = v
  <2>1. c + 1 \in DOMAIN g /\ Gives(g, c + 1, p) /\ g[c + 1].value = v
      BY <1>0, <1>1, <1>2, <1>7
  <2>2. ASSUME NEW i \in 1 .. n, Gives(f, i, p) PROVE FALSE
    <3>1. i \notin c + 1 .. n
        BY <2>2 DEF Gives
    <3>2. i # c
        BY <2>2 DEF Gives
    <3>3. PICK h \in 1 .. i : f[h].type = "section" /\ f[h].name = p[1]
        BY <2>2 DEF Gives, Within
    <3>4. h \in 1 .. c - 1 /\ h \in DOMAIN f
        BY <1>0, <3>1, <3>2
    <3> QED
        BY <1>8, <3>3, <3>4, LiteralHead
  <2>3. ASSUME NEW j \in DOMAIN g, Gives(g, j, p) PROVE c + 1 <= j
    <3>1. j \notin 1 .. c
      <4>1. ASSUME j \in 1 .. c PROVE FALSE
        <5>1. j \in 1 .. n /\ Gives(f, j, p)
            BY <1>0, <1>7, <2>3, <4>1
        <5> QED
            BY <2>2, <5>1
      <4> QED
          BY <4>1
    <3> QED
        BY <1>0, <1>2, <3>1
  <2>4. Text(g, p) = g[c + 1].value
      BY <1>2, <2>1, <2>3, LoadedFirst, SMTT(30)
  <2> QED
      BY <2>1, <2>4
<1>9. ASSUME NEW q \in Places, q # p PROVE Text(g, q) = Text(f, q)
  <2> DEFINE e == [i \in DOMAIN f |-> IF i <= c THEN i ELSE i + 1]
  <2>1. e \in [DOMAIN f -> DOMAIN g] /\ \A i, j \in DOMAIN f : i <= j => e[i] <= e[j]
      BY <1>0, <1>2
  <2>2. /\ \A i \in 1 .. c : i \in DOMAIN f /\ e[i] = i
        /\ \A i \in c + 1 .. n : i \in DOMAIN f /\ e[i] = i + 1
        /\ \A i \in DOMAIN f : i \in 1 .. c \/ i \in c + 1 .. n
      BY <1>0
  <2> HIDE DEF e
  <2>3. ASSUME NEW i \in DOMAIN f, Gives(f, i, q) PROVE Gives(g, e[i], q) /\ g[e[i]].value = f[i].value
    <3>1. CASE i \in 1 .. c
        BY <1>2, <1>7, <2>2, <2>3, <3>1
    <3>2. CASE i \in c + 1 .. n
        BY <1>2, <1>7, <2>2, <2>3, <3>2
    <3> QED
        BY <2>2, <3>1, <3>2
  <2>4. ASSUME NEW j \in DOMAIN g, Gives(g, j, q) PROVE \E i \in DOMAIN f : j = e[i] /\ Gives(f, i, q)
    <3>1. CASE j \in 1 .. c
        BY <1>7, <2>2, <2>4, <3>1
    <3>2. ASSUME NEW i \in c + 1 .. n, j = i + 1 PROVE \E k \in DOMAIN f : j = e[k] /\ Gives(f, k, q)
        BY <1>7, <2>2, <2>4, <3>2
    <3>3. j # c + 1
        BY <1>7, <1>9, <2>4
    <3> QED
        BY <1>2, <1>5, <3>1, <3>2, <3>3
  <2> QED
      BY <1>2, <2>1, <2>3, <2>4, LoadCarries, ZenonT(30)
<1>10. ASSUME NEW s, Literal(g, s) PROVE Literal(f, s)
  <2> SUFFICES ASSUME NEW i \in DOMAIN f, f[i].type = "section", f[i].name = s PROVE s \in f[i].mentions
      BY DEF Literal
  <2>1. CASE i \in 1 .. c
      BY <1>0, <1>2, <1>10, <2>1 DEF Literal
  <2>2. CASE i \in c + 1 .. n
    <3>1. i + 1 \in DOMAIN g /\ g[i + 1] = f[i]
        BY <1>0, <1>2, <2>2
    <3> QED
        BY <1>10, <3>1 DEF Literal
  <2> QED
      BY <1>0, <2>1, <2>2
<1>11. Written(f, g, p, v)
    BY <1>2, <1>6, <1>8, <1>9, <1>10 DEF Written
<1> QED
    BY <1>11 DEF g

\* A key that was found gets its value where it stands, and is the first of its
\* kind if it is clear; a key found in another row changes nothing.
LEMMA OldKey ==
    ASSUME NEW f \in Seq(Row), Placed(f), NEW p \in Places, NEW v \in Values,
           NEW c \in DOMAIN f, Whole(f),
           \A i \in 1 .. c - 1 : f[i] # SectionRow(p[1]),
           NEW k \in c + 1 .. Len(f), HasKey(f[k], p[2]),
           \A i \in c + 1 .. Len(f) : HasKey(f[i], p[2]) => k <= i,
           f[c].type = "section"
    PROVE  Written(f, WithKey(f, k, p[2], v), p, v)
<1> DEFINE g == WithKey(f, k, p[2], v)
           n == Len(f)
<1>0. /\ n \in Nat /\ DOMAIN f = 1 .. n /\ c \in Nat /\ 1 <= c /\ c <= n
      /\ k \in DOMAIN f /\ f[k] \in Row
    OBVIOUS
<1>1. CASE f[k].type = "pair" /\ f[k].name = p[2]
  <2>1. /\ g \in Seq(Row) /\ DOMAIN g = DOMAIN f
        /\ g[k] = Pair(p[2], v) /\ \A i \in DOMAIN f : i # k => g[i] = f[i]
    <3>1. g = [f EXCEPT ![k] = Pair(p[2], v)]
        BY <1>1 DEF WithKey, ReplaceAt
    <3>2. Pair(p[2], v) \in Row
        BY RowsWritten
    <3> HIDE DEF g
    <3> QED
        BY <1>0, <3>1, <3>2
  <2> HIDE DEF g
  <2>2. g[k].type = "pair" /\ g[k].name = p[2] /\ g[k].value = v
      BY <2>1, RowsWritten
  <2>3. \A i \in DOMAIN f : g[i].type = f[i].type /\ g[i].name = f[i].name
      BY <1>1, <2>1, <2>2
  <2>4. ASSUME NEW i \in DOMAIN f, NEW s PROVE Within(g, i, s) <=> Within(f, i, s)
    <3>1. i \in Nat /\ \A j \in 1 .. i : j \in DOMAIN f
        BY <1>0
    <3> QED
        BY <2>3, <3>1, WithinSame
  <2>5. \A q : \A i \in DOMAIN f : Gives(g, i, q) <=> Gives(f, i, q)
      BY <2>3, <2>4 DEF Gives
  <2>6. Placed(g)
    <3>1. ASSUME NEW i \in DOMAIN g, g[i].type = "pair"
          PROVE  \E s : Within(g, i, s) /\ <<s, g[i].name>> \in Places
      <4>1. i \in DOMAIN f /\ f[i].type = "pair" /\ g[i].name = f[i].name
          BY <2>1, <2>3, <3>1
      <4>2. PICK s : Within(f, i, s) /\ <<s, f[i].name>> \in Places
          BY <4>1, PlacedIs
      <4> QED
          BY <2>4, <4>1, <4>2
    <3> QED
        BY <2>1, <3>1, PlacedIs
  <2>7. ASSUME Clear(p), Literal(f, p[1]) PROVE Text(g, p) = v
    <3>1. Gives(f, k, p)
      <4>1. PICK s : Within(f, k, s) /\ <<s, f[k].name>> \in Places
          BY <1>0, <1>1, PlacedIs
      <4>2. <<s, p[2]>> = p
          BY <1>1, <2>7, <4>1 DEF Clear
      <4>3. s = p[1]
          BY <4>2
      <4> QED
          BY <1>1, <4>1, <4>3 DEF Gives
    <3>2. ASSUME NEW j \in DOMAIN g, Gives(g, j, p) PROVE k <= j
      <4>1. Gives(f, j, p) /\ j \in 1 .. n
          BY <1>0, <2>1, <2>5, <3>2
      <4>2. PICK h \in 1 .. j : f[h].type = "section" /\ f[h].name = p[1]
          BY <4>1 DEF Gives, Within
      <4>3. ~ (h \in 1 .. c - 1)
        <5>1. h \in DOMAIN f
            BY <1>0, <4>1
        <5> QED
            BY <2>7, <4>2, <5>1, LiteralHead
      <4>4. j # c
          BY <4>1 DEF Gives
      <4>5. j \in c + 1 .. n
          BY <1>0, <4>1, <4>3, <4>4
      <4>6. HasKey(f[j], p[2])
          BY <4>1 DEF Gives, HasKey
      <4> QED
          BY <4>5, <4>6
    <3>3. Text(g, p) = g[k].value
        BY <1>0, <2>1, <2>5, <3>1, <3>2, LoadedFirst
    <3> QED
        BY <2>2, <2>7, <3>3
  <2>8. ASSUME NEW q \in Places, Clear(q), q # p PROVE Text(g, q) = Text(f, q)
    <3> DEFINE e == [i \in DOMAIN f |-> i]
    <3>1. e \in [DOMAIN f -> DOMAIN g] /\ \A i, j \in DOMAIN f : i <= j => e[i] <= e[j]
        BY <2>1
    <3>2. \A i \in DOMAIN f : e[i] = i
        OBVIOUS
    <3> HIDE DEF e
    <3>3. ~ Gives(f, k, q)
      <4>1. q[2] # p[2]
          BY <2>8 DEF Clear
      <4> QED
          BY <1>1, <4>1 DEF Gives
    <3>4. \A i \in DOMAIN f : Gives(f, i, q) => Gives(g, e[i], q) /\ g[e[i]].value = f[i].value
        BY <2>1, <2>5, <3>2, <3>3
    <3>5. \A j \in DOMAIN g : Gives(g, j, q) => \E i \in DOMAIN f : j = e[i] /\ Gives(f, i, q)
        BY <2>1, <2>5, <3>2
    <3> QED
        BY <2>1, <3>1, <3>4, <3>5, LoadCarries
  <2>10. ASSUME NEW s, Literal(g, s) PROVE Literal(f, s)
    <3> SUFFICES ASSUME NEW i \in DOMAIN f, f[i].type = "section", f[i].name = s PROVE s \in f[i].mentions
        BY DEF Literal
    <3>1. i # k
        BY <1>1
    <3>2. g[i] = f[i] /\ i \in DOMAIN g
        BY <2>1, <3>1
    <3> QED
        BY <2>10, <3>2 DEF Literal
  <2>9. Written(f, g, p, v)
      BY <2>1, <2>6, <2>7, <2>8, <2>10 DEF Written
  <2> QED
      BY <2>9 DEF g
<1>2. CASE ~ (f[k].type = "pair" /\ f[k].name = p[2])
  <2>1. g = f
      BY <1>2 DEF WithKey
  <2>2. ~ Clear(p)
    <3>1. ASSUME Clear(p) PROVE FALSE
      <4>0. p[2] \in Keys /\ NoValue \notin Sections \cup Keys \cup Values
          BY PlaceTypes, ConfigBounds
      <4>1. /\ f[k].type \in {"section", "pair", "note"}
            /\ f[k].type = "section" => f[k].name \in Sections /\ f[k].mentions \subseteq Sections
            /\ f[k].type = "pair" => f[k].name \in Keys /\ f[k].value \in Values /\ f[k].mentions = {}
            /\ f[k].type = "note" => f[k].name = NoValue /\ f[k].mentions \in Notes
            /\ f[k].type # "pair" => f[k].value = NoValue
        <5>1. f[k].type # "bad"
            BY <1>0 DEF Whole
        <5> QED
            BY <1>0, <5>1, RowTypes
      <4>2. f[k].name # p[2]
          BY <1>2, <3>1, <4>0, <4>1 DEF Clear
      <4>3. p[2] \notin f[k].mentions
          BY <3>1, <4>1 DEF Clear
      <4>4. \A x : <<x, p[2]>> \in Embeds => x \in Sections \cup Keys \cup Values
          BY ConfigBounds
      <4>5. \A x : <<x, p[2]>> \notin Embeds
          BY <3>1, <4>4 DEF Clear
      <4> QED
          BY <4>2, <4>3, <4>5 DEF HasKey
    <3> QED
        BY <3>1
  <2>3. Written(f, f, p, v)
      BY <2>2, Zenon DEF Written
  <2> QED
      BY <2>1, <2>3
<1> QED
    BY <1>1, <1>2

\* The search for the section's head.
LEMMA HeadFound ==
    ASSUME PlainNotes, NEW f \in Seq(Row), Whole(f), NEW s \in Sections
    PROVE  LET sec == SelectInSeq(f, LAMBDA r : HasSection(r, s))
               head(i) == f[i] = SectionRow(s)
           IN  \/ sec = 0 /\ \A i \in DOMAIN f : ~ head(i)
               \/ sec \in DOMAIN f /\ head(sec) /\ \A i \in 1 .. sec - 1 : ~ head(i)
<1> DEFINE I == {i \in 1 .. Len(f) : HasSection(f[i], s)}
           sec == SelectInSeq(f, LAMBDA r : HasSection(r, s))
           head(i) == f[i] = SectionRow(s)
<1>0. DOMAIN f = 1 .. Len(f) /\ Len(f) \in Nat
    OBVIOUS
<1>1. sec = IF I # {} THEN Min(I) ELSE 0
    BY DEF SelectInSeq
<1>2. ASSUME NEW i \in DOMAIN f PROVE i \in I <=> head(i)
  <2>1. f[i] \in Row
      OBVIOUS
  <2>2. ASSUME s \in f[i].mentions PROVE head(i)
    <3>1. f[i].type # "bad"
        BY DEF Whole
    <3>2. f[i].type # "note" /\ f[i].type # "pair"
        BY <2>1, <2>2, RowTypes DEF PlainNotes
    <3>3. f[i].type = "section"
        BY <2>1, <3>1, <3>2, RowTypes
    <3>4. f[i].name = s
        BY <2>1, <2>2, <3>3, RowTypes
    <3> QED
        BY <2>1, <2>2, <3>3, <3>4, RowTypes
  <2>3. ASSUME head(i) PROVE s \in f[i].mentions
      BY <2>3 DEF SectionRow
  <2> QED
      BY <1>0, <2>2, <2>3 DEF HasSection
<1>3. I \subseteq DOMAIN f
    BY <1>0
<1> HIDE DEF I, sec
<1>4. CASE I = {}
    BY <1>1, <1>2, <1>4 DEF sec
<1>5. CASE I # {}
  <2>1. sec = Min(I)
      BY <1>1, <1>5
  <2>2. I \subseteq Nat
      BY <1>0, <1>3
  <2>3. sec \in I /\ \A i \in I : sec <= i
      BY <1>5, <2>1, <2>2, MinIs
  <2>4. sec \in DOMAIN f /\ head(sec)
      BY <1>2, <1>3, <2>3
  <2>5. ASSUME NEW i \in 1 .. sec - 1 PROVE ~ head(i)
    <3>1. i \in DOMAIN f /\ ~ (sec <= i)
        BY <1>0, <2>4
    <3> QED
        BY <1>2, <2>3, <3>1
  <2> QED
      BY <2>4, <2>5 DEF sec
<1> QED
    BY <1>4, <1>5

\* The search for the key behind it.
LEMMA KeyFound ==
    ASSUME NEW f \in Seq(Row), NEW c \in DOMAIN f, NEW k
    PROVE  LET key == SelectInSubSeq(f, c + 1, Len(f), LAMBDA r : HasKey(r, k))
           IN  \/ key = 0 /\ \A i \in c + 1 .. Len(f) : ~ HasKey(f[i], k)
               \/ /\ key # 0 /\ key \in c + 1 .. Len(f) /\ HasKey(f[key], k)
                  /\ \A i \in c + 1 .. Len(f) : HasKey(f[i], k) => key <= i
<1> DEFINE I == {i \in c + 1 .. Len(f) : HasKey(f[i], k)}
           key == SelectInSubSeq(f, c + 1, Len(f), LAMBDA r : HasKey(r, k))
<1>0. c \in Nat /\ Len(f) \in Nat /\ I \subseteq Nat
    OBVIOUS
<1>1. key = IF I # {} THEN Min(I) ELSE 0
    BY DEF SelectInSubSeq
<1>2. \A i \in c + 1 .. Len(f) : i \in I <=> HasKey(f[i], k)
    OBVIOUS
<1>3. I \subseteq c + 1 .. Len(f)
    OBVIOUS
<1> HIDE DEF I, key
<1>4. CASE I = {}
    BY <1>1, <1>2, <1>4 DEF key
<1>5. CASE I # {}
  <2>1. key = Min(I)
      BY <1>1, <1>5
  <2>2. key \in I /\ \A i \in I : key <= i
      BY <1>0, <1>5, <2>1, MinIs
  <2>3. key \in c + 1 .. Len(f) /\ HasKey(f[key], k)
      BY <1>2, <1>3, <2>2
  <2>4. key # 0
      BY <1>0, <2>3
  <2>5. \A i \in c + 1 .. Len(f) : HasKey(f[i], k) => key <= i
      BY <1>2, <2>2
  <2> QED
      BY <2>3, <2>4, <2>5 DEF key
<1> QED
    BY <1>4, <1>5

\* WriteProfileString reaches its own setting and disturbs no other.
LEMMA RewrittenIs ==
    ASSUME PlainNotes, NEW f \in Seq(Row), Placed(f), Whole(f), NEW p \in Places, p[1] \notin Long,
           NEW v \in Values
    PROVE  Written(f, Rewritten(f, p[1], p[2], v), p, v)
<1> DEFINE s == p[1]
           k == p[2]
           sec == SelectInSeq(f, LAMBDA r : HasSection(r, s))
           headed == ReplaceAt(f, sec, HeadRow(s))
           key == SelectInSubSeq(headed, sec + 1, Len(f), LAMBDA r : HasKey(r, k))
           head(i) == f[i] = SectionRow(s)
           g == Rewritten(f, s, k, v)
<1>0. s \in Sections /\ HeadRow(s) = SectionRow(s)
    BY PlaceTypes DEF HeadRow
<1>1. g = IF sec = 0 THEN f \o <<SectionRow(s), Pair(k, v)>>
          ELSE IF key = 0 THEN WithNewKey(headed, sec, k, v)
          ELSE WithKey(headed, key, k, v)
    BY <1>0 DEF Rewritten
<1>2. \/ sec = 0 /\ \A i \in DOMAIN f : ~ head(i)
      \/ sec \in DOMAIN f /\ head(sec) /\ \A i \in 1 .. sec - 1 : ~ head(i)
    BY <1>0, HeadFound
<1> HIDE DEF g, sec
<1>3. CASE sec = 0 /\ \A i \in DOMAIN f : ~ head(i)
  <2>1. g = f \o <<SectionRow(s), Pair(k, v)>>
      BY <1>1, <1>3
  <2> QED
      BY <1>3, <2>1, NewSection DEF g
<1>4. CASE sec \in DOMAIN f /\ head(sec) /\ \A i \in 1 .. sec - 1 : ~ head(i)
  <2>0. sec # 0 /\ f[sec].type = "section" /\ f[sec].name = s
      BY <1>4 DEF SectionRow
  <2>1. headed = f
    <3>1. f[sec] = HeadRow(s)
        BY <1>0, <1>4
    <3> QED
        BY <1>4, <3>1 DEF ReplaceAt
  <2> DEFINE kf == SelectInSubSeq(f, sec + 1, Len(f), LAMBDA r : HasKey(r, k))
  <2>2. key = kf
      BY <2>1
  <2>3. \/ kf = 0 /\ \A i \in sec + 1 .. Len(f) : ~ HasKey(f[i], k)
        \/ /\ kf # 0 /\ kf \in sec + 1 .. Len(f) /\ HasKey(f[kf], k)
           /\ \A i \in sec + 1 .. Len(f) : HasKey(f[i], k) => kf <= i
      BY <1>4, KeyFound
  <2> HIDE DEF key, kf, headed
  <2>4. CASE kf = 0 /\ \A i \in sec + 1 .. Len(f) : ~ HasKey(f[i], k)
    <3>1. g = WithNewKey(f, sec, k, v)
        BY <1>1, <2>0, <2>1, <2>2, <2>4
    <3>2. \A i \in sec + 1 .. Len(f) : f[i].name # k
        BY <2>4 DEF HasKey
    <3> QED
        BY <1>4, <2>0, <3>1, <3>2, NewKey DEF g
  <2>5. CASE /\ kf # 0 /\ kf \in sec + 1 .. Len(f) /\ HasKey(f[kf], k)
             /\ \A i \in sec + 1 .. Len(f) : HasKey(f[i], k) => kf <= i
    <3>1. g = WithKey(f, kf, k, v)
        BY <1>1, <2>0, <2>1, <2>2, <2>5
    <3> QED
        BY <1>4, <2>0, <2>5, <3>1, OldKey DEF g
  <2> QED
      BY <2>3, <2>4, <2>5
<1> QED
    BY <1>2, <1>3, <1>4

-----------------------------------------------------------------------------
(* Types and agreement. *)

LEMMA ReadTypes ==
    ASSUME NEW v \in Values \cup {NoValue}
    PROVE  /\ AsRead(v) \in Values \cup {NoValue} /\ AsRead(AsRead(v)) = AsRead(v)
           /\ AsRead(v) = NoValue <=> v = NoValue
BY ConfigBounds DEF AsRead

LEMMA ValueType ==
    ASSUME NEW f \in Seq(Row), NEW p
    PROVE  LoadedValue(f, p) \in Values \cup {NoValue} /\ AsRead(LoadedValue(f, p)) = LoadedValue(f, p)
<1>1. Text(Read(f), p) \in Values \cup {NoValue}
    BY ReadType, LoadedType
<1> QED
    BY <1>1, ReadTypes DEF LoadedValue

LEMMA EmptyFile == <<>> \in Seq(Row) /\ Whole(<<>>) /\ Placed(<<>>)
BY DEF Whole, Placed

LEMMA TypesStart == Init => TypeOK
<1> SUFFICES ASSUME Init PROVE TypeOK
    OBVIOUS
<1>1. file \in Seq(Row) /\ <<>> \in Seq(Row)
    BY ConfigBounds, EmptyFile DEF Init
<1>2. Nothing \in Map
    BY DEF Nothing, Map
<1>3. 0 \in 0 .. MaxWrites /\ 0 \in 0 .. MaxEdits
    BY ConfigBounds
<1> QED
    BY <1>1, <1>2, <1>3 DEF Init, TypeOK

\* Whatever row is taken for the section's head, the file stays one of rows.
LEMMA RewrittenType ==
    ASSUME NEW f \in Seq(Row), NEW p \in Places, NEW v \in Values
    PROVE  Rewritten(f, p[1], p[2], v) \in Seq(Row)
<1> DEFINE s == p[1]
           k == p[2]
           I == {i \in 1 .. Len(f) : HasSection(f[i], s)}
           sec == SelectInSeq(f, LAMBDA r : HasSection(r, s))
           headed == ReplaceAt(f, sec, HeadRow(s))
           key == SelectInSubSeq(headed, sec + 1, Len(f), LAMBDA r : HasKey(r, k))
           g == Rewritten(f, s, k, v)
<1>0. HeadRow(s) \in Row /\ Pair(k, v) \in Row
  <2>1. s \in Long => BadRow({s}) \in Row
      BY InRow
  <2> QED
      BY <2>1, RowsWritten DEF HeadRow
<1>1. g = IF sec = 0 THEN f \o <<HeadRow(s), Pair(k, v)>>
          ELSE IF key = 0 THEN WithNewKey(headed, sec, k, v)
          ELSE WithKey(headed, key, k, v)
    BY DEF Rewritten
<1>2. sec = 0 \/ sec \in DOMAIN f
  <2>1. sec = IF I # {} THEN Min(I) ELSE 0
      BY DEF SelectInSeq
  <2>2. I \subseteq Nat /\ I \subseteq DOMAIN f
      OBVIOUS
  <2> HIDE DEF I, sec
  <2> QED
      BY <2>1, <2>2, MinIs
<1> HIDE DEF g, sec
<1>3. CASE sec = 0
  <2>1. <<HeadRow(s), Pair(k, v)>> \in Seq(Row)
      BY <1>0
  <2>2. g = f \o <<HeadRow(s), Pair(k, v)>>
      BY <1>1, <1>3
  <2> QED
      BY <2>1, <2>2, JoinFacts DEF g
<1>4. CASE sec # 0
  <2>1. headed = [f EXCEPT ![sec] = HeadRow(s)]
      BY <1>2, <1>4 DEF ReplaceAt
  <2>2. headed \in Seq(Row) /\ sec \in DOMAIN headed /\ Len(headed) = Len(f)
    <3> HIDE DEF headed
    <3> QED
        BY <1>0, <1>2, <1>4, <2>1
  <2>3. key = 0 \/ key \in sec + 1 .. Len(f)
    <3> DEFINE K == {i \in sec + 1 .. Len(f) : HasKey(headed[i], k)}
    <3> HIDE DEF headed
    <3>1. key = IF K # {} THEN Min(K) ELSE 0
        BY DEF SelectInSubSeq
    <3>2. K \subseteq Nat /\ K \subseteq sec + 1 .. Len(f)
        BY <1>2, <1>4
    <3> HIDE DEF K, key
    <3> QED
        BY <3>1, <3>2, MinIs
  <2> HIDE DEF headed, key
  <2>4. CASE key = 0
    <3>1. Inserted(headed, InsertAt(headed, sec + 1, Pair(k, v)), sec, Pair(k, v))
        BY <1>0, <2>2, InsertAtIs
    <3>2. g = InsertAt(headed, sec + 1, Pair(k, v))
        BY <1>1, <1>4, <2>4 DEF WithNewKey
    <3> QED
        BY <3>1, <3>2 DEF Inserted, g
  <2>5. CASE key # 0
    <3>1. key \in DOMAIN headed
        BY <1>2, <1>4, <2>2, <2>3, <2>5
    <3>2. g = WithKey(headed, key, k, v)
        BY <1>1, <1>4, <2>5
    <3>3. g = headed \/ g = [headed EXCEPT ![key] = Pair(k, v)]
        BY <3>2 DEF WithKey, ReplaceAt
    <3>4. [headed EXCEPT ![key] = Pair(k, v)] \in Seq(Row)
        BY <1>0, <2>2, <3>1
    <3> QED
        BY <2>2, <3>3, <3>4 DEF g
  <2> QED
      BY <2>4, <2>5
<1> QED
    BY <1>3, <1>4

LEMMA TypesStep == TypeOK /\ [Next]_vars => TypeOK'
<1> SUFFICES ASSUME TypeOK, [Next]_vars PROVE TypeOK'
    OBVIOUS
<1> USE DEF TypeOK
<1>0. <<>> \in Seq(Row) /\ Nothing \in Map
    BY DEF Nothing, Map
<1>1. ASSUME NEW p \in Places, NEW v \in Values, WriteProfileString(p, v), path # "none" PROVE TypeOK'
  <2>1. content' \in Seq(Row) /\ file' \in Seq(Row)
      BY <1>0, <1>1, RewrittenType DEF WriteProfileString
  <2>2. config' \in Map /\ saved' \in Map
      BY <1>1 DEF WriteProfileString, SetCfgToMap, Map
  <2>3. writes' \in 0 .. MaxWrites
      BY <1>1, ConfigBounds DEF WriteProfileString
  <2>4. /\ path' \in {"none", "named", "loaded"} /\ stale' \subseteq Places
        /\ writing' \in BOOLEAN /\ edits' \in 0 .. MaxEdits
      BY <1>1 DEF WriteProfileString
  <2> QED
      BY <2>1, <2>2, <2>3, <2>4
<1>2. CASE WriteEnd
    BY <1>0, <1>2 DEF WriteEnd
<1>3. CASE Load
  <2>1. \A p \in Places : LoadedValue(file, p) \in Values \cup {NoValue}
      BY ValueType
  <2>2. config' \in Map
      BY <1>3, <2>1 DEF Load, Map
  <2> QED
      BY <1>3, <2>2 DEF Load
<1>4. CASE Restart
  <2>1. saved' \in Map
      BY <1>0, <1>4 DEF Restart
  <2> QED
      BY <1>0, <1>4, <2>1 DEF Restart
<1>5. ASSUME NEW f \in Edits, Edit(f) PROVE TypeOK'
  <2>1. file' \in Seq(Row)
      BY <1>5, ConfigBounds DEF Edit
  <2>2. edits' \in 0 .. MaxEdits
      BY <1>5, ConfigBounds DEF Edit
  <2> QED
      BY <1>0, <1>5, <2>1, <2>2 DEF Edit
<1>6. CASE UNCHANGED vars
    BY <1>6 DEF vars
<1>7. ASSUME NEW p \in Places, NEW v \in Values, WriteProfileString(p, v), path = "none" PROVE UNCHANGED vars
    BY <1>7 DEF WriteProfileString
<1> QED
    BY <1>1, <1>2, <1>3, <1>4, <1>5, <1>6, <1>7 DEF Next

-----------------------------------------------------------------------------
(* A file that Load does not read to its end stays one. *)

LEMMA StaysBad ==
    ASSUME PlainNotes, NEW f \in Seq(Row), NEW p \in Places, NEW v \in Values,
           ~ Whole(f) \/ p[1] \in Long
    PROVE  ~ Whole(Rewritten(f, p[1], p[2], v))
<1> DEFINE s == p[1]
           k == p[2]
           I == {i \in 1 .. Len(f) : HasSection(f[i], s)}
           sec == SelectInSeq(f, LAMBDA r : HasSection(r, s))
           headed == ReplaceAt(f, sec, HeadRow(s))
           key == SelectInSubSeq(headed, sec + 1, Len(f), LAMBDA r : HasKey(r, k))
           g == Rewritten(f, s, k, v)
<1>0. HeadRow(s) \in Row /\ Pair(k, v) \in Row /\ s \in Sections /\ (s \in Long => HeadRow(s).type = "bad")
  <2>1. s \in Long => BadRow({s}) \in Row /\ BadRow({s}).type = "bad"
      BY InRow DEF BadRow
  <2> QED
      BY <2>1, RowsWritten, PlaceTypes DEF HeadRow
<1>1. g = IF sec = 0 THEN f \o <<HeadRow(s), Pair(k, v)>>
          ELSE IF key = 0 THEN WithNewKey(headed, sec, k, v)
          ELSE WithKey(headed, key, k, v)
    BY DEF Rewritten
<1>2. sec = 0 \/ (sec \in DOMAIN f /\ s \in f[sec].mentions)
  <2>1. sec = IF I # {} THEN Min(I) ELSE 0
      BY DEF SelectInSeq
  <2>2. I \subseteq Nat /\ \A i \in I : i \in DOMAIN f /\ s \in f[i].mentions
      BY DEF HasSection
  <2> HIDE DEF I, sec
  <2> QED
      BY <2>1, <2>2, MinIs
<1> HIDE DEF g, sec
<1>3. CASE sec = 0
  <2> DEFINE t == <<HeadRow(s), Pair(k, v)>>
  <2>1. t \in Seq(Row) /\ Len(t) = 2 /\ t[1] = HeadRow(s) /\ 1 \in 1 .. 2
      BY <1>0
  <2>2. g = f \o t
      BY <1>1, <1>3
  <2> HIDE DEF t
  <2>3. /\ g \in Seq(Row) /\ Len(g) = Len(f) + 2
        /\ \A i \in 1 .. Len(f) : g[i] = f[i]
        /\ g[Len(f) + 1] = HeadRow(s)
    <3>1. /\ f \o t \in Seq(Row) /\ Len(f \o t) = Len(f) + Len(t)
          /\ \A i \in 1 .. Len(f) : (f \o t)[i] = f[i]
          /\ \A i \in 1 .. Len(t) : (f \o t)[Len(f) + i] = t[i]
        BY <2>1, JoinFacts
    <3> QED
        BY <2>1, <2>2, <3>1
  <2>4. CASE ~ Whole(f)
    <3>1. PICK i \in DOMAIN f : f[i].type = "bad"
        BY <2>4 DEF Whole
    <3>2. i \in DOMAIN g /\ g[i] = f[i]
        BY <2>3
    <3> QED
        BY <3>1, <3>2 DEF Whole, g
  <2>5. CASE s \in Long
    <3>1. Len(f) + 1 \in DOMAIN g /\ g[Len(f) + 1].type = "bad"
        BY <1>0, <2>3, <2>5
    <3> QED
        BY <3>1 DEF Whole, g
  <2> QED
      BY <2>4, <2>5
<1>4. CASE sec # 0
  <2>1. headed = [f EXCEPT ![sec] = HeadRow(s)]
      BY <1>2, <1>4 DEF ReplaceAt
  <2>2. /\ headed \in Seq(Row) /\ sec \in DOMAIN headed /\ Len(headed) = Len(f)
        /\ headed[sec] = HeadRow(s) /\ \A i \in DOMAIN f : i # sec => headed[i] = f[i]
    <3> HIDE DEF headed
    <3> QED
        BY <1>0, <1>2, <1>4, <2>1
  <2>3. key = 0 \/ key \in sec + 1 .. Len(f)
    <3> DEFINE K == {i \in sec + 1 .. Len(f) : HasKey(headed[i], k)}
    <3> HIDE DEF headed
    <3>1. key = IF K # {} THEN Min(K) ELSE 0
        BY DEF SelectInSubSeq
    <3>2. K \subseteq Nat /\ K \subseteq sec + 1 .. Len(f)
        BY <1>2, <1>4
    <3> HIDE DEF K, key
    <3> QED
        BY <3>1, <3>2, MinIs
  <2> HIDE DEF headed, key
  <2>4. \E j \in DOMAIN headed : headed[j].type = "bad"
    <3>1. CASE s \in Long
        BY <1>0, <2>2, <3>1
    <3>2. CASE s \notin Long
      <4>1. PICK i \in DOMAIN f : f[i].type = "bad"
          BY <3>2 DEF Whole
      <4>2. i # sec
        <5>1. ASSUME i = sec PROVE FALSE
          <6>1. s \in f[i].mentions /\ f[i] \in Row
              BY <1>2, <1>4, <5>1
          <6>2. f[i].mentions \in Notes \/ \E x \in Long : f[i].mentions = {x}
              BY <4>1, <6>1, RowTypes
          <6> QED
              BY <1>0, <3>2, <6>1, <6>2 DEF PlainNotes
        <5> QED
            BY <5>1
      <4> QED
          BY <2>2, <4>1, <4>2
    <3> QED
        BY <3>1, <3>2
  <2>5. PICK j \in DOMAIN headed : headed[j].type = "bad"
      BY <2>4
  <2>6. CASE key = 0
    <3> DEFINE w == InsertAt(headed, sec + 1, Pair(k, v))
    <3>1. Inserted(headed, w, sec, Pair(k, v))
        BY <1>0, <2>2, InsertAtIs
    <3>2. g = w
        BY <1>1, <1>4, <2>6 DEF WithNewKey
    <3> HIDE DEF w
    <3>3. \E i \in DOMAIN w : w[i].type = "bad"
      <4>1. CASE j \in 1 .. sec
        <5>1. w[j] = headed[j] /\ j \in DOMAIN w
            BY <2>2, <3>1, <4>1 DEF Inserted
        <5> QED
            BY <2>5, <5>1
      <4>2. CASE j \in sec + 1 .. Len(headed)
        <5>1. w[j + 1] = headed[j] /\ j + 1 \in DOMAIN w
            BY <2>2, <3>1, <4>2 DEF Inserted
        <5> QED
            BY <2>5, <5>1
      <4> QED
          BY <2>2, <2>5, <4>1, <4>2
    <3> QED
        BY <3>2, <3>3 DEF Whole, g
  <2>7. CASE key # 0
    <3>1. key \in DOMAIN headed
        BY <1>2, <1>4, <2>2, <2>3, <2>7
    <3>2. g = WithKey(headed, key, k, v)
        BY <1>1, <1>4, <2>7
    <3>3. g = headed \/ (headed[key].type = "pair" /\ g = [headed EXCEPT ![key] = Pair(k, v)])
        BY <3>2 DEF WithKey, ReplaceAt
    <3>4. j \in DOMAIN g /\ g[j].type = "bad"
      <4>1. CASE g = headed
          BY <2>5, <4>1
      <4>2. CASE headed[key].type = "pair" /\ g = [headed EXCEPT ![key] = Pair(k, v)]
        <5>1. j # key
            BY <2>5, <4>2
        <5> QED
            BY <2>2, <2>5, <3>1, <4>2, <5>1
      <4> QED
          BY <3>3, <4>1, <4>2
    <3> QED
        BY <3>4 DEF Whole, g
  <2> QED
      BY <2>6, <2>7
<1> QED
    BY <1>3, <1>4

-----------------------------------------------------------------------------
(* Agreement. *)

LEMMA TidyIs ==
    ASSUME NEW f, NEW p
    PROVE  Tidy(f, p) <=> Whole(f) /\ Literal(f, p[1])
BY DEF Tidy, Whole, Literal, HasSection

\* The rows f, on disk or about to be written, agree with memory and with what
\* was saved on a setting that is clear and tidy.
AgreesOn(f, p, pa, m, st, kept) ==
    Clear(p) /\ Tidy(f, p) =>
        /\ p \notin st /\ (pa = "loaded" \/ m[p] # NoValue) => LoadedValue(f, p) = AsRead(m[p])
        /\ kept[p] # NoValue => LoadedValue(f, p) = AsRead(kept[p])

Agrees(f, pa, m, st, kept) ==
    /\ Whole(f) => Placed(f)
    /\ \A p \in Places : AgreesOn(f, p, pa, m, st, kept)

FileInv ==
    /\ writing => file = <<>> /\ Agrees(content, path, config, stale, saved)
    /\ ~ writing => Agrees(file, path, config, stale, saved)

\* An object that has nothing in memory agrees with any file.
LEMMA NothingAgrees ==
    ASSUME NEW f, NEW st, NEW pa \in {"none", "named"}, Whole(f) => Placed(f)
    PROVE  Agrees(f, pa, Nothing, st, Nothing)
BY DEF Agrees, AgreesOn, Nothing

LEMMA FileStart == Init => FileInv
<1> SUFFICES ASSUME Init PROVE FileInv
    OBVIOUS
<1>1. file \in Seq(Row) /\ Loadable(file) /\ path \in {"none", "named"}
    BY ConfigBounds DEF Init
<1>2. Whole(file) => Placed(file)
    BY <1>1, WholeRead
<1>3. Agrees(file, path, Nothing, stale, Nothing)
    BY <1>1, <1>2, NothingAgrees
<1> QED
    BY <1>3 DEF Init, FileInv

LEMMA WriteAgrees ==
    ASSUME PlainNotes, TypeOK, FileInv, NEW p \in Places, NEW v \in Values,
           WriteProfileString(p, v), path # "none"
    PROVE  FileInv'
<1>1. /\ ~ writing /\ writing' /\ file' = <<>> /\ path' = path
      /\ config' = [config EXCEPT ![p] = v] /\ saved' = [saved EXCEPT ![p] = v]
      /\ stale' = stale \ {p} /\ content' = Rewritten(file, p[1], p[2], v)
    BY DEF WriteProfileString, SetCfgToMap
<1>2. Agrees(file, path, config, stale, saved) /\ file \in Seq(Row)
    BY <1>1 DEF FileInv, TypeOK
<1>3. \A q \in Places : /\ config'[q] = IF q = p THEN v ELSE config[q]
                        /\ saved'[q] = IF q = p THEN v ELSE saved[q]
    BY <1>1 DEF TypeOK, Map
<1>4. CASE ~ Whole(file) \/ p[1] \in Long
  <2>1. ~ Whole(content')
      BY <1>1, <1>2, <1>4, StaysBad
  <2>2. \A q : ~ Tidy(content', q)
      BY <2>1, TidyIs
  <2>3. Agrees(content', path', config', stale', saved')
      BY <2>1, <2>2 DEF Agrees, AgreesOn
  <2> QED
      BY <1>1, <2>3 DEF FileInv
<1>5. CASE Whole(file) /\ p[1] \notin Long
  <2>1. Placed(file)
      BY <1>2, <1>5 DEF Agrees
  <2>2. Written(file, content', p, v)
      BY <1>1, <1>2, <1>5, <2>1, RewrittenIs
  <2>3. ASSUME NEW q \in Places, Clear(q), Tidy(content', q)
        PROVE  /\ q \notin stale' /\ (path' = "loaded" \/ config'[q] # NoValue) =>
                      LoadedValue(content', q) = AsRead(config'[q])
               /\ saved'[q] # NoValue => LoadedValue(content', q) = AsRead(saved'[q])
    <3>1. Whole(content') /\ Literal(content', q[1])
        BY <2>3, TidyIs
    <3>2. Literal(file, q[1]) /\ content' \in Seq(Row)
        BY <2>2, <3>1 DEF Written
    <3>3. Tidy(file, q)
        BY <1>5, <3>2, TidyIs
    <3>4. /\ LoadedValue(content', q) = AsRead(Text(content', q))
          /\ LoadedValue(file, q) = AsRead(Text(file, q))
        BY <1>2, <1>5, <3>1, <3>2, WholeRead
    <3>5. CASE q = p
      <4>1. Text(content', q) = v
          BY <2>2, <2>3, <3>2, <3>5 DEF Written
      <4> QED
          BY <1>3, <3>4, <3>5, <4>1
    <3>6. CASE q # p
      <4>1. Text(content', q) = Text(file, q)
          BY <2>2, <2>3, <3>6 DEF Written
      <4>2. AgreesOn(file, q, path, config, stale, saved)
          BY <1>2 DEF Agrees
      <4>3. config'[q] = config[q] /\ saved'[q] = saved[q] /\ (q \notin stale' => q \notin stale)
          BY <1>1, <1>3, <3>6
      <4> QED
          BY <1>1, <2>3, <3>3, <3>4, <4>1, <4>2, <4>3 DEF AgreesOn
    <3> QED
        BY <3>5, <3>6
  <2>4. Agrees(content', path', config', stale', saved')
      BY <2>2, <2>3 DEF Agrees, AgreesOn, Written
  <2> QED
      BY <1>1, <2>4 DEF FileInv
<1> QED
    BY <1>4, <1>5

LEMMA LoadAgrees ==
    ASSUME TypeOK, FileInv, Load
    PROVE  FileInv'
<1>1. /\ ~ writing /\ writing' = writing /\ file' = file /\ saved' = saved /\ path' = "loaded"
      /\ stale' = {p \in stale : config[p] # NoValue}
    BY DEF Load
<1>2. Agrees(file, path, config, stale, saved)
    BY <1>1 DEF FileInv
<1>3. ASSUME NEW p \in Places, Clear(p), Tidy(file, p)
      PROVE  /\ p \notin stale' => LoadedValue(file, p) = AsRead(config'[p])
             /\ saved[p] # NoValue => LoadedValue(file, p) = AsRead(saved[p])
  <2>1. AgreesOn(file, p, path, config, stale, saved)
      BY <1>2 DEF Agrees
  <2>2. config'[p] = IF config[p] # NoValue THEN config[p] ELSE LoadedValue(file, p)
      BY DEF Load
  <2>3. AsRead(LoadedValue(file, p)) = LoadedValue(file, p)
      BY ValueType DEF TypeOK
  <2>4. CASE config[p] = NoValue
      BY <1>3, <2>1, <2>2, <2>3, <2>4 DEF AgreesOn
  <2>5. CASE config[p] # NoValue
    <3>1. p \notin stale' => p \notin stale
        BY <1>1, <2>5
    <3> QED
        BY <1>3, <2>1, <2>2, <2>5, <3>1 DEF AgreesOn
  <2> QED
      BY <2>4, <2>5
<1>4. Agrees(file, path', config', stale', saved)
    BY <1>2, <1>3 DEF Agrees, AgreesOn
<1> QED
    BY <1>1, <1>4 DEF FileInv

LEMMA RestartAgrees ==
    ASSUME TypeOK, FileInv, Restart
    PROVE  FileInv'
<1>1. /\ ~ writing' /\ file' = file /\ config' = Nothing /\ path' \in {"none", "named"}
      /\ saved' = IF writing THEN Nothing ELSE saved
    BY DEF Restart
<1>2. CASE writing
  <2>1. file = <<>> /\ saved' = Nothing
      BY <1>1, <1>2 DEF FileInv
  <2>2. Agrees(file, path', Nothing, stale', Nothing)
      BY <1>1, <2>1, EmptyFile, NothingAgrees
  <2> QED
      BY <1>1, <2>1, <2>2 DEF FileInv
<1>3. CASE ~ writing
  <2>1. Agrees(file, path, config, stale, saved) /\ saved' = saved
      BY <1>1, <1>3 DEF FileInv
  <2>2. \A p \in Places : config'[p] = NoValue /\ path' # "loaded"
      BY <1>1 DEF Nothing
  <2>3. Agrees(file, path', config', stale', saved)
      BY <2>1, <2>2 DEF Agrees, AgreesOn
  <2> QED
      BY <1>1, <2>1, <2>3 DEF FileInv
<1> QED
    BY <1>2, <1>3 DEF TypeOK

LEMMA EditAgrees ==
    ASSUME NEW f \in Edits, Edit(f)
    PROVE  FileInv'
<1>1. ~ writing /\ writing' = writing /\ file' = f /\ stale' = Places /\ saved' = Nothing
    BY DEF Edit
<1>2. f \in Seq(Row) /\ Loadable(f)
    BY ConfigBounds
<1>3. Whole(f) => Placed(f)
    BY <1>2, WholeRead
<1>4. \A p \in Places : p \in stale' /\ saved'[p] = NoValue
    BY <1>1 DEF Nothing
<1>5. Agrees(f, path', config', stale', saved')
    BY <1>3, <1>4 DEF Agrees, AgreesOn
<1> QED
    BY <1>1, <1>5 DEF FileInv

LEMMA FileStep == PlainNotes /\ TypeOK /\ FileInv /\ [Next]_vars => FileInv'
<1> SUFFICES ASSUME PlainNotes, TypeOK, FileInv, [Next]_vars PROVE FileInv'
    OBVIOUS
<1>1. CASE WriteEnd
  <2>1. writing /\ ~ writing' /\ file' = content /\ UNCHANGED <<path, config, stale, saved>>
      BY <1>1 DEF WriteEnd
  <2> QED
      BY <2>1 DEF FileInv
<1>2. CASE UNCHANGED vars
    BY <1>2 DEF FileInv, vars
<1>3. ASSUME NEW p \in Places, NEW v \in Values, WriteProfileString(p, v), path = "none" PROVE UNCHANGED vars
    BY <1>3 DEF WriteProfileString
<1> QED
    BY <1>1, <1>2, <1>3, WriteAgrees, LoadAgrees, RestartAgrees, EditAgrees DEF Next

\* Load and WriteProfileString keep the file a sequence of rows of these kinds and
\* every value in m_ConfigMap one that was written or read, whatever the comments
\* hold, wherever a head is cut off and wherever the process stops.
THEOREM TypesHold == Spec => []TypeOK
<1> QED
    BY TypesStart, TypesStep, PTL DEF Spec

LEMMA FileHolds == ASSUME PlainNotes PROVE Spec => [](TypeOK /\ FileInv)
<1>1. TypeOK /\ FileInv /\ [Next]_vars => (TypeOK /\ FileInv)'
    BY TypesStep, FileStep
<1>2. Init => TypeOK /\ FileInv
    BY TypesStart, FileStart
<1> QED
    BY <1>1, <1>2, PTL DEF Spec

\* If no comment and no malformed row holds a section's head, m_ConfigMap and a
\* tidy file agree on every clear setting, up to a '#', after any number of
\* writes, loads, edits and restarts, whatever the other settings are.
THEOREM FileAgrees == ASSUME PlainNotes PROVE Spec => []FileMatchesMap
<1>1. FileInv => FileMatchesMap
    BY DEF FileInv, FileMatchesMap, Agrees, AgreesOn
<1> QED
    BY <1>1, FileHolds, PTL

\* If no comment and no malformed row holds a section's head, the last value
\* written to a clear setting is the one later processes load from a tidy file,
\* up to a '#', until the file is edited or a process dies with it emptied.
THEOREM SettingsKept == ASSUME PlainNotes PROVE Spec => []SettingsSurvive
<1>1. FileInv => SettingsSurvive
    BY DEF FileInv, SettingsSurvive, Agrees, AgreesOn
<1> QED
    BY <1>1, FileHolds, PTL
=============================================================================
