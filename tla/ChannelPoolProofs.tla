-------------------------- MODULE ChannelPoolProofs --------------------------
(***************************************************************************)
(* What ChannelPool.tla says of a pool of any size, as long as the counter  *)
(* of channel ids has not run through all ids: the lists stay intact, a     *)
(* reply finds the channel of its own request and no other, and no channel  *)
(* in use is handed out again.                                              *)
(*                                                                         *)
(* The lists are described without a walk: the use list by the order of     *)
(* allocation, the timeout lists and the free list by what a pointer may    *)
(* point to.  The lemmas about a list take its links as parameters, so that *)
(* they can be used before and after a step.                                *)
(***************************************************************************)
EXTENDS ChannelPool, TLAPS, WellFoundedInduction

\* The counter has not come round to an id that was used before.
NoWrap == MaxFetch < IdSpace

Timed == {c \in Cells : place[c] = "timedout"}
Spare == {c \in 1 .. total : place[c] = "pool"}

\* The cells U are numbered by b.
Numbered(U, b) == /\ \A c \in U : b[c] \in Nat
                  /\ \A c, d \in U : b[c] = b[d] => c = d

\* The cells U are one doubly linked list in the order of b from h to t.
Ordered(U, b, h, t, pv, nx) ==
    /\ \A c \in U : IF nx[c] = NULL THEN \A d \in U : b[d] <= b[c]
                    ELSE /\ nx[c] \in U /\ b[c] < b[nx[c]]
                         /\ \A d \in U : b[d] <= b[c] \/ b[nx[c]] <= b[d]
    /\ \A c \in U : IF pv[c] = NULL THEN \A d \in U : b[c] <= b[d]
                    ELSE /\ pv[c] \in U /\ b[pv[c]] < b[c]
                         /\ \A d \in U : b[c] <= b[d] \/ b[d] <= b[pv[c]]
    /\ IF h = NULL THEN U = {} ELSE h \in U /\ \A d \in U : b[h] <= b[d]
    /\ IF t = NULL THEN U = {} ELSE t \in U /\ \A d \in U : b[d] <= b[t]

\* The cells T are doubly linked lists with the heads L, each in the order of b.
Chained(T, L, b, pv, nx) ==
    /\ L \subseteq T
    /\ \A c \in T : nx[c] = NULL \/ (nx[c] \in T /\ pv[nx[c]] = c)
    /\ \A c \in T : IF c \in L THEN pv[c] = NULL
                    ELSE pv[c] \in T /\ nx[pv[c]] = c /\ b[pv[c]] < b[c]

\* The cells P hold a list from h to t; t is NULL when the end is not known,
\* and the list may be shorter than P then and later.
Linked(P, h, t, nx) ==
    /\ \A c \in P : nx[c] = NULL \/ nx[c] \in P \ {h}
    /\ \A c, d \in P : nx[c] = nx[d] /\ nx[c] # NULL => c = d
    /\ h \in P \cup {NULL}
    /\ t # NULL =>
          /\ h # NULL /\ t \in P /\ nx[t] = NULL
          /\ \A S \in SUBSET P :
                h \in S /\ (\A d \in S : nx[d] # NULL => nx[d] \in S) => t \in S

\* Walk, with the links as a parameter.
Visits(nx, h, go) ==
    {c \in go : \A S \in SUBSET go :
        (h \in go => h \in S) /\ (\A d \in S : nx[d] \in go => nx[d] \in S) => c \in S}

\* Channels somebody has, with the id and the args of their request.
IdInv ==
    /\ counter = fetched + 1
    /\ \A c \in Live : /\ c \in 1 .. total
                       /\ id[c] = born[c] /\ born[c] \in 1 .. fetched
                       /\ args[c] \in {0, born[c]}
    /\ \A c, d \in Live : born[c] = born[d] => c = d
    /\ \A i \in Ids : useMap[i] # NULL => useMap[i] \in Used /\ id[useMap[i]] = i
    /\ \A c \in Used : useMap[id[c]] = c

UseInv == Ordered(Used, born, useListHead, useListTail, prev, next)
TimedInv == Chained(Timed, lists, born, prev, next)
FreeInv == Linked(Spare, freeListHead, freeListTail, next)

PoolInv == TypeOK /\ IdInv /\ UseInv /\ TimedInv /\ FreeInv
-----------------------------------------------------------------------------
(* Numbers and cells. *)

LEMMA Least ==
    ASSUME NEW S, NEW f, S # {}, \A s \in S : f[s] \in Nat
    PROVE  \E s \in S : \A t \in S : f[s] <= f[t]
<1> DEFINE R == OpToRel(<, Nat)
           T == {f[s] : s \in S}
<1>1. IsWellFoundedOn(R, Nat)
    BY NatLessThanWellFounded
<1>2. T \subseteq Nat /\ T # {}
    OBVIOUS
<1>3. \A a, b \in Nat : a < b => <<a, b>> \in R
    BY DEF OpToRel
<1> HIDE DEF R, T
<1>4. PICK m \in T : \A k \in T : ~ (<<k, m>> \in R)
    BY <1>1, <1>2, WFMin
<1>5. ASSUME NEW k \in T PROVE m <= k
  <2>1. k \in Nat /\ m \in Nat
      BY <1>2
  <2>2. ~ (k < m)
      BY <1>3, <1>4, <2>1, Zenon
  <2> QED
      BY <2>1, <2>2
<1> QED
    BY <1>2, <1>5 DEF T

LEMMA NullIsNoCell == NULL \notin Cells
BY PoolBounds DEF NULL, Cells

LEMMA PutAt ==
    ASSUME NEW f, NEW c, NEW v, NEW d \in Cells
    PROVE  Put(f, c, v)[d] = IF d = c THEN v ELSE f[d]
BY DEF Put

LEMMA PutType ==
    ASSUME NEW T, NEW f \in [Cells -> T], NEW c, NEW v \in T
    PROVE  Put(f, c, v) \in [Cells -> T]
BY DEF Put

-----------------------------------------------------------------------------
(* The use list. *)

LEMMA OrderedSame ==
    ASSUME NEW U, NEW b, NEW b2, NEW h, NEW t, NEW pv, NEW pv2, NEW nx, NEW nx2,
           Ordered(U, b, h, t, pv, nx),
           \A c \in U : b2[c] = b[c] /\ pv2[c] = pv[c] /\ nx2[c] = nx[c]
    PROVE  Ordered(U, b2, h, t, pv2, nx2)
BY DEF Ordered

\* prev_ and next_ of neighbours agree.
LEMMA OrderedLinks ==
    ASSUME NEW U \in SUBSET Cells, NEW b, NEW h, NEW t, NEW pv, NEW nx,
           Numbered(U, b),
           Ordered(U, b, h, t, pv, nx), NEW c \in U
    PROVE  /\ nx[c] # NULL => nx[c] \in U /\ pv[nx[c]] = c
           /\ pv[c] # NULL => pv[c] \in U /\ nx[pv[c]] = c
           /\ pv[c] = NULL <=> c = h
           /\ nx[c] = NULL <=> c = t
<1>n. (\A d \in U : b[d] \in Nat) /\ \A d, e \in U : b[d] = b[e] => d = e
    BY DEF Numbered
<1> USE <1>n
<1>0. NULL \notin U
    BY NullIsNoCell
<1>1. ASSUME nx[c] # NULL PROVE nx[c] \in U /\ pv[nx[c]] = c
  <2>1. /\ nx[c] \in U /\ b[c] < b[nx[c]]
        /\ \A d \in U : b[d] <= b[c] \/ b[nx[c]] <= b[d]
      BY <1>1 DEF Ordered
  <2>2. pv[nx[c]] # NULL
      BY <2>1 DEF Ordered
  <2>3. /\ pv[nx[c]] \in U /\ b[pv[nx[c]]] < b[nx[c]]
        /\ \A d \in U : b[nx[c]] <= b[d] \/ b[d] <= b[pv[nx[c]]]
      BY <2>1, <2>2 DEF Ordered
  <2>4. b[pv[nx[c]]] = b[c]
      BY <2>1, <2>3
  <2> QED
      BY <2>1, <2>3, <2>4
<1>2. ASSUME pv[c] # NULL PROVE pv[c] \in U /\ nx[pv[c]] = c
  <2>1. /\ pv[c] \in U /\ b[pv[c]] < b[c]
        /\ \A d \in U : b[c] <= b[d] \/ b[d] <= b[pv[c]]
      BY <1>2 DEF Ordered
  <2>2. nx[pv[c]] # NULL
      BY <2>1 DEF Ordered
  <2>3. /\ nx[pv[c]] \in U /\ b[pv[c]] < b[nx[pv[c]]]
        /\ \A d \in U : b[d] <= b[pv[c]] \/ b[nx[pv[c]]] <= b[d]
      BY <2>1, <2>2 DEF Ordered
  <2>4. b[nx[pv[c]]] = b[c]
      BY <2>1, <2>3
  <2> QED
      BY <2>1, <2>3, <2>4
<1>3. pv[c] = NULL <=> c = h
  <2>1. h \in U /\ \A d \in U : b[h] <= b[d]
      BY <1>0 DEF Ordered
  <2>2. ASSUME pv[c] = NULL PROVE c = h
    <3>1. \A d \in U : b[c] <= b[d]
        BY <2>2 DEF Ordered
    <3>2. b[c] = b[h]
        BY <2>1, <3>1
    <3> QED
        BY <2>1, <3>2
  <2>3. ASSUME pv[c] # NULL PROVE c # h
      BY <2>1, <2>3 DEF Ordered
  <2> QED
      BY <2>2, <2>3
<1>4. nx[c] = NULL <=> c = t
  <2>1. t \in U /\ \A d \in U : b[d] <= b[t]
      BY <1>0 DEF Ordered
  <2>2. ASSUME nx[c] = NULL PROVE c = t
    <3>1. \A d \in U : b[d] <= b[c]
        BY <2>2 DEF Ordered
    <3>2. b[c] = b[t]
        BY <2>1, <3>1
    <3> QED
        BY <2>1, <3>2
  <2>3. ASSUME nx[c] # NULL PROVE c # t
      BY <2>1, <2>3 DEF Ordered
  <2> QED
      BY <2>2, <2>3
<1> QED
    BY <1>1, <1>2, <1>3, <1>4

\* c gets the highest number and is linked behind t.
LinkedAtEnd(c, U, t, b, b2, pv, pv2, nx, nx2) ==
    /\ b2[c] \in Nat /\ pv2[c] = t /\ nx2[c] = NULL
    /\ \A d \in U : /\ b2[d] = b[d] /\ b[d] < b2[c]
                    /\ pv2[d] = pv[d] /\ nx2[d] = IF d = t THEN c ELSE nx[d]

\* A cell with the highest number is put at the end.
LEMMA OrderedAppend ==
    ASSUME NEW U \in SUBSET Cells, NEW b, NEW b2, NEW h, NEW t, NEW pv, NEW pv2, NEW nx, NEW nx2,
           Ordered(U, b, h, t, pv, nx), NEW c \in Cells \ U,
           Numbered(U, b),
           LinkedAtEnd(c, U, t, b, b2, pv, pv2, nx, nx2),
           NEW h2, h2 = IF t = NULL THEN c ELSE h
    PROVE  Ordered(U \cup {c}, b2, h2, c, pv2, nx2)
<1>a. /\ \A d \in U : b2[d] = b[d] /\ b[d] < b2[c]
      /\ \A d \in U : pv2[d] = pv[d] /\ (nx2[d] = IF d = t THEN c ELSE nx[d])
      /\ b2[c] \in Nat /\ pv2[c] = t /\ nx2[c] = NULL
    BY DEF LinkedAtEnd
<1> USE <1>a
<1>n. (\A d \in U : b[d] \in Nat) /\ \A d, e \in U : b[d] = b[e] => d = e
    BY DEF Numbered
<1> USE <1>n
<1>0. NULL \notin U /\ c # NULL
    BY NullIsNoCell
<1>1. CASE t = NULL
  <2>1. U = {}
      BY <1>1 DEF Ordered
  <2> QED
      BY <1>0, <1>1, <2>1 DEF Ordered
<1>2. CASE t # NULL
  <2>1. t \in U /\ (\A d \in U : b[d] <= b[t]) /\ h # NULL
      BY <1>2 DEF Ordered
  <2>2. \A d \in U \cup {c} :
            IF nx2[d] = NULL THEN \A e \in U \cup {c} : b2[e] <= b2[d]
            ELSE /\ nx2[d] \in U \cup {c} /\ b2[d] < b2[nx2[d]]
                 /\ \A e \in U \cup {c} : b2[e] <= b2[d] \/ b2[nx2[d]] <= b2[e]
    <3> SUFFICES ASSUME NEW d \in U, d # t
                 PROVE  /\ nx2[d] # NULL /\ nx2[d] \in U /\ b2[d] < b2[nx2[d]]
                        /\ \A e \in U \cup {c} : b2[e] <= b2[d] \/ b2[nx2[d]] <= b2[e]
        BY <1>0, <2>1
    <3>1. nx[d] # NULL
        BY OrderedLinks
    <3> QED
        BY <3>1 DEF Ordered
  <2>3. \A d \in U \cup {c} :
            IF pv2[d] = NULL THEN \A e \in U \cup {c} : b2[d] <= b2[e]
            ELSE /\ pv2[d] \in U \cup {c} /\ b2[pv2[d]] < b2[d]
                 /\ \A e \in U \cup {c} : b2[d] <= b2[e] \/ b2[e] <= b2[pv2[d]]
      BY <1>0, <1>2, <2>1 DEF Ordered
  <2>4. h \in U /\ \A d \in U \cup {c} : b2[h] <= b2[d]
      BY <2>1 DEF Ordered
  <2> QED
      BY <1>0, <1>2, <2>2, <2>3, <2>4 DEF Ordered
<1> QED
    BY <1>1, <1>2

\* The neighbours of c are linked with each other.
Unlinks(c, U, h, h2, t, t2, pv, pv2, nx, nx2) ==
    /\ h2 = IF c = h THEN nx[c] ELSE h
    /\ t2 = IF c = t THEN pv[c] ELSE t
    /\ \A d \in U \ {c} : /\ pv2[d] = IF d = nx[c] THEN pv[c] ELSE pv[d]
                          /\ nx2[d] = IF d = pv[c] THEN nx[c] ELSE nx[d]

\* A cell is taken out, as FreeChannel and OfferChannel do.
LEMMA OrderedUnlink ==
    ASSUME NEW U \in SUBSET Cells, NEW b, NEW h, NEW t, NEW pv, NEW pv2, NEW nx, NEW nx2,
           Numbered(U, b),
           Ordered(U, b, h, t, pv, nx), NEW c \in U,
           NEW h2, NEW t2, Unlinks(c, U, h, h2, t, t2, pv, pv2, nx, nx2)
    PROVE  Ordered(U \ {c}, b, h2, t2, pv2, nx2)
<1>a. \A d \in U \ {c} : /\ pv2[d] = IF d = nx[c] THEN pv[c] ELSE pv[d]
                         /\ nx2[d] = IF d = pv[c] THEN nx[c] ELSE nx[d]
    BY DEF Unlinks
<1>b. (h2 = IF c = h THEN nx[c] ELSE h) /\ (t2 = IF c = t THEN pv[c] ELSE t)
    BY DEF Unlinks
<1> USE <1>a
<1>n. (\A d \in U : b[d] \in Nat) /\ \A d, e \in U : b[d] = b[e] => d = e
    BY DEF Numbered
<1> USE <1>n
<1>0. NULL \notin U
    BY NullIsNoCell
<1>1. \A d \in U : /\ nx[d] # NULL => nx[d] \in U /\ pv[nx[d]] = d
                   /\ pv[d] # NULL => pv[d] \in U /\ nx[pv[d]] = d
                   /\ pv[d] = NULL <=> d = h
                   /\ nx[d] = NULL <=> d = t
    BY OrderedLinks
<1>2. \A d \in U : nx[d] # NULL =>
          b[d] < b[nx[d]] /\ \A e \in U : b[e] <= b[d] \/ b[nx[d]] <= b[e]
    BY DEF Ordered
<1>3. \A d \in U : pv[d] # NULL =>
          b[pv[d]] < b[d] /\ \A e \in U : b[d] <= b[e] \/ b[e] <= b[pv[d]]
    BY DEF Ordered
<1>4. (\A d \in U : b[h] <= b[d] /\ b[d] <= b[t]) /\ h \in U /\ t \in U
    BY <1>0 DEF Ordered
<1>5. ASSUME NEW d \in U \ {c}
      PROVE  IF nx2[d] = NULL THEN \A e \in U \ {c} : b[e] <= b[d]
             ELSE /\ nx2[d] \in U \ {c} /\ b[d] < b[nx2[d]]
                  /\ \A e \in U \ {c} : b[e] <= b[d] \/ b[nx2[d]] <= b[e]
  <2>1. CASE d = pv[c]
    <3>1. nx2[d] = nx[c] /\ b[d] < b[c] /\ \A e \in U : b[c] <= b[e] \/ b[e] <= b[d]
        BY <1>0, <1>3, <2>1
    <3>2. CASE nx[c] = NULL
        BY <1>1, <1>4, <3>1, <3>2
    <3>3. CASE nx[c] # NULL
      <4>1. /\ nx[c] \in U /\ b[c] < b[nx[c]]
            /\ \A e \in U : b[e] <= b[c] \/ b[nx[c]] <= b[e]
          BY <1>1, <1>2, <3>3
      <4>2. nx[c] \in U \ {c} /\ b[d] < b[nx[c]]
          BY <3>1, <4>1
      <4>3. \A e \in U \ {c} : b[e] # b[c]
          OBVIOUS
      <4>4. \A e \in U \ {c} : b[e] <= b[d] \/ b[nx[c]] <= b[e]
          BY <3>1, <4>1, <4>3
      <4> QED
          BY <3>1, <3>3, <4>2, <4>4
    <3> QED
        BY <3>2, <3>3
  <2>2. CASE d # pv[c]
    <3>1. nx2[d] = nx[d] /\ nx[d] # c
        BY <1>0, <1>1, <2>2
    <3> QED
        BY <1>1, <1>2, <1>4, <3>1
  <2> QED
      BY <2>1, <2>2
<1>6. ASSUME NEW d \in U \ {c}
      PROVE  IF pv2[d] = NULL THEN \A e \in U \ {c} : b[d] <= b[e]
             ELSE /\ pv2[d] \in U \ {c} /\ b[pv2[d]] < b[d]
                  /\ \A e \in U \ {c} : b[d] <= b[e] \/ b[e] <= b[pv2[d]]
  <2>1. CASE d = nx[c]
    <3>1. pv2[d] = pv[c] /\ b[c] < b[d] /\ \A e \in U : b[e] <= b[c] \/ b[d] <= b[e]
        BY <1>0, <1>2, <2>1
    <3>2. CASE pv[c] = NULL
        BY <1>1, <1>4, <3>1, <3>2
    <3>3. CASE pv[c] # NULL
      <4>1. /\ pv[c] \in U /\ b[pv[c]] < b[c]
            /\ \A e \in U : b[c] <= b[e] \/ b[e] <= b[pv[c]]
          BY <1>1, <1>3, <3>3
      <4>2. pv[c] \in U \ {c} /\ b[pv[c]] < b[d]
          BY <3>1, <4>1
      <4>3. \A e \in U \ {c} : b[e] # b[c]
          OBVIOUS
      <4>4. \A e \in U \ {c} : b[d] <= b[e] \/ b[e] <= b[pv[c]]
          BY <3>1, <4>1, <4>3
      <4> QED
          BY <3>1, <3>3, <4>2, <4>4
    <3> QED
        BY <3>2, <3>3
  <2>2. CASE d # nx[c]
    <3>1. pv2[d] = pv[d] /\ pv[d] # c
        BY <1>0, <1>1, <2>2
    <3> QED
        BY <1>1, <1>3, <1>4, <3>1
  <2> QED
      BY <2>1, <2>2
<1>7. IF h2 = NULL THEN U \ {c} = {} ELSE h2 \in U \ {c} /\ \A d \in U \ {c} : b[h2] <= b[d]
  <2>1. CASE c = h /\ nx[c] = NULL
      BY <1>b, <1>1, <1>4, <2>1
  <2>2. CASE c = h /\ nx[c] # NULL
      BY <1>b, <1>1, <1>2, <1>4, <2>2
  <2>3. CASE c # h
      BY <1>b, <1>0, <1>4, <2>3
  <2> QED
      BY <2>1, <2>2, <2>3
<1>8. IF t2 = NULL THEN U \ {c} = {} ELSE t2 \in U \ {c} /\ \A d \in U \ {c} : b[d] <= b[t2]
  <2>1. CASE c = t /\ pv[c] = NULL
      BY <1>b, <1>1, <1>4, <2>1
  <2>2. CASE c = t /\ pv[c] # NULL
      BY <1>b, <1>1, <1>3, <1>4, <2>2
  <2>3. CASE c # t
      BY <1>b, <1>0, <1>4, <2>3
  <2> QED
      BY <2>1, <2>2, <2>3
<1> QED
    BY <1>5, <1>6, <1>7, <1>8 DEF Ordered

\* The first cell of rest loses its predecessor.
CutsOff(rest, z, pv, pv2, nx, nx2) ==
    \A d \in rest : nx2[d] = nx[d] /\ pv2[d] = IF d = nx[z] THEN NULL ELSE pv[d]

\* The part up to z is cut off, as GetTimeoutList does.
LEMMA OrderedCut ==
    ASSUME NEW U \in SUBSET Cells, NEW b, NEW h, NEW t, NEW pv, NEW pv2, NEW nx, NEW nx2,
           Numbered(U, b),
           Ordered(U, b, h, t, pv, nx), NEW z \in U,
           NEW rest, rest = {d \in U : b[z] < b[d]}, CutsOff(rest, z, pv, pv2, nx, nx2),
           NEW t2, t2 = IF nx[z] = NULL THEN NULL ELSE t
    PROVE  Ordered(rest, b, nx[z], t2, pv2, nx2)
<1>a. \A d \in rest : nx2[d] = nx[d] /\ (pv2[d] = IF d = nx[z] THEN NULL ELSE pv[d])
    BY DEF CutsOff
<1> USE <1>a
<1>n. (\A d \in U : b[d] \in Nat) /\ \A d, e \in U : b[d] = b[e] => d = e
    BY DEF Numbered
<1> USE <1>n
<1>0. NULL \notin U
    BY NullIsNoCell
<1>1. \A d \in U : /\ nx[d] # NULL => nx[d] \in U /\ pv[nx[d]] = d
                   /\ pv[d] # NULL => pv[d] \in U /\ nx[pv[d]] = d
    BY OrderedLinks
<1>2. \A d \in U : IF nx[d] = NULL THEN \A e \in U : b[e] <= b[d]
                   ELSE b[d] < b[nx[d]] /\ \A e \in U : b[e] <= b[d] \/ b[nx[d]] <= b[e]
    BY DEF Ordered
<1>3. \A d \in U : IF pv[d] = NULL THEN \A e \in U : b[d] <= b[e]
                   ELSE b[pv[d]] < b[d] /\ \A e \in U : b[d] <= b[e] \/ b[e] <= b[pv[d]]
    BY DEF Ordered
<1>4. ASSUME NEW d \in rest
      PROVE  IF nx2[d] = NULL THEN \A e \in rest : b[e] <= b[d]
             ELSE /\ nx2[d] \in rest /\ b[d] < b[nx2[d]]
                  /\ \A e \in rest : b[e] <= b[d] \/ b[nx2[d]] <= b[e]
    BY <1>1, <1>2
<1>5. ASSUME NEW d \in rest
      PROVE  IF pv2[d] = NULL THEN \A e \in rest : b[d] <= b[e]
             ELSE /\ pv2[d] \in rest /\ b[pv2[d]] < b[d]
                  /\ \A e \in rest : b[d] <= b[e] \/ b[e] <= b[pv2[d]]
  <2>1. CASE d = nx[z]
      BY <1>0, <1>2, <2>1
  <2>2. CASE d # nx[z]
    <3>1. pv2[d] = pv[d] /\ pv[d] # z /\ pv[d] # NULL
        BY <1>0, <1>1, <1>3, <2>2
    <3>2. pv[d] \in U /\ b[pv[d]] < b[d] /\ b[z] <= b[pv[d]]
        BY <1>1, <1>3, <3>1
    <3>3. b[pv[d]] # b[z]
        BY <3>1, <3>2
    <3>4. pv[d] \in rest
        BY <3>2, <3>3
    <3> QED
        BY <1>3, <3>1, <3>4
  <2> QED
      BY <2>1, <2>2
<1>6. CASE nx[z] = NULL
  <2>1. rest = {}
      BY <1>2, <1>6
  <2> QED
      BY <1>6, <2>1 DEF Ordered
<1>7. CASE nx[z] # NULL
  <2>1. nx[z] \in rest /\ \A d \in rest : b[nx[z]] <= b[d]
      BY <1>1, <1>2, <1>7
  <2>2. t \in U /\ t # NULL /\ \A d \in U : b[d] <= b[t]
      BY <1>0 DEF Ordered
  <2>3. t \in rest
      BY <2>1, <2>2
  <2> QED
      BY <1>4, <1>5, <1>7, <2>1, <2>2, <2>3 DEF Ordered
<1> QED
    BY <1>6, <1>7

-----------------------------------------------------------------------------
(* The timeout lists. *)

LEMMA ChainedSame ==
    ASSUME NEW T, NEW L, NEW b, NEW b2, NEW pv, NEW pv2, NEW nx, NEW nx2,
           Chained(T, L, b, pv, nx),
           \A c \in T : b2[c] = b[c] /\ pv2[c] = pv[c] /\ nx2[c] = nx[c]
    PROVE  Chained(T, L, b2, pv2, nx2)
BY DEF Chained

\* The cells G end at z, the cells T stay as they are.
EndsAt(z, G, T, pv, pv2, nx, nx2) ==
    /\ \A d \in T : pv2[d] = pv[d] /\ nx2[d] = nx[d]
    /\ \A d \in G : pv2[d] = pv[d] /\ nx2[d] = IF d = z THEN NULL ELSE nx[d]

\* The part of the use list up to z becomes a list of its own.
LEMMA ChainedAdd ==
    ASSUME NEW T \in SUBSET Cells, NEW L, NEW b, NEW pv, NEW pv2, NEW nx, NEW nx2,
           Chained(T, L, b, pv, nx),
           NEW U \in SUBSET Cells, NEW h, NEW t, Numbered(U, b), Ordered(U, b, h, t, pv, nx),
           U \cap T = {}, NEW z \in U, NEW G, G = {d \in U : b[d] <= b[z]},
           EndsAt(z, G, T, pv, pv2, nx, nx2)
    PROVE  Chained(T \cup G, L \cup {h}, b, pv2, nx2)
<1>a. /\ \A d \in T : pv2[d] = pv[d] /\ nx2[d] = nx[d]
      /\ \A d \in G : pv2[d] = pv[d] /\ (nx2[d] = IF d = z THEN NULL ELSE nx[d])
    BY DEF EndsAt
<1> USE <1>a
<1>0. /\ NULL \notin U /\ NULL \notin T /\ L \subseteq T
      /\ (\A d \in U : b[d] \in Nat) /\ \A d, e \in U : b[d] = b[e] => d = e
    BY NullIsNoCell DEF Numbered, Chained
<1>1. \A d \in U : /\ nx[d] # NULL => nx[d] \in U /\ pv[nx[d]] = d
                   /\ pv[d] # NULL => pv[d] \in U /\ nx[pv[d]] = d
                   /\ pv[d] = NULL <=> d = h
    BY OrderedLinks
<1>2. h \in G
    BY <1>0 DEF Ordered
<1>3. ASSUME NEW d \in G, d # z PROVE nx2[d] \in G /\ pv2[nx2[d]] = d
  <2>1. b[d] < b[z]
      BY <1>0, <1>3
  <2>2. nx[d] \in U /\ b[nx[d]] <= b[z] /\ pv[nx[d]] = d
      BY <1>0, <1>1, <2>1 DEF Ordered
  <2> QED
      BY <1>3, <2>2
<1>4. ASSUME NEW d \in G, d # h PROVE pv2[d] \in G /\ nx2[pv2[d]] = d /\ b[pv2[d]] < b[d]
  <2>1. pv[d] \in U /\ nx[pv[d]] = d /\ b[pv[d]] < b[d]
      BY <1>1, <1>4 DEF Ordered
  <2>2. pv[d] \in G /\ pv[d] # z
      BY <1>0, <2>1
  <2> QED
      BY <2>1, <2>2
<1>5. \A d \in T : nx2[d] = NULL \/ (nx2[d] \in T /\ pv2[nx2[d]] = d)
    BY DEF Chained
<1>6. \A d \in T : IF d \in L THEN pv2[d] = NULL
                   ELSE pv2[d] \in T /\ nx2[pv2[d]] = d /\ b[pv2[d]] < b[d]
    BY DEF Chained
<1>7. pv2[h] = NULL /\ nx2[z] = NULL /\ h \notin T /\ \A d \in G : d \notin L
    BY <1>0, <1>1, <1>2
<1> QED
    BY <1>0, <1>2, <1>3, <1>4, <1>5, <1>6, <1>7 DEF Chained

\* B is one whole list of T, with the head l.
WholeList(l, B, T, L, pv, nx) ==
    /\ l \in B /\ B \subseteq T
    /\ \A c \in B : nx[c] # NULL => nx[c] \in B
    /\ \A c \in B : c # l => c \notin L /\ pv[c] \in B

\* A walk from the head of such a list visits that list and nothing else.
LEMMA ChainedWalk ==
    ASSUME NEW T \in SUBSET Cells, NEW L, NEW b, NEW pv, NEW nx, Chained(T, L, b, pv, nx),
           NEW go \in SUBSET Cells, T \subseteq go, NEW l \in L,
           NEW B, B = Visits(nx, l, go)
    PROVE  WholeList(l, B, T, L, pv, nx)
<1>0. NULL \notin go /\ l \in T
    BY NullIsNoCell DEF Chained
<1>1. l \in B
    BY <1>0 DEF Visits
<1>2. B \subseteq T
  <2>1. \A d \in T : nx[d] \in go => nx[d] \in T
      BY <1>0 DEF Chained
  <2> QED
      BY <1>0, <2>1 DEF Visits
<1>3. ASSUME NEW c \in B, nx[c] # NULL PROVE nx[c] \in B
  <2>1. nx[c] \in go
      BY <1>2, <1>3 DEF Chained
  <2> QED
      BY <2>1 DEF Visits
<1>4. ASSUME NEW c \in B, c # l, c \in L \/ pv[c] \notin B PROVE FALSE
  <2> DEFINE S == B \ {c}
  <2>1. S \in SUBSET go /\ l \in S
      BY <1>1, <1>2, <1>4
  <2>2. ASSUME NEW d \in S, nx[d] \in go PROVE nx[d] \in S
    <3>1. nx[d] # NULL /\ nx[d] \in B
        BY <1>0, <1>3, <2>2
    <3>2. pv[nx[d]] = d /\ d \in T
        BY <1>2, <3>1 DEF Chained
    <3>3. nx[d] # c
        BY <1>0, <1>4, <3>2 DEF Chained
    <3> QED
        BY <3>1, <3>3
  <2> HIDE DEF S
  <2>3. c \in S
      BY <2>1, <2>2 DEF Visits
  <2> QED
      BY <2>3 DEF S
<1> QED
    BY <1>1, <1>2, <1>3, <1>4 DEF WholeList

\* A whole list is given back.
LEMMA ChainedRemove ==
    ASSUME NEW T \in SUBSET Cells, NEW L, NEW b, NEW pv, NEW pv2, NEW nx, NEW nx2,
           Chained(T, L, b, pv, nx), NEW l \in L, NEW B \in SUBSET T, l \in B,
           \A c \in B : nx[c] # NULL => nx[c] \in B,
           \A c \in B : c # l => c \notin L /\ pv[c] \in B,
           \A d \in T \ B : pv2[d] = pv[d] /\ nx2[d] = nx[d]
    PROVE  Chained(T \ B, L \ {l}, b, pv2, nx2)
<1>0. NULL \notin T
    BY NullIsNoCell
<1>1. L \ {l} \subseteq T \ B
    BY DEF Chained
<1>2. ASSUME NEW d \in T \ B, nx[d] # NULL
      PROVE  nx[d] \in T \ B /\ pv2[nx[d]] = d
  <2>1. nx[d] \in T /\ pv[nx[d]] = d
      BY <1>2 DEF Chained
  <2>2. nx[d] \notin B
      BY <1>0, <2>1 DEF Chained
  <2> QED
      BY <2>1, <2>2
<1>3. ASSUME NEW d \in T \ B, d \notin L
      PROVE  pv[d] \in T \ B /\ nx2[pv[d]] = d /\ b[pv[d]] < b[d]
  <2>1. pv[d] \in T /\ nx[pv[d]] = d /\ b[pv[d]] < b[d]
      BY <1>3 DEF Chained
  <2>2. pv[d] \notin B
      BY <1>0, <2>1
  <2> QED
      BY <2>1, <2>2
<1>4. \A d \in T \ B : d \in L => pv[d] = NULL
    BY DEF Chained
<1> QED
    BY <1>1, <1>2, <1>3, <1>4 DEF Chained

-----------------------------------------------------------------------------
(* The free list. *)

LEMMA LinkedSame ==
    ASSUME NEW P, NEW h, NEW t, NEW nx, NEW nx2, Linked(P, h, t, nx),
           \A c \in P : nx2[c] = nx[c]
    PROVE  Linked(P, h, t, nx2)
<1>1. ASSUME NEW S \in SUBSET P, h \in S, \A d \in S : nx2[d] # NULL => nx2[d] \in S, t # NULL
      PROVE  t \in S
    BY <1>1 DEF Linked
<1> QED
    BY <1>1 DEF Linked

\* c is linked behind t, with nothing after it.
LinkedBehind(c, P, t, nx, nx2) ==
    nx2[c] = NULL /\ \A d \in P : nx2[d] = IF d = t THEN c ELSE nx[d]

\* FreeChannel and AppendChannel.
LEMMA LinkedPush ==
    ASSUME NEW P \in SUBSET Cells, NEW h, NEW t, NEW nx, NEW nx2, Linked(P, h, t, nx),
           NEW c \in Cells \ P, LinkedBehind(c, P, t, nx, nx2),
           NEW h2, h2 = IF t = NULL THEN c ELSE h
    PROVE  Linked(P \cup {c}, h2, c, nx2)
<1>a. nx2[c] = NULL /\ \A d \in P : nx2[d] = IF d = t THEN c ELSE nx[d]
    BY DEF LinkedBehind
<1> USE <1>a
<1>0. NULL \notin P /\ c # NULL
    BY NullIsNoCell
<1>1. \A d \in P : nx[d] = NULL \/ nx[d] \in P \ {h}
    BY DEF Linked
<1>2. \A d \in P \cup {c} : nx2[d] = NULL \/ nx2[d] \in (P \cup {c}) \ {h2}
  <2>1. CASE t = NULL
      BY <1>0, <1>1, <2>1
  <2>2. CASE t # NULL
    <3>1. h \in P /\ h # c
        BY <2>2 DEF Linked
    <3> QED
        BY <1>0, <1>1, <2>2, <3>1
  <2> QED
      BY <2>1, <2>2
<1>3. \A d, e \in P \cup {c} : nx2[d] = nx2[e] /\ nx2[d] # NULL => d = e
    BY <1>0, <1>1 DEF Linked
<1>4. h2 \in P \cup {c} /\ h2 # NULL
    BY <1>0 DEF Linked
<1>5. ASSUME NEW S \in SUBSET (P \cup {c}), h2 \in S,
             \A d \in S : nx2[d] # NULL => nx2[d] \in S
      PROVE  c \in S
  <2>1. CASE t = NULL
      BY <1>5, <2>1
  <2>2. CASE t # NULL
    <3>0. t \in P /\ nx[t] = NULL /\ h \in P
        BY <1>0, <2>2 DEF Linked
    <3>1. \A d \in S \cap P : nx[d] # NULL => nx[d] \in S \cap P
        BY <1>1, <1>5, <3>0
    <3>2. t \in S \cap P
        BY <1>5, <2>2, <3>0, <3>1 DEF Linked
    <3> QED
        BY <1>0, <1>5, <3>2
  <2> QED
      BY <2>1, <2>2
<1> QED
    BY <1>2, <1>3, <1>4, <1>5 DEF Linked

\* AllocChannel takes the first one.
LEMMA LinkedPop ==
    ASSUME NEW P \in SUBSET Cells, NEW h, NEW t, NEW nx, NEW nx2, Linked(P, h, t, nx), h # NULL,
           \A d \in P \ {h} : nx2[d] = nx[d]
    PROVE  Linked(P \ {h}, nx[h], IF nx[h] = NULL THEN NULL ELSE t, nx2)
<1>0. NULL \notin P /\ h \in P
    BY NullIsNoCell DEF Linked
<1> DEFINE g == nx[h]
           t2 == IF nx[h] = NULL THEN NULL ELSE t
<1>1. \A d \in P : nx[d] = NULL \/ nx[d] \in P \ {h}
    BY DEF Linked
<1>2. \A d \in P \ {h} : nx2[d] = NULL \/ nx2[d] \in (P \ {h}) \ {g}
    BY <1>0, <1>1 DEF Linked
<1>3. \A d, e \in P \ {h} : nx2[d] = nx2[e] /\ nx2[d] # NULL => d = e
    BY DEF Linked
<1>4. g \in (P \ {h}) \cup {NULL}
    BY <1>0, <1>1
<1>5. ASSUME t2 # NULL
      PROVE  /\ g # NULL /\ t2 \in P \ {h} /\ nx2[t2] = NULL
             /\ \A S \in SUBSET (P \ {h}) :
                   g \in S /\ (\A d \in S : nx2[d] # NULL => nx2[d] \in S) => t2 \in S
  <2>1. g # NULL /\ t2 = t /\ t \in P /\ nx[t] = NULL /\ t # h
      BY <1>5 DEF Linked
  <2>2. ASSUME NEW S \in SUBSET (P \ {h}), g \in S,
               \A d \in S : nx2[d] # NULL => nx2[d] \in S
        PROVE  t \in S
    <3>1. S \cup {h} \in SUBSET P /\ \A d \in S \cup {h} : nx[d] # NULL => nx[d] \in S \cup {h}
        BY <1>0, <2>2
    <3>2. t \in S \cup {h}
        BY <2>1, <3>1, <1>5 DEF Linked
    <3> QED
        BY <2>1, <3>2
  <2> QED
      BY <2>1, <2>2
<1> HIDE DEF g, t2
<1>6. Linked(P \ {h}, g, t2, nx2)
    BY <1>2, <1>3, <1>4, <1>5 DEF Linked
<1> QED
    BY <1>6 DEF g, t2

\* The list B that starts at a is linked behind t.
JoinedBehind(a, P, B, t, nx, nx2) ==
    /\ \A d \in B : nx[d] = NULL \/ nx[d] \in B \ {a}
    /\ \A d, e \in B : nx[d] = nx[e] /\ nx[d] # NULL => d = e
    /\ \A d \in P \cup B : nx2[d] = IF d = t THEN a ELSE nx[d]

\* AppendFreeList: the list that starts at a is put at the end, and its own end
\* is not known.
LEMMA LinkedJoin ==
    ASSUME NEW P \in SUBSET Cells, NEW h, NEW t, NEW nx, NEW nx2, Linked(P, h, t, nx),
           NEW B \in SUBSET Cells, P \cap B = {}, NEW a \in B,
           JoinedBehind(a, P, B, t, nx, nx2)
    PROVE  Linked(P \cup B, IF t = NULL THEN a ELSE h, NULL, nx2)
<1>a. /\ \A d \in B : nx[d] = NULL \/ nx[d] \in B \ {a}
      /\ \A d, e \in B : nx[d] = nx[e] /\ nx[d] # NULL => d = e
      /\ \A d \in P \cup B : nx2[d] = IF d = t THEN a ELSE nx[d]
    BY DEF JoinedBehind
<1> USE <1>a
<1>0. NULL \notin P /\ NULL \notin B
    BY NullIsNoCell
<1> DEFINE h2 == IF t = NULL THEN a ELSE h
<1>1. \A d \in P : nx[d] = NULL \/ nx[d] \in P \ {h}
    BY DEF Linked
<1>2. t # NULL => t \in P /\ h \in P /\ nx[t] = NULL
    BY <1>0 DEF Linked
<1>3. \A d \in P \cup B : nx2[d] = NULL \/ nx2[d] \in (P \cup B) \ {h2}
    BY <1>0, <1>1, <1>2
<1>4. \A d, e \in P \cup B : nx2[d] = nx2[e] /\ nx2[d] # NULL => d = e
    BY <1>0, <1>1, <1>2 DEF Linked
<1>5. h2 \in P \cup B
    BY <1>2
<1> HIDE DEF h2
<1>6. Linked(P \cup B, h2, NULL, nx2)
    BY <1>3, <1>4, <1>5 DEF Linked
<1> QED
    BY <1>6 DEF h2

\* AllocChannel with a new cluster, whose cells from a to z are linked.
LEMMA LinkedCluster ==
    ASSUME NEW P \in SUBSET Cells, NEW t, NEW nx, NEW nx2, Linked(P, NULL, t, nx),
           NEW a \in Nat, NEW z \in Nat, a <= z, P \cap (a .. z) = {}, NULL \notin a .. z,
           \A d \in P : nx2[d] = nx[d],
           \A d \in a .. z : nx2[d] = IF d = z THEN NULL ELSE d + 1
    PROVE  Linked(P \cup (a .. z), a, z, nx2)
<1>0. NULL \notin P
    BY NullIsNoCell
<1>1. \A d \in P : nx2[d] = NULL \/ nx2[d] \in P
    BY DEF Linked
<1>2. \A d \in a .. z : nx2[d] = NULL \/ nx2[d] \in (a .. z) \ {a}
    OBVIOUS
<1>3. \A d, e \in P : nx2[d] = nx2[e] /\ nx2[d] # NULL => d = e
    BY DEF Linked
<1>4. \A d, e \in a .. z : nx2[d] = nx2[e] /\ nx2[d] # NULL => d = e
    OBVIOUS
<1>5. ASSUME NEW S \in SUBSET (P \cup (a .. z)), a \in S,
             \A d \in S : nx2[d] # NULL => nx2[d] \in S, z \notin S
      PROVE  FALSE
  <2> DEFINE out == (a .. z) \ S
             f == [d \in out |-> d]
  <2>1. out # {} /\ \A d \in out : f[d] \in Nat /\ f[d] = d
      BY <1>5
  <2>2. \E m \in out : \A d \in out : f[m] <= f[d]
    <3> HIDE DEF out, f
    <3> QED
        BY <2>1, Least
  <2>3. PICK m \in out : \A d \in out : m <= d
      BY <2>1, <2>2
  <2>4. m - 1 \in a .. z /\ m - 1 \in S /\ m - 1 # z
      BY <1>5, <2>3
  <2>5. nx2[m - 1] = m
      BY <2>4
  <2>6. m # NULL
      OBVIOUS
  <2> QED
      BY <1>5, <2>4, <2>5, <2>6
<1>6. a \in a .. z /\ z \in a .. z /\ nx2[z] = NULL /\ a # NULL
    OBVIOUS
<1>7. \A d \in P \cup (a .. z) : nx2[d] = NULL \/ nx2[d] \in (P \cup (a .. z)) \ {a}
    BY <1>1, <1>2, <1>6
<1>8. \A d, e \in P \cup (a .. z) : nx2[d] = nx2[e] /\ nx2[d] # NULL => d = e
    BY <1>1, <1>2, <1>3, <1>4
<1> QED
    BY <1>5, <1>6, <1>7, <1>8 DEF Linked

-----------------------------------------------------------------------------
(* Types. *)

LEMMA InitTypes == Init => TypeOK
BY PoolBounds DEF Init, TypeOK, Cells, NULL, Ids, WordSize, Never, Places

LEMMA DrawTypes ==
    ASSUME TypeOK, Draw
    PROVE  Drawn \in Ids /\ counter' \in 0 .. WordSize - 1 /\ fetched' \in 1 .. MaxFetch
<1>1. counter \in Nat /\ fetched \in Nat /\ IdSpace \in Nat /\ IdSpace > 1 /\ MaxFetch \in Nat
    BY PoolBounds DEF TypeOK, WordSize
<1>2. counter % IdSpace \in 0 .. IdSpace - 1
    BY <1>1
<1>3. Drawn \in Ids
    BY <1>1, <1>2 DEF Drawn, Ids
<1>4. (counter + 1) % WordSize \in 0 .. WordSize - 1 /\ 1 \in 0 .. WordSize - 1
    BY <1>1 DEF WordSize
<1> QED
    BY <1>1, <1>3, <1>4 DEF Draw

LEMMA EnlistTypes ==
    ASSUME TypeOK, NEW c \in Cells,
           NEW pv \in [Cells -> Cells \cup {NULL}], NEW nx \in [Cells -> Cells \cup {NULL}],
           total' \in 0 .. MaxCells, {freeListHead', freeListTail'} \subseteq Cells \cup {NULL},
           Enlist(c, pv, nx)
    PROVE  TypeOK'
<1>1. Drawn \in Ids /\ counter' \in 0 .. WordSize - 1 /\ fetched' \in 1 .. MaxFetch
    BY DrawTypes DEF Enlist
<1>2. prev' \in [Cells -> Cells \cup {NULL}] /\ next' \in [Cells -> Cells \cup {NULL}]
    BY PutType DEF Enlist, TypeOK
<1>3. Never \in 0 .. Never /\ fetched' \in 0 .. MaxFetch /\ 0 \in 0 .. MaxFetch
    BY PoolBounds, <1>1 DEF Never
<1>4. expire' \in [Cells -> 0 .. Never] /\ born' \in [Cells -> 0 .. MaxFetch]
    BY <1>3 DEF Enlist, TypeOK
<1> QED
    BY <1>1, <1>2, <1>3, <1>4 DEF Enlist, TypeOK, Places

LEMMA UnlinkTypes ==
    ASSUME TypeOK, NEW c \in Cells
    PROVE  /\ UnlinkedPrev(c) \in [Cells -> Cells \cup {NULL}]
           /\ UnlinkedNext(c) \in [Cells -> Cells \cup {NULL}]
           /\ UnlinkEnds(c) => {useListHead', useListTail'} \subseteq Cells \cup {NULL}
<1>1. prev[c] \in Cells \cup {NULL} /\ next[c] \in Cells \cup {NULL}
    BY DEF TypeOK
<1>2. prev \in [Cells -> Cells \cup {NULL}] /\ next \in [Cells -> Cells \cup {NULL}]
    BY DEF TypeOK
<1>3. UnlinkedPrev(c) \in [Cells -> Cells \cup {NULL}]
    BY <1>1, <1>2, PutType DEF UnlinkedPrev
<1>4. UnlinkedNext(c) \in [Cells -> Cells \cup {NULL}]
    BY <1>1, <1>2, PutType DEF UnlinkedNext
<1> QED
    BY <1>1, <1>3, <1>4 DEF UnlinkEnds, TypeOK

LEMMA PushTypes ==
    ASSUME TypeOK, NEW c \in Cells,
           NEW pv \in [Cells -> Cells \cup {NULL}], NEW nx \in [Cells -> Cells \cup {NULL}],
           PushFree(c, pv, nx)
    PROVE  /\ prev' \in [Cells -> Cells \cup {NULL}] /\ next' \in [Cells -> Cells \cup {NULL}]
           /\ {freeListHead', freeListTail'} \subseteq Cells \cup {NULL}
           /\ id' \in [Cells -> Ids] /\ args' \in [Cells -> 0 .. MaxFetch]
           /\ place' \in [Cells -> Places]
<1>1. 0 \in Ids /\ 0 \in 0 .. MaxFetch
    BY PoolBounds DEF Ids
<1>2. prev' \in [Cells -> Cells \cup {NULL}] /\ next' \in [Cells -> Cells \cup {NULL}]
    BY PutType DEF PushFree, TypeOK
<1> QED
    BY <1>1, <1>2 DEF PushFree, TypeOK, Places

\* A walk that visits anything visits its first cell.
LEMMA WalkStarts ==
    ASSUME NEW h, NEW go, NEW c \in Walk(h, go)
    PROVE  h \in go
<1>1. ASSUME h \notin go PROVE FALSE
  <2>1. {} \in SUBSET go
      OBVIOUS
  <2> QED
      BY <1>1, <2>1 DEF Walk
<1> QED
    BY <1>1

LEMMA TypeStep == TypeOK /\ [Next]_vars => TypeOK'
<1> SUFFICES ASSUME TypeOK, [Next]_vars PROVE TypeOK'
    OBVIOUS
<1>0. 0 \in Ids /\ 0 \in 0 .. MaxFetch /\ NULL \notin Cells
    BY PoolBounds, NullIsNoCell DEF Ids
<1>1. CASE AllocFromCluster
  <2>1. /\ total \in Nat /\ ClusterSize \in Nat /\ ClusterSize > 2 /\ MaxCells \in Nat
        /\ total + ClusterSize <= MaxCells
      BY <1>1, PoolBounds DEF TypeOK, AllocFromCluster
  <2>2. /\ total' \in 0 .. MaxCells /\ {freeListHead', freeListTail'} \subseteq Cells \cup {NULL}
        /\ total + 1 \in Cells
      BY <1>1, <2>1 DEF AllocFromCluster, Cells
  <2> DEFINE spare == total + 2 .. total + ClusterSize
             pv == [c \in Cells |-> IF c \in spare
                                    THEN IF c = total + 2 THEN NULL ELSE c - 1
                                    ELSE prev[c]]
             nx == [c \in Cells |-> IF c \in spare
                                    THEN IF c = total + ClusterSize THEN NULL
                                         ELSE c + 1
                                    ELSE next[c]]
  <2>3. ASSUME NEW c \in spare
        PROVE  /\ c # total + 2 => c - 1 \in Cells
               /\ c # total + ClusterSize => c + 1 \in Cells
      BY <2>1 DEF Cells
  <2>4. pv \in [Cells -> Cells \cup {NULL}] /\ nx \in [Cells -> Cells \cup {NULL}]
      BY <2>3 DEF TypeOK
  <2>5. Enlist(total + 1, pv, nx)
      BY <1>1 DEF AllocFromCluster
  <2> HIDE DEF pv, nx
  <2> QED
      BY <2>2, <2>4, <2>5, EnlistTypes
<1>2. CASE AllocFromFreeList
  <2>1. freeListHead \in Cells /\ freeListHead' \in Cells \cup {NULL} /\ total' \in 0 .. MaxCells
      BY <1>2 DEF AllocFromFreeList, TypeOK
  <2>2. freeListTail' \in Cells \cup {NULL}
      BY <1>2 DEF AllocFromFreeList, TypeOK
  <2>3. Put(prev, freeListHead', NULL) \in [Cells -> Cells \cup {NULL}]
      BY PutType DEF TypeOK
  <2>4. next \in [Cells -> Cells \cup {NULL}]
      BY DEF TypeOK
  <2>5. Enlist(freeListHead, Put(prev, freeListHead', NULL), next)
      BY <1>2 DEF AllocFromFreeList
  <2> QED
      BY <2>1, <2>2, <2>3, <2>4, <2>5, EnlistTypes
<1>3. CASE OtherPoolAlloc
  <2>1. counter' \in 0 .. WordSize - 1 /\ fetched' \in 1 .. MaxFetch
      BY <1>3, DrawTypes DEF OtherPoolAlloc
  <2>2. fetched' \in 0 .. MaxFetch
      BY <2>1
  <2> QED
      BY <1>3, <2>1, <2>2 DEF OtherPoolAlloc, TypeOK, links, fields
<1>4. ASSUME NEW c \in Cells, FreeChannel(c) PROVE TypeOK'
  <2>1. /\ UnlinkedPrev(c) \in [Cells -> Cells \cup {NULL}]
        /\ UnlinkedNext(c) \in [Cells -> Cells \cup {NULL}]
        /\ {useListHead', useListTail'} \subseteq Cells \cup {NULL}
      BY <1>4, UnlinkTypes DEF FreeChannel
  <2>2. PushFree(c, UnlinkedPrev(c), UnlinkedNext(c))
      BY <1>4 DEF FreeChannel
  <2>3. /\ prev' \in [Cells -> Cells \cup {NULL}] /\ next' \in [Cells -> Cells \cup {NULL}]
        /\ {freeListHead', freeListTail'} \subseteq Cells \cup {NULL}
        /\ id' \in [Cells -> Ids] /\ args' \in [Cells -> 0 .. MaxFetch]
        /\ place' \in [Cells -> Places]
      BY <2>1, <2>2, PushTypes
  <2>4. useMap' \in [Ids -> Cells \cup {NULL}]
      BY <1>4 DEF FreeChannel, TypeOK
  <2> QED
      BY <1>4, <2>1, <2>3, <2>4 DEF FreeChannel, TypeOK, draws
<1>5. ASSUME NEW c \in Cells, AppendChannel(c) PROVE TypeOK'
  <2>1. PushFree(c, prev, next) /\ next \in [Cells -> Cells \cup {NULL}]
            /\ prev \in [Cells -> Cells \cup {NULL}]
      BY <1>5 DEF AppendChannel, TypeOK
  <2>3. /\ prev' \in [Cells -> Cells \cup {NULL}] /\ next' \in [Cells -> Cells \cup {NULL}]
        /\ {freeListHead', freeListTail'} \subseteq Cells \cup {NULL}
        /\ id' \in [Cells -> Ids] /\ args' \in [Cells -> 0 .. MaxFetch]
        /\ place' \in [Cells -> Places]
      BY <2>1, PushTypes
  <2> QED
      BY <1>5, <2>3 DEF AppendChannel, TypeOK, draws
<1>6. ASSUME NEW c \in Cells, SetArgs(c) PROVE TypeOK'
    BY <1>0, <1>6 DEF SetArgs, TypeOK, draws, links
<1>7. ASSUME NEW c \in Cells, NEW t \in 1 .. MaxTime - 1, SetExpireTime(c, t) PROVE TypeOK'
  <2>1. t \in 0 .. Never
      BY PoolBounds DEF Never
  <2> QED
      BY <1>7, <2>1 DEF SetExpireTime, TypeOK, draws, links
<1>8. ASSUME NEW i \in Ids, OfferChannel(i) PROVE TypeOK'
  <2>1. PICK c \in Cells : c = useMap[i]
      BY <1>8 DEF OfferChannel, TypeOK
  <2>2. /\ UnlinkedPrev(c) \in [Cells -> Cells \cup {NULL}]
        /\ UnlinkedNext(c) \in [Cells -> Cells \cup {NULL}]
        /\ {useListHead', useListTail'} \subseteq Cells \cup {NULL}
      BY <1>8, <2>1, UnlinkTypes DEF OfferChannel
  <2>3. prev' \in [Cells -> Cells \cup {NULL}] /\ next' \in [Cells -> Cells \cup {NULL}]
      BY <1>8, <2>1, <2>2, PutType DEF OfferChannel
  <2>4. useMap' \in [Ids -> Cells \cup {NULL}] /\ place' \in [Cells -> Places]
      BY <1>8, <2>1 DEF OfferChannel, TypeOK, Places
  <2> QED
      BY <1>8, <2>2, <2>3, <2>4 DEF OfferChannel, TypeOK, draws, fields
<1>9. ASSUME NEW now \in 1 .. MaxTime, GetTimeoutList(now) PROVE TypeOK'
  <2>1. PICK stop \in {next[c] : c \in Expired(now)} \ Expired(now) :
            /\ useMap' = [i \in Ids |-> IF \E c \in Expired(now) : id[c] = i
                                        THEN NULL ELSE useMap[i]]
            /\ useListHead' = stop
            /\ useListTail' = IF stop = NULL THEN NULL ELSE useListTail
            /\ next' = CutBefore(stop)
            /\ prev' = Put(prev, stop, NULL)
            /\ place' = [c \in Cells |-> IF c \in Expired(now) THEN "timedout" ELSE place[c]]
            /\ lists' = lists \cup {useListHead}
            /\ UNCHANGED <<total, freeListHead, freeListTail, fields, draws, born>>
      BY <1>9 DEF GetTimeoutList
  <2>2. PICK c \in Expired(now) : stop = next[c]
      OBVIOUS
  <2>3. useListHead \in 1 .. total /\ c \in 1 .. total
    <3>1. useListHead \in {d \in 1 .. total : expire[d] < now}
        BY WalkStarts DEF Expired
    <3> QED
        BY <3>1 DEF Expired, Walk
  <2>4. useListHead \in Cells /\ c \in Cells
      BY <2>3, PoolBounds DEF TypeOK, Cells
  <2>5. stop \in Cells \cup {NULL}
      BY <2>2, <2>4 DEF TypeOK
  <2>6. next' \in [Cells -> Cells \cup {NULL}] /\ prev' \in [Cells -> Cells \cup {NULL}]
      BY <2>1, PutType DEF CutBefore, TypeOK
  <2>7. useMap' \in [Ids -> Cells \cup {NULL}] /\ place' \in [Cells -> Places]
      BY <2>1 DEF TypeOK, Places
  <2> HIDE <1>9
  <2> QED
      BY <2>1, <2>4, <2>5, <2>6, <2>7 DEF TypeOK, draws, fields
<1>10. ASSUME NEW c \in Cells, AppendFreeList(c) PROVE TypeOK'
  <2>1. next' \in [Cells -> Cells \cup {NULL}] /\ prev' \in [Cells -> Cells \cup {NULL}]
      BY <1>10, PutType DEF AppendFreeList, TypeOK
  <2>2. /\ id' \in [Cells -> Ids] /\ args' \in [Cells -> 0 .. MaxFetch]
        /\ place' \in [Cells -> Places]
      BY <1>0, <1>10 DEF AppendFreeList, TypeOK, Places
  <2> QED
      BY <1>10, <2>1, <2>2 DEF AppendFreeList, TypeOK, draws
<1>11. CASE UNCHANGED vars
    BY <1>11 DEF vars, links, fields, draws, TypeOK
<1> QED
    BY <1>1, <1>2, <1>3, <1>4, <1>5, <1>6, <1>7, <1>8, <1>9, <1>10, <1>11
    DEF Next, AllocChannel

\* The fields, links and lists of a pool of any size keep their types.
THEOREM TypesHold == Spec => []TypeOK
BY InitTypes, TypeStep, PTL DEF Spec

-----------------------------------------------------------------------------
(* The three kinds of cells, and what the ends of the lists are. *)

LEMMA CellFacts ==
    ASSUME PoolInv
    PROVE  /\ Used \in SUBSET Cells /\ Timed \in SUBSET Cells /\ Spare \in SUBSET Cells
           /\ Used \cap Timed = {} /\ Used \cap Spare = {} /\ Timed \cap Spare = {}
           /\ Used \subseteq Live /\ Timed \subseteq Live
           /\ Timed \subseteq 1 .. total /\ Used \subseteq 1 .. total
           /\ Numbered(Used, born)
           /\ useListHead \in Used \cup {NULL} /\ useListTail \in Used \cup {NULL}
           /\ freeListHead \in Spare \cup {NULL} /\ freeListTail \in Spare \cup {NULL}
           /\ lists \subseteq Timed
           /\ \A c \in Used : prev[c] \in Used \cup {NULL} /\ next[c] \in Used \cup {NULL}
<1>1. /\ Used \in SUBSET Cells /\ Timed \in SUBSET Cells /\ Spare \in SUBSET Cells
      /\ Used \cap Timed = {} /\ Used \cap Spare = {} /\ Timed \cap Spare = {}
      /\ Used \subseteq Live /\ Timed \subseteq Live
  <2>1. 1 .. total \subseteq Cells
      BY PoolBounds DEF PoolInv, TypeOK, Cells
  <2> QED
      BY <2>1 DEF Used, Timed, Spare, Live
<1>2. Timed \subseteq 1 .. total /\ Used \subseteq 1 .. total
    BY <1>1 DEF PoolInv, IdInv
<1>3. Numbered(Used, born)
  <2>1. \A c \in Used : born[c] \in Nat
      BY <1>1 DEF PoolInv, TypeOK
  <2>2. \A c, d \in Used : born[c] = born[d] => c = d
      BY <1>1 DEF PoolInv, IdInv
  <2> QED
      BY <2>1, <2>2 DEF Numbered
<1>4. useListHead \in Used \cup {NULL} /\ useListTail \in Used \cup {NULL}
    BY DEF PoolInv, UseInv, Ordered
<1>5. freeListHead \in Spare \cup {NULL} /\ freeListTail \in Spare \cup {NULL}
    BY DEF PoolInv, FreeInv, Linked
<1>6. lists \subseteq Timed
    BY DEF PoolInv, TimedInv, Chained
<1>7. \A c \in Used : prev[c] \in Used \cup {NULL} /\ next[c] \in Used \cup {NULL}
    BY DEF PoolInv, UseInv, Ordered
<1> QED
    BY <1>1, <1>2, <1>3, <1>4, <1>5, <1>6, <1>7

\* No two channels that somebody has carry the same id: the map entry of a
\* channel's id can only be that channel.
LEMMA MapFindsOnly ==
    ASSUME PoolInv, NEW c \in Live, useMap[id[c]] # NULL
    PROVE  c \in Used /\ useMap[id[c]] = c
<1>1. id[c] \in Ids
    BY DEF PoolInv, TypeOK, Live
<1>2. PICK d \in Used : d = useMap[id[c]] /\ id[d] = id[c]
    BY <1>1 DEF PoolInv, IdInv
<1>3. d \in Live
    BY CellFacts
<1>4. d = c
    BY <1>2, <1>3 DEF PoolInv, IdInv
<1> QED
    BY <1>2, <1>4

-----------------------------------------------------------------------------
(* AllocChannel. *)

\* As long as the counter has not come round, the id drawn is new.
LEMMA DrawNew ==
    ASSUME NoWrap, PoolInv, Draw
    PROVE  /\ fetched \in Nat /\ fetched' = fetched + 1 /\ Drawn = fetched'
           /\ counter' = fetched' + 1 /\ Drawn \in Ids /\ fetched' \in 1 .. MaxFetch
<1>1. /\ IdSpace \in Nat /\ IdSpace > 1 /\ MaxFetch \in Nat /\ MaxFetch < IdSpace
      /\ fetched \in Nat /\ fetched < MaxFetch /\ counter = fetched + 1
    BY PoolBounds DEF NoWrap, PoolInv, TypeOK, IdInv, Draw
<1>2. counter % IdSpace = counter
    BY <1>1
<1>3. (counter + 1) % WordSize = counter + 1
    BY <1>1 DEF WordSize
<1> QED
    BY <1>1, <1>2, <1>3 DEF Drawn, Draw, Ids

LEMMA EnlistStep ==
    ASSUME NoWrap, PoolInv, NEW c \in Cells, place[c] = "pool",
           NEW pv \in [Cells -> Cells \cup {NULL}], NEW nx \in [Cells -> Cells \cup {NULL}],
           \A d \in Used \cup Timed : pv[d] = prev[d] /\ nx[d] = next[d],
           total' \in Nat, total <= total', c \in 1 .. total',
           Enlist(c, pv, nx)
    PROVE  IdInv' /\ UseInv' /\ TimedInv'
<1>1. /\ fetched \in Nat /\ fetched' = fetched + 1 /\ Drawn = fetched'
      /\ counter' = fetched' + 1 /\ Drawn \in Ids
    BY DrawNew DEF Enlist
<1>2. /\ id \in [Cells -> Ids] /\ args \in [Cells -> 0 .. MaxFetch] /\ born \in [Cells -> 0 .. MaxFetch]
      /\ place \in [Cells -> Places] /\ useMap \in [Ids -> Cells \cup {NULL}] /\ total \in Nat
      /\ MaxFetch \in Nat
    BY PoolBounds DEF PoolInv, TypeOK
<1>3. /\ id' = [id EXCEPT ![c] = Drawn] /\ args' = [args EXCEPT ![c] = 0]
      /\ useMap' = [useMap EXCEPT ![Drawn] = c] /\ born' = [born EXCEPT ![c] = fetched']
      /\ place' = [place EXCEPT ![c] = "used"] /\ lists' = lists
    BY DEF Enlist
<1>4. /\ Used' = Used \cup {c} /\ Timed' = Timed /\ Live' = Live \cup {c}
      /\ c \notin Live /\ c \notin Used /\ c \notin Timed
    BY <1>2, <1>3 DEF Used, Timed, Live
<1>5. IdInv'
  <2>1. ASSUME NEW d \in Live
        PROVE  /\ d # c /\ d \in 1 .. total /\ id[d] = born[d] /\ born[d] \in 1 .. fetched
               /\ args[d] \in {0, born[d]} /\ id'[d] = id[d] /\ born'[d] = born[d]
               /\ args'[d] = args[d] /\ d \in Cells
      BY <1>2, <1>3, <1>4 DEF PoolInv, IdInv, Live
  <2>2. /\ id'[c] = fetched' /\ born'[c] = fetched' /\ args'[c] = 0
        /\ fetched' \in 1 .. fetched'
      BY <1>1, <1>2, <1>3
  <2>3. ASSUME NEW d \in Live'
        PROVE  /\ d \in 1 .. total' /\ id'[d] = born'[d] /\ born'[d] \in 1 .. fetched'
               /\ args'[d] \in {0, born'[d]}
    <3>1. CASE d = c
        BY <2>2, <3>1
    <3>2. CASE d \in Live
        BY <1>1, <1>2, <2>1, <3>2
    <3> QED
        BY <1>4, <3>1, <3>2
  <2>4. ASSUME NEW d \in Live', NEW e \in Live', born'[d] = born'[e] PROVE d = e
    <3>1. \A x \in Live : born'[x] # born'[c]
        BY <1>1, <2>1, <2>2
    <3>2. \A x, y \in Live : born[x] = born[y] => x = y
        BY DEF PoolInv, IdInv
    <3> QED
        BY <1>4, <2>1, <2>4, <3>1, <3>2
  <2>5. ASSUME NEW i \in Ids, useMap'[i] # NULL
        PROVE  useMap'[i] \in Used' /\ id'[useMap'[i]] = i
    <3>1. CASE i = Drawn
        BY <1>1, <1>2, <1>3, <1>4, <2>2, <3>1
    <3>2. CASE i # Drawn
      <4>1. useMap'[i] = useMap[i] /\ useMap[i] \in Used /\ id[useMap[i]] = i
          BY <1>2, <1>3, <2>5, <3>2 DEF PoolInv, IdInv
      <4>2. useMap[i] \in Live
          BY <4>1, CellFacts
      <4> QED
          BY <1>4, <2>1, <4>1, <4>2
    <3> QED
        BY <3>1, <3>2
  <2>6. ASSUME NEW d \in Used' PROVE useMap'[id'[d]] = d
    <3>1. CASE d = c
        BY <1>1, <1>2, <1>3, <2>2, <3>1
    <3>2. CASE d \in Used
      <4>1. d \in Live /\ useMap[id[d]] = d
          BY <3>2, CellFacts DEF PoolInv, IdInv
      <4>2. id'[d] = id[d] /\ id[d] \in Ids /\ id[d] \in 1 .. fetched
          BY <1>2, <2>1, <4>1
      <4>3. id[d] # Drawn
          BY <1>1, <4>2
      <4> QED
          BY <1>2, <1>3, <4>1, <4>2, <4>3
    <3> QED
        BY <1>4, <3>1, <3>2
  <2> QED
      BY <1>1, <2>3, <2>4, <2>5, <2>6 DEF IdInv
<1>6. UseInv'
  <2>1. Ordered(Used, born, useListHead, useListTail, prev, next) /\ Numbered(Used, born)
      BY CellFacts DEF PoolInv, UseInv
  <2>2. \A d \in Used : born'[d] = born[d] /\ born[d] < born'[c]
    <3>1. \A d \in Used : born[d] \in 1 .. fetched /\ d \in Cells /\ d # c
        BY CellFacts, <1>4 DEF PoolInv, IdInv
    <3> QED
        BY <1>1, <1>2, <1>3, <3>1
  <2>3. born'[c] \in Nat
      BY <1>1, <1>2, <1>3
  <2>4. c # NULL /\ c # useListTail
      BY NullIsNoCell, CellFacts, <1>4
  <2>5. \A d \in Cells : /\ prev'[d] = IF d = c THEN useListTail ELSE pv[d]
                         /\ next'[d] = IF d = useListTail THEN c ELSE IF d = c THEN NULL ELSE nx[d]
      BY PutAt DEF Enlist
  <2>6. \A d \in Used : /\ prev'[d] = prev[d]
                        /\ next'[d] = IF d = useListTail THEN c ELSE next[d]
      BY <1>4, <2>5, CellFacts
  <2>7. prev'[c] = useListTail /\ next'[c] = NULL
      BY <2>4, <2>5
  <2>8. Used \in SUBSET Cells /\ c \in Cells \ Used
      BY <1>4, CellFacts
  <2>9. Ordered(Used \cup {c}, born', IF useListTail = NULL THEN c ELSE useListHead, c, prev', next')
    <3>1. LinkedAtEnd(c, Used, useListTail, born, born', prev, prev', next, next')
        BY <2>2, <2>3, <2>6, <2>7 DEF LinkedAtEnd
    <3> QED
        BY <2>1, <2>8, <3>1, OrderedAppend
  <2> QED
      BY <1>4, <2>9 DEF UseInv, Enlist
<1>7. TimedInv'
  <2>1. \A d \in Timed : d \in Cells /\ d # c /\ d # useListTail
      BY <1>4, CellFacts, NullIsNoCell
  <2>2. \A d \in Cells : /\ prev'[d] = IF d = c THEN useListTail ELSE pv[d]
                         /\ next'[d] = IF d = useListTail THEN c ELSE IF d = c THEN NULL ELSE nx[d]
      BY PutAt DEF Enlist
  <2>3. \A d \in Timed : born'[d] = born[d] /\ prev'[d] = prev[d] /\ next'[d] = next[d]
      BY <1>2, <1>3, <2>1, <2>2
  <2>4. Chained(Timed, lists, born', prev', next')
      BY <2>3, ChainedSame DEF PoolInv, TimedInv
  <2> QED
      BY <1>3, <1>4, <2>4 DEF TimedInv
<1> QED
    BY <1>5, <1>6, <1>7

LEMMA AllocFromFreeListStep ==
    NoWrap /\ PoolInv /\ AllocFromFreeList => PoolInv'
<1> SUFFICES ASSUME NoWrap, PoolInv, AllocFromFreeList PROVE PoolInv'
    OBVIOUS
<1>0. TypeOK'
    BY TypeStep DEF PoolInv, Next, AllocChannel
<1>1. PICK c \in Spare : c = freeListHead
    BY CellFacts DEF AllocFromFreeList
<1>2. c \in Cells /\ c \in 1 .. total /\ place[c] = "pool" /\ c # NULL /\ c \notin Used /\ c \notin Timed
    BY CellFacts, NullIsNoCell DEF Spare
<1>3. next[c] = NULL \/ next[c] \in Spare
    BY DEF PoolInv, FreeInv, Linked
<1> DEFINE pv == Put(prev, next[c], NULL)
<1>4. total' = total /\ total \in Nat /\ Enlist(c, pv, next)
    BY <1>1 DEF AllocFromFreeList, PoolInv, TypeOK
<1>5. next \in [Cells -> Cells \cup {NULL}] /\ pv \in [Cells -> Cells \cup {NULL}]
    BY PutType DEF PoolInv, TypeOK
<1>6. \A d \in Used \cup Timed : pv[d] = prev[d]
    BY <1>3, CellFacts, PutAt, NullIsNoCell
<1> HIDE DEF pv
<1>7. IdInv' /\ UseInv' /\ TimedInv'
    BY <1>2, <1>4, <1>5, <1>6, EnlistStep
<1>8. FreeInv'
  <2>1. Spare' = Spare \ {c} /\ Spare \in SUBSET Cells
      BY <1>2, <1>4, CellFacts DEF Spare, Enlist, PoolInv, TypeOK
  <2>2. \A d \in Spare \ {c} : next'[d] = next[d]
    <3>1. \A d \in Spare \ {c} : d \in Cells /\ d # useListTail
        BY CellFacts, NullIsNoCell
    <3> QED
        BY <1>4, <3>1, PutAt DEF Enlist
  <2>3. Linked(Spare, c, freeListTail, next)
      BY <1>1 DEF PoolInv, FreeInv
  <2>4. Linked(Spare \ {c}, next[c], IF next[c] = NULL THEN NULL ELSE freeListTail, next')
      BY <1>2, <2>1, <2>2, <2>3, LinkedPop
  <2> QED
      BY <1>1, <2>1, <2>4 DEF FreeInv, AllocFromFreeList
<1> QED
    BY <1>0, <1>7, <1>8 DEF PoolInv

LEMMA AllocFromClusterStep ==
    NoWrap /\ PoolInv /\ AllocFromCluster => PoolInv'
<1> SUFFICES ASSUME NoWrap, PoolInv, AllocFromCluster PROVE PoolInv'
    OBVIOUS
<1>0. TypeOK'
    BY TypeStep DEF PoolInv, Next, AllocChannel
<1>1. /\ total \in Nat /\ ClusterSize \in Nat /\ ClusterSize > 2 /\ MaxCells \in Nat
      /\ total' = total + ClusterSize /\ total + ClusterSize <= MaxCells
    BY PoolBounds DEF AllocFromCluster, PoolInv, TypeOK
<1> DEFINE spare == total + 2 .. total + ClusterSize
           pv == [c \in Cells |-> IF c \in spare
                                  THEN IF c = total + 2 THEN NULL ELSE c - 1
                                  ELSE prev[c]]
           nx == [c \in Cells |-> IF c \in spare
                                  THEN IF c = total + ClusterSize THEN NULL
                                       ELSE c + 1
                                  ELSE next[c]]
<1>2. Enlist(total + 1, pv, nx)
    BY DEF AllocFromCluster
<1>3. spare \subseteq Cells /\ total + 1 \in Cells /\ total + 1 \in 1 .. total' /\ total + 1 \notin spare
    BY <1>1 DEF Cells
<1>4. \A d \in total + 1 .. total + ClusterSize : d \in Cells /\ d \notin 1 .. total /\ place[d] = "pool"
  <2>1. ASSUME NEW d \in total + 1 .. total + ClusterSize PROVE d \in Cells /\ d \notin 1 .. total
      BY <1>1 DEF Cells
  <2> QED
      BY <2>1 DEF PoolInv, IdInv, Live
<1>5. spare \cap (1 .. total) = {} /\ total + 1 \in total + 1 .. total + ClusterSize
      /\ spare \subseteq total + 1 .. total + ClusterSize
    BY <1>1
<1>6. \A d \in 1 .. total : d \in Cells => pv[d] = prev[d] /\ nx[d] = next[d]
    BY <1>5
<1>7. pv \in [Cells -> Cells \cup {NULL}] /\ nx \in [Cells -> Cells \cup {NULL}]
  <2>1. ASSUME NEW c \in spare
        PROVE  /\ c # total + 2 => c - 1 \in Cells
               /\ c # total + ClusterSize => c + 1 \in Cells
      BY <1>1 DEF Cells
  <2> QED
      BY <2>1 DEF TypeOK, PoolInv
<1>8. /\ \A d \in spare : nx[d] = IF d = total + ClusterSize THEN NULL ELSE d + 1
    BY <1>3
<1> HIDE DEF pv, nx
<1>9. \A d \in Used \cup Timed : pv[d] = prev[d] /\ nx[d] = next[d]
    BY <1>6, CellFacts
<1>10. total <= total' /\ total' \in Nat /\ place[total + 1] = "pool"
    BY <1>1, <1>4, <1>5
<1>11. IdInv' /\ UseInv' /\ TimedInv'
    BY <1>2, <1>3, <1>7, <1>9, <1>10, EnlistStep
<1>12. FreeInv'
  <2>1. Spare' = Spare \cup spare
    <3>1. place' = [place EXCEPT ![total + 1] = "used"] /\ place \in [Cells -> Places]
        BY <1>2 DEF Enlist, PoolInv, TypeOK
    <3>2. 1 .. total' = (1 .. total) \cup {total + 1} \cup spare
        BY <1>1
    <3>3. total + 1 \notin 1 .. total /\ 1 .. total \subseteq Cells
        BY <1>1 DEF Cells
    <3>4. \A d \in spare : place[d] = "pool"
        BY <1>4, <1>5
    <3> HIDE DEF spare
    <3> QED
        BY <1>3, <3>1, <3>2, <3>3, <3>4 DEF Spare
  <2>2. \A d \in Spare \cup spare : d \in Cells /\ d # total + 1 /\ d # useListTail
    <3>1. ASSUME NEW d \in Spare PROVE d \in Cells /\ d # total + 1 /\ d # useListTail
        BY <1>1, CellFacts, NullIsNoCell DEF Spare
    <3>2. ASSUME NEW d \in spare PROVE d \in Cells /\ d # total + 1 /\ d # useListTail
        BY <1>3, <1>5, CellFacts, NullIsNoCell
    <3> QED
        BY <3>1, <3>2
  <2>3. \A d \in Spare \cup spare : next'[d] = nx[d]
      BY <1>2, <2>2, PutAt DEF Enlist
  <2>4. \A d \in Spare : d \in 1 .. total /\ d \in Cells
      BY CellFacts DEF Spare
  <2>5. \A d \in Spare : next'[d] = next[d]
      BY <1>6, <2>3, <2>4
  <2>6. \A d \in total + 2 .. total + ClusterSize :
            next'[d] = IF d = total + ClusterSize THEN NULL ELSE d + 1
      BY <1>8, <2>3
  <2>7. /\ total + 2 \in Nat /\ total + ClusterSize \in Nat /\ total + 2 <= total + ClusterSize
        /\ NULL \notin total + 2 .. total + ClusterSize
      BY <1>1 DEF NULL
  <2>8. Linked(Spare, NULL, freeListTail, next) /\ Spare \in SUBSET Cells
      BY CellFacts DEF AllocFromCluster, PoolInv, FreeInv
  <2>9. Spare \cap (total + 2 .. total + ClusterSize) = {}
      BY <1>5, <2>4
  <2>10. Linked(Spare \cup (total + 2 .. total + ClusterSize), total + 2, total + ClusterSize, next')
      BY <2>5, <2>6, <2>7, <2>8, <2>9, LinkedCluster
  <2> QED
      BY <2>1, <2>10 DEF FreeInv, AllocFromCluster
<1> QED
    BY <1>0, <1>11, <1>12 DEF PoolInv

-----------------------------------------------------------------------------
(* Channels that leave the map: FreeChannel, OfferChannel, GetTimeoutList,   *)
(* and the steps that only touch channels outside it.                       *)

\* The channels G leave the map; those somebody still has keep id and args.
LeaveMap(G) ==
    /\ total' = total /\ UNCHANGED draws /\ born' = born
    /\ Live' \subseteq Live /\ Used' = Used \ G
    /\ \A i \in Ids : useMap'[i] = IF \E c \in G : id[c] = i THEN NULL ELSE useMap[i]
    /\ \A c \in Live' : id'[c] = id[c] /\ args'[c] \in {0, born[c]}

LEMMA IdsLeave ==
    ASSUME PoolInv, NEW G \in SUBSET Used, LeaveMap(G)
    PROVE  IdInv'
<1>a. /\ total' = total /\ UNCHANGED draws /\ born' = born
      /\ Live' \subseteq Live /\ Used' = Used \ G
      /\ \A i \in Ids : useMap'[i] = IF \E c \in G : id[c] = i THEN NULL ELSE useMap[i]
      /\ \A c \in Live' : id'[c] = id[c] /\ args'[c] \in {0, born[c]}
    BY DEF LeaveMap
<1> USE <1>a
<1>0. /\ Used' \subseteq Live' /\ Used \subseteq Live
      /\ \A c \in Live : id[c] \in Ids
    BY CellFacts DEF Used, Live, PoolInv, TypeOK
<1>1. counter' = fetched' + 1
    BY DEF PoolInv, IdInv, draws
<1>2. \A c \in Live' : /\ c \in 1 .. total'
                       /\ id'[c] = born'[c] /\ born'[c] \in 1 .. fetched'
                       /\ args'[c] \in {0, born'[c]}
    BY DEF PoolInv, IdInv, draws
<1>3. \A c, d \in Live' : born'[c] = born'[d] => c = d
    BY DEF PoolInv, IdInv
<1>4. ASSUME NEW i \in Ids, useMap'[i] # NULL
      PROVE  useMap'[i] \in Used' /\ id'[useMap'[i]] = i
  <2>1. useMap'[i] = useMap[i] /\ useMap[i] \in Used /\ id[useMap[i]] = i /\ useMap[i] \notin G
      BY <1>4 DEF PoolInv, IdInv
  <2> QED
      BY <1>0, <2>1
<1>5. ASSUME NEW c \in Used' PROVE useMap'[id'[c]] = c
  <2>1. c \in Used /\ c \notin G /\ id'[c] = id[c] /\ id[c] \in Ids /\ useMap[id[c]] = c
      BY <1>0 DEF PoolInv, IdInv
  <2>2. \A d \in G : id[d] # id[c]
    <3>1. \A d \in Used : useMap[id[d]] = d
        BY DEF PoolInv, IdInv
    <3> QED
        BY <2>1, <3>1
  <2> QED
      BY <2>1, <2>2
<1> QED
    BY <1>1, <1>2, <1>3, <1>4, <1>5 DEF IdInv

\* The channel c is taken out of the use list; the timeout lists do not notice.
LEMMA UnlinkStep ==
    ASSUME PoolInv, NEW c \in Used, UnlinkEnds(c), born' = born, lists' = lists,
           Used' = Used \ {c}, Timed' = Timed,
           \A d \in (Used \ {c}) \cup Timed :
               prev'[d] = UnlinkedPrev(c)[d] /\ next'[d] = UnlinkedNext(c)[d]
    PROVE  UseInv' /\ TimedInv'
<1>1. /\ Used \in SUBSET Cells /\ Timed \in SUBSET Cells /\ Used \cap Timed = {}
      /\ Numbered(Used, born) /\ Ordered(Used, born, useListHead, useListTail, prev, next)
      /\ prev[c] \in Used \cup {NULL} /\ next[c] \in Used \cup {NULL}
    BY CellFacts DEF PoolInv, UseInv
<1>2. \A d \in Cells : /\ UnlinkedPrev(c)[d] = IF d = next[c] THEN prev[c] ELSE prev[d]
                       /\ UnlinkedNext(c)[d] = IF d = prev[c] THEN next[c] ELSE next[d]
    BY PutAt DEF UnlinkedPrev, UnlinkedNext
<1>3. Unlinks(c, Used, useListHead, useListHead', useListTail, useListTail',
              prev, prev', next, next')
    BY <1>1, <1>2 DEF Unlinks, UnlinkEnds
<1>4. Ordered(Used \ {c}, born, useListHead', useListTail', prev', next')
    BY <1>1, <1>3, OrderedUnlink
<1>5. \A d \in Timed : born[d] = born[d] /\ prev'[d] = prev[d] /\ next'[d] = next[d]
    BY <1>1, <1>2, NullIsNoCell
<1>6. Chained(Timed, lists, born, prev', next')
    BY <1>5, ChainedSame DEF PoolInv, TimedInv
<1> QED
    BY <1>4, <1>6 DEF UseInv, TimedInv

LEMMA FreeChannelStep ==
    ASSUME PoolInv, TypeOK', NEW c \in Cells, FreeChannel(c)
    PROVE  PoolInv'
<1>1. c \in Used /\ useMap[id[c]] = c
    BY MapFindsOnly DEF FreeChannel, Live
<1>2. /\ place' = [place EXCEPT ![c] = "pool"] /\ place \in [Cells -> Places]
      /\ id' = [id EXCEPT ![c] = 0] /\ args' = [args EXCEPT ![c] = 0]
      /\ id \in [Cells -> Ids] /\ args \in [Cells -> 0 .. MaxFetch]
      /\ useMap' = [useMap EXCEPT ![id[c]] = NULL] /\ useMap \in [Ids -> Cells \cup {NULL}]
      /\ UnlinkEnds(c) /\ UNCHANGED <<total, draws, born, lists>>
      /\ PushFree(c, UnlinkedPrev(c), UnlinkedNext(c))
    BY DEF FreeChannel, PushFree, PoolInv, TypeOK
<1>3. /\ Used' = Used \ {c} /\ Timed' = Timed /\ Live' = Live \ {c} /\ Spare' = Spare \cup {c}
      /\ c \notin Spare /\ c \notin Timed /\ c # freeListTail /\ c # NULL
  <2>1. c \in 1 .. total /\ c \notin Spare /\ c \notin Timed /\ freeListTail \in Spare \cup {NULL}
      BY <1>1, CellFacts
  <2>2. place[c] = "used" /\ c # NULL
      BY <1>1, NullIsNoCell DEF Used
  <2> QED
      BY <1>2, <2>1, <2>2 DEF Used, Timed, Live, Spare
<1>4. IdInv'
  <2>1. \A i \in Ids : useMap'[i] = IF \E d \in {c} : id[d] = i THEN NULL ELSE useMap[i]
      BY <1>2
  <2>2. \A d \in Live' : id'[d] = id[d] /\ args'[d] \in {0, born[d]}
      BY <1>2, <1>3 DEF PoolInv, IdInv, Live
  <2>3. LeaveMap({c})
      BY <1>1, <1>2, <1>3, <2>1, <2>2 DEF LeaveMap, fields
  <2> QED
      BY <1>1, <2>3, IdsLeave
<1>5. \A d \in Cells : /\ prev'[d] = IF d = c THEN freeListTail ELSE UnlinkedPrev(c)[d]
                       /\ next'[d] = IF d = freeListTail THEN c
                                     ELSE IF d = c THEN NULL ELSE UnlinkedNext(c)[d]
    BY <1>2, PutAt DEF PushFree
<1>6. UseInv' /\ TimedInv'
  <2>1. \A d \in (Used \ {c}) \cup Timed : d \in Cells /\ d # c /\ d # freeListTail
      BY <1>3, CellFacts, NullIsNoCell
  <2>2. \A d \in (Used \ {c}) \cup Timed :
            prev'[d] = UnlinkedPrev(c)[d] /\ next'[d] = UnlinkedNext(c)[d]
      BY <1>5, <2>1
  <2> QED
      BY <1>1, <1>2, <1>3, <2>2, UnlinkStep
<1>7. FreeInv'
  <2>1. \A d \in Spare : d \in Cells /\ d # c /\ d # prev[c]
      BY <1>1, <1>3, CellFacts, NullIsNoCell
  <2>2. \A d \in Spare : UnlinkedNext(c)[d] = next[d]
      BY <2>1, PutAt DEF UnlinkedNext
  <2>3. \A d \in Spare : next'[d] = IF d = freeListTail THEN c ELSE next[d]
      BY <1>5, <2>1, <2>2
  <2>4. next'[c] = NULL
      BY <1>3, <1>5
  <2>5. LinkedBehind(c, Spare, freeListTail, next, next')
      BY <2>3, <2>4 DEF LinkedBehind
  <2>6. Spare \in SUBSET Cells /\ c \in Cells \ Spare /\ Linked(Spare, freeListHead, freeListTail, next)
      BY <1>3, CellFacts DEF PoolInv, FreeInv
  <2>7. Linked(Spare \cup {c}, IF freeListTail = NULL THEN c ELSE freeListHead, c, next')
      BY <2>5, <2>6, LinkedPush
  <2> QED
      BY <1>2, <1>3, <2>7 DEF FreeInv, PushFree
<1> QED
    BY <1>4, <1>6, <1>7 DEF PoolInv

LEMMA AppendChannelStep ==
    ASSUME PoolInv, TypeOK', NEW c \in Cells, AppendChannel(c)
    PROVE  PoolInv'
<1>2. /\ place' = [place EXCEPT ![c] = "pool"] /\ place \in [Cells -> Places]
      /\ id' = [id EXCEPT ![c] = 0] /\ args' = [args EXCEPT ![c] = 0]
      /\ id \in [Cells -> Ids] /\ args \in [Cells -> 0 .. MaxFetch]
      /\ UNCHANGED <<total, useListHead, useListTail, useMap, draws, born, lists>>
      /\ PushFree(c, prev, next) /\ place[c] = "offered"
    BY DEF AppendChannel, PushFree, PoolInv, TypeOK
<1>3. /\ Used' = Used /\ Timed' = Timed /\ Live' = Live \ {c} /\ Spare' = Spare \cup {c}
      /\ c \notin Spare /\ c \notin Timed /\ c \notin Used /\ c # freeListTail /\ c # NULL
  <2>1. c \in 1 .. total /\ freeListTail \in Spare \cup {NULL} /\ c # NULL
      BY <1>2, CellFacts, NullIsNoCell DEF PoolInv, IdInv, Live
  <2> QED
      BY <1>2, <2>1 DEF Used, Timed, Live, Spare
<1>4. IdInv'
  <2>1. \A i \in Ids : useMap'[i] = IF \E d \in {} : id[d] = i THEN NULL ELSE useMap[i]
      BY <1>2
  <2>2. \A d \in Live' : id'[d] = id[d] /\ args'[d] \in {0, born[d]}
      BY <1>2, <1>3 DEF PoolInv, IdInv, Live
  <2>3. LeaveMap({})
      BY <1>2, <1>3, <2>1, <2>2 DEF LeaveMap, fields
  <2> QED
      BY <2>3, IdsLeave
<1>5. \A d \in Cells : /\ prev'[d] = IF d = c THEN freeListTail ELSE prev[d]
                       /\ next'[d] = IF d = freeListTail THEN c
                                     ELSE IF d = c THEN NULL ELSE next[d]
    BY <1>2, PutAt DEF PushFree
<1>6. \A d \in Used \cup Timed : born'[d] = born[d] /\ prev'[d] = prev[d] /\ next'[d] = next[d]
  <2>1. \A d \in Used \cup Timed : d \in Cells /\ d # c /\ d # freeListTail
      BY <1>3, CellFacts, NullIsNoCell
  <2> QED
      BY <1>2, <1>5, <2>1
<1>7. UseInv'
    BY <1>2, <1>3, <1>6, OrderedSame DEF PoolInv, UseInv
<1>8. TimedInv'
    BY <1>2, <1>3, <1>6, ChainedSame DEF PoolInv, TimedInv
<1>9. FreeInv'
  <2>1. \A d \in Spare : next'[d] = IF d = freeListTail THEN c ELSE next[d]
      BY <1>3, <1>5, CellFacts
  <2>2. next'[c] = NULL
      BY <1>3, <1>5
  <2>3. LinkedBehind(c, Spare, freeListTail, next, next')
      BY <2>1, <2>2 DEF LinkedBehind
  <2>6. Spare \in SUBSET Cells /\ c \in Cells \ Spare /\ Linked(Spare, freeListHead, freeListTail, next)
      BY <1>3, CellFacts DEF PoolInv, FreeInv
  <2>7. Linked(Spare \cup {c}, IF freeListTail = NULL THEN c ELSE freeListHead, c, next')
      BY <2>3, <2>6, LinkedPush
  <2> QED
      BY <1>2, <1>3, <2>7 DEF FreeInv, PushFree
<1> QED
    BY <1>4, <1>7, <1>8, <1>9 DEF PoolInv

LEMMA OfferChannelStep ==
    ASSUME PoolInv, TypeOK', NEW i \in Ids, OfferChannel(i)
    PROVE  PoolInv'
<1>1. PICK c \in Used : c = useMap[i] /\ id[c] = i
    BY DEF OfferChannel, PoolInv, IdInv
<1>2. /\ place' = [place EXCEPT ![c] = "offered"] /\ place \in [Cells -> Places]
      /\ prev' = Put(UnlinkedPrev(c), c, NULL) /\ next' = Put(UnlinkedNext(c), c, NULL)
      /\ useMap' = [useMap EXCEPT ![i] = NULL] /\ useMap \in [Ids -> Cells \cup {NULL}]
      /\ UnlinkEnds(c) /\ c \in Cells
      /\ UNCHANGED <<total, freeListHead, freeListTail, fields, draws, born, lists>>
    BY <1>1, CellFacts DEF OfferChannel, PoolInv, TypeOK
<1>3. /\ Used' = Used \ {c} /\ Timed' = Timed /\ Live' = Live /\ Spare' = Spare
      /\ c \notin Spare /\ c \notin Timed
  <2>1. place[c] = "used" /\ c \notin Spare /\ c \notin Timed
      BY <1>1, CellFacts DEF Used
  <2> QED
      BY <1>2, <2>1, CellFacts DEF Used, Timed, Live, Spare
<1>4. IdInv'
  <2>1. \A j \in Ids : useMap'[j] = IF \E d \in {c} : id[d] = j THEN NULL ELSE useMap[j]
      BY <1>1, <1>2
  <2>2. \A d \in Live' : id'[d] = id[d] /\ args'[d] \in {0, born[d]}
      BY <1>2, <1>3 DEF PoolInv, IdInv, fields
  <2>3. LeaveMap({c})
      BY <1>1, <1>2, <1>3, <2>1, <2>2 DEF LeaveMap, fields
  <2> QED
      BY <1>1, <2>3, IdsLeave
<1>5. \A d \in Cells : d # c => prev'[d] = UnlinkedPrev(c)[d] /\ next'[d] = UnlinkedNext(c)[d]
    BY <1>2, PutAt
<1>6. UseInv' /\ TimedInv'
  <2>1. \A d \in (Used \ {c}) \cup Timed :
            prev'[d] = UnlinkedPrev(c)[d] /\ next'[d] = UnlinkedNext(c)[d]
      BY <1>3, <1>5, CellFacts
  <2> QED
      BY <1>1, <1>2, <1>3, <2>1, UnlinkStep
<1>7. FreeInv'
  <2>1. \A d \in Spare : d \in Cells /\ d # c /\ d # prev[c]
      BY <1>1, <1>3, CellFacts, NullIsNoCell
  <2>2. \A d \in Spare : next'[d] = next[d]
      BY <1>5, <2>1, PutAt DEF UnlinkedNext
  <2> QED
      BY <1>2, <1>3, <2>2, LinkedSame DEF PoolInv, FreeInv
<1> QED
    BY <1>4, <1>6, <1>7 DEF PoolInv

\* Storing a deadline or the args of a request moves no channel.
LEMMA FieldStep ==
    ASSUME PoolInv, TypeOK', UNCHANGED <<total, links, id, useMap, draws, born, place, lists>>,
           \A c \in Live : args'[c] \in {0, born[c]}
    PROVE  PoolInv'
<1>1. /\ Used' = Used /\ Timed' = Timed /\ Live' = Live /\ Spare' = Spare
      /\ UNCHANGED <<freeListHead, freeListTail, useListHead, useListTail, prev, next>>
    BY DEF Used, Timed, Live, Spare, links
<1>2. IdInv'
  <2>1. \A i \in Ids : useMap'[i] = IF \E d \in {} : id[d] = i THEN NULL ELSE useMap[i]
      OBVIOUS
  <2>3. LeaveMap({})
      BY <1>1, <2>1 DEF LeaveMap, fields
  <2> QED
      BY <2>3, IdsLeave
<1>3. UseInv' /\ TimedInv' /\ FreeInv'
    BY <1>1 DEF PoolInv, UseInv, TimedInv, FreeInv
<1> QED
    BY <1>2, <1>3 DEF PoolInv

LEMMA OtherPoolAllocStep ==
    ASSUME NoWrap, PoolInv, TypeOK', OtherPoolAlloc
    PROVE  PoolInv'
<1>1. /\ Used' = Used /\ Timed' = Timed /\ Live' = Live /\ Spare' = Spare
      /\ UNCHANGED <<freeListHead, freeListTail, useListHead, useListTail, prev, next>>
      /\ UNCHANGED <<total, id, args, useMap, born, lists>>
    BY DEF Used, Timed, Live, Spare, links, fields, OtherPoolAlloc
<1>2. counter' = fetched' + 1 /\ fetched' = fetched + 1 /\ fetched \in Nat
    BY DrawNew DEF OtherPoolAlloc
<1>3. IdInv'
    BY <1>1, <1>2 DEF PoolInv, IdInv
<1>4. UseInv' /\ TimedInv' /\ FreeInv'
    BY <1>1 DEF PoolInv, UseInv, TimedInv, FreeInv
<1> QED
    BY <1>3, <1>4 DEF PoolInv

-----------------------------------------------------------------------------
(* GetTimeoutList. *)

\* What the walk of GetTimeoutList passes over is the older part of the use
\* list, up to the channel z before the one at which it stops.
LEMMA ExpiredIsOlderPart ==
    ASSUME PoolInv, NEW now, NEW z \in Expired(now), next[z] \notin Expired(now)
    PROVE  z \in Used /\ Expired(now) = {d \in Used : born[d] <= born[z]}
<1> DEFINE go == {c \in 1 .. total : expire[c] < now}
           gone == Expired(now)
<1>0. /\ NULL \notin go /\ Numbered(Used, born)
      /\ Ordered(Used, born, useListHead, useListTail, prev, next)
  <2>1. NULL \notin 1 .. total
      BY DEF NULL, PoolInv, TypeOK
  <2> QED
      BY <2>1, CellFacts DEF PoolInv, UseInv
<1>1. \A c \in gone : c \in go /\ \A S \in SUBSET go :
          (useListHead \in go => useListHead \in S) /\ (\A d \in S : next[d] \in go => next[d] \in S)
          => c \in S
    BY DEF Expired, Walk
<1>2. useListHead \in go /\ useListHead \in Used
  <2>1. useListHead \in go
      BY WalkStarts DEF Expired
  <2> QED
      BY <1>0, <2>1, CellFacts
<1>3. \A d \in gone : next[d] \in go => next[d] \in gone
    BY DEF Expired, Walk
<1>4. useListHead \in gone
    BY <1>2 DEF Expired, Walk
<1>5. \A d \in Used : born[d] \in Nat
    BY <1>0 DEF Numbered
<1>6. \A d \in Used : next[d] # NULL =>
          /\ next[d] \in Used /\ born[d] < born[next[d]]
          /\ \A e \in Used : born[e] <= born[d] \/ born[next[d]] <= born[e]
    BY <1>0 DEF Ordered
<1>7. \A d \in Used : born[useListHead] <= born[d]
    BY <1>0, <1>2 DEF Ordered
<1>8. \A d, e \in Used : born[d] = born[e] => d = e
    BY <1>0 DEF Numbered
<1> HIDE DEF go, gone
<1>9. gone \subseteq Used
  <2> DEFINE S == go \cap Used
  <2>1. S \in SUBSET go /\ useListHead \in S /\ \A d \in S : next[d] \in go => next[d] \in S
      BY <1>0, <1>2, <1>6
  <2> HIDE DEF S
  <2>2. gone \subseteq S
      BY <1>1, <2>1
  <2> QED
      BY <2>2 DEF S
<1>10. z \in gone /\ next[z] \notin go
    BY <1>3 DEF gone
<1>11. ASSUME NEW c \in gone PROVE born[c] <= born[z]
  <2> DEFINE S == {d \in gone : born[d] <= born[z]}
  <2>1. S \in SUBSET go /\ useListHead \in S
      BY <1>1, <1>4, <1>7, <1>9, <1>10
  <2>2. ASSUME NEW d \in S, next[d] \in go PROVE next[d] \in S
    <3>1. next[d] \in gone /\ next[d] # NULL /\ d # z /\ d \in Used /\ z \in Used
        BY <1>0, <1>3, <1>9, <1>10, <2>2
    <3>2. born[d] # born[z] /\ born[d] \in Nat /\ born[z] \in Nat /\ born[d] <= born[z]
        BY <1>5, <1>8, <3>1
    <3>3. born[next[d]] <= born[z]
        BY <1>6, <3>1, <3>2
    <3> QED
        BY <3>1, <3>3
  <2> HIDE DEF S
  <2>3. c \in S
      BY <1>1, <2>1, <2>2
  <2> QED
      BY <2>3 DEF S
<1>12. ASSUME NEW m \in Used, born[m] <= born[z], m \notin gone PROVE FALSE
  <2> DEFINE S == {d \in gone : born[d] < born[m]}
  <2>1. S \in SUBSET go /\ useListHead \in S
    <3>1. born[useListHead] # born[m]
        BY <1>2, <1>4, <1>8, <1>12
    <3> QED
        BY <1>1, <1>2, <1>4, <1>5, <1>7, <3>1
  <2>2. ASSUME NEW d \in S, next[d] \in go PROVE next[d] \in S
    <3>1. next[d] \in gone /\ next[d] # NULL /\ d \in Used /\ next[d] \in Used
        BY <1>0, <1>3, <1>9, <2>2
    <3>2. born[next[d]] <= born[m]
        BY <1>5, <1>6, <3>1
    <3>3. born[next[d]] # born[m]
        BY <1>8, <1>12, <3>1
    <3>4. born[next[d]] < born[m]
        BY <1>5, <3>1, <3>2, <3>3
    <3> QED
        BY <3>1, <3>4
  <2> HIDE DEF S
  <2>3. z \in S
      BY <1>1, <1>10, <2>1, <2>2
  <2>4. born[z] < born[m]
      BY <2>3 DEF S
  <2> QED
      BY <1>5, <1>9, <1>10, <1>12, <2>4
<1> QED
    BY <1>9, <1>10, <1>11, <1>12 DEF gone

LEMMA GetTimeoutListStep ==
    ASSUME PoolInv, TypeOK', NEW now, GetTimeoutList(now)
    PROVE  PoolInv'
<1>1. PICK stop \in {next[c] : c \in Expired(now)} \ Expired(now) :
          /\ useMap' = [i \in Ids |-> IF \E c \in Expired(now) : id[c] = i
                                      THEN NULL ELSE useMap[i]]
          /\ useListHead' = stop
          /\ useListTail' = IF stop = NULL THEN NULL ELSE useListTail
          /\ next' = CutBefore(stop)
          /\ prev' = Put(prev, stop, NULL)
          /\ place' = [c \in Cells |-> IF c \in Expired(now) THEN "timedout" ELSE place[c]]
          /\ lists' = lists \cup {useListHead}
          /\ UNCHANGED <<total, freeListHead, freeListTail, fields, draws, born>>
    BY DEF GetTimeoutList
<1>2. PICK z \in Expired(now) : stop = next[z]
    OBVIOUS
<1>3. PICK gone : gone = Expired(now)
    OBVIOUS
<1>4. z \in Used /\ gone = {d \in Used : born[d] <= born[z]}
    BY <1>1, <1>2, <1>3, ExpiredIsOlderPart
<1>5. /\ Used \in SUBSET Cells /\ Timed \in SUBSET Cells /\ Spare \in SUBSET Cells
      /\ Used \cap Timed = {} /\ Used \cap Spare = {} /\ Timed \cap Spare = {}
      /\ Numbered(Used, born) /\ next[z] \in Used \cup {NULL}
      /\ Ordered(Used, born, useListHead, useListTail, prev, next)
      /\ place \in [Cells -> Places]
    BY <1>4, CellFacts DEF PoolInv, UseInv, TypeOK
<1>6. /\ place' = [c \in Cells |-> IF c \in gone THEN "timedout" ELSE place[c]]
      /\ useMap' = [i \in Ids |-> IF \E c \in gone : id[c] = i THEN NULL ELSE useMap[i]]
      /\ next[z] \notin gone
    BY <1>1, <1>2, <1>3
<1> DEFINE rest == {d \in Used : born[z] < born[d]}
<1>7. gone \subseteq Used /\ Used \ gone = rest /\ z \in gone
  <2>1. \A d \in Used : born[d] \in Nat
      BY <1>5 DEF Numbered
  <2> QED
      BY <1>4, <2>1
<1> HIDE DEF rest
<1>8. Used' = rest /\ Timed' = Timed \cup gone /\ Live' = Live /\ Spare' = Spare
  <2>1. \A c \in gone : c \in Cells /\ place[c] = "used" /\ place'[c] = "timedout"
      BY <1>5, <1>6, <1>7 DEF Used
  <2>2. \A c \in Cells : c \notin gone => place'[c] = place[c]
      BY <1>6
  <2>3. Used' = Used \ gone
      BY <2>1, <2>2 DEF Used
  <2>4. Timed' = Timed \cup gone
      BY <2>1, <2>2 DEF Timed
  <2>5. Live' = Live
      BY <2>1, <2>2 DEF Live
  <2>6. Spare' = Spare
    <3>1. 1 .. total \subseteq Cells
        BY PoolBounds DEF PoolInv, TypeOK, Cells
    <3> QED
        BY <1>1, <2>1, <2>2, <3>1 DEF Spare
  <2> QED
      BY <1>7, <2>3, <2>4, <2>5, <2>6
<1>9. IdInv'
  <2>1. \A i \in Ids : useMap'[i] = IF \E c \in gone : id[c] = i THEN NULL ELSE useMap[i]
      BY <1>6
  <2>2. \A d \in Live' : id'[d] = id[d] /\ args'[d] \in {0, born[d]}
      BY <1>1, <1>8 DEF PoolInv, IdInv, fields
  <2>3. LeaveMap(gone)
      BY <1>1, <1>7, <1>8, <2>1, <2>2 DEF LeaveMap
  <2> QED
      BY <1>7, <2>3, IdsLeave
<1>10. \A d \in Cells : /\ next'[d] = IF d = z THEN NULL ELSE next[d]
                        /\ prev'[d] = IF d = next[z] THEN NULL ELSE prev[d]
  <2>1. next[z] # NULL => prev[next[z]] = z
      BY <1>4, <1>5, OrderedLinks
  <2>2. next' = CutBefore(next[z]) /\ prev' = Put(prev, next[z], NULL)
      BY <1>1, <1>2
  <2> QED
      BY <2>1, <2>2, PutAt DEF CutBefore
<1>11. UseInv'
  <2>1. CutsOff(rest, z, prev, prev', next, next')
    <3>1. \A d \in rest : d \in Cells /\ d # z
        BY <1>5, <1>7
    <3> QED
        BY <1>10, <3>1 DEF CutsOff
  <2>2. Ordered(rest, born, next[z], IF next[z] = NULL THEN NULL ELSE useListTail, prev', next')
      BY <1>4, <1>5, <2>1, OrderedCut DEF rest
  <2> QED
      BY <1>1, <1>2, <1>8, <2>2 DEF UseInv
<1>12. TimedInv'
  <2>1. EndsAt(z, gone, Timed, prev, prev', next, next')
    <3>1. \A d \in Timed : d \in Cells /\ d # z /\ d # next[z]
        BY <1>4, <1>5, NullIsNoCell
    <3>2. \A d \in gone : d \in Cells /\ d # next[z]
        BY <1>5, <1>6, <1>7
    <3> QED
        BY <1>10, <3>1, <3>2 DEF EndsAt
  <2>2. Chained(Timed, lists, born, prev, next)
      BY DEF PoolInv, TimedInv
  <2>3. Chained(Timed \cup gone, lists \cup {useListHead}, born, prev', next')
      BY <1>4, <1>5, <2>1, <2>2, ChainedAdd
  <2> QED
      BY <1>1, <1>8, <2>3 DEF TimedInv
<1>13. FreeInv'
  <2>1. \A d \in Spare : next'[d] = next[d]
      BY <1>4, <1>5, <1>10
  <2> QED
      BY <1>1, <1>8, <2>1, LinkedSame DEF PoolInv, FreeInv
<1> QED
    BY <1>9, <1>11, <1>12, <1>13 DEF PoolInv

-----------------------------------------------------------------------------
(* AppendFreeList. *)

LEMMA AppendFreeListStep ==
    ASSUME PoolInv, TypeOK', NEW l \in Cells, AppendFreeList(l)
    PROVE  PoolInv'
<1>1. PICK batch : batch = Visits(next, l, 1 .. total)
    OBVIOUS
<1>2. Reach(l) = batch
    BY <1>1 DEF Reach, Walk, Visits
<1>3. /\ l \in lists
      /\ id' = [c \in Cells |-> IF c \in batch THEN 0 ELSE id[c]]
      /\ args' = [c \in Cells |-> IF c \in batch THEN 0 ELSE args[c]]
      /\ prev' = Put(prev, l, freeListTail)
      /\ next' = Put(next, freeListTail, l)
      /\ freeListHead' = IF freeListTail = NULL THEN l ELSE freeListHead
      /\ freeListTail' = NULL
      /\ place' = [c \in Cells |-> IF c \in batch THEN "pool" ELSE place[c]]
      /\ lists' = lists \ {l}
      /\ UNCHANGED <<total, useListHead, useListTail, expire, useMap, draws, born>>
    BY <1>2 DEF AppendFreeList
<1>4. /\ Used \in SUBSET Cells /\ Timed \in SUBSET Cells /\ Spare \in SUBSET Cells
      /\ Used \cap Timed = {} /\ Used \cap Spare = {} /\ Timed \cap Spare = {}
      /\ Timed \subseteq 1 .. total /\ 1 .. total \subseteq Cells
      /\ freeListTail \in Spare \cup {NULL} /\ l \in Timed
      /\ Chained(Timed, lists, born, prev, next)
  <2>1. 1 .. total \subseteq Cells
      BY PoolBounds DEF PoolInv, TypeOK, Cells
  <2> QED
      BY <1>3, <2>1, CellFacts DEF PoolInv, TimedInv
<1>5. /\ l \in batch /\ batch \subseteq Timed
      /\ \A c \in batch : next[c] # NULL => next[c] \in batch
      /\ \A c \in batch : c # l => c \notin lists /\ prev[c] \in batch
  <2>1. PICK go : go = 1 .. total
      OBVIOUS
  <2>2. /\ Timed \in SUBSET Cells /\ go \in SUBSET Cells /\ Timed \subseteq go /\ l \in lists
        /\ Chained(Timed, lists, born, prev, next) /\ batch = Visits(next, l, go)
      BY <1>1, <1>3, <1>4, <2>1
  <2>3. WholeList(l, batch, Timed, lists, prev, next)
      BY <2>2, ChainedWalk
  <2> QED
      BY <2>3 DEF WholeList
<1>6. /\ Used' = Used /\ Timed' = Timed \ batch /\ Live' = Live \ batch
      /\ Spare' = Spare \cup batch
  <2>1. \A c \in batch : c \in Cells /\ place[c] = "timedout" /\ place'[c] = "pool" /\ c \in 1 .. total
      BY <1>3, <1>4, <1>5 DEF Timed
  <2>2. \A c \in Cells : c \notin batch => place'[c] = place[c]
      BY <1>3
  <2>3. Used' = Used
      BY <2>1, <2>2 DEF Used
  <2>4. Timed' = Timed \ batch
      BY <2>1, <2>2 DEF Timed
  <2>5. Live' = Live \ batch
      BY <2>1, <2>2 DEF Live
  <2>6. Spare' = Spare \cup batch
      BY <1>3, <1>4, <2>1, <2>2 DEF Spare
  <2> QED
      BY <2>3, <2>4, <2>5, <2>6
<1>7. IdInv'
  <2>1. \A i \in Ids : useMap'[i] = IF \E d \in {} : id[d] = i THEN NULL ELSE useMap[i]
      BY <1>3
  <2>2. \A d \in Live' : id'[d] = id[d] /\ args'[d] \in {0, born[d]}
      BY <1>3, <1>6 DEF PoolInv, IdInv, Live
  <2>3. LeaveMap({})
      BY <1>3, <1>6, <2>1, <2>2 DEF LeaveMap
  <2> QED
      BY <2>3, IdsLeave
<1>8. \A d \in Cells : /\ prev'[d] = IF d = l THEN freeListTail ELSE prev[d]
                       /\ next'[d] = IF d = freeListTail THEN l ELSE next[d]
    BY <1>3, PutAt
<1>9. UseInv'
  <2>1. \A d \in Used : born'[d] = born[d] /\ prev'[d] = prev[d] /\ next'[d] = next[d]
      BY <1>3, <1>4, <1>8, NullIsNoCell
  <2> QED
      BY <1>3, <1>6, <2>1, OrderedSame DEF PoolInv, UseInv
<1>10. TimedInv'
  <2>1. \A d \in Timed \ batch : prev'[d] = prev[d] /\ next'[d] = next[d]
      BY <1>4, <1>5, <1>8, NullIsNoCell
  <2>2. Chained(Timed \ batch, lists \ {l}, born, prev', next')
      BY <1>3, <1>4, <1>5, <2>1, ChainedRemove
  <2> QED
      BY <1>3, <1>6, <2>2 DEF TimedInv
<1>11. FreeInv'
  <2>1. \A d \in batch : next[d] = NULL \/ (next[d] \in batch \ {l} /\ prev[next[d]] = d)
      BY <1>3, <1>4, <1>5, NullIsNoCell DEF Chained
  <2>2. \A d, e \in batch : next[d] = next[e] /\ next[d] # NULL => d = e
      BY <2>1
  <2>3. JoinedBehind(l, Spare, batch, freeListTail, next, next')
      BY <1>4, <1>5, <1>8, <2>1, <2>2 DEF JoinedBehind
  <2>4. Linked(Spare, freeListHead, freeListTail, next) /\ Spare \cap batch = {} /\ batch \in SUBSET Cells
      BY <1>4, <1>5 DEF PoolInv, FreeInv
  <2>5. Linked(Spare \cup batch, IF freeListTail = NULL THEN l ELSE freeListHead, NULL, next')
      BY <1>4, <1>5, <2>3, <2>4, LinkedJoin, ZenonT(30)
  <2> QED
      BY <1>3, <1>6, <2>5 DEF FreeInv
<1> QED
    BY <1>7, <1>9, <1>10, <1>11 DEF PoolInv

-----------------------------------------------------------------------------
(* The invariant of the pool. *)

LEMMA InitPool == Init => PoolInv
<1> SUFFICES ASSUME Init PROVE PoolInv
    OBVIOUS
<1>1. TypeOK
    BY InitTypes
<1>2. Used = {} /\ Timed = {} /\ Live = {} /\ Spare = {} /\ lists = {}
    BY DEF Init, Used, Timed, Live, Spare
<1>3. IdInv
    BY <1>2 DEF Init, IdInv
<1>4. UseInv /\ TimedInv /\ FreeInv
    BY <1>2 DEF Init, UseInv, TimedInv, FreeInv, Ordered, Chained, Linked
<1> QED
    BY <1>1, <1>3, <1>4 DEF PoolInv

LEMMA PoolStep == NoWrap /\ PoolInv /\ [Next]_vars => PoolInv'
<1> SUFFICES ASSUME NoWrap, PoolInv, [Next]_vars PROVE PoolInv'
    OBVIOUS
<1>0. TypeOK'
    BY TypeStep DEF PoolInv
<1>1. CASE AllocChannel
    BY <1>1, AllocFromFreeListStep, AllocFromClusterStep DEF AllocChannel
<1>2. CASE OtherPoolAlloc
    BY <1>0, <1>2, OtherPoolAllocStep
<1>3. ASSUME NEW c \in Cells, FreeChannel(c) PROVE PoolInv'
    BY <1>0, <1>3, FreeChannelStep
<1>4. ASSUME NEW c \in Cells, AppendChannel(c) PROVE PoolInv'
    BY <1>0, <1>4, AppendChannelStep
<1>5. ASSUME NEW c \in Cells, SetArgs(c) PROVE PoolInv'
  <2>1. UNCHANGED <<total, links, id, useMap, draws, born, place, lists>>
      BY <1>5 DEF SetArgs
  <2>2. \A d \in Live : args'[d] \in {0, born[d]}
      BY <1>5 DEF SetArgs, PoolInv, TypeOK, IdInv, Live
  <2> QED
      BY <1>0, <2>1, <2>2, FieldStep
<1>6. ASSUME NEW c \in Cells, NEW t \in 1 .. MaxTime - 1, SetExpireTime(c, t) PROVE PoolInv'
  <2>1. UNCHANGED <<total, links, id, useMap, draws, born, place, lists>>
      BY <1>6 DEF SetExpireTime
  <2>2. \A d \in Live : args'[d] \in {0, born[d]}
      BY <1>6 DEF SetExpireTime, PoolInv, IdInv
  <2> QED
      BY <1>0, <2>1, <2>2, FieldStep
<1>7. ASSUME NEW i \in Ids, OfferChannel(i) PROVE PoolInv'
    BY <1>0, <1>7, OfferChannelStep
<1>8. ASSUME NEW now \in 1 .. MaxTime, GetTimeoutList(now) PROVE PoolInv'
    BY <1>0, <1>8, GetTimeoutListStep
<1>9. ASSUME NEW c \in Cells, AppendFreeList(c) PROVE PoolInv'
    BY <1>0, <1>9, AppendFreeListStep
<1>10. CASE UNCHANGED vars
  <2>1. UNCHANGED <<total, links, id, args, useMap, draws, born, place, lists>>
      BY <1>10 DEF vars, fields
  <2>2. \A d \in Live : args'[d] \in {0, born[d]}
      BY <2>1 DEF PoolInv, IdInv
  <2> QED
      BY <1>0, <2>1, <2>2, FieldStep
<1> QED
    BY <1>1, <1>2, <1>3, <1>4, <1>5, <1>6, <1>7, <1>8, <1>9, <1>10 DEF Next

LEMMA PoolHolds == ASSUME NoWrap PROVE Spec => []PoolInv
<1>1. PoolInv /\ [Next]_vars => PoolInv'
    BY PoolStep
<1> QED
    BY InitPool, <1>1, PTL DEF Spec

-----------------------------------------------------------------------------
(* What it says of the lists, the map and the ids. *)

LEMMA ReachUse == PoolInv => Reach(useListHead) = Used
<1> SUFFICES ASSUME PoolInv PROVE Reach(useListHead) = Used
    OBVIOUS
<1>0. /\ NULL \notin 1 .. total /\ Used \subseteq 1 .. total /\ Used \in SUBSET Cells
      /\ Numbered(Used, born) /\ useListHead \in Used \cup {NULL}
      /\ Ordered(Used, born, useListHead, useListTail, prev, next)
  <2>1. NULL \notin 1 .. total
      BY DEF NULL, PoolInv, TypeOK
  <2> QED
      BY <2>1, CellFacts DEF PoolInv, UseInv
<1>1. Reach(useListHead) \subseteq Used
  <2>1. useListHead \in 1 .. total => useListHead \in Used
      BY <1>0
  <2>2. \A d \in Used : next[d] \in 1 .. total => next[d] \in Used
      BY <1>0, CellFacts
  <2> QED
      BY <1>0, <2>1, <2>2 DEF Reach, Walk
<1>2. ASSUME NEW S \in SUBSET (1 .. total), useListHead \in 1 .. total => useListHead \in S,
             \A d \in S : next[d] \in 1 .. total => next[d] \in S
      PROVE  Used \subseteq S
  <2> SUFFICES ASSUME Used \ S # {} PROVE FALSE
      OBVIOUS
  <2>1. \A d \in Used \ S : born[d] \in Nat
      BY <1>0 DEF Numbered
  <2>2. PICK m \in Used \ S : \A d \in Used \ S : born[m] <= born[d]
      BY <2>1, Least
  <2>3. /\ prev[m] # NULL => prev[m] \in Used /\ next[prev[m]] = m
        /\ prev[m] = NULL <=> m = useListHead
      BY <1>0, OrderedLinks
  <2>4. prev[m] # NULL
      BY <1>0, <1>2, <2>3
  <2>5. born[prev[m]] < born[m]
      BY <1>0, <2>4 DEF Ordered
  <2>6. prev[m] \in S
    <3>1. ASSUME prev[m] \in Used \ S PROVE FALSE
        BY <2>1, <2>2, <2>5, <3>1
    <3> QED
        BY <2>3, <2>4, <3>1
  <2> QED
      BY <1>0, <1>2, <2>3, <2>4, <2>6
<1>3. Used \subseteq Reach(useListHead)
    BY <1>0, <1>2 DEF Reach, Walk
<1> QED
    BY <1>1, <1>3

LEMMA PoolKeepsUseList == PoolInv => UseListMatchesMap
<1> SUFFICES ASSUME PoolInv PROVE UseListMatchesMap
    OBVIOUS
<1>1. Reach(useListHead) = Used
    BY ReachUse
<1>2. Used = {useMap[i] : i \in Ids} \ {NULL}
  <2>1. \A c \in Used : id[c] \in Ids /\ useMap[id[c]] = c /\ c # NULL
      BY CellFacts, NullIsNoCell DEF PoolInv, TypeOK, IdInv
  <2>2. \A i \in Ids : useMap[i] # NULL => useMap[i] \in Used
      BY DEF PoolInv, IdInv
  <2> QED
      BY <2>1, <2>2
<1>3. Ordered(Used, born, useListHead, useListTail, prev, next) /\ Numbered(Used, born)
      /\ Used \in SUBSET Cells
    BY CellFacts DEF PoolInv, UseInv
<1>4. useListHead = NULL <=> useListTail = NULL
    BY <1>3, NullIsNoCell DEF Ordered
<1>5. ASSUME NEW c \in Used
      PROVE  /\ prev[c] = NULL <=> c = useListHead
             /\ next[c] = NULL <=> c = useListTail
             /\ next[c] # NULL => prev[next[c]] = c /\ born[c] < born[next[c]]
  <2>1. /\ prev[c] = NULL <=> c = useListHead
        /\ next[c] = NULL <=> c = useListTail
        /\ next[c] # NULL => prev[next[c]] = c
    <3>1. PICK U, b, h, t, pv, nx :
              /\ U = Used /\ b = born /\ h = useListHead /\ t = useListTail
              /\ pv = prev /\ nx = next
        OBVIOUS
    <3>2. U \in SUBSET Cells /\ Numbered(U, b) /\ Ordered(U, b, h, t, pv, nx) /\ c \in U
        BY <1>3, <3>1
    <3>3. /\ nx[c] # NULL => nx[c] \in U /\ pv[nx[c]] = c
          /\ pv[c] = NULL <=> c = h
          /\ nx[c] = NULL <=> c = t
        BY <3>2, OrderedLinks
    <3> QED
        BY <3>1, <3>3
  <2>2. next[c] # NULL => born[c] < born[next[c]]
      BY <1>3 DEF Ordered
  <2> QED
      BY <2>1, <2>2
<1> QED
    BY <1>1, <1>2, <1>4, <1>5 DEF UseListMatchesMap

LEMMA PoolFindsRequests == PoolInv => ReplyFindsItsRequest
<1> SUFFICES ASSUME PoolInv, NEW i \in Ids, useMap[i] # NULL
             PROVE  /\ id[useMap[i]] = i
                    /\ \A c \in Used : id[c] = i => c = useMap[i]
                    /\ args[useMap[i]] \in {0, born[useMap[i]]}
    BY DEF ReplyFindsItsRequest
<1>1. useMap[i] \in Used /\ id[useMap[i]] = i
    BY DEF PoolInv, IdInv
<1>2. useMap[i] \in Live
    BY <1>1, CellFacts
<1> QED
    BY <1>1, <1>2 DEF PoolInv, IdInv

LEMMA PoolKeepsFreeList == PoolInv => FreeListHasNoLiveChannel
<1> SUFFICES ASSUME PoolInv PROVE FreeListHasNoLiveChannel
    OBVIOUS
<1>0. NULL \notin 1 .. total /\ Spare \subseteq 1 .. total
      /\ Linked(Spare, freeListHead, freeListTail, next)
    BY DEF NULL, PoolInv, TypeOK, Spare, FreeInv
<1>1. /\ \A d \in Spare : next[d] = NULL \/ next[d] \in Spare
      /\ freeListHead \in Spare \cup {NULL}
    BY <1>0 DEF Linked
<1>2. Reach(freeListHead) \subseteq Spare
  <2>1. freeListHead \in 1 .. total => freeListHead \in Spare
      BY <1>0, <1>1
  <2>2. \A d \in Spare : next[d] \in 1 .. total => next[d] \in Spare
      BY <1>0, <1>1
  <2> QED
      BY <1>0, <2>1, <2>2 DEF Reach, Walk
<1>3. \A c \in Reach(freeListHead) : c <= total /\ place[c] = "pool"
    BY <1>2 DEF Spare, PoolInv, TypeOK
<1>4. ASSUME freeListTail # NULL
      PROVE  freeListTail \in Reach(freeListHead) /\ next[freeListTail] = NULL
  <2>1. /\ freeListHead # NULL /\ freeListTail \in Spare /\ next[freeListTail] = NULL
        /\ \A S \in SUBSET Spare :
              freeListHead \in S /\ (\A d \in S : next[d] # NULL => next[d] \in S)
              => freeListTail \in S
      BY <1>0, <1>4 DEF Linked
  <2>2. ASSUME NEW S \in SUBSET (1 .. total), freeListHead \in 1 .. total => freeListHead \in S,
               \A d \in S : next[d] \in 1 .. total => next[d] \in S
        PROVE  freeListTail \in S
    <3>1. S \cap Spare \in SUBSET Spare /\ freeListHead \in S \cap Spare
        BY <1>0, <1>1, <2>1, <2>2
    <3>2. \A d \in S \cap Spare : next[d] # NULL => next[d] \in S \cap Spare
        BY <1>0, <1>1, <2>2
    <3>3. freeListTail \in S \cap Spare
        BY <2>1, <3>1, <3>2
    <3> QED
        BY <3>3
  <2> QED
      BY <1>0, <2>1, <2>2 DEF Reach, Walk
<1> QED
    BY <1>3, <1>4 DEF FreeListHasNoLiveChannel

LEMMA PoolKeepsTimeoutLists == PoolInv => TimeoutListsStayIntact
<1> SUFFICES ASSUME PoolInv PROVE TimeoutListsStayIntact
    OBVIOUS
<1>0. /\ Timed \in SUBSET Cells /\ Timed \subseteq 1 .. total /\ lists \subseteq Timed
      /\ Chained(Timed, lists, born, prev, next) /\ 1 .. total \subseteq Cells
      /\ NULL \notin 1 .. total
  <2>1. 1 .. total \subseteq Cells /\ NULL \notin 1 .. total
      BY PoolBounds DEF NULL, PoolInv, TypeOK, Cells
  <2> QED
      BY <2>1, CellFacts DEF PoolInv, TimedInv
<1>1. ASSUME NEW l \in lists
      PROVE  /\ l \in Reach(l) /\ Reach(l) \subseteq Timed
             /\ \A c \in Reach(l) : next[c] # NULL => next[c] \in Reach(l)
             /\ \A c \in Reach(l) : c # l => c \notin lists /\ prev[c] \in Reach(l)
  <2>1. PICK go, B : go = 1 .. total /\ B = Visits(next, l, go)
      OBVIOUS
  <2>2. B = Reach(l)
      BY <2>1 DEF Reach, Walk, Visits
  <2>3. Timed \in SUBSET Cells /\ go \in SUBSET Cells /\ Timed \subseteq go
      BY <1>0, <2>1
  <2>4. /\ l \in B /\ B \subseteq Timed
        /\ \A c \in B : next[c] # NULL => next[c] \in B
        /\ \A c \in B : c # l => c \notin lists /\ prev[c] \in B
    <3>1. WholeList(l, B, Timed, lists, prev, next)
        BY <1>0, <2>1, <2>3, ChainedWalk
    <3> QED
        BY <3>1 DEF WholeList
  <2> QED
      BY <2>2, <2>4
<1>2. \A l \in lists : \A c \in Reach(l) : place[c] = "timedout"
    BY <1>1 DEF Timed
<1>3. \A c \in Timed : /\ born[c] \in Nat
                       /\ c \notin lists => prev[c] \in Timed /\ next[prev[c]] = c /\ born[prev[c]] < born[c]
    BY <1>0 DEF Chained, PoolInv, TypeOK
<1>4. ASSUME NEW l \in lists, NEW m \in lists, l # m, Reach(l) \cap Reach(m) # {}
      PROVE  FALSE
  <2> DEFINE X == Reach(l) \cap Reach(m)
  <2>1. X # {} /\ X \subseteq Timed /\ \A c \in X : c \notin lists /\ prev[c] \in X
      BY <1>1, <1>4
  <2>2. \A c \in X : born[c] \in Nat
      BY <1>3, <2>1
  <2> HIDE DEF X
  <2>3. PICK c \in X : \A d \in X : born[c] <= born[d]
      BY <2>1, <2>2, Least
  <2>4. c \in Timed /\ c \notin lists /\ prev[c] \in X /\ born[prev[c]] < born[c]
      BY <1>3, <2>1
  <2> QED
      BY <2>2, <2>3, <2>4
<1>5. ASSUME NEW c \in Timed, \A l \in lists : c \notin Reach(l) PROVE FALSE
  <2> DEFINE X == {d \in Timed : \A l \in lists : d \notin Reach(l)}
  <2>1. X # {} /\ \A d \in X : born[d] \in Nat
      BY <1>3, <1>5
  <2>2. ASSUME NEW d \in X PROVE prev[d] \in X /\ born[prev[d]] < born[d]
    <3>1. d \notin lists /\ d \in Timed
        BY <1>1
    <3>2. prev[d] \in Timed /\ next[prev[d]] = d /\ born[prev[d]] < born[d] /\ d # NULL
        BY <1>0, <1>3, <3>1
    <3>3. \A l \in lists : prev[d] \notin Reach(l)
        BY <1>1, <3>2
    <3> QED
        BY <3>2, <3>3
  <2> HIDE DEF X
  <2>3. PICK d \in X : \A e \in X : born[d] <= born[e]
      BY <2>1, Least
  <2> QED
      BY <2>1, <2>2, <2>3
<1>6. \A c \in Cells : place[c] = "timedout" => \E l \in lists : c \in Reach(l)
    BY <1>5 DEF Timed
<1> QED
    BY <1>2, <1>4, <1>6 DEF TimeoutListsStayIntact

\* Only AllocChannel adds an entry to the map, under an id not drawn before.
LEMMA OldIdsStayOut ==
    NoWrap /\ PoolInv /\ [Next]_vars =>
        \A i \in Ids : i <= fetched /\ useMap[i] = NULL => useMap'[i] = NULL
<1> SUFFICES ASSUME NoWrap, PoolInv, [Next]_vars,
                    NEW i \in Ids, i <= fetched, useMap[i] = NULL
             PROVE  useMap'[i] = NULL
    OBVIOUS
<1>0. useMap \in [Ids -> Cells \cup {NULL}] /\ i \in Nat
    BY PoolBounds DEF PoolInv, TypeOK, Ids
<1>1. ASSUME NEW c, NEW pv, NEW nx, Enlist(c, pv, nx) PROVE useMap'[i] = NULL
  <2>1. Draw /\ useMap' = [useMap EXCEPT ![Drawn] = c]
      BY <1>1 DEF Enlist
  <2>2. Drawn = fetched + 1 /\ fetched \in Nat
      BY <2>1, DrawNew
  <2> QED
      BY <1>0, <2>1, <2>2
<1>2. CASE AllocChannel
    BY <1>1, <1>2 DEF AllocChannel, AllocFromCluster, AllocFromFreeList
<1>3. CASE UNCHANGED useMap
    BY <1>3
<1>4. ASSUME NEW c \in Cells, FreeChannel(c) PROVE useMap'[i] = NULL
    BY <1>0, <1>4 DEF FreeChannel
<1>5. ASSUME NEW j \in Ids, OfferChannel(j) PROVE useMap'[i] = NULL
    BY <1>0, <1>5 DEF OfferChannel
<1>6. ASSUME NEW now, GetTimeoutList(now) PROVE useMap'[i] = NULL
    BY <1>0, <1>6 DEF GetTimeoutList
<1>7. ASSUME NEW c \in Cells, AppendChannel(c) \/ AppendFreeList(c) \/ SetArgs(c) PROVE UNCHANGED useMap
    BY <1>7 DEF AppendChannel, AppendFreeList, SetArgs
<1>8. ASSUME NEW c \in Cells, NEW t, SetExpireTime(c, t) PROVE UNCHANGED useMap
    BY <1>8 DEF SetExpireTime
<1>9. OtherPoolAlloc \/ UNCHANGED vars => UNCHANGED useMap
    BY DEF OtherPoolAlloc, vars
<1> QED
    BY <1>2, <1>3, <1>4, <1>5, <1>6, <1>7, <1>8, <1>9 DEF Next

\* However many channels and whatever the order of calls: the use list is one
\* doubly linked list in allocation order and holds exactly the channels of
\* useMap_, until the id counter has run through all ids.
THEOREM UseListHolds == ASSUME NoWrap PROVE Spec => []UseListMatchesMap
BY PoolHolds, PoolKeepsUseList, PTL

\* OfferChannel returns the channel of the request that was sent with that id,
\* with the args of that request, or none.
THEOREM RepliesFindRequests == ASSUME NoWrap PROVE Spec => []ReplyFindsItsRequest
BY PoolHolds, PoolFindsRequests, PTL

\* AllocChannel never hands out a channel that somebody has, and what is given
\* back is appended to the free list and to no other.
THEOREM FreeListHolds == ASSUME NoWrap PROVE Spec => []FreeListHasNoLiveChannel
BY PoolHolds, PoolKeepsFreeList, PTL

\* The lists that GetTimeoutList returned stay whole and apart until their
\* owners give them back with AppendFreeList.
THEOREM TimeoutListsHold == ASSUME NoWrap PROVE Spec => []TimeoutListsStayIntact
BY PoolHolds, PoolKeepsTimeoutLists, PTL

\* An id that has left useMap_ does not come back, so a late reply finds none.
THEOREM SpentIdsHold == ASSUME NoWrap PROVE Spec => SpentIdStaysSpent
<1>1. PoolInv /\ [Next]_vars =>
          [\A i \in Ids : i <= fetched /\ useMap[i] = NULL => useMap'[i] = NULL]_vars
    BY OldIdsStayOut
<1> QED
    BY PoolHolds, <1>1, PTL DEF Spec, SpentIdStaysSpent

-----------------------------------------------------------------------------
(* The pool implements the table of requests. *)

\* T is the table of the requests of the channels L with these fields.
Shows(T, L, i, e, a, p) ==
    /\ T = [n \in DOMAIN T |-> T[n]]
    /\ DOMAIN T = {i[c] : c \in L}
    /\ \A c \in L : T[i[c]] = [expire |-> e[c], args |-> a[c], taken |-> p[c] # "used"]

\* The table without the requests S, with the requests S claimed, and with a
\* new request k.
Less(T, S) == [s \in DOMAIN T \ S |-> T[s]]
Claimed(T, S) == [s \in DOMAIN T |-> [T[s] EXCEPT !.taken = (s \in S) \/ @]]
Plus(T, k, r) == [s \in DOMAIN T \cup {k} |-> IF s \in DOMAIN T THEN T[s] ELSE r]

\* The channels L keep id, deadline, args and who has them.
Keep(L, i, i2, e, e2, a, a2, p, p2) ==
    \A d \in L : i2[d] = i[d] /\ e2[d] = e[d] /\ a2[d] = a[d] /\ p2[d] = p[d]

LEMMA SameFunction ==
    ASSUME NEW f, NEW g, f = [x \in DOMAIN f |-> f[x]], g = [x \in DOMAIN g |-> g[x]],
           DOMAIN f = DOMAIN g, \A x \in DOMAIN f : f[x] = g[x]
    PROVE  f = g
OBVIOUS

LEMMA ShowsOne ==
    ASSUME NEW L, NEW i, NEW e, NEW a, NEW p, \A c, d \in L : i[c] = i[d] => c = d,
           NEW T, T = [n \in {i[c] : c \in L} |->
                         [expire |-> e[CHOOSE c \in L : i[c] = n],
                          args |-> a[CHOOSE c \in L : i[c] = n],
                          taken |-> p[CHOOSE c \in L : i[c] = n] # "used"]]
    PROVE  Shows(T, L, i, e, a, p)
<1>1. DOMAIN T = {i[c] : c \in L} /\ T = [n \in DOMAIN T |-> T[n]]
    OBVIOUS
<1>2. ASSUME NEW c \in L
      PROVE  T[i[c]] = [expire |-> e[c], args |-> a[c], taken |-> p[c] # "used"]
  <2>1. (CHOOSE d \in L : i[d] = i[c]) = c
      OBVIOUS
  <2>2. i[c] \in {i[d] : d \in L}
      OBVIOUS
  <2> QED
      BY <2>1, <2>2
<1> QED
    BY <1>1, <1>2 DEF Shows

LEMMA RequestsShown ==
    ASSUME PoolInv
    PROVE  Shows(Requests, Live, id, expire, args, place)
<1>1. \A c, d \in Live : id[c] = id[d] => c = d
    BY DEF PoolInv, IdInv
<1>2. Requests = [n \in {id[c] : c \in Live} |->
                    [expire |-> expire[CHOOSE c \in Live : id[c] = n],
                     args |-> args[CHOOSE c \in Live : id[c] = n],
                     taken |-> place[CHOOSE c \in Live : id[c] = n] # "used"]]
    BY DEF Requests, CellOf
<1> QED
    BY <1>1, <1>2, ShowsOne

LEMMA RequestsShownNext ==
    ASSUME PoolInv'
    PROVE  Shows(Requests', Live', id', expire', args', place')
<1>1. \A c, d \in Live' : id'[c] = id'[d] => c = d
    BY DEF PoolInv, IdInv
<1>2. Requests' = [n \in {id'[c] : c \in Live'} |->
                    [expire |-> expire'[CHOOSE c \in Live' : id'[c] = n],
                     args |-> args'[CHOOSE c \in Live' : id'[c] = n],
                     taken |-> place'[CHOOSE c \in Live' : id'[c] = n] # "used"]]
    BY DEF Requests, CellOf
<1> QED
    BY <1>1, <1>2, ShowsOne

\* The channels of G are given back, the others stay as they are.
LEMMA ShowsLess ==
    ASSUME NEW T, NEW T2, NEW L, NEW i, NEW e, NEW a, NEW p, NEW i2, NEW e2, NEW a2, NEW p2, NEW G,
           \A c, d \in L : i[c] = i[d] => c = d, G \subseteq L,
           Shows(T, L, i, e, a, p), Shows(T2, L \ G, i2, e2, a2, p2),
           Keep(L \ G, i, i2, e, e2, a, a2, p, p2),
           NEW S, S = {i[c] : c \in G}
    PROVE  T2 = Less(T, S)
<1> DEFINE F == [s \in DOMAIN T \ S |-> T[s]]
<1>0. \A d \in L \ G : i2[d] = i[d] /\ e2[d] = e[d] /\ a2[d] = a[d] /\ p2[d] = p[d]
    BY DEF Keep
<1>1. DOMAIN T2 = DOMAIN F /\ DOMAIN F = {i[c] : c \in L \ G}
    BY <1>0 DEF Shows
<1>2. ASSUME NEW c \in L \ G PROVE T2[i[c]] = T[i[c]] /\ i[c] \in DOMAIN F
  <2>1. T2[i2[c]] = [expire |-> e2[c], args |-> a2[c], taken |-> p2[c] # "used"]
      BY DEF Shows
  <2>2. T[i[c]] = [expire |-> e[c], args |-> a[c], taken |-> p[c] # "used"]
      BY DEF Shows
  <2> QED
      BY <1>0, <1>1, <2>1, <2>2
<1>3. ASSUME NEW s \in DOMAIN T2 PROVE T2[s] = F[s]
  <2>1. PICK c \in L \ G : s = i[c]
      BY <1>1
  <2> QED
      BY <1>2, <2>1
<1>4. T2 = [x \in DOMAIN T2 |-> T2[x]] /\ F = [x \in DOMAIN F |-> F[x]]
    BY DEF Shows
<1>5. F = Less(T, S)
    BY DEF Less
<1> HIDE DEF F
<1> QED
    BY <1>1, <1>3, <1>4, <1>5, SameFunction

LEMMA ClaimEntry ==
    ASSUME NEW x, NEW y, NEW t \in BOOLEAN, NEW b \in BOOLEAN,
           NEW r, r = [expire |-> x, args |-> y, taken |-> t]
    PROVE  [r EXCEPT !.taken = b \/ @] = [expire |-> x, args |-> y, taken |-> b \/ t]
OBVIOUS

\* The channels of G are claimed, the others stay as they are.
LEMMA ShowsClaim ==
    ASSUME NEW T, NEW T2, NEW L, NEW i, NEW e, NEW a, NEW p, NEW p2, NEW G, NEW S,
           \A c, d \in L : i[c] = i[d] => c = d, G \subseteq L, S = {i[c] : c \in G},
           Shows(T, L, i, e, a, p), Shows(T2, L, i, e, a, p2),
           \A c \in G : p2[c] # "used", \A c \in L \ G : p2[c] = p[c]
    PROVE  T2 = Claimed(T, S)
<1> DEFINE F == [s \in DOMAIN T |-> [T[s] EXCEPT !.taken = (s \in S) \/ @]]
<1>1. DOMAIN T2 = DOMAIN F /\ DOMAIN T = DOMAIN F /\ DOMAIN F = {i[c] : c \in L}
    BY DEF Shows
<1>2. ASSUME NEW c \in L PROVE T2[i[c]] = F[i[c]]
  <2>1. /\ T[i[c]] = [expire |-> e[c], args |-> a[c], taken |-> p[c] # "used"]
        /\ T2[i[c]] = [expire |-> e[c], args |-> a[c], taken |-> p2[c] # "used"]
      BY DEF Shows
  <2>2. F[i[c]] = [T[i[c]] EXCEPT !.taken = (i[c] \in S) \/ @]
      BY <1>1
  <2>3. i[c] \in S <=> c \in G
      OBVIOUS
  <2>0. PICK r, q, t : r = T[i[c]] /\ q = (i[c] \in S) /\ t = (p[c] # "used")
    <3> HIDE DEF F
    <3> QED
        BY Zenon
  <2>4. r = T[i[c]] /\ q = (i[c] \in S) /\ t = (p[c] # "used") /\ q \in BOOLEAN /\ t \in BOOLEAN
      BY <2>0
  <2>5. F[i[c]] = [r EXCEPT !.taken = q \/ @]
      BY <2>2, <2>4
  <2>6. r = [expire |-> e[c], args |-> a[c], taken |-> t]
      BY <2>1, <2>4
  <2>7. F[i[c]] = [expire |-> e[c], args |-> a[c], taken |-> q \/ t]
      BY <2>5, <2>6, ClaimEntry
  <2>8. (q \/ t) = (p2[c] # "used")
      BY <2>3, <2>4
  <2> HIDE DEF F
  <2> QED
      BY <2>1, <2>7, <2>8
<1>3. ASSUME NEW s \in DOMAIN T2 PROVE T2[s] = F[s]
  <2>1. PICK c \in L : s = i[c]
      BY <1>1
  <2> QED
      BY <1>2, <2>1
<1>4. T2 = [x \in DOMAIN T2 |-> T2[x]] /\ F = [x \in DOMAIN F |-> F[x]]
    BY DEF Shows
<1>5. F = Claimed(T, S)
    BY DEF Claimed
<1> HIDE DEF F
<1> QED
    BY <1>1, <1>3, <1>4, <1>5, SameFunction

\* The channel c holds the entry r under the new number k.
Joins(c, k, r, L, i, i2, e2, a2, p2) ==
    /\ i2[c] = k /\ \A d \in L : i[d] # k
    /\ r = [expire |-> e2[c], args |-> a2[c], taken |-> p2[c] # "used"]

\* The channel c joins with the request k.
LEMMA ShowsAdd ==
    ASSUME NEW T, NEW T2, NEW L, NEW i, NEW e, NEW a, NEW p, NEW i2, NEW e2, NEW a2, NEW p2,
           NEW c, NEW k, Shows(T, L, i, e, a, p), Shows(T2, L \cup {c}, i2, e2, a2, p2),
           NEW r, Joins(c, k, r, L, i, i2, e2, a2, p2), Keep(L, i, i2, e, e2, a, a2, p, p2)
    PROVE  T2 = Plus(T, k, r)
<1>a. /\ i2[c] = k /\ \A d \in L : i[d] # k
      /\ r = [expire |-> e2[c], args |-> a2[c], taken |-> p2[c] # "used"]
    BY DEF Joins
<1> USE <1>a
<1> DEFINE F == [s \in DOMAIN T \cup {k} |-> IF s \in DOMAIN T THEN T[s] ELSE r]
<1>0. \A d \in L : i2[d] = i[d] /\ e2[d] = e[d] /\ a2[d] = a[d] /\ p2[d] = p[d]
    BY DEF Keep
<1>1. DOMAIN T = {i[d] : d \in L} /\ DOMAIN T2 = {i2[d] : d \in L \cup {c}}
    BY DEF Shows
<1>2. DOMAIN T2 = DOMAIN F /\ k \notin DOMAIN T
    BY <1>0, <1>1
<1>3. T2[k] = r
    BY DEF Shows
<1>4. ASSUME NEW d \in L PROVE T2[i[d]] = T[i[d]]
  <2>1. T[i[d]] = [expire |-> e[d], args |-> a[d], taken |-> p[d] # "used"]
      BY DEF Shows
  <2>2. T2[i2[d]] = [expire |-> e2[d], args |-> a2[d], taken |-> p2[d] # "used"]
      BY DEF Shows
  <2> QED
      BY <1>0, <2>1, <2>2
<1>5. ASSUME NEW s \in DOMAIN T2 PROVE T2[s] = F[s]
  <2>1. CASE s = k
      BY <1>2, <1>3, <2>1
  <2>2. CASE s # k
    <3>1. PICK d \in L : s = i[d]
        BY <1>0, <1>1, <2>2
    <3>2. s \in DOMAIN T
        BY <1>1, <3>1
    <3> QED
        BY <1>4, <3>1, <3>2
  <2> QED
      BY <2>1, <2>2
<1>6. T2 = [x \in DOMAIN T2 |-> T2[x]]
    BY DEF Shows
<1>7. F = [x \in DOMAIN F |-> F[x]]
    OBVIOUS
<1>8. F = Plus(T, k, r)
    BY DEF Plus
<1> HIDE DEF F
<1> QED
    BY <1>2, <1>5, <1>6, <1>7, <1>8, SameFunction

LEMMA DomainRequests ==
    ASSUME PoolInv
    PROVE  DOMAIN Requests = {id[c] : c \in Live}
BY RequestsShown DEF Shows

LEMMA EntryOf ==
    ASSUME PoolInv, NEW c \in Live
    PROVE  /\ id[c] \in DOMAIN Requests /\ id[c] = born[c] /\ id[c] \in Nat
           /\ Requests[id[c]] = [expire |-> expire[c], args |-> args[c], taken |-> place[c] # "used"]
           /\ (c \in Used) <=> ~ Requests[id[c]].taken
<1>1. Requests[id[c]] = [expire |-> expire[c], args |-> args[c], taken |-> place[c] # "used"]
    BY RequestsShown DEF Shows
<1>2. id[c] \in DOMAIN Requests
    BY DomainRequests
<1>3. id[c] = born[c] /\ id[c] \in Nat
    BY DEF PoolInv, IdInv, TypeOK, Live
<1>4. (c \in Used) <=> ~ Requests[id[c]].taken
  <2>1. Requests[id[c]].taken = (place[c] # "used")
      BY <1>1
  <2> QED
      BY <2>1 DEF Used, Live
<1> QED
    BY <1>1, <1>2, <1>3, <1>4

LEMMA EnlistMaps ==
    ASSUME NoWrap, PoolInv, PoolInv', NEW c \in Cells, place[c] = "pool", NEW pv, NEW nx,
           Enlist(c, pv, nx)
    PROVE  Table!AllocChannel
<1>1. /\ fetched \in Nat /\ fetched' = fetched + 1 /\ Drawn = fetched' /\ fetched < MaxFetch
    BY DrawNew DEF Enlist, Draw
<1>2. /\ id' = [id EXCEPT ![c] = fetched + 1] /\ args' = [args EXCEPT ![c] = 0]
      /\ expire' = [expire EXCEPT ![c] = Never]
      /\ place' = [place EXCEPT ![c] = "used"]
      /\ id \in [Cells -> Ids] /\ args \in [Cells -> 0 .. MaxFetch]
      /\ expire \in [Cells -> 0 .. Never] /\ place \in [Cells -> Places]
    BY <1>1 DEF Enlist, PoolInv, TypeOK
<1>3. Live' = Live \cup {c} /\ c \notin Live
    BY <1>2 DEF Live
<1>4. /\ Shows(Requests, Live, id, expire, args, place)
      /\ Shows(Requests', Live \cup {c}, id', expire', args', place')
    BY <1>3, RequestsShown, RequestsShownNext
<1>5. \A d \in Live : /\ id'[d] = id[d] /\ expire'[d] = expire[d] /\ args'[d] = args[d]
                      /\ place'[d] = place[d] /\ id[d] # fetched + 1
  <2>1. \A d \in Live : d \in Cells /\ d # c /\ id[d] \in 1 .. fetched
      BY <1>3 DEF PoolInv, IdInv, Live
  <2>2. \A d \in Live : id[d] # fetched + 1
      BY <1>1, <2>1
  <2> QED
      BY <1>2, <2>1, <2>2
<1>6. /\ id'[c] = fetched + 1 /\ expire'[c] = Never /\ args'[c] = 0 /\ place'[c] = "used"
    BY <1>2
<1>7. [expire |-> expire'[c], args |-> args'[c], taken |-> place'[c] # "used"]
      = [expire |-> Never, args |-> 0, taken |-> FALSE]
    BY <1>6
<1>8. Keep(Live, id, id', expire, expire', args, args', place, place')
    BY <1>5 DEF Keep
<1>9. Requests' = Plus(Requests, fetched + 1, [expire |-> Never, args |-> 0, taken |-> FALSE])
  <2>1. PICK k, r : k = fetched + 1 /\ r = [expire |-> Never, args |-> 0, taken |-> FALSE]
      OBVIOUS
  <2>2. r = [expire |-> expire'[c], args |-> args'[c], taken |-> place'[c] # "used"]
      BY <1>7, <2>1
  <2>3. id'[c] = k /\ \A d \in Live : id[d] # k
      BY <1>5, <1>6, <2>1
  <2>4. Joins(c, k, r, Live, id, id', expire', args', place')
      BY <2>2, <2>3 DEF Joins
  <2>5. Requests' = Plus(Requests, k, r)
      BY <1>4, <1>8, <2>4, ShowsAdd
  <2> QED
      BY <2>1, <2>5
<1> QED
    BY <1>1, <1>9 DEF Plus, Table!AllocChannel, Table!Never, Table!NoArgs, Never

\* Of the channels L only c changes the field f, and no other has its id.
OnlyAt(c, L, i, f, f2) == /\ \A d \in L : i[d] = i[c] => d = c
                          /\ \A d \in L \ {c} : f2[d] = f[d]

WithArgs(T, s, v) == [T EXCEPT ![s].args = v]
WithExpire(T, s, v) == [T EXCEPT ![s].expire = v]

\* One channel gets other args, or another deadline.
LEMMA ShowsArgs ==
    ASSUME NEW T, NEW T2, NEW L, NEW i, NEW e, NEW a, NEW a2, NEW p, NEW c \in L,
           Shows(T, L, i, e, a, p), Shows(T2, L, i, e, a2, p),
           OnlyAt(c, L, i, a, a2)
    PROVE  T2 = WithArgs(T, i[c], a2[c])
<1>0. (\A d \in L : i[d] = i[c] => d = c) /\ \A d \in L \ {c} : a2[d] = a[d]
    BY DEF OnlyAt
<1> USE <1>0
<1> DEFINE F == [T EXCEPT ![i[c]].args = a2[c]]
<1>1. DOMAIN T = {i[d] : d \in L} /\ DOMAIN T2 = {i[d] : d \in L} /\ T = [x \in DOMAIN T |-> T[x]]
      /\ T2 = [x \in DOMAIN T2 |-> T2[x]]
    BY DEF Shows
<1>2. DOMAIN F = DOMAIN T /\ F = [x \in DOMAIN F |-> F[x]]
    BY <1>1
<1>3. ASSUME NEW d \in L PROVE T2[i[d]] = F[i[d]]
  <2>1. /\ T[i[d]] = [expire |-> e[d], args |-> a[d], taken |-> p[d] # "used"]
        /\ T2[i[d]] = [expire |-> e[d], args |-> a2[d], taken |-> p[d] # "used"]
        /\ i[d] \in DOMAIN T
      BY DEF Shows
  <2>2. CASE d = c
    <3>1. F[i[c]] = [T[i[c]] EXCEPT !.args = a2[c]]
        BY <1>1, <2>1, <2>2
    <3>2. F[i[c]] = [expire |-> e[c], args |-> a2[c], taken |-> p[c] # "used"]
        BY <2>1, <2>2, <3>1
    <3> QED
        BY <2>1, <2>2, <3>2
  <2>3. CASE d # c
    <3>1. F[i[d]] = T[i[d]]
        BY <1>1, <2>1, <2>3
    <3> QED
        BY <2>1, <2>3, <3>1
  <2> QED
      BY <2>2, <2>3
<1> HIDE DEF F
<1>4. ASSUME NEW s \in DOMAIN T2 PROVE T2[s] = F[s]
  <2>1. PICK d \in L : s = i[d]
      BY <1>1
  <2> QED
      BY <1>3, <2>1
<1>5. T2 = F
    BY <1>1, <1>2, <1>4, SameFunction
<1> QED
    BY <1>5 DEF F, WithArgs

LEMMA ShowsExpire ==
    ASSUME NEW T, NEW T2, NEW L, NEW i, NEW e, NEW a, NEW e2, NEW p, NEW c \in L,
           Shows(T, L, i, e, a, p), Shows(T2, L, i, e2, a, p),
           OnlyAt(c, L, i, e, e2)
    PROVE  T2 = WithExpire(T, i[c], e2[c])
<1>0. (\A d \in L : i[d] = i[c] => d = c) /\ \A d \in L \ {c} : e2[d] = e[d]
    BY DEF OnlyAt
<1> USE <1>0
<1> DEFINE F == [T EXCEPT ![i[c]].expire = e2[c]]
<1>1. DOMAIN T = {i[d] : d \in L} /\ DOMAIN T2 = {i[d] : d \in L} /\ T = [x \in DOMAIN T |-> T[x]]
      /\ T2 = [x \in DOMAIN T2 |-> T2[x]]
    BY DEF Shows
<1>2. DOMAIN F = DOMAIN T /\ F = [x \in DOMAIN F |-> F[x]]
    BY <1>1
<1>3. ASSUME NEW d \in L PROVE T2[i[d]] = F[i[d]]
  <2>1. /\ T[i[d]] = [expire |-> e[d], args |-> a[d], taken |-> p[d] # "used"]
        /\ T2[i[d]] = [expire |-> e2[d], args |-> a[d], taken |-> p[d] # "used"]
        /\ i[d] \in DOMAIN T
      BY DEF Shows
  <2>2. CASE d = c
    <3>1. F[i[c]] = [T[i[c]] EXCEPT !.expire = e2[c]]
        BY <1>1, <2>1, <2>2
    <3>2. F[i[c]] = [expire |-> e2[c], args |-> a[c], taken |-> p[c] # "used"]
        BY <2>1, <2>2, <3>1
    <3> QED
        BY <2>1, <2>2, <3>2
  <2>3. CASE d # c
    <3>1. F[i[d]] = T[i[d]]
        BY <1>1, <2>1, <2>3
    <3> QED
        BY <2>1, <2>3, <3>1
  <2> QED
      BY <2>2, <2>3
<1> HIDE DEF F
<1>4. ASSUME NEW s \in DOMAIN T2 PROVE T2[s] = F[s]
  <2>1. PICK d \in L : s = i[d]
      BY <1>1
  <2> QED
      BY <1>3, <2>1
<1>5. T2 = F
    BY <1>1, <1>2, <1>4, SameFunction
<1> QED
    BY <1>5 DEF F, WithExpire

LEMMA LiveFacts ==
    ASSUME PoolInv
    PROVE  /\ \A c, d \in Live : id[c] = id[d] => c = d
           /\ Live \in SUBSET Cells /\ id \in [Cells -> Ids] /\ args \in [Cells -> 0 .. MaxFetch]
           /\ expire \in [Cells -> 0 .. Never] /\ place \in [Cells -> Places]
BY DEF PoolInv, IdInv, TypeOK, Live

\* The channels G are given back.
LEMMA GiveBackMaps ==
    ASSUME PoolInv, PoolInv', NEW G \in SUBSET Live, Live' = Live \ G,
           Keep(Live \ G, id, id', expire, expire', args, args', place, place')
    PROVE  Requests' = Less(Requests, {id[c] : c \in G})
<1>1. /\ Shows(Requests, Live, id, expire, args, place)
      /\ Shows(Requests', Live \ G, id', expire', args', place')
    BY RequestsShown, RequestsShownNext
<1>2. PICK S : S = {id[c] : c \in G}
    OBVIOUS
<1>3. Requests' = Less(Requests, S)
    BY <1>1, <1>2, LiveFacts, ShowsLess
<1> QED
    BY <1>2, <1>3

\* The channels G are claimed.
LEMMA ClaimMaps ==
    ASSUME PoolInv, PoolInv', NEW G \in SUBSET Live, Live' = Live, UNCHANGED fields,
           \A c \in G : place'[c] # "used", \A c \in Live \ G : place'[c] = place[c]
    PROVE  Requests' = Claimed(Requests, {id[c] : c \in G})
<1>1. /\ Shows(Requests, Live, id, expire, args, place)
      /\ Shows(Requests', Live, id, expire, args, place')
    BY RequestsShown, RequestsShownNext DEF fields
<1>2. PICK S : S = {id[c] : c \in G}
    OBVIOUS
<1>3. Requests' = Claimed(Requests, S)
    BY <1>1, <1>2, LiveFacts, ShowsClaim
<1> QED
    BY <1>2, <1>3

LEMMA FreeChannelMaps ==
    ASSUME PoolInv, PoolInv', NEW c \in Cells, FreeChannel(c)
    PROVE  \E s \in DOMAIN Requests : Table!FreeChannel(s)
<1>1. c \in Used /\ c \in Live
    BY MapFindsOnly, CellFacts DEF FreeChannel, Live
<1>2. /\ place' = [place EXCEPT ![c] = "pool"] /\ expire' = expire
      /\ id' = [id EXCEPT ![c] = 0] /\ args' = [args EXCEPT ![c] = 0] /\ fetched' = fetched
    BY DEF FreeChannel, PushFree, draws
<1>3. Live' = Live \ {c}
    BY <1>1, <1>2, LiveFacts DEF Live
<1>4. Keep(Live \ {c}, id, id', expire, expire', args, args', place, place')
    BY <1>2, LiveFacts DEF Keep
<1>5. Requests' = Less(Requests, {id[d] : d \in {c}})
    BY <1>1, <1>3, <1>4, GiveBackMaps
<1>6. id[c] \in DOMAIN Requests /\ ~ Requests[id[c]].taken
    BY <1>1, EntryOf
<1>7. {id[d] : d \in {c}} = {id[c]} \cap Table!Pending
    BY <1>6 DEF Table!Pending
<1>8. Table!FreeChannel(id[c])
    BY <1>2, <1>5, <1>7 DEF Table!FreeChannel, Table!Without, Less
<1> QED
    BY <1>6, <1>8

LEMMA AppendChannelMaps ==
    ASSUME PoolInv, PoolInv', NEW c \in Cells, AppendChannel(c)
    PROVE  \E S \in SUBSET DOMAIN Requests : Table!Recycle(S)
<1>1. c \in Live /\ c \notin Used
    BY DEF AppendChannel, Live, Used
<1>2. /\ place' = [place EXCEPT ![c] = "pool"] /\ expire' = expire
      /\ id' = [id EXCEPT ![c] = 0] /\ args' = [args EXCEPT ![c] = 0] /\ fetched' = fetched
    BY DEF AppendChannel, PushFree, draws
<1>3. Live' = Live \ {c}
    BY <1>1, <1>2, LiveFacts DEF Live
<1>4. Keep(Live \ {c}, id, id', expire, expire', args, args', place, place')
    BY <1>2, LiveFacts DEF Keep
<1>5. Requests' = Less(Requests, {id[d] : d \in {c}})
    BY <1>1, <1>3, <1>4, GiveBackMaps
<1>6. id[c] \in DOMAIN Requests /\ Requests[id[c]].taken
    BY <1>1, EntryOf
<1>7. {id[d] : d \in {c}} = {id[c]} /\ {id[c]} \subseteq Table!Taken
    BY <1>6 DEF Table!Taken
<1>8. Table!Recycle({id[c]})
    BY <1>2, <1>5, <1>7 DEF Table!Recycle, Table!Without, Less
<1> QED
    BY <1>6, <1>8

LEMMA AppendFreeListMaps ==
    ASSUME PoolInv, PoolInv', NEW l \in Cells, AppendFreeList(l)
    PROVE  \E S \in SUBSET DOMAIN Requests : Table!Recycle(S)
<1>1. PICK G : G = Reach(l)
    OBVIOUS
<1>2. /\ l \in lists /\ expire' = expire /\ fetched' = fetched
      /\ id' = [c \in Cells |-> IF c \in G THEN 0 ELSE id[c]]
      /\ args' = [c \in Cells |-> IF c \in G THEN 0 ELSE args[c]]
      /\ place' = [c \in Cells |-> IF c \in G THEN "pool" ELSE place[c]]
    BY <1>1 DEF AppendFreeList, draws
<1>3. \A c \in G : place[c] = "timedout"
    BY <1>1, <1>2, PoolKeepsTimeoutLists DEF TimeoutListsStayIntact
<1>4. G \subseteq Cells
  <2>1. 1 .. total \subseteq Cells
      BY PoolBounds DEF PoolInv, TypeOK, Cells
  <2> QED
      BY <1>1, <2>1 DEF Reach, Walk
<1>5. G \in SUBSET Live /\ \A c \in G : c \notin Used
    BY <1>3, <1>4 DEF Live, Used
<1>6. Live' = Live \ G
    BY <1>2, <1>4 DEF Live
<1>7. Keep(Live \ G, id, id', expire, expire', args, args', place, place')
    BY <1>2, LiveFacts DEF Keep
<1>8. Requests' = Less(Requests, {id[d] : d \in G})
    BY <1>5, <1>6, <1>7, GiveBackMaps
<1>9. \A c \in G : id[c] \in DOMAIN Requests /\ Requests[id[c]].taken
    BY <1>5, EntryOf
<1>10. {id[d] : d \in G} \subseteq Table!Taken
    BY <1>9 DEF Table!Taken
<1>11. Table!Recycle({id[d] : d \in G})
    BY <1>2, <1>8, <1>10 DEF Table!Recycle, Table!Without, Less
<1>12. {id[d] : d \in G} \in SUBSET DOMAIN Requests
    BY <1>9
<1> QED
    BY <1>11, <1>12

LEMMA OfferChannelMaps ==
    ASSUME PoolInv, PoolInv', NEW i \in Ids, OfferChannel(i)
    PROVE  \E s \in DOMAIN Requests : Table!OfferChannel(s)
<1>1. PICK c \in Used : c = useMap[i] /\ id[c] = i
    BY DEF OfferChannel, PoolInv, IdInv
<1>2. place' = [place EXCEPT ![c] = "offered"] /\ UNCHANGED fields /\ fetched' = fetched
    BY <1>1 DEF OfferChannel, draws
<1>3. c \in Live /\ place[c] = "used" /\ c \in Cells
    BY CellFacts DEF Used
<1>4. Live' = Live
    BY <1>2, <1>3, LiveFacts DEF Live
<1>5. place'[c] # "used" /\ \A d \in Live \ {c} : place'[d] = place[d]
    BY <1>2, <1>3, LiveFacts
<1>6. Requests' = Claimed(Requests, {id[d] : d \in {c}})
    BY <1>2, <1>3, <1>4, <1>5, ClaimMaps
<1>7. id[c] \in DOMAIN Requests /\ ~ Requests[id[c]].taken
    BY <1>1, <1>3, EntryOf
<1>8. {id[d] : d \in {c}} = {id[c]} /\ id[c] \in Table!Pending
    BY <1>7 DEF Table!Pending
<1>9. Table!OfferChannel(id[c])
    BY <1>2, <1>6, <1>8 DEF Table!OfferChannel, Table!Claim, Claimed
<1> QED
    BY <1>7, <1>9

LEMMA SetArgsMaps ==
    ASSUME PoolInv, PoolInv', NEW c \in Cells, SetArgs(c)
    PROVE  \E s \in DOMAIN Requests, a \in 0 .. MaxFetch : Table!SetArgs(s, a)
<1>1. /\ c \in Live /\ UNCHANGED <<id, expire, place, fetched>>
      /\ args' = [args EXCEPT ![c] = IF place[c] = "used" THEN born[c] ELSE 0]
    BY DEF SetArgs, Live, draws
<1>2. Live' = Live
    BY <1>1 DEF Live
<1>3. \A d \in Live \ {c} : args'[d] = args[d]
    BY <1>1, LiveFacts
<1>4. args'[c] = IF place[c] = "used" THEN born[c] ELSE 0
    BY <1>1, LiveFacts
<1>5. Shows(Requests, Live, id, expire, args, place) /\ Shows(Requests', Live, id, expire, args', place)
    BY <1>1, <1>2, RequestsShown, RequestsShownNext
<1>6. Requests' = WithArgs(Requests, id[c], args'[c])
  <2>1. OnlyAt(c, Live, id, args, args')
      BY <1>1, <1>3, LiveFacts DEF OnlyAt
  <2>2. c \in Live
      BY <1>1
  <2> QED
      BY <1>5, <2>1, <2>2, ShowsArgs
<1>7. /\ id[c] \in DOMAIN Requests /\ id[c] = born[c]
      /\ Requests[id[c]].taken <=> c \notin Used
    BY <1>1, EntryOf
<1>8. args'[c] = IF Requests[id[c]].taken THEN 0 ELSE id[c]
    BY <1>4, <1>7 DEF Used
<1>9. args'[c] \in 0 .. MaxFetch
    BY DEF PoolInv, TypeOK
<1>10. Table!SetArgs(id[c], args'[c])
    BY <1>1, <1>6, <1>7, <1>8 DEF WithArgs, Table!SetArgs, Table!NoArgs
<1> QED
    BY <1>7, <1>9, <1>10

LEMMA SetExpireTimeMaps ==
    ASSUME PoolInv, PoolInv', NEW c \in Cells, NEW t \in 1 .. MaxTime - 1, SetExpireTime(c, t)
    PROVE  \E s \in DOMAIN Requests, u \in 1 .. MaxTime - 1 : Table!SetExpireTime(s, u)
<1>1. /\ c \in Used /\ c \in Live /\ UNCHANGED <<id, args, place, fetched>>
      /\ expire' = [expire EXCEPT ![c] = t]
    BY DEF SetExpireTime, Live, Used, draws
<1>2. Live' = Live
    BY <1>1 DEF Live
<1>3. (\A d \in Live \ {c} : expire'[d] = expire[d]) /\ expire'[c] = t
    BY <1>1, LiveFacts
<1>5. Shows(Requests, Live, id, expire, args, place) /\ Shows(Requests', Live, id, expire', args, place)
    BY <1>1, <1>2, RequestsShown, RequestsShownNext
<1>6. Requests' = WithExpire(Requests, id[c], expire'[c])
  <2>1. OnlyAt(c, Live, id, expire, expire')
      BY <1>1, <1>3, LiveFacts DEF OnlyAt
  <2>2. c \in Live
      BY <1>1
  <2> QED
      BY <1>5, <2>1, <2>2, ShowsExpire
<1>7. id[c] \in DOMAIN Requests /\ ~ Requests[id[c]].taken
    BY <1>1, EntryOf
<1>8. id[c] \in Table!Pending
    BY <1>7 DEF Table!Pending
<1>10. Table!SetExpireTime(id[c], t)
    BY <1>1, <1>3, <1>6, <1>8 DEF WithExpire, Table!SetExpireTime
<1> QED
    BY <1>7, <1>10

\* What the walk takes is what the table calls overdue: the pending requests up
\* to the first one whose deadline has not passed.
LEMMA ExpiredIsOverdue ==
    ASSUME PoolInv, NEW now, NEW z \in Expired(now), next[z] \notin Expired(now)
    PROVE  Table!Overdue(now) = {id[c] : c \in Expired(now)}
<1>1. z \in Used /\ Expired(now) = {d \in Used : born[d] <= born[z]}
    BY ExpiredIsOlderPart
<1>2. \A d \in Expired(now) : expire[d] < now
    BY DEF Expired, Walk
<1>3. \A c \in Used : c \in Live /\ id[c] = born[c] /\ born[c] \in Nat
    BY CellFacts, EntryOf
<1>4. ASSUME NEW d \in Used, \A c \in Used : born[c] <= born[d] => expire[c] < now
      PROVE  d \in Expired(now)
  <2> SUFFICES ASSUME d \notin Expired(now) PROVE FALSE
      OBVIOUS
  <2>1. born[z] < born[d]
      BY <1>1, <1>3
  <2>2. Ordered(Used, born, useListHead, useListTail, prev, next)
      BY DEF PoolInv, UseInv
  <2>3. next[z] # NULL
      BY <1>1, <1>3, <2>1, <2>2 DEF Ordered
  <2>4. next[z] \in Used /\ born[next[z]] <= born[d]
      BY <1>1, <1>3, <2>1, <2>2, <2>3 DEF Ordered
  <2>5. next[z] \in {c \in 1 .. total : expire[c] < now}
      BY <1>4, <2>4, CellFacts
  <2> QED
      BY <2>5 DEF Expired, Walk
<1>5. ASSUME NEW d \in Expired(now), NEW c \in Used, born[c] <= born[d] PROVE expire[c] < now
  <2>1. c \in Expired(now)
      BY <1>1, <1>3, <1>5
  <2> QED
      BY <1>2, <2>1
<1>6. Table!Pending = {id[c] : c \in Used}
  <2>1. \A c \in Live : id[c] \in DOMAIN Requests /\ ((c \in Used) <=> ~ Requests[id[c]].taken)
      BY EntryOf
  <2>2. DOMAIN Requests = {id[c] : c \in Live}
      BY DomainRequests
  <2> QED
      BY <1>3, <2>1, <2>2 DEF Table!Pending
<1>7. ASSUME NEW c \in Used PROVE Requests[id[c]].expire = expire[c]
  <2>1. Requests[id[c]] = [expire |-> expire[c], args |-> args[c], taken |-> place[c] # "used"]
      BY <1>3, EntryOf
  <2> QED
      BY <2>1
<1>8. ASSUME NEW c \in Used
      PROVE  id[c] \in Table!Overdue(now) <=>
                 \A d \in Used : born[d] <= born[c] => expire[d] < now
    BY <1>3, <1>6, <1>7 DEF Table!Overdue
<1>9. Table!Overdue(now) \subseteq Table!Pending
    BY DEF Table!Overdue
<1>10. Table!Overdue(now) \subseteq {id[c] : c \in Expired(now)}
    BY <1>4, <1>6, <1>8, <1>9
<1>11. \A c \in Expired(now) : id[c] \in Table!Overdue(now)
    BY <1>1, <1>5, <1>8
<1> QED
    BY <1>10, <1>11

LEMMA GetTimeoutListMaps ==
    ASSUME PoolInv, PoolInv', NEW now, GetTimeoutList(now)
    PROVE  Table!GetTimeoutList(now)
<1>1. PICK stop \in {next[c] : c \in Expired(now)} \ Expired(now) :
          /\ place' = [c \in Cells |-> IF c \in Expired(now) THEN "timedout" ELSE place[c]]
          /\ UNCHANGED <<fields, draws>>
    BY DEF GetTimeoutList
<1>2. PICK z \in Expired(now) : stop = next[z]
    OBVIOUS
<1>3. PICK G : G = Expired(now)
    OBVIOUS
<1>4. G \subseteq Used
    BY <1>1, <1>2, <1>3, ExpiredIsOlderPart
<1>5. Table!Overdue(now) = {id[c] : c \in G}
    BY <1>1, <1>2, <1>3, ExpiredIsOverdue
<1>6. G \in SUBSET Live /\ Live' = Live
    BY <1>1, <1>3, <1>4 DEF Live, Used
<1>7. (\A c \in G : place'[c] # "used") /\ \A c \in Live \ G : place'[c] = place[c]
    BY <1>1, <1>3, <1>6, LiveFacts
<1>8. Requests' = Claimed(Requests, {id[c] : c \in G})
    BY <1>1, <1>6, <1>7, ClaimMaps
<1> QED
    BY <1>1, <1>5, <1>8 DEF Table!GetTimeoutList, Table!Claim, Claimed, draws

LEMMA TableInit == Init => Table!Init
<1> SUFFICES ASSUME Init PROVE Table!Init
    OBVIOUS
<1>1. Live = {} /\ fetched = 0
    BY DEF Init, Live
<1> QED
    BY <1>1 DEF Table!Init, Requests

LEMMA TableStep ==
    NoWrap /\ PoolInv /\ PoolInv' /\ [Next]_vars => [Table!Next]_(Table!vars)
<1> SUFFICES ASSUME NoWrap, PoolInv, PoolInv', [Next]_vars
             PROVE  Table!Next \/ UNCHANGED Table!vars
    OBVIOUS
<1>1. CASE AllocFromCluster
  <2>1. total + 1 \in Cells /\ total + 1 \notin 1 .. total
      BY <1>1, PoolBounds DEF AllocFromCluster, PoolInv, TypeOK, Cells
  <2>2. place[total + 1] = "pool"
      BY <2>1 DEF PoolInv, IdInv, Live
  <2>3. Table!AllocChannel
      BY <1>1, <2>1, <2>2, EnlistMaps DEF AllocFromCluster
  <2> QED
      BY <2>3 DEF Table!Next
<1>2. CASE AllocFromFreeList
  <2>1. freeListHead \in Cells /\ place[freeListHead] = "pool"
      BY <1>2, CellFacts DEF AllocFromFreeList, Spare
  <2>2. Table!AllocChannel
      BY <1>2, <2>1, EnlistMaps DEF AllocFromFreeList
  <2> QED
      BY <2>2 DEF Table!Next
<1>3. CASE OtherPoolAlloc
  <2>1. Live' = Live /\ UNCHANGED <<id, expire, args, place>> /\ Draw
      BY <1>3 DEF OtherPoolAlloc, fields, Live
  <2>2. Requests' = Requests
      BY <2>1 DEF Requests, CellOf
  <2>3. Table!OtherPoolAlloc
      BY <2>1, <2>2 DEF Table!OtherPoolAlloc, Draw
  <2> QED
      BY <2>3 DEF Table!Next
<1>4. ASSUME NEW c \in Cells, FreeChannel(c) PROVE Table!Next
    BY <1>4, FreeChannelMaps DEF Table!Next
<1>5. ASSUME NEW c \in Cells, AppendChannel(c) PROVE Table!Next
    BY <1>5, AppendChannelMaps DEF Table!Next
<1>6. ASSUME NEW c \in Cells, SetArgs(c) PROVE Table!Next
    BY <1>6, SetArgsMaps DEF Table!Next
<1>7. ASSUME NEW c \in Cells, NEW t \in 1 .. MaxTime - 1, SetExpireTime(c, t) PROVE Table!Next
    BY <1>7, SetExpireTimeMaps DEF Table!Next
<1>8. ASSUME NEW i \in Ids, OfferChannel(i) PROVE Table!Next
    BY <1>8, OfferChannelMaps DEF Table!Next
<1>9. ASSUME NEW now \in 1 .. MaxTime, GetTimeoutList(now) PROVE Table!Next
    BY <1>9, GetTimeoutListMaps DEF Table!Next
<1>10. ASSUME NEW c \in Cells, AppendFreeList(c) PROVE Table!Next
    BY <1>10, AppendFreeListMaps DEF Table!Next
<1>11. CASE UNCHANGED vars
  <2>1. Live' = Live /\ UNCHANGED <<id, expire, args, place, fetched>>
      BY <1>11 DEF vars, fields, draws, Live
  <2> QED
      BY <2>1 DEF Table!vars, Requests, CellOf
<1> QED
    BY <1>1, <1>2, <1>3, <1>4, <1>5, <1>6, <1>7, <1>8, <1>9, <1>10, <1>11 DEF Next, AllocChannel

\* Recycled cells, three kinds of linked lists and the id map together are a
\* table of requests under numbers that are never used twice.
THEOREM PoolIsTable == ASSUME NoWrap PROVE Spec => ImplementsTable
<1>1. PoolInv /\ PoolInv' /\ [Next]_vars => [Table!Next]_(Table!vars)
    BY TableStep
<1> QED
    BY TableInit, PoolHolds, <1>1, PTL DEF Spec, ImplementsTable, Table!Spec
=============================================================================
