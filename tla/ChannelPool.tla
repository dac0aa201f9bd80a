---------------------------- MODULE ChannelPool ----------------------------
(***************************************************************************)
(* ChannelPool of common/net/channelpool.cc, pointer by pointer: clusters   *)
(* of Channel cells, the free list, the list of used channels in the order  *)
(* of their allocation, the map from channel id to used channel, and the    *)
(* process-wide id counter that all pools share.  Every method runs under   *)
(* the pool's mutex_ and is one action.                                     *)
(*                                                                         *)
(* A Channel* is a cell number, NULL is 0.  born, place and lists are       *)
(* history variables: the request a cell was last allocated for, who has    *)
(* the cell, and the heads of the lists GetTimeoutList returned that were   *)
(* not given back yet.                                                      *)
(***************************************************************************)
EXTENDS Naturals, FiniteSets

CONSTANTS MaxCells,      \* bound: Channel cells that may be allocated
          ClusterSize,   \* CHANNEL_CLUSTER_SIZE
          IdSpace,       \* 2^28: ids are masked with 0x0FFFFFFF
          MaxFetch,      \* bound: fetch_add calls on globalChannelId_
          MaxTime        \* QYNET_MAX_TIME; real deadlines are below it

ASSUME PoolBounds == /\ MaxCells \in Nat /\ MaxFetch \in Nat /\ MaxTime \in Nat
                     /\ ClusterSize \in Nat /\ ClusterSize > 2
                     /\ IdSpace \in Nat /\ IdSpace > 1

NULL == 0
Cells == 1 .. MaxCells
Ids == 0 .. IdSpace - 1
WordSize == 16 * IdSpace        \* uint32_t holds 2^32 values
Never == MaxTime + 1            \* expireTime_ of a channel not sent yet

VARIABLES total,          \* globalTotalCount_, for this pool's clusters
          freeListHead, freeListTail, useListHead, useListTail,
          prev, next,     \* Channel::prev_, Channel::next_
          id,             \* Channel::id_
          expire,         \* Channel::expireTime_
          args,           \* Channel::args_ and handler_: the request they serve
          useMap,         \* useMap_: NULL where there is no entry
          counter,        \* globalChannelId_
          fetched,        \* history: how often the counter was drawn from
          born,           \* history: the request a cell was allocated for
          place,          \* history: pool, used, offered or timedout
          lists           \* history: heads of timeout lists still out

links == <<freeListHead, freeListTail, useListHead, useListTail, prev, next>>
fields == <<id, expire, args>>
draws == <<counter, fetched>>
vars == <<total, links, fields, useMap, draws, born, place, lists>>

Places == {"pool", "used", "offered", "timedout"}

TypeOK ==
    /\ total \in 0 .. MaxCells
    /\ {freeListHead, freeListTail, useListHead, useListTail}
          \subseteq Cells \cup {NULL}
    /\ prev \in [Cells -> Cells \cup {NULL}]
    /\ next \in [Cells -> Cells \cup {NULL}]
    /\ id \in [Cells -> Ids]
    /\ expire \in [Cells -> 0 .. Never]
    /\ args \in [Cells -> 0 .. MaxFetch]
    /\ useMap \in [Ids -> Cells \cup {NULL}]
    /\ counter \in 0 .. WordSize - 1
    /\ fetched \in 0 .. MaxFetch
    /\ born \in [Cells -> 0 .. MaxFetch]
    /\ place \in [Cells -> Places]
    /\ lists \in SUBSET Cells

Used == {c \in Cells : place[c] = "used"}

\* The cells a walk along next_ visits from h while it stays inside go: the
\* least set that has h and is closed under next.
Walk(h, go) ==
    {c \in go : \A S \in SUBSET go :
        /\ h \in go => h \in S
        /\ \A d \in S : next[d] \in go => next[d] \in S
        => c \in S}

\* All the cells of the list that starts at h.
Reach(h) == Walk(h, 1 .. total)

\* Faulty variant: the test for NULL before the assignment is missing.
PutUnchecked(f, c, v) == [d \in Cells \cup {c} |-> IF d = c THEN v ELSE f[d]]

\* Assigning v to one pointer field of the cell c; nothing when c is NULL.
Put(f, c, v) == [d \in Cells |-> IF d = c THEN v ELSE f[d]]

-----------------------------------------------------------------------------

Init == /\ total = 0
        /\ freeListHead = NULL /\ freeListTail = NULL
        /\ useListHead = NULL /\ useListTail = NULL
        /\ prev = [c \in Cells |-> NULL] /\ next = [c \in Cells |-> NULL]
        /\ id = [c \in Cells |-> 0]     \* not initialised, not read before set
        /\ expire = [c \in Cells |-> 0]
        /\ args = [c \in Cells |-> 0]
        /\ useMap = [i \in Ids |-> NULL]
        /\ counter = 1
        /\ fetched = 0
        /\ born = [c \in Cells |-> 0]
        /\ place = [c \in Cells |-> "pool"]
        /\ lists = {}

\* Faulty variant: a mask that is too narrow.
DrawnNarrow == IF counter % 3 = 0 THEN 1 ELSE counter % 3

\* fetch_add, the 28-bit mask, and the reset when the masked value is 0.
Drawn == IF counter % IdSpace = 0 THEN 1 ELSE counter % IdSpace

Draw == /\ fetched < MaxFetch
        /\ fetched' = fetched + 1
        /\ counter' = IF counter % IdSpace = 0 THEN 1
                      ELSE (counter + 1) % WordSize

\* The second half of AllocChannel: cell c, already off the free list whose
\* links are now pv and nx, goes to the tail of the use list under a new id.
Enlist(c, pv, nx) ==
    /\ Draw
    /\ prev' = Put(pv, c, useListTail)
    /\ next' = Put(Put(nx, c, NULL), useListTail, c)
    /\ useListHead' = IF useListTail = NULL THEN c ELSE useListHead
    /\ useListTail' = c
    /\ expire' = [expire EXCEPT ![c] = Never]
    /\ id' = [id EXCEPT ![c] = Drawn]
    /\ args' = [args EXCEPT ![c] = 0]
    /\ useMap' = [useMap EXCEPT ![Drawn] = c]
    /\ born' = [born EXCEPT ![c] = fetched']
    /\ place' = [place EXCEPT ![c] = "used"]
    /\ UNCHANGED lists

\* AllocChannel with an empty free list: the first cell of a new cluster is
\* handed out, the others are linked into the free list.
AllocFromCluster ==
    /\ freeListHead = NULL
    /\ total + ClusterSize <= MaxCells
    /\ total' = total + ClusterSize
    /\ freeListHead' = total + 2
    /\ freeListTail' = total + ClusterSize
    /\ LET spare == total + 2 .. total + ClusterSize
       IN  Enlist(total + 1,
                  [c \in Cells |-> IF c \in spare
                                   THEN IF c = total + 2 THEN NULL ELSE c - 1
                                   ELSE prev[c]],
                  [c \in Cells |-> IF c \in spare
                                   THEN IF c = total + ClusterSize THEN NULL
                                        ELSE c + 1
                                   ELSE next[c]])

\* Faulty variant: the tail is not reset when the free list becomes empty.
AllocKeepsTail ==
    /\ freeListHead # NULL
    /\ freeListHead' = next[freeListHead]
    /\ Enlist(freeListHead, Put(prev, freeListHead', NULL), next)
    /\ UNCHANGED <<total, freeListTail>>

\* AllocChannel with a free channel at hand.
AllocFromFreeList ==
    /\ freeListHead # NULL
    /\ freeListHead' = next[freeListHead]
    /\ freeListTail' = IF freeListHead' = NULL THEN NULL ELSE freeListTail
    /\ Enlist(freeListHead, Put(prev, freeListHead', NULL), next)
    /\ UNCHANGED total

AllocChannel == AllocFromCluster \/ AllocFromFreeList

\* Another ClientSession's pool allocates: only the shared counter moves.
OtherPoolAlloc ==
    Draw /\ UNCHANGED <<total, links, fields, useMap, born, place, lists>>

\* Faulty variant: the predecessor still points at the cell.
UnlinkedHalf(c) == next

\* Taking cell c out of the use list, as FreeChannel and OfferChannel do.
UnlinkedPrev(c) == Put(prev, next[c], prev[c])
UnlinkedNext(c) == Put(next, prev[c], next[c])
UnlinkEnds(c) ==
    /\ useListHead' = IF c = useListHead THEN next[c] ELSE useListHead
    /\ useListTail' = IF c = useListTail THEN prev[c] ELSE useListTail

\* Putting cell c at the tail of the free list whose other links are pv, nx,
\* as FreeChannel and AppendChannel do.
PushFree(c, pv, nx) ==
    /\ prev' = Put(pv, c, freeListTail)
    /\ next' = Put(Put(nx, c, NULL), freeListTail, c)
    /\ freeListHead' = IF freeListTail = NULL THEN c ELSE freeListHead
    /\ freeListTail' = c
    /\ id' = [id EXCEPT ![c] = 0]
    /\ args' = [args EXCEPT ![c] = 0]
    /\ place' = [place EXCEPT ![c] = "pool"]

\* A channel that is not in the map is left alone: the early return.
FreeChannel(c) ==
    /\ place[c] # "pool"
    /\ useMap[id[c]] # NULL
    /\ useMap' = [useMap EXCEPT ![id[c]] = NULL]
    /\ UnlinkEnds(c)
    /\ PushFree(c, UnlinkedPrev(c), UnlinkedNext(c))
    /\ UNCHANGED <<total, expire, draws, born, lists>>

AppendChannel(c) ==
    /\ place[c] = "offered"
    /\ PushFree(c, prev, next)
    /\ UNCHANGED <<total, useListHead, useListTail, expire, useMap, draws,
                   born, lists>>

\* An id that is not in the map gives NULL and changes nothing.
OfferChannel(i) ==
    /\ useMap[i] # NULL
    /\ LET c == useMap[i]
       IN  /\ UnlinkEnds(c)
           /\ prev' = Put(UnlinkedPrev(c), c, NULL)
           /\ next' = Put(UnlinkedNext(c), c, NULL)
           /\ place' = [place EXCEPT ![c] = "offered"]
    /\ useMap' = [useMap EXCEPT ![i] = NULL]
    /\ UNCHANGED <<total, freeListHead, freeListTail, fields, draws, born, lists>>

\* Faulty variant: the walk does not stop at a channel that has not expired.
ExpiredOrNot(now) == Walk(useListHead, 1 .. total)

\* The channels GetTimeoutList passes over before it stops.
Expired(now) == Walk(useListHead, {c \in 1 .. total : expire[c] < now})

\* Faulty variant: the expired part stays linked to the rest of the list.
CutNothing(stop) == next

\* The list of expired channels ends before stop.
CutBefore(stop) ==
    [c \in Cells |-> IF stop # NULL /\ c = prev[stop] THEN NULL ELSE next[c]]

\* stop is the channel at which the walk ended, or NULL.
GetTimeoutList(now) ==
    LET gone == Expired(now)
    IN  \E stop \in {next[c] : c \in gone} \ gone :
        /\ useMap' = [i \in Ids |-> IF \E c \in gone : id[c] = i
                                    THEN NULL ELSE useMap[i]]
        /\ useListHead' = stop
        /\ useListTail' = IF stop = NULL THEN NULL ELSE useListTail
        /\ next' = CutBefore(stop)
        /\ prev' = Put(prev, stop, NULL)
        /\ place' = [c \in Cells |-> IF c \in gone THEN "timedout" ELSE place[c]]
        /\ lists' = lists \cup {useListHead}
        /\ UNCHANGED <<total, freeListHead, freeListTail, fields, draws, born>>

\* tail has run off the end of the list when it is stored in freeListTail_.
AppendFreeList(addList) ==
    LET batch == Reach(addList)
    IN  /\ addList \in lists
        /\ id' = [c \in Cells |-> IF c \in batch THEN 0 ELSE id[c]]
        /\ args' = [c \in Cells |-> IF c \in batch THEN 0 ELSE args[c]]
        /\ prev' = Put(prev, addList, freeListTail)
        /\ next' = Put(next, freeListTail, addList)
        /\ freeListHead' = IF freeListTail = NULL THEN addList ELSE freeListHead
        /\ freeListTail' = NULL
        /\ place' = [c \in Cells |-> IF c \in batch THEN "pool" ELSE place[c]]
        /\ lists' = lists \ {addList}
        /\ UNCHANGED <<total, useListHead, useListTail, expire, useMap, draws, born>>

SetExpireTime(c, t) ==
    /\ place[c] = "used"
    /\ expire' = [expire EXCEPT ![c] = t]
    /\ UNCHANGED <<total, links, id, args, useMap, draws, born, place, lists>>

\* The poster stores handler and args of its request; whoever ran the handler
\* of a claimed channel stores NULL.
SetArgs(c) ==
    /\ place[c] # "pool"
    /\ args' = [args EXCEPT ![c] = IF place[c] = "used" THEN born[c] ELSE 0]
    /\ UNCHANGED <<total, links, id, expire, useMap, draws, born, place, lists>>

Next == \/ AllocChannel
        \/ OtherPoolAlloc
        \/ \E c \in Cells : FreeChannel(c) \/ AppendChannel(c) \/ SetArgs(c)
        \/ \E c \in Cells, t \in 1 .. MaxTime - 1 : SetExpireTime(c, t)
        \/ \E i \in Ids : OfferChannel(i)
        \/ \E now \in 1 .. MaxTime : GetTimeoutList(now)
        \/ \E c \in Cells : AppendFreeList(c)

Spec == Init /\ [][Next]_vars

-----------------------------------------------------------------------------

\* The use list is one doubly linked list: it starts at useListHead_, ends at
\* useListTail_, its prev_ and next_ agree, it is in allocation order (what
\* GetTimeoutList relies on), and it holds exactly the channels of useMap_.
UseListMatchesMap ==
    /\ Reach(useListHead) = Used
    /\ Used = {useMap[i] : i \in Ids} \ {NULL}
    /\ useListHead = NULL <=> useListTail = NULL
    /\ \A c \in Used :
          /\ prev[c] = NULL <=> c = useListHead
          /\ next[c] = NULL <=> c = useListTail
          /\ next[c] # NULL => prev[next[c]] = c /\ born[c] < born[next[c]]

\* OfferChannel(i) can only return the channel of the request that was sent
\* with id i, carrying that request's own args.
ReplyFindsItsRequest ==
    \A i \in Ids : useMap[i] # NULL =>
        /\ id[useMap[i]] = i
        /\ \A c \in Used : id[c] = i => c = useMap[i]
        /\ args[useMap[i]] \in {0, born[useMap[i]]}

\* AllocChannel never hands out a channel that somebody still has: only
\* channels given back are on the free list, and appending at freeListTail_
\* extends that list rather than another one.
FreeListHasNoLiveChannel ==
    /\ \A c \in Reach(freeListHead) : c <= total /\ place[c] = "pool"
    /\ freeListTail # NULL => /\ freeListTail \in Reach(freeListHead)
                              /\ next[freeListTail] = NULL

\* CheckTimeout walks the list it was given without the pool's lock: no other
\* call changes such a list, and two callers never share a channel.
TimeoutListsStayIntact ==
    /\ \A l \in lists : \A c \in Reach(l) : place[c] = "timedout"
    /\ \A l, m \in lists : l # m => Reach(l) \cap Reach(m) = {}
    /\ \A c \in Cells : place[c] = "timedout" => \E l \in lists : c \in Reach(l)

\* An id that left useMap_ never comes back: a late or repeated reply finds no
\* channel, so it cannot reach the handler of a newer request.
SpentIdStaysSpent ==
    [][\A i \in Ids : i <= fetched /\ useMap[i] = NULL => useMap'[i] = NULL]_vars

\* Every channel that was given back can be allocated again.
NoChannelLost ==
    \A c \in 1 .. total : place[c] = "pool" => c \in Reach(freeListHead)

\* The pool as the table of requests it promises to be, keyed by channel id.
Live == {c \in Cells : place[c] # "pool"}
CellOf(i) == CHOOSE c \in Live : id[c] = i
Requests == [i \in {id[c] : c \in Live} |->
                [expire |-> expire[CellOf(i)],
                 args |-> args[CellOf(i)],
                 taken |-> place[CellOf(i)] # "used"]]
Table == INSTANCE ChannelPoolSpec WITH table <- Requests

\* Recycled cells, linked lists and the id map together implement the table of
\* requests of ChannelPoolSpec.
ImplementsTable == Table!Spec
=============================================================================
