-------------------------- MODULE ChannelPoolSpec --------------------------
(***************************************************************************)
(* What ChannelPool (common/net/channelpool.cc) promises to ClientSession:  *)
(* a table of outstanding requests keyed by a request number that is never  *)
(* used twice.  Clusters, recycled cells and linked lists do not appear;    *)
(* ChannelPool is shown to implement this specification.                    *)
(*                                                                         *)
(* A request is "pending" while a reply can still find it, and "taken" once *)
(* a reply or a timeout has claimed it and its handler is being run.        *)
(***************************************************************************)
EXTENDS Naturals

CONSTANTS MaxFetch,   \* bound: request numbers ever drawn from the counter
          MaxTime     \* QYNET_MAX_TIME; real deadlines are below it

Sessions == 1 .. MaxFetch
NoArgs == 0                     \* args_ == NULL
Never == MaxTime + 1            \* deadline of a request that was not sent yet

VARIABLES fetched,   \* the last request number drawn, by this or another pool
          table      \* the live requests: number -> deadline, args, taken

vars == <<fetched, table>>

Entries == [expire : 0 .. Never, args : 0 .. MaxFetch, taken : BOOLEAN]

TypeOK == /\ fetched \in 0 .. MaxFetch
          /\ DOMAIN table \in SUBSET Sessions
          /\ table \in [DOMAIN table -> Entries]

Pending == {s \in DOMAIN table : ~ table[s].taken}
Taken == {s \in DOMAIN table : table[s].taken}

\* The table without the requests S.
Without(S) == [s \in DOMAIN table \ S |-> table[s]]

\* The table with the requests S claimed by whoever runs their handlers.
Claim(S) == [s \in DOMAIN table |->
                [table[s] EXCEPT !.taken = (s \in S) \/ @]]

\* Requests that GetTimeoutList takes: the oldest ones, up to the first
\* request whose deadline has not passed.
Overdue(now) == {s \in Pending : \A r \in Pending :
                                    r <= s => table[r].expire < now}

-----------------------------------------------------------------------------

Init == fetched = 0 /\ table = [s \in {} |-> s]

\* Faulty variant: the channel keeps the deadline 0 of its constructor.
AllocWithoutDeadline ==
    /\ fetched < MaxFetch
    /\ fetched' = fetched + 1
    /\ table' = [s \in DOMAIN table \cup {fetched + 1} |->
                    IF s \in DOMAIN table THEN table[s]
                    ELSE [expire |-> 0, args |-> NoArgs, taken |-> FALSE]]

AllocChannel ==
    /\ fetched < MaxFetch
    /\ fetched' = fetched + 1
    /\ table' = [s \in DOMAIN table \cup {fetched + 1} |->
                    IF s \in DOMAIN table THEN table[s]
                    ELSE [expire |-> Never, args |-> NoArgs, taken |-> FALSE]]

OtherPoolAlloc == fetched < MaxFetch /\ fetched' = fetched + 1 /\ UNCHANGED table

SetArgs(s, a) ==
    /\ s \in DOMAIN table
    /\ a = IF table[s].taken THEN NoArgs ELSE s
    /\ table' = [table EXCEPT ![s].args = a]
    /\ UNCHANGED fetched

SetExpireTime(s, t) ==
    /\ s \in Pending
    /\ table' = [table EXCEPT ![s].expire = t]
    /\ UNCHANGED fetched

OfferChannel(s) == s \in Pending /\ table' = Claim({s}) /\ UNCHANGED fetched

GetTimeoutList(now) == table' = Claim(Overdue(now)) /\ UNCHANGED fetched

\* AppendChannel gives back one claimed request, AppendFreeList a list of them.
Recycle(S) == S \subseteq Taken /\ table' = Without(S) /\ UNCHANGED fetched

\* A request that is not pending is left alone.
FreeChannel(s) == table' = Without({s} \cap Pending) /\ UNCHANGED fetched

Next == \/ AllocChannel
        \/ OtherPoolAlloc
        \/ \E s \in DOMAIN table, a \in 0 .. MaxFetch : SetArgs(s, a)
        \/ \E s \in DOMAIN table, t \in 1 .. MaxTime - 1 : SetExpireTime(s, t)
        \/ \E s \in DOMAIN table : OfferChannel(s) \/ FreeChannel(s)
        \/ \E now \in 1 .. MaxTime : GetTimeoutList(now)
        \/ \E S \in SUBSET DOMAIN table : Recycle(S)

Spec == Init /\ [][Next]_vars
=============================================================================
