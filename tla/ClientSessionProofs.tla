------------------------ MODULE ClientSessionProofs ------------------------
(***************************************************************************)
(* Proofs about ClientSession, for any threads, any bounds and any limits.  *)
(*                                                                         *)
(* The argument follows who owns a request.  From AllocChannel until it is  *)
(* sent, a request is with exactly one of: its poster, outputQueue_, a      *)
(* timed-out packet list.  All that time its channel is pending, without a  *)
(* deadline, so that neither a timeout nor a reply can claim it.  Once sent *)
(* it has a deadline, and one reply or one timeout claims it under the      *)
(* pool's lock.                                                             *)
(***************************************************************************)
EXTENDS ClientSession, TLAPS

\* Request s is pending, has no deadline yet and carries its own args.
Kept(s) == s \in Pool!Pending /\ table[s].expire = Pool!Never /\ table[s].args = s

\* Poster p has a request that it neither queued nor sent yet.
Holds(p) == pc[p] \in {"args", "lock", "encode"}

\* The frames that were encoded and may still reach the peer, or have.
Frames == output \cup posted \cup wire

\* Request numbers are handed out in order; calls of later ones are still to
\* come.
NumbersInv ==
    /\ \A s \in DOMAIN table : s <= fetched
    /\ \A s \in Sessions : s > fetched => calls[s] = 0
    /\ \A s \in Frames : s <= fetched

\* A request that was not sent is pending, without a deadline.
PosterInv ==
    \A p \in Posters : Holds(p) =>
        /\ req[p] \in Pool!Pending /\ table[req[p]].expire = Pool!Never
        /\ pc[p] # "args" => table[req[p]].args = req[p]
        /\ \A q \in Posters : Holds(q) /\ req[q] = req[p] => q = p

\* No request occurs twice in q.
Distinct(q) == \A i, j \in DOMAIN q : q[i] = q[j] => i = j

\* So is a request in outputQueue_, and no poster has it as well.
QueueInv ==
    /\ Distinct(queue)
    /\ \A s \in Elems(queue) :
          Kept(s) /\ \A p \in Posters : Holds(p) => req[p] # s

\* And so is one on a list of timed-out packets; no two lists share one.
PacketsInv ==
    \A k \in Checkers :
        /\ Distinct(packets[k])
        /\ \A s \in Elems(packets[k]) :
              /\ Kept(s) /\ s \notin Elems(queue)
              /\ \A p \in Posters : Holds(p) => req[p] # s
              /\ \A m \in Checkers : s \in Elems(packets[m]) => m = k

\* A frame is only sent for a request whose deadline is set.
SentInv ==
    \A s \in Frames :
        s \in DOMAIN table => table[s].expire # Pool!Never

\* A request that can be claimed carries its own args.
ArmedInv == \A s \in Pool!Pending : table[s].expire # Pool!Never => table[s].args = s

\* Claimed requests have one claimant, which has called the handler of those
\* whose args are gone.
ClaimInv ==
    /\ \A k \in Checkers : \A s \in claimed[k] :
          /\ s \in Pool!Taken
          /\ table[s].args = IF calls[s] = 0 THEN s ELSE 0
          /\ \A m \in Checkers : s \in claimed[m] => m = k
          /\ loop = "handle" => s # handled
    /\ loop = "handle" => handled \in Pool!Taken /\ table[handled].args = handled

\* A handler that was called belongs to a request that is claimed or gone.
CallsInv == \A s \in Sessions : calls[s] <= 1 /\ (s \in Pool!Pending => calls[s] = 0)

\* A post that will still stamp its packet leaves room for the deadline.
StampInv ==
    \A p \in Posters : pc[p] \in {"check", "limit", "stamp"} =>
        clock + QueueTimeout < MaxClock

\* mutex_ belongs to the thread that encodes or drains, and a queue that is
\* being drained has a packet left.
LockInv ==
    /\ \A p \in Posters : pc[p] = "encode" => mutex = p
    /\ loop = "draining" => mutex = Loop /\ queue # <<>>
    /\ pc[Loop] # "idle" => loop \in LoopPosts \cup {"stuck"}

\* A poster past AllocChannel has a request number.
ReqInv == \A p \in Posters : Holds(p) => req[p] \in Sessions

\* The part of the inductive invariant that types need.
TypeInv == TypeOK /\ StampInv /\ LockInv /\ ReqInv

\* The part that says who owns which request.
OwnInv == /\ NumbersInv /\ PosterInv /\ QueueInv /\ PacketsInv
          /\ SentInv /\ ArmedInv /\ ClaimInv /\ CallsInv

\* The inductive invariant.
Inv == TypeInv /\ OwnInv

-----------------------------------------------------------------------------
(* What the operations of the pool do to the table, entry by entry. *)

\* AllocChannel adds an entry without a deadline and leaves the others alone.
LEMMA AllocFacts ==
    ASSUME Pool!TypeOK, Pool!AllocChannel
    PROVE  /\ Pool!TypeOK'
           /\ fetched' = fetched + 1 /\ fetched' \in Sessions
           /\ DOMAIN table' = DOMAIN table \cup {fetched'}
           /\ \A s \in DOMAIN table : table'[s] = table[s]
           /\ fetched' \notin DOMAIN table =>
                 table'[fetched'] = [expire |-> Pool!Never, args |-> 0, taken |-> FALSE]
BY SessionBounds DEF Pool!TypeOK, Pool!AllocChannel, Pool!Sessions, Sessions,
   Pool!Entries, Pool!Never, Pool!NoArgs

\* SetArgs changes the args of one entry.
LEMMA SetArgsFacts ==
    ASSUME Pool!TypeOK, NEW s \in Sessions, NEW a \in 0 .. MaxFetch, Pool!SetArgs(s, a)
    PROVE  /\ Pool!TypeOK' /\ fetched' = fetched
           /\ DOMAIN table' = DOMAIN table /\ s \in DOMAIN table
           /\ \A r \in DOMAIN table : r # s => table'[r] = table[r]
           /\ table'[s].args = a
           /\ table'[s].expire = table[s].expire /\ table'[s].taken = table[s].taken
BY SessionBounds DEF Pool!TypeOK, Pool!SetArgs, Pool!Sessions, Sessions,
   Pool!Entries, Pool!Never, Pool!NoArgs

\* SetExpireTime changes the deadline of one pending entry.
LEMMA SetExpireFacts ==
    ASSUME Pool!TypeOK, NEW s \in Sessions, NEW t \in 0 .. MaxClock, Pool!SetExpireTime(s, t)
    PROVE  /\ Pool!TypeOK' /\ fetched' = fetched
           /\ DOMAIN table' = DOMAIN table /\ s \in DOMAIN table /\ ~ table[s].taken
           /\ \A r \in DOMAIN table : r # s => table'[r] = table[r]
           /\ table'[s].expire = t /\ t # Pool!Never
           /\ table'[s].args = table[s].args /\ table'[s].taken = table[s].taken
BY SessionBounds DEF Pool!TypeOK, Pool!SetExpireTime, Pool!Sessions, Sessions,
   Pool!Entries, Pool!Never, Pool!Pending, MaxClock

\* OfferChannel and GetTimeoutList mark entries as taken, nothing else.
LEMMA ClaimFacts ==
    ASSUME Pool!TypeOK, NEW S, table' = Pool!Claim(S), fetched' = fetched
    PROVE  /\ Pool!TypeOK'
           /\ DOMAIN table' = DOMAIN table
           /\ \A s \in DOMAIN table :
                 /\ table'[s].expire = table[s].expire /\ table'[s].args = table[s].args
                 /\ table'[s].taken = (s \in S \/ table[s].taken)
BY DEF Pool!TypeOK, Pool!Claim, Pool!Sessions, Sessions, Pool!Entries

\* Recycle and FreeChannel take entries out of the table.
LEMMA WithoutFacts ==
    ASSUME Pool!TypeOK, NEW S, table' = Pool!Without(S), fetched' = fetched
    PROVE  /\ Pool!TypeOK'
           /\ DOMAIN table' = DOMAIN table \ S
           /\ \A s \in DOMAIN table \ S : table'[s] = table[s]
BY DEF Pool!TypeOK, Pool!Without, Pool!Sessions, Sessions, Pool!Entries

-----------------------------------------------------------------------------
(* Sequences *)

\* Append adds one element at the end.
LEMMA AppendFacts ==
    ASSUME NEW S, NEW q \in Seq(S), NEW e \in S
    PROVE  /\ Append(q, e) # <<>>
           /\ Elems(Append(q, e)) = Elems(q) \cup {e}
           /\ Distinct(q) /\ e \notin Elems(q) => Distinct(Append(q, e))
<1>1. /\ Len(Append(q, e)) = Len(q) + 1 /\ Len(q) \in Nat
      /\ DOMAIN q = 1 .. Len(q) /\ DOMAIN Append(q, e) = 1 .. Len(q) + 1
      /\ \A i \in 1 .. Len(q) : Append(q, e)[i] = q[i]
      /\ Append(q, e)[Len(q) + 1] = e
    OBVIOUS
<1>2. Len(<<>>) = 0
    OBVIOUS
<1>3. Elems(Append(q, e)) = Elems(q) \cup {e}
    BY <1>1 DEF Elems
<1>4. ASSUME Distinct(q), e \notin Elems(q) PROVE Distinct(Append(q, e))
    BY <1>1, <1>4 DEF Distinct, Elems
<1> QED
    BY <1>1, <1>2, <1>3, <1>4

\* Head and Tail split a sequence.
LEMMA TailFacts ==
    ASSUME NEW S, NEW q \in Seq(S), q # <<>>
    PROVE  /\ Head(q) \in Elems(q) /\ Elems(Tail(q)) \subseteq Elems(q)
           /\ Distinct(q) => Distinct(Tail(q)) /\ Head(q) \notin Elems(Tail(q))
<1>1. /\ Len(q) \in Nat \ {0} /\ DOMAIN q = 1 .. Len(q) /\ Head(q) = q[1]
      /\ DOMAIN Tail(q) = 1 .. Len(q) - 1
      /\ \A i \in 1 .. Len(q) - 1 : Tail(q)[i] = q[i + 1]
    OBVIOUS
<1> QED
    BY <1>1 DEF Elems, Distinct

\* So do two SubSeqs at n.
LEMMA SplitFacts ==
    ASSUME NEW S, NEW q \in Seq(S), NEW n \in 0 .. Len(q), Distinct(q)
    PROVE  LET front == SubSeq(q, 1, n)
               rest == SubSeq(q, n + 1, Len(q))
           IN  /\ Distinct(front) /\ Distinct(rest)
               /\ Elems(front) \subseteq Elems(q) /\ Elems(rest) \subseteq Elems(q)
               /\ Elems(front) \cap Elems(rest) = {}
<1> DEFINE front == SubSeq(q, 1, n)
           rest == SubSeq(q, n + 1, Len(q))
<1>1. /\ Len(q) \in Nat /\ n \in Nat /\ n <= Len(q) /\ DOMAIN q = 1 .. Len(q)
      /\ DOMAIN front = 1 .. n /\ DOMAIN rest = 1 .. Len(q) - n
      /\ \A i \in 1 .. n : front[i] = q[i]
      /\ \A i \in 1 .. Len(q) - n : rest[i] = q[n + i]
    OBVIOUS
<1> HIDE DEF front, rest
<1>2. Distinct(front) /\ Distinct(rest)
  <2>1. ASSUME NEW i \in DOMAIN front, NEW j \in DOMAIN front, front[i] = front[j]
        PROVE  i = j
    <3>1. i \in DOMAIN q /\ j \in DOMAIN q /\ q[i] = q[j]
        BY <1>1, <2>1
    <3> QED
        BY <3>1 DEF Distinct
  <2>2. ASSUME NEW i \in DOMAIN rest, NEW j \in DOMAIN rest, rest[i] = rest[j]
        PROVE  i = j
    <3>1. /\ n + i \in DOMAIN q /\ n + j \in DOMAIN q /\ q[n + i] = q[n + j]
          /\ n + i = n + j => i = j
        BY <1>1, <2>2
    <3> QED
        BY <3>1 DEF Distinct
  <2> QED
      BY <2>1, <2>2 DEF Distinct
<1>3. Elems(front) \subseteq Elems(q) /\ Elems(rest) \subseteq Elems(q)
    BY <1>1 DEF Elems
<1>4. Elems(front) \cap Elems(rest) = {}
  <2> SUFFICES ASSUME NEW i \in DOMAIN front, NEW j \in DOMAIN rest, front[i] = rest[j]
               PROVE  FALSE
      BY DEF Elems
  <2>1. i \in DOMAIN q /\ n + j \in DOMAIN q /\ i # n + j
      BY <1>1
  <2>2. q[i] = q[n + j]
      BY <1>1
  <2> QED
      BY <2>1, <2>2 DEF Distinct
<1> QED
    BY <1>2, <1>3, <1>4 DEF front, rest

-----------------------------------------------------------------------------
(* Types, and who holds mutex_. *)

\* The variables start with their types and mutex_ free.
LEMMA TypeInvInit == Init => TypeInv
<1> SUFFICES ASSUME Init PROVE TypeInv
    OBVIOUS
<1>1. Pool!TypeOK
    BY SessionBounds DEF Init, Pool!Init, Pool!TypeOK, Pool!Sessions, Pool!Entries
<1>2. TypeOK
  <2>1. 0 \in 0 .. MaxClock /\ 0 \in 0 .. MaxTime /\ 0 \in 0 .. MaxFetch
        /\ 0 \in 0 .. MaxConns
      BY SessionBounds DEF MaxClock
  <2>2. blocking \in [Posters -> BOOLEAN]
      BY Zenon DEF Init
  <2>3. packets \in [Checkers -> Seq(Sessions)] /\ queue \in Seq(Sessions)
      BY DEF Init
  <2> QED
      BY <1>1, <2>1, <2>2, <2>3 DEF Init, TypeOK, PostSteps, CheckSteps, LoopSteps
<1>3. StampInv
    BY DEF Init, StampInv
<1>4. LockInv
    BY DEF Init, LockInv, Posters
<1>5. ReqInv
    BY DEF Init, ReqInv, Holds
<1> QED
    BY <1>2, <1>3, <1>4, <1>5 DEF TypeInv

\* What a Send in the loop's thread can do, whichever way it ends.
LEMMA SendInLoopFacts ==
    ASSUME TypeOK, NEW out \in SUBSET Sessions, NEW q, NEW then \in LoopSteps,
           SendInLoop(out, q, then)
    PROVE  /\ link' \in {"down", "up", "closing"} /\ dialing' \in {"no", "trying", "backoff"}
           /\ autoReconnect' = autoReconnect /\ conns' = conns /\ asked' = asked
           /\ shutting' \in BOOLEAN
           /\ loop' \in {then, "stuck"}
           /\ output' \in SUBSET out /\ posted' \in SUBSET posted
           /\ wire' \in SUBSET (wire \cup out)
           /\ cpc' \in [Checkers -> CheckSteps]
           /\ loop' # "stuck" => cpc' = cpc
<1>1. CASE IsConnected /\ LostInSend(out, q, then)
  <2>1. CASE ConnGone /\ output' = {} /\ loop' = then /\ UNCHANGED cpc
      BY <2>1 DEF TypeOK, ConnGone
  <2>2. CASE /\ cpc' = cpc \/ \E k \in LoopClosers : cpc' = [cpc EXCEPT ![k] = "flush"]
             /\ link' = "closing" /\ output' = out /\ loop' = "stuck"
             /\ UNCHANGED <<autoReconnect, dialing, conns, posted, wire, asked, shutting>>
    <3>1. cpc' \in [Checkers -> CheckSteps]
        BY <2>2 DEF TypeOK, CheckSteps
    <3> QED
        BY <2>2, <3>1 DEF TypeOK
  <2> QED
      BY <1>1, <2>1, <2>2, Zenon DEF LostInSend
<1>2. CASE ~ (IsConnected /\ LostInSend(out, q, then))
    BY <1>2 DEF TypeOK, SendInLoop, client
<1> QED
    BY <1>1, <1>2

\* Every step keeps the types, and only the holder of mutex_ encodes or drains.
LEMMA TypeInvStep == TypeInv /\ [Next]_vars => TypeInv'
<1> SUFFICES ASSUME TypeInv, [Next]_vars PROVE TypeInv'
    OBVIOUS
<1> USE DEF TypeInv, TypeOK, StampInv, LockInv, ReqInv, Holds, Posters, pool, shared, client,
        thread, times, post, check
<1>1. ASSUME NEW p \in Posters, PostBegin(p) PROVE TypeInv'
    BY <1>1, SessionBounds, ZenonT(30) DEF PostBegin, Goto, PostSteps, Pool!TypeOK
<1>2. ASSUME NEW p \in Posters, PostCheck(p) PROVE TypeInv'
    BY <1>2, SMTT(30) DEF PostCheck, Goto, PostSteps, Pool!TypeOK
<1>3. ASSUME NEW p \in Posters, PostLimit(p) PROVE TypeInv'
    BY <1>3 DEF PostLimit, Goto, PostSteps, Pool!TypeOK
<1>4. ASSUME NEW p \in Posters, PostStamp(p) PROVE TypeInv'
  <2>1. clock + QueueTimeout \in 0 .. MaxClock
      BY <1>4, SessionBounds DEF PostStamp, MaxClock
  <2> QED
      BY <1>4, <2>1, SMTT(30) DEF PostStamp, Goto, PostSteps, Pool!TypeOK
<1>5. ASSUME NEW p \in Posters, PostAlloc(p) PROVE TypeInv'
  <2>1. Pool!TypeOK' /\ fetched' \in Sessions
      BY <1>5, AllocFacts DEF PostAlloc
  <2>2. fetched' \in 0 .. MaxFetch
      BY <2>1 DEF Sessions
  <2> QED
      BY <1>5, <2>1, <2>2, SMTT(30) DEF PostAlloc, Goto, PostSteps
<1>6. ASSUME NEW p \in Posters, PostArgs(p) PROVE TypeInv'
  <2>1. Pool!TypeOK'
      BY <1>6, SetArgsFacts DEF PostArgs
  <2> QED
      BY <1>6, <2>1 DEF PostArgs, Goto, PostSteps
<1>7. ASSUME NEW p \in Posters, PostLock(p) PROVE TypeInv'
  <2>1. CASE IsConnected
    <3>1. \A q \in Posters : pc[q] # "encode" /\ loop # "draining"
        BY <1>7, ThreadNames DEF PostLock
    <3>2. TypeOK'
        BY <1>7, <2>1 DEF PostLock, Goto, PostSteps, Pool!TypeOK
    <3> QED
        BY <1>7, <2>1, <3>1, <3>2 DEF PostLock, Goto
  <2>2. CASE ~ IsConnected
    <3>1. req[p] \in Sessions /\ queue \in Seq(Sessions)
        BY <1>7 DEF PostLock
    <3>2. Append(queue, req[p]) \in Seq(Sessions)
        BY <3>1
    <3>3. Append(queue, req[p]) # <<>>
        BY ONLY <3>1, AppendFacts
    <3> QED
        BY <1>7, <2>2, <3>2, <3>3, ZenonT(30) DEF PostLock, Goto, AfterSend, PostSteps, Pool!TypeOK
  <2> QED
      BY <2>1, <2>2
<1>8. ASSUME NEW p \in Posters, PostEncode(p) PROVE TypeInv'
  <2>1. req[p] \in Sessions /\ deadline[req[p]] \in 0 .. MaxClock
      BY <1>8 DEF PostEncode
  <2>2. Pool!TypeOK'
      BY <1>8, <2>1, SetExpireFacts DEF PostEncode
  <2>3. output' \in SUBSET Sessions /\ posted' \in SUBSET Sessions
      BY <1>8, <2>1 DEF PostEncode, Encoded
  <2>4. \A q \in Posters : pc'[q] = "encode" => mutex' = q
      BY <1>8 DEF PostEncode, Goto, AfterSend
  <2> QED
      BY <1>8, <2>2, <2>3, <2>4 DEF PostEncode, Goto, AfterSend, PostSteps
<1>9. ASSUME NEW p \in Posters, PostWait(p) PROVE TypeInv'
    BY <1>9 DEF PostWait, Goto, PostSteps, Pool!TypeOK
<1>10. ASSUME PostEncodeInLoop PROVE TypeInv'
  <2>1. req[Loop] \in Sessions /\ deadline[req[Loop]] \in 0 .. MaxClock
      BY <1>10 DEF PostEncodeInLoop
  <2>2. Pool!TypeOK'
      BY <1>10, <2>1, SetExpireFacts DEF PostEncodeInLoop
  <2>3. PICK out \in Encoded(req[Loop]) : SendInLoop(out, queue, loop)
      BY <1>10 DEF PostEncodeInLoop
  <2>4. out \in SUBSET Sessions /\ loop \in LoopSteps
      BY <2>1 DEF Encoded
  <2>5. /\ link' \in {"down", "up", "closing"} /\ dialing' \in {"no", "trying", "backoff"}
        /\ autoReconnect' = autoReconnect /\ conns' = conns /\ asked' = asked
        /\ shutting' \in BOOLEAN
        /\ loop' \in {loop, "stuck"}
        /\ output' \in SUBSET Sessions /\ posted' \in SUBSET Sessions
        /\ wire' \in SUBSET Sessions /\ cpc' \in [Checkers -> CheckSteps]
      BY <2>3, <2>4, SendInLoopFacts
  <2>6. TypeOK'
      BY <1>10, <2>2, <2>5 DEF PostEncodeInLoop, Goto, AfterSend, PostSteps, LoopSteps
  <2>7. \A q \in Posters : q # Loop => pc[q] # "encode"
      BY <1>10 DEF PostEncodeInLoop
  <2> QED
      BY <1>10, <2>5, <2>6, <2>7, SessionBounds DEF PostEncodeInLoop, Goto, AfterSend
<1>11. ASSUME Connected PROVE TypeInv'
  <2>1. conns' \in 0 .. MaxConns
      BY <1>11, SessionBounds DEF Connected
  <2> QED
      BY <1>11, <2>1, SessionBounds DEF Connected, LoopSteps, Pool!TypeOK
<1>12. ASSUME ConnectFailed PROVE TypeInv'
    BY <1>12, SessionBounds, ThreadNames DEF ConnectFailed, LoopSteps, Pool!TypeOK
<1>13. ASSUME DrainBegin PROVE TypeInv'
    BY <1>13, SessionBounds, ThreadNames DEF DrainBegin, LoopSteps, Pool!TypeOK
<1>14. ASSUME DrainOne PROVE TypeInv'
  <2>1. queue # <<>> /\ Head(queue) \in Sessions /\ Tail(queue) \in Seq(Sessions)
      BY <1>14 DEF DrainOne
  <2>2. Pool!TypeOK'
      BY <1>14, <2>1, SetExpireFacts DEF DrainOne
  <2> DEFINE then == IF queue' = <<>> THEN "callback" ELSE "draining"
  <2>3. PICK out \in Encoded(Head(queue)) : SendInLoop(out, queue', then)
      BY <1>14 DEF DrainOne
  <2>4. out \in SUBSET Sessions /\ then \in LoopSteps
      BY <2>1 DEF Encoded, LoopSteps
  <2> HIDE DEF then
  <2>5. /\ link' \in {"down", "up", "closing"} /\ dialing' \in {"no", "trying", "backoff"}
        /\ autoReconnect' = autoReconnect /\ conns' = conns /\ asked' = asked
        /\ shutting' \in BOOLEAN
        /\ loop' \in {then, "stuck"}
        /\ output' \in SUBSET Sessions /\ posted' \in SUBSET Sessions
        /\ wire' \in SUBSET Sessions /\ cpc' \in [Checkers -> CheckSteps]
      BY <2>3, <2>4, SendInLoopFacts
  <2>6. TypeOK'
      BY <1>14, <2>1, <2>2, <2>4, <2>5 DEF DrainOne, LoopSteps
  <2>7. \A q \in Posters : pc[q] # "encode"
      BY <1>14, SessionBounds DEF DrainOne
  <2>8. pc[Loop] = "idle"
      BY <1>14, SessionBounds DEF DrainOne
  <2> QED
      BY <1>14, <2>5, <2>6, <2>7, <2>8 DEF DrainOne, then
<1>15. ASSUME NEW s \in Sessions, RunSend(s) PROVE TypeInv'
    BY <1>15 DEF RunSend, Pool!TypeOK
<1>16. ASSUME NEW s \in Sessions, HandlePacket(s) PROVE TypeInv'
  <2>1. Pool!TypeOK'
      BY <1>16, ClaimFacts DEF HandlePacket, Pool!OfferChannel
  <2>2. handled' \in 0 .. MaxFetch
      BY <1>16 DEF HandlePacket, Sessions
  <2>3. calls' \in [Sessions -> Nat]
      BY <1>16 DEF HandlePacket
  <2>4. pc[Loop] = "idle"
      BY <1>16, SessionBounds DEF HandlePacket
  <2> QED
      BY <1>16, <2>1, <2>2, <2>3, <2>4 DEF HandlePacket, LoopSteps
<1>17. ASSUME HandlePacketEnd PROVE TypeInv'
  <2>1. Pool!TypeOK'
      BY <1>17, WithoutFacts DEF HandlePacketEnd, Pool!Recycle
  <2>2. handled' \in 0 .. MaxFetch
      BY <1>17, SessionBounds DEF HandlePacketEnd
  <2> QED
      BY <1>17, <2>1, <2>2 DEF HandlePacketEnd, LoopFree, LoopSteps
<1>18. ASSUME CallbackEnd PROVE TypeInv'
    BY <1>18, SessionBounds DEF CallbackEnd, LoopFree, ConnGone, LoopSteps, Pool!TypeOK
<1>19. ASSUME HandleClose PROVE TypeInv'
    BY <1>19, SessionBounds DEF HandleClose, ConnGone, LoopSteps, Pool!TypeOK
<1>20. ASSUME HandleCloseEnd PROVE TypeInv'
    BY <1>20, SessionBounds DEF HandleCloseEnd, LoopFree, ConnGone, LoopSteps, Pool!TypeOK
<1>21. ASSUME DisconnectInLoop PROVE TypeInv'
  <2>1. asked' \in Nat
      BY <1>21 DEF DisconnectInLoop
  <2>2. /\ link' \in {"down", "up", "closing"} /\ dialing' \in {"no", "trying", "backoff"}
        /\ autoReconnect' \in BOOLEAN /\ shutting' \in BOOLEAN
        /\ loop' \in {loop, "crashed"}
      BY <1>21 DEF DisconnectInLoop, CloseInLoop
  <2>3. pc[Loop] = "idle"
      BY <1>21, SessionBounds DEF DisconnectInLoop
  <2> QED
      BY <1>21, <2>1, <2>2, <2>3 DEF DisconnectInLoop, LoopSteps, Pool!TypeOK
<1>22. ASSUME Tick PROVE TypeInv'
  <2>1. clock' \in 0 .. MaxClock
      BY <1>22, SessionBounds DEF Tick, MaxClock
  <2>2. StampInv'
      BY <1>22 DEF Tick
  <2> QED
      BY <1>22, <2>1, <2>2, SMTT(30) DEF Tick, Pool!TypeOK
<1>23. ASSUME NEW k \in Checkers, NEW t \in 0 .. MaxTime, CheckBegin(k, t) PROVE TypeInv'
  <2>1. Pool!TypeOK'
      BY <1>23, ClaimFacts DEF CheckBegin, Pool!GetTimeoutList
  <2>2. Pool!Overdue(t) \in SUBSET Sessions
      BY DEF Pool!Overdue, Pool!Pending, Pool!TypeOK, Pool!Sessions, Sessions
  <2>3. WithinReach \in SUBSET Sessions
    <3>1. fetched \in 0 .. MaxFetch
        BY DEF Pool!TypeOK
    <3>2. \A s \in 1 .. fetched : s \in 1 .. MaxFetch
        BY <3>1, SessionBounds
    <3> QED
        BY <3>2 DEF WithinReach, Sessions
  <2>4. now' \in [Checkers -> 0 .. MaxTime]
      BY <1>23 DEF CheckBegin
  <2> QED
      BY <1>23, <2>1, <2>2, <2>3, <2>4, SMTT(30) DEF CheckBegin, Step, CheckSteps
<1>24. ASSUME NEW k \in Checkers, CheckTimeout(k) PROVE TypeInv'
  <2>1. clock \in 0 .. MaxTime
      BY SessionBounds DEF MaxClock
  <2> QED
      BY <1>24, <1>23, <2>1 DEF CheckTimeout
<1>25. ASSUME NEW k \in Checkers, DisconnectFlush(k) PROVE TypeInv'
  <2>1. MaxTime \in 0 .. MaxTime
      BY SessionBounds
  <2> QED
      BY <1>25, <1>23, <2>1 DEF DisconnectFlush
<1>26. ASSUME NEW k \in Checkers, NEW s \in Sessions, CallChannel(k, s) PROVE TypeInv'
  <2>1. 0 \in 0 .. MaxFetch
      BY SessionBounds
  <2>2. Pool!TypeOK'
      BY <1>26, <2>1, SetArgsFacts DEF CallChannel, Pool!NoArgs
  <2>3. calls' \in [Sessions -> Nat]
      BY <1>26 DEF CallChannel
  <2> QED
      BY <1>26, <2>2, <2>3 DEF CallChannel
<1>27. ASSUME NEW k \in Checkers, CheckAppend(k) PROVE TypeInv'
  <2>1. Pool!TypeOK'
      BY <1>27, WithoutFacts DEF CheckAppend, Pool!Recycle
  <2> QED
      BY <1>27, <2>1 DEF CheckAppend, Step, CheckSteps
<1>28. ASSUME NEW k \in Checkers, CheckQueue(k) PROVE TypeInv'
  <2>1. queue' \in Seq(Sessions)
      BY <1>28 DEF CheckQueue
  <2>2. packets' \in [Checkers -> Seq(Sessions)]
      BY <1>28, SMTT(30) DEF CheckQueue
  <2>3. loop # "draining"
      BY <1>28, ThreadNames DEF CheckQueue
  <2> QED
      BY <1>28, <2>1, <2>2, <2>3 DEF CheckQueue, Step, CheckSteps, Pool!TypeOK
<1>29. ASSUME NEW k \in Checkers, CallPacket(k) PROVE TypeInv'
  <2>1. Head(packets[k]) \in Sessions /\ Tail(packets[k]) \in Seq(Sessions)
      BY <1>29 DEF CallPacket
  <2>2. Pool!TypeOK'
      BY <1>29, WithoutFacts DEF CallPacket, Pool!FreeChannel
  <2>3. calls' \in [Sessions -> Nat]
      BY <1>29, <2>1, SMTT(30) DEF CallPacket
  <2> QED
      BY <1>29, <2>1, <2>2, <2>3 DEF CallPacket
<1>30. ASSUME NEW k \in Checkers, CheckEnd(k) PROVE TypeInv'
  <2>1. now' \in [Checkers -> 0 .. MaxTime]
      BY <1>30, SessionBounds DEF CheckEnd
  <2> QED
      BY <1>30, <2>1, ZenonT(30) DEF CheckEnd, Step, CheckSteps, Pool!TypeOK
<1>31. ASSUME NEW k \in Checkers, Disconnect(k) PROVE TypeInv'
  <2>1. asked' \in Nat
      BY <1>31 DEF Disconnect
  <2> QED
      BY <1>31, <2>1, ZenonT(30) DEF Disconnect, Step, CheckSteps, Pool!TypeOK
<1>32. ASSUME NEW k \in Checkers, DisconnectPoll(k) PROVE TypeInv'
    BY <1>32, SMTT(30) DEF DisconnectPoll, Step, CheckSteps, Pool!TypeOK
<1>33. ASSUME NEW k \in Checkers, DisconnectHere(k) PROVE TypeInv'
  <2>1. /\ link' \in {"down", "up", "closing"} /\ dialing' \in {"no", "trying", "backoff"}
        /\ autoReconnect' \in BOOLEAN /\ shutting' \in BOOLEAN
        /\ loop' \in {loop, "crashed"} /\ cpc' \in [Checkers -> CheckSteps]
      BY <1>33 DEF DisconnectHere, CloseInLoop, Step, CheckSteps
  <2>2. pc[Loop] = "idle"
      BY <1>33 DEF DisconnectHere, LoopFree
  <2> QED
      BY <1>33, <2>1, <2>2 DEF DisconnectHere, LoopSteps, Pool!TypeOK
<1>34. ASSUME Stop PROVE TypeInv'
    BY <1>34, SessionBounds DEF Stop, LoopSteps, Pool!TypeOK
<1>35. ASSUME UNCHANGED vars PROVE TypeInv'
    BY <1>35 DEF vars, Pool!TypeOK
<1> QED
    BY <1>1, <1>2, <1>3, <1>4, <1>5, <1>6, <1>7, <1>8, <1>9, <1>10, <1>11,
       <1>12, <1>13, <1>14, <1>15, <1>16, <1>17, <1>18, <1>19, <1>20,
       <1>21, <1>22, <1>24, <1>25, <1>26, <1>27, <1>28, <1>29, <1>30,
       <1>31, <1>32, <1>33, <1>34, <1>35
    DEF Next, PostPacket, LoopStep, CheckStep

\* The variables have the types the code gives them.
THEOREM TypesHold == Spec => []TypeOK
<1>1. Spec => []TypeInv
    BY TypeInvInit, TypeInvStep, PTL DEF Spec
<1>2. TypeInv => TypeOK
    BY DEF TypeInv
<1> QED
    BY <1>1, <1>2, PTL

-----------------------------------------------------------------------------
(* Who owns a request. *)

\* At the start nobody owns a request.
LEMMA OwnInvInit == Init => OwnInv
<1> SUFFICES ASSUME Init PROVE OwnInv
    OBVIOUS
<1>1. DOMAIN table = {} /\ Frames = {} /\ \A k \in Checkers : claimed[k] = {}
    BY DEF Init, Pool!Init, Frames
<1>2. Distinct(<<>>) /\ Elems(<<>>) = {}
    BY DEF Distinct, Elems
<1> QED
    BY <1>1, <1>2 DEF Init, OwnInv, NumbersInv, PosterInv, QueueInv, PacketsInv,
       SentInv, ArmedInv, ClaimInv, CallsInv, Holds, Pool!Pending

\* A step that leaves the pool, the packets and the calls alone, neither
\* starts to hold a request nor to handle a reply and makes no new frame keeps
\* the owners.
LEMMA OwnFrame ==
    ASSUME OwnInv,
           UNCHANGED <<fetched, table, queue, packets, req, claimed, calls>>,
           \A p \in Posters : Holds(p)' => pc'[p] = pc[p],
           Frames' \subseteq Frames,
           loop' = "handle" => loop = "handle" /\ handled' = handled
    PROVE  OwnInv'
<1>1. \A p \in Posters : Holds(p)' => Holds(p)
    BY DEF Holds
<1>2. \A s : Kept(s)' <=> Kept(s)
    BY DEF Kept, Pool!Pending
<1>3. PosterInv'
    BY <1>1 DEF OwnInv, PosterInv, Pool!Pending
<1>4. QueueInv' /\ PacketsInv'
    BY <1>1, <1>2 DEF OwnInv, QueueInv, PacketsInv
<1>5. NumbersInv' /\ SentInv' /\ ArmedInv' /\ CallsInv'
    BY DEF OwnInv, NumbersInv, SentInv, ArmedInv, CallsInv, Pool!Pending
<1>6. ClaimInv'
    BY DEF OwnInv, ClaimInv, Pool!Taken
<1> QED
    BY <1>3, <1>4, <1>5, <1>6 DEF OwnInv

\* Request numbers are numbers.
LEMMA NumberTypes ==
    ASSUME TypeInv
    PROVE  /\ fetched \in Nat /\ Sessions \subseteq Nat
           /\ DOMAIN table \subseteq Sessions /\ Frames \subseteq Sessions
BY SessionBounds, SMTT(30) DEF TypeInv, TypeOK, Pool!TypeOK, Pool!Sessions, Sessions, Frames

\* AllocChannel: the new request is its poster's alone.
LEMMA PostAllocOwns ==
    ASSUME Inv, TypeInv', NEW p \in Posters, PostAlloc(p)
    PROVE  OwnInv'
<1> USE DEF Inv, OwnInv, PostAlloc, Goto, shared, client, thread, check
<1> DEFINE n == fetched'
<1>1. /\ n \notin DOMAIN table /\ n = fetched + 1 /\ n \in Sessions
      /\ DOMAIN table' = DOMAIN table \cup {n}
      /\ \A s \in DOMAIN table : table'[s] = table[s]
      /\ table'[n] = [expire |-> Pool!Never, args |-> 0, taken |-> FALSE]
    BY AllocFacts DEF TypeInv, TypeOK, Pool!TypeOK, NumbersInv
<1>2. /\ Pool!Pending' = Pool!Pending \cup {n} /\ Pool!Taken' = Pool!Taken
      /\ Pool!Pending \subseteq DOMAIN table /\ Pool!Taken \subseteq DOMAIN table
    BY <1>1 DEF Pool!Pending, Pool!Taken
<1>3. req' = [req EXCEPT ![p] = n] /\ pc' = [pc EXCEPT ![p] = "args"] /\ ~ Holds(p)
    BY DEF Holds
<1> HIDE DEF n
<1>4. \A q \in Posters : Holds(q)' => q = p \/ (Holds(q) /\ pc'[q] = pc[q] /\ req'[q] = req[q])
    BY <1>3 DEF Holds, TypeInv, TypeOK
<1>5. req'[p] = n /\ pc'[p] = "args"
    BY <1>3 DEF TypeInv, TypeOK
<1>6. \A s \in DOMAIN table : s # n /\ (Kept(s) => Kept(s)')
    BY <1>1, <1>2 DEF Kept
<1>7. NumbersInv'
  <2>1. fetched \in Nat /\ DOMAIN table \subseteq Nat /\ Frames \subseteq Nat /\ Sessions \subseteq Nat
      BY NumberTypes
  <2>2. n = fetched' /\ Frames' = Frames /\ calls' = calls
      BY DEF Frames, n
  <2>3. \A s \in Nat : (s <= fetched => s <= n) /\ (s > n => s > fetched)
      BY <1>1, <2>1
  <2>4. n <= n
      BY <1>1, <2>1
  <2> QED
      BY <1>1, <2>1, <2>2, <2>3, <2>4 DEF NumbersInv
<1>8. PosterInv'
    BY <1>1, <1>2, <1>4, <1>5 DEF PosterInv
<1>9. \A s \in Elems(queue) : Kept(s) /\ s # n
    BY <1>2, <1>6 DEF QueueInv, Kept
<1>10. QueueInv'
    BY <1>4, <1>5, <1>6, <1>9, <1>2 DEF QueueInv, Kept
<1>11. PacketsInv'
    BY <1>4, <1>5, <1>6, <1>2 DEF PacketsInv, Kept
<1>12. SentInv'
    BY <1>1, SMTT(30) DEF SentInv, Frames, NumbersInv, TypeInv, TypeOK, Pool!TypeOK
<1>13. ArmedInv' /\ ClaimInv'
    BY <1>1, <1>2 DEF ArmedInv, ClaimInv
<1>14. CallsInv'
    BY <1>1, <1>2 DEF CallsInv, NumbersInv, TypeInv, TypeOK, Pool!TypeOK
<1> QED
    BY <1>7, <1>8, <1>10, <1>11, <1>12, <1>13, <1>14

\* SetArgs by the poster.
LEMMA PostArgsOwns ==
    ASSUME Inv, TypeInv', NEW p \in Posters, PostArgs(p)
    PROVE  OwnInv'
<1> USE DEF Inv, OwnInv, PostArgs, Goto, shared, client, thread, times, check
<1> DEFINE r == req[p]
<1>1. Holds(p) /\ r \in Sessions /\ r \in 0 .. MaxFetch
    BY DEF TypeInv, TypeOK, ReqInv, Holds
<1>2. /\ fetched' = fetched /\ DOMAIN table' = DOMAIN table /\ r \in DOMAIN table
      /\ \A s \in DOMAIN table : s # r => table'[s] = table[s]
      /\ table'[r].args = r
      /\ table'[r].expire = table[r].expire /\ table'[r].taken = table[r].taken
    BY <1>1, SetArgsFacts DEF TypeInv, TypeOK
<1>3. /\ Pool!Pending' = Pool!Pending /\ Pool!Taken' = Pool!Taken
      /\ Pool!Pending \subseteq DOMAIN table /\ Pool!Taken \subseteq DOMAIN table
      /\ Pool!Pending \cap Pool!Taken = {}
    BY <1>2 DEF Pool!Pending, Pool!Taken
<1>4. \A q \in Posters : /\ Holds(q)' <=> Holds(q)
                         /\ q # p => pc'[q] = pc[q]
    BY <1>1 DEF Holds, TypeInv, TypeOK
<1>5. r \in Pool!Pending /\ table[r].expire = Pool!Never
    BY <1>1 DEF PosterInv
<1> HIDE DEF r
<1>6. \A s : Kept(s) => Kept(s)'
    BY <1>2, <1>3 DEF Kept
<1>7. NumbersInv' /\ CallsInv'
    BY <1>2, <1>3 DEF NumbersInv, CallsInv, Frames
<1>8. PosterInv'
    BY <1>2, <1>3, <1>4 DEF PosterInv, r
<1>9. QueueInv' /\ PacketsInv'
    BY <1>4, <1>6 DEF QueueInv, PacketsInv
<1>10. SentInv' /\ ArmedInv'
    BY <1>2, <1>3 DEF SentInv, ArmedInv, Frames
<1>11. ClaimInv'
    BY <1>2, <1>3, <1>5 DEF ClaimInv
<1> QED
    BY <1>7, <1>8, <1>9, <1>10, <1>11

\* The packet goes to the queue, or stays with its poster under mutex_.
LEMMA PostLockOwns ==
    ASSUME Inv, TypeInv', NEW p \in Posters, PostLock(p)
    PROVE  OwnInv'
<1> USE DEF Inv, PostLock, Goto, pool, client, thread, times, check
<1>1. Holds(p) /\ req[p] \in Sessions /\ queue \in Seq(Sessions)
    BY DEF TypeInv, TypeOK, ReqInv, Holds
<1>2. \A s : Kept(s)' <=> Kept(s)
    BY DEF Kept, Pool!Pending
<1>3. Kept(req[p])
    BY <1>1 DEF OwnInv, PosterInv, Kept
<1>4. NumbersInv' /\ SentInv' /\ ArmedInv' /\ ClaimInv' /\ CallsInv'
    BY DEF OwnInv, NumbersInv, SentInv, ArmedInv, ClaimInv, CallsInv, Frames,
       Pool!Pending, Pool!Taken
<1>5. \A q \in Posters : Holds(q)' => Holds(q) /\ (pc'[q] # "args" => pc[q] # "args")
    BY <1>1 DEF Holds, AfterSend, TypeInv, TypeOK
<1>6. PosterInv'
    BY <1>5 DEF OwnInv, PosterInv, Pool!Pending
<1>7. CASE IsConnected
  <2>1. QueueInv' /\ PacketsInv'
      BY <1>2, <1>5, <1>7 DEF OwnInv, QueueInv, PacketsInv
  <2> QED
      BY <1>4, <1>6, <2>1 DEF OwnInv
<1>8. CASE ~ IsConnected
  <2>1. req[p] \notin Elems(queue)
      BY <1>1 DEF OwnInv, QueueInv
  <2>2. Distinct(queue)
      BY DEF OwnInv, QueueInv
  <2>3. Elems(Append(queue, req[p])) = Elems(queue) \cup {req[p]}
        /\ Distinct(Append(queue, req[p]))
      BY ONLY <1>1, <2>1, <2>2, AppendFacts
  <2>4. queue' = Append(queue, req[p])
      BY <1>8
  <2>5. ~ Holds(p)'
      BY <1>8 DEF Holds, AfterSend, TypeInv, TypeOK
  <2>6. \A q \in Posters : Holds(q)' => req[q] # req[p]
      BY <1>1, <1>5, <2>5 DEF OwnInv, PosterInv
  <2>7. QueueInv'
      BY <1>2, <1>3, <1>5, <2>3, <2>4, <2>6 DEF OwnInv, QueueInv
  <2>8. PacketsInv'
      BY <1>1, <1>2, <1>5, <2>3, <2>4 DEF OwnInv, PacketsInv
  <2> QED
      BY <1>4, <1>6, <2>7, <2>8 DEF OwnInv
<1> QED
    BY <1>7, <1>8

\* Sending a request gives it its deadline, and with it to the pool.
LEMMA SendOwns ==
    ASSUME Inv, TypeInv', NEW r \in Sessions, NEW t \in 0 .. MaxClock,
           Pool!SetExpireTime(r, t), Kept(r),
           Frames' \subseteq Frames \cup {r},
           UNCHANGED <<packets, claimed, calls, handled, req>>,
           loop' = "handle" => loop = "handle",
           \A q \in Posters : Holds(q)' => Holds(q) /\ pc'[q] = pc[q] /\ req[q] # r,
           Distinct(queue'), Elems(queue') \subseteq Elems(queue) \ {r},
           \A k \in Checkers : r \notin Elems(packets[k])
    PROVE  OwnInv'
<1> USE DEF Inv, OwnInv
<1>1. /\ fetched' = fetched /\ DOMAIN table' = DOMAIN table /\ r \in DOMAIN table
      /\ \A s \in DOMAIN table : s # r => table'[s] = table[s]
      /\ table'[r].expire # Pool!Never
      /\ table'[r].args = table[r].args /\ table'[r].taken = table[r].taken
    BY SetExpireFacts DEF TypeInv, TypeOK
<1>2. /\ Pool!Pending' = Pool!Pending /\ Pool!Taken' = Pool!Taken
      /\ Pool!Pending \subseteq DOMAIN table /\ Pool!Taken \subseteq DOMAIN table
      /\ Pool!Pending \cap Pool!Taken = {}
    BY <1>1 DEF Pool!Pending, Pool!Taken
<1>3. \A s : Kept(s) /\ s # r => Kept(s)'
    BY <1>1, <1>2 DEF Kept
<1>4. NumbersInv' /\ CallsInv'
    BY <1>1, <1>2 DEF NumbersInv, CallsInv
<1>5. PosterInv'
    BY <1>1, <1>2 DEF PosterInv
<1>6. QueueInv'
    BY <1>3 DEF QueueInv
<1>7. PacketsInv'
    BY <1>3 DEF PacketsInv
<1>8. SentInv'
    BY <1>1 DEF SentInv
<1>9. ArmedInv' /\ ClaimInv'
    BY <1>1, <1>2 DEF ArmedInv, ClaimInv, Kept
<1> QED
    BY <1>4, <1>5, <1>6, <1>7, <1>8, <1>9

\* An application thread sends the request it holds.
LEMMA PostEncodeOwns ==
    ASSUME Inv, TypeInv', NEW p \in Posters, PostEncode(p)
    PROVE  OwnInv'
<1> USE DEF Inv, OwnInv, PostEncode, Goto, thread, times, check
<1>1. Holds(p) /\ req[p] \in Sessions /\ deadline[req[p]] \in 0 .. MaxClock
    BY DEF TypeInv, TypeOK, ReqInv, Holds
<1>2. Kept(req[p])
    BY <1>1 DEF PosterInv, Kept
<1>3. Frames' \subseteq Frames \cup {req[p]}
    BY DEF Frames, Encoded
<1>4. ~ Holds(p)' /\ \A q \in Posters : q # p => pc'[q] = pc[q]
    BY DEF Holds, AfterSend, TypeInv, TypeOK
<1>5. \A q \in Posters : Holds(q)' => Holds(q) /\ pc'[q] = pc[q] /\ req[q] # req[p]
    BY <1>1, <1>4 DEF PosterInv, Holds
<1>6. Distinct(queue') /\ Elems(queue') \subseteq Elems(queue) \ {req[p]}
    BY <1>1 DEF QueueInv
<1>7. \A k \in Checkers : req[p] \notin Elems(packets[k])
    BY <1>1 DEF PacketsInv
<1>8. Pool!SetExpireTime(req[p], deadline[req[p]])
      /\ UNCHANGED <<packets, claimed, calls, handled, req>> /\ loop' = loop
    OBVIOUS
<1> QED
    BY <1>1, <1>2, <1>3, <1>5, <1>6, <1>7, <1>8, SendOwns

\* The loop's thread sends the request it posts from a callback.
LEMMA PostEncodeInLoopOwns ==
    ASSUME Inv, TypeInv', PostEncodeInLoop
    PROVE  OwnInv'
<1> USE DEF Inv, OwnInv, PostEncodeInLoop, Goto, times, check
<1>0. Loop \in Posters
    BY DEF Posters
<1>1. Holds(Loop) /\ req[Loop] \in Sessions /\ deadline[req[Loop]] \in 0 .. MaxClock
    BY <1>0 DEF TypeInv, TypeOK, ReqInv, Holds
<1>2. Kept(req[Loop])
    BY <1>0, <1>1 DEF PosterInv, Kept
<1>3. PICK out \in Encoded(req[Loop]) : SendInLoop(out, queue, loop)
    OBVIOUS
<1>4. out \subseteq output \cup {req[Loop]} /\ out \in SUBSET Sessions /\ loop \in LoopSteps
    BY <1>1 DEF Encoded, TypeInv, TypeOK
<1>5. Frames' \subseteq Frames \cup {req[Loop]} /\ loop' \in {loop, "stuck"}
    BY <1>3, <1>4, SendInLoopFacts DEF Frames, TypeInv
<1>6. ~ Holds(Loop)' /\ \A q \in Posters : q # Loop => pc'[q] = pc[q]
    BY <1>0 DEF Holds, AfterSend, TypeInv, TypeOK
<1>7. \A q \in Posters : Holds(q)' => Holds(q) /\ pc'[q] = pc[q] /\ req[q] # req[Loop]
    BY <1>0, <1>1, <1>6 DEF PosterInv, Holds
<1>8. Distinct(queue') /\ Elems(queue') \subseteq Elems(queue) \ {req[Loop]}
    BY <1>0, <1>1 DEF QueueInv
<1>9. \A k \in Checkers : req[Loop] \notin Elems(packets[k])
    BY <1>0, <1>1 DEF PacketsInv
<1>10. Pool!SetExpireTime(req[Loop], deadline[req[Loop]])
       /\ UNCHANGED <<packets, claimed, calls, handled, req>>
    OBVIOUS
<1> QED
    BY <1>1, <1>2, <1>5, <1>7, <1>8, <1>9, <1>10, SendOwns

\* PostOutputQueue sends the request at the head of the queue.
LEMMA DrainOneOwns ==
    ASSUME Inv, TypeInv', DrainOne
    PROVE  OwnInv'
<1> USE DEF Inv, OwnInv, DrainOne, times, post, check
<1> DEFINE r == Head(queue)
           then == IF queue' = <<>> THEN "callback" ELSE "draining"
<1>1. queue \in Seq(Sessions) /\ queue # <<>> /\ r \in Sessions /\ queue' = Tail(queue)
    BY DEF TypeInv, TypeOK, LockInv
<1>2. deadline[r] \in 0 .. MaxClock
    BY <1>1 DEF TypeInv, TypeOK
<1>3. r \in Elems(queue) /\ Elems(Tail(queue)) \subseteq Elems(queue) \ {r} /\ Distinct(Tail(queue))
    BY <1>1, TailFacts DEF QueueInv
<1>4. PICK out \in Encoded(r) : SendInLoop(out, queue', then)
    OBVIOUS
<1>5. out \subseteq output \cup {r} /\ out \in SUBSET Sessions /\ then \in LoopSteps
    BY <1>1 DEF Encoded, TypeInv, TypeOK, LoopSteps
<1>6. then # "handle" /\ Pool!SetExpireTime(r, deadline[r])
      /\ UNCHANGED <<packets, claimed, calls, handled, req, pc>>
    OBVIOUS
<1> HIDE DEF r, then
<1>7. Frames' \subseteq Frames \cup {r} /\ loop' \in {then, "stuck"}
    BY <1>4, <1>5, SendInLoopFacts DEF Frames, TypeInv
<1>8. Kept(r)
    BY <1>3 DEF QueueInv
<1>9. \A q \in Posters : Holds(q)' => Holds(q) /\ pc'[q] = pc[q] /\ req[q] # r
    BY <1>3, <1>6 DEF QueueInv, Holds
<1>10. \A k \in Checkers : r \notin Elems(packets[k])
    BY <1>3 DEF PacketsInv
<1> QED
    BY <1>1, <1>2, <1>3, <1>6, <1>7, <1>8, <1>9, <1>10, SendOwns

\* Claiming sent requests, as a reply or a timeout does, leaves those alone
\* that were not sent.
LEMMA ClaimKeeps ==
    ASSUME Inv, NEW S, table' = Pool!Claim(S), fetched' = fetched,
           S \subseteq Pool!Pending, \A s \in S : table[s].expire # Pool!Never,
           UNCHANGED <<queue, packets, req, pc, Frames>>
    PROVE  /\ PosterInv' /\ QueueInv' /\ PacketsInv' /\ SentInv' /\ ArmedInv'
           /\ DOMAIN table' = DOMAIN table
           /\ Pool!Pending' = Pool!Pending \ S
           /\ Pool!Taken' = Pool!Taken \cup S
           /\ Pool!Pending \cap Pool!Taken = {}
           /\ \A s \in DOMAIN table : table'[s].args = table[s].args
<1> USE DEF Inv, OwnInv
<1>1. /\ DOMAIN table' = DOMAIN table
      /\ \A s \in DOMAIN table :
            /\ table'[s].expire = table[s].expire /\ table'[s].args = table[s].args
            /\ table'[s].taken = (s \in S \/ table[s].taken)
    BY ClaimFacts DEF TypeInv, TypeOK
<1>2. /\ Pool!Pending' = Pool!Pending \ S /\ Pool!Taken' = Pool!Taken \cup S
      /\ Pool!Pending \cap Pool!Taken = {} /\ Pool!Pending \subseteq DOMAIN table
    BY <1>1 DEF Pool!Pending, Pool!Taken
<1>3. \A s : Kept(s) => Kept(s)'
    BY <1>1, <1>2 DEF Kept
<1>4. \A p \in Posters : Holds(p)' <=> Holds(p)
    BY DEF Holds
<1>5. PosterInv'
    BY <1>1, <1>2, <1>4 DEF PosterInv
<1>6. QueueInv' /\ PacketsInv'
    BY <1>3, <1>4 DEF QueueInv, PacketsInv
<1>7. SentInv' /\ ArmedInv'
    BY <1>1, <1>2 DEF SentInv, ArmedInv
<1> QED
    BY <1>1, <1>2, <1>5, <1>6, <1>7

\* A reply claims its request: the frame was sent, so the deadline is set.
LEMMA HandlePacketOwns ==
    ASSUME Inv, NEW r \in Sessions, HandlePacket(r)
    PROVE  OwnInv'
<1> USE DEF Inv, OwnInv, HandlePacket, shared, client, times, post, check
<1>1. /\ table' = Pool!Claim({r}) /\ fetched' = fetched /\ r \in Pool!Pending
      /\ table[r].expire # Pool!Never /\ table[r].args = r /\ calls[r] = 0
    BY DEF Pool!OfferChannel, SentInv, ArmedInv, CallsInv, Frames, Pool!Pending
<1>2. UNCHANGED <<queue, packets, req, pc, Frames>>
    BY DEF Frames
<1>3. /\ PosterInv' /\ QueueInv' /\ PacketsInv' /\ SentInv' /\ ArmedInv'
      /\ DOMAIN table' = DOMAIN table
      /\ Pool!Pending' = Pool!Pending \ {r} /\ Pool!Taken' = Pool!Taken \cup {r}
      /\ Pool!Pending \cap Pool!Taken = {}
      /\ \A s \in DOMAIN table : table'[s].args = table[s].args
  <2> DEFINE R == {r}
  <2>1. R \subseteq Pool!Pending /\ \A s \in R : table[s].expire # Pool!Never
      BY <1>1
  <2>2. table' = Pool!Claim(R)
      BY <1>1
  <2> HIDE DEF R
  <2>3. /\ PosterInv' /\ QueueInv' /\ PacketsInv' /\ SentInv' /\ ArmedInv'
        /\ DOMAIN table' = DOMAIN table
        /\ Pool!Pending' = Pool!Pending \ R /\ Pool!Taken' = Pool!Taken \cup R
        /\ Pool!Pending \cap Pool!Taken = {}
        /\ \A s \in DOMAIN table : table'[s].args = table[s].args
      BY <1>1, <1>2, <2>1, <2>2, ClaimKeeps
  <2> QED
      BY <2>3 DEF R
<1>4. r \in DOMAIN table /\ Pool!Taken \subseteq DOMAIN table
    BY <1>1 DEF Pool!Pending, Pool!Taken
<1>5. calls' = [calls EXCEPT ![r] = 1]
    BY <1>1 DEF TypeInv, TypeOK
<1>6. calls'[r] = 1 /\ \A s \in Sessions : s # r => calls'[s] = calls[s]
    BY <1>5 DEF TypeInv, TypeOK
<1>7. NumbersInv'
  <2>1. ~ (r > fetched)
      BY <1>4, NumberTypes DEF NumbersInv
  <2> QED
      BY <1>1, <1>2, <1>3, <1>6, <2>1 DEF NumbersInv
<1>8. CallsInv'
    BY <1>1, <1>3, <1>6 DEF CallsInv
<1>9. \A k \in Checkers : claimed[k] \subseteq Sessions /\ r \notin claimed[k]
    BY <1>1, <1>3 DEF ClaimInv, TypeInv, TypeOK
<1>10. ClaimInv'
  <2>1. handled' \in Pool!Taken' /\ table'[handled'].args = handled'
      BY <1>1, <1>3, <1>4
  <2>2. ASSUME NEW k \in Checkers, NEW s \in claimed[k]
        PROVE  /\ s \in Pool!Taken' /\ s # handled'
               /\ table'[s].args = (IF calls'[s] = 0 THEN s ELSE 0)
      BY <1>3, <1>4, <1>6, <1>9 DEF ClaimInv
  <2>3. \A k, m \in Checkers : \A s \in claimed[k] : s \in claimed[m] => m = k
      BY DEF ClaimInv
  <2> QED
      BY <2>1, <2>2, <2>3 DEF ClaimInv
<1> QED
    BY <1>3, <1>7, <1>8, <1>10

\* Giving claimed requests back leaves the others alone.
LEMMA RecycleKeeps ==
    ASSUME Inv, NEW S, Pool!Recycle(S),
           UNCHANGED <<queue, packets, req, pc, Frames, calls>>
    PROVE  /\ PosterInv' /\ QueueInv' /\ PacketsInv' /\ SentInv' /\ ArmedInv'
           /\ NumbersInv' /\ CallsInv'
           /\ Pool!Taken' = Pool!Taken \ S
           /\ \A s \in Pool!Taken \ S : table'[s] = table[s]
<1> USE DEF Inv, OwnInv
<1>1. /\ DOMAIN table' = DOMAIN table \ S /\ fetched' = fetched
      /\ \A s \in DOMAIN table \ S : table'[s] = table[s]
    BY WithoutFacts DEF Pool!Recycle, TypeInv, TypeOK
<1>2. /\ S \subseteq Pool!Taken /\ Pool!Pending' = Pool!Pending /\ Pool!Taken' = Pool!Taken \ S
      /\ Pool!Pending \subseteq DOMAIN table' /\ Pool!Taken \subseteq DOMAIN table
    BY <1>1 DEF Pool!Pending, Pool!Taken, Pool!Recycle
<1>3. \A s : Kept(s) => Kept(s)'
    BY <1>1, <1>2 DEF Kept
<1>4. \A p \in Posters : Holds(p)' <=> Holds(p)
    BY DEF Holds
<1>5. PosterInv'
    BY <1>1, <1>2, <1>4 DEF PosterInv
<1>6. QueueInv' /\ PacketsInv'
    BY <1>3, <1>4 DEF QueueInv, PacketsInv
<1>7. SentInv' /\ ArmedInv' /\ NumbersInv' /\ CallsInv'
    BY <1>1, <1>2 DEF SentInv, ArmedInv, NumbersInv, CallsInv
<1> QED
    BY <1>1, <1>2, <1>5, <1>6, <1>7

\* The channel of a reply goes back to the pool.
LEMMA HandlePacketEndOwns ==
    ASSUME Inv, HandlePacketEnd
    PROVE  OwnInv'
<1> USE DEF Inv, OwnInv, HandlePacketEnd, shared, client, times, post, check
<1>1. UNCHANGED <<queue, packets, req, pc, Frames, calls>> /\ Pool!Recycle({handled})
    BY DEF Frames
<1>2. /\ PosterInv' /\ QueueInv' /\ PacketsInv' /\ SentInv' /\ ArmedInv'
      /\ NumbersInv' /\ CallsInv'
      /\ Pool!Taken' = Pool!Taken \ {handled}
      /\ \A s \in Pool!Taken \ {handled} : table'[s] = table[s]
    BY <1>1, RecycleKeeps
<1>3. ClaimInv'
    BY <1>2 DEF ClaimInv
<1> QED
    BY <1>2, <1>3

\* AppendFreeList: the channels of a timeout go back to the pool.
LEMMA CheckAppendOwns ==
    ASSUME Inv, NEW k \in Checkers, CheckAppend(k)
    PROVE  OwnInv'
<1> USE DEF Inv, OwnInv, CheckAppend, shared, client, thread, times, post
<1>1. UNCHANGED <<queue, packets, req, pc, Frames, calls>> /\ Pool!Recycle(claimed[k])
    BY DEF Frames
<1>2. /\ PosterInv' /\ QueueInv' /\ PacketsInv' /\ SentInv' /\ ArmedInv'
      /\ NumbersInv' /\ CallsInv'
      /\ Pool!Taken' = Pool!Taken \ claimed[k]
      /\ \A s \in Pool!Taken \ claimed[k] : table'[s] = table[s]
    BY <1>1, RecycleKeeps
<1>3. \A m \in Checkers : claimed'[m] = IF m = k THEN {} ELSE claimed[m]
    BY DEF TypeInv, TypeOK
<1>4. \A m \in Checkers : claimed'[m] \cap claimed[k] = {}
    BY <1>3 DEF ClaimInv
<1>5. ClaimInv'
    BY <1>2, <1>3, <1>4 DEF ClaimInv
<1> QED
    BY <1>2, <1>5

\* GetTimeoutList claims requests whose deadline has passed, so none without
\* a deadline.
LEMMA CheckBeginOwns ==
    ASSUME Inv, NEW k \in Checkers, NEW t \in 0 .. MaxTime, CheckBegin(k, t)
    PROVE  OwnInv'
<1> USE DEF Inv, OwnInv, CheckBegin, shared, client, thread, times, post
<1> DEFINE S == Pool!Overdue(t)
<1>1. table' = Pool!Claim(S) /\ fetched' = fetched
    BY DEF Pool!GetTimeoutList
<1>2. S \subseteq Pool!Pending
    BY DEF Pool!Overdue
<1>3. \A s \in S : table[s].expire # Pool!Never
  <2> SUFFICES ASSUME NEW s \in S PROVE table[s].expire # Pool!Never
      OBVIOUS
  <2>1. s \in Nat /\ s \in Pool!Pending
      BY <1>2, NumberTypes DEF Pool!Pending
  <2>2. s <= s
      BY <2>1
  <2>3. table[s].expire < t
      BY <2>1, <2>2 DEF Pool!Overdue
  <2> QED
      BY <2>3, SessionBounds DEF Pool!Never
<1>4. UNCHANGED <<queue, packets, req, pc, Frames>>
    BY DEF Frames
<1>5. \A m \in Checkers : claimed'[m] = IF m = k THEN S ELSE claimed[m]
    BY DEF TypeInv, TypeOK
<1> HIDE DEF S
<1>6. /\ PosterInv' /\ QueueInv' /\ PacketsInv' /\ SentInv' /\ ArmedInv'
      /\ DOMAIN table' = DOMAIN table
      /\ Pool!Pending' = Pool!Pending \ S /\ Pool!Taken' = Pool!Taken \cup S
      /\ Pool!Pending \cap Pool!Taken = {}
      /\ \A s \in DOMAIN table : table'[s].args = table[s].args
    BY <1>1, <1>2, <1>3, <1>4, ClaimKeeps
<1>7. /\ Pool!Pending \subseteq DOMAIN table /\ Pool!Taken \subseteq DOMAIN table
      /\ DOMAIN table \subseteq Sessions
    BY NumberTypes DEF Pool!Pending, Pool!Taken
<1>8. NumbersInv' /\ CallsInv'
    BY <1>1, <1>4, <1>6 DEF NumbersInv, CallsInv
<1>9. \A s \in S : /\ table'[s].args = s /\ calls[s] = 0 /\ s \in Pool!Taken'
                   /\ loop = "handle" => s # handled
                   /\ \A m \in Checkers : s \notin claimed[m]
    BY <1>2, <1>3, <1>6, <1>7 DEF ArmedInv, CallsInv, ClaimInv
<1>10. ClaimInv'
    BY <1>5, <1>6, <1>7, <1>9 DEF ClaimInv
<1> QED
    BY <1>6, <1>8, <1>10

\* CheckTimeout calls the handler of a claimed request and clears its args.
LEMMA CallChannelOwns ==
    ASSUME Inv, NEW k \in Checkers, NEW r \in Sessions, CallChannel(k, r)
    PROVE  OwnInv'
<1> USE DEF Inv, OwnInv, CallChannel, shared, client, thread, times, post, check
<1>1. /\ fetched' = fetched /\ DOMAIN table' = DOMAIN table /\ r \in DOMAIN table
      /\ \A s \in DOMAIN table : s # r => table'[s] = table[s]
      /\ table'[r].args = 0
      /\ table'[r].expire = table[r].expire /\ table'[r].taken = table[r].taken
  <2>1. 0 \in 0 .. MaxFetch
      BY SessionBounds
  <2> QED
      BY <2>1, SetArgsFacts DEF TypeInv, TypeOK, Pool!NoArgs
<1>2. /\ Pool!Pending' = Pool!Pending /\ Pool!Taken' = Pool!Taken
      /\ Pool!Pending \subseteq DOMAIN table /\ Pool!Taken \subseteq DOMAIN table
      /\ Pool!Pending \cap Pool!Taken = {}
    BY <1>1 DEF Pool!Pending, Pool!Taken
<1>3. r \in Pool!Taken /\ r \in claimed[k] /\ calls[r] = 0
    BY DEF ClaimInv, Pool!NoArgs
<1>4. calls' = [calls EXCEPT ![r] = 1]
    BY <1>3 DEF TypeInv, TypeOK
<1>5. calls'[r] = 1 /\ \A s \in Sessions : s # r => calls'[s] = calls[s]
    BY <1>4 DEF TypeInv, TypeOK
<1>6. \A s : Kept(s) => Kept(s)'
    BY <1>1, <1>2, <1>3 DEF Kept
<1>7. \A p \in Posters : Holds(p)' <=> Holds(p)
    BY DEF Holds
<1>8. NumbersInv'
  <2>1. ~ (r > fetched)
      BY <1>1, NumberTypes DEF NumbersInv
  <2> QED
      BY <1>1, <1>5, <2>1 DEF NumbersInv, Frames
<1>9. PosterInv'
    BY <1>1, <1>2, <1>3, <1>7 DEF PosterInv
<1>10. QueueInv' /\ PacketsInv'
    BY <1>6, <1>7 DEF QueueInv, PacketsInv
<1>11. SentInv' /\ ArmedInv'
    BY <1>1, <1>2, <1>3 DEF SentInv, ArmedInv, Frames
<1>12. CallsInv'
    BY <1>2, <1>3, <1>5 DEF CallsInv
<1>13. ClaimInv'
  <2>1. \A m \in Checkers : claimed[m] \subseteq Sessions
      BY DEF TypeInv, TypeOK
  <2>2. loop = "handle" => handled # r
      BY <1>3 DEF ClaimInv
  <2> QED
      BY <1>1, <1>2, <1>3, <1>5, <2>1, <2>2 DEF ClaimInv
<1> QED
    BY <1>8, <1>9, <1>10, <1>11, <1>12, <1>13

\* The queue's GetTimeoutList moves packets from the queue to its caller.
LEMMA CheckQueueOwns ==
    ASSUME Inv, NEW k \in Checkers, CheckQueue(k)
    PROVE  OwnInv'
<1> USE DEF Inv, CheckQueue, pool, client, thread, times, post
<1>1. PICK n \in 0 .. Len(queue) :
          /\ packets' = [packets EXCEPT ![k] = SubSeq(queue, 1, n)]
          /\ queue' = SubSeq(queue, n + 1, Len(queue))
    OBVIOUS
<1> DEFINE front == SubSeq(queue, 1, n)
           rest == SubSeq(queue, n + 1, Len(queue))
<1>2. queue \in Seq(Sessions) /\ Distinct(queue)
    BY DEF TypeInv, TypeOK, OwnInv, QueueInv
<1>3. /\ Distinct(front) /\ Distinct(rest)
      /\ Elems(front) \subseteq Elems(queue) /\ Elems(rest) \subseteq Elems(queue)
      /\ Elems(front) \cap Elems(rest) = {}
    BY ONLY <1>2, SplitFacts
<1>4. queue' = rest /\ \A m \in Checkers : packets'[m] = IF m = k THEN front ELSE packets[m]
    BY <1>1 DEF TypeInv, TypeOK
<1> HIDE DEF front, rest
<1>5. \A s : Kept(s)' <=> Kept(s)
    BY DEF Kept, Pool!Pending
<1>6. \A p \in Posters : Holds(p)' <=> Holds(p)
    BY DEF Holds
<1>7. NumbersInv' /\ PosterInv' /\ SentInv' /\ ArmedInv' /\ ClaimInv' /\ CallsInv'
    BY <1>6 DEF OwnInv, NumbersInv, PosterInv, SentInv, ArmedInv, ClaimInv,
       CallsInv, Frames, Pool!Pending, Pool!Taken
<1>8. QueueInv'
    BY <1>3, <1>4, <1>5, <1>6 DEF OwnInv, QueueInv
<1>9. PacketsInv'
  <2> SUFFICES ASSUME NEW m \in Checkers
               PROVE  /\ Distinct(packets'[m])
                      /\ \A s \in Elems(packets'[m]) :
                            /\ Kept(s)' /\ s \notin Elems(queue')
                            /\ \A p \in Posters : Holds(p)' => req'[p] # s
                            /\ \A l \in Checkers : s \in Elems(packets'[l]) => l = m
      BY DEF PacketsInv
  <2>1. CASE m = k
      BY <1>3, <1>4, <1>5, <1>6, <2>1 DEF OwnInv, QueueInv, PacketsInv
  <2>2. CASE m # k
      BY <1>3, <1>4, <1>5, <1>6, <2>2 DEF OwnInv, QueueInv, PacketsInv
  <2> QED
      BY <2>1, <2>2
<1> QED
    BY <1>7, <1>8, <1>9 DEF OwnInv

\* The handler of a packet that was never sent, then FreeChannel.
LEMMA CallPacketOwns ==
    ASSUME Inv, NEW k \in Checkers, CallPacket(k)
    PROVE  OwnInv'
<1> USE DEF Inv, CallPacket, shared, client, thread, times, post
<1> DEFINE r == Head(packets[k])
<1>1. packets[k] \in Seq(Sessions) /\ packets[k] # <<>> /\ Distinct(packets[k]) /\ r \in Sessions
    BY DEF TypeInv, TypeOK, OwnInv, PacketsInv
<1>2. /\ r \in Elems(packets[k]) /\ Elems(Tail(packets[k])) \subseteq Elems(packets[k]) \ {r}
      /\ Distinct(Tail(packets[k]))
    BY ONLY <1>1, TailFacts
<1>3. Kept(r)
    BY <1>2 DEF OwnInv, PacketsInv
<1>4. /\ DOMAIN table' = DOMAIN table \ {r} /\ fetched' = fetched
      /\ \A s \in DOMAIN table \ {r} : table'[s] = table[s]
  <2>1. {r} \cap Pool!Pending = {r}
      BY <1>3 DEF Kept
  <2>2. table' = Pool!Without({r}) /\ fetched' = fetched
      BY <2>1 DEF Pool!FreeChannel
  <2> QED
      BY <2>2, WithoutFacts DEF TypeInv, TypeOK
<1>5. \A m \in Checkers : packets'[m] = IF m = k THEN Tail(packets[k]) ELSE packets[m]
    BY DEF TypeInv, TypeOK
<1>6. calls[r] = 0
    BY <1>1, <1>3 DEF OwnInv, CallsInv, Kept
<1>7. calls' = [calls EXCEPT ![r] = 1]
    BY <1>6 DEF TypeInv, TypeOK
<1> HIDE DEF r
<1>8. calls'[r] = 1 /\ \A s \in Sessions : s # r => calls'[s] = calls[s]
    BY <1>1, <1>7 DEF TypeInv, TypeOK
<1>9. /\ Pool!Pending' = Pool!Pending \ {r} /\ Pool!Taken' = Pool!Taken
      /\ r \in Pool!Pending /\ r \notin Pool!Taken
      /\ Pool!Pending \subseteq DOMAIN table /\ Pool!Taken \subseteq DOMAIN table
    BY <1>3, <1>4 DEF Pool!Pending, Pool!Taken, Kept
<1>10. \A s : Kept(s) /\ s # r => Kept(s)'
    BY <1>4, <1>9 DEF Kept
<1>11. \A p \in Posters : (Holds(p)' <=> Holds(p)) /\ (Holds(p) => req[p] # r)
    BY <1>2 DEF OwnInv, PacketsInv, Holds
<1>12. r \notin Elems(queue) /\ \A m \in Checkers : m # k => r \notin Elems(packets[m])
    BY <1>2 DEF OwnInv, PacketsInv
<1>13. NumbersInv'
  <2>1. ~ (r > fetched)
      BY <1>9, NumberTypes DEF OwnInv, NumbersInv
  <2> QED
      BY <1>4, <1>8, <2>1 DEF OwnInv, NumbersInv, Frames
<1>14. PosterInv'
    BY <1>4, <1>9, <1>11 DEF OwnInv, PosterInv
<1>15. QueueInv'
    BY <1>10, <1>11, <1>12 DEF OwnInv, QueueInv
<1>16. PacketsInv'
    BY <1>2, <1>5, <1>10, <1>11, <1>12 DEF OwnInv, PacketsInv
<1>17. SentInv' /\ ArmedInv'
    BY <1>4, <1>9 DEF OwnInv, SentInv, ArmedInv, Frames
<1>18. CallsInv'
    BY <1>8, <1>9 DEF OwnInv, CallsInv
<1>19. ClaimInv'
  <2>1. \A m \in Checkers : claimed[m] \subseteq Sessions
      BY DEF TypeInv, TypeOK
  <2> QED
      BY <1>4, <1>8, <1>9, <2>1 DEF OwnInv, ClaimInv
<1> QED
    BY <1>13, <1>14, <1>15, <1>16, <1>17, <1>18, <1>19 DEF OwnInv

\* Every step keeps the owners.
LEMMA OwnInvStep == Inv /\ TypeInv' /\ [Next]_vars => OwnInv'
<1> SUFFICES ASSUME Inv, TypeInv', [Next]_vars PROVE OwnInv'
    OBVIOUS
<1> DEFINE Quiet ==
        /\ UNCHANGED <<fetched, table, queue, packets, req, claimed, calls>>
        /\ \A p \in Posters : Holds(p)' => pc'[p] = pc[p]
        /\ Frames' \subseteq Frames
        /\ loop' = "handle" => loop = "handle" /\ handled' = handled
<1>1. Quiet => OwnInv'
    BY OwnFrame DEF Inv
<1> USE DEF pool, shared, client, thread, times, post, check
<1>2. ASSUME NEW p \in Posters,
             PostBegin(p) \/ PostCheck(p) \/ PostLimit(p) \/ PostStamp(p) \/ PostWait(p)
      PROVE  Quiet
    BY <1>2 DEF PostBegin, PostCheck, PostLimit, PostStamp, PostWait, Goto, Holds,
       Frames, Inv, TypeInv, TypeOK
<1>3. ASSUME Connected \/ ConnectFailed \/ DrainBegin \/ CallbackEnd \/ HandleClose
             \/ HandleCloseEnd \/ DisconnectInLoop \/ Stop \/ Tick
      PROVE  Quiet
    BY <1>3 DEF Connected, ConnectFailed, DrainBegin, CallbackEnd, HandleClose,
       HandleCloseEnd, ConnGone, DisconnectInLoop, Stop, Tick, Frames
<1>4. ASSUME NEW s \in Sessions, RunSend(s) PROVE Quiet
    BY <1>4 DEF RunSend, Frames
<1>5. ASSUME NEW k \in Checkers, CheckEnd(k) \/ Disconnect(k)
             \/ DisconnectHere(k) \/ DisconnectPoll(k)
      PROVE  Quiet
    BY <1>5 DEF CheckEnd, Disconnect, DisconnectHere, DisconnectPoll, Frames
<1>6. ASSUME UNCHANGED vars PROVE Quiet
    BY <1>6 DEF vars, Frames
<1> HIDE DEF Quiet
<1>7. ASSUME NEW k \in Checkers, CheckTimeout(k) \/ DisconnectFlush(k) PROVE OwnInv'
  <2>1. clock \in 0 .. MaxTime /\ MaxTime \in 0 .. MaxTime
      BY SessionBounds DEF Inv, TypeInv, TypeOK, MaxClock
  <2> QED
      BY <1>7, <2>1, CheckBeginOwns DEF CheckTimeout, DisconnectFlush
<1>8. ASSUME NEW p \in Posters, PostPacket(p) PROVE OwnInv'
    BY <1>1, <1>2, <1>8, PostAllocOwns, PostArgsOwns, PostLockOwns, PostEncodeOwns
    DEF PostPacket
<1>9. ASSUME LoopStep PROVE OwnInv'
    BY <1>1, <1>3, <1>4, <1>9, PostEncodeInLoopOwns, DrainOneOwns,
       HandlePacketOwns, HandlePacketEndOwns DEF LoopStep
<1>10. ASSUME NEW k \in Checkers, CheckStep(k) PROVE OwnInv'
    BY <1>1, <1>5, <1>7, <1>10, CallChannelOwns, CheckAppendOwns, CheckQueueOwns,
       CallPacketOwns DEF CheckStep
<1> QED
    BY <1>1, <1>3, <1>6, <1>8, <1>9, <1>10 DEF Next

\* The inductive invariant holds in every state.
THEOREM Ownership == Spec => []Inv
<1>1. Init => Inv
    BY TypeInvInit, OwnInvInit DEF Inv
<1>2. Inv /\ [Next]_vars => Inv'
    BY TypeInvStep, OwnInvStep DEF Inv
<1> QED
    BY <1>1, <1>2, PTL DEF Spec

\* The handler of a request is called at most once, however replies, timeouts,
\* queue timeouts and Disconnect interleave.
THEOREM HandlersRunOnce == Spec => []CalledAtMostOnce
<1>1. Inv => CalledAtMostOnce
    BY DEF Inv, OwnInv, CallsInv, CalledAtMostOnce
<1> QED
    BY <1>1, Ownership, PTL

\* PostPacket, PostOutputQueue and CheckTimeout use the channel of a packet
\* that was not sent while nobody else can have recycled it.
THEOREM UnsentStaysOwned == Spec => []UnsentChannelIsOwned
<1>1. Inv => UnsentChannelIsOwned
    BY DEF Inv, OwnInv, PosterInv, QueueInv, PacketsInv, Kept, Holds,
       UnsentChannelIsOwned, Unsent
<1> QED
    BY <1>1, Ownership, PTL

\* A handler is given the args its own request was posted with.
THEOREM HandlersGetTheirArgs == Spec => []HandlerGetsItsArgs
<1>1. Inv => HandlerGetsItsArgs
  <2> SUFFICES ASSUME Inv PROVE HandlerGetsItsArgs
      OBVIOUS
  <2>1. \A k \in Checkers : \A s \in Elems(packets[k]) : table[s].args = s /\ calls[s] = 0
    <3> SUFFICES ASSUME NEW k \in Checkers, NEW s \in Elems(packets[k])
                 PROVE  table[s].args = s /\ calls[s] = 0
        OBVIOUS
    <3>1. Kept(s)
        BY DEF Inv, OwnInv, PacketsInv
    <3>2. s \in Sessions
        BY <3>1, NumberTypes DEF Inv, Kept, Pool!Pending
    <3> QED
        BY <3>1, <3>2 DEF Inv, OwnInv, CallsInv, Kept
  <2> QED
      BY <2>1 DEF Inv, OwnInv, ClaimInv, HandlerGetsItsArgs
<1> QED
    BY <1>1, Ownership, PTL

-----------------------------------------------------------------------------
(* Connecting against posting. *)

\* Packets are only queued without a connection, and OnConnection drains the
\* queue under the lock that every post takes.
LEMMA StrandedStep == TypeInv /\ QueueNotStranded /\ [Next]_vars => QueueNotStranded'
<1> SUFFICES ASSUME TypeInv, QueueNotStranded, [Next]_vars PROVE QueueNotStranded'
    OBVIOUS
<1> USE DEF QueueNotStranded, pool, shared, client, thread, times, post, check
<1>1. ASSUME NEW p \in Posters, PostPacket(p) PROVE QueueNotStranded'
  <2>1. CASE PostLock(p)
      BY <2>1 DEF PostLock, IsConnected
  <2>2. CASE PostBegin(p) \/ PostCheck(p) \/ PostLimit(p) \/ PostStamp(p) \/ PostAlloc(p)
             \/ PostArgs(p) \/ PostEncode(p) \/ PostWait(p)
      BY <2>2 DEF PostBegin, PostCheck, PostLimit, PostStamp, PostAlloc, PostArgs,
         PostEncode, PostWait
  <2> QED
      BY <1>1, <2>1, <2>2 DEF PostPacket
<1>2. ASSUME PostEncodeInLoop PROVE QueueNotStranded'
  <2>1. loop \notin {"drain", "draining"} /\ queue' = queue
      BY <1>2, SessionBounds DEF PostEncodeInLoop, TypeInv, LockInv
  <2>2. PICK out \in Encoded(req[Loop]) : SendInLoop(out, queue, loop)
      BY <1>2 DEF PostEncodeInLoop
  <2>3. link' = "up" => link = "up"
      BY <2>2 DEF SendInLoop, LostInSend, ConnGone, IsConnected
  <2> QED
      BY <2>1, <2>3
<1>3. ASSUME DrainOne PROVE QueueNotStranded'
  <2> DEFINE then == IF queue' = <<>> THEN "callback" ELSE "draining"
  <2>1. PICK out \in Encoded(Head(queue)) : SendInLoop(out, queue', then)
      BY <1>3 DEF DrainOne
  <2> HIDE DEF then
  <2>2. link' = "up" => loop' = then
      BY <2>1 DEF SendInLoop, LostInSend, ConnGone, IsConnected
  <2> QED
      BY <2>2 DEF then
<1>4. ASSUME Connected \/ ConnectFailed \/ DrainBegin \/ CallbackEnd \/ HandleClose
             \/ HandleCloseEnd \/ HandlePacketEnd \/ DisconnectInLoop
             \/ Stop \/ Tick
      PROVE  QueueNotStranded'
    BY <1>4 DEF Connected, ConnectFailed, DrainBegin, CallbackEnd, HandleClose,
       HandleCloseEnd, HandlePacketEnd, ConnGone, DisconnectInLoop, CloseInLoop, Stop, Tick
<1>5. ASSUME NEW s \in Sessions, RunSend(s) \/ HandlePacket(s) PROVE QueueNotStranded'
    BY <1>5 DEF RunSend, HandlePacket
<1>6. ASSUME NEW k \in Checkers, CheckQueue(k) PROVE QueueNotStranded'
  <2>1. ASSUME queue = <<>> PROVE queue' = <<>>
    <3>1. Len(queue) = 0 /\ queue \in Seq(Sessions)
        BY <2>1 DEF TypeInv, TypeOK
    <3>2. PICK n \in 0 .. Len(queue) : queue' = SubSeq(queue, n + 1, Len(queue))
        BY <1>6 DEF CheckQueue
    <3>3. n = 0
        BY <3>1, <3>2
    <3> QED
        BY <3>1, <3>2, <3>3
  <2> QED
      BY <1>6, <2>1 DEF CheckQueue
<1>7. ASSUME NEW k \in Checkers, CheckStep(k), ~ CheckQueue(k) PROVE QueueNotStranded'
  <2>1. ASSUME NEW t, CheckBegin(k, t) PROVE QueueNotStranded'
      BY <2>1 DEF CheckBegin
  <2>2. ASSUME NEW s \in Sessions, CallChannel(k, s) PROVE QueueNotStranded'
      BY <2>2 DEF CallChannel
  <2>3. CASE CheckAppend(k) \/ CallPacket(k) \/ CheckEnd(k) \/ Disconnect(k)
            \/ DisconnectHere(k) \/ DisconnectPoll(k)
      BY <2>3 DEF CheckAppend, CallPacket, CheckEnd, Disconnect, DisconnectHere,
         CloseInLoop, DisconnectPoll
  <2> QED
      BY <1>7, <2>1, <2>2, <2>3 DEF CheckStep, CheckTimeout, DisconnectFlush
<1>8. ASSUME UNCHANGED vars PROVE QueueNotStranded'
    BY <1>8 DEF vars
<1> QED
    BY <1>1, <1>2, <1>3, <1>4, <1>5, <1>6, <1>7, <1>8 DEF Next, LoopStep

\* No packet stays behind in outputQueue_ on a live connection.
THEOREM QueueIsDrained == Spec => []QueueNotStranded
<1>1. Init => QueueNotStranded
    BY DEF Init, QueueNotStranded
<1>2. Spec => []TypeInv
    BY TypeInvInit, TypeInvStep, PTL DEF Spec
<1> QED
    BY <1>1, <1>2, StrandedStep, PTL DEF Spec
=============================================================================
