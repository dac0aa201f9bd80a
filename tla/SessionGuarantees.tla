------------------------- MODULE SessionGuarantees -------------------------
(***************************************************************************)
(* Further theorems about ClientSession, on top of the ownership of         *)
(* ClientSessionProofs: what Disconnect may rely on, whom it leaves         *)
(* waiting, and how many requests the limit of the queue lets through.      *)
(***************************************************************************)
EXTENDS ClientSessionProofs, FiniteSetTheorems

-----------------------------------------------------------------------------
(* The assertions of TCPClient::DisconnectInLoop. *)

\* The calls of Disconnect that were made so far.
Begun == {k \in Closers : cpc[k] # "idle"}

\* The functors of DisconnectInLoop that wait, and the one that gave up the
\* reconnection, come from different calls of Disconnect.  A connection that
\* closes was given up by one of them, or its callback runs.
CloseInv ==
    /\ asked + (IF autoReconnect THEN 0 ELSE 1) <= Cardinality(Begun)
    /\ link = "closing" => ~ autoReconnect \/ loop \in {"down", "stuck"}

\* Where DisconnectInLoop is about to fail there were two calls: the one whose
\* functor runs, or that a handler is about to make, is not the first.
OnlySecondFails ==
    ~ DisconnectAllowed =>
        /\ loop = "idle" /\ asked > 0 => Cardinality(Begun) >= 2
        /\ loop \in {"handle", "callback"} /\ IsConnected => Cardinality(Begun) >= 1

LEMMA BegunFinite == IsFiniteSet(Begun) /\ Cardinality(Begun) \in Nat
BY ThreadSets, FS_Subset, FS_CardinalityType DEF Begun

\* No call is ever forgotten.
LEMMA BegunGrows ==
    ASSUME Begun \subseteq Begun'
    PROVE  Cardinality(Begun) <= Cardinality(Begun')
<1>1. IsFiniteSet(Begun')
    BY ThreadSets, FS_Subset DEF Begun
<1> QED
    BY <1>1, FS_Subset

\* A call that begins is one more.
LEMMA BegunAdds ==
    ASSUME TypeInv, NEW k \in Closers, cpc[k] = "idle", cpc' = [cpc EXCEPT ![k] = "poll"]
                                                  \/ cpc' = [cpc EXCEPT ![k] = "flush"]
    PROVE  Cardinality(Begun') = Cardinality(Begun) + 1
<1>1. cpc \in [Checkers -> CheckSteps] /\ k \in Checkers /\ Closers \subseteq Checkers
    BY DEF TypeInv, TypeOK, Checkers
<1>2. Begun' = Begun \cup {k} /\ k \notin Begun
    BY <1>1 DEF Begun
<1> QED
    BY <1>2, BegunFinite, FS_AddElement

\* Steps that leave the connection alone.
LEMMA CloseFrame ==
    ASSUME TypeInv, CloseInv, UNCHANGED <<asked, autoReconnect, link, loop>>, Begun \subseteq Begun'
    PROVE  CloseInv'
<1>1. Cardinality(Begun) <= Cardinality(Begun')
    BY BegunGrows
<1>2. Cardinality(Begun) \in Nat /\ Cardinality(Begun') \in Nat
    BY ThreadSets, FS_Subset, FS_CardinalityType DEF Begun
<1> QED
    BY <1>1, <1>2 DEF CloseInv, TypeInv, TypeOK

\* The callback of a connection that is lost in Send may begin a Disconnect, and
\* disturbs no other.
LEMMA SendInLoopBegins ==
    ASSUME TypeInv, NEW out, NEW q, NEW then, SendInLoop(out, q, then)
    PROVE  /\ loop' \in {then, "stuck"}
           /\ \A k \in Checkers : cpc'[k] = cpc[k] \/ (cpc[k] = "idle" /\ cpc'[k] = "flush")
<1>1. loop' \in {then, "stuck"}
    BY DEF SendInLoop, LostInSend
<1>2. cpc' = cpc \/ \E k \in LoopClosers : cpc[k] = "idle" /\ cpc' = [cpc EXCEPT ![k] = "flush"]
    BY DEF SendInLoop, LostInSend, MayClose
<1> QED
    BY <1>1, <1>2 DEF TypeInv, TypeOK

\* A Send may lose the connection, and its callback may begin a Disconnect.
LEMMA SendInLoopCloses ==
    ASSUME TypeInv, CloseInv, NEW out, NEW q, NEW then,
           loop \notin {"down", "stuck"} \/ then = loop,
           SendInLoop(out, q, then)
    PROVE  CloseInv'
<1>1. asked' = asked /\ autoReconnect' = autoReconnect
    BY DEF SendInLoop, LostInSend, ConnGone, client
<1>2. link' = "closing" => ~ autoReconnect' \/ loop' \in {"down", "stuck"}
    BY <1>1 DEF CloseInv, SendInLoop, LostInSend, ConnGone, IsConnected, client
<1>3. cpc' = cpc \/ \E k \in LoopClosers : cpc[k] = "idle" /\ cpc' = [cpc EXCEPT ![k] = "flush"]
    BY DEF SendInLoop, LostInSend, MayClose
<1>4. Begun \subseteq Begun'
    BY <1>3, SessionBounds DEF Begun, TypeInv, TypeOK, Checkers
<1>5. Cardinality(Begun) <= Cardinality(Begun')
    BY <1>4, BegunGrows
<1>6. Cardinality(Begun) \in Nat /\ Cardinality(Begun') \in Nat
    BY ThreadSets, FS_Subset, FS_CardinalityType DEF Begun
<1> QED
    BY <1>1, <1>2, <1>5, <1>6 DEF CloseInv, TypeInv, TypeOK

LEMMA CloseStep ==
    ASSUME TypeInv, CloseInv, [Next]_vars
    PROVE  CloseInv'
<1> USE DEF pool, shared, client, thread, times, post, check
<1>0. asked \in Nat /\ cpc \in [Checkers -> CheckSteps] /\ Closers \subseteq Checkers
    BY DEF TypeInv, TypeOK, Checkers
<1>1. ASSUME NEW p \in Posters, PostPacket(p) PROVE CloseInv'
  <2>1. UNCHANGED <<asked, autoReconnect, link, loop, cpc>>
      BY <1>1 DEF PostPacket, PostBegin, PostCheck, PostLimit, PostStamp, PostAlloc,
         PostArgs, PostLock, PostEncode, PostWait
  <2> QED
      BY <2>1, CloseFrame DEF Begun
<1>2. CASE PostEncodeInLoop
  <2>1. PICK out : SendInLoop(out, queue, loop)
      BY <1>2 DEF PostEncodeInLoop
  <2> QED
      BY <1>2, <2>1, SendInLoopCloses
<1>3. CASE DrainOne
  <2>1. PICK out, q, then : SendInLoop(out, q, then)
      BY <1>3 DEF DrainOne
  <2> QED
      BY <1>3, <2>1, SendInLoopCloses DEF DrainOne
<1>4. CASE Connected \/ ConnectFailed \/ DrainBegin \/ HandlePacketEnd \/ CallbackEnd \/ Stop \/ Tick
  <2>1. UNCHANGED <<asked, autoReconnect, cpc>>
      BY <1>4 DEF Connected, ConnectFailed, DrainBegin, HandlePacketEnd, CallbackEnd, Stop, Tick
  <2>2. link' = "closing" => link = "closing" /\ (loop \notin {"down", "stuck"} \/ loop' = loop)
      BY <1>4 DEF Connected, ConnectFailed, DrainBegin, HandlePacketEnd, CallbackEnd, Stop, Tick
  <2>3. Begun' = Begun
      BY <2>1 DEF Begun
  <2> QED
      BY <2>1, <2>2, <2>3 DEF CloseInv
<1>5. CASE HandleClose \/ HandleCloseEnd
    BY <1>5, SMTT(30) DEF HandleClose, HandleCloseEnd, ConnGone, CloseInv, Begun
<1>6. ASSUME NEW s \in Sessions, RunSend(s) \/ HandlePacket(s) PROVE CloseInv'
    BY <1>6 DEF RunSend, HandlePacket, CloseInv, Begun
<1>7. CASE DisconnectInLoop
  <2>1. Begun' = Begun /\ Cardinality(Begun) \in Nat
      BY <1>7, BegunFinite DEF DisconnectInLoop, Begun
  <2>2. CASE DisconnectAllowed
    <3>1. autoReconnect /\ ~ autoReconnect' /\ asked' = asked - 1
        BY <1>7, <2>2 DEF DisconnectInLoop, DisconnectAllowed, CloseInLoop
    <3> QED
        BY <1>0, <2>1, <3>1 DEF CloseInv
  <2>3. CASE ~ DisconnectAllowed
      BY <1>0, <1>7, <2>1, <2>3 DEF DisconnectInLoop, CloseInv
  <2> QED
      BY <2>2, <2>3
<1>8. ASSUME NEW k \in Checkers, CheckStep(k) PROVE CloseInv'
  <2>1. ASSUME Disconnect(k) PROVE CloseInv'
    <3>1. Cardinality(Begun') = Cardinality(Begun) + 1
        BY <2>1, BegunAdds DEF Disconnect, MayClose, Step
    <3>2. asked' \in {asked, asked + 1} /\ UNCHANGED <<autoReconnect, link, loop>>
        BY <2>1 DEF Disconnect
    <3> QED
        BY <1>0, <3>1, <3>2, BegunFinite DEF CloseInv
  <2>2. ASSUME DisconnectHere(k) PROVE CloseInv'
    <3>1. k \in Closers /\ cpc[k] = "idle"
        BY <2>2, SessionBounds DEF DisconnectHere, MayClose
    <3>2. CASE Step(k, "flush")
      <4>1. Cardinality(Begun') = Cardinality(Begun) + 1
          BY <3>1, <3>2, BegunAdds DEF Step
      <4>2. asked' = asked /\ loop' \in {loop, "crashed"}
          BY <2>2 DEF DisconnectHere
      <4>3. link' = "closing" => ~ autoReconnect' \/ loop' \in {"down", "stuck"}
          BY <2>2, <3>2 DEF DisconnectHere, CloseInLoop, IsConnected, CloseInv
      <4> QED
          BY <1>0, <4>1, <4>2, <4>3, BegunFinite DEF CloseInv
    <3>3. CASE ~ Step(k, "flush")
        BY <2>2, <3>3 DEF DisconnectHere, IsConnected, CloseInv, Begun
    <3> QED
        BY <3>2, <3>3
  <2>3. ASSUME ~ Disconnect(k), ~ DisconnectHere(k) PROVE CloseInv'
    <3>1. UNCHANGED <<asked, autoReconnect, link, loop>>
        BY <1>8, <2>3 DEF CheckStep, CheckTimeout, CheckBegin, CheckAppend, CheckQueue, CallPacket,
           CheckEnd, DisconnectPoll, DisconnectFlush, CallChannel
    <3>2. Begun \subseteq Begun'
      <4>1. CASE CheckEnd(k)
        <5>1. k \in Closers => cpc'[k] # "idle"
            BY <1>0, <4>1, ThreadSets DEF CheckEnd, Step
        <5>2. \A j \in Checkers : j # k => cpc'[j] = cpc[j]
            BY <1>0, <4>1 DEF CheckEnd, Step
        <5> QED
            BY <1>0, <5>1, <5>2 DEF Begun
      <4>2. CASE ~ CheckEnd(k)
        <5>1. \A j \in Checkers : cpc'[j] = cpc[j] \/ cpc'[j] # "idle"
            BY <1>0, <1>8, <2>3, <4>2 DEF CheckStep, CheckTimeout, CheckBegin, CheckAppend, CheckQueue,
               CallPacket, DisconnectPoll, DisconnectFlush, CallChannel, Step
        <5> QED
            BY <1>0, <5>1 DEF Begun
      <4> QED
          BY <4>1, <4>2
    <3> QED
        BY <3>1, <3>2, CloseFrame
  <2> QED
      BY <2>1, <2>2, <2>3
<1>9. CASE UNCHANGED vars
    BY <1>9, CloseFrame DEF vars, Begun
<1> QED
    BY <1>1, <1>2, <1>3, <1>4, <1>5, <1>6, <1>7, <1>8, <1>9 DEF Next, LoopStep

\* TCPClient::DisconnectInLoop fails its assertions on a second Disconnect only:
\* callbacks, failures, reconnections and Stop never make the first one fail.
THEOREM FirstDisconnectIsSafe == Spec => []OnlySecondFails
<1>1. Init => CloseInv
  <2>1. ASSUME Init PROVE CloseInv
    <3>1. asked = 0 /\ autoReconnect /\ link = "down"
        BY <2>1 DEF Init
    <3> QED
        BY <3>1, BegunFinite DEF CloseInv
  <2> QED
      BY <2>1
<1>2. TypeInv /\ CloseInv => OnlySecondFails
  <2>1. ASSUME TypeInv, CloseInv, ~ DisconnectAllowed, loop \in {"idle", "handle", "callback"}
        PROVE  ~ autoReconnect
      BY <2>1 DEF CloseInv, DisconnectAllowed
  <2>2. ASSUME TypeInv, CloseInv, ~ autoReconnect PROVE asked + 1 <= Cardinality(Begun)
      BY <2>2 DEF CloseInv
  <2>3. TypeInv => asked \in Nat
      BY DEF TypeInv, TypeOK
  <2> QED
      BY <2>1, <2>2, <2>3, BegunFinite DEF OnlySecondFails
<1>3. Spec => []TypeInv
    BY TypeInvInit, TypeInvStep, PTL DEF Spec
<1>4. TypeInv /\ CloseInv /\ [Next]_vars => CloseInv'
    BY CloseStep
<1> QED
    BY <1>1, <1>2, <1>3, <1>4, PTL DEF Spec

-----------------------------------------------------------------------------
(* Whom Disconnect leaves waiting. *)

\* No connection is up and none will come up again.
Closed == ~ autoReconnect /\ dialing = "no" /\ link # "up" /\ loop # "draining"

\* Request s has had its handler called, or a checker is about to call it.
Ended(s) == calls[s] = 1 \/ \E j \in Checkers : s \in claimed[j] \cup Elems(packets[j])

\* A checker holds requests only in the step that calls their handlers.
PhaseInv ==
    /\ loop = "drain" => link = "up"
    /\ \A k \in Checkers : /\ claimed[k] # {} => cpc[k] = "channels"
                           /\ packets[k] # <<>> => cpc[k] = "packets"

\* A request is never forgotten.
LostInv == \A s \in Sessions : s <= fetched => Ended(s) \/ s \in Pool!Pending

\* A flush of the closed session still gets to what it has to end.
OwedInv == \A k \in Checkers : owed[k] # {} =>
              /\ Closed
              /\ cpc[k] \in {"channels", "queue"} => now[k] = MaxTime
              /\ \A s \in owed[k] : \/ Ended(s)
                                    \/ cpc[k] \in {"channels", "queue"} /\ s \in Elems(queue)

LEMMA PhaseStep ==
    ASSUME TypeInv, PhaseInv, [Next]_vars
    PROVE  PhaseInv'
<1> USE DEF pool, shared, client, thread, times, post, check
<1>0. /\ cpc \in [Checkers -> CheckSteps] /\ claimed \in [Checkers -> SUBSET Sessions]
      /\ packets \in [Checkers -> Seq(Sessions)]
    BY DEF TypeInv, TypeOK
<1>1. ASSUME NEW p \in Posters, PostPacket(p) PROVE PhaseInv'
    BY <1>1 DEF PostPacket, PostBegin, PostCheck, PostLimit, PostStamp, PostAlloc,
       PostArgs, PostLock, PostEncode, PostWait, PhaseInv
<1>2. CASE PostEncodeInLoop
  <2>1. loop # "drain"
      BY <1>2, SessionBounds DEF PostEncodeInLoop, TypeInv, LockInv
  <2>2. PICK out : SendInLoop(out, queue, loop)
      BY <1>2 DEF PostEncodeInLoop
  <2>3. /\ loop' \in {loop, "stuck"}
        /\ \A k \in Checkers : cpc'[k] = cpc[k] \/ (cpc[k] = "idle" /\ cpc'[k] = "flush")
      BY <2>2, SendInLoopBegins
  <2> QED
      BY <1>2, <2>1, <2>3 DEF PostEncodeInLoop, PhaseInv
<1>3. CASE DrainOne
  <2>1. PICK out, q : SendInLoop(out, q, IF queue' = <<>> THEN "callback" ELSE "draining")
      BY <1>3 DEF DrainOne
  <2>2. /\ loop' # "drain"
        /\ \A k \in Checkers : cpc'[k] = cpc[k] \/ (cpc[k] = "idle" /\ cpc'[k] = "flush")
      BY <2>1, SendInLoopBegins
  <2> QED
      BY <1>3, <2>2 DEF DrainOne, PhaseInv
<1>4. CASE Connected \/ ConnectFailed \/ DrainBegin \/ HandlePacketEnd \/ CallbackEnd \/ Stop \/ Tick
           \/ HandleClose \/ HandleCloseEnd \/ DisconnectInLoop
    BY <1>4 DEF Connected, ConnectFailed, DrainBegin, HandlePacketEnd, CallbackEnd, Stop, Tick,
       HandleClose, HandleCloseEnd, ConnGone, DisconnectInLoop, PhaseInv
<1>5. ASSUME NEW s \in Sessions, RunSend(s) \/ HandlePacket(s) PROVE PhaseInv'
    BY <1>5 DEF RunSend, HandlePacket, PhaseInv
<1>6. ASSUME NEW k \in Checkers, CheckStep(k) PROVE PhaseInv'
  <2>1. ASSUME NEW t, cpc[k] \in {"idle", "flush"}, CheckBegin(k, t) PROVE PhaseInv'
    <3>1. packets[k] = <<>> /\ UNCHANGED <<loop, link, packets>>
        BY <2>1 DEF CheckBegin, PhaseInv
    <3> QED
        BY <1>0, <2>1, <3>1 DEF CheckBegin, Step, PhaseInv
  <2>2. CASE CheckAppend(k)
    <3>1. packets[k] = <<>> /\ claimed'[k] = {}
        BY <1>0, <2>2 DEF CheckAppend, PhaseInv
    <3> QED
        BY <1>0, <2>2, <3>1 DEF CheckAppend, Step, PhaseInv
  <2>3. CASE CheckQueue(k)
    <3>1. claimed[k] = {} /\ UNCHANGED <<loop, link, claimed>>
        BY <2>3 DEF CheckQueue, PhaseInv
    <3>2. cpc' = [cpc EXCEPT ![k] = "packets"] /\ \A j \in Checkers : j # k => packets'[j] = packets[j]
        BY <1>0, <2>3 DEF CheckQueue, Step
    <3> QED
        BY <1>0, <3>1, <3>2 DEF PhaseInv
  <2>4. CASE CallPacket(k)
    <3>1. UNCHANGED <<loop, link, claimed, cpc>> /\ \A j \in Checkers : j # k => packets'[j] = packets[j]
        BY <1>0, <2>4 DEF CallPacket
    <3>2. cpc[k] = "packets"
        BY <2>4 DEF CallPacket
    <3> QED
        BY <1>0, <3>1, <3>2 DEF PhaseInv
  <2>5. CASE CheckEnd(k)
    <3>1. claimed[k] = {} /\ packets[k] = <<>>
        BY <2>5 DEF CheckEnd, PhaseInv
    <3> QED
        BY <1>0, <2>5, <3>1 DEF CheckEnd, Step, PhaseInv
  <2>6. CASE Disconnect(k) \/ DisconnectHere(k) \/ DisconnectPoll(k)
    <3>1. claimed[k] = {} /\ packets[k] = <<>> /\ UNCHANGED <<claimed, packets>>
        BY <2>6 DEF Disconnect, DisconnectHere, DisconnectPoll, MayClose, PhaseInv
    <3>2. \A j \in Checkers : j # k => cpc'[j] = cpc[j]
        BY <1>0, <2>6 DEF Disconnect, DisconnectHere, DisconnectPoll, Step
    <3>3. loop' \in {loop, "crashed"} /\ (loop = "drain" => link' = link)
        BY <2>6 DEF Disconnect, DisconnectHere, DisconnectPoll
    <3> QED
        BY <1>0, <3>1, <3>2, <3>3 DEF PhaseInv
  <2>7. ASSUME NEW s \in Sessions, CallChannel(k, s) PROVE PhaseInv'
      BY <2>7 DEF CallChannel, PhaseInv
  <2> QED
      BY <1>6, <2>1, <2>2, <2>3, <2>4, <2>5, <2>6, <2>7 DEF CheckStep, CheckTimeout, DisconnectFlush
<1>7. CASE UNCHANGED vars
    BY <1>7 DEF vars, PhaseInv
<1> QED
    BY <1>1, <1>2, <1>3, <1>4, <1>5, <1>6, <1>7 DEF Next, LoopStep

\* A session that is closed for good stays so.
LEMMA ClosedStays ==
    ASSUME TypeInv, PhaseInv, Closed, [Next]_vars
    PROVE  Closed'
<1> USE DEF pool, shared, client, thread, times, post, check
<1>1. ASSUME NEW p \in Posters, PostPacket(p) PROVE Closed'
    BY <1>1 DEF PostPacket, PostBegin, PostCheck, PostLimit, PostStamp, PostAlloc,
       PostArgs, PostLock, PostEncode, PostWait, Closed
<1>2. CASE PostEncodeInLoop
    BY <1>2 DEF PostEncodeInLoop, SendInLoop, ConnGone, IsConnected, Closed
<1>3. CASE DrainOne
    BY <1>3 DEF DrainOne, Closed
<1>4. CASE Connected \/ ConnectFailed \/ DrainBegin \/ HandlePacketEnd \/ CallbackEnd \/ Stop \/ Tick
           \/ HandleClose \/ HandleCloseEnd \/ DisconnectInLoop
    BY <1>4 DEF Connected, ConnectFailed, DrainBegin, HandlePacketEnd, CallbackEnd, Stop, Tick,
       HandleClose, HandleCloseEnd, ConnGone, DisconnectInLoop, CloseInLoop, PhaseInv, Closed
<1>5. ASSUME NEW s \in Sessions, RunSend(s) \/ HandlePacket(s) PROVE Closed'
    BY <1>5 DEF RunSend, HandlePacket, Closed
<1>6. ASSUME NEW k \in Checkers, CheckStep(k) PROVE Closed'
  <2>1. CASE DisconnectHere(k)
    <3>1. UNCHANGED <<autoReconnect, link, dialing, loop>>
        BY <2>1 DEF DisconnectHere, IsConnected, Closed
    <3> QED
        BY <3>1 DEF Closed
  <2>2. CASE ~ DisconnectHere(k)
    <3>1. UNCHANGED <<autoReconnect, dialing, link, loop>>
        BY <1>6, <2>2 DEF CheckStep, CheckTimeout, CheckBegin, CheckAppend, CheckQueue, CallPacket,
           CheckEnd, Disconnect, DisconnectPoll, DisconnectFlush, CallChannel
    <3> QED
        BY <3>1 DEF Closed
  <2> QED
      BY <2>1, <2>2
<1>7. CASE UNCHANGED vars
    BY <1>7 DEF vars, Closed
<1> QED
    BY <1>1, <1>2, <1>3, <1>4, <1>5, <1>6, <1>7 DEF Next, LoopStep

\* Calls are counted up, and not beyond one.
LEMMA CallsGrow ==
    ASSUME Inv, Inv', [Next]_vars, NEW s \in Sessions, calls[s] = 1
    PROVE  calls'[s] = 1
<1> USE DEF pool, shared, client, thread, times, post, check
<1>1. calls \in [Sessions -> Nat] /\ calls' \in [Sessions -> Nat] /\ calls'[s] <= 1
    BY DEF Inv, TypeInv, TypeOK, OwnInv, CallsInv
<1>2. \/ calls' = calls
      \/ \E r : calls' = [calls EXCEPT ![r] = @ + 1]
  <2>1. ASSUME NEW p \in Posters, PostPacket(p) PROVE calls' = calls
      BY <2>1 DEF PostPacket, PostBegin, PostCheck, PostLimit, PostStamp, PostAlloc,
         PostArgs, PostLock, PostEncode, PostWait
  <2>2. CASE PostEncodeInLoop \/ DrainOne \/ Connected \/ ConnectFailed \/ DrainBegin \/ HandlePacketEnd
             \/ CallbackEnd \/ Stop \/ Tick \/ HandleClose \/ HandleCloseEnd \/ DisconnectInLoop
      BY <2>2 DEF PostEncodeInLoop, DrainOne, Connected, ConnectFailed, DrainBegin, HandlePacketEnd,
         CallbackEnd, Stop, Tick, HandleClose, HandleCloseEnd, DisconnectInLoop
  <2>3. ASSUME NEW r \in Sessions, RunSend(r) \/ HandlePacket(r)
        PROVE  calls' = calls \/ calls' = [calls EXCEPT ![r] = @ + 1]
      BY <2>3 DEF RunSend, HandlePacket
  <2>4. ASSUME NEW k \in Checkers, CallPacket(k)
        PROVE  calls' = [calls EXCEPT ![Head(packets[k])] = @ + 1]
      BY <2>4 DEF CallPacket
  <2>5. ASSUME NEW k \in Checkers, NEW r \in Sessions, CallChannel(k, r)
        PROVE  calls' = [calls EXCEPT ![r] = @ + 1]
      BY <2>5 DEF CallChannel
  <2>6. ASSUME NEW k \in Checkers, CheckTimeout(k) \/ CheckAppend(k) \/ CheckQueue(k) \/ CheckEnd(k)
               \/ Disconnect(k) \/ DisconnectHere(k) \/ DisconnectPoll(k) \/ DisconnectFlush(k)
        PROVE  calls' = calls
      BY <2>6 DEF CheckTimeout, CheckBegin, CheckAppend, CheckQueue, CheckEnd, Disconnect,
         DisconnectHere, DisconnectPoll, DisconnectFlush
  <2>7. CASE UNCHANGED vars
      BY <2>7 DEF vars
  <2> QED
      BY <2>1, <2>2, <2>3, <2>4, <2>5, <2>6, <2>7 DEF Next, LoopStep, CheckStep
<1>3. CASE calls' = calls
    BY <1>3
<1>4. ASSUME NEW r, calls' = [calls EXCEPT ![r] = @ + 1] PROVE calls'[s] = 1
  <2>1. CASE r = s
    <3>1. calls'[s] = 2
        BY <1>1, <1>4, <2>1
    <3> QED
        BY <1>1, <3>1
  <2>2. CASE r # s
      BY <1>1, <1>4, <2>2
  <2> QED
      BY <2>1, <2>2
<1> QED
    BY <1>2, <1>3, <1>4

\* The handlers of a timeout list were called before AppendFreeList.
LEMMA AppendedAreCalled ==
    ASSUME Inv, NEW k \in Checkers, CheckAppend(k), NEW s \in claimed[k]
    PROVE  calls[s] = 1
<1>1. s \in Sessions /\ s # 0 /\ calls[s] \in Nat /\ calls[s] <= 1
    BY DEF Inv, TypeInv, TypeOK, OwnInv, CallsInv, Sessions
<1>2. table[s].args = 0
    BY DEF CheckAppend, Pool!NoArgs
<1>3. table[s].args = IF calls[s] = 0 THEN s ELSE 0
    BY DEF Inv, OwnInv, ClaimInv
<1> QED
    BY <1>1, <1>2, <1>3

\* The next packet of a list of timed-out packets is called.
LEMMA NextIsCalled ==
    ASSUME Inv, NEW k \in Checkers, CallPacket(k)
    PROVE  /\ Head(packets[k]) \in Sessions /\ Head(packets[k]) \in Elems(packets[k])
           /\ Elems(packets[k]) \subseteq {Head(packets[k])} \cup Elems(packets'[k])
           /\ calls'[Head(packets[k])] = 1
           /\ Pool!Pending' = Pool!Pending \ {Head(packets[k])}
<1> DEFINE q == packets[k]
           r == Head(q)
<1>1. q \in Seq(Sessions) /\ q # <<>>
    BY DEF Inv, TypeInv, TypeOK, CallPacket
<1>2. packets'[k] = Tail(q)
    BY DEF Inv, TypeInv, TypeOK, CallPacket
<1>3. r \in Elems(q)
    BY ONLY <1>1, TailFacts
<1>4. r \in Sessions
    BY ONLY <1>1
<1>5. Elems(q) \subseteq {r} \cup Elems(Tail(q))
  <2> HIDE DEF q
  <2>1. /\ Len(q) \in Nat \ {0} /\ DOMAIN q = 1 .. Len(q) /\ r = q[1]
        /\ DOMAIN Tail(q) = 1 .. Len(q) - 1
        /\ \A i \in 1 .. Len(q) - 1 : Tail(q)[i] = q[i + 1]
      BY ONLY <1>1
  <2> SUFFICES ASSUME NEW i \in DOMAIN q, i # 1 PROVE q[i] \in Elems(Tail(q))
      BY <2>1 DEF Elems
  <2>2. i - 1 \in 1 .. Len(q) - 1 /\ (i - 1) + 1 = i
      BY <2>1
  <2>3. Tail(q)[i - 1] = q[i]
      BY <2>1, <2>2
  <2> QED
      BY <2>1, <2>2, <2>3 DEF Elems
<1>6. Kept(r)
    BY <1>3 DEF Inv, OwnInv, PacketsInv
<1>7. calls[r] = 0
    BY <1>4, <1>6 DEF Inv, OwnInv, CallsInv, Kept
<1>8. calls'[r] = 1
    BY <1>4, <1>7 DEF Inv, TypeInv, TypeOK, CallPacket
<1>9. Pool!Pending' = Pool!Pending \ {r}
  <2>1. {r} \cap Pool!Pending = {r}
      BY <1>6 DEF Kept
  <2>2. table' = Pool!Without({r}) /\ fetched' = fetched
      BY <2>1 DEF CallPacket, Pool!FreeChannel
  <2>3. DOMAIN table' = DOMAIN table \ {r} /\ \A s \in DOMAIN table \ {r} : table'[s] = table[s]
      BY <2>2, WithoutFacts DEF Inv, TypeInv, TypeOK
  <2> QED
      BY <2>3 DEF Pool!Pending
<1> QED
    BY <1>2, <1>3, <1>4, <1>5, <1>8, <1>9

\* A request that ended, or is about to, stays so.
LEMMA EndedStays ==
    ASSUME Inv, Inv', PhaseInv, [Next]_vars, NEW s \in Sessions, Ended(s)
    PROVE  Ended(s)'
<1> USE DEF pool, shared, client, thread, times, post, check
<1>1. CASE calls[s] = 1
    BY <1>1, CallsGrow DEF Ended
<1>2. ASSUME NEW j \in Checkers, s \in claimed[j] \cup Elems(packets[j]) PROVE Ended(s)'
  <2>0. claimed \in [Checkers -> SUBSET Sessions] /\ packets \in [Checkers -> Seq(Sessions)]
      BY DEF Inv, TypeInv, TypeOK
  <2>00. Elems(<<>>) = {}
      BY DEF Elems
  <2>1. CASE claimed'[j] = claimed[j] /\ packets'[j] = packets[j]
    <3>1. s \in claimed'[j] \cup Elems(packets'[j])
        BY <1>2, <2>1
    <3> QED
        BY <3>1 DEF Ended
  <2>2. CASE CheckAppend(j)
    <3>1. CASE s \in claimed[j]
      <4>1. calls[s] = 1 /\ calls' = calls
          BY <2>2, <3>1, AppendedAreCalled DEF CheckAppend
      <4> QED
          BY <4>1 DEF Ended
    <3>2. CASE s \in Elems(packets[j])
      <4>1. packets' = packets
          BY <2>2 DEF CheckAppend
      <4> QED
          BY <3>2, <4>1 DEF Ended
    <3> QED
        BY <1>2, <3>1, <3>2
  <2>3. CASE CallPacket(j)
    <3>1. CASE s = Head(packets[j])
      <4>1. calls'[s] = 1
          BY <2>3, <3>1, NextIsCalled
      <4> QED
          BY <4>1 DEF Ended
    <3>2. CASE s # Head(packets[j])
      <4>1. s \in claimed'[j] \cup Elems(packets'[j])
          BY <1>2, <2>3, <3>2, NextIsCalled DEF CallPacket
      <4> QED
          BY <4>1 DEF Ended
    <3> QED
        BY <3>1, <3>2
  <2>4. ASSUME NEW t, cpc[j] \in {"idle", "flush"}, CheckBegin(j, t) PROVE Ended(s)'
    <3>1. claimed[j] = {} /\ packets[j] = <<>>
        BY <2>4 DEF PhaseInv
    <3> QED
        BY <1>2, <2>00, <3>1
  <2>5. CASE CheckQueue(j)
    <3>1. claimed[j] = {} /\ packets[j] = <<>>
        BY <2>5 DEF PhaseInv, CheckQueue
    <3> QED
        BY <1>2, <2>00, <3>1
  <2>6. ASSUME NEW p \in Posters, PostPacket(p) PROVE UNCHANGED <<claimed, packets>>
      BY <2>6 DEF PostPacket, PostBegin, PostCheck, PostLimit, PostStamp, PostAlloc,
         PostArgs, PostLock, PostEncode, PostWait
  <2>7. ASSUME LoopStep \/ Tick PROVE UNCHANGED <<claimed, packets>>
    <3>1. CASE PostEncodeInLoop \/ DrainOne \/ Connected \/ ConnectFailed \/ DrainBegin \/ HandlePacketEnd
               \/ CallbackEnd \/ Stop \/ Tick \/ HandleClose \/ HandleCloseEnd \/ DisconnectInLoop
        BY <3>1 DEF PostEncodeInLoop, DrainOne, Connected, ConnectFailed, DrainBegin, HandlePacketEnd,
           CallbackEnd, Stop, Tick, HandleClose, HandleCloseEnd, DisconnectInLoop
    <3>2. ASSUME NEW r \in Sessions, RunSend(r) \/ HandlePacket(r) PROVE UNCHANGED <<claimed, packets>>
        BY <3>2 DEF RunSend, HandlePacket
    <3> QED
        BY <2>7, <3>1, <3>2 DEF LoopStep
  <2>8. ASSUME NEW k \in Checkers, CheckStep(k), k # j
        PROVE  claimed'[j] = claimed[j] /\ packets'[j] = packets[j]
      BY <2>0, <2>8 DEF CheckStep, CheckTimeout, CheckBegin, CheckAppend, CheckQueue, CallPacket, CheckEnd,
         Disconnect, DisconnectHere, DisconnectPoll, DisconnectFlush, CallChannel
  <2>9. ASSUME CheckEnd(j) \/ Disconnect(j) \/ DisconnectHere(j) \/ DisconnectPoll(j)
               \/ \E r \in Sessions : CallChannel(j, r)
        PROVE  UNCHANGED <<claimed, packets>>
      BY <2>9 DEF CheckEnd, Disconnect, DisconnectHere, DisconnectPoll, CallChannel
  <2>10. ASSUME CheckStep(j) PROVE Ended(s)'
      BY <2>1, <2>2, <2>3, <2>4, <2>5, <2>9, <2>10 DEF CheckStep, CheckTimeout, DisconnectFlush
  <2>11. CASE UNCHANGED vars
      BY <2>1, <2>11 DEF vars
  <2> QED
      BY <2>1, <2>6, <2>7, <2>8, <2>10, <2>11 DEF Next
<1> QED
    BY <1>1, <1>2 DEF Ended

\* A pending request stays pending, or is claimed by the one who ends it.
LEMMA PendingGoesOn ==
    ASSUME Inv, Inv', [Next]_vars, NEW s \in Pool!Pending
    PROVE  s \in Pool!Pending' \/ Ended(s)'
<1> USE DEF pool, shared, client, thread, times, post, check
<1>0. Pool!TypeOK /\ s \in Sessions /\ s \in DOMAIN table /\ ~ table[s].taken
    BY NumberTypes DEF Inv, TypeInv, TypeOK, Pool!Pending
<1>1. CASE table' = table
    BY <1>0, <1>1 DEF Pool!Pending
<1>2. ASSUME NEW p \in Posters, PostPacket(p) PROVE s \in Pool!Pending'
  <2>1. CASE PostAlloc(p)
    <3>1. DOMAIN table' = DOMAIN table \cup {fetched'} /\ table'[s] = table[s]
        BY <1>0, <2>1, AllocFacts DEF PostAlloc
    <3> QED
        BY <1>0, <3>1 DEF Pool!Pending
  <2>2. CASE PostArgs(p)
    <3>1. req[p] \in Sessions /\ req[p] \in 0 .. MaxFetch
        BY <2>2 DEF Inv, TypeInv, TypeOK, ReqInv, Holds, PostArgs
    <3>2. Pool!SetArgs(req[p], req[p])
        BY <2>2 DEF PostArgs
    <3>3. /\ DOMAIN table' = DOMAIN table /\ \A r \in DOMAIN table : r # req[p] => table'[r] = table[r]
          /\ table'[req[p]].taken = table[req[p]].taken
        BY <1>0, <3>1, <3>2, SetArgsFacts
    <3> QED
        BY <1>0, <3>3 DEF Pool!Pending
  <2>3. CASE PostEncode(p)
    <3>1. req[p] \in Sessions /\ deadline[req[p]] \in 0 .. MaxClock
        BY <2>3 DEF Inv, TypeInv, TypeOK, ReqInv, Holds, PostEncode
    <3>2. Pool!SetExpireTime(req[p], deadline[req[p]])
        BY <2>3 DEF PostEncode
    <3>3. /\ DOMAIN table' = DOMAIN table /\ \A r \in DOMAIN table : r # req[p] => table'[r] = table[r]
          /\ table'[req[p]].taken = table[req[p]].taken
        BY <1>0, <3>1, <3>2, SetExpireFacts
    <3> QED
        BY <1>0, <3>3 DEF Pool!Pending
  <2>4. CASE PostBegin(p) \/ PostCheck(p) \/ PostLimit(p) \/ PostStamp(p) \/ PostLock(p) \/ PostWait(p)
    <3>1. table' = table
        BY <2>4 DEF PostBegin, PostCheck, PostLimit, PostStamp, PostLock, PostWait
    <3> QED
        BY <1>0, <3>1 DEF Pool!Pending
  <2> QED
      BY <1>2, <2>1, <2>2, <2>3, <2>4 DEF PostPacket
<1>3. ASSUME NEW r \in Sessions, NEW t \in 0 .. MaxClock, Pool!SetExpireTime(r, t) PROVE s \in Pool!Pending'
  <2>1. /\ DOMAIN table' = DOMAIN table /\ \A x \in DOMAIN table : x # r => table'[x] = table[x]
        /\ table'[r].taken = table[r].taken
      BY <1>0, <1>3, SetExpireFacts
  <2> QED
      BY <1>0, <2>1 DEF Pool!Pending
<1>4. CASE PostEncodeInLoop
  <2>1. req[Loop] \in Sessions /\ deadline[req[Loop]] \in 0 .. MaxClock
      BY <1>4 DEF Inv, TypeInv, TypeOK, ReqInv, Holds, PostEncodeInLoop, Posters
  <2> QED
      BY <1>3, <1>4, <2>1 DEF PostEncodeInLoop
<1>5. CASE DrainOne
  <2>1. queue \in Seq(Sessions) /\ queue # <<>>
      BY <1>5 DEF Inv, TypeInv, TypeOK, LockInv, DrainOne
  <2>2. Head(queue) \in Sessions
      BY ONLY <2>1
  <2>3. deadline[Head(queue)] \in 0 .. MaxClock
      BY <2>2 DEF Inv, TypeInv, TypeOK
  <2> QED
      BY <1>3, <1>5, <2>2, <2>3 DEF DrainOne
<1>6. CASE Connected \/ ConnectFailed \/ DrainBegin \/ CallbackEnd \/ Stop \/ Tick
           \/ HandleClose \/ HandleCloseEnd \/ DisconnectInLoop
  <2>1. table' = table
      BY <1>6 DEF Connected, ConnectFailed, DrainBegin, CallbackEnd, Stop, Tick,
         HandleClose, HandleCloseEnd, DisconnectInLoop
  <2> QED
      BY <1>1, <2>1
<1>7. CASE HandlePacketEnd
  <2>1. {handled} \subseteq Pool!Taken /\ table' = Pool!Without({handled}) /\ fetched' = fetched
      BY <1>7 DEF HandlePacketEnd, Pool!Recycle
  <2>2. DOMAIN table' = DOMAIN table \ {handled} /\ \A x \in DOMAIN table \ {handled} : table'[x] = table[x]
      BY <1>0, <2>1, WithoutFacts
  <2> QED
      BY <1>0, <2>1, <2>2 DEF Pool!Pending, Pool!Taken
<1>8. ASSUME NEW r \in Sessions, HandlePacket(r) PROVE s \in Pool!Pending' \/ Ended(s)'
  <2>1. table' = Pool!Claim({r}) /\ fetched' = fetched
      BY <1>8 DEF HandlePacket, Pool!OfferChannel
  <2>2. /\ DOMAIN table' = DOMAIN table
        /\ \A x \in DOMAIN table : table'[x].taken = (x \in {r} \/ table[x].taken)
      BY <1>0, <2>1, ClaimFacts
  <2>3. CASE s = r
    <3>1. calls[s] = 0
        BY <1>0 DEF Inv, OwnInv, CallsInv
    <3>2. calls'[s] = 1
        BY <1>0, <1>8, <2>3, <3>1 DEF HandlePacket, Inv, TypeInv, TypeOK
    <3> QED
        BY <3>2 DEF Ended
  <2>4. CASE s # r
      BY <1>0, <2>2, <2>4 DEF Pool!Pending
  <2> QED
      BY <2>3, <2>4
<1>9. ASSUME NEW r \in Sessions, RunSend(r) PROVE s \in Pool!Pending' \/ Ended(s)'
    BY <1>1, <1>9 DEF RunSend
<1>10. ASSUME NEW k \in Checkers, CheckStep(k) PROVE s \in Pool!Pending' \/ Ended(s)'
  <2>1. ASSUME NEW t, CheckBegin(k, t) PROVE s \in Pool!Pending' \/ Ended(s)'
    <3> DEFINE S == Pool!Overdue(t)
    <3>1. table' = Pool!Claim(S) /\ fetched' = fetched
        BY <2>1 DEF CheckBegin, Pool!GetTimeoutList
    <3>2. claimed'[k] = S
        BY <2>1 DEF CheckBegin, Inv, TypeInv, TypeOK
    <3> HIDE DEF S
    <3>3. /\ DOMAIN table' = DOMAIN table
          /\ \A x \in DOMAIN table : table'[x].taken = (x \in S \/ table[x].taken)
        BY <1>0, <3>1, ClaimFacts
    <3>4. CASE s \in S
      <4>1. s \in claimed'[k]
          BY <3>2, <3>4
      <4> QED
          BY <4>1 DEF Ended
    <3>5. CASE s \notin S
        BY <1>0, <3>3, <3>5 DEF Pool!Pending
    <3> QED
        BY <3>4, <3>5
  <2>2. CASE CheckAppend(k)
    <3>1. claimed[k] \subseteq Pool!Taken /\ table' = Pool!Without(claimed[k]) /\ fetched' = fetched
        BY <2>2 DEF CheckAppend, Pool!Recycle
    <3>2. DOMAIN table' = DOMAIN table \ claimed[k] /\ \A x \in DOMAIN table \ claimed[k] : table'[x] = table[x]
        BY <1>0, <3>1, WithoutFacts
    <3> QED
        BY <1>0, <3>1, <3>2 DEF Pool!Pending, Pool!Taken
  <2>3. CASE CallPacket(k)
    <3>1. CASE s = Head(packets[k])
      <4>1. calls'[s] = 1
          BY <2>3, <3>1, NextIsCalled
      <4> QED
          BY <4>1 DEF Ended
    <3>2. CASE s # Head(packets[k])
        BY <2>3, <3>2, NextIsCalled
    <3> QED
        BY <3>1, <3>2
  <2>4. ASSUME NEW r \in Sessions, CallChannel(k, r) PROVE s \in Pool!Pending'
    <3>1. Pool!SetArgs(r, Pool!NoArgs) /\ Pool!NoArgs \in 0 .. MaxFetch
        BY <2>4, SessionBounds DEF CallChannel, Pool!NoArgs
    <3>2. /\ DOMAIN table' = DOMAIN table /\ \A x \in DOMAIN table : x # r => table'[x] = table[x]
          /\ table'[r].taken = table[r].taken
        BY <1>0, <3>1, SetArgsFacts
    <3> QED
        BY <1>0, <3>2 DEF Pool!Pending
  <2>5. CASE CheckQueue(k) \/ CheckEnd(k) \/ Disconnect(k) \/ DisconnectHere(k) \/ DisconnectPoll(k)
    <3>1. table' = table
        BY <2>5 DEF CheckQueue, CheckEnd, Disconnect, DisconnectHere, DisconnectPoll
    <3> QED
        BY <1>1, <3>1
  <2> QED
      BY <1>10, <2>1, <2>2, <2>3, <2>4, <2>5 DEF CheckStep, CheckTimeout, DisconnectFlush
<1>11. CASE UNCHANGED vars
    BY <1>1, <1>11 DEF vars
<1> QED
    BY <1>2, <1>4, <1>5, <1>6, <1>7, <1>8, <1>9, <1>10, <1>11 DEF Next, LoopStep

LEMMA LostStep ==
    ASSUME Inv, Inv', PhaseInv, LostInv, [Next]_vars
    PROVE  LostInv'
<1> USE DEF pool, shared, client, thread, times, post, check
<1> SUFFICES ASSUME NEW s \in Sessions, s <= fetched' PROVE Ended(s)' \/ s \in Pool!Pending'
    BY DEF LostInv
<1>1. CASE s <= fetched
    BY <1>1, EndedStays, PendingGoesOn DEF LostInv
<1>2. CASE ~ (s <= fetched)
  <2>1. fetched \in Nat /\ s \in Nat
      BY NumberTypes DEF Inv
  <2>2. CASE fetched' = fetched
      BY <1>2, <2>2
  <2>3. ASSUME NEW p \in Posters, PostAlloc(p) PROVE s \in Pool!Pending'
    <3>1. /\ fetched' = fetched + 1 /\ DOMAIN table' = DOMAIN table \cup {fetched'}
          /\ (fetched' \notin DOMAIN table =>
                 table'[fetched'] = [expire |-> Pool!Never, args |-> 0, taken |-> FALSE])
        BY <2>3, AllocFacts DEF PostAlloc, Inv, TypeInv, TypeOK
    <3>2. s = fetched'
        BY <1>2, <2>1, <3>1
    <3>3. fetched' \notin DOMAIN table
        BY <1>2, <3>2 DEF Inv, OwnInv, NumbersInv
    <3> QED
        BY <3>1, <3>2, <3>3 DEF Pool!Pending
  <2>4. ASSUME NEW p \in Posters, PostPacket(p), ~ PostAlloc(p) PROVE fetched' = fetched
      BY <2>4 DEF PostPacket, PostBegin, PostCheck, PostLimit, PostStamp, PostArgs, PostLock, PostEncode,
         PostWait, Pool!SetArgs, Pool!SetExpireTime
  <2>5. ASSUME LoopStep \/ Tick PROVE fetched' = fetched
    <3>1. CASE PostEncodeInLoop \/ DrainOne \/ Connected \/ ConnectFailed \/ DrainBegin \/ HandlePacketEnd
               \/ CallbackEnd \/ Stop \/ Tick \/ HandleClose \/ HandleCloseEnd \/ DisconnectInLoop
        BY <3>1 DEF PostEncodeInLoop, DrainOne, Connected, ConnectFailed, DrainBegin, HandlePacketEnd,
           CallbackEnd, Stop, Tick, HandleClose, HandleCloseEnd, DisconnectInLoop, Pool!SetExpireTime, Pool!Recycle
    <3>2. ASSUME NEW r \in Sessions, RunSend(r) \/ HandlePacket(r) PROVE fetched' = fetched
        BY <3>2 DEF RunSend, HandlePacket, Pool!OfferChannel
    <3> QED
        BY <2>5, <3>1, <3>2 DEF LoopStep
  <2>6. ASSUME NEW k \in Checkers, CheckStep(k) PROVE fetched' = fetched
      BY <2>6 DEF CheckStep, CheckTimeout, CheckBegin, CheckAppend, CheckQueue, CallPacket, CheckEnd,
         Disconnect, DisconnectHere, DisconnectPoll, DisconnectFlush, CallChannel, Pool!GetTimeoutList,
         Pool!Recycle, Pool!FreeChannel, Pool!SetArgs
  <2>7. CASE UNCHANGED vars
      BY <2>2, <2>7 DEF vars
  <2> QED
      BY <2>2, <2>3, <2>4, <2>5, <2>6, <2>7 DEF Next
<1> QED
    BY <1>1, <1>2

\* The queue's GetTimeoutList takes packets or leaves them.
LEMMA QueueSplits ==
    ASSUME TypeInv, NEW k \in Checkers, CheckQueue(k)
    PROVE  /\ Elems(queue) \subseteq Elems(packets'[k]) \cup Elems(queue')
           /\ now[k] = MaxTime => Elems(queue) \subseteq Elems(packets'[k])
<1>1. queue \in Seq(Sessions) /\ Len(queue) \in Nat /\ DOMAIN queue = 1 .. Len(queue)
    BY DEF TypeInv, TypeOK
<1>2. PICK n \in 0 .. Len(queue) :
          /\ n < Len(queue) => deadline[queue[n + 1]] >= now[k]
          /\ packets' = [packets EXCEPT ![k] = SubSeq(queue, 1, n)]
          /\ queue' = SubSeq(queue, n + 1, Len(queue))
    BY DEF CheckQueue
<1> DEFINE front == SubSeq(queue, 1, n)
           rest == SubSeq(queue, n + 1, Len(queue))
<1>3. packets'[k] = front /\ queue' = rest
    BY <1>2 DEF TypeInv, TypeOK
<1>4. /\ n \in Nat /\ n <= Len(queue)
      /\ DOMAIN front = 1 .. n /\ DOMAIN rest = 1 .. Len(queue) - n
      /\ \A i \in 1 .. n : front[i] = queue[i]
      /\ \A i \in 1 .. Len(queue) - n : rest[i] = queue[n + i]
    BY ONLY <1>1, n \in 0 .. Len(queue)
<1> HIDE DEF front, rest
<1>5. ASSUME NEW i \in 1 .. Len(queue), i <= n PROVE queue[i] \in Elems(front)
  <2>1. i \in 1 .. n
      BY <1>4, <1>5
  <2> QED
      BY <1>4, <2>1 DEF Elems
<1>6. ASSUME NEW i \in 1 .. Len(queue), ~ (i <= n) PROVE queue[i] \in Elems(rest)
  <2>1. i - n \in 1 .. Len(queue) - n /\ n + (i - n) = i
      BY <1>1, <1>4, <1>6
  <2>2. rest[i - n] = queue[i]
      BY <1>4, <2>1
  <2> QED
      BY <1>4, <2>1, <2>2 DEF Elems
<1>7. Elems(queue) \subseteq Elems(front) \cup Elems(rest)
    BY <1>1, <1>5, <1>6 DEF Elems
<1>8. ASSUME now[k] = MaxTime PROVE Elems(queue) \subseteq Elems(front)
  <2>0. n \in Nat /\ Len(queue) \in Nat /\ n <= Len(queue)
      BY <1>1, <1>4
  <2>1. n = Len(queue)
    <3>1. ASSUME n < Len(queue) PROVE FALSE
      <4>1. n + 1 \in 1 .. Len(queue)
          BY <2>0, <3>1
      <4>2. queue[n + 1] \in Sessions
          BY <1>1, <4>1
      <4>3. deadline[queue[n + 1]] \in 0 .. MaxClock
          BY <4>2 DEF TypeInv, TypeOK
      <4> QED
          BY <1>2, <1>8, <3>1, <4>3, SessionBounds DEF MaxClock
    <3> QED
        BY <2>0, <3>1
  <2>2. \A i \in 1 .. Len(queue) : i <= n
      BY <1>1, <2>1
  <2> QED
      BY <1>1, <1>5, <2>2 DEF Elems
<1> QED
    BY <1>3, <1>7, <1>8

\* CheckTimeout(QYNET_MAX_TIME) on a closed session gets to all it owes.
LEMMA FlushOwes ==
    ASSUME Inv, Inv', PhaseInv, LostInv, [Next]_vars, NEW k \in Checkers, NEW t, CheckBegin(k, t),
           owed'[k] # {}
    PROVE  /\ Closed' /\ now'[k] = MaxTime
           /\ \A s \in owed'[k] : Ended(s)' \/ (cpc'[k] = "channels" /\ s \in Elems(queue'))
<1> USE DEF pool, shared, client, thread, times, post
<1>1. owed'[k] = IF t = MaxTime /\ Final THEN WithinReach ELSE {}
    BY DEF CheckBegin, Inv, TypeInv, TypeOK
<1>2. t = MaxTime /\ Final /\ owed'[k] = WithinReach
    BY <1>1
<1>3. Closed'
    BY <1>2 DEF CheckBegin, Final, Closed
<1>4. now'[k] = MaxTime /\ cpc'[k] = "channels" /\ queue' = queue /\ claimed'[k] = Pool!Overdue(MaxTime)
    BY <1>2 DEF CheckBegin, Step, Inv, TypeInv, TypeOK
<1>5. ASSUME NEW s \in WithinReach, s \notin Elems(queue) PROVE Ended(s)'
  <2>1. s \in Sessions /\ s \in Nat /\ s <= fetched
    <3>1. s \in 1 .. fetched
        BY DEF WithinReach
    <3>2. fetched \in 0 .. MaxFetch /\ MaxFetch \in Nat
        BY SessionBounds DEF Inv, TypeInv, TypeOK, Pool!TypeOK
    <3> QED
        BY ONLY <3>1, <3>2 DEF Sessions
  <2>2. \A r \in Pool!Pending : r <= s => table[r].expire < MaxTime
      BY <1>5 DEF WithinReach
  <2>3. CASE Ended(s)
      BY <2>1, <2>3, EndedStays
  <2>4. CASE s \in Pool!Pending
    <3>1. s \in claimed'[k]
        BY <1>4, <2>2, <2>4 DEF Pool!Overdue
    <3> QED
        BY <3>1 DEF Ended
  <2> QED
      BY <2>1, <2>3, <2>4 DEF LostInv
<1> QED
    BY <1>2, <1>3, <1>4, <1>5

LEMMA OwedStep ==
    ASSUME Inv, Inv', PhaseInv, LostInv, OwedInv, [Next]_vars
    PROVE  OwedInv'
<1> USE DEF pool, shared, client, thread, times, post, check
<1> SUFFICES ASSUME NEW k \in Checkers, owed'[k] # {}
             PROVE  /\ Closed'
                    /\ cpc'[k] \in {"channels", "queue"} => now'[k] = MaxTime
                    /\ \A s \in owed'[k] :
                          Ended(s)' \/ (cpc'[k] \in {"channels", "queue"} /\ s \in Elems(queue'))
    BY DEF OwedInv
<1>0. /\ cpc \in [Checkers -> CheckSteps] /\ now \in [Checkers -> 0 .. MaxTime]
      /\ owed \in [Checkers -> SUBSET Sessions] /\ queue \in Seq(Sessions)
    BY DEF Inv, TypeInv, TypeOK
<1>1. CASE \E t : CheckBegin(k, t)
    BY <1>1, FlushOwes
<1>2. CASE ~ \E t : CheckBegin(k, t)
  <2>1. owed'[k] = owed[k]
    <3>1. ASSUME NEW p \in Posters, PostPacket(p) PROVE owed' = owed
        BY <3>1 DEF PostPacket, PostBegin, PostCheck, PostLimit, PostStamp, PostAlloc,
           PostArgs, PostLock, PostEncode, PostWait
    <3>2. CASE PostEncodeInLoop \/ DrainOne \/ Connected \/ ConnectFailed \/ DrainBegin \/ HandlePacketEnd
               \/ CallbackEnd \/ Stop \/ Tick \/ HandleClose \/ HandleCloseEnd \/ DisconnectInLoop
        BY <3>2 DEF PostEncodeInLoop, DrainOne, Connected, ConnectFailed, DrainBegin, HandlePacketEnd,
           CallbackEnd, Stop, Tick, HandleClose, HandleCloseEnd, DisconnectInLoop
    <3>3. ASSUME NEW r \in Sessions, RunSend(r) \/ HandlePacket(r) PROVE owed' = owed
        BY <3>3 DEF RunSend, HandlePacket
    <3>4. ASSUME NEW j \in Checkers, NEW t, CheckBegin(j, t) PROVE owed'[k] = owed[k]
      <4>1. j # k
          BY <1>2, <3>4
      <4> QED
          BY <1>0, <3>4, <4>1 DEF CheckBegin
    <3>5. ASSUME NEW j \in Checkers, CheckAppend(j) \/ CheckQueue(j) \/ CallPacket(j) \/ CheckEnd(j) \/ Disconnect(j)
                 \/ DisconnectHere(j) \/ DisconnectPoll(j) \/ \E r \in Sessions : CallChannel(j, r)
          PROVE  owed' = owed
        BY <3>5 DEF CheckAppend, CheckQueue, CallPacket, CheckEnd, Disconnect, DisconnectHere,
           DisconnectPoll, CallChannel
    <3>6. CASE UNCHANGED vars
        BY <3>6 DEF vars
    <3> QED
        BY <3>1, <3>2, <3>3, <3>4, <3>5, <3>6
        DEF Next, LoopStep, CheckStep, CheckTimeout, DisconnectFlush
  <2>2. Closed /\ Closed'
      BY <2>1, ClosedStays DEF OwedInv, Inv
  <2>3. /\ cpc'[k] \in {"channels", "queue"} => cpc[k] \in {"channels", "queue"} /\ now'[k] = now[k]
        /\ cpc[k] \in {"channels", "queue"} => cpc'[k] \in {"channels", "queue"} \/ CheckQueue(k)
    <3>1. ASSUME NEW p \in Posters, PostPacket(p) PROVE UNCHANGED <<cpc, now>>
        BY <3>1 DEF PostPacket, PostBegin, PostCheck, PostLimit, PostStamp, PostAlloc,
           PostArgs, PostLock, PostEncode, PostWait
    <3>2. CASE Connected \/ ConnectFailed \/ DrainBegin \/ HandlePacketEnd
               \/ CallbackEnd \/ Stop \/ Tick \/ HandleClose \/ HandleCloseEnd \/ DisconnectInLoop
      <4>1. UNCHANGED <<cpc, now>>
        BY <3>2 DEF Connected, ConnectFailed, DrainBegin, HandlePacketEnd,
           CallbackEnd, Stop, Tick, HandleClose, HandleCloseEnd, DisconnectInLoop
      <4> QED
          BY <4>1
    <3>9. CASE PostEncodeInLoop \/ DrainOne
      <4>1. PICK out, q, then : SendInLoop(out, q, then)
          BY <3>9 DEF PostEncodeInLoop, DrainOne
      <4>2. cpc'[k] = cpc[k] \/ (cpc[k] = "idle" /\ cpc'[k] = "flush")
          BY <4>1, SendInLoopBegins DEF Inv
      <4>3. now' = now
          BY <3>9 DEF PostEncodeInLoop, DrainOne
      <4> QED
          BY <4>2, <4>3
    <3>3. ASSUME NEW r \in Sessions, RunSend(r) \/ HandlePacket(r) PROVE UNCHANGED <<cpc, now>>
        BY <3>3 DEF RunSend, HandlePacket
    <3>4. ASSUME NEW j \in Checkers, CheckStep(j), j # k PROVE cpc'[k] = cpc[k] /\ now'[k] = now[k]
        BY <1>0, <3>4 DEF CheckStep, CheckTimeout, CheckBegin, CheckAppend, CheckQueue, CallPacket, CheckEnd,
           Disconnect, DisconnectHere, DisconnectPoll, DisconnectFlush, CallChannel, Step
    <3>5. CASE CheckAppend(k) \/ CallPacket(k) \/ \E r \in Sessions : CallChannel(k, r)
        BY <1>0, <3>5 DEF CheckAppend, CallPacket, CallChannel, Step
    <3>6. CASE CheckQueue(k) \/ CheckEnd(k) \/ Disconnect(k) \/ DisconnectHere(k) \/ DisconnectPoll(k)
      <4>1. cpc'[k] \notin {"channels", "queue"}
          BY <1>0, <3>6 DEF CheckQueue, CheckEnd, Disconnect, DisconnectHere, DisconnectPoll, Step,
             MayClose
      <4>2. cpc[k] \in {"channels", "queue"} => CheckQueue(k)
          BY <3>6 DEF CheckEnd, Disconnect, DisconnectHere, DisconnectPoll, MayClose
      <4> QED
          BY <4>1, <4>2
    <3>7. CASE UNCHANGED vars
        BY <3>7 DEF vars
    <3>8. ASSUME NEW j \in Checkers, CheckStep(j)
          PROVE  /\ cpc'[k] \in {"channels", "queue"} => cpc[k] \in {"channels", "queue"} /\ now'[k] = now[k]
                 /\ cpc[k] \in {"channels", "queue"} => cpc'[k] \in {"channels", "queue"} \/ CheckQueue(k)
      <4>1. CASE j # k
          BY <3>4, <3>8, <4>1
      <4>2. CASE j = k
          BY <1>2, <3>5, <3>6, <3>8, <4>2 DEF CheckStep, CheckTimeout, DisconnectFlush
      <4> QED
          BY <4>1, <4>2
    <3> QED
        BY <3>1, <3>2, <3>3, <3>7, <3>8, <3>9 DEF Next, LoopStep
  <2>4. ASSUME NEW s \in Elems(queue) PROVE s \in Elems(queue') \/ Ended(s)'
    <3>1. ASSUME NEW p \in Posters, PostLock(p) PROVE s \in Elems(queue')
      <4>1. req[p] \in Sessions
          BY <3>1 DEF PostLock, Inv, TypeInv, ReqInv, Holds
      <4>2. queue' = queue \/ queue' = Append(queue, req[p])
          BY <3>1 DEF PostLock
      <4>3. Elems(Append(queue, req[p])) = Elems(queue) \cup {req[p]}
          BY ONLY <1>0, <4>1, AppendFacts
      <4> QED
          BY <4>2, <4>3
    <3>2. ASSUME NEW p \in Posters, PostPacket(p), ~ PostLock(p) PROVE queue' = queue
        BY <3>2 DEF PostPacket, PostBegin, PostCheck, PostLimit, PostStamp, PostAlloc,
           PostArgs, PostEncode, PostWait
    <3>3. CASE PostEncodeInLoop \/ Connected \/ ConnectFailed \/ DrainBegin \/ HandlePacketEnd
               \/ CallbackEnd \/ Stop \/ Tick \/ HandleClose \/ HandleCloseEnd \/ DisconnectInLoop
      <4>1. queue' = queue
        BY <3>3 DEF PostEncodeInLoop, Connected, ConnectFailed, DrainBegin, HandlePacketEnd,
           CallbackEnd, Stop, Tick, HandleClose, HandleCloseEnd, DisconnectInLoop
      <4> QED
          BY <4>1
    <3>4. ~ DrainOne
        BY <2>2 DEF DrainOne, Closed
    <3>5. ASSUME NEW r \in Sessions, RunSend(r) \/ HandlePacket(r) PROVE queue' = queue
        BY <3>5 DEF RunSend, HandlePacket
    <3>6. ASSUME NEW j \in Checkers, CheckQueue(j) PROVE s \in Elems(queue') \/ Ended(s)'
      <4>1. s \in Elems(packets'[j]) \/ s \in Elems(queue')
          BY <3>6, QueueSplits DEF Inv
      <4> QED
          BY <4>1 DEF Ended
    <3>7. ASSUME NEW j \in Checkers, CheckStep(j), ~ CheckQueue(j) PROVE queue' = queue
        BY <3>7 DEF CheckStep, CheckTimeout, CheckBegin, CheckAppend, CallPacket, CheckEnd,
           Disconnect, DisconnectHere, DisconnectPoll, DisconnectFlush, CallChannel
    <3>8. CASE UNCHANGED vars
        BY <3>8 DEF vars
    <3> QED
        BY <3>1, <3>2, <3>3, <3>4, <3>5, <3>6, <3>7, <3>8 DEF Next, LoopStep
  <2>5. ASSUME NEW s \in owed[k]
        PROVE  Ended(s)' \/ (cpc'[k] \in {"channels", "queue"} /\ s \in Elems(queue'))
    <3>1. s \in Sessions
        BY <1>0
    <3>2. CASE Ended(s)
        BY <3>1, <3>2, EndedStays
    <3>3. CASE cpc[k] \in {"channels", "queue"} /\ s \in Elems(queue)
      <4>1. CASE CheckQueue(k)
        <5>1. now[k] = MaxTime
            BY <2>1, <3>3 DEF OwedInv
        <5>2. s \in Elems(packets'[k])
            BY <3>3, <4>1, <5>1, QueueSplits DEF Inv
        <5> QED
            BY <5>2 DEF Ended
      <4>2. CASE ~ CheckQueue(k)
          BY <2>3, <2>4, <3>3, <4>2
      <4> QED
          BY <4>1, <4>2
    <3> QED
        BY <2>1, <3>2, <3>3 DEF OwedInv
  <2> QED
      BY <2>1, <2>2, <2>3, <2>5 DEF OwedInv
<1> QED
    BY <1>1, <1>2

\* A Disconnect that flushes a session that is closed for good ends every
\* request it can get to: each has had its handler called, or is in the hands of
\* another CheckTimeout, however posts, replies and timeouts interleave.
THEOREM DisconnectLeavesNobody == Spec => []DisconnectEndsRequests
<1> DEFINE End == PhaseInv /\ LostInv /\ OwedInv
<1>1. Init => End
  <2> SUFFICES ASSUME Init PROVE End
      OBVIOUS
  <2>1. PhaseInv
      BY DEF Init, PhaseInv
  <2>2. LostInv
    <3>1. fetched = 0 /\ \A s \in Sessions : ~ (s <= 0)
        BY SessionBounds DEF Init, Pool!Init, Sessions
    <3> QED
        BY <3>1 DEF LostInv
  <2>3. OwedInv
      BY DEF Init, OwedInv
  <2> QED
      BY <2>1, <2>2, <2>3
<1>2. Inv /\ Inv' /\ End /\ [Next]_vars => End'
    BY PhaseStep, LostStep, OwedStep DEF Inv
<1>3. End => DisconnectEndsRequests
  <2> SUFFICES ASSUME End, NEW k \in Closers, cpc[k] = "done", NEW s \in owed[k]
               PROVE  calls[s] = 1 \/ \E j \in Checkers : s \in claimed[j] \cup Elems(packets[j])
      BY DEF DisconnectEndsRequests
  <2>1. k \in Checkers
      BY DEF Checkers
  <2> QED
      BY <2>1 DEF OwedInv, Ended
<1> HIDE DEF End
<1> QED
    BY <1>1, <1>2, <1>3, Ownership, PTL DEF Spec

-----------------------------------------------------------------------------
(* The limit of the queue. *)

Limited == Blocking = {FALSE} /\ QueueLimit > 0

\* Posts that passed the test of the limit and have no channel yet.
Past == {p \in Posters : pc[p] \in {"stamp", "alloc"}}

\* A post that passed the test is counted like a request: there are at most as
\* many of them as threads that post, and the last of them that read the
\* counters found room.
LimitInv ==
    Limited =>
        /\ \A p \in Posters : ~ blocking[p]
        /\ LoopPosts = {} => pc[Loop] = "idle" \/ Loop \in AppThreads
        /\ Cardinality(Pool!Pending) + Cardinality(Past) <= QueueLimit - 1 + Cardinality(Callers)

LEMMA FiniteCounts ==
    ASSUME TypeInv
    PROVE  /\ IsFiniteSet(Pool!Pending) /\ Cardinality(Pool!Pending) \in Nat
           /\ IsFiniteSet(Past) /\ Cardinality(Past) \in Nat
           /\ IsFiniteSet(Callers) /\ Cardinality(Callers) \in Nat
<1>1. IsFiniteSet(Posters)
    BY ThreadSets, FS_AddElement DEF Posters
<1>2. IsFiniteSet(Callers)
    BY <1>1, ThreadSets DEF Callers
<1>3. IsFiniteSet(Past)
    BY <1>1, FS_Subset DEF Past
<1>4. IsFiniteSet(Sessions)
    BY SessionBounds, FS_Interval DEF Sessions
<1>5. Pool!Pending \subseteq Sessions
    BY DEF TypeInv, TypeOK, Pool!TypeOK, Pool!Pending, Pool!Sessions, Sessions
<1>6. IsFiniteSet(Pool!Pending)
    BY <1>4, <1>5, FS_Subset
<1> QED
    BY <1>2, <1>3, <1>6, FS_CardinalityType

\* Steps that add no request and let no post through.
LEMMA LimitFrame ==
    ASSUME TypeInv, LimitInv, Limited => Pool!Pending' \subseteq Pool!Pending,
           Limited => Past' \subseteq Past,
           LoopPosts = {} /\ pc[Loop] = "idle" => pc'[Loop] = "idle",
           Limited => \A p \in Posters : ~ blocking'[p]
    PROVE  LimitInv'
<1> SUFFICES ASSUME Limited PROVE LimitInv'
    BY DEF LimitInv
<1> DEFINE A == Pool!Pending
           B == Pool!Pending'
           C == Past
           D == Past'
<1>1. IsFiniteSet(A) /\ Cardinality(A) \in Nat /\ IsFiniteSet(C) /\ Cardinality(C) \in Nat
      /\ Cardinality(Callers) \in Nat
    BY FiniteCounts
<1>2. IsFiniteSet(B) /\ Cardinality(B) <= Cardinality(A) /\ B \subseteq A
    BY <1>1, FS_Subset
<1>3. IsFiniteSet(D) /\ Cardinality(D) <= Cardinality(C)
    BY <1>1, FS_Subset
<1>4. Cardinality(B) \in Nat /\ Cardinality(D) \in Nat
    BY <1>2, <1>3, FS_CardinalityType
<1>5. Cardinality(A) + Cardinality(C) <= QueueLimit - 1 + Cardinality(Callers)
    BY DEF LimitInv
<1> HIDE DEF A, B, C, D
<1>6. Cardinality(B) + Cardinality(D) <= QueueLimit - 1 + Cardinality(Callers)
    BY <1>1, <1>2, <1>3, <1>4, <1>5, SessionBounds
<1>7. \A p \in Posters : ~ blocking'[p]
    OBVIOUS
<1>8. LoopPosts = {} => pc'[Loop] = "idle" \/ Loop \in AppThreads
    BY DEF LimitInv
<1> QED
    BY <1>6, <1>7, <1>8 DEF LimitInv, B, D, Limited, Callers

\* No step but PostPacket's AllocChannel adds a request.
LEMMA PendingShrinks ==
    ASSUME TypeInv, [Next]_vars, ~ \E p \in Posters : PostAlloc(p)
    PROVE  Pool!Pending' \subseteq Pool!Pending
<1> USE DEF pool, shared, client, thread, times, post, check
<1>0. Pool!TypeOK
    BY DEF TypeInv, TypeOK
<1>1. ASSUME UNCHANGED table PROVE Pool!Pending' \subseteq Pool!Pending
    BY <1>1 DEF Pool!Pending
<1>2. ASSUME NEW s, NEW a, Pool!SetArgs(s, a) PROVE Pool!Pending' \subseteq Pool!Pending
    BY <1>0, <1>2 DEF Pool!SetArgs, Pool!Pending, Pool!TypeOK, Pool!Entries
<1>3. ASSUME NEW s, NEW t, Pool!SetExpireTime(s, t) PROVE Pool!Pending' \subseteq Pool!Pending
    BY <1>0, <1>3 DEF Pool!SetExpireTime, Pool!Pending, Pool!TypeOK, Pool!Entries
<1>4. ASSUME NEW S, table' = Pool!Claim(S) PROVE Pool!Pending' \subseteq Pool!Pending
    BY <1>0, <1>4 DEF Pool!Claim, Pool!Pending, Pool!TypeOK, Pool!Entries
<1>5. ASSUME NEW S, table' = Pool!Without(S) PROVE Pool!Pending' \subseteq Pool!Pending
    BY <1>0, <1>5 DEF Pool!Without, Pool!Pending, Pool!TypeOK
<1>6. ASSUME NEW p \in Posters, PostPacket(p) PROVE Pool!Pending' \subseteq Pool!Pending
  <2>1. CASE PostArgs(p)
      BY <1>2, <2>1 DEF PostArgs
  <2>2. CASE PostEncode(p)
      BY <1>3, <2>2 DEF PostEncode
  <2>3. CASE PostBegin(p) \/ PostCheck(p) \/ PostLimit(p) \/ PostStamp(p) \/ PostLock(p) \/ PostWait(p)
      BY <1>1, <2>3 DEF PostBegin, PostCheck, PostLimit, PostStamp, PostLock, PostWait
  <2> QED
      BY <1>6, <2>1, <2>2, <2>3 DEF PostPacket
<1>7. CASE PostEncodeInLoop \/ DrainOne
    BY <1>3, <1>7 DEF PostEncodeInLoop, DrainOne
<1>8. CASE Connected \/ ConnectFailed \/ DrainBegin \/ CallbackEnd \/ Stop \/ Tick
           \/ HandleClose \/ HandleCloseEnd \/ DisconnectInLoop
    BY <1>1, <1>8 DEF Connected, ConnectFailed, DrainBegin, CallbackEnd, Stop, Tick,
       HandleClose, HandleCloseEnd, DisconnectInLoop
<1>9. CASE HandlePacketEnd
    BY <1>5, <1>9 DEF HandlePacketEnd, Pool!Recycle
<1>10. ASSUME NEW s \in Sessions, RunSend(s) \/ HandlePacket(s) PROVE Pool!Pending' \subseteq Pool!Pending
    BY <1>1, <1>4, <1>10 DEF RunSend, HandlePacket, Pool!OfferChannel
<1>11. ASSUME NEW k \in Checkers, CheckStep(k) PROVE Pool!Pending' \subseteq Pool!Pending
  <2>1. CASE CheckTimeout(k) \/ DisconnectFlush(k)
      BY <1>4, <2>1 DEF CheckTimeout, DisconnectFlush, CheckBegin, Pool!GetTimeoutList
  <2>2. CASE CheckAppend(k)
      BY <1>5, <2>2 DEF CheckAppend, Pool!Recycle
  <2>3. CASE CallPacket(k)
      BY <1>5, <2>3 DEF CallPacket, Pool!FreeChannel
  <2>4. ASSUME NEW s \in Sessions, CallChannel(k, s) PROVE Pool!Pending' \subseteq Pool!Pending
      BY <1>2, <2>4 DEF CallChannel
  <2>5. CASE CheckQueue(k) \/ CheckEnd(k) \/ Disconnect(k) \/ DisconnectHere(k) \/ DisconnectPoll(k)
      BY <1>1, <2>5 DEF CheckQueue, CheckEnd, Disconnect, DisconnectHere, DisconnectPoll
  <2> QED
      BY <1>11, <2>1, <2>2, <2>3, <2>4, <2>5 DEF CheckStep
<1>12. CASE UNCHANGED vars
    BY <1>1, <1>12 DEF vars
<1> QED
    BY <1>6, <1>7, <1>8, <1>9, <1>10, <1>11, <1>12 DEF Next, LoopStep

\* The test passes on a count below the limit, whoever passed it before.
LEMMA PostLimitKeeps ==
    ASSUME TypeInv, LimitInv, Limited, NEW p \in Posters, PostLimit(p), pc'[p] = "stamp", TypeInv'
    PROVE  LimitInv'
<1> USE DEF pool, shared, client, thread, times, post, check
<1>0. Cardinality(Pool!Pending) \in Nat /\ Len(queue) \in Nat
  <2>1. Cardinality(Pool!Pending) \in Nat
      BY FiniteCounts
  <2>2. Len(queue) \in Nat
      BY DEF TypeInv, TypeOK
  <2> QED
      BY <2>1, <2>2
<1>1. TotalSize < QueueLimit
  <2>1. ~ (QueueLimit > 0 /\ ~ blocking[p] /\ TotalSize >= QueueLimit)
      BY DEF PostLimit, Goto, TypeInv, TypeOK
  <2>2. QueueLimit > 0 /\ ~ blocking[p]
      BY DEF Limited, LimitInv
  <2>3. TotalSize \in Nat
      BY <1>0 DEF TotalSize
  <2> QED
      BY <2>1, <2>2, <2>3, SessionBounds
<1>2. Pool!Pending' = Pool!Pending
    BY DEF PostLimit, Pool!Pending
<1>3. Cardinality(Pool!Pending) <= QueueLimit - 1
    BY <1>0, <1>1, SessionBounds DEF TotalSize
<1>4. LoopPosts = {} => pc'[Loop] = "idle" \/ Loop \in AppThreads
    BY DEF LimitInv, PostLimit, Goto, TypeInv, TypeOK, Posters
<1>5. Past' \subseteq Callers
    BY <1>4 DEF Past, Callers, Posters
<1>6. Cardinality(Past') <= Cardinality(Callers)
    BY <1>5, FiniteCounts, FS_Subset
<1>7. Cardinality(Past') \in Nat /\ Cardinality(Callers) \in Nat /\ Cardinality(Pool!Pending) \in Nat
  <2>1. IsFiniteSet(Past')
      BY <1>5, FiniteCounts, FS_Subset
  <2> QED
      BY <2>1, FiniteCounts, FS_CardinalityType
<1>8. Cardinality(Pool!Pending') + Cardinality(Past') <= QueueLimit - 1 + Cardinality(Callers)
    BY <1>2, <1>3, <1>6, <1>7, SessionBounds
<1> QED
    BY <1>4, <1>8 DEF LimitInv, PostLimit, Callers, Limited

\* AllocChannel turns a post that passed into a request.
LEMMA PostAllocKeeps ==
    ASSUME Inv, LimitInv, Limited, NEW p \in Posters, PostAlloc(p)
    PROVE  LimitInv'
<1> USE DEF pool, shared, client, thread, times, post, check
<1> DEFINE n == fetched'
           A == Pool!Pending
           C == Past
<1>0. pc \in [Posters -> PostSteps] /\ TypeInv
    BY DEF Inv, TypeInv, TypeOK
<1>1. Pool!Pending' = A \cup {n} /\ n \notin A
  <2>1. Pool!TypeOK /\ Pool!AllocChannel
      BY DEF Inv, TypeInv, TypeOK, PostAlloc
  <2>2. n \notin DOMAIN table
      BY <2>1, AllocFacts, NumberTypes DEF Inv, OwnInv, NumbersInv
  <2>3. /\ DOMAIN table' = DOMAIN table \cup {n}
        /\ \A s \in DOMAIN table : table'[s] = table[s]
        /\ table'[n] = [expire |-> Pool!Never, args |-> 0, taken |-> FALSE]
      BY <2>1, <2>2, AllocFacts
  <2> HIDE DEF n
  <2> QED
      BY <2>2, <2>3 DEF Pool!Pending
<1>2. Past' = C \ {p} /\ p \in C
    BY <1>0 DEF PostAlloc, Goto, Past
<1>3. IsFiniteSet(A) /\ Cardinality(A) \in Nat /\ IsFiniteSet(C) /\ Cardinality(C) \in Nat
      /\ Cardinality(Callers) \in Nat
    BY <1>0, FiniteCounts
<1>4. Cardinality(A) + Cardinality(C) <= QueueLimit - 1 + Cardinality(Callers)
    BY DEF LimitInv
<1>5. LoopPosts = {} => pc'[Loop] = "idle" \/ Loop \in AppThreads
    BY <1>0 DEF LimitInv, PostAlloc, Goto, Posters
<1> HIDE DEF A, C, n
<1>6. Cardinality(A \cup {n}) = Cardinality(A) + 1
    BY <1>1, <1>3, FS_AddElement
<1>7. Cardinality(C \ {p}) = Cardinality(C) - 1
    BY <1>2, <1>3, FS_RemoveElement
<1>8. Cardinality(Pool!Pending') + Cardinality(Past') <= QueueLimit - 1 + Cardinality(Callers)
    BY <1>1, <1>2, <1>3, <1>4, <1>6, <1>7, SessionBounds
<1> QED
    BY <1>5, <1>8 DEF LimitInv, PostAlloc, Callers, Limited

LEMMA LimitStep ==
    ASSUME Inv, Inv', LimitInv, [Next]_vars
    PROVE  LimitInv'
<1> USE DEF pool, shared, client, thread, times, post, check
<1>0. TypeInv /\ TypeInv' /\ pc \in [Posters -> PostSteps] /\ blocking \in [Posters -> BOOLEAN]
    BY DEF Inv, TypeInv, TypeOK
<1>1. CASE ~ Limited
    BY <1>1 DEF LimitInv, Limited
<1>2. ASSUME Limited, NEW p \in Posters, PostAlloc(p) PROVE LimitInv'
    BY <1>2, PostAllocKeeps
<1>3. ASSUME Limited, ~ \E p \in Posters : PostAlloc(p) PROVE LimitInv'
  <2>0. Pool!Pending' \subseteq Pool!Pending /\ \A p \in Posters : ~ blocking[p]
      BY <1>0, <1>3, PendingShrinks DEF LimitInv
  <2>1. ASSUME NEW p \in Posters, PostPacket(p) PROVE LimitInv'
    <3>1. CASE PostLimit(p) /\ pc'[p] = "stamp"
        BY <1>0, <1>3, <3>1, PostLimitKeeps
    <3>2. CASE PostBegin(p)
      <4>1. \A q \in Posters : ~ blocking'[q]
          BY <1>0, <1>3, <2>0, <3>2 DEF PostBegin, Limited
      <4>2. Past' \subseteq Past
          BY <1>0, <3>2 DEF PostBegin, Goto, Past
      <4>3. LoopPosts = {} /\ pc[Loop] = "idle" => pc'[Loop] = "idle"
          BY <1>0, <3>2 DEF PostBegin, Goto, Posters
      <4> QED
          BY <1>0, <2>0, <4>1, <4>2, <4>3, LimitFrame
    <3>3. CASE \/ PostLimit(p) /\ pc'[p] # "stamp"
               \/ PostCheck(p) \/ PostStamp(p) \/ PostArgs(p) \/ PostLock(p) \/ PostEncode(p) \/ PostWait(p)
      <4>1. UNCHANGED blocking
          BY <3>3 DEF PostLimit, PostCheck, PostStamp, PostArgs, PostLock, PostEncode, PostWait
      <4>2. /\ pc[p] # "idle" /\ \A q \in Posters : q # p => pc'[q] = pc[q]
            /\ pc'[p] \in {"stamp", "alloc"} => pc[p] \in {"stamp", "alloc"}
          BY <1>0, <3>3 DEF PostLimit, PostCheck, PostStamp, PostArgs, PostLock, PostEncode, PostWait,
             Goto, AfterSend
      <4>3. Past' \subseteq Past
          BY <4>2 DEF Past
      <4>4. pc[Loop] = "idle" => pc'[Loop] = "idle"
          BY <4>2 DEF Posters
      <4> QED
          BY <1>0, <2>0, <4>1, <4>3, <4>4, LimitFrame
    <3> QED
        BY <1>3, <2>1, <3>1, <3>2, <3>3 DEF PostPacket
  <2>2. CASE PostEncodeInLoop
    <3>0. Loop \in Posters
        BY DEF Posters
    <3>1. UNCHANGED blocking /\ pc[Loop] = "encode"
        BY <2>2 DEF PostEncodeInLoop
    <3>2. Past' \subseteq Past
        BY <1>0, <3>0, <2>2 DEF PostEncodeInLoop, Goto, Past, AfterSend
    <3> QED
        BY <1>0, <2>0, <3>1, <3>2, LimitFrame
  <2>3. CASE UNCHANGED post
    <3>1. Past' = Past
        BY <2>3 DEF Past
    <3> QED
        BY <1>0, <2>0, <2>3, <3>1, LimitFrame
  <2>4. CASE DrainOne \/ Connected \/ ConnectFailed \/ DrainBegin \/ HandlePacketEnd
             \/ CallbackEnd \/ Stop \/ Tick \/ HandleClose \/ HandleCloseEnd \/ DisconnectInLoop
      BY <2>3, <2>4 DEF DrainOne, Connected, ConnectFailed, DrainBegin, HandlePacketEnd,
         CallbackEnd, Stop, Tick, HandleClose, HandleCloseEnd, DisconnectInLoop
  <2>5. ASSUME NEW s \in Sessions, RunSend(s) \/ HandlePacket(s) PROVE LimitInv'
      BY <2>3, <2>5 DEF RunSend, HandlePacket
  <2>6. ASSUME NEW k \in Checkers, CheckStep(k) PROVE LimitInv'
      BY <2>3, <2>6 DEF CheckStep, CheckTimeout, CheckBegin, CheckAppend, CheckQueue, CallPacket,
         CheckEnd, Disconnect, DisconnectHere, DisconnectPoll, DisconnectFlush, CallChannel
  <2>7. CASE UNCHANGED vars
      BY <2>3, <2>7 DEF vars
  <2> QED
      BY <2>1, <2>2, <2>4, <2>5, <2>6, <2>7 DEF Next, LoopStep
<1> QED
    BY <1>1, <1>2, <1>3

\* However many threads post without blocking, each testing the limit before it
\* draws its channel, the requests in flight stay below the limit plus the
\* number of threads.
THEOREM LimitHolds == Spec => []InFlightBounded
<1>1. Init /\ TypeInv => LimitInv
  <2> SUFFICES ASSUME Init, TypeInv, Limited PROVE LimitInv
      BY DEF LimitInv
  <2>1. Pool!Pending = {} /\ Past = {}
      BY DEF Init, Pool!Init, Pool!Pending, Past
  <2>2. Cardinality(Pool!Pending) = 0 /\ Cardinality(Past) = 0
      BY <2>1, FS_EmptySet
  <2>3. Cardinality(Callers) \in Nat
      BY FiniteCounts
  <2>4. 0 <= QueueLimit - 1 + Cardinality(Callers)
      BY <2>3, SessionBounds DEF Limited
  <2> QED
      BY <2>2, <2>4 DEF Init, LimitInv, Posters
<1>2. Inv /\ Inv' /\ LimitInv /\ [Next]_vars => LimitInv'
    BY LimitStep
<1>3. Inv /\ LimitInv => InFlightBounded
  <2> SUFFICES ASSUME Inv, LimitInv, Limited
               PROVE  Cardinality(Pool!Pending) <= QueueLimit - 1 + Cardinality(Callers)
      BY DEF InFlightBounded, Limited
  <2>1. /\ Cardinality(Pool!Pending) \in Nat /\ Cardinality(Past) \in Nat
        /\ Cardinality(Callers) \in Nat
      BY FiniteCounts DEF Inv
  <2> QED
      BY <2>1, SessionBounds DEF LimitInv
<1>4. Inv => TypeInv
    BY DEF Inv
<1> QED
    BY <1>1, <1>2, <1>3, <1>4, Ownership, PTL DEF Spec
=============================================================================
