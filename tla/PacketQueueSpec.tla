-------------------------- MODULE PacketQueueSpec --------------------------
(***************************************************************************)
(* What PacketQueue (common/net/packetqueue.cc) promises: first-in          *)
(* first-out queues of packets, of which the packets at the front whose     *)
(* deadline has passed can be taken as a list.                              *)
(***************************************************************************)
EXTENDS Naturals, Sequences

CONSTANTS Packets, Queues, MaxTime

VARIABLES content,   \* the packets of each queue, oldest first
          list,      \* a list GetTimeoutList returned, as far as not walked yet
          deadline   \* Packet::expireTime_; 0 when it has none

vars == <<content, list, deadline>>

In(s) == {s[i] : i \in DOMAIN s}
Held == In(list) \cup UNION {In(content[q]) : q \in Queues}

\* Length of the front part of queue q that has expired.
Front(q, now) ==
    CHOOSE n \in 0 .. Len(content[q]) :
        /\ \A i \in 1 .. n : deadline[content[q][i]] \in 1 .. now - 1
        /\ n < Len(content[q]) => deadline[content[q][n + 1]] \notin 1 .. now - 1

Init == /\ content = [q \in Queues |-> <<>>]
        /\ list = <<>>
        /\ deadline = [p \in Packets |-> 0]

Push(q, p, t) == /\ p \notin Held
                 /\ content' = [content EXCEPT ![q] = Append(@, p)]
                 /\ deadline' = [deadline EXCEPT ![p] = t]
                 /\ UNCHANGED list

Pop(q) == /\ content[q] # <<>>
          /\ content' = [content EXCEPT ![q] = Tail(@)]
          /\ UNCHANGED <<list, deadline>>

Clear(q) == content' = [content EXCEPT ![q] = <<>>] /\ UNCHANGED <<list, deadline>>

MoveTo(q, d) == /\ q # d
                /\ content' = [content EXCEPT ![d] = @ \o content[q], ![q] = <<>>]
                /\ UNCHANGED <<list, deadline>>

GetTimeoutList(q, now) ==
    LET n == Front(q, now)
    IN  /\ list = <<>>
        /\ list' = SubSeq(content[q], 1, n)
        /\ content' = [content EXCEPT ![q] = SubSeq(@, n + 1, Len(@))]
        /\ UNCHANGED deadline

GetNext == list # <<>> /\ list' = Tail(list) /\ UNCHANGED <<content, deadline>>

Next == \/ GetNext
        \/ \E q \in Queues :
              \/ Pop(q) \/ Clear(q)
              \/ \E p \in Packets, t \in 0 .. MaxTime : Push(q, p, t)
              \/ \E d \in Queues : MoveTo(q, d)
              \/ \E now \in 1 .. MaxTime + 1 : GetTimeoutList(q, now)

Spec == Init /\ [][Next]_vars
=============================================================================
