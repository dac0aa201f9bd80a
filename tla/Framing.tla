------------------------------ MODULE Framing ------------------------------
(***************************************************************************)
(* How a byte stream becomes packets: DefaultPacketStreamer, the loop of    *)
(* OnMessage, which ClientSession and ServerConnection share line for line, *)
(* and ServerConnection::HandlePacket with its batches.  The stream of a    *)
(* connection arrives cut into pieces anywhere; connections come and go.    *)
(*                                                                         *)
(* A frame is HeaderLen units of header and len units of body; a unit is    *)
(* <<f, i>>, the i-th one of frame f.  Units that are not the header of a   *)
(* frame do not pass for one: payload that holds the packet flag at just    *)
(* that place is left out.                                                  *)
(***************************************************************************)
EXTENDS Naturals, Sequences, FiniteSets

CONSTANTS HeaderLen,    \* 4 * sizeof(int): flag, chid, pcode, dataLen
          MaxLen,       \* bound: length of a body (64 MB in the code)
          Kinds,        \* kinds of frames the peer may send
          Batch,        \* 15: packets handed to the adapter at once
          Batching,     \* values of the adapter's batchPushPacket_
          KeepsHeader,  \* the parser's state outlives a connection
          MaxFrames,    \* bound: frames sent
          MaxConns      \* bound: connections

ASSUME FramingBounds ==
    /\ HeaderLen \in Nat \ {0} /\ MaxLen \in Nat /\ Batch \in Nat \ {0}
    /\ MaxFrames \in Nat /\ MaxConns \in Nat
    /\ Batching \subseteq BOOLEAN /\ KeepsHeader \in BOOLEAN
    /\ Kinds \subseteq {"good", "unknown", "bad", "broken"}

\* A frame is good; or of an unknown pcode; or its body does not decode; or its
\* header has a wrong flag or an impossible length.
Frame == [kind : Kinds, len : 0 .. MaxLen]
Unit == (1 .. MaxFrames) \X (1 .. HeaderLen + MaxLen)

VARIABLES
    frames,              \* all frames sent so far
    conn, first,         \* connections so far; the first frame of this one
    up,                  \* this connection lives and has its context
    net,                 \* units under way
    input,               \* the connection's input buffer
    gotHeader, header,   \* gotHeader_; the frame in packetHeader_, or 0
    pc,                  \* OnMessage: idle, loop or body
    batching,            \* batchPushPacket_
    inputQueue,          \* packets not yet handed to the adapter
    given,               \* packets the adapter got on this connection
    handled              \* history: headers whose packet was handled

stream == <<frames, conn, first, up>>
parser == <<gotHeader, header>>
packets == <<batching, inputQueue, given, handled>>
vars == <<stream, net, input, parser, pc, packets>>

\* A packet: the frame of its header and the units it was decoded from.
Packet == [head : 1 .. MaxFrames, body : Seq(Unit)]
BadPacket == [head |-> 0, body |-> <<>>]    \* ControlPacket::BadPacket

TypeOK ==
    /\ frames \in Seq(Frame) /\ Len(frames) <= MaxFrames
    /\ conn \in 0 .. MaxConns /\ first \in 1 .. MaxFrames + 1 /\ up \in BOOLEAN
    /\ net \in Seq(Unit) /\ input \in Seq(Unit)
    /\ gotHeader \in BOOLEAN /\ header \in 0 .. MaxFrames
    /\ pc \in {"idle", "loop", "body"}
    /\ batching \in Batching
    /\ inputQueue \in Seq(Packet)
    /\ given \in Seq(Packet \cup {BadPacket})
    /\ handled \in Seq(1 .. MaxFrames)

Init ==
    /\ frames = <<>> /\ conn = 0 /\ first = 1 /\ up = FALSE
    /\ net = <<>> /\ input = <<>>
    /\ gotHeader = FALSE /\ header = 0
    /\ pc = "idle"
    /\ batching \in Batching
    /\ inputQueue = <<>> /\ given = <<>> /\ handled = <<>>

-----------------------------------------------------------------------------
(* The peer and the connection *)

Take(s, n) == SubSeq(s, 1, n)
Drop(s, n) == SubSeq(s, n + 1, Len(s))

\* Units a to b of frame f.
Part(f, a, b) == [i \in 1 .. b + 1 - a |-> <<f, a + i - 1>>]

\* Faulty variant: the length that is filled in misses a unit of the body.
EncodedTooLong(f, len) == Part(f, 1, HeaderLen + len + 1)

\* What Encode appends for frame f: the header with the length of the body
\* filled in, and the body.
Encoded(f, len) == Part(f, 1, HeaderLen + len)

Encode(fr) ==
    /\ up /\ Len(frames) < MaxFrames
    /\ frames' = Append(frames, fr)
    /\ net' = net \o Encoded(Len(frames'), fr.len)
    /\ UNCHANGED <<conn, first, up, input, parser, pc, packets>>

\* ServerBase::OnConnection makes a ServerConnection for each connection; a
\* ClientSession goes on with the parser it has.
Connected ==
    /\ ~ up /\ conn < MaxConns
    /\ up' = TRUE /\ conn' = conn + 1 /\ first' = Len(frames) + 1
    /\ net' = <<>> /\ input' = <<>>
    /\ IF KeepsHeader THEN UNCHANGED parser ELSE gotHeader' = FALSE /\ header' = 0
    /\ inputQueue' = <<>> /\ given' = <<>> /\ handled' = <<>>
    /\ UNCHANGED <<frames, pc, batching>>

\* The connection is lost, and its context with it: units under way, the
\* input buffer and the packets of an unfinished batch are gone.
ConnectionLost ==
    /\ up /\ pc = "idle"
    /\ up' = FALSE /\ net' = <<>> /\ input' = <<>> /\ inputQueue' = <<>>
    /\ UNCHANGED <<frames, conn, first, parser, pc, batching, given, handled>>

-----------------------------------------------------------------------------
(* OnMessage *)

\* HandleRead: n units arrive, OnMessage is called.
OnMessage(n) ==
    /\ pc = "idle" /\ up
    /\ input' = input \o Take(net, n) /\ net' = Drop(net, n)
    /\ pc' = "loop"
    /\ UNCHANGED <<stream, parser, packets>>

\* Faulty variant: the header's flag and length are not tested.
HeaderUnchecked(s) == s[1][1]

\* The frame whose header s starts with, 0 if GetPacketInfo finds the stream
\* broken.
HeaderOf(s) ==
    LET f == s[1][1]
    IN  IF Take(s, HeaderLen) = Part(f, 1, HeaderLen) /\ frames[f].kind # "broken"
        THEN f ELSE 0

\* GetPacketInfo with less than a header in the buffer; also the loop's end.
NeedsHeader ==
    /\ pc = "loop" /\ (input = <<>> \/ (~ gotHeader /\ Len(input) < HeaderLen))
    /\ pc' = "idle"
    /\ UNCHANGED <<stream, net, input, parser, packets>>

\* GetPacketInfo reads a header.  A broken one has been consumed all the same
\* and ends the loop; the rest of the input waits for the next OnMessage.
GetPacketInfo ==
    /\ pc = "loop" /\ ~ gotHeader /\ Len(input) >= HeaderLen
    /\ input' = Drop(input, HeaderLen)
    /\ header' = HeaderOf(input) /\ gotHeader' = (header' # 0)
    /\ pc' = IF gotHeader' THEN "body" ELSE "idle"
    /\ UNCHANGED <<stream, net, packets>>

\* A header is there from an earlier call.
ResumeBody ==
    /\ pc = "loop" /\ gotHeader /\ input # <<>>
    /\ pc' = "body"
    /\ UNCHANGED <<stream, net, input, parser, packets>>

\* Faulty variant: the length is taken to count the header as well.
DataLenOfFrame == HeaderLen + frames[header].len

\* packetHeader_.dataLen_
DataLen == frames[header].len

NeedsBody ==
    /\ pc = "body" /\ Len(input) < DataLen
    /\ pc' = "idle"
    /\ UNCHANGED <<stream, net, input, parser, packets>>

\* Decode takes the body; one that does not decode may stop anywhere in it.
Decoded(k) == IF frames[header].kind = "bad" THEN k \in 0 .. DataLen ELSE k = DataLen

\* Faulty variant: the packet that fills the batch is not handed over with it.
PushShort(p) ==
    LET q == Append(inputQueue, p)
    IN  IF Len(q) >= Batch THEN given' = given \o inputQueue /\ inputQueue' = <<>>
        ELSE inputQueue' = q /\ UNCHANGED given

\* inputQueue_.Push, and a full batch is handed over and cleared.
Push(p) ==
    LET q == Append(inputQueue, p)
    IN  IF Len(q) >= Batch THEN given' = given \o q /\ inputQueue' = <<>>
        ELSE inputQueue' = q /\ UNCHANGED given

\* HandlePacket: a decoded packet goes to the batch or to the adapter, the
\* stand-in for one that was not decoded to the adapter at once.
HandlePacket(k) ==
    /\ pc = "body" /\ Len(input) >= DataLen /\ Decoded(k)
    /\ LET p == [head |-> header, body |-> Take(input, k)]
       IN  IF frames[header].kind # "good"
           THEN given' = Append(given, BadPacket) /\ UNCHANGED inputQueue
           ELSE IF batching THEN Push(p)
           ELSE given' = Append(given, p) /\ UNCHANGED inputQueue
    /\ handled' = Append(handled, header)
    /\ input' = Drop(input, k)
    /\ gotHeader' = FALSE /\ header' = 0
    /\ pc' = "loop"
    /\ UNCHANGED <<stream, net, batching>>

Parse ==
    \/ NeedsHeader \/ GetPacketInfo \/ ResumeBody \/ NeedsBody
    \/ \E k \in 0 .. MaxLen : HandlePacket(k)

Next ==
    \/ \E fr \in Frame : Encode(fr)
    \/ Connected \/ ConnectionLost
    \/ \E n \in 1 .. Len(net) : OnMessage(n)
    \/ Parse

Spec == Init /\ [][Next]_vars

-----------------------------------------------------------------------------

\* Every packet was decoded from the body that belongs to its header, and from
\* all of it, however the stream was cut and whatever came before it.
PacketsIntact ==
    \A q \in {given, inputQueue} : \A i \in DOMAIN q :
        q[i] # BadPacket =>
            LET f == q[i].head
            IN  q[i].body = Part(f, HeaderLen + 1, HeaderLen + frames[f].len)

\* The frames of this connection that have arrived to the last unit.
Arrived == {f \in first .. Len(frames) : \A i \in DOMAIN net : net[i][1] # f}

\* A stream in which the parser can keep in step.
Clean == \A f \in first .. Len(frames) : frames[f].kind \in {"good", "unknown"}

\* Valid data is handed to HandlePacket: on a stream without errors OnMessage
\* returns only when each frame that has arrived, and no other, was handled, in
\* the order of the stream.
ValidDataIsHandled ==
    up /\ Clean /\ pc = "idle" =>
        handled = [i \in 1 .. Cardinality(Arrived) |-> first + i - 1]

\* The frames that the packets of q were decoded from, and the frames handled
\* that decode.
Heads(q) == {q[i].head : i \in DOMAIN q} \ {BadPacket.head}
GoodHandled == {f \in {handled[i] : i \in DOMAIN handled} : frames[f].kind = "good"}

\* While a connection lives each frame that was handled, and no other, gave the
\* adapter or the batch one packet, its own if it decodes, in the order of the
\* stream: none is lost, given twice or overtaken where a batch is handed over,
\* whatever frames with errors come between.  A connection that is lost takes
\* less than a batch with it.
GivenOnceInOrder ==
    LET got == given \o inputQueue
    IN  /\ \A i, j \in DOMAIN got :
              i < j /\ got[i] # BadPacket /\ got[j] # BadPacket => got[i].head < got[j].head
        /\ Heads(got) \subseteq GoodHandled
        /\ up => GoodHandled \subseteq Heads(got) /\ Len(got) = Len(handled)
        /\ Len(handled) < Len(given) + Batch
=============================================================================
