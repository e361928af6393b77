----------------------------- MODULE TcpFraming -----------------------------
(***************************************************************************)
(* One direction of a connection, byte by byte: SendTcpMessageSystem,      *)
(* which puts a header with its size before each message and sends what    *)
(* the socket takes, and ReceiveTcpMessageSystem, which collects the bytes *)
(* that arrived and cuts messages from them.                               *)
(*                                                                         *)
(* Messages are numbered in the order they are queued.  A byte is known by *)
(* its message and its place in it: a header is readable only when its     *)
(* bytes are the first of one message.  Each turn of the two loops over    *)
(* messages is a step.  When a connection fails, its entity is never       *)
(* visited again.                                                          *)
(***************************************************************************)
EXTENDS Naturals, Sequences

CONSTANTS
  MaxMessages,      \* bound on the messages sent
  HeaderSize,       \* sizeof(MessageHeader)
  Sizes,            \* the lengths the messages with their headers may have
  PartialSends,     \* the messages of which send() may take a part
  MaxPartialSends,  \* bound on how often it does
  SendsFail         \* may send() fail, also because it would block?

Messages == 1..MaxMessages

ASSUME FramingAssumption ==
  /\ MaxMessages \in Nat
  /\ HeaderSize \in Nat \ {0}
  /\ Sizes \subseteq [Messages -> Nat]
  /\ \A lengths \in Sizes, m \in Messages : lengths[m] >= HeaderSize
  /\ PartialSends \subseteq Messages /\ MaxPartialSends \in Nat
  /\ SendsFail \in BOOLEAN

VARIABLES
  size,                 \* the length of each message, which never changes
  nextMessage,          \* the next message the application sends
  messagesToSend,       \* m_messagesToSend
  serializedToSend,     \* m_serializedToSend
  lastMessageByteSent,  \* m_lastMessageByteSent
  sender,               \* idle, sending, failed (PendingDisconnectTag)
  partialSends,         \* how often send() took a part, which is bounded
  wire,                 \* bytes sent and not received
  closed,               \* the sender's process has ended
  receivedBuffer,       \* m_receivedBuffer
  receiver,             \* idle, decoding, failed (PendingDisconnectTag, or thrown)
  delivered,            \* every message put in m_receivedMessages so far
  trusted               \* history: the last message whose bytes are all sent once and
                        \* in order, as far as the sends so far let one say

historyVars == <<partialSends, trusted>>
senderVars ==
  <<nextMessage, messagesToSend, serializedToSend, lastMessageByteSent, sender, historyVars>>
receiverVars == <<receivedBuffer, receiver, delivered>>
vars == <<size, senderVars, wire, closed, receiverVars>>

Byte(m, i) == [msg |-> m, at |-> i]
Bytes(m) == [i \in 1..size[m] |-> Byte(m, i)]

\* A message that is none: its bytes are not its own.
Garbage == 0

\* The exception that bytes of an unknown type, or too few, end in.
Thrown == MaxMessages + 1

Init ==
  /\ size \in Sizes
  /\ nextMessage = 1
  /\ messagesToSend = <<>> /\ serializedToSend = <<>> /\ lastMessageByteSent = 0
  /\ sender = "idle"
  /\ wire = <<>> /\ closed = FALSE
  /\ receivedBuffer = <<>> /\ receiver = "idle" /\ delivered = <<>>
  /\ partialSends = 0 /\ trusted = MaxMessages

-----------------------------------------------------------------------------
\* NetworkEngine::sendTcpMessage.
Queue ==
  /\ nextMessage \in Messages /\ sender # "sending" /\ ~closed
  /\ messagesToSend' = Append(messagesToSend, nextMessage)
  /\ nextMessage' = nextMessage + 1
  /\ UNCHANGED <<serializedToSend, lastMessageByteSent, sender, historyVars, wire, closed,
                 receiverVars>>

\* SendTcpMessageSystem: all messages are serialized, ...
BeginSend ==
  /\ sender = "idle"
  /\ serializedToSend' = serializedToSend \o messagesToSend
  /\ messagesToSend' = <<>>
  /\ sender' = "sending"
  /\ UNCHANGED <<nextMessage, lastMessageByteSent, historyVars, wire, closed, receiverVars>>

\* Mutated form: the first byte after the offset is skipped.
SkipsByte(m) == SubSeq(Bytes(m), lastMessageByteSent + 2, size[m])

\* What is given to send().  It can be empty: the offset is never reset, and
\* it counts only the bytes of the last call that was partial.
Unsent(m) == SubSeq(Bytes(m), lastMessageByteSent + 1, size[m])

FrontMessage == Head(serializedToSend)

\* ... and sent one after the other, ...
SendWhole ==
  /\ sender = "sending" /\ serializedToSend # <<>>
  /\ Unsent(FrontMessage) # <<>>
  /\ wire' = wire \o Unsent(FrontMessage)
  /\ serializedToSend' = Tail(serializedToSend)
  /\ UNCHANGED <<nextMessage, messagesToSend, lastMessageByteSent, sender, historyVars, closed,
                 receiverVars>>

\* A message that is sent in part is still right when the rest follows.  When it
\* is sent in part again its bytes are lost or repeated, and so are those of the
\* messages after it.
LastTrusted(m) ==
  IF lastMessageByteSent = 0 THEN m ELSE IF m = trusted THEN m - 1 ELSE trusted

\* ... until one is sent in part only, ...
SendPart ==
  /\ sender = "sending" /\ serializedToSend # <<>>
  /\ FrontMessage \in PartialSends /\ partialSends < MaxPartialSends
  /\ \E byteSent \in 1..(Len(Unsent(FrontMessage)) - 1) :
       /\ wire' = wire \o SubSeq(Unsent(FrontMessage), 1, byteSent)
       /\ lastMessageByteSent' = byteSent
  /\ sender' = "idle"
  /\ partialSends' = partialSends + 1
  /\ trusted' = LastTrusted(FrontMessage)
  /\ UNCHANGED <<nextMessage, messagesToSend, serializedToSend, closed, receiverVars>>

\* ... or a send fails.  Sending nothing looks like a closed connection, and a
\* size below zero is too large.
SendFails ==
  /\ sender = "sending" /\ serializedToSend # <<>>
  /\ SendsFail \/ Unsent(FrontMessage) = <<>>
  /\ sender' = "failed"
  /\ UNCHANGED <<nextMessage, messagesToSend, serializedToSend, lastMessageByteSent, historyVars,
                 wire, closed, receiverVars>>

SendDone ==
  /\ sender = "sending" /\ serializedToSend = <<>>
  /\ sender' = "idle"
  /\ UNCHANGED <<nextMessage, messagesToSend, serializedToSend, lastMessageByteSent, historyVars,
                 wire, closed, receiverVars>>

\* The sender's process ends.
Close ==
  /\ ~closed /\ closed' = TRUE
  /\ UNCHANGED <<senderVars, wire, receiverVars>>

-----------------------------------------------------------------------------
\* ReceiveTcpMessageSystem: what has arrived is added to the buffer.
Receive ==
  /\ receiver = "idle"
  /\ \E k \in 0..Len(wire) :
       /\ receivedBuffer' = receivedBuffer \o SubSeq(wire, 1, k)
       /\ wire' = SubSeq(wire, k + 1, Len(wire))
  /\ receiver' = "decoding"
  /\ UNCHANGED <<senderVars, closed, delivered>>

\* The end of the stream arrived too: what came with it is not added.
ReceiveEnd ==
  /\ receiver = "idle" /\ closed
  /\ wire' = <<>>
  /\ receiver' = "failed"
  /\ UNCHANGED <<senderVars, closed, receivedBuffer, delivered>>

\* The message whose header comes first in the buffer.
StartsWith(buffer, m) ==
  \A i \in 1..HeaderSize : buffer[i] = Byte(m, i)

\* The size in the header, or any size when the first bytes are no header.
PayloadSizes(buffer) ==
  LET known == {m \in Messages : StartsWith(buffer, m)}
  IN IF known # {} THEN {size[m] - HeaderSize : m \in known} ELSE 0..Len(buffer)

\* Mutated form: one byte more than the message is awaited.
AwaitsMore(buffer, payload) == Len(buffer) > HeaderSize + payload

Complete(buffer, payload) == Len(buffer) >= HeaderSize + payload

\* Mutated form: the header stays in the buffer.
PayloadOnly(payload) == payload

ConsumedBytes(payload) == HeaderSize + payload

\* What bytes are read as: their message, or, when they are those of none,
\* whatever their first bytes name.
Deserialized(data) ==
  LET known == {m \in Messages : data = Bytes(m)}
  IN IF known # {} THEN known ELSE {Garbage, Thrown}

\* One turn of the loop: getPayloadFromNetworkBuffer and deserializePayload.
\* Nobody catches an exception: it ends the process.
Decode ==
  /\ receiver = "decoding" /\ Len(receivedBuffer) >= HeaderSize
  /\ \E payload \in PayloadSizes(receivedBuffer) :
       /\ Complete(receivedBuffer, payload)
       /\ receivedBuffer' =
            SubSeq(receivedBuffer, ConsumedBytes(payload) + 1, Len(receivedBuffer))
       /\ \E m \in Deserialized(SubSeq(receivedBuffer, 1, HeaderSize + payload)) :
            /\ delivered' = IF m = Thrown THEN delivered ELSE Append(delivered, m)
            /\ receiver' = IF m = Thrown THEN "failed" ELSE receiver
  /\ UNCHANGED <<senderVars, wire, closed>>

DecodeDone ==
  /\ receiver = "decoding"
  /\ \/ Len(receivedBuffer) < HeaderSize
     \/ /\ Len(receivedBuffer) >= HeaderSize
        /\ \E payload \in PayloadSizes(receivedBuffer) : ~Complete(receivedBuffer, payload)
  /\ receiver' = "idle"
  /\ UNCHANGED <<senderVars, wire, closed, receivedBuffer, delivered>>

-----------------------------------------------------------------------------
SendTcpMessageSystem ==
  ~closed /\ (BeginSend \/ SendWhole \/ SendPart \/ SendFails \/ SendDone)

ReceiveTcpMessageSystem == Receive \/ ReceiveEnd \/ Decode \/ DecodeDone

\* The connection is over at both ends.
Finished == closed /\ receiver = "failed" /\ UNCHANGED vars

Next ==
  /\ Queue \/ Close \/ SendTcpMessageSystem \/ ReceiveTcpMessageSystem \/ Finished
  /\ UNCHANGED size

Spec == Init /\ [][Next]_vars

\* Both threads run their loops, and what was sent arrives some day.
ReceiveAll == Receive /\ wire' = <<>>

Fairness ==
  /\ WF_vars(SendTcpMessageSystem /\ UNCHANGED size)
  /\ WF_vars(ReceiveTcpMessageSystem /\ UNCHANGED size)
  /\ SF_vars(ReceiveAll /\ UNCHANGED size)

-----------------------------------------------------------------------------
TypeOK ==
  /\ size \in Sizes
  /\ nextMessage \in 1..(MaxMessages + 1)
  /\ messagesToSend \in Seq(Messages)
  /\ serializedToSend \in Seq(Messages)
  /\ lastMessageByteSent \in Nat
  /\ sender \in {"idle", "sending", "failed"}
  /\ wire \in Seq([msg : Messages, at : Nat \ {0}])
  /\ closed \in BOOLEAN
  /\ receivedBuffer \in Seq([msg : Messages, at : Nat \ {0}])
  /\ receiver \in {"idle", "decoding", "failed"}
  /\ delivered \in Seq(Messages \cup {Garbage})
  /\ partialSends \in 0..MaxPartialSends /\ trusted \in 0..MaxMessages

\* The byte that follows b in the stream of all messages.
Succ(b) == IF b.at < size[b.msg] THEN Byte(b.msg, b.at + 1) ELSE Byte(b.msg + 1, 1)

\* The bytes received and not decoded, and those on their way.
Stream == receivedBuffer \o wire

\* Until a send is partial, the stream a receiver has still to decode begins
\* where the last message ended, has every byte in its place, ends with a
\* message, and what is queued continues it, in whatever pieces bytes arrive
\* and however many messages are sent and decoded at a time.  The messages up to
\* the trusted one are delivered in order whatever is partial after them.
StreamInv ==
  /\ TypeOK
  /\ \A i \in 1..Len(delivered) : i <= trusted => delivered[i] = i
  /\ lastMessageByteSent = 0 /\ receiver # "failed" =>
       /\ \A i \in 1..Len(Stream) :
            Stream[i] = IF i = 1 THEN Byte(Len(delivered) + 1, 1) ELSE Succ(Stream[i - 1])
       /\ LET last == IF Stream = <<>> THEN Len(delivered) ELSE Stream[Len(Stream)].msg
              queue == serializedToSend \o messagesToSend
          IN /\ Stream # <<>> => Stream[Len(Stream)].at = size[last]
             /\ \A i \in 1..Len(queue) : queue[i] = last + i
             /\ nextMessage = last + Len(queue) + 1

\* The receiver gets the messages in the order they were sent, each once and
\* whole: a message of which only a part was sent is continued later, as
\* m_lastMessageByteSent is there for.
DeliveredInOrder == \A i \in 1..Len(delivered) : delivered[i] = i

\* The trusted messages that arrived.
Arrived == 1..(IF Len(delivered) < trusted THEN Len(delivered) ELSE trusted)

Link == INSTANCE Channel WITH
  sent <- [i \in 1..(nextMessage - 1) |-> i],
  delivered <- [i \in Arrived |-> delivered[i]],
  lost <- receiver = "failed" \/ Len(delivered) > trusted

\* The two systems and the bytes between them are a channel of messages, as
\* Session takes them to be.  When sends are partial it ends with the trusted
\* message, as if the connection were lost there.
ImplementsChannel == Link!Spec

\* A trusted message that is sent arrives, unless the connection fails: none
\* stays in a queue or a buffer.
EventuallyDelivered ==
  \A m \in Messages :
    nextMessage > m ~> \/ Len(delivered) >= m \/ m > trusted
                       \/ sender = "failed" \/ closed
=============================================================================
