------------------------ MODULE MessageExchangeProofs ------------------------
(***************************************************************************)
(* Proofs about messages from one application to the other.                *)
(*                                                                         *)
(* First the byte stream between the two message systems, for any header   *)
(* size, any lengths of messages, any pieces in which the bytes arrive and *)
(* any partial sends: StreamInv, and that the systems are a Channel, which *)
(* ends with the last message whose bytes are all sent in their place.     *)
(*                                                                         *)
(* Then the serializer: numbers, elements, fields, objects and snapshots   *)
(* are read as they were written, whatever the bytes of the types are.     *)
(*                                                                         *)
(* Last both together: ReadsStayInside, and that the objects themselves go *)
(* through a channel.                                                      *)
(***************************************************************************)
EXTENDS MessageExchange, Induction, SequenceTheorems

\* The bytes of the stream.
ByteSet == [msg : Messages, at : Nat \ {0}]

\* The first byte of s is the first after message d, and each other follows the
\* one before it.
Ordered(s, d) ==
  \A i \in 1..Len(s) : s[i] = IF i = 1 THEN Byte(d + 1, 1) ELSE Succ(s[i - 1])

\* With each byte the rest of its message is in s, and none is of a message that
\* was not queued yet.  Ordered alone says it only by induction over the bytes.
Whole(s, next) ==
  \A i \in 1..Len(s) :
    /\ s[i].msg < next /\ s[i].at <= size[s[i].msg]
    /\ i + (size[s[i].msg] - s[i].at) <= Len(s)
    /\ \A j \in 0..(size[s[i].msg] - s[i].at) : s[i + j] = Byte(s[i].msg, s[i].at + j)

\* The stream ends with the end of a message, and what waits to be sent continues
\* it.
Continued(s, d, queue, next) ==
  LET last == IF s = <<>> THEN d ELSE s[Len(s)].msg
  IN /\ s # <<>> => s[Len(s)].at = size[last]
     /\ \A i \in 1..Len(queue) : queue[i] = last + i
     /\ next = last + Len(queue) + 1

\* All three.
InPlace(s, d, queue, next) ==
  Ordered(s, d) /\ Whole(s, next) /\ Continued(s, d, queue, next)

\* What waits to be sent.
waiting == serializedToSend \o messagesToSend

\* s has the messages after d up to m, whole.
MessagesUpTo(s, d, m, next) ==
  /\ s \in Seq(ByteSet) /\ Ordered(s, d) /\ Whole(s, next)
  /\ s = <<>> => m = d
  /\ s # <<>> => s[Len(s)].msg = m /\ s[Len(s)].at = size[m]

\* Before a send is partial the stream is in place.  Then it begins with the rest
\* of the trusted messages, if they did not all arrive: with all of their bytes,
\* or, as long as the last of them is still to be continued, with those that
\* were sent of it.
RightStream(s, d, queue, next, byteSent, last) ==
  \/ byteSent = 0 /\ InPlace(s, d, queue, next)
  \/ byteSent # 0 /\ d >= last
  \/ /\ byteSent # 0 /\ last + Len(queue) < next
     /\ \E r \in Seq(ByteSet) :
          /\ MessagesUpTo(r, d, last, next)
          /\ Len(r) <= Len(s) /\ \A i \in 1..Len(r) : s[i] = r[i]
  \/ /\ byteSent # 0 /\ last + Len(queue) = next /\ byteSent < size[last]
     /\ \E r \in Seq(ByteSet) :
          /\ MessagesUpTo(r, d, last - 1, next)
          /\ s = r \o SubSeq(Bytes(last), 1, byteSent)

\* What waits are the last messages that were queued.
WaitsInOrder == \A i \in 1..Len(waiting) : waiting[i] + Len(waiting) + 1 = nextMessage + i

\* The trusted message is past, or it is the first to be sent and did not arrive.
TrustedIsSent ==
  \/ trusted + Len(waiting) < nextMessage
  \/ /\ trusted + Len(waiting) = nextMessage /\ serializedToSend # <<>>
     /\ Len(delivered) < trusted

\* StreamInv, with Whole and with what holds after a partial send.
FramingInv ==
  /\ TypeOK /\ WaitsInOrder
  /\ \A i \in 1..Len(delivered) : i <= trusted => delivered[i] = i
  /\ lastMessageByteSent = 0 =>
       trusted = MaxMessages /\ Len(delivered) + Len(waiting) < nextMessage
  /\ lastMessageByteSent # 0 => TrustedIsSent
  /\ receiver # "failed" =>
       RightStream(Stream, Len(delivered), waiting, nextMessage, lastMessageByteSent, trusted)

\* It implies what the run checks.
LEMMA FramingInvIsStronger == FramingInv => StreamInv
  BY DEF FramingInv, StreamInv, RightStream, InPlace, Ordered, Continued, waiting

-----------------------------------------------------------------------------
\* The bytes of a message are bytes, and at least a header.
LEMMA BytesType ==
  ASSUME size \in Sizes, NEW m \in Messages
  PROVE  /\ size[m] \in Nat \ {0} /\ size[m] >= HeaderSize
         /\ Bytes(m) \in Seq(ByteSet) /\ Len(Bytes(m)) = size[m]
         /\ \A i \in 1..size[m] : Bytes(m)[i] = Byte(m, i)
  <1>1. size[m] \in Nat \ {0} /\ size[m] >= HeaderSize
    BY FramingAssumption DEF FramingAssumption
  <1>2. \A i \in 1..size[m] : Byte(m, i) \in ByteSet
    BY DEF Byte, ByteSet
  <1>3. Bytes(m) \in [1..size[m] -> ByteSet]
    BY <1>2 DEF Bytes
  <1>4. Bytes(m) \in Seq(ByteSet) /\ Len(Bytes(m)) = size[m]
    BY <1>1, <1>3
  <1>5. QED
    BY <1>1, <1>4 DEF Bytes

\* What a byte of a stream says of itself.
LEMMA ByteParts ==
  ASSUME NEW s \in Seq(ByteSet), NEW i \in 1..Len(s)
  PROVE  /\ s[i] \in ByteSet /\ s[i].msg \in Messages /\ s[i].msg \in Nat
         /\ s[i].at \in Nat \ {0}
  <1>1. s[i] \in ByteSet
    BY ElementOfSeq
  <1>2. s[i].msg \in Messages /\ s[i].at \in Nat \ {0}
    BY <1>1 DEF ByteSet
  <1>3. QED
    BY <1>1, <1>2 DEF Messages

\* A piece of a sequence is one.
LEMMA PieceType ==
  ASSUME NEW S, NEW s \in Seq(S), NEW i \in Nat \ {0}, NEW j \in 0..Len(s)
  PROVE  /\ SubSeq(s, i, j) \in Seq(S)
         /\ Len(SubSeq(s, i, j)) = IF i <= j THEN j - i + 1 ELSE 0
         /\ \A l \in 1..(j - i + 1) : SubSeq(s, i, j)[l] = s[i + l - 1]
  <1>1. \A l \in i..j : s[l] \in S
    BY ElementOfSeq
  <1>2. i \in Int /\ j \in Int
    OBVIOUS
  <1>3. QED
    BY <1>1, <1>2, SubSeqProperties

\* Two pieces make a stream of the bytes of both.
LEMMA Joined ==
  ASSUME NEW s \in Seq(ByteSet), NEW t \in Seq(ByteSet), NEW joined, joined = s \o t
  PROVE  /\ joined \in Seq(ByteSet) /\ Len(joined) = Len(s) + Len(t)
         /\ \A i \in 1..(Len(s) + Len(t)) : joined[i] = IF i <= Len(s) THEN s[i] ELSE t[i - Len(s)]
  BY ConcatProperties

\* What is given to send() is a piece of the message, all of it when no send was
\* partial before.
LEMMA UnsentType ==
  ASSUME size \in Sizes, NEW m \in Messages, lastMessageByteSent \in Nat
  PROVE  /\ Unsent(m) \in Seq(ByteSet)
         /\ lastMessageByteSent = 0 => Unsent(m) = Bytes(m)
  <1>1. /\ Bytes(m) \in Seq(ByteSet) /\ Len(Bytes(m)) = size[m] /\ size[m] \in Nat \ {0}
    BY BytesType
  <1>2. Unsent(m) \in Seq(ByteSet)
    BY <1>1, PieceType DEF Unsent
  <1>3. ASSUME lastMessageByteSent = 0
        PROVE  Unsent(m) = Bytes(m)
    <2>1. Unsent(m) = SubSeq(Bytes(m), 1, Len(Bytes(m)))
      BY <1>1, <1>3 DEF Unsent
    <2>2. QED
      BY <1>1, <2>1, SubSeqFull
  <1>4. QED
    BY <1>2, <1>3

\* A whole message behind a stream that ends with a whole message keeps it so.
LEMMA AppendMessage ==
  ASSUME size \in Sizes, NEW s \in Seq(ByteSet), NEW d \in Nat, NEW m \in Messages,
         NEW next \in Nat, m < next, Ordered(s, d), Whole(s, next),
         s = <<>> => m = d + 1,
         s # <<>> => s[Len(s)].at = size[s[Len(s)].msg] /\ m = s[Len(s)].msg + 1
  PROVE  /\ s \o Bytes(m) \in Seq(ByteSet) /\ s \o Bytes(m) # <<>>
         /\ (s \o Bytes(m))[Len(s \o Bytes(m))] = Byte(m, size[m])
         /\ Ordered(s \o Bytes(m), d) /\ Whole(s \o Bytes(m), next)
  <1> DEFINE t == s \o Bytes(m)
             k == Len(s)
  <1>1. /\ size[m] \in Nat \ {0} /\ Bytes(m) \in Seq(ByteSet) /\ Len(Bytes(m)) = size[m]
        /\ \A i \in 1..size[m] : Bytes(m)[i] = Byte(m, i)
    BY BytesType
  <1>2. /\ t \in Seq(ByteSet) /\ k \in Nat /\ Len(t) = k + size[m]
        /\ \A i \in 1..k : t[i] = s[i]
        /\ \A i \in 1..size[m] : t[k + i] = Byte(m, i)
    <2>1. /\ t \in Seq(ByteSet) /\ k \in Nat /\ Len(t) = k + size[m]
          /\ \A i \in 1..(k + size[m]) : t[i] = IF i <= k THEN s[i] ELSE Bytes(m)[i - k]
      <3>1. k \in Nat
        BY LenProperties
      <3>2. /\ t \in Seq(ByteSet) /\ Len(t) = k + Len(Bytes(m))
            /\ \A i \in 1..(k + Len(Bytes(m))) : t[i] = IF i <= k THEN s[i] ELSE Bytes(m)[i - k]
        BY <1>1, ConcatProperties
      <3>3. QED
        BY <1>1, <3>1, <3>2
    <2>2. ASSUME NEW i \in 1..size[m]
          PROVE  t[k + i] = Byte(m, i)
      <3>1. k + i \in 1..(k + size[m]) /\ ~(k + i <= k) /\ (k + i) - k = i
        BY <1>1, <2>1
      <3>2. QED
        BY <1>1, <2>1, <3>1
    <2>3. ASSUME NEW i \in 1..k
          PROVE  t[i] = s[i]
      BY <1>1, <2>1
    <2>4. QED
      BY <2>1, <2>2, <2>3
  <1> HIDE DEF t
  <1>3. Ordered(t, d)
    <2>1. ASSUME NEW i \in 1..Len(t)
          PROVE  t[i] = IF i = 1 THEN Byte(d + 1, 1) ELSE Succ(t[i - 1])
      <3>1. CASE i <= k
        BY <1>2, <3>1 DEF Ordered
      <3>2. CASE i = k + 1
        <4>1. t[i] = Byte(m, 1)
          BY <1>1, <1>2, <3>2
        <4>2. CASE k = 0
          BY <3>2, <4>1, <4>2
        <4>3. CASE k > 0
          <5>1. s # <<>> /\ t[i - 1] = s[k] /\ i # 1
            BY <1>2, <3>2, <4>3
          <5>2. s[k].at \in Nat /\ ~(s[k].at < size[s[k].msg]) /\ m = s[k].msg + 1
            <6>1. k \in 1..Len(s)
              BY <1>2, <4>3
            <6>2. s[k] \in ByteSet
              BY <6>1, ElementOfSeq
            <6>3. QED
              BY <5>1, <6>2 DEF ByteSet
          <5>3. QED
            BY <4>1, <5>1, <5>2 DEF Succ
        <4>4. QED
          BY <1>2, <4>2, <4>3
      <3>3. CASE i > k + 1
        <4>1. i - k \in 1..size[m] /\ (i - k) - 1 \in 1..size[m]
          BY <1>1, <1>2, <3>3
        <4>2. t[i] = Byte(m, i - k) /\ t[i - 1] = Byte(m, (i - k) - 1)
          <5>1. i = k + (i - k) /\ i - 1 = k + ((i - k) - 1)
            BY <1>2
          <5>2. QED
            BY <1>2, <4>1, <5>1
        <4>3. i # 1 /\ (i - k) - 1 < size[m] /\ ((i - k) - 1) + 1 = i - k
          BY <1>1, <1>2, <3>3
        <4>4. QED
          BY <4>2, <4>3 DEF Succ, Byte
      <3>4. QED
        BY <1>2, <3>1, <3>2, <3>3
    <2>2. QED
      BY <2>1 DEF Ordered
  <1>4. Whole(t, next)
    <2>1. ASSUME NEW i \in 1..Len(t)
          PROVE  /\ t[i].msg < next /\ t[i].at <= size[t[i].msg]
                 /\ i + (size[t[i].msg] - t[i].at) <= Len(t)
                 /\ \A j \in 0..(size[t[i].msg] - t[i].at) :
                      t[i + j] = Byte(t[i].msg, t[i].at + j)
      <3>1. CASE i <= k
        <4>1. /\ i \in 1..Len(s) /\ t[i] = s[i]
              /\ s[i].msg < next /\ s[i].at <= size[s[i].msg]
              /\ i + (size[s[i].msg] - s[i].at) <= k
              /\ \A j \in 0..(size[s[i].msg] - s[i].at) : s[i + j] = Byte(s[i].msg, s[i].at + j)
          BY <1>2, <3>1 DEF Whole
        <4>2. s[i] \in ByteSet /\ size[s[i].msg] \in Nat /\ s[i].at \in Nat
          <5>1. s[i] \in ByteSet
            BY <4>1, ElementOfSeq
          <5>2. QED
            BY <5>1, BytesType DEF ByteSet
        <4> DEFINE rest == size[s[i].msg] - s[i].at
        <4>3. rest \in Nat /\ i + rest <= k
          BY <4>1, <4>2
        <4> HIDE DEF rest
        <4>4. i + rest <= Len(t)
          BY <1>1, <1>2, <4>3
        <4>5. ASSUME NEW j \in 0..rest
              PROVE  t[i + j] = Byte(s[i].msg, s[i].at + j)
          <5>1. i + j \in 1..k
            BY <1>2, <4>3
          <5>2. t[i + j] = s[i + j]
            BY <1>2, <5>1
          <5>3. QED
            BY <4>1, <5>2 DEF rest
        <4>6. QED
          BY <4>1, <4>4, <4>5 DEF rest
      <3>2. CASE i > k
        <4>1. i - k \in 1..size[m] /\ i = k + (i - k)
          BY <1>1, <1>2, <3>2
        <4>2. t[i] = Byte(m, i - k)
          BY <1>2, <4>1
        <4>3. t[i].msg = m /\ t[i].at = i - k
          BY <4>2 DEF Byte
        <4>4. ASSUME NEW j \in 0..(size[m] - (i - k))
              PROVE  t[i + j] = Byte(m, (i - k) + j)
          <5> DEFINE p == i - k
                     q == p + j
          <5>1. p \in 1..size[m] /\ j \in 0..(size[m] - p) /\ size[m] \in Nat /\ k \in Nat
            BY <1>1, <1>2, <4>1
          <5>2. i + j = k + q
            BY <1>2, <4>1
          <5> HIDE DEF p
          <5>3. q \in 1..size[m]
            BY <5>1
          <5> HIDE DEF q
          <5>4. t[k + q] = Byte(m, q)
            BY <1>2, <5>3
          <5>5. QED
            BY <5>2, <5>4 DEF p, q
        <4>5. QED
          BY <1>1, <1>2, <4>1, <4>3, <4>4
      <3>3. QED
        BY <1>2, <3>1, <3>2
    <2>2. QED
      BY <2>1 DEF Whole
  <1>5. t # <<>> /\ t[Len(t)] = Byte(m, size[m])
    BY <1>1, <1>2
  <1>6. QED
    BY <1>2, <1>3, <1>4, <1>5 DEF t

\* The stream begins with the whole of the message that follows, and what comes
\* behind it is again such a stream.
LEMMA DropMessage ==
  ASSUME size \in Sizes, NEW s \in Seq(ByteSet), s # <<>>, NEW d \in Nat, NEW next \in Nat,
         Ordered(s, d), Whole(s, next)
  PROVE  /\ d + 1 \in Messages /\ d + 1 < next
         /\ size[d + 1] \in 1..Len(s)
         /\ \A i \in 1..size[d + 1] : s[i] = Byte(d + 1, i)
         /\ LET t == SubSeq(s, size[d + 1] + 1, Len(s))
            IN /\ t \in Seq(ByteSet)
               /\ Ordered(t, d + 1) /\ Whole(t, next)
               /\ t # <<>> => t[Len(t)] = s[Len(s)]
               /\ t = <<>> => s[Len(s)] = Byte(d + 1, size[d + 1])
  <1> DEFINE m == d + 1
             k == size[m]
             t == SubSeq(s, k + 1, Len(s))
  <1>1. /\ Len(s) \in Nat \ {0} /\ 1 \in 1..Len(s) /\ s[1] = Byte(m, 1)
        /\ \A i \in 1..Len(s) : s[i] \in ByteSet
    <2>1. Len(s) \in Nat \ {0}
      BY EmptySeq
    <2>2. QED
      BY <2>1, ElementOfSeq DEF Ordered
  <1>2. m \in Messages /\ s[1].msg = m /\ s[1].at = 1
    <2>1. s[1].msg = m /\ s[1].at = 1
      BY <1>1 DEF Byte
    <2>2. QED
      BY <1>1, <2>1 DEF ByteSet
  <1>3. k \in Nat \ {0}
    BY <1>2, BytesType
  <1>4. /\ m < next /\ 1 + (k - 1) <= Len(s)
        /\ \A j \in 0..(k - 1) : s[1 + j] = Byte(m, 1 + j)
    BY <1>1, <1>2 DEF Whole
  <1>5. ASSUME NEW i \in 1..k
        PROVE  s[i] = Byte(m, i)
    <2>1. i - 1 \in 0..(k - 1) /\ 1 + (i - 1) = i
      BY <1>3
    <2>2. QED
      BY <1>4, <2>1
  <1>6. k = size[m] /\ m = d + 1
    OBVIOUS
  <1> HIDE DEF k, m
  <1>7. /\ t \in Seq(ByteSet) /\ Len(t) = Len(s) - k
        /\ \A i \in 1..(Len(s) - k) : t[i] = s[k + i]
    <2>1. k + 1 \in Nat \ {0} /\ Len(s) \in 0..Len(s)
      BY <1>1, <1>3
    <2>2. /\ t \in Seq(ByteSet)
          /\ Len(t) = IF k + 1 <= Len(s) THEN Len(s) - (k + 1) + 1 ELSE 0
          /\ \A i \in 1..(Len(s) - (k + 1) + 1) : t[i] = s[(k + 1) + i - 1]
      BY <2>1, PieceType
    <2>3. Len(s) - (k + 1) + 1 = Len(s) - k
      BY <1>1, <1>3
    <2>4. ASSUME NEW i \in 1..(Len(s) - k)
          PROVE  t[i] = s[k + i]
      <3>1. (k + 1) + i - 1 = k + i
        BY <1>3
      <3>2. QED
        BY <2>2, <2>3, <3>1
    <2>5. Len(t) = Len(s) - k
      BY <1>1, <1>3, <1>4, <2>2
    <2>6. QED
      BY <2>2, <2>4, <2>5
  <1> HIDE DEF t
  <1>8. Ordered(t, m)
    <2>1. ASSUME NEW i \in 1..Len(t)
          PROVE  t[i] = IF i = 1 THEN Byte(m + 1, 1) ELSE Succ(t[i - 1])
      <3>1. k + i \in 1..Len(s) /\ k + i # 1 /\ t[i] = s[k + i]
        BY <1>1, <1>3, <1>4, <1>7
      <3>2. s[k + i] = Succ(s[(k + i) - 1])
        BY <3>1 DEF Ordered
      <3>3. CASE i = 1
        <4>1. (k + i) - 1 = k /\ k \in 1..k
          BY <1>3, <3>3
        <4>2. s[(k + i) - 1] = Byte(m, k)
          BY <4>1, <1>5
        <4>3. QED
          BY <3>1, <3>2, <3>3, <4>2, <1>3, <1>6 DEF Succ, Byte
      <3>4. CASE i # 1
        <4>1. i - 1 \in 1..(Len(s) - k) /\ k + (i - 1) = (k + i) - 1
          BY <1>1, <1>3, <1>7, <3>4
        <4>2. t[i - 1] = s[(k + i) - 1]
          BY <1>7, <4>1
        <4>3. QED
          BY <3>1, <3>2, <3>4, <4>2
      <3>5. QED
        BY <3>3, <3>4
    <2>2. QED
      BY <2>1 DEF Ordered
  <1>9. Whole(t, next)
    <2>1. ASSUME NEW i \in 1..Len(t)
          PROVE  /\ t[i].msg < next /\ t[i].at <= size[t[i].msg]
                 /\ i + (size[t[i].msg] - t[i].at) <= Len(t)
                 /\ \A j \in 0..(size[t[i].msg] - t[i].at) :
                      t[i + j] = Byte(t[i].msg, t[i].at + j)
      <3>1. k + i \in 1..Len(s) /\ t[i] = s[k + i] /\ s[k + i] \in ByteSet
        BY <1>1, <1>3, <1>4, <1>7
      <3>2. size[t[i].msg] \in Nat /\ t[i].at \in Nat
        BY <3>1, BytesType DEF ByteSet
      <3>3. /\ t[i].msg < next /\ t[i].at <= size[t[i].msg]
            /\ (k + i) + (size[t[i].msg] - t[i].at) <= Len(s)
            /\ \A j \in 0..(size[t[i].msg] - t[i].at) :
                 s[(k + i) + j] = Byte(t[i].msg, t[i].at + j)
        BY <3>1 DEF Whole
      <3> DEFINE rest == size[t[i].msg] - t[i].at
      <3>3a. rest \in Nat
        BY <3>2, <3>3
      <3> HIDE DEF rest
      <3>4. i + rest <= Len(t)
        <4>1. (k + i) + rest <= Len(s)
          BY <3>3 DEF rest
        <4>2. QED
          BY <1>1, <1>3, <1>7, <3>3a, <4>1
      <3>5. ASSUME NEW j \in 0..rest
            PROVE  t[i + j] = Byte(t[i].msg, t[i].at + j)
        <4>1. i + j \in 1..(Len(s) - k) /\ k + (i + j) = (k + i) + j
          BY <1>1, <1>3, <1>7, <3>3a, <3>4
        <4>2. t[i + j] = s[(k + i) + j]
          BY <1>7, <4>1
        <4>3. QED
          BY <3>3, <4>2 DEF rest
      <3>6. QED
        BY <3>3, <3>4, <3>5 DEF rest
    <2>2. QED
      BY <2>1 DEF Whole
  <1>10. t # <<>> => t[Len(t)] = s[Len(s)]
    <2>1. ASSUME t # <<>>
          PROVE  t[Len(t)] = s[Len(s)]
      <3>1. Len(t) \in 1..(Len(s) - k) /\ k + Len(t) = Len(s)
        BY <1>1, <1>3, <1>7, <2>1, EmptySeq
      <3>2. QED
        BY <1>7, <3>1
    <2>2. QED
      BY <2>1
  <1>11. t = <<>> => s[Len(s)] = Byte(m, k)
    BY <1>1, <1>3, <1>5, <1>7
  <1>12. k \in 1..Len(s)
    BY <1>1, <1>3, <1>4
  <1>13. QED
    BY <1>2, <1>4, <1>5, <1>7, <1>8, <1>9, <1>10, <1>11, <1>12 DEF t, k, m

-----------------------------------------------------------------------------
\* The first state has its types.
LEMMA InitType == Init => TypeOK
  <1> SUFFICES ASSUME Init
               PROVE  TypeOK
    OBVIOUS
  <1>1. /\ 1 \in 1..(MaxMessages + 1)
        /\ 0 \in 0..MaxPartialSends /\ MaxMessages \in 0..MaxMessages
    BY FramingAssumption DEF FramingAssumption
  <1>2. /\ <<>> \in Seq(Messages) /\ <<>> \in Seq(Messages \cup {Garbage})
        /\ <<>> \in Seq([msg : Messages, at : Nat \ {0}])
    BY EmptySeq
  <1>3. QED
    BY <1>1, <1>2 DEF Init, TypeOK

\* Every step keeps the types of the queues, the bytes and the messages.
LEMMA NextType == TypeOK /\ [Next]_vars => TypeOK'
  <1> SUFFICES ASSUME TypeOK, [Next]_vars
               PROVE  TypeOK'
    OBVIOUS
  <1> USE DEF TypeOK, historyVars
  <1>1. size' = size /\ MaxMessages \in Nat /\ MaxPartialSends \in Nat
    BY FramingAssumption DEF FramingAssumption, Next, vars
  <1>2. CASE Queue
    <2>1. nextMessage' \in 1..(MaxMessages + 1)
      BY <1>1, <1>2 DEF Queue, Messages
    <2>2. QED
      BY <1>1, <1>2, <2>1 DEF Queue, receiverVars
  <1>3. CASE BeginSend
    <2>1. serializedToSend' \in Seq(Messages) /\ messagesToSend' \in Seq(Messages)
      BY <1>3, ConcatProperties, EmptySeq DEF BeginSend
    <2>2. QED
      BY <1>1, <1>3, <2>1 DEF BeginSend, receiverVars
  <1>4. CASE SendWhole
    <2>1. FrontMessage \in Messages /\ serializedToSend' \in Seq(Messages)
      BY <1>4, HeadTailProperties DEF SendWhole, FrontMessage
    <2>2. Unsent(FrontMessage) \in Seq(ByteSet)
      BY <2>1, UnsentType
    <2>3. wire' \in Seq([msg : Messages, at : Nat \ {0}])
      BY <1>4, <2>2, ConcatProperties DEF SendWhole, ByteSet
    <2>4. QED
      BY <1>1, <1>4, <2>1, <2>3 DEF SendWhole, receiverVars
  <1>5. CASE SendPart
    <2>1. FrontMessage \in Messages
      BY <1>5, HeadTailProperties DEF SendPart, FrontMessage
    <2>2. Unsent(FrontMessage) \in Seq(ByteSet)
      BY <2>1, UnsentType
    <2>3. PICK byteSent \in 1..(Len(Unsent(FrontMessage)) - 1) :
            /\ wire' = wire \o SubSeq(Unsent(FrontMessage), 1, byteSent)
            /\ lastMessageByteSent' = byteSent
      BY <1>5 DEF SendPart
    <2>4. byteSent \in 0..Len(Unsent(FrontMessage)) /\ byteSent \in Nat
      BY <2>2, <2>3, LenProperties
    <2>5. SubSeq(Unsent(FrontMessage), 1, byteSent) \in Seq(ByteSet)
      BY <2>2, <2>4, PieceType
    <2>6. wire' \in Seq([msg : Messages, at : Nat \ {0}])
      BY <2>3, <2>5, ConcatProperties DEF ByteSet
    <2>7. partialSends' \in 0..MaxPartialSends /\ trusted' \in 0..MaxMessages
      BY <1>1, <1>5, <2>1 DEF SendPart, LastTrusted, Messages
    <2>8. QED
      BY <1>1, <1>5, <2>3, <2>4, <2>6, <2>7 DEF SendPart, receiverVars
  <1>6. CASE SendFails \/ SendDone \/ Close
    BY <1>1, <1>6 DEF SendFails, SendDone, Close, senderVars, receiverVars
  <1>7. CASE Receive
    <2>1. PICK k \in 0..Len(wire) :
            /\ receivedBuffer' = receivedBuffer \o SubSeq(wire, 1, k)
            /\ wire' = SubSeq(wire, k + 1, Len(wire))
      BY <1>7 DEF Receive
    <2>2. /\ Len(wire) \in Nat /\ k \in 0..Len(wire)
          /\ Len(wire) \in 0..Len(wire) /\ k + 1 \in Nat \ {0}
      BY LenProperties
    <2>3. /\ SubSeq(wire, 1, k) \in Seq([msg : Messages, at : Nat \ {0}])
          /\ wire' \in Seq([msg : Messages, at : Nat \ {0}])
      <3>1. wire \in Seq(ByteSet)
        BY DEF ByteSet
      <3>2. SubSeq(wire, 1, k) \in Seq(ByteSet)
        BY <2>2, <3>1, PieceType
      <3>3. SubSeq(wire, k + 1, Len(wire)) \in Seq(ByteSet)
        BY <2>2, <3>1, PieceType
      <3>4. QED
        BY <2>1, <3>2, <3>3 DEF ByteSet
    <2>4. receivedBuffer' \in Seq([msg : Messages, at : Nat \ {0}])
      BY <2>1, <2>3, ConcatProperties
    <2>5. QED
      BY <1>1, <1>7, <2>3, <2>4 DEF Receive, senderVars
  <1>8. CASE ReceiveEnd
    BY <1>1, <1>8, EmptySeq DEF ReceiveEnd, senderVars
  <1>9. CASE Decode
    <2>1. PICK payload \in PayloadSizes(receivedBuffer) :
            /\ receivedBuffer' =
                 SubSeq(receivedBuffer, ConsumedBytes(payload) + 1, Len(receivedBuffer))
            /\ \E m \in Deserialized(SubSeq(receivedBuffer, 1, HeaderSize + payload)) :
                 /\ delivered' = IF m = Thrown THEN delivered ELSE Append(delivered, m)
                 /\ receiver' = IF m = Thrown THEN "failed" ELSE receiver
      BY <1>9 DEF Decode
    <2>2. payload \in Nat /\ HeaderSize + payload + 1 \in Nat \ {0}
      <3>1. HeaderSize \in Nat /\ Len(receivedBuffer) \in Nat
        BY FramingAssumption, LenProperties DEF FramingAssumption
      <3>2. \A m \in Messages : size[m] - HeaderSize \in Nat
        BY <3>1, BytesType
      <3>3. QED
        BY <3>1, <3>2 DEF PayloadSizes
    <2>3. receivedBuffer' \in Seq([msg : Messages, at : Nat \ {0}])
      <3>1. Len(receivedBuffer) \in 0..Len(receivedBuffer)
        BY LenProperties
      <3>2. QED
        BY <2>1, <2>2, <3>1, PieceType DEF ConsumedBytes
    <2>4. PICK m \in Deserialized(SubSeq(receivedBuffer, 1, HeaderSize + payload)) :
            /\ delivered' = IF m = Thrown THEN delivered ELSE Append(delivered, m)
            /\ receiver' = IF m = Thrown THEN "failed" ELSE receiver
      BY <2>1
    <2>5. m \in Messages \cup {Garbage, Thrown}
      BY DEF Deserialized
    <2>6. delivered' \in Seq(Messages \cup {Garbage}) /\ receiver' \in {"decoding", "failed"}
      BY <1>9, <2>4, <2>5 DEF Decode
    <2>7. QED
      BY <1>1, <1>9, <2>3, <2>6 DEF Decode, senderVars
  <1>10. CASE DecodeDone
    BY <1>1, <1>10 DEF DecodeDone, senderVars
  <1>11. CASE UNCHANGED vars
    BY <1>11 DEF vars, senderVars, receiverVars
  <1>12. QED
    BY <1>2, <1>3, <1>4, <1>5, <1>6, <1>7, <1>8, <1>9, <1>10, <1>11
    DEF Next, SendTcpMessageSystem, ReceiveTcpMessageSystem, Finished

-----------------------------------------------------------------------------
\* The stream is the bytes of the buffer, then those on their way.
LEMMA StreamType ==
  ASSUME TypeOK
  PROVE  /\ Stream \in Seq(ByteSet) /\ Len(Stream) = Len(receivedBuffer) + Len(wire)
         /\ \A i \in 1..(Len(receivedBuffer) + Len(wire)) :
              Stream[i] = IF i <= Len(receivedBuffer) THEN receivedBuffer[i]
                          ELSE wire[i - Len(receivedBuffer)]
         /\ waiting \in Seq(Messages)
         /\ Len(delivered) \in Nat /\ nextMessage \in Nat
         /\ Len(receivedBuffer) \in Nat /\ Len(wire) \in Nat
  <1>1. receivedBuffer \in Seq(ByteSet) /\ wire \in Seq(ByteSet)
    BY DEF TypeOK, ByteSet
  <1>2. waiting \in Seq(Messages)
    BY ConcatProperties DEF TypeOK, waiting
  <1>3. Len(delivered) \in Nat /\ nextMessage \in Nat
    BY LenProperties DEF TypeOK
  <1>4. QED
    BY <1>1, <1>2, <1>3, ConcatProperties, LenProperties DEF Stream

\* The sizes of messages never change, so that it is the same to ask before and
\* after a step whether a stream is right.
LEMMA SizesStay ==
  ASSUME size' = size,
         RightStream(Stream', Len(delivered'), waiting', nextMessage', lastMessageByteSent',
                     trusted')
  PROVE  RightStream(Stream, Len(delivered), waiting, nextMessage, lastMessageByteSent, trusted)'
  BY DEF RightStream, MessagesUpTo, InPlace, Ordered, Whole, Continued, Succ, Bytes, Byte

\* What is queued continues what waits.
LEMMA QueueKeepsPlace ==
  ASSUME TypeOK, Queue, InPlace(Stream, Len(delivered), waiting, nextMessage)
  PROVE  InPlace(Stream', Len(delivered'), waiting', nextMessage')
  <1>1. /\ Stream' = Stream /\ delivered' = delivered
        /\ nextMessage' = nextMessage + 1 /\ nextMessage \in Messages
        /\ messagesToSend' = Append(messagesToSend, nextMessage)
        /\ serializedToSend' = serializedToSend
    BY DEF Queue, Stream, receiverVars
  <1>2. waiting' = Append(waiting, nextMessage)
    BY <1>1 DEF TypeOK, waiting
  <1>3. /\ Len(waiting) \in Nat /\ Len(waiting') = Len(waiting) + 1
        /\ \A i \in 1..Len(waiting) : waiting'[i] = waiting[i]
        /\ waiting'[Len(waiting) + 1] = nextMessage
    BY <1>1, <1>2, StreamType, LenProperties
  <1>4. Whole(Stream, nextMessage + 1)
    <2>1. \A i \in 1..Len(Stream) : Stream[i].msg \in Nat
      BY StreamType, ByteParts
    <2>2. QED
      BY <2>1, StreamType DEF InPlace, Whole
  <1>5. Continued(Stream, Len(delivered), waiting', nextMessage + 1)
    <2> DEFINE last == IF Stream = <<>> THEN Len(delivered) ELSE Stream[Len(Stream)].msg
    <2>1. last \in Nat
      <3>1. Stream # <<>> => Len(Stream) \in 1..Len(Stream)
        BY StreamType, EmptySeq
      <3>2. QED
        BY <3>1, StreamType, ByteParts
    <2>2. /\ Stream # <<>> => Stream[Len(Stream)].at = size[last]
          /\ \A i \in 1..Len(waiting) : waiting[i] = last + i
          /\ nextMessage = last + Len(waiting) + 1
      BY DEF InPlace, Continued
    <2> HIDE DEF last
    <2>3. /\ \A i \in 1..Len(waiting') : waiting'[i] = last + i
          /\ nextMessage + 1 = last + Len(waiting') + 1
      BY <1>3, <2>1, <2>2
    <2>4. QED
      BY <2>2, <2>3 DEF last, Continued
  <1>6. QED
    BY <1>1, <1>4, <1>5 DEF InPlace

\* The first message that waits, and what waits when it is sent.
LEMMA FrontWaits ==
  ASSUME TypeOK, serializedToSend # <<>>
  PROVE  /\ FrontMessage \in Messages
         /\ Len(waiting) \in Nat \ {0} /\ waiting[1] = FrontMessage
         /\ SendWhole => /\ Len(waiting') = Len(waiting) - 1
                         /\ \A i \in 1..(Len(waiting) - 1) : waiting'[i] = waiting[i + 1]
  <1> DEFINE m == FrontMessage
  <1>1. /\ serializedToSend \in Seq(Messages) /\ serializedToSend # <<>>
        /\ messagesToSend \in Seq(Messages)
        /\ Len(serializedToSend) \in Nat \ {0} /\ Len(messagesToSend) \in Nat
        /\ m \in Messages /\ m = serializedToSend[1]
    <2>1. serializedToSend \in Seq(Messages) /\ serializedToSend # <<>>
      BY DEF TypeOK
    <2>2. messagesToSend \in Seq(Messages)
      BY DEF TypeOK
    <2>3. m \in Messages /\ m = serializedToSend[1]
      BY <2>1, HeadTailProperties DEF FrontMessage
    <2>4. QED
      BY <2>1, <2>2, <2>3, EmptySeq, LenProperties
  <1>2. /\ Len(waiting) \in Nat \ {0}
        /\ Len(waiting) = Len(serializedToSend) + Len(messagesToSend) /\ waiting[1] = m
    <2>1. /\ Len(waiting) = Len(serializedToSend) + Len(messagesToSend)
          /\ \A i \in 1..(Len(serializedToSend) + Len(messagesToSend)) : waiting[i] =
               IF i <= Len(serializedToSend) THEN serializedToSend[i]
               ELSE messagesToSend[i - Len(serializedToSend)]
      BY <1>1, ConcatProperties DEF waiting
    <2>2. QED
      BY <1>1, <2>1
  <1>3. ASSUME SendWhole
        PROVE  /\ Len(waiting') = Len(waiting) - 1
               /\ \A i \in 1..(Len(waiting) - 1) : waiting'[i] = waiting[i + 1]
    <2>1. /\ Len(waiting) = Len(serializedToSend) + Len(messagesToSend)
          /\ \A i \in 1..(Len(serializedToSend) + Len(messagesToSend)) : waiting[i] =
               IF i <= Len(serializedToSend) THEN serializedToSend[i]
               ELSE messagesToSend[i - Len(serializedToSend)]
      BY <1>1, ConcatProperties DEF waiting
    <2>2. /\ Tail(serializedToSend) \in Seq(Messages)
          /\ Len(Tail(serializedToSend)) = Len(serializedToSend) - 1
          /\ \A i \in 1..(Len(serializedToSend) - 1) :
               Tail(serializedToSend)[i] = serializedToSend[i + 1]
      BY <1>1, HeadTailProperties
    <2>3. waiting' = Tail(serializedToSend) \o messagesToSend
      BY <1>3 DEF SendWhole, waiting
    <2>4. /\ Len(waiting') = (Len(serializedToSend) - 1) + Len(messagesToSend)
          /\ \A i \in 1..((Len(serializedToSend) - 1) + Len(messagesToSend)) : waiting'[i] =
               IF i <= Len(serializedToSend) - 1 THEN Tail(serializedToSend)[i]
               ELSE messagesToSend[i - (Len(serializedToSend) - 1)]
      BY <1>1, <2>2, <2>3, ConcatProperties
    <2>5. ASSUME NEW i \in 1..(Len(waiting) - 1)
          PROVE  waiting'[i] = waiting[i + 1]
      <3>1. i + 1 \in 1..(Len(serializedToSend) + Len(messagesToSend))
        BY <1>1, <2>1
      <3>2. i \in 1..((Len(serializedToSend) - 1) + Len(messagesToSend))
        BY <1>1, <2>1
      <3>3. i - (Len(serializedToSend) - 1) = (i + 1) - Len(serializedToSend)
        BY <1>1
      <3>4. CASE i <= Len(serializedToSend) - 1
        BY <1>1, <2>1, <2>2, <2>4, <3>1, <3>2, <3>4
      <3>5. CASE ~(i <= Len(serializedToSend) - 1)
        BY <1>1, <2>1, <2>4, <3>1, <3>2, <3>3, <3>5
      <3>6. QED
        BY <3>4, <3>5
    <2>6. QED
      BY <1>1, <2>1, <2>4, <2>5
  <1>4. QED
    BY <1>1, <1>2, <1>3

\* A message that is sent whole is the first that waits.
LEMMA SendWholeKeepsPlace ==
  ASSUME TypeOK, SendWhole, lastMessageByteSent = 0,
         InPlace(Stream, Len(delivered), waiting, nextMessage)
  PROVE  InPlace(Stream', Len(delivered'), waiting', nextMessage')
  <1> DEFINE m == FrontMessage
             last == IF Stream = <<>> THEN Len(delivered) ELSE Stream[Len(Stream)].msg
  <1>1. m \in Messages
    BY FrontWaits DEF SendWhole
  <1>2. /\ Len(waiting) \in Nat \ {0} /\ waiting[1] = m
        /\ Len(waiting') = Len(waiting) - 1
        /\ \A i \in 1..(Len(waiting) - 1) : waiting'[i] = waiting[i + 1]
    BY FrontWaits DEF SendWhole
  <1>3. /\ last \in Nat
        /\ Stream # <<>> => Stream[Len(Stream)].at = size[last]
        /\ \A i \in 1..Len(waiting) : waiting[i] = last + i
        /\ nextMessage = last + Len(waiting) + 1
    <2>1. Stream # <<>> => Len(Stream) \in 1..Len(Stream)
      BY StreamType, EmptySeq
    <2>2. last \in Nat
      BY <2>1, StreamType, ByteParts
    <2>3. QED
      BY <2>2 DEF InPlace, Continued
  <1> HIDE DEF m, last
  <1>4. m = last + 1 /\ m < nextMessage
    <2>1. 1 \in 1..Len(waiting)
      BY <1>2
    <2>2. m = last + 1
      BY <1>2, <1>3, <2>1
    <2>3. QED
      BY <1>2, <1>3, <2>2
  <1>5. Stream' = Stream \o Bytes(m)
    <2>1. size \in Sizes /\ lastMessageByteSent \in Nat
      BY DEF TypeOK
    <2>2. Unsent(m) = Bytes(m) /\ Bytes(m) \in Seq(ByteSet)
      BY <1>1, <2>1, UnsentType, BytesType
    <2>3. /\ wire' = wire \o Bytes(m) /\ receivedBuffer' = receivedBuffer
          /\ receivedBuffer \in Seq(ByteSet) /\ wire \in Seq(ByteSet)
      BY <2>2 DEF SendWhole, receiverVars, TypeOK, ByteSet, m
    <2>4. receivedBuffer \o (wire \o Bytes(m)) = (receivedBuffer \o wire) \o Bytes(m)
      BY <2>2, <2>3, ConcatAssociative
    <2>5. QED
      BY <2>3, <2>4 DEF Stream
  <1>6. /\ Stream' # <<>> /\ Stream'[Len(Stream')] = Byte(m, size[m])
        /\ Ordered(Stream', Len(delivered)) /\ Whole(Stream', nextMessage)
    <2>1. Stream = <<>> => m = Len(delivered) + 1
      BY <1>4 DEF last
    <2>2. Stream # <<>> => /\ Stream[Len(Stream)].at = size[Stream[Len(Stream)].msg]
                           /\ m = Stream[Len(Stream)].msg + 1
      BY <1>3, <1>4 DEF last
    <2>3. size \in Sizes /\ Ordered(Stream, Len(delivered)) /\ Whole(Stream, nextMessage)
      BY DEF TypeOK, InPlace
    <2>4. Stream \in Seq(ByteSet) /\ Len(delivered) \in Nat /\ nextMessage \in Nat
      BY StreamType
    <2>5. QED
      BY <1>1, <1>4, <1>5, <2>1, <2>2, <2>3, <2>4, AppendMessage
  <1>7. nextMessage' = nextMessage /\ delivered' = delivered
    BY DEF SendWhole, receiverVars
  <1>8. Continued(Stream', Len(delivered), waiting', nextMessage)
    <2>1. Stream'[Len(Stream')].msg = m /\ Stream'[Len(Stream')].at = size[m]
      BY <1>6 DEF Byte
    <2>2. nextMessage = m + Len(waiting') + 1
      BY <1>2, <1>3, <1>4
    <2>3. ASSUME NEW i \in 1..Len(waiting')
          PROVE  waiting'[i] = m + i
      <3>1. i + 1 \in 1..Len(waiting) /\ i \in 1..(Len(waiting) - 1)
        BY <1>2
      <3>2. waiting'[i] = last + (i + 1)
        BY <1>2, <1>3, <3>1
      <3>3. QED
        BY <1>3, <1>4, <3>2
    <2>4. QED
      BY <1>6, <2>1, <2>2, <2>3 DEF Continued
  <1>9. QED
    BY <1>6, <1>7, <1>8 DEF InPlace

\* However many bytes arrive, they only move from the wire to the buffer.
LEMMA ReceiveKeepsStream ==
  ASSUME TypeOK, Receive
  PROVE  Stream' = Stream
  <1>1. PICK k \in 0..Len(wire) :
          /\ receivedBuffer' = receivedBuffer \o SubSeq(wire, 1, k)
          /\ wire' = SubSeq(wire, k + 1, Len(wire))
    BY DEF Receive
  <1> DEFINE arrived == SubSeq(wire, 1, k)
             left == SubSeq(wire, k + 1, Len(wire))
  <1>2. receivedBuffer \in Seq(ByteSet) /\ wire \in Seq(ByteSet) /\ Len(wire) \in Nat
    BY LenProperties DEF TypeOK, ByteSet
  <1>3. arrived \in Seq(ByteSet) /\ left \in Seq(ByteSet)
    <2>1. k \in 0..Len(wire) /\ Len(wire) \in 0..Len(wire) /\ k + 1 \in Nat \ {0}
      BY <1>2
    <2>2. arrived \in Seq(ByteSet)
      BY <1>2, <2>1, PieceType
    <2>3. left \in Seq(ByteSet)
      BY <1>2, <2>1, PieceType
    <2>4. QED
      BY <2>2, <2>3
  <1>4. arrived \o left = wire
    <2>1. 1 \in 1..(Len(wire) + 1) /\ k \in (1 - 1)..Len(wire) /\ Len(wire) \in k..Len(wire)
      BY <1>2
    <2>2. arrived \o left = SubSeq(wire, 1, Len(wire))
      BY <1>2, <2>1, ConcatAdjacentSubSeq
    <2>3. QED
      BY <1>2, <2>2, SubSeqFull
  <1>5. Stream' = (receivedBuffer \o arrived) \o left
    BY <1>1 DEF Stream
  <1> HIDE DEF arrived, left
  <1>6. (receivedBuffer \o arrived) \o left = receivedBuffer \o (arrived \o left)
    BY <1>2, <1>3, ConcatAssociative
  <1>7. QED
    BY <1>4, <1>5, <1>6 DEF Stream

\* When what has arrived agrees with a stream of whole messages, the receiver cuts
\* the next of them from its buffer, whole, and so from both streams.
LEMMA DecodeTakesTheNext ==
  ASSUME TypeOK, Decode, NEW s \in Seq(ByteSet), s # <<>>, NEW next \in Nat,
         Ordered(s, Len(delivered)), Whole(s, next),
         \A i \in 1..Len(s) : i <= Len(receivedBuffer) => receivedBuffer[i] = s[i]
  PROVE  LET m == Len(delivered) + 1
             k == size[m]
             rest == SubSeq(s, k + 1, Len(s))
         IN /\ m \in Messages /\ m < next /\ k \in 1..Len(s) /\ k <= Len(receivedBuffer)
            /\ delivered' = Append(delivered, m) /\ Len(delivered') = m /\ receiver' = receiver
            /\ rest \in Seq(ByteSet) /\ Ordered(rest, m) /\ Whole(rest, next)
            /\ rest # <<>> => rest[Len(rest)] = s[Len(s)]
            /\ rest = <<>> => s[Len(s)] = Byte(m, k)
            /\ Len(rest) = Len(s) - k /\ \A i \in 1..(Len(s) - k) : rest[i] = s[k + i]
            /\ Stream' \in Seq(ByteSet) /\ Len(Stream') = Len(Stream) - k
            /\ \A i \in 1..(Len(Stream) - k) : Stream'[i] = Stream[k + i]
  <1> DEFINE m == Len(delivered) + 1
             k == size[m]
             buffer == receivedBuffer
  <1>1. /\ Stream \in Seq(ByteSet) /\ Len(Stream) = Len(buffer) + Len(wire)
        /\ Len(buffer) \in Nat /\ Len(wire) \in Nat /\ Len(buffer) >= HeaderSize
        /\ buffer \in Seq(ByteSet) /\ wire \in Seq(ByteSet)
        /\ HeaderSize \in Nat \ {0} /\ Len(s) \in Nat
    <2>1. buffer \in Seq(ByteSet) /\ wire \in Seq(ByteSet)
      BY DEF TypeOK, ByteSet
    <2>2. Len(buffer) >= HeaderSize /\ HeaderSize \in Nat \ {0}
      BY FramingAssumption DEF Decode, FramingAssumption
    <2>3. QED
      BY <2>1, <2>2, StreamType, LenProperties
  <1> DEFINE rest == SubSeq(s, k + 1, Len(s))
  <1>3. /\ m \in Messages /\ m < next /\ k \in 1..Len(s)
        /\ \A i \in 1..k : s[i] = Byte(m, i)
        /\ rest \in Seq(ByteSet) /\ Ordered(rest, m) /\ Whole(rest, next)
        /\ rest # <<>> => rest[Len(rest)] = s[Len(s)]
        /\ rest = <<>> => s[Len(s)] = Byte(m, k)
    <2>1. size \in Sizes
      BY DEF TypeOK
    <2>2. Len(delivered) \in Nat
      BY StreamType
    <2>3. QED
      BY <2>1, <2>2, DropMessage
  <1>4. /\ k \in Nat \ {0} /\ k >= HeaderSize /\ Bytes(m) \in Seq(ByteSet)
        /\ Len(Bytes(m)) = k /\ \A i \in 1..k : Bytes(m)[i] = Byte(m, i)
    BY <1>3, BytesType DEF TypeOK
  <1>5. m \in Nat
    BY <1>3 DEF Messages
  <1>6. PICK payload \in PayloadSizes(buffer) :
          /\ Complete(buffer, payload)
          /\ buffer' = SubSeq(buffer, ConsumedBytes(payload) + 1, Len(buffer))
          /\ \E msg \in Deserialized(SubSeq(buffer, 1, HeaderSize + payload)) :
               /\ delivered' = IF msg = Thrown THEN delivered ELSE Append(delivered, msg)
               /\ receiver' = IF msg = Thrown THEN "failed" ELSE receiver
    BY DEF Decode
  <1> HIDE DEF rest
  <1>7. payload = k - HeaderSize
    <2>1. StartsWith(buffer, m)
      <3>1. ASSUME NEW i \in 1..HeaderSize
            PROVE  buffer[i] = Byte(m, i)
        <4>1. i \in 1..Len(s) /\ i <= Len(buffer) /\ i \in 1..k
          BY <1>1, <1>3, <1>4
        <4>2. QED
          BY <1>3, <4>1
      <3>2. QED
        BY <3>1 DEF StartsWith
    <2>2. ASSUME NEW other \in Messages, StartsWith(buffer, other)
          PROVE  other = m
      <3>1. 1 \in 1..HeaderSize
        BY <1>1
      <3>2. Byte(other, 1) = Byte(m, 1)
        BY <2>1, <2>2, <3>1 DEF StartsWith
      <3>3. QED
        BY <3>2 DEF Byte
    <2>3. {other \in Messages : StartsWith(buffer, other)} = {m}
      BY <1>3, <2>1, <2>2
    <2>4. PayloadSizes(buffer) = {k - HeaderSize}
      BY <2>3 DEF PayloadSizes
    <2>5. QED
      BY <2>4
  <1>8. HeaderSize + payload = k /\ k <= Len(buffer)
    BY <1>1, <1>4, <1>6, <1>7 DEF Complete
  <1>9. SubSeq(buffer, 1, k) = Bytes(m)
    <2>1. k \in 0..Len(buffer)
      BY <1>1, <1>4, <1>8
    <2>2. /\ SubSeq(buffer, 1, k) \in Seq(ByteSet) /\ Len(SubSeq(buffer, 1, k)) = k
          /\ \A i \in 1..k : SubSeq(buffer, 1, k)[i] = buffer[i]
      <3>1. /\ SubSeq(buffer, 1, k) \in Seq(ByteSet)
            /\ Len(SubSeq(buffer, 1, k)) = IF 1 <= k THEN k - 1 + 1 ELSE 0
            /\ \A i \in 1..(k - 1 + 1) : SubSeq(buffer, 1, k)[i] = buffer[1 + i - 1]
        BY <1>1, <2>1, PieceType
      <3>2. k - 1 + 1 = k /\ 1 <= k /\ \A i \in 1..k : 1 + i - 1 = i
        BY <1>4
      <3>3. QED
        BY <3>1, <3>2
    <2>3. ASSUME NEW i \in 1..k
          PROVE  SubSeq(buffer, 1, k)[i] = Bytes(m)[i]
      <3>1. i \in 1..Len(s) /\ i <= Len(buffer)
        BY <1>1, <1>3, <1>8
      <3>2. buffer[i] = s[i]
        BY <3>1
      <3>3. QED
        BY <1>3, <1>4, <2>2, <3>2
    <2>4. QED
      BY <1>4, <2>2, <2>3, SeqEqual
  <1>10. Deserialized(Bytes(m)) = {m}
    <2>1. ASSUME NEW other \in Messages, Bytes(m) = Bytes(other)
          PROVE  other = m
      <3>1. Bytes(other)[1] = Byte(other, 1) /\ Bytes(m)[1] = Byte(m, 1)
        <4>1. /\ size[other] \in Nat \ {0} /\ size[m] \in Nat \ {0}
              /\ \A i \in 1..size[other] : Bytes(other)[i] = Byte(other, i)
              /\ \A i \in 1..size[m] : Bytes(m)[i] = Byte(m, i)
          BY <1>3, BytesType, Zenon DEF TypeOK
        <4> HIDE DEF m
        <4>2. 1 \in 1..size[other] /\ 1 \in 1..size[m]
          BY <4>1
        <4>3. QED
          BY <4>1, <4>2, Zenon
      <3>2. QED
        BY <2>1, <3>1 DEF Byte
    <2>2. {other \in Messages : Bytes(m) = Bytes(other)} = {m}
      BY <1>3, <2>1
    <2>3. QED
      BY <2>2 DEF Deserialized
  <1>11. m # Thrown
    BY <1>3, FramingAssumption DEF FramingAssumption, Messages, Thrown
  <1>12. delivered' = Append(delivered, m) /\ receiver' = receiver
    <2>1. \E msg \in {m} :
            /\ delivered' = IF msg = Thrown THEN delivered ELSE Append(delivered, msg)
            /\ receiver' = IF msg = Thrown THEN "failed" ELSE receiver
      BY <1>6, <1>8, <1>9, <1>10
    <2>2. QED
      BY <1>11, <2>1
  <1>13. Len(delivered') = m
    BY <1>12 DEF TypeOK
  <1>14. wire' = wire
    BY DEF Decode
  <1> HIDE DEF m, k
  <1>15. Len(rest) = Len(s) - k /\ \A i \in 1..(Len(s) - k) : rest[i] = s[k + i]
    <2>1. k + 1 \in Nat \ {0} /\ Len(s) \in 0..Len(s)
      BY <1>1, <1>4
    <2>2. /\ Len(rest) = IF k + 1 <= Len(s) THEN Len(s) - (k + 1) + 1 ELSE 0
          /\ \A i \in 1..(Len(s) - (k + 1) + 1) : rest[i] = s[(k + 1) + i - 1]
      BY <1>1, <2>1, PieceType DEF rest
    <2>3. Len(s) - (k + 1) + 1 = Len(s) - k
      BY <1>1, <1>4
    <2>4. \A i \in 1..(Len(s) - k) : (k + 1) + i - 1 = k + i
      BY <1>4
    <2>5. Len(rest) = Len(s) - k
      BY <1>1, <1>3, <1>4, <2>2
    <2>6. QED
      BY <2>2, <2>3, <2>4, <2>5
  <1>16. /\ Stream' \in Seq(ByteSet) /\ Len(Stream') = Len(Stream) - k
         /\ \A i \in 1..(Len(Stream) - k) : Stream'[i] = Stream[k + i]
    <2>2. /\ buffer' \in Seq(ByteSet) /\ Len(buffer') = Len(buffer) - k
          /\ \A i \in 1..(Len(buffer) - k) : buffer'[i] = buffer[k + i]
      <3>1. k + 1 \in Nat \ {0} /\ Len(buffer) \in 0..Len(buffer)
        BY <1>1, <1>4
      <3>2. buffer' = SubSeq(buffer, k + 1, Len(buffer))
        BY <1>6, <1>8 DEF ConsumedBytes
      <3>3. /\ buffer' \in Seq(ByteSet)
            /\ Len(buffer') = IF k + 1 <= Len(buffer) THEN Len(buffer) - (k + 1) + 1 ELSE 0
            /\ \A i \in 1..(Len(buffer) - (k + 1) + 1) : buffer'[i] = buffer[(k + 1) + i - 1]
        BY <1>1, <3>1, <3>2, PieceType
      <3>4. Len(buffer) - (k + 1) + 1 = Len(buffer) - k
        BY <1>1, <1>4
      <3>5. \A i \in 1..(Len(buffer) - k) : (k + 1) + i - 1 = k + i
        BY <1>4
      <3>6. Len(buffer') = Len(buffer) - k
        BY <1>1, <1>4, <1>8, <3>3
      <3>7. QED
        BY <3>3, <3>4, <3>5, <3>6
    <2>3. /\ Stream' = buffer' \o wire /\ Stream' \in Seq(ByteSet)
          /\ Len(Stream') = Len(buffer') + Len(wire)
          /\ \A i \in 1..(Len(buffer') + Len(wire)) :
               Stream'[i] = IF i <= Len(buffer') THEN buffer'[i] ELSE wire[i - Len(buffer')]
      <3>1. Stream' = buffer' \o wire
        BY <1>14 DEF Stream
      <3>2. buffer' \in Seq(ByteSet) /\ wire \in Seq(ByteSet)
        BY <1>1, <2>2
      <3> HIDE DEF buffer
      <3>3. QED
        BY <3>1, <3>2, Joined
    <2>4. Len(Stream') = Len(Stream) - k
      BY <1>1, <1>4, <2>2, <2>3
    <2>5. ASSUME NEW i \in 1..(Len(Stream) - k)
          PROVE  Stream'[i] = Stream[k + i]
      <3>1. k + i \in 1..(Len(buffer) + Len(wire)) /\ i \in 1..(Len(buffer') + Len(wire))
        BY <1>1, <1>4, <1>8, <2>2
      <3>2. Stream[k + i] = IF k + i <= Len(buffer) THEN buffer[k + i]
                            ELSE wire[(k + i) - Len(buffer)]
        BY <3>1, StreamType
      <3>3. CASE i <= Len(buffer) - k
        <4>1. i \in 1..(Len(buffer) - k) /\ k + i <= Len(buffer)
          BY <1>1, <1>4, <3>3
        <4>2. QED
          BY <1>1, <2>2, <2>3, <3>1, <3>2, <3>3, <4>1
      <3>4. CASE ~(i <= Len(buffer) - k)
        <4>1. ~(k + i <= Len(buffer)) /\ (k + i) - Len(buffer) = i - (Len(buffer) - k)
          BY <1>1, <1>4, <3>4
        <4>2. QED
          BY <1>1, <2>2, <2>3, <3>1, <3>2, <3>4, <4>1
      <3>5. QED
        BY <3>3, <3>4
    <2>6. QED
      BY <2>3, <2>4, <2>5
  <1>17. QED
    BY <1>3, <1>8, <1>12, <1>13, <1>15, <1>16 DEF m, k, rest

\* When the stream is in place, so is what is left of it.
LEMMA DecodeKeepsPlace ==
  ASSUME TypeOK, Decode, InPlace(Stream, Len(delivered), waiting, nextMessage)
  PROVE  /\ Len(delivered) + 1 < nextMessage
         /\ delivered' = Append(delivered, Len(delivered) + 1) /\ receiver' = receiver
         /\ InPlace(Stream', Len(delivered'), waiting', nextMessage')
  <1> DEFINE m == Len(delivered) + 1
             k == size[m]
             rest == SubSeq(Stream, k + 1, Len(Stream))
  <1>1. /\ Stream \in Seq(ByteSet) /\ Stream # <<>> /\ Len(Stream) \in Nat
        /\ nextMessage \in Nat
        /\ \A i \in 1..Len(Stream) : i <= Len(receivedBuffer) => Stream[i] = receivedBuffer[i]
    <2>1. Len(receivedBuffer) >= HeaderSize /\ HeaderSize \in Nat \ {0}
      BY FramingAssumption DEF Decode, FramingAssumption
    <2>2. QED
      BY <2>1, StreamType, EmptySeq
  <1>2. /\ m < nextMessage /\ k \in 1..Len(Stream)
        /\ delivered' = Append(delivered, m) /\ Len(delivered') = m /\ receiver' = receiver
        /\ rest \in Seq(ByteSet) /\ Ordered(rest, m) /\ Whole(rest, nextMessage)
        /\ rest # <<>> => rest[Len(rest)] = Stream[Len(Stream)]
        /\ rest = <<>> => Stream[Len(Stream)] = Byte(m, k)
        /\ Len(rest) = Len(Stream) - k
        /\ \A i \in 1..(Len(Stream) - k) : rest[i] = Stream[k + i]
        /\ Stream' \in Seq(ByteSet) /\ Len(Stream') = Len(Stream) - k
        /\ \A i \in 1..(Len(Stream) - k) : Stream'[i] = Stream[k + i]
    BY <1>1, DecodeTakesTheNext DEF InPlace
  <1> HIDE DEF rest, m, k
  <1>3. Stream' = rest
    BY <1>2, SeqEqual
  <1>4. waiting' = waiting /\ nextMessage' = nextMessage
    BY DEF Decode, senderVars, waiting
  <1>5. Continued(rest, m, waiting, nextMessage)
    <2>1. /\ Stream[Len(Stream)].at = size[Stream[Len(Stream)].msg]
          /\ \A i \in 1..Len(waiting) : waiting[i] = Stream[Len(Stream)].msg + i
          /\ nextMessage = Stream[Len(Stream)].msg + Len(waiting) + 1
      BY <1>1 DEF InPlace, Continued
    <2>2. rest = <<>> => Stream[Len(Stream)].msg = m
      BY <1>2 DEF Byte
    <2>3. QED
      BY <1>2, <2>1, <2>2 DEF Continued
  <1>6. QED
    BY <1>2, <1>3, <1>4, <1>5 DEF InPlace, m

-----------------------------------------------------------------------------
\* Nothing is sent at first.
LEMMA InitFraming == Init => FramingInv
  <1> SUFFICES ASSUME Init
               PROVE  FramingInv
    OBVIOUS
  <1>1. Stream = <<>> /\ waiting = <<>> /\ Len(Stream) = 0 /\ Len(waiting) = 0
    BY DEF Init, Stream, waiting
  <1>2. /\ delivered = <<>> /\ Len(delivered) = 0 /\ nextMessage = 1
        /\ lastMessageByteSent = 0 /\ trusted = MaxMessages
    BY DEF Init
  <1>3. InPlace(Stream, Len(delivered), waiting, nextMessage)
    BY <1>1, <1>2 DEF InPlace, Ordered, Whole, Continued
  <1>4. WaitsInOrder
    BY <1>1 DEF WaitsInOrder
  <1>5. QED
    BY <1>1, <1>2, <1>3, <1>4, InitType DEF FramingInv, RightStream

\* A message that waits to be sent follows those that were sent.
LEMMA FrontFollows ==
  ASSUME TypeOK, WaitsInOrder, serializedToSend # <<>>
  PROVE  FrontMessage \in Nat \ {0} /\ FrontMessage + Len(waiting) = nextMessage
  <1>1. /\ FrontMessage \in Messages /\ Len(waiting) \in Nat \ {0}
        /\ waiting[1] = FrontMessage /\ nextMessage \in Nat
    BY FrontWaits, StreamType
  <1>2. waiting[1] + Len(waiting) + 1 = nextMessage + 1
    BY <1>1 DEF WaitsInOrder
  <1>3. FrontMessage \in Nat \ {0}
    BY <1>1 DEF Messages
  <1>4. QED
    BY <1>1, <1>2, <1>3

\* A step delivers one message, or none.
LEMMA DeliversOne ==
  ASSUME TypeOK, [Next]_vars
  PROVE  \/ delivered' = delivered
         \/ \E m \in Messages \cup {Garbage} : delivered' = Append(delivered, m)
  <1>1. CASE Decode
    <2>1. \A data : Deserialized(data) \subseteq Messages \cup {Garbage, Thrown}
      BY DEF Deserialized
    <2>2. PICK m \in Messages \cup {Garbage, Thrown} :
            delivered' = IF m = Thrown THEN delivered ELSE Append(delivered, m)
      BY <1>1, <2>1 DEF Decode
    <2>3. QED
      BY <2>2
  <1>2. CASE ~Decode
    BY <1>2 DEF Next, SendTcpMessageSystem, ReceiveTcpMessageSystem, Finished, Queue, BeginSend,
       SendWhole, SendPart, SendFails, SendDone, Close, Receive, ReceiveEnd, DecodeDone,
       vars, receiverVars
  <1>3. QED
    BY <1>1, <1>2

\* What waits stays in order.
LEMMA NextWaits ==
  ASSUME TypeOK, WaitsInOrder, [Next]_vars
  PROVE  WaitsInOrder'
  <1>1. waiting \in Seq(Messages) /\ Len(waiting) \in Nat /\ nextMessage \in Nat
    BY StreamType, LenProperties
  <1>2. CASE Queue
    <2>1. waiting' = Append(waiting, nextMessage) /\ nextMessage' = nextMessage + 1
          /\ nextMessage \in Messages
      BY <1>2 DEF Queue, TypeOK, waiting
    <2>2. /\ Len(waiting') = Len(waiting) + 1
          /\ \A i \in 1..Len(waiting) : waiting'[i] = waiting[i]
          /\ waiting'[Len(waiting) + 1] = nextMessage
      BY <1>1, <2>1
    <2>3. \A i \in 1..Len(waiting) : waiting[i] \in Nat
      <3>1. \A i \in 1..Len(waiting) : waiting[i] \in Messages
        BY <1>1
      <3>2. QED
        BY <3>1 DEF Messages
    <2>4. ASSUME NEW i \in 1..Len(waiting')
          PROVE  waiting'[i] + Len(waiting') + 1 = nextMessage' + i
      <3>1. CASE i \in 1..Len(waiting)
        <4>1. waiting[i] + Len(waiting) + 1 = nextMessage + i
          BY <3>1 DEF WaitsInOrder
        <4>2. QED
          BY <1>1, <2>1, <2>2, <2>3, <3>1, <4>1
      <3>2. CASE i = Len(waiting) + 1
        BY <1>1, <2>1, <2>2, <3>2
      <3>3. QED
        BY <1>1, <2>2, <3>1, <3>2
    <2>5. QED
      BY <2>4 DEF WaitsInOrder
  <1>3. CASE BeginSend
    <2>1. waiting' = waiting /\ nextMessage' = nextMessage
      BY <1>1, <1>3, ConcatEmptySeq DEF BeginSend, waiting
    <2>2. QED
      BY <2>1 DEF WaitsInOrder
  <1>4. CASE SendWhole
    <2>1. /\ Len(waiting) \in Nat \ {0} /\ Len(waiting') = Len(waiting) - 1
          /\ \A i \in 1..(Len(waiting) - 1) : waiting'[i] = waiting[i + 1]
          /\ nextMessage' = nextMessage
      BY <1>4, FrontWaits DEF SendWhole
    <2>2. \A i \in 1..Len(waiting) : waiting[i] \in Nat
      <3>1. \A i \in 1..Len(waiting) : waiting[i] \in Messages
        BY <1>1
      <3>2. QED
        BY <3>1 DEF Messages
    <2>3. ASSUME NEW i \in 1..Len(waiting')
          PROVE  waiting'[i] + Len(waiting') + 1 = nextMessage' + i
      <3>1. i \in 1..(Len(waiting) - 1) /\ i + 1 \in 1..Len(waiting)
        BY <2>1
      <3>2. waiting[i + 1] + Len(waiting) + 1 = nextMessage + (i + 1)
        BY <3>1 DEF WaitsInOrder
      <3>3. waiting'[i] = waiting[i + 1] /\ waiting[i + 1] \in Nat
        BY <2>1, <2>2, <3>1
      <3> DEFINE w == waiting[i + 1]
      <3> HIDE DEF w
      <3>4. w \in Nat /\ w + Len(waiting) + 1 = nextMessage + (i + 1)
        BY <3>2, <3>3 DEF w
      <3>5. w + (Len(waiting) - 1) + 1 = nextMessage + i
        BY <1>1, <3>4
      <3>6. QED
        BY <2>1, <3>3, <3>5 DEF w
    <2>4. QED
      BY <2>3 DEF WaitsInOrder
  <1>5. CASE \/ SendPart \/ SendFails \/ SendDone \/ Close \/ Receive \/ ReceiveEnd
             \/ Decode \/ DecodeDone \/ UNCHANGED vars
    <2>1. waiting' = waiting /\ nextMessage' = nextMessage
      BY <1>5 DEF SendPart, SendFails, SendDone, Close, Receive, ReceiveEnd, Decode, DecodeDone,
         vars, senderVars, waiting
    <2>2. QED
      BY <2>1 DEF WaitsInOrder
  <1>6. QED
    BY <1>2, <1>3, <1>4, <1>5
    DEF Next, SendTcpMessageSystem, ReceiveTcpMessageSystem, Finished

-----------------------------------------------------------------------------
\* All bytes of a stream are of messages after the last one.
LEMMA BytesAreLater ==
  ASSUME NEW s \in Seq(ByteSet), NEW d \in Nat, Ordered(s, d)
  PROVE  \A i \in 1..Len(s) : s[i].msg > d
  <1> DEFINE T == {i \in Nat : i \in 1..Len(s) => s[i].msg > d}
  <1>1. Len(s) \in Nat
    BY LenProperties
  <1>2. ASSUME NEW i \in 1..Len(s), i - 1 \in T
        PROVE  i \in T
    <2>1. s[i] = IF i = 1 THEN Byte(d + 1, 1) ELSE Succ(s[i - 1])
      BY DEF Ordered
    <2>2. CASE i = 1
      <3>1. s[i].msg = d + 1
        BY <2>1, <2>2 DEF Byte
      <3>2. QED
        BY <1>1, <3>1
    <2>3. CASE i # 1
      <3>1. i - 1 \in 1..Len(s)
        BY <1>1, <2>3
      <3>2. s[i - 1].msg > d /\ s[i - 1].msg \in Nat
        BY <1>2, <3>1, ByteParts
      <3>3. s[i].msg = s[i - 1].msg \/ s[i].msg = s[i - 1].msg + 1
        BY <2>1, <2>3 DEF Succ, Byte
      <3>4. QED
        BY <1>1, <3>2, <3>3
    <2>4. QED
      BY <2>2, <2>3
  <1>3. 0 \in T
    OBVIOUS
  <1> HIDE DEF T
  <1>4. 0..Len(s) \subseteq T
    BY <1>1, <1>2, <1>3, UpTo
  <1>5. QED
    BY <1>1, <1>4 DEF T

\* The last message of a stream is not before the one it follows.
LEMMA LastIsLater ==
  ASSUME NEW s \in Seq(ByteSet), NEW d \in Nat, NEW m, NEW next, MessagesUpTo(s, d, m, next)
  PROVE  m \in Nat /\ d <= m /\ (s # <<>> => d < m)
  <1>1. CASE s = <<>>
    BY <1>1 DEF MessagesUpTo
  <1>2. CASE s # <<>>
    <2>1. Len(s) \in 1..Len(s)
      BY <1>2, EmptySeq
    <2>2. s[Len(s)].msg > d /\ s[Len(s)].msg \in Nat
      BY <2>1, BytesAreLater, ByteParts DEF MessagesUpTo
    <2>3. QED
      BY <1>2, <2>2 DEF MessagesUpTo
  <1>3. QED
    BY <1>1, <1>2

\* A stream in place has the messages up to the first that waits.
LEMMA PlaceIsUpTo ==
  ASSUME TypeOK, InPlace(Stream, Len(delivered), waiting, nextMessage)
  PROVE  \E m \in Nat : /\ MessagesUpTo(Stream, Len(delivered), m, nextMessage)
                        /\ m + Len(waiting) + 1 = nextMessage /\ Len(delivered) <= m
  <1> DEFINE m == IF Stream = <<>> THEN Len(delivered) ELSE Stream[Len(Stream)].msg
  <1>1. Stream \in Seq(ByteSet) /\ Len(delivered) \in Nat
    BY StreamType
  <1>2. MessagesUpTo(Stream, Len(delivered), m, nextMessage)
    BY <1>1 DEF InPlace, Continued, MessagesUpTo
  <1>3. nextMessage = m + Len(waiting) + 1
    BY DEF InPlace, Continued
  <1> HIDE DEF m
  <1>4. m \in Nat /\ Len(delivered) <= m
    BY <1>1, <1>2, LastIsLater
  <1>5. QED
    BY <1>2, <1>3, <1>4

\* What is queued later changes nothing of it.
LEMMA UpToGrows ==
  ASSUME NEW s \in Seq(ByteSet), NEW d, NEW m, NEW next \in Nat, MessagesUpTo(s, d, m, next)
  PROVE  MessagesUpTo(s, d, m, next + 1)
  <1>1. \A i \in 1..Len(s) : s[i].msg \in Nat
    BY ByteParts
  <1>2. QED
    BY <1>1 DEF MessagesUpTo, Whole

\* A message sent in part, and the rest of it.
LEMMA Rejoined ==
  ASSUME size \in Sizes, NEW m \in Messages, NEW k \in 1..(size[m] - 1)
  PROVE  /\ SubSeq(Bytes(m), 1, k) \in Seq(ByteSet) /\ Len(SubSeq(Bytes(m), 1, k)) = k
         /\ \A i \in 1..k : SubSeq(Bytes(m), 1, k)[i] = Byte(m, i)
         /\ SubSeq(Bytes(m), k + 1, size[m]) \in Seq(ByteSet)
         /\ SubSeq(Bytes(m), 1, k) \o SubSeq(Bytes(m), k + 1, size[m]) = Bytes(m)
  <1>1. /\ size[m] \in Nat \ {0} /\ Bytes(m) \in Seq(ByteSet) /\ Len(Bytes(m)) = size[m]
        /\ \A i \in 1..size[m] : Bytes(m)[i] = Byte(m, i)
    BY BytesType
  <1> DEFINE n == size[m]
             b == Bytes(m)
  <1>2. b \in Seq(ByteSet) /\ Len(b) = n /\ n \in Nat \ {0} /\ k \in 1..(n - 1)
        /\ \A i \in 1..n : b[i] = Byte(m, i)
    BY <1>1
  <1> HIDE DEF n, b
  <1>3. k \in 0..Len(b) /\ n \in 0..Len(b) /\ k + 1 \in Nat \ {0} /\ 1 \in Nat \ {0}
    BY <1>2
  <1>4. /\ SubSeq(b, 1, k) \in Seq(ByteSet)
        /\ Len(SubSeq(b, 1, k)) = IF 1 <= k THEN k - 1 + 1 ELSE 0
        /\ \A i \in 1..(k - 1 + 1) : SubSeq(b, 1, k)[i] = b[1 + i - 1]
    BY <1>2, <1>3, PieceType
  <1>5. k - 1 + 1 = k /\ 1 <= k /\ \A i \in 1..k : 1 + i - 1 = i /\ i \in 1..n
    BY <1>2
  <1>6. SubSeq(b, k + 1, n) \in Seq(ByteSet)
    BY <1>2, <1>3, PieceType
  <1>7. SubSeq(b, 1, k) \o SubSeq(b, k + 1, n) = b
    <2>1. 1 \in 1..(Len(b) + 1) /\ k \in (1 - 1)..Len(b) /\ n \in k..Len(b)
      BY <1>2
    <2>2. SubSeq(b, 1, k) \o SubSeq(b, k + 1, n) = SubSeq(b, 1, n)
      BY <1>2, <2>1, ConcatAdjacentSubSeq
    <2>3. QED
      BY <1>2, <2>2, SubSeqFull
  <1>8. QED
    BY <1>2, <1>4, <1>5, <1>6, <1>7 DEF n, b

\* What is sent comes behind the stream.
LEMMA SentBehind ==
  ASSUME TypeOK, NEW b \in Seq(ByteSet), wire' = wire \o b, receivedBuffer' = receivedBuffer
  PROVE  /\ Stream' = Stream \o b /\ Len(Stream) <= Len(Stream')
         /\ \A i \in 1..Len(Stream) : Stream'[i] = Stream[i]
  <1>1. receivedBuffer \in Seq(ByteSet) /\ wire \in Seq(ByteSet)
    BY DEF TypeOK, ByteSet
  <1>2. receivedBuffer \o (wire \o b) = (receivedBuffer \o wire) \o b
    BY <1>1, ConcatAssociative
  <1>3. Stream' = Stream \o b
    BY <1>2 DEF Stream
  <1>4. Stream \in Seq(ByteSet) /\ Len(Stream) \in Nat /\ Len(b) \in Nat
    BY StreamType, LenProperties
  <1>5. /\ Len(Stream') = Len(Stream) + Len(b)
        /\ \A i \in 1..(Len(Stream) + Len(b)) : Stream'[i] =
             IF i <= Len(Stream) THEN Stream[i] ELSE b[i - Len(Stream)]
    BY <1>3, <1>4, Joined
  <1>6. QED
    BY <1>3, <1>4, <1>5

\* A message that is queued changes nothing of the stream.
LEMMA QueueKeepsRight ==
  ASSUME TypeOK, Queue,
         RightStream(Stream, Len(delivered), waiting, nextMessage, lastMessageByteSent, trusted)
  PROVE  RightStream(Stream', Len(delivered'), waiting', nextMessage', lastMessageByteSent',
                     trusted')
  <1>1. /\ Stream' = Stream /\ delivered' = delivered /\ nextMessage' = nextMessage + 1
        /\ lastMessageByteSent' = lastMessageByteSent /\ trusted' = trusted
    BY DEF Queue, Stream, receiverVars, historyVars
  <1>2. Len(waiting) \in Nat /\ Len(waiting') = Len(waiting) + 1 /\ nextMessage \in Nat
    <2>1. waiting' = Append(waiting, nextMessage)
      <3>1. /\ serializedToSend \in Seq(Messages) /\ messagesToSend \in Seq(Messages)
            /\ nextMessage \in Messages /\ serializedToSend' = serializedToSend
            /\ messagesToSend' = Append(messagesToSend, nextMessage)
        BY DEF Queue, TypeOK
      <3>2. serializedToSend \o Append(messagesToSend, nextMessage) =
              Append(serializedToSend \o messagesToSend, nextMessage)
        BY <3>1
      <3>3. QED
        BY <3>1, <3>2 DEF waiting
    <2>2. QED
      BY <2>1, StreamType, LenProperties
  <1>3. trusted \in Nat
    BY FramingAssumption DEF FramingAssumption, TypeOK
  <1>4. CASE lastMessageByteSent = 0
    BY <1>1, <1>4, QueueKeepsPlace DEF RightStream
  <1>5. CASE lastMessageByteSent # 0 /\ Len(delivered) >= trusted
    BY <1>1, <1>5 DEF RightStream
  <1>6. CASE lastMessageByteSent # 0 /\ ~(Len(delivered) >= trusted)
    <2>1. trusted + Len(waiting) < nextMessage => trusted + Len(waiting') < nextMessage'
      BY <1>1, <1>2, <1>3
    <2>2. trusted + Len(waiting) = nextMessage => trusted + Len(waiting') = nextMessage'
      BY <1>1, <1>2, <1>3
    <2>3. ASSUME NEW r \in Seq(ByteSet), NEW m, MessagesUpTo(r, Len(delivered), m, nextMessage)
          PROVE  MessagesUpTo(r, Len(delivered'), m, nextMessage')
      BY <1>1, <1>2, <2>3, UpToGrows
    <2>4. QED
      BY <1>1, <1>6, <2>1, <2>2, <2>3 DEF RightStream
  <1>7. QED
    BY <1>4, <1>5, <1>6

\* A message that is sent from the offset completes the trusted message, or comes
\* after what is right.
LEMMA SendWholeKeepsRight ==
  ASSUME TypeOK, WaitsInOrder, SendWhole,
         RightStream(Stream, Len(delivered), waiting, nextMessage, lastMessageByteSent, trusted)
  PROVE  RightStream(Stream', Len(delivered'), waiting', nextMessage', lastMessageByteSent',
                     trusted')
  <1> DEFINE m == FrontMessage
             k == lastMessageByteSent
  <1>1. /\ delivered' = delivered /\ nextMessage' = nextMessage
        /\ lastMessageByteSent' = k /\ trusted' = trusted
    BY DEF SendWhole, receiverVars, historyVars
  <1>2. /\ Len(waiting) \in Nat \ {0} /\ Len(waiting') = Len(waiting) - 1
        /\ m \in Messages /\ m \in Nat \ {0} /\ m + Len(waiting) = nextMessage
    BY FrontWaits, FrontFollows DEF SendWhole
  <1>3. /\ trusted \in Nat /\ nextMessage \in Nat /\ size \in Sizes /\ k \in Nat
        /\ Len(delivered) \in Nat /\ Stream \in Seq(ByteSet)
    BY FramingAssumption, StreamType DEF FramingAssumption, TypeOK
  <1>4. Unsent(m) \in Seq(ByteSet)
    BY <1>2, <1>3, UnsentType
  <1>5. /\ Stream' = Stream \o Unsent(m) /\ Len(Stream) <= Len(Stream')
        /\ \A i \in 1..Len(Stream) : Stream'[i] = Stream[i]
    BY <1>4, SentBehind DEF SendWhole, receiverVars
  <1>6. CASE k = 0
    BY <1>1, <1>6, SendWholeKeepsPlace DEF RightStream
  <1>7. CASE k # 0 /\ Len(delivered) >= trusted
    BY <1>1, <1>7 DEF RightStream
  <1>8. CASE /\ k # 0 /\ trusted + Len(waiting) < nextMessage
             /\ \E r \in Seq(ByteSet) :
                  /\ MessagesUpTo(r, Len(delivered), trusted, nextMessage)
                  /\ Len(r) <= Len(Stream) /\ \A i \in 1..Len(r) : Stream[i] = r[i]
    <2>1. PICK r \in Seq(ByteSet) :
            /\ MessagesUpTo(r, Len(delivered), trusted, nextMessage)
            /\ Len(r) <= Len(Stream) /\ \A i \in 1..Len(r) : Stream[i] = r[i]
      BY <1>8
    <2>2. /\ Len(r) \in Nat /\ Len(Stream) \in Nat
          /\ Len(Stream') \in Nat
      BY <1>3, <1>4, <1>5, LenProperties, ConcatProperties
    <2>3. Len(r) <= Len(Stream') /\ \A i \in 1..Len(r) : Stream'[i] = r[i]
      BY <1>5, <2>1, <2>2
    <2>4. trusted + Len(waiting') < nextMessage'
      BY <1>1, <1>2, <1>3, <1>8
    <2>5. QED
      BY <1>1, <1>8, <2>1, <2>3, <2>4 DEF RightStream
  <1>9. CASE /\ k # 0 /\ trusted + Len(waiting) = nextMessage /\ k < size[trusted]
             /\ \E r \in Seq(ByteSet) :
                  /\ MessagesUpTo(r, Len(delivered), trusted - 1, nextMessage)
                  /\ Stream = r \o SubSeq(Bytes(trusted), 1, k)
    <2>1. PICK r \in Seq(ByteSet) :
            /\ MessagesUpTo(r, Len(delivered), trusted - 1, nextMessage)
            /\ Stream = r \o SubSeq(Bytes(trusted), 1, k)
      BY <1>9
    <2>2. trusted = m
      BY <1>2, <1>3, <1>9
    <2>3. size[m] \in Nat \ {0} /\ k \in 1..(size[m] - 1) /\ Bytes(m) \in Seq(ByteSet)
      BY <1>2, <1>3, <1>9, <2>2, BytesType
    <2> DEFINE sent == SubSeq(Bytes(m), 1, k)
               left == SubSeq(Bytes(m), k + 1, size[m])
    <2>4. sent \in Seq(ByteSet) /\ left \in Seq(ByteSet) /\ sent \o left = Bytes(m)
      BY <1>2, <1>3, <2>3, Rejoined
    <2>5. Stream' = (r \o sent) \o left
      BY <1>5, <2>1, <2>2 DEF Unsent
    <2> HIDE DEF sent, left
    <2>6. (r \o sent) \o left = r \o (sent \o left)
      <3>1. \A s, t, u \in Seq(ByteSet) : (s \o t) \o u = s \o (t \o u)
        BY ConcatAssociative
      <3>2. QED
        BY <2>4, <3>1
    <2>7. Stream' = r \o Bytes(m)
      BY <2>4, <2>5, <2>6
    <2> DEFINE joined == r \o Bytes(m)
    <2>8. /\ joined \in Seq(ByteSet) /\ joined # <<>>
          /\ joined[Len(joined)] = Byte(m, size[m])
          /\ Ordered(joined, Len(delivered)) /\ Whole(joined, nextMessage)
      <3>1. m < nextMessage
        BY <1>2, <1>3
      <3>2. Ordered(r, Len(delivered)) /\ Whole(r, nextMessage)
        BY <2>1 DEF MessagesUpTo
      <3>3. r = <<>> => m = Len(delivered) + 1
        BY <1>2, <1>3, <2>1, <2>2 DEF MessagesUpTo
      <3>4. r # <<>> => r[Len(r)].at = size[r[Len(r)].msg] /\ m = r[Len(r)].msg + 1
        BY <1>2, <1>3, <2>1, <2>2 DEF MessagesUpTo
      <3>5. QED
        BY <1>2, <1>3, <3>1, <3>2, <3>3, <3>4, AppendMessage
    <2>9. MessagesUpTo(joined, Len(delivered), m, nextMessage)
      <3>1. joined[Len(joined)].msg = m /\ joined[Len(joined)].at = size[m]
        BY <2>8 DEF Byte
      <3> HIDE DEF joined
      <3>2. QED
        BY <2>8, <3>1 DEF MessagesUpTo
    <2>10. trusted + Len(waiting') < nextMessage'
      BY <1>1, <1>2, <1>3, <1>9
    <2>11. Len(joined) <= Len(Stream') /\ \A i \in 1..Len(joined) : Stream'[i] = joined[i]
      <3>1. Len(joined) \in Nat
        BY <2>8, LenProperties
      <3>2. Stream' = joined
        BY <2>7
      <3> HIDE DEF joined
      <3>3. QED
        BY <3>1, <3>2
    <2> HIDE DEF joined
    <2>12. QED
      BY <1>1, <1>9, <2>2, <2>8, <2>9, <2>10, <2>11 DEF RightStream
  <1>10. QED
    BY <1>6, <1>7, <1>8, <1>9 DEF RightStream

\* After the first send that is partial the message is to be continued; after a
\* second of the same message those before it are right.
LEMMA SendPartKeepsRight ==
  ASSUME TypeOK, WaitsInOrder, SendPart,
         lastMessageByteSent # 0 => TrustedIsSent,
         RightStream(Stream, Len(delivered), waiting, nextMessage, lastMessageByteSent, trusted)
  PROVE  RightStream(Stream', Len(delivered'), waiting', nextMessage', lastMessageByteSent',
                     trusted')
  <1> DEFINE m == FrontMessage
             k == lastMessageByteSent
  <1>1. PICK byteSent \in 1..(Len(Unsent(m)) - 1) :
          /\ wire' = wire \o SubSeq(Unsent(m), 1, byteSent)
          /\ lastMessageByteSent' = byteSent
    BY DEF SendPart
  <1>2. /\ delivered' = delivered /\ nextMessage' = nextMessage /\ waiting' = waiting
        /\ trusted' = LastTrusted(m) /\ receivedBuffer' = receivedBuffer
    BY DEF SendPart, receiverVars, waiting
  <1>3. /\ Len(waiting) \in Nat \ {0}
        /\ m \in Messages /\ m \in Nat \ {0} /\ m + Len(waiting) = nextMessage
    BY FrontWaits, FrontFollows DEF SendPart
  <1>4. /\ trusted \in Nat /\ nextMessage \in Nat /\ size \in Sizes /\ k \in Nat
        /\ Len(delivered) \in Nat /\ Stream \in Seq(ByteSet) /\ Len(Stream) \in Nat
    BY FramingAssumption, StreamType, LenProperties DEF FramingAssumption, TypeOK
  <1>5. Unsent(m) \in Seq(ByteSet) /\ Len(Unsent(m)) \in Nat
    BY <1>3, <1>4, UnsentType, LenProperties
  <1>6. byteSent # 0 /\ byteSent \in Nat /\ byteSent \in 0..Len(Unsent(m))
    BY <1>1, <1>5
  <1> DEFINE sent == SubSeq(Unsent(m), 1, byteSent)
  <1>7. sent \in Seq(ByteSet)
    BY <1>5, <1>6, PieceType
  <1>8. /\ Stream' = Stream \o sent /\ Len(Stream) <= Len(Stream') /\ Len(Stream') \in Nat
        /\ \A i \in 1..Len(Stream) : Stream'[i] = Stream[i]
    <2>1. /\ Stream' = Stream \o sent /\ Len(Stream) <= Len(Stream')
          /\ \A i \in 1..Len(Stream) : Stream'[i] = Stream[i]
      BY <1>1, <1>2, <1>7, SentBehind
    <2> HIDE DEF sent
    <2>2. QED
      BY <1>4, <1>7, <2>1, ConcatProperties, LenProperties
  <1>9. CASE k = 0
    <2>1. trusted' = m /\ Unsent(m) = Bytes(m)
      BY <1>2, <1>3, <1>4, <1>9, UnsentType DEF LastTrusted
    <2>2. byteSent < size[m]
      BY <1>1, <1>3, <1>4, <2>1, BytesType
    <2>3. PICK n \in Nat : /\ MessagesUpTo(Stream, Len(delivered), n, nextMessage)
                           /\ n + Len(waiting) + 1 = nextMessage
      <3>1. InPlace(Stream, Len(delivered), waiting, nextMessage)
        BY <1>9 DEF RightStream
      <3>2. QED
        BY <3>1, PlaceIsUpTo
    <2>4. n = m - 1
      BY <1>3, <1>4, <2>3
    <2>5. Stream' = Stream \o SubSeq(Bytes(m), 1, byteSent)
      BY <1>8, <2>1
    <2>6. \E r \in Seq(ByteSet) : /\ MessagesUpTo(r, Len(delivered), m - 1, nextMessage)
                                  /\ Stream' = r \o SubSeq(Bytes(m), 1, byteSent)
      BY <1>4, <2>3, <2>4, <2>5
    <2>7. QED
      BY <1>1, <1>2, <1>3, <1>6, <2>1, <2>2, <2>6 DEF RightStream
  <1>10. CASE k # 0 /\ m # trusted
    <2>1. trusted' = trusted /\ trusted + Len(waiting) # nextMessage
      BY <1>2, <1>3, <1>4, <1>10 DEF LastTrusted
    <2>2. CASE Len(delivered) >= trusted
      BY <1>1, <1>2, <1>6, <2>1, <2>2 DEF RightStream
    <2>3. CASE ~(Len(delivered) >= trusted)
      <3>1. trusted + Len(waiting) < nextMessage
        BY <1>10, <2>1 DEF TrustedIsSent
      <3>2. PICK r \in Seq(ByteSet) :
              /\ MessagesUpTo(r, Len(delivered), trusted, nextMessage)
              /\ Len(r) <= Len(Stream) /\ \A i \in 1..Len(r) : Stream[i] = r[i]
        BY <1>10, <2>1, <2>3 DEF RightStream
      <3>3. Len(r) \in Nat
        BY LenProperties
      <3>4. Len(r) <= Len(Stream') /\ \A i \in 1..Len(r) : Stream'[i] = r[i]
        BY <1>4, <1>8, <3>2, <3>3
      <3>5. QED
        BY <1>1, <1>2, <1>6, <2>1, <3>1, <3>2, <3>4 DEF RightStream
    <2>4. QED
      BY <2>2, <2>3
  <1>11. CASE k # 0 /\ m = trusted
    <2>1. trusted' = m - 1 /\ trusted + Len(waiting) = nextMessage
      BY <1>2, <1>3, <1>11 DEF LastTrusted
    <2>2. Len(delivered) < trusted
      BY <1>3, <1>4, <1>11, <2>1 DEF TrustedIsSent
    <2>3. PICK r \in Seq(ByteSet) :
            /\ MessagesUpTo(r, Len(delivered), trusted - 1, nextMessage)
            /\ Stream = r \o SubSeq(Bytes(trusted), 1, k) /\ k < size[trusted]
      <3>1. ~(k = 0) /\ ~(Len(delivered) >= trusted) /\ ~(trusted + Len(waiting) < nextMessage)
        BY <1>3, <1>4, <1>11, <2>1, <2>2
      <3>2. k < size[trusted] /\ \E r \in Seq(ByteSet) :
              /\ MessagesUpTo(r, Len(delivered), trusted - 1, nextMessage)
              /\ Stream = r \o SubSeq(Bytes(trusted), 1, k)
        BY <3>1, Zenon DEF RightStream
      <3>3. QED
        BY <3>2, Zenon
    <2>4. Len(r) \in Nat
      BY LenProperties
    <2>5. Len(r) <= Len(Stream) /\ \A i \in 1..Len(r) : Stream[i] = r[i]
      <3>1. size[m] \in Nat \ {0} /\ k \in 1..(size[m] - 1)
        BY <1>3, <1>4, <1>11, <2>3, BytesType
      <3>2. SubSeq(Bytes(m), 1, k) \in Seq(ByteSet) /\ Len(SubSeq(Bytes(m), 1, k)) = k
        BY <1>3, <1>4, <3>1, Rejoined
      <3> DEFINE begun == SubSeq(Bytes(m), 1, k)
      <3>3. begun \in Seq(ByteSet) /\ Len(begun) = k /\ Stream = r \o begun
        BY <1>11, <2>3, <3>2
      <3> HIDE DEF begun
      <3>4. /\ Len(Stream) = Len(r) + Len(begun)
            /\ \A i \in 1..(Len(r) + Len(begun)) : Stream[i] =
                 IF i <= Len(r) THEN r[i] ELSE begun[i - Len(r)]
        BY <3>3, Joined
      <3>5. QED
        BY <1>4, <2>4, <3>3, <3>4
    <2>6. Len(r) <= Len(Stream') /\ \A i \in 1..Len(r) : Stream'[i] = r[i]
      BY <1>4, <1>8, <2>4, <2>5
    <2>7. trusted' + Len(waiting') < nextMessage' /\ trusted' = trusted - 1
      BY <1>2, <1>3, <1>4, <1>11, <2>1
    <2>8. QED
      BY <1>1, <1>2, <1>6, <2>3, <2>6, <2>7 DEF RightStream
  <1>12. QED
    BY <1>9, <1>10, <1>11

\* As long as trusted messages are left, the next of them is delivered, and what is
\* left of the stream is right.
LEMMA DecodeKeepsRight ==
  ASSUME TypeOK, WaitsInOrder, Decode,
         lastMessageByteSent # 0 => TrustedIsSent, Len(delivered) < trusted,
         RightStream(Stream, Len(delivered), waiting, nextMessage, lastMessageByteSent, trusted)
  PROVE  /\ Len(delivered) + 1 < nextMessage
         /\ delivered' = Append(delivered, Len(delivered) + 1) /\ receiver' = receiver
         /\ RightStream(Stream', Len(delivered'), waiting', nextMessage', lastMessageByteSent',
                        trusted')
         /\ lastMessageByteSent = 0 => Len(delivered') + Len(waiting') < nextMessage'
         /\ lastMessageByteSent # 0 => TrustedIsSent'
  <1> DEFINE m == Len(delivered) + 1
             k == size[m]
             b == lastMessageByteSent
  <1>1. /\ nextMessage' = nextMessage /\ waiting' = waiting /\ lastMessageByteSent' = b
        /\ trusted' = trusted /\ serializedToSend' = serializedToSend
    BY DEF Decode, senderVars, historyVars, waiting
  <1>2. /\ trusted \in Nat /\ nextMessage \in Nat /\ size \in Sizes /\ b \in Nat
        /\ Len(delivered) \in Nat /\ Stream \in Seq(ByteSet) /\ Len(Stream) \in Nat
        /\ Len(waiting) \in Nat
        /\ \A i \in 1..Len(Stream) : i <= Len(receivedBuffer) => Stream[i] = receivedBuffer[i]
    <2>1. trusted \in Nat /\ nextMessage \in Nat /\ size \in Sizes /\ b \in Nat
      BY FramingAssumption, StreamType DEF FramingAssumption, TypeOK
    <2>2. Len(waiting) \in Nat /\ Len(Stream) \in Nat
      BY StreamType, LenProperties
    <2>3. QED
      BY <2>1, <2>2, StreamType
  <1>3. Len(receivedBuffer) \in Nat /\ Len(receivedBuffer) <= Len(Stream)
    BY StreamType
  <1>4. CASE b = 0
    <2>1. InPlace(Stream, Len(delivered), waiting, nextMessage)
      BY <1>4 DEF RightStream
    <2>2. /\ m < nextMessage /\ delivered' = Append(delivered, m) /\ receiver' = receiver
          /\ InPlace(Stream', Len(delivered'), waiting', nextMessage')
      BY <2>1, DecodeKeepsPlace
    <2>3. Len(delivered') + Len(waiting') < nextMessage'
      <3>1. PICK n \in Nat : /\ MessagesUpTo(Stream, Len(delivered), n, nextMessage)
                             /\ n + Len(waiting) + 1 = nextMessage
        BY <2>1, PlaceIsUpTo
      <3>2. Len(receivedBuffer) >= HeaderSize /\ HeaderSize \in Nat \ {0}
        BY FramingAssumption DEF Decode, FramingAssumption
      <3>3. Stream # <<>>
        BY <1>2, <1>3, <3>2, EmptySeq
      <3>4. Len(delivered) < n
        BY <1>2, <3>1, <3>3, LastIsLater
      <3>5. Len(delivered') = m
        BY <2>2 DEF TypeOK
      <3>6. QED
        BY <1>1, <1>2, <3>1, <3>4, <3>5
    <2>4. QED
      BY <1>1, <1>4, <2>2, <2>3 DEF RightStream
  <1>5. CASE /\ b # 0 /\ trusted + Len(waiting) < nextMessage
             /\ \E r \in Seq(ByteSet) :
                  /\ MessagesUpTo(r, Len(delivered), trusted, nextMessage)
                  /\ Len(r) <= Len(Stream) /\ \A i \in 1..Len(r) : Stream[i] = r[i]
    <2>1. PICK r \in Seq(ByteSet) :
            /\ MessagesUpTo(r, Len(delivered), trusted, nextMessage)
            /\ Len(r) <= Len(Stream) /\ \A i \in 1..Len(r) : Stream[i] = r[i]
      BY <1>5
    <2>2. r # <<>> /\ Len(r) \in Nat
      BY <1>2, <2>1, LenProperties DEF MessagesUpTo
    <2>3. \A i \in 1..Len(r) : i <= Len(receivedBuffer) => receivedBuffer[i] = r[i]
      BY <1>2, <2>1, <2>2
    <2> DEFINE rest == SubSeq(r, k + 1, Len(r))
    <2>4. /\ m < nextMessage /\ k \in 1..Len(r)
          /\ delivered' = Append(delivered, m) /\ Len(delivered') = m /\ receiver' = receiver
          /\ rest \in Seq(ByteSet) /\ Ordered(rest, m) /\ Whole(rest, nextMessage)
          /\ rest # <<>> => rest[Len(rest)] = r[Len(r)]
          /\ rest = <<>> => r[Len(r)] = Byte(m, k)
          /\ Len(rest) = Len(r) - k /\ \A i \in 1..(Len(r) - k) : rest[i] = r[k + i]
          /\ Len(Stream') = Len(Stream) - k
          /\ \A i \in 1..(Len(Stream) - k) : Stream'[i] = Stream[k + i]
      <3>1. Ordered(r, Len(delivered)) /\ Whole(r, nextMessage)
        BY <2>1 DEF MessagesUpTo
      <3>2. QED
        BY <1>2, <2>2, <2>3, <3>1, DecodeTakesTheNext
    <2>5. TrustedIsSent'
      BY <1>1, <1>5 DEF TrustedIsSent
    <2> HIDE DEF rest, m, k
    <2>6. MessagesUpTo(rest, m, trusted, nextMessage)
      <3>1. r[Len(r)].msg = trusted /\ r[Len(r)].at = size[trusted]
        BY <2>1, <2>2 DEF MessagesUpTo
      <3>2. rest = <<>> => trusted = m
        BY <2>4, <3>1 DEF Byte
      <3>3. QED
        BY <2>4, <3>1, <3>2 DEF MessagesUpTo
    <2>7. Len(rest) <= Len(Stream') /\ \A i \in 1..Len(rest) : Stream'[i] = rest[i]
      <3>1. k \in Nat
        BY <2>2, <2>4
      <3>2. Len(rest) <= Len(Stream')
        BY <1>2, <2>1, <2>2, <2>4, <3>1
      <3>3. ASSUME NEW i \in 1..Len(rest)
            PROVE  Stream'[i] = rest[i]
        <4>1. i \in 1..(Len(r) - k) /\ i \in 1..(Len(Stream) - k) /\ k + i \in 1..Len(r)
          BY <1>2, <2>1, <2>2, <2>4, <3>1
        <4>2. QED
          BY <2>1, <2>4, <4>1
      <3>4. QED
        BY <3>2, <3>3
    <2>8. QED
      BY <1>1, <1>5, <2>4, <2>5, <2>6, <2>7 DEF RightStream, m
  <1>6. CASE /\ b # 0 /\ trusted + Len(waiting) = nextMessage /\ b < size[trusted]
             /\ \E r \in Seq(ByteSet) :
                  /\ MessagesUpTo(r, Len(delivered), trusted - 1, nextMessage)
                  /\ Stream = r \o SubSeq(Bytes(trusted), 1, b)
    <2>1. PICK r \in Seq(ByteSet) :
            /\ MessagesUpTo(r, Len(delivered), trusted - 1, nextMessage)
            /\ Stream = r \o SubSeq(Bytes(trusted), 1, b)
      BY <1>6
    <2>2. /\ trusted \in Messages /\ trusted \in Nat \ {0} /\ trusted < nextMessage
          /\ serializedToSend # <<>>
      <3>1. serializedToSend # <<>>
        BY <1>2, <1>6 DEF TrustedIsSent
      <3>2. /\ FrontMessage \in Messages /\ FrontMessage \in Nat
            /\ Len(waiting) \in Nat \ {0} /\ FrontMessage + Len(waiting) = nextMessage
        BY <3>1, FrontWaits, FrontFollows
      <3>3. trusted = FrontMessage
        BY <1>2, <1>6, <3>2
      <3>4. trusted # 0
        BY <1>2
      <3>5. QED
        BY <1>2, <1>6, <3>1, <3>2, <3>3, <3>4
    <2>3. /\ size[trusted] \in Nat \ {0} /\ b \in 1..(size[trusted] - 1)
          /\ Bytes(trusted) \in Seq(ByteSet) /\ Len(Bytes(trusted)) = size[trusted]
          /\ \A i \in 1..size[trusted] : Bytes(trusted)[i] = Byte(trusted, i)
      BY <1>2, <1>6, <2>2, BytesType
    <2> DEFINE begun == SubSeq(Bytes(trusted), 1, b)
    <2>4. /\ begun \in Seq(ByteSet) /\ Len(begun) = b
          /\ \A i \in 1..b : begun[i] = Byte(trusted, i)
      BY <1>2, <2>2, <2>3, Rejoined
    <2>5. Stream = r \o begun
      BY <2>1
    <2> HIDE DEF begun
    <2>6. /\ Len(r) \in Nat /\ Len(Stream) = Len(r) + b
          /\ \A i \in 1..(Len(r) + b) : Stream[i] = IF i <= Len(r) THEN r[i] ELSE begun[i - Len(r)]
      <3>1. /\ Len(Stream) = Len(r) + Len(begun)
            /\ \A i \in 1..(Len(r) + Len(begun)) : Stream[i] =
                 IF i <= Len(r) THEN r[i] ELSE begun[i - Len(r)]
        BY <2>4, <2>5, Joined
      <3>2. QED
        BY <2>4, <3>1, LenProperties
    <2>7. ASSUME r = <<>>
          PROVE  FALSE
      <3> DEFINE s == Bytes(trusted)
      <3>1. trusted = m /\ Len(r) = 0
        BY <1>2, <2>1, <2>2, <2>7 DEF MessagesUpTo
      <3>2. s \in Seq(ByteSet) /\ s # <<>> /\ Ordered(s, Len(delivered)) /\ Whole(s, nextMessage)
        <4> DEFINE none == <<>>
        <4>1. none \in Seq(ByteSet) /\ none \o s = s /\ Len(none) = 0
          BY <2>3, EmptySeq, ConcatEmptySeq
        <4>2. Ordered(none, Len(delivered)) /\ Whole(none, nextMessage)
          BY <4>1 DEF Ordered, Whole
        <4>3. none = <<>>
          OBVIOUS
        <4> HIDE DEF none
        <4>4. /\ none \o Bytes(trusted) # <<>> /\ Ordered(none \o Bytes(trusted), Len(delivered))
              /\ Whole(none \o Bytes(trusted), nextMessage)
          BY <1>2, <2>2, <3>1, <4>1, <4>2, <4>3, AppendMessage DEF m
        <4>5. QED
          BY <2>3, <4>1, <4>4
      <3>3. \A i \in 1..Len(s) : i <= Len(receivedBuffer) => receivedBuffer[i] = s[i]
        <4>1. ASSUME NEW i \in 1..Len(s), i <= Len(receivedBuffer)
              PROVE  receivedBuffer[i] = s[i]
          <5>1. i \in 1..b /\ i \in 1..size[trusted] /\ i \in 1..Len(Stream)
            BY <1>2, <1>3, <2>3, <2>6, <3>1, <4>1
          <5>2. Stream[i] = begun[i]
            BY <1>2, <2>6, <3>1, <5>1
          <5>3. QED
            BY <1>2, <2>3, <2>4, <4>1, <5>1, <5>2
        <4>2. QED
          BY <4>1
      <3> HIDE DEF s
      <3>4. size[m] <= Len(receivedBuffer)
        BY <1>2, <3>2, <3>3, DecodeTakesTheNext
      <3>5. QED
        BY <1>2, <1>3, <1>6, <2>3, <2>6, <3>1, <3>4
    <2>8. \A i \in 1..Len(r) : i <= Len(receivedBuffer) => receivedBuffer[i] = r[i]
      BY <1>2, <2>6
    <2> DEFINE rest == SubSeq(r, k + 1, Len(r))
    <2>9. /\ m < nextMessage /\ k \in 1..Len(r)
          /\ delivered' = Append(delivered, m) /\ Len(delivered') = m /\ receiver' = receiver
          /\ rest \in Seq(ByteSet) /\ Ordered(rest, m) /\ Whole(rest, nextMessage)
          /\ rest # <<>> => rest[Len(rest)] = r[Len(r)]
          /\ rest = <<>> => r[Len(r)] = Byte(m, k)
          /\ Len(rest) = Len(r) - k /\ \A i \in 1..(Len(r) - k) : rest[i] = r[k + i]
          /\ Stream' \in Seq(ByteSet) /\ Len(Stream') = Len(Stream) - k
          /\ \A i \in 1..(Len(Stream) - k) : Stream'[i] = Stream[k + i]
      <3>1. Ordered(r, Len(delivered)) /\ Whole(r, nextMessage)
        BY <2>1 DEF MessagesUpTo
      <3>2. QED
        BY <1>2, <2>7, <2>8, <3>1, DecodeTakesTheNext
    <2> HIDE DEF rest, k
    <2>10. MessagesUpTo(rest, m, trusted - 1, nextMessage)
      <3>1. r[Len(r)].msg = trusted - 1 /\ r[Len(r)].at = size[trusted - 1]
        BY <2>1, <2>7 DEF MessagesUpTo
      <3>2. rest = <<>> => trusted - 1 = m
        BY <2>9, <3>1 DEF Byte
      <3> HIDE DEF m
      <3>3. QED
        BY <2>9, <3>1, <3>2 DEF MessagesUpTo
    <2>11. m < trusted
      <3>1. m \in Nat
        BY <1>2
      <3> HIDE DEF m
      <3>2. m <= trusted - 1
        BY <2>9, <2>10, <3>1, LastIsLater
      <3>3. QED
        BY <1>2, <2>2, <3>1, <3>2
    <2>12. TrustedIsSent'
      BY <1>1, <1>6, <2>2, <2>9, <2>11 DEF TrustedIsSent
    <2>13. Stream' = rest \o begun
      <3> DEFINE joined == rest \o begun
      <3>1. /\ joined \in Seq(ByteSet) /\ Len(joined) = Len(rest) + b
            /\ \A i \in 1..(Len(rest) + b) : joined[i] =
                 IF i <= Len(rest) THEN rest[i] ELSE begun[i - Len(rest)]
        <4>1. \A s, t \in Seq(ByteSet) :
                /\ s \o t \in Seq(ByteSet) /\ Len(s \o t) = Len(s) + Len(t)
                /\ \A i \in 1..(Len(s) + Len(t)) :
                     (s \o t)[i] = IF i <= Len(s) THEN s[i] ELSE t[i - Len(s)]
          BY Joined
        <4>2. rest \in Seq(ByteSet) /\ begun \in Seq(ByteSet) /\ Len(begun) = b
          BY <2>4, <2>9
        <4>3. QED
          BY <4>1, <4>2
      <3>2. k \in Nat /\ k <= Len(r) /\ Len(rest) \in Nat
        BY <2>6, <2>9
      <3>3. Len(Stream') = Len(joined)
        BY <1>2, <2>6, <2>9, <3>1, <3>2
      <3> HIDE DEF joined
      <3>4. ASSUME NEW i \in 1..Len(joined)
            PROVE  Stream'[i] = joined[i]
        <4>1. i \in 1..(Len(Stream) - k) /\ k + i \in 1..(Len(r) + b) /\ i \in 1..(Len(rest) + b)
          BY <1>2, <2>6, <2>9, <3>1, <3>2
        <4>2. Stream'[i] = IF k + i <= Len(r) THEN r[k + i] ELSE begun[(k + i) - Len(r)]
          BY <2>6, <2>9, <4>1
        <4>3. CASE i <= Len(rest)
          <5>1. i \in 1..(Len(r) - k) /\ k + i <= Len(r)
            BY <2>6, <2>9, <3>2, <4>3
          <5>2. QED
            BY <2>9, <3>1, <4>1, <4>2, <4>3, <5>1
        <4>4. CASE ~(i <= Len(rest))
          <5>1. ~(k + i <= Len(r)) /\ (k + i) - Len(r) = i - Len(rest)
            BY <2>6, <2>9, <3>2, <4>4
          <5>2. QED
            BY <3>1, <4>1, <4>2, <4>4, <5>1
        <4>5. QED
          BY <4>3, <4>4
      <3>5. QED
        BY <2>9, <3>1, <3>3, <3>4, SeqEqual DEF joined
    <2>14. trusted' + Len(waiting') = nextMessage' /\ lastMessageByteSent' < size[trusted']
      BY <1>1, <1>6
    <2>15. \E q \in Seq(ByteSet) :
             /\ MessagesUpTo(q, Len(delivered'), trusted' - 1, nextMessage')
             /\ Stream' = q \o SubSeq(Bytes(trusted'), 1, lastMessageByteSent')
      BY <1>1, <2>9, <2>10, <2>13 DEF begun
    <2>16. QED
      BY <1>1, <1>6, <2>9, <2>12, <2>14, <2>15 DEF RightStream
  <1>7. \/ b = 0 \/ Len(delivered) >= trusted
        \/ /\ b # 0 /\ trusted + Len(waiting) < nextMessage
           /\ \E r \in Seq(ByteSet) :
                /\ MessagesUpTo(r, Len(delivered), trusted, nextMessage)
                /\ Len(r) <= Len(Stream) /\ \A i \in 1..Len(r) : Stream[i] = r[i]
        \/ /\ b # 0 /\ trusted + Len(waiting) = nextMessage /\ b < size[trusted]
           /\ \E r \in Seq(ByteSet) :
                /\ MessagesUpTo(r, Len(delivered), trusted - 1, nextMessage)
                /\ Stream = r \o SubSeq(Bytes(trusted), 1, b)
    BY Zenon DEF RightStream
  <1>8. ~(Len(delivered) >= trusted)
    BY <1>2
  <1>9. QED
    BY <1>4, <1>5, <1>6, <1>7, <1>8, Zenon

\* The steps that touch neither the stream nor what waits.
LEMMA OthersKeepRight ==
  ASSUME TypeOK, BeginSend \/ SendFails \/ SendDone \/ Close \/ Receive \/ DecodeDone
                   \/ UNCHANGED vars
  PROVE  /\ Stream' = Stream /\ waiting' = waiting /\ nextMessage' = nextMessage
         /\ delivered' = delivered /\ trusted' = trusted
         /\ lastMessageByteSent' = lastMessageByteSent
         /\ serializedToSend # <<>> => serializedToSend' # <<>>
         /\ receiver' = "failed" <=> receiver = "failed"
  <1>1. CASE BeginSend
    <2>1. /\ Stream' = Stream /\ nextMessage' = nextMessage /\ delivered' = delivered
          /\ receiver' = receiver /\ trusted' = trusted
          /\ lastMessageByteSent' = lastMessageByteSent
      BY <1>1 DEF BeginSend, Stream, receiverVars, historyVars
    <2>2. waiting' = waiting
      <3>1. serializedToSend \o messagesToSend \in Seq(Messages)
        BY ConcatProperties DEF TypeOK
      <3>2. QED
        BY <1>1, <3>1, ConcatEmptySeq DEF BeginSend, waiting
    <2>3. serializedToSend # <<>> => serializedToSend' # <<>>
      <3>1. ASSUME serializedToSend # <<>>
            PROVE  serializedToSend' # <<>>
        <4>1. /\ Len(serializedToSend) \in Nat \ {0} /\ Len(messagesToSend) \in Nat
              /\ serializedToSend \in Seq(Messages) /\ messagesToSend \in Seq(Messages)
          BY <3>1, EmptySeq, LenProperties DEF TypeOK
        <4>2. Len(serializedToSend') = Len(serializedToSend) + Len(messagesToSend)
          BY <1>1, <4>1, ConcatProperties DEF BeginSend
        <4>3. QED
          BY <4>1, <4>2, EmptySeq
      <3>2. QED
        BY <3>1
    <2>4. QED
      BY <2>1, <2>2, <2>3
  <1>2. CASE Receive
    <2>1. Stream' = Stream
      BY <1>2, ReceiveKeepsStream
    <2>2. QED
      BY <1>2, <2>1 DEF Receive, senderVars, historyVars, waiting
  <1>3. CASE SendFails \/ SendDone \/ Close \/ DecodeDone \/ UNCHANGED vars
    BY <1>3 DEF SendFails, SendDone, Close, DecodeDone, Stream, waiting, vars, senderVars,
       receiverVars, historyVars
  <1>4. QED
    BY <1>1, <1>2, <1>3

\* A step of the sender keeps the trusted message in sight.
LEMMA SendKeepsTrusted ==
  ASSUME FramingInv, Queue \/ SendWhole \/ SendPart
  PROVE  /\ delivered' = delivered /\ receiver' = receiver
         /\ \A i \in 1..Len(delivered) : i <= trusted' => delivered[i] = i
         /\ lastMessageByteSent' = 0 =>
              trusted' = MaxMessages /\ Len(delivered) + Len(waiting') < nextMessage'
         /\ lastMessageByteSent' # 0 => TrustedIsSent'
  <1>1. TypeOK /\ WaitsInOrder
    BY DEF FramingInv
  <1>2. /\ trusted \in Nat /\ nextMessage \in Nat /\ MaxMessages \in Nat
        /\ lastMessageByteSent \in Nat /\ Len(delivered) \in Nat /\ Len(waiting) \in Nat
    BY <1>1, FramingAssumption, StreamType, LenProperties DEF FramingAssumption, TypeOK
  <1>3. CASE Queue
    <2>1. /\ delivered' = delivered /\ receiver' = receiver /\ nextMessage' = nextMessage + 1
          /\ lastMessageByteSent' = lastMessageByteSent /\ trusted' = trusted
          /\ serializedToSend' = serializedToSend
      BY <1>3 DEF Queue, receiverVars, historyVars
    <2>2. Len(waiting') = Len(waiting) + 1
      <3>1. waiting' = Append(waiting, nextMessage)
        BY <1>1, <1>3 DEF Queue, TypeOK, waiting
      <3>2. QED
        BY <1>1, <3>1, StreamType
    <2>3. lastMessageByteSent # 0 => TrustedIsSent'
      BY <1>2, <2>1, <2>2 DEF FramingInv, TrustedIsSent
    <2>4. QED
      BY <1>2, <2>1, <2>2, <2>3 DEF FramingInv
  <1>4. CASE SendWhole
    <2>1. /\ delivered' = delivered /\ receiver' = receiver /\ nextMessage' = nextMessage
          /\ lastMessageByteSent' = lastMessageByteSent /\ trusted' = trusted
      BY <1>4 DEF SendWhole, receiverVars, historyVars
    <2>2. Len(waiting) \in Nat \ {0} /\ Len(waiting') = Len(waiting) - 1
      BY <1>1, <1>4, FrontWaits DEF SendWhole
    <2>3. lastMessageByteSent # 0 => TrustedIsSent'
      BY <1>2, <2>1, <2>2 DEF FramingInv, TrustedIsSent
    <2>4. QED
      BY <1>2, <2>1, <2>2, <2>3 DEF FramingInv
  <1>5. CASE SendPart
    <2> DEFINE m == FrontMessage
    <2>1. /\ delivered' = delivered /\ receiver' = receiver /\ nextMessage' = nextMessage
          /\ waiting' = waiting /\ serializedToSend' = serializedToSend
          /\ serializedToSend # <<>> /\ trusted' = LastTrusted(m)
      BY <1>5 DEF SendPart, receiverVars, waiting
    <2>2. lastMessageByteSent' # 0
      <3>1. PICK byteSent \in 1..(Len(Unsent(m)) - 1) : lastMessageByteSent' = byteSent
        BY <1>5 DEF SendPart
      <3>2. QED
        BY <3>1
    <2>3. /\ m \in Nat \ {0} /\ m \in Messages /\ m + Len(waiting) = nextMessage
      BY <1>1, <2>1, FrontWaits, FrontFollows
    <2>4. CASE lastMessageByteSent = 0
      <3>1. trusted' = m /\ m <= trusted /\ Len(delivered) < m
        BY <1>2, <2>1, <2>3, <2>4 DEF FramingInv, LastTrusted, Messages
      <3>2. TrustedIsSent'
        BY <2>1, <2>3, <3>1 DEF TrustedIsSent
      <3>3. \A i \in 1..Len(delivered) : i <= trusted' => delivered[i] = i
        BY <1>2, <2>3, <3>1 DEF FramingInv
      <3>4. QED
        BY <2>1, <2>2, <3>2, <3>3
    <2>5. CASE lastMessageByteSent # 0 /\ m # trusted
      <3>1. trusted' = trusted /\ trusted + Len(waiting) < nextMessage
        BY <1>2, <2>1, <2>3, <2>5 DEF FramingInv, LastTrusted, TrustedIsSent
      <3>2. TrustedIsSent'
        BY <2>1, <3>1 DEF TrustedIsSent
      <3>3. QED
        BY <2>1, <2>2, <3>1, <3>2 DEF FramingInv
    <2>6. CASE lastMessageByteSent # 0 /\ m = trusted
      <3>1. trusted' = m - 1 /\ trusted' <= trusted
        BY <1>2, <2>1, <2>3, <2>6 DEF LastTrusted
      <3>2. trusted' + Len(waiting') < nextMessage'
        BY <1>2, <2>1, <2>3, <3>1
      <3>3. \A i \in 1..Len(delivered) : i <= trusted' => delivered[i] = i
        BY <1>2, <2>3, <3>1 DEF FramingInv
      <3>4. QED
        BY <2>1, <2>2, <3>2, <3>3 DEF TrustedIsSent
    <2>7. QED
      BY <2>4, <2>5, <2>6
  <1>6. QED
    BY <1>3, <1>4, <1>5

\* Whatever is partial, the stream stays right up to the trusted message.
LEMMA NextFraming == FramingInv /\ [Next]_vars => FramingInv'
  <1> SUFFICES ASSUME FramingInv, [Next]_vars
               PROVE  FramingInv'
    OBVIOUS
  <1>1. /\ TypeOK /\ TypeOK' /\ WaitsInOrder /\ WaitsInOrder' /\ size' = size
        /\ trusted \in Nat /\ Len(delivered) \in Nat
    <2>1. TypeOK /\ WaitsInOrder /\ size' = size
      BY DEF FramingInv, Next, vars
    <2>2. QED
      BY <2>1, NextType, NextWaits, StreamType, FramingAssumption DEF FramingAssumption, TypeOK
  <1>2. SUFFICES /\ \A i \in 1..Len(delivered') : i <= trusted' => delivered'[i] = i
                 /\ lastMessageByteSent' = 0 =>
                      trusted' = MaxMessages /\ Len(delivered') + Len(waiting') < nextMessage'
                 /\ lastMessageByteSent' # 0 => TrustedIsSent'
                 /\ receiver' # "failed" =>
                      RightStream(Stream', Len(delivered'), waiting', nextMessage',
                                  lastMessageByteSent', trusted')
    BY <1>1, SizesStay DEF FramingInv
  <1>3. /\ lastMessageByteSent # 0 => TrustedIsSent
        /\ receiver # "failed" => RightStream(Stream, Len(delivered), waiting, nextMessage,
                                              lastMessageByteSent, trusted)
    BY DEF FramingInv
  <1>4. CASE Queue \/ SendWhole \/ SendPart
    BY <1>1, <1>3, <1>4, SendKeepsTrusted, QueueKeepsRight, SendWholeKeepsRight,
       SendPartKeepsRight
  <1>5. CASE \/ BeginSend \/ SendFails \/ SendDone \/ Close \/ Receive \/ DecodeDone
             \/ UNCHANGED vars
    <2>1. /\ Stream' = Stream /\ waiting' = waiting /\ nextMessage' = nextMessage
          /\ delivered' = delivered /\ trusted' = trusted
          /\ lastMessageByteSent' = lastMessageByteSent
          /\ serializedToSend # <<>> => serializedToSend' # <<>>
          /\ receiver' = "failed" <=> receiver = "failed"
      BY <1>1, <1>5, OthersKeepRight
    <2>2. lastMessageByteSent # 0 => TrustedIsSent'
      BY <1>3, <2>1 DEF TrustedIsSent
    <2>3. QED
      BY <1>3, <2>1, <2>2 DEF FramingInv
  <1>6. CASE ReceiveEnd
    <2>1. /\ delivered' = delivered /\ waiting' = waiting /\ nextMessage' = nextMessage
          /\ trusted' = trusted /\ lastMessageByteSent' = lastMessageByteSent
          /\ serializedToSend' = serializedToSend /\ receiver' = "failed"
      BY <1>6 DEF ReceiveEnd, senderVars, historyVars, waiting
    <2>2. lastMessageByteSent # 0 => TrustedIsSent'
      BY <1>3, <2>1 DEF TrustedIsSent
    <2>3. QED
      BY <2>1, <2>2 DEF FramingInv
  <1>7. CASE Decode /\ Len(delivered) < trusted
    <2>1. /\ delivered' = Append(delivered, Len(delivered) + 1)
          /\ RightStream(Stream', Len(delivered'), waiting', nextMessage', lastMessageByteSent',
                         trusted')
          /\ lastMessageByteSent = 0 => Len(delivered') + Len(waiting') < nextMessage'
          /\ lastMessageByteSent # 0 => TrustedIsSent'
      BY <1>1, <1>3, <1>7, DecodeKeepsRight DEF Decode
    <2>2. trusted' = trusted /\ lastMessageByteSent' = lastMessageByteSent
      BY <1>7 DEF Decode, senderVars, historyVars
    <2>3. \A i \in 1..Len(delivered') : i <= trusted' => delivered'[i] = i
      <3>1. delivered \in Seq(Messages \cup {Garbage}) /\ Len(delivered) \in Nat
        BY <1>1, StreamType DEF TypeOK
      <3>2. /\ Len(delivered') = Len(delivered) + 1
            /\ \A i \in 1..Len(delivered) : delivered'[i] = delivered[i]
            /\ delivered'[Len(delivered) + 1] = Len(delivered) + 1
        BY <2>1, <3>1
      <3>3. \A i \in 1..Len(delivered) : i <= trusted => delivered[i] = i
        BY DEF FramingInv
      <3>4. QED
        BY <2>2, <3>1, <3>2, <3>3
    <2>4. QED
      BY <2>1, <2>2, <2>3 DEF FramingInv
  <1>8. CASE Decode /\ ~(Len(delivered) < trusted)
    <2>1. /\ waiting' = waiting /\ nextMessage' = nextMessage /\ trusted' = trusted
          /\ lastMessageByteSent' = lastMessageByteSent /\ serializedToSend' = serializedToSend
          /\ receiver # "failed"
      BY <1>8 DEF Decode, senderVars, historyVars, waiting
    <2>2. lastMessageByteSent # 0
      <3>1. ASSUME lastMessageByteSent = 0
            PROVE  FALSE
        <4>1. trusted = MaxMessages /\ InPlace(Stream, Len(delivered), waiting, nextMessage)
          BY <1>3, <2>1, <3>1 DEF FramingInv, RightStream
        <4>2. Len(delivered) + 1 < nextMessage
          BY <1>1, <1>8, <4>1, DecodeKeepsPlace
        <4>3. nextMessage \in 1..(MaxMessages + 1) /\ MaxMessages \in Nat
          BY <1>1, FramingAssumption DEF FramingAssumption, TypeOK
        <4>4. QED
          BY <1>1, <1>8, <4>1, <4>2, <4>3
      <3>2. QED
        BY <3>1
    <2>3. /\ Len(delivered') \in Nat /\ Len(delivered') >= trusted
          /\ \A i \in 1..Len(delivered') : i <= trusted => delivered'[i] = i
      <3>1. CASE delivered' = delivered
        BY <1>1, <1>8, <3>1 DEF FramingInv
      <3>2. CASE \E m \in Messages \cup {Garbage} : delivered' = Append(delivered, m)
        <4>1. delivered \in Seq(Messages \cup {Garbage})
          BY <1>1 DEF TypeOK
        <4>2. /\ Len(delivered') = Len(delivered) + 1
              /\ \A i \in 1..Len(delivered) : delivered'[i] = delivered[i]
          BY <3>2, <4>1
        <4>3. ASSUME NEW i \in 1..Len(delivered'), i <= trusted
              PROVE  delivered'[i] = i
          <5>1. i \in 1..Len(delivered)
            BY <1>1, <1>8, <4>2, <4>3
          <5>2. QED
            BY <4>2, <4>3, <5>1 DEF FramingInv
        <4>4. QED
          BY <1>1, <1>8, <4>2, <4>3
      <3>3. QED
        BY <1>1, <3>1, <3>2, DeliversOne
    <2>4. TrustedIsSent'
      BY <1>1, <1>3, <1>8, <2>1, <2>2 DEF TrustedIsSent
    <2>5. QED
      BY <2>1, <2>2, <2>3, <2>4 DEF RightStream
  <1>9. QED
    BY <1>4, <1>5, <1>6, <1>7, <1>8
    DEF Next, SendTcpMessageSystem, ReceiveTcpMessageSystem, Finished

\* Whatever their sizes are and however the bytes are cut, the stream between
\* the two message systems stays in place until a send is partial, and what is
\* delivered of the trusted messages is in order after it.
THEOREM StreamStaysInPlace == Spec => []StreamInv
  <1>1. Init => FramingInv
    BY InitFraming
  <1>2. FramingInv /\ [Next]_vars => FramingInv'
    BY NextFraming
  <1>3. FramingInv => StreamInv
    BY FramingInvIsStronger
  <1>4. QED
    BY <1>1, <1>2, <1>3, PTL DEF Spec

-----------------------------------------------------------------------------
\* How many trusted messages arrived, and whether the channel is over.
arrived == IF Len(delivered) < trusted THEN Len(delivered) ELSE trusted
isLost == receiver = "failed" \/ Len(delivered) > trusted

\* What a step of the systems is in numbers: a message is sent, or the next one
\* that was sent arrives, or the channel is over, or none of it.
LEMMA StepInNumbers ==
  ASSUME FramingInv, FramingInv', [Next]_vars
  PROVE  /\ nextMessage \in Nat \ {0} /\ nextMessage' \in Nat \ {0}
         /\ arrived \in Nat /\ arrived' \in Nat
         /\ \/ /\ nextMessage \in Messages /\ nextMessage' = nextMessage + 1
               /\ arrived' = arrived /\ isLost' = isLost
            \/ /\ ~isLost /\ nextMessage' = nextMessage /\ arrived + 1 < nextMessage
               /\ arrived' = arrived + 1 /\ isLost' = isLost
            \/ ~isLost /\ nextMessage' = nextMessage /\ arrived' = arrived /\ isLost'
            \/ nextMessage' = nextMessage /\ arrived' = arrived /\ isLost' = isLost
  <1>1. /\ TypeOK /\ TypeOK' /\ WaitsInOrder
        /\ lastMessageByteSent # 0 => TrustedIsSent
    BY DEF FramingInv
  <1>2. /\ trusted \in Nat /\ trusted' \in Nat /\ MaxMessages \in Nat
        /\ nextMessage \in Nat \ {0} /\ nextMessage' \in Nat \ {0}
        /\ Len(delivered) \in Nat /\ Len(delivered') \in Nat /\ Len(waiting) \in Nat
    <2>1. /\ delivered \in Seq(Messages \cup {Garbage})
          /\ delivered' \in Seq(Messages \cup {Garbage})
      BY <1>1 DEF TypeOK
    <2>2. Len(delivered) \in Nat /\ Len(delivered') \in Nat
      BY <2>1
    <2>3. Len(waiting) \in Nat
      BY <1>1, StreamType, LenProperties
    <2>4. QED
      BY <1>1, <2>2, <2>3, FramingAssumption DEF FramingAssumption, TypeOK
  <1>3. arrived \in Nat /\ arrived' \in Nat
    BY <1>2 DEF arrived
  <1>4. CASE Queue
    <2>1. /\ nextMessage \in Messages /\ nextMessage' = nextMessage + 1
          /\ delivered' = delivered /\ receiver' = receiver /\ trusted' = trusted
      BY <1>4 DEF Queue, receiverVars, historyVars
    <2>2. arrived' = arrived /\ isLost' = isLost
      BY <2>1 DEF arrived, isLost
    <2>3. QED
      BY <1>2, <1>3, <2>1, <2>2
  <1>5. CASE SendPart
    <2> DEFINE m == FrontMessage
    <2>1. /\ delivered' = delivered /\ receiver' = receiver /\ nextMessage' = nextMessage
          /\ serializedToSend # <<>> /\ trusted' = LastTrusted(m)
      BY <1>5 DEF SendPart, receiverVars
    <2>2. m \in Nat \ {0} /\ m \in Messages /\ m + Len(waiting) = nextMessage
      BY <1>1, <2>1, FrontWaits, FrontFollows
    <2>3. trusted' = trusted \/ (Len(delivered) <= trusted' /\ Len(delivered) <= trusted)
      <3>1. CASE lastMessageByteSent = 0
        <4>1. trusted' = m /\ m <= trusted /\ Len(delivered) < m
          BY <1>2, <2>1, <2>2, <3>1 DEF FramingInv, LastTrusted, Messages
        <4>2. QED
          BY <1>2, <2>2, <4>1
      <3>2. CASE lastMessageByteSent # 0 /\ m # trusted
        BY <2>1, <3>2 DEF LastTrusted
      <3>3. CASE lastMessageByteSent # 0 /\ m = trusted
        <4>1. trusted' = trusted - 1 /\ Len(delivered) < trusted
          BY <1>1, <1>2, <2>1, <2>2, <3>3 DEF LastTrusted, TrustedIsSent
        <4>2. QED
          BY <1>2, <4>1
      <3>4. QED
        BY <3>1, <3>2, <3>3
    <2>4. arrived' = arrived /\ isLost' = isLost
      BY <1>2, <2>1, <2>3 DEF arrived, isLost
    <2>5. QED
      BY <1>2, <1>3, <2>1, <2>4
  <1>6. CASE Decode /\ Len(delivered) < trusted
    <2>1. /\ nextMessage' = nextMessage /\ trusted' = trusted /\ receiver # "failed"
      BY <1>6 DEF Decode, senderVars, historyVars
    <2>2. /\ Len(delivered) + 1 < nextMessage /\ receiver' = receiver
          /\ delivered' = Append(delivered, Len(delivered) + 1)
      BY <1>1, <1>6, <2>1, DecodeKeepsRight DEF FramingInv
    <2>3. Len(delivered') = Len(delivered) + 1
      BY <1>1, <2>2 DEF TypeOK
    <2>4. arrived = Len(delivered) /\ arrived' = arrived + 1 /\ ~isLost /\ ~isLost'
      BY <1>2, <1>6, <2>1, <2>2, <2>3 DEF arrived, isLost
    <2>5. isLost = FALSE /\ isLost' = FALSE
      BY <2>4 DEF isLost
    <2>6. arrived + 1 < nextMessage /\ nextMessage' = nextMessage /\ arrived' = arrived + 1
      BY <2>1, <2>2, <2>4
    <2>7. QED
      BY <1>2, <1>3, <2>5, <2>6, Zenon
  <1>7. CASE Decode /\ ~(Len(delivered) < trusted)
    <2>1. nextMessage' = nextMessage /\ trusted' = trusted
      BY <1>7 DEF Decode, senderVars, historyVars
    <2>2. Len(delivered') = Len(delivered) \/ Len(delivered') = Len(delivered) + 1
      BY <1>1, DeliversOne DEF TypeOK
    <2>3. arrived' = arrived /\ (isLost => isLost')
      BY <1>2, <1>7, <2>1, <2>2 DEF arrived, isLost, Decode
    <2>4. isLost \in BOOLEAN /\ isLost' \in BOOLEAN
      BY DEF isLost
    <2>5. QED
      BY <1>2, <1>3, <2>1, <2>3, <2>4
  <1>8. CASE ReceiveEnd
    <2>1. /\ nextMessage' = nextMessage /\ trusted' = trusted /\ delivered' = delivered
          /\ receiver' = "failed"
      BY <1>8 DEF ReceiveEnd, senderVars, historyVars
    <2>2. arrived' = arrived /\ isLost' = TRUE /\ isLost \in BOOLEAN
      BY <2>1 DEF arrived, isLost
    <2>3. QED
      BY <1>2, <1>3, <2>1, <2>2
  <1>9. CASE \/ BeginSend \/ SendWhole \/ SendFails \/ SendDone \/ Close
             \/ Receive \/ DecodeDone \/ UNCHANGED vars
    <2>1. /\ nextMessage' = nextMessage /\ delivered' = delivered /\ trusted' = trusted
          /\ (receiver' = "failed") = (receiver = "failed")
      BY <1>9 DEF BeginSend, SendWhole, SendFails, SendDone, Close, Receive, DecodeDone,
         vars, senderVars, receiverVars, historyVars
    <2>2. arrived' = arrived /\ isLost' = isLost
      BY <2>1 DEF arrived, isLost
    <2>3. QED
      BY <1>2, <1>3, <2>1, <2>2
  <1>10. QED
    BY <1>4, <1>5, <1>6, <1>7, <1>8, <1>9
    DEF Next, SendTcpMessageSystem, ReceiveTcpMessageSystem, Finished

\* The first k messages.
UpToNumber(k) == [i \in 1..k |-> i]

\* What Channel takes for sent and for delivered.
LEMMA ChannelInNumbers ==
  ASSUME FramingInv
  PROVE  /\ [i \in 1..(nextMessage - 1) |-> i] = UpToNumber(nextMessage - 1)
         /\ [i \in Arrived |-> delivered[i]] = UpToNumber(arrived)
  <1>1. Len(delivered) \in Nat /\ trusted \in Nat
    BY StreamType, FramingAssumption DEF FramingInv, FramingAssumption, TypeOK
  <1>2. Arrived = 1..arrived
    BY DEF Arrived, arrived
  <1>3. \A i \in 1..arrived : delivered[i] = i
    BY <1>1 DEF FramingInv, arrived
  <1>4. QED
    BY <1>2, <1>3 DEF UpToNumber

\* A sequence, one element longer.
LEMMA OneMore ==
  ASSUME NEW j \in Nat, NEW g, NEW x, NEW h, h = [i \in 1..j |-> g[i]], x = g[j + 1]
  PROVE  Append(h, x) = [i \in 1..j + 1 |-> g[i]]
  <1> DEFINE S == {g[i] : i \in 1..j + 1}
  <1>1. h \in Seq(S) /\ Len(h) = j
    <2>1. h \in [1..j -> S]
      OBVIOUS
    <2> HIDE DEF S
    <2>2. h \in Seq(S)
      BY <2>1
    <2>3. Len(h) = j
      BY <2>2
    <2>4. QED
      BY <2>2, <2>3
  <1>2. x \in S
    OBVIOUS
  <1> HIDE DEF S
  <1>3. /\ Append(h, x) \in Seq(S) /\ Len(Append(h, x)) = j + 1
        /\ \A i \in 1..j : Append(h, x)[i] = h[i]
        /\ Append(h, x)[j + 1] = x
    BY <1>1, <1>2
  <1>4. Append(h, x) = [i \in 1..j + 1 |-> Append(h, x)[i]]
    BY <1>3
  <1>5. \A i \in 1..j + 1 : Append(h, x)[i] = g[i]
    BY <1>3
  <1>6. QED
    BY <1>4, <1>5

\* One number more.
LEMMA NextNumber ==
  ASSUME NEW k \in Nat
  PROVE  Len(UpToNumber(k)) = k /\ UpToNumber(k + 1) = Append(UpToNumber(k), k + 1)
  <1> DEFINE all == [i \in 1..k + 1 |-> i]
             h == UpToNumber(k)
             x == k + 1
  <1>1. h = [i \in 1..k |-> all[i]] /\ x = all[k + 1]
    BY DEF UpToNumber
  <1>2. all = [i \in 1..k + 1 |-> all[i]] /\ all = UpToNumber(k + 1)
    BY DEF UpToNumber
  <1>3. Len(h) = k
    BY DEF UpToNumber
  <1> HIDE DEF all, h
  <1>4. Append(h, x) = [i \in 1..k + 1 |-> all[i]]
    BY <1>1, OneMore
  <1>5. QED
    BY <1>2, <1>3, <1>4 DEF h

\* Each step of the systems is one of the channel, or changes nothing there.
LEMMA StepOfChannel ==
  ASSUME FramingInv, FramingInv', [Next]_vars
  PROVE  [Link!Next]_Link!vars
  <1> DEFINE n == nextMessage - 1
             sent == [i \in 1..(nextMessage - 1) |-> i]
             got == [i \in Arrived |-> delivered[i]]
  <1>1. sent = UpToNumber(n) /\ got = UpToNumber(arrived)
    BY ChannelInNumbers
  <1>2. sent' = UpToNumber(n') /\ got' = UpToNumber(arrived')
    <2>1. (FramingInv => /\ [i \in 1..(nextMessage - 1) |-> i] = UpToNumber(nextMessage - 1)
                         /\ [i \in Arrived |-> delivered[i]] = UpToNumber(arrived))'
      BY ChannelInNumbers, PTL
    <2>2. QED
      BY <2>1 DEF UpToNumber
  <1>3. /\ n \in Nat /\ n' \in Nat /\ arrived \in Nat /\ arrived' \in Nat
        /\ \/ nextMessage \in Messages /\ n' = n + 1 /\ arrived' = arrived /\ isLost' = isLost
           \/ ~isLost /\ n' = n /\ arrived < n /\ arrived' = arrived + 1 /\ isLost' = isLost
           \/ ~isLost /\ n' = n /\ arrived' = arrived /\ isLost'
           \/ n' = n /\ arrived' = arrived /\ isLost' = isLost
    BY StepInNumbers
  <1>4. /\ Link!vars = <<sent, got, isLost>> /\ Link!vars' = <<sent', got', isLost'>>
    BY DEF Link!vars, isLost
  <1>5. CASE nextMessage \in Messages /\ n' = n + 1 /\ arrived' = arrived /\ isLost' = isLost
    <2>1. sent' = Append(sent, nextMessage) /\ got' = got
      <3>1. n + 1 = nextMessage
        BY <1>5 DEF Messages
      <3> HIDE DEF n, sent, got
      <3>2. UpToNumber(n + 1) = Append(UpToNumber(n), n + 1)
        BY <1>3, NextNumber
      <3>3. QED
        BY <1>1, <1>2, <1>5, <3>1, <3>2
    <2>2. PICK m \in Messages : m = nextMessage
      BY <1>5
    <2>3. Link!Send(m)
      BY <1>5, <2>1, <2>2 DEF Link!Send, isLost
    <2>4. QED
      BY <2>3 DEF Link!Next
  <1>6. CASE ~isLost /\ n' = n /\ arrived < n /\ arrived' = arrived + 1 /\ isLost' = isLost
    <2>1. /\ sent' = sent /\ Len(got) < Len(sent)
          /\ got' = Append(got, sent[Len(got) + 1])
      <3> HIDE DEF n, sent, got
      <3>1. /\ Len(got) = arrived /\ Len(sent) = n
            /\ UpToNumber(arrived + 1) = Append(got, arrived + 1)
        BY <1>1, <1>3, NextNumber
      <3>2. sent[arrived + 1] = arrived + 1
        BY <1>1, <1>3, <1>6 DEF UpToNumber
      <3>3. QED
        BY <1>1, <1>2, <1>6, <3>1, <3>2
    <2>2. Link!Deliver
      BY <1>6, <2>1 DEF Link!Deliver, isLost
    <2>3. QED
      BY <2>2 DEF Link!Next
  <1>7. CASE ~isLost /\ n' = n /\ arrived' = arrived /\ isLost'
    <2>1. sent' = sent /\ got' = got
      <3> HIDE DEF n, sent, got
      <3>1. QED
        BY <1>1, <1>2, <1>7
    <2>2. Link!Lose
      BY <1>7, <2>1 DEF Link!Lose, isLost
    <2>3. QED
      BY <2>2 DEF Link!Next
  <1>8. CASE n' = n /\ arrived' = arrived /\ isLost' = isLost
    <2>1. sent' = sent /\ got' = got
      <3> HIDE DEF n, sent, got
      <3>1. QED
        BY <1>1, <1>2, <1>8
    <2>2. QED
      BY <1>4, <1>8, <2>1
  <1>9. QED
    BY <1>3, <1>5, <1>6, <1>7, <1>8

\* Whatever is sent in part, the two message systems and the bytes between them
\* are a channel up to the trusted message: messages come in order, each once and
\* whole.
THEOREM SystemsAreAChannel == Spec => ImplementsChannel
  <1>1. Init => Link!Init
    <2> SUFFICES ASSUME Init
                 PROVE  Link!Init
      OBVIOUS
    <2>1. FramingInv /\ nextMessage = 1 /\ delivered = <<>> /\ receiver = "idle"
      BY InitFraming DEF Init
    <2>2. Len(delivered) = 0 /\ trusted \in Nat
      BY <2>1, FramingAssumption DEF FramingInv, FramingAssumption, TypeOK
    <2>3. Arrived = 1..0 /\ ~(Len(delivered) > trusted)
      BY <2>2 DEF Arrived
    <2>4. QED
      BY <2>1, <2>3 DEF Link!Init
  <1>2. Init => FramingInv
    BY InitFraming
  <1>3. FramingInv /\ [Next]_vars => FramingInv'
    BY NextFraming
  <1>4. FramingInv /\ FramingInv' /\ [Next]_vars => [Link!Next]_Link!vars
    BY StepOfChannel
  <1>5. QED
    BY <1>1, <1>2, <1>3, <1>4, PTL DEF Spec, ImplementsChannel, Link!Spec

-----------------------------------------------------------------------------
\* The values of a byte.
ByteValues == 0..(Base - 1)

\* Division by the values of a byte: what is left, and the byte.
LEMMA Divided ==
  ASSUME NEW n \in Nat
  PROVE  /\ n \div Base \in Nat /\ n % Base \in ByteValues
         /\ n = (n % Base) + Base * (n \div Base)
         /\ n < Base => n \div Base = 0 /\ n % Base = n
  BY SizeofAssumption DEF ByteValues

\* What is left of a number without its bytes, byte by byte.
LEMMA LeftStep ==
  ASSUME NEW n \in Nat
  PROVE  /\ Left(n, 0) = n
         /\ \A k \in Nat : Left(n, k) \in Nat
         /\ \A k \in Nat \ {0} : Left(n, k) = Left(n, k - 1) \div Base
  <1> DEFINE Body(f) == [i \in Nat |-> IF i = 0 THEN n ELSE f[i - 1] \div Base]
             left == CHOOSE f : f = Body(f)
             G == [p \in Nat \X (Nat \ {0}) |-> p[1] \div Base]
  <1>1. \A k : Left(n, k) = left[k]
    BY DEF Left
  <1>2. \A m \in Nat : m \div Base \in Nat
    BY Divided
  <1>3. G \in [Nat \X (Nat \ {0}) -> Nat]
    BY <1>2
  <1>4. PICK f : Follows(f, Nat, n, G)
    BY <1>3, Recursion, Zenon
  <1>5. f = Body(f)
    <2>1. \A k \in Nat \ {0} : f[k] = f[k - 1] \div Base
      <3>1. ASSUME NEW k \in Nat \ {0} PROVE f[k] = f[k - 1] \div Base
        <4>1. k - 1 \in Nat
          OBVIOUS
        <4>2. f[k - 1] \in Nat
          BY <4>1, <1>4 DEF Follows
        <4>3. QED
          BY <1>4, <4>2 DEF Follows
      <3>2. QED
        BY <3>1
    <2>2. QED
      BY <2>1, <1>4 DEF Follows
  <1>6. left = Body(left)
    <2> HIDE DEF Body
    <2>1. QED
      BY <1>5
  <1> HIDE DEF left
  <1>7. left[0] = n /\ \A k \in Nat \ {0} : left[k] = left[k - 1] \div Base
    BY <1>6
  <1>8. \A k \in Nat : left[k] \in Nat
    <2> DEFINE Good == {k \in Nat : left[k] \in Nat}
    <2>1. 0 \in Good
      BY <1>7
    <2>2. \A k \in Nat \ {0} : k - 1 \in Good => k \in Good
      BY <1>7, <1>2
    <2> HIDE DEF Good
    <2>3. \A k \in Nat : 0..k \subseteq Good
      <3>1. ASSUME NEW k \in Nat PROVE 0..k \subseteq Good
        <4>1. \A i \in 1..k : i - 1 \in Good => i \in Good
          BY <2>2
        <4>2. QED
          BY <4>1, <2>1, UpTo
      <3>2. QED
        BY <3>1
    <2>4. QED
      BY <2>3 DEF Good
  <1>9. QED
    BY <1>1, <1>7, <1>8

\* A byte fits every type.
LEMMA BytesFit ==
  ASSUME NEW b \in ByteValues, NEW t \in NumberTypes
  PROVE  Fits(t, b)
  <1>1. b \in Nat /\ b < Base /\ 0 < Base /\ Sizeof[t] \in Nat \ {0}
    BY SizeofAssumption DEF ByteValues
  <1> DEFINE Gone == {k \in Nat : k = 0 \/ Left(b, k) = 0}
  <1>2. \A k \in 1..Sizeof[t] : k - 1 \in Gone => k \in Gone
    <2>1. ASSUME NEW k \in 1..Sizeof[t], k - 1 \in Gone PROVE k \in Gone
      <3>1. k \in Nat \ {0}
        BY <1>1
      <3>2. Left(b, k) = Left(b, k - 1) \div Base
        BY <3>1, <1>1, LeftStep
      <3>3. Left(b, k - 1) = b \/ Left(b, k - 1) = 0
        BY <2>1, <1>1, LeftStep, <3>1
      <3>4. b \div Base = 0 /\ 0 \div Base = 0
        BY <1>1, Divided
      <3>5. QED
        BY <3>1, <3>2, <3>3, <3>4
    <2>2. QED
      BY <2>1
  <1>3. 0 \in Gone
    OBVIOUS
  <1>4. Sizeof[t] \in Gone
    <2> HIDE DEF Gone
    <2>1. 0..Sizeof[t] \subseteq Gone
      BY <1>1, <1>2, <1>3, UpTo
    <2>2. QED
      BY <2>1, <1>1
  <1>5. QED
    BY <1>4, <1>1 DEF Fits

\* The bytes of a number.
LEMMA NumberBytesType ==
  ASSUME NEW n \in Nat, NEW t \in NumberTypes
  PROVE  /\ NumberBytes(t, n) \in Seq(ByteValues) /\ Len(NumberBytes(t, n)) = Sizeof[t]
         /\ \A i \in 1..Sizeof[t] : NumberBytes(t, n)[i] = Left(n, i - 1) % Base
         /\ Sizeof[t] \in Nat \ {0}
  <1>1. Sizeof[t] \in Nat \ {0}
    BY SizeofAssumption
  <1>2. \A i \in 1..Sizeof[t] : Left(n, i - 1) % Base \in ByteValues
    <2>1. \A i \in 1..Sizeof[t] : i - 1 \in Nat
      BY <1>1
    <2>2. QED
      BY <2>1, LeftStep, Divided
  <1>3. NumberBytes(t, n) \in [1..Sizeof[t] -> ByteValues]
    BY <1>2 DEF NumberBytes
  <1>4. \A i \in 1..Sizeof[t] : NumberBytes(t, n)[i] = Left(n, i - 1) % Base
    BY DEF NumberBytes
  <1> HIDE DEF NumberBytes
  <1>5. NumberBytes(t, n) \in Seq(ByteValues) /\ Len(NumberBytes(t, n)) = Sizeof[t]
    BY <1>1, <1>3
  <1>6. QED
    BY <1>1, <1>4, <1>5

-----------------------------------------------------------------------------
\* The bytes b are in data behind the offset.
HoldsAt(data, offset, b) ==
  /\ offset + Len(b) <= Len(data)
  /\ \A j \in 1..Len(b) : data[offset + j] = b[j]

\* A sequence: it has a length and as many elements.
IsSequence(s) == Len(s) \in Nat /\ DOMAIN s = 1..Len(s)

\* What is in the data is read, when it was a number of the type.  Of a number
\* of more bytes, the first ones are a number that is not larger.
LEMMA NumberIsRead ==
  ASSUME NEW t \in NumberTypes, NEW u \in NumberTypes, Sizeof[t] <= Sizeof[u],
         NEW n \in Nat, NEW data \in Seq(ByteValues), NEW offset \in Nat,
         HoldsAt(data, offset, NumberBytes(u, n))
  PROVE  /\ NumberAt(t, data, offset) \in 0..n
         /\ Fits(t, n) => NumberAt(t, data, offset) = n
  <1> DEFINE w == Sizeof[t]
  <1>1. w \in Nat \ {0} /\ Sizeof[u] \in Nat /\ w <= Sizeof[u] /\ Len(data) \in Nat
    BY SizeofAssumption
  <1>2. Base \in Nat /\ Base > 1
    BY SizeofAssumption
  <1>3. /\ offset + w <= Len(data)
        /\ \A i \in 0..w - 1 : data[offset + i + 1] = Left(n, i) % Base
    <2>1. Len(NumberBytes(u, n)) = Sizeof[u]
          /\ \A i \in 1..Sizeof[u] : NumberBytes(u, n)[i] = Left(n, i - 1) % Base
      BY NumberBytesType
    <2>2. offset + Sizeof[u] <= Len(data)
          /\ \A j \in 1..Sizeof[u] : data[offset + j] = NumberBytes(u, n)[j]
      BY <2>1 DEF HoldsAt
    <2>3. \A i \in 0..w - 1 : i + 1 \in 1..Sizeof[u] /\ (i + 1) - 1 = i
                              /\ offset + (i + 1) = offset + i + 1
      BY <1>1
    <2>4. QED
      BY <2>1, <2>2, <2>3, <1>1
  <1>4. \A i \in 0..w : Left(n, i) \in Nat
    <2>1. \A i \in 0..w : i \in Nat
      BY <1>1
    <2>2. QED
      BY <2>1, LeftStep
  <1>5. \A i \in 0..w - 1 :
          /\ i + 1 \in 0..w /\ i \in 0..w /\ i # w
          /\ Left(n, i) = (Left(n, i) % Base) + Base * Left(n, i + 1)
          /\ Left(n, i) % Base \in ByteValues
    <2>1. ASSUME NEW i \in 0..w - 1
          PROVE  /\ i + 1 \in 0..w /\ i \in 0..w /\ i # w
                 /\ Left(n, i) = (Left(n, i) % Base) + Base * Left(n, i + 1)
                 /\ Left(n, i) % Base \in ByteValues
      <3>1. i + 1 \in Nat \ {0} /\ (i + 1) - 1 = i /\ i \in Nat /\ i + 1 \in 0..w /\ i \in 0..w
            /\ i # w
        BY <1>1
      <3>2. Left(n, i + 1) = Left(n, i) \div Base
        BY <3>1, LeftStep
      <3>3. QED
        BY <3>1, <3>2, <1>4, Divided
    <2>2. QED
      BY <2>1
  <1> DEFINE Body(f) == [i \in 0..w |-> IF i = w THEN 0
                                        ELSE data[offset + i + 1] + Base * f[i + 1]]
             value == CHOOSE f : f = Body(f)
  <1>6. NumberAt(t, data, offset) = value[0]
    BY <1>1, <1>3 DEF NumberAt
  <1>7. \E f : f = Body(f)
    <2> DEFINE G == [p \in Nat \X (Nat \ {0}) |->
                       IF p[2] <= w THEN data[offset + (w - p[2]) + 1] + Base * p[1] ELSE 0]
    <2>1. G \in [Nat \X (Nat \ {0}) -> Nat]
      <3>1. ASSUME NEW a \in Nat, NEW k \in Nat \ {0}, k <= w
            PROVE  data[offset + (w - k) + 1] + Base * a \in Nat
        <4>1. w - k \in 0..w - 1
          BY <3>1, <1>1
        <4>2. data[offset + (w - k) + 1] \in Nat
          BY <4>1, <1>3, <1>5 DEF ByteValues
        <4>3. Base * a \in Nat
          BY <1>2
        <4>4. QED
          BY <4>2, <4>3
      <3>2. QED
        BY <3>1
    <2>2. PICK g : Follows(g, Nat, 0, G)
      <3>1. 0 \in Nat
        OBVIOUS
      <3>2. QED
        BY <2>1, <3>1, Recursion, Zenon
    <2> DEFINE f == [i \in 0..w |-> g[w - i]]
    <2>3. ASSUME NEW i \in 0..w PROVE f[i] = Body(f)[i]
      <3>1. CASE i = w
        <4>1. g[0] = 0
          <5> HIDE DEF G
          <5>1. QED
            BY <2>2 DEF Follows
        <4>2. w - i = 0
          BY <3>1, <1>1
        <4> HIDE DEF w
        <4>3. QED
          BY <3>1, <4>1, <4>2
      <3>2. CASE i # w
        <4> HIDE DEF w, f
        <4>1. w - i \in Nat \ {0} /\ (w - i) - 1 = w - (i + 1) /\ i + 1 \in 0..w
              /\ w - i <= w /\ w - (w - i) = i /\ w - (i + 1) \in Nat
          BY <3>2, <1>1
        <4>2. g[w - i] = G[<<g[w - (i + 1)], w - i>>] /\ g[w - (i + 1)] \in Nat
          <5> HIDE DEF G
          <5>1. QED
            BY <4>1, <2>2 DEF Follows
        <4>3. g[w - i] = data[offset + i + 1] + Base * g[w - (i + 1)]
          BY <4>1, <4>2
        <4>4. QED
          BY <4>1, <4>3, <3>2 DEF f
      <3>3. QED
        BY <3>1, <3>2
    <2>4. f = Body(f)
      BY <2>3
    <2> HIDE DEF f, Body
    <2>5. QED
      BY <2>4
  <1>8. value = Body(value)
    <2> HIDE DEF Body
    <2>1. QED
      BY <1>7
  <1> HIDE DEF value
  <1>9. /\ value[w] = 0
        /\ \A i \in 0..w - 1 : value[i] = (Left(n, i) % Base) + Base * value[i + 1]
    BY <1>8, <1>3, <1>5, <1>1
  <1> HIDE DEF Body
  <1> DEFINE Good == {k \in 0..w : /\ value[w - k] \in 0..Left(n, w - k)
                                   /\ Fits(t, n) => value[w - k] = Left(n, w - k)}
  <1>10. 0 \in Good
    BY <1>1, <1>4, <1>9 DEF Fits
  <1>11. ASSUME NEW k \in 1..w, k - 1 \in Good PROVE k \in Good
    <2> DEFINE i == w - k
               a == Left(n, i) % Base
               b == Left(n, i + 1)
    <2>1. i \in 0..w - 1 /\ w - (k - 1) = i + 1
      BY <1>1
    <2>2. /\ value[i + 1] \in 0..b
          /\ Fits(t, n) => value[i + 1] = b
      BY <1>11, <2>1
    <2>3. value[i] = a + Base * value[i + 1] /\ Left(n, i) = a + Base * b
      BY <2>1, <1>9, <1>5
    <2>4. a \in Nat /\ b \in Nat /\ Left(n, i) \in Nat
      BY <2>1, <1>5, <1>4 DEF ByteValues
    <2>5. Base * value[i + 1] \in Nat /\ Base * b \in Nat /\ Base * value[i + 1] <= Base * b
      <3>1. value[i + 1] \in Nat /\ value[i + 1] <= b /\ b \in Nat
        BY <2>2, <2>4
      <3> DEFINE x == value[i + 1]
      <3> HIDE DEF b, i, x
      <3>2. x \in Nat /\ x <= b /\ b \in Nat
        BY <3>1 DEF x
      <3>3. b - x \in Nat
        BY <3>2
      <3>4. Base * x \in Nat /\ Base * b \in Nat /\ Base * (b - x) \in Nat
        BY <3>2, <3>3, <1>2
      <3>5. Base * b = Base * x + Base * (b - x)
        BY <3>2, <1>2
      <3>6. QED
        BY <3>4, <3>5 DEF x
    <2> HIDE DEF a, b
    <2>6. value[i] \in 0..Left(n, i)
      BY <2>3, <2>4, <2>5
    <2>7. Fits(t, n) => value[i] = Left(n, i)
      BY <2>2, <2>3
    <2>8. QED
      BY <2>6, <2>7
  <1>12. w \in Good
    <2> HIDE DEF Good
    <2>1. 0..w \subseteq Good
      BY <1>1, <1>10, <1>11, UpTo
    <2>2. QED
      BY <2>1, <1>1
  <1>13. value[0] \in 0..n /\ (Fits(t, n) => value[0] = n)
    <2>1. Left(n, 0) = n
      BY LeftStep
    <2>2. w - w = 0
      BY <1>1
    <2> HIDE DEF w
    <2>3. QED
      BY <1>12, <2>1, <2>2
  <1>14. QED
    BY <1>6, <1>13

-----------------------------------------------------------------------------
\* What a part of the data holds, the data holds.
LEMMA HoldsInLonger ==
  ASSUME NEW S, NEW a \in Seq(S), NEW b \in Seq(S), NEW c \in Seq(S), NEW offset \in Nat
  PROVE  /\ HoldsAt(a, offset, b) => HoldsAt(a \o c, offset, b)
         /\ HoldsAt(c, offset, b) => HoldsAt(a \o c, Len(a) + offset, b)
         /\ HoldsAt(a \o b, Len(a), b)
         /\ HoldsAt(a, 0, a)
  <1>1. /\ a \o c \in Seq(S) /\ Len(a \o c) = Len(a) + Len(c)
        /\ \A i \in 1..Len(a) : (a \o c)[i] = a[i]
        /\ \A i \in 1..Len(c) : (a \o c)[Len(a) + i] = c[i]
        /\ Len(a) \in Nat /\ Len(b) \in Nat /\ Len(c) \in Nat
    OBVIOUS
  <1>2. /\ Len(a \o b) = Len(a) + Len(b)
        /\ \A i \in 1..Len(b) : (a \o b)[Len(a) + i] = b[i]
    OBVIOUS
  <1>3. ASSUME HoldsAt(a, offset, b) PROVE HoldsAt(a \o c, offset, b)
    <2>1. \A j \in 1..Len(b) : offset + j \in 1..Len(a)
      BY <1>1, <1>3 DEF HoldsAt
    <2>2. QED
      BY <1>1, <1>3, <2>1 DEF HoldsAt
  <1>4. ASSUME HoldsAt(c, offset, b) PROVE HoldsAt(a \o c, Len(a) + offset, b)
    <2>1. \A j \in 1..Len(b) : offset + j \in 1..Len(c)
                               /\ Len(a) + offset + j = Len(a) + (offset + j)
      BY <1>1, <1>4 DEF HoldsAt
    <2>2. QED
      BY <1>1, <1>4, <2>1 DEF HoldsAt
  <1>5. HoldsAt(a \o b, Len(a), b)
    BY <1>1, <1>2 DEF HoldsAt
  <1>6. HoldsAt(a, 0, a)
    BY <1>1 DEF HoldsAt
  <1>7. QED
    BY <1>3, <1>4, <1>5, <1>6

\* What holds within bytes that are in the data, the data hold.
LEMMA HoldsWithin ==
  ASSUME NEW S, NEW data \in Seq(S), NEW b \in Seq(S), NEW c \in Seq(S),
         NEW p \in Nat, NEW q \in Nat, HoldsAt(data, p, b), HoldsAt(b, q, c)
  PROVE  HoldsAt(data, p + q, c) /\ p + Len(b) <= Len(data) /\ q + Len(c) <= Len(b)
  <1>1. Len(data) \in Nat /\ Len(b) \in Nat /\ Len(c) \in Nat
    OBVIOUS
  <1>2. \A j \in 1..Len(c) : q + j \in 1..Len(b) /\ p + q + j = p + (q + j)
    BY <1>1 DEF HoldsAt
  <1>3. QED
    BY <1>1, <1>2 DEF HoldsAt

-----------------------------------------------------------------------------
\* Where each of some sequences begins when they are in a row.
Places(at, ss) ==
  /\ at \in [0..Len(ss) -> Nat] /\ at[0] = 0
  /\ \A k \in 1..Len(ss) : at[k] = at[k - 1] + Len(ss[k])

\* Each part is in its place.
InPlaces(data, ss, at) ==
  Len(data) = at[Len(ss)] /\ \A k \in 1..Len(ss) : HoldsAt(data, at[k - 1], ss[k])

\* Given parts have their places in one way only.
LEMMA OnePlace ==
  ASSUME NEW ss, Len(ss) \in Nat, NEW f, NEW g, Places(f, ss), Places(g, ss)
  PROVE  f = g
  <1> DEFINE Same == {k \in 0..Len(ss) : f[k] = g[k]}
  <1>1. 0 \in Same
    BY DEF Places
  <1>2. \A k \in 1..Len(ss) : k - 1 \in Same => k \in Same
    BY DEF Places
  <1>3. 0..Len(ss) \subseteq Same
    <2> HIDE DEF Same
    <2>1. QED
      BY <1>1, <1>2, UpTo
  <1>4. QED
    BY <1>3 DEF Places

\* FlattenSeq has each sequence at its place.
LEMMA Flattened ==
  ASSUME NEW S, NEW ss \in Seq(Seq(S))
  PROVE  /\ FlattenSeq(ss) \in Seq(S)
         /\ \E at : Places(at, ss) /\ InPlaces(FlattenSeq(ss), ss, at)
  <1> DEFINE n == Len(ss)
             G == [p \in Seq(S) \X (Nat \ {0}) |->
                     IF p[2] <= n THEN p[1] \o ss[p[2]] ELSE p[1]]
  <1>1. n \in Nat /\ \A k \in 1..n : ss[k] \in Seq(S)
    OBVIOUS
  <1>2. G \in [Seq(S) \X (Nat \ {0}) -> Seq(S)]
    <2>1. ASSUME NEW a \in Seq(S), NEW k \in Nat \ {0}, k <= n PROVE a \o ss[k] \in Seq(S)
      <3>1. ss[k] \in Seq(S)
        BY <2>1, <1>1
      <3> HIDE DEF n
      <3>2. QED
        BY <3>1
    <2>2. QED
      BY <2>1
  <1>3. PICK cat : Follows(cat, Seq(S), <<>>, G)
    <2>1. <<>> \in Seq(S)
      OBVIOUS
    <2>2. QED
      BY <1>2, <2>1, Recursion, Zenon
  <1>4. /\ cat[0] = <<>> /\ \A k \in Nat : cat[k] \in Seq(S)
        /\ \A k \in 1..n : cat[k] = cat[k - 1] \o ss[k]
    <2>1. \A k \in Nat : cat[k] \in Seq(S)
      BY <1>3 DEF Follows
    <2>2. ASSUME NEW k \in 1..n PROVE cat[k] = cat[k - 1] \o ss[k]
      <3>1. k \in Nat \ {0} /\ k - 1 \in Nat /\ k <= n
        BY <1>1
      <3>2. cat[k] = G[<<cat[k - 1], k>>] /\ cat[k - 1] \in Seq(S)
        <4> HIDE DEF G
        <4>1. QED
          BY <3>1, <1>3 DEF Follows
      <3>3. QED
        BY <3>1, <3>2
    <2>3. cat[0] = <<>>
      BY <1>3 DEF Follows
    <2>4. QED
      BY <2>1, <2>2, <2>3
  <1> DEFINE at == [k \in 0..n |-> Len(cat[k])]
  <1>5. Places(at, ss)
    <2>1. \A k \in 0..n : k \in Nat /\ Len(cat[k]) \in Nat
      BY <1>1, <1>4
    <2>2. ASSUME NEW k \in 1..n PROVE Len(cat[k]) = Len(cat[k - 1]) + Len(ss[k])
      <3>1. k - 1 \in Nat /\ k \in Nat
        BY <1>1
      <3>2. cat[k] = cat[k - 1] \o ss[k] /\ cat[k - 1] \in Seq(S) /\ ss[k] \in Seq(S)
        BY <3>1, <1>1, <1>4
      <3> HIDE DEF n, G
      <3>3. QED
        BY <3>2
    <2>3. \A k \in 1..n : k - 1 \in 0..n /\ k \in 0..n
      BY <1>1
    <2>4. at[0] = 0
      BY <1>4, <1>1
    <2>5. \A k \in 1..n : at[k] = at[k - 1] + Len(ss[k])
      BY <2>2, <2>3
    <2>6. at \in [0..n -> Nat]
      BY <2>1
    <2> HIDE DEF at
    <2>7. QED
      BY <2>4, <2>5, <2>6 DEF Places
  <1> DEFINE Row == {m \in 0..n : \A k \in 1..m : HoldsAt(cat[m], at[k - 1], ss[k])}
  <1>6. n \in Row
    <2>1. 0 \in Row
      BY <1>1
    <2>2. ASSUME NEW m \in 1..n, m - 1 \in Row PROVE m \in Row
      <3>1. m \in Nat /\ m - 1 \in Nat /\ cat[m] = cat[m - 1] \o ss[m] /\ m \in 0..n
            /\ cat[m - 1] \in Seq(S) /\ ss[m] \in Seq(S) /\ at[m - 1] = Len(cat[m - 1])
        <4>1. m \in Nat /\ m - 1 \in Nat /\ m \in 0..n /\ m - 1 \in 0..n
          BY <1>1
        <4>2. at[m - 1] = Len(cat[m - 1])
          BY <4>1
        <4> HIDE DEF n, at, G, Row
        <4>3. QED
          BY <4>1, <4>2, <1>1, <1>4
      <3>2. ASSUME NEW k \in 1..m PROVE HoldsAt(cat[m], at[k - 1], ss[k])
        <4>1. CASE k = m
          <5> HIDE DEF n, at
          <5>1. QED
            BY <4>1, <3>1, HoldsInLonger
        <4>2. CASE k # m
          <5>1. k \in 1..m - 1 /\ k - 1 \in 0..n /\ k \in 1..n
            BY <4>2, <1>1
          <5>2. at[k - 1] \in Nat /\ ss[k] \in Seq(S)
            BY <5>1, <1>5, <1>1 DEF Places
          <5>3. HoldsAt(cat[m - 1], at[k - 1], ss[k])
            BY <2>2, <5>1
          <5> HIDE DEF n, at
          <5>4. QED
            BY <3>1, <5>2, <5>3, HoldsInLonger
        <4>3. QED
          BY <4>1, <4>2
      <3> HIDE DEF n, at
      <3>3. QED
        BY <3>1, <3>2
    <2>3. 0..n \subseteq Row
      <3> HIDE DEF Row, n
      <3>1. QED
        BY <1>1, <2>1, <2>2, UpTo
    <2>4. n \in 0..n
      BY <1>1
    <2>5. QED
      BY <2>3, <2>4
  <1>7. FlattenSeq(ss) = cat[n]
    <2>1. CASE n = 0
      <3>1. ss = <<>>
        BY <2>1
      <3>2. QED
        BY <2>1, <3>1, <1>4 DEF FlattenSeq
    <2>2. CASE n # 0
      <3> DEFINE Body(f) == [i \in 1..n |-> IF i = 1 THEN ss[i] ELSE f[i - 1] \o ss[i]]
                 flatten == CHOOSE f : f = Body(f)
                 mine == [i \in 1..n |-> cat[i]]
      <3>1. FlattenSeq(ss) = flatten[n]
        BY <2>2 DEF FlattenSeq
      <3>2. ASSUME NEW i \in 1..n PROVE cat[i] = IF i = 1 THEN ss[i] ELSE mine[i - 1] \o ss[i]
        <4>1. i \in Nat /\ cat[i] = cat[i - 1] \o ss[i] /\ ss[i] \in Seq(S)
          <5>1. i \in Nat
            BY <1>1
          <5> HIDE DEF n, at, G, Row, Body, flatten, mine
          <5>2. QED
            BY <5>1, <1>1, <1>4
        <4>2. CASE i = 1
          <5>1. cat[i] = <<>> \o ss[i]
            <6>1. i - 1 = 0
              BY <4>2
            <6> HIDE DEF n, at, G, Row, Body, flatten, mine
            <6>2. QED
              BY <6>1, <4>1, <1>4
          <5> HIDE DEF n, G, Body, mine
          <5>2. <<>> \o ss[i] = ss[i]
            BY <4>1
          <5>3. QED
            BY <4>2, <5>1, <5>2
        <4>3. CASE i # 1
          <5>1. i - 1 \in 1..n
            BY <4>3, <1>1
          <5>2. mine[i - 1] = cat[i - 1]
            BY <5>1
          <5>3. QED
            BY <4>3, <4>1, <5>2
        <4>4. QED
          BY <4>2, <4>3
      <3>3. mine = Body(mine)
        BY <3>2
      <3>4. flatten = Body(flatten)
        <4> HIDE DEF Body, mine
        <4>1. QED
          BY <3>3
      <3> HIDE DEF flatten
      <3>5. \A i \in 1..n : flatten[i] = IF i = 1 THEN ss[i] ELSE flatten[i - 1] \o ss[i]
        BY <3>4
      <3> DEFINE Same == {i \in 0..n : i = 0 \/ flatten[i] = cat[i]}
      <3>6. 0 \in Same
        BY <1>1
      <3>7. ASSUME NEW i \in 1..n, i - 1 \in Same PROVE i \in Same
        <4>1. i \in 0..n /\ cat[i] = IF i = 1 THEN ss[i] ELSE mine[i - 1] \o ss[i]
          <5>1. i \in 0..n
            BY <1>1
          <5> HIDE DEF n, at, G, Row, Body, flatten, mine
          <5>2. QED
            BY <5>1, <3>2
        <4>2. CASE i = 1
          BY <4>1, <4>2, <3>5
        <4>3. CASE i # 1
          <5>1. i - 1 \in 1..n /\ i - 1 # 0
            BY <4>3, <1>1
          <5>2. mine[i - 1] = cat[i - 1] /\ flatten[i - 1] = cat[i - 1]
            BY <5>1, <3>7
          <5>3. flatten[i] = flatten[i - 1] \o ss[i]
            BY <4>3, <3>5
          <5>4. cat[i] = mine[i - 1] \o ss[i]
            BY <4>1, <4>3
          <5>5. QED
            BY <4>1, <5>2, <5>3, <5>4
        <4>4. QED
          BY <4>2, <4>3
      <3>8. 0..n \subseteq Same
        <4> HIDE DEF Same, n
        <4>1. QED
          BY <1>1, <3>6, <3>7, UpTo
      <3>9. flatten[n] = cat[n]
        BY <3>8, <2>2, <1>1
      <3>10. QED
        BY <3>1, <3>9
    <2>3. QED
      BY <2>1, <2>2
  <1>8. InPlaces(FlattenSeq(ss), ss, at)
    BY <1>6, <1>7, <1>1 DEF InPlaces
  <1>9. FlattenSeq(ss) \in Seq(S)
    BY <1>7, <1>4, <1>1
  <1> HIDE DEF at
  <1>10. QED
    BY <1>5, <1>8, <1>9

-----------------------------------------------------------------------------
\* Where the members of an element begin.
LEMMA WidthStep ==
  ASSUME NEW members \in Seq(NumberTypes)
  PROVE  /\ Width(members, 0) = 0
         /\ \A k \in 0..Len(members) : Width(members, k) \in Nat
         /\ \A k \in 1..Len(members) :
              Width(members, k) = Width(members, k - 1) + Sizeof[members[k]]
  <1> DEFINE n == Len(members)
             Body(f) == [i \in 0..n |-> IF i = 0 THEN 0 ELSE f[i - 1] + Sizeof[members[i]]]
             width == CHOOSE f : f = Body(f)
             G == [p \in Nat \X (Nat \ {0}) |->
                     IF p[2] <= n THEN p[1] + Sizeof[members[p[2]]] ELSE p[1]]
  <1>1. n \in Nat /\ \A k \in 1..n : Sizeof[members[k]] \in Nat
    BY SizeofAssumption
  <1>2. \A k : Width(members, k) = width[k]
    BY DEF Width
  <1>3. G \in [Nat \X (Nat \ {0}) -> Nat]
    BY <1>1
  <1>4. PICK f : Follows(f, Nat, 0, G)
    <2>1. 0 \in Nat
      OBVIOUS
    <2>2. QED
      BY <2>1, <1>3, Recursion, Zenon
  <1> DEFINE mine == [i \in 0..n |-> f[i]]
  <1>5. mine = Body(mine)
    <2>1. ASSUME NEW i \in 0..n PROVE f[i] = IF i = 0 THEN 0 ELSE mine[i - 1] + Sizeof[members[i]]
      <3>1. CASE i = 0
        BY <3>1, <1>4 DEF Follows
      <3>2. CASE i # 0
        <4>1. i \in Nat \ {0} /\ i - 1 \in 0..n /\ i - 1 \in Nat /\ i <= n
          BY <3>2, <1>1
        <4>2. f[i] = G[<<f[i - 1], i>>] /\ f[i - 1] \in Nat
          <5> HIDE DEF G
          <5>1. QED
            BY <4>1, <1>4 DEF Follows
        <4>3. mine[i - 1] = f[i - 1]
          BY <4>1
        <4>4. QED
          BY <4>1, <4>2, <4>3, <3>2
      <3>3. QED
        BY <3>1, <3>2
    <2>2. QED
      BY <2>1
  <1>6. width = Body(width)
    <2> HIDE DEF Body, mine
    <2>1. QED
      BY <1>5
  <1> HIDE DEF width
  <1>7. width[0] = 0 /\ \A k \in 1..n : width[k] = width[k - 1] + Sizeof[members[k]]
    BY <1>6, <1>1
  <1> DEFINE Good == {k \in 0..n : width[k] \in Nat}
  <1>8. 0..n \subseteq Good
    <2>1. 0 \in Good
      BY <1>7, <1>1
    <2>2. \A k \in 1..n : k - 1 \in Good => k \in Good
      BY <1>7, <1>1
    <2> HIDE DEF Good, n
    <2>3. QED
      BY <1>1, <2>1, <2>2, UpTo
  <1>9. QED
    BY <1>2, <1>7, <1>8

\* An element of a structure has values in the types of its members, one after
\* the other.
LEMMA ElementBytesType ==
  ASSUME NEW members \in Seq(NumberTypes), NEW e, IsElement(members, e)
  PROVE  /\ ElementBytes(members, e) \in Seq(ByteValues)
         /\ ElementSize(members) \in Nat
         /\ Len(ElementBytes(members, e)) = ElementSize(members)
         /\ \A i \in 1..Len(members) :
              HoldsAt(ElementBytes(members, e), Width(members, i - 1),
                      NumberBytes(members[i], e[i]))
  <1> DEFINE n == Len(members)
             ss == [i \in DOMAIN members |-> NumberBytes(members[i], e[i])]
             wide == [k \in 0..n |-> Width(members, k)]
  <1>1. n \in Nat /\ DOMAIN members = 1..n
        /\ \A i \in 1..n : members[i] \in NumberTypes /\ e[i] \in Nat
    BY DEF IsElement
  <1>2. ss \in Seq(Seq(ByteValues)) /\ Len(ss) = n
    <2>1. ASSUME NEW i \in 1..n PROVE NumberBytes(members[i], e[i]) \in Seq(ByteValues)
      BY <1>1, NumberBytesType
    <2>2. ss \in [1..n -> Seq(ByteValues)]
      BY <2>1, <1>1
    <2> HIDE DEF ss, n
    <2>3. QED
      BY <2>2, <1>1
  <1>3. \A i \in 1..n : ss[i] = NumberBytes(members[i], e[i]) /\ Len(ss[i]) = Sizeof[members[i]]
    BY <1>1, NumberBytesType
  <1>4. Places(wide, ss)
    <2>1. \A k \in 1..n : k - 1 \in 0..n /\ k \in 0..n
      BY <1>1
    <2>2. wide[0] = 0
      BY <1>1, WidthStep
    <2>3. wide \in [0..n -> Nat]
      BY WidthStep
    <2>4. \A k \in 1..n : wide[k] = wide[k - 1] + Len(ss[k])
      BY <2>1, <1>3, WidthStep
    <2> HIDE DEF wide, ss
    <2>5. QED
      BY <2>2, <2>3, <2>4, <1>2 DEF Places
  <1>5. PICK at : Places(at, ss) /\ InPlaces(FlattenSeq(ss), ss, at)
    <2> HIDE DEF ss
    <2>1. QED
      BY <1>2, Flattened
  <1>6. at = wide
    <2> HIDE DEF ss, wide
    <2>1. Len(ss) \in Nat
      BY <1>2, <1>1
    <2>2. QED
      BY <1>4, <1>5, <2>1, OnePlace
  <1>7. FlattenSeq(ss) \in Seq(ByteValues)
    <2> HIDE DEF ss
    <2>1. QED
      BY <1>2, Flattened
  <1>8. FlattenSeq(ss) = ElementBytes(members, e)
    BY DEF ElementBytes
  <1>9. /\ Len(FlattenSeq(ss)) = wide[n]
        /\ \A i \in 1..n : HoldsAt(FlattenSeq(ss), wide[i - 1], ss[i])
    <2> HIDE DEF ss, wide
    <2>1. QED
      BY <1>5, <1>6, <1>2 DEF InPlaces
  <1>10. wide[n] = ElementSize(members) /\ \A i \in 1..n : wide[i - 1] = Width(members, i - 1)
    BY <1>1 DEF ElementSize
  <1>11. ElementSize(members) \in Nat
    BY <1>1, WidthStep DEF ElementSize
  <1> HIDE DEF ss, wide
  <1>12. QED
    BY <1>3, <1>7, <1>8, <1>9, <1>10, <1>11

\* An element is read as it was written.
LEMMA ElementIsRead ==
  ASSUME NEW members \in Seq(NumberTypes), NEW e, IsElement(members, e),
         NEW data \in Seq(ByteValues), NEW offset \in Nat,
         HoldsAt(data, offset, ElementBytes(members, e))
  PROVE  ElementAt(members, data, offset) = e
  <1> DEFINE n == Len(members)
  <1>1. n \in Nat /\ DOMAIN members = 1..n /\ e \in [1..n -> Nat]
        /\ \A i \in 1..n : members[i] \in NumberTypes /\ e[i] \in Nat /\ Fits(members[i], e[i])
    BY DEF IsElement
  <1>2. ASSUME NEW i \in 1..n
        PROVE  NumberAt(members[i], data, offset + Width(members, i - 1)) = e[i]
    <2>1. i - 1 \in 0..n
      BY <1>1
    <2>2. Width(members, i - 1) \in Nat
      BY <2>1, WidthStep
    <2>3. HoldsAt(ElementBytes(members, e), Width(members, i - 1), NumberBytes(members[i], e[i]))
      BY ElementBytesType
    <2>4. ElementBytes(members, e) \in Seq(ByteValues)
          /\ NumberBytes(members[i], e[i]) \in Seq(ByteValues)
      BY <1>1, ElementBytesType, NumberBytesType
    <2>5. HoldsAt(data, offset + Width(members, i - 1), NumberBytes(members[i], e[i]))
      BY <2>2, <2>3, <2>4, HoldsWithin
    <2>6. Sizeof[members[i]] <= Sizeof[members[i]] /\ offset + Width(members, i - 1) \in Nat
      BY <1>1, <2>2, SizeofAssumption
    <2> DEFINE place == offset + Width(members, i - 1)
               t == members[i]
               number == e[i]
    <2>7. /\ t \in NumberTypes /\ number \in Nat /\ Fits(t, number) /\ place \in Nat
          /\ Sizeof[t] <= Sizeof[t] /\ HoldsAt(data, place, NumberBytes(t, number))
      BY <1>1, <2>5, <2>6
    <2> HIDE DEF place, t, number
    <2>8. NumberAt(t, data, place) = number
      BY <2>7, NumberIsRead
    <2>9. QED
      BY <2>8 DEF place, t, number
  <1>3. ElementAt(members, data, offset) = [i \in 1..n |-> e[i]]
    BY <1>1, <1>2 DEF ElementAt
  <1>4. QED
    BY <1>1, <1>3

\* The elements of a vector and the characters of a string.
LEMMA ElementsBytesType ==
  ASSUME NEW members \in Seq(NumberTypes), NEW v, IsSequence(v),
         \A i \in 1..Len(v) : IsElement(members, v[i])
  PROVE  LET b == FlattenSeq([i \in DOMAIN v |-> ElementBytes(members, v[i])])
         IN /\ b \in Seq(ByteValues)
            /\ Len(b) = Len(v) * ElementSize(members)
            /\ \A i \in 1..Len(v) :
                 HoldsAt(b, (i - 1) * ElementSize(members), ElementBytes(members, v[i]))
  <1> DEFINE n == Len(v)
             width == ElementSize(members)
             ss == [i \in DOMAIN v |-> ElementBytes(members, v[i])]
             even == [k \in 0..n |-> k * width]
  <1>1. n \in Nat /\ DOMAIN v = 1..n
    BY DEF IsSequence
  <1>2. width \in Nat
    <2>1. CASE n = 0
      <3>1. Len(members) \in 0..Len(members)
        OBVIOUS
      <3>2. QED
        BY <3>1, WidthStep DEF ElementSize
    <2>2. CASE n # 0
      BY <2>2, <1>1, ElementBytesType
    <2>3. QED
      BY <2>1, <2>2
  <1>3. \A i \in 1..n : /\ ElementBytes(members, v[i]) \in Seq(ByteValues)
                        /\ Len(ElementBytes(members, v[i])) = width
    BY ElementBytesType
  <1>4. ss \in Seq(Seq(ByteValues)) /\ Len(ss) = n
    <2>1. ss \in [1..n -> Seq(ByteValues)]
      BY <1>1, <1>3
    <2> HIDE DEF ss, n
    <2>2. QED
      BY <2>1, <1>1
  <1>5. \A i \in 1..n : ss[i] = ElementBytes(members, v[i]) /\ Len(ss[i]) = width
    BY <1>1, <1>3
  <1> HIDE DEF width
  <1>6. Places(even, ss)
    <2>1. \A k \in 1..n : k - 1 \in 0..n /\ k \in 0..n
      BY <1>1
    <2>2. even[0] = 0
      BY <1>1, <1>2
    <2>3. even \in [0..n -> Nat]
      <3>1. \A k \in 0..n : k * width \in Nat
        BY <1>1, <1>2
      <3>2. QED
        BY <3>1
    <2>4. \A k \in 1..n : even[k] = even[k - 1] + Len(ss[k])
      <3>1. \A k \in 1..n : k * width = (k - 1) * width + width
        <4> HIDE DEF n
        <4>1. QED
          BY <1>1, <1>2
      <3> HIDE DEF ss
      <3>2. QED
        BY <2>1, <3>1, <1>5
    <2> HIDE DEF even, ss
    <2>5. QED
      BY <2>2, <2>3, <2>4, <1>4 DEF Places
  <1>7. PICK at : Places(at, ss) /\ InPlaces(FlattenSeq(ss), ss, at)
    <2> HIDE DEF ss
    <2>1. QED
      BY <1>4, Flattened
  <1>8. at = even
    <2> HIDE DEF ss, even
    <2>1. Len(ss) \in Nat
      BY <1>4, <1>1
    <2>2. QED
      BY <1>6, <1>7, <2>1, OnePlace
  <1>9. FlattenSeq(ss) \in Seq(ByteValues)
    <2> HIDE DEF ss
    <2>1. QED
      BY <1>4, Flattened
  <1>10. /\ Len(FlattenSeq(ss)) = even[n]
         /\ \A i \in 1..n : HoldsAt(FlattenSeq(ss), even[i - 1], ss[i])
    <2> HIDE DEF ss, even
    <2>1. QED
      BY <1>7, <1>8, <1>4 DEF InPlaces
  <1>11. even[n] = n * width /\ \A i \in 1..n : even[i - 1] = (i - 1) * width
    BY <1>1
  <1>12. /\ FlattenSeq(ss) \in Seq(ByteValues)
         /\ Len(FlattenSeq(ss)) = n * width
         /\ \A i \in 1..n : HoldsAt(FlattenSeq(ss), (i - 1) * width, ElementBytes(members, v[i]))
    <2> HIDE DEF ss, even
    <2>1. QED
      BY <1>5, <1>9, <1>10, <1>11
  <1>13. QED
    BY <1>12 DEF width

-----------------------------------------------------------------------------
\* The types of fields.
IsField(f) == f \in [kind : {"element", "vector", "string"}, members : Seq(NumberTypes)]

\* The bytes of a field: of a vector or string, they are the number of elements
\* and the elements.
LEMMA FieldBytesType ==
  ASSUME NEW field, IsField(field), NEW v, IsValue(field, v)
  PROVE  /\ FieldBytes(field, v) \in Seq(ByteValues)
         /\ Len(FieldBytes(field, v)) \in Nat
         /\ field.kind = "element" => FieldBytes(field, v) = ElementBytes(field.members, v)
         /\ field.kind # "element" =>
              /\ Len(v) \in Nat /\ DOMAIN v = 1..Len(v) /\ Fits("size_t", Len(v))
              /\ \A i \in 1..Len(v) : IsElement(field.members, v[i])
              /\ ElementSize(field.members) \in Nat
              /\ LET b     == FieldBytes(field, v)
                     first == Sizeof["size_t"]
                     width == ElementSize(field.members)
                 IN /\ HoldsAt(b, 0, NumberBytes("size_t", Len(v)))
                    /\ Len(b) = first + Len(v) * width
                    /\ \A i \in 1..Len(v) :
                         HoldsAt(b, first + (i - 1) * width, ElementBytes(field.members, v[i]))
  <1>1. field.members \in Seq(NumberTypes) /\ field.kind \in {"element", "vector", "string"}
    BY DEF IsField
  <1>2. CASE field.kind = "element"
    <2>1. IsElement(field.members, v)
      BY <1>2 DEF IsValue
    <2>2. ElementBytes(field.members, v) \in Seq(ByteValues)
      BY <1>1, <2>1, ElementBytesType
    <2>3. FieldBytes(field, v) = ElementBytes(field.members, v)
      BY <1>2 DEF FieldBytes
    <2>4. QED
      BY <1>2, <2>2, <2>3
  <1>3. CASE field.kind # "element"
    <2> DEFINE members == field.members
               rest == FlattenSeq([i \in DOMAIN v |-> ElementBytes(members, v[i])])
               number == NumberBytes("size_t", Len(v))
               width == ElementSize(members)
    <2>1. /\ v \in Seq([1..Len(members) -> Nat]) /\ Fits("size_t", Len(v))
          /\ \A i \in DOMAIN v : IsElement(members, v[i])
      BY <1>3 DEF IsValue
    <2>2. Len(v) \in Nat /\ DOMAIN v = 1..Len(v)
      BY <2>1
    <2>3. /\ rest \in Seq(ByteValues)
          /\ Len(rest) = Len(v) * width
          /\ \A i \in 1..Len(v) : HoldsAt(rest, (i - 1) * width, ElementBytes(members, v[i]))
      <3>1. IsSequence(v) /\ \A i \in 1..Len(v) : IsElement(members, v[i])
        BY <2>1, <2>2 DEF IsSequence
      <3>2. QED
        BY <1>1, <3>1, ElementsBytesType
    <2>4. width \in Nat
      <3>1. Len(members) \in 0..Len(members)
        BY <1>1
      <3>2. QED
        BY <1>1, <3>1, WidthStep DEF ElementSize
    <2>5. number \in Seq(ByteValues) /\ Len(number) = Sizeof["size_t"]
      BY <2>2, NumberBytesType DEF NumberTypes
    <2>6. FieldBytes(field, v) = number \o rest
      BY <1>3 DEF FieldBytes
    <2>7. \A i \in 1..Len(v) : ElementBytes(members, v[i]) \in Seq(ByteValues)
      BY <1>1, <2>1, <2>2, ElementBytesType
    <2>8. \A i \in 1..Len(v) : (i - 1) * width \in Nat
      <3>1. \A i \in 1..Len(v) : i - 1 \in Nat
        BY <2>2
      <3> HIDE DEF width
      <3>2. QED
        BY <3>1, <2>4
    <2> HIDE DEF number, rest, width
    <2>9. number \o rest \in Seq(ByteValues) /\ Len(number \o rest) = Len(number) + Len(rest)
      <3>1. number \in Seq(ByteValues) /\ rest \in Seq(ByteValues)
        BY <2>3, <2>5
      <3>2. QED
        BY <3>1
    <2>10. HoldsAt(number \o rest, 0, number)
      <3>1. HoldsAt(number, 0, number) /\ 0 \in Nat
        BY <2>5, HoldsInLonger
      <3>2. QED
        BY <2>3, <2>5, <3>1, HoldsInLonger
    <2>11. \A i \in 1..Len(v) : HoldsAt(number \o rest, Len(number) + (i - 1) * width,
                                        ElementBytes(members, v[i]))
      BY <2>3, <2>5, <2>7, <2>8, HoldsInLonger
    <2>12. Len(number \o rest) \in Nat
      BY <2>9
    <2>13. QED
      BY <1>3, <2>1, <2>2, <2>3, <2>4, <2>5, <2>6, <2>9, <2>10, <2>11, <2>12 DEF number, width
  <1>4. QED
    BY <1>2, <1>3

\* A field that is no string is read as it was written.
LEMMA FieldIsRead ==
  ASSUME NEW field, IsField(field), field.kind # "string", NEW v, IsValue(field, v),
         NEW data \in Seq(ByteValues), NEW offset \in Nat,
         HoldsAt(data, offset, FieldBytes(field, v))
  PROVE  FieldAt(field, data, offset) =
           [value |-> v, offset |-> offset + Len(FieldBytes(field, v))]
  <1> DEFINE members == field.members
             width == ElementSize(members)
             bytes == FieldBytes(field, v)
             first == offset + Sizeof["size_t"]
  <1>1. members \in Seq(NumberTypes) /\ field.kind \in {"element", "vector"}
    BY DEF IsField
  <1>2. Len(bytes) \in Nat /\ bytes \in Seq(ByteValues) /\ Sizeof["size_t"] \in Nat
    BY FieldBytesType, SizeofAssumption DEF NumberTypes
  <1>3. CASE field.kind = "element"
    <2>1. IsElement(members, v) /\ bytes = ElementBytes(members, v)
      BY <1>3, FieldBytesType DEF IsValue
    <2>2. Len(bytes) = width
      BY <1>1, <2>1, ElementBytesType
    <2>3. ElementAt(members, data, offset) = v
      BY <1>1, <2>1, ElementIsRead
    <2>4. FieldAt(field, data, offset) =
            [value |-> ElementAt(members, data, offset), offset |-> offset + width]
      BY <1>3 DEF FieldAt
    <2> HIDE DEF members, width, bytes
    <2>5. FieldAt(field, data, offset) = [value |-> v, offset |-> offset + Len(bytes)]
      BY <2>2, <2>3, <2>4
    <2>6. QED
      BY <2>5 DEF bytes
  <1>4. CASE field.kind = "vector"
    <2>1. /\ Len(v) \in Nat /\ DOMAIN v = 1..Len(v) /\ Fits("size_t", Len(v))
          /\ \A i \in 1..Len(v) : IsElement(members, v[i])
          /\ width \in Nat
          /\ HoldsAt(bytes, 0, NumberBytes("size_t", Len(v)))
          /\ Len(bytes) = Sizeof["size_t"] + Len(v) * width
          /\ \A i \in 1..Len(v) :
               HoldsAt(bytes, Sizeof["size_t"] + (i - 1) * width, ElementBytes(members, v[i]))
      BY <1>4, FieldBytesType
    <2>2. HoldsAt(data, offset, bytes)
      OBVIOUS
    <2> HIDE DEF bytes, width
    <2>3. NumberAt("size_t", data, offset) = Len(v)
      <3>1. NumberBytes("size_t", Len(v)) \in Seq(ByteValues) /\ 0 \in Nat
        BY <2>1, NumberBytesType DEF NumberTypes
      <3>2. HoldsAt(data, offset + 0, NumberBytes("size_t", Len(v)))
        BY <1>2, <2>1, <2>2, <3>1, HoldsWithin
      <3>3. HoldsAt(data, offset, NumberBytes("size_t", Len(v)))
        BY <3>2
      <3>4. Sizeof["size_t"] <= Sizeof["size_t"] /\ "size_t" \in NumberTypes
        BY <1>2 DEF NumberTypes
      <3>5. QED
        BY <2>1, <3>3, <3>4, NumberIsRead
    <2>4. \A i \in 1..Len(v) : (i - 1) * width \in Nat
      <3>1. \A i \in 1..Len(v) : i - 1 \in Nat
        BY <2>1
      <3>2. QED
        BY <3>1, <2>1
    <2>5. ASSUME NEW i \in 1..Len(v)
          PROVE  ElementAt(members, data, first + (i - 1) * width) = v[i]
      <3>1. ElementBytes(members, v[i]) \in Seq(ByteValues)
        BY <1>1, <2>1, ElementBytesType
      <3> DEFINE at == (i - 1) * width
      <3>2. at \in Nat /\ HoldsAt(bytes, Sizeof["size_t"] + at, ElementBytes(members, v[i]))
        BY <2>1, <2>4
      <3> HIDE DEF at
      <3>3. Sizeof["size_t"] + at \in Nat /\ first + at \in Nat
            /\ offset + (Sizeof["size_t"] + at) = first + at
        BY <1>2, <3>2
      <3>4. HoldsAt(data, first + at, ElementBytes(members, v[i]))
        <4>1. HoldsAt(data, offset + (Sizeof["size_t"] + at), ElementBytes(members, v[i]))
          BY <1>2, <2>2, <3>1, <3>2, <3>3, HoldsWithin
        <4>2. QED
          BY <4>1, <3>3
      <3>5. ElementAt(members, data, first + at) = v[i]
        BY <1>1, <2>1, <3>3, <3>4, ElementIsRead
      <3>6. QED
        BY <3>5 DEF at
    <2>6. Len(v) * width \in Nat
      BY <2>1
    <2>7. first + Len(v) * width = offset + Len(bytes) /\ offset + Len(bytes) <= Len(data)
      <3> DEFINE all == Len(v) * width
      <3>1. Len(bytes) = Sizeof["size_t"] + all /\ all \in Nat
        BY <2>1, <2>6
      <3> HIDE DEF all
      <3>2. first + all = offset + Len(bytes) /\ offset + Len(bytes) <= Len(data)
        BY <1>2, <2>2, <3>1 DEF HoldsAt
      <3>3. QED
        BY <3>2 DEF all
    <2>8. v = [i \in 1..Len(v) |-> v[i]]
      <3>1. v \in Seq([1..Len(members) -> Nat])
        BY <1>4 DEF IsValue
      <3>2. QED
        BY <3>1
    <2>9. SizeType(field) = "size_t"
      BY <1>4 DEF SizeType
    <2>10. Len(v) # Outside /\ ~(first + Len(v) * width > Len(data))
      <3>1. Len(v) # Outside
        BY <2>1, SizeofAssumption
      <3>2. offset + Len(bytes) \in Nat /\ Len(data) \in Nat
        BY <1>2
      <3> DEFINE end == first + Len(v) * width
      <3>3. end = offset + Len(bytes)
        BY <2>7
      <3> HIDE DEF end
      <3>4. ~(end > Len(data))
        BY <3>2, <3>3, <2>7
      <3>5. QED
        BY <3>1, <3>4 DEF end
    <2>11. ElementsAt(field, data, offset) =
             [value  |-> [i \in 1..Len(v) |-> ElementAt(members, data, first + (i - 1) * width)],
              offset |-> first + Len(v) * width]
      BY <2>3, <2>9, <2>10 DEF ElementsAt, width
    <2>12. [i \in 1..Len(v) |-> ElementAt(members, data, first + (i - 1) * width)] = v
      BY <2>5, <2>8
    <2>13. FieldAt(field, data, offset) = ElementsAt(field, data, offset)
      BY <1>4 DEF FieldAt
    <2>14. FieldAt(field, data, offset) = [value |-> v, offset |-> offset + Len(bytes)]
      BY <2>7, <2>11, <2>12, <2>13
    <2>15. QED
      BY <2>14 DEF bytes
  <1>5. QED
    BY <1>1, <1>3, <1>4

-----------------------------------------------------------------------------
\* The object is what the fields, one read after the other, leave.
Reading(read, fields, data) ==
  /\ read[0] = [values |-> <<>>, offset |-> FieldsOffset(data)]
  /\ \A k \in 1..Len(fields) : read[k] = ReadField(read[k - 1], fields[k], data)

\* createFromBytes takes one such step for each field.
LEMMA ObjectAtReads ==
  ASSUME NEW fields, Len(fields) \in Nat, NEW data
  PROVE  \E read : Reading(read, fields, data) /\ ObjectAt(fields, data) = read[Len(fields)]
  <1> DEFINE n == Len(fields)
             first == [values |-> <<>>, offset |-> FieldsOffset(data)]
             next(r, k) == ReadField(r, fields[k], data)
             Upto(f, m) == f = [k \in 0..m |-> IF k = 0 THEN first ELSE next(f[k - 1], k)]
             Body(f) == [k \in 0..n |-> IF k = 0 THEN first ELSE next(f[k - 1], k)]
             read == CHOOSE f : f = Body(f)
             Good == {m \in 0..n : \E f : Upto(f, m)}
  <1>1. ObjectAt(fields, data) = read[n]
    BY DEF ObjectAt
  <1> HIDE DEF first, next
  <1>2. 0 \in Good
    <2> DEFINE f == [k \in 0..0 |-> first]
    <2>1. Upto(f, 0)
      OBVIOUS
    <2> HIDE DEF f, Upto
    <2>2. QED
      BY <2>1
  <1>3. ASSUME NEW m \in 1..n, m - 1 \in Good PROVE m \in Good
    <2>1. PICK f : Upto(f, m - 1)
      BY <1>3
    <2> DEFINE g == [k \in 0..m |-> IF k = 0 THEN first
                                    ELSE IF k = m THEN next(f[m - 1], m) ELSE f[k]]
    <2>2. ASSUME NEW k \in 0..m
          PROVE  g[k] = IF k = 0 THEN first ELSE next(g[k - 1], k)
      <3>1. CASE k = 0
        BY <3>1
      <3>2. CASE k # 0
        <4>1. k - 1 \in 0..m - 1 /\ k - 1 \in 0..m /\ k - 1 # m
          BY <3>2
        <4>2. f[k - 1] = g[k - 1]
          <5>1. CASE k - 1 = 0
            <6>1. f[0] = first
              BY <2>1
            <6>2. QED
              BY <6>1, <5>1, <4>1
          <5>2. CASE k - 1 # 0
            BY <5>2, <4>1
          <5>3. QED
            BY <5>1, <5>2
        <4>3. CASE k = m
          BY <3>2, <4>2, <4>3
        <4>4. CASE k # m
          <5>1. k \in 0..m - 1
            BY <4>4
          <5>2. f[k] = next(f[k - 1], k)
            BY <2>1, <5>1, <3>2
          <5>3. g[k] = f[k]
            BY <4>4, <3>2
          <5>4. QED
            BY <3>2, <4>2, <5>2, <5>3
        <4>5. QED
          BY <4>3, <4>4
      <3>3. QED
        BY <3>1, <3>2
    <2>3. Upto(g, m)
      BY <2>2
    <2> HIDE DEF g, Upto
    <2>4. QED
      BY <2>3
  <1>4. n \in Good
    <2> HIDE DEF Good
    <2>1. 0..n \subseteq Good
      BY <1>2, <1>3, UpTo
    <2>2. QED
      BY <2>1
  <1>5. read = Body(read)
    <2>1. PICK f : Upto(f, n)
      BY <1>4
    <2>2. f = Body(f)
      BY <2>1
    <2> HIDE DEF Body
    <2>3. QED
      BY <2>2
  <1> HIDE DEF read
  <1>6. read[0] = first /\ \A k \in 1..n : read[k] = next(read[k - 1], k)
    BY <1>5
  <1>7. Reading(read, fields, data)
    BY <1>6 DEF Reading, first, next
  <1>8. QED
    BY <1>1, <1>7

-----------------------------------------------------------------------------
\* Where the fields of an object are in its bytes.
FieldPlaces(at, id, fields, values) ==
  LET b == ObjectBytes(id, fields, values)
  IN /\ at \in [0..Len(fields) -> 0..Len(b)]
     /\ at[0] = Sizeof["uint32_t"] /\ Len(b) = at[Len(fields)]
     /\ \A k \in 1..Len(fields) :
          /\ at[k] = at[k - 1] + Len(FieldBytes(fields[k], values[k]))
          /\ HoldsAt(b, at[k - 1], FieldBytes(fields[k], values[k]))

\* The object's values are those its fields can have.
Matches(fields, values) ==
  /\ IsSequence(fields)
  /\ \A k \in 1..Len(fields) : IsField(fields[k]) /\ IsValue(fields[k], values[k])

\* The bytes of an object hold its id and, in their places, its fields.
LEMMA ObjectBytesType ==
  ASSUME NEW id \in Nat, NEW fields, NEW values, Matches(fields, values)
  PROVE  /\ ObjectBytes(id, fields, values) \in Seq(ByteValues)
         /\ HoldsAt(ObjectBytes(id, fields, values), 0, NumberBytes("uint32_t", id))
         /\ \E at : FieldPlaces(at, id, fields, values)
  <1> DEFINE n == Len(fields)
             bytes(k) == FieldBytes(fields[k], values[k])
             ss == [i \in DOMAIN fields |-> FieldBytes(fields[i], values[i])]
             number == NumberBytes("uint32_t", id)
             head == Sizeof["uint32_t"]
             rest == FlattenSeq(ss)
             b == ObjectBytes(id, fields, values)
  <1>1. n \in Nat /\ DOMAIN fields = 1..n
    BY DEF Matches, IsSequence
  <1>2. \A k \in 1..n : bytes(k) \in Seq(ByteValues) /\ Len(bytes(k)) \in Nat
    BY FieldBytesType DEF Matches
  <1>3. ss \in Seq(Seq(ByteValues)) /\ Len(ss) = n
    <2>1. ss \in [1..n -> Seq(ByteValues)]
      BY <1>1, <1>2
    <2> HIDE DEF ss, n
    <2>2. QED
      BY <1>1, <2>1
  <1>4. \A k \in 1..n : ss[k] = bytes(k)
    BY <1>1
  <1>5. number \in Seq(ByteValues) /\ Len(number) = head /\ head \in Nat
    BY NumberBytesType DEF NumberTypes
  <1> HIDE DEF ss, number, bytes
  <1>6. rest \in Seq(ByteValues)
    BY <1>3, Flattened
  <1>7. PICK f : Places(f, ss) /\ InPlaces(rest, ss, f)
    BY <1>3, Flattened
  <1>8. /\ f \in [0..n -> Nat] /\ f[0] = 0 /\ Len(rest) = f[n]
        /\ \A k \in 1..n : f[k] = f[k - 1] + Len(bytes(k)) /\ HoldsAt(rest, f[k - 1], bytes(k))
    BY <1>3, <1>4, <1>7 DEF Places, InPlaces
  <1>9. b = number \o rest
    BY DEF ObjectBytes, number, ss
  <1> HIDE DEF rest, b
  <1>10. b \in Seq(ByteValues) /\ Len(b) = head + f[n]
    <2>1. Len(number \o rest) = Len(number) + Len(rest) /\ number \o rest \in Seq(ByteValues)
      BY <1>5, <1>6
    <2>2. QED
      BY <2>1, <1>5, <1>8, <1>9
  <1>11. HoldsAt(b, 0, number)
    <2>1. HoldsAt(number, 0, number) /\ 0 \in Nat
      BY <1>5, HoldsInLonger
    <2>2. QED
      BY <1>5, <1>6, <1>9, <2>1, HoldsInLonger
  <1>12. \A k \in 1..n : HoldsAt(b, head + f[k - 1], bytes(k))
    <2>1. ASSUME NEW k \in 1..n PROVE HoldsAt(b, head + f[k - 1], bytes(k))
      <3>1. k - 1 \in 0..n
        BY <1>1
      <3>2. f[k - 1] \in Nat /\ HoldsAt(rest, f[k - 1], bytes(k)) /\ bytes(k) \in Seq(ByteValues)
        BY <3>1, <1>2, <1>8
      <3>3. QED
        BY <3>2, <1>5, <1>6, <1>9, HoldsInLonger
    <2>2. QED
      BY <2>1
  <1> DEFINE at == [k \in 0..n |-> head + f[k]]
  <1>13. FieldPlaces(at, id, fields, values)
    <2>1. at[0] = head /\ Len(b) = at[n]
      BY <1>1, <1>5, <1>8, <1>10
    <2>2. ASSUME NEW k \in 1..n
          PROVE  at[k] = at[k - 1] + Len(bytes(k)) /\ HoldsAt(b, at[k - 1], bytes(k))
      <3>1. k - 1 \in 0..n /\ k \in 0..n
        BY <1>1
      <3>2. f[k - 1] \in Nat /\ f[k] = f[k - 1] + Len(bytes(k)) /\ Len(bytes(k)) \in Nat
        BY <3>1, <1>2, <1>8
      <3>3. at[k - 1] = head + f[k - 1] /\ at[k] = head + f[k]
        BY <3>1
      <3>4. at[k] = at[k - 1] + Len(bytes(k))
        <4> HIDE DEF at
        <4>1. QED
          BY <3>2, <3>3, <1>5
      <3>5. QED
        BY <3>3, <3>4, <1>12
    <2>3. at \in [0..n -> Nat]
      BY <1>5, <1>8
    <2>4. ASSUME NEW k \in 0..n PROVE at[k] <= Len(b)
      <3> HIDE DEF at
      <3>1. CASE k # 0
        <4>1. k \in 1..n
          BY <3>1
        <4>2. k - 1 \in 0..n
          BY <4>1
        <4>3. QED
          BY <4>1, <4>2, <2>2, <2>3 DEF HoldsAt
      <3>2. CASE k = 0 /\ n = 0
        BY <2>1, <2>3, <3>2
      <3>3. CASE k = 0 /\ n # 0
        <4>1. 1 \in 1..n
          BY <1>1, <3>3
        <4>2. HoldsAt(b, at[0], bytes(1)) /\ Len(bytes(1)) \in Nat /\ at[0] \in Nat
          BY <4>1, <2>2, <2>3, <1>2, <1>1
        <4>3. QED
          BY <4>2, <3>3, <1>10 DEF HoldsAt
      <3>4. QED
        BY <3>1, <3>2, <3>3
    <2> HIDE DEF at
    <2>5. at \in [0..n -> 0..Len(b)]
      BY <2>3, <2>4, <1>10
    <2>6. QED
      BY <2>1, <2>2, <2>5 DEF FieldPlaces, b, bytes
  <1> HIDE DEF at
  <1>14. QED
    BY <1>10, <1>11, <1>13 DEF b, number

-----------------------------------------------------------------------------
\* The values are those of the fields, each read where the one before it ended.
LEMMA ValuesRead ==
  ASSUME NEW fields, Len(fields) \in Nat, NEW data, NEW read, Reading(read, fields, data)
  PROVE  LET field(k) == FieldAt(fields[k], data, read[k - 1].offset)
         IN /\ read[0].offset = FieldsOffset(data)
            /\ \A k \in 1..Len(fields) : read[k].offset = field(k).offset
            /\ \A m \in 0..Len(fields) : read[m].values = [k \in 1..m |-> field(k).value]
  <1> DEFINE n == Len(fields)
             field(k) == FieldAt(fields[k], data, read[k - 1].offset)
             value == [k \in 1..n |-> field(k).value]
  <1>1. \A k \in 1..n : read[k] = [values |-> Append(read[k - 1].values, field(k).value),
                                   offset |-> field(k).offset]
    BY DEF Reading, ReadField
  <1>2. read[0] = [values |-> <<>>, offset |-> FieldsOffset(data)]
    BY DEF Reading
  <1> HIDE DEF field
  <1>3. \A k \in 1..n : value[k] = field(k).value
    OBVIOUS
  <1> HIDE DEF value
  <1> DEFINE Good == {m \in 0..n : read[m].values = [k \in 1..m |-> value[k]]}
  <1>4. 0 \in Good
    <2>1. [k \in 1..0 |-> value[k]] = <<>>
      OBVIOUS
    <2>2. QED
      BY <1>2, <2>1
  <1>5. ASSUME NEW m \in 1..n, m - 1 \in Good PROVE m \in Good
    <2>1. m - 1 \in Nat /\ (m - 1) + 1 = m /\ m \in 0..n
      OBVIOUS
    <2>2. read[m].values = Append(read[m - 1].values, value[m])
      <3> DEFINE longer == Append(read[m - 1].values, field(m).value)
                 end == field(m).offset
      <3>1. read[m] = [values |-> longer, offset |-> end]
        BY <1>1
      <3> HIDE DEF longer, end
      <3>2. read[m].values = longer
        BY <3>1
      <3>3. QED
        BY <3>2, <1>3 DEF longer
    <2>3. read[m - 1].values = [k \in 1..m - 1 |-> value[k]]
      BY <1>5
    <2>4. Append(read[m - 1].values, value[m]) = [k \in 1..(m - 1) + 1 |-> value[k]]
      <3>1. value[m] = value[(m - 1) + 1]
        BY <2>1
      <3> DEFINE h == read[m - 1].values
                 x == value[m]
      <3>2. h = [k \in 1..m - 1 |-> value[k]] /\ x = value[(m - 1) + 1]
        BY <2>3, <3>1
      <3> HIDE DEF h, x
      <3>3. Append(h, x) = [k \in 1..(m - 1) + 1 |-> value[k]]
        BY <2>1, <3>2, OneMore
      <3>4. QED
        BY <3>3 DEF h, x
    <2>5. QED
      BY <2>1, <2>2, <2>4
  <1>6. 0..n \subseteq Good
    <2> HIDE DEF Good
    <2>1. QED
      BY <1>4, <1>5, UpTo
  <1>7. \A m \in 0..n : read[m].values = [k \in 1..m |-> field(k).value]
    <2>1. ASSUME NEW m \in 0..n PROVE read[m].values = [k \in 1..m |-> field(k).value]
      <3>1. read[m].values = [k \in 1..m |-> value[k]]
        BY <1>6
      <3>2. \A k \in 1..m : value[k] = field(k).value
        BY <1>3
      <3>3. QED
        BY <3>1, <3>2
    <2>2. QED
      BY <2>1
  <1>8. read[0].offset = FieldsOffset(data) /\ \A k \in 1..n : read[k].offset = field(k).offset
    <2>1. ASSUME NEW k \in 1..n PROVE read[k].offset = field(k).offset
      <3> DEFINE longer == Append(read[k - 1].values, field(k).value)
                 end == field(k).offset
      <3>1. read[k] = [values |-> longer, offset |-> end]
        BY <1>1
      <3> HIDE DEF longer, end
      <3>2. read[k].offset = end
        BY <3>1
      <3>3. QED
        BY <3>2 DEF end
    <2>2. QED
      BY <1>2, <2>1
  <1>9. QED
    BY <1>7, <1>8 DEF field

\* The first fields, when no string is among them, are read from their bytes as
\* they were written.
LEMMA FieldsAreRead ==
  ASSUME NEW id \in Nat, NEW fields, NEW values, Matches(fields, values),
         NEW at, FieldPlaces(at, id, fields, values),
         NEW data \in Seq(ByteValues), HoldsAt(data, 0, ObjectBytes(id, fields, values)),
         NEW others, Len(others) \in Nat, NEW m \in 0..Len(fields), m <= Len(others),
         \A k \in 1..m : others[k] = fields[k] /\ fields[k].kind # "string",
         NEW read, Reading(read, others, data)
  PROVE  /\ \A k \in 0..m : read[k].offset = at[k]
         /\ \A k \in 1..m : FieldAt(others[k], data, read[k - 1].offset).value = values[k]
  <1> DEFINE n == Len(fields)
             b == ObjectBytes(id, fields, values)
             field(k) == FieldAt(others[k], data, read[k - 1].offset)
  <1>1. n \in Nat /\ \A k \in 1..n : IsField(fields[k]) /\ IsValue(fields[k], values[k])
    BY DEF Matches, IsSequence
  <1>2. /\ at \in [0..n -> 0..Len(b)] /\ at[0] = Sizeof["uint32_t"]
        /\ \A k \in 1..n : /\ at[k] = at[k - 1] + Len(FieldBytes(fields[k], values[k]))
                           /\ HoldsAt(b, at[k - 1], FieldBytes(fields[k], values[k]))
    BY DEF FieldPlaces
  <1>3. b \in Seq(ByteValues) /\ HoldsAt(data, 0, b)
    BY ObjectBytesType
  <1> HIDE DEF b
  <1>4. read[0].offset = at[0] /\ \A k \in 1..m : read[k].offset = field(k).offset
    <2>1. \A k \in 1..m : k \in 1..Len(others)
      BY <1>1
    <2>2. read[0].offset = FieldsOffset(data)
      BY ValuesRead
    <2>3. \A k \in 1..Len(others) :
            read[k].offset = FieldAt(others[k], data, read[k - 1].offset).offset
      BY ValuesRead
    <2>4. QED
      BY <1>2, <2>1, <2>2, <2>3 DEF FieldsOffset
  <1> HIDE DEF field
  <1>5. ASSUME NEW k \in 1..m, read[k - 1].offset = at[k - 1]
        PROVE  field(k) = [value |-> values[k], offset |-> at[k]]
    <2>1. k \in 1..n /\ k - 1 \in 0..n
      BY <1>1
    <2> DEFINE place == at[k - 1]
               bytes == FieldBytes(fields[k], values[k])
    <2>2. place \in Nat /\ HoldsAt(b, place, bytes) /\ at[k] = place + Len(bytes)
      <3>1. at[k - 1] \in 0..Len(b)
        BY <1>2, <2>1
      <3>2. HoldsAt(b, place, bytes) /\ at[k] = place + Len(bytes)
        BY <1>2, <2>1
      <3>3. QED
        BY <3>1, <3>2
    <2>3. bytes \in Seq(ByteValues)
      BY <1>1, <2>1, FieldBytesType
    <2> HIDE DEF place, bytes
    <2>4. HoldsAt(data, place, bytes)
      <3>1. HoldsAt(data, 0 + place, bytes)
        <4>1. 0 \in Nat
          OBVIOUS
        <4>2. QED
          BY <1>3, <2>2, <2>3, <4>1, HoldsWithin
      <3>2. 0 + place = place
        BY <2>2
      <3>3. QED
        BY <3>1, <3>2
    <2>5. FieldAt(fields[k], data, place) = [value |-> values[k], offset |-> place + Len(bytes)]
      <3>1. HoldsAt(data, place, FieldBytes(fields[k], values[k]))
        BY <2>4 DEF bytes
      <3>2. QED
        BY <1>1, <2>1, <2>2, <3>1, FieldIsRead DEF bytes
    <2>6. field(k) = FieldAt(fields[k], data, place)
      BY <1>5 DEF field, place
    <2>7. QED
      BY <2>2, <2>5, <2>6
  <1> DEFINE Good == {k \in 0..m : read[k].offset = at[k]}
  <1>6. 0..m \subseteq Good
    <2>1. 0 \in Good
      BY <1>4, <1>1
    <2>2. ASSUME NEW k \in 1..m, k - 1 \in Good PROVE k \in Good
      <3>1. field(k) = [value |-> values[k], offset |-> at[k]]
        BY <2>2, <1>5
      <3>2. read[k].offset = at[k]
        BY <3>1, <1>4
      <3>3. QED
        BY <3>2, <1>1
    <2> HIDE DEF Good
    <2>3. m \in Nat
      BY <1>1
    <2>4. QED
      BY <2>1, <2>2, <2>3, UpTo
  <1>7. \A k \in 1..m : field(k).value = values[k]
    <2>1. ASSUME NEW k \in 1..m PROVE field(k).value = values[k]
      <3>1. k - 1 \in 0..m
        BY <1>1
      <3>2. read[k - 1].offset = at[k - 1]
        BY <1>6, <3>1
      <3>3. QED
        BY <3>2, <1>5
    <2>2. QED
      BY <2>1
  <1>8. QED
    BY <1>6, <1>7 DEF field

-----------------------------------------------------------------------------
\* The types of fields, as a set.
FieldTypes == [kind : {"element", "vector", "string"}, members : Seq(NumberTypes)]

\* Its members are types of fields.
LEMMA FieldTypesAreFields == \A f \in FieldTypes : IsField(f)
  BY DEF FieldTypes, IsField

\* The fields of the types; a string is only in Text.
LEMMA FieldsType ==
  ASSUME NEW t \in Types
  PROVE  /\ Fields[t] \in Seq(FieldTypes)
         /\ t # "Text" => \A k \in 1..Len(Fields[t]) : Fields[t][k].kind # "string"
  <1>1. /\ Number("uint32_t") \in Seq(NumberTypes) /\ Number("uint8_t") \in Seq(NumberTypes)
        /\ Spawn \in Seq(NumberTypes) /\ Despawn \in Seq(NumberTypes)
    BY DEF Number, Spawn, Despawn, NumberTypes
  <1>2. \A m \in Seq(NumberTypes) : /\ Element(m) \in FieldTypes /\ Element(m).kind = "element"
                                    /\ Vector(m) \in FieldTypes /\ Vector(m).kind = "vector"
    BY DEF Element, Vector, FieldTypes
  <1>3. String \in FieldTypes
    BY <1>1 DEF String, FieldTypes
  <1> DEFINE Plain == {f \in FieldTypes : f.kind # "string"}
  <1>4. /\ Uint32 \in Plain /\ Vector(Spawn) \in Plain /\ Vector(Despawn) \in Plain
        /\ Vector(Number("uint8_t")) \in Plain /\ Vector(Number("uint32_t")) \in Plain
    <2>1. "element" # "string" /\ "vector" # "string"
      OBVIOUS
    <2>2. QED
      BY <1>1, <1>2, <2>1 DEF Uint32
  <1>5. t \in {"InitializeClientMessage", "ClientIsReadyMessage", "SpawnDespawnMessage",
               "SnapshotMessage", "HelloWorld", "TestNetworkComponent", "Text"}
    BY DEF Types, Fields
  <1>6. CASE t = "Text"
    <2>1. Fields[t] = <<Uint32, String, Uint32>>
      BY <1>6 DEF Fields
    <2>2. Uint32 \in FieldTypes
      BY <1>4
    <2> HIDE DEF Plain
    <2>3. <<Uint32, String, Uint32>> \in Seq(FieldTypes)
      BY <2>2, <1>3
    <2>4. QED
      BY <1>6, <2>1, <2>3
  <1>7. CASE t # "Text"
    <2>1. Fields[t] \in {<<Uint32, Uint32>>, <<>>, <<Vector(Spawn), Vector(Despawn)>>,
                         <<Vector(Number("uint8_t"))>>, <<Vector(Number("uint32_t"))>>}
      BY <1>5, <1>7 DEF Fields
    <2> HIDE DEF Plain
    <2>2. /\ <<Uint32, Uint32>> \in Seq(Plain) /\ <<>> \in Seq(Plain)
          /\ <<Vector(Spawn), Vector(Despawn)>> \in Seq(Plain)
          /\ <<Vector(Number("uint8_t"))>> \in Seq(Plain)
          /\ <<Vector(Number("uint32_t"))>> \in Seq(Plain)
      BY <1>4
    <2>3. Fields[t] \in Seq(Plain)
      BY <2>1, <2>2
    <2>4. \A k \in 1..Len(Fields[t]) : Fields[t][k] \in Plain
      BY <2>3
    <2>5. Fields[t] \in [1..Len(Fields[t]) -> FieldTypes] /\ Len(Fields[t]) \in Nat
      BY <2>3, <2>4 DEF Plain
    <2>6. Fields[t] \in Seq(FieldTypes)
      BY <2>5
    <2>7. QED
      BY <2>4, <2>6 DEF Plain
  <1>8. QED
    BY <1>6, <1>7

\* A sequence once or twice.
LEMMA Repeated ==
  ASSUME NEW S, NEW s \in Seq(S), NEW n \in {1, 2}
  PROVE  /\ Repeat(s, n) \in Seq(S) /\ Len(Repeat(s, n)) = (IF n = 1 THEN 0 ELSE Len(s)) + Len(s)
         /\ \A k \in 1..Len(s) : Repeat(s, n)[k] = s[k]
         /\ \A k \in 1..Len(s) : Repeat(s, n)[(IF n = 1 THEN 0 ELSE Len(s)) + k] = s[k]
  <1>1. CASE n = 1
    BY <1>1 DEF Repeat
  <1>2. CASE n = 2
    <2>1. Repeat(s, n) = s \o s
      BY <1>2 DEF Repeat
    <2>2. s \o s \in Seq(S) /\ Len(s \o s) = Len(s) + Len(s)
          /\ (\A k \in 1..Len(s) : (s \o s)[k] = s[k])
          /\ (\A k \in 1..Len(s) : (s \o s)[Len(s) + k] = s[k])
      OBVIOUS
    <2>3. (IF n = 1 THEN 0 ELSE Len(s)) = Len(s)
      BY <1>2
    <2>4. QED
      BY <2>1, <2>2, <2>3
  <1>3. QED
    BY <1>1, <1>2

\* How often an object is written, and so its fields and values.
Times(o, n) == IF o.type \in ProtocolTypes THEN n ELSE 1
WrittenFields(o, n) == Repeat(Fields[o.type], Times(o, n))
WrittenValues(o, n) == Repeat(o.values, Times(o, n))

\* An object registered once or twice: its fields, and their values.
LEMMA WrittenMatches ==
  ASSUME NEW o, HasFields(o), NEW n \in {1, 2}
  PROVE  /\ Matches(WrittenFields(o, n), WrittenValues(o, n))
         /\ Registered(o.type, n) = WrittenFields(o, n)
         /\ Serialize(o, n) = ObjectBytes(TypeIds[o.type], WrittenFields(o, n), WrittenValues(o, n))
         /\ Len(WrittenValues(o, n)) = Len(WrittenFields(o, n))
  <1> DEFINE F == Fields[o.type]
             V == {o.values[i] : i \in DOMAIN o.values}
             l == Len(F)
             c == Times(o, n)
             skip == IF c = 1 THEN 0 ELSE l
  <1>1. o.type \in Types /\ o.values \in Seq(V) /\ Len(o.values) = l
        /\ \A i \in DOMAIN o.values : IsValue(F[i], o.values[i])
    BY DEF HasFields, IsSeq
  <1>2. F \in Seq(FieldTypes)
    BY <1>1, FieldsType
  <1>3. l \in Nat /\ DOMAIN o.values = 1..l /\ DOMAIN F = 1..l
    BY <1>1, <1>2
  <1>4. c \in {1, 2}
    BY DEF Times
  <1> HIDE DEF F, V, c
  <1>5. /\ Repeat(F, c) \in Seq(FieldTypes) /\ Len(Repeat(F, c)) = skip + l
        /\ \A k \in 1..l : Repeat(F, c)[k] = F[k]
        /\ \A k \in 1..l : Repeat(F, c)[skip + k] = F[k]
    BY <1>2, <1>4, Repeated
  <1>6. /\ Repeat(o.values, c) \in Seq(V) /\ Len(Repeat(o.values, c)) = skip + l
        /\ \A k \in 1..l : Repeat(o.values, c)[k] = o.values[k]
        /\ \A k \in 1..l : Repeat(o.values, c)[skip + k] = o.values[k]
    <2> DEFINE values == o.values
    <2>1. values \in Seq(V) /\ Len(values) = l
      BY <1>1
    <2> HIDE DEF values
    <2>2. /\ Repeat(values, c) \in Seq(V) /\ Len(Repeat(values, c)) = skip + l
          /\ \A k \in 1..l : Repeat(values, c)[k] = values[k]
          /\ \A k \in 1..l : Repeat(values, c)[skip + k] = values[k]
      <3> DEFINE again == IF c = 1 THEN 0 ELSE Len(values)
      <3>1. /\ Repeat(values, c) \in Seq(V) /\ Len(Repeat(values, c)) = again + Len(values)
            /\ \A k \in 1..Len(values) : Repeat(values, c)[k] = values[k]
            /\ \A k \in 1..Len(values) : Repeat(values, c)[again + k] = values[k]
        BY <2>1, <1>4, Repeated
      <3>2. again = skip
        BY <2>1
      <3> HIDE DEF again, skip, l
      <3>3. QED
        BY <2>1, <3>1, <3>2
    <2>3. QED
      BY <2>2 DEF values
  <1>7. ASSUME NEW k \in 1..skip + l PROVE \E i \in 1..l : k = i \/ k = skip + i
    <2>1. CASE k <= l
      BY <2>1, <1>3
    <2>2. CASE ~(k <= l)
      <3>1. skip = l /\ k - l \in 1..l /\ k = skip + (k - l)
        BY <2>2, <1>3
      <3>2. QED
        BY <3>1
    <2>3. QED
      BY <2>1, <2>2
  <1>8. ASSUME NEW k \in 1..skip + l
        PROVE  IsField(Repeat(F, c)[k]) /\ IsValue(Repeat(F, c)[k], Repeat(o.values, c)[k])
    <2>1. PICK i \in 1..l : k = i \/ k = skip + i
      BY <1>7
    <2>2. Repeat(F, c)[k] = F[i] /\ Repeat(o.values, c)[k] = o.values[i]
      BY <2>1, <1>5, <1>6
    <2>3. F[i] \in FieldTypes /\ IsValue(F[i], o.values[i])
      BY <1>1, <1>2, <1>3
    <2>4. QED
      BY <2>2, <2>3, FieldTypesAreFields
  <1>9. Matches(Repeat(F, c), Repeat(o.values, c))
    <2>1. IsSequence(Repeat(F, c))
      BY <1>5 DEF IsSequence
    <2>2. QED
      BY <2>1, <1>5, <1>8 DEF Matches
  <1>10. Registered(o.type, n) = Repeat(F, c)
    BY DEF Registered, F, c, Times, Repeat
  <1>11. Serialize(o, n) = ObjectBytes(TypeIds[o.type], Repeat(F, c), Repeat(o.values, c))
    BY <1>10 DEF Serialize, c, Times
  <1>12. QED
    BY <1>5, <1>6, <1>9, <1>10, <1>11 DEF WrittenFields, WrittenValues, F, c

-----------------------------------------------------------------------------
\* A part of a sequence that is given as a function.
LEMMA PartOf ==
  ASSUME NEW s, NEW g, NEW n \in Nat, s = [i \in 1..n |-> g[i]], NEW a \in 0..n, NEW b \in a..n
  PROVE  SubSeq(s, a + 1, b) = [i \in 1..b - a |-> g[a + i]]
  <1> DEFINE S == {g[i] : i \in 1..n}
  <1>1. s \in Seq(S) /\ Len(s) = n
    <2>1. s \in [1..n -> S]
      OBVIOUS
    <2> HIDE DEF S
    <2>2. s \in Seq(S)
      BY <2>1
    <2>3. Len(s) = n
      BY <2>2
    <2>4. QED
      BY <2>2, <2>3
  <1> HIDE DEF S
  <1>2. SubSeq(s, a + 1, b) = [i \in 1..b - a |-> s[a + i]]
    BY <1>1
  <1>3. \A i \in 1..b - a : a + i \in 1..n
    OBVIOUS
  <1>4. QED
    BY <1>2, <1>3

\* The id of the type comes first.
LEMMA TypeIsRead ==
  ASSUME NEW o, HasFields(o), NEW n \in {1, 2}
  PROVE  /\ Serialize(o, n) \in Seq(ByteValues)
         /\ TypesAt(Serialize(o, n)) = {o.type}
         /\ TypeAt(Serialize(o, n)) = o.type
  <1> DEFINE data == Serialize(o, n)
             id == TypeIds[o.type]
  <1>1. /\ o.type \in Types /\ id \in Nat /\ Fits("uint32_t", id)
        /\ \A t \in Types : TypeIds[t] = id => t = o.type
    BY ExchangeAssumption DEF HasFields
  <1>2. data = ObjectBytes(id, WrittenFields(o, n), WrittenValues(o, n))
        /\ Matches(WrittenFields(o, n), WrittenValues(o, n))
    BY WrittenMatches
  <1> HIDE DEF data, id
  <1>3. data \in Seq(ByteValues) /\ HoldsAt(data, 0, NumberBytes("uint32_t", id))
    BY <1>1, <1>2, ObjectBytesType
  <1>4. NumberAt("uint32_t", data, 0) = id
    <2>1. "uint32_t" \in NumberTypes /\ Sizeof["uint32_t"] <= Sizeof["uint32_t"] /\ 0 \in Nat
      BY SizeofAssumption DEF NumberTypes
    <2>2. QED
      BY <1>1, <1>3, <2>1, NumberIsRead
  <1>5. TypesAt(data) = {o.type}
    BY <1>1, <1>4 DEF TypesAt, id
  <1>6. TypeAt(data) = o.type
    BY <1>5 DEF TypeAt
  <1>7. QED
    BY <1>3, <1>5, <1>6 DEF data

\* An object without a string is read as it was written, unless it is read by
\* an end that registered its fields more often.
LEMMA ObjectIsRead ==
  ASSUME NEW o, HasFields(o), o.type # "Text", NEW n \in {1, 2}, NEW m \in {1, 2},
         m <= n \/ o.type \notin ProtocolTypes \/ Fields[o.type] = <<>>
  PROVE  /\ Deserialize(Serialize(o, n), m) = o
         /\ ReadEnd(Serialize(o, n), m) <= Len(Serialize(o, n))
  <1> DEFINE F == Fields[o.type]
             l == Len(F)
             data == Serialize(o, n)
             fields == WrittenFields(o, n)
             values == WrittenValues(o, n)
             others == WrittenFields(o, m)
             id == TypeIds[o.type]
             skip(c) == IF Times(o, c) = 1 THEN 0 ELSE l
             V == {o.values[i] : i \in DOMAIN o.values}
  <1>1. /\ o.type \in Types /\ o.values \in Seq(V) /\ Len(o.values) = l
        /\ o = [type |-> o.type, values |-> o.values]
    BY DEF HasFields, IsSeq
  <1>2. F \in Seq(FieldTypes) /\ l \in Nat /\ \A k \in 1..l : F[k].kind # "string"
    <2>1. F \in Seq(FieldTypes)
      BY <1>1, FieldsType
    <2>2. QED
      BY <1>1, <2>1, FieldsType
  <1>3. Times(o, n) \in {1, 2} /\ Times(o, m) \in {1, 2}
    BY DEF Times
  <1>4. /\ Len(fields) = skip(n) + l /\ Len(others) = skip(m) + l
        /\ \A k \in 1..l : fields[k] = F[k] /\ others[k] = F[k]
        /\ \A k \in 1..l : fields[skip(n) + k] = F[k] /\ others[skip(m) + k] = F[k]
    <2>1. ASSUME NEW T \in {1, 2}
          PROVE  LET again == IF T = 1 THEN 0 ELSE Len(F)
                 IN /\ Len(Repeat(F, T)) = again + Len(F)
                    /\ \A k \in 1..Len(F) : Repeat(F, T)[k] = F[k]
                    /\ \A k \in 1..Len(F) : Repeat(F, T)[again + k] = F[k]
      <3> DEFINE G == F
      <3>1. G \in Seq(FieldTypes)
        BY <1>2
      <3> HIDE DEF G
      <3>2. /\ Len(Repeat(G, T)) = (IF T = 1 THEN 0 ELSE Len(G)) + Len(G)
            /\ \A k \in 1..Len(G) : Repeat(G, T)[k] = G[k]
            /\ \A k \in 1..Len(G) : Repeat(G, T)[(IF T = 1 THEN 0 ELSE Len(G)) + k] = G[k]
        BY <3>1, Repeated
      <3>3. QED
        BY <3>2 DEF G
    <2>2. fields = Repeat(F, Times(o, n)) /\ others = Repeat(F, Times(o, m))
      BY DEF WrittenFields
    <2> HIDE DEF F, fields, others
    <2>3. Len(fields) = skip(n) + l /\ (\A k \in 1..l : fields[k] = F[k])
          /\ (\A k \in 1..l : fields[skip(n) + k] = F[k])
      BY <1>3, <2>1, <2>2
    <2>4. Len(others) = skip(m) + l /\ (\A k \in 1..l : others[k] = F[k])
          /\ (\A k \in 1..l : others[skip(m) + k] = F[k])
      BY <1>3, <2>1, <2>2
    <2>5. QED
      BY <2>3, <2>4
  <1>5. /\ \A k \in 1..l : values[k] = o.values[k]
        /\ \A k \in 1..l : values[skip(n) + k] = o.values[k]
    <2> DEFINE W == o.values
               T == Times(o, n)
    <2>1. W \in Seq(V) /\ Len(W) = l /\ T \in {1, 2}
      BY <1>1, <1>3
    <2> HIDE DEF W, T, V, l
    <2> HIDE DEF F, fields, others, values, data, id, skip
    <2>2. /\ Len(Repeat(W, T)) = (IF T = 1 THEN 0 ELSE Len(W)) + Len(W)
          /\ \A k \in 1..Len(W) : Repeat(W, T)[k] = W[k]
          /\ \A k \in 1..Len(W) : Repeat(W, T)[(IF T = 1 THEN 0 ELSE Len(W)) + k] = W[k]
      <3>1. W \in Seq(V)
        BY <2>1
      <3>2. T \in {1, 2}
        BY <2>1
      <3>3. QED
        BY <3>1, <3>2, Repeated
    <2>3. values = Repeat(W, T)
      BY DEF values, WrittenValues, W, T
    <2>4. skip(n) = (IF T = 1 THEN 0 ELSE Len(W))
      BY <2>1 DEF skip, T
    <2>5. /\ \A k \in 1..l : values[k] = W[k]
          /\ \A k \in 1..l : values[skip(n) + k] = W[k]
      BY <2>1, <2>2, <2>3, <2>4
    <2>6. QED
      BY <2>5 DEF W
  <1>6. skip(n) \in {0, l} /\ skip(m) \in {0, skip(n)}
    <2>1. CASE l = 0
      BY <2>1
    <2>2. CASE l # 0
      <3>1. F # <<>>
        BY <2>2
      <3>2. Times(o, m) <= Times(o, n)
        BY <3>1 DEF Times
      <3>3. QED
        BY <3>2, <1>3
    <2>3. QED
      BY <2>1, <2>2
  <1>7. /\ Matches(fields, values) /\ data = ObjectBytes(id, fields, values)
        /\ Registered(o.type, m) = others /\ id \in Nat
    BY <1>1, WrittenMatches, ExchangeAssumption
  <1>8. /\ data \in Seq(ByteValues)
        /\ TypesAt(data) = {o.type} /\ TypeAt(data) = o.type
    BY TypeIsRead
  <1> DEFINE L == skip(m) + l
  <1>9. L \in Nat /\ L <= Len(fields) /\ Len(others) = L /\ Len(fields) \in Nat
    <2> HIDE DEF skip, l, fields, others, F
    <2>1. QED
      BY <1>2, <1>4, <1>6
  <1>10. PICK at : FieldPlaces(at, id, fields, values)
    <2> HIDE DEF fields, values, id
    <2>1. QED
      BY <1>7, ObjectBytesType
  <1>11. PICK read : Reading(read, others, data) /\ ObjectAt(others, data) = read[L]
    <2> HIDE DEF others, data, L
    <2>1. QED
      BY <1>9, ObjectAtReads
  <1>12. \A k \in 1..L : others[k] = fields[k] /\ fields[k].kind # "string"
    <2>1. ASSUME NEW k \in 1..L PROVE others[k] = fields[k] /\ fields[k].kind # "string"
      <3> HIDE DEF skip, l, fields, others, F
      <3>1. CASE k <= l
        <4>1. k \in 1..l
          BY <3>1, <1>2, <1>6
        <4>2. QED
          BY <4>1, <1>2, <1>4
      <3>2. CASE ~(k <= l)
        <4>1. skip(m) = l /\ k - l \in 1..l /\ k = l + (k - l)
          BY <3>2, <1>2, <1>6
        <4>2. skip(n) = l
          BY <4>1, <1>6
        <4> DEFINE j == k - l
        <4>3. j \in 1..l /\ k = l + j
          BY <4>1
        <4> HIDE DEF j
        <4>4. fields[l + j] = F[j] /\ others[l + j] = F[j] /\ F[j].kind # "string"
          BY <4>1, <4>2, <4>3, <1>2, <1>4
        <4>5. QED
          BY <4>3, <4>4
      <3>3. QED
        BY <3>1, <3>2
    <2>2. QED
      BY <2>1
  <1> DEFINE field(k) == FieldAt(others[k], data, read[k - 1].offset)
  <1>13. read[L].offset = at[L] /\ \A k \in 1..L : field(k).value = values[k]
    <2> HIDE DEF others, data, L, fields, values, id
    <2>1. HoldsAt(data, 0, ObjectBytes(id, fields, values))
      BY <1>7, <1>8, HoldsInLonger
    <2>2. L \in 0..Len(fields) /\ L <= Len(others) /\ Len(others) \in Nat /\ L \in 0..L
      BY <1>9
    <2>3. QED
      BY <2>1, <2>2, <1>7, <1>8, <1>10, <1>11, <1>12, FieldsAreRead
  <1>14. ReadEnd(data, m) <= Len(data)
    <2>1. ReadEnd(data, m) = at[L]
      BY <1>7, <1>8, <1>11, <1>13 DEF ReadEnd
    <2>2. at[L] <= Len(data)
      <3> HIDE DEF others, data, L, fields, values, id
      <3>1. at \in [0..Len(fields) -> 0..Len(data)]
        BY <1>7, <1>10 DEF FieldPlaces
      <3>2. L \in 0..Len(fields)
        BY <1>9
      <3>3. at[L] \in 0..Len(data)
        BY <3>1, <3>2
      <3>4. QED
        BY <3>3, <1>8
    <2>3. QED
      BY <2>1, <2>2
  <1>15. read[L].values = [k \in 1..L |-> values[k]]
    <2> HIDE DEF others, data, L, values
    <2>1. L \in 0..Len(others) /\ Len(others) \in Nat
      BY <1>9
    <2>2. read[L].values = [k \in 1..L |-> field(k).value]
      BY <2>1, <1>11, ValuesRead
    <2> HIDE DEF field
    <2>3. QED
      BY <2>2, <1>13
  <1> DEFINE got == ObjectAt(Registered(o.type, m), data).values
  <1>16. got = [k \in 1..L |-> values[k]]
    BY <1>7, <1>11, <1>15
  <1>17. SubSeq(got, Len(got) - Len(Fields[o.type]) + 1, Len(got)) = o.values
    <2> HIDE DEF got, values
    <2>1. Len(got) = L
      BY <1>9, <1>16
    <2>2. L - l = skip(m) /\ skip(m) \in 0..L /\ L - skip(m) = l
      <3> HIDE DEF skip, l, fields, others, F
      <3>1. QED
        BY <1>2, <1>6
    <2>3. SubSeq(got, skip(m) + 1, L) = [i \in 1..L - skip(m) |-> values[skip(m) + i]]
      <3> DEFINE a == skip(m)
      <3>1. a \in 0..L /\ L \in a..L /\ L \in Nat
        <4> HIDE DEF skip, l
        <4>1. QED
          BY <1>9, <2>2
      <3> HIDE DEF a, L
      <3>2. SubSeq(got, a + 1, L) = [i \in 1..L - a |-> values[a + i]]
        BY <3>1, <1>16, PartOf
      <3>3. QED
        BY <3>2 DEF a
    <2>4. \A i \in 1..l : values[skip(m) + i] = o.values[i]
      <3>1. CASE skip(m) = 0
        BY <3>1, <1>5, <1>2
      <3>2. CASE skip(m) = skip(n)
        BY <3>2, <1>5
      <3>3. QED
        BY <3>1, <3>2, <1>6
    <2>5. o.values = [i \in 1..l |-> o.values[i]]
      BY <1>1
    <2> HIDE DEF skip, L
    <2>6. [i \in 1..L - skip(m) |-> values[skip(m) + i]] = o.values
      BY <2>2, <2>4, <2>5
    <2>7. QED
      BY <2>1, <2>2, <2>3, <2>6
  <1>18. Deserialize(data, m) =
           [type |-> o.type,
            values |-> SubSeq(got, Len(got) - Len(Fields[o.type]) + 1, Len(got))]
    BY <1>8 DEF Deserialize
  <1>19. Deserialize(data, m) = o
    BY <1>1, <1>17, <1>18
  <1>20. QED
    BY <1>14, <1>19

-----------------------------------------------------------------------------
\* A string is read with a length that is not larger than its own, so that
\* reading a Text ends inside of it, too.
LEMMA TextIsInside ==
  ASSUME NEW o, HasFields(o), o.type = "Text", NEW n \in {1, 2}, NEW m \in {1, 2}
  PROVE  /\ ReadEnd(Serialize(o, n), m) <= Len(Serialize(o, n))
         /\ Deserialize(Serialize(o, n), m).values[1] = o.values[1]
  <1> DEFINE data == Serialize(o, n)
             text == <<Uint32, String, Uint32>>
             values == o.values
             id == TypeIds[o.type]
             V == {o.values[i] : i \in DOMAIN o.values}
  <1>1. /\ Fields[o.type] = text /\ o.type \in Types /\ o.type \notin ProtocolTypes
        /\ Len(text) = 3
    BY DEF Fields, Types, ProtocolTypes
  <1>2. values \in Seq(V) /\ Len(values) = 3
    BY <1>1 DEF HasFields, IsSeq
  <1>3. WrittenFields(o, n) = text /\ WrittenValues(o, n) = values /\ Registered(o.type, m) = text
    BY <1>1 DEF WrittenFields, WrittenValues, Times, Repeat, Registered
  <1>4. Matches(text, values) /\ data = ObjectBytes(id, text, values)
    BY <1>3, WrittenMatches
  <1>5. id \in Nat
    BY <1>1, ExchangeAssumption
  <1>6. data \in Seq(ByteValues) /\ TypesAt(data) = {o.type} /\ TypeAt(data) = o.type
    BY TypeIsRead
  <1>7. /\ Uint32.kind = "element" /\ String.kind = "string"
        /\ Uint32.members \in Seq(NumberTypes) /\ String.members \in Seq(NumberTypes)
        /\ text[1] = Uint32 /\ text[2] = String /\ text[3] = Uint32
    BY DEF Uint32, String, Element, Number, NumberTypes
  <1>8. \A k \in 1..3 : IsField(text[k]) /\ IsValue(text[k], values[k])
    BY <1>1, <1>4 DEF Matches
  <1> HIDE DEF data, text, id, values
  <1>9. PICK at : FieldPlaces(at, id, text, values)
    BY <1>4, <1>5, ObjectBytesType
  <1>10. PICK read : Reading(read, text, data) /\ ObjectAt(text, data) = read[3]
    <2>1. Len(text) \in Nat
      BY <1>1
    <2>2. QED
      BY <1>1, <2>1, ObjectAtReads
  <1>11. HoldsAt(data, 0, ObjectBytes(id, text, values))
    BY <1>4, <1>6, HoldsInLonger
  <1>12. read[1].offset = at[1] /\ FieldAt(text[1], data, read[0].offset).value = values[1]
    <2>1. 1 \in 0..Len(text) /\ 1 <= Len(text) /\ Len(text) \in Nat /\ 1 \in 0..1
          /\ 1 \in 1..1 /\ 1 - 1 = 0
      BY <1>1
    <2>2. \A k \in 1..1 : text[k] = text[k] /\ text[k].kind # "string"
      BY <1>7
    <2>3. QED
      BY <2>1, <2>2, <1>4, <1>5, <1>6, <1>9, <1>10, <1>11, FieldsAreRead
  <1>13. /\ at \in [0..3 -> 0..Len(data)] /\ Len(data) = at[3]
         /\ \A k \in 1..3 : /\ at[k] = at[k - 1] + Len(FieldBytes(text[k], values[k]))
                            /\ HoldsAt(data, at[k - 1], FieldBytes(text[k], values[k]))
    BY <1>1, <1>4, <1>9 DEF FieldPlaces
  <1>14. /\ at[1] \in Nat /\ at[2] \in Nat /\ at[3] \in Nat /\ Len(data) \in Nat
         /\ HoldsAt(data, at[1], FieldBytes(String, values[2]))
         /\ at[2] = at[1] + Len(FieldBytes(String, values[2]))
         /\ at[3] = at[2] + Len(FieldBytes(Uint32, values[3]))
    <2>1. 2 \in 1..3 /\ 3 \in 1..3 /\ 2 - 1 = 1 /\ 3 - 1 = 2
          /\ 1 \in 0..3 /\ 2 \in 0..3 /\ 3 \in 0..3
      OBVIOUS
    <2>2. Len(data) \in Nat
      BY <1>6
    <2>3. at[1] \in Nat /\ at[2] \in Nat /\ at[3] \in Nat
      BY <1>13, <2>1, <2>2
    <2>4. QED
      BY <1>7, <1>13, <2>1, <2>2, <2>3
  <1>15. /\ read[2].offset = FieldAt(String, data, at[1]).offset
         /\ read[3].offset = FieldAt(Uint32, data, read[2].offset).offset
         /\ read[3].values[1] = values[1]
    <2>1. /\ 1 \in 1..3 /\ 2 \in 1..3 /\ 3 \in 1..3 /\ 3 \in 0..3
          /\ 1 - 1 = 0 /\ 2 - 1 = 1 /\ 3 - 1 = 2
          /\ Len(text) \in Nat
      BY <1>1
    <2>2. \A k \in 1..3 : read[k].offset = FieldAt(text[k], data, read[k - 1].offset).offset
      <3>1. \A k \in 1..Len(text) :
              read[k].offset = FieldAt(text[k], data, read[k - 1].offset).offset
        BY <1>10, <2>1, ValuesRead
      <3>2. QED
        BY <3>1, <1>1
    <2>3. read[3].values = [k \in 1..3 |-> FieldAt(text[k], data, read[k - 1].offset).value]
      <3>1. 3 \in 0..Len(text)
        BY <1>1, <2>1
      <3>2. QED
        <4>1. \A j \in 0..Len(text) :
                read[j].values = [k \in 1..j |-> FieldAt(text[k], data, read[k - 1].offset).value]
          BY <1>10, <2>1, ValuesRead
        <4>2. QED
          BY <3>1, <4>1
    <2>4. read[3].values[1] = FieldAt(text[1], data, read[0].offset).value
      BY <2>1, <2>3
    <2>5. QED
      BY <2>1, <2>2, <2>4, <1>7, <1>12
  <1> DEFINE v == values[2]
             width == ElementSize(String.members)
             bytes == FieldBytes(String, v)
             size32 == NumberAt("uint32_t", data, at[1])
             four == Sizeof["uint32_t"]
             eight == Sizeof["size_t"]
  <1>16. /\ Len(v) \in Nat /\ width \in Nat /\ four \in Nat /\ eight \in Nat /\ four <= eight
         /\ bytes \in Seq(ByteValues) /\ Len(bytes) = eight + Len(v) * width
         /\ HoldsAt(bytes, 0, NumberBytes("size_t", Len(v)))
    <2>1. IsField(String) /\ IsValue(String, v) /\ String.kind # "element"
      BY <1>7, <1>8
    <2>2. four \in Nat /\ eight \in Nat /\ four <= eight
      BY SizeofAssumption DEF NumberTypes
    <2>3. QED
      BY <2>1, <2>2, FieldBytesType
  <1> HIDE DEF v, width, bytes, four, eight
  <1>17. size32 \in 0..Len(v)
    <2>1. HoldsAt(data, at[1] + 0, NumberBytes("size_t", Len(v)))
      <3>1. NumberBytes("size_t", Len(v)) \in Seq(ByteValues) /\ 0 \in Nat
        BY <1>16, NumberBytesType DEF NumberTypes
      <3>2. HoldsAt(data, at[1], bytes)
        BY <1>14 DEF bytes, v
      <3>3. QED
        BY <3>1, <3>2, <1>6, <1>14, <1>16, HoldsWithin
    <2>2. HoldsAt(data, at[1], NumberBytes("size_t", Len(v)))
      BY <2>1, <1>14
    <2>3. "size_t" \in NumberTypes /\ "uint32_t" \in NumberTypes
      BY DEF NumberTypes
    <2>4. Sizeof["uint32_t"] <= Sizeof["size_t"]
      BY <1>16 DEF four, eight
    <2>5. QED
      BY <2>2, <2>3, <2>4, <1>6, <1>14, <1>16, NumberIsRead
  <1> HIDE DEF size32
  <1>18. size32 * width \in Nat /\ size32 * width <= Len(v) * width /\ Len(v) * width \in Nat
    <2>1. Len(v) - size32 \in Nat /\ size32 \in Nat
      BY <1>16, <1>17
    <2>2. size32 * width \in Nat /\ Len(v) * width \in Nat /\ (Len(v) - size32) * width \in Nat
      BY <2>1, <1>16
    <2>3. Len(v) * width = size32 * width + (Len(v) - size32) * width
      BY <2>1, <1>16
    <2> DEFINE a == size32 * width
               b == Len(v) * width
               c == (Len(v) - size32) * width
    <2>4. a \in Nat /\ b \in Nat /\ c \in Nat /\ b = a + c
      BY <2>2, <2>3
    <2> HIDE DEF a, b, c
    <2>5. a \in Nat /\ a <= b /\ b \in Nat
      BY <2>4
    <2>6. QED
      BY <2>5 DEF a, b
  <1> DEFINE a == size32 * width
             all == Len(v) * width
             end == at[1] + four + a
  <1>19. a \in Nat /\ a <= all /\ all \in Nat
    BY <1>18
  <1>20. at[2] = at[1] + (eight + all)
    BY <1>14, <1>16 DEF bytes, v
  <1> HIDE DEF a, all
  <1>21. end \in Nat /\ end <= at[2] /\ at[2] <= Len(data)
    <2>1. end \in Nat /\ end <= at[2]
      <3> DEFINE one == at[1]
                 two == at[2]
      <3>1. /\ one \in Nat /\ four \in Nat /\ eight \in Nat /\ a \in Nat /\ all \in Nat
            /\ four <= eight /\ a <= all /\ two = one + (eight + all)
        BY <1>14, <1>16, <1>19, <1>20
      <3> HIDE DEF one, two
      <3>2. one + four + a \in Nat /\ one + four + a <= two
        BY <3>1
      <3>3. QED
        BY <3>2 DEF one, two
    <2>2. at[2] <= Len(data)
      <3>1. 2 \in 0..3
        OBVIOUS
      <3>2. QED
        BY <1>13, <3>1, <1>14
    <2>3. QED
      BY <2>1, <2>2
  <1>22. FieldAt(String, data, at[1]).offset = end
    <2>1. SizeType(String) = "uint32_t"
      BY <1>7 DEF SizeType
    <2>2. size32 # Outside
      BY <1>16, <1>17, SizeofAssumption
    <2>3. ~(end > Len(data))
      BY <1>14, <1>21
    <2>4. FieldAt(String, data, at[1]) = ElementsAt(String, data, at[1])
      BY <1>7 DEF FieldAt
    <2>5. ElementsAt(String, data, at[1]).offset = end
      BY <2>1, <2>2, <2>3 DEF ElementsAt, size32, four, a, width
    <2>6. QED
      BY <2>4, <2>5
  <1>23. read[3].offset = end + ElementSize(Uint32.members)
    BY <1>7, <1>15, <1>22 DEF FieldAt
  <1>24. ElementSize(Uint32.members) \in Nat /\ at[3] = at[2] + ElementSize(Uint32.members)
    <2>1. IsElement(Uint32.members, values[3]) /\ IsField(Uint32) /\ IsValue(Uint32, values[3])
      <3>1. 3 \in 1..3
        OBVIOUS
      <3>2. IsField(Uint32) /\ IsValue(Uint32, values[3])
        BY <1>7, <1>8, <3>1
      <3>3. QED
        BY <3>2, <1>7 DEF IsValue
    <2>2. FieldBytes(Uint32, values[3]) = ElementBytes(Uint32.members, values[3])
      BY <2>1, <1>7, FieldBytesType
    <2>3. QED
      BY <2>1, <2>2, <1>7, <1>14, ElementBytesType
  <1>25. read[3].offset <= Len(data)
    <2> DEFINE rest == ElementSize(Uint32.members)
               two == at[2]
               three == at[3]
               last == read[3].offset
    <2>1. /\ last = end + rest /\ three = two + rest /\ rest \in Nat /\ two \in Nat
          /\ end \in Nat /\ end <= two /\ Len(data) = three
      BY <1>13, <1>14, <1>21, <1>23, <1>24
    <2> HIDE DEF rest, two, three, last, end
    <2>2. last <= Len(data)
      BY <2>1
    <2>3. QED
      BY <2>2 DEF last
  <1>26. ReadEnd(data, m) = read[3].offset
    BY <1>3, <1>6, <1>10 DEF ReadEnd
  <1>27. Deserialize(data, m).values[1] = values[1]
    <2> DEFINE got == ObjectAt(Registered(o.type, m), data).values
    <2>1. got = read[3].values
      BY <1>3, <1>10
    <2>2. got = [k \in 1..3 |-> FieldAt(text[k], data, read[k - 1].offset).value]
      <3>1. Len(text) \in Nat /\ 3 \in 0..Len(text)
        BY <1>1
      <3>2. read[3].values = [k \in 1..3 |-> FieldAt(text[k], data, read[k - 1].offset).value]
        <4>1. \A j \in 0..Len(text) :
                read[j].values = [k \in 1..j |-> FieldAt(text[k], data, read[k - 1].offset).value]
          BY <1>10, <3>1, ValuesRead
        <4>2. QED
          BY <3>1, <4>1
      <3>3. QED
        BY <2>1, <3>2
    <2>3. Deserialize(data, m).values =
            SubSeq(got, Len(got) - Len(Fields[o.type]) + 1, Len(got))
      BY <1>6 DEF Deserialize
    <2> HIDE DEF got
    <2>4. Len(got) = 3 /\ Len(Fields[o.type]) = 3
      BY <1>1, <2>2
    <2> DEFINE g == [k \in 1..3 |-> FieldAt(text[k], data, read[k - 1].offset).value]
    <2>5. SubSeq(got, 1, 3) = [i \in 1..3 |-> got[i]]
      <3>1. got = [i \in 1..3 |-> got[i]]
        BY <2>2
      <3>2. 0 \in 0..3 /\ 3 \in 0..3 /\ 3 \in Nat
        OBVIOUS
      <3>3. SubSeq(got, 0 + 1, 3) = [i \in 1..3 - 0 |-> got[0 + i]]
        BY <3>1, <3>2, PartOf
      <3>4. 0 + 1 = 1 /\ 3 - 0 = 3 /\ \A i \in 1..3 : 0 + i = i
        OBVIOUS
      <3>5. QED
        BY <3>3, <3>4
    <2>6. SubSeq(got, Len(got) - Len(Fields[o.type]) + 1, Len(got)) = SubSeq(got, 1, 3)
      <3>1. 3 - 3 + 1 = 1
        OBVIOUS
      <3>2. QED
        BY <2>4, <3>1
    <2>7. SubSeq(got, 1, 3)[1] = got[1]
      <3>1. 1 \in 1..3
        OBVIOUS
      <3>2. QED
        BY <2>5, <3>1
    <2>8. got[1] = values[1]
      BY <2>1, <1>15
    <2>9. QED
      BY <2>3, <2>6, <2>7, <2>8
  <1>28. QED
    BY <1>25, <1>26, <1>27 DEF data, values

-----------------------------------------------------------------------------
\* What is left of data behind the first p bytes.
Behind(data, p) == SubSeq(data, p + 1, Len(data))

\* What the data holds is in what is left of it, so much further in front.
LEMMA BehindHolds ==
  ASSUME NEW S, NEW data \in Seq(S), NEW p \in 0..Len(data)
  PROVE  /\ Behind(data, p) \in Seq(S) /\ Len(Behind(data, p)) = Len(data) - p
         /\ \A i \in 1..Len(data) - p : Behind(data, p)[i] = data[p + i]
         /\ \A q \in Nat, b \in Seq(S) :
              HoldsAt(data, p + q, b) =>
                /\ HoldsAt(Behind(data, p), q, b)
                /\ SubSeq(Behind(data, p), q + 1, q + Len(b)) = b
         /\ \A q \in 0..Len(data) - p :
              SubSeq(Behind(data, p), q + 1, Len(Behind(data, p))) = Behind(data, p + q)
  <1> DEFINE rest == Behind(data, p)
             n == Len(data)
  <1>1. n \in Nat /\ p \in Nat /\ n - p \in Nat
    OBVIOUS
  <1>2. rest = [i \in 1..n - p |-> data[p + i]]
    BY <1>1 DEF Behind
  <1>3. \A i \in 1..n - p : p + i \in 1..n /\ data[p + i] \in S
    BY <1>1
  <1>4. rest \in Seq(S) /\ Len(rest) = n - p
    <2>1. rest \in [1..n - p -> S]
      BY <1>2, <1>3
    <2> HIDE DEF rest, n
    <2>2. rest \in Seq(S)
      BY <2>1, <1>1
    <2>3. Len(rest) = n - p
      BY <2>2, <2>1, <1>1
    <2>4. QED
      BY <2>2, <2>3
  <1>5. \A i \in 1..n - p : rest[i] = data[p + i]
    BY <1>2
  <1> HIDE DEF rest, n
  <1>6. ASSUME NEW q \in Nat, NEW b \in Seq(S), HoldsAt(data, p + q, b)
        PROVE  HoldsAt(rest, q, b) /\ SubSeq(rest, q + 1, q + Len(b)) = b
    <2>1. Len(b) \in Nat /\ p + q + Len(b) <= n
      BY <1>6 DEF HoldsAt, n
    <2>2. \A j \in 1..Len(b) : q + j \in 1..n - p /\ p + (q + j) = p + q + j
      BY <1>1, <2>1
    <2>3. \A j \in 1..Len(b) : rest[q + j] = b[j]
      BY <1>5, <1>6, <2>2 DEF HoldsAt
    <2>4. q + Len(b) <= Len(rest)
      BY <1>1, <1>4, <2>1
    <2>5. HoldsAt(rest, q, b)
      BY <2>3, <2>4 DEF HoldsAt
    <2>6. SubSeq(rest, q + 1, q + Len(b)) = [j \in 1..Len(b) |-> rest[q + j]]
      BY <1>4, <2>1, <2>4
    <2>7. b = [j \in 1..Len(b) |-> b[j]]
      OBVIOUS
    <2>8. QED
      BY <2>3, <2>5, <2>6, <2>7
  <1>7. ASSUME NEW q \in 0..n - p
        PROVE  SubSeq(rest, q + 1, Len(rest)) = Behind(data, p + q)
    <2>1. q \in Nat /\ n - p - q \in Nat /\ n - (p + q) = n - p - q /\ p + q \in Nat
      BY <1>1
    <2>2. SubSeq(rest, q + 1, n - p) = [j \in 1..n - p - q |-> rest[q + j]]
      BY <1>1, <1>4, <2>1
    <2>3. Behind(data, p + q) = [j \in 1..n - (p + q) |-> data[p + q + j]]
      BY <1>1, <2>1 DEF Behind, n
    <2>4. \A j \in 1..n - p - q : rest[q + j] = data[p + q + j]
      <3>1. \A j \in 1..n - p - q : q + j \in 1..n - p /\ p + (q + j) = p + q + j
        BY <1>1, <2>1
      <3>2. QED
        BY <3>1, <1>5
    <2>5. QED
      BY <1>4, <2>1, <2>2, <2>3, <2>4
  <1>8. QED
    BY <1>4, <1>5, <1>6, <1>7 DEF rest, n

-----------------------------------------------------------------------------
\* A component with its size before it.
LEMMA FramedType ==
  ASSUME NEW c, IsComponent(c)
  PROVE  LET s == Serialize(c, 1)
             b == Framed(s)
         IN /\ s \in Seq(ByteValues) /\ b \in Seq(ByteValues)
            /\ Len(b) = HeaderSize + Len(s) /\ HeaderSize \in Nat /\ Len(s) \in Nat
            /\ HoldsAt(b, 0, NumberBytes("uint32_t", Len(s)))
            /\ HoldsAt(b, HeaderSize, s)
            /\ NumberBytes("uint32_t", Len(s)) \in Seq(ByteValues)
            /\ Deserialize(s, 1) = c
  <1> DEFINE s == Serialize(c, 1)
             number == NumberBytes("uint32_t", Len(s))
  <1>1. HasFields(c) /\ c.type # "Text" /\ 1 \in {1, 2}
    BY DEF IsComponent
  <1>2. s \in Seq(ByteValues)
    BY <1>1, TypeIsRead
  <1>3. Deserialize(s, 1) = c
    <2>1. 1 <= 1
      OBVIOUS
    <2>2. QED
      BY <1>1, <2>1, ObjectIsRead
  <1>4. HeaderSize = Sizeof["uint32_t"] /\ HeaderSize \in Nat /\ Len(s) \in Nat
    <2>1. HeaderSize = Sizeof["uint32_t"] /\ HeaderSize \in Nat
      BY ExchangeAssumption, FramingAssumption
    <2> HIDE DEF s
    <2>2. QED
      BY <2>1, <1>2
  <1>5. number \in Seq(ByteValues) /\ Len(number) = HeaderSize
    BY <1>4, NumberBytesType DEF NumberTypes
  <1>6. Framed(s) = number \o s
    BY DEF Framed
  <1> HIDE DEF s, number
  <1>7. number \o s \in Seq(ByteValues) /\ Len(number \o s) = HeaderSize + Len(s)
    BY <1>2, <1>5
  <1>8. HoldsAt(number \o s, 0, number)
    <2>1. HoldsAt(number, 0, number) /\ 0 \in Nat
      BY <1>5, HoldsInLonger
    <2>2. QED
      BY <2>1, <1>2, <1>5, HoldsInLonger
  <1>9. HoldsAt(number \o s, HeaderSize, s)
    BY <1>2, <1>5, HoldsInLonger
  <1>10. QED
    BY <1>2, <1>3, <1>4, <1>5, <1>6, <1>7, <1>8, <1>9 DEF s, number

\* One turn of the loop over the components reads the one that was written.
LEMMA ComponentIsRead ==
  ASSUME NEW data \in Seq(ByteValues), NEW p \in Nat, NEW c, IsComponent(c), NEW done,
         HoldsAt(data, p, Framed(Serialize(c, 1)))
  PROVE  ReadComponent([components |-> done, left |-> Behind(data, p)]) =
           [components |-> Append(done, c),
            left |-> Behind(data, p + Len(Framed(Serialize(c, 1))))]
  <1> DEFINE s == Serialize(c, 1)
             b == Framed(s)
             number == NumberBytes("uint32_t", Len(s))
             rest == Behind(data, p)
             end == HeaderSize + Len(s)
             read == [components |-> done, left |-> rest]
  <1>1. /\ s \in Seq(ByteValues) /\ b \in Seq(ByteValues) /\ number \in Seq(ByteValues)
        /\ Len(b) = end /\ HeaderSize \in Nat /\ Len(s) \in Nat
        /\ HoldsAt(b, 0, number) /\ HoldsAt(b, HeaderSize, s)
        /\ Deserialize(s, 1) = c
    BY FramedType
  <1>2. Fits("uint32_t", Len(s))
    BY DEF IsComponent
  <1>3. HoldsAt(data, p, b)
    OBVIOUS
  <1> HIDE DEF s, b
  <1>4. p + end <= Len(data) /\ p \in 0..Len(data) /\ Len(data) \in Nat /\ end \in Nat
        /\ end \in 0..Len(data) - p
    BY <1>1, <1>3 DEF HoldsAt
  <1> HIDE DEF number
  <1>5. HoldsAt(data, p + 0, number) /\ HoldsAt(data, p + HeaderSize, s) /\ 0 \in Nat
    BY <1>1, <1>3, HoldsWithin
  <1>6. /\ rest \in Seq(ByteValues) /\ Len(rest) = Len(data) - p
        /\ HoldsAt(rest, 0, number)
        /\ SubSeq(rest, HeaderSize + 1, end) = s
        /\ SubSeq(rest, end + 1, Len(rest)) = Behind(data, p + end)
    <2>1. rest \in Seq(ByteValues) /\ Len(rest) = Len(data) - p
      BY <1>4, BehindHolds
    <2>2. HoldsAt(rest, 0, number)
      BY <1>1, <1>4, <1>5, BehindHolds
    <2>3. SubSeq(rest, HeaderSize + 1, HeaderSize + Len(s)) = s
      BY <1>1, <1>4, <1>5, BehindHolds
    <2> HIDE DEF end
    <2>4. SubSeq(rest, end + 1, Len(rest)) = Behind(data, p + end)
      BY <1>4, BehindHolds
    <2>5. QED
      BY <2>1, <2>2, <2>3, <2>4 DEF end
  <1> HIDE DEF rest
  <1>7. NumberAt("uint32_t", rest, 0) = Len(s)
    <2>1. "uint32_t" \in NumberTypes /\ Sizeof["uint32_t"] <= Sizeof["uint32_t"]
      BY SizeofAssumption DEF NumberTypes
    <2>2. HoldsAt(rest, 0, NumberBytes("uint32_t", Len(s)))
      BY <1>6 DEF number
    <2>3. rest \in Seq(ByteValues) /\ Len(s) \in Nat /\ 0 \in Nat
      BY <1>1, <1>6
    <2> DEFINE size32 == Len(s)
    <2>4. /\ size32 \in Nat /\ Fits("uint32_t", size32)
          /\ HoldsAt(rest, 0, NumberBytes("uint32_t", size32))
      BY <1>2, <2>2, <2>3
    <2> HIDE DEF size32
    <2>5. NumberAt("uint32_t", rest, 0) = size32
      BY <2>1, <2>3, <2>4, NumberIsRead
    <2>6. QED
      BY <2>5 DEF size32
  <1>8. Len(s) # Outside /\ ~(end > Len(rest))
    BY <1>1, <1>4, <1>6, SizeofAssumption
  <1>9. read.left = rest /\ read.components = done
    OBVIOUS
  <1> HIDE DEF read
  <1>10. ReadComponent(read) = [components |-> Append(done, c), left |-> Behind(data, p + end)]
    BY <1>1, <1>6, <1>7, <1>8, <1>9 DEF ReadComponent
  <1>11. QED
    BY <1>1, <1>10 DEF read, rest, b, s

-----------------------------------------------------------------------------
\* A component of an entity with its header.
Part(e, k) == Framed(Serialize(e.components[k], 1))

\* Where the components of an entity are in its bytes.
ComponentPlaces(at, e) ==
  /\ at \in [0..Len(e.components) -> Nat]
  /\ at[0] = Sizeof["uint32_t"] + Sizeof["size_t"]
  /\ Len(EntityBytes(e)) = at[Len(e.components)]
  /\ \A k \in 1..Len(e.components) :
       at[k] = at[k - 1] + Len(Part(e, k)) /\ HoldsAt(EntityBytes(e), at[k - 1], Part(e, k))

\* The bytes of an entity: its id, how many components, and each of them.
LEMMA EntityBytesType ==
  ASSUME NEW e, IsEntity(e)
  PROVE  /\ EntityBytes(e) \in Seq(ByteValues)
         /\ HoldsAt(EntityBytes(e), 0, NumberBytes("uint32_t", e.id))
         /\ HoldsAt(EntityBytes(e), Sizeof["uint32_t"], NumberBytes("size_t", Len(e.components)))
         /\ \E at : ComponentPlaces(at, e)
  <1> DEFINE n == Len(e.components)
             ss == [i \in DOMAIN e.components |-> Framed(Serialize(e.components[i], 1))]
             A == NumberBytes("uint32_t", e.id)
             B == NumberBytes("size_t", n)
             C == FlattenSeq(ss)
             b == EntityBytes(e)
             four == Sizeof["uint32_t"]
             eight == Sizeof["size_t"]
             V == {e.components[i] : i \in DOMAIN e.components}
  <1>1. /\ n \in Nat /\ DOMAIN e.components = 1..n /\ e.id \in Nat
        /\ \A i \in 1..n : IsComponent(e.components[i])
    <2>1. e.components \in Seq(V)
      BY DEF IsEntity, IsSeq
    <2>2. n \in Nat /\ DOMAIN e.components = 1..n
      BY <2>1
    <2>3. QED
      BY <2>2 DEF IsEntity, Fits
  <1>2. /\ A \in Seq(ByteValues) /\ Len(A) = four /\ four \in Nat
        /\ B \in Seq(ByteValues) /\ Len(B) = eight /\ eight \in Nat
    BY <1>1, NumberBytesType DEF NumberTypes
  <1>3. \A k \in 1..n : ss[k] = Part(e, k) /\ Part(e, k) \in Seq(ByteValues)
    BY <1>1, FramedType DEF Part
  <1>4. ss \in Seq(Seq(ByteValues)) /\ Len(ss) = n
    <2>1. ss \in [1..n -> Seq(ByteValues)]
      BY <1>1, <1>3
    <2> HIDE DEF ss, n
    <2>2. QED
      BY <1>1, <2>1
  <1>5. b = (A \o B) \o C
    BY DEF EntityBytes
  <1> HIDE DEF A, B, ss, b, four, eight
  <1>6. C \in Seq(ByteValues)
    BY <1>4, Flattened
  <1>7. PICK f : Places(f, ss) /\ InPlaces(C, ss, f)
    BY <1>4, Flattened
  <1> HIDE DEF n, C
  <1>8. /\ f \in [0..n -> Nat] /\ f[0] = 0 /\ Len(C) = f[n]
        /\ \A k \in 1..n : f[k] = f[k - 1] + Len(Part(e, k)) /\ HoldsAt(C, f[k - 1], Part(e, k))
    BY <1>3, <1>4, <1>7 DEF Places, InPlaces
  <1> DEFINE AB == A \o B
  <1>9. AB \in Seq(ByteValues) /\ Len(AB) = four + eight
    BY <1>2
  <1>10. HoldsAt(AB, 0, A) /\ HoldsAt(AB, four, B) /\ 0 \in Nat
    <2>1. HoldsAt(A, 0, A)
      BY <1>2, HoldsInLonger
    <2>2. HoldsAt(AB, 0, A)
      <3>1. 0 \in Nat
        OBVIOUS
      <3>2. QED
        BY <1>2, <2>1, <3>1, HoldsInLonger
    <2>3. HoldsAt(AB, four, B)
      BY <1>2, HoldsInLonger
    <2>4. QED
      BY <2>2, <2>3
  <1> HIDE DEF AB
  <1>11. b = AB \o C
    BY <1>5 DEF AB
  <1>12. b \in Seq(ByteValues) /\ Len(b) = (four + eight) + f[n]
    <2>1. AB \o C \in Seq(ByteValues) /\ Len(AB \o C) = Len(AB) + Len(C)
      BY <1>6, <1>9
    <2>2. QED
      BY <2>1, <1>8, <1>9, <1>11
  <1>13. HoldsAt(b, 0, A) /\ HoldsAt(b, four, B)
    BY <1>2, <1>6, <1>9, <1>10, <1>11, HoldsInLonger
  <1> DEFINE at == [k \in 0..n |-> (four + eight) + f[k]]
  <1>14. ComponentPlaces(at, e)
    <2>1. at[0] = four + eight /\ Len(b) = at[n] /\ at \in [0..n -> Nat]
      BY <1>1, <1>2, <1>8, <1>12 DEF n
    <2>2. ASSUME NEW k \in 1..n
          PROVE  at[k] = at[k - 1] + Len(Part(e, k)) /\ HoldsAt(b, at[k - 1], Part(e, k))
      <3>1. k - 1 \in 0..n /\ k \in 0..n
        BY <1>1 DEF n
      <3>2. /\ f[k - 1] \in Nat /\ f[k] = f[k - 1] + Len(Part(e, k))
            /\ HoldsAt(C, f[k - 1], Part(e, k)) /\ Part(e, k) \in Seq(ByteValues)
        BY <3>1, <1>3, <1>8
      <3>3. at[k - 1] = (four + eight) + f[k - 1] /\ at[k] = (four + eight) + f[k]
        BY <3>1
      <3>4. Len(Part(e, k)) \in Nat
        BY <3>2
      <3> HIDE DEF at
      <3>5. at[k] = at[k - 1] + Len(Part(e, k))
        BY <3>2, <3>3, <3>4, <1>2
      <3>6. HoldsAt(AB \o C, Len(AB) + f[k - 1], Part(e, k))
        BY <3>2, <1>6, <1>9, HoldsInLonger
      <3>7. QED
        BY <3>3, <3>5, <3>6, <1>9, <1>11
    <2> HIDE DEF at
    <2>3. QED
      BY <2>1, <2>2 DEF ComponentPlaces, n, b, four, eight
  <1> HIDE DEF at
  <1>15. QED
    BY <1>12, <1>13, <1>14 DEF b, A, B, n, four

-----------------------------------------------------------------------------
\* One turn of the loop over the entities reads the one that was written, with
\* all of its components.
LEMMA EntityIsRead ==
  ASSUME NEW data \in Seq(ByteValues), NEW p \in Nat, NEW e, IsEntity(e), NEW done,
         HoldsAt(data, p, EntityBytes(e))
  PROVE  /\ ReadEntity([world |-> done, left |-> Behind(data, p)]) =
              [world |-> Append(done, e), left |-> Behind(data, p + Len(EntityBytes(e)))]
         /\ Len(EntityBytes(e)) \in Nat \ {0}
  <1> DEFINE comps == e.components
             n == Len(comps)
             b == EntityBytes(e)
             four == Sizeof["uint32_t"]
             eight == Sizeof["size_t"]
             V == {comps[i] : i \in DOMAIN comps}
             left == Behind(data, p)
             read == [world |-> done, left |-> left]
             rest == SubSeq(left, four + eight + 1, Len(left))
  <1>1. /\ n \in Nat /\ DOMAIN comps = 1..n /\ comps \in Seq(V)
        /\ Fits("uint32_t", e.id) /\ Fits("size_t", n)
        /\ e = [id |-> e.id, components |-> comps]
        /\ \A i \in 1..n : IsComponent(comps[i])
    <2>1. comps \in Seq(V)
      BY DEF IsEntity, IsSeq
    <2>2. n \in Nat /\ DOMAIN comps = 1..n
      BY <2>1
    <2>3. QED
      BY <2>1, <2>2 DEF IsEntity
  <1>2. e.id \in Nat
    BY <1>1 DEF Fits
  <1>3. four \in Nat \ {0} /\ eight \in Nat \ {0}
    BY SizeofAssumption DEF NumberTypes
  <1>4. /\ b \in Seq(ByteValues)
        /\ HoldsAt(b, 0, NumberBytes("uint32_t", e.id))
        /\ HoldsAt(b, four, NumberBytes("size_t", n))
    BY EntityBytesType
  <1>5. PICK at : ComponentPlaces(at, e)
    BY EntityBytesType
  <1>6. /\ at \in [0..n -> Nat] /\ at[0] = four + eight /\ Len(b) = at[n]
        /\ \A k \in 1..n : at[k] = at[k - 1] + Len(Part(e, k)) /\ HoldsAt(b, at[k - 1], Part(e, k))
    BY <1>5 DEF ComponentPlaces
  <1>7. \A k \in 1..n : Part(e, k) \in Seq(ByteValues) /\ Len(Part(e, k)) \in Nat
    <2>1. \A k \in 1..n : Part(e, k) \in Seq(ByteValues)
      BY <1>1, FramedType DEF Part
    <2>2. QED
      BY <2>1
  <1>8. HoldsAt(data, p, b)
    OBVIOUS
  <1> HIDE DEF b, four, eight, n, comps
  <1>9. Len(b) \in Nat /\ Len(data) \in Nat /\ p + Len(b) <= Len(data) /\ p \in 0..Len(data)
    <2>1. Len(b) \in Nat /\ Len(data) \in Nat
      BY <1>4
    <2>2. QED
      BY <2>1, <1>8 DEF HoldsAt
  <1>10. NumberBytes("uint32_t", e.id) \in Seq(ByteValues)
         /\ NumberBytes("size_t", n) \in Seq(ByteValues) /\ Len(NumberBytes("size_t", n)) = eight
    BY <1>1, <1>2, NumberBytesType DEF NumberTypes, eight
  <1>11. four + eight <= Len(b)
    <2>1. four + Len(NumberBytes("size_t", n)) <= Len(b)
      BY <1>4 DEF HoldsAt
    <2>2. QED
      BY <2>1, <1>10
  <1>12. /\ left \in Seq(ByteValues) /\ Len(left) = Len(data) - p
         /\ HoldsAt(left, 0, NumberBytes("uint32_t", e.id))
         /\ HoldsAt(left, four, NumberBytes("size_t", n))
    <2>1. HoldsAt(data, p + 0, NumberBytes("uint32_t", e.id))
      <3>1. 0 \in Nat
        OBVIOUS
      <3>2. QED
        BY <3>1, <1>4, <1>8, <1>10, HoldsWithin
    <2>2. HoldsAt(data, p + four, NumberBytes("size_t", n))
      BY <1>3, <1>4, <1>8, <1>10, HoldsWithin
    <2>3. HoldsAt(left, 0, NumberBytes("uint32_t", e.id))
      <3>1. 0 \in Nat
        OBVIOUS
      <3>2. QED
        BY <3>1, <1>9, <1>10, <2>1, BehindHolds
    <2>4. HoldsAt(left, four, NumberBytes("size_t", n))
      BY <1>3, <1>9, <1>10, <2>2, BehindHolds
    <2>5. left \in Seq(ByteValues) /\ Len(left) = Len(data) - p
      BY <1>9, BehindHolds
    <2>6. QED
      BY <2>3, <2>4, <2>5
  <1>13. rest = Behind(data, p + (four + eight))
    <2> DEFINE q == four + eight
    <2>1. q \in 0..Len(data) - p
      BY <1>3, <1>9, <1>11
    <2> HIDE DEF q
    <2>2. SubSeq(left, q + 1, Len(left)) = Behind(data, p + q)
      BY <2>1, <1>9, BehindHolds
    <2>3. QED
      BY <2>2 DEF q
  <1> HIDE DEF left, rest
  <1>14. NumberAt("uint32_t", left, 0) = e.id
    <2>1. "uint32_t" \in NumberTypes /\ Sizeof["uint32_t"] <= Sizeof["uint32_t"] /\ 0 \in Nat
      BY SizeofAssumption DEF NumberTypes
    <2>2. QED
      BY <2>1, <1>1, <1>2, <1>12, NumberIsRead
  <1>15. NumberAt("size_t", left, four) = n
    <2>1. "size_t" \in NumberTypes /\ Sizeof["size_t"] <= Sizeof["size_t"]
      BY SizeofAssumption DEF NumberTypes
    <2>2. four \in Nat
      BY <1>3
    <2>3. QED
      BY <2>1, <2>2, <1>1, <1>12, NumberIsRead
  <1>16. left # <<>> /\ n # Outside
    <2>1. Len(left) # 0
      BY <1>3, <1>9, <1>11, <1>12
    <2>2. QED
      BY <2>1, <1>1, SizeofAssumption
  <1> DEFINE first == [components |-> <<>>, left |-> rest]
             Body(f) == [i \in 0..n |-> IF i = 0 THEN first ELSE ReadComponent(f[i - 1])]
             turn == CHOOSE f : f = Body(f)
             upto(i) == [j \in 1..i |-> comps[j]]
             mine == [i \in 0..n |-> [components |-> upto(i), left |-> Behind(data, p + at[i])]]
  <1>17. ASSUME NEW i \in 1..n
         PROVE  ReadComponent(mine[i - 1]) = mine[i]
    <2>1. i - 1 \in 0..n /\ i \in 0..n /\ i - 1 \in Nat /\ (i - 1) + 1 = i
      BY <1>1
    <2> DEFINE place == p + at[i - 1]
               c == comps[i]
    <2>2. place \in Nat /\ at[i] = at[i - 1] + Len(Part(e, i)) /\ at[i - 1] \in Nat
          /\ HoldsAt(b, at[i - 1], Part(e, i))
      BY <1>6, <2>1
    <2>3. HoldsAt(data, place, Part(e, i))
      BY <1>4, <1>7, <1>8, <2>2, HoldsWithin
    <2>4. IsComponent(c) /\ Part(e, i) = Framed(Serialize(c, 1))
      BY <1>1 DEF Part, comps
    <2>5. place + Len(Part(e, i)) = p + at[i]
      BY <1>7, <2>2
    <2>6. mine[i - 1] = [components |-> upto(i - 1), left |-> Behind(data, place)]
          /\ mine[i] = [components |-> upto(i), left |-> Behind(data, p + at[i])]
      BY <2>1
    <2> HIDE DEF mine, place
    <2>7. Append(upto(i - 1), c) = upto(i)
      <3> DEFINE h == upto(i - 1)
      <3>1. h = [j \in 1..i - 1 |-> comps[j]] /\ c = comps[(i - 1) + 1]
        BY <2>1
      <3> HIDE DEF h, c
      <3>2. Append(h, c) = [j \in 1..(i - 1) + 1 |-> comps[j]]
        BY <2>1, <3>1, OneMore
      <3>3. QED
        BY <2>1, <3>2 DEF h
    <2> HIDE DEF upto, c
    <2>8. HoldsAt(data, place, Framed(Serialize(c, 1)))
      BY <2>3, <2>4
    <2>9. ReadComponent([components |-> upto(i - 1), left |-> Behind(data, place)]) =
            [components |-> Append(upto(i - 1), c),
             left |-> Behind(data, place + Len(Framed(Serialize(c, 1))))]
      <3> DEFINE d == upto(i - 1)
      <3> HIDE DEF d
      <3>1. data \in Seq(ByteValues) /\ place \in Nat /\ IsComponent(c)
        BY <2>2, <2>4
      <3>2. ReadComponent([components |-> d, left |-> Behind(data, place)]) =
              [components |-> Append(d, c),
               left |-> Behind(data, place + Len(Framed(Serialize(c, 1))))]
        BY <2>8, <3>1, ComponentIsRead
      <3>3. QED
        BY <3>2 DEF d
    <2>10. QED
      BY <2>4, <2>5, <2>6, <2>7, <2>9
  <1>18. mine[0] = first
    <2>1. upto(0) = <<>>
      OBVIOUS
    <2>2. 0 \in 0..n
      BY <1>1
    <2> HIDE DEF upto
    <2>3. QED
      BY <2>1, <2>2, <1>6, <1>13
  <1> HIDE DEF first, mine
  <1>19. mine = Body(mine)
    <2>1. \A i \in 0..n : mine[i] = IF i = 0 THEN first ELSE ReadComponent(mine[i - 1])
      BY <1>17, <1>18
    <2>2. mine = [i \in 0..n |-> mine[i]]
      BY DEF mine
    <2>3. QED
      BY <2>1, <2>2
  <1>20. turn = Body(turn)
    <2> HIDE DEF Body
    <2>1. QED
      BY <1>19
  <1> HIDE DEF turn
  <1>21. turn[n] = mine[n]
    <2> DEFINE Same == {i \in 0..n : turn[i] = mine[i]}
    <2>1. 0 \in Same
      BY <1>1, <1>18, <1>20
    <2>2. ASSUME NEW i \in 1..n, i - 1 \in Same PROVE i \in Same
      <3>1. i \in 0..n /\ i # 0
        BY <1>1
      <3>2. turn[i] = ReadComponent(turn[i - 1])
        BY <1>20, <3>1
      <3>3. turn[i - 1] = mine[i - 1]
        BY <2>2
      <3>4. QED
        BY <3>1, <3>2, <3>3, <1>17
    <2>3. 0..n \subseteq Same
      <3> HIDE DEF Same
      <3>1. QED
        BY <1>1, <2>1, <2>2, UpTo
    <2>4. QED
      BY <2>3, <1>1
  <1>22. turn[n].components = comps /\ turn[n].left = Behind(data, p + Len(b))
    <2>1. turn[n] = [components |-> upto(n), left |-> Behind(data, p + at[n])]
      BY <1>1, <1>21 DEF mine
    <2>2. upto(n) = comps
      BY <1>1
    <2> HIDE DEF upto
    <2>3. QED
      BY <2>1, <2>2, <1>6
  <1>23. read.left = left /\ read.world = done
    OBVIOUS
  <1> HIDE DEF read
  <1>24. ReadEntity(read) = [world |-> Append(read.world,
                                         [id |-> e.id, components |-> turn[n].components]),
                             left |-> turn[n].left]
    BY <1>14, <1>15, <1>16, <1>23 DEF ReadEntity, turn, first, rest, four, eight
  <1>25. ReadEntity(read) = [world |-> Append(done, e), left |-> Behind(data, p + Len(b))]
    BY <1>1, <1>22, <1>23, <1>24
  <1>26. Len(b) \in Nat \ {0}
    BY <1>3, <1>9, <1>11
  <1>27. QED
    BY <1>25, <1>26 DEF read, left, b

-----------------------------------------------------------------------------
\* An entity that is in a snapshot.
Kept(E) == {e \in E : e.components # <<>>}

\* Only entities with components are shown, and a second time they are the same.
LEMMA ShownType ==
  ASSUME NEW E, NEW world \in Seq(E)
  PROVE  Shown(world) \in Seq(Kept(E))
  <1> DEFINE n == Len(world)
             K == Kept(E)
             next(s, i) == IF world[i].components = <<>> THEN s ELSE Append(s, world[i])
             Body(f) == [i \in 0..n |-> IF i = 0 THEN <<>>
                                        ELSE IF world[i].components = <<>> THEN f[i - 1]
                                        ELSE Append(f[i - 1], world[i])]
             shown == CHOOSE f : f = Body(f)
             G == [p \in Seq(K) \X (Nat \ {0}) |-> IF p[2] <= n THEN next(p[1], p[2]) ELSE p[1]]
  <1>1. n \in Nat /\ \A i \in 1..n : world[i] \in E
    OBVIOUS
  <1>2. \A s \in Seq(K), i \in 1..n : next(s, i) \in Seq(K)
    <2>1. ASSUME NEW s \in Seq(K), NEW i \in 1..n PROVE next(s, i) \in Seq(K)
      <3>1. CASE world[i].components = <<>>
        BY <3>1
      <3>2. CASE world[i].components # <<>>
        <4> DEFINE e == world[i]
        <4>1. e \in K
          BY <3>2, <1>1 DEF Kept
        <4> HIDE DEF K, e
        <4>2. Append(s, e) \in Seq(K)
          BY <4>1
        <4>3. QED
          BY <4>2, <3>2 DEF e
      <3>3. QED
        BY <3>1, <3>2
    <2>2. QED
      BY <2>1
  <1> HIDE DEF K, next
  <1>3. G \in [Seq(K) \X (Nat \ {0}) -> Seq(K)]
    <2>1. \A s \in Seq(K), i \in Nat \ {0} : i <= n => next(s, i) \in Seq(K)
      <3>1. \A i \in Nat \ {0} : i <= n => i \in 1..n
        BY <1>1
      <3>2. QED
        BY <3>1, <1>2
    <2>2. QED
      BY <2>1
  <1>4. PICK f : Follows(f, Seq(K), <<>>, G)
    <2>1. <<>> \in Seq(K)
      OBVIOUS
    <2>2. QED
      BY <2>1, <1>3, Recursion, Zenon
  <1> DEFINE mine == [i \in 0..n |-> f[i]]
  <1>5. mine = Body(mine)
    <2>1. ASSUME NEW i \in 0..n
          PROVE  f[i] = IF i = 0 THEN <<>>
                        ELSE IF world[i].components = <<>> THEN mine[i - 1]
                        ELSE Append(mine[i - 1], world[i])
      <3>1. CASE i = 0
        BY <3>1, <1>4 DEF Follows
      <3>2. CASE i # 0
        <4>1. i \in Nat \ {0} /\ i - 1 \in 0..n /\ i - 1 \in Nat /\ i <= n
          BY <3>2, <1>1
        <4>2. f[i] = G[<<f[i - 1], i>>] /\ f[i - 1] \in Seq(K)
          <5> HIDE DEF G
          <5>1. QED
            BY <4>1, <1>4 DEF Follows
        <4>3. mine[i - 1] = f[i - 1]
          BY <4>1
        <4>4. f[i] = next(f[i - 1], i)
          BY <4>1, <4>2
        <4>5. QED
          BY <4>3, <4>4, <3>2 DEF next
      <3>3. QED
        BY <3>1, <3>2
    <2> HIDE DEF n
    <2>2. QED
      BY <2>1
  <1>6. shown = Body(shown)
    <2> HIDE DEF Body, mine
    <2>1. QED
      BY <1>5
  <1> HIDE DEF shown
  <1>7. shown[0] = <<>> /\ \A i \in 1..n : shown[i] = next(shown[i - 1], i)
    <2> HIDE DEF n
    <2>1. \A i \in 0..n : shown[i] = IF i = 0 THEN <<>>
                                     ELSE IF world[i].components = <<>> THEN shown[i - 1]
                                     ELSE Append(shown[i - 1], world[i])
      BY <1>6
    <2>2. 0 \in 0..n /\ \A i \in 1..n : i \in 0..n /\ i # 0
      BY <1>1
    <2> HIDE DEF Body
    <2>3. QED
      BY <2>1, <2>2 DEF next
  <1> HIDE DEF Body, n
  <1> DEFINE Good == {i \in 0..n : shown[i] \in Seq(K)}
  <1>8. 0..n \subseteq Good
    <2>1. 0 \in Good
      <3>1. 0 \in 0..n /\ <<>> \in Seq(K)
        BY <1>1
      <3>2. QED
        BY <3>1, <1>7
    <2>2. ASSUME NEW i \in 1..n, i - 1 \in Good PROVE i \in Good
      <3>1. i \in 0..n
        BY <1>1
      <3>2. shown[i - 1] \in Seq(K)
        BY <2>2
      <3>3. QED
        BY <3>1, <3>2, <1>2, <1>7
    <2> HIDE DEF Good
    <2>3. QED
      BY <1>1, <2>1, <2>2, UpTo
  <1>9. shown[n] \in Seq(K)
    BY <1>1, <1>8
  <1>10. QED
    BY <1>9 DEF Shown, shown, Body, K, n

\* Of such entities all are shown.
LEMMA ShownAgain ==
  ASSUME NEW E, NEW s \in Seq(Kept(E))
  PROVE  Shown(s) = s
  <1> DEFINE n == Len(s)
             Body(f) == [i \in 0..n |-> IF i = 0 THEN <<>>
                                        ELSE IF s[i].components = <<>> THEN f[i - 1]
                                        ELSE Append(f[i - 1], s[i])]
             shown == CHOOSE f : f = Body(f)
             upto(i) == [j \in 1..i |-> s[j]]
             mine == [i \in 0..n |-> upto(i)]
  <1>1. n \in Nat /\ \A i \in 1..n : s[i].components # <<>>
    BY DEF Kept
  <1>2. mine = Body(mine)
    <2>1. ASSUME NEW i \in 1..n PROVE upto(i) = Append(mine[i - 1], s[i])
      <3>1. i - 1 \in 0..n /\ i - 1 \in Nat /\ (i - 1) + 1 = i
        BY <1>1
      <3> DEFINE h == mine[i - 1]
                 x == s[i]
      <3>2. h = [j \in 1..i - 1 |-> s[j]] /\ x = s[(i - 1) + 1]
        BY <3>1
      <3> HIDE DEF h, x, n
      <3>3. Append(h, x) = [j \in 1..(i - 1) + 1 |-> s[j]]
        BY <3>1, <3>2, OneMore
      <3>4. QED
        BY <3>1, <3>3 DEF h, x
    <2>2. upto(0) = <<>>
      OBVIOUS
    <2> HIDE DEF upto, n
    <2>3. \A i \in 0..n : upto(i) = IF i = 0 THEN <<>>
                                    ELSE IF s[i].components = <<>> THEN mine[i - 1]
                                    ELSE Append(mine[i - 1], s[i])
      BY <2>1, <2>2, <1>1
    <2>4. QED
      BY <2>3
  <1>3. shown = Body(shown)
    <2> HIDE DEF Body, mine
    <2>1. QED
      BY <1>2
  <1> HIDE DEF shown, upto
  <1> DEFINE Same == {i \in 0..n : shown[i] = mine[i]}
  <1>4. 0..n \subseteq Same
    <2>1. 0 \in Same
      <3>1. 0 \in 0..n
        BY <1>1
      <3> HIDE DEF mine, n
      <3>2. shown[0] = <<>> /\ mine[0] = <<>>
        BY <3>1, <1>2, <1>3
      <3>3. QED
        BY <3>1, <3>2
    <2>2. ASSUME NEW i \in 1..n, i - 1 \in Same PROVE i \in Same
      <3>1. i \in 0..n /\ i # 0 /\ s[i].components # <<>>
        BY <1>1
      <3> HIDE DEF mine
      <3>2. shown[i] = Append(shown[i - 1], s[i]) /\ mine[i] = Append(mine[i - 1], s[i])
        BY <3>1, <1>2, <1>3
      <3>3. QED
        BY <3>1, <3>2, <2>2
    <2>3. QED
      <3> HIDE DEF Same, n
      <3>1. QED
        BY <1>1, <2>1, <2>2, UpTo
  <1>5. shown[n] = upto(n)
    BY <1>1, <1>4
  <1>6. upto(n) = s
    BY DEF upto
  <1>7. Shown(s) = shown[n]
    BY DEF Shown, shown
  <1>8. QED
    BY <1>5, <1>6, <1>7

-----------------------------------------------------------------------------
\* The loop over the entities reads those that were written.
LEMMA SnapshotIsRead ==
  ASSUME NEW o, IsSnapshot(o)
  PROVE  /\ SnapshotData(o.values) \in Seq(ByteValues)
         /\ ReadSnapshot(SnapshotData(o.values)) = Shown(o.values)
         /\ Shown(Shown(o.values)) = Shown(o.values)
  <1> DEFINE E == {e \in {o.values[i] : i \in DOMAIN o.values} : IsEntity(e)}
             world == Shown(o.values)
             n == Len(world)
             ss == [i \in DOMAIN world |-> EntityBytes(world[i])]
             data == FlattenSeq(ss)
             N == Len(data)
  <1>1. world \in Seq(Kept(E)) /\ Shown(world) = world
    <2> DEFINE V == {o.values[i] : i \in DOMAIN o.values}
    <2>1. o.values \in Seq(V) /\ \A i \in DOMAIN o.values : IsEntity(o.values[i])
      BY DEF IsSnapshot, IsSeq
    <2>2. \A i \in DOMAIN o.values : o.values[i] \in E
      BY <2>1
    <2>3. Len(o.values) \in Nat /\ DOMAIN o.values = 1..Len(o.values)
          /\ o.values = [i \in 1..Len(o.values) |-> o.values[i]]
      BY <2>1
    <2> HIDE DEF E
    <2>4. o.values \in [1..Len(o.values) -> E]
      BY <2>2, <2>3
    <2>5. o.values \in Seq(E)
      BY <2>3, <2>4
    <2>6. QED
      BY <2>5, ShownType, ShownAgain
  <1>2. SnapshotData(o.values) = data
    BY DEF SnapshotData
  <1>3. \A e \in Kept(E) : IsEntity(e)
    BY DEF Kept
  <1> HIDE DEF E
  <1> DEFINE W == world
  <1>4. /\ W \in Seq(Kept(E)) /\ n = Len(W)
        /\ data = FlattenSeq([i \in DOMAIN W |-> EntityBytes(W[i])])
    BY <1>1
  <1>5. n \in Nat /\ DOMAIN world = 1..n /\ \A i \in 1..n : IsEntity(world[i])
    <2> HIDE DEF world
    <2>1. \A i \in 1..n : world[i] \in Kept(E)
      BY <1>1
    <2>2. QED
      BY <1>1, <1>3, <2>1
  <1> HIDE DEF world, W
  <1>6. \A i \in 1..n : ss[i] = EntityBytes(world[i]) /\ ss[i] \in Seq(ByteValues)
    BY <1>5, EntityBytesType
  <1>7. ss \in Seq(Seq(ByteValues)) /\ Len(ss) = n
    <2>1. ss \in [1..n -> Seq(ByteValues)]
      BY <1>5, <1>6
    <2> HIDE DEF ss, n
    <2>2. QED
      BY <1>5, <2>1
  <1> HIDE DEF ss
  <1>8. data \in Seq(ByteValues)
    BY <1>7, Flattened
  <1>9. PICK at : Places(at, ss) /\ InPlaces(data, ss, at)
    BY <1>7, Flattened
  <1> HIDE DEF data, n
  <1>10. /\ at \in [0..n -> Nat] /\ at[0] = 0 /\ N = at[n] /\ N \in Nat
         /\ \A k \in 1..n : /\ at[k] = at[k - 1] + Len(EntityBytes(world[k]))
                            /\ HoldsAt(data, at[k - 1], EntityBytes(world[k]))
    BY <1>6, <1>7, <1>8, <1>9 DEF Places, InPlaces
  <1> DEFINE upto(i) == [j \in 1..i |-> world[j]]
             Done(i) == [world |-> upto(i), left |-> Behind(data, at[i])]
  <1>11. ASSUME NEW k \in 1..n
         PROVE  /\ ReadEntity(Done(k - 1)) = Done(k)
                /\ at[k - 1] \in Nat /\ at[k] \in Nat /\ at[k - 1] < at[k]
    <2>1. k - 1 \in 0..n /\ k \in 0..n /\ k - 1 \in Nat /\ (k - 1) + 1 = k
      BY <1>5
    <2> DEFINE place == at[k - 1]
               e == world[k]
               done == upto(k - 1)
    <2>2. place \in Nat /\ at[k] \in Nat /\ HoldsAt(data, place, EntityBytes(e))
          /\ at[k] = place + Len(EntityBytes(e)) /\ IsEntity(e)
      BY <2>1, <1>5, <1>10
    <2>3. Append(done, e) = upto(k)
      <3>1. done = [j \in 1..k - 1 |-> world[j]] /\ e = world[(k - 1) + 1]
        BY <2>1
      <3> HIDE DEF done, e
      <3>2. Append(done, e) = [j \in 1..(k - 1) + 1 |-> world[j]]
        BY <2>1, <3>1, OneMore
      <3>3. QED
        BY <2>1, <3>2
    <2> HIDE DEF place, e, done, upto
    <2>4. /\ ReadEntity([world |-> done, left |-> Behind(data, place)]) =
               [world |-> Append(done, e), left |-> Behind(data, place + Len(EntityBytes(e)))]
          /\ Len(EntityBytes(e)) \in Nat \ {0}
      BY <1>8, <2>2, EntityIsRead
    <2>5. Done(k - 1) = [world |-> done, left |-> Behind(data, place)]
      BY DEF done, place
    <2>6. Done(k) = [world |-> Append(done, e), left |-> Behind(data, place + Len(EntityBytes(e)))]
      BY <2>2, <2>3
    <2>7. at[k - 1] = place
      BY DEF place
    <2> HIDE DEF Done
    <2>8. QED
      BY <2>2, <2>4, <2>5, <2>6, <2>7
  <1> HIDE DEF upto
  <1>12. n <= N
    <2> DEFINE Far == {k \in 0..n : k <= at[k]}
    <2>1. 0 \in Far
      BY <1>5, <1>10
    <2>2. ASSUME NEW k \in 1..n, k - 1 \in Far PROVE k \in Far
      <3>1. at[k - 1] \in Nat /\ at[k] \in Nat /\ at[k - 1] < at[k]
        BY <1>11
      <3> DEFINE here == at[k]
                 before == at[k - 1]
      <3>2. here \in Nat /\ before \in Nat /\ before < here
        BY <3>1
      <3>3. k - 1 <= before
        BY <2>2
      <3> HIDE DEF here, before
      <3>4. k <= here /\ k \in 0..n
        BY <3>2, <3>3, <1>5
      <3>5. QED
        BY <3>4 DEF here
    <2>3. 0..n \subseteq Far
      <3> HIDE DEF Far
      <3>1. QED
        BY <2>1, <2>2, <1>5, UpTo
    <2>4. QED
      BY <2>3, <1>5, <1>10
  <1>13. Done(n).left = <<>>
    <2>1. Behind(data, N) = <<>>
      <3>1. N \in 0..N
        BY <1>10
      <3>2. Behind(data, N) \in Seq(ByteValues) /\ Len(Behind(data, N)) = N - N
        BY <3>1, <1>8, BehindHolds
      <3>3. Len(Behind(data, N)) = 0
        BY <3>2, <1>10
      <3>4. QED
        BY <3>2, <3>3
    <2>2. QED
      BY <2>1, <1>10
  <1>14. ReadEntity(Done(n)) = Done(n)
    BY <1>13 DEF ReadEntity
  <1> DEFINE least(i) == IF i <= n THEN i ELSE n
             first == [world |-> <<>>, left |-> data]
             Body(f) == [i \in 0..N |-> IF i = 0 THEN first ELSE ReadEntity(f[i - 1])]
             turn == CHOOSE f : f = Body(f)
             mine == [i \in 0..N |-> Done(least(i))]
  <1>15. Done(0) = first
    <2>1. upto(0) = <<>>
      BY DEF upto
    <2>2. Behind(data, 0) = data
      <3>1. 0 \in 0..N
        BY <1>10
      <3>2. Behind(data, 0) = [i \in 1..N |-> data[i]]
        BY <1>8 DEF Behind
      <3>3. QED
        BY <3>2, <1>8
    <2>3. QED
      BY <2>1, <2>2, <1>10
  <1> HIDE DEF Done, first
  <1>16. \A i \in 1..N : mine[i] = ReadEntity(mine[i - 1])
    <2>1. ASSUME NEW i \in 1..N PROVE mine[i] = ReadEntity(mine[i - 1])
      <3>1. i \in 0..N /\ i - 1 \in 0..N
        BY <1>10
      <3>2. mine[i] = Done(least(i)) /\ mine[i - 1] = Done(least(i - 1))
        BY <3>1
      <3>3. CASE i <= n
        <4>1. i \in 1..n /\ least(i) = i /\ least(i - 1) = i - 1
          BY <3>3, <1>5
        <4> HIDE DEF mine, least
        <4>2. QED
          BY <3>2, <4>1, <1>11
      <3>4. CASE ~(i <= n)
        <4>1. least(i) = n /\ least(i - 1) = n
          BY <3>4, <1>5, <3>1
        <4> HIDE DEF mine, least
        <4>2. QED
          BY <3>2, <4>1, <1>14
      <3>5. QED
        BY <3>3, <3>4
    <2>2. QED
      BY <2>1
  <1>17. mine[0] = first
    <2>1. least(0) = 0 /\ 0 \in 0..N
      BY <1>5, <1>10
    <2> HIDE DEF least
    <2>2. QED
      BY <2>1, <1>15
  <1>18. mine[N] = Done(n)
    <2>1. least(N) = n /\ N \in 0..N
      BY <1>5, <1>10, <1>12
    <2> HIDE DEF least
    <2>2. QED
      BY <2>1
  <1>19. mine = [i \in 0..N |-> mine[i]]
    OBVIOUS
  <1> HIDE DEF mine
  <1>20. mine = Body(mine)
    BY <1>16, <1>17, <1>19
  <1>21. turn = Body(turn)
    <2> HIDE DEF Body
    <2>1. QED
      BY <1>20
  <1> HIDE DEF turn
  <1>22. turn[N] = mine[N]
    <2> DEFINE Same == {i \in 0..N : turn[i] = mine[i]}
    <2>1. 0 \in Same
      BY <1>10, <1>17, <1>21
    <2>2. ASSUME NEW i \in 1..N, i - 1 \in Same PROVE i \in Same
      <3>1. i \in 0..N /\ i # 0
        BY <1>10
      <3>2. turn[i] = ReadEntity(turn[i - 1])
        BY <1>21, <3>1
      <3>3. turn[i - 1] = mine[i - 1]
        BY <2>2
      <3>4. QED
        BY <3>1, <3>2, <3>3, <1>16
    <2>3. 0..N \subseteq Same
      <3> HIDE DEF Same
      <3>1. QED
        BY <1>10, <2>1, <2>2, UpTo
    <2>4. QED
      BY <2>3, <1>10
  <1>23. turn[N].world = world
    <2>1. turn[N] = [world |-> upto(n), left |-> Behind(data, at[n])]
      BY <1>18, <1>22 DEF Done
    <2>2. upto(n) = world
      BY <1>1 DEF upto, n
    <2>3. QED
      BY <2>1, <2>2
  <1>24. ReadSnapshot(data) = turn[N].world
    BY DEF ReadSnapshot, turn, first
  <1>25. QED
    BY <1>1, <1>2, <1>8, <1>23, <1>24 DEF world

-----------------------------------------------------------------------------
\* The SnapshotMessage of a snapshot: m_data has its bytes.
Carrier(o) ==
  LET data == SnapshotData(o.values)
  IN [o EXCEPT !.values = <<[i \in DOMAIN data |-> <<data[i]>>]>>]

\* It is an object like any other, and its bytes are those of the snapshot.
LEMMA CarrierHasFields ==
  ASSUME NEW o, IsSnapshot(o)
  PROVE  LET s == Carrier(o)
         IN /\ HasFields(s) /\ s.type = "SnapshotMessage"
            /\ s = [type |-> "SnapshotMessage", values |-> s.values]
            /\ [i \in DOMAIN s.values[1] |-> s.values[1][i][1]] = SnapshotData(o.values)
  <1> DEFINE data == SnapshotData(o.values)
             v == [i \in DOMAIN data |-> <<data[i]>>]
             members == Number("uint8_t")
             E == [1..Len(members) -> Nat]
  <1>1. /\ data \in Seq(ByteValues) /\ Fits("size_t", Len(data))
        /\ o = [type |-> "SnapshotMessage", values |-> o.values]
    BY SnapshotIsRead DEF IsSnapshot
  <1>2. Carrier(o) = [type |-> "SnapshotMessage", values |-> <<v>>]
    BY <1>1 DEF Carrier
  <1> HIDE DEF data
  <1>3. DOMAIN data = 1..Len(data) /\ Len(data) \in Nat
    BY <1>1
  <1>4. Len(members) = 1 /\ DOMAIN members = {1} /\ members[1] = "uint8_t"
    BY DEF Number
  <1>5. \A i \in DOMAIN data : IsElement(members, v[i]) /\ v[i] \in E /\ v[i][1] = data[i]
    <2>1. ASSUME NEW i \in DOMAIN data
          PROVE  IsElement(members, v[i]) /\ v[i] \in E /\ v[i][1] = data[i]
      <3> DEFINE b == data[i]
      <3>1. b \in ByteValues
        BY <1>1, <1>3
      <3>2. Fits("uint8_t", b) /\ b \in Nat
        BY <3>1, BytesFit DEF NumberTypes, Fits
      <3> HIDE DEF b, members
      <3>3. <<b>> \in [1..1 -> Nat] /\ <<b>>[1] = b
        BY <3>2
      <3>4. IsElement(members, <<b>>)
        BY <1>4, <3>2, <3>3 DEF IsElement
      <3>5. QED
        BY <1>4, <3>3, <3>4 DEF b
    <2>2. QED
      BY <2>1
  <1>6. v \in Seq(E) /\ Len(v) = Len(data)
    <2>1. v \in [1..Len(data) -> E]
      BY <1>3, <1>5
    <2> HIDE DEF v, E
    <2>2. v \in Seq(E)
      BY <1>3, <2>1
    <2>3. QED
      BY <1>3, <2>1, <2>2
  <1>7. IsValue(Vector(members), v)
    <2>1. DOMAIN v = DOMAIN data
      OBVIOUS
    <2> HIDE DEF v, members
    <2>2. Vector(members).kind # "element" /\ Vector(members).members = members
      BY DEF Vector
    <2>3. QED
      BY <1>1, <1>5, <1>6, <2>1, <2>2 DEF IsValue
  <1> HIDE DEF members, v
  <1> DEFINE s == [type |-> "SnapshotMessage", values |-> <<v>>]
  <1>8. /\ "SnapshotMessage" \in Types
        /\ Fields["SnapshotMessage"] = <<Vector(members)>>
    BY DEF Types, Fields, members
  <1>9. HasFields(s)
    <2>1. <<v>> \in Seq({<<v>>[i] : i \in DOMAIN <<v>>})
      <3> DEFINE w == <<v>>
                 W == {w[i] : i \in DOMAIN w}
      <3>1. DOMAIN w = {1} /\ w[1] = v
        OBVIOUS
      <3>2. v \in W
        <4> HIDE DEF w
        <4>1. QED
          BY <3>1
      <3> HIDE DEF W
      <3>3. <<v>> \in Seq(W)
        BY <3>2
      <3>4. QED
        BY <3>3 DEF W
    <2>2. Len(<<v>>) = 1 /\ DOMAIN <<v>> = {1} /\ <<v>>[1] = v
      OBVIOUS
    <2>3. Len(<<Vector(members)>>) = 1 /\ <<Vector(members)>>[1] = Vector(members)
      OBVIOUS
    <2> DEFINE w == <<v>>
               F == Fields["SnapshotMessage"]
    <2>4. F = <<Vector(members)>>
      BY <1>8
    <2>5. Len(w) = Len(F) /\ \A i \in DOMAIN w : IsValue(F[i], w[i])
      <3> HIDE DEF w, F
      <3>1. Len(F) = 1 /\ F[1] = Vector(members)
        BY <2>3, <2>4
      <3>2. Len(w) = 1 /\ DOMAIN w = {1} /\ w[1] = v
        BY <2>2 DEF w
      <3>3. QED
        BY <3>1, <3>2, <1>7
    <2>6. IsSeq(w)
      BY <2>1 DEF IsSeq
    <2> HIDE DEF w
    <2>7. s.type = "SnapshotMessage" /\ s.values = w
      BY DEF w
    <2> HIDE DEF s, F
    <2>8. s = [type |-> s.type, values |-> s.values]
      BY DEF s
    <2>9. QED
      BY <2>5, <2>6, <2>7, <2>8, <1>8 DEF HasFields, F
  <1>10. [i \in DOMAIN v |-> v[i][1]] = data
    <2>1. DOMAIN v = DOMAIN data /\ data = [i \in DOMAIN data |-> data[i]]
      BY <1>1, <1>3 DEF v
    <2>2. \A i \in DOMAIN data : v[i][1] = data[i]
      BY <1>5 DEF v
    <2>3. QED
      BY <2>1, <2>2
  <1>11. s.values[1] = v
    OBVIOUS
  <1> HIDE DEF s
  <1>12. Carrier(o) = s /\ s.type = "SnapshotMessage"
         /\ s = [type |-> "SnapshotMessage", values |-> s.values]
    BY <1>2 DEF s
  <1>13. QED
    BY <1>9, <1>10, <1>11, <1>12 DEF data

\* Text stands for all messages with a string.
LEMMA OnlyTextHasAString ==
  ASSUME NEW o, o.type \in Types, ~HasString(o)
  PROVE  o.type # "Text"
  <1> SUFFICES ASSUME o.type = "Text" PROVE FALSE
    OBVIOUS
  <1> DEFINE text == <<Uint32, String, Uint32>>
  <1>1. Fields[o.type] = text
    BY DEF Fields
  <1>2. 2 \in DOMAIN text /\ text[2].kind = "string"
    BY DEF String
  <1> HIDE DEF text
  <1>3. QED
    BY <1>1, <1>2 DEF HasString

\* An object that is no snapshot, read from its bytes.
LEMMA FieldsAreSeen ==
  ASSUME NEW o, HasFields(o), NEW n \in {1, 2}, NEW m \in {1, 2}
  PROVE  LET data == Serialize(o, n)
             got  == Deserialize(data, m)
         IN /\ got = [type |-> o.type, values |-> got.values]
            /\ m <= n => ReadEnd(data, m) <= Len(data)
            /\ ~HasString(o) /\ (o.type \in ProtocolTypes /\ Fields[o.type] # <<>> => m <= n) =>
                 got = o /\ ReadEnd(data, m) <= Len(data)
  <1> DEFINE data == Serialize(o, n)
             got == Deserialize(data, m)
  <1>1. got = [type |-> o.type, values |-> got.values]
    <2>1. TypesAt(data) = {o.type} /\ TypeAt(data) = o.type
      BY TypeIsRead
    <2> HIDE DEF data
    <2> DEFINE values == ObjectAt(Registered(o.type, m), data).values
               part == SubSeq(values, Len(values) - Len(Fields[o.type]) + 1, Len(values))
    <2>2. got = [type |-> o.type, values |-> part]
      BY <2>1 DEF Deserialize
    <2> HIDE DEF got, part
    <2>3. QED
      BY <2>2
  <1>2. m <= n => ReadEnd(data, m) <= Len(data)
    <2>1. CASE o.type = "Text"
      BY <2>1, TextIsInside
    <2>2. CASE o.type # "Text"
      BY <2>2, ObjectIsRead
    <2>3. QED
      BY <2>1, <2>2
  <1>3. ASSUME ~HasString(o), o.type \in ProtocolTypes /\ Fields[o.type] # <<>> => m <= n
        PROVE  got = o /\ ReadEnd(data, m) <= Len(data)
    <2>1. o.type # "Text"
      BY <1>3, OnlyTextHasAString DEF HasFields
    <2>2. m <= n \/ o.type \notin ProtocolTypes \/ Fields[o.type] = <<>>
      BY <1>3
    <2>3. QED
      BY <2>1, <2>2, ObjectIsRead
  <1>4. QED
    BY <1>1, <1>2, <1>3

\* What an application reads of the bytes that were written: inside of them,
\* unless it registered fields more often, and of an object that is understood
\* what can be seen of it.
LEMMA WrittenIsRead ==
  ASSUME NEW o \in Objects, NEW n \in {1, 2}, NEW m \in {1, 2}
  PROVE  LET data == Written(o, n)
             got  == Read(data, m)
         IN /\ m <= n => ReadEnd(data, m) <= Len(data)
            /\ got = [type |-> o.type, values |-> got.values]
            /\ o = [type |-> o.type, values |-> o.values]
            /\ ~HasString(o) /\ (o.type \in ProtocolTypes /\ Fields[o.type] # <<>> => m <= n) =>
                 Seen(got, TRUE) = Seen(o, TRUE)
  <1> DEFINE data == Written(o, n)
             got == Read(data, m)
             Plain == ~HasString(o)
             Often == o.type \in ProtocolTypes /\ Fields[o.type] # <<>> => m <= n
  <1>1. CASE IsSnapshot(o)
    <2> DEFINE s == Carrier(o)
               bytes == SnapshotData(o.values)
    <2>1. /\ HasFields(s) /\ s.type = "SnapshotMessage"
          /\ s = [type |-> "SnapshotMessage", values |-> s.values]
          /\ [i \in DOMAIN s.values[1] |-> s.values[1][i][1]] = bytes
      BY <1>1, CarrierHasFields
    <2>2. ReadSnapshot(bytes) = Shown(o.values) /\ Shown(Shown(o.values)) = Shown(o.values)
      BY <1>1, SnapshotIsRead
    <2>3. o = [type |-> "SnapshotMessage", values |-> o.values] /\ o.type = "SnapshotMessage"
      BY <1>1 DEF IsSnapshot
    <2>4. data = Serialize(s, n)
      BY <2>3 DEF Written, Carrier
    <2>5. ~HasString(s) /\ s.type \notin ProtocolTypes
      <3>1. Fields["SnapshotMessage"] = <<Vector(Number("uint8_t"))>>
        BY DEF Fields
      <3> DEFINE F == <<Vector(Number("uint8_t"))>>
      <3>2. \A i \in DOMAIN F : F[i].kind # "string"
        BY DEF Vector
      <3> HIDE DEF s, F
      <3>3. ~HasString(s)
        BY <2>1, <3>1, <3>2 DEF HasString, F
      <3>4. QED
        BY <2>1, <3>3 DEF ProtocolTypes
    <2> HIDE DEF s, data, bytes
    <2>6. Deserialize(data, m) = s /\ ReadEnd(data, m) <= Len(data)
      BY <2>1, <2>4, <2>5, FieldsAreSeen
    <2>7. got = [s EXCEPT !.values = Shown(o.values)]
      BY <2>1, <2>2, <2>6 DEF Read
    <2> DEFINE world == Shown(o.values)
    <2>8. got = [type |-> "SnapshotMessage", values |-> world]
      <3> HIDE DEF got, world
      <3>1. got = [s EXCEPT !.values = world]
        BY <2>7 DEF world
      <3>2. QED
        BY <2>1, <3>1
    <2> HIDE DEF got, world
    <2>9. Seen(got, TRUE) = [type |-> "SnapshotMessage", values |-> world]
      BY <2>2, <2>8 DEF Seen, world
    <2>10. Seen(o, TRUE) = [type |-> "SnapshotMessage", values |-> world]
      <3> DEFINE values == o.values
      <3>1. o = [type |-> "SnapshotMessage", values |-> values]
        BY <2>3
      <3> HIDE DEF values
      <3>2. [o EXCEPT !.values = Shown(@)] = [type |-> "SnapshotMessage", values |-> Shown(values)]
        BY <3>1
      <3>3. QED
        BY <2>3, <3>2 DEF Seen, world, values
    <2>11. got = [type |-> o.type, values |-> got.values]
      BY <2>3, <2>8
    <2>12. QED
      <3> HIDE DEF Plain, Often
      <3>1. m <= n => ReadEnd(data, m) <= Len(data)
        BY <2>6
      <3>2. Plain /\ Often => Seen(got, TRUE) = Seen(o, TRUE)
        BY <2>9, <2>10
      <3>3. QED
        BY <2>3, <2>11, <3>1, <3>2 DEF data, got, Plain, Often
  <1>2. CASE o.type # "SnapshotMessage" /\ HasFields(o)
    <2>1. data = Serialize(o, n)
      BY <1>2 DEF Written
    <2> HIDE DEF data
    <2> DEFINE made == Deserialize(data, m)
    <2>2. /\ made = [type |-> o.type, values |-> made.values]
          /\ m <= n => ReadEnd(data, m) <= Len(data)
          /\ Plain /\ Often => made = o
      BY <1>2, <2>1, FieldsAreSeen
    <2> HIDE DEF made
    <2>3. made.type = o.type
      <3> DEFINE values == made.values
      <3>1. made = [type |-> o.type, values |-> values]
        BY <2>2
      <3> HIDE DEF values
      <3>2. QED
        BY <3>1
    <2>4. got = made
      BY <1>2, <2>3 DEF Read, made
    <2>5. o = [type |-> o.type, values |-> o.values]
      BY <1>2 DEF HasFields
    <2> HIDE DEF got, Plain, Often
    <2>6. QED
      BY <2>2, <2>4, <2>5 DEF data, got, Plain, Often
  <1>3. QED
    BY <1>1, <1>2, ExchangeAssumption

-----------------------------------------------------------------------------
\* What is made of a message that is delivered.
MadeOf(m) == IF m = Garbage THEN NoObject ELSE Read(payloads[m], copies.receiver)

\* The payloads are the objects' bytes, and what was delivered was read.
ExchangeInv ==
  /\ TypeOK
  /\ objects \in Exchanges /\ copies \in Copies
  /\ payloads = [m \in Messages |-> Written(objects[m], copies.sender)]
  /\ received = [i \in 1..Len(delivered) |-> MadeOf(delivered[i])]

\* Nothing is delivered at first.
LEMMA InitExchange == ExchangeInit => ExchangeInv
  <1> SUFFICES ASSUME ExchangeInit
               PROVE  ExchangeInv
    OBVIOUS
  <1>1. TypeOK /\ delivered = <<>> /\ received = <<>> /\ Len(delivered) = 0
    BY InitType DEF ExchangeInit, Init
  <1>2. received = [i \in 1..Len(delivered) |-> MadeOf(delivered[i])]
    BY <1>1
  <1>3. QED
    BY <1>1, <1>2 DEF ExchangeInit, ExchangeInv

\* What a step delivers is read, and nothing else changes.
LEMMA NextExchange == ExchangeInv /\ [ExchangeNext]_exchangeVars => ExchangeInv'
  <1> SUFFICES ASSUME ExchangeInv, [ExchangeNext]_exchangeVars
               PROVE  ExchangeInv'
    OBVIOUS
  <1>1. [Next]_vars /\ objects' = objects /\ copies' = copies /\ payloads' = payloads
    BY DEF ExchangeNext, exchangeVars
  <1>2. TypeOK /\ TypeOK'
    BY <1>1, NextType DEF ExchangeInv
  <1>3. \A m : MadeOf(m)' = MadeOf(m)
    BY <1>1 DEF MadeOf
  <1>4. received' = [i \in 1..Len(delivered') |-> MadeOf(delivered'[i])]
    <2>1. CASE delivered' = delivered
      <3>1. received' = received
        BY <2>1 DEF ExchangeNext, exchangeVars
      <3>2. QED
        BY <2>1, <3>1 DEF ExchangeInv
    <2>2. CASE delivered' # delivered
      <3>1. PICK m \in Messages \cup {Garbage} : delivered' = Append(delivered, m)
        BY <1>1, <1>2, <2>2, DeliversOne
      <3>2. delivered \in Seq(Messages \cup {Garbage})
        BY <1>2 DEF TypeOK
      <3> DEFINE n == Len(delivered)
      <3>3. /\ n \in Nat /\ Len(delivered') = n + 1 /\ delivered'[n + 1] = m
            /\ \A i \in 1..n : delivered'[i] = delivered[i]
        BY <3>1, <3>2
      <3>4. Last(delivered') = m
        BY <3>3 DEF Last
      <3>5. received' = Append(received, MadeOf(m))
        BY <2>2, <3>4 DEF ExchangeNext, exchangeVars, vars, receiverVars, MadeOf
      <3>6. received = [i \in 1..n |-> MadeOf(delivered[i])]
        BY DEF ExchangeInv
      <3>7. received = [i \in 1..n |-> MadeOf(delivered'[i])]
        BY <3>3, <3>6
      <3> DEFINE x == MadeOf(delivered'[n + 1])
      <3>8. received' = Append(received, x)
        BY <3>3, <3>5
      <3> HIDE DEF n, x
      <3>9. Append(received, x) = [i \in 1..n + 1 |-> MadeOf(delivered'[i])]
        BY <3>3, <3>7, OneMore DEF x
      <3>10. QED
        BY <3>3, <3>8, <3>9
    <2>3. QED
      BY <2>1, <2>2
  <1>5. QED
    BY <1>1, <1>2, <1>3, <1>4 DEF ExchangeInv

\* What was made of a message that is not garbage.
LEMMA MadeOfObject ==
  ASSUME ExchangeInv, NEW i \in DOMAIN received, delivered[i] # Garbage
  PROVE  LET m == delivered[i]
             o == objects[m]
         IN /\ m \in Messages /\ o \in Objects
            /\ payloads[m] = Written(o, copies.sender)
            /\ received[i] = Read(Written(o, copies.sender), copies.receiver)
            /\ copies.sender \in {1, 2} /\ copies.receiver \in {1, 2}
  <1> DEFINE m == delivered[i]
             o == objects[m]
  <1>1. m \in Messages
    <2>1. delivered \in Seq(Messages \cup {Garbage}) /\ DOMAIN received = 1..Len(delivered)
      BY DEF ExchangeInv, TypeOK
    <2>2. QED
      BY <2>1
  <1>2. o \in Objects /\ copies.sender \in {1, 2} /\ copies.receiver \in {1, 2}
    BY <1>1, ExchangeAssumption DEF ExchangeInv
  <1>3. payloads[m] = Written(o, copies.sender)
    BY <1>1 DEF ExchangeInv
  <1>4. received[i] = Read(payloads[m], copies.receiver)
    BY DEF ExchangeInv, MadeOf
  <1>5. QED
    BY <1>1, <1>2, <1>3, <1>4

-----------------------------------------------------------------------------
\* Each payload that was read was read inside of it.
LEMMA InsideNow == ExchangeInv => ReadsStayInside
  <1> SUFFICES ASSUME ExchangeInv, NEW i \in DOMAIN received,
                      copies.receiver <= copies.sender, received[i] # NoObject
               PROVE  ReadEnd(payloads[delivered[i]], copies.receiver)
                        <= Len(payloads[delivered[i]])
    BY DEF ReadsStayInside
  <1>1. delivered[i] # Garbage
    BY DEF ExchangeInv, MadeOf
  <1>2. QED
    BY <1>1, MadeOfObject, WrittenIsRead

\* Whatever objects are sent and however many bytes the types of numbers have,
\* reading an object ends inside of its payload.
THEOREM ReadingStaysInside == ExchangeSpec => []ReadsStayInside
  <1>1. ExchangeInit => ExchangeInv
    BY InitExchange
  <1>2. ExchangeInv /\ [ExchangeNext]_exchangeVars => ExchangeInv'
    BY NextExchange
  <1>3. ExchangeInv => ReadsStayInside
    BY InsideNow
  <1>4. QED
    BY <1>1, <1>2, <1>3, PTL DEF ExchangeSpec

-----------------------------------------------------------------------------
\* A Text is read as far as its string.
LEMMA BeforeStringNow == ExchangeInv => FieldsBeforeString
  <1> SUFFICES ASSUME ExchangeInv, NEW i \in DOMAIN received, received[i] # NoObject
               PROVE  LET o == objects[delivered[i]]
                      IN \A k \in DOMAIN o.values :
                           HasString(o) /\ (\A j \in 1..k : Fields[o.type][j].kind # "string") =>
                             received[i].values[k] = o.values[k]
    BY DEF FieldsBeforeString
  <1> DEFINE o == objects[delivered[i]]
             n == copies.sender
             m == copies.receiver
             text == <<Uint32, String, Uint32>>
  <1>1. delivered[i] # Garbage
    BY DEF ExchangeInv, MadeOf
  <1>2. /\ o \in Objects /\ received[i] = Read(Written(o, n), m)
        /\ n \in {1, 2} /\ m \in {1, 2}
    BY <1>1, MadeOfObject
  <1> HIDE DEF o, n, m
  <1>3. ASSUME NEW k \in DOMAIN o.values, HasString(o),
               \A j \in 1..k : Fields[o.type][j].kind # "string"
        PROVE  received[i].values[k] = o.values[k]
    <2>1. o.type = "Text" /\ HasFields(o)
      <3>1. o.type # "SnapshotMessage"
        <4>1. Fields["SnapshotMessage"] = <<Vector(Number("uint8_t"))>>
          BY DEF Fields
        <4> DEFINE F == <<Vector(Number("uint8_t"))>>
        <4>2. \A j \in DOMAIN F : F[j].kind # "string"
          BY DEF Vector
        <4> HIDE DEF F
        <4>3. QED
          BY <1>3, <4>1, <4>2 DEF HasString, F
      <3>2. HasFields(o)
        BY <1>2, <3>1, ExchangeAssumption DEF IsSnapshot
      <3>3. o.type \in Types
        BY <3>2 DEF HasFields
      <3>4. Fields[o.type] \in Seq(FieldTypes)
            /\ (o.type # "Text" =>
                  \A j \in 1..Len(Fields[o.type]) : Fields[o.type][j].kind # "string")
        BY <3>3, FieldsType
      <3>5. DOMAIN Fields[o.type] = 1..Len(Fields[o.type])
        BY <3>4
      <3>6. QED
        BY <1>3, <3>2, <3>4, <3>5 DEF HasString
    <2>2. Fields[o.type] = text
      BY <2>1 DEF Fields
    <2>3. k \in 1..3
      <3>1. o.values \in Seq({o.values[j] : j \in DOMAIN o.values}) /\ Len(o.values) = Len(text)
        BY <2>1, <2>2 DEF HasFields, IsSeq
      <3>2. Len(text) = 3
        OBVIOUS
      <3> HIDE DEF text
      <3>3. QED
        BY <3>1, <3>2
    <2>4. text[2].kind = "string"
      BY DEF String
    <2> HIDE DEF text
    <2>5. ~(2 \in 1..k)
      BY <1>3, <2>2, <2>4
    <2>6. k = 1
      BY <2>3, <2>5
    <2> DEFINE made == Deserialize(Serialize(o, n), m)
    <2>7. made.values[1] = o.values[1]
      BY <1>2, <2>1, TextIsInside
    <2>8. made = [type |-> o.type, values |-> made.values]
      BY <1>2, <2>1, FieldsAreSeen
    <2>9. made.type # "SnapshotMessage"
      <3> DEFINE values == made.values
      <3>1. made = [type |-> o.type, values |-> values]
        BY <2>8
      <3> HIDE DEF values, made
      <3>2. QED
        BY <2>1, <3>1
    <2>10. Written(o, n) = Serialize(o, n)
      BY <2>1 DEF Written
    <2> HIDE DEF made
    <2>11. received[i] = made
      BY <1>2, <2>9, <2>10 DEF Read, made
    <2>12. QED
      BY <2>6, <2>7, <2>11
  <1>4. QED
    BY <1>3 DEF o

\* Whatever strings are sent, the fields before them are read as they were sent.
THEOREM FieldsBeforeStringAreRead == ExchangeSpec => []FieldsBeforeString
  <1>1. ExchangeInit => ExchangeInv
    BY InitExchange
  <1>2. ExchangeInv /\ [ExchangeNext]_exchangeVars => ExchangeInv'
    BY NextExchange
  <1>3. ExchangeInv => FieldsBeforeString
    BY BeforeStringNow
  <1>4. QED
    BY <1>1, <1>2, <1>3, PTL DEF ExchangeSpec

-----------------------------------------------------------------------------
\* What both applications see of message m.
SeenOf(m) == Seen(objects[m], Understood(objects[m]))

\* The first k messages as both see them.
SeenUpTo(k) == [m \in 1..k |-> SeenOf(m)]

\* What ObjectChannel takes for sent and for delivered.
sentObjects == [m \in 1..(nextMessage - 1) |-> Seen(objects[m], Understood(objects[m]))]
seenObjects == [i \in Arrived |-> Seen(received[i], Understood(objects[delivered[i]]))]

\* Of the trusted messages that arrived the receiver sees what was sent.
LEMMA SeenWhatWasSent == ExchangeInv /\ FramingInv => seenObjects = SeenUpTo(arrived)
  <1> SUFFICES ASSUME ExchangeInv, FramingInv
               PROVE  seenObjects = SeenUpTo(arrived)
    OBVIOUS
  <1>0. Len(delivered) \in Nat /\ trusted \in Nat
    BY StreamType, FramingAssumption DEF FramingInv, FramingAssumption, TypeOK
  <1>1. /\ Arrived = 1..arrived
        /\ \A i \in 1..arrived : i \in 1..Len(delivered) /\ i \in Nat \ {0} /\ delivered[i] = i
    BY <1>0 DEF Arrived, arrived, FramingInv
  <1>2. ASSUME NEW i \in 1..arrived
        PROVE  Seen(received[i], Understood(objects[delivered[i]])) = SeenOf(i)
    <2> DEFINE o == objects[i]
               n == copies.sender
               m == copies.receiver
               got == received[i]
               u == Understood(o)
    <2>1. delivered[i] = i /\ i # Garbage /\ i \in DOMAIN received
      BY <1>1 DEF Garbage, ExchangeInv
    <2>2. /\ o \in Objects /\ got = Read(Written(o, n), m)
          /\ n \in {1, 2} /\ m \in {1, 2}
      BY <2>1, MadeOfObject
    <2>3. u <=> ~HasString(o) /\ (o.type \in ProtocolTypes /\ Fields[o.type] # <<>> => m <= n)
      BY DEF Understood
    <2> HIDE DEF o, n, m, got, u
    <2>4. /\ got = [type |-> o.type, values |-> got.values]
          /\ o = [type |-> o.type, values |-> o.values]
          /\ u => Seen(got, TRUE) = Seen(o, TRUE)
      <3> DEFINE read == Read(Written(o, n), m)
      <3>1. /\ read = [type |-> o.type, values |-> read.values]
            /\ o = [type |-> o.type, values |-> o.values]
            /\ ~HasString(o) /\ (o.type \in ProtocolTypes /\ Fields[o.type] # <<>> => m <= n) =>
                 Seen(read, TRUE) = Seen(o, TRUE)
        BY <2>2, WrittenIsRead
      <3>2. got = read
        BY <2>2
      <3> HIDE DEF read
      <3>3. QED
        BY <2>3, <3>1, <3>2
    <2>5. Seen(got, u) = Seen(o, u)
      <3>1. CASE u
        <4>1. Seen(got, u) = Seen(got, TRUE) /\ Seen(o, u) = Seen(o, TRUE)
          BY <3>1 DEF Seen
        <4>2. QED
          BY <3>1, <2>4, <4>1
      <3>2. CASE ~u
        <4>1. Seen(got, u) = [got EXCEPT !.values = <<>>] /\ Seen(o, u) = [o EXCEPT !.values = <<>>]
          BY <3>2 DEF Seen
        <4> DEFINE gotValues == got.values
                   values == o.values
                   type == o.type
        <4>2. got = [type |-> type, values |-> gotValues] /\ o = [type |-> type, values |-> values]
          BY <2>4
        <4> HIDE DEF gotValues, values, type
        <4>3. [got EXCEPT !.values = <<>>] = [o EXCEPT !.values = <<>>]
          BY <4>2
        <4>4. QED
          BY <4>1, <4>3
      <3>3. QED
        BY <3>1, <3>2
    <2>6. QED
      BY <2>1, <2>5 DEF SeenOf, o, u, got
  <1>3. QED
    BY <1>1, <1>2 DEF SeenUpTo, seenObjects

\* A step of the channel of numbers is one of the channel of objects.
LEMMA StepOfObjectChannel ==
  ASSUME ExchangeInv, ExchangeInv', FramingInv, FramingInv', [ExchangeNext]_exchangeVars
  PROVE  [ObjectChannel!Next]_ObjectChannel!vars
  <1> DEFINE n == nextMessage - 1
  <1>1. [Next]_vars /\ objects' = objects /\ copies' = copies
    BY DEF ExchangeNext, exchangeVars
  <1>2. sentObjects = SeenUpTo(n) /\ seenObjects = SeenUpTo(arrived)
    BY SeenWhatWasSent DEF SeenUpTo, SeenOf, sentObjects
  <1>3. \A m : SeenOf(m)' = SeenOf(m)
    BY <1>1 DEF SeenOf, Understood
  <1>4. sentObjects' = SeenUpTo(n') /\ seenObjects' = SeenUpTo(arrived')
    <2>1. (ExchangeInv /\ FramingInv => seenObjects = SeenUpTo(arrived))'
      BY SeenWhatWasSent, PTL
    <2>2. seenObjects' = [m \in 1..arrived' |-> SeenOf(m)']
      BY <2>1 DEF SeenUpTo
    <2>3. sentObjects' = [m \in 1..n' |-> SeenOf(m)']
      BY DEF sentObjects, SeenOf
    <2>4. QED
      BY <2>2, <2>3, <1>3 DEF SeenUpTo
  <1>5. /\ n \in Nat /\ n' \in Nat /\ arrived \in Nat /\ arrived' \in Nat
        /\ n + 1 = nextMessage
    <2>1. \A k \in Nat \ {0} : k - 1 \in Nat /\ (k - 1) + 1 = k
      OBVIOUS
    <2>2. QED
      BY <1>1, <2>1, StepInNumbers
  <1>6. \A k \in Nat : SeenUpTo(k + 1) = Append(SeenUpTo(k), SeenOf(k + 1))
    <2>1. ASSUME NEW k \in Nat PROVE SeenUpTo(k + 1) = Append(SeenUpTo(k), SeenOf(k + 1))
      <3> DEFINE all == [m \in 1..k + 1 |-> SeenOf(m)]
                 h == SeenUpTo(k)
                 x == SeenOf(k + 1)
      <3>1. h = [m \in 1..k |-> all[m]] /\ x = all[k + 1]
        BY DEF SeenUpTo
      <3>2. all = [m \in 1..k + 1 |-> all[m]] /\ all = SeenUpTo(k + 1)
        BY DEF SeenUpTo
      <3> HIDE DEF all, h, x
      <3>3. Append(h, x) = [m \in 1..k + 1 |-> all[m]]
        BY <3>1, OneMore
      <3>4. QED
        BY <3>2, <3>3 DEF h, x
    <2>2. QED
      BY <2>1
  <1>7. \/ nextMessage \in Messages /\ n' = n + 1 /\ arrived' = arrived /\ isLost' = isLost
        \/ ~isLost /\ n' = n /\ arrived < n /\ arrived' = arrived + 1 /\ isLost' = isLost
        \/ ~isLost /\ n' = n /\ arrived' = arrived /\ isLost'
        \/ n' = n /\ arrived' = arrived /\ isLost' = isLost
    BY <1>1, StepInNumbers
  <1>8. /\ ObjectChannel!vars = <<sentObjects, seenObjects, isLost>>
        /\ ObjectChannel!vars' = <<sentObjects', seenObjects', isLost'>>
    BY DEF ObjectChannel!vars, sentObjects, seenObjects, isLost
  <1>9. CASE nextMessage \in Messages /\ n' = n + 1 /\ arrived' = arrived /\ isLost' = isLost
    <2>1. sentObjects' = Append(sentObjects, SeenOf(n + 1)) /\ seenObjects' = seenObjects
      <3> HIDE DEF n
      <3>1. QED
        BY <1>2, <1>4, <1>5, <1>6, <1>9
    <2>2. SeenOf(n + 1) \in {Seen(o, u) : o \in Objects, u \in BOOLEAN}
      <3>1. n + 1 \in Messages
        BY <1>5, <1>9
      <3> HIDE DEF n
      <3>2. objects[n + 1] \in Objects
        BY <3>1, ExchangeAssumption DEF ExchangeInv
      <3>3. Understood(objects[n + 1]) \in BOOLEAN
        BY DEF Understood
      <3>4. QED
        BY <3>2, <3>3 DEF SeenOf
    <2>3. ObjectChannel!Send(SeenOf(n + 1))
      BY <1>9, <2>1 DEF ObjectChannel!Send, sentObjects, seenObjects, isLost
    <2>4. QED
      BY <2>2, <2>3 DEF ObjectChannel!Next
  <1>10. CASE ~isLost /\ n' = n /\ arrived < n /\ arrived' = arrived + 1 /\ isLost' = isLost
    <2> HIDE DEF n
    <2>1. sentObjects' = sentObjects /\ seenObjects' = Append(seenObjects, SeenOf(arrived + 1))
      BY <1>2, <1>4, <1>5, <1>6, <1>10
    <2>2. \A k \in Nat : Len(SeenUpTo(k)) = k
      BY DEF SeenUpTo
    <2>3. Len(seenObjects) = arrived /\ Len(sentObjects) = n
      BY <1>2, <1>5, <2>2
    <2>4. sentObjects[arrived + 1] = SeenOf(arrived + 1)
      <3>1. arrived + 1 \in 1..n
        BY <1>5, <1>10
      <3>2. QED
        BY <1>2, <3>1 DEF SeenUpTo
    <2>5. ~isLost /\ Len(seenObjects) < Len(sentObjects)
          /\ seenObjects' = Append(seenObjects, sentObjects[Len(seenObjects) + 1])
      BY <1>10, <2>1, <2>3, <2>4
    <2>6. ObjectChannel!Deliver
      BY <1>10, <2>1, <2>5 DEF ObjectChannel!Deliver, sentObjects, seenObjects, isLost
    <2>7. QED
      BY <2>6 DEF ObjectChannel!Next
  <1>11. CASE ~isLost /\ n' = n /\ arrived' = arrived /\ isLost'
    <2>1. sentObjects' = sentObjects /\ seenObjects' = seenObjects
      <3> HIDE DEF n
      <3>1. QED
        BY <1>2, <1>4, <1>11
    <2>2. ObjectChannel!Lose
      BY <1>11, <2>1 DEF ObjectChannel!Lose, sentObjects, seenObjects, isLost
    <2>3. QED
      BY <2>2 DEF ObjectChannel!Next
  <1>12. CASE n' = n /\ arrived' = arrived /\ isLost' = isLost
    <2>1. sentObjects' = sentObjects /\ seenObjects' = seenObjects
      <3> HIDE DEF n
      <3>1. QED
        BY <1>2, <1>4, <1>12
    <2>2. QED
      BY <1>8, <1>12, <2>1
  <1>13. QED
    BY <1>7, <1>9, <1>10, <1>11, <1>12

\* Whatever is sent in part, the objects themselves go through a channel up to the
\* trusted message, field by field and component by component: what the one
\* application sent is what the other gets, for all objects, any bytes of the
\* types of numbers, and whatever pieces the bytes arrive in.
THEOREM SystemsAreAnObjectChannel == ExchangeSpec => ImplementsObjectChannel
  <1>1. ExchangeInit => ObjectChannel!Init
    <2> SUFFICES ASSUME ExchangeInit
                 PROVE  ObjectChannel!Init
      OBVIOUS
    <2>1. FramingInv /\ nextMessage = 1 /\ delivered = <<>> /\ receiver = "idle"
      BY InitFraming DEF ExchangeInit, Init
    <2>2. Len(delivered) = 0 /\ trusted \in Nat
      BY <2>1, FramingAssumption DEF FramingInv, FramingAssumption, TypeOK
    <2>3. Arrived = 1..0 /\ ~(Len(delivered) > trusted)
      BY <2>2 DEF Arrived
    <2>4. sentObjects = <<>> /\ seenObjects = <<>>
      BY <2>1, <2>3 DEF sentObjects, seenObjects
    <2>5. QED
      BY <2>1, <2>3, <2>4 DEF ObjectChannel!Init, sentObjects, seenObjects
  <1>2. ExchangeInit => ExchangeInv /\ FramingInv
    BY InitExchange, InitFraming DEF ExchangeInit
  <1>3. [ExchangeNext]_exchangeVars => [Next]_vars
    BY DEF ExchangeNext, exchangeVars
  <1>4. ExchangeInv /\ FramingInv /\ [ExchangeNext]_exchangeVars => ExchangeInv' /\ FramingInv'
    BY <1>3, NextExchange, NextFraming
  <1>5. ExchangeInv /\ FramingInv /\ ExchangeInv' /\ FramingInv' /\ [ExchangeNext]_exchangeVars
          => [ObjectChannel!Next]_ObjectChannel!vars
    BY StepOfObjectChannel
  <1>6. QED
    BY <1>1, <1>2, <1>4, <1>5, PTL
    DEF ExchangeSpec, ImplementsObjectChannel, ObjectChannel!Spec

=============================================================================
