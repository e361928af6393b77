---------------------------- MODULE SocketsProofs ----------------------------
(***************************************************************************)
(* Threads that share TcpSockets and UdpSockets, for every number of them, *)
(* of objects, descriptors, ports and addresses. First what each method    *)
(* does to its object and to the descriptors of the process, then that the *)
(* invariant of all threads is inductive.                                  *)
(***************************************************************************)
EXTENDS SocketThreads, Induction, TLAPS

\* The fields of a TcpSocket or UdpSocket.
SocketType ==
  [kind : {"tcp", "udp"}, fd : Descriptors \cup {Invalid}, port : Nat, blocking : BOOLEAN]

\* What the system knows of a descriptor.
DescriptorType ==
  [kind : {"tcp", "udp"}, state : {"new", "bound", "listening", "connected"}, port : Nat,
   blocking : BOOLEAN, input : {"nothing", "data", "end"}]

\* The descriptors of a process.
Tables == UNION {[D -> DescriptorType] : D \in SUBSET Descriptors}

\* An object that has not opened a descriptor.
ClosedObjects == {x \in [socket : SocketType, table : Tables] : x.socket.fd = Invalid}

\* Close, field by field.
LEMMA ClosedRecord ==
  ASSUME NEW s, NEW t, NEW x, x = [socket |-> s, table |-> t]
  PROVE  Close(x) = [socket |-> [s EXCEPT !.fd = Invalid], table |-> Erase(t, s.fd)]
  <1>1. Close(x) \in [socket : {[s EXCEPT !.fd = Invalid]}, table : {Erase(t, s.fd)}]
    BY DEF Close
  <1>2. QED
    BY <1>1

\* A descriptor that was made and is given up leaves no trace: connectTo and
\* bindSocket close it and go on with the next address.
LEMMA MadeAndGivenUp ==
  ASSUME NEW x \in ClosedObjects
  PROVE  /\ NotMade(x) = x
         /\ \A z \in Made(x) : GivenUp(z) = x
  <1> USE DEF ClosedObjects
  <1>1. NotMade(x) = x
    BY DEF NotMade, SocketType
  <1>2. ASSUME NEW z \in Made(x) PROVE GivenUp(z) = x
    <2>1. PICK fd \in Descriptors \ DOMAIN x.table :
            z = [x EXCEPT !.socket.fd = fd,
              !.table = InsertOrAssign(x.table, fd, Fresh(x.socket.kind))]
      BY <1>2 DEF Made
    <2>2. z.socket = [x.socket EXCEPT !.fd = fd] /\ z.socket.fd = fd
      BY <2>1 DEF SocketType
    <2>3. z.table = InsertOrAssign(x.table, fd, Fresh(x.socket.kind))
      BY <2>1
    <2>4. Erase(z.table, fd) = x.table
      BY <2>3 DEF Erase, InsertOrAssign, Tables
    <2>5. [z.socket EXCEPT !.fd = Invalid] = x.socket
      BY <2>2 DEF SocketType
    <2>6. z = [socket |-> [x.socket EXCEPT !.fd = fd], table |-> z.table]
      BY <2>1, <2>2
    <2>7. GivenUp(z) = [socket |-> [z.socket EXCEPT !.fd = Invalid],
            table |-> Erase(z.table, z.socket.fd)]
      BY <2>2, <2>6, ClosedRecord DEF GivenUp
    <2>8. QED
      BY <2>2, <2>4, <2>5, <2>7
  <1>3. QED
    BY <1>1, <1>2

\* However many addresses fail, the object is what it was: by induction over
\* the addresses.
LEMMA AfterFailed ==
  ASSUME NEW x \in ClosedObjects, NEW limit \in Nat
  PROVE  AfterFailedAddresses(x, limit) = {x}
  <1> DEFINE
     Step(S) == UNION {{NotMade(y)} \cup {GivenUp(z) : z \in Made(y)} : y \in S}
     after[n \in 0..limit] ==
        IF n = 0 THEN {x}
        ELSE UNION {{NotMade(y)} \cup {GivenUp(z) : z \in Made(y)} : y \in after[n - 1]}
     same == [n \in 0..limit |-> {x}]
  <1>1. Step({x}) = {x}
    BY MadeAndGivenUp
  <1>2. same = [n \in 0..limit |-> IF n = 0 THEN {x} ELSE Step(same[n - 1])]
    <2>1. \A n \in 0..limit : same[n] = IF n = 0 THEN {x} ELSE Step(same[n - 1])
      <3> TAKE n \in 0..limit
      <3>1. CASE n = 0
        BY <3>1
      <3>2. CASE n # 0
        <4>1. n - 1 \in 0..limit
          BY <3>2
        <4>2. same[n - 1] = {x} /\ same[n] = {x}
          BY <4>1
        <4> HIDE DEF same
        <4>3. QED
          BY <3>2, <4>2, <1>1
      <3>3. QED
        BY <3>1, <3>2
    <2>2. QED
      BY <2>1
  <1>3. after = [n \in 0..limit |-> IF n = 0 THEN {x} ELSE Step(after[n - 1])]
    <2> HIDE DEF same
    <2>1. QED
    BY <1>2
  <1> DEFINE known == {n \in 0..limit : after[n] = {x}}
  <1>4. 0 \in known
    <2> HIDE DEF after, Step
    <2>1. 0 \in 0..limit
      OBVIOUS
    <2>2. after[0] = {x}
      BY <1>3, <2>1
    <2>3. QED
      BY <2>1, <2>2
  <1>5. \A n \in 1..limit : n - 1 \in known => n \in known
    <2> HIDE DEF after, Step
    <2> TAKE n \in 1..limit
    <2> HAVE n - 1 \in known
    <2>1. n \in 0..limit /\ n # 0
      OBVIOUS
    <2>2. after[n] = Step(after[n - 1])
      BY <1>3, <2>1
    <2>3. QED
      BY <2>1, <2>2, <1>1
  <1>6. \A n \in 0..limit : after[n] = {x}
    <2> HIDE DEF after, Step, known
    <2>1. 0..limit \subseteq known
      BY <1>4, <1>5, UpTo
    <2>2. QED
      BY <2>1 DEF known
  <1>7. AfterFailedAddresses(x, limit) = UNION {after[n] : n \in 0..limit}
    BY DEF AfterFailedAddresses
  <1>8. 0 \in 0..limit
    OBVIOUS
  <1>9. QED
    <2> HIDE DEF after
    <2>1. QED
    BY <1>6, <1>7, <1>8

\* What a method returns, or that it waits.
Codes ==
  {"Success", "Blocks", "LocksAgain", "SocketNotOpen", "SocketAlreadyOpen",
    "SocketShutdownFailed",
   "SocketGetaddrinfoFailed", "SocketConnectFailed", "SocketBindFailed", "SocketGetPortFailed",
   "SocketWouldBlock", "SocketAcceptFailed", "SocketReceiveFailed", "SocketConnectionClosed",
   "SocketReceiveSizeTooLarge", "SocketSendPartial", "SocketSendFailed", "SocketSendSizeTooLarge",
   "SocketSetBlockingFailed"}

\* An object with the descriptors of the process, before a method or after it.
Views ==
  [socket : SocketType, table : Tables] \cup [code : Codes, socket : SocketType, table : Tables]

\* An object that is open has a descriptor that is open.
HasItsDescriptor(x) == IsOpen(x) => x.socket.fd \in DOMAIN x.table

\* An object that is open knows the port of its descriptor; a TcpSocket has
\* none.
PortKnown(x) ==
  IF x.socket.kind = "tcp" THEN x.socket.port = 0
  ELSE IsOpen(x) => x.socket.port = Descriptor(x).port

\* What every method keeps of its object.
WellKept(x) == x \in Views /\ HasItsDescriptor(x) /\ PortKnown(x)

\* r has, of the descriptors, those of x, but for the one of the socket.
Keeps(x, r) ==
  /\ r.socket.kind = x.socket.kind
  /\ IsOpen(r) => r.socket.fd = x.socket.fd \/ r.socket.fd \notin DOMAIN x.table
  /\ DOMAIN r.table \ {r.socket.fd} = DOMAIN x.table \ {x.socket.fd}
  /\ \A fd \in DOMAIN x.table \ {x.socket.fd} : r.table[fd] = x.table[fd]

\* Closing, opening and changing a descriptor makes a table of a table.
LEMMA TablesKeepType ==
  ASSUME NEW t \in Tables
  PROVE  /\ \A fd : Erase(t, fd) \in Tables
         /\ \A fd \in Descriptors, d \in DescriptorType : InsertOrAssign(t, fd, d) \in Tables
         /\ \A fd \in DOMAIN t, d \in DescriptorType : [t EXCEPT ![fd] = d] \in Tables
         /\ \A fd \in DOMAIN t : t[fd] \in DescriptorType /\ fd \in Descriptors
  <1>1. PICK D \in SUBSET Descriptors : t \in [D -> DescriptorType]
    BY DEF Tables
  <1>2. ASSUME NEW fd PROVE Erase(t, fd) \in Tables
    <2>1. Erase(t, fd) \in [D \ {fd} -> DescriptorType]
      BY <1>1 DEF Erase
    <2>2. QED
      BY <2>1 DEF Tables
  <1>3. ASSUME NEW fd \in Descriptors, NEW d \in DescriptorType
        PROVE  InsertOrAssign(t, fd, d) \in Tables
    <2>1. InsertOrAssign(t, fd, d) \in [D \cup {fd} -> DescriptorType]
      BY <1>1 DEF InsertOrAssign
    <2>2. QED
      BY <2>1 DEF Tables
  <1>4. ASSUME NEW fd \in DOMAIN t, NEW d \in DescriptorType PROVE [t EXCEPT ![fd] = d] \in Tables
    <2>1. [t EXCEPT ![fd] = d] \in [D -> DescriptorType]
      BY <1>1
    <2>2. QED
      BY <2>1 DEF Tables
  <1>5. QED
    BY <1>1, <1>2, <1>3, <1>4

\* The fields of a view that is changed in one of them.
LEMMA Fields ==
  ASSUME NEW x \in Views
  PROVE  /\ x.socket \in SocketType /\ x.table \in Tables
         /\ \A t \in Tables : /\ [x EXCEPT !.table = t] \in Views
                              /\ [x EXCEPT !.table = t].socket = x.socket
                              /\ [x EXCEPT !.table = t].table = t
         /\ \A p \in Nat : /\ [x EXCEPT !.socket.port = p] \in Views
                           /\ [x EXCEPT !.socket.port = p].socket = [x.socket EXCEPT !.port = p]
                           /\ [x EXCEPT !.socket.port = p].table = x.table
                           /\ [x EXCEPT !.socket.port = p].code = x.code
         /\ \A b \in BOOLEAN : /\ [x EXCEPT !.socket.blocking = b] \in Views
                           /\ [x EXCEPT !.socket.blocking = b].socket =
                                [x.socket EXCEPT !.blocking = b]
                           /\ [x EXCEPT !.socket.blocking = b].table = x.table
                           /\ [x EXCEPT !.socket.blocking = b].code = x.code
  BY DEF Views, SocketType

\* closeSocketUnlocked takes the descriptor from the object and the process.
LEMMA CloseFields ==
  ASSUME NEW x \in Views
  PROVE  /\ Close(x) \in Views
         /\ Close(x).socket = [x.socket EXCEPT !.fd = Invalid]
         /\ Close(x).table = Erase(x.table, x.socket.fd)
  <1>1. Close(x).socket = [x.socket EXCEPT !.fd = Invalid]
    BY DEF Close, Views
  <1>2. Close(x).table = Erase(x.table, x.socket.fd)
    BY DEF Close, Views
  <1>3. Erase(x.table, x.socket.fd) \in Tables /\ [x.socket EXCEPT !.fd = Invalid] \in SocketType
    BY TablesKeepType DEF Views, SocketType
  <1>4. Close(x) \in Views
    <2> DEFINE S == [x.socket EXCEPT !.fd = Invalid]
    <2> DEFINE T == Erase(x.table, x.socket.fd)
    <2>1. \/ Close(x) \in [socket : {S}, table : {T}]
          \/ Close(x) \in [code : Codes, socket : {S}, table : {T}]
      BY DEF Close, Views
    <2>2. QED
      BY <2>1, <1>3 DEF Views
  <1>5. QED
    BY <1>1, <1>2, <1>4

\* A method that changes what the system knows of its descriptor changes no
\* other.
LEMMA ChangeFields ==
  ASSUME NEW x \in Views, HasItsDescriptor(x), IsOpen(x), NEW d \in DescriptorType
  PROVE  /\ Change(x, d) \in Views
         /\ Change(x, d).socket = x.socket
         /\ Change(x, d).table = [x.table EXCEPT ![x.socket.fd] = d]
         /\ Descriptor(x) \in DescriptorType
  <1>1. Change(x, d).socket = x.socket
    BY DEF Change, Views
  <1>2. Change(x, d).table = [x.table EXCEPT ![x.socket.fd] = d]
    BY DEF Change, Views
  <1>3. [x.table EXCEPT ![x.socket.fd] = d] \in Tables /\ Descriptor(x) \in DescriptorType
    BY TablesKeepType, Fields DEF HasItsDescriptor, Descriptor
  <1>4. Change(x, d) \in Views
    <2> DEFINE T == [x.table EXCEPT ![x.socket.fd] = d]
    <2>1. \/ Change(x, d) \in [socket : {x.socket}, table : {T}]
          \/ Change(x, d) \in [code : Codes, socket : {x.socket}, table : {T}]
      BY DEF Change, Views
    <2>2. QED
      BY <2>1, <1>3, Fields DEF Views
  <1>5. QED
    BY <1>1, <1>2, <1>3, <1>4

\* Returning a code changes neither object nor descriptors.
LEMMA ReturnsFields ==
  ASSUME NEW x \in Views, NEW code \in Codes
  PROVE  /\ Returns(code, x) \in Views
         /\ Returns(code, x).code = code
         /\ Returns(code, x).socket = x.socket
         /\ Returns(code, x).table = x.table
  BY DEF Returns, Views

\* What a method may do: keep its object well, and touch no other's descriptor.
Effect(x, r) == WellKept(r) /\ Keeps(x, r)

\* What keeps others' descriptors keeps them twice.
LEMMA KeepsFollow ==
  ASSUME NEW x, NEW r, NEW q, Keeps(x, r), Keeps(r, q)
  PROVE  Keeps(x, q)
  BY DEF Keeps, IsOpen

\* Two effects one after the other are one.
LEMMA EffectsFollow ==
  ASSUME NEW x, NEW r, NEW q, Effect(x, r), Effect(r, q)
  PROVE  Effect(x, q)
  BY DEF Effect, Keeps, IsOpen

\* Closing is an effect.
LEMMA CloseEffect ==
  ASSUME NEW x, x \in Views, x.socket.kind = "tcp" => x.socket.port = 0
  PROVE  Effect(x, Close(x)) /\ ~IsOpen(Close(x))
  <1> DEFINE r == Close(x)
  <1>1. r \in Views /\ r.socket = [x.socket EXCEPT !.fd = Invalid]
          /\ r.table = Erase(x.table, x.socket.fd)
    BY CloseFields
  <1> HIDE DEF r
  <1>2. x.socket \in SocketType /\ x.table \in Tables /\ Invalid \notin DOMAIN x.table
    BY Fields, TablesKeepType, SocketsAssumption
  <1>3. r.socket.fd = Invalid /\ r.socket.port = x.socket.port /\ r.socket.kind = x.socket.kind
    BY <1>1, <1>2 DEF SocketType
  <1>4. /\ DOMAIN r.table = DOMAIN x.table \ {x.socket.fd}
        /\ \A fd \in DOMAIN x.table \ {x.socket.fd} : r.table[fd] = x.table[fd]
    BY <1>1 DEF Erase
  <1>5. Effect(x, r) /\ ~IsOpen(r)
    BY <1>1, <1>2, <1>3, <1>4 DEF Effect, Keeps, WellKept, HasItsDescriptor, PortKnown, IsOpen
  <1>6. QED
    BY <1>5 DEF r

\* Changing what the system knows of the descriptor is an effect, when the
\* object knows its port.
LEMMA ChangeEffect ==
  ASSUME NEW x, x \in Views, HasItsDescriptor(x), IsOpen(x), NEW d \in DescriptorType,
         IF x.socket.kind = "tcp" THEN x.socket.port = 0 ELSE d.port = x.socket.port
  PROVE  /\ Effect(x, Change(x, d)) /\ IsOpen(Change(x, d))
         /\ Descriptor(Change(x, d)) = d /\ Change(x, d).socket = x.socket
  <1>1. /\ Change(x, d) \in Views
        /\ Change(x, d).socket = x.socket
        /\ Change(x, d).table = [x.table EXCEPT ![x.socket.fd] = d]
    BY ChangeFields
  <1>2. x.socket.fd \in DOMAIN x.table
    BY DEF HasItsDescriptor
  <1>3. QED
    BY <1>1, <1>2, Fields
    DEF Effect, Keeps, WellKept, HasItsDescriptor, PortKnown, Descriptor, IsOpen

\* What the system knows of a new descriptor.
LEMMA FreshType == Fresh("tcp") \in DescriptorType /\ Fresh("udp") \in DescriptorType
  BY DEF Fresh, DescriptorType

\* The fields of a descriptor that is changed in one or two of them.
LEMMA DescriptorFields ==
  \A d \in DescriptorType :
       /\ \A v \in {"bound", "listening", "connected"} :
            /\ [d EXCEPT !.state = v] \in DescriptorType
            /\ [d EXCEPT !.state = v].state = v
            /\ [d EXCEPT !.state = v].port = d.port
            /\ [d EXCEPT !.state = v].blocking = d.blocking
       /\ \A v \in {"nothing", "data", "end"} :
            /\ [d EXCEPT !.input = v] \in DescriptorType
            /\ [d EXCEPT !.input = v].state = d.state
            /\ [d EXCEPT !.input = v].port = d.port
            /\ [d EXCEPT !.input = v].blocking = d.blocking
       /\ \A v \in BOOLEAN :
            /\ [d EXCEPT !.blocking = v] \in DescriptorType
            /\ [d EXCEPT !.blocking = v].state = d.state
            /\ [d EXCEPT !.blocking = v].port = d.port
            /\ [d EXCEPT !.blocking = v].blocking = v
       /\ \A p \in Nat :
            /\ [d EXCEPT !.state = "bound", !.port = p] \in DescriptorType
            /\ [d EXCEPT !.state = "bound", !.port = p].state = "bound"
            /\ [d EXCEPT !.state = "bound", !.port = p].port = p
            /\ [d EXCEPT !.state = "bound", !.port = p].blocking = d.blocking
  BY DEF Fresh, DescriptorType

\* socket() gives the object a descriptor nobody has.
LEMMA MadeEffect ==
  ASSUME NEW x \in ClosedObjects, NEW y \in Made(x)
  PROVE  /\ y \in Views /\ IsOpen(y) /\ HasItsDescriptor(y) /\ Keeps(x, y)
         /\ y.socket.port = x.socket.port
         /\ Descriptor(y) = Fresh(x.socket.kind)
  <1>1. PICK fd \in Descriptors \ DOMAIN x.table :
            y = [x EXCEPT !.socket.fd = fd,
              !.table = InsertOrAssign(x.table, fd, Fresh(x.socket.kind))]
    BY DEF Made
  <1> DEFINE T == InsertOrAssign(x.table, fd, Fresh(x.socket.kind))
  <1> DEFINE S == [x.socket EXCEPT !.fd = fd]
  <1>2. y = [socket |-> S, table |-> T]
    BY <1>1 DEF ClosedObjects
  <1>3. T \in Tables /\ S \in SocketType
    BY TablesKeepType DEF ClosedObjects, Fresh, DescriptorType, SocketType
  <1>4. /\ DOMAIN T = DOMAIN x.table \cup {fd}
        /\ T[fd] = Fresh(x.socket.kind)
        /\ \A d \in DOMAIN x.table : T[d] = x.table[d]
    BY <1>1 DEF InsertOrAssign
  <1>5. S.fd = fd /\ S.port = x.socket.port /\ S.kind = x.socket.kind
    BY DEF ClosedObjects, SocketType
  <1> HIDE DEF S, T
  <1>6. y \in Views
    BY <1>2, <1>3 DEF Views
  <1>7. fd # Invalid /\ Invalid \notin DOMAIN x.table
    BY SocketsAssumption, TablesKeepType DEF ClosedObjects
  <1>8. y.socket = S /\ y.table = T /\ x.socket.fd = Invalid
    BY <1>2 DEF ClosedObjects
  <1>9. IsOpen(y) /\ HasItsDescriptor(y) /\ Descriptor(y) = Fresh(x.socket.kind)
    BY <1>4, <1>5, <1>7, <1>8 DEF IsOpen, Descriptor, HasItsDescriptor
  <1>10. Keeps(x, y)
    BY <1>1, <1>4, <1>5, <1>7, <1>8 DEF Keeps
  <1>11. QED
    BY <1>5, <1>6, <1>8, <1>9, <1>10

\* An effect whose result is returned is an effect.
LEMMA Returned ==
  ASSUME NEW x, NEW y, Effect(x, y), NEW code \in Codes
  PROVE  /\ Effect(x, Returns(code, y)) /\ Returns(code, y).code = code
         /\ IsOpen(Returns(code, y)) <=> IsOpen(y)
         /\ Descriptor(Returns(code, y)) = Descriptor(y)
         /\ Returns(code, y).socket = y.socket
  <1>1. y \in Views
    BY DEF Effect, WellKept
  <1>2. /\ Returns(code, y) \in Views /\ Returns(code, y).code = code
        /\ Returns(code, y).socket = y.socket /\ Returns(code, y).table = y.table
    BY <1>1, ReturnsFields
  <1>3. QED
    BY <1>2 DEF Effect, Keeps, WellKept, HasItsDescriptor, PortKnown, Descriptor, IsOpen

\* Doing nothing is an effect.
LEMMA NothingEffect == ASSUME NEW x, WellKept(x) PROVE Effect(x, x)
  BY DEF Effect, Keeps, IsOpen

\* An object before a method.
Object(x) == WellKept(x) /\ x \in [socket : SocketType, table : Tables]

\* An object that is not open finds no address that works as it was, and one
\* that works with a new descriptor.
LEMMA ClosedObject ==
  ASSUME NEW x, Object(x), ~IsOpen(x)
  PROVE  /\ x \in ClosedObjects
         /\ NoAddressWorks(x) = {x}
         /\ AtWorkingAddress(x) = Made(x)
  <1>1. x \in ClosedObjects
    BY DEF Object, ClosedObjects, IsOpen
  <1>2. MaxAddresses \in Nat /\ MaxAddresses - 1 \in Nat
    BY SocketsAssumption
  <1>3. QED
    BY <1>1, <1>2, AfterFailed DEF NoAddressWorks, AtWorkingAddress

\* TcpSocket::connectTo, which opens an object or leaves it as it was.
LEMMA ConnectEffect ==
  ASSUME NEW x, Object(x), x.socket.kind = "tcp", NEW r \in ConnectTo(x)
  PROVE  /\ Effect(x, r)
         /\ r.code \in {"SocketAlreadyOpen", "SocketGetaddrinfoFailed", "SocketConnectFailed",
              "Success"}
         /\ r.code = "Success" => IsOpen(r) /\ Descriptor(r).state = "connected"
         /\ r.code # "Success" => r.socket = x.socket /\ r.table = x.table
  <1>1. WellKept(x) /\ x \in Views
    BY DEF Object, WellKept
  <1>2. ASSUME NEW code \in {"SocketAlreadyOpen", "SocketGetaddrinfoFailed",
               "SocketConnectFailed"},
               r = Returns(code, x)
        PROVE  /\ Effect(x, r) /\ r.code = code
               /\ r.socket = x.socket /\ r.table = x.table
    <2>1. code \in Codes
      BY <1>2 DEF Codes
    <2>2. QED
      BY <1>1, <1>2, <2>1, NothingEffect, Returned, ReturnsFields
  <1>3. CASE ~IsOpen(x) /\ \E y \in AtWorkingAddress(x) :
             r = Returns("Success", Change(y, [Descriptor(y) EXCEPT !.state = "connected"]))
    <2>1. PICK y \in Made(x) :
                 r = Returns("Success", Change(y, [Descriptor(y) EXCEPT !.state = "connected"]))
      BY <1>3, ClosedObject
    <2>2. /\ y \in Views /\ IsOpen(y) /\ HasItsDescriptor(y) /\ Keeps(x, y)
          /\ y.socket.port = x.socket.port
          /\ Descriptor(y) = Fresh("tcp")
      BY <1>3, <2>1, ClosedObject, MadeEffect
    <2> DEFINE d == [Descriptor(y) EXCEPT !.state = "connected"]
    <2>3. d \in DescriptorType /\ d.state = "connected"
      <3>1. Descriptor(y) \in DescriptorType
        BY <2>2, FreshType
      <3>2. QED
        BY <3>1, DescriptorFields
    <2>4. x.socket.port = 0 /\ y.socket.kind = "tcp"
      BY <1>1, <2>2 DEF WellKept, PortKnown, Keeps, Object
    <2>5. r = Returns("Success", Change(y, d))
      BY <2>1
    <2> HIDE DEF d
    <2>6. Effect(y, Change(y, d)) /\ IsOpen(Change(y, d)) /\ Descriptor(Change(y, d)) = d
      BY <2>2, <2>3, <2>4, ChangeEffect
    <2>7. Effect(x, y)
      BY <2>2, <2>4 DEF Effect, WellKept, PortKnown
    <2>8. Effect(x, Change(y, d))
      BY <2>6, <2>7, EffectsFollow
    <2>9. "Success" \in Codes
      BY DEF Codes
    <2>10. QED
      BY <2>3, <2>5, <2>6, <2>8, <2>9, Returned
  <1>4. CASE \E code \in {"SocketAlreadyOpen", "SocketGetaddrinfoFailed",
             "SocketConnectFailed"} : r = Returns(code, x)
    BY <1>2, <1>4
  <1>5. QED
    BY <1>3, <1>4, ClosedObject DEF ConnectTo

\* Returning a code at once is an effect.
LEMMA AnswerEffect ==
  ASSUME NEW x, WellKept(x), NEW code \in Codes
  PROVE  /\ Effect(x, Returns(code, x)) /\ Returns(code, x).code = code
         /\ Returns(code, x).socket = x.socket /\ Returns(code, x).table = x.table
         /\ IsOpen(Returns(code, x)) <=> IsOpen(x)
         /\ Descriptor(Returns(code, x)) = Descriptor(x)
  BY NothingEffect, Returned, ReturnsFields DEF WellKept

\* Changing anything but the port is an effect of an open object.
LEMMA ChangeOf ==
  ASSUME NEW x, WellKept(x), IsOpen(x), NEW d \in DescriptorType, d.port = Descriptor(x).port
  PROVE  /\ Effect(x, Change(x, d)) /\ IsOpen(Change(x, d))
         /\ Descriptor(Change(x, d)) = d /\ Change(x, d).socket = x.socket
  <1>1. IF x.socket.kind = "tcp" THEN x.socket.port = 0 ELSE d.port = x.socket.port
    BY DEF WellKept, PortKnown
  <1>2. QED
    BY <1>1, ChangeEffect DEF WellKept

\* The descriptor of an open object is in the table.
LEMMA OpenDescriptor ==
  ASSUME NEW x, WellKept(x), IsOpen(x)
  PROVE  /\ Descriptor(x) \in DescriptorType /\ x.socket.fd \in DOMAIN x.table
         /\ Descriptor(x) = x.table[x.socket.fd]
  BY TablesKeepType, Fields DEF WellKept, HasItsDescriptor, Descriptor

\* TcpSocket::listenSocket, which makes the descriptor listen, or locks the
\* mutex it holds.
LEMMA ListenEffect ==
  ASSUME NEW x, WellKept(x), NEW r \in ListenSocket(x)
  PROVE  /\ Effect(x, r) /\ r.socket = x.socket
         /\ r.code \in {"SocketNotOpen", "LocksAgain", "Success"}
         /\ r.code = "Success" =>
              IsOpen(r) /\ Descriptor(r) = [Descriptor(x) EXCEPT !.state = "listening"]
         /\ r.code # "Success" => r.table = x.table
         /\ r.code = "LocksAgain" => IsOpen(x)
  <1> DEFINE d == [Descriptor(x) EXCEPT !.state = "listening"]
  <1>0. "SocketNotOpen" \in Codes /\ "LocksAgain" \in Codes /\ "Success" \in Codes
    BY DEF Codes
  <1>1. CASE ~IsOpen(x) /\ r = Returns("SocketNotOpen", x)
    BY <1>0, <1>1, AnswerEffect
  <1>2. CASE IsOpen(x) /\ r = Returns("LocksAgain", x)
    BY <1>0, <1>2, AnswerEffect
  <1>3. CASE IsOpen(x) /\ r = Returns("Success", Change(x, d))
    <2>1. d \in DescriptorType /\ d.port = Descriptor(x).port
      BY <1>3, OpenDescriptor, DescriptorFields
    <2>2. IsOpen(x) /\ r = Returns("Success", Change(x, d))
      BY <1>3
    <2> HIDE DEF d
    <2>3. Effect(x, r) /\ r.code = "Success" /\ r.socket = x.socket /\ IsOpen(r)
            /\ Descriptor(r) = d
      BY <1>0, <2>1, <2>2, ChangeOf, Returned
    <2>4. QED
      BY <2>3 DEF d
  <1>4. QED
    BY <1>1, <1>2, <1>3 DEF ListenSocket, WhenOpen

\* setBlocking, which changes the descriptor and then the flag of the object.
LEMMA SetBlockingEffect ==
  ASSUME NEW x, WellKept(x), NEW mode \in BOOLEAN, NEW r \in SetBlocking(x, mode)
  PROVE  /\ Effect(x, r) /\ r.socket.fd = x.socket.fd
         /\ r.code \in {"SocketNotOpen", "SocketSetBlockingFailed", "Success"}
         /\ r.code = "Success" =>
              IsOpen(r) /\ Descriptor(r) = [Descriptor(x) EXCEPT !.blocking = mode]
         /\ r.code # "Success" => r.table = x.table /\ r.socket = x.socket
  <1> DEFINE d == [Descriptor(x) EXCEPT !.blocking = mode]
  <1>0. "SocketNotOpen" \in Codes /\ "SocketSetBlockingFailed" \in Codes /\ "Success" \in Codes
    BY DEF Codes
  <1>1. CASE ~IsOpen(x) /\ r = Returns("SocketNotOpen", x)
    BY <1>0, <1>1, AnswerEffect
  <1>2. CASE r = Returns("SocketSetBlockingFailed", x)
    BY <1>0, <1>2, AnswerEffect
  <1>3. ASSUME NEW q, IsOpen(x), q = Returns("Success", Change(x, d))
        PROVE  /\ Effect(x, q) /\ q.code = "Success" /\ q.socket = x.socket /\ IsOpen(q)
                    /\ Descriptor(q) = d
    <2>1. d \in DescriptorType /\ d.port = Descriptor(x).port
      <3>1. Descriptor(x) \in DescriptorType
        BY <1>3, OpenDescriptor
      <3>2. QED
        BY <3>1 DEF DescriptorType
    <2>2. IsOpen(x) /\ q = Returns("Success", Change(x, d))
      BY <1>3
    <2> HIDE DEF d
    <2>3. QED
      BY <1>0, <2>1, <2>2, ChangeOf, Returned
  <1>4. CASE IsOpen(x) /\ x.socket.kind # "tcp" /\ r = Returns("Success", Change(x, d))
    BY <1>3, <1>4
  <1>5. CASE IsOpen(x) /\ r = [Returns("Success", Change(x, d)) EXCEPT !.socket.blocking = mode]
    <2> DEFINE q == Returns("Success", Change(x, d))
    <2>1. /\ Effect(x, q) /\ q.code = "Success" /\ q.socket = x.socket /\ IsOpen(q)
               /\ Descriptor(q) = d
      BY <1>3, <1>5
    <2>2. r = [q EXCEPT !.socket.blocking = mode]
      BY <1>5
    <2> HIDE DEF q, d
    <2>3. r \in Views /\ r.socket = [q.socket EXCEPT !.blocking = mode] /\ r.table = q.table
            /\ r.code = q.code
      BY <2>1, <2>2, Fields DEF Effect, WellKept
    <2>4. r.socket.fd = q.socket.fd /\ r.socket.port = q.socket.port
            /\ r.socket.kind = q.socket.kind
      BY <2>1, <2>3, Fields DEF SocketType, Effect, WellKept
    <2>5. Effect(x, r) /\ IsOpen(r) /\ Descriptor(r) = d
      BY <2>1, <2>3, <2>4
      DEF Effect, WellKept, HasItsDescriptor, PortKnown, IsOpen, Keeps, Descriptor
    <2>6. QED
      BY <2>1, <2>3, <2>4, <2>5 DEF d
  <1>6. QED
    <2>1. /\ Returns("Success", Change(x, d)).code = "Success" \/ ~IsOpen(x)
          /\ Returns("SocketSetBlockingFailed", x).code = "SocketSetBlockingFailed"
      BY <1>0, <1>3, AnswerEffect
    <2>2. QED
    BY <2>1, <1>1, <1>2, <1>3, <1>4, <1>5
    DEF SetBlocking, TcpSetBlocking, UdpSetBlocking, SetMode, WhenOpen

\* A result keeps the mutex for a reason.
WaitsFor(op, r) ==
  /\ r.code = "Blocks" =>
       op \in {"acceptSocket", "receiveData", "sendData"} /\ IsOpen(r) /\ Descriptor(r).blocking
  /\ r.code = "LocksAgain" => op = "listenSocket"

\* The codes, one by one.
LEMMA CodesListed ==
  /\ "Success" \in Codes /\ "Blocks" \in Codes /\ "LocksAgain" \in Codes
       /\ "SocketNotOpen" \in Codes
  /\ "SocketShutdownFailed" \in Codes /\ "SocketWouldBlock" \in Codes
       /\ "SocketAcceptFailed" \in Codes
  /\ "SocketReceiveFailed" \in Codes /\ "SocketConnectionClosed" \in Codes
  /\ "SocketReceiveSizeTooLarge" \in Codes /\ "SocketSendPartial" \in Codes
  /\ "SocketSendFailed" \in Codes /\ "SocketSendSizeTooLarge" \in Codes
  /\ "SocketAlreadyOpen" \in Codes /\ "SocketGetaddrinfoFailed" \in Codes
  /\ "SocketBindFailed" \in Codes /\ "SocketGetPortFailed" \in Codes
  BY DEF Codes

\* Taking what arrived is an effect.
LEMMA EmptiedEffect ==
  ASSUME NEW x, WellKept(x), IsOpen(x), NEW v \in {"nothing", "end"}
  PROVE  LET y == Change(x, [Descriptor(x) EXCEPT !.input = v]) IN
         /\ Effect(x, y) /\ IsOpen(y) /\ Descriptor(y).blocking = Descriptor(x).blocking
         /\ y.socket = x.socket /\ WellKept(y)
  <1> DEFINE d == [Descriptor(x) EXCEPT !.input = v]
  <1>1. Descriptor(x) \in DescriptorType
    BY OpenDescriptor
  <1>2. d \in DescriptorType /\ d.port = Descriptor(x).port /\ d.blocking = Descriptor(x).blocking
    BY <1>1 DEF DescriptorType
  <1> HIDE DEF d
  <1>3. /\ Effect(x, Change(x, d)) /\ IsOpen(Change(x, d)) /\ Change(x, d).socket = x.socket
        /\ Descriptor(Change(x, d)).blocking = Descriptor(x).blocking
    BY <1>2, ChangeOf
  <1>4. QED
    BY <1>3 DEF d, Effect

\* Finding nothing returns at once, or waits if the descriptor blocks.
LEMMA FindsNothingEffect ==
  ASSUME NEW x, WellKept(x), IsOpen(x), NEW op \in {"acceptSocket", "receiveData"},
         NEW code \in {"SocketWouldBlock", "Success"}, NEW r \in FindsNothing(x, code)
  PROVE  Effect(x, r) /\ WaitsFor(op, r)
  <1>1. CASE Descriptor(x).blocking /\ r = Returns("Blocks", x)
    BY <1>1, AnswerEffect, CodesListed DEF WaitsFor
  <1>2. CASE r = Returns(code, x)
    <2>1. code \in Codes
      BY CodesListed
    <2>2. Effect(x, r) /\ r.code = code
      BY <1>2, <2>1, AnswerEffect
    <2>3. QED
      BY <2>2 DEF WaitsFor
  <1>3. QED
    BY <1>1, <1>2 DEF FindsNothing

\* A method that answers waits for nothing.
LEMMA AnswersWithout ==
  ASSUME NEW x, WellKept(x), NEW op, NEW code \in Codes \ {"Blocks", "LocksAgain"}, NEW r,
         r = Returns(code, x)
  PROVE  Effect(x, r) /\ WaitsFor(op, r)
  <1>1. Effect(x, r) /\ r.code = code
    BY AnswerEffect
  <1>2. QED
    BY <1>1 DEF WaitsFor

\* TcpSocket::acceptSocket without a new connection.
LEMMA AcceptFailsEffect ==
  ASSUME NEW x, WellKept(x), NEW r \in AcceptFails(x)
  PROVE  Effect(x, r) /\ WaitsFor("acceptSocket", r)
  <1>1. CASE r = Returns("SocketNotOpen", x) \/ r = Returns("SocketAcceptFailed", x)
    BY <1>1, AnswersWithout, CodesListed
  <1>2. CASE IsOpen(x) /\ r \in FindsNothing(x, "SocketWouldBlock")
    BY <1>2, FindsNothingEffect
  <1>3. QED
    BY <1>1, <1>2 DEF AcceptFails, WhenOpen

\* receiveData.
LEMMA ReceiveEffect ==
  ASSUME NEW x, WellKept(x), NEW r \in ReceiveData(x)
  PROVE  Effect(x, r) /\ WaitsFor("receiveData", r)
  <1> DEFINE rest == Change(x, [Descriptor(x) EXCEPT !.input = "nothing"])
  <1>1. CASE \E code \in {"SocketNotOpen", "SocketReceiveFailed", "SocketConnectionClosed",
             "SocketReceiveSizeTooLarge"} : r = Returns(code, x)
    BY <1>1, AnswersWithout, CodesListed
  <1>2. IsOpen(x) => Effect(x, rest) /\ IsOpen(rest) /\ WellKept(rest) /\ rest.socket = x.socket
    BY EmptiedEffect
  <1>3. CASE IsOpen(x) /\ \E code \in
             {"SocketReceiveFailed", "SocketConnectionClosed", "Success"} :
               r = Returns(code, rest)
    <2> HIDE DEF rest
    <2>1. PICK code \in {"SocketReceiveFailed", "SocketConnectionClosed", "Success"} :
                 r = Returns(code, rest)
      BY <1>3
    <2>2. Effect(rest, r) /\ WaitsFor("receiveData", r)
      BY <1>2, <1>3, <2>1, AnswersWithout, CodesListed
    <2>3. QED
      BY <1>2, <1>3, <2>2, EffectsFollow
  <1>4. CASE IsOpen(x) /\ r \in FindsNothing(rest, "Success")
    <2> HIDE DEF rest
    <2>1. Effect(rest, r) /\ WaitsFor("receiveData", r)
      BY <1>2, <1>4, FindsNothingEffect
    <2>2. QED
      BY <1>2, <1>4, <2>1, EffectsFollow
  <1>5. CASE IsOpen(x) /\ r \in FindsNothing(x, "SocketWouldBlock")
    BY <1>5, FindsNothingEffect
  <1>6. CASE IsOpen(x) /\ r \in [code : {"SocketReceiveFailed", "SocketConnectionClosed"},
          socket : {x.socket}, table : {x.table, rest.table}]
    <2>1. IsOpen(x) /\ rest.socket = x.socket
      BY <1>2, <1>6
    <2> HIDE DEF rest
    <2>2. PICK code \in {"SocketReceiveFailed", "SocketConnectionClosed"} :
             r = Returns(code, x) \/ r = Returns(code, rest)
      BY <1>6, <2>1 DEF Returns
    <2>3. QED
      BY <2>1, <2>2, <1>1, <1>3
  <1>7. QED
    BY <1>1, <1>3, <1>4, <1>5, <1>6 DEF ReceiveData, Receive, ReceiveFrom, WhenOpen

\* sendData.
LEMMA SendEffect ==
  ASSUME NEW x, WellKept(x), NEW r \in SendData(x)
  PROVE  Effect(x, r) /\ WaitsFor("sendData", r)
  <1>1. CASE \E code \in {"SocketNotOpen", "Success", "SocketSendPartial",
             "SocketConnectionClosed", "SocketSendFailed",
             "SocketSendSizeTooLarge"} : r = Returns(code, x)
    BY <1>1, AnswersWithout, CodesListed
  <1>2. CASE IsOpen(x) /\ Descriptor(x).blocking /\ r = Returns("Blocks", x)
    BY <1>2, AnswerEffect, CodesListed DEF WaitsFor
  <1>3. CASE r \in [code : {"Success", "SocketSendPartial", "SocketConnectionClosed",
             "SocketSendFailed",
             "SocketSendSizeTooLarge"}, socket : {x.socket}, table : {x.table}]
    <2>1. PICK code \in {"Success", "SocketSendPartial", "SocketConnectionClosed",
                 "SocketSendFailed",
             "SocketSendSizeTooLarge"} : r = Returns(code, x)
      BY <1>3 DEF Returns
    <2>2. QED
      BY <2>1, <1>1
  <1>4. QED
    BY <1>1, <1>2, <1>3 DEF SendData, Send, SendTo, WhenOpen

\* TcpSocket::shutdownSocket.
LEMMA ShutdownEffect ==
  ASSUME NEW x, WellKept(x), NEW r \in ShutdownSocket(x)
  PROVE  Effect(x, r) /\ WaitsFor("shutdownSocket", r)
  <1> DEFINE rest == Change(x, [Descriptor(x) EXCEPT !.input = "end"])
  <1>1. CASE r = Returns("Success", x) \/ r = Returns("SocketShutdownFailed", x)
    BY <1>1, AnswersWithout, CodesListed
  <1>2. CASE IsOpen(x) /\ r = Returns("Success", rest)
    <2>1. IsOpen(x) /\ r = Returns("Success", rest) /\ Effect(x, rest) /\ WellKept(rest)
      BY <1>2, EmptiedEffect
    <2> HIDE DEF rest
    <2>2. Effect(rest, r) /\ WaitsFor("shutdownSocket", r)
      BY <2>1, AnswersWithout, CodesListed
    <2>3. QED
      BY <2>1, <2>2, EffectsFollow
  <1>3. QED
    BY <1>1, <1>2 DEF ShutdownSocket

\* closeSocket.
LEMMA CloseSocketEffect ==
  ASSUME NEW x, WellKept(x), NEW r \in CloseSocket(x)
  PROVE  Effect(x, r) /\ WaitsFor("closeSocket", r)
  <1>1. Effect(x, Close(x)) /\ WellKept(Close(x)) /\ r = Returns("Success", Close(x))
    BY CloseEffect DEF WellKept, PortKnown, CloseSocket, Effect
  <1>2. Effect(Close(x), r) /\ WaitsFor("closeSocket", r)
    BY <1>1, AnswersWithout, CodesListed
  <1>3. QED
    BY <1>1, <1>2, EffectsFollow

\* A new descriptor that was bound.
LEMMA BoundEffect ==
  ASSUME NEW x, Object(x), ~IsOpen(x), NEW p \in Ports \cup {0}, NEW y \in Bound(x, p)
  PROVE  /\ y \in Views /\ HasItsDescriptor(y) /\ IsOpen(y) /\ Keeps(x, y)
         /\ y.socket.port = x.socket.port /\ y.socket.kind = x.socket.kind
         /\ Descriptor(y) \in DescriptorType /\ Descriptor(y).state = "bound"
  <1>1. PICK z \in Made(x), q \in Bindable(x, p) : y = BoundTo(z, q)
    <2>1. AtWorkingAddress(x) = Made(x)
      BY ClosedObject
    <2>2. QED
      BY <2>1 DEF Bound
  <1>2. /\ z \in Views /\ IsOpen(z) /\ HasItsDescriptor(z) /\ Keeps(x, z)
        /\ z.socket.port = x.socket.port /\ Descriptor(z) = Fresh(x.socket.kind)
    BY ClosedObject, MadeEffect
  <1>3. q \in Nat
    BY SocketsAssumption DEF Bindable
  <1> DEFINE d == [Descriptor(z) EXCEPT !.state = "bound", !.port = q]
  <1>4. d \in DescriptorType /\ d.state = "bound"
    <2>1. Descriptor(z) \in DescriptorType
      BY <1>2, FreshType DEF Object, SocketType
    <2>2. QED
      BY <2>1, <1>3 DEF DescriptorType
  <1>5. y = Change(z, d)
    BY <1>1 DEF BoundTo
  <1> HIDE DEF d
  <1>6. y \in Views /\ y.socket = z.socket /\ y.table = [z.table EXCEPT ![z.socket.fd] = d]
    BY <1>2, <1>4, <1>5, ChangeFields
  <1>7. z.socket.fd \in DOMAIN z.table
    BY <1>2 DEF HasItsDescriptor
  <1>8. HasItsDescriptor(y) /\ IsOpen(y) /\ Descriptor(y) = d /\ Keeps(z, y)
    BY <1>2, <1>6, <1>7 DEF HasItsDescriptor, IsOpen, Descriptor, Keeps
  <1>9. Keeps(x, y) /\ y.socket.kind = x.socket.kind
    BY <1>2, <1>6, <1>8, KeepsFollow DEF Keeps
  <1>10. QED
    BY <1>2, <1>4, <1>6, <1>8, <1>9

\* TcpSocket::bindSocket, which opens the object or leaves it closed.
LEMMA TcpBindEffect ==
  ASSUME NEW x, Object(x), x.socket.kind = "tcp", NEW p \in Ports \cup {0},
         NEW r \in BindSocket(x, p)
  PROVE  /\ Effect(x, r) /\ WaitsFor("bindSocket", r)
         /\ r.code \in {"SocketAlreadyOpen", "SocketGetaddrinfoFailed", "SocketGetPortFailed",
              "Success"}
         /\ r.code = "Success" => IsOpen(r) /\ Descriptor(r).state = "bound"
         /\ ~IsOpen(x) /\ r.code # "Success" => ~IsOpen(r) /\ r.table = x.table
  <1>0. x \in Views /\ WellKept(x) /\ x.socket.port = 0
    BY DEF Object, WellKept, PortKnown
  <1>1. CASE r = Returns("SocketAlreadyOpen", x) \/ r = Returns("SocketGetaddrinfoFailed", x)
    BY <1>0, <1>1, AnswerEffect, CodesListed DEF WaitsFor
  <1>2. CASE ~IsOpen(x) /\ r = TcpBindFailed(x)
    <2>1. r = Returns("SocketGetPortFailed", Close(x))
      BY <1>2 DEF TcpBindFailed
    <2>2. Effect(x, Close(x)) /\ ~IsOpen(Close(x))
            /\ Close(x).table = Erase(x.table, x.socket.fd) /\ Close(x) \in Views
      BY <1>0, CloseEffect, CloseFields
    <2>3. Erase(x.table, x.socket.fd) = x.table
      <3>1. x.socket.fd \notin DOMAIN x.table
        BY <1>0, <1>2, Fields, TablesKeepType, SocketsAssumption DEF IsOpen
      <3>2. QED
        BY <1>0, <3>1, Fields DEF Erase, Tables
    <2>4. Effect(x, r) /\ r.code = "SocketGetPortFailed" /\ ~IsOpen(r) /\ r.table = x.table
      BY <2>1, <2>2, <2>3, Returned, ReturnsFields, CodesListed
    <2>5. QED
      BY <2>4 DEF WaitsFor
  <1>3. CASE ~IsOpen(x) /\ \E y \in Bound(x, p) : r = Returns("Success", y)
    <2>1. PICK y \in Bound(x, p) : r = Returns("Success", y)
      BY <1>3
    <2>2. Effect(x, y) /\ IsOpen(y) /\ Descriptor(y).state = "bound"
      BY <1>0, <1>3, BoundEffect DEF Effect, WellKept, PortKnown
    <2>3. "Success" \in Codes
      BY CodesListed
    <2>4. Effect(x, r) /\ r.code = "Success" /\ IsOpen(r) /\ Descriptor(r) = Descriptor(y)
      BY <2>1, <2>2, <2>3, Returned
    <2>5. QED
      BY <2>2, <2>4 DEF WaitsFor
  <1>4. QED
    BY <1>1, <1>2, <1>3, ClosedObject DEF BindSocket, TcpBindSocket

\* UdpSocket::bindSocket, which asks the system for the port it got.
LEMMA UdpBindEffect ==
  ASSUME NEW x, Object(x), x.socket.kind = "udp", NEW p \in Ports \cup {0},
         NEW r \in BindSocket(x, p)
  PROVE  Effect(x, r) /\ WaitsFor("bindSocket", r)
  <1>0. x \in Views /\ WellKept(x)
    BY DEF Object, WellKept
  <1>1. CASE r = Returns("SocketAlreadyOpen", x) \/ r = Returns("SocketGetaddrinfoFailed", x)
             \/ r = Returns("SocketBindFailed", x)
    BY <1>0, <1>1, AnswersWithout, CodesListed
  <1>2. CASE ~IsOpen(x) /\ \E y \in Bound(x, p) : r = Returns("SocketGetPortFailed", GivenUp(y))
    <2>1. PICK y \in Bound(x, p) : r = Returns("SocketGetPortFailed", Close(y))
      BY <1>2 DEF GivenUp
    <2>2. /\ y \in Views /\ y.socket.kind = "udp" /\ Keeps(x, y)
      BY <1>2, BoundEffect
    <2>3. Effect(y, Close(y))
      BY <2>2, CloseEffect
    <2>4. Effect(x, Close(y)) /\ WellKept(Close(y))
      BY <2>2, <2>3, KeepsFollow DEF Effect
    <2>5. Effect(Close(y), r) /\ WaitsFor("bindSocket", r)
      BY <2>1, <2>4, AnswersWithout, CodesListed
    <2>6. QED
      BY <2>4, <2>5, EffectsFollow
  <1>3. CASE ~IsOpen(x) /\ \E y \in Bound(x, p) :
             r = Returns("Success", [y EXCEPT !.socket.port = PortBound(y, p)])
    <2>1. PICK y \in Bound(x, p) :
                 r = Returns("Success", [y EXCEPT !.socket.port = Descriptor(y).port])
      BY <1>3 DEF PortBound
    <2> DEFINE q == Descriptor(y).port
    <2> DEFINE z == [y EXCEPT !.socket.port = q]
    <2>2. /\ y \in Views /\ HasItsDescriptor(y) /\ IsOpen(y) /\ Keeps(x, y)
          /\ y.socket.kind = "udp" /\ Descriptor(y) \in DescriptorType
      BY <1>3, BoundEffect
    <2>3. q \in Nat
      BY <2>2 DEF DescriptorType
    <2> HIDE DEF q
    <2>4. z \in Views /\ z.socket = [y.socket EXCEPT !.port = q] /\ z.table = y.table
      BY <2>2, <2>3, Fields
    <2>5. r = Returns("Success", z)
      BY <2>1 DEF q
    <2> HIDE DEF z
    <2>6. z.socket.fd = y.socket.fd /\ z.socket.port = q /\ z.socket.kind = y.socket.kind
      BY <2>2, <2>4, Fields DEF SocketType
    <2>7. Descriptor(z) = Descriptor(y)
      BY <2>4, <2>6 DEF Descriptor
    <2>8. Effect(x, z) /\ WellKept(z)
      BY <2>2, <2>4, <2>6, <2>7
      DEF Effect, WellKept, HasItsDescriptor, PortKnown, IsOpen, Keeps, q
    <2>9. Effect(z, r) /\ WaitsFor("bindSocket", r)
      BY <2>5, <2>8, AnswersWithout, CodesListed
    <2>10. QED
      BY <2>8, <2>9, EffectsFollow
  <1>4. QED
    <2>1. ~IsOpen(x) => NoAddressWorks(x) = {x}
      BY ClosedObject
    <2>2. x.socket.kind # "tcp"
      OBVIOUS
    <2>3. QED
      BY <1>1, <1>2, <1>3, <2>1, <2>2, Zenon DEF BindSocket, UdpBindSocket

\* TcpSocket::acceptSocket with a new connection: its descriptor is one nobody
\* has.
LEMMA AcceptedEffect ==
  ASSUME NEW x, WellKept(x), MayAccept(x), NEW a \in Accepted(x)
  PROVE  LET y == Change(x, [Descriptor(x) EXCEPT !.input = "nothing"]) IN
         /\ Effect(x, y) /\ y.socket = x.socket /\ DOMAIN y.table = DOMAIN x.table
         /\ Descriptor(y) = [Descriptor(x) EXCEPT !.input = "nothing"]
         /\ a.fd \in Descriptors \ DOMAIN y.table
         /\ a.table \in Tables
         /\ DOMAIN a.table = DOMAIN y.table \cup {a.fd}
         /\ \A g \in DOMAIN y.table : a.table[g] = y.table[g]
         /\ a.table[a.fd].state = "connected"
  <1> DEFINE e == [Descriptor(x) EXCEPT !.input = "nothing"]
             y == Change(x, e)
  <1>1. IsOpen(x) /\ x \in Views
    BY DEF MayAccept, WellKept
  <1>2. Descriptor(x) \in DescriptorType /\ x.socket.fd \in DOMAIN x.table
    BY <1>1, OpenDescriptor
  <1>3. e \in DescriptorType /\ e.port = Descriptor(x).port
    BY <1>2 DEF DescriptorType
  <1>4. PICK fd \in Descriptors \ DOMAIN x.table, mode \in {TRUE, Descriptor(x).blocking} :
          /\ a.fd = fd
          /\ a.table = InsertOrAssign(y.table, fd,
                [Fresh("tcp") EXCEPT !.state = "connected", !.port = Descriptor(x).port,
                                     !.blocking = mode])
    BY DEF Accepted
  <1> DEFINE d == [Fresh("tcp") EXCEPT !.state = "connected", !.port = Descriptor(x).port,
                                       !.blocking = mode]
  <1>5. d \in DescriptorType /\ d.state = "connected"
    <2>1. Descriptor(x).port \in Nat /\ mode \in BOOLEAN
      BY <1>2 DEF DescriptorType
    <2>2. QED
      BY <2>1 DEF Fresh, DescriptorType
  <1>6. a.table = InsertOrAssign(y.table, fd, d)
    BY <1>4
  <1> HIDE DEF e, d
  <1>7. /\ Effect(x, y) /\ y.socket = x.socket /\ Descriptor(y) = e
    BY <1>1, <1>3, ChangeOf
  <1>8. DOMAIN y.table = DOMAIN x.table /\ y.table \in Tables
    <2>1. y \in Views
      BY <1>7 DEF Effect, WellKept
    <2>2. y.table = [x.table EXCEPT ![x.socket.fd] = e]
      BY <1>1, <1>3, ChangeFields DEF WellKept
    <2>3. QED
      BY <2>1, <2>2, Fields
  <1> HIDE DEF y
  <1>9. /\ a.fd \in Descriptors \ DOMAIN y.table
        /\ DOMAIN a.table = DOMAIN y.table \cup {a.fd}
        /\ \A g \in DOMAIN y.table : a.table[g] = y.table[g]
        /\ a.table[a.fd] = d
    BY <1>4, <1>6, <1>8 DEF InsertOrAssign
  <1>10. a.table \in Tables
    BY <1>4, <1>5, <1>6, <1>8, TablesKeepType
  <1>11. QED
    BY <1>5, <1>7, <1>8, <1>9, <1>10 DEF y, e

-----------------------------------------------------------------------------
\* Every method is an effect, and holds on to the mutex only where listenSocket
\* locks it again, and where a blocking descriptor waits.
LEMMA ResultsEffect ==
  ASSUME NEW x, Object(x), NEW op, NEW arg,
         \/ op \in NoArgument
         \/ op = "bindSocket" /\ arg \in Ports \cup {0}
         \/ op = "setBlocking" /\ arg \in BOOLEAN,
         op \in TcpOnly => x.socket.kind = "tcp",
         NEW r \in Results(op, arg, x)
  PROVE  Effect(x, r) /\ WaitsFor(op, r)
  <1>0. WellKept(x) /\ x.socket.kind \in {"tcp", "udp"}
    BY DEF Object, SocketType
  <1>1. CASE op = "connectTo"
    <2>1. r \in ConnectTo(x)
      BY <1>1 DEF Results
    <2>2. x.socket.kind = "tcp"
      BY <1>1 DEF TcpOnly
    <2>3. QED
      BY <2>1, <2>2, ConnectEffect DEF WaitsFor
  <1>2. CASE op = "bindSocket"
    <2>1. r \in BindSocket(x, arg) /\ arg \in Ports \cup {0}
      BY <1>2 DEF Results, NoArgument, TcpOnly
    <2>2. QED
      BY <1>0, <1>2, <2>1, TcpBindEffect, UdpBindEffect
  <1>3. CASE op = "listenSocket"
    <2>1. r \in ListenSocket(x)
      BY <1>3 DEF Results
    <2>2. QED
      BY <1>0, <1>3, <2>1, ListenEffect DEF WaitsFor
  <1>4. CASE op = "acceptSocket"
    <2>1. r \in AcceptFails(x)
      BY <1>4 DEF Results
    <2>2. QED
      BY <1>0, <1>4, <2>1, AcceptFailsEffect
  <1>5. CASE op = "receiveData"
    <2>1. r \in ReceiveData(x)
      BY <1>5 DEF Results
    <2>2. QED
      BY <1>0, <1>5, <2>1, ReceiveEffect
  <1>6. CASE op = "sendData"
    <2>1. r \in SendData(x)
      BY <1>6 DEF Results
    <2>2. QED
      BY <1>0, <1>6, <2>1, SendEffect
  <1>7. CASE op = "setBlocking"
    <2>1. r \in SetBlocking(x, arg) /\ arg \in BOOLEAN
      BY <1>7 DEF Results, NoArgument, TcpOnly
    <2>2. QED
      BY <1>0, <1>7, <2>1, SetBlockingEffect DEF WaitsFor
  <1>8. CASE op = "getPort"
    <2>1. r \in GetPort(x)
      BY <1>8 DEF Results
    <2>2. r = Returns("SocketNotOpen", x) \/ r = Returns("Success", x)
      BY <2>1 DEF GetPort, WhenOpen
    <2>3. QED
      BY <1>0, <2>2, AnswersWithout, CodesListed
  <1>9. CASE op = "shutdownSocket"
    <2>1. r \in ShutdownSocket(x)
      BY <1>9 DEF Results
    <2>2. QED
      BY <1>0, <1>9, <2>1, ShutdownEffect
  <1>10. CASE op = "closeSocket"
    <2>1. r \in CloseSocket(x)
      BY <1>10 DEF Results
    <2>2. QED
      BY <1>0, <1>10, <2>1, CloseSocketEffect
  <1>11. QED
    BY <1>1, <1>2, <1>3, <1>4, <1>5, <1>6, <1>7, <1>8, <1>9, <1>10 DEF NoArgument, TcpOnly

-----------------------------------------------------------------------------
\* What a method of the object s sees.
ViewOf(ss, tt, s) == [socket |-> ss[s], table |-> tt]

\* The open descriptors are those of the objects, one each.
Owned(ss, tt) ==
  /\ IsMap(ss, Objects, SocketType)
  /\ tt \in Tables
  /\ \A s \in DOMAIN ss : ss[s].kind = KindOf(s) /\ WellKept(ViewOf(ss, tt, s))
  /\ DOMAIN tt = {ss[s].fd : s \in DOMAIN ss} \ {Invalid}
  /\ \A s, r \in DOMAIN ss : ss[s].fd = ss[r].fd /\ s # r => ss[s].fd = Invalid

\* What a method sees is an object as Object describes it.
LEMMA ViewFields ==
  ASSUME NEW ss, NEW tt, Owned(ss, tt), NEW s \in DOMAIN ss
  PROVE  LET x == ViewOf(ss, tt, s) IN
         /\ Object(x) /\ x.socket = ss[s] /\ x.table = tt /\ x \in Views
         /\ x.socket.kind = KindOf(s) /\ ss[s] \in SocketType
         /\ ss[s].fd # Invalid => ss[s].fd \in DOMAIN tt
  BY DEF Owned, ViewOf, Object, IsMap, WellKept, HasItsDescriptor, IsOpen

\* A method keeps the ownership of descriptors, and the descriptors of others.
LEMMA StepOwned ==
  ASSUME NEW ss, NEW tt, Owned(ss, tt), NEW s \in DOMAIN ss, NEW r, Effect(ViewOf(ss, tt, s), r)
  PROVE  /\ Owned([ss EXCEPT ![s] = r.socket], r.table)
         /\ \A o \in DOMAIN ss \ {s} : ss[o].fd # Invalid => r.table[ss[o].fd] = tt[ss[o].fd]
  <1> DEFINE nn == [ss EXCEPT ![s] = r.socket]
  <1> DEFINE x == ViewOf(ss, tt, s)
  <1>1. /\ Object(x) /\ x.socket = ss[s] /\ x.table = tt /\ x \in Views
        /\ x.socket.kind = KindOf(s)
    BY ViewFields
  <1>2. Effect(x, r)
    OBVIOUS
  <1> HIDE DEF x
  <1>3. /\ r.socket.kind = KindOf(s) /\ WellKept(r) /\ r \in Views
        /\ r.socket \in SocketType /\ r.table \in Tables
        /\ IsOpen(r) => r.socket.fd \in DOMAIN r.table
             /\ (r.socket.fd = ss[s].fd \/ r.socket.fd \notin DOMAIN tt)
        /\ DOMAIN r.table \ {r.socket.fd} = DOMAIN tt \ {ss[s].fd}
        /\ \A fd \in DOMAIN tt \ {ss[s].fd} : r.table[fd] = tt[fd]
    BY <1>1, <1>2, Fields DEF Effect, Keeps, WellKept, HasItsDescriptor
  <1>4. ss \in [DOMAIN ss -> SocketType] /\ DOMAIN ss \subseteq Objects
    BY DEF Owned, IsMap
  <1>5. DOMAIN nn = DOMAIN ss /\ nn[s] = r.socket /\ \A o \in DOMAIN ss \ {s} : nn[o] = ss[o]
    BY <1>4
  <1> HIDE DEF nn
  <1>6. \A o \in DOMAIN ss \ {s} : ss[o].fd # Invalid =>
           ss[o].fd \in DOMAIN tt \ {ss[s].fd} /\ ss[o].fd \in DOMAIN r.table \ {r.socket.fd}
    BY <1>3 DEF Owned
  <1>7. \A o \in DOMAIN ss \ {s} : ss[o].fd # Invalid => r.table[ss[o].fd] = tt[ss[o].fd]
    BY <1>3, <1>6
  <1>8. IsMap(nn, Objects, SocketType)
    BY <1>3, <1>4, <1>5 DEF IsMap, nn
  <1>9. ASSUME NEW o \in DOMAIN nn
        PROVE  nn[o].kind = KindOf(o) /\ WellKept(ViewOf(nn, r.table, o))
    <2>1. CASE o = s
      <3>1. ViewOf(nn, r.table, o) = [socket |-> r.socket, table |-> r.table]
        BY <2>1, <1>5 DEF ViewOf
      <3>2. WellKept([socket |-> r.socket, table |-> r.table])
        BY <1>3 DEF WellKept, Views, HasItsDescriptor, PortKnown, Descriptor, IsOpen
      <3>3. QED
        BY <2>1, <3>1, <3>2, <1>3, <1>5
    <2>2. CASE o # s
      <3>1. ViewOf(nn, r.table, o) = [socket |-> ss[o], table |-> r.table]
        BY <2>2, <1>5 DEF ViewOf
      <3>2. WellKept([socket |-> ss[o], table |-> tt]) /\ ss[o] \in SocketType
              /\ ss[o].kind = KindOf(o)
        BY <1>4, <1>5 DEF Owned, ViewOf
      <3>3. ss[o].fd # Invalid => ss[o].fd \in DOMAIN r.table /\ r.table[ss[o].fd] = tt[ss[o].fd]
        BY <1>5, <1>6, <1>7, <2>2
      <3>4. WellKept([socket |-> ss[o], table |-> r.table])
        BY <1>3, <3>2, <3>3 DEF WellKept, Views, HasItsDescriptor, PortKnown, Descriptor, IsOpen
      <3>5. QED
        BY <2>2, <3>1, <3>2, <3>4, <1>5
    <2>3. QED
      BY <2>1, <2>2
  <1>10. DOMAIN r.table = {nn[o].fd : o \in DOMAIN nn} \ {Invalid}
    <2>1. ASSUME NEW fd \in DOMAIN r.table PROVE fd \in {nn[o].fd : o \in DOMAIN nn} \ {Invalid}
      <3>1. fd # Invalid
        BY <1>3, <2>1, TablesKeepType, SocketsAssumption
      <3>2. CASE fd = r.socket.fd
        BY <3>1, <3>2, <1>5
      <3>3. CASE fd # r.socket.fd
        BY <3>1, <3>3, <1>3, <1>5 DEF Owned
      <3>4. QED
        BY <3>2, <3>3
    <2>2. ASSUME NEW o \in DOMAIN nn, nn[o].fd # Invalid PROVE nn[o].fd \in DOMAIN r.table
      BY <1>3, <1>5, <1>6, <2>2 DEF IsOpen
    <2>3. QED
      BY <2>1, <2>2
  <1>11. ASSUME NEW o \in DOMAIN nn, NEW p \in DOMAIN nn, nn[o].fd = nn[p].fd, o # p
         PROVE  nn[o].fd = Invalid
    <2>1. CASE o # s /\ p # s
      BY <1>5, <1>11, <2>1 DEF Owned
    <2>2. CASE o = s
      BY <1>5, <1>6, <1>11, <2>2
    <2>3. CASE p = s
      BY <1>5, <1>6, <1>11, <2>3
    <2>4. QED
      BY <2>1, <2>2, <2>3
  <1>12. Owned(nn, r.table)
    BY <1>3, <1>8, <1>9, <1>10, <1>11 DEF Owned
  <1>13. QED
    BY <1>7, <1>12 DEF nn

\* A new object has no descriptor, or one that is new.
LEMMA AddOwned ==
  ASSUME NEW ss, NEW tt, Owned(ss, tt), NEW s \in Objects, s \notin DOMAIN ss,
         NEW k \in SocketType, k.kind = KindOf(s), k.port = 0, NEW t2 \in Tables,
         \/ k.fd = Invalid /\ t2 = tt
         \/ /\ k.fd \in Descriptors \ DOMAIN tt /\ k.kind = "tcp"
            /\ DOMAIN t2 = DOMAIN tt \cup {k.fd}
            /\ \A fd \in DOMAIN tt : t2[fd] = tt[fd]
  PROVE  /\ Owned(InsertOrAssign(ss, s, k), t2)
         /\ \A o \in DOMAIN ss : ss[o].fd # Invalid => t2[ss[o].fd] = tt[ss[o].fd]
  <1> DEFINE nn == InsertOrAssign(ss, s, k)
  <1>1. DOMAIN nn = DOMAIN ss \cup {s} /\ nn[s] = k /\ \A o \in DOMAIN ss : nn[o] = ss[o]
    BY DEF InsertOrAssign
  <1>2. ss \in [DOMAIN ss -> SocketType] /\ DOMAIN ss \subseteq Objects
    BY DEF Owned, IsMap
  <1>3. IsMap(nn, Objects, SocketType)
    BY <1>2 DEF IsMap, InsertOrAssign
  <1> HIDE DEF nn
  <1>4. \A o \in DOMAIN ss : ss[o].fd # Invalid => ss[o].fd \in DOMAIN tt
    BY DEF Owned
  <1>5. \A fd \in DOMAIN tt : fd \in DOMAIN t2 /\ t2[fd] = tt[fd]
    OBVIOUS
  <1>6. ASSUME NEW o \in DOMAIN nn PROVE nn[o].kind = KindOf(o) /\ WellKept(ViewOf(nn, t2, o))
    <2>1. CASE o = s
      <3>1. ViewOf(nn, t2, o) = [socket |-> k, table |-> t2]
        BY <2>1, <1>1 DEF ViewOf
      <3>2. k.fd # Invalid => k.kind = "tcp" /\ k.fd \in DOMAIN t2
        OBVIOUS
      <3>3. WellKept([socket |-> k, table |-> t2])
        BY <3>2 DEF WellKept, Views, HasItsDescriptor, PortKnown, Descriptor, IsOpen
      <3>4. QED
        BY <2>1, <3>1, <3>3, <1>1
    <2>2. CASE o # s
      <3>1. ViewOf(nn, t2, o) = [socket |-> ss[o], table |-> t2]
        BY <2>2, <1>1 DEF ViewOf
      <3>2. WellKept([socket |-> ss[o], table |-> tt]) /\ ss[o] \in SocketType
              /\ ss[o].kind = KindOf(o)
        BY <1>1, <1>2, <2>2 DEF Owned, ViewOf
      <3>3. ss[o].fd # Invalid => ss[o].fd \in DOMAIN t2 /\ t2[ss[o].fd] = tt[ss[o].fd]
        BY <1>1, <1>4, <1>5, <2>2
      <3>4. WellKept([socket |-> ss[o], table |-> t2])
        BY <3>2, <3>3 DEF WellKept, Views, HasItsDescriptor, PortKnown, Descriptor, IsOpen
      <3>5. QED
        BY <2>2, <3>1, <3>2, <3>4, <1>1
    <2>3. QED
      BY <2>1, <2>2
  <1>7. DOMAIN t2 = {nn[o].fd : o \in DOMAIN nn} \ {Invalid}
    <2>1. DOMAIN tt = {ss[o].fd : o \in DOMAIN ss} \ {Invalid}
      BY DEF Owned
    <2>2. {nn[o].fd : o \in DOMAIN nn} = {ss[o].fd : o \in DOMAIN ss} \cup {k.fd}
      BY <1>1
    <2>3. QED
      BY <2>1, <2>2, SocketsAssumption
  <1>8. ASSUME NEW o \in DOMAIN nn, NEW p \in DOMAIN nn, nn[o].fd = nn[p].fd, o # p
        PROVE  nn[o].fd = Invalid
    BY <1>1, <1>4, <1>8 DEF Owned
  <1>9. Owned(nn, t2)
    BY <1>3, <1>6, <1>7, <1>8 DEF Owned
  <1>10. QED
    BY <1>4, <1>5, <1>9 DEF nn

\* The destructor takes one object and its descriptor, and no other.
LEMMA RemoveOwned ==
  ASSUME NEW ss, NEW tt, Owned(ss, tt), NEW s \in DOMAIN ss
  PROVE  /\ Owned(Erase(ss, s), Close(ViewOf(ss, tt, s)).table)
         /\ \A o \in DOMAIN ss \ {s} : ss[o].fd # Invalid =>
               Close(ViewOf(ss, tt, s)).table[ss[o].fd] = tt[ss[o].fd]
  <1> DEFINE nn == Erase(ss, s)
             t2 == Erase(tt, ss[s].fd)
  <1>1. Close(ViewOf(ss, tt, s)).table = t2
    <2>1. /\ ViewOf(ss, tt, s) \in Views /\ ViewOf(ss, tt, s).socket = ss[s]
          /\ ViewOf(ss, tt, s).table = tt
      BY ViewFields
    <2>2. QED
      BY <2>1, CloseFields
  <1>2. DOMAIN nn = DOMAIN ss \ {s} /\ \A o \in DOMAIN nn : nn[o] = ss[o]
    BY DEF Erase
  <1>3. ss \in [DOMAIN ss -> SocketType] /\ DOMAIN ss \subseteq Objects
    BY DEF Owned, IsMap
  <1>4. IsMap(nn, Objects, SocketType)
    BY <1>3 DEF IsMap, Erase
  <1>5. DOMAIN t2 = DOMAIN tt \ {ss[s].fd} /\ \A fd \in DOMAIN t2 : t2[fd] = tt[fd]
    BY DEF Erase
  <1>6. t2 \in Tables
    BY TablesKeepType DEF Owned
  <1> HIDE DEF nn, t2
  <1>7. \A o \in DOMAIN ss \ {s} : ss[o].fd # Invalid => ss[o].fd \in DOMAIN t2
    BY <1>5 DEF Owned
  <1>8. ASSUME NEW o \in DOMAIN nn PROVE nn[o].kind = KindOf(o) /\ WellKept(ViewOf(nn, t2, o))
    <2>1. ViewOf(nn, t2, o) = [socket |-> ss[o], table |-> t2]
      BY <1>2 DEF ViewOf
    <2>2. WellKept([socket |-> ss[o], table |-> tt]) /\ ss[o] \in SocketType
            /\ ss[o].kind = KindOf(o)
      BY <1>2, <1>3 DEF Owned, ViewOf
    <2>3. ss[o].fd # Invalid => ss[o].fd \in DOMAIN t2 /\ t2[ss[o].fd] = tt[ss[o].fd]
      BY <1>2, <1>5, <1>7
    <2>4. WellKept([socket |-> ss[o], table |-> t2])
      BY <1>6, <2>2, <2>3 DEF WellKept, Views, HasItsDescriptor, PortKnown, Descriptor, IsOpen
    <2>5. QED
      BY <2>1, <2>2, <2>4, <1>2
  <1>9. DOMAIN t2 = {nn[o].fd : o \in DOMAIN nn} \ {Invalid}
    BY <1>2, <1>5, <1>7 DEF Owned
  <1>10. ASSUME NEW o \in DOMAIN nn, NEW p \in DOMAIN nn, nn[o].fd = nn[p].fd, o # p
         PROVE  nn[o].fd = Invalid
    BY <1>2, <1>10 DEF Owned
  <1>11. Owned(nn, t2)
    BY <1>4, <1>6, <1>8, <1>9, <1>10 DEF Owned
  <1>12. QED
    BY <1>1, <1>5, <1>7, <1>11 DEF nn

\* The calls of threads.
CallRecords ==
  [op : NoArgument, arg : {0}, socket : Objects, in : {"lock", "system"}]
  \cup [op : {"bindSocket"}, arg : Ports \cup {0}, socket : Objects, in : {"lock", "system"}]
  \cup [op : {"setBlocking"}, arg : BOOLEAN, socket : Objects, in : {"lock", "system"}]

\* A call is of an object that exists, and a thread that waits in a system call
\* holds the mutex of an object that is open.
CallsInv ==
  /\ holder \in [Objects -> Threads \cup {Nobody}]
  /\ call \in [Threads -> {NoCall} \cup CallRecords]
  /\ \A t \in Threads : call[t] # NoCall =>
       /\ call[t].socket \in DOMAIN sockets
       /\ call[t].op \in TcpOnly => call[t].socket \in TcpSockets
       /\ call[t].in = "system" =>
            holder[call[t].socket] = t /\ sockets[call[t].socket].fd # Invalid

\* The inductive invariant of threads that share sockets.
ThreadsInv == Owned(sockets, table) /\ CallsInv /\ OnlyTheseHang

\* Results only for a call.
LEMMA CallFields ==
  ASSUME CallsInv, NEW t \in Threads, call[t] # NoCall
  PROVE  /\ call[t] \in CallRecords
         /\ call[t].in \in {"lock", "system"}
         /\ call[t].socket \in DOMAIN sockets
         /\ \/ call[t].op \in NoArgument
            \/ call[t].op = "bindSocket" /\ call[t].arg \in Ports \cup {0}
            \/ call[t].op = "setBlocking" /\ call[t].arg \in BOOLEAN
         /\ call[t].op \in TcpOnly => call[t].socket \in TcpSockets
         /\ \A i \in {"lock", "system"} : /\ [call[t] EXCEPT !.in = i] \in CallRecords
                                          /\ [call[t] EXCEPT !.in = i].in = i
                                          /\ [call[t] EXCEPT !.in = i].op = call[t].op
                                          /\ [call[t] EXCEPT !.in = i].socket = call[t].socket
  <1>1. call[t] \in CallRecords
    BY DEF CallsInv
  <1>2. QED
    BY <1>1 DEF CallsInv, CallRecords

\* A thread without a call has none of these.
LEMMA NoCallIsNone == NoCall \notin CallRecords
  BY DEF NoCall, CallRecords, NoArgument, TcpOnly

\* There are no objects at first.
LEMMA InitThreadsInv == ThreadsInit => ThreadsInv
  <1> SUFFICES ASSUME ThreadsInit PROVE ThreadsInv
    OBVIOUS
  <1>1. Owned(sockets, table)
    BY DEF ThreadsInit, Owned, EmptyMap, IsMap, Tables
  <1>2. CallsInv /\ OnlyTheseHang
    BY DEF ThreadsInit, CallsInv, OnlyTheseHang
  <1>3. QED
    BY <1>1, <1>2 DEF ThreadsInv

\* The holder of a mutex is where OnlyTheseHang says.
HeldForAReason(o) ==
  LET c == call[holder[o]] IN
  /\ c # NoCall /\ c.socket = o
  /\ \/ c.op = "listenSocket" /\ c.in = "lock"
     \/ /\ c.op \in {"acceptSocket", "receiveData", "sendData"} /\ c.in = "system"
        /\ table[sockets[o].fd].blocking

\* What a call that runs changes for the other threads and the other objects:
\* they keep their calls, their mutexes and their descriptors.
LEMMA OthersKeep ==
  ASSUME ThreadsInv, NEW t \in Threads, NEW o \in Objects, holder[o] # Nobody,
         call[t] # NoCall => call[t].socket # o,
         holder'[o] = holder[o], \A u \in Threads \ {t} : call'[u] = call[u],
         o \in DOMAIN sockets =>
           /\ sockets'[o] = sockets[o]
           /\ sockets[o].fd # Invalid => table'[sockets[o].fd] = table[sockets[o].fd]
  PROVE  HeldForAReason(o)'
  <1>1. holder[o] \in Threads /\ HeldForAReason(o)
    BY DEF ThreadsInv, CallsInv, OnlyTheseHang, HeldForAReason
  <1>2. holder[o] # t /\ call'[holder'[o]] = call[holder[o]]
    BY <1>1 DEF HeldForAReason
  <1>3. /\ o \in DOMAIN sockets
        /\ call[holder[o]].in = "system" => sockets[o].fd # Invalid
    BY <1>1 DEF ThreadsInv, CallsInv, HeldForAReason
  <1>4. sockets'[o] = sockets[o]
          /\ (sockets[o].fd # Invalid => table'[sockets[o].fd] = table[sockets[o].fd])
    BY <1>3
  <1>5. QED
    BY <1>1, <1>2, <1>3, <1>4 DEF HeldForAReason

\* A new object has no descriptor, and nobody uses it yet.
LEMMA ConstructKeeps ==
  ASSUME ThreadsInv, NEW t \in Threads, NEW s \in Objects, Construct(t, s)
  PROVE  ThreadsInv'
  <1>1. /\ NewSocket(KindOf(s)) \in SocketType /\ NewSocket(KindOf(s)).kind = KindOf(s)
        /\ NewSocket(KindOf(s)).port = 0 /\ NewSocket(KindOf(s)).fd = Invalid
    BY DEF NewSocket, SocketType, KindOf
  <1>2. Owned(sockets', table')
    <2>1. Owned(sockets, table) /\ table \in Tables /\ s \notin DOMAIN sockets
      BY DEF ThreadsInv, Owned, Construct
    <2>2. Owned(InsertOrAssign(sockets, s, NewSocket(KindOf(s))), table)
      BY <1>1, <2>1, AddOwned
    <2>3. QED
      BY <2>2 DEF Construct
  <1>3. /\ call[t] = NoCall /\ UNCHANGED <<holder, call, table>>
        /\ DOMAIN sockets' = DOMAIN sockets \cup {s}
        /\ \A o \in DOMAIN sockets : sockets'[o] = sockets[o]
    BY DEF Construct, InsertOrAssign
  <1>4. CallsInv'
    BY <1>3 DEF CallsInv, ThreadsInv
  <1>5. OnlyTheseHang'
    <2> SUFFICES ASSUME NEW o \in Objects, holder'[o] # Nobody PROVE HeldForAReason(o)'
      BY DEF OnlyTheseHang, HeldForAReason
    <2>1. QED
      BY <1>3, OthersKeep
  <1>6. QED
    BY <1>2, <1>4, <1>5 DEF ThreadsInv

\* An object is destroyed, and its descriptor closed, when nobody uses it.
LEMMA DestructKeeps ==
  ASSUME ThreadsInv, NEW t \in Threads, NEW s \in Objects, Destruct(t, s)
  PROVE  ThreadsInv'
  <1>1. Owned(sockets, table) /\ s \in DOMAIN sockets /\ X(s) = ViewOf(sockets, table, s)
    BY DEF ThreadsInv, Destruct, X, ViewOf
  <1>2. /\ Owned(Erase(sockets, s), Close(X(s)).table)
        /\ \A o \in DOMAIN sockets \ {s} : sockets[o].fd # Invalid =>
             Close(X(s)).table[sockets[o].fd] = table[sockets[o].fd]
    BY <1>1, RemoveOwned
  <1>3. /\ Owned(sockets', table')
        /\ DOMAIN sockets' = DOMAIN sockets \ {s}
        /\ \A o \in DOMAIN sockets' : sockets'[o] = sockets[o]
        /\ \A o \in DOMAIN sockets' :
             sockets[o].fd # Invalid => table'[sockets[o].fd] = table[sockets[o].fd]
    BY <1>2 DEF Destruct, Erase
  <1>4. /\ call[t] = NoCall /\ UNCHANGED <<holder, call>>
        /\ \A u \in Threads : call[u] # NoCall => call[u].socket # s
    BY DEF Destruct, Unused
  <1>5. CallsInv'
    BY <1>3, <1>4 DEF CallsInv, ThreadsInv
  <1>6. OnlyTheseHang'
    <2> SUFFICES ASSUME NEW o \in Objects, holder'[o] # Nobody PROVE HeldForAReason(o)'
      BY DEF OnlyTheseHang, HeldForAReason
    <2>1. o # s
      BY <1>4 DEF ThreadsInv, CallsInv, OnlyTheseHang
    <2>2. o \in DOMAIN sockets =>
            /\ sockets'[o] = sockets[o]
            /\ sockets[o].fd # Invalid => table'[sockets[o].fd] = table[sockets[o].fd]
      BY <1>3, <2>1
    <2>3. QED
      BY <1>4, <2>2, OthersKeep
  <1>7. QED
    BY <1>3, <1>5, <1>6 DEF ThreadsInv

\* A thread calls a method, and holds nothing yet.
LEMMA CallKeeps ==
  ASSUME ThreadsInv, NEW t \in Threads, NEW s \in Objects, NEW c \in Calls, Call(t, s, c)
  PROVE  ThreadsInv'
  <1> DEFINE new == [op |-> c.op, arg |-> c.arg, socket |-> s, in |-> "lock"]
  <1>1. /\ call[t] = NoCall /\ s \in DOMAIN sockets /\ (c.op \in TcpOnly => s \in TcpSockets)
        /\ call' = [call EXCEPT ![t] = new] /\ UNCHANGED <<sockets, table, holder>>
    BY DEF Call
  <1>2. new \in CallRecords /\ new.in = "lock" /\ new.socket = s /\ new.op = c.op
    BY DEF Calls, CallRecords
  <1> HIDE DEF new
  <1>3. CallsInv'
    BY <1>1, <1>2 DEF CallsInv, ThreadsInv
  <1>4. OnlyTheseHang'
    <2>1. \A o \in Objects : holder[o] # Nobody => holder[o] # t
      BY <1>1 DEF ThreadsInv, OnlyTheseHang
    <2>2. \A o \in Objects : holder[o] # Nobody => call'[holder[o]] = call[holder[o]]
      BY <1>1, <2>1 DEF ThreadsInv, CallsInv
    <2>3. QED
      BY <1>1, <2>2 DEF ThreadsInv, OnlyTheseHang
  <1>5. QED
    BY <1>1, <1>3, <1>4 DEF ThreadsInv

\* What arrives changes neither ports nor modes.
LEMMA ArrivesKeeps ==
  ASSUME ThreadsInv, NEW fd \in DOMAIN table, Arrives(fd)
  PROVE  ThreadsInv'
  <1>1. PICK i \in {"data", "end"} : table' = [table EXCEPT ![fd].input = i]
    BY DEF Arrives
  <1>2. UNCHANGED <<sockets, holder, call>>
    BY DEF Arrives
  <1>3. table \in Tables
    BY DEF ThreadsInv, Owned
  <1>4. /\ DOMAIN table' = DOMAIN table
        /\ \A d \in DOMAIN table : /\ table'[d].port = table[d].port
                                   /\ table'[d].blocking = table[d].blocking
    BY <1>1, <1>3 DEF Tables, DescriptorType
  <1>5. table' \in Tables
    <2>1. [table[fd] EXCEPT !.input = i] \in DescriptorType
      BY <1>3 DEF Tables, DescriptorType
    <2>2. table' = [table EXCEPT ![fd] = [table[fd] EXCEPT !.input = i]]
      BY <1>1, <1>3 DEF Tables
    <2>3. QED
      BY <1>3, <2>1, <2>2, TablesKeepType
  <1>6. ASSUME NEW s \in DOMAIN sockets PROVE WellKept(ViewOf(sockets, table', s))
    <2>1. WellKept([socket |-> sockets[s], table |-> table])
      BY DEF ThreadsInv, Owned, ViewOf
    <2>2. WellKept([socket |-> sockets[s], table |-> table'])
      BY <1>4, <1>5, <2>1, Fields
      DEF WellKept, Views, HasItsDescriptor, PortKnown, Descriptor, IsOpen
    <2>3. QED
      BY <2>2 DEF ViewOf
  <1>7. Owned(sockets', table')
    BY <1>2, <1>4, <1>5, <1>6 DEF ThreadsInv, Owned
  <1>8. CallsInv'
    BY <1>2 DEF ThreadsInv, CallsInv
  <1>9. OnlyTheseHang'
    <2> SUFFICES ASSUME NEW o \in Objects, holder[o] # Nobody
                 PROVE  LET c == call[holder[o]] IN
                        /\ c # NoCall /\ c.socket = o
                        /\ \/ c.op = "listenSocket" /\ c.in = "lock"
                           \/ /\ c.op \in {"acceptSocket", "receiveData", "sendData"}
                                   /\ c.in = "system"
                              /\ table'[sockets[o].fd].blocking
      BY <1>2 DEF OnlyTheseHang
    <2>1. holder[o] \in Threads
      BY DEF ThreadsInv, CallsInv
    <2>2. o \in DOMAIN sockets /\ (call[holder[o]].in = "system" => sockets[o].fd # Invalid)
      BY <2>1 DEF ThreadsInv, CallsInv, OnlyTheseHang
    <2>3. call[holder[o]].in = "system" => sockets[o].fd \in DOMAIN table
      BY <2>2 DEF ThreadsInv, Owned
    <2>4. QED
      BY <1>4, <2>3 DEF ThreadsInv, OnlyTheseHang
  <1>10. QED
    BY <1>7, <1>8, <1>9 DEF ThreadsInv

\* A method takes effect, and holds or releases the mutex of its object.
LEMMA ProceedsKeeps ==
  ASSUME ThreadsInv, NEW t \in Threads, call[t] # NoCall, NEW s, s = call[t].socket,
         holder[s] \in {t, Nobody},
         NEW r \in Results(call[t].op, call[t].arg, X(s)), Proceeds(t, s, r)
  PROVE  ThreadsInv'
  <1>1. /\ call[t] \in CallRecords /\ s \in DOMAIN sockets /\ s \in Objects
        /\ Owned(sockets, table) /\ X(s) = ViewOf(sockets, table, s)
    BY CallFields DEF ThreadsInv, X, ViewOf, Owned, IsMap
  <1>2. Effect(X(s), r) /\ WaitsFor(call[t].op, r)
    <2>1. Object(X(s)) /\ X(s).socket.kind = KindOf(s)
      BY <1>1, ViewFields
    <2>2. call[t].op \in TcpOnly => X(s).socket.kind = "tcp"
      BY <2>1, CallFields DEF KindOf, ThreadsInv
    <2>3. \/ call[t].op \in NoArgument
          \/ call[t].op = "bindSocket" /\ call[t].arg \in Ports \cup {0}
          \/ call[t].op = "setBlocking" /\ call[t].arg \in BOOLEAN
      BY CallFields DEF ThreadsInv
    <2>4. QED
      BY <2>1, <2>2, <2>3, ResultsEffect
  <1>3. /\ Owned([sockets EXCEPT ![s] = r.socket], r.table)
        /\ \A o \in DOMAIN sockets \ {s} : sockets[o].fd # Invalid =>
             r.table[sockets[o].fd] = table[sockets[o].fd]
    BY <1>1, <1>2, StepOwned
  <1> DEFINE h == IF HeldAfter(r.code) THEN t ELSE Nobody
             c == IF r.code = "Blocks" THEN [call[t] EXCEPT !.in = "system"]
                  ELSE IF r.code = "LocksAgain" THEN [call[t] EXCEPT !.in = "lock"] ELSE NoCall
  <1>4. /\ sockets' = [sockets EXCEPT ![s] = r.socket] /\ table' = r.table
        /\ holder' = [holder EXCEPT ![s] = h] /\ call' = [call EXCEPT ![t] = c]
    <2>1. call \in [Threads -> {NoCall} \cup CallRecords]
      BY DEF ThreadsInv, CallsInv
    <2>2. QED
      BY <2>1 DEF Proceeds
  <1>5. /\ c \in {NoCall} \cup CallRecords
        /\ c # NoCall => /\ HeldAfter(r.code) /\ c.socket = s /\ c.op = call[t].op
                         /\ \/ r.code = "Blocks" /\ c.in = "system"
                            \/ r.code = "LocksAgain" /\ c.in = "lock"
        /\ HeldAfter(r.code) => c # NoCall
    BY CallFields, NoCallIsNone DEF ThreadsInv, HeldAfter
  <1>6. h \in {t, Nobody} /\ (h = t <=> HeldAfter(r.code))
    BY ThreadsAssumption
  <1> HIDE DEF h, c
  <1>7. /\ DOMAIN sockets' = DOMAIN sockets /\ sockets'[s] = r.socket
        /\ \A o \in DOMAIN sockets \ {s} : sockets'[o] = sockets[o]
    BY <1>1, <1>4 DEF Owned, IsMap
  <1>8. holder \in [Objects -> Threads \cup {Nobody}]
          /\ call \in [Threads -> {NoCall} \cup CallRecords]
    BY DEF ThreadsInv, CallsInv
  <1>9. holder'[s] = h /\ call'[t] = c /\ \A u \in Threads \ {t} : call'[u] = call[u]
    BY <1>1, <1>4, <1>8
  <1>10. r.code = "Blocks" => r.socket.fd # Invalid /\ r.table[r.socket.fd].blocking
    BY <1>2 DEF WaitsFor, IsOpen, Descriptor
  <1>11. CallsInv'
    <2>1. holder' \in [Objects -> Threads \cup {Nobody}]
            /\ call' \in [Threads -> {NoCall} \cup CallRecords]
      BY <1>4, <1>5, <1>6, <1>8
    <2>2. ASSUME NEW u \in Threads, call'[u] # NoCall
          PROVE  /\ call'[u].socket \in DOMAIN sockets'
                 /\ call'[u].op \in TcpOnly => call'[u].socket \in TcpSockets
                 /\ call'[u].in = "system" =>
                      holder'[call'[u].socket] = u /\ sockets'[call'[u].socket].fd # Invalid
      <3>1. CASE u = t
        <4>1. c # NoCall /\ c.socket = s /\ c.op = call[t].op
          BY <1>5, <1>9, <2>2, <3>1
        <4>2. c.op \in TcpOnly => s \in TcpSockets
          BY <4>1, CallFields DEF ThreadsInv
        <4>3. c.in = "system" => h = t /\ r.socket.fd # Invalid
          BY <1>5, <1>6, <1>10, <4>1
        <4>4. QED
          BY <1>1, <1>7, <1>9, <3>1, <4>1, <4>2, <4>3
      <3>2. CASE u # t
        <4>1. call'[u] = call[u] /\ call[u] # NoCall
          BY <1>9, <2>2, <3>2
        <4>2. /\ call[u].socket \in DOMAIN sockets
                   /\ (call[u].op \in TcpOnly => call[u].socket \in TcpSockets)
              /\ call[u].in = "system" =>
                   holder[call[u].socket] = u /\ sockets[call[u].socket].fd # Invalid
          BY <4>1 DEF ThreadsInv, CallsInv
        <4>3. call[u].in = "system" => call[u].socket # s
          BY <3>2, <4>2, ThreadsAssumption
        <4>4. call[u].in = "system" =>
                holder'[call[u].socket] = u /\ sockets'[call[u].socket].fd # Invalid
          BY <1>1, <1>4, <1>7, <1>8, <4>2, <4>3
        <4>5. QED
          BY <1>7, <4>1, <4>2, <4>4
      <3>3. QED
        BY <3>1, <3>2
    <2>3. QED
      BY <2>1, <2>2 DEF CallsInv
  <1>12. OnlyTheseHang'
    <2> SUFFICES ASSUME NEW o \in Objects, holder'[o] # Nobody PROVE HeldForAReason(o)'
      BY DEF OnlyTheseHang, HeldForAReason
    <2>1. CASE o = s
      <3>1. h = t /\ HeldAfter(r.code)
        BY <1>6, <1>9, <2>1
      <3>2. c # NoCall /\ c.socket = s /\ c.op = call[t].op
        BY <1>5, <3>1
      <3>3. \/ c.op = "listenSocket" /\ c.in = "lock"
            \/ /\ c.op \in {"acceptSocket", "receiveData", "sendData"} /\ c.in = "system"
               /\ r.table[r.socket.fd].blocking
        BY <1>2, <1>5, <1>10, <3>2 DEF WaitsFor
      <3>4. QED
        BY <1>4, <1>7, <1>9, <2>1, <3>1, <3>2, <3>3 DEF HeldForAReason
    <2>2. CASE o # s
      <3>1. holder[o] # Nobody /\ holder'[o] = holder[o]
        BY <1>4, <1>8, <2>2
      <3>2. o \in DOMAIN sockets =>
              /\ sockets'[o] = sockets[o]
              /\ sockets[o].fd # Invalid => table'[sockets[o].fd] = table[sockets[o].fd]
        BY <1>3, <1>4, <1>7, <2>2
      <3>3. QED
        BY <1>9, <2>2, <3>1, <3>2, OthersKeep
    <2>3. QED
      BY <2>1, <2>2
  <1>13. QED
    BY <1>3, <1>4, <1>11, <1>12 DEF ThreadsInv

\* acceptSocket makes a new object with the descriptor of the new connection.
LEMMA AcceptsKeeps ==
  ASSUME ThreadsInv, NEW t \in Threads, call[t] # NoCall, NEW s, s = call[t].socket,
         holder[s] \in {t, Nobody}, MayAccept(X(s)),
         NEW a \in Accepted(X(s)), NEW new \in TcpSockets, Accepts(t, s, new, a)
  PROVE  ThreadsInv'
  <1>1. /\ s \in DOMAIN sockets /\ s \in Objects
        /\ Owned(sockets, table) /\ X(s) = ViewOf(sockets, table, s)
    BY CallFields DEF ThreadsInv, X, ViewOf, Owned, IsMap
  <1>2. WellKept(X(s)) /\ X(s).socket = sockets[s] /\ X(s).table = table /\ IsOpen(X(s))
    BY <1>1, ViewFields DEF Object, MayAccept
  <1> DEFINE y == Change(X(s), [Descriptor(X(s)) EXCEPT !.input = "nothing"])
             k == [NewSocket("tcp") EXCEPT !.fd = a.fd]
  <1>3. /\ Effect(X(s), y) /\ y.socket = sockets[s]
        /\ a.fd \in Descriptors \ DOMAIN y.table
        /\ a.table \in Tables
        /\ DOMAIN a.table = DOMAIN y.table \cup {a.fd}
        /\ \A g \in DOMAIN y.table : a.table[g] = y.table[g]
    BY <1>2, AcceptedEffect
  <1>4. k \in SocketType /\ k.kind = "tcp" /\ k.port = 0 /\ k.fd = a.fd
    BY <1>3 DEF NewSocket, SocketType
  <1>5. /\ sockets' = InsertOrAssign(sockets, new, k) /\ table' = a.table
        /\ holder' = [holder EXCEPT ![s] = Nobody] /\ call' = [call EXCEPT ![t] = NoCall]
        /\ new \notin DOMAIN sockets
    BY DEF Accepts
  <1> HIDE DEF y, k
  <1>6. /\ Owned(sockets, y.table)
        /\ \A o \in DOMAIN sockets \ {s} : sockets[o].fd # Invalid =>
             y.table[sockets[o].fd] = table[sockets[o].fd]
    <2>1. [sockets EXCEPT ![s] = y.socket] = sockets
      BY <1>1, <1>3 DEF Owned, IsMap
    <2>2. QED
      BY <1>1, <1>3, <2>1, StepOwned
  <1>7. KindOf(new) = "tcp" /\ new \in Objects
    BY DEF KindOf, Objects
  <1>8. /\ Owned(InsertOrAssign(sockets, new, k), a.table)
        /\ \A o \in DOMAIN sockets : sockets[o].fd # Invalid =>
             a.table[sockets[o].fd] = y.table[sockets[o].fd]
    BY <1>3, <1>4, <1>5, <1>6, <1>7, AddOwned
  <1>9. /\ DOMAIN sockets' = DOMAIN sockets \cup {new}
        /\ \A o \in DOMAIN sockets : sockets'[o] = sockets[o]
        /\ \A o \in DOMAIN sockets \ {s} : sockets[o].fd # Invalid =>
             table'[sockets[o].fd] = table[sockets[o].fd]
    BY <1>5, <1>6, <1>8 DEF InsertOrAssign
  <1>10. holder \in [Objects -> Threads \cup {Nobody}]
           /\ call \in [Threads -> {NoCall} \cup CallRecords]
    BY DEF ThreadsInv, CallsInv
  <1>11. holder'[s] = Nobody /\ call'[t] = NoCall /\ \A u \in Threads \ {t} : call'[u] = call[u]
    BY <1>1, <1>5, <1>10
  <1>12. CallsInv'
    <2>1. holder' \in [Objects -> Threads \cup {Nobody}]
            /\ call' \in [Threads -> {NoCall} \cup CallRecords]
      BY <1>5, <1>10
    <2>2. ASSUME NEW u \in Threads, call'[u] # NoCall
          PROVE  /\ call'[u].socket \in DOMAIN sockets'
                 /\ call'[u].op \in TcpOnly => call'[u].socket \in TcpSockets
                 /\ call'[u].in = "system" =>
                      holder'[call'[u].socket] = u /\ sockets'[call'[u].socket].fd # Invalid
      <3>1. call'[u] = call[u] /\ call[u] # NoCall /\ u # t
        BY <1>11, <2>2
      <3>2. /\ call[u].socket \in DOMAIN sockets
                 /\ (call[u].op \in TcpOnly => call[u].socket \in TcpSockets)
            /\ call[u].in = "system" =>
                 holder[call[u].socket] = u /\ sockets[call[u].socket].fd # Invalid
        BY <3>1 DEF ThreadsInv, CallsInv
      <3>3. call[u].in = "system" => call[u].socket # s
        BY <3>1, <3>2, ThreadsAssumption
      <3>4. call[u].in = "system" =>
              holder'[call[u].socket] = u /\ sockets'[call[u].socket].fd # Invalid
        BY <1>1, <1>5, <1>9, <1>10, <3>2, <3>3
      <3>5. QED
        BY <1>9, <3>1, <3>2, <3>4
    <2>3. QED
      BY <2>1, <2>2 DEF CallsInv
  <1>13. OnlyTheseHang'
    <2> SUFFICES ASSUME NEW o \in Objects, holder'[o] # Nobody PROVE HeldForAReason(o)'
      BY DEF OnlyTheseHang, HeldForAReason
    <2>1. o # s
      BY <1>11
    <2>2. holder[o] # Nobody /\ holder'[o] = holder[o]
      BY <1>5, <1>10, <2>1
    <2>3. o \in DOMAIN sockets =>
            /\ sockets'[o] = sockets[o]
            /\ sockets[o].fd # Invalid => table'[sockets[o].fd] = table[sockets[o].fd]
      BY <1>9, <2>1
    <2>4. QED
      BY <1>11, <2>1, <2>2, <2>3, OthersKeep
  <1>14. QED
    BY <1>5, <1>8, <1>12, <1>13 DEF ThreadsInv

\* A thread runs its call.
LEMMA RunsKeeps ==
  ASSUME ThreadsInv, NEW t \in Threads, ThreadStep(t)
  PROVE  ThreadsInv'
  <1>1. /\ call[t] # NoCall /\ Runs(t)
        /\ holder[call[t].socket] \in {t, Nobody}
    BY DEF ThreadStep, Run, Resume, ThreadsInv, CallsInv
  <1>2. CASE \E r \in Results(call[t].op, call[t].arg, X(call[t].socket)) :
             Proceeds(t, call[t].socket, r)
    BY <1>1, <1>2, ProceedsKeeps
  <1>3. CASE /\ MayAccept(X(call[t].socket))
             /\ \E a \in Accepted(X(call[t].socket)), new \in TcpSockets :
                  Accepts(t, call[t].socket, new, a)
    BY <1>1, <1>3, AcceptsKeeps
  <1>4. QED
    BY <1>1, <1>2, <1>3 DEF Runs

\* Every step keeps the invariant.
LEMMA NextThreadsInv == ThreadsInv /\ [ThreadsNext]_threadVars => ThreadsInv'
  <1> SUFFICES ASSUME ThreadsInv, [ThreadsNext]_threadVars PROVE ThreadsInv'
    OBVIOUS
  <1>1. CASE \E t \in Threads, s \in Objects : Construct(t, s)
    BY <1>1, ConstructKeeps
  <1>2. CASE \E t \in Threads, s \in Objects : Destruct(t, s)
    BY <1>2, DestructKeeps
  <1>3. CASE \E t \in Threads, s \in Objects, c \in Calls : Call(t, s, c)
    BY <1>3, CallKeeps
  <1>4. CASE \E t \in Threads : ThreadStep(t)
    BY <1>4, RunsKeeps
  <1>5. CASE \E fd \in DOMAIN table : Arrives(fd)
    BY <1>5, ArrivesKeeps
  <1>6. CASE UNCHANGED threadVars
    BY <1>6 DEF threadVars, ThreadsInv, Owned, CallsInv, OnlyTheseHang
  <1>7. QED
    BY <1>1, <1>2, <1>3, <1>4, <1>5, <1>6 DEF ThreadsNext, AllHang

\* The invariant holds, for all numbers of threads, objects, descriptors and
\* addresses.
LEMMA ThreadsInvariant == ThreadsSpec => []ThreadsInv
  BY InitThreadsInv, NextThreadsInv, PTL DEF ThreadsSpec

\* Whatever threads do with sockets they share, every open descriptor is one
\* object's and no other's: no failed call of connectTo, bindSocket or
\* acceptSocket leaks one or leaves one to two objects.
THEOREM DescriptorsHaveOneOwner == ThreadsSpec => []OneOwner
  <1>1. ThreadsInv => OneOwner
    BY DEF ThreadsInv, Owned, OneOwner
  <1>2. QED
    BY <1>1, ThreadsInvariant, PTL

\* An open UdpSocket answers getPort with the port the system bound it to.
THEOREM AnsweredPortIsBound == ThreadsSpec => []PortsReported
  <1>1. ThreadsInv => PortsReported
    <2> SUFFICES ASSUME ThreadsInv, NEW s \in DOMAIN sockets, sockets[s].fd # Invalid
                 PROVE  sockets[s].port =
                          IF s \in UdpSockets THEN table[sockets[s].fd].port ELSE 0
      BY DEF PortsReported
    <2>1. /\ sockets[s].kind = KindOf(s) /\ s \in Objects
          /\ PortKnown([socket |-> sockets[s], table |-> table])
      BY DEF ThreadsInv, Owned, WellKept, ViewOf, IsMap
    <2>2. QED
      BY <2>1, ThreadsAssumption DEF PortKnown, KindOf, Objects, IsOpen, Descriptor
  <1>2. QED
    BY <1>1, ThreadsInvariant, PTL

\* A mutex is held across steps only by a listenSocket that locks it twice, or
\* by a call that waits in a blocking system call.
THEOREM HangsHaveTwoCauses == ThreadsSpec => []OnlyTheseHang
  <1>1. ThreadsInv => OnlyTheseHang
    BY DEF ThreadsInv
  <1>2. QED
    BY <1>1, ThreadsInvariant, PTL
=============================================================================
