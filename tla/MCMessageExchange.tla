------------------------- MODULE MCMessageExchange -------------------------
(***************************************************************************)
(* Model checking of MessageExchange with numbers of one byte, but sizes   *)
(* of two: a size_t has twice the bytes of a uint32_t.                     *)
(***************************************************************************)
EXTENDS MessageExchange

Bytewise == [uint8_t |-> 1, uint16_t |-> 1, uint32_t |-> 1, size_t |-> 2]

Ids == [InitializeClientMessage |-> 1, ClientIsReadyMessage |-> 2, SpawnDespawnMessage |-> 3,
        SnapshotMessage |-> 4, HelloWorld |-> 5, TestNetworkComponent |-> 6, Text |-> 7]

Message(type, values) == [type |-> type, values |-> values]

Initialize == Message("InitializeClientMessage", <<<<6>>, <<1>>>>)
Ready == Message("ClientIsReadyMessage", <<>>)
News == Message("SpawnDespawnMessage", <<<<<<3, 1, 2>>>>, <<<<1>>, <<2>>>>>>)
Empty == Message("HelloWorld", <<<<>>>>)
WithString == Message("Text", <<<<1>>, <<<<7>>, <<4>>>>, <<3>>>>)
EmptyString == Message("Text", <<<<2>>, <<>>, <<5>>>>)

Component(x, y) == Message("TestNetworkComponent", <<<<x>>, <<y>>>>)

Snapshot ==
  Message("SnapshotMessage",
          <<[id |-> 1, components |-> <<Component(1, 2), Component(3, 4)>>],
            [id |-> 2, components |-> <<>>]>>)

SomeObjects == {Initialize, Ready, News, Empty, WithString, EmptyString, Snapshot}

\* Behind a long message two short ones, each of which may be sent in part.
SomeExchanges ==
  {<<Snapshot, Empty, Ready>>, <<WithString, EmptyString, Ready>>, <<News, Initialize, Empty>>}

AllCopies == [sender : {1, 2}, receiver : {1, 2}]

AllSizes ==
  {[m \in Messages |-> HeaderSize + Len(Written(e[m], n))] : e \in SomeExchanges, n \in {1, 2}}
=============================================================================
