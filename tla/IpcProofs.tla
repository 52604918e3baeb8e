----------------------------- MODULE IpcProofs -----------------------------
(***************************************************************************)
(* For every capacity, table size and payload size: the rings of ipc.rs    *)
(* keep their shape, and they are first-in first-out queues.  The          *)
(* inductive invariant is TypeInv /\ RingConsistent; what Put and Take do  *)
(* to a ring is in InputPartsProofs.                                       *)
(***************************************************************************)
EXTENDS Ipc, InputPartsProofs

IInv == TypeInv /\ RingConsistent

-----------------------------------------------------------------------------
(* The invariant.                                                           *)

\* An endpoint that is not open is as good as new.
Closed(ep) == ~ep.active => ep.count = 0

RingsSound ==
  /\ initialized \in BOOLEAN
  /\ endpoints = [id \in Table |-> endpoints[id]]
  /\ \A id \in Table : Ring(endpoints[id]) /\ Closed(endpoints[id])
  /\ \A id \in Table : endpoints[id].active => initialized /\ id # 0

\* The invariant, one ring at a time.
LEMMA IInvRings == IInv <=> RingsSound
BY DEF IInv, TypeInv, RingConsistent, RingsSound, Ring, Closed

LEMMA NewRing == Ring(NewEndpoint) /\ ~NewEndpoint.active /\ NewEndpoint.count = 0
<1>1. EMPTY_MESSAGE \in IpcMessage
  BY IpcAssumption, RingAssumption DEF EMPTY_MESSAGE, IpcMessage, Byte
<1>2. [i \in Slots |-> EMPTY_MESSAGE] \in [Slots -> IpcMessage]
  BY <1>1
<1>3. 0 \in Slots /\ 0 \in 0..IPC_QUEUE_CAPACITY
  BY IpcAssumption, RingAssumption DEF Slots
<1>4. (0 + 0) % IPC_QUEUE_CAPACITY = 0
  BY IpcAssumption, RingAssumption, NoWrap
<1> QED
  BY <1>2, <1>3, <1>4 DEF NewEndpoint, Ring, Endpoint

\* ipc_send passes its checks only with bytes that are there.
LEMMA SendOk ==
  ASSUME NEW id \in Ids, NEW b \in Buffers, NEW n \in Lengths, RingsSound,
         SendStatus(id, b, n) = "Ok"
  PROVE  /\ Announced(b, n) /\ id \in Table
         /\ initialized /\ id # 0 /\ endpoints[id].active
         /\ endpoints[id].count < IPC_QUEUE_CAPACITY
<1>1. /\ n <= IPC_MAX_PAYLOAD /\ (n = 0 \/ b # NULL)
      /\ initialized /\ Found(id) /\ ~IsFull(endpoints[id])
  BY IpcAssumption, RingAssumption DEF SendStatus
<1>2. id \in Table /\ id # 0 /\ endpoints[id].active
  BY <1>1 DEF Found
<1>3. endpoints[id].count < IPC_QUEUE_CAPACITY
  BY <1>1, <1>2, IpcAssumption, RingAssumption DEF RingsSound, Ring, Endpoint, IsFull
<1>4. n \in 0..IPC_MAX_PAYLOAD
  BY <1>1, IpcAssumption, RingAssumption
<1>5. ASSUME NEW k \in 1..n PROVE b[k] \in Byte
  <2>1. b # <<>>
    BY <1>1, <1>4, <1>5 DEF NULL
  <2>2. b \in Seq(Byte) /\ Len(b) >= IPC_MAX_PAYLOAD
    BY <2>1, IpcAssumption, RingAssumption DEF Byte
  <2>3. k \in 1..Len(b)
    BY <1>4, <2>2, IpcAssumption, RingAssumption
  <2> QED
    BY <2>2, <2>3
<1> QED
  BY <1>1, <1>2, <1>3, <1>4, <1>5 DEF Announced

LEMMA InitInv == Init => IInv
BY NewRing, IInvRings DEF Init, RingsSound, Closed

LEMMA NextInv == IInv /\ [Next]_vars => IInv'
<1> SUFFICES ASSUME RingsSound, [Next]_vars PROVE RingsSound'
  BY IInvRings DEF IInv, TypeInv, RingConsistent, RingsSound, Ring, Closed
<1>1. CASE ipc_init
  BY <1>1, NewRing DEF ipc_init, Reset, RingsSound, Closed
<1>2. CASE ipc_endpoint_create
  <2>1. PICK id \in Table : /\ initialized /\ LowestUnused(id)
                            /\ endpoints' = [endpoints EXCEPT ![id].active = TRUE]
    BY <1>2 DEF ipc_endpoint_create
  <2> DEFINE old == endpoints[id]
             new == [old EXCEPT !.active = TRUE]
  <2>2. id # 0 /\ Ring(old) /\ Closed(old)
    BY <2>1 DEF RingsSound, LowestUnused, Unused
  <2>3. Ring(new) /\ new.active
    BY <2>2 DEF Ring, Endpoint
  <2>4. endpoints' = [i \in Table |-> IF i = id THEN new ELSE endpoints[i]]
    BY <2>1 DEF RingsSound
  <2>5. initialized' = initialized /\ initialized
    BY <1>2, <2>1 DEF ipc_endpoint_create
  <2> HIDE DEF new
  <2> QED
    BY <2>2, <2>3, <2>4, <2>5 DEF RingsSound, Closed
<1>3. CASE CreateFails
  BY <1>3 DEF CreateFails, RingsSound, Ring, Closed
<1>4. ASSUME NEW id \in Ids, NEW s \in Senders, NEW b \in Buffers, NEW n \in Lengths,
             ipc_send(id, s, b, n)
      PROVE  RingsSound'
  <2>1. CASE SendStatus(id, b, n) = "Ok"
    <3> DEFINE new == Put(endpoints[id], s, b, n)
    <3>1. /\ Announced(b, n) /\ id \in Table /\ id # 0 /\ initialized
          /\ endpoints[id].active /\ endpoints[id].count < IPC_QUEUE_CAPACITY
          /\ Ring(endpoints[id])
      BY <2>1, SendOk DEF RingsSound
    <3>2. Ring(new) /\ new.active
      BY <3>1, PutRing, IpcAssumption, RingAssumption
    <3>3. endpoints' = [i \in Table |-> IF i = id THEN new ELSE endpoints[i]]
      BY <1>4, <2>1, <3>1 DEF ipc_send, RingsSound
    <3>4. initialized' = initialized
      BY <1>4 DEF ipc_send
    <3> HIDE DEF new
    <3> QED
      BY <3>1, <3>2, <3>3, <3>4 DEF RingsSound, Closed
  <2>2. CASE SendStatus(id, b, n) # "Ok"
    BY <1>4, <2>2 DEF ipc_send, RingsSound, Ring, Closed
  <2> QED
    BY <2>1, <2>2
<1>5. ASSUME NEW id \in Ids, ipc_receive(id) PROVE RingsSound'
  <2>1. CASE ReceiveStatus(id) = "Ok"
    <3> DEFINE new == Take(endpoints[id])
    <3>1. /\ id \in Table /\ id # 0 /\ initialized /\ endpoints[id].active
          /\ endpoints[id].count # 0 /\ Ring(endpoints[id])
      BY <2>1 DEF ReceiveStatus, Found, RingsSound
    <3>2. Ring(new) /\ new.active
      BY <3>1, TakeRing
    <3>3. endpoints' = [i \in Table |-> IF i = id THEN new ELSE endpoints[i]]
      BY <1>5, <2>1, <3>1 DEF ipc_receive, RingsSound
    <3>4. initialized' = initialized
      BY <1>5 DEF ipc_receive
    <3> HIDE DEF new
    <3> QED
      BY <3>1, <3>2, <3>3, <3>4 DEF RingsSound, Closed
  <2>2. CASE ReceiveStatus(id) # "Ok"
    BY <1>5, <2>2 DEF ipc_receive, RingsSound, Ring, Closed
  <2> QED
    BY <2>1, <2>2
<1>6. ASSUME NEW id \in Ids, ReceiveNull(id) PROVE RingsSound'
  BY <1>6 DEF ReceiveNull, RingsSound, Ring, Closed
<1>7. CASE UNCHANGED vars
  BY <1>7 DEF vars, RingsSound, Ring, Closed
<1> QED
  BY <1>1, <1>2, <1>3, <1>4, <1>5, <1>6, <1>7 DEF Next

LEMMA Inductive == Spec => []IInv
BY InitInv, NextInv, PTL DEF Spec

\* Type correctness of ipc.rs: no index leaves the ring, no length the slot.
THEOREM TypeCorrect == Spec => []TypeInv
<1>1. IInv => TypeInv
  BY DEF IInv
<1> QED
  BY <1>1, Inductive, PTL

\* Head, tail and count of every ring agree, and endpoints that are not open
\* are empty.
THEOREM RingsCorrect == Spec => []RingConsistent
<1>1. IInv => RingConsistent
  BY DEF IInv
<1> QED
  BY <1>1, Inductive, PTL

-----------------------------------------------------------------------------
(* The rings implement the queues of IpcFifo.                               *)

Open == {i \in Table : endpoints[i].active}
QueueOf == [id \in Open |-> Contents(endpoints[id])]
ReplyOf ==
  Answer(reply.call, reply.id, reply.buffer, reply.length,
         Public(reply.status), Delivered(reply.got))

\* What a call's answer is in the abstract: of the message delivered, what it
\* holds up to its length.
LEMMA Deliveries ==
  /\ Delivered(<<>>) = <<>>
  /\ \A m : Delivered(<<m>>) = <<Visible(m)>>
<1>1. ASSUME NEW m PROVE Delivered(<<m>>) = <<Visible(m)>>
  BY DEF Delivered
<1> QED
  BY <1>1 DEF Delivered

Means(r) ==
  Answer(r.call, r.id, r.buffer, r.length, Public(r.status), Delivered(r.got))

LEMMA AnswerOf ==
  ASSUME NEW call, NEW id, NEW b, NEW n, NEW st, NEW got
  PROVE  Means(Answer(call, id, b, n, st, got))
           = Fifo!Answer(call, id, b, n, Public(st), Delivered(got))
BY DEF Means, Answer, Fifo!Answer

LEMMA ShortOf ==
  ASSUME NEW call, NEW id, NEW st, NEW got
  PROVE  Means(Short(call, id, st, got)) = Fifo!Short(call, id, Public(st), Delivered(got))
BY AnswerOf DEF Short, Fifo!Short, NULL, Fifo!NULL

\* An empty ring is an empty queue, and only an empty one.
LEMMA NoContents ==
  ASSUME NEW ep, Ring(ep)
  PROVE  /\ ep.count = 0 => Contents(ep) = <<>>
         /\ Len(Contents(ep)) = ep.count
<1>1. ep.count \in Nat
  BY IpcAssumption, RingAssumption DEF Ring, Endpoint
<1> QED
  BY <1>1 DEF Contents

\* The identifiers callers may open are those after 0.
LEMMA OpenIds == RingsSound => /\ Open \subseteq 1..(IPC_MAX_ENDPOINTS - 1)
                               /\ (1..(IPC_MAX_ENDPOINTS - 1)) \ Open = Unused
BY IpcAssumption, RingAssumption DEF Open, Unused, Table, RingsSound

LEMMA AbsInit == Init => Fifo!Init
<1> SUFFICES ASSUME Init PROVE Fifo!Init
  OBVIOUS
<1>1. Open = {}
  BY NewRing DEF Init, Open
<1>2. QueueOf = [id \in {} |-> <<>>]
  BY <1>1 DEF QueueOf
<1>3. ReplyOf = Fifo!Short("none", 0, "Ok", <<>>)
  BY ShortOf, Deliveries DEF ReplyOf, Means, Init, Public
<1> QED
  BY <1>2, <1>3 DEF Init, QueueOf, ReplyOf, Open, Fifo!Init

LEMMA AbsRestart == ipc_init => Fifo!Restart
<1> SUFFICES ASSUME ipc_init PROVE Fifo!Restart
  OBVIOUS
<1>1. Open' = {}
  BY NewRing DEF ipc_init, Reset, Open
<1>2. QueueOf' = [id \in {} |-> <<>>]
  BY <1>1 DEF QueueOf
<1>3. ReplyOf' = Fifo!Short("init", 0, "Ok", <<>>)
  BY ShortOf, Deliveries DEF ReplyOf, Means, ipc_init, Public
<1> QED
  BY <1>2, <1>3 DEF ipc_init, QueueOf, ReplyOf, Open, Fifo!Restart

\* The endpoint taken was not open, and it is an empty queue as it stands.
LEMMA AbsCreate == RingsSound /\ ipc_endpoint_create => Fifo!Create
<1> SUFFICES ASSUME RingsSound, ipc_endpoint_create PROVE Fifo!Create
  OBVIOUS
<1>1. PICK id \in Table : /\ LowestUnused(id)
                          /\ endpoints' = [endpoints EXCEPT ![id].active = TRUE]
                          /\ reply' = Short("create", id, "Ok", <<>>)
  BY DEF ipc_endpoint_create
<1>2. initialized /\ initialized' = initialized /\ id \in Unused
  BY <1>1 DEF ipc_endpoint_create, LowestUnused
<1>3. id \in (1..(IPC_MAX_ENDPOINTS - 1)) \ Open
  BY <1>2, OpenIds
<1>4. Ring(endpoints[id]) /\ endpoints[id].count = 0
  BY <1>2 DEF Unused, RingsSound, Closed
<1> DEFINE new == [endpoints[id] EXCEPT !.active = TRUE]
<1>5. new.active /\ Contents(new) = <<>>
  <2>1. new.active /\ new.count = 0 /\ Ring(new)
    BY <1>4 DEF Ring, Endpoint
  <2> HIDE DEF new
  <2> QED
    BY <2>1, NoContents
<1>6. endpoints' = [i \in Table |-> IF i = id THEN new ELSE endpoints[i]]
  BY <1>1 DEF RingsSound
<1> HIDE DEF new
<1>7. Open' = Open \cup {id}
  BY <1>1, <1>5, <1>6 DEF Open
<1>8. QueueOf' = [i \in Open \cup {id} |-> IF i = id THEN <<>> ELSE QueueOf[i]]
  <2>1. QueueOf' = [i \in Open \cup {id} |-> Contents(endpoints'[i])]
    BY <1>7 DEF QueueOf, Contents, Slot
  <2>2. ASSUME NEW i \in Open \cup {id}
        PROVE  Contents(endpoints'[i]) = IF i = id THEN <<>> ELSE QueueOf[i]
    BY <1>1, <1>5, <1>6 DEF QueueOf, Open
  <2> QED
    BY <2>1, <2>2
<1>9. ReplyOf' = Fifo!Short("create", id, "Ok", <<>>)
  BY <1>1, ShortOf, Deliveries DEF ReplyOf, Means, Public
<1>10. DOMAIN QueueOf = Open /\ Open # 1..(IPC_MAX_ENDPOINTS - 1)
  BY <1>3 DEF QueueOf
<1> QED
  BY <1>2, <1>3, <1>8, <1>9, <1>10 DEF QueueOf, ReplyOf, Open, Fifo!Create

LEMMA AbsCreateFails == RingsSound /\ CreateFails => Fifo!Create
<1> SUFFICES ASSUME RingsSound, CreateFails PROVE Fifo!Create
  OBVIOUS
<1>1. ~initialized \/ DOMAIN QueueOf = 1..(IPC_MAX_ENDPOINTS - 1)
  BY OpenIds DEF CreateFails, QueueOf
<1>2. ReplyOf' = Fifo!Short("create", 0, "Ok", <<>>)
  BY ShortOf, Deliveries DEF ReplyOf, Means, CreateFails, Public
<1>3. QueueOf' = QueueOf /\ initialized' = initialized
  BY DEF CreateFails, QueueOf, Open, Contents, Slot
<1> QED
  BY <1>1, <1>2, <1>3 DEF QueueOf, ReplyOf, Open, Fifo!Create

\* A call that does not go through leaves the queues alone.
LEMMA SameQueues ==
  endpoints' = endpoints => QueueOf' = QueueOf
BY DEF QueueOf, Open, Contents, Slot

\* Replacing the ring of an open endpoint replaces its queue.
LEMMA OneQueue ==
  ASSUME NEW id \in Table, endpoints[id].active, NEW new, new.active,
         endpoints' = [i \in Table |-> IF i = id THEN new ELSE endpoints[i]]
  PROVE  /\ id \in Open /\ DOMAIN QueueOf = Open
         /\ QueueOf' = [QueueOf EXCEPT ![id] = Contents(new)]
<1>1. Open' = Open /\ id \in Open
  BY DEF Open
<1>2. QueueOf' = [i \in Open |-> Contents(endpoints'[i])]
  BY <1>1 DEF QueueOf, Contents, Slot
<1>3. ASSUME NEW i \in Open
      PROVE  Contents(endpoints'[i]) = IF i = id THEN Contents(new) ELSE QueueOf[i]
  BY DEF QueueOf, Open
<1>4. QueueOf' = [i \in Open |-> IF i = id THEN Contents(new) ELSE QueueOf[i]]
  BY <1>2, <1>3
<1> QED
  BY <1>1, <1>4 DEF QueueOf

\* ipc_send's order of checks is of no account to the caller: it is refused
\* for the request's sake, for want of room, or not at all.
LEMMA AbsSend ==
  ASSUME RingsSound, NEW id \in Ids, NEW s \in Senders, NEW b \in Buffers,
         NEW n \in Lengths, ipc_send(id, s, b, n)
  PROVE  Fifo!Send(id, s, b, n)
<1> DEFINE status == SendStatus(id, b, n)
           Result(st) == Fifo!Answer("send", id, b, n, st, <<>>)
<1>1. ReplyOf' = Result(Public(status)) /\ initialized' = initialized
  BY AnswerOf, Deliveries DEF ipc_send, ReplyOf, Means
<1>2. DOMAIN QueueOf = Open /\ \A i \in Open : QueueOf[i] = Contents(endpoints[i])
  BY DEF QueueOf
<1>3. id \in Open <=> Found(id)
  BY DEF Found, Open, RingsSound
<1>4. Fifo!Proper(b, n) <=> ~(n > IPC_MAX_PAYLOAD \/ (n # 0 /\ b = NULL))
  BY IpcAssumption, RingAssumption DEF Fifo!Proper, Fifo!NULL, NULL
<1>5. Found(id) => /\ Ring(endpoints[id]) /\ initialized
                   /\ Len(QueueOf[id]) = endpoints[id].count
                   /\ endpoints[id].count \in 0..IPC_QUEUE_CAPACITY
  <2> SUFFICES ASSUME Found(id)
               PROVE  /\ Ring(endpoints[id]) /\ initialized
                      /\ Len(QueueOf[id]) = endpoints[id].count
                      /\ endpoints[id].count \in 0..IPC_QUEUE_CAPACITY
    OBVIOUS
  <2>1. Ring(endpoints[id]) /\ initialized /\ id \in Open
    BY <1>3 DEF Found, RingsSound
  <2>2. Len(Contents(endpoints[id])) = endpoints[id].count
    BY <2>1, NoContents
  <2> QED
    BY <1>2, <2>1, <2>2 DEF Ring, Endpoint
<1>6. CASE status = "Ok"
  <2> DEFINE new == Put(endpoints[id], s, b, n)
  <2>1. /\ Announced(b, n) /\ id \in Table /\ Found(id) /\ endpoints[id].active
        /\ endpoints[id].count < IPC_QUEUE_CAPACITY
    BY <1>6, SendOk DEF Found
  <2>2. Ring(endpoints[id])
    BY <1>5, <2>1
  <2>3. new.active
    BY <2>1, <2>2, PutRing, IpcAssumption, RingAssumption
  <2>4. Contents(new) = Append(Contents(endpoints[id]), Fifo!Message(s, b, n))
    BY <2>1, <2>2, PutAppends, IpcAssumption, RingAssumption DEF Fifo!Message
  <2>5. endpoints' = [i \in Table |-> IF i = id THEN new ELSE endpoints[i]]
    BY <1>6, <2>1 DEF ipc_send, RingsSound
  <2> HIDE DEF new
  <2>6. QueueOf' = [QueueOf EXCEPT ![id] = Contents(new)]
    BY <2>1, <2>3, <2>5, OneQueue
  <2>7. QueueOf' = [QueueOf EXCEPT ![id] = Append(@, Fifo!Message(s, b, n))]
    BY <1>2, <1>3, <2>1, <2>4, <2>6
  <2>8. Fifo!Proper(b, n)
    BY <1>4, <1>6, IpcAssumption, RingAssumption DEF SendStatus
  <2>9. id \in DOMAIN QueueOf /\ Len(QueueOf[id]) < IPC_QUEUE_CAPACITY
    BY <1>2, <1>3, <1>5, <2>1
  <2>10. ReplyOf' = Result("Ok")
    BY <1>1, <1>6 DEF Public
  <2> QED
    BY <1>1, <2>7, <2>8, <2>9, <2>10 DEF Fifo!Send, QueueOf, ReplyOf, Open
<1>7. CASE status = "Full"
  <2>1. Fifo!Proper(b, n) /\ Found(id) /\ IsFull(endpoints[id])
    BY <1>4, <1>7, IpcAssumption, RingAssumption DEF SendStatus
  <2>2. id \in DOMAIN QueueOf /\ ~(Len(QueueOf[id]) < IPC_QUEUE_CAPACITY)
    BY <1>2, <1>3, <1>5, <2>1, IpcAssumption, RingAssumption DEF IsFull
  <2>3. QueueOf' = QueueOf
    BY <1>7, SameQueues DEF ipc_send
  <2>4. ReplyOf' = Result("Full")
    BY <1>1, <1>7 DEF Public
  <2> QED
    BY <1>1, <2>1, <2>2, <2>3, <2>4 DEF Fifo!Send, QueueOf, ReplyOf, Open
<1>8. CASE status \in {"Invalid", "NotInitialized", "InvalidEndpoint"}
  <2>1. ~Fifo!Proper(b, n) \/ ~Found(id)
    BY <1>4, <1>5, <1>8 DEF SendStatus
  <2>2. QueueOf' = QueueOf
    BY <1>8, SameQueues DEF ipc_send
  <2>3. ReplyOf' = Result("refused")
    BY <1>1, <1>8 DEF Public
  <2> QED
    BY <1>1, <1>2, <1>3, <2>1, <2>2, <2>3 DEF Fifo!Send, QueueOf, ReplyOf, Open
<1> QED
  BY <1>6, <1>7, <1>8 DEF SendStatus

LEMMA AbsReceive ==
  ASSUME RingsSound, NEW id \in Ids, ipc_receive(id)
  PROVE  Fifo!Receive(id)
<1> DEFINE status == ReceiveStatus(id)
           ep == endpoints[id]
           Result(st, got) == Fifo!Short("receive", id, st, got)
<1>1. initialized' = initialized
  BY DEF ipc_receive
<1>2. DOMAIN QueueOf = Open /\ \A i \in Open : QueueOf[i] = Contents(endpoints[i])
  BY DEF QueueOf
<1>3. id \in Open <=> Found(id)
  BY DEF Found, Open, RingsSound
<1>4. Found(id) => Ring(ep) /\ initialized
  BY DEF Found, RingsSound
<1>5. CASE status = "Ok"
  <2>1. Found(id) /\ ep.count # 0 /\ id \in Table /\ ep.active /\ Ring(ep)
    BY <1>4, <1>5 DEF ReceiveStatus, Found
  <2> DEFINE new == Take(ep)
  <2>2. new.active
    BY <2>1, TakeRing
  <2>3. /\ Contents(ep) # <<>>
        /\ Head(Contents(ep)) = Visible(ep.messages[ep.head])
        /\ Contents(new) = Tail(Contents(ep))
    BY <2>1, TakeIsTail
  <2>4. endpoints' = [i \in Table |-> IF i = id THEN new ELSE endpoints[i]]
    BY <1>5, <2>1 DEF ipc_receive, RingsSound
  <2>5. ReplyOf' = Result("Ok", <<Visible(ep.messages[ep.head])>>)
    BY <1>5, ShortOf, Deliveries DEF ipc_receive, ReplyOf, Means, Public
  <2> HIDE DEF new
  <2>6. QueueOf' = [QueueOf EXCEPT ![id] = Contents(new)]
    BY <2>1, <2>2, <2>4, OneQueue
  <2>7. QueueOf[id] = Contents(ep) /\ id \in DOMAIN QueueOf
    BY <1>2, <1>3, <2>1
  <2>8. QueueOf' = [QueueOf EXCEPT ![id] = Tail(@)]
    BY <2>3, <2>6, <2>7
  <2>9. ReplyOf' = Result("Ok", <<Head(QueueOf[id])>>)
    BY <2>3, <2>5, <2>7
  <2>10. QueueOf[id] # <<>>
    BY <2>3, <2>7
  <2> QED
    BY <1>1, <2>7, <2>8, <2>9, <2>10 DEF Fifo!Receive, QueueOf, ReplyOf, Open
<1>6. CASE status = "Empty"
  <2>1. Found(id) /\ ep.count = 0 /\ Ring(ep)
    BY <1>4, <1>6 DEF ReceiveStatus
  <2>2. id \in DOMAIN QueueOf /\ QueueOf[id] = <<>>
    BY <1>2, <1>3, <2>1, NoContents
  <2>3. QueueOf' = QueueOf
    BY <1>6, SameQueues DEF ipc_receive
  <2>4. ReplyOf' = Result("Empty", <<>>)
    BY <1>6, ShortOf, Deliveries DEF ipc_receive, ReplyOf, Means, Public
  <2> QED
    BY <1>1, <2>2, <2>3, <2>4 DEF Fifo!Receive, QueueOf, ReplyOf, Open
<1>7. CASE status \in {"NotInitialized", "InvalidEndpoint"}
  <2>1. id \notin DOMAIN QueueOf
    BY <1>2, <1>3, <1>4, <1>7 DEF ReceiveStatus
  <2>2. QueueOf' = QueueOf
    BY <1>7, SameQueues DEF ipc_receive
  <2>3. ReplyOf' = Result("refused", <<>>)
    BY <1>7, ShortOf, Deliveries DEF ipc_receive, ReplyOf, Means, Public
  <2> QED
    BY <1>1, <2>1, <2>2, <2>3 DEF Fifo!Receive, QueueOf, ReplyOf, Open
<1> QED
  BY <1>5, <1>6, <1>7 DEF ReceiveStatus

LEMMA AbsReceiveNull ==
  ASSUME NEW id \in Ids, ReceiveNull(id)
  PROVE  Fifo!ReceiveNull(id)
<1>1. ReplyOf' = Fifo!Short("receive_null", id, "refused", <<>>)
  BY ShortOf, Deliveries DEF ReceiveNull, ReplyOf, Means, Public
<1>2. QueueOf' = QueueOf /\ initialized' = initialized
  BY SameQueues DEF ReceiveNull
<1> QED
  BY <1>1, <1>2 DEF Fifo!ReceiveNull, QueueOf, ReplyOf, Open

LEMMA AbsNext == IInv /\ [Next]_vars => [Fifo!Next]_Fifo!vars
<1> SUFFICES ASSUME IInv, [Next]_vars PROVE [Fifo!Next]_Fifo!vars
  OBVIOUS
<1>1. RingsSound
  BY IInvRings
<1>2. CASE ipc_init
  BY <1>2, AbsRestart DEF Fifo!Next
<1>3. CASE ipc_endpoint_create
  BY <1>1, <1>3, AbsCreate DEF Fifo!Next
<1>4. CASE CreateFails
  BY <1>1, <1>4, AbsCreateFails DEF Fifo!Next
<1>5. ASSUME NEW id \in Ids, NEW s \in Senders, NEW b \in Buffers, NEW n \in Lengths,
             ipc_send(id, s, b, n)
      PROVE  Fifo!Next
  BY <1>1, <1>5, AbsSend DEF Fifo!Next
<1>6. ASSUME NEW id \in Ids, ipc_receive(id) PROVE Fifo!Next
  BY <1>1, <1>6, AbsReceive DEF Fifo!Next
<1>7. ASSUME NEW id \in Ids, ReceiveNull(id) PROVE Fifo!Next
  BY <1>7, AbsReceiveNull DEF Fifo!Next
<1>8. CASE UNCHANGED vars
  <2>1. QueueOf' = QueueOf /\ ReplyOf' = ReplyOf /\ initialized' = initialized
    BY <1>8, SameQueues DEF vars, ReplyOf
  <2> QED
    BY <2>1 DEF Fifo!vars, QueueOf, ReplyOf, Open
<1> QED
  BY <1>2, <1>3, <1>4, <1>5, <1>6, <1>7, <1>8 DEF Next

\* The rings of ipc.rs are first-in first-out queues: whatever the calls and
\* however often the indices have gone round, a message received is the oldest
\* one sent and not yet received, with its sender and its bytes.
THEOREM Refinement == Spec => ImplementsIpcFifo
BY AbsInit, AbsNext, Inductive, PTL DEF Spec, ImplementsIpcFifo, Fifo!Spec

=============================================================================
