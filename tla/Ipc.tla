-------------------------------- MODULE Ipc --------------------------------
(***************************************************************************)
(* The kernel's message queues, src/rust/crates/drivers/src/ipc.rs: a      *)
(* table of endpoints, each a ring (IpcRing) whose slots are used again,   *)
(* never cleared, and handed out whole.  Each action is one call, from its *)
(* checks to its return; what happens when an interrupt comes between is   *)
(* InputPath's subject.                                                    *)
(***************************************************************************)
EXTENDS IpcRing

CONSTANTS
  IPC_MAX_ENDPOINTS,
  Ids,       \* the endpoint identifiers calls name, valid or not
  Senders,   \* the sender identifiers messages carry
  Buffers,   \* the bytes calls pass; <<>> is the null pointer
  Lengths    \* the lengths calls pass

\* A caller's buffer holds the bytes it announces, when there are not too many.
ASSUME IpcAssumption ==
  /\ IPC_MAX_ENDPOINTS \in Nat \ {0}
  /\ Ids \subseteq Nat /\ Senders \subseteq Nat /\ Lengths \subseteq Nat
  /\ Buffers \subseteq Seq(0..255)
  /\ \A b \in Buffers : b # <<>> => Len(b) >= IPC_MAX_PAYLOAD

VARIABLES
  initialized,
  endpoints,   \* identifier |-> ring
  reply        \* the last call, its arguments and its result

vars == <<initialized, endpoints, reply>>

Table == 0..(IPC_MAX_ENDPOINTS - 1)

NULL == <<>>
Answer(call, id, buffer, length, status, got) ==
  [call |-> call, id |-> id, buffer |-> buffer, length |-> length,
   status |-> status, got |-> got]
Short(call, id, status, got) == Answer(call, id, NULL, 0, status, got)

-----------------------------------------------------------------------------
Init ==
  /\ initialized = FALSE
  /\ endpoints = [id \in Table |-> NewEndpoint]
  /\ reply = Short("none", 0, "Ok", <<>>)

\* It may be called again, and drops every message then.
ipc_init ==
  /\ initialized' = TRUE
  /\ endpoints' = [id \in Table |-> Reset(endpoints[id])]
  /\ reply' = Short("init", 0, "Ok", <<>>)

Unused == {id \in Table \ {0} : ~endpoints[id].active}
LowestUnused(id) == id \in Unused /\ \A other \in Unused : id <= other

\* The first endpoint that is not active, from 1 up, as it was left.
ipc_endpoint_create ==
  /\ initialized /\ Unused # {}
  /\ \E id \in Table :
       /\ LowestUnused(id)
       /\ endpoints' = [endpoints EXCEPT ![id].active = TRUE]
       /\ reply' = Short("create", id, "Ok", <<>>)
  /\ initialized' = initialized

CreateFails ==
  /\ ~initialized \/ Unused = {}
  /\ reply' = Short("create", 0, "Ok", <<>>)
  /\ initialized' = initialized /\ UNCHANGED endpoints

\* endpoint_mut
Found(id) == id # 0 /\ id \in Table /\ endpoints[id].active

\* The checks of ipc_send in the code's order.
SendStatus(id, buffer, length) ==
  IF length > IPC_MAX_PAYLOAD \/ (length # 0 /\ buffer = NULL) THEN "Invalid"
  ELSE IF ~initialized THEN "NotInitialized"
  ELSE IF ~Found(id) THEN "InvalidEndpoint"
  ELSE IF IsFull(endpoints[id]) THEN "Full"
  ELSE "Ok"

ipc_send(id, sender, buffer, length) ==
  LET status == SendStatus(id, buffer, length)
  IN /\ reply' = Answer("send", id, buffer, length, status, <<>>)
     /\ endpoints' = IF status = "Ok"
                     THEN [endpoints EXCEPT ![id] = Put(@, sender, buffer, length)]
                     ELSE endpoints
     /\ initialized' = initialized

ReceiveStatus(id) ==
  IF ~initialized THEN "NotInitialized"
  ELSE IF ~Found(id) THEN "InvalidEndpoint"
  ELSE IF endpoints[id].count = 0 THEN "Empty"
  ELSE "Ok"

\* The slot is copied out as it is, with what it held past the length before.
ipc_receive(id) ==
  LET ep == endpoints[id]
      status == ReceiveStatus(id)
  IN /\ IF status = "Ok"
        THEN /\ reply' = Short("receive", id, "Ok", <<ep.messages[ep.head]>>)
             /\ endpoints' = [endpoints EXCEPT ![id] = Take(@)]
        ELSE /\ reply' = Short("receive", id, status, <<>>)
             /\ UNCHANGED endpoints
     /\ initialized' = initialized

\* ipc_receive with a null message pointer
ReceiveNull(id) ==
  /\ reply' = Short("receive_null", id, "Invalid", <<>>)
  /\ initialized' = initialized /\ UNCHANGED endpoints

Next ==
  \/ ipc_init
  \/ ipc_endpoint_create
  \/ CreateFails
  \/ \E id \in Ids, s \in Senders, b \in Buffers, n \in Lengths : ipc_send(id, s, b, n)
  \/ \E id \in Ids : ipc_receive(id) \/ ReceiveNull(id)

Spec == Init /\ [][Next]_vars

-----------------------------------------------------------------------------
(* Properties.                                                              *)

\* Every index stays within the ring and every length within a slot, so that
\* neither the table nor the buffers are read or written out of bounds.
TypeInv ==
  /\ initialized \in BOOLEAN
  /\ endpoints \in [Table -> Endpoint]

\* Head, tail and count are three accounts of the same ring and never differ,
\* round the end included; an endpoint that is not open is as good as new, so
\* that the next to open it finds no one else's messages; none is open before
\* the table is initialised, and 0 never is.
RingConsistent ==
  /\ \A id \in Table :
       LET ep == endpoints[id]
       IN /\ ep.tail = (ep.head + ep.count) % IPC_QUEUE_CAPACITY
          /\ ~ep.active => ep.count = 0
          /\ ep.active => initialized /\ id # 0

\* The calls are those of a bounded first-in first-out queue for each open
\* endpoint: nothing is lost, doubled or reordered, each message comes with its
\* own sender, length and bytes up to that length, and each refusal has its
\* reason.  Nothing is said of the bytes past the length, which are delivered
\* too and may be a former message's: a receiver has to go by the length.
Public(status) ==
  IF status \in {"Invalid", "NotInitialized", "InvalidEndpoint"}
  THEN "refused" ELSE status
Delivered(got) == [i \in DOMAIN got |-> Visible(got[i])]
Fifo == INSTANCE IpcFifo WITH
  Capacity <- IPC_QUEUE_CAPACITY,
  LastId <- IPC_MAX_ENDPOINTS - 1,
  MaxPayload <- IPC_MAX_PAYLOAD,
  started <- initialized,
  queue <- [id \in {i \in Table : endpoints[i].active} |-> Contents(endpoints[id])],
  reply <- Answer(reply.call, reply.id, reply.buffer, reply.length,
                  Public(reply.status), Delivered(reply.got))
ImplementsIpcFifo == Fifo!Spec

=============================================================================
