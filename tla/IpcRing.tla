------------------------------ MODULE IpcRing ------------------------------
(***************************************************************************)
(* One endpoint of src/rust/crates/drivers/src/ipc.rs: a ring of message   *)
(* slots with a head, a tail and a count, as values.  Ipc keeps a table of *)
(* them; InputPath lets an interrupt handler fill one while the shell      *)
(* empties it.                                                             *)
(***************************************************************************)
EXTENDS Integers, Sequences

CONSTANTS IPC_QUEUE_CAPACITY, IPC_MAX_PAYLOAD

ASSUME RingAssumption ==
  /\ IPC_QUEUE_CAPACITY \in Nat \ {0}
  /\ IPC_MAX_PAYLOAD \in Nat

Slots == 0..(IPC_QUEUE_CAPACITY - 1)
Byte == 0..255

IpcMessage == [sender : Nat, length : 0..IPC_MAX_PAYLOAD,
               data : [1..IPC_MAX_PAYLOAD -> Byte]]
Endpoint == [active : BOOLEAN, head : Slots, tail : Slots,
             count : 0..IPC_QUEUE_CAPACITY, messages : [Slots -> IpcMessage]]

EMPTY_MESSAGE == [sender |-> 0, length |-> 0, data |-> [k \in 1..IPC_MAX_PAYLOAD |-> 0]]
NewEndpoint == [active |-> FALSE, head |-> 0, tail |-> 0, count |-> 0,
                messages |-> [i \in Slots |-> EMPTY_MESSAGE]]

\* The message in a slot: the bytes past the length are leftovers, which a
\* receiver gets as well and has to leave aside.
Visible(m) == [sender |-> m.sender, payload |-> [k \in 1..m.length |-> m.data[k]]]

\* Wrong variant: the endpoints are closed, their indices kept.
ClosedOnly(ep) == [ep EXCEPT !.active = FALSE]
\* Endpoint::reset
Reset(ep) == NewEndpoint

\* Only the bytes announced are written over what the slot held.
Written(m, sender, buffer, length) ==
  [sender |-> sender, length |-> length,
   data |-> [k \in 1..IPC_MAX_PAYLOAD |-> IF k <= length THEN buffer[k] ELSE m.data[k]]]

Put(ep, sender, buffer, length) ==
  [ep EXCEPT !.messages[ep.tail] = Written(@, sender, buffer, length),
             !.tail = (@ + 1) % IPC_QUEUE_CAPACITY,
             !.count = @ + 1]

Take(ep) == [ep EXCEPT !.head = (@ + 1) % IPC_QUEUE_CAPACITY, !.count = @ - 1]

\* Wrong variant: one slot too many is thought free.
FullLate(ep) == ep.count > IPC_QUEUE_CAPACITY
IsFull(ep) == ep.count = IPC_QUEUE_CAPACITY

\* The message that waits at position i, and all of them, oldest first.
Slot(ep, i) == ep.messages[(ep.head + i - 1) % IPC_QUEUE_CAPACITY]
Contents(ep) == [i \in 1..ep.count |-> Visible(Slot(ep, i))]

=============================================================================
