------------------------------ MODULE IpcFifo ------------------------------
(***************************************************************************)
(* What the callers of src/include/kernel/ipc.h rely on: each open         *)
(* endpoint is a bounded first-in first-out queue of messages, a message   *)
(* comes out with the sender and the bytes that went in, and a call is     *)
(* refused only for what is wrong with it.  There are no slots, no indices *)
(* and no buffers that are used again; what may stand behind the message   *)
(* in the buffer it is delivered in is left open.                          *)
(***************************************************************************)
EXTENDS Integers, Sequences

CONSTANTS
  Capacity,     \* messages an endpoint holds
  LastId,       \* the last endpoint identifier
  MaxPayload,   \* bytes in the longest message
  Ids, Senders, Buffers, Lengths   \* what the callers pass

VARIABLES
  started,   \* the first initialisation has happened
  queue,     \* open endpoint |-> its messages, oldest first
  reply      \* the last call, its arguments and its result

vars == <<started, queue, reply>>

NULL == <<>>   \* no buffer

\* An answer: the call, the endpoint it named or created, the bytes and the
\* length it gave, its status, and the message delivered, if any.
Answer(call, id, buffer, length, status, got) ==
  [call |-> call, id |-> id, buffer |-> buffer, length |-> length,
   status |-> status, got |-> got]
Short(call, id, status, got) == Answer(call, id, NULL, 0, status, got)

Init ==
  /\ started = FALSE
  /\ queue = [id \in {} |-> <<>>]
  /\ reply = Short("none", 0, "Ok", <<>>)

Restart ==
  /\ started' = TRUE
  /\ queue' = [id \in {} |-> <<>>]
  /\ reply' = Short("init", 0, "Ok", <<>>)

\* An endpoint that is not open is opened, empty; 0 is the answer only when
\* there is none.
Create ==
  /\ UNCHANGED started
  /\ IF started /\ DOMAIN queue # 1..LastId
     THEN \E id \in (1..LastId) \ DOMAIN queue :
            /\ queue' = [i \in DOMAIN queue \cup {id} |->
                           IF i = id THEN <<>> ELSE queue[i]]
            /\ reply' = Short("create", id, "Ok", <<>>)
     ELSE reply' = Short("create", 0, "Ok", <<>>) /\ UNCHANGED queue

Proper(buffer, length) == length <= MaxPayload /\ (length = 0 \/ buffer # NULL)

Message(sender, buffer, length) ==
  [sender |-> sender, payload |-> [k \in 1..length |-> buffer[k]]]

\* Accepted, refused for want of room, or refused for what is wrong with it.
Send(id, sender, buffer, length) ==
  /\ UNCHANGED started
  /\ LET Result(status) == Answer("send", id, buffer, length, status, <<>>)
     IN IF Proper(buffer, length) /\ id \in DOMAIN queue
        THEN IF Len(queue[id]) < Capacity
             THEN /\ queue' = [queue EXCEPT ![id] =
                                 Append(@, Message(sender, buffer, length))]
                  /\ reply' = Result("Ok")
             ELSE reply' = Result("Full") /\ UNCHANGED queue
        ELSE reply' = Result("refused") /\ UNCHANGED queue

Receive(id) ==
  /\ UNCHANGED started
  /\ LET Result(status, got) == Short("receive", id, status, got)
     IN IF id \notin DOMAIN queue
        THEN reply' = Result("refused", <<>>) /\ UNCHANGED queue
        ELSE IF queue[id] = <<>>
             THEN reply' = Result("Empty", <<>>) /\ UNCHANGED queue
             ELSE /\ reply' = Result("Ok", <<Head(queue[id])>>)
                  /\ queue' = [queue EXCEPT ![id] = Tail(@)]

\* The caller has no place for a message.
ReceiveNull(id) ==
  /\ reply' = Short("receive_null", id, "refused", <<>>)
  /\ UNCHANGED <<started, queue>>

Next ==
  \/ Restart
  \/ Create
  \/ \E id \in Ids, s \in Senders, b \in Buffers, n \in Lengths : Send(id, s, b, n)
  \/ \E id \in Ids : Receive(id) \/ ReceiveNull(id)

Spec == Init /\ [][Next]_vars

=============================================================================
