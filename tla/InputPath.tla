----------------------------- MODULE InputPath -----------------------------
(***************************************************************************)
(* A key's way from the keyboard to the shell, from the last part of the   *)
(* boot on (src/src/kernel/boot/drivers.c and entry.c): ps2_init sets up   *)
(* the 8042 controller (Ps2Setup); it raises IRQ 1, the PIC delivers it,   *)
(* the processor takes it through the stubs (Traps), irq.c and ps2.c       *)
(* publish the key on the keyboard's endpoint (Ipc), and entry.c's loop    *)
(* lets the shell take it (src/src/kernel/shell/init.c, shell_poll_input). *)
(* IRQ 0 counts the time the command uptime shows (Uptime).  Before that,  *)
(* entry.c runs the init program in user mode, whose system calls may use  *)
(* every endpoint, the keyboard's included.                                *)
(*                                                                         *)
(* One processor runs either the thread (the kernel's, or the program) or  *)
(* an interrupt handler, which runs to its end before the thread goes on.  *)
(* The devices act at any time.  The thread's steps inside ipc_receive are *)
(* separate, so that nothing but the interrupt flag keeps the handler from *)
(* coming between them; a system call runs with interrupts off.            *)
(***************************************************************************)
EXTENDS IpcRing, Traps, Ps2Setup, Uptime

CONSTANTS
  IPC_MAX_ENDPOINTS,
  MaxKeys,        \* bound on the keys typed
  MaxTicks,       \* bound on the ticks during cmd_uptime
  MaxCalls,       \* bound on the system calls before the program's last
  Payload,        \* the bytes of every message of the program
  Lengths         \* the lengths it gives them

KEYBOARD_ENDPOINT == 1

\* The i-th key typed, of 16 bits; the arrow keys are those above 255.
Key(i) == 254 + i

\* A message of the program can be told from a key.
ASSUME InputAssumption ==
  /\ MaxKeys \in Nat /\ MaxCalls \in Nat /\ MaxTicks \in Nat /\ IPC_MAX_PAYLOAD >= 2
  /\ IPC_MAX_ENDPOINTS \in Nat /\ IPC_MAX_ENDPOINTS > KEYBOARD_ENDPOINT
  /\ Payload \in Seq(Byte) /\ Len(Payload) = IPC_MAX_PAYLOAD
  /\ Lengths \subseteq 0..IPC_MAX_PAYLOAD
  /\ \A i \in 1..MaxKeys : Key(i) < 65536 /\ Key(i) % 256 # Payload[1]

VARIABLES
  typed,       \* number of keys typed since ps2_init disabled the keyboard
  kbd,         \* keys not read yet, the first of them in the data port
  irr, isr,    \* the PIC's lines requested and in service
  cpu,         \* the processor
  handler,     \* where the interrupt handler in progress is, or "none"
  pc,          \* where the thread is
  endpoints,   \* the kernel's message queues
  reply,       \* the answer to the program's last call
  seen,        \* the count ipc_receive has loaded
  message,     \* shell_poll_input's message
  stopped,     \* why the kernel stopped, or "no"
  \* Histories:
  calls,       \* the program's calls
  sent,        \* payloads the program put into the keyboard's endpoint
  taken,       \* payloads that came out of it, to the program or to the shell
  before,      \* what the last interrupt came between
  slipped      \* an interrupt came while jump_to_user had its stack switched

devices == <<typed, kbd, irr, isr>>
queues == <<endpoints, reply>>
program == <<reply, calls, sent>>
shell == <<seen, message, taken>>
trap == <<cpu, handler, before, slipped>>
vars == <<devices, setupVars, clock, trap, pc, endpoints, shell, program, stopped>>

TIMER == 0
KEYBOARD == 1
Lines == {TIMER, KEYBOARD}

Typed == [i \in 1..typed |-> Key(i)]
ring == endpoints[KEYBOARD_ENDPOINT]

\* publish_key's message, and the key shell_poll_input makes of a message.
Bytes(key) == <<key % 256, key \div 256>>
Decoded(payload) == IF Len(payload) = 2 THEN payload[1] + 256 * payload[2] ELSE payload[1]
WellFormed(m) == m.sender = 0 /\ m.length \in {1, 2}

\* The system calls of the endpoints, on an initialised table.
Kernel == INSTANCE Ipc WITH
  initialized <- TRUE, Ids <- {KEYBOARD_ENDPOINT}, Senders <- {0}, Buffers <- {Payload}

NoReply == Kernel!Short("none", 0, "Ok", <<>>)
Nowhere == [place |-> "none"]

\* boot_init_hardware_drivers has created the keyboard's endpoint, and the
\* timer runs.
Init ==
  /\ typed = 0 /\ kbd = <<>>
  /\ irr = {} /\ isr = {}
  /\ SetupInit /\ ClockInit
  /\ cpu = BootProcessor /\ handler = "none" /\ pc = "setup"
  /\ endpoints = [id \in Kernel!Table |-> [NewEndpoint EXCEPT !.active = (id = KEYBOARD_ENDPOINT)]]
  /\ reply = NoReply
  /\ seen = 0 /\ message = EMPTY_MESSAGE
  /\ stopped = "no"
  /\ calls = 0 /\ sent = <<>> /\ taken = <<>>
  /\ before = Nowhere /\ slipped = FALSE

-----------------------------------------------------------------------------
(* The devices.                                                             *)

\* A key typed too early is a stray byte of Ps2Setup.  A request is an edge:
\* the data port was empty and now holds a byte; a keyboard that is disabled
\* keeps its keys.
Press ==
  /\ stopped = "no" /\ typed < MaxKeys
  /\ setup \notin {"flush", "disable"}
  /\ typed' = typed + 1
  /\ kbd' = Append(kbd, Key(typed + 1))
  /\ irr' = IF kbd = <<>> /\ setup = "done" THEN irr \cup {KEYBOARD} ELSE irr
  /\ UNCHANGED <<isr, setupVars, clock, trap, pc, endpoints, shell, program, stopped>>

PressEarly ==
  /\ stopped = "no" /\ StrayKey
  /\ UNCHANGED <<devices, clock, trap, pc, endpoints, shell, program, stopped>>

InService(line) == handler # "none" /\ intr_num(cpu) = 32 + line

\* The timer's period is longer than the handling of a tick, and cmd_uptime
\* takes no more than MaxTicks of it.
Tick ==
  /\ stopped = "no"
  /\ began = -1 \/ (ticks - began) % (LowHalves * HighHalves) < MaxTicks
  /\ ~InService(TIMER)
  /\ irr' = irr \cup {TIMER}
  /\ UNCHANGED <<typed, kbd, isr, setupVars, clock, trap, pc, endpoints, shell, program, stopped>>

\* The most urgent line requested, unless one as urgent is in service.
Deliverable(line) ==
  /\ line \in irr
  /\ \A other \in irr : line <= other
  /\ \A busy \in isr : line < busy

\* What an interrupt must leave as it was.
Context == [place |-> pc, esp |-> esp(cpu), cs |-> cpu.cs, flag |-> cpu.flag, ds |-> cpu.ds, reg |-> cpu.reg]

\* hlt ends with an interrupt.
Deliver(line) ==
  /\ stopped = "no" /\ cpu.flag /\ Deliverable(line)
  /\ irr' = irr \ {line} /\ isr' = isr \cup {line}
  /\ pc' = IF pc = "asleep" THEN "poll" ELSE pc
  /\ \E p \in {Enter(cpu, pc')} : cpu' = IrqStub(p, 32 + line)
  /\ handler' = "eoi"
  /\ before' = [Context EXCEPT !.place = pc']
  /\ slipped' = (slipped \/ pc = "iretd")
  /\ UNCHANGED <<typed, kbd, setupVars, clock, endpoints, shell, program, stopped>>

-----------------------------------------------------------------------------
(* The interrupt handlers.                                                  *)

In(at) == stopped = "no" /\ handler = at

\* Wrong variant: the PIC is not told that the interrupt is over.
NoEoi(lines) == lines
\* outb(0x20, 0x20): the most urgent line in service is over.
Eoi(lines) == {line \in lines : \E other \in lines : other < line}

\* irq_handler acknowledges the interrupt before it handles it.
Acknowledge ==
  /\ In("eoi") /\ handler' = "body"
  /\ isr' = Eoi(isr)
  /\ UNCHANGED <<typed, kbd, irr, setupVars, clock, cpu, before, slipped, pc, endpoints, shell,
                 program, stopped>>

\* The handler in the table for the number in the frame.
Handles(line) == In("body") /\ intr_num(cpu) = 32 + line

TimerHandler ==
  /\ Handles(TIMER) /\ handler' = "iret"
  /\ pit_callback
  /\ UNCHANGED <<devices, setupVars, cpu, before, slipped, pc, endpoints, shell, program, stopped>>

\* Wrong variant: a key that finds the queue full is left in the controller.
ReadsPort(ep) == kbd # <<>> /\ ~IsFull(ep)
\* inb(PS2_DATA_PORT) finds a key.
KeyReady(ep) == kbd # <<>>

\* keyboard_handler and publish_key, for a key that has a code.  Reading the
\* port makes room for the next byte, and that is the next edge.
KeyboardHandler ==
  /\ Handles(KEYBOARD) /\ KeyReady(ring)
  /\ kbd' = Tail(kbd)
  /\ irr' = IF Len(kbd) = 1 THEN irr ELSE irr \cup {KEYBOARD}
  /\ IF IsFull(ring)
     THEN stopped' = "queue_full" /\ UNCHANGED <<handler, endpoints>>
     ELSE /\ endpoints' = [endpoints EXCEPT ![KEYBOARD_ENDPOINT] = Put(@, 0, Bytes(Head(kbd)), 2)]
          /\ handler' = "iret"
          /\ UNCHANGED stopped
  /\ UNCHANGED <<typed, isr, setupVars, clock, cpu, before, slipped, pc, shell, program>>

\* The port repeats the 0 that ended ps2_init's tests, and 0 is discarded.
NothingToRead ==
  /\ Handles(KEYBOARD) /\ ~KeyReady(ring)
  /\ handler' = "iret"
  /\ UNCHANGED <<devices, setupVars, clock, cpu, before, slipped, pc, endpoints, shell, program, stopped>>

LeaveHandler ==
  /\ In("iret") /\ handler' = "none"
  /\ \E p \in {IrqFrame(cpu)} : pc' = ReturnPlace(p) /\ cpu' = Iret(p)
  /\ before' = Nowhere
  /\ UNCHANGED <<devices, setupVars, clock, slipped, endpoints, shell, program, stopped>>

HandlerStep == Acknowledge \/ TimerHandler \/ KeyboardHandler \/ NothingToRead \/ LeaveHandler

-----------------------------------------------------------------------------
(* The kernel thread up to the init program.                                *)

\* The thread goes from one place to another.
Moves(from, to) ==
  /\ stopped = "no" /\ handler = "none"
  /\ pc = from /\ pc' = to
  /\ UNCHANGED <<handler, before, slipped>>
\* It does so with interrupts on or off.
Go(from, to, flag) == Moves(from, to) /\ cpu' = [cpu EXCEPT !.flag = flag]
Stay(from, to) == Moves(from, to) /\ UNCHANGED cpu

Elsewhere == UNCHANGED <<endpoints, shell, program, stopped>>
World == UNCHANGED <<devices, setupVars, clock>>

\* Replies of the controller may latch IRQ 1.
SetUpKeyboard ==
  /\ ps2_init
  /\ Stay("setup", IF setup' = "done" THEN "boot" ELSE "setup")
  /\ stopped' = IF setup' = "failed" THEN "self-test" ELSE stopped
  /\ irr' \in IF setup = "iftest" THEN {irr, irr \cup {KEYBOARD}}
             ELSE {IF setup = "enable" /\ kbd # <<>> THEN irr \cup {KEYBOARD} ELSE irr}
  /\ UNCHANGED <<typed, kbd, isr, clock, endpoints, shell, program>>

EnableForInit == Go("boot", "init", TRUE) /\ World /\ Elsewhere

NoInitProgram == Stay("init", "booted") /\ World /\ Elsewhere

\* jump_to_user, with interrupts on, in three steps.
PrepareJump == Moves("init", "jump") /\ cpu' = CallJump(cpu) /\ World /\ Elsewhere
LeaveStack == Moves("jump", "iretd") /\ cpu' = SwitchStack(cpu) /\ World /\ Elsewhere
EnterProgram == Moves("iretd", ReturnPlace(cpu)) /\ cpu' = Iret(cpu) /\ World /\ Elsewhere

-----------------------------------------------------------------------------
(* The init program.                                                        *)

\* The program puts its own values into the registers, and the processor
\* takes it to the handler.  (One processor: TLC evaluates a bound value once.)
Own(number) == [r \in Registers |-> IF r = "eax" THEN <<"number", number>> ELSE <<"user", r>>]
Called(number) == {SyscallStub(p) : p \in {Enter([cpu EXCEPT !.reg = Own(number)], pc)}}

\* A call that comes back.
UserCall(number, answer) ==
  /\ MayCall(cpu, 128) /\ calls < MaxCalls
  /\ \E q \in Called(number) :
       \E back \in {SyscallReturn(Answered(CallC(q), <<"answer", answer>>))} :
         Moves("user", ReturnPlace(back)) /\ cpu' = Iret(back)
  /\ calls' = calls + 1
  /\ World /\ UNCHANGED <<seen, message, stopped>>

\* The version, and a number the table has not.
PlainCall ==
  /\ UserCall(0, "version") \/ UserCall(7, "0xDEADC0DE")
  /\ reply' = NoReply
  /\ UNCHANGED <<endpoints, sent, taken>>

CreateCall ==
  /\ UserCall(3, "endpoint")
  /\ Kernel!ipc_endpoint_create \/ Kernel!CreateFails
  /\ UNCHANGED <<sent, taken>>

\* The kernel sends in the name of 0, as the keyboard's driver does.
SendCall ==
  /\ UserCall(4, "status")
  /\ \E n \in Lengths :
       /\ Kernel!ipc_send(KEYBOARD_ENDPOINT, 0, Payload, n)
       /\ sent' = IF reply'.status = "Ok" THEN Append(sent, SubSeq(Payload, 1, n)) ELSE sent
  /\ UNCHANGED taken

ReceiveCall ==
  /\ UserCall(5, "status")
  /\ Kernel!ipc_receive(KEYBOARD_ENDPOINT)
  /\ taken' = IF reply'.status = "Ok" THEN Append(taken, Visible(reply'.got[1]).payload) ELSE taken
  /\ UNCHANGED sent

\* The exit's answer is ebx.  A return address that is none leads anywhere.
ExitCall ==
  /\ MayCall(cpu, 128) /\ Moves("user", "booted")
  /\ \E q \in Called(SYSCALL_EXIT) :
       /\ cpu' = ReturnToKernel(Answered(CallC(q), Word(q, 5)))
       /\ stopped' = IF SavedWord(q, 1) = <<"eip", "booted">> THEN stopped ELSE "astray"
  /\ reply' = NoReply /\ calls' = 0
  /\ World /\ UNCHANGED <<endpoints, shell, sent>>

Stop(place, why) == Stay(place, place) /\ stopped' = why /\ World /\ UNCHANGED <<endpoints, shell, program>>

\* reboot and shutdown do not come back.
PowerCall == MayCall(cpu, 128) /\ Stop("user", "command")

\* isr_handler panics on every exception, and int of a closed gate is one.
PanicReason(number) ==
  CASE number = 0 -> "Division by zero fault"
    [] number = 6 -> "Invalid opcode fault"
    [] number = 13 -> "General protection fault"
    [] number = 14 -> "Page fault"
    [] OTHER -> "Unhandled interrupt"
Raised == {0, 1, 6, 14} \cup {13 : vector \in {v \in {3, 33} : ~MayCall(cpu, v)}}
Fault == \E number \in Raised : Stop("user", PanicReason(number))

Calls == PlainCall \/ CreateCall \/ SendCall \/ ReceiveCall \/ PowerCall \/ Fault

-----------------------------------------------------------------------------
(* The shell's loop.                                                        *)

EnableForShell == Go("booted", "poll", TRUE) /\ World /\ Elsewhere

\* Wrong variant: interrupts stay on while a message is received.
PollFlag == cpu.flag
\* disable_interrupts
ReceiveFlag == FALSE

DisableToReceive == Go("poll", "check", ReceiveFlag) /\ World /\ Elsewhere

ReceiveEmpty == Stay("check", "empty") /\ ring.count = 0 /\ World /\ Elsewhere

ReceiveCheck ==
  /\ Stay("check", "copy") /\ ring.count # 0
  /\ seen' = ring.count
  /\ World /\ UNCHANGED <<endpoints, message, taken, program, stopped>>

ReceiveCopy ==
  /\ Stay("copy", "store")
  /\ message' = ring.messages[ring.head]
  /\ endpoints' = [endpoints EXCEPT ![KEYBOARD_ENDPOINT].head = (@ + 1) % IPC_QUEUE_CAPACITY]
  /\ World /\ UNCHANGED <<seen, taken, program, stopped>>

ReceiveStore ==
  /\ Stay("store", "got")
  /\ endpoints' = [endpoints EXCEPT ![KEYBOARD_ENDPOINT].count = seen - 1]
  /\ World /\ UNCHANGED <<shell, program, stopped>>

EnableAndReturn == Go("empty", "sleep", TRUE) /\ World /\ Elsewhere

\* An interrupt that came since the queue was found empty does not keep the
\* processor from halting.
Halt == Stay("sleep", "asleep") /\ World /\ Elsewhere

EnableAndHandle == Go("got", "handle", TRUE) /\ World /\ Elsewhere

\* The message is used up; what the variable holds is never read again.
Used == seen' = 0 /\ message' = EMPTY_MESSAGE /\ taken' = Append(taken, Visible(message).payload)

\* The shape of the message is asserted before the key is handled.  The key may
\* end a line: that of uptime, or one that stops the machine.
HandleKey ==
  /\ WellFormed(message) /\ Used
  /\ \/ Stay("handle", "poll") /\ World /\ UNCHANGED stopped
     \/ Stay("handle", "uptime") /\ BeginUptime /\ UNCHANGED <<devices, setupVars, stopped>>
     \/ Go("handle", "poll", FALSE) /\ stopped' = "command" /\ World
  /\ UNCHANGED <<endpoints, program>>

RefuseMessage == ~WellFormed(message) /\ Stop("handle", "malformed")

ReadTicks == Stay("uptime", "uptime") /\ LoadHalf /\ UNCHANGED <<devices, setupVars>> /\ Elsewhere
ShowUptime == Stay("uptime", "poll") /\ EndUptime /\ UNCHANGED <<devices, setupVars>> /\ Elsewhere

Shell ==
  \/ EnableForShell \/ DisableToReceive \/ ReceiveEmpty \/ ReceiveCheck \/ ReceiveCopy
  \/ ReceiveStore \/ EnableAndReturn \/ Halt \/ EnableAndHandle
  \/ HandleKey \/ RefuseMessage \/ ReadTicks \/ ShowUptime

\* The thread without what the program does before it exits.
Thread ==
  \/ SetUpKeyboard \/ EnableForInit \/ NoInitProgram
  \/ PrepareJump \/ LeaveStack \/ EnterProgram \/ ExitCall
  \/ Shell

\* A panic, cmd_halt, reboot and shutdown never return.
Halted == stopped # "no" /\ UNCHANGED vars

Next ==
  \/ Press \/ PressEarly \/ Tick
  \/ \E line \in Lines : Deliver(line)
  \/ HandlerStep
  \/ Thread \/ Calls
  \/ Halted

Spec == Init /\ [][Next]_vars

\* The timer keeps ticking.  An interrupt is delivered as soon as it is let in,
\* so one that is let in again and again comes.  A handler that has begun goes
\* on.  Handlers are far shorter than the timer's period, so the thread advances
\* between them; the init program exits, unless it stops the machine.
Fairness ==
  /\ WF_vars(Tick)
  /\ \A line \in Lines : SF_vars(Deliver(line))
  /\ WF_vars(HandlerStep)
  /\ SF_vars(Thread)
FairSpec == Spec /\ Fairness

-----------------------------------------------------------------------------
(* Properties.                                                              *)

\* The payloads that wait in the keyboard's endpoint, and the one the shell has
\* taken from it.
Waiting == [i \in 1..ring.count |-> Visible(Slot(ring, i)).payload]
InHand == IF pc \in {"got", "handle"} THEN <<Visible(message).payload>> ELSE <<>>
Kind(payload) == IF Len(payload) = 2 /\ payload[1] # Payload[1] THEN "key" ELSE "other"
\* The payloads of one kind, in their order.
Of(kind, payloads) ==
  LET upto[i \in 0..Len(payloads)] ==
        IF i = 0 THEN <<>>
        ELSE IF Kind(payloads[i]) = kind THEN Append(upto[i - 1], payloads[i]) ELSE upto[i - 1]
  IN upto[Len(payloads)]
Keys(payloads) == LET keys == Of("key", payloads)
                  IN [i \in 1..Len(keys) |-> Decoded(keys[i])]

\* Neither the keys typed nor the messages the program sends to the keyboard's
\* endpoint are lost, doubled, reordered or altered on their way to the shell and
\* to the program, whenever the handler comes.  Only a panic loses a key, and
\* then as many messages wait as the endpoint holds; the shell meets a message it
\* cannot read only if the program sent it.  (Between the copy and the store the
\* ring is in two minds.)
KeysInOrder ==
  /\ stopped = "malformed" => Visible(message).payload \in {sent[i] : i \in 1..Len(sent)}
  /\ pc # "store" =>
       LET journey == taken \o InHand \o Waiting
       IN /\ Of("other", journey) = sent
          /\ IF stopped = "queue_full"
             THEN /\ ring.count = IPC_QUEUE_CAPACITY
                  /\ Keys(journey) = SubSeq(Typed, 1, typed - Len(kbd) - 1)
             ELSE Keys(journey) \o kbd = Typed

\* A key in the controller is announced: its request is pending, or the
\* handler that will read it is on its way.  Without this the keyboard is dead,
\* for the controller makes no further request until the key is read.
KeyAnnounced ==
  stopped = "no" /\ setup = "done" /\ kbd # <<>> =>
    KEYBOARD \in irr \/ (handler \in {"eoi", "body"} /\ InService(KEYBOARD))

\* An interrupt gives the thread back as it found it, wherever it came: its
\* place, its stack and every register, in the kernel and in the program, on
\* either stack.  A system call gives the program back all but eax.
ContextKept ==
  [][/\ handler = "iret" /\ handler' = "none" =>
          pc' = before.place /\ esp(cpu)' = before.esp /\ Context' = before
     /\ handler = "none" /\ calls' = calls + 1 =>
          /\ pc' = pc /\ esp(cpu)' = esp(cpu)
          /\ \A r \in Registers \ {"eax"} : cpu'.reg[r] = <<"user", r>>]_vars

\* The program's exit comes back to the call of jump_to_user with the registers a
\* caller counts on and the program's status in eax.  It is lost only if an
\* interrupt came in the one instruction between the switch of the stack and
\* iretd.
KernelResumed ==
  /\ stopped = "astray" => slipped
  /\ pc = "booted" /\ stopped = "no" =>
       /\ \A r \in Registers \ CallerSaved : cpu.reg[r] = <<"kernel", r>>
       /\ cpu.ds = USER_DS => cpu.reg.eax = <<"user", "ebx">>

\* Every key typed is taken, by the shell or by the program, unless the kernel
\* stops: the processor never halts with interrupts off, and the timer ends a
\* halt that a key came just too early to prevent.
KeysHandled ==
  \A i \in 1..MaxKeys :
    (typed >= i) ~> (Len(Keys(taken)) >= i \/ stopped # "no")

\* The exit system call returns to the kernel boot path
\* (docs/subsystem/SYSCALL.md).
ExitReturns == stopped # "astray"

=============================================================================
