-------------------------- MODULE InputPathProofs ---------------------------
(***************************************************************************)
(* Proofs about a key's path from the controller's port to the shell,      *)
(* for every number of keys, ticks, calls and messages, every queue and    *)
(* table, and every moment an interrupt may come at.  In order: what the   *)
(* processor holds at every place of the thread, and so what an interrupt  *)
(* and a call give back; the parts of InputPartsProofs, which it all runs  *)
(* step by step; the announcement of a waiting key; and the order of the   *)
(* keys and of the program's messages, which needs the rings, the messages *)
(* in flight and sequences taken apart one member at a time.               *)
(***************************************************************************)
EXTENDS InputPath, InputPartsProofs, NaturalsInduction, WellFoundedInduction

AtBoot == {"setup", "boot", "init", "jump"}
Loop == {"booted", "poll", "check", "empty", "copy", "store", "got", "sleep", "asleep", "handle", "uptime"}
PowerOn == BootProcessor.reg

\* What lies on the stack of the boot at a place of the thread.
BootStack(at) ==
  IF at = "jump" THEN Jump(PowerOn) ELSE IF at = "iretd" THEN UserFrame ELSE <<>>

\* The thread's processor at a place.
InPlace(p, at) ==
  /\ p.cs = (IF at = "user" THEN "user" ELSE "kernel")
  /\ p.on = (IF at = "user" THEN "user" ELSE "boot")
  /\ p.mem["boot"] = BootStack(at) /\ p.mem["kernel_stack"] = <<>> /\ p.mem["user"] = <<>>
  /\ at \in AtBoot => p.reg = PowerOn /\ p.ds = KERNEL_DS
  /\ at \in {"iretd", "user"} => p.ds = USER_DS /\ p.saved \in {Caller(PowerOn), <<>>}

\* What jump_to_user's caller finds when it goes on.
Resumed(p) ==
  /\ \A r \in Registers \ CallerSaved : p.reg[r] = <<"kernel", r>>
  /\ p.ds = USER_DS => p.reg.eax = <<"user", "ebx">>

-----------------------------------------------------------------------------
(* What the thread and the interrupts make of a processor in its place.     *)

LEMMA PowerOnFacts ==
  /\ PowerOn \in [Registers -> Words] /\ \A r \in Registers : PowerOn[r] = <<"kernel", r>>
  /\ BootProcessor \in Processors /\ InPlace(BootProcessor, "setup")
  /\ KERNEL_DS # USER_DS /\ KERNEL_DS \in Words /\ USER_DS \in Words
<1>1. \A r \in Registers : <<"kernel", r>> \in Words
  BY DEF Words, Kinds
<1>2. PowerOn = [r \in Registers |-> <<"kernel", r>>]
  BY DEF PowerOn, BootProcessor
<1>3. KERNEL_DS # USER_DS /\ KERNEL_DS \in Words /\ USER_DS \in Words
  BY DEF KERNEL_DS, USER_DS, Words, Kinds, Names
<1>4. BootProcessor.mem = [s \in Stacks |-> <<>>]
  BY DEF BootProcessor, Stacks
<1>5. BootProcessor.mem \in [Stacks -> Seq(Words)]
  <2>1. <<>> \in Seq(Words)
    BY EmptySeq
  <2> QED BY <1>4, <2>1
<1>6. /\ BootProcessor.ds = KERNEL_DS /\ BootProcessor.cs = "kernel" /\ BootProcessor.flag \in BOOLEAN
      /\ BootProcessor.on = "boot" /\ BootProcessor.saved = <<>> /\ BootProcessor.reg = PowerOn
  BY DEF BootProcessor, PowerOn
<1>7. BootProcessor = Processor(BootProcessor.reg, BootProcessor.ds, BootProcessor.cs, BootProcessor.flag,
                                BootProcessor.on, BootProcessor.mem, BootProcessor.saved)
  BY DEF BootProcessor, Processor
<1>8. PowerOn \in [Registers -> Words]
  BY <1>1, <1>2
<1>9. BootProcessor \in Processors
  <2>1. "boot" \in Stacks /\ <<>> \in Seq(Words)
    BY EmptySeq DEF Stacks
  <2> QED BY <1>3, <1>5, <1>6, <1>7, <1>8, <2>1 DEF Processor, Processors
<1>10. InPlace(BootProcessor, "setup")
  <2>1. BootProcessor.mem["boot"] = <<>> /\ BootProcessor.mem["kernel_stack"] = <<>> /\ BootProcessor.mem["user"] = <<>>
    BY <1>4 DEF Stacks
  <2> QED BY <1>6, <2>1 DEF InPlace, AtBoot, BootStack
<1> QED BY <1>2, <1>3, <1>8, <1>9, <1>10

LEMMA CallerFacts ==
  /\ Caller(PowerOn) # <<>> /\ Caller(PowerOn) \in Seq(Words) /\ Len(Caller(PowerOn)) = 5
  /\ Caller(PowerOn)[1] = <<"eip", "booted">>
  /\ Caller(PowerOn)[2] = <<"kernel", "ebp">> /\ Caller(PowerOn)[3] = <<"kernel", "ebx">>
  /\ Caller(PowerOn)[4] = <<"kernel", "esi">> /\ Caller(PowerOn)[5] = <<"kernel", "edi">>
<1>1. /\ PowerOn.ebp = <<"kernel", "ebp">> /\ PowerOn.ebx = <<"kernel", "ebx">>
      /\ PowerOn.esi = <<"kernel", "esi">> /\ PowerOn.edi = <<"kernel", "edi">>
  BY PowerOnFacts, RegisterFacts
<1>2. Caller(PowerOn) \in Seq(Words) /\ Len(Caller(PowerOn)) = 5
  BY PowerOnFacts, JumpFacts
<1> QED BY <1>1, <1>2 DEF Caller

\* The interrupt flag is no part of a place, and the places of the start-up are
\* alike, and so are those of the shell's loop.
LEMMA Moved ==
  ASSUME NEW p \in Processors, NEW from, NEW to, InPlace(p, from),
         \/ from \in {"setup", "boot", "init"} /\ to \in {"setup", "boot", "init"} \cup Loop
         \/ from \in Loop /\ to \in Loop
         \/ from = "user" /\ to = "user",
         NEW q, q.reg = p.reg, q.ds = p.ds, q.saved = p.saved, q.cs = p.cs, q.on = p.on, q.mem = p.mem
  PROVE  InPlace(q, to)
<1>1. BootStack(to) = BootStack(from)
  BY DEF BootStack, Loop
<1> QED BY <1>1 DEF InPlace, AtBoot, Loop

\* A thread comes back from an interrupt as it went, but a return address that
\* jump_to_user put beyond the stack's top is gone.
LEMMA InterruptUndone ==
  ASSUME NEW p \in Processors, NEW at \in Places, InPlace(p, at), NEW n \in Nat,
         NEW q, q = IrqStub(Enter(p, at), n)
  PROVE  LET b == Iret(IrqFrame(q))
         IN /\ ~q.flag /\ intr_num(q) = n /\ ReturnPlace(IrqFrame(q)) = at
            /\ q.ds = KERNEL_DS /\ \A r \in Registers \ CallerSaved : q.reg[r] = p.reg[r]
            /\ b \in Processors /\ InPlace(b, at) /\ esp(b) = esp(p)
            /\ b.cs = p.cs /\ b.flag = p.flag /\ b.ds = p.ds /\ b.reg = p.reg
            /\ at = "user" => b.saved = p.saved
<1> DEFINE e == Enter(p, at)
           b == Iret(IrqFrame(q))
<1>1. p.cs = "user" => p.on = "user"
  BY DEF InPlace
<1>2. e \in Processors /\ ~e.flag /\ ReturnPlace(e) = at /\ Iret(e) = CameBack(p) /\ e.reg = p.reg
  BY <1>1, GateUndone
<1> HIDE DEF e
<1>3. q = IrqStub(e, n)
  BY DEF e
<1>4. /\ IrqFrame(q) = e /\ intr_num(q) = n /\ q.flag = e.flag /\ q.ds = KERNEL_DS
      /\ \A r \in Registers \ CallerSaved : q.reg[r] = e.reg[r]
  BY <1>2, <1>3, StubUndone
<1>5. b = CameBack(p)
  BY <1>2, <1>4
<1> HIDE DEF b
<1> DEFINE mem == IF p.cs = "user" THEN [p.mem EXCEPT !["kernel_stack"] = <<>>] ELSE p.mem
           saved == IF p.cs = "kernel" /\ p.on = "boot" THEN <<>> ELSE p.saved
<1>6. mem = p.mem
  <2>1. p.mem \in [Stacks -> Seq(Words)]
    BY ProcessorFacts
  <2> QED BY <2>1 DEF InPlace
<1>7. b = Processor(p.reg, p.ds, p.cs, p.flag, p.on, p.mem, saved)
  BY <1>5, <1>6 DEF CameBack
<1>8. saved \in Seq(Words)
  <2>1. <<>> \in Seq(Words) /\ p.saved \in Seq(Words)
    BY EmptySeq, ProcessorFacts
  <2> QED BY <2>1
<1> HIDE DEF mem, saved
<1>9. /\ b.reg = p.reg /\ b.ds = p.ds /\ b.cs = p.cs /\ b.flag = p.flag /\ b.on = p.on /\ b.mem = p.mem
      /\ b.saved = saved
  BY <1>7 DEF Processor
<1>10. b \in Processors
  BY <1>7, <1>8, ProcessorFacts DEF Processor, Processors
<1>11. esp(b) = esp(p)
  BY <1>9 DEF esp
<1>12. b.saved \in {p.saved, <<>>} /\ (at = "user" => b.saved = p.saved)
  <2>1. at = "user" => p.cs # "kernel"
    BY DEF InPlace
  <2> QED BY <1>9, <2>1 DEF saved
<1>13. InPlace(b, at)
  BY <1>9, <1>12 DEF InPlace
<1> QED BY <1>2, <1>4, <1>9, <1>10, <1>11, <1>12, <1>13 DEF b

\* The three steps of jump_to_user.
LEMMA JumpPrepared ==
  ASSUME NEW p \in Processors, InPlace(p, "init")
  PROVE  CallJump(p) \in Processors /\ InPlace(CallJump(p), "jump")
<1>1. p.on = "boot" /\ p.mem["boot"] = <<>> /\ p.reg = PowerOn
  BY DEF InPlace, BootStack, AtBoot
<1> DEFINE c == CallJump(p)
<1>2. /\ c \in Processors
      /\ c = Processor(p.reg, p.ds, p.cs, p.flag, p.on, [p.mem EXCEPT ![p.on] = Jump(p.reg)], p.saved)
  BY <1>1, JumpPushed
<1> HIDE DEF c
<1>3. /\ c.cs = p.cs /\ c.on = "boot" /\ c.reg = PowerOn /\ c.ds = p.ds
      /\ c.mem = [p.mem EXCEPT !["boot"] = Jump(PowerOn)]
  BY <1>1, <1>2 DEF Processor
<1>4. /\ c.mem["boot"] = Jump(PowerOn) /\ c.mem["kernel_stack"] = p.mem["kernel_stack"]
      /\ c.mem["user"] = p.mem["user"]
  <2>1. p.mem \in [Stacks -> Seq(Words)]
    BY ProcessorFacts
  <2> QED BY <1>3, <2>1 DEF Stacks
<1>5. InPlace(c, "jump")
  BY <1>3, <1>4 DEF InPlace, AtBoot, BootStack
<1> QED BY <1>2, <1>5 DEF c

LEMMA StackLeft ==
  ASSUME NEW p \in Processors, InPlace(p, "jump")
  PROVE  /\ SwitchStack(p) \in Processors /\ InPlace(SwitchStack(p), "iretd")
         /\ SwitchStack(p).saved = Caller(PowerOn)
<1>1. p.on = "boot" /\ p.mem[p.on] = Jump(PowerOn)
  BY DEF InPlace, BootStack
<1> DEFINE s == SwitchStack(p)
<1>2. /\ s \in Processors /\ s.ds = USER_DS /\ s.cs = p.cs /\ s.flag = p.flag /\ s.on = p.on
      /\ s.mem = [p.mem EXCEPT ![p.on] = UserFrame] /\ s.saved = Caller(PowerOn)
  BY <1>1, PowerOnFacts, StackSwitched
<1> HIDE DEF s
<1>3. /\ s.mem["boot"] = UserFrame /\ s.mem["kernel_stack"] = p.mem["kernel_stack"]
      /\ s.mem["user"] = p.mem["user"]
  <2>1. p.mem \in [Stacks -> Seq(Words)]
    BY ProcessorFacts
  <2> QED BY <1>1, <1>2, <2>1 DEF Stacks
<1>4. InPlace(s, "iretd")
  BY <1>1, <1>2, <1>3 DEF InPlace, AtBoot, BootStack
<1> QED BY <1>2, <1>4 DEF s

LEMMA UserEntered ==
  ASSUME NEW p \in Processors, InPlace(p, "iretd")
  PROVE  /\ ReturnPlace(p) = "user" /\ Iret(p) \in Processors /\ InPlace(Iret(p), "user")
         /\ Iret(p).saved = p.saved
<1>1. p.on = "boot" /\ p.mem[p.on] = UserFrame
  BY DEF InPlace, BootStack
<1> DEFINE u == Iret(p)
<1>2. /\ ReturnPlace(p) = "user" /\ u \in Processors /\ u.ds = p.ds /\ u.cs = "user" /\ u.on = "user"
      /\ u.mem = [p.mem EXCEPT ![p.on] = <<>>] /\ u.saved = p.saved
  BY <1>1, ProgramEntered
<1> HIDE DEF u
<1>3. /\ u.mem["boot"] = <<>> /\ u.mem["kernel_stack"] = p.mem["kernel_stack"]
      /\ u.mem["user"] = p.mem["user"]
  <2>1. p.mem \in [Stacks -> Seq(Words)]
    BY ProcessorFacts
  <2> QED BY <1>1, <1>2, <2>1 DEF Stacks
<1>4. InPlace(u, "user")
  BY <1>1, <1>2, <1>3 DEF InPlace, AtBoot, BootStack
<1> QED BY <1>2, <1>4 DEF u

-----------------------------------------------------------------------------
(* System calls.                                                            *)

LEMMA OwnFacts ==
  ASSUME NEW number \in Nat
  PROVE  /\ Own(number) \in [Registers -> Words]
         /\ \A r \in Registers \ {"eax"} : Own(number)[r] = <<"user", r>>
<1>1. <<"number", number>> \in Words
  BY DEF Words, Kinds
<1>2. \A r \in Registers : <<"user", r>> \in Words
  BY DEF Words, Kinds, Stacks
<1> QED BY <1>1, <1>2 DEF Own

\* A system call gives the program back all but eax.
LEMMA CallReturns ==
  ASSUME NEW p \in Processors, InPlace(p, "user"), NEW reg \in [Registers -> Words], NEW a \in Words,
         NEW c, c = [p EXCEPT !.reg = reg],
         NEW back, back = SyscallReturn(Answered(CallC(SyscallStub(Enter(c, "user"))), a))
  PROVE  /\ ReturnPlace(back) = "user"
         /\ Iret(back) \in Processors /\ InPlace(Iret(back), "user") /\ esp(Iret(back)) = esp(p)
         /\ Iret(back).saved = p.saved
         /\ \A r \in Registers \ {"eax"} : Iret(back).reg[r] = reg[r]
<1> DEFINE e == Enter(c, "user")
           u == Iret(back)
           new == [reg EXCEPT !["eax"] = a]
<1>1. /\ c \in Processors /\ c.reg = reg /\ c.cs = "user" /\ c.on = "user" /\ c.ds = USER_DS
      /\ c.saved = p.saved /\ c.mem = p.mem /\ c.flag = p.flag
  BY DEF Processors, InPlace
<1>2. "user" \in Places
  BY DEF Places
<1>3. e \in Processors /\ e.reg = reg /\ ReturnPlace(e) = "user" /\ Iret(e) = CameBack(c)
  BY <1>1, <1>2, GateUndone
<1> HIDE DEF e
<1>4. back = [e EXCEPT !.reg = [e.reg EXCEPT !["eax"] = a]]
  <2> DEFINE s == Answered(CallC(SyscallStub(e)), a)
  <2>1. back = SyscallReturn(s)
    BY DEF e
  <2> HIDE DEF s
  <2>2. s = Answered(CallC(SyscallStub(e)), a)
    BY DEF s
  <2> QED BY <1>3, <2>1, <2>2, CallUndone
<1>5. back = [e EXCEPT !.reg = new]
  BY <1>3, <1>4
<1>6. new \in [Registers -> Words] /\ \A r \in Registers \ {"eax"} : new[r] = reg[r]
  OBVIOUS
<1> HIDE DEF new, u
<1>7. u = [CameBack(c) EXCEPT !.reg = new] /\ ReturnPlace(back) = "user"
  BY <1>3, <1>5, <1>6, IretKeepsRegisters DEF u
<1>8. [c.mem EXCEPT !["kernel_stack"] = <<>>] = p.mem
  <2>1. p.mem \in [Stacks -> Seq(Words)] /\ p.mem["kernel_stack"] = <<>>
    BY ProcessorFacts DEF InPlace
  <2> QED BY <1>1, <2>1
<1>9. CameBack(c) = Processor(reg, USER_DS, "user", p.flag, "user", p.mem, p.saved)
  BY <1>1, <1>8 DEF CameBack
<1>10. /\ u.reg = new /\ u.ds = USER_DS /\ u.cs = "user" /\ u.flag = p.flag /\ u.on = "user" /\ u.mem = p.mem
       /\ u.saved = p.saved
       /\ u = Processor(u.reg, u.ds, u.cs, u.flag, u.on, u.mem, u.saved)
  BY <1>7, <1>9 DEF Processor
<1>11. u \in Processors
  <2>1. /\ p.flag \in BOOLEAN /\ p.mem \in [Stacks -> Seq(Words)] /\ p.saved \in Seq(Words)
        /\ USER_DS \in Words /\ "user" \in Stacks
    BY ProcessorFacts, PowerOnFacts DEF Stacks
  <2> QED BY <1>6, <1>10, <2>1 DEF Processor, Processors
<1>12. InPlace(u, "user")
  BY <1>10 DEF InPlace, AtBoot
<1>13. esp(u) = esp(p)
  BY <1>10 DEF esp, InPlace
<1> QED BY <1>6, <1>7, <1>10, <1>11, <1>12, <1>13 DEF u

LEMMA ExitResumes ==
  ASSUME NEW p \in Processors, InPlace(p, "user"),
         NEW c, c = [p EXCEPT !.reg = Own(SYSCALL_EXIT)],
         NEW q, q = SyscallStub(Enter(c, "user")),
         NEW k, k = ReturnToKernel(Answered(CallC(q), Word(q, 5)))
  PROVE  /\ k \in Processors /\ InPlace(k, "booted")
         /\ p.saved = <<>> => SavedWord(q, 1) # <<"eip", "booted">>
         /\ p.saved # <<>> => SavedWord(q, 1) = <<"eip", "booted">> /\ Resumed(k)
<1> DEFINE e == Enter(c, "user")
           a == Word(q, 5)
           s == Answered(CallC(q), a)
           reg == Own(SYSCALL_EXIT)
<1>1. reg \in [Registers -> Words] /\ reg["ebx"] = <<"user", "ebx">>
  BY OwnFacts, RegisterFacts DEF SYSCALL_EXIT
<1> HIDE DEF reg
<1>2. c \in Processors /\ c.reg = reg /\ c.cs = "user" /\ c.on = "user" /\ c.ds = USER_DS /\ c.saved = p.saved
  BY <1>1 DEF Processors, InPlace, reg
<1>3. e \in Processors /\ e.reg = reg /\ e.ds = USER_DS /\ e.saved = p.saved /\ e.cs = "kernel"
  <2>1. "user" \in Places
    BY DEF Places
  <2>2. e \in Processors /\ e.reg = reg /\ e.ds = USER_DS /\ e.saved = p.saved
    BY <1>2, <2>1, GateUndone
  <2>3. e.cs = "kernel"
    BY <1>2 DEF Enter, Processors
  <2> QED BY <2>2, <2>3
<1> HIDE DEF e
<1>4. q = SyscallStub(e)
  BY DEF e
<1>5. a = <<"user", "ebx">> /\ a \in Words /\ q.saved = p.saved
  <2>1. <<"user", "ebx">> \in Words
    BY RegisterFacts DEF Words, Kinds, Stacks
  <2> DEFINE t == Answered(CallC(SyscallStub(e)), <<"user", "ebx">>)
  <2> HIDE DEF t
  <2>2. t = Answered(CallC(SyscallStub(e)), <<"user", "ebx">>)
    BY DEF t
  <2>3. SyscallStub(e).saved = e.saved /\ Word(SyscallStub(e), 5) = e.reg["ebx"]
    BY <1>3, <2>1, <2>2, CallUndone
  <2> QED BY <1>1, <1>3, <1>4, <2>1, <2>3
<1> HIDE DEF a
<1>6. s \in Processors /\ Word(s, 8) = a /\ s.saved = p.saved /\ s.cs = "kernel" /\ s.ds = USER_DS
  <2> HIDE DEF s
  <2>1. s = Answered(CallC(SyscallStub(e)), a)
    BY <1>4 DEF s
  <2> QED BY <1>3, <1>5, <2>1, CallUndone
<1>7. k = ReturnToKernel(s)
  BY DEF a
<1> HIDE DEF s
<1>8. /\ k.cs = "kernel" /\ k.ds = USER_DS /\ k.on = "boot" /\ k.mem = BootProcessor.mem
      /\ k.reg.ebp = SavedWord(s, 2) /\ k.reg.ebx = SavedWord(s, 3)
      /\ k.reg.esi = SavedWord(s, 4) /\ k.reg.edi = SavedWord(s, 5)
      /\ k.reg.eax = a /\ k \in Processors
  BY <1>5, <1>6, <1>7, ExitReturned
<1>9. InPlace(k, "booted")
  <2>1. k.mem["boot"] = <<>> /\ k.mem["kernel_stack"] = <<>> /\ k.mem["user"] = <<>>
    BY <1>8 DEF BootProcessor
  <2> QED BY <1>8, <2>1 DEF InPlace, AtBoot, BootStack
<1>10. p.saved = <<>> => SavedWord(q, 1) # <<"eip", "booted">>
  <2>1. p.saved = <<>> => SavedWord(q, 1) = STALE
    BY <1>5 DEF SavedWord
  <2>2. STALE # <<"eip", "booted">>
    BY DEF STALE
  <2> QED BY <2>1, <2>2
<1>11. ASSUME p.saved # <<>> PROVE SavedWord(q, 1) = <<"eip", "booted">> /\ Resumed(k)
  <2>1. p.saved = Caller(PowerOn)
    BY <1>11 DEF InPlace
  <2> DEFINE d == Caller(PowerOn)
  <2>2. /\ Len(d) = 5 /\ d[1] = <<"eip", "booted">>
        /\ d[2] = <<"kernel", "ebp">> /\ d[3] = <<"kernel", "ebx">>
        /\ d[4] = <<"kernel", "esi">> /\ d[5] = <<"kernel", "edi">>
    BY CallerFacts
  <2> HIDE DEF d
  <2>3. \A i \in 1..5 : SavedWord(q, i) = d[i] /\ SavedWord(s, i) = d[i]
    BY <1>5, <1>6, <2>1, <2>2 DEF SavedWord, d
  <2>4. /\ k.reg["ebp"] = <<"kernel", "ebp">> /\ k.reg["ebx"] = <<"kernel", "ebx">>
        /\ k.reg["esi"] = <<"kernel", "esi">> /\ k.reg["edi"] = <<"kernel", "edi">>
        /\ k.reg.eax = <<"user", "ebx">>
    BY <1>5, <1>8, <2>2, <2>3
  <2>5. Registers \ CallerSaved = {"edi", "esi", "ebp", "ebx"}
    BY RegisterFacts DEF CallerSaved
  <2>6. SavedWord(q, 1) = <<"eip", "booted">>
    BY <2>2, <2>3
  <2> QED BY <2>4, <2>5, <2>6 DEF Resumed
<1> QED BY <1>8, <1>9, <1>10, <1>11

-----------------------------------------------------------------------------
(* The invariant of the thread and the interrupts.                          *)

\* The thread that an interrupt handler has stopped.
Paused == Iret(IrqFrame(cpu))

Sound(p) ==
  /\ p \in Processors /\ InPlace(p, pc)
  /\ pc \in {"iretd", "user"} /\ p.saved = <<>> => slipped
  /\ pc = "booted" /\ stopped = "no" => Resumed(p)

ContextOf(p, place) ==
  [place |-> place, esp |-> esp(p), cs |-> p.cs, flag |-> p.flag, ds |-> p.ds, reg |-> p.reg]

Interrupted ==
  /\ ~cpu.flag /\ intr_num(cpu) \in {32, 33} /\ cpu.ds = KERNEL_DS
  /\ \A r \in Registers \ CallerSaved : cpu.reg[r] = Paused.reg[r]
  /\ ReturnPlace(IrqFrame(cpu)) = pc
  /\ Sound(Paused)
  /\ before = ContextOf(Paused, pc)

RunInv ==
  /\ pc \in Places /\ calls \in Nat
  /\ IF handler = "none" THEN Sound(cpu) ELSE Interrupted
  /\ stopped = "astray" => slipped

LEMMA InitRuns == Init => RunInv
<1> SUFFICES ASSUME Init PROVE RunInv
  OBVIOUS
<1>1. cpu = BootProcessor /\ handler = "none" /\ pc = "setup" /\ stopped = "no" /\ calls = 0
  BY DEF Init
<1> QED BY <1>1, PowerOnFacts DEF RunInv, Sound, Places

\* What does not touch the thread, nor a handler that stays one.
LEMMA Unmoved ==
  ASSUME RunInv, UNCHANGED <<cpu, before, slipped, pc, calls>>,
         handler' = handler \/ (handler # "none" /\ handler' # "none"),
         stopped' # "no" => stopped' # "astray" \/ stopped' = stopped,
         stopped' = "no" => stopped = "no"
  PROVE  RunInv'
BY DEF RunInv, Sound, Interrupted, Paused, ContextOf

\* An interrupt.
LEMMA DeliverRuns ==
  ASSUME RunInv, NEW line \in Lines, Deliver(line)
  PROVE  RunInv' /\ handler = "none" /\ intr_num(cpu') = 32 + line
<1>1. /\ cpu.flag /\ pc' = (IF pc = "asleep" THEN "poll" ELSE pc)
      /\ cpu' = IrqStub(Enter(cpu, pc'), 32 + line)
      /\ handler' = "eoi" /\ slipped' = (slipped \/ pc = "iretd")
      /\ before' = [Context EXCEPT !.place = pc']
      /\ stopped' = stopped /\ calls' = calls /\ stopped = "no"
  BY DEF Deliver, program
<1>2. Sound(cpu) /\ pc \in Places /\ calls \in Nat /\ handler = "none"
  BY <1>1 DEF RunInv, Interrupted
<1>3. pc' \in Places
  BY <1>1, <1>2 DEF Places
<1>4. InPlace(cpu, pc')
  <2>1. CASE pc = "asleep"
    <3>1. InPlace(cpu, "poll")
      BY <1>2, <2>1, Moved DEF Sound, Loop
    <3> QED BY <1>1, <2>1, <3>1
  <2>2. CASE pc # "asleep"
    BY <1>1, <1>2, <2>2 DEF Sound
  <2> QED BY <2>1, <2>2
<1> DEFINE n == 32 + line
           b == Iret(IrqFrame(cpu'))
<1>5. n \in {32, 33} /\ n \in Nat
  BY DEF Lines, TIMER, KEYBOARD
<1>6. /\ ~cpu'.flag /\ intr_num(cpu') = n /\ ReturnPlace(IrqFrame(cpu')) = pc'
      /\ cpu'.ds = KERNEL_DS /\ \A r \in Registers \ CallerSaved : cpu'.reg[r] = cpu.reg[r]
      /\ b \in Processors /\ InPlace(b, pc') /\ esp(b) = esp(cpu)
      /\ b.cs = cpu.cs /\ b.flag = cpu.flag /\ b.ds = cpu.ds /\ b.reg = cpu.reg
      /\ pc' = "user" => b.saved = cpu.saved
  <2> HIDE DEF n
  <2>1. cpu' = IrqStub(Enter(cpu, pc'), n)
    BY <1>1 DEF n
  <2>2. cpu \in Processors
    BY <1>2 DEF Sound
  <2> QED BY <1>3, <1>4, <1>5, <2>1, <2>2, InterruptUndone
<1>7. before' = ContextOf(b, pc')
  <2>1. before' = [place |-> pc', esp |-> esp(cpu), cs |-> cpu.cs, flag |-> cpu.flag, ds |-> cpu.ds, reg |-> cpu.reg]
    BY <1>1 DEF Context
  <2> HIDE DEF b
  <2> QED BY <1>6, <2>1 DEF ContextOf
<1>8. Paused' = b
  BY DEF Paused
<1>9. pc' \in {"iretd", "user"} /\ b.saved = <<>> => slipped'
  <2>1. CASE pc' = "iretd"
    <3>1. pc = "iretd"
      BY <1>1, <2>1
    <3> QED BY <1>1, <3>1
  <2>2. CASE pc' = "user"
    <3>1. pc = "user" /\ b.saved = cpu.saved
      BY <1>1, <1>6, <2>2
    <3> QED BY <1>1, <1>2, <3>1 DEF Sound
  <2> QED BY <2>1, <2>2
<1>10. pc' = "booted" /\ stopped' = "no" => Resumed(b)
  <2> HIDE DEF b
  <2>1. pc' = "booted" => pc = "booted"
    BY <1>1
  <2> QED BY <1>1, <1>2, <1>6, <2>1 DEF Sound, Resumed
<1>11. Sound(Paused)'
  <2> HIDE DEF b
  <2> QED BY <1>6, <1>8, <1>9, <1>10 DEF Sound
<1>12. Interrupted'
  <2> HIDE DEF b
  <2> QED BY <1>5, <1>6, <1>7, <1>8, <1>11 DEF Interrupted, ContextOf
<1> QED BY <1>1, <1>2, <1>3, <1>6, <1>12 DEF RunInv

\* The handler's end gives the thread back.
LEMMA LeaveRuns ==
  ASSUME RunInv, LeaveHandler
  PROVE  /\ RunInv' /\ pc' = pc
         /\ pc' = before.place /\ esp(cpu)' = before.esp /\ Context' = before
<1>1. /\ handler # "none" /\ handler' = "none" /\ pc' = ReturnPlace(IrqFrame(cpu)) /\ cpu' = Paused
      /\ slipped' = slipped /\ stopped' = stopped /\ calls' = calls
  BY DEF LeaveHandler, In, program, Paused
<1>2. Interrupted
  BY <1>1 DEF RunInv
<1>3. pc' = pc /\ Sound(Paused) /\ before = ContextOf(Paused, pc)
  BY <1>1, <1>2 DEF Interrupted
<1>4. Sound(cpu)'
  BY <1>1, <1>3 DEF Sound
<1>5. Context' = before
  <2>1. Context' = ContextOf(cpu', pc')
    BY DEF Context, ContextOf
  <2> QED BY <1>1, <1>3, <2>1
<1>6. pc' = before.place /\ esp(cpu)' = before.esp
  BY <1>1, <1>3 DEF ContextOf
<1> QED BY <1>1, <1>3, <1>4, <1>5, <1>6 DEF RunInv

LEMMA HandlerRuns ==
  ASSUME RunInv, HandlerStep
  PROVE  RunInv'
<1>1. CASE LeaveHandler
  BY <1>1, LeaveRuns
<1>2. CASE Acknowledge
  BY <1>2, Unmoved DEF Acknowledge, In, program
<1>3. CASE TimerHandler
  BY <1>3, Unmoved DEF TimerHandler, Handles, In, program
<1>4. CASE KeyboardHandler
  BY <1>4, Unmoved DEF KeyboardHandler, Handles, In, program
<1>5. CASE NothingToRead
  BY <1>5, Unmoved DEF NothingToRead, Handles, In, program
<1> QED BY <1>1, <1>2, <1>3, <1>4, <1>5 DEF HandlerStep

LEMMA DeviceRuns ==
  ASSUME RunInv, Press \/ PressEarly \/ Tick \/ Halted
  PROVE  RunInv'
BY Unmoved DEF Press, PressEarly, Tick, Halted, vars, trap, program

\* The thread goes from one place to another that is like it.
LEMMA MovedRuns ==
  ASSUME RunInv, NEW from, NEW to, Moves(from, to),
         \/ from \in {"setup", "boot", "init"} /\ to \in {"setup", "boot", "init"} \cup Loop
         \/ from \in Loop /\ to \in Loop \ {"booted"}
         \/ from = "user" /\ to = "user",
         cpu' = cpu \/ (\E flag \in BOOLEAN : cpu' = [cpu EXCEPT !.flag = flag]),
         stopped' # "astray", calls' = calls
  PROVE  RunInv'
<1>1. /\ handler = "none" /\ handler' = "none" /\ pc = from /\ pc' = to /\ slipped' = slipped
      /\ stopped = "no"
  BY DEF Moves
<1>2. Sound(cpu) /\ calls \in Nat
  BY <1>1 DEF RunInv
<1>3. cpu' \in {cpu, [cpu EXCEPT !.flag = TRUE], [cpu EXCEPT !.flag = FALSE]}
  OBVIOUS
<1>4. cpu' \in Processors /\ InPlace(cpu', to) /\ cpu'.reg = cpu.reg /\ cpu'.ds = cpu.ds /\ cpu'.saved = cpu.saved
  <2>1. /\ cpu' \in Processors /\ cpu'.reg = cpu.reg /\ cpu'.ds = cpu.ds /\ cpu'.saved = cpu.saved
        /\ cpu'.cs = cpu.cs /\ cpu'.on = cpu.on /\ cpu'.mem = cpu.mem
    BY <1>2, <1>3 DEF Sound, Processors
  <2>2. cpu \in Processors /\ InPlace(cpu, from)
    BY <1>1, <1>2 DEF Sound
  <2> QED BY <2>1, <2>2, Moved
<1>5. to \in Places
  BY DEF Loop, Places
<1>6. to \in {"iretd", "user"} => to = pc
  BY <1>1 DEF Loop
<1>7. to = "booted" => Resumed(cpu')
  <2> SUFFICES ASSUME to = "booted" PROVE Resumed(cpu')
    OBVIOUS
  <2>1. pc \in AtBoot
    BY <1>1 DEF Loop, AtBoot
  <2>2. cpu'.reg = PowerOn /\ cpu'.ds = KERNEL_DS
    BY <1>2, <1>4, <2>1 DEF Sound, InPlace
  <2> QED BY <2>2, PowerOnFacts DEF Resumed
<1>8. Sound(cpu)'
  BY <1>1, <1>2, <1>4, <1>6, <1>7 DEF Sound
<1> QED BY <1>1, <1>2, <1>5, <1>8 DEF RunInv

LEMMA StartRuns ==
  ASSUME RunInv, SetUpKeyboard \/ EnableForInit \/ NoInitProgram
  PROVE  RunInv'
<1>1. CASE SetUpKeyboard
  <2>1. /\ cpu' = cpu /\ calls' = calls
        /\ stopped' # "astray"
        /\ Moves("setup", IF setup' = "done" THEN "boot" ELSE "setup")
    BY <1>1 DEF SetUpKeyboard, Stay, Moves, program
  <2>2. CASE setup' = "done"
    <3>1. Moves("setup", "boot")
      BY <2>1, <2>2
    <3> QED BY <2>1, <3>1, MovedRuns
  <2>3. CASE setup' # "done"
    <3>1. Moves("setup", "setup")
      BY <2>1, <2>3
    <3> QED BY <2>1, <3>1, MovedRuns
  <2> QED BY <2>2, <2>3
<1>2. CASE EnableForInit
  <2>1. Moves("boot", "init") /\ cpu' = [cpu EXCEPT !.flag = TRUE] /\ calls' = calls /\ stopped' = stopped
        /\ stopped = "no"
    BY <1>2 DEF EnableForInit, Go, Moves, Elsewhere, program
  <2> QED BY <2>1, MovedRuns
<1>3. CASE NoInitProgram
  <2>1. Moves("init", "booted") /\ cpu' = cpu /\ calls' = calls /\ stopped' = stopped /\ stopped = "no"
    BY <1>3 DEF NoInitProgram, Stay, Moves, Elsewhere, program
  <2> QED BY <2>1, MovedRuns DEF Loop
<1> QED BY <1>1, <1>2, <1>3

LEMMA JumpRuns ==
  ASSUME RunInv, PrepareJump \/ LeaveStack \/ EnterProgram
  PROVE  RunInv'
<1>1. /\ handler = "none" /\ handler' = "none" /\ slipped' = slipped
      /\ stopped = "no" /\ stopped' = "no" /\ calls' = calls
  BY DEF PrepareJump, LeaveStack, EnterProgram, Moves, Elsewhere, program
<1>2. Sound(cpu) /\ calls \in Nat
  BY <1>1 DEF RunInv
<1>3. CASE PrepareJump
  <2>1. pc = "init" /\ pc' = "jump" /\ cpu' = CallJump(cpu)
    BY <1>3 DEF PrepareJump, Moves
  <2>2. cpu' \in Processors /\ InPlace(cpu', "jump")
    BY <1>2, <2>1, JumpPrepared DEF Sound
  <2> QED BY <1>1, <1>2, <2>1, <2>2 DEF RunInv, Sound, Places
<1>4. CASE LeaveStack
  <2>1. pc = "jump" /\ pc' = "iretd" /\ cpu' = SwitchStack(cpu)
    BY <1>4 DEF LeaveStack, Moves
  <2>2. cpu' \in Processors /\ InPlace(cpu', "iretd") /\ cpu'.saved # <<>>
    BY <1>2, <2>1, StackLeft, CallerFacts DEF Sound
  <2> QED BY <1>1, <1>2, <2>1, <2>2 DEF RunInv, Sound, Places
<1>5. CASE EnterProgram
  <2>1. pc = "iretd" /\ pc' = ReturnPlace(cpu) /\ cpu' = Iret(cpu)
    BY <1>5 DEF EnterProgram, Moves
  <2>2. pc' = "user" /\ cpu' \in Processors /\ InPlace(cpu', "user") /\ cpu'.saved = cpu.saved
    BY <1>2, <2>1, UserEntered DEF Sound
  <2> QED BY <1>1, <1>2, <2>1, <2>2 DEF RunInv, Sound, Places
<1> QED BY <1>3, <1>4, <1>5

\* A call that comes back, comes back where it was made.
LEMMA CallRuns ==
  ASSUME RunInv, NEW number \in Nat, NEW answer \in Answers, UserCall(number, answer)
  PROVE  /\ RunInv' /\ calls' = calls + 1
         /\ pc' = pc /\ esp(cpu)' = esp(cpu)
         /\ \A r \in Registers \ {"eax"} : cpu'.reg[r] = <<"user", r>>
<1> DEFINE a == <<"answer", answer>>
           c == [cpu EXCEPT !.reg = Own(number)]
           back == SyscallReturn(Answered(CallC(SyscallStub(Enter(c, "user"))), a))
<1>1. /\ handler = "none" /\ handler' = "none" /\ slipped' = slipped /\ pc = "user"
      /\ stopped = "no" /\ stopped' = "no" /\ calls' = calls + 1
      /\ pc' = ReturnPlace(back) /\ cpu' = Iret(back)
  BY DEF UserCall, Called, Moves
<1>2. Sound(cpu) /\ calls \in Nat
  BY <1>1 DEF RunInv
<1>3. Own(number) \in [Registers -> Words] /\ \A r \in Registers \ {"eax"} : Own(number)[r] = <<"user", r>>
  BY OwnFacts
<1>4. a \in Words
  BY DEF Words, Kinds
<1> HIDE DEF a
<1>5. cpu \in Processors /\ InPlace(cpu, "user")
  BY <1>1, <1>2 DEF Sound
<1>6. /\ ReturnPlace(back) = "user"
      /\ Iret(back) \in Processors /\ InPlace(Iret(back), "user") /\ esp(Iret(back)) = esp(cpu)
      /\ Iret(back).saved = cpu.saved
      /\ \A r \in Registers \ {"eax"} : Iret(back).reg[r] = Own(number)[r]
  BY <1>3, <1>4, <1>5, CallReturns
<1> HIDE DEF back
<1>7. Sound(cpu)'
  BY <1>1, <1>2, <1>6 DEF Sound
<1> QED BY <1>1, <1>2, <1>3, <1>6, <1>7 DEF RunInv, Places

\* The program's exit goes astray only after an interrupt in the wrong place.
LEMMA ExitRuns ==
  ASSUME RunInv, ExitCall
  PROVE  RunInv' /\ calls' = 0
<1> DEFINE c == [cpu EXCEPT !.reg = Own(SYSCALL_EXIT)]
           q == SyscallStub(Enter(c, "user"))
           k == ReturnToKernel(Answered(CallC(q), Word(q, 5)))
<1>1. /\ handler = "none" /\ handler' = "none" /\ slipped' = slipped /\ pc = "user" /\ pc' = "booted"
      /\ stopped = "no" /\ stopped' = (IF SavedWord(q, 1) = <<"eip", "booted">> THEN stopped ELSE "astray")
      /\ calls' = 0 /\ cpu' = k
  BY DEF ExitCall, Called, Moves
<1>2. Sound(cpu) /\ cpu \in Processors /\ InPlace(cpu, "user")
  BY <1>1 DEF RunInv, Sound
<1>3. /\ k \in Processors /\ InPlace(k, "booted")
      /\ cpu.saved = <<>> => SavedWord(q, 1) # <<"eip", "booted">>
      /\ cpu.saved # <<>> => SavedWord(q, 1) = <<"eip", "booted">> /\ Resumed(k)
  BY <1>2, ExitResumes
<1> HIDE DEF k, q
<1>4. cpu.saved = <<>> => slipped
  BY <1>1, <1>2 DEF Sound
<1>5. CASE cpu.saved = <<>>
  BY <1>1, <1>3, <1>4, <1>5 DEF RunInv, Sound, Places
<1>6. CASE cpu.saved # <<>>
  BY <1>1, <1>3, <1>6 DEF RunInv, Sound, Places
<1> QED BY <1>5, <1>6

LEMMA PanicNotAstray == \A number : PanicReason(number) # "astray"
BY DEF PanicReason

LEMMA ProgramRuns ==
  ASSUME RunInv, Calls
  PROVE  /\ RunInv' /\ pc' = pc
         /\ calls' = calls + 1 =>
              /\ pc' = pc /\ esp(cpu)' = esp(cpu)
              /\ \A r \in Registers \ {"eax"} : cpu'.reg[r] = <<"user", r>>
<1>1. CASE PlainCall \/ CreateCall \/ SendCall \/ ReceiveCall
  <2>1. \E number \in Nat, answer \in Answers : UserCall(number, answer)
    <3>1. CASE PlainCall
      BY <3>1 DEF PlainCall, Answers
    <3>2. CASE CreateCall
      BY <3>2 DEF CreateCall, Answers
    <3>3. CASE SendCall
      BY <3>3 DEF SendCall, Answers
    <3>4. CASE ReceiveCall
      BY <3>4 DEF ReceiveCall, Answers
    <3> QED BY <1>1, <3>1, <3>2, <3>3, <3>4
  <2> QED BY <2>1, CallRuns
<1>2. CASE PowerCall \/ Fault
  <2>1. PICK why : Stop("user", why) /\ why # "astray"
    BY <1>2, PanicNotAstray DEF PowerCall, Fault
  <2>2. Moves("user", "user") /\ cpu' = cpu /\ calls' = calls /\ stopped' # "astray"
    BY <2>1 DEF Stop, Stay, program
  <2>3. RunInv'
    BY <2>2, MovedRuns
  <2>4. calls \in Nat /\ pc' = pc
    BY <2>2 DEF RunInv, Moves
  <2> QED BY <2>2, <2>3, <2>4
<1> QED BY <1>1, <1>2 DEF Calls

\* Every step of the shell's loop.
LEMMA ShellRuns ==
  ASSUME RunInv, Shell
  PROVE  RunInv' /\ calls' = calls /\ handler = "none"
<1>1. \E from \in Loop, to \in Loop \ {"booted"} :
        /\ Moves(from, to)
        /\ cpu' = cpu \/ (\E flag \in BOOLEAN : cpu' = [cpu EXCEPT !.flag = flag])
        /\ stopped' # "astray" /\ calls' = calls
  <2> DEFINE Step(from, to) ==
               /\ Moves(from, to)
               /\ cpu' = cpu \/ (\E flag \in BOOLEAN : cpu' = [cpu EXCEPT !.flag = flag])
               /\ stopped' # "astray" /\ calls' = calls
  <2> USE DEF Elsewhere, program, Go, Stay, Moves
  <2>1. EnableForShell => Step("booted", "poll")
    BY DEF EnableForShell
  <2>2. DisableToReceive => Step("poll", "check")
    BY DEF DisableToReceive, ReceiveFlag
  <2>3. ReceiveEmpty => Step("check", "empty")
    BY DEF ReceiveEmpty
  <2>4. ReceiveCheck => Step("check", "copy")
    BY DEF ReceiveCheck
  <2>5. ReceiveCopy => Step("copy", "store")
    BY DEF ReceiveCopy
  <2>6. ReceiveStore => Step("store", "got")
    BY DEF ReceiveStore
  <2>7. EnableAndReturn => Step("empty", "sleep")
    BY DEF EnableAndReturn
  <2>8. Halt => Step("sleep", "asleep")
    BY DEF Halt
  <2>9. EnableAndHandle => Step("got", "handle")
    BY DEF EnableAndHandle
  <2>10. HandleKey => Step("handle", "poll") \/ Step("handle", "uptime")
    BY DEF HandleKey
  <2>11. RefuseMessage => Step("handle", "handle")
    BY DEF RefuseMessage, Stop
  <2>12. ReadTicks => Step("uptime", "uptime")
    BY DEF ReadTicks
  <2>13. ShowUptime => Step("uptime", "poll")
    BY DEF ShowUptime
  <2>14. \E from \in Loop, to \in Loop \ {"booted"} : Step(from, to)
    <3> HIDE DEF Step
    <3> QED BY <2>1, <2>2, <2>3, <2>4, <2>5, <2>6, <2>7, <2>8, <2>9, <2>10, <2>11, <2>12, <2>13
            DEF Shell, Loop
  <2> QED BY <2>14
<1>2. handler = "none"
  BY <1>1 DEF Moves
<1> QED BY <1>1, <1>2, MovedRuns

-----------------------------------------------------------------------------
(* Every step.                                                              *)

\* ContextKept says of a step what its two parts say: an interrupt is left, and a
\* system call comes back.
Left ==
  handler = "iret" /\ handler' = "none" =>
    pc' = before.place /\ esp(cpu)' = before.esp /\ Context' = before
CalledBack ==
  handler = "none" /\ calls' = calls + 1 =>
    /\ pc' = pc /\ esp(cpu)' = esp(cpu)
    /\ \A r \in Registers \ {"eax"} : cpu'.reg[r] = <<"user", r>>

LEMMA StepRuns == RunInv /\ [Next]_vars => RunInv' /\ Left /\ CalledBack
<1> SUFFICES ASSUME RunInv, [Next]_vars PROVE RunInv' /\ Left /\ CalledBack
  OBVIOUS
<1>1. calls \in Nat
  BY DEF RunInv
<1>2. ASSUME calls' \in {calls, 0} PROVE CalledBack
  <2>1. calls' # calls + 1
    BY <1>1, <1>2
  <2> QED BY <2>1 DEF CalledBack
<1>3. ASSUME handler = "none" \/ handler' # "none" PROVE Left
  BY <1>3 DEF Left
<1>4. CASE Press \/ PressEarly \/ Tick \/ Halted
  <2>1. calls' = calls /\ handler' = handler
    BY <1>4 DEF Press, PressEarly, Tick, Halted, vars, trap, program
  <2> QED BY <1>2, <1>3, <1>4, <2>1, DeviceRuns
<1>5. CASE \E line \in Lines : Deliver(line)
  <2>1. calls' = calls /\ handler' # "none"
    BY <1>5 DEF Deliver, program
  <2> QED BY <1>2, <1>3, <1>5, <2>1, DeliverRuns
<1>6. CASE LeaveHandler
  <2>1. calls' = calls
    BY <1>6 DEF LeaveHandler, program
  <2> QED BY <1>2, <1>6, <2>1, LeaveRuns DEF Left
<1>7. CASE HandlerStep /\ ~LeaveHandler
  <2>1. calls' = calls /\ (handler = "iret" => handler' # "none")
    BY <1>7 DEF HandlerStep, Acknowledge, TimerHandler, KeyboardHandler, NothingToRead, Handles, In, program
  <2>2. Left
    BY <2>1 DEF Left
  <2> QED BY <1>2, <1>7, <2>1, <2>2, HandlerRuns
<1>8. CASE SetUpKeyboard \/ EnableForInit \/ NoInitProgram \/ PrepareJump \/ LeaveStack \/ EnterProgram
  <2>1. calls' = calls /\ handler = "none"
    BY <1>8 DEF SetUpKeyboard, EnableForInit, NoInitProgram, PrepareJump, LeaveStack, EnterProgram,
                Stay, Go, Moves, Elsewhere, program
  <2> QED BY <1>2, <1>3, <1>8, <2>1, StartRuns, JumpRuns
<1>9. CASE ExitCall
  <2>1. handler = "none"
    BY <1>9 DEF ExitCall, Moves
  <2> QED BY <1>2, <1>3, <1>9, <2>1, ExitRuns
<1>10. CASE Shell
  BY <1>2, <1>3, <1>10, ShellRuns
<1>11. CASE Calls
  <2>1. handler = "none" \/ handler' # "none"
    BY <1>11 DEF Calls, PlainCall, CreateCall, SendCall, ReceiveCall, UserCall, PowerCall, Fault, Stop, Stay, Moves
  <2> QED BY <1>3, <1>11, <2>1, ProgramRuns DEF CalledBack
<1>12. CASE UNCHANGED vars
  <2>1. calls' = calls /\ handler' = handler
    BY <1>12 DEF vars, trap, program
  <2>2. RunInv'
    BY <1>12, Unmoved DEF vars, trap, program
  <2> QED BY <1>2, <1>3, <2>1, <2>2
<1> QED BY <1>4, <1>5, <1>6, <1>7, <1>8, <1>9, <1>10, <1>11, <1>12 DEF Next, Thread

-----------------------------------------------------------------------------
(* What the thread is given back.                                           *)

LEMMA ResumedOfRun == RunInv => KernelResumed
<1> SUFFICES ASSUME RunInv, pc = "booted", stopped = "no"
             PROVE  /\ \A r \in Registers \ CallerSaved : cpu.reg[r] = <<"kernel", r>>
                    /\ cpu.ds = USER_DS => cpu.reg.eax = <<"user", "ebx">>
  BY DEF RunInv, KernelResumed
<1>1. CASE handler = "none"
  BY <1>1 DEF RunInv, Sound, Resumed
<1>2. CASE handler # "none"
  BY <1>2, PowerOnFacts DEF RunInv, Interrupted, Sound, Resumed
<1> QED BY <1>1, <1>2

LEMMA AlwaysRuns == Spec => []RunInv
<1>1. RunInv /\ [Next]_vars => RunInv'
  BY StepRuns
<1> QED BY <1>1, InitRuns, PTL DEF Spec

\* When the program has ended, kernel_main goes on behind jump_to_user with the
\* registers that a C function must find unchanged as it left them, and the data
\* segments of the program only together with the eax that the program set,
\* however many interrupts came on the way.
THEOREM ResumedKernel == Spec => []KernelResumed
BY AlwaysRuns, ResumedOfRun, PTL

\* isr_common_stub and its iretd give an interrupted thread back its place, its
\* stack and every register, in the kernel as in the program, and a system call
\* gives the program back all but eax.
THEOREM KeptContext == Spec => ContextKept
<1>1. RunInv /\ [Next]_vars => Left /\ CalledBack
  BY StepRuns
<1>2. RunInv /\ [Next]_vars => [Left /\ CalledBack]_vars
  BY <1>1
<1>3. Spec => [][Left /\ CalledBack]_vars
  BY <1>2, AlwaysRuns, PTL DEF Spec
<1> QED BY <1>3, PTL DEF ContextKept, Left, CalledBack

-----------------------------------------------------------------------------
(* The parts of the system that the path goes through.                      *)

\* cmd_uptime's time is held as long as it runs.
ClockPlace == stopped = "no" => (pc = "uptime" <=> began # -1)

LEMMA ClockStays ==
  ASSUME ClockPlace, UNCHANGED clock,
         pc' = pc \/ (pc # "uptime" /\ pc' # "uptime"),
         stopped' = "no" => stopped = "no"
  PROVE  [pit_callback \/ cmd_uptime]_clock /\ ClockPlace'
BY DEF ClockPlace, clock

LEMMA ShellClock ==
  ASSUME ClockInv, ClockPlace, Shell
  PROVE  [pit_callback \/ cmd_uptime]_clock /\ ClockPlace'
<1>1. CASE HandleKey
  <2>1. CASE HandleKey /\ UNCHANGED clock
    <3>1. pc = "handle" /\ stopped = "no" /\ (stopped' = "no" => pc' = "poll" \/ began' # -1)
      BY <2>1 DEF HandleKey, Go, Stay, Moves, BeginUptime, ClockInv, ClockTypeOK
    <3> QED BY <2>1, <3>1 DEF HandleKey, Go, Stay, Moves, World, BeginUptime, ClockPlace, ClockInv, ClockTypeOK, clock
  <2>2. CASE HandleKey /\ ~UNCHANGED clock
    <3>1. Stay("handle", "uptime") /\ BeginUptime /\ UNCHANGED stopped
      BY <2>2 DEF HandleKey, World
    <3>2. pc = "handle" /\ pc' = "uptime" /\ stopped = "no" /\ began' # -1
      BY <3>1 DEF Stay, Moves, BeginUptime, ClockInv, ClockTypeOK
    <3>3. began = -1
      BY <3>2 DEF ClockPlace
    <3> QED BY <3>1, <3>2, <3>3 DEF ClockPlace, cmd_uptime
  <2> QED BY <1>1, <2>1, <2>2
<1>2. CASE ReadTicks
  <2>1. pc = "uptime" /\ pc' = pc /\ stopped = "no" /\ LoadHalf /\ began' = began /\ stopped' = stopped
    BY <1>2 DEF ReadTicks, Stay, Moves, LoadHalf, Elsewhere
  <2> QED BY <2>1 DEF ClockPlace, cmd_uptime
<1>3. CASE ShowUptime
  <2>1. pc = "uptime" /\ pc' = "poll" /\ stopped = "no" /\ EndUptime /\ began' = -1
    BY <1>3 DEF ShowUptime, Stay, Moves, EndUptime
  <2> QED BY <2>1 DEF ClockPlace, cmd_uptime
<1>4. CASE Shell /\ ~(HandleKey \/ ReadTicks \/ ShowUptime)
  <2>1. /\ UNCHANGED clock /\ stopped = "no" /\ pc # "uptime" /\ pc' # "uptime"
    BY <1>4 DEF Shell, EnableForShell, DisableToReceive, ReceiveEmpty, ReceiveCheck, ReceiveCopy, ReceiveStore,
                EnableAndReturn, Halt, EnableAndHandle, RefuseMessage, Stop, Go, Stay, Moves, World
  <2> QED BY <2>1, ClockStays
<1> QED BY <1>1, <1>2, <1>3, <1>4

LEMMA StepClock ==
  RunInv /\ ClockInv /\ ClockPlace /\ [Next]_vars => [pit_callback \/ cmd_uptime]_clock /\ ClockPlace'
<1> SUFFICES ASSUME RunInv, ClockInv, ClockPlace, [Next]_vars
             PROVE  [pit_callback \/ cmd_uptime]_clock /\ ClockPlace'
  OBVIOUS
<1>1. CASE Press \/ PressEarly \/ Tick \/ Halted \/ UNCHANGED vars
  <2>1. UNCHANGED clock /\ pc' = pc /\ stopped' = stopped
    BY <1>1 DEF Press, PressEarly, Tick, Halted, vars
  <2> QED BY <2>1, ClockStays
<1>2. CASE \E line \in Lines : Deliver(line)
  <2>1. UNCHANGED clock /\ stopped' = stopped /\ (pc' = pc \/ (pc = "asleep" /\ pc' = "poll"))
    BY <1>2 DEF Deliver
  <2> QED BY <2>1, ClockStays
<1>3. CASE TimerHandler
  <2>1. pit_callback /\ began' = began /\ pc' = pc /\ stopped' = stopped
    BY <1>3 DEF TimerHandler, pit_callback
  <2> QED BY <2>1 DEF ClockPlace
<1>4. CASE LeaveHandler
  <2>1. UNCHANGED clock /\ stopped' = stopped /\ pc' = pc
    BY <1>4, LeaveRuns DEF LeaveHandler
  <2> QED BY <2>1, ClockStays
<1>5. CASE Acknowledge \/ KeyboardHandler \/ NothingToRead
  <2>1. UNCHANGED clock /\ stopped = "no" /\ pc' = pc
    BY <1>5 DEF Acknowledge, KeyboardHandler, NothingToRead, Handles, In
  <2> QED BY <2>1, ClockStays
<1>6. CASE EnterProgram
  <2>1. UNCHANGED clock /\ stopped = "no" /\ pc = "iretd" /\ pc' = ReturnPlace(cpu) /\ handler = "none"
    BY <1>6 DEF EnterProgram, Moves, World
  <2>2. pc' = "user"
    BY <2>1, UserEntered DEF RunInv, Sound
  <2> QED BY <2>1, <2>2, ClockStays
<1>7. CASE SetUpKeyboard \/ EnableForInit \/ NoInitProgram \/ PrepareJump \/ LeaveStack \/ ExitCall
  <2>1. UNCHANGED clock /\ stopped = "no" /\ pc # "uptime" /\ pc' # "uptime"
    BY <1>7 DEF SetUpKeyboard, EnableForInit, NoInitProgram, PrepareJump, LeaveStack, ExitCall,
                Stay, Go, Moves, World
  <2> QED BY <2>1, ClockStays
<1>8. CASE Shell
  BY <1>8, ShellClock
<1>9. CASE Calls
  <2>1. UNCHANGED clock /\ stopped = "no"
    BY <1>9 DEF Calls, PlainCall, CreateCall, SendCall, ReceiveCall, UserCall, PowerCall, Fault, Stop, Stay,
                Moves, World
  <2>2. pc' = pc
    BY <1>9, ProgramRuns
  <2> QED BY <2>1, <2>2, ClockStays
<1> QED BY <1>1, <1>2, <1>3, <1>4, <1>5, <1>6, <1>7, <1>8, <1>9 DEF Next, Thread, HandlerStep

\* Only ps2_init and the keys that come before it disables the keyboard touch
\* the controller.
LEMMA StepSetup == [Next]_vars => [ps2_init \/ StrayKey]_setupVars
<1> SUFFICES ASSUME [Next]_vars PROVE [ps2_init \/ StrayKey]_setupVars
  OBVIOUS
<1>1. CASE SetUpKeyboard \/ PressEarly
  BY <1>1 DEF SetUpKeyboard, PressEarly
<1>2. CASE Press \/ Tick \/ Halted \/ UNCHANGED vars \/ (\E line \in Lines : Deliver(line))
  BY <1>2 DEF Press, Tick, Halted, Deliver, vars
<1>3. CASE HandlerStep
  BY <1>3 DEF HandlerStep, Acknowledge, TimerHandler, KeyboardHandler, NothingToRead, LeaveHandler
<1>4. CASE EnableForInit \/ NoInitProgram \/ PrepareJump \/ LeaveStack \/ EnterProgram \/ ExitCall
  BY <1>4 DEF EnableForInit, NoInitProgram, PrepareJump, LeaveStack, EnterProgram, ExitCall, World
<1>5. CASE Shell
  BY <1>5 DEF Shell, EnableForShell, DisableToReceive, ReceiveEmpty, ReceiveCheck, ReceiveCopy, ReceiveStore,
              EnableAndReturn, Halt, EnableAndHandle, RefuseMessage, HandleKey, ReadTicks, ShowUptime, Stop, World
<1>6. CASE Calls
  BY <1>6 DEF Calls, PlainCall, CreateCall, SendCall, ReceiveCall, UserCall, PowerCall, Fault, Stop, World
<1> QED BY <1>1, <1>2, <1>3, <1>4, <1>5, <1>6 DEF Next, Thread

\* The path's boot is ps2_init and nothing else: between its steps no interrupt,
\* no key and no later part of the kernel touches what it works on.
THEOREM PathSetsUp == Spec => SetupSpec
<1>1. Init => SetupInit
  BY DEF Init
<1> QED BY <1>1, StepSetup, PTL DEF Spec, SetupSpec

\* So on the path too ps2_init takes no byte for another's reply.
THEOREM RepliesOnPath == Spec => []RepliesInStep
BY PathSetsUp, RepliesCorrect, PTL

\* Timer handlers and cmd_uptime, wherever the interrupts fall, move the clock as
\* Uptime says: the count is read half by half with whole ticks between the reads.
THEOREM PathKeepsTime == Spec => UptimeSpec
<1>1. Init => ClockInit /\ ClockInv /\ ClockPlace
  <2> SUFFICES ASSUME Init PROVE ClockInit /\ ClockInv /\ ClockPlace
    OBVIOUS
  <2>1. pc = "setup" /\ began = -1 /\ ClockInit
    BY DEF Init, ClockInit
  <2> QED BY <2>1, ClockStarts DEF ClockPlace
<1>2. RunInv /\ ClockInv /\ ClockPlace /\ [Next]_vars =>
        [pit_callback \/ cmd_uptime]_clock /\ (ClockInv /\ ClockPlace)'
  BY StepClock, ClockKeeps
<1> QED BY <1>1, <1>2, AlwaysRuns, PTL DEF Spec, UptimeSpec

\* So the uptime that the shell shows between the interrupts is right to a second.
THEOREM UptimeOnPath == Spec => []UptimeNear
BY PathKeepsTime, UptimeCorrect, PTL

-----------------------------------------------------------------------------
(* A key in the controller is announced.                                    *)

KeyInv ==
  /\ typed \in Nat /\ kbd \in Seq(Nat)
  /\ KeyAnnounced

LEMMA AnnouncedStays ==
  ASSUME KeyAnnounced, UNCHANGED <<kbd, setup>>, KEYBOARD \in irr => KEYBOARD \in irr',
         handler \in {"none", "iret"} \/ (handler' \in {"eoi", "body"} /\ cpu' = cpu),
         stopped' = "no" => stopped = "no"
  PROVE  KeyAnnounced'
BY DEF KeyAnnounced, InService

LEMMA PressAnnounced == KeyInv /\ Press => KeyInv'
<1> SUFFICES ASSUME KeyInv, Press PROVE KeyInv'
  OBVIOUS
<1>1. /\ typed' = typed + 1 /\ kbd' = Append(kbd, Key(typed + 1))
      /\ irr' = (IF kbd = <<>> /\ setup = "done" THEN irr \cup {KEYBOARD} ELSE irr)
      /\ UNCHANGED <<setup, cpu, handler, stopped>>
  BY DEF Press, setupVars, trap
<1>2. typed' \in Nat /\ kbd' \in Seq(Nat)
  BY <1>1 DEF KeyInv, Key
<1>3. KeyAnnounced'
  BY <1>1 DEF KeyInv, KeyAnnounced, InService
<1> QED BY <1>2, <1>3 DEF KeyInv

LEMMA HandlerAnnounces == KeyInv /\ HandlerStep => KeyInv'
<1> SUFFICES ASSUME KeyInv, HandlerStep PROVE KeyInv'
  OBVIOUS
<1>1. CASE KeyboardHandler
  <2>1. /\ kbd' = Tail(kbd) /\ kbd # <<>> /\ typed' = typed
        /\ irr' = (IF Len(kbd) = 1 THEN irr ELSE irr \cup {KEYBOARD})
    BY <1>1 DEF KeyboardHandler, KeyReady
  <2>2. kbd' \in Seq(Nat) /\ (Len(kbd) = 1 => kbd' = <<>>)
    BY <2>1 DEF KeyInv
  <2>3. KeyAnnounced'
    BY <2>1, <2>2 DEF KeyAnnounced
  <2> QED BY <2>1, <2>2, <2>3 DEF KeyInv
<1>2. CASE HandlerStep /\ ~KeyboardHandler
  <2>1. UNCHANGED <<typed, kbd, irr, setup, stopped>>
    BY <1>2 DEF HandlerStep, Acknowledge, TimerHandler, NothingToRead, LeaveHandler, devices, setupVars
  <2>2. KeyAnnounced'
    <3>1. CASE Acknowledge
      BY <2>1, <3>1, AnnouncedStays DEF Acknowledge, KeyInv
    <3>2. CASE TimerHandler
      <4>1. ~InService(KEYBOARD)
        BY <3>2 DEF TimerHandler, Handles, InService, TIMER, KEYBOARD
      <4> QED BY <2>1, <4>1 DEF KeyInv, KeyAnnounced
    <3>3. CASE NothingToRead
      BY <2>1, <3>3 DEF NothingToRead, KeyReady, KeyAnnounced
    <3>4. CASE LeaveHandler
      BY <2>1, <3>4, AnnouncedStays DEF LeaveHandler, In, KeyInv
    <3> QED BY <1>2, <3>1, <3>2, <3>3, <3>4 DEF HandlerStep
  <2> QED BY <2>1, <2>2 DEF KeyInv
<1> QED BY <1>1, <1>2

LEMMA StepAnnounces == RunInv /\ KeyInv /\ [Next]_vars => KeyInv'
<1> SUFFICES ASSUME RunInv, KeyInv, [Next]_vars PROVE KeyInv'
  OBVIOUS
<1>1. ASSUME UNCHANGED <<typed, kbd, setup, irr, stopped>>, handler = "none" \/ UNCHANGED <<handler, cpu>>
      PROVE  KeyInv'
  BY <1>1 DEF KeyInv, KeyAnnounced, InService
<1>2. ASSUME UNCHANGED <<typed, kbd, setup, irr>>, handler = "none", stopped = "no"
      PROVE  KeyInv'
  BY <1>2 DEF KeyInv, KeyAnnounced
<1>3. CASE PressEarly \/ Tick
  <2>1. UNCHANGED <<typed, kbd, handler, cpu, stopped, setup>> /\ (KEYBOARD \in irr => KEYBOARD \in irr')
    BY <1>3 DEF PressEarly, Tick, StrayKey, devices, setupVars, trap
  <2> QED BY <2>1 DEF KeyInv, KeyAnnounced, InService
<1>4. CASE Halted \/ UNCHANGED vars
  BY <1>1, <1>4 DEF Halted, vars, devices, setupVars, trap
<1>5. ASSUME NEW line \in Lines, Deliver(line) PROVE KeyInv'
  <2>1. /\ UNCHANGED <<typed, kbd, setup, stopped>> /\ irr' = irr \ {line} /\ handler' = "eoi"
        /\ handler = "none" /\ intr_num(cpu') = 32 + line
    BY <1>5, DeliverRuns DEF Deliver, setupVars
  <2> QED BY <2>1 DEF KeyInv, KeyAnnounced, InService
<1>6. CASE SetUpKeyboard
  <2>1. /\ UNCHANGED <<typed, kbd>> /\ handler = "none" /\ stopped = "no"
        /\ irr \subseteq irr'
        /\ setup = "enable" /\ kbd # <<>> => KEYBOARD \in irr'
        /\ setup' = "done" /\ setup # "done" => setup = "enable"
    BY <1>6 DEF SetUpKeyboard, Stay, Moves, ps2_init, Flush, DisableKeyboard, ReadConfig, SelfTest,
                InterfaceTest, Test, EnableKeyboard
  <2> QED BY <2>1 DEF KeyInv, KeyAnnounced
<1>7. CASE EnableForInit \/ NoInitProgram \/ PrepareJump \/ LeaveStack \/ EnterProgram \/ ExitCall
  BY <1>2, <1>7 DEF EnableForInit, NoInitProgram, PrepareJump, LeaveStack, EnterProgram, ExitCall, World, devices,
                    setupVars, Stay, Go, Moves
<1>8. CASE Shell
  BY <1>2, <1>8 DEF Shell, EnableForShell, DisableToReceive, ReceiveEmpty, ReceiveCheck, ReceiveCopy, ReceiveStore,
              EnableAndReturn, Halt, EnableAndHandle, RefuseMessage, HandleKey, ReadTicks, ShowUptime, Stop, World,
              devices, setupVars, Stay, Go, Moves
<1>9. CASE Calls
  BY <1>2, <1>9 DEF Calls, PlainCall, CreateCall, SendCall, ReceiveCall, UserCall, PowerCall, Fault, Stop, World,
              devices, setupVars, Stay, Moves
<1> QED BY <1>3, <1>4, <1>5, <1>6, <1>7, <1>8, <1>9, PressAnnounced, HandlerAnnounces DEF Next, Thread

\* No key waits in the controller unannounced: its request is pending, or the
\* handler that reads it is running and has not read yet.  The acknowledgement
\* before the read and the masked interrupts of the loop do not lose it.
THEOREM AnnouncedKeys == Spec => []KeyAnnounced
<1>1. Init => KeyInv
  BY DEF Init, KeyInv, KeyAnnounced
<1>2. RunInv /\ KeyInv /\ [Next]_vars => KeyInv'
  BY StepAnnounces
<1>3. Spec => []KeyInv
  BY <1>1, <1>2, AlwaysRuns, PTL DEF Spec
<1>4. KeyInv => KeyAnnounced
  BY DEF KeyInv
<1> QED BY <1>3, <1>4, PTL

-----------------------------------------------------------------------------
(* Induction over sequences.                                                *)

\* Induction, over a set: the least number that is not in it has no predecessor.
LEMMA LeastOf ==
  ASSUME NEW T \in SUBSET Nat, T # {}
  PROVE  \E x \in T : \A y \in T : x <= y
<1> DEFINE R == {ss \in Nat \X Nat : ss[1] < ss[2]}
<1>1. IsWellFoundedOn(R, Nat)
  BY NatLessThanWellFounded DEF OpToRel
<1>2. \A x, y \in Nat : <<y, x>> \in R <=> y < x
  OBVIOUS
<1> HIDE DEF R
<1>3. PICK x \in T : \A y \in T : ~(<<y, x>> \in R)
  BY <1>1, WFMin
<1>4. \A y \in T : x <= y
  <2> SUFFICES ASSUME NEW y \in T PROVE x <= y
    OBVIOUS
  <2>1. ~(y < x)
    BY <1>2, <1>3
  <2> QED BY <2>1
<1> QED BY <1>4

LEMMA UpTo ==
  ASSUME NEW P, NEW n \in Nat, 0 \in P, \A i \in 0..(n - 1) : i \in P => i + 1 \in P
  PROVE  \A i \in 0..n : i \in P
<1> DEFINE T == {i \in 0..n : i \notin P}
<1> SUFFICES ASSUME T # {} PROVE FALSE
  OBVIOUS
<1>1. PICK x \in T : \A y \in T : x <= y
  <2>1. T \in SUBSET Nat
    OBVIOUS
  <2> HIDE DEF T
  <2> QED BY <2>1, LeastOf
<1>2. x \in 0..n /\ x \notin P /\ x # 0
  OBVIOUS
<1>3. x - 1 \in 0..(n - 1) /\ x - 1 \notin T /\ x = (x - 1) + 1
  BY <1>1, <1>2
<1> QED BY <1>2, <1>3

-----------------------------------------------------------------------------
(* The payloads of one kind.                                                *)

\* What has been picked with the first i payloads, with what was picked before.
Picked(kind, payload, earlier) == IF Kind(payload) = kind THEN Append(earlier, payload) ELSE earlier
Picks(f, kind, s, n) == f = [i \in 0..n |-> IF i = 0 THEN <<>> ELSE Picked(kind, s[i], f[i - 1])]

LEMMA PicksExist ==
  ASSUME NEW kind, NEW s, NEW n \in Nat
  PROVE  \E f : Picks(f, kind, s, n)
<1> DEFINE P == {k \in 0..n : \E f : Picks(f, kind, s, k)}
<1>1. 0 \in P
  <2> DEFINE f == [i \in 0..0 |-> <<>>]
  <2>1. f = [i \in 0..0 |-> IF i = 0 THEN <<>> ELSE Picked(kind, s[i], f[i - 1])]
    OBVIOUS
  <2>2. Picks(f, kind, s, 0)
    BY <2>1 DEF Picks
  <2> QED BY <2>2
<1>2. ASSUME NEW k \in 0..(n - 1), k \in P PROVE k + 1 \in P
  <2>1. PICK f : Picks(f, kind, s, k)
    BY <1>2
  <2> DEFINE g == [i \in 0..(k + 1) |-> IF i <= k THEN f[i] ELSE Picked(kind, s[i], f[k])]
  <2>2. g = [i \in 0..(k + 1) |-> IF i = 0 THEN <<>> ELSE Picked(kind, s[i], g[i - 1])]
    <3> SUFFICES ASSUME NEW i \in 0..(k + 1)
                 PROVE  g[i] = IF i = 0 THEN <<>> ELSE Picked(kind, s[i], g[i - 1])
      OBVIOUS
    <3>1. CASE i <= k
      <4>1. g[i] = f[i] /\ (i # 0 => g[i - 1] = f[i - 1])
        BY <3>1
      <4>2. f[i] = IF i = 0 THEN <<>> ELSE Picked(kind, s[i], f[i - 1])
        BY <2>1, <3>1 DEF Picks
      <4> QED BY <4>1, <4>2
    <3>2. CASE i = k + 1
      <4>1. g[i] = Picked(kind, s[i], f[k]) /\ g[i - 1] = f[k] /\ i # 0
        BY <3>2
      <4> QED BY <4>1
    <3> QED BY <3>1, <3>2
  <2> HIDE DEF g
  <2>3. Picks(g, kind, s, k + 1)
    BY <2>2 DEF Picks
  <2> QED BY <2>3
<1> HIDE DEF P
<1>3. n \in P
  BY <1>1, <1>2, UpTo
<1> QED BY <1>3 DEF P

LEMMA OfIsPicked ==
  ASSUME NEW kind, NEW s, Len(s) \in Nat
  PROVE  \E f : Picks(f, kind, s, Len(s)) /\ Of(kind, s) = f[Len(s)]
<1> DEFINE upto == CHOOSE f : Picks(f, kind, s, Len(s))
<1>1. Picks(upto, kind, s, Len(s))
  BY PicksExist
<1>2. Of(kind, s) = upto[Len(s)]
  BY DEF Of, Picks, Picked
<1> QED BY <1>1, <1>2

LEMMA OfNone == ASSUME NEW kind PROVE Of(kind, <<>>) = <<>>
<1>1. PICK f : Picks(f, kind, <<>>, 0) /\ Of(kind, <<>>) = f[0]
  <2>1. Len(<<>>) = 0
    OBVIOUS
  <2> QED BY <2>1, OfIsPicked
<1> QED BY <1>1 DEF Picks

\* One more payload at the end is one more picked at the end, or none.
LEMMA OfAppend ==
  ASSUME NEW kind, NEW S, NEW s \in Seq(S), NEW x \in S
  PROVE  Of(kind, Append(s, x)) = Picked(kind, x, Of(kind, s))
<1> DEFINE n == Len(s)
           t == Append(s, x)
<1>1. n \in Nat /\ Len(t) = n + 1 /\ t[n + 1] = x /\ \A i \in 1..n : t[i] = s[i]
  OBVIOUS
<1> HIDE DEF n, t
<1>2. PICK f : Picks(f, kind, s, n) /\ Of(kind, s) = f[n]
  BY <1>1, OfIsPicked DEF n
<1>3. PICK g : Picks(g, kind, t, n + 1) /\ Of(kind, t) = g[n + 1]
  BY <1>1, OfIsPicked
<1> DEFINE P == {i \in 0..n : f[i] = g[i]}
<1>4. 0 \in P
  BY <1>1, <1>2, <1>3 DEF Picks
<1>5. ASSUME NEW i \in 0..(n - 1), i \in P PROVE i + 1 \in P
  <2>1. /\ i + 1 \in 1..n /\ i + 1 \in 0..n /\ i + 1 \in 0..(n + 1) /\ i + 1 # 0 /\ (i + 1) - 1 = i
    BY <1>1, <1>5
  <2>2. f[i + 1] = Picked(kind, s[i + 1], f[i])
    BY <1>2, <2>1 DEF Picks
  <2>3. g[i + 1] = Picked(kind, t[i + 1], g[i])
    BY <1>3, <2>1 DEF Picks
  <2> QED BY <1>1, <1>5, <2>1, <2>2, <2>3
<1> HIDE DEF P
<1>6. n \in P
  <2>1. \A i \in 0..(n - 1) : i \in P => i + 1 \in P
    BY <1>5
  <2>2. n \in Nat /\ n \in 0..n
    BY <1>1
  <2> QED BY <1>4, <2>1, <2>2, UpTo
<1>7. g[n + 1] = Picked(kind, t[n + 1], g[n])
  <2>1. n + 1 \in 0..(n + 1) /\ n + 1 # 0 /\ (n + 1) - 1 = n
    BY <1>1
  <2> QED BY <1>3, <2>1 DEF Picks
<1>8. f[n] = g[n]
  BY <1>6 DEF P
<1> QED BY <1>1, <1>2, <1>3, <1>7, <1>8 DEF t

LEMMA OfFacts ==
  ASSUME NEW kind, NEW S, NEW s \in Seq(S)
  PROVE  /\ Of(kind, s) \in Seq(S)
         /\ \A i \in 1..Len(s) :
              Kind(s[i]) = kind => \E j \in 1..Len(Of(kind, s)) : Of(kind, s)[j] = s[i]
<1> DEFINE n == Len(s)
<1>1. n \in Nat /\ \A i \in 1..n : s[i] \in S
  OBVIOUS
<1> HIDE DEF n
<1>2. PICK f : Picks(f, kind, s, n) /\ Of(kind, s) = f[n]
  BY <1>1, OfIsPicked DEF n
<1> DEFINE Found(k, i) == \E j \in 1..Len(f[k]) : f[k][j] = s[i]
           P == {k \in 0..n : f[k] \in Seq(S) /\ \A i \in 1..k : Kind(s[i]) = kind => Found(k, i)}
<1>3. 0 \in P
  <2>1. f[0] = <<>>
    BY <1>1, <1>2 DEF Picks
  <2>2. <<>> \in Seq(S) /\ 0 \in 0..n
    BY <1>1, EmptySeq
  <2>3. \A i \in 1..0 : FALSE
    OBVIOUS
  <2> QED BY <2>1, <2>2, <2>3
<1>4. ASSUME NEW k \in 0..(n - 1), k \in P PROVE k + 1 \in P
  <2>1. /\ k + 1 \in 1..n /\ k + 1 \in 0..n /\ k + 1 # 0 /\ (k + 1) - 1 = k
    BY <1>1, <1>4
  <2>2. f[k + 1] = Picked(kind, s[k + 1], f[k])
    BY <1>2, <2>1 DEF Picks
  <2>3. f[k] \in Seq(S) /\ s[k + 1] \in S
    BY <1>1, <1>4, <2>1
  <2>4. CASE Kind(s[k + 1]) = kind
    <3>1. f[k + 1] = Append(f[k], s[k + 1])
      BY <2>2, <2>4 DEF Picked
    <3>2. /\ f[k + 1] \in Seq(S) /\ Len(f[k + 1]) = Len(f[k]) + 1 /\ f[k + 1][Len(f[k]) + 1] = s[k + 1]
          /\ \A j \in 1..Len(f[k]) : f[k + 1][j] = f[k][j]
      BY <2>3, <3>1
    <3>3. Len(f[k]) \in Nat
      BY <2>3
    <3>4. ASSUME NEW i \in 1..(k + 1), Kind(s[i]) = kind PROVE Found(k + 1, i)
      <4>1. CASE i = k + 1
        <5>1. Len(f[k]) + 1 \in 1..Len(f[k + 1])
          BY <3>2, <3>3
        <5> QED BY <3>2, <4>1, <5>1
      <4>2. CASE i # k + 1
        <5>1. i \in 1..k
          BY <4>2
        <5>2. PICK j \in 1..Len(f[k]) : f[k][j] = s[i]
          BY <1>4, <3>4, <5>1
        <5>3. j \in 1..Len(f[k + 1])
          BY <3>2, <3>3
        <5> QED BY <3>2, <5>2, <5>3
      <4> QED BY <4>1, <4>2
    <3> QED BY <2>1, <3>2, <3>4
  <2>5. CASE Kind(s[k + 1]) # kind
    <3>1. f[k + 1] = f[k]
      BY <2>2, <2>5 DEF Picked
    <3>2. ASSUME NEW i \in 1..(k + 1), Kind(s[i]) = kind PROVE Found(k + 1, i)
      <4>1. i \in 1..k
        BY <2>5, <3>2
      <4> QED BY <1>4, <3>1, <3>2, <4>1
    <3> QED BY <2>1, <2>3, <3>1, <3>2
  <2> QED BY <2>4, <2>5
<1> HIDE DEF P
<1>5. n \in P
  <2>1. \A i \in 0..(n - 1) : i \in P => i + 1 \in P
    BY <1>4
  <2>2. n \in Nat /\ n \in 0..n
    BY <1>1
  <2> QED BY <1>3, <2>1, <2>2, UpTo
<1>6. f[n] \in Seq(S) /\ \A i \in 1..n : Kind(s[i]) = kind => Found(n, i)
  BY <1>5 DEF P
<1> QED BY <1>2, <1>6 DEF n

LEMMA KeysFacts ==
  ASSUME NEW S, NEW s \in Seq(S)
  PROVE  /\ Keys(s) \in Seq({Decoded(x) : x \in S})
         /\ \A x \in S : Keys(Append(s, x)) =
              IF Kind(x) = "key" THEN Append(Keys(s), Decoded(x)) ELSE Keys(s)
<1> DEFINE D == {Decoded(x) : x \in S}
           k == Of("key", s)
<1>1. k \in Seq(S)
  BY OfFacts
<1>2. Keys(s) = [i \in 1..Len(k) |-> Decoded(k[i])]
  BY DEF Keys
<1> HIDE DEF k
<1>3. Keys(s) \in Seq(D) /\ Len(Keys(s)) = Len(k)
  <2>1. \A i \in 1..Len(k) : Decoded(k[i]) \in D
    BY <1>1
  <2> HIDE DEF D
  <2> QED BY <1>1, <1>2, <2>1
<1>4. ASSUME NEW x \in S
      PROVE  Keys(Append(s, x)) = IF Kind(x) = "key" THEN Append(Keys(s), Decoded(x)) ELSE Keys(s)
  <2> DEFINE l == Of("key", Append(s, x))
  <2>1. l = Picked("key", x, k)
    BY OfAppend DEF k
  <2>2. Keys(Append(s, x)) = [i \in 1..Len(l) |-> Decoded(l[i])]
    BY DEF Keys
  <2> HIDE DEF l
  <2>3. CASE Kind(x) = "key"
    <3>1. l = Append(k, x)
      BY <2>1, <2>3 DEF Picked
    <3>2. Len(l) = Len(k) + 1 /\ l[Len(k) + 1] = x /\ \A i \in 1..Len(k) : l[i] = k[i]
      BY <1>1, <3>1
    <3> DEFINE a == Append(Keys(s), Decoded(x))
    <3>3. a \in Seq(D) /\ Len(a) = Len(k) + 1 /\ a[Len(k) + 1] = Decoded(x)
          /\ \A i \in 1..Len(k) : a[i] = Keys(s)[i]
      <4>1. Decoded(x) \in D
        OBVIOUS
      <4> HIDE DEF D
      <4> QED BY <1>3, <4>1, AppendProperties
    <3> HIDE DEF a, D
    <3>4. Len(k) \in Nat
      BY <1>1
    <3>5. Keys(Append(s, x)) = a
      <4> DEFINE b == Keys(Append(s, x))
      <4>1. b = [i \in 1..(Len(k) + 1) |-> Decoded(l[i])]
        BY <2>2, <3>2
      <4>2. \A i \in 1..(Len(k) + 1) : b[i] = a[i]
        <5> SUFFICES ASSUME NEW i \in 1..(Len(k) + 1) PROVE b[i] = a[i]
          OBVIOUS
        <5>1. CASE i \in 1..Len(k)
          BY <1>2, <3>2, <3>3, <4>1, <5>1
        <5>2. CASE i = Len(k) + 1
          BY <3>2, <3>3, <4>1, <5>2
        <5> QED BY <3>4, <5>1, <5>2
      <4>3. a = [i \in 1..(Len(k) + 1) |-> a[i]]
        BY <3>3
      <4>4. b = [i \in 1..(Len(k) + 1) |-> b[i]]
        BY <4>1
      <4> HIDE DEF b
      <4>5. b = a
        BY <4>2, <4>3, <4>4
      <4> QED BY <4>5 DEF b
    <3> QED BY <2>3, <3>5 DEF a
  <2>4. CASE Kind(x) # "key"
    BY <1>2, <2>1, <2>2, <2>4 DEF Picked
  <2> QED BY <2>3, <2>4
<1> QED BY <1>3, <1>4

-----------------------------------------------------------------------------
(* Sequences that are read at one end and written at the other.             *)

LEMMA HeadMoves ==
  ASSUME NEW S, NEW s \in Seq(S), NEW q \in Seq(S), q # <<>>
  PROVE  Append(s, Head(q)) \o Tail(q) = s \o q
<1>1. q = <<Head(q)>> \o Tail(q) /\ Head(q) \in S /\ Tail(q) \in Seq(S)
  BY HeadTailProperties
<1>2. Append(s, Head(q)) = s \o <<Head(q)>>
  BY <1>1, AppendIsConcat
<1>3. (s \o <<Head(q)>>) \o Tail(q) = s \o (<<Head(q)>> \o Tail(q))
  <2>1. <<Head(q)>> \in Seq(S)
    BY <1>1
  <2> QED BY <1>1, <2>1, ConcatAssociative
<1> QED BY <1>1, <1>2, <1>3

\* What is taken from one end of a journey is added to the other's.
LEMMA TextMoves ==
  ASSUME NEW S, NEW s \in Seq(S), NEW q \in Seq(S), NEW x \in S
  PROVE  Append(s, x) \o q = s \o (<<x>> \o q) /\ (s \o <<x>>) \o q = s \o (<<x>> \o q)
<1>1. Append(s, x) = s \o <<x>> /\ <<x>> \in Seq(S)
  BY AppendIsConcat
<1>2. (s \o <<x>>) \o q = s \o (<<x>> \o q)
  BY <1>1, ConcatAssociative
<1> QED BY <1>1, <1>2

LEMMA AppendMoves ==
  ASSUME NEW S, NEW s \in Seq(S), NEW q \in Seq(S), NEW x \in S
  PROVE  s \o Append(q, x) = Append(s \o q, x)
<1>1. Append(q, x) = q \o <<x>> /\ <<x>> \in Seq(S) /\ s \o q \in Seq(S)
  BY AppendIsConcat
<1>2. s \o (q \o <<x>>) = (s \o q) \o <<x>>
  BY <1>1, ConcatAssociative
<1> QED BY <1>1, <1>2, AppendIsConcat

LEMMA FirstPart ==
  ASSUME NEW S, NEW s \in Seq(S), NEW q \in Seq(S)
  PROVE  s = SubSeq(s \o q, 1, Len(s \o q) - Len(q)) /\ Len(s \o q) = Len(s) + Len(q)
<1> DEFINE c == s \o q
<1>1. c \in Seq(S) /\ Len(c) = Len(s) + Len(q) /\ \A i \in 1..Len(s) : c[i] = s[i]
  BY ConcatProperties
<1>2. Len(s) \in Nat /\ Len(q) \in Nat
  OBVIOUS
<1> HIDE DEF c
<1>3. Len(c) - Len(q) = Len(s) /\ Len(s) <= Len(c)
  BY <1>1, <1>2
<1>4. SubSeq(c, 1, Len(s)) = [i \in 1..Len(s) |-> c[i]]
  BY <1>1, <1>2, <1>3
<1>5. s = [i \in 1..Len(s) |-> s[i]]
  OBVIOUS
<1>6. SubSeq(c, 1, Len(s)) = s
  BY <1>1, <1>4, <1>5
<1> QED BY <1>1, <1>3, <1>6 DEF c

-----------------------------------------------------------------------------
(* What the slots of a ring carry.                                          *)

LEMMA VisibleType ==
  ASSUME NEW m \in IpcMessage
  PROVE  /\ Visible(m) \in [sender : Nat, payload : Seq(Byte)] /\ Visible(m).sender = m.sender
         /\ Len(Visible(m).payload) = m.length
         /\ \A k \in 1..m.length : Visible(m).payload[k] = m.data[k]
<1> DEFINE p == [k \in 1..m.length |-> m.data[k]]
<1>1. m.length \in Nat /\ m.sender \in Nat /\ \A k \in 1..m.length : m.data[k] \in Byte
  BY RingAssumption DEF IpcMessage
<1>2. p \in Seq(Byte) /\ Len(p) = m.length
  BY <1>1
<1> QED BY <1>1, <1>2 DEF Visible

Payloads(ep) == [i \in 1..ep.count |-> Visible(Slot(ep, i)).payload]

LEMMA PayloadsOf ==
  ASSUME NEW ep, Ring(ep)
  PROVE  /\ ep.count \in Nat /\ Payloads(ep) \in Seq(Seq(Byte)) /\ Len(Payloads(ep)) = ep.count
         /\ Contents(ep) \in Seq([sender : Nat, payload : Seq(Byte)]) /\ Len(Contents(ep)) = ep.count
         /\ \A i \in 1..ep.count :
              Payloads(ep)[i] = Contents(ep)[i].payload /\ Slot(ep, i).sender = Contents(ep)[i].sender
<1> DEFINE M == [sender : Nat, payload : Seq(Byte)]
<1>1. ep.count \in Nat
  BY RingAssumption DEF Ring, Endpoint
<1>2. ASSUME NEW i \in 1..ep.count
      PROVE  Visible(Slot(ep, i)) \in M /\ Visible(Slot(ep, i)).sender = Slot(ep, i).sender
  <2>1. Slot(ep, i) \in IpcMessage
    <3>1. /\ (ep.head + i - 1) % IPC_QUEUE_CAPACITY \in Slots
      BY SlotIsMessage
    <3> QED BY <3>1 DEF Slot, Ring, Endpoint
  <2> QED BY <2>1, VisibleType
<1> HIDE DEF M
<1>3. Contents(ep) = [i \in 1..ep.count |-> Visible(Slot(ep, i))]
  BY DEF Contents
<1>4. Contents(ep) \in Seq(M) /\ Len(Contents(ep)) = ep.count
  BY <1>1, <1>2, <1>3
<1>5. Payloads(ep) \in Seq(Seq(Byte)) /\ Len(Payloads(ep)) = ep.count
  <2>1. \A i \in 1..ep.count : Visible(Slot(ep, i)).payload \in Seq(Byte)
    BY <1>2 DEF M
  <2> QED BY <1>1, <2>1 DEF Payloads
<1> QED BY <1>1, <1>2, <1>3, <1>4, <1>5 DEF Payloads, M

-----------------------------------------------------------------------------
(* A ring that the kernel alone writes to.                                  *)

Texts == Seq(Byte)

LEMMA FreshRing ==
  ASSUME NEW ep, ep = [NewEndpoint EXCEPT !.active = TRUE]
  PROVE  Ring(ep) /\ ep.active /\ ep.count = 0
<1>1. EMPTY_MESSAGE \in IpcMessage /\ EMPTY_MESSAGE.sender = 0
  BY RingAssumption DEF EMPTY_MESSAGE, IpcMessage, Byte
<1>2. [i \in Slots |-> EMPTY_MESSAGE] \in [Slots -> IpcMessage]
  BY <1>1
<1>3. 0 \in Slots /\ 0 \in 0..IPC_QUEUE_CAPACITY
  BY RingAssumption DEF Slots
<1>4. (0 + 0) % IPC_QUEUE_CAPACITY = 0
  BY RingAssumption, NoWrap
<1> QED BY <1>2, <1>3, <1>4 DEF NewEndpoint, Ring, Endpoint

\* A ring that holds the kernel's messages only.
Kept(ep) == Ring(ep) /\ ep.active /\ \A i \in 1..ep.count : Slot(ep, i).sender = 0

\* The bytes of a message.
Copied(buffer, n, p) == p \in Texts /\ Len(p) = n /\ \A k \in 1..n : p[k] = buffer[k]

LEMMA KeptPut ==
  ASSUME NEW ep, Kept(ep), ep.count # IPC_QUEUE_CAPACITY, NEW buffer, NEW n, Announced(buffer, n),
         NEW q, q = Put(ep, 0, buffer, n), 
         NEW p, Copied(buffer, n, p)
  PROVE  Kept(q) /\ Payloads(q) = Append(Payloads(ep), p)
<1> DEFINE m == [sender |-> 0, payload |-> p]
<1>1. ep.count < IPC_QUEUE_CAPACITY /\ ep.count \in Nat /\ Ring(ep)
  BY RingAssumption DEF Kept, Ring, Endpoint
<1>2. Ring(q) /\ q.active
  BY <1>1, PutRing DEF Kept
<1>3. Contents(q) = Append(Contents(ep), m)
  <2>1. p = [k \in 1..n |-> buffer[k]]
    BY DEF Copied, Texts
  <2> QED BY <1>1, <2>1, PutAppends
<1>4. p \in Texts
  BY DEF Copied
<1>5. /\ Contents(ep) \in Seq([sender : Nat, payload : Texts]) /\ Len(Contents(ep)) = ep.count
      /\ Payloads(ep) \in Seq(Texts) /\ Len(Payloads(ep)) = ep.count
      /\ \A i \in 1..ep.count : Payloads(ep)[i] = Contents(ep)[i].payload /\ Contents(ep)[i].sender = 0
  BY <1>1, PayloadsOf DEF Kept, Texts
<1>6. /\ Payloads(q) \in Seq(Texts) /\ Len(Payloads(q)) = q.count /\ Len(Contents(q)) = q.count
      /\ \A i \in 1..q.count : Payloads(q)[i] = Contents(q)[i].payload /\ Slot(q, i).sender = Contents(q)[i].sender
  BY <1>2, PayloadsOf DEF Texts
<1>7. m \in [sender : Nat, payload : Texts] /\ m.payload = p /\ m.sender = 0
  BY <1>4
<1> HIDE DEF m
<1>8. /\ q.count = ep.count + 1 /\ Contents(q)[ep.count + 1] = m
      /\ \A i \in 1..ep.count : Contents(q)[i] = Contents(ep)[i]
  BY <1>3, <1>5, <1>6, <1>7, AppendProperties
<1> DEFINE a == Append(Payloads(ep), p)
<1>9. /\ a \in Seq(Texts) /\ Len(a) = ep.count + 1 /\ a[ep.count + 1] = p
      /\ \A i \in 1..ep.count : a[i] = Payloads(ep)[i]
  BY <1>4, <1>5, AppendProperties
<1> HIDE DEF a
<1>10. ASSUME NEW i \in 1..(ep.count + 1) PROVE Payloads(q)[i] = a[i] /\ Slot(q, i).sender = 0
  <2>1. CASE i \in 1..ep.count
    BY <1>5, <1>6, <1>8, <1>9, <2>1
  <2>2. CASE i = ep.count + 1
    BY <1>6, <1>7, <1>8, <1>9, <2>2
  <2> QED BY <1>1, <2>1, <2>2
<1>11. a = [i \in 1..(ep.count + 1) |-> a[i]]
  BY <1>9
<1>12. Payloads(q) = [i \in 1..(ep.count + 1) |-> Payloads(q)[i]]
  BY <1>6, <1>8
<1>13. Payloads(q) = a
  BY <1>10, <1>11, <1>12
<1> QED BY <1>2, <1>8, <1>10, <1>13 DEF Kept, a

LEMMA KeptTake ==
  ASSUME NEW ep, Kept(ep), ep.count # 0, NEW q, q = Take(ep)
  PROVE  LET m == ep.messages[ep.head]
         IN /\ Kept(q) /\ m \in IpcMessage /\ m.sender = 0
            /\ Visible(m).payload \in Texts /\ Payloads(ep) = <<Visible(m).payload>> \o Payloads(q)
<1> DEFINE m == ep.messages[ep.head]
           T == Tail(Contents(ep))
<1>1. Ring(ep) /\ ep.count \in Nat
  BY RingAssumption DEF Kept, Ring, Endpoint
<1>2. Ring(q) /\ q.active
  BY <1>1, TakeRing DEF Kept
<1>3. Contents(ep) # <<>> /\ Head(Contents(ep)) = Visible(m) /\ Contents(q) = T
  BY <1>1, TakeIsTail
<1>4. m \in IpcMessage
  BY DEF Kept, Ring, Endpoint
<1>5. Visible(m).payload \in Texts /\ Visible(m).sender = m.sender
  BY <1>4, VisibleType DEF Texts
<1> HIDE DEF m
<1>6. /\ Contents(ep) \in Seq([sender : Nat, payload : Texts]) /\ Len(Contents(ep)) = ep.count
      /\ Payloads(ep) \in Seq(Texts) /\ Len(Payloads(ep)) = ep.count
      /\ \A i \in 1..ep.count : Payloads(ep)[i] = Contents(ep)[i].payload /\ Contents(ep)[i].sender = 0
  BY <1>1, PayloadsOf DEF Kept, Texts
<1>7. /\ Payloads(q) \in Seq(Texts) /\ Len(Payloads(q)) = q.count /\ Len(Contents(q)) = q.count
      /\ \A i \in 1..q.count : Payloads(q)[i] = Contents(q)[i].payload /\ Slot(q, i).sender = Contents(q)[i].sender
  BY <1>2, PayloadsOf DEF Texts
<1>8. /\ Contents(ep)[1] = Visible(m) /\ 1 \in 1..ep.count
      /\ q.count = ep.count - 1 /\ \A i \in 1..(ep.count - 1) : Contents(q)[i] = Contents(ep)[i + 1]
  BY <1>1, <1>3, <1>6, <1>7
<1>9. Payloads(ep)[1] = Visible(m).payload /\ m.sender = 0
  BY <1>5, <1>6, <1>8
<1>10. ASSUME NEW i \in 1..q.count PROVE Payloads(q)[i] = Payloads(ep)[i + 1] /\ Slot(q, i).sender = 0
  <2>1. i \in 1..(ep.count - 1) /\ i + 1 \in 1..ep.count
    BY <1>1, <1>8
  <2> QED BY <1>6, <1>7, <1>8, <2>1
<1>11. Payloads(q) = Tail(Payloads(ep))
  <2> DEFINE a == Payloads(ep)
             b == Payloads(q)
  <2>1. a \in Seq(Texts) /\ b \in Seq(Texts) /\ Len(a) = ep.count /\ Len(b) = ep.count - 1
        /\ \A i \in 1..(ep.count - 1) : b[i] = a[i + 1]
    BY <1>6, <1>7, <1>8, <1>10
  <2> HIDE DEF a, b
  <2> DEFINE t == Tail(a)
  <2>2. t \in Seq(Texts) /\ Len(t) = ep.count - 1 /\ \A i \in 1..(ep.count - 1) : t[i] = a[i + 1]
    BY <1>1, <2>1
  <2> HIDE DEF t
  <2>3. t = [i \in 1..(ep.count - 1) |-> t[i]]
    BY <2>2
  <2>4. b = [i \in 1..(ep.count - 1) |-> b[i]]
    BY <2>1
  <2>5. b = t
    BY <2>1, <2>2, <2>3, <2>4
  <2> QED BY <2>5 DEF a, b, t
<1>12. Payloads(ep) # <<>> /\ Head(Payloads(ep)) = Visible(m).payload
  BY <1>1, <1>6, <1>9
<1>13. Payloads(ep) = <<Visible(m).payload>> \o Payloads(q)
  BY <1>6, <1>11, <1>12, HeadTailProperties
<1> QED BY <1>2, <1>4, <1>5, <1>9, <1>10, <1>13 DEF Kept, m

\* A key is told from the program's messages, and can be made of its bytes.
LEMMA KeyBytes ==
  ASSUME NEW i \in 1..MaxKeys, NEW b, b = Bytes(Key(i))
  PROVE  /\ b \in Texts /\ Copied(b, 2, b) /\ Announced(b, 2)
         /\ Kind(b) = "key" /\ Decoded(b) = Key(i)
<1> DEFINE key == Key(i)
<1>1. key \in Nat /\ key < 65536 /\ key % 256 # Payload[1] /\ 2 \in 0..IPC_MAX_PAYLOAD
  BY InputAssumption, RingAssumption DEF Key
<1>2. b = <<key % 256, key \div 256>>
  BY DEF Bytes
<1> HIDE DEF key
<1>3. key % 256 \in Byte /\ key \div 256 \in Byte /\ (key % 256) + 256 * (key \div 256) = key
  BY <1>1 DEF Byte
<1>4. b \in Texts /\ b[1] = key % 256 /\ b[2] = key \div 256 /\ Len(b) = 2
  BY <1>2, <1>3 DEF Texts
<1>5. Announced(b, 2)
  BY <1>1, <1>3, <1>4 DEF Announced
<1>6. Copied(b, 2, b)
  BY <1>4 DEF Copied
<1> QED BY <1>1, <1>3, <1>4, <1>5, <1>6 DEF Kind, Decoded, key

LEMMA SentBytes ==
  ASSUME NEW n \in Lengths
  PROVE  LET p == SubSeq(Payload, 1, n)
         IN Copied(Payload, n, p) /\ Announced(Payload, n) /\ Kind(p) = "other"
<1> DEFINE p == SubSeq(Payload, 1, n)
<1>1. n \in 0..IPC_MAX_PAYLOAD /\ n \in Nat /\ Payload \in Texts /\ Len(Payload) = IPC_MAX_PAYLOAD
  BY InputAssumption, RingAssumption DEF Texts
<1>2. Announced(Payload, n)
  BY <1>1 DEF Announced, Texts
<1>3. p \in Texts /\ Len(p) = n /\ \A k \in 1..n : p[k] = Payload[k]
  BY <1>1 DEF Texts
<1>4. Kind(p) = "other"
  <2>1. n = 2 => p[1] = Payload[1]
    BY <1>3
  <2> HIDE DEF p
  <2> QED BY <1>3, <2>1 DEF Kind
<1> QED BY <1>2, <1>3, <1>4 DEF Copied

-----------------------------------------------------------------------------
(* The journey of a message.                                                *)

\* The ring as it is when ipc_receive has stored the count.
Settled == IF pc = "store" THEN [ring EXCEPT !.count = seen - 1] ELSE ring
OnHand == IF pc \in {"store", "got", "handle"} THEN <<Visible(message).payload>> ELSE <<>>
Journey == taken \o OnHand \o Payloads(Settled)

QueuesSound ==
  /\ endpoints = [id \in Kernel!Table |-> endpoints[id]]
  /\ Kept(Settled)
  /\ message \in IpcMessage /\ message.sender = 0
  /\ pc = "copy" => seen = ring.count /\ ring.count # 0
  /\ pc \in {"check", "copy", "store"} => handler = "none" /\ ~cpu.flag
  /\ typed \in 0..MaxKeys /\ kbd \in Seq(Nat)
  /\ taken \in Seq(Texts) /\ sent \in Seq(Texts)
  /\ stopped = "queue_full" => ring.count = IPC_QUEUE_CAPACITY /\ pc # "store"
  /\ stopped = "malformed" => pc = "handle" /\ ~WellFormed(message)

\* What has been told is what has been typed and sent.
Told ==
  /\ Of("other", Journey) = sent
  /\ IF stopped = "queue_full" THEN Keys(Journey) = SubSeq(Typed, 1, typed - Len(kbd) - 1)
     ELSE Keys(Journey) \o kbd = Typed

LEMMA JourneyType ==
  ASSUME QueuesSound
  PROVE  /\ Journey \in Seq(Texts) /\ Payloads(Settled) \in Seq(Texts) /\ OnHand \in Seq(Texts)
         /\ taken \o OnHand \in Seq(Texts)
         /\ OnHand = <<>> => Journey = taken \o Payloads(Settled)
         /\ Visible(message).payload \in Texts
<1>1. Payloads(Settled) \in Seq(Texts)
  BY PayloadsOf DEF QueuesSound, Kept, Texts
<1>2. Visible(message).payload \in Texts
  BY VisibleType DEF QueuesSound, Texts
<1>3. OnHand \in Seq(Texts)
  BY <1>2, EmptySeq DEF OnHand
<1>4. taken \o OnHand \in Seq(Texts) /\ (OnHand = <<>> => taken \o OnHand = taken)
  BY <1>3, ConcatProperties, ConcatEmptySeq DEF QueuesSound
<1>5. Journey \in Seq(Texts)
  BY <1>1, <1>4, ConcatProperties DEF Journey
<1> QED BY <1>1, <1>2, <1>3, <1>4, <1>5 DEF Journey

LEMMA JourneyShort ==
  ASSUME taken \in Seq(Texts), OnHand = <<>>
  PROVE  Journey = taken \o Payloads(Settled)
<1>1. taken \o <<>> = taken
  BY ConcatEmptySeq
<1> QED BY <1>1 DEF Journey

LEMMA TypedIs == ASSUME typed \in Nat PROVE Typed \in Seq(Nat) /\ Len(Typed) = typed
BY DEF Typed, Key

LEMMA KeysType ==
  ASSUME NEW s \in Seq(Texts) PROVE Keys(s) \in Seq({Decoded(x) : x \in Texts})
BY KeysFacts

\* The ways a step may change the journey.
LEMMA SameTold ==
  ASSUME Told, Journey' = Journey, UNCHANGED <<typed, kbd, sent>>, stopped # "queue_full", stopped' # "queue_full"
  PROVE  Told'
BY DEF Told, Typed

LEMMA PressTold ==
  ASSUME QueuesSound, Told, Journey' = Journey, typed' = typed + 1, kbd' = Append(kbd, Key(typed + 1)), sent' = sent,
         stopped # "queue_full", stopped' # "queue_full"
  PROVE  Told'
<1> DEFINE D == {Decoded(x) : x \in Texts} \cup Nat
           k == Keys(Journey)
<1>1. k \in Seq(D) /\ kbd \in Seq(D) /\ Key(typed + 1) \in D
  <2>1. Keys(Journey) \in Seq({Decoded(x) : x \in Texts})
    BY JourneyType, KeysType
  <2> DEFINE E == {Decoded(x) : x \in Texts}
  <2> HIDE DEF E
  <2>2. \A s \in Seq(E) : s \in Seq(E \cup Nat)
    OBVIOUS
  <2>3. \A s \in Seq(Nat) : s \in Seq(E \cup Nat)
    OBVIOUS
  <2>4. Key(typed + 1) \in Nat
    BY DEF QueuesSound, Key
  <2> QED BY <2>1, <2>2, <2>3, <2>4 DEF QueuesSound, E
<1> HIDE DEF D
<1>2. k \o Append(kbd, Key(typed + 1)) = Append(k \o kbd, Key(typed + 1))
  BY <1>1, AppendMoves
<1>3. k \o kbd = Typed
  BY DEF Told
<1>4. Typed' = Append(Typed, Key(typed + 1))
  <2>1. typed \in Nat /\ typed' = typed + 1
    BY DEF QueuesSound
  <2> DEFINE t == Typed
             u == Typed'
             a == Append(t, Key(typed + 1))
  <2>2. t \in Seq(Nat) /\ Len(t) = typed /\ Key(typed + 1) \in Nat /\ \A i \in 1..typed : t[i] = Key(i)
    BY <2>1 DEF Typed, Key
  <2>3. u = [i \in 1..(typed + 1) |-> Key(i)]
    BY <2>1 DEF Typed
  <2> HIDE DEF t, u
  <2>4. Len(a) = typed + 1 /\ a[typed + 1] = Key(typed + 1) /\ (\A i \in 1..typed : a[i] = t[i]) /\ a \in Seq(Nat)
    BY <2>2, AppendProperties
  <2> HIDE DEF a
  <2>5. \A i \in 1..(typed + 1) : a[i] = Key(i)
    <3>1. \A i \in 1..(typed + 1) : i \in 1..typed \/ i = typed + 1
      BY <2>1
    <3> QED BY <2>2, <2>4, <3>1
  <2>6. a = [i \in 1..(typed + 1) |-> a[i]]
    BY <2>4
  <2>7. a = u
    BY <2>3, <2>5, <2>6
  <2> QED BY <2>7 DEF a, t, u
<1>5. Keys(Journey)' = k
  OBVIOUS
<1>6. Of("other", Journey)' = Of("other", Journey)
  OBVIOUS
<1> QED BY <1>2, <1>3, <1>4, <1>5, <1>6 DEF Told

\* Every key in the controller has been typed.
LEMMA KeysJoin ==
  ASSUME QueuesSound, Told, stopped # "queue_full",
         NEW D, D = {Decoded(x) : x \in Texts} \cup Nat, NEW k, k = Keys(Journey)
  PROVE  /\ k \in Seq(D) /\ kbd \in Seq(D) /\ Typed \in Seq(D) /\ k \o kbd = Typed /\ Len(Typed) = typed
         /\ kbd # <<>> => \E i \in 1..MaxKeys : Head(kbd) = Key(i)
<1>1. k \in Seq(D) /\ kbd \in Seq(D) /\ Typed \in Seq(D)
  <2> DEFINE E == {Decoded(x) : x \in Texts}
  <2>1. k \in Seq(E)
    BY JourneyType, KeysType
  <2> HIDE DEF E
  <2>2. D = E \cup Nat
    BY DEF E
  <2>3. \A s \in Seq(E) : s \in Seq(D)
    BY <2>2
  <2>4. \A s \in Seq(Nat) : s \in Seq(D)
    BY <2>2
  <2>5. Typed \in Seq(Nat)
    BY TypedIs DEF QueuesSound
  <2> QED BY <2>1, <2>3, <2>4, <2>5 DEF QueuesSound
<1>2. k \o kbd = Typed
  BY DEF Told
<1>3. Len(Typed) = typed /\ typed \in 0..MaxKeys /\ MaxKeys \in Nat
  BY TypedIs, InputAssumption DEF QueuesSound
<1>4. ASSUME kbd # <<>> PROVE \E i \in 1..MaxKeys : Head(kbd) = Key(i)
  <2> DEFINE i == Len(k) + 1
  <2>1. Len(k \o kbd) = Len(k) + Len(kbd) /\ (i \in 1..Len(k \o kbd) => (k \o kbd)[i] = kbd[i - Len(k)])
    <3> HIDE DEF i
    <3>1. /\ Len(k \o kbd) = Len(k) + Len(kbd)
          /\ \A j \in 1..(Len(k) + Len(kbd)) :
               (k \o kbd)[j] = IF j <= Len(k) THEN k[j] ELSE kbd[j - Len(k)]
      BY <1>1, ConcatProperties
    <3>2. ~(i <= Len(k))
      BY <1>1 DEF i
    <3> QED BY <3>1, <3>2
  <2>2. Len(k) \in Nat /\ Len(kbd) \in Nat /\ Len(kbd) > 0 /\ Head(kbd) = kbd[1]
    BY <1>1, <1>4
  <2>3. i \in 1..typed /\ i \in 1..MaxKeys /\ i - Len(k) = 1
    BY <1>2, <1>3, <2>1, <2>2
  <2>4. Head(kbd) = Typed[i]
    BY <1>2, <1>3, <2>1, <2>2, <2>3
  <2>5. Typed[i] = Key(i)
    BY <2>3 DEF Typed
  <2> QED BY <2>3, <2>4, <2>5
<1> QED BY <1>1, <1>2, <1>3, <1>4

LEMMA KeyTold ==
  ASSUME QueuesSound, Told, kbd # <<>>, kbd' = Tail(kbd), typed' = typed, sent' = sent,
         Journey' = Append(Journey, Bytes(Head(kbd))), stopped # "queue_full", stopped' # "queue_full"
  PROVE  Told'
<1> DEFINE D == {Decoded(x) : x \in Texts} \cup Nat
           k == Keys(Journey)
           b == Bytes(Head(kbd))
<1>1. k \in Seq(D) /\ kbd \in Seq(D) /\ k \o kbd = Typed /\ \E i \in 1..MaxKeys : Head(kbd) = Key(i)
  BY KeysJoin
<1>2. b \in Texts /\ Kind(b) = "key" /\ Decoded(b) = Head(kbd)
  BY <1>1, KeyBytes
<1> HIDE DEF D, b
<1>3. Journey \in Seq(Texts)
  BY JourneyType
<1>4. Keys(Append(Journey, b)) = Append(k, Head(kbd))
  BY <1>2, <1>3, KeysFacts
<1>5. Of("other", Append(Journey, b)) = Of("other", Journey)
  BY <1>2, <1>3, OfAppend DEF Picked
<1>6. Append(k, Head(kbd)) \o Tail(kbd) = k \o kbd
  BY <1>1, HeadMoves
<1>7. Keys(Journey)' = Append(k, Head(kbd)) /\ Of("other", Journey)' = Of("other", Journey)
  BY <1>4, <1>5 DEF b
<1>8. Typed' = Typed
  BY DEF Typed
<1> QED BY <1>1, <1>6, <1>7, <1>8 DEF Told

LEMMA LostTold ==
  ASSUME QueuesSound, Told, kbd # <<>>, kbd' = Tail(kbd), typed' = typed, sent' = sent,
         Journey' = Journey, stopped # "queue_full", stopped' = "queue_full"
  PROVE  Told'
<1> DEFINE D == {Decoded(x) : x \in Texts} \cup Nat
           k == Keys(Journey)
<1>1. k \in Seq(D) /\ kbd \in Seq(D) /\ k \o kbd = Typed /\ Len(Typed) = typed /\ typed \in Nat
  <2>1. typed \in Nat
    BY DEF QueuesSound
  <2> QED BY <2>1, KeysJoin
<1> HIDE DEF D
<1>2. k = SubSeq(Typed, 1, typed - Len(kbd))
  BY <1>1, FirstPart
<1>3. Len(kbd') = Len(kbd) - 1 /\ Len(kbd) \in Nat
  BY <1>1
<1>4. typed' - Len(kbd') - 1 = typed - Len(kbd)
  BY <1>1, <1>3
<1>5. Keys(Journey)' = k /\ Of("other", Journey)' = Of("other", Journey) /\ Typed' = Typed
  BY DEF Typed
<1> QED BY <1>2, <1>4, <1>5 DEF Told

LEMMA SentTold ==
  ASSUME QueuesSound, Told, UNCHANGED <<typed, kbd>>, NEW p \in Texts, Kind(p) = "other",
         sent' = Append(sent, p), Journey' = Append(Journey, p),
         stopped # "queue_full", stopped' # "queue_full"
  PROVE  Told'
<1>1. Journey \in Seq(Texts)
  BY JourneyType
<1>2. Keys(Append(Journey, p)) = Keys(Journey)
  BY <1>1, KeysFacts
<1>3. Of("other", Append(Journey, p)) = Append(sent, p)
  BY <1>1, OfAppend DEF Picked, Told
<1>4. Typed' = Typed
  BY DEF Typed
<1> QED BY <1>2, <1>3, <1>4 DEF Told

\* A step that leaves the queue and the shell's message alone.
LEMMA Aside ==
  ASSUME QueuesSound, Told, stopped = "no", UNCHANGED <<typed, kbd, endpoints, seen, message, taken, sent>>,
         pc = "store" <=> pc' = "store",
         pc \in {"store", "got", "handle"} <=> pc' \in {"store", "got", "handle"},
         pc' = "copy" => pc = "copy",
         pc' \in {"check", "copy", "store"} => handler' = "none" /\ ~cpu'.flag,
         stopped' # "queue_full", stopped' = "malformed" => pc' = "handle" /\ ~WellFormed(message)
  PROVE  QueuesSound' /\ Told'
<1>1. Settled' = Settled /\ OnHand' = OnHand /\ ring' = ring
  BY DEF Settled, OnHand, ring
<1>2. Journey' = Journey
  BY <1>1 DEF Journey
<1>3. QueuesSound'
  <2>1. Kept(Settled)' /\ endpoints' = [id \in Kernel!Table |-> endpoints'[id]]
    BY <1>1 DEF QueuesSound
  <2>2. WellFormed(message)' = WellFormed(message)
    BY DEF WellFormed
  <2> QED BY <1>1, <2>1, <2>2 DEF QueuesSound
<1> QED BY <1>2, <1>3, SameTold

LEMMA AsideTold ==
  ASSUME QueuesSound, Told, UNCHANGED vars
  PROVE  QueuesSound' /\ Told'
<1>1. /\ UNCHANGED <<typed, kbd, endpoints, seen, message, taken, sent, pc, stopped, handler, cpu>>
  BY DEF vars, devices, shell, program, trap
<1>2. ring' = ring /\ Typed' = Typed
  BY <1>1 DEF Typed, ring
<1>3. Settled' = Settled /\ OnHand' = OnHand
  BY <1>1, <1>2 DEF Settled, OnHand
<1>4. Journey' = Journey /\ Kept(Settled)' /\ WellFormed(message)' = WellFormed(message)
  BY <1>1, <1>3 DEF Journey, QueuesSound, WellFormed
<1>5. endpoints' = [id \in Kernel!Table |-> endpoints'[id]]
  BY <1>1 DEF QueuesSound
<1>6. QueuesSound'
  BY <1>1, <1>2, <1>4, <1>5 DEF QueuesSound
<1>7. Told'
  BY <1>1, <1>2, <1>4 DEF Told
<1> QED BY <1>6, <1>7

-----------------------------------------------------------------------------
(* The devices and the handlers.                                            *)

LEMMA PressSound ==
  ASSUME QueuesSound, Told, Press
  PROVE  QueuesSound' /\ Told'
<1>1. /\ stopped = "no" /\ typed < MaxKeys /\ typed' = typed + 1 /\ kbd' = Append(kbd, Key(typed + 1))
      /\ UNCHANGED <<endpoints, seen, message, taken, sent, pc, stopped, handler, cpu>>
  BY DEF Press, shell, program, trap
<1>2. ring' = ring /\ Settled' = Settled /\ OnHand' = OnHand
  BY <1>1 DEF Settled, OnHand, ring
<1>3. Journey' = Journey /\ WellFormed(message)' = WellFormed(message)
  BY <1>1, <1>2 DEF Journey, WellFormed
<1>4. Told'
  BY <1>1, <1>3, PressTold
<1>5. Kept(Settled)' /\ endpoints' = [id \in Kernel!Table |-> endpoints'[id]]
  BY <1>1, <1>2 DEF QueuesSound
<1>6. typed' \in 0..MaxKeys /\ kbd' \in Seq(Nat)
  BY <1>1, InputAssumption DEF QueuesSound, Key
<1>7. QueuesSound'
  BY <1>1, <1>2, <1>3, <1>5, <1>6 DEF QueuesSound
<1> QED BY <1>4, <1>7

LEMMA OneChanged ==
  ASSUME NEW T, NEW f, f = [i \in T |-> f[i]], NEW k \in T, NEW new, NEW g, g = [f EXCEPT ![k] = new]
  PROVE  g[k] = new /\ g = [i \in T |-> g[i]] /\ \A i \in T \ {k} : g[i] = f[i]
OBVIOUS

LEMMA RingChanged ==
  ASSUME QueuesSound, NEW new, endpoints' = [endpoints EXCEPT ![KEYBOARD_ENDPOINT] = new]
  PROVE  ring' = new /\ endpoints' = [id \in Kernel!Table |-> endpoints'[id]]
<1>1. KEYBOARD_ENDPOINT \in Kernel!Table
  BY InputAssumption DEF KEYBOARD_ENDPOINT, Kernel!Table
<1>2. endpoints = [id \in Kernel!Table |-> endpoints[id]]
  BY DEF QueuesSound
<1>3. endpoints'[KEYBOARD_ENDPOINT] = new /\ endpoints' = [id \in Kernel!Table |-> endpoints'[id]]
  BY <1>1, <1>2, OneChanged
<1> QED BY <1>3 DEF ring

LEMMA KeyboardSound ==
  ASSUME QueuesSound, Told, KeyboardHandler
  PROVE  QueuesSound' /\ Told'
<1> DEFINE b == Bytes(Head(kbd))
           put == Put(ring, 0, b, 2)
<1>1. /\ stopped = "no" /\ handler # "none" /\ kbd # <<>> /\ kbd' = Tail(kbd)
      /\ UNCHANGED <<typed, seen, message, taken, sent, pc>>
  BY DEF KeyboardHandler, Handles, In, KeyReady, shell, program
<1>2. pc \notin {"check", "copy", "store"} /\ OnHand' = OnHand /\ pc' # "store"
  BY <1>1 DEF QueuesSound, OnHand
<1>3. Settled = ring /\ Settled' = ring' /\ Kept(ring)
  BY <1>2 DEF Settled, QueuesSound
<1>4. kbd' \in Seq(Nat) /\ WellFormed(message)' = WellFormed(message)
  BY <1>1 DEF QueuesSound, WellFormed
<1>5. CASE IsFull(ring)
  <2>1. stopped' = "queue_full" /\ endpoints' = endpoints
    BY <1>5 DEF KeyboardHandler
  <2>2. ring' = ring /\ Settled' = Settled
    BY <1>3, <2>1 DEF ring
  <2>3. Journey' = Journey
    BY <1>1, <1>2, <2>2 DEF Journey
  <2>4. Told'
    BY <1>1, <2>1, <2>3, LostTold
  <2>5. Kept(Settled)' /\ endpoints' = [id \in Kernel!Table |-> endpoints'[id]]
    BY <2>1, <2>2 DEF QueuesSound
  <2>6. QueuesSound'
    BY <1>1, <1>2, <1>4, <1>5, <2>1, <2>2, <2>5 DEF QueuesSound, IsFull
  <2> QED BY <2>4, <2>6
<1>6. CASE ~IsFull(ring)
  <2>1. endpoints' = [endpoints EXCEPT ![KEYBOARD_ENDPOINT] = put] /\ stopped' = stopped
    BY <1>1, <1>6 DEF KeyboardHandler, ring
  <2>2. \E i \in 1..MaxKeys : Head(kbd) = Key(i)
    <3> DEFINE D == {Decoded(x) : x \in Texts} \cup Nat
    <3> QED BY <1>1, KeysJoin
  <2>3. b \in Texts /\ Copied(b, 2, b) /\ Announced(b, 2)
    BY <2>2, KeyBytes
  <2> HIDE DEF b
  <2>4. ring.count # IPC_QUEUE_CAPACITY
    BY <1>6 DEF IsFull
  <2>5. Kept(put) /\ Payloads(put) = Append(Payloads(ring), b)
    <3> DEFINE q == put
    <3>1. q = Put(ring, 0, b, 2)
      OBVIOUS
    <3> HIDE DEF q
    <3>2. Kept(q) /\ Payloads(q) = Append(Payloads(ring), b)
      BY <1>3, <2>3, <2>4, <3>1, KeptPut
    <3> QED BY <3>2 DEF q
  <2> HIDE DEF put
  <2>6. ring' = put /\ endpoints' = [id \in Kernel!Table |-> endpoints'[id]]
    BY <2>1, RingChanged
  <2>7. Journey' = Append(Journey, b)
    <3>1. Journey = (taken \o OnHand) \o Payloads(ring) /\ Journey' = (taken \o OnHand) \o Payloads(put)
      BY <1>1, <1>2, <1>3, <2>6 DEF Journey
    <3>2. taken \o OnHand \in Seq(Texts) /\ Payloads(ring) \in Seq(Texts)
      BY <1>3, JourneyType
    <3> QED BY <2>3, <2>5, <3>1, <3>2, AppendMoves
  <2>8. Told'
    BY <1>1, <2>1, <2>7, KeyTold DEF b
  <2>9. QueuesSound'
    <3>1. Kept(Settled)'
      BY <1>3, <2>5, <2>6
    <3> QED BY <1>1, <1>2, <1>4, <2>1, <2>6, <3>1 DEF QueuesSound
  <2> QED BY <2>8, <2>9
<1> QED BY <1>5, <1>6

LEMMA HandlerSound ==
  ASSUME RunInv, QueuesSound, Told, HandlerStep
  PROVE  QueuesSound' /\ Told'
<1>1. CASE KeyboardHandler
  BY <1>1, KeyboardSound
<1>2. CASE HandlerStep /\ ~KeyboardHandler
  <2>1. /\ stopped = "no" /\ stopped' = stopped /\ handler # "none"
        /\ UNCHANGED <<typed, kbd, endpoints, seen, message, taken, sent>>
    BY <1>2 DEF HandlerStep, Acknowledge, TimerHandler, NothingToRead, LeaveHandler, Handles, In, devices, shell, program
  <2>2. pc' = pc
    BY <1>2, LeaveRuns DEF HandlerStep, Acknowledge, TimerHandler, NothingToRead
  <2>3. pc \notin {"check", "copy", "store"}
    BY <2>1 DEF QueuesSound
  <2> QED BY <2>1, <2>2, <2>3, Aside
<1> QED BY <1>1, <1>2

LEMMA DeviceSound ==
  ASSUME RunInv, QueuesSound, Told, Press \/ PressEarly \/ Tick \/ (\E line \in Lines : Deliver(line))
  PROVE  QueuesSound' /\ Told'
<1>1. CASE PressEarly \/ Tick
  <2>1. /\ stopped = "no" /\ UNCHANGED <<typed, kbd, endpoints, seen, message, taken, sent, pc, stopped, handler, cpu>>
    BY <1>1 DEF PressEarly, Tick, devices, shell, program, trap
  <2>2. pc' \in {"check", "copy", "store"} => handler' = "none" /\ ~cpu'.flag
    BY <2>1 DEF QueuesSound
  <2> QED BY <2>1, <2>2, Aside
<1>2. CASE \E line \in Lines : Deliver(line)
  <2>1. /\ stopped = "no" /\ cpu.flag /\ UNCHANGED <<typed, kbd, endpoints, seen, message, taken, sent, stopped>>
        /\ pc' = IF pc = "asleep" THEN "poll" ELSE pc
    BY <1>2 DEF Deliver, shell, program
  <2>2. pc \notin {"check", "copy", "store"}
    BY <2>1 DEF QueuesSound
  <2> QED BY <2>1, <2>2, Aside
<1> QED BY <1>1, <1>2, PressSound

-----------------------------------------------------------------------------
(* The thread.                                                              *)

LEMMA StartSound ==
  ASSUME RunInv, QueuesSound, Told,
         SetUpKeyboard \/ EnableForInit \/ NoInitProgram \/ PrepareJump \/ LeaveStack \/ EnterProgram \/ ExitCall
  PROVE  QueuesSound' /\ Told'
<1>1. /\ stopped = "no" /\ UNCHANGED <<typed, kbd, endpoints, seen, message, taken, sent>>
      /\ handler = "none" /\ stopped' \notin {"queue_full", "malformed"}
  BY DEF SetUpKeyboard, EnableForInit, NoInitProgram, PrepareJump, LeaveStack, EnterProgram, ExitCall,
         Go, Stay, Moves, World, Elsewhere, devices, shell, program
<1>2. pc \in {"setup", "boot", "init", "jump", "iretd", "user"}
  BY DEF SetUpKeyboard, EnableForInit, NoInitProgram, PrepareJump, LeaveStack, EnterProgram, ExitCall,
         Go, Stay, Moves
<1>3. pc' \in {"setup", "boot", "init", "jump", "iretd", "user", "booted"}
  <2>1. CASE EnterProgram
    <3>1. handler = "none" /\ pc = "iretd" /\ pc' = ReturnPlace(cpu)
      BY <2>1 DEF EnterProgram, Moves
    <3> QED BY <3>1, UserEntered DEF RunInv, Sound
  <2>2. CASE ~EnterProgram
    BY <2>2 DEF SetUpKeyboard, EnableForInit, NoInitProgram, PrepareJump, LeaveStack, ExitCall,
         Go, Stay, Moves
  <2> QED BY <2>1, <2>2
<1> QED BY <1>1, <1>2, <1>3, Aside

\* The program runs while the shell holds no message.
LEMMA UserPlace ==
  ASSUME QueuesSound, pc = "user", pc' = pc
  PROVE  /\ OnHand = <<>> /\ OnHand' = <<>> /\ Settled = ring /\ Settled' = ring' /\ Kept(ring)
         /\ Journey = taken \o Payloads(ring) /\ (taken' \in Seq(Texts) => Journey' = taken' \o Payloads(ring'))
<1>1. OnHand = <<>> /\ OnHand' = <<>> /\ Settled = ring /\ Settled' = ring' /\ Kept(ring)
  BY DEF OnHand, Settled, QueuesSound
<1>2. taken \in Seq(Texts) /\ \A s \in Seq(Texts) : s \o <<>> = s
  BY ConcatEmptySeq DEF QueuesSound
<1> QED BY <1>1, <1>2 DEF Journey

\* What a system call of the program does to the queue.
LEMMA CallSound ==
  ASSUME QueuesSound, Told, stopped = "no", stopped' = "no", pc = "user", pc' = pc,
         UNCHANGED <<typed, kbd, seen, message>>,
         endpoints' = [id \in Kernel!Table |-> endpoints'[id]], Kept(ring'),
         taken' \in Seq(Texts), sent' \in Seq(Texts), Told'
  PROVE  QueuesSound'
<1>1. Kept(Settled)'
  BY UserPlace
<1> QED BY <1>1 DEF QueuesSound

LEMMA CreateSound ==
  ASSUME QueuesSound, Told, CreateCall, pc' = pc
  PROVE  QueuesSound' /\ Told'
<1>1. /\ stopped = "no" /\ stopped' = stopped /\ pc = "user" /\ UNCHANGED <<typed, kbd, seen, message, taken, sent>>
  BY DEF CreateCall, UserCall, Moves, World, devices
<1>2. CASE Kernel!CreateFails
  <2>1. endpoints' = endpoints
    BY <1>2 DEF Kernel!CreateFails
  <2> QED BY <1>1, <2>1, Aside
<1>3. CASE Kernel!ipc_endpoint_create
  <2>1. PICK id \in Kernel!Table : /\ Kernel!LowestUnused(id)
                                   /\ endpoints' = [endpoints EXCEPT ![id].active = TRUE]
    BY <1>3 DEF Kernel!ipc_endpoint_create
  <2>2. id # KEYBOARD_ENDPOINT
    <3>1. ring.active
      BY <1>1, UserPlace DEF Kept
    <3> QED BY <2>1, <3>1 DEF Kernel!LowestUnused, Kernel!Unused, ring
  <2>3. /\ KEYBOARD_ENDPOINT \in Kernel!Table
        /\ endpoints = [i \in Kernel!Table |-> endpoints[i]]
    BY InputAssumption DEF QueuesSound, KEYBOARD_ENDPOINT, Kernel!Table
  <2>4. /\ endpoints' = [i \in Kernel!Table |-> endpoints'[i]]
        /\ endpoints'[KEYBOARD_ENDPOINT] = endpoints[KEYBOARD_ENDPOINT]
    <3> DEFINE new == [endpoints[id] EXCEPT !.active = TRUE]
    <3>1. endpoints' = [endpoints EXCEPT ![id] = new]
      BY <2>1
    <3> HIDE DEF new
    <3> QED BY <2>2, <2>3, <3>1, OneChanged
  <2>5. ring' = ring
    BY <2>4 DEF ring
  <2>6. Journey' = Journey /\ Kept(ring')
    BY <1>1, <2>5, UserPlace DEF QueuesSound
  <2>7. Told'
    BY <1>1, <2>6, SameTold
  <2>8. taken' \in Seq(Texts) /\ sent' \in Seq(Texts)
    BY <1>1 DEF QueuesSound
  <2> QED BY <1>1, <2>4, <2>6, <2>7, <2>8, CallSound
<1> QED BY <1>2, <1>3 DEF CreateCall

LEMMA SendSound ==
  ASSUME QueuesSound, Told, SendCall, pc' = pc
  PROVE  QueuesSound' /\ Told'
<1>1. /\ stopped = "no" /\ stopped' = stopped /\ pc = "user" /\ UNCHANGED <<typed, kbd, seen, message, taken>>
  BY DEF SendCall, UserCall, Moves, World, devices
<1>2. PICK n \in Lengths : /\ Kernel!ipc_send(KEYBOARD_ENDPOINT, 0, Payload, n)
                           /\ sent' = IF reply'.status = "Ok" THEN Append(sent, SubSeq(Payload, 1, n)) ELSE sent
  BY DEF SendCall
<1> DEFINE status == Kernel!SendStatus(KEYBOARD_ENDPOINT, Payload, n)
           p == SubSeq(Payload, 1, n)
           put == Put(ring, 0, Payload, n)
<1>3. reply'.status = status
  BY <1>2 DEF Kernel!ipc_send, Kernel!Answer
<1>4. CASE status # "Ok"
  <2>1. endpoints' = endpoints /\ sent' = sent
    BY <1>2, <1>3, <1>4 DEF Kernel!ipc_send
  <2> QED BY <1>1, <2>1, Aside
<1>5. CASE status = "Ok"
  <2>1. endpoints' = [endpoints EXCEPT ![KEYBOARD_ENDPOINT] = put] /\ sent' = Append(sent, p)
    BY <1>2, <1>3, <1>5 DEF Kernel!ipc_send, Kernel!Put, Kernel!Written, Put, Written, ring
  <2>2. ring.count # IPC_QUEUE_CAPACITY
    BY <1>5 DEF Kernel!SendStatus, Kernel!IsFull, ring
  <2>3. Copied(Payload, n, p) /\ Announced(Payload, n) /\ Kind(p) = "other"
    BY SentBytes
  <2> HIDE DEF p
  <2>4. p \in Texts
    BY <2>3 DEF Copied
  <2>5. Kept(ring)
    BY <1>1, UserPlace
  <2>6. Kept(put) /\ Payloads(put) = Append(Payloads(ring), p)
    <3> DEFINE q == put
    <3>1. q = Put(ring, 0, Payload, n)
      OBVIOUS
    <3> HIDE DEF q
    <3>2. Kept(q) /\ Payloads(q) = Append(Payloads(ring), p)
      BY <2>2, <2>3, <2>5, <3>1, KeptPut
    <3> QED BY <3>2 DEF q
  <2> HIDE DEF put
  <2>7. ring' = put /\ endpoints' = [id \in Kernel!Table |-> endpoints'[id]]
    BY <2>1, RingChanged
  <2>8. Journey' = Append(Journey, p)
    <3>1. taken \in Seq(Texts)
      BY DEF QueuesSound
    <3>2. Journey = taken \o Payloads(ring) /\ Journey' = taken \o Payloads(put)
      BY <1>1, <2>7, <3>1, UserPlace
    <3>3. Payloads(ring) \in Seq(Texts)
      BY <2>5, PayloadsOf DEF Kept, Texts
    <3> QED BY <2>4, <2>6, <3>1, <3>2, <3>3, AppendMoves
  <2>9. Told'
    BY <1>1, <2>1, <2>3, <2>4, <2>8, SentTold
  <2>10. taken' \in Seq(Texts) /\ sent' \in Seq(Texts)
    BY <1>1, <2>1, <2>4 DEF QueuesSound
  <2> QED BY <1>1, <2>6, <2>7, <2>9, <2>10, CallSound
<1> QED BY <1>4, <1>5

LEMMA ReceiveSound ==
  ASSUME QueuesSound, Told, ReceiveCall, pc' = pc
  PROVE  QueuesSound' /\ Told'
<1>1. /\ stopped = "no" /\ stopped' = stopped /\ pc = "user" /\ UNCHANGED <<typed, kbd, seen, message, sent>>
  BY DEF ReceiveCall, UserCall, Moves, World, devices
<1> DEFINE status == Kernel!ReceiveStatus(KEYBOARD_ENDPOINT)
           take == Take(ring)
           m == ring.messages[ring.head]
           p == Visible(m).payload
<1>2. CASE status # "Ok"
  <2>1. endpoints' = endpoints /\ reply'.status = status
    BY <1>2 DEF ReceiveCall, Kernel!ipc_receive, Kernel!Short, Kernel!Answer
  <2>2. taken' = taken
    BY <1>2, <2>1 DEF ReceiveCall
  <2> QED BY <1>1, <2>1, <2>2, Aside
<1>3. CASE status = "Ok"
  <2>1. /\ endpoints' = [endpoints EXCEPT ![KEYBOARD_ENDPOINT] = take]
        /\ reply'.status = "Ok" /\ reply'.got = <<m>>
    BY <1>3 DEF ReceiveCall, Kernel!ipc_receive, Kernel!Short, Kernel!Answer, Kernel!Take, Take, ring
  <2>2. taken' = Append(taken, p)
    BY <2>1 DEF ReceiveCall
  <2>3. ring.count # 0
    BY <1>3 DEF Kernel!ReceiveStatus, ring
  <2>4. Kept(ring)
    BY <1>1, UserPlace
  <2>5. Kept(take) /\ p \in Texts /\ Payloads(ring) = <<p>> \o Payloads(take)
    BY <2>3, <2>4, KeptTake
  <2> HIDE DEF take, p
  <2>6. ring' = take /\ endpoints' = [id \in Kernel!Table |-> endpoints'[id]]
    BY <2>1, RingChanged
  <2>7. taken \in Seq(Texts) /\ taken' \in Seq(Texts) /\ sent' \in Seq(Texts)
    BY <1>1, <2>2, <2>5 DEF QueuesSound
  <2>8. Journey' = Journey
    <3>1. Journey = taken \o Payloads(ring) /\ Journey' = Append(taken, p) \o Payloads(take)
      BY <1>1, <2>2, <2>6, <2>7, UserPlace
    <3> DEFINE q == Payloads(take)
    <3>2. q \in Seq(Texts)
      BY <2>5, PayloadsOf DEF Kept, Texts
    <3>3. Payloads(ring) = <<p>> \o q /\ Journey' = Append(taken, p) \o q
      BY <2>5, <3>1
    <3> HIDE DEF q
    <3>4. Append(taken, p) \o q = taken \o (<<p>> \o q)
      <4>1. taken \in Seq(Texts) /\ p \in Texts
        BY <2>5, <2>7
      <4> QED BY <3>2, <4>1, TextMoves
    <3> QED BY <3>1, <3>3, <3>4
  <2>9. Told'
    BY <1>1, <2>8, SameTold
  <2> QED BY <1>1, <2>5, <2>6, <2>7, <2>9, CallSound
<1> QED BY <1>2, <1>3

LEMMA ProgramSound ==
  ASSUME RunInv, QueuesSound, Told, Calls
  PROVE  QueuesSound' /\ Told'
<1>1. pc' = pc
  BY ProgramRuns
<1>2. CASE PlainCall
  <2>1. /\ stopped = "no" /\ pc = "user" /\ UNCHANGED <<typed, kbd, endpoints, seen, message, taken, sent, stopped>>
    BY <1>2 DEF PlainCall, UserCall, Moves, World, devices
  <2> QED BY <1>1, <2>1, Aside
<1>3. CASE PowerCall \/ Fault
  <2>1. /\ stopped = "no" /\ pc = "user" /\ UNCHANGED <<typed, kbd, endpoints, seen, message, taken, sent>>
        /\ stopped' \notin {"queue_full", "malformed"}
    BY <1>3 DEF PowerCall, Fault, Stop, Stay, Moves, World, devices, shell, program, PanicReason
  <2> QED BY <1>1, <2>1, Aside
<1> QED BY <1>1, <1>2, <1>3, CreateSound, SendSound, ReceiveSound DEF Calls

\* Steps of the shell that leave the queue and the message alone.
LEMMA ShellAside ==
  ASSUME RunInv, QueuesSound, Told,
         \/ EnableForShell \/ DisableToReceive \/ ReceiveEmpty \/ EnableAndReturn \/ Halt \/ EnableAndHandle
         \/ RefuseMessage \/ ReadTicks \/ ShowUptime
  PROVE  QueuesSound' /\ Told'
<1>1. /\ stopped = "no" /\ handler = "none" /\ handler' = "none"
      /\ UNCHANGED <<typed, kbd, endpoints, seen, message, taken, sent>>
  BY DEF EnableForShell, DisableToReceive, ReceiveEmpty, EnableAndReturn, Halt, EnableAndHandle,
         RefuseMessage, ReadTicks, ShowUptime, Stop, Go, Stay, Moves, World, Elsewhere, devices, shell, program
<1>2. CASE DisableToReceive
  <2>1. cpu' = [cpu EXCEPT !.flag = FALSE] /\ pc = "poll" /\ pc' = "check" /\ stopped' = "no"
    BY <1>2 DEF DisableToReceive, Go, Moves, ReceiveFlag, Elsewhere
  <2>2. ~cpu'.flag
    BY <1>1, <2>1 DEF RunInv, Sound, Processors
  <2> QED BY <1>1, <2>1, <2>2, Aside
<1>3. CASE RefuseMessage
  <2>1. pc = "handle" /\ pc' = "handle" /\ stopped' = "malformed" /\ ~WellFormed(message)
    BY <1>3 DEF RefuseMessage, Stop, Stay, Moves
  <2> QED BY <1>1, <2>1, Aside
<1>4. CASE ~(DisableToReceive \/ RefuseMessage)
  <2>1. /\ stopped' = "no" /\ pc' \notin {"check", "copy", "store"} /\ pc # "store"
        /\ pc \in {"got", "handle"} <=> pc' \in {"got", "handle"}
    BY <1>4 DEF EnableForShell, ReceiveEmpty, EnableAndReturn, Halt, EnableAndHandle,
                ReadTicks, ShowUptime, Go, Stay, Moves, Elsewhere
  <2> QED BY <1>1, <2>1, Aside
<1> QED BY <1>2, <1>3, <1>4

LEMMA CheckSound ==
  ASSUME QueuesSound, Told, ReceiveCheck
  PROVE  QueuesSound' /\ Told'
<1>1. /\ stopped = "no" /\ stopped' = "no" /\ pc = "check" /\ pc' = "copy" /\ handler' = handler /\ cpu' = cpu
      /\ UNCHANGED <<typed, kbd, endpoints, message, taken, sent>>
      /\ ring.count # 0 /\ seen' = ring.count
  BY DEF ReceiveCheck, Stay, Moves, World, devices, program
<1>2. ring' = ring /\ Settled = ring /\ Settled' = ring' /\ OnHand' = OnHand
  BY <1>1 DEF Settled, OnHand, ring
<1>3. Journey' = Journey /\ Kept(Settled)' /\ handler = "none" /\ ~cpu.flag
  BY <1>1, <1>2 DEF Journey, QueuesSound
<1>4. endpoints' = [id \in Kernel!Table |-> endpoints'[id]]
  BY <1>1 DEF QueuesSound
<1>5. QueuesSound'
  BY <1>1, <1>2, <1>3, <1>4 DEF QueuesSound
<1> QED BY <1>1, <1>3, <1>5, SameTold

LEMMA CopySound ==
  ASSUME QueuesSound, Told, ReceiveCopy
  PROVE  QueuesSound' /\ Told'
<1> DEFINE m == ring.messages[ring.head]
           p == Visible(m).payload
           new == [ring EXCEPT !.head = (ring.head + 1) % IPC_QUEUE_CAPACITY]
           take == Take(ring)
<1>1. /\ stopped = "no" /\ stopped' = "no" /\ pc = "copy" /\ pc' = "store" /\ handler' = handler /\ cpu' = cpu
      /\ UNCHANGED <<typed, kbd, seen, taken, sent>>
      /\ message' = m /\ endpoints' = [endpoints EXCEPT ![KEYBOARD_ENDPOINT] = new]
  BY DEF ReceiveCopy, Stay, Moves, World, devices, program, ring
<1>2. ring' = new /\ endpoints' = [id \in Kernel!Table |-> endpoints'[id]]
  BY <1>1, RingChanged
<1>3. seen = ring.count /\ ring.count # 0 /\ handler = "none" /\ ~cpu.flag
  BY <1>1 DEF QueuesSound
<1>4. Settled = ring /\ OnHand = <<>> /\ OnHand' = <<p>>
  BY <1>1 DEF Settled, OnHand
<1>5. Kept(ring)
  BY <1>4 DEF QueuesSound
<1>6. Settled' = take
  <2>1. Settled' = [new EXCEPT !.count = ring.count - 1]
    BY <1>1, <1>2, <1>3 DEF Settled
  <2>2. ring \in Endpoint
    BY <1>5 DEF Kept, Ring
  <2> QED BY <2>1, <2>2 DEF Take, Endpoint
<1>7. Kept(take) /\ m \in IpcMessage /\ m.sender = 0 /\ p \in Texts /\ Payloads(ring) = <<p>> \o Payloads(take)
  BY <1>3, <1>5, KeptTake
<1> HIDE DEF take, p, new
<1>8. Journey' = Journey
  <2>1. taken \in Seq(Texts)
    BY DEF QueuesSound
  <2>2. Journey = taken \o Payloads(ring)
    BY <1>4, <2>1, JourneyShort
  <2> DEFINE q == Payloads(take)
  <2>3. q \in Seq(Texts)
    BY <1>7, PayloadsOf DEF Kept, Texts
  <2>4. Payloads(ring) = <<p>> \o q /\ Journey' = (taken \o <<p>>) \o q
    BY <1>1, <1>4, <1>6, <1>7 DEF Journey
  <2> HIDE DEF q
  <2>5. (taken \o <<p>>) \o q = taken \o (<<p>> \o q)
    BY <1>7, <2>1, <2>3, TextMoves
  <2> QED BY <2>2, <2>4, <2>5
<1>9. QueuesSound'
  <2>1. Kept(Settled)' /\ message' \in IpcMessage /\ message'.sender = 0
    BY <1>1, <1>6, <1>7
  <2> QED BY <1>1, <1>2, <1>3, <2>1 DEF QueuesSound
<1> QED BY <1>1, <1>8, <1>9, SameTold

LEMMA StoreSound ==
  ASSUME QueuesSound, Told, ReceiveStore
  PROVE  QueuesSound' /\ Told'
<1> DEFINE new == [ring EXCEPT !.count = seen - 1]
<1>1. /\ stopped = "no" /\ stopped' = "no" /\ pc = "store" /\ pc' = "got"
      /\ UNCHANGED <<typed, kbd, seen, message, taken, sent>>
      /\ endpoints' = [endpoints EXCEPT ![KEYBOARD_ENDPOINT] = new]
  BY DEF ReceiveStore, Stay, Moves, World, devices, program, shell, ring
<1>2. ring' = new /\ endpoints' = [id \in Kernel!Table |-> endpoints'[id]]
  BY <1>1, RingChanged
<1>3. Settled' = Settled /\ OnHand' = OnHand
  BY <1>1, <1>2 DEF Settled, OnHand
<1>4. Journey' = Journey /\ Kept(Settled)'
  BY <1>1, <1>3 DEF Journey, QueuesSound
<1>5. QueuesSound'
  BY <1>1, <1>2, <1>4 DEF QueuesSound
<1> QED BY <1>1, <1>4, <1>5, SameTold

LEMMA HandleSound ==
  ASSUME QueuesSound, Told, HandleKey
  PROVE  QueuesSound' /\ Told'
<1> DEFINE p == Visible(message).payload
<1>1. /\ stopped = "no" /\ stopped' \notin {"queue_full", "malformed"} /\ pc = "handle" /\ pc' \in {"poll", "uptime"}
      /\ UNCHANGED <<typed, kbd, endpoints, sent>>
      /\ message' = EMPTY_MESSAGE /\ taken' = Append(taken, p)
  BY DEF HandleKey, Used, Go, Stay, Moves, World, devices, program
<1>2. ring' = ring /\ Settled = ring /\ Settled' = ring /\ OnHand = <<p>> /\ OnHand' = <<>>
  BY <1>1 DEF Settled, OnHand, ring
<1>3. Kept(ring) /\ p \in Texts /\ taken \in Seq(Texts)
  <2>1. p \in Texts
    BY JourneyType
  <2> QED BY <1>2, <2>1 DEF QueuesSound
<1> HIDE DEF p
<1>4. taken' \in Seq(Texts)
  BY <1>1, <1>3
<1>5. Journey' = Journey
  <2> DEFINE q == Payloads(ring)
  <2>1. q \in Seq(Texts)
    BY <1>3, PayloadsOf DEF Kept, Texts
  <2>2. Journey = (taken \o <<p>>) \o q
    BY <1>2 DEF Journey
  <2>3. Journey' = taken' \o q
    <3>1. taken' \o <<>> = taken'
      BY <1>4, ConcatEmptySeq
    <3> QED BY <1>2, <3>1 DEF Journey
  <2> HIDE DEF q
  <2>4. Append(taken, p) \o q = (taken \o <<p>>) \o q
    BY <1>3, <2>1, TextMoves
  <2> QED BY <1>1, <2>2, <2>3, <2>4
<1>6. EMPTY_MESSAGE \in IpcMessage /\ EMPTY_MESSAGE.sender = 0
  BY RingAssumption DEF EMPTY_MESSAGE, IpcMessage, Byte
<1>7. Kept(Settled)' /\ endpoints' = [id \in Kernel!Table |-> endpoints'[id]]
  BY <1>1, <1>2, <1>3 DEF QueuesSound
<1>8. QueuesSound'
  BY <1>1, <1>4, <1>6, <1>7 DEF QueuesSound
<1> QED BY <1>1, <1>5, <1>8, SameTold

LEMMA StepTold == RunInv /\ QueuesSound /\ Told /\ [Next]_vars => QueuesSound' /\ Told'
<1> SUFFICES ASSUME RunInv, QueuesSound, Told, [Next]_vars PROVE QueuesSound' /\ Told'
  OBVIOUS
<1>1. CASE UNCHANGED vars
  BY <1>1, AsideTold
<1>2. CASE Press \/ PressEarly \/ Tick \/ (\E line \in Lines : Deliver(line))
  BY <1>2, DeviceSound
<1>3. CASE HandlerStep
  BY <1>3, HandlerSound
<1>4. CASE Calls
  BY <1>4, ProgramSound
<1>5. CASE Thread
  BY <1>5, StartSound, ShellAside, CheckSound, CopySound, StoreSound, HandleSound DEF Thread, Shell
<1>6. CASE Halted
  BY <1>1, <1>6 DEF Halted
<1> QED BY <1>1, <1>2, <1>3, <1>4, <1>5, <1>6 DEF Next

LEMMA InitTold == Init => QueuesSound /\ Told
<1> SUFFICES ASSUME Init PROVE QueuesSound /\ Told
  OBVIOUS
<1>1. /\ typed = 0 /\ kbd = <<>> /\ taken = <<>> /\ sent = <<>> /\ pc = "setup" /\ stopped = "no"
      /\ message = EMPTY_MESSAGE /\ endpoints = [id \in Kernel!Table |-> endpoints[id]]
      /\ ring = [NewEndpoint EXCEPT !.active = TRUE]
  <2>1. KEYBOARD_ENDPOINT \in Kernel!Table
    BY InputAssumption DEF KEYBOARD_ENDPOINT, Kernel!Table
  <2> QED BY <2>1 DEF Init, ring
<1>2. Settled = ring /\ OnHand = <<>> /\ ring.count = 0 /\ Kept(ring)
  <2>1. \A i \in 1..0 : Slot(ring, i).sender = 0
    OBVIOUS
  <2> QED BY <1>1, <2>1, FreshRing DEF Settled, OnHand, Kept
<1>3. Journey = <<>>
  <2>1. Payloads(ring) = <<>>
    BY <1>2 DEF Payloads
  <2>2. <<>> \o <<>> = <<>>
    BY EmptySeq, ConcatEmptySeq
  <2> QED BY <1>1, <1>2, <2>1, <2>2 DEF Journey
<1>4. QueuesSound
  <2>1. EMPTY_MESSAGE \in IpcMessage /\ EMPTY_MESSAGE.sender = 0
    BY RingAssumption DEF EMPTY_MESSAGE, IpcMessage, Byte
  <2>2. <<>> \in Seq(Texts) /\ <<>> \in Seq(Nat) /\ 0 \in 0..MaxKeys
    BY EmptySeq, InputAssumption
  <2>3. Kept(Settled)
    BY <1>2
  <2> QED BY <1>1, <2>1, <2>2, <2>3 DEF QueuesSound
<1>5. Told
  <2>1. Of("other", <<>>) = <<>> /\ Of("key", <<>>) = <<>>
    BY OfNone
  <2>2. Keys(<<>>) = <<>>
    BY <2>1 DEF Keys
  <2>3. Typed = <<>> /\ <<>> \o <<>> = <<>>
    BY <1>1, EmptySeq, ConcatEmptySeq DEF Typed
  <2> QED BY <1>1, <1>3, <2>1, <2>2, <2>3 DEF Told
<1> QED BY <1>4, <1>5

LEMMA ToldInOrder == QueuesSound /\ Told => KeysInOrder
<1> SUFFICES ASSUME QueuesSound, Told PROVE KeysInOrder
  OBVIOUS
<1>1. ASSUME stopped = "malformed"
      PROVE  Visible(message).payload \in {sent[i] : i \in 1..Len(sent)}
  <2> DEFINE p == Visible(message).payload
             n == Len(taken) + 1
  <2>1. pc = "handle" /\ ~WellFormed(message) /\ message \in IpcMessage /\ message.sender = 0
    BY <1>1 DEF QueuesSound
  <2>2. Len(p) # 2 /\ p \in Texts
    <3>1. Len(p) = message.length
      BY <2>1, VisibleType
    <3>2. message.length # 2
      BY <2>1 DEF WellFormed
    <3> QED BY <3>1, <3>2, JourneyType
  <2>3. Kind(p) = "other"
    BY <2>2 DEF Kind
  <2> HIDE DEF p
  <2>4. Journey \in Seq(Texts) /\ n \in 1..Len(Journey) /\ Journey[n] = p
    <3> DEFINE q == Payloads(Settled)
               s == taken \o <<p>>
    <3>1. Journey = s \o q /\ q \in Seq(Texts) /\ Journey \in Seq(Texts)
      BY <2>1, JourneyType DEF Journey, OnHand, p
    <3>2. taken \in Seq(Texts) /\ s \in Seq(Texts) /\ Len(s) = n /\ s[n] = p
      BY <2>2 DEF QueuesSound
    <3> HIDE DEF q, s
    <3>3. Len(s \o q) = Len(s) + Len(q) /\ \A i \in 1..Len(s) : (s \o q)[i] = s[i]
      <4>1. s \in Seq(Texts) /\ q \in Seq(Texts)
        BY <3>1, <3>2
      <4> QED BY <4>1, ConcatProperties
    <3>4. Len(q) \in Nat /\ n \in Nat /\ n > 0
      BY <3>1, <3>2
    <3> HIDE DEF n
    <3>5. n \in 1..Len(s) /\ n \in 1..Len(s \o q)
      BY <3>2, <3>3, <3>4
    <3> QED BY <3>1, <3>2, <3>3, <3>5
  <2> HIDE DEF n
  <2>5. \E j \in 1..Len(Of("other", Journey)) : Of("other", Journey)[j] = p
    BY <2>3, <2>4, OfFacts
  <2> QED BY <2>5 DEF Told, p
<1>2. ASSUME pc # "store"
      PROVE  LET journey == taken \o InHand \o Waiting
             IN /\ Of("other", journey) = sent
                /\ IF stopped = "queue_full"
                   THEN /\ ring.count = IPC_QUEUE_CAPACITY
                        /\ Keys(journey) = SubSeq(Typed, 1, typed - Len(kbd) - 1)
                   ELSE Keys(journey) \o kbd = Typed
  <2>1. OnHand = InHand /\ Settled = ring
    BY <1>2 DEF OnHand, InHand, Settled
  <2>2. Payloads(Settled) = Waiting
    BY <2>1 DEF Payloads, Waiting
  <2>3. Journey = taken \o InHand \o Waiting
    BY <2>1, <2>2 DEF Journey
  <2>4. stopped = "queue_full" => ring.count = IPC_QUEUE_CAPACITY
    BY DEF QueuesSound
  <2> QED BY <2>3, <2>4 DEF Told
<1> QED BY <1>1, <1>2 DEF KeysInOrder

\* What was typed is what the shell has taken, holds and finds waiting, followed by
\* what the controller holds, in order and unaltered, and the program's own
\* messages between them are in theirs; a panic of a full queue loses one key.
THEOREM OrderedKeys == Spec => []KeysInOrder
<1>1. Spec => [](QueuesSound /\ Told)
  BY InitTold, StepTold, AlwaysRuns, PTL DEF Spec
<1> QED BY <1>1, ToldInOrder, PTL

=============================================================================
