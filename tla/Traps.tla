------------------------------- MODULE Traps -------------------------------
(***************************************************************************)
(* How the processor enters the kernel and leaves it again: the gates of   *)
(* src/src/arch/x86/cpu/idt.c, the segments and the task state segment     *)
(* (gdt.c, tss.c), the stubs around interrupts and system calls            *)
(* (irq_stub.asm, syscall_stub.asm), and jump_to_user.                     *)
(*                                                                         *)
(* A processor is a record, and each operator maps a processor to the      *)
(* next; flag is its interrupt flag.  A stack is the sequence of its       *)
(* words, its top the last; a word is a pair of what it is and which.      *)
(* Nothing relies on what is beyond the top of a stack, except             *)
(* jump_to_user, which leaves words there: they are saved, until something *)
(* is pushed over them.  Every frame is longer than they are.              *)
(***************************************************************************)
EXTENDS Integers, Sequences

STALE == <<"stale", "word">>
KERNEL_DS == <<"ds", "kernel">>
USER_DS == <<"ds", "user">>
POINTER == <<"pointer", "frame">>

\* The order of pusha, which popa goes back, skipping esp.
PUSHA == <<"eax", "ecx", "edx", "ebx", "esp", "ebp", "esi", "edi">>
POPA == [edi |-> 0, esi |-> 1, ebp |-> 2, ebx |-> 4, edx |-> 5, ecx |-> 6, eax |-> 7]
Registers == DOMAIN POPA
CallerSaved == {"eax", "ecx", "edx"}

\* ds stands for the four segment registers that always change together.
BootProcessor ==
  [reg |-> [r \in Registers |-> <<"kernel", r>>], ds |-> KERNEL_DS,
   cs |-> "kernel", flag |-> FALSE, on |-> "boot",
   mem |-> [s \in {"boot", "kernel_stack", "user"} |-> <<>>],
   saved |-> <<>>]

\* Wrong variant: the task state segment names the stack of the boot.
BootEsp0 == "boot"
\* write_tss: the stack, from its base up, for entries from user mode.
Esp0 == "kernel_stack"

esp(p) == <<p.on, Len(p.mem[p.on])>>
\* The word k places from the top.
Word(p, k) == p.mem[p.on][Len(p.mem[p.on]) - k]
Push(p, words) == [p EXCEPT !.mem[p.on] = @ \o words]
Drop(p, n) == [p EXCEPT !.mem[p.on] = SubSeq(@, 1, Len(@) - n)]

\* The words pusha pushes, and the registers popa takes k places from the top.
pusha(p) == [n \in 1..8 |-> IF PUSHA[n] = "esp" THEN esp(p) ELSE p.reg[PUSHA[n]]]
popa(p, k) == [r \in Registers |-> Word(p, k + POPA[r])]

\* A C function may change the registers that its caller saves.
CallC(p) == [p EXCEPT !.reg = [r \in Registers |-> IF r \in CallerSaved THEN STALE ELSE @[r]]]

-----------------------------------------------------------------------------
(* Entering and leaving through a gate.                                     *)

\* The gates of exceptions and interrupts are closed to user mode, that of the
\* system call is open; all of them clear the interrupt flag.
GateLevel(vector) == IF vector = 128 THEN 3 ELSE 0
Level(p) == IF p.cs = "user" THEN 3 ELSE 0
MayCall(p, vector) == Level(p) <= GateLevel(vector)

Enter(p, eip) ==
  LET on == IF p.cs = "user" THEN Esp0 ELSE p.on
      below == IF p.cs = "user" THEN <<<<"ss", p.cs>>, esp(p)>> ELSE p.mem[p.on]
  IN [p EXCEPT !.on = on,
               !.mem[on] = below \o <<<<"eflags", p.flag>>, <<"cs", p.cs>>, <<"eip", eip>>>>,
               !.saved = IF on = "boot" THEN <<>> ELSE @,
               !.cs = "kernel", !.flag = FALSE]

\* The place iret goes to, and the processor there.
ReturnPlace(p) == Word(p, 0)[2]
Iret(p) ==
  LET cs == Word(p, 1)[2]
  IN [Drop(p, IF cs = "user" THEN 5 ELSE 3)
        EXCEPT !.cs = cs, !.flag = Word(p, 2)[2],
               !.on = IF cs = "user" THEN Word(p, 3)[1] ELSE @]

-----------------------------------------------------------------------------
(* The stub of an interrupt.                                                *)

\* struct registers, from the top ds, the registers, the number and the error
\* code, below a pointer to it; the handler is in C.
IrqStub(p, number) ==
  LET registers == <<<<"err", "none">>, <<"number", number>>>> \o pusha(p) \o <<p.ds, POINTER>>
  IN CallC([Push(p, registers) EXCEPT !.ds = KERNEL_DS])
intr_num(p) == Word(p, 10)[2]

\* Wrong variant: the number stays on the stack.
NumberOnly == 1
\* The number and the error code.
NumberAndError == 2

IrqFrame(p) == [Drop(p, 10 + NumberAndError) EXCEPT !.reg = popa(p, 2), !.ds = Word(p, 1)]

-----------------------------------------------------------------------------
(* System calls.                                                            *)

SYSCALL_EXIT == 6

\* int 0x80 from user mode with a number in eax, up to the handler.
SyscallStub(p) == Push(p, Append(pusha(p), POINTER))

\* The handler puts the answer where eax was saved.
Answered(p, answer) == [p EXCEPT !.mem[p.on][Len(p.mem[p.on]) - 8] = answer]
SyscallReturn(p) == [Drop(p, 9) EXCEPT !.reg = popa(p, 1)]

\* syscall_return_to_kernel finds what jump_to_user saved, or what is there
\* instead, and its ret and execute_init_binary's go back to the boot.  The frame
\* of the system call stays on the kernel's stack and is forgotten.
SavedWord(p, i) == IF i <= Len(p.saved) THEN p.saved[i] ELSE STALE
ReturnToKernel(p) ==
  LET popped == [ebp |-> SavedWord(p, 2), ebx |-> SavedWord(p, 3), esi |-> SavedWord(p, 4), edi |-> SavedWord(p, 5),
                 eax |-> Word(p, 8)]
  IN [p EXCEPT !.reg = [r \in Registers |-> IF r \in DOMAIN popped THEN popped[r] ELSE @[r]],
               !.on = "boot", !.mem = BootProcessor.mem, !.saved = <<>>]

-----------------------------------------------------------------------------
(* jump_to_user.                                                            *)

\* The frame iretd takes: struct user_program_regs, a local of the caller.
UserFrame == <<<<"ss", "user">>, <<"user", 0>>, <<"eflags", TRUE>>, <<"cs", "user">>, <<"eip", "user">>>>

\* The caller's local and its call, then what jump_to_user saves.
CallJump(p) ==
  Push(p, UserFrame \o <<USER_DS, POINTER, <<"eip", "booted">>>>
            \o <<p.reg.ebp, p.reg.ebx, p.reg.esi, p.reg.edi>>)

\* The stack's top is moved to the caller's local: the words from
\* user_saved_kernel_esp to the return address are beyond it.
SwitchStack(p) ==
  LET words == p.mem[p.on]
  IN [Drop(p, 7) EXCEPT !.reg.eax = Word(p, 5), !.reg.ebx = Word(p, 6), !.ds = Word(p, 6),
                        !.saved = SubSeq(words, Len(words) - 4, Len(words))]

=============================================================================
