------------------------------ MODULE Commands ------------------------------
(***************************************************************************)
(* What the shell does with a line: shell_execute of                       *)
(* src/src/kernel/shell/init.c and the commands of cmd.c, one line after   *)
(* another.  datetime reads the clock of the machine register by register  *)
(* while it goes on; shutdown goes on as AcpiShutdown.                     *)
(***************************************************************************)
EXTENDS AcpiShutdown, Text, FiniteSets

CONSTANTS
  Lines(_, _),   \* the lines that may be entered, with the firmware's table and the colour
  Ticks,         \* values of the tick count
  Radix,         \* how many seconds, minutes, hours, days, months and years there are
  MaxSeconds,    \* bound on the seconds that pass while the clock is read
  kernel_start, kernel_end

ASSUME CommandsAssumption ==
  /\ Ticks \subseteq Nat /\ Radix \in Seq(1..100) /\ Len(Radix) = 6 /\ MaxSeconds \in Nat
  /\ kernel_start \in Nat /\ kernel_end \in Nat /\ kernel_start <= kernel_end

\* The line editor's buffer is shorter than that of kprintf.
ASSUME LinesAssumption ==
  \A text \in UNION {Lines(t, c) : t \in Tables, c \in 1..15} :
    IsText(text) /\ \A n \in 1..(Len(text) + 1) : Len(From(text, n) \o "\n") < PRINT_BUF_SIZE

VARIABLES
  line,       \* the line that was entered last
  printed,    \* what its command has printed, by calls of kprintf
  color,      \* term_color, on black
  doing,      \* the shell at its prompt or at a line, or what keeps it from there
  rtc,        \* the seconds of the century, while they are read
  registers,  \* those that datetime has read
  asked,      \* history: the tick count or the time when the command began
  passed,     \* history: how many seconds passed since
  rolled      \* history: a minute ended since

clock == <<rtc, registers, asked, passed, rolled>>
ReadClock(time) == rtc' = time /\ asked' = time /\ registers' = <<>> /\ passed' = 0 /\ rolled' = FALSE
commandVars == <<line, printed, color, doing, clock>>

TERMINAL_DEFAULT_FG == 15

CommandInit ==
  /\ ShutdownInit
  /\ line = "" /\ printed = <<>> /\ color = TERMINAL_DEFAULT_FG
  /\ doing = "prompt"
  /\ rtc = 0 /\ asked = 0 /\ registers = <<>> /\ passed = 0 /\ rolled = FALSE

-----------------------------------------------------------------------------
(* The words of a line.                                                     *)

\* Wrong variant: the blanks before the word are not counted.
AfterWordOf(text, start, cmd) == From(text, Len(cmd) + 1)
AfterWord(text, start, cmd) == From(start, Len(cmd) + 1)

\* The first word, and what follows the blanks after it; "" for a null pointer.
Parsed(text) ==
  LET start == SkipBlanks(text)
      cmd == strtok(start)
  IN [cmd |-> cmd, args |-> SkipBlanks(AfterWord(text, start, cmd))]

cmd == Parsed(line).cmd
args == Parsed(line).args

Plain == {"help", "clear", "ver", "uptime", "meminfo", "reboot", "halt", "datetime", "shutdown"}
WithArguments == {"echo", "color"}

\* shell_run calls shell_execute with each line; the line editor is Shell's.
EnterLine ==
  /\ doing = "prompt" /\ doing' = "execute"
  /\ line' \in Lines(table, color)
  /\ printed' = <<>> /\ ReadClock(0)
  /\ UNCHANGED <<shutdownVars, color>>

\* A command prints, and leaves the shell somewhere.
Executes == doing = "execute" /\ UNCHANGED <<shutdownVars, line>>
Prints(texts) == printed' = texts
ComesBack == doing' = "prompt" /\ UNCHANGED clock
Does == Executes /\ ComesBack /\ UNCHANGED color

\* And a line for each command.
HELP == <<kprintf("Available commands:\n", <<>>)>>

-----------------------------------------------------------------------------
(* shell_execute, up to the command.                                        *)

EnterBlank == Does /\ cmd = "" /\ Prints(<<>>)

RefuseArguments ==
  /\ Does /\ cmd \in Plain /\ args # ""
  /\ Prints(<<kprintf("Error: Command '%s' does not accept arguments.\n", <<cmd>>)>> \o HELP)

UnknownCommand ==
  /\ Does /\ cmd \notin Plain \cup WithArguments \cup {""}
  /\ Prints(<<kprintf("Unknown command: %s\n", <<cmd>>)>> \o HELP)

Runs(name) == cmd = name /\ args = ""

-----------------------------------------------------------------------------
(* The commands that print.                                                 *)

cmd_help == Does /\ Runs("help") /\ Prints(HELP)
cmd_clear == Does /\ Runs("clear") /\ Prints(<<"clear">>)
cmd_ver == Does /\ Runs("ver") /\ Prints(<<kprintf("KeiOS %d.%d.%d\n", <<0, 14, 1>>)>>)

cmd_echo ==
  /\ Does /\ cmd = "echo"
  /\ Prints(<<IF args # "" THEN kprintf("%s\n", <<args>>) ELSE kprintf("\n", <<>>)>>)

cmd_meminfo ==
  LET size == kernel_end - kernel_start
  IN /\ Does /\ Runs("meminfo")
     /\ Prints(<<kprintf("System Memory Information:\n", <<>>),
                 kprintf("  Kernel Start: 0x%08x\n", <<kernel_start>>),
                 kprintf("  Kernel End:   0x%08x\n", <<kernel_end>>),
                 kprintf("  Kernel Size:  %d KB (%d bytes)\n", <<size \div 1024, size>>)>>)

\* The count stands still here; Uptime lets it go on.
cmd_uptime ==
  /\ Executes /\ Runs("uptime")
  /\ \E ticks \in Ticks :
       LET secs == ticks \div 1000
           mins == secs \div 60
       IN /\ Prints(<<kprintf("%02ld:%02d:%02d.%03d\n",
                             <<mins \div 60, mins % 60, secs % 60, ticks % 1000>>)>>)
          /\ asked' = ticks
  /\ doing' = "prompt" /\ UNCHANGED <<color, rtc, registers, passed, rolled>>

-----------------------------------------------------------------------------
(* color.                                                                   *)

NAMES == <<"blue", "green", "cyan", "red", "magenta", "brown", "white", "gray",
           "lblue", "lgreen", "lcyan", "lred", "lmagenta", "lyellow", "lwhite">>

\* What the argument may come to; -1 is neither a name nor a number.
Named == {n \in 1..15 : NAMES[n] = args}
Chosen ==
  IF Named # {} THEN Named
  ELSE IF \A c \in Chars(args) : IsDigit(c) THEN atoi(args)
  ELSE {-1}

Offered(n) == n \in 1..15

ColorUsage ==
  /\ Does /\ cmd = "color" /\ args = ""
  /\ Prints(<<kprintf("Usage: color <number 1-15> or <color name>\n", <<>>)>> \o HELP)

ColorInvisible ==
  /\ Does /\ cmd = "color" /\ args # "" /\ 0 \in Chosen
  /\ Prints(<<kprintf("Error: Color 0 (black) makes text invisible on a black background.\n", <<>>)>> \o HELP)

ColorInvalid ==
  /\ Does /\ cmd = "color" /\ args # "" /\ \E n \in Chosen : n # 0 /\ ~Offered(n)
  /\ Prints(<<kprintf("Invalid color specified. Please choose between 1 and 15.\n", <<>>)>> \o HELP)

cmd_color ==
  /\ Executes /\ cmd = "color" /\ args # ""
  /\ color' \in {n \in Chosen : Offered(n)}
  /\ Prints(<<>>) /\ ComesBack

-----------------------------------------------------------------------------
(* datetime.                                                                *)

\* The fields, from the seconds to the years, and how many seconds a unit of each has.
Unit[field \in 1..6] == IF field = 1 THEN 1 ELSE Unit[field - 1] * Radix[field - 1]
Century == Unit[6] * Radix[6]

\* The clock gives its fields in BCD.
Register(field) ==
  LET value == (rtc \div Unit[field]) % Radix[field] IN (value \div 10) * 16 + (value % 10)
bcd_to_binary(bcd) == (bcd \div 16) * 10 + (bcd % 16)

\* Wrong variant: the year is read first.
YearFirst == <<6, 5, 4, 3, 2, 1>>
Order == <<1, 2, 3, 4, 5, 6>>

BeginDatetime ==
  /\ Executes /\ Runs("datetime") /\ Prints(<<>>) /\ doing' = "datetime"
  /\ \E time \in 0..(Century - 1) : ReadClock(time)
  /\ UNCHANGED color

Second ==
  /\ doing = "datetime" /\ passed < MaxSeconds /\ rtc + 1 < Century
  /\ rtc' = rtc + 1 /\ passed' = passed + 1
  /\ rolled' = (rolled \/ rtc' % Radix[1] = 0)
  /\ UNCHANGED <<shutdownVars, line, printed, color, doing, registers, asked>>

read_cmos_reg ==
  /\ doing = "datetime" /\ Len(registers) < 6
  /\ registers' = Append(registers, bcd_to_binary(Register(Order[Len(registers) + 1])))
  /\ UNCHANGED <<shutdownVars, line, printed, color, doing, rtc, asked, passed, rolled>>

Got(field) == registers[CHOOSE n \in 1..6 : Order[n] = field]

ShowDatetime ==
  /\ doing = "datetime" /\ Len(registers) = 6
  /\ Prints(<<kprintf("20%02d-%02d-%02d %02d:%02d:%02d\n", <<Got(6), Got(5), Got(4), Got(3), Got(2), Got(1)>>)>>)
  /\ doing' = "prompt" /\ ReadClock(0)
  /\ UNCHANGED <<shutdownVars, line, color>>

-----------------------------------------------------------------------------
(* The commands that stop the machine.                                      *)

Stops(name, text, as) ==
  /\ Executes /\ Runs(name) /\ Prints(<<kprintf(text, <<>>)>>)
  /\ doing' = as /\ UNCHANGED <<color, clock>>

\* One of reboot_raw's ways resets the machine, or it stays where it is.
cmd_reboot == Stops("reboot", "Rebooting...\n", "stopped")
cmd_halt == Stops("halt", "Halting CPU...\n", "stopped")
Stopped == doing = "stopped" /\ UNCHANGED <<shutdownVars, commandVars>>

\* The boot has seen to it that there is a table.
cmd_shutdown == Stops("shutdown", "Shutting down...\n", "shutdown")
acpi_shutdown == doing = "shutdown" /\ ShutdownNext /\ UNCHANGED commandVars

shell_execute ==
  \/ EnterBlank \/ RefuseArguments \/ UnknownCommand
  \/ cmd_help \/ cmd_clear \/ cmd_echo \/ cmd_ver \/ cmd_uptime \/ cmd_meminfo
  \/ ColorUsage \/ ColorInvisible \/ ColorInvalid \/ cmd_color
  \/ BeginDatetime \/ cmd_reboot \/ cmd_halt \/ cmd_shutdown

CommandNext ==
  \/ EnterLine \/ shell_execute
  \/ Second \/ read_cmos_reg \/ ShowDatetime
  \/ acpi_shutdown \/ Stopped

CommandSpec == CommandInit /\ [][CommandNext]_<<shutdownVars, commandVars>>

-----------------------------------------------------------------------------
(* Properties.                                                              *)

\* The words of a text, as intervals, and what a line says: its first word, and
\* the text from its second word on.
Words(text) ==
  {w \in (1..Len(text)) \X (1..Len(text)) :
     /\ w[1] <= w[2]
     /\ \A n \in w[1]..w[2] : Char(text, n) # " "
     /\ w[1] = 1 \/ Char(text, w[1] - 1) = " "
     /\ w[2] = Len(text) \/ Char(text, w[2] + 1) = " "}
InOrder(text, k) == {w \in Words(text) : Cardinality({v \in Words(text) : v[1] <= w[1]}) = k}
Said(text) ==
  [name |-> IF Words(text) = {} THEN "" ELSE LET w == CHOOSE w \in InOrder(text, 1) : TRUE IN SubSeq(text, w[1], w[2]),
   argument |-> IF InOrder(text, 2) = {} THEN "" ELSE From(text, (CHOOSE w \in InOrder(text, 2) : TRUE)[1])]

\* The colours an argument names or numbers; a number too long for an int may come
\* out as any.
IsNumber(text) == text # "" /\ \A c \in Chars(text) : IsDigit(c)
Colours(argument) ==
  {n \in 1..15 : \/ argument = NAMES[n]
                 \/ IsNumber(argument) /\ (Value(argument) = n \/ Value(argument) > INT_MAX)}

\* Each line does what its words say, whatever blanks stand around them: a command
\* that leaves the prompt was asked for without a word more, echo repeats the text
\* from the second word on, and the colour becomes the one that was named or
\* numbered, and no other.
CommandMeant ==
  [][doing = "execute" =>
       LET said == Said(line)
       IN /\ doing' # "prompt" =>
               said.name \in {"datetime", "reboot", "halt", "shutdown"} /\ said.argument = ""
          /\ said.name = "echo" => printed' = <<said.argument \o "\n">>
          /\ IF said.name = "color" /\ Colours(said.argument) # {}
             THEN color' \in Colours(said.argument) \cup (IF Cardinality(Colours(said.argument)) = 1 THEN {} ELSE {color})
             ELSE color' = color]_<<shutdownVars, commandVars>>

\* The number that stands in a text, or -1.
Number(text, first, last) ==
  IF first \in 1..last /\ last <= Len(text) /\ IsNumber(SubSeq(text, first, last))
  THEN Value(SubSeq(text, first, last)) ELSE -1

\* The time since the start, and the date, read back from the screen, are those that
\* were taken from the tick count and from the clock's registers: no digit is lost
\* on the way, not even a zero.
TimesReadBack ==
  [][LET text == printed'[1]
         n == Len(text)
     IN /\ doing = "execute" /\ Said(line) = [name |-> "uptime", argument |-> ""] =>
             LET hours == Number(text, 1, n - 11)
                 mins == Number(text, n - 9, n - 8)
                 secs == Number(text, n - 6, n - 5)
             IN /\ mins \in 0..59 /\ secs \in 0..59
                /\ asked' = ((hours * 60 + mins) * 60 + secs) * 1000 + Number(text, n - 3, n - 1)
        /\ doing = "datetime" /\ doing' = "prompt" =>
             \A field \in 1..6 :
               Number(text, 21 - 3 * field, 22 - 3 * field) = Got(field)]_<<shutdownVars, commandVars>>

\* The date that was read is never behind the time at which it was asked for, and it
\* is ahead of the clock only if a minute ended meanwhile.
DateNear ==
  doing = "datetime" /\ Len(registers) = 6 =>
    LET shown == Got(1) * Unit[1] + Got(2) * Unit[2] + Got(3) * Unit[3]
                   + Got(4) * Unit[4] + Got(5) * Unit[5] + Got(6) * Unit[6]
    IN shown >= asked /\ (shown <= rtc \/ rolled)

=============================================================================
