------------------------------ MODULE Ps2Setup ------------------------------
(***************************************************************************)
(* ps2_init of src/src/drivers/ps2.c against the 8042 controller, whose    *)
(* data port gives bytes in the order they came.  Every reply is read once *)
(* after a pause, whatever the status port says.  Interrupts are off.      *)
(***************************************************************************)
EXTENDS Integers, Sequences

VARIABLES
  setup,    \* where ps2_init is
  port,     \* the bytes the data port will give
  config,   \* what was read as the configuration byte
  excuse    \* history: what the controller or a key did to upset it

setupVars == <<setup, port, config, excuse>>

SCANCODE == 30
PASSED == 85
FAILED == 252
\* Configuration bytes; one has the value of a passed test.
Configs == {85, 87}

\* Keys pressed before the boot may wait in the port.
SetupInit ==
  /\ setup = "flush" /\ config = 0 /\ excuse = "none"
  /\ port \in {<<>>, <<SCANCODE>>}

\* Until the keyboard is disabled, its bytes go to the port.
StrayKey ==
  /\ setup \in {"flush", "disable"} /\ port = <<>>
  /\ port' = <<SCANCODE>>
  /\ excuse' = IF setup = "disable" THEN "stray key" ELSE excuse
  /\ UNCHANGED <<setup, config>>

Flush ==
  /\ setup = "flush"
  /\ IF port # <<>> THEN port' = Tail(port) /\ UNCHANGED setup
                    ELSE setup' = "disable" /\ UNCHANGED port
  /\ UNCHANGED <<config, excuse>>

DisableKeyboard ==
  /\ setup = "disable" /\ setup' = "config"
  /\ UNCHANGED <<port, config, excuse>>

\* A command is answered behind what waits already, and one byte is read.
Asked(answer) == Append(port, answer)

\* Wrong variant: a test's result is not looked at.
Untested(result, wanted) == TRUE
\* KERNEL_ASSERT on a result
Accepted(result, wanted) == result = wanted

\* The byte that is read is written back with IRQ1 enabled.
ReadConfig ==
  /\ setup = "config" /\ setup' = "selftest"
  /\ \E answer \in Configs :
       config' = Head(Asked(answer)) /\ port' = Tail(Asked(answer))
  /\ UNCHANGED excuse

Test(from, to, wanted) ==
  /\ setup = from
  /\ \E answer \in {wanted, FAILED} :
       /\ setup' = IF Accepted(Head(Asked(answer)), wanted) THEN to ELSE "failed"
       /\ port' = Tail(Asked(answer))
       /\ excuse' = IF answer = FAILED THEN "failed test" ELSE excuse
  /\ UNCHANGED config

SelfTest == Test("selftest", "iftest", PASSED)
InterfaceTest == Test("iftest", "enable", 0)

EnableKeyboard ==
  /\ setup = "enable" /\ setup' = "done"
  /\ config' = 0
  /\ UNCHANGED <<port, excuse>>

ps2_init ==
  \/ Flush \/ DisableKeyboard \/ ReadConfig \/ SelfTest \/ InterfaceTest \/ EnableKeyboard

SetupSpec == SetupInit /\ [][ps2_init \/ StrayKey]_setupVars

\* The replies are read one after another with no look at the status, and yet
\* none is ever taken for another's: the boot goes on only with the controller's
\* own configuration byte written back and an empty port, and it panics only if
\* a test failed or a key came after the last look at the port.
RepliesInStep ==
  /\ setup = "enable" => config \in Configs /\ port = <<>>
  /\ setup = "failed" => excuse # "none"

=============================================================================
