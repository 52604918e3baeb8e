----------------------------- MODULE MCCommands -----------------------------
(***************************************************************************)
(* Lines with blanks before, between and behind the words, every command   *)
(* with and without arguments, and numbers about the bounds, INT_MAX       *)
(* included.  The clock is read with one colour; each of the tables of     *)
(* MCAcpiShutdown is met by "shutdown" alone, one of them by every line.   *)
(***************************************************************************)
EXTENDS Commands, MCAcpiShutdown

Blanks == {"", " ", "  "}
Arguments == {"", "a", "a  b ", "color"}
Colors == {"0", "1", "007", "15", "16", "256", "999", "1000", "blue", "lwhite", "lwhit", "5 ", "-1", "5a"}

MCLines ==
  {before \o name \o " " \o blanks \o argument :
     before \in Blanks, blanks \in Blanks, argument \in Arguments, name \in {"echo", "color", "ech", "uptime"}}
  \cup {"color " \o chosen : chosen \in Colors}
  \cup {name \o argument : name \in Plain \ {"datetime", "shutdown"}, argument \in {"", " x"}}
  \cup Blanks \cup {"shutdown x", "datetime  x", "echo"}

AnyTable == CHOOSE t \in MCTables : TRUE
EveryLine(t, c) ==
  IF t # AnyTable THEN {"shutdown"}
  ELSE IF c = 15 THEN MCLines \cup {" datetime ", "shutdown"}
  ELSE MCLines

Second1 == {0, 9, 999, 1000, 59999, 60000, 61010}
Hour1 == {3599999, 3600000, 36000000, 360000000 + 101}
MCTicks == Second1 \cup Hour1
MCRadix == <<12, 2, 2, 2, 2, 2>>
=============================================================================
