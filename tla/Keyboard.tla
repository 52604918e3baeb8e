------------------------------ MODULE Keyboard ------------------------------
(***************************************************************************)
(* The keyboard driver of src/src/drivers/ps2.c: keyboard_handler turns    *)
(* the bytes of scan code set 1, one per interrupt, into keys, and carries *)
(* the modifiers and the 0xE0 prefix from one interrupt to the next.       *)
(*                                                                         *)
(* The keyboard runs ahead of the driver: what is pressed while bytes wait *)
(* must be told apart by the bytes alone.  InputPath says when the handler *)
(* runs and what becomes of a key it publishes.                            *)
(***************************************************************************)
EXTENDS Integers, FiniteSets, Sequences, SequencesExt

CONSTANTS
  Keys,     \* <<scancode, extended>> of the keys in use
  Fingers,  \* bound: keys that are down at once
  Backlog   \* bound: the keyboard adds to no more than this many bytes

SC_LSHIFT == 42
SC_RSHIFT == 54
SC_LCTRL == 29     \* with the prefix, SC_EXT_RCTRL
SC_LALT == 56      \* with the prefix, SC_EXT_RALT
SC_CAPSLOCK == 58
SC_EXTENDED == 224
SC_ARROWS == {72, 80, 75, 77}
ErrorBytes == {0, 225}
Up(sc) == sc + 128   \* the code of its release

\* No key's release has the code of the prefix or of an error.
ASSUME KeyboardAssumption ==
  /\ Keys \subseteq (1..(Up(0) - 1)) \X BOOLEAN
  /\ \A k \in Keys : Up(k[1]) \notin ErrorBytes \cup {SC_EXTENDED}
  /\ Fingers \in Nat /\ Backlog \in Nat

VARIABLES
  held,             \* keys that are down, and
  caps,             \* whether Caps Lock was made an odd number of times
  wire,             \* bytes that the keyboard has sent and nobody has read
  owed,             \* history: keys typed and not yet published
  modifier_state,   \* set of the MOD_ flags
  extended_prefix,
  key               \* what the last run of the handler published

keyboard == <<held, caps, wire, owed>>
driver == <<modifier_state, extended_prefix, key>>
keyboardVars == <<keyboard, driver>>

None == <<>>

-----------------------------------------------------------------------------
(* What a scan code stands for.                                             *)

is_letter(sc) == sc \in 16..25 \cup 30..38 \cup 44..50
\* Rows of the tables that hold a character; Enter and Backspace have none
\* with Shift.
Shifted == 2..13 \cup 16..27 \cup 30..41 \cup 43..53 \cup {55, 57, 74, 78}
Unshifted == Shifted \cup {14, 28}
Ascii(sc, shift) ==
  IF sc \in (IF shift THEN Shifted ELSE Unshifted) THEN <<sc, shift>> ELSE None

\* The key that a code without the prefix publishes.
Typed(sc, shift, capslock) ==
  Ascii(sc, IF is_letter(sc) /\ capslock THEN ~shift ELSE shift)
Arrow(sc) == IF sc \in SC_ARROWS THEN <<sc, "arrow">> ELSE None

\* The flag that a code sets or clears.
Modifier(sc, extended) ==
  CASE sc = SC_LSHIFT /\ ~extended -> {"LSHIFT"}
    [] sc = SC_RSHIFT /\ ~extended -> {"RSHIFT"}
    [] sc = SC_LCTRL -> {IF extended THEN "RCTRL" ELSE "LCTRL"}
    [] sc = SC_LALT -> {IF extended THEN "RALT" ELSE "LALT"}
    [] OTHER -> {}

KeyboardInit ==
  /\ held = {} /\ caps = FALSE /\ wire = <<>> /\ owed = <<>>
  /\ modifier_state = {} /\ extended_prefix = FALSE /\ key = None

-----------------------------------------------------------------------------
(* The keyboard.                                                            *)

\* An extended key may come with the codes that undo Shift or Num Lock.
FakeShifts == {<<>>} \cup {<<SC_EXTENDED, sc>> : sc \in {SC_LSHIFT, Up(SC_LSHIFT), Up(SC_RSHIFT)}}

\* The key that pressing k means, with the modifiers as they then are.
Meaning(k) ==
  IF k[2] THEN Arrow(k[1])
  ELSE Typed(k[1], {<<SC_LSHIFT, FALSE>>, <<SC_RSHIFT, FALSE>>} \cap held # {}, caps)

Sends(bytes) ==
  /\ Len(wire) <= Backlog
  /\ wire' = wire \o bytes
  /\ UNCHANGED driver

\* A key goes down, or repeats while it is held.
Press(k) ==
  /\ held' = held \cup {k} /\ Cardinality(held') <= Fingers
  /\ caps' = (caps # (k = <<SC_CAPSLOCK, FALSE>>))
  /\ owed' = IF Meaning(k) = None THEN owed ELSE Append(owed, Meaning(k))
  /\ IF k[2] THEN \E f \in FakeShifts : Sends(f \o <<SC_EXTENDED, k[1]>>)
     ELSE Sends(<<k[1]>>)

Release(k) ==
  /\ k \in held /\ held' = held \ {k}
  /\ IF k[2] THEN \E f \in FakeShifts : Sends(<<SC_EXTENDED, Up(k[1])>> \o f)
     ELSE Sends(<<Up(k[1])>>)
  /\ UNCHANGED <<caps, owed>>

\* Pause sends its release with its press; with Ctrl it is another key.
Pause ==
  /\ \A k \in held : k[1] # SC_LCTRL
  /\ Sends(<<225, SC_LCTRL, 69, 225, Up(SC_LCTRL), Up(69)>>)
  /\ UNCHANGED <<held, caps, owed>>

\* The keyboard reports an error, between any two bytes.
Error ==
  /\ Len(wire) <= Backlog /\ 0 \notin Range(wire)
  /\ \E i \in 1..(Len(wire) + 1) : wire' = InsertAt(wire, i, 0)
  /\ UNCHANGED <<held, caps, owed, driver>>

-----------------------------------------------------------------------------
(* keyboard_handler, a byte at a time.                                      *)

Scancode == Head(wire)
IsBreak == Scancode >= Up(0)
Make == Scancode % Up(0)

Reads ==
  /\ wire # <<>> /\ wire' = Tail(wire)
  /\ UNCHANGED <<held, caps>>

publish_key(k) ==
  /\ key' = k
  /\ owed' = IF k = None \/ owed = <<>> THEN owed ELSE Tail(owed)

HandleError ==
  /\ Reads /\ Scancode \in ErrorBytes
  /\ publish_key(None)
  /\ UNCHANGED <<modifier_state, extended_prefix>>

HandlePrefix ==
  /\ Reads /\ Scancode = SC_EXTENDED
  /\ extended_prefix' = TRUE
  /\ publish_key(None)
  /\ UNCHANGED modifier_state

IsCode == Scancode \notin ErrorBytes \cup {SC_EXTENDED}

\* Wrong variant: only a key that goes down ends the prefix.
PrefixAfterMake == IsBreak
PrefixAfter == FALSE

HandleExtended ==
  /\ Reads /\ IsCode /\ extended_prefix
  /\ extended_prefix' = PrefixAfter
  /\ IF IsBreak
     THEN /\ modifier_state' = modifier_state \ Modifier(Make, TRUE)
          /\ publish_key(None)
     ELSE /\ modifier_state' = modifier_state \cup Modifier(Make, TRUE)
          /\ publish_key(Arrow(Make))

\* Wrong variant: a release of either Shift is taken for the left one's.
ClearsLeft(sc) == Modifier(IF sc = SC_RSHIFT THEN SC_LSHIFT ELSE sc, FALSE)
Clears(sc) == Modifier(sc, FALSE)
clear_modifiers ==
  /\ Reads /\ IsCode /\ ~extended_prefix /\ IsBreak
  /\ modifier_state' = modifier_state \ Clears(Make)
  /\ publish_key(None)
  /\ UNCHANGED extended_prefix

update_modifiers ==
  IF Make = SC_CAPSLOCK
  THEN (modifier_state \ {"CAPSLOCK"}) \cup ({"CAPSLOCK"} \ modifier_state)
  ELSE modifier_state \cup Modifier(Make, FALSE)

\* Wrong variant: only the left Shift counts.
LeftShift(m) == "LSHIFT" \in m
AnyShift(m) == m \cap {"LSHIFT", "RSHIFT"} # {}
HandleMake ==
  /\ Reads /\ IsCode /\ ~extended_prefix /\ ~IsBreak
  /\ modifier_state' = update_modifiers
  /\ publish_key(Typed(Make, AnyShift(modifier_state'), "CAPSLOCK" \in modifier_state'))
  /\ UNCHANGED extended_prefix

keyboard_handler ==
  HandleError \/ HandlePrefix \/ HandleExtended \/ clear_modifiers \/ HandleMake

KeyboardNext ==
  \/ \E k \in Keys : Press(k) \/ Release(k)
  \/ Pause \/ Error
  \/ keyboard_handler

KeyboardSpec == KeyboardInit /\ [][KeyboardNext]_keyboardVars

-----------------------------------------------------------------------------
(* Properties.                                                              *)

\* Once every byte is read the driver knows which modifiers are down, also
\* after codes that only pretend to move a Shift, and waits for no code.
ModifiersTrack ==
  wire = <<>> =>
    /\ modifier_state =
         (UNION {Modifier(k[1], k[2]) : k \in held}) \cup (IF caps THEN {"CAPSLOCK"} ELSE {})
    /\ ~extended_prefix

\* A key is published as it was when it was typed, in that order, although
\* its bytes are read after the modifiers may have changed again.
PublishedAsTyped ==
  [][keyboard_handler => key' = None \/ (owed # <<>> /\ key' = Head(owed))]_keyboardVars

\* No key that has a meaning is forgotten.
NoneForgotten == wire = <<>> => owed = <<>>

=============================================================================
