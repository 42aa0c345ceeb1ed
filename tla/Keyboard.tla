------------------------------- MODULE Keyboard -------------------------------
(***************************************************************************)
(* The keyboard: src/drivers/keyboard.c, from the bytes the controller     *)
(* sends to the events and characters that system calls read.              *)
(*                                                                         *)
(* A byte is the prefix 0xe0 or a scan code with its release bit; a scan   *)
(* code is named after the key that has it.  The interrupt takes one byte, *)
(* so a read can come between the two bytes of an extended key.            *)
(***************************************************************************)
EXTENDS Integers, Sequences

CONSTANTS
    Letters, Symbols,   \* keys in base_map
    CapsLocks,          \* the caps lock key
    Named,              \* escape, backspace, tab and enter
    Extended,           \* arrows and the like, sent after the prefix
    Shifts, Ctrls, Alts,            \* modifier keys
    ExtendedModifiers,              \* those among them sent after the prefix
    BufferSize,         \* KEYBOARD_BUFFER_SIZE
    MaxWire             \* bytes the controller holds

Modifiers == Shifts \cup Ctrls \cup Alts
Typed == Letters \cup Symbols \cup Named \cup Extended \cup CapsLocks
Prefixed == Extended \cup ExtendedModifiers

ASSUME KeyboardAssumption ==
    /\ BufferSize \in Nat /\ BufferSize > 1 /\ MaxWire \in Nat
    /\ ExtendedModifiers \subseteq Ctrls \cup Alts
    /\ Modifiers \cap Typed = {}
    /\ Shifts \cap Ctrls = {} /\ Shifts \cap Alts = {} /\ Ctrls \cap Alts = {}
    /\ "e0" \notin Typed \cup Modifiers     \* the prefix is no scan code

VARIABLES
    kbd,        \* the driver's variables
    wire,       \* bytes the interrupt has not taken yet
    held,       \* modifier keys that are down
    pending     \* history: events accepted and not yet read

vars == <<kbd, wire, held, pending>>

Prefix == [key |-> "e0", released |-> FALSE]
Code(key, released) == [key |-> key, released |-> released]
NoChar == <<"none", "none">>

-----------------------------------------------------------------------------
(* The driver; k is its state.                                             *)

current_modifiers(k) ==
    {m \in {"shift", "ctrl", "alt", "caps"} :
        CASE m = "shift" -> k.shift_down [] m = "ctrl" -> k.ctrl_down
          [] m = "alt" -> k.alt_down [] m = "caps" -> k.caps_lock}

Event(k, key, ch) == [key |-> key, ch |-> ch, modifiers |-> current_modifiers(k)]

next(i) == (i + 1) % BufferSize

(* Mutant: the buffer is never taken to be full.                           *)
never_full(k) == FALSE

full(k) == next(k.write_index) = k.read_index

push_event(k, event) ==
    IF full(k) THEN k
    ELSE [k EXCEPT !.buffer[k.write_index] = event, !.write_index = next(@)]

(* The character of a key of the maps.                                     *)
char_of(k, key) ==
    IF key \in Letters
    THEN <<IF k.ctrl_down THEN "ctrl" ELSE IF k.shift_down # k.caps_lock THEN "upper" ELSE "lower",
           key>>
    ELSE <<IF k.shift_down THEN "upper" ELSE "lower", key>>

(* Mutant: a release is not told from a press.                             *)
modified_down(k, byte) ==
    IF byte.key \in Shifts THEN [k EXCEPT !.shift_down = TRUE]
    ELSE IF byte.key \in Ctrls THEN [k EXCEPT !.ctrl_down = TRUE]
    ELSE [k EXCEPT !.alt_down = TRUE]

(* A modifier goes down or up; left and right share a flag.                *)
modified(k, byte) ==
    IF byte.key \in Shifts THEN [k EXCEPT !.shift_down = ~byte.released]
    ELSE IF byte.key \in Ctrls THEN [k EXCEPT !.ctrl_down = ~byte.released]
    ELSE [k EXCEPT !.alt_down = ~byte.released]

(* The event of a byte, if it makes one: after the prefix, and without.    *)
extended_event(k, byte) ==
    IF byte.key \in Extended /\ ~byte.released THEN {Event(k, byte.key, NoChar)} ELSE {}
plain_event(k, byte) ==
    IF byte.released THEN {}
    ELSE IF byte.key \in Named THEN {Event(k, byte.key, <<"lower", byte.key>>)}
    ELSE IF byte.key \in Letters \cup Symbols THEN {Event(k, "char", char_of(k, byte.key))}
    ELSE {}

(* A byte after the prefix: a shift code there is no shift.                *)
extended_byte(k, byte) ==
    IF byte.key \in Ctrls \cup Alts THEN modified(k, byte) ELSE k
plain_byte(k, byte) ==
    IF byte.key \in Modifiers THEN modified(k, byte)
    ELSE IF byte.key \in CapsLocks /\ ~byte.released THEN [k EXCEPT !.caps_lock = ~@]
    ELSE k

Pushed(k, events) == IF events = {} THEN k ELSE push_event(k, CHOOSE e \in events : TRUE)

(* What the interrupt does with the events byte makes in state k.          *)
Accept(k, events) ==
    /\ kbd' = Pushed(k, events)
    /\ pending' = IF events # {} /\ Len(pending) < BufferSize - 1
                  THEN Append(pending, CHOOSE e \in events : TRUE) ELSE pending

(* keyboard_irq.                                                           *)
KeyboardIrq ==
    /\ wire # <<>>
    /\ wire' = Tail(wire)
    /\ \/ /\ Head(wire) = Prefix
          /\ Accept([kbd EXCEPT !.extended_scancode = TRUE], {})
       \/ /\ Head(wire) # Prefix /\ kbd.extended_scancode
          /\ Accept(extended_byte([kbd EXCEPT !.extended_scancode = FALSE], Head(wire)),
                    extended_event(kbd, Head(wire)))
       \/ /\ Head(wire) # Prefix /\ ~kbd.extended_scancode
          /\ Accept(plain_byte(kbd, Head(wire)), plain_event(kbd, Head(wire)))
    /\ UNCHANGED held

(* keyboard_read_event.                                                    *)
ReadEvent ==
    /\ kbd.read_index # kbd.write_index
    /\ kbd' = [kbd EXCEPT !.read_index = next(@)]
    /\ pending' = IF pending = <<>> THEN pending ELSE Tail(pending)
    /\ UNCHANGED <<wire, held>>

Pending(k) == (k.write_index + BufferSize - k.read_index) % BufferSize

(* Positions, counted from the next to be read, of events with characters. *)
characters(k) ==
    {i \in 0 .. Pending(k) - 1 : k.buffer[(k.read_index + i) % BufferSize].ch # NoChar}

(* History: what is left to read behind the first event with a character.  *)
BehindCharacter(events) ==
    LET typed == {i \in 1 .. Len(events) : events[i].ch # NoChar}
    IN  IF typed = {} THEN <<>>
        ELSE SubSeq(events, 1 + CHOOSE i \in typed : \A j \in typed : i <= j, Len(events))

(* keyboard_read_char: events without a character are thrown away.         *)
ReadChar ==
    /\ kbd.read_index # kbd.write_index
    /\ LET n == IF characters(kbd) = {} THEN Pending(kbd)
                ELSE 1 + CHOOSE i \in characters(kbd) : \A j \in characters(kbd) : i <= j
       IN  kbd' = [kbd EXCEPT !.read_index = (@ + n) % BufferSize]
    /\ pending' = BehindCharacter(pending)
    /\ UNCHANGED <<wire, held>>

-----------------------------------------------------------------------------
(* The keys (external).  Keys that are held repeat, so a typed key may be  *)
(* pressed again at any time; its release sends a byte as well.            *)

Send(key, released) ==
    LET bytes == (IF key \in Prefixed THEN <<Prefix>> ELSE <<>>) \o <<Code(key, released)>>
    IN  Len(wire \o bytes) <= MaxWire /\ wire' = wire \o bytes

Type == \E key \in Typed, released \in BOOLEAN : Send(key, released) /\ UNCHANGED <<kbd, held, pending>>
Press == \E key \in Modifiers : Send(key, FALSE) /\ held' = held \cup {key} /\ UNCHANGED <<kbd, pending>>
Release == \E key \in held : Send(key, TRUE) /\ held' = held \ {key} /\ UNCHANGED <<kbd, pending>>

Init ==
    /\ kbd = [buffer |-> [i \in 0 .. BufferSize - 1 |-> NoChar], read_index |-> 0, write_index |-> 0,
              shift_down |-> FALSE, ctrl_down |-> FALSE, alt_down |-> FALSE,
              caps_lock |-> FALSE, extended_scancode |-> FALSE]
    /\ wire = <<>> /\ held = {} /\ pending = <<>>

Next == KeyboardIrq \/ ReadEvent \/ ReadChar \/ Type \/ Press \/ Release

Spec == Init /\ [][Next]_vars

-----------------------------------------------------------------------------
(* Properties.                                                             *)

(* Readers get the events in the order they were typed, each once, and     *)
(* none is lost or overwritten unless BufferSize - 1 were waiting.         *)
KeysInOrder ==
    pending = [i \in 1 .. Pending(kbd) |-> kbd.buffer[(kbd.read_index + i - 1) % BufferSize]]

(* No modifier sticks: once the controller's bytes are taken, a flag that  *)
(* is set has its key down, left or right; and no prefix waits for a byte  *)
(* that was part of another key.                                           *)
NoStuckModifier ==
    wire = <<>> =>
        /\ kbd.shift_down => held \cap Shifts # {}
        /\ kbd.ctrl_down => held \cap Ctrls # {}
        /\ kbd.alt_down => held \cap Alts # {}
        /\ ~kbd.extended_scancode

=============================================================================
