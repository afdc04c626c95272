------------------------------- MODULE Keyboard -------------------------------
(***************************************************************************)
(* The keyboard interrupt (keyboard.c): scan codes, the state of the        *)
(* modifier keys, and the key code that handle_key_press is given.  With    *)
(* the output of programs it is all that happens to the screens.            *)
(***************************************************************************)
EXTENDS Screen

CONSTANT Shifts \* the shift keys: left and right

CTRL == "ctrl"
ALT  == "alt"
Modifiers == {CTRL, ALT} \cup Shifts
\* Scan codes: KEY_L and another letter, a key without a capital, and the
\* two that edit the line.
Letters   == {"KEY_L", "letter"}
ScanCodes == Letters \cup {"symbol", "BACKSPACE", "KEY_ENTER"}
\* What a key prints without and with shift.
Ascii == [unshifted |-> "a", shifted |-> "A"]

ASSUME KeyboardAssumption ==
    /\ Ascii.unshifted \in Glyphs /\ Ascii.shifted \in Glyphs
    /\ CTRL \notin Shifts /\ ALT \notin Shifts

VARIABLES
    stat,   \* ctrl_stat, shift_stat, alt_stat and caps_stat
    held    \* history: the modifier keys that are held down

vars == <<screenVars, stat, held>>

KeyboardInit ==
    /\ Init
    /\ stat = [ctrl |-> 0, shift |-> 0, alt |-> 0, caps |-> 0]
    /\ held = {}

Flag(m) == IF m \in Shifts THEN "shift" ELSE m

modifier_pressed(m) ==
    /\ m \in Shifts => held \cap Shifts \subseteq {m} \/ "two_shifts" \in Windows
    /\ stat' = [stat EXCEPT ![Flag(m)] = 1]
    /\ held' = held \cup {m}
    /\ UNCHANGED screenVars

\* Mutant: the release of a shift key is lost.
Released_not_shift(m) == IF m \in Shifts THEN 1 ELSE 0

Released(m) == 0

modifier_released(m) ==
    /\ m \in held
    /\ stat' = [stat EXCEPT ![Flag(m)] = Released(m)]
    /\ held' = held \ {m}
    /\ UNCHANGED screenVars

\* Caps Lock toggles when it is pressed; its release does nothing.
caps_pressed ==
    /\ stat' = [stat EXCEPT !.caps = 1 - @]
    /\ UNCHANGED <<held, screenVars>>

\* Mutant: Ctrl with a key that it does not combine with types the key.
Ctrl_types(scancode) == stat.ctrl = 1 /\ scancode = "KEY_L"

\* Control takes only Ctrl-L for itself and drops all else but line editing.
Ctrl(scancode) == stat.ctrl = 1 /\ scancode \notin {"BACKSPACE", "KEY_ENTER"}

\* scan2ascii and the exchange of upper and lower case by Caps Lock.
Shifted(scancode) ==
    IF scancode \in Letters THEN stat.shift # stat.caps ELSE stat.shift = 1

Char(scancode) == IF Shifted(scancode) THEN Ascii.shifted ELSE Ascii.unshifted

\* The handler, for the press of a key that is not a modifier.  A release,
\* and a key that gets no key code, changes nothing.
key_pressed(scancode) ==
    /\ IF stat.alt = 1 THEN scancode = "BACKSPACE" /\ press_backspace
       ELSE IF Ctrl(scancode) THEN scancode = "KEY_L" /\ press_ctrl_l
       ELSE \/ scancode = "BACKSPACE" /\ press_backspace
            \/ scancode = "KEY_ENTER" /\ press_enter
            \/ scancode \in Letters \cup {"symbol"} /\ press(Char(scancode))
    /\ UNCHANGED <<stat, held>>

\* Alt-Fn.
function_key(t) ==
    /\ stat.alt = 1
    /\ switch_terminal(t)
    /\ UNCHANGED <<stat, held>>

keyboard_interrupt_handler ==
    \/ \E m \in Modifiers : modifier_pressed(m) \/ modifier_released(m)
    \/ caps_pressed
    \/ \E s \in ScanCodes : key_pressed(s)
    \/ \E t \in Terms : function_key(t)

process(t) ==
    /\ terminal_read(t) \/ \E buf \in Texts : terminal_write(t, buf)
    /\ UNCHANGED <<stat, held>>

Next == keyboard_interrupt_handler \/ \E t \in Terms : process(t)

Spec == KeyboardInit /\ [][Next]_vars

-----------------------------------------------------------------------------
ScreenType == [x : Cols, y : Rows, mem : [Rows \X Cols -> Glyphs \cup {BLANK}]]

\* The types of the screens, the line indices and the modifier state: every
\* cursor is on its screen.
TypeOK ==
    /\ cur_term \in Terms
    /\ screen \in ScreenType
    /\ terminal \in [Terms -> ScreenType]
    /\ key_buffer_idx \in 0 .. MAX_IDX
    /\ saved_idx \in [Terms -> 0 .. MAX_IDX]
    /\ eflag \in [Terms -> {0, 1}]
    /\ stat \in [{"ctrl", "shift", "alt", "caps"} -> {0, 1}]
    /\ held \subseteq Modifiers

\* A modifier counts as pressed exactly while a key of that kind is held: no
\* order of presses and releases leaves one stuck.
ModifiersFollowKeys ==
    /\ stat.ctrl = 1 <=> CTRL \in held
    /\ stat.alt = 1 <=> ALT \in held
    /\ stat.shift = 1 <=> held \cap Shifts # {}

\* "alt should only be able to backspace and control should only be able to
\* take in backspace and return" (Buglog.txt): while Alt is held nothing enters
\* a line, and while Control is held only the newline does, in whatever order
\* the keys went down and terminals were switched.
NothingTypedWithAltOrCtrl ==
    [][cur_term' = cur_term /\ key_buffer_idx' = key_buffer_idx + 1 =>
          /\ ALT \notin held
          /\ CTRL \in held => eflag'[cur_term] = 1 /\ screen'.x = 0]_vars
=============================================================================
