-------------------------------- MODULE Screen --------------------------------
(***************************************************************************)
(* The screens of the terminals (lib.c, terminal.c).  The displayed one is  *)
(* video memory with the cursor screen_x, screen_y; every other terminal    *)
(* has a buffer and a cursor of its own, and a second copy of the output    *)
(* functions (.._term_exec, .._terminal_active) that works on it.           *)
(* save_restore moves screens between the two.  Output and key presses run  *)
(* with interrupts disabled, so each is one step.                           *)
(*                                                                          *)
(* Left out: colours, of which every terminal has one, and the directives   *)
(* of printf that take an argument: terminal_write passes none.             *)
(***************************************************************************)
EXTENDS Integers, Sequences, SequencesExt

CONSTANTS
    Terms,              \* the terminals
    NUM_ROWS, NUM_COLS, \* the size of a screen
    KEY_BUFFER_SIZE,    \* keys a line holds
    MAX_IDX,            \* bound: how far ENTER may push key_buffer_idx
    Glyphs,             \* what is printed; all non-blank
    Texts,              \* what programs write: sequences of glyphs and NL; no
                        \* directive of printf that takes an argument
    Windows             \* subset of {"ctrl_l", "two_shifts"}, see below

(***************************************************************************)
(* Windows: "ctrl_l": Ctrl-L is pressed in the middle of a line;            *)
(* "two_shifts": both shift keys are held at a time (module Keyboard).      *)
(***************************************************************************)
NL    == "nl"
PCT   == "%"
BLANK == " "
Rows  == 0 .. NUM_ROWS - 1
Cols  == 0 .. NUM_COLS - 1

ASSUME ScreenAssumption ==
    /\ NUM_ROWS \in Nat \ {0} /\ NUM_COLS \in Nat \ {0}
    /\ KEY_BUFFER_SIZE \in Nat \ {0}
    /\ MAX_IDX \in Nat /\ MAX_IDX > KEY_BUFFER_SIZE
    \* BACKSPACE over a whole line stays on the screen: 24 rows of 80 cells
    \* lie above the last one.
    /\ MAX_IDX <= NUM_COLS * (NUM_ROWS - 1)
    /\ BLANK \notin Glyphs /\ NL \notin Glyphs
    /\ \A s \in Texts : s \in Seq(Glyphs \cup {NL})
    /\ Windows \subseteq {"ctrl_l", "two_shifts"}

VARIABLES
    cur_term,       \* the displayed terminal
    screen,         \* screen_x, screen_y and the characters in video memory
    terminal,       \* pos_x, pos_y and video_mem of every terminal
    key_buffer_idx, \* the index into the displayed terminal's line
    saved_idx,      \* terminal[t].key_buffer_idx
    eflag,          \* terminal[t].eflag
    text            \* history: the lines that t's screen ought to show

lineVars   == <<key_buffer_idx, saved_idx, eflag>>
screenVars == <<cur_term, screen, terminal, lineVars, text>>

Cleared == [rc \in Rows \X Cols |-> BLANK]

Init ==
    /\ cur_term \in Terms
    /\ screen = [x |-> 0, y |-> 0, mem |-> Cleared]
    /\ terminal = [t \in Terms |-> screen]
    /\ key_buffer_idx = 0
    /\ saved_idx = [t \in Terms |-> 0]
    /\ eflag = [t \in Terms |-> 0]
    /\ text = [t \in Terms |-> << <<>> >>]

-----------------------------------------------------------------------------
(***************************************************************************)
(* The output functions, on a screen s.  Positions are unsigned words: a    *)
(* row or column of -1 is not less than NUM_ROWS or NUM_COLS.               *)
(***************************************************************************)
Scrolled(mem) ==
    [rc \in Rows \X Cols |-> IF rc[1] = NUM_ROWS - 1 THEN BLANK
                             ELSE mem[<<rc[1] + 1, rc[2]>>]]

scroll_up(s) == [s EXCEPT !.mem = Scrolled(@), !.x = 0]

\* The second half of set_screen_pos.
set_row(s, y) == IF y \in Rows THEN [s EXCEPT !.y = y]
                 ELSE [scroll_up(s) EXCEPT !.y = NUM_ROWS - 1]

enter(s) == set_row([s EXCEPT !.x = 0], s.y + 1)

set_screen_pos(s, x, y) == IF x \in Cols THEN set_row([s EXCEPT !.x = x], y)
                           ELSE enter(s)

backspace(s) ==
    LET b == IF s.x = 0 THEN set_screen_pos(s, NUM_COLS - 1, s.y - 1)
             ELSE set_screen_pos(s, s.x - 1, s.y)
    IN [b EXCEPT !.mem[<<b.y, b.x>>] = BLANK]

clear(s) == [s EXCEPT !.mem = Cleared]

putc(s, c) ==
    IF c = NL THEN enter(s)
    ELSE set_screen_pos([s EXCEPT !.mem[<<s.y, s.x>>] = c], s.x + 1, s.y)

\* What printf makes of a format: two percent signs are one, and a directive
\* it does not know is nothing.
directive(r, c) ==
    IF r.open THEN [open |-> FALSE, out |-> IF c = PCT THEN Append(r.out, c) ELSE r.out]
    ELSE IF c = PCT THEN [r EXCEPT !.open = TRUE]
    ELSE [r EXCEPT !.out = Append(@, c)]

Printed(format) == FoldLeft(directive, [open |-> FALSE, out |-> <<>>], format).out

printf(s, format) == FoldLeft(putc, s, Printed(format))

\* Mutant: the row wraps to the top and nothing scrolls.
set_row_term_exec_wrap(s, y) == [s EXCEPT !.y = y % NUM_ROWS]

\* The second copy, on terminal[cur_active_terminal].
set_row_term_exec(s, y) ==
    IF y \in Rows THEN [s EXCEPT !.y = y]
    ELSE [s EXCEPT !.mem = Scrolled(@), !.x = 0, !.y = NUM_ROWS - 1]

set_screen_pos_term_exec(s, x, y) ==
    IF x \in Cols THEN set_row_term_exec([s EXCEPT !.x = x], y)
    ELSE set_row_term_exec([s EXCEPT !.x = 0], s.y + 1)

putc_terminal_active(s, c) ==
    IF c = NL THEN set_screen_pos_term_exec(s, 0, s.y + 1)
    ELSE set_screen_pos_term_exec([s EXCEPT !.mem[<<s.y, s.x>>] = c], s.x + 1, s.y)

printf_terminal_active(s, format) ==
    FoldLeft(putc_terminal_active, s, Printed(format))

-----------------------------------------------------------------------------
(***************************************************************************)
(* What the screens ought to show: the last lines of a text in which a line *)
(* ends at a newline or at the right margin.                                *)
(***************************************************************************)
NewLine(l) == LET m == Append(l, <<>>) IN IF Len(m) > NUM_ROWS THEN Tail(m) ELSE m

Add(l, c) ==
    IF c = NL THEN NewLine(l)
    ELSE LET m == Append(Front(l), Append(Last(l), c)) IN
         IF Len(Last(m)) = NUM_COLS THEN NewLine(m) ELSE m

\* One place back; at the left margin, to the end of the row above.
Erase(l) ==
    IF Last(l) # <<>> THEN Append(Front(l), Front(Last(l)))
    ELSE IF Len(l) = 1 THEN l
    ELSE LET above == l[Len(l) - 1] IN
         Append(SubSeq(l, 1, Len(l) - 2),
                [c \in 1 .. NUM_COLS - 1 |-> IF c <= Len(above) THEN above[c] ELSE BLANK])

-----------------------------------------------------------------------------
(***************************************************************************)
(* handle_key_press, for a key code that is not zero.                       *)
(***************************************************************************)
Shows(l) == text' = [text EXCEPT ![cur_term] = l]

press(c) ==
    /\ key_buffer_idx < KEY_BUFFER_SIZE
    /\ key_buffer_idx' = key_buffer_idx + 1
    /\ screen' = putc(screen, c)
    /\ Shows(Add(text[cur_term], c))
    /\ UNCHANGED <<cur_term, terminal, saved_idx, eflag>>

\* Mutant: BACKSPACE at the start of the line is let through.
Erasable_always == TRUE

Erasable == key_buffer_idx > 0

press_backspace ==
    /\ Erasable
    /\ key_buffer_idx' = key_buffer_idx - 1
    /\ screen' = backspace(screen)
    /\ Shows(Erase(text[cur_term]))
    /\ UNCHANGED <<cur_term, terminal, saved_idx, eflag>>

press_enter ==
    /\ key_buffer_idx < MAX_IDX
    /\ eflag' = [eflag EXCEPT ![cur_term] = 1]
    /\ key_buffer_idx' = key_buffer_idx + 1
    /\ screen' = enter(screen)
    /\ Shows(Add(text[cur_term], NL))
    /\ UNCHANGED <<cur_term, terminal, saved_idx>>

press_ctrl_l ==
    /\ key_buffer_idx = 0 \/ "ctrl_l" \in Windows
    /\ screen' = set_screen_pos(clear(screen), 0, 0)
    /\ Shows(<< <<>> >>)
    /\ UNCHANGED <<cur_term, terminal, lineVars>>

\* save_restore of the terminal that is left, then of the one that is shown.
switch_terminal(t) ==
    /\ t # cur_term
    /\ terminal' = [terminal EXCEPT ![cur_term] = screen]
    /\ saved_idx' = [saved_idx EXCEPT ![cur_term] = key_buffer_idx]
    /\ screen' = [set_screen_pos(screen, terminal[t].x, terminal[t].y)
                     EXCEPT !.mem = terminal[t].mem]
    /\ key_buffer_idx' = saved_idx[t]
    /\ cur_term' = t
    /\ UNCHANGED <<eflag, text>>

\* The end of terminal_read of a process of t: clear_buf resets the index of
\* the displayed terminal.
terminal_read(t) ==
    /\ eflag[t] = 1
    /\ eflag' = [eflag EXCEPT ![t] = 0]
    /\ key_buffer_idx' = 0
    /\ UNCHANGED <<cur_term, screen, terminal, saved_idx, text>>

\* cur_term = cur_active_terminal, for a process of t.
Displayed(t) == t = cur_term

terminal_write(t, buf) ==
    /\ IF Displayed(t)
       THEN screen' = printf(screen, buf) /\ UNCHANGED terminal
       ELSE /\ terminal' = [terminal EXCEPT ![t] = printf_terminal_active(@, buf)]
            /\ UNCHANGED screen
    /\ text' = [text EXCEPT ![t] = FoldLeft(Add, @, buf)]
    /\ UNCHANGED <<cur_term, lineVars>>

-----------------------------------------------------------------------------
ScreenOf(t) == IF t = cur_term THEN screen ELSE terminal[t]

\* Every terminal, displayed or not, shows its own text and nothing else, its
\* cursor at the text's end, whatever was written, typed, erased, scrolled
\* and displayed meanwhile: the two copies of the output functions agree, and
\* no switch loses or mixes output.
ScreenShowsText ==
    \A t \in Terms :
        LET s == ScreenOf(t)
            l == text[t]
        IN
        /\ s.y = Len(l) - 1 /\ s.x = Len(Last(l))
        /\ \A rc \in Rows \X Cols :
               s.mem[rc] = IF rc[1] < Len(l) /\ rc[2] < Len(l[rc[1] + 1])
                           THEN l[rc[1] + 1][rc[2] + 1] ELSE BLANK
=============================================================================
