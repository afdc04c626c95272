------------------------------ MODULE MCKeyboard ------------------------------
(***************************************************************************)
(* Keyboard for TLC: programs write a character, a newline, and a text that *)
(* wraps and scrolls; none has a percent sign.  The copy of a screen that   *)
(* is left in the buffer of the displayed terminal is overwritten before it *)
(* is read, so LiveState leaves it out.                                     *)
(***************************************************************************)
EXTENDS Keyboard, TLC

Output    == {<<"a">>, <<NL>>, <<"A", "a", "A">>}
LiveState == <<cur_term, screen, [t \in Terms \ {cur_term} |-> terminal[t]],
               key_buffer_idx, [t \in Terms \ {cur_term} |-> saved_idx[t]],
               eflag, text, stat, held>>
Symmetry  == Permutations(Terms) \cup Permutations(Shifts)
=============================================================================
