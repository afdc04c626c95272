------------------------------ MODULE TermInput ------------------------------
(***************************************************************************)
(* Line input: the keyboard interrupt puts keys into the buffer of the      *)
(* displayed terminal (keyboard.c), switch_terminal exchanges the buffer    *)
(* index (terminal.c), and terminal_read waits for ENTER, copies a buffer   *)
(* and clears it, with interrupts enabled throughout.  Every terminal has a *)
(* process that calls terminal_read again and again; the scheduler lets any *)
(* of them take its next step.                                              *)
(***************************************************************************)
EXTENDS Integers, Sequences, SequencesExt, FiniteSets

CONSTANTS
    Terms,              \* the terminals
    Keys,               \* printable keys
    KEY_BUFFER_SIZE,    \* keys a buffer holds; it has one cell more
    NUM_BYTES,          \* num_bytes of the calls of terminal_read
    MAX_IDX,            \* bound: how far ENTER may push key_buffer_idx, and
                        \* how many keys may be unread in a terminal
    Races               \* subset of {"typeahead", "switch"}, see below

(***************************************************************************)
(* Races: "typeahead": keys are pressed after ENTER, before terminal_read   *)
(* has returned the line; "switch": Alt-Fn is pressed in that time.         *)
(***************************************************************************)
NUL == "nul"
NL  == "nl"

ASSUME InputAssumption ==
    /\ NL \notin Keys
    /\ KEY_BUFFER_SIZE \in Nat \ {0}
    /\ NUM_BYTES \in Nat \ {0}
    /\ MAX_IDX \in Nat /\ MAX_IDX > KEY_BUFFER_SIZE
    /\ Races \subseteq {"typeahead", "switch"}

Cells == 0 .. KEY_BUFFER_SIZE
\* What terminal_read copies: num_bytes - 1 cells, at most KEY_BUFFER_SIZE.
COPIED == IF NUM_BYTES - 1 < KEY_BUFFER_SIZE THEN NUM_BYTES - 1 ELSE KEY_BUFFER_SIZE
\* A key is remembered together with the terminal it was typed in.
Typed == [key : Keys \cup {NL}, from : Terms]
Empty == [key |-> NUL, from |-> "none"]

VARIABLES
    key_buffer,     \* terminal[t].key_buffer
    saved_idx,      \* terminal[t].key_buffer_idx
    key_buffer_idx, \* the index into the displayed terminal's buffer
    eflag,          \* terminal[t].eflag
    cur_term,       \* the displayed terminal; the pointer key_buffer follows it
    pc,             \* where the process of t is in terminal_read
    i,              \* its loop counter
    buffer,         \* its user buffer
    pending         \* history: what was typed in t and not yet returned

kbdVars  == <<key_buffer, saved_idx, key_buffer_idx, cur_term>>
readVars == <<pc, i, buffer>>
vars == <<kbdVars, readVars, eflag, pending>>

Init ==
    /\ key_buffer = [t \in Terms |-> [c \in Cells |-> Empty]]
    /\ saved_idx = [t \in Terms |-> 0]
    /\ key_buffer_idx = 0
    /\ eflag = [t \in Terms |-> 0]
    /\ cur_term \in Terms
    /\ pc = [t \in Terms |-> "idle"]
    /\ i = [t \in Terms |-> 0]
    /\ buffer = [t \in Terms |-> [c \in 0 .. COPIED - 1 |-> Empty]]
    /\ pending = [t \in Terms |-> <<>>]

-----------------------------------------------------------------------------
\* A line has been entered in t and terminal_read has not yet returned it.
LineInFlight(t) == eflag[t] = 1 \/ pc[t] \notin {"idle", "wait"}

MayType   ==
    /\ "typeahead" \in Races \/ ~LineInFlight(cur_term)
    /\ Len(pending[cur_term]) < MAX_IDX
MaySwitch == "switch" \in Races \/ \A t \in Terms : ~LineInFlight(t)

\* add_key_buff, under the test of handle_key_press.
press(k) ==
    LET cell == [key |-> k, from |-> cur_term] IN
    /\ MayType
    /\ key_buffer_idx < KEY_BUFFER_SIZE
    /\ key_buffer' = [key_buffer EXCEPT ![cur_term][key_buffer_idx] = cell]
    /\ key_buffer_idx' = key_buffer_idx + 1
    /\ pending' = [pending EXCEPT ![cur_term] = Append(@, cell)]
    /\ UNCHANGED <<saved_idx, cur_term, eflag, readVars>>

\* Mutant: the index goes back and the key stays.
erase_index_only == key_buffer' = key_buffer

erase == key_buffer' = [key_buffer EXCEPT ![cur_term][key_buffer_idx - 1] = Empty]

\* Mutant: BACKSPACE at the start of the line is let through.
Erasable_always == TRUE

Erasable == key_buffer_idx > 0

backspace ==
    /\ MayType
    /\ Erasable
    /\ key_buffer_idx' = key_buffer_idx - 1
    /\ erase
    /\ pending' = [pending EXCEPT
                      ![cur_term] = IF @ = <<>> THEN <<>> ELSE Front(@)]
    /\ UNCHANGED <<saved_idx, cur_term, eflag, readVars>>

\* ENTER stores the newline with no test of the index.  A store beyond the
\* array is not followed further; the index shows it.
enter ==
    LET cell == [key |-> NL, from |-> cur_term] IN
    /\ MayType
    /\ key_buffer_idx < MAX_IDX
    /\ eflag' = [eflag EXCEPT ![cur_term] = 1]
    /\ key_buffer' = IF key_buffer_idx \in Cells
                     THEN [key_buffer EXCEPT ![cur_term][key_buffer_idx] = cell]
                     ELSE key_buffer
    /\ key_buffer_idx' = key_buffer_idx + 1
    /\ pending' = [pending EXCEPT ![cur_term] = Append(@, cell)]
    /\ UNCHANGED <<saved_idx, cur_term, readVars>>

\* Mutant: the index of the terminal that is left is not saved.
save_restore_no_save(old, new) ==
    /\ UNCHANGED saved_idx
    /\ key_buffer_idx' = saved_idx[new]

save_restore(old, new) ==
    /\ saved_idx' = [saved_idx EXCEPT ![old] = key_buffer_idx]
    /\ key_buffer_idx' = saved_idx[new]

switch_terminal(t) ==
    /\ MaySwitch
    /\ t # cur_term
    /\ save_restore(cur_term, t)
    /\ cur_term' = t
    /\ UNCHANGED <<key_buffer, eflag, readVars, pending>>

-----------------------------------------------------------------------------
Goto(t, label) == pc' = [pc EXCEPT ![t] = label]

read_call(t) ==
    /\ pc[t] = "idle"
    /\ Goto(t, "wait")
    /\ buffer' = [buffer EXCEPT ![t] = [c \in 0 .. COPIED - 1 |-> Empty]]
    /\ UNCHANGED <<kbdVars, eflag, i, pending>>

\* Mutant: the loop waits for the displayed terminal's flag.
EnterSeen_displayed(t) == eflag[cur_term] = 1

EnterSeen(t) == eflag[t] = 1

read_wake(t) ==
    /\ pc[t] = "wait" /\ EnterSeen(t)
    /\ Goto(t, "reset")
    /\ UNCHANGED <<kbdVars, eflag, i, buffer, pending>>

read_reset(t) ==
    /\ pc[t] = "reset"
    /\ eflag' = [eflag EXCEPT ![t] = 0]
    /\ i' = [i EXCEPT ![t] = 0]
    /\ Goto(t, "copy")
    /\ UNCHANGED <<kbdVars, buffer, pending>>

\* The copy loop goes through the global pointer, the displayed buffer.
read_copy(t) ==
    /\ pc[t] = "copy"
    /\ IF i[t] < COPIED
       THEN /\ buffer' = [buffer EXCEPT ![t][i[t]] = key_buffer[cur_term][i[t]]]
            /\ i' = [i EXCEPT ![t] = @ + 1]
            /\ UNCHANGED pc
       ELSE /\ i' = [i EXCEPT ![t] = 0]
            /\ Goto(t, "clear")
            /\ UNCHANGED buffer
    /\ UNCHANGED <<kbdVars, eflag, pending>>

\* Mutant: clear_buf forgets the index.
clear_idx_lost == UNCHANGED key_buffer_idx

clear_idx == key_buffer_idx' = 0

\* What is left to return once the first line of s has been.
AfterLine(s) ==
    LET ends == {n \in DOMAIN s : s[n].key = NL} IN
    IF ends = {} THEN <<>>
    ELSE SubSeq(s, (CHOOSE n \in ends : \A m \in ends : n <= m) + 1, Len(s))

\* clear_buf, one cell at a time, and the return.
read_clear(t) ==
    /\ pc[t] = "clear"
    /\ IF i[t] < KEY_BUFFER_SIZE
       THEN /\ key_buffer' = [key_buffer EXCEPT ![cur_term][i[t]] = Empty]
            /\ i' = [i EXCEPT ![t] = @ + 1]
            /\ UNCHANGED <<key_buffer_idx, pc, pending>>
       ELSE /\ clear_idx
            /\ i' = [i EXCEPT ![t] = 0]
            /\ Goto(t, "idle")
            /\ pending' = [pending EXCEPT ![t] = AfterLine(@)]
            /\ UNCHANGED key_buffer
    /\ UNCHANGED <<saved_idx, cur_term, eflag, buffer>>

terminal_read(t) ==
    read_call(t) \/ read_wake(t) \/ read_reset(t) \/ read_copy(t) \/ read_clear(t)

Next ==
    \/ \E k \in Keys : press(k)
    \/ backspace
    \/ enter
    \/ \E t \in Terms : switch_terminal(t)
    \/ \E t \in Terms : terminal_read(t)

Spec == Init /\ [][Next]_vars

\* The scheduler gives every terminal its turn; nobody owes us a key.
FairSpec == Spec /\ \A t \in Terms : WF_vars(terminal_read(t))

-----------------------------------------------------------------------------
\* The values the variables of line input take: the cells hold keys, the
\* saved index of every terminal and the one in use stay below the bound.
TypeOK ==
    /\ key_buffer \in [Terms -> [Cells -> Typed \cup {Empty}]]
    /\ saved_idx \in [Terms -> 0 .. MAX_IDX]
    /\ key_buffer_idx \in 0 .. MAX_IDX
    /\ eflag \in [Terms -> {0, 1}]
    /\ cur_term \in Terms
    /\ pc \in [Terms -> {"idle", "wait", "reset", "copy", "clear"}]
    /\ i \in [Terms -> 0 .. KEY_BUFFER_SIZE]
    /\ buffer \in [Terms -> [0 .. COPIED - 1 -> Typed \cup {Empty}]]
    /\ pending \in [Terms -> Seq(Typed)]

Index(t) == IF t = cur_term THEN key_buffer_idx ELSE saved_idx[t]
CellOf(s, c) == IF c < Len(s) THEN s[c + 1] ELSE Empty

\* Outside terminal_read's copying, the buffer and index of every terminal,
\* displayed or not, hold exactly what was typed there and not yet returned,
\* whatever was typed and erased in the others meanwhile.
BufferMatchesTyped ==
    \A t \in Terms : pc[t] \in {"idle", "wait", "reset"} =>
        /\ Index(t) = Len(pending[t])
        /\ \A c \in 0 .. KEY_BUFFER_SIZE - 1 :
               key_buffer[t][c] = CellOf(pending[t], c)

\* terminal_read returns the line that was entered in its own terminal, as
\* much of it as fits, and nothing else.
LineDelivered ==
    [][\A t \in Terms : pc[t] = "clear" /\ pc'[t] = "idle" =>
           \A c \in 0 .. COPIED - 1 : buffer[t][c] = CellOf(pending[t], c)]_vars

\* The buffer index never passes the end of the buffer: the newline's cell is
\* the last one, the "+1" of key_buffer[KEY_BUFFER_SIZE+1].
IndexInBuffer == key_buffer_idx <= KEY_BUFFER_SIZE + 1

\* "fills user buffer with terminal's input buffer data": a process is only
\* given keys that were typed in its own terminal.
OwnInput ==
    \A t \in Terms : \A c \in DOMAIN buffer[t] :
        buffer[t][c] # Empty => buffer[t][c].from = t

\* A process that waits in terminal_read returns once ENTER has been pressed
\* in its terminal, whatever is pressed or displayed afterwards.
EnterWakesReader ==
    \A t \in Terms : pc[t] = "wait" /\ eflag[t] = 1 ~> pc[t] = "idle"
=============================================================================
